--------------------------- MODULE StatusFeedProofs ---------------------------
(***************************************************************************)
(* The status feed implements StatusStream, for any set of calls, streams  *)
(* and status codes; and MCServer is the feed and the RTSP server.         *)
(***************************************************************************)
EXTENDS MCServer, RtspServerProofs, TLAPS

\* Only a report about the stream changes its current status.
LEMMA CurrentAppend ==
  ASSUME NEW l \in Seq(Statuses), NEW s \in Statuses, NEW i \in Ids
  PROVE  Stream!Current(Append(l, s), i) = IF s.id = i THEN s ELSE Stream!Current(l, i)
<1> DEFINE n == Len(l)
           m == Append(l, s)
<1>1. /\ n \in Nat /\ Len(m) = n + 1 /\ m[n + 1] = s
      /\ \A k \in 1 .. n : m[k] = l[k]
  OBVIOUS
<1>2. CASE s.id = i
  <2>1. n + 1 \in Stream!About(m, i) /\ \A k \in Stream!About(m, i) : k <= n + 1
    BY <1>1, <1>2 DEF Stream!About
  <2>2. Stream!Latest(m, i) = {s}
    <3>1. \A k \in Stream!About(m, i) : k \in Int
      BY <1>1 DEF Stream!About
    <3>2. {k \in Stream!About(m, i) : \A j \in Stream!About(m, i) : j <= k} = {n + 1}
      BY <1>1, <2>1, <3>1
    <3> QED
      BY <1>1, <3>2 DEF Stream!Latest
  <2> QED
    BY <1>2, <2>1, <2>2 DEF Stream!Current
<1>3. CASE s.id # i
  <2>1. Stream!About(m, i) = Stream!About(l, i)
    BY <1>1, <1>3 DEF Stream!About
  <2>2. \A k \in Stream!About(l, i) : m[k] = l[k]
    BY <1>1 DEF Stream!About
  <2>3. Stream!Latest(m, i) = Stream!Latest(l, i)
    BY <2>1, <2>2 DEF Stream!Latest
  <2> QED
    BY <1>3, <2>1, <2>3 DEF Stream!Current, Stream!Unspecified
<1> QED
  BY <1>2, <1>3

-----------------------------------------------------------------------------
(* Type correctness. *)

LEMMA InitFeedTypes == FeedInit => FeedTypeOK
BY DEF FeedInit, FeedTypeOK, Statuses, NoStatus

LEMMA CurrentStatusType ==
  ASSUME FeedTypeOK, NEW i \in Ids
  PROVE  CurrentStatusForId(i) \in Messages
BY DEF FeedTypeOK, CurrentStatusForId, Messages

\* What a call has received stays a sequence of messages.
LEMMA OnNextType ==
  ASSUME FeedTypeOK, NEW c \in Calls, NEW m \in Messages, OnNext(c, m)
  PROVE  received' \in [Calls -> Seq(Messages)] /\ streamStatusObservers' \subseteq Calls
<1>1. received[c] \in Seq(Messages)
  BY DEF FeedTypeOK
<1>2. Append(received[c], m) \in Seq(Messages)
  BY <1>1
<1>3. received \in [Calls -> Seq(Messages)] /\ streamStatusObservers \subseteq Calls
  BY DEF FeedTypeOK
<1> HIDE DEF Messages
<1> QED
  BY <1>2, <1>3 DEF OnNext

LEMMA NextFeedTypes == FeedTypeOK /\ [FeedNext]_feedVars => FeedTypeOK'
<1> SUFFICES ASSUME FeedTypeOK, [FeedNext]_feedVars PROVE FeedTypeOK'
  OBVIOUS
<1> USE FeedAssumption DEF FeedAssumption, feed, sending, history
<1>1. ASSUME NEW s \in Statuses, Report(s)
      PROVE  FeedTypeOK'
  <2>1. lastStatusById' \in [Ids -> Statuses \cup {NoStatus}]
    BY <1>1 DEF FeedTypeOK, Report
  <2>2. log' \in Seq(Statuses)
    BY <1>1 DEF FeedTypeOK, Report
  <2> QED
    BY <1>1, <2>1, <2>2 DEF FeedTypeOK, Report
<1>2. CASE ReportDone
  BY <1>2 DEF FeedTypeOK, ReportDone
<1>3. ASSUME NEW c \in Calls, Notify(c)
      PROVE  FeedTypeOK'
  <2>1. message \in Messages
    BY <1>3 DEF FeedTypeOK, Notify, Messages
  <2> QED
    BY <1>3, <2>1, OnNextType DEF FeedTypeOK, Notify
<1>4. ASSUME NEW c \in Calls, Watch(c) \/ Register(c)
      PROVE  FeedTypeOK'
  BY <1>4 DEF FeedTypeOK, Watch, Register
<1>5. ASSUME NEW c \in Calls, Prime(c)
      PROVE  FeedTypeOK'
  <2>1. CurrentStatusForId(askedFor[c]) \in Messages
    BY CurrentStatusType DEF FeedTypeOK
  <2>2. received' \in [Calls -> Seq(Messages)] /\ streamStatusObservers' \subseteq Calls
    BY <1>5, <2>1, OnNextType DEF Prime
  <2>3. from' \in [Calls -> Nat]
    BY <1>5 DEF FeedTypeOK, Prime
  <2> QED
    BY <1>5, <2>2, <2>3 DEF FeedTypeOK, Prime
<1>6. ASSUME NEW c \in Calls, Break(c) \/ Cancel(c) \/ CancelHandler(c)
      PROVE  FeedTypeOK'
  BY <1>6 DEF FeedTypeOK, Break, Cancel, CancelHandler
<1>7. CASE UNCHANGED feedVars
  BY <1>7 DEF FeedTypeOK, feedVars
<1> QED
  BY <1>1, <1>2, <1>3, <1>4, <1>5, <1>6, <1>7 DEF FeedNext, CallStep

\* Every variable of the feed has its type, for any calls, streams and codes.
THEOREM FeedTypes == FeedSpec => []FeedTypeOK
BY InitFeedTypes, NextFeedTypes, PTL DEF FeedSpec

-----------------------------------------------------------------------------
(* FeedInv is inductive. *)

LEMMA InitFeedInv == FeedInit => FeedInv
<1> SUFFICES ASSUME FeedInit PROVE FeedInv
  OBVIOUS
<1> USE FeedAssumption DEF FeedAssumption, FeedInit
<1>1. LockInv /\ RegisteredInv /\ ProgressInv
  BY DEF LockInv, RegisteredInv, ProgressInv
<1>2. CacheInv
  <2>1. \A i \in Ids : Stream!About(log, i) = {}
    BY DEF Stream!About
  <2> QED
    BY <2>1 DEF CacheInv, CurrentStatusForId, Unspecified, Stream!Current, Stream!Unspecified
<1> QED
  BY <1>1, <1>2 DEF FeedInv

\* The lock serialises registration, priming and broadcasts.
LEMMA NextLockInv == FeedTypeOK /\ LockInv /\ [FeedNext]_feedVars => LockInv'
<1> SUFFICES ASSUME FeedTypeOK, LockInv, [FeedNext]_feedVars PROVE LockInv'
  OBVIOUS
<1>0. /\ phase \in [Calls -> {"none", "entered", "registered", "primed"}]
      /\ streamStatusObservers \subseteq Calls /\ toNotify \subseteq Calls
      /\ statusLock \in {"free", "report"} \cup Calls
      /\ log \in Seq(Statuses)
  BY DEF FeedTypeOK
<1> USE FeedAssumption, <1>0 DEF FeedAssumption, LockInv, feed, sending, history
<1>1. ASSUME NEW s \in Statuses, Report(s)
      PROVE  LockInv'
  <2>1. log' # <<>> /\ log'[Len(log')] = s
    BY <1>1 DEF Report
  <2>2. \A c \in streamStatusObservers : phase[c] = "primed"
    BY <1>1 DEF Report
  <2> QED
    BY <1>1, <2>1, <2>2 DEF Report
<1>2. CASE ReportDone
  BY <1>2 DEF ReportDone
<1>3. ASSUME NEW c \in Calls, Notify(c)
      PROVE  LockInv'
  <2>1. streamStatusObservers' \subseteq streamStatusObservers
    BY <1>3 DEF Notify, OnNext
  <2> QED
    BY <1>3, <2>1 DEF Notify
<1>4. ASSUME NEW c \in Calls, Watch(c) \/ Register(c)
      PROVE  LockInv'
  BY <1>4 DEF Watch, Register
<1>5. ASSUME NEW c \in Calls, Prime(c)
      PROVE  LockInv'
  <2>1. streamStatusObservers' \subseteq streamStatusObservers
    BY <1>5 DEF Prime, OnNext
  <2> QED
    BY <1>5, <2>1 DEF Prime
<1>6. ASSUME NEW c \in Calls, Break(c) \/ Cancel(c) \/ CancelHandler(c)
      PROVE  LockInv'
  BY <1>6 DEF Break, Cancel, CancelHandler
<1>7. CASE UNCHANGED feedVars
  BY <1>7 DEF feedVars
<1> QED
  BY <1>1, <1>2, <1>3, <1>4, <1>5, <1>6, <1>7 DEF FeedNext, CallStep

\* Only a call that is no longer open ever leaves the list.
LEMMA NextRegisteredInv == FeedTypeOK /\ RegisteredInv /\ [FeedNext]_feedVars => RegisteredInv'
<1> SUFFICES ASSUME FeedTypeOK, RegisteredInv, [FeedNext]_feedVars PROVE RegisteredInv'
  OBVIOUS
<1>0. /\ phase \in [Calls -> {"none", "entered", "registered", "primed"}]
      /\ client \in [Calls -> {"open", "broken", "cancelled"}]
  BY DEF FeedTypeOK
<1> USE <1>0 DEF RegisteredInv, feed, sending, history
<1>1. ASSUME NEW s \in Statuses, Report(s)
      PROVE  RegisteredInv'
  BY <1>1 DEF Report
<1>2. CASE ReportDone
  BY <1>2 DEF ReportDone
<1>3. ASSUME NEW c \in Calls, Notify(c)
      PROVE  RegisteredInv'
  BY <1>3 DEF Notify, OnNext
<1>4. ASSUME NEW c \in Calls, Watch(c) \/ Register(c)
      PROVE  RegisteredInv'
  BY <1>4 DEF Watch, Register
<1>5. ASSUME NEW c \in Calls, Prime(c)
      PROVE  RegisteredInv'
  BY <1>5 DEF Prime, OnNext
<1>6. ASSUME NEW c \in Calls, Break(c) \/ Cancel(c) \/ CancelHandler(c)
      PROVE  RegisteredInv'
  BY <1>6 DEF Break, Cancel, CancelHandler
<1>7. CASE UNCHANGED feedVars
  BY <1>7 DEF feedVars
<1> QED
  BY <1>1, <1>2, <1>3, <1>4, <1>5, <1>6, <1>7 DEF FeedNext, CallStep

\* Each open call is behind the log by exactly the broadcast it is waiting for.
LEMMA NextProgressInv == FeedTypeOK /\ FeedInv /\ [FeedNext]_feedVars => ProgressInv'
<1> SUFFICES ASSUME FeedTypeOK, FeedInv, [FeedNext]_feedVars PROVE ProgressInv'
  OBVIOUS
<1>0. /\ phase \in [Calls -> {"none", "entered", "registered", "primed"}]
      /\ client \in [Calls -> {"open", "broken", "cancelled"}]
      /\ toNotify \subseteq Calls
      /\ log \in Seq(Statuses) /\ from \in [Calls -> Nat]
      /\ received \in [Calls -> Seq(Messages)]
      /\ LockInv /\ RegisteredInv /\ ProgressInv
  BY DEF FeedTypeOK, FeedInv
<1> USE <1>0, FeedAssumption DEF FeedAssumption, ProgressInv, feed, sending, history
<1>1. ASSUME NEW s \in Statuses, Report(s)
      PROVE  ProgressInv'
  <2>1. Len(log') = Len(log) + 1 /\ Len(log) \in Nat
    BY <1>1 DEF Report
  <2>2. toNotify = {} /\ toNotify' = streamStatusObservers
    BY <1>1 DEF Report, LockInv
  <2> QED
    BY <1>1, <2>1, <2>2 DEF Report, RegisteredInv
<1>2. CASE ReportDone
  BY <1>2 DEF ReportDone
<1>3. ASSUME NEW c \in Calls, Notify(c)
      PROVE  ProgressInv'
  <2>1. phase[c] = "primed"
    BY <1>3 DEF Notify, LockInv
  <2>2. CASE client[c] = "open"
    <3>1. received' = [received EXCEPT ![c] = Append(@, message)]
      BY <1>3, <2>2 DEF Notify, OnNext
    <3>2. received'[c] # <<>> /\ Len(received'[c]) = Len(received[c]) + 1
      BY <3>1
    <3>3. \A d \in Calls \ {c} : received'[d] = received[d]
      BY <3>1
    <3> QED
      BY <1>3, <2>1, <2>2, <3>2, <3>3 DEF Notify
  <2>3. CASE client[c] # "open"
    BY <1>3, <2>1, <2>3 DEF Notify, OnNext
  <2> QED
    BY <2>2, <2>3
<1>4. ASSUME NEW c \in Calls, Watch(c) \/ Register(c)
      PROVE  ProgressInv'
  BY <1>4 DEF Watch, Register
<1>5. ASSUME NEW c \in Calls, Prime(c)
      PROVE  ProgressInv'
  <2>1. c \notin toNotify /\ received[c] = <<>>
    BY <1>5 DEF Prime, LockInv
  <2>2. CASE client[c] = "open"
    <3> DEFINE m == CurrentStatusForId(askedFor[c])
    <3>1. received' = [received EXCEPT ![c] = Append(@, m)]
      BY <1>5, <2>2 DEF Prime, OnNext
    <3>2. received'[c] # <<>> /\ Len(received'[c]) = 1
      BY <2>1, <3>1
    <3>3. \A d \in Calls \ {c} : received'[d] = received[d]
      BY <3>1
    <3> QED
      BY <1>5, <2>1, <2>2, <3>2, <3>3 DEF Prime
  <2>3. CASE client[c] # "open"
    BY <1>5, <2>1, <2>3 DEF Prime, OnNext
  <2> QED
    BY <2>2, <2>3
<1>6. ASSUME NEW c \in Calls, Break(c) \/ Cancel(c) \/ CancelHandler(c)
      PROVE  ProgressInv'
  BY <1>6 DEF Break, Cancel, CancelHandler
<1>7. CASE UNCHANGED feedVars
  BY <1>7 DEF feedVars
<1> QED
  BY <1>1, <1>2, <1>3, <1>4, <1>5, <1>6, <1>7 DEF FeedNext, CallStep

\* Cache and log change together.
LEMMA NextCacheInv == FeedTypeOK /\ CacheInv /\ [FeedNext]_feedVars => CacheInv'
<1> SUFFICES ASSUME FeedTypeOK, CacheInv, [FeedNext]_feedVars PROVE CacheInv'
  OBVIOUS
<1>1. ASSUME NEW s \in Statuses, Report(s)
      PROVE  CacheInv'
  <2> SUFFICES ASSUME NEW i \in Ids
               PROVE  CurrentStatusForId(i)' = Stream!Current(log', i)
    BY DEF CacheInv
  <2>1. Stream!Current(log', i) = IF s.id = i THEN s ELSE Stream!Current(log, i)
    BY <1>1, CurrentAppend DEF Report, FeedTypeOK
  <2>2. s # NoStatus /\ s.id \in Ids
    BY FeedAssumption DEF FeedAssumption, Statuses, NoStatus
  <2>3. lastStatusById'[i] = IF s.id = i THEN s ELSE lastStatusById[i]
    BY <1>1, <2>2 DEF Report, FeedTypeOK
  <2> QED
    BY <2>1, <2>2, <2>3 DEF CacheInv, CurrentStatusForId
<1>2. CASE UNCHANGED <<lastStatusById, log>>
  BY <1>2 DEF CacheInv, CurrentStatusForId
<1>3. ASSUME NEW c \in Calls, CallStep(c)
      PROVE  UNCHANGED <<lastStatusById, log>>
  BY <1>3 DEF CallStep, Notify, Watch, Register, Prime, Break, Cancel, CancelHandler,
     feed, history
<1>4. CASE ReportDone \/ UNCHANGED feedVars
  BY <1>2, <1>4 DEF ReportDone, feedVars, feed, history
<1> QED
  BY <1>1, <1>2, <1>3, <1>4 DEF FeedNext

\* FeedInv holds in every reachable state.
THEOREM FeedInvHolds == FeedSpec => []FeedInv
<1>1. FeedTypeOK /\ FeedInv /\ [FeedNext]_feedVars => FeedInv'
  BY NextLockInv, NextRegisteredInv, NextProgressInv, NextCacheInv DEF FeedInv
<1> QED
  BY <1>1, InitFeedTypes, NextFeedTypes, InitFeedInv, PTL DEF FeedSpec

\* Between broadcasts every live, primed call has had every report since its snapshot.
THEOREM UpToDate == FeedSpec => []LiveCallsAreUpToDate
<1>1. FeedTypeOK /\ FeedInv => LiveCallsAreUpToDate
  BY DEF FeedInv, LockInv, ProgressInv, LiveCallsAreUpToDate, FeedTypeOK
<1> QED
  BY <1>1, FeedTypes, FeedInvHolds, PTL

-----------------------------------------------------------------------------
(* The feed implements StatusStream. *)

LEMMA InitRefines == FeedInit => Stream!Init
BY DEF FeedInit, Stream!Init

LEMMA StepRefines == FeedTypeOK /\ FeedInv /\ [FeedNext]_feedVars => [Stream!Next]_(Stream!vars)
<1> SUFFICES ASSUME FeedTypeOK, FeedInv, [FeedNext]_feedVars PROVE [Stream!Next]_(Stream!vars)
  OBVIOUS
<1> USE DEF feed, sending, history
<1>1. ASSUME NEW s \in Statuses, Report(s)
      PROVE  Stream!Report(s) /\ s \in Stream!Statuses
  BY <1>1 DEF Report, Stream!Report, Statuses, Stream!Statuses
<1>2. ASSUME NEW c \in Calls, Notify(c)
      PROVE  Stream!Deliver(c) \/ UNCHANGED Stream!vars
  <2>1. CASE client[c] = "open"
    <3>1. /\ received[c] # <<>> /\ from[c] + Len(received[c]) = Len(log)
          /\ message = log[Len(log)]
      BY <1>2, <2>1 DEF Notify, FeedInv, LockInv, ProgressInv
    <3>2. Len(log) \in Nat
      BY DEF FeedTypeOK
    <3>3. received' = [received EXCEPT ![c] = Append(@, message)]
      BY <1>2, <2>1 DEF Notify, OnNext
    <3>4. from[c] + Len(received[c]) <= Len(log)
      BY <3>1, <3>2
    <3>5. received' = [received EXCEPT ![c] = Append(@, log[from[c] + Len(@)])]
      BY <3>1, <3>3
    <3>6. UNCHANGED <<log, askedFor, from>>
      BY <1>2 DEF Notify
    <3> QED
      BY <3>1, <3>4, <3>5, <3>6 DEF Stream!Deliver
  <2>2. CASE client[c] # "open"
    BY <1>2, <2>2 DEF Notify, OnNext, Stream!vars
  <2> QED
    BY <2>1, <2>2
<1>3. ASSUME NEW c \in Calls, Prime(c)
      PROVE  Stream!Prime(c) \/ UNCHANGED Stream!vars
  <2>1. CASE client[c] = "open"
    <3> DEFINE m == CurrentStatusForId(askedFor[c])
    <3>1. received[c] = <<>> /\ m = Stream!Current(log, askedFor[c])
      BY <1>3 DEF Prime, FeedInv, ProgressInv, CacheInv, FeedTypeOK
    <3>2. received' = [received EXCEPT ![c] = Append(@, m)]
      BY <1>3, <2>1 DEF Prime, OnNext
    <3>3. Append(received[c], m) = <<m>>
      BY <3>1
    <3>4. received' = [received EXCEPT ![c] = <<Stream!Current(log, askedFor[c])>>]
      BY <3>1, <3>2, <3>3
    <3> QED
      BY <1>3, <2>1, <3>1, <3>4 DEF Prime, Stream!Prime
  <2>2. CASE client[c] # "open"
    BY <1>3, <2>2 DEF Prime, OnNext, Stream!vars
  <2> QED
    BY <2>1, <2>2
<1>4. ASSUME NEW c \in Calls,
             Watch(c) \/ Register(c) \/ Break(c) \/ Cancel(c) \/ CancelHandler(c)
      PROVE  UNCHANGED Stream!vars
  BY <1>4 DEF Watch, Register, Break, Cancel, CancelHandler, Stream!vars
<1>5. CASE ReportDone \/ UNCHANGED feedVars
  BY <1>5 DEF ReportDone, feedVars, Stream!vars
<1> QED
  BY <1>1, <1>2, <1>3, <1>4, <1>5 DEF FeedNext, CallStep, Stream!Next

\* Each call receives the current status first and then every report once, in the
\* order of the log, however reports, calls and cancellations interleave.
THEOREM Refinement == FeedSpec => FeedIsAStream
BY InitRefines, StepRefines, FeedTypes, FeedInvHolds, PTL
   DEF FeedSpec, FeedIsAStream, Stream!Spec

-----------------------------------------------------------------------------
(* What of CancelledCallsAreForgotten needs no fairness.                    *)

\* A cancelled call whose method has returned and that the list has lost.
Forgotten(c) ==
  client[c] = "cancelled" /\ phase[c] = "primed" /\ c \notin streamStatusObservers

\* A cancelled call that has been taken off the list is not taken up again: neither a
\* broadcast under way, whose copy may still name it, nor another call brings it back.
THEOREM ForgottenForGood ==
  ASSUME NEW c \in Calls PROVE FeedSpec => [](Forgotten(c) => []Forgotten(c))
<1>1. FeedTypeOK /\ [FeedNext]_feedVars /\ Forgotten(c) => Forgotten(c)'
  <2> SUFFICES ASSUME FeedTypeOK, [FeedNext]_feedVars, Forgotten(c) PROVE Forgotten(c)'
    OBVIOUS
  <2> USE DEF FeedTypeOK, Forgotten, feed, sending, history
  <2>1. ASSUME NEW s \in Statuses, Report(s) PROVE Forgotten(c)'
    BY <2>1 DEF Report
  <2>2. CASE ReportDone
    BY <2>2 DEF ReportDone
  <2>3. ASSUME NEW d \in Calls, Notify(d) \/ Prime(d) PROVE Forgotten(c)'
    <3>1. client' = client /\ phase'[c] = phase[c]
      BY <2>3 DEF Notify, Prime
    <3>2. streamStatusObservers' \subseteq streamStatusObservers
      BY <2>3 DEF Notify, Prime, OnNext
    <3> QED
      BY <3>1, <3>2
  <2>4. ASSUME NEW d \in Calls, Watch(d) \/ Register(d) PROVE Forgotten(c)'
    <3>1. d # c
      BY <2>4 DEF Watch, Register
    <3> QED
      BY <2>4, <3>1 DEF Watch, Register
  <2>5. ASSUME NEW d \in Calls, Break(d) \/ Cancel(d) PROVE Forgotten(c)'
    <3>1. d # c
      BY <2>5 DEF Break, Cancel
    <3> QED
      BY <2>5, <3>1 DEF Break, Cancel
  <2>6. ASSUME NEW d \in Calls, CancelHandler(d) PROVE Forgotten(c)'
    BY <2>6 DEF CancelHandler
  <2>7. CASE UNCHANGED feedVars
    BY <2>7 DEF feedVars
  <2> QED
    BY <2>1, <2>2, <2>3, <2>4, <2>5, <2>6, <2>7 DEF FeedNext, CallStep
<1> QED
  BY <1>1, FeedTypes, PTL DEF FeedSpec

-----------------------------------------------------------------------------
(* MCServer, which puts the RTSP server and the feed into one run.          *)

LEMMA ServerSteps == [ServerNext]_serverVars => [Next]_vars /\ [FeedNext]_feedVars
<1> SUFFICES ASSUME [ServerNext]_serverVars PROVE [Next]_vars /\ [FeedNext]_feedVars
  OBVIOUS
<1>1. CASE ServerNext
  BY <1>1, Zenon DEF ServerNext
<1>2. CASE UNCHANGED serverVars
  BY <1>2, Zenon DEF serverVars
<1> QED
  BY <1>1, <1>2

\* MCServer adds no behaviour to its two modules: each of its behaviours is one of the
\* RTSP server and one of the status feed.
THEOREM ServerIsEachModule == ServerSpec => Spec /\ FeedSpec
<1>1. ServerInit => Init /\ FeedInit
  BY Zenon DEF ServerInit
<1> QED
  BY <1>1, ServerSteps, PTL DEF ServerSpec, Spec, FeedSpec

\* Type correctness of the RTSP server and the feed, as MCServer's run checks it.
THEOREM ServerTypes == ServerSpec => []ServerTypeOK
<1>1. TypeOK /\ FeedTypeOK => ServerTypeOK
  BY Zenon DEF ServerTypeOK
<1> QED
  BY <1>1, ServerIsEachModule, TypeCorrect, FeedTypes, PTL
=============================================================================
