------------------------------ MODULE StatusFeed ------------------------------
(***************************************************************************)
(* The status feed of StrmOutGrpcServer: streamStatusFromNative, called by *)
(* any native thread, and streamoutWatchStatus, called once per gRPC call. *)
(* Both work under statusLock; a client's cancellation, and the handler    *)
(* gRPC runs for it, do not take the lock and may come at any moment.      *)
(*                                                                         *)
(* A call stands for its wrappedObserver.  The observers of a broadcast    *)
(* are served in any order; the code serves them in registration order.    *)
(***************************************************************************)
EXTENDS Integers, Sequences

CONSTANTS Calls, Ids, Codes, MaxReports

ASSUME FeedAssumption ==
  /\ "unspecified" \notin Codes
  /\ {"free", "report"} \cap Calls = {}
  /\ MaxReports \in Nat

VARIABLES
  lastStatusById,         \* stream id -> the last report, or NoStatus
  streamStatusObservers,
  statusLock,             \* "free", "report" or the call that holds it
  message, toNotify,      \* the broadcast under way and who still has to get it
  phase,                  \* call -> how far streamoutWatchStatus is
  askedFor,               \* call -> request.getId()
  client,                 \* call -> "open", "broken" (sending throws) or "cancelled"
  received,               \* call -> what reached the client
  log, from               \* history: all reports; how many a call's snapshot covers

feed    == <<lastStatusById, streamStatusObservers>>
sending == <<statusLock, message, toNotify>>
history == <<log, from>>
feedVars == <<feed, sending, phase, askedFor, client, received, history>>

Statuses == [id : Ids, code : Codes]
NoStatus == [id |-> "none", code |-> "unspecified"]
Unspecified(i) == [id |-> i, code |-> "unspecified"]
Messages == Statuses \cup {Unspecified(i) : i \in Ids}

\* wrappedObserver.onNext: forward the message, or drop out of the list.
OnNext(c, m) ==
  IF client[c] = "open"
  THEN /\ received' = [received EXCEPT ![c] = Append(@, m)]
       /\ UNCHANGED streamStatusObservers
  ELSE /\ streamStatusObservers' = streamStatusObservers \ {c}
       /\ UNCHANGED received

-----------------------------------------------------------------------------
(* streamStatusFromNative *)

\* Take the lock, remember the status, and start on the observers.
Report(s) ==
  /\ statusLock = "free" /\ Len(log) < MaxReports
  /\ statusLock' = "report"
  /\ message' = s /\ toNotify' = streamStatusObservers
  /\ lastStatusById' = [lastStatusById EXCEPT ![s.id] = s]
  /\ log' = Append(log, s)
  /\ UNCHANGED <<streamStatusObservers, phase, askedFor, client, received, from>>

\* Mutant: one observer that cannot be served ends the broadcast.
NotifyUntilFailure(c) ==
  /\ statusLock = "report" /\ c \in toNotify
  /\ toNotify' = IF client[c] = "open" THEN toNotify \ {c} ELSE {}
  /\ OnNext(c, message)
  /\ UNCHANGED <<lastStatusById, statusLock, message, phase, askedFor, client, history>>

\* One round of the loop; the list it runs over is a copy.
Notify(c) ==
  /\ statusLock = "report" /\ c \in toNotify
  /\ toNotify' = toNotify \ {c}
  /\ OnNext(c, message)
  /\ UNCHANGED <<lastStatusById, statusLock, message, phase, askedFor, client, history>>

ReportDone ==
  /\ statusLock = "report" /\ toNotify = {}
  /\ statusLock' = "free"
  /\ UNCHANGED <<feed, message, toNotify, phase, askedFor, client, received, history>>

-----------------------------------------------------------------------------
(* streamoutWatchStatus *)

\* Mutant: the observer joins the list before the lock is taken.
WatchAndRegister(c) ==
  /\ phase[c] = "none"
  /\ phase' = [phase EXCEPT ![c] = "entered"]
  /\ streamStatusObservers' = streamStatusObservers \cup {c}
  /\ UNCHANGED <<lastStatusById, sending, askedFor, client, received, history>>

\* The call arrives and sets its cancel handler.
Watch(c) ==
  /\ phase[c] = "none"
  /\ phase' = [phase EXCEPT ![c] = "entered"]
  /\ UNCHANGED <<feed, sending, askedFor, client, received, history>>

\* Take the lock and join the list.
Register(c) ==
  /\ phase[c] = "entered" /\ statusLock = "free"
  /\ phase' = [phase EXCEPT ![c] = "registered"]
  /\ statusLock' = c
  /\ streamStatusObservers' = streamStatusObservers \cup {c}
  /\ UNCHANGED <<lastStatusById, message, toNotify, askedFor, client, received, history>>

\* Mutant: no stand-in for a stream nobody has reported on.
LastStatusOrNone(i) == lastStatusById[i]

\* The last known status, or a stand-in when none has been reported.
CurrentStatusForId(i) ==
  IF lastStatusById[i] # NoStatus THEN lastStatusById[i] ELSE Unspecified(i)

\* Send the snapshot, let go of the lock and return.
Prime(c) ==
  /\ phase[c] = "registered" /\ statusLock = c
  /\ phase' = [phase EXCEPT ![c] = "primed"]
  /\ statusLock' = "free"
  /\ OnNext(c, CurrentStatusForId(askedFor[c]))
  /\ from' = IF client[c] = "open" THEN [from EXCEPT ![c] = Len(log)] ELSE from
  /\ UNCHANGED <<lastStatusById, message, toNotify, askedFor, client, log>>

-----------------------------------------------------------------------------
(* The client and gRPC (external). *)

Break(c) ==
  /\ client[c] = "open" /\ phase[c] # "none"
  /\ client' = [client EXCEPT ![c] = "broken"]
  /\ UNCHANGED <<feed, sending, phase, askedFor, received, history>>

Cancel(c) ==
  /\ client[c] # "cancelled" /\ phase[c] # "none"
  /\ client' = [client EXCEPT ![c] = "cancelled"]
  /\ UNCHANGED <<feed, sending, phase, askedFor, received, history>>

\* Mutant: nothing is done on cancellation.
CancelHandlerIdle(c) ==
  /\ client[c] = "cancelled" /\ phase[c] = "primed" /\ c \in streamStatusObservers
  /\ UNCHANGED feedVars

\* onCancelHandler: gRPC runs it after the call's method has returned.
CancelHandler(c) ==
  /\ client[c] = "cancelled" /\ phase[c] = "primed" /\ c \in streamStatusObservers
  /\ streamStatusObservers' = streamStatusObservers \ {c}
  /\ UNCHANGED <<lastStatusById, sending, phase, askedFor, client, received, history>>

-----------------------------------------------------------------------------
FeedInit ==
  /\ lastStatusById = [i \in Ids |-> NoStatus]
  /\ streamStatusObservers = {}
  /\ statusLock = "free" /\ message = NoStatus /\ toNotify = {}
  /\ phase = [c \in Calls |-> "none"]
  /\ askedFor \in [Calls -> Ids]
  /\ client = [c \in Calls |-> "open"]
  /\ received = [c \in Calls |-> <<>>]
  /\ log = <<>> /\ from = [c \in Calls |-> 0]

CallStep(c) ==
  \/ Notify(c) \/ Watch(c) \/ Register(c) \/ Prime(c)
  \/ Break(c) \/ Cancel(c) \/ CancelHandler(c)

FeedNext ==
  \/ \E s \in Statuses : Report(s)
  \/ ReportDone
  \/ \E c \in Calls : CallStep(c)

FeedSpec == FeedInit /\ [][FeedNext]_feedVars

\* A thread inside the lock goes on; gRPC runs the cancel handler.
FeedFairness ==
  /\ WF_feedVars(ReportDone)
  /\ \A c \in Calls : WF_feedVars(Notify(c)) /\ WF_feedVars(Prime(c)) /\ WF_feedVars(CancelHandler(c))

FeedFairSpec == FeedSpec /\ FeedFairness

-----------------------------------------------------------------------------
(* Properties. *)

FeedTypeOK ==
  /\ lastStatusById \in [Ids -> Statuses \cup {NoStatus}]
  /\ streamStatusObservers \subseteq Calls /\ toNotify \subseteq Calls
  /\ statusLock \in {"free", "report"} \cup Calls
  /\ message \in Statuses \cup {NoStatus}
  /\ statusLock = "report" => message \in Statuses
  /\ phase \in [Calls -> {"none", "entered", "registered", "primed"}]
  /\ askedFor \in [Calls -> Ids]
  /\ client \in [Calls -> {"open", "broken", "cancelled"}]
  /\ log \in Seq(Statuses) /\ from \in [Calls -> Nat]
  /\ received \in [Calls -> Seq(Messages)]

\* A subscriber sees the current status first and then every change once, in order:
\* neither a stale status after a live one nor a gap, whatever the other calls do.
Stream ==
  INSTANCE StatusStream WITH log <- log, askedFor <- askedFor, from <- from,
                             received <- received
FeedIsAStream == Stream!Spec

\* Between broadcasts a live call has had every report so far; one that cannot be
\* served, or another call's cancellation, costs it nothing.
LiveCallsAreUpToDate ==
  statusLock = "free" =>
    \A c \in Calls : phase[c] = "primed" /\ client[c] = "open"
                       => from[c] + Len(received[c]) = Len(log) + 1

\* A cancelled call leaves the list for good: nothing re-registers it and the next
\* reconnect does not add to a list that only grows.
CancelledCallsAreForgotten ==
  \A c \in Calls : client[c] = "cancelled" ~> [](c \notin streamStatusObservers)

-----------------------------------------------------------------------------
(* The inductive invariant behind them. *)

\* Who holds statusLock, and what that says about the calls.
LockInv ==
  /\ \A c \in Calls : phase[c] = "registered" <=> statusLock = c
  /\ statusLock # "report" => toNotify = {}
  /\ statusLock = "report" => log # <<>> /\ message = log[Len(log)]
  /\ \A c \in streamStatusObservers : phase[c] \in {"registered", "primed"}
  /\ \A c \in toNotify : phase[c] = "primed"

\* A live call stays in the list from registration on.
RegisteredInv ==
  \A c \in Calls : client[c] = "open" /\ phase[c] \in {"registered", "primed"}
                     => c \in streamStatusObservers

\* What a call has received, against the log.
ProgressInv ==
  \A c \in Calls :
    /\ phase[c] # "primed" => received[c] = <<>>
    /\ phase[c] = "primed" /\ client[c] = "open"
         => /\ received[c] # <<>>
            /\ from[c] + Len(received[c])
                 = (IF c \in toNotify THEN Len(log) ELSE Len(log) + 1)

\* The cache answers with the log's last word on every stream.
CacheInv == \A i \in Ids : CurrentStatusForId(i) = Stream!Current(log, i)

FeedInv == LockInv /\ RegisteredInv /\ ProgressInv /\ CacheInv
=============================================================================
