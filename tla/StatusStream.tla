----------------------------- MODULE StatusStream -----------------------------
(***************************************************************************)
(* What StreamoutWatchStatus promises its callers.  Reports form one log.  *)
(* A call first receives the current status of the stream it asked for,    *)
(* and from then on every later report, once and in the order of the log,  *)
(* for as long as it lasts.                                                *)
(***************************************************************************)
EXTENDS Integers, Sequences

CONSTANTS Calls, Ids, Codes

VARIABLES
  log,        \* all reports so far, oldest first
  askedFor,   \* call -> the stream id it asked for
  from,       \* call -> how much of the log its first message sums up
  received    \* call -> what it got

vars == <<log, askedFor, from, received>>

Statuses == [id : Ids, code : Codes]
Unspecified(i) == [id |-> i, code |-> "unspecified"]

\* The last report about stream i in log l, or that there is none.
About(l, i) == {k \in 1 .. Len(l) : l[k].id = i}
Latest(l, i) == {l[k] : k \in {m \in About(l, i) : \A n \in About(l, i) : n <= m}}
Current(l, i) ==
  IF About(l, i) = {} THEN Unspecified(i) ELSE CHOOSE s \in Latest(l, i) : TRUE

Init ==
  /\ log = <<>>
  /\ askedFor \in [Calls -> Ids]
  /\ from = [c \in Calls |-> 0]
  /\ received = [c \in Calls |-> <<>>]

Report(s) ==
  /\ log' = Append(log, s)
  /\ UNCHANGED <<askedFor, from, received>>

Prime(c) ==
  /\ received[c] = <<>>
  /\ received' = [received EXCEPT ![c] = <<Current(log, askedFor[c])>>]
  /\ from' = [from EXCEPT ![c] = Len(log)]
  /\ UNCHANGED <<log, askedFor>>

Deliver(c) ==
  /\ received[c] # <<>>
  /\ from[c] + Len(received[c]) <= Len(log)
  /\ received' = [received EXCEPT ![c] = Append(@, log[from[c] + Len(@)])]
  /\ UNCHANGED <<log, askedFor, from>>

Next ==
  \/ \E s \in Statuses : Report(s)
  \/ \E c \in Calls : Prime(c) \/ Deliver(c)

Spec == Init /\ [][Next]_vars
=============================================================================
