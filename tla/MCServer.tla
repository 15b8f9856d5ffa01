--------------------------------- MODULE MCServer ---------------------------------
(***************************************************************************)
(* One run for the RTSP server and the status feed that is told of it.     *)
(* They share no variable (the feed takes any report at any time), so a    *)
(* behaviour of this specification is one of the module that `subject`     *)
(* names, with the variables of the other at rest.                         *)
(***************************************************************************)
EXTENDS RtspServer, StatusFeed

VARIABLE subject    \* fixed: the module whose behaviour this is

\* Streams are interchangeable, so one call may as well ask for a certain one.
AsksForFirst == askedFor[CHOOSE c \in Calls : TRUE] = CHOOSE i \in Ids : TRUE

ServerInit ==
  /\ Init /\ FeedInit /\ subject \in {"server", "feed"}
  /\ subject # "server" => ~clientsLinger
  /\ AsksForFirst
  /\ subject # "feed" => \A c, d \in Calls : askedFor[c] = askedFor[d]

ServerNext ==
  \/ subject = "server" /\ Next /\ UNCHANGED <<feedVars, subject>>
  \/ subject = "feed" /\ FeedNext /\ UNCHANGED <<vars, subject>>

serverVars == <<vars, feedVars, subject>>

\* Initially nothing that either module is fair to is enabled, and at rest it stays so.
ServerSpec == ServerInit /\ [][ServerNext]_serverVars /\ Fairness /\ FeedFairness

ServerTypeOK == TypeOK /\ FeedTypeOK
=============================================================================
