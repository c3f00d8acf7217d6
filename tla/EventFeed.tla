------------------------------ MODULE EventFeed -----------------------------
(***************************************************************************)
(* What the event hub promises a connection: from the place in the log of  *)
(* events where it joins, it reads every event that is broadcast without   *)
(* condition, in order and once, until its feed ends.  Events that need a  *)
(* subscription may be passed over.                                        *)
(***************************************************************************)
EXTENDS Integers, Sequences

CONSTANTS Client, Kind, Off

VARIABLES
    log,  \* the kinds of the events, in the order the hub took them
    pos   \* per client: the place of the last event it read, Off without a feed

feedVars == <<log, pos>>

FeedInit == log = <<>> /\ pos = [c \in Client |-> Off]

Publish == UNCHANGED pos /\ \E k \in Kind : log' = Append(log, k)

Join(c) ==
    /\ pos[c] = Off
    /\ \E n \in 0..Len(log) : pos' = [pos EXCEPT ![c] = n]
    /\ UNCHANGED log

Receive(c) ==
    /\ pos[c] # Off
    /\ \E n \in (pos[c] + 1)..Len(log) :
           /\ \A i \in (pos[c] + 1)..(n - 1) : log[i] # "plain"
           /\ pos' = [pos EXCEPT ![c] = n]
    /\ UNCHANGED log

Leave(c) == pos' = [pos EXCEPT ![c] = Off] /\ UNCHANGED log

FeedNext == Publish \/ \E c \in Client : Join(c) \/ Receive(c) \/ Leave(c)

FeedSpec == FeedInit /\ [][FeedNext]_feedVars

=============================================================================
