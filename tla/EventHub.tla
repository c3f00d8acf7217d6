------------------------------ MODULE EventHub ------------------------------
(***************************************************************************)
(* The event hub and the websocket handlers on it: one run loop that takes *)
(* registrations, departures and events from three channels and fans the   *)
(* events out to a buffered channel per client, and one handler per        *)
(* connection that registers, checks for a rejection, greets, writes what  *)
(* it reads and leaves.                                                    *)
(*                                                                         *)
(* A select with several ready channels takes any of them.  A close of a   *)
(* closed channel, or a send on one, ends the process.                     *)
(***************************************************************************)
EXTENDS Integers, Sequences, FiniteSets

CONSTANTS
    Client,     \* connections, each used once
    Off,        \* no place in the log
    QueueSize,  \* the buffer of the register and of the unregister channel
    EventSize,  \* the buffer of the broadcast channel
    SendSizes,  \* the send buffers a configuration may ask for
    Limits,     \* the connection limits it may ask for
    Severity,   \* the severities of log entries, of "low" and "high"
    MaxEvents   \* how many events a behaviour has

ASSUME HubAssumption ==
    /\ QueueSize \in Nat \ {0} /\ EventSize \in Nat \ {0} /\ MaxEvents \in Nat
    /\ SendSizes \subseteq Nat \ {0} /\ SendSizes # {}
    /\ Limits \subseteq Nat \ {0} /\ Limits # {}
    /\ Severity \subseteq {"low", "high"}
    /\ Off \notin Nat

\* An event is broadcast to all, or is a log entry of a severity.
Kind == {"plain"} \cup Severity

Subscription == {"none"} \cup Severity

VARIABLES
    loop,         \* the run loop: "on", "exited"
    done,         \* Stop was called
    dead,         \* the process ended in a panic
    limit, size,  \* maxConnections, sendBufferSize
    register, unregister, broadcast,
    clients,      \* the registered clients
    log,          \* the events the loop took, by kind
    buf,          \* per client: the places in the log of what its channel holds
    cap,          \* per client: the size of its channel
    closed,       \* clients whose channel is closed
    pos,          \* ghost: the place of the last event a client took, or where it joined
    subs,         \* per client: the severity it subscribed to, or "none"
    pc            \* per connection: its handler

hub == <<loop, done, dead, limit, size>>
channels == <<register, unregister, broadcast>>
feeds == <<clients, log, buf, cap, closed, pos>>
vars == <<hub, channels, feeds, subs, pc>>

Goto(c, to) == pc' = [pc EXCEPT ![c] = to]

\* A handler that counts on its channel.
Listening(c) == pc[c] \in {"check", "hello", "write"}

Init ==
    /\ loop = "on" /\ done = FALSE /\ dead = FALSE
    /\ limit \in Limits /\ size \in SendSizes
    /\ register = <<>> /\ unregister = <<>> /\ broadcast = <<>>
    /\ clients = {} /\ log = <<>> /\ closed = {}
    /\ buf = [c \in Client |-> {}]
    /\ cap = [c \in Client |-> 0]
    /\ pos = [c \in Client |-> Off]
    /\ subs = [c \in Client |-> "none"]
    /\ pc = [c \in Client |-> "new"]

\* close(c.send), for each of a set of clients.
Close(s) ==
    IF s \cap closed # {} THEN dead' = TRUE /\ UNCHANGED closed
                          ELSE closed' = closed \cup s /\ UNCHANGED dead

-----------------------------------------------------------------------------
(* The run loop *)

LoopRuns == loop = "on" /\ ~dead

TakeDone ==
    /\ LoopRuns /\ done
    /\ Close(clients)
    /\ clients' = {}
    /\ loop' = "exited"
    /\ UNCHANGED <<done, limit, size, channels, log, buf, cap, pos, subs, pc>>

\* A client at capacity is told so by closing its channel.
TakeRegister ==
    /\ LoopRuns /\ register # <<>>
    /\ register' = Tail(register)
    /\ LET c == Head(register) IN
       IF Cardinality(clients) >= limit
       THEN Close({c}) /\ UNCHANGED <<clients, pos>>
       ELSE /\ clients' = clients \cup {c}
            /\ pos' = [pos EXCEPT ![c] = Len(log)]
            /\ UNCHANGED <<dead, closed>>
    /\ UNCHANGED <<loop, done, limit, size, unregister, broadcast, log, buf, cap, subs, pc>>

\* A bug: the channel is closed whether the hub still knows the client or not.
TakeUnregisterTwice ==
    /\ LoopRuns /\ unregister # <<>>
    /\ unregister' = Tail(unregister)
    /\ LET c == Head(unregister) IN
       /\ Close({c})
       /\ clients' = clients \ {c}
    /\ UNCHANGED <<loop, done, limit, size, register, broadcast, log, buf, cap, pos, subs, pc>>

\* A client the hub does not know is passed over.
TakeUnregister ==
    /\ LoopRuns /\ unregister # <<>>
    /\ unregister' = Tail(unregister)
    /\ LET c == Head(unregister) IN
       /\ Close({c} \cap clients)
       /\ clients' = clients \ {c}
    /\ UNCHANGED <<loop, done, limit, size, register, broadcast, log, buf, cap, pos, subs, pc>>

ShouldReceive(c, k) == k = "plain" \/ subs[c] = k \/ (subs[c] = "low" /\ k = "high")

Receivers == {c \in clients : ShouldReceive(c, Head(broadcast))}

Slow == {c \in Receivers : Cardinality(buf[c]) >= cap[c]}

\* The event is taken and put into the channels of some clients.
FanOut(s) ==
    /\ LoopRuns /\ broadcast # <<>>
    /\ broadcast' = Tail(broadcast)
    /\ log' = Append(log, Head(broadcast))
    /\ buf' = [c \in Client |-> buf[c] \cup IF c \in s THEN {Len(log) + 1} ELSE {}]
    /\ UNCHANGED <<loop, done, limit, size, register, unregister, cap, pos, subs, pc>>

\* A bug: a slow client loses the event and stays.
TakeBroadcastSkipsSlow == FanOut(Receivers \ Slow) /\ UNCHANGED <<clients, dead, closed>>

\* A bug: a slow client is dropped without a word.
TakeBroadcastSilently ==
    FanOut(Receivers \ Slow) /\ clients' = clients \ Slow /\ UNCHANGED <<dead, closed>>

\* A bug: the channel of a slow client is closed and the client stays in the set.
TakeBroadcastKeepsSlow == FanOut(Receivers \ Slow) /\ Close(Slow) /\ UNCHANGED clients

\* An event goes to every client that should have it; one whose channel is full
\* is dropped and its channel closed.
TakeBroadcast ==
    /\ FanOut(Receivers \ (Slow \cup closed))
    /\ clients' = clients \ Slow
    /\ IF Receivers \cap closed # {} THEN dead' = TRUE /\ UNCHANGED closed
                                     ELSE Close(Slow)

-----------------------------------------------------------------------------
(* What the rest of the program calls *)

\* Broadcast: an event that finds the buffer full is dropped.
Broadcast(k) ==
    /\ ~dead
    /\ Len(broadcast) < EventSize
    /\ Len(log) + Len(broadcast) < MaxEvents
    /\ broadcast' = Append(broadcast, k)
    /\ UNCHANGED <<hub, register, unregister, feeds, subs, pc>>

Reconfigure ==
    /\ ~dead
    /\ limit' \in Limits /\ size' \in SendSizes
    /\ UNCHANGED <<loop, done, dead, channels, feeds, subs, pc>>

Stop ==
    /\ ~dead /\ ~done
    /\ done' = TRUE
    /\ UNCHANGED <<loop, dead, limit, size, channels, feeds, subs, pc>>

-----------------------------------------------------------------------------
(* The handler of a connection *)

\* Register: the send into the channel, or the sight of a stopped hub.
Register(c) ==
    /\ ~dead /\ pc[c] = "new"
    /\ cap' = [cap EXCEPT ![c] = size]
    /\ \/ /\ Len(register) < QueueSize
          /\ register' = Append(register, c)
          /\ Goto(c, "recheck") /\ UNCHANGED <<dead, closed>>
       \/ /\ done
          /\ Close({c})
          /\ Goto(c, "check") /\ UNCHANGED register
    /\ UNCHANGED <<loop, done, limit, size, unregister, broadcast, clients, log, buf, pos, subs>>

\* The channel may have a buffer nobody empties: a stopped hub is looked for again.
Recheck(c) ==
    /\ ~dead /\ pc[c] = "recheck"
    /\ Goto(c, "check")
    /\ IF done THEN Close({c}) ELSE UNCHANGED <<dead, closed>>
    /\ UNCHANGED <<loop, done, limit, size, channels, clients, log, buf, cap, pos, subs>>

Oldest(c) == CHOOSE n \in buf[c] : \A k \in buf[c] : n <= k

\* The handler takes the first event in the channel.
TakeEvent(c) ==
    /\ buf[c] # {}
    /\ pos' = [pos EXCEPT ![c] = Oldest(c)]
    /\ buf' = [buf EXCEPT ![c] = @ \ {Oldest(c)}]

\* Is the channel closed already?  An event that is there by now is lost.
Check(c) ==
    /\ ~dead /\ pc[c] = "check"
    /\ \/ TakeEvent(c) /\ Goto(c, "hello")
       \/ /\ buf[c] = {}
          /\ Goto(c, IF c \in closed THEN "leave" ELSE "hello")
          /\ UNCHANGED <<buf, pos>>
    /\ UNCHANGED <<hub, channels, clients, log, cap, closed, subs>>

\* The connected event is written, or cannot be.
Greet(c) ==
    /\ ~dead /\ pc[c] = "hello"
    /\ Goto(c, "write") \/ Goto(c, "leave")
    /\ UNCHANGED <<hub, channels, feeds, subs>>

\* An event is written, or cannot be; a channel that is closed and empty ends it.
Write(c) ==
    /\ ~dead /\ pc[c] = "write"
    /\ \/ TakeEvent(c) /\ (UNCHANGED pc \/ Goto(c, "leave"))
       \/ buf[c] = {} /\ c \in closed /\ Goto(c, "leave") /\ UNCHANGED <<buf, pos>>
    /\ UNCHANGED <<hub, channels, clients, log, cap, closed, subs>>

\* The peer went away, or a ping failed.
Disconnect(c) ==
    /\ ~dead /\ pc[c] = "write"
    /\ Goto(c, "leave")
    /\ UNCHANGED <<hub, channels, feeds, subs>>

\* The read pump: the connection subscribes to log entries, or no longer.
Subscribe(c, s) ==
    /\ ~dead /\ pc[c] = "write"
    /\ subs' = [subs EXCEPT ![c] = s]
    /\ UNCHANGED <<hub, channels, feeds, pc>>

\* A bug: the send does not look for a stopped hub.
UnregisterWaits(c) ==
    /\ ~dead /\ pc[c] = "leave"
    /\ Len(unregister) < QueueSize /\ unregister' = Append(unregister, c)
    /\ Goto(c, "gone")
    /\ UNCHANGED <<hub, register, broadcast, feeds, subs>>

\* Unregister: the send into the channel, or the sight of a stopped hub.
Unregister(c) ==
    /\ ~dead /\ pc[c] = "leave"
    /\ \/ Len(unregister) < QueueSize /\ unregister' = Append(unregister, c)
       \/ done /\ UNCHANGED unregister
    /\ Goto(c, "gone")
    /\ UNCHANGED <<hub, register, broadcast, feeds, subs>>

-----------------------------------------------------------------------------

LoopStep == TakeDone \/ TakeRegister \/ TakeUnregister \/ TakeBroadcast

HandlerStep(c) ==
    Register(c) \/ Recheck(c) \/ Check(c) \/ Greet(c) \/ Write(c) \/ Unregister(c)

Next ==
    \/ LoopStep
    \/ (\E k \in Kind : Broadcast(k)) \/ Reconfigure \/ Stop
    \/ \E c \in Client :
           HandlerStep(c) \/ Disconnect(c) \/ \E s \in Subscription : Subscribe(c, s)

Spec == Init /\ [][Next]_vars

\* The loop and the handlers run; no event, stop, change of settings or departure
\* of a peer has to happen.
Fairness ==
    /\ WF_vars(LoopStep)
    /\ \A c \in Client : WF_vars(HandlerStep(c))

FairSpec == Spec /\ Fairness

-----------------------------------------------------------------------------
(* Properties *)

Typed ==
    /\ loop \in {"on", "exited"} /\ done \in BOOLEAN /\ dead \in BOOLEAN
    /\ limit \in Limits /\ size \in SendSizes
    /\ register \in Seq(Client) /\ unregister \in Seq(Client) /\ broadcast \in Seq(Kind)
    /\ clients \subseteq Client /\ closed \subseteq Client
    /\ log \in Seq(Kind)
    /\ buf \in [Client -> SUBSET (1..Len(log))]
    /\ cap \in [Client -> SendSizes \cup {0}]
    /\ pos \in [Client -> Nat \cup {Off}]
    /\ subs \in [Client -> Subscription]
    /\ pc \in [Client -> {"new", "recheck", "check", "hello", "write", "leave", "gone"}]

\* States are of their types; a channel never holds more than its size, and a hub
\* that is not stopped knows no client whose channel is closed.
TypeOK ==
    /\ Typed
    /\ \A c \in Client : Cardinality(buf[c]) <= cap[c]
    /\ clients \cap closed # {} => done

\* A handler that waits on its channel is known to the hub, or on its way to it, or
\* finds the channel closed: whoever is removed is told.
NobodyForgotten ==
    ~dead => \A c \in Client : Listening(c) =>
        c \in clients \cup closed \/ \E i \in DOMAIN register : register[i] = c

\* As long as nobody stops the hub, no channel is closed twice or sent to after it
\* was closed, whatever the order in which the loop takes a rejection, a slow
\* consumer and a departure.
PanicNeedsStop == dead => done

\* The connections see what EventFeed promises.
Feed == INSTANCE EventFeed WITH
    pos <- [c \in Client |-> IF pc[c] \in {"hello", "write"} THEN pos[c] ELSE Off]

\* From where it joined, a connection that is written to gets every event that is
\* broadcast to all, in order: it is dropped rather than left with a gap.
ImplementsFeed == Feed!FeedSpec

\* A handler that cannot go on: its channel is closed, or it wants to leave.
Ending(c) == (c \in closed /\ pc[c] # "new") \/ pc[c] = "leave"

\* A handler whose channel was closed, or that wants to leave, comes to its end:
\* neither the hub nor a full channel holds it for ever.
HandlersEnd == \A c \in Client : []<>(Ending(c) => pc[c] = "gone" \/ dead)

=============================================================================
