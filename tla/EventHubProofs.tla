--------------------------- MODULE EventHubProofs ---------------------------
(***************************************************************************)
(* Theorems about EventHub, for any number of connections, any sizes of    *)
(* the channels and any number of events: its invariants, and that it      *)
(* implements EventFeed.                                                   *)
(*                                                                         *)
(* What has to be added to the invariants is where a connection can be     *)
(* known from - it waits in the register channel at most once, and before  *)
(* it joins nothing is sent to it - and what the refinement is about: the  *)
(* channel of a client holds the events after the last one it read with no *)
(* gap among those that go to everybody.                                   *)
(***************************************************************************)
EXTENDS EventHub, FiniteSetTheorems, SequenceTheorems, WellFoundedInduction, TLAPS

InRegister(c) == \E i \in DOMAIN register : register[i] = c

\* A connection that has not registered is unknown.
Fresh ==
    \A c \in Client : pc[c] = "new" =>
        c \notin clients \cup closed /\ pos[c] = Off /\ ~InRegister(c)

\* A registration waits once, of a client the loop has not seen.
Waiting ==
    /\ \A i, j \in DOMAIN register : register[i] = register[j] => i = j
    /\ \A i \in DOMAIN register :
           /\ register[i] \notin clients /\ pos[register[i]] = Off
           /\ register[i] \in closed => done

\* Only who joined has events.
Joined == \A c \in Client : (c \in clients => pos[c] # Off) /\ (pos[c] = Off => buf[c] = {})

\* A handler from its registration on is known, waits to be, or is told.
Known ==
    ~dead => \A c \in Client :
        Listening(c) \/ pc[c] = "recheck" => c \in clients \cup closed \/ InRegister(c)

\* What a client has not read yet is ahead of what it read, ...
Ahead ==
    \A c \in Client : pos[c] # Off =>
        pos[c] \in 0..Len(log) /\ \A n \in buf[c] : pos[c] < n

\* ... has no gap before any event in the channel, ...
NoGap ==
    \A c \in Client : pos[c] # Off =>
        \A n \in buf[c], i \in DOMAIN log :
            pos[c] < i /\ i < n /\ log[i] = "plain" => i \in buf[c]

\* ... and none up to the end of the log while the hub sends to it.
UpToDate ==
    ~dead => \A c \in clients : \A i \in DOMAIN log :
        pos[c] < i /\ log[i] = "plain" => i \in buf[c]

Fits == \A c \in Client : Cardinality(buf[c]) <= cap[c]

ClosedLast == clients \cap closed # {} => done

Consistent ==
    /\ Fits /\ ClosedLast /\ PanicNeedsStop
    /\ Fresh /\ Waiting /\ Joined /\ Known
    /\ Ahead /\ NoGap /\ UpToDate

IInv == Typed /\ Consistent

-----------------------------------------------------------------------------
(* Sequences and smallest numbers *)

LEMMA TailOf ==
  ASSUME NEW S, NEW s \in Seq(S), s # <<>>
  PROVE  /\ Head(s) \in S /\ Head(s) = s[1] /\ 1 \in DOMAIN s
         /\ Tail(s) \in Seq(S)
         /\ \A i \in DOMAIN Tail(s) :
                i \in Nat /\ i + 1 \in DOMAIN s /\ i + 1 # 1 /\ Tail(s)[i] = s[i + 1]
         /\ \A i \in DOMAIN s : i # 1 => i - 1 \in DOMAIN Tail(s) /\ Tail(s)[i - 1] = s[i]
<1>1. /\ Len(s) \in Nat \ {0} /\ DOMAIN s = 1..Len(s)
      /\ Head(s) \in S /\ Tail(s) \in Seq(S)
      /\ Len(Tail(s)) = Len(s) - 1
      /\ \A i \in 1..Len(Tail(s)) : Tail(s)[i] = s[i + 1]
  BY EmptySeq, HeadTailProperties, LenProperties
<1>2. DOMAIN Tail(s) = 1..(Len(s) - 1)
  BY <1>1, LenProperties
<1>3. Head(s) = s[1]
  OBVIOUS
<1> QED
  BY <1>1, <1>2, <1>3

LEMMA AppendTo ==
  ASSUME NEW S, NEW s \in Seq(S), NEW e \in S
  PROVE  /\ Append(s, e) \in Seq(S)
         /\ Len(Append(s, e)) = Len(s) + 1
         /\ DOMAIN s = 1..Len(s) /\ Len(s) \in Nat
         /\ DOMAIN Append(s, e) = 1..(Len(s) + 1)
         /\ \A i \in DOMAIN s : Append(s, e)[i] = s[i]
         /\ Append(s, e)[Len(s) + 1] = e
  OBVIOUS

Less == {p \in Nat \X Nat : p[1] < p[2]}

LEMMA LessWellFounded == IsWellFoundedOn(Less, Nat)
  BY NatLessThanWellFounded DEF OpToRel, Less

LEMMA Smallest ==
  ASSUME NEW S \in SUBSET Nat, S # {}
  PROVE  \E n \in S : \A k \in S : n <= k
<1>1. PICK n \in S : \A k \in S : <<k, n>> \notin Less
  BY LessWellFounded, WFMin
<1>2. \A k \in S : ~(k < n)
  BY <1>1 DEF Less
<1> QED
  BY <1>2

\* The event a handler takes is the first of those in its channel.
LEMMA OldestIsFirst ==
  ASSUME Typed, NEW c \in Client, buf[c] # {}
  PROVE  Oldest(c) \in buf[c] /\ \A k \in buf[c] : Oldest(c) <= k
<1>1. buf[c] \in SUBSET Nat
  BY LenProperties DEF Typed
<1>2. \E n \in buf[c] : \A k \in buf[c] : n <= k
  BY <1>1, Smallest
<1> QED
  BY <1>2 DEF Oldest

-----------------------------------------------------------------------------
(* The invariant *)

LEMMA InitIInv == Init => IInv
<1> SUFFICES ASSUME Init
             PROVE  IInv
  OBVIOUS
<1> USE DEF Init
<1>1. Typed
  BY EmptySeq DEF Typed, Subscription
<1>2. Fits
  <2>1. Cardinality({}) = 0
    BY FS_EmptySet
  <2> QED
    BY <2>1 DEF Fits
<1>3. Fresh /\ Waiting /\ Joined
  BY DEF Fresh, Waiting, Joined, InRegister
<1>4. Known /\ Ahead /\ NoGap /\ UpToDate
  BY DEF Known, Listening, Ahead, NoGap, UpToDate
<1> QED
  BY <1>1, <1>2, <1>3, <1>4 DEF IInv, Consistent, ClosedLast, PanicNeedsStop

LEMMA ChannelFinite ==
  ASSUME Typed, NEW c \in Client
  PROVE  IsFiniteSet(buf[c]) /\ Cardinality(buf[c]) \in Nat /\ cap[c] \in Nat
<1>1. Len(log) \in Nat /\ buf[c] \subseteq 1..Len(log)
  BY LenProperties DEF Typed
<1>2. IsFiniteSet(1..Len(log))
  BY <1>1, FS_Interval
<1>3. IsFiniteSet(buf[c])
  BY <1>1, <1>2, FS_Subset
<1>4. cap[c] \in SendSizes \cup {0}
  BY DEF Typed
<1> QED
  <2>1. Cardinality(buf[c]) \in Nat
    BY <1>3, FS_CardinalityType
  <2>2. SendSizes \cup {0} \subseteq Nat
    BY HubAssumption
  <2>3. cap[c] \in Nat
    BY <1>4, <2>2, Zenon
  <2> QED
    BY <1>3, <2>1, <2>3

LEMMA TypedLoop ==
  ASSUME Typed, LoopStep
  PROVE  Typed'
<1> USE DEF Typed, hub, channels, feeds
<1>1. CASE TakeDone
  BY <1>1 DEF TakeDone, Close
<1>2. CASE TakeRegister
  <2>1. Head(register) \in Client /\ Tail(register) \in Seq(Client)
    BY <1>2, TailOf DEF TakeRegister
  <2>2. Len(log) \in Nat
    BY LenProperties
  <2> QED
    BY <1>2, <2>1, <2>2 DEF TakeRegister, Close
<1>3. CASE TakeUnregister
  <2>1. Tail(unregister) \in Seq(Client)
    BY <1>3, TailOf DEF TakeUnregister
  <2> QED
    BY <1>3, <2>1 DEF TakeUnregister, Close
<1>4. CASE TakeBroadcast
  <2>1. Head(broadcast) \in Kind /\ Tail(broadcast) \in Seq(Kind)
    BY <1>4, TailOf DEF TakeBroadcast, FanOut
  <2>2. log' \in Seq(Kind) /\ Len(log') = Len(log) + 1 /\ Len(log) \in Nat
    BY <1>4, <2>1, AppendTo DEF TakeBroadcast, FanOut
  <2>3. buf' \in [Client -> SUBSET (1..Len(log'))]
    BY <1>4, <2>2 DEF TakeBroadcast, FanOut
  <2>4. clients' \subseteq Client /\ closed' \subseteq Client /\ dead' \in BOOLEAN
    BY <1>4 DEF TakeBroadcast, Close, Receivers, Slow
  <2> QED
    BY <1>4, <2>1, <2>2, <2>3, <2>4 DEF TakeBroadcast, FanOut
<1> QED
  BY <1>1, <1>2, <1>3, <1>4 DEF LoopStep

LEMMA TypedHandler ==
  ASSUME Typed, NEW c \in Client, HandlerStep(c)
  PROVE  Typed'
<1> USE DEF Typed, hub, channels, feeds, Goto
<1>1. CASE Register(c)
  <2>1. Append(register, c) \in Seq(Client)
    OBVIOUS
  <2>2. register' \in Seq(Client) /\ closed' \subseteq Client /\ dead' \in BOOLEAN
    <3>1. CASE register' = Append(register, c) /\ UNCHANGED <<dead, closed>>
      BY <2>1, <3>1
    <3>2. CASE Close({c}) /\ UNCHANGED register
      BY <3>2 DEF Close
    <3> QED
      BY <1>1, <3>1, <3>2 DEF Register
  <2>3. cap' \in [Client -> SendSizes \cup {0}]
    BY <1>1 DEF Register
  <2>4. pc' \in [Client -> {"new", "recheck", "check", "hello", "write", "leave", "gone"}]
    BY <1>1 DEF Register
  <2> QED
    BY <1>1, <2>2, <2>3, <2>4 DEF Register
<1>2. CASE Recheck(c)
  BY <1>2 DEF Recheck, Close
<1>3. ASSUME TakeEvent(c)
      PROVE  /\ pos' \in [Client -> Nat \cup {Off}]
             /\ buf' \in [Client -> SUBSET (1..Len(log))]
  <2>1. Oldest(c) \in buf[c]
    BY <1>3, OldestIsFirst DEF TakeEvent
  <2>2. Oldest(c) \in Nat
    BY <2>1, LenProperties
  <2> QED
    BY <1>3, <2>1, <2>2 DEF TakeEvent
<1>4. CASE Check(c)
  BY <1>3, <1>4 DEF Check
<1>5. CASE Greet(c)
  BY <1>5 DEF Greet
<1>6. CASE Write(c)
  BY <1>3, <1>6 DEF Write
<1>7. CASE Unregister(c)
  <2>1. Append(unregister, c) \in Seq(Client)
    OBVIOUS
  <2> QED
    BY <1>7, <2>1 DEF Unregister
<1> QED
  BY <1>1, <1>2, <1>4, <1>5, <1>6, <1>7 DEF HandlerStep

LEMMA TypedStep == Typed /\ [Next]_vars => Typed'
<1> SUFFICES ASSUME Typed, [Next]_vars
             PROVE  Typed'
  OBVIOUS
<1> USE DEF Typed, hub, channels, feeds, Goto
<1>1. ASSUME NEW k \in Kind, Broadcast(k)
      PROVE  Typed'
  BY <1>1 DEF Broadcast
<1>2. CASE Reconfigure
  BY <1>2 DEF Reconfigure
<1>3. CASE Stop
  BY <1>3 DEF Stop
<1>4. ASSUME NEW c \in Client, Disconnect(c)
      PROVE  Typed'
  BY <1>4 DEF Disconnect
<1>5. ASSUME NEW c \in Client, NEW s \in Subscription, Subscribe(c, s)
      PROVE  Typed'
  BY <1>5 DEF Subscribe
<1>6. CASE UNCHANGED vars
  BY <1>6 DEF vars
<1> QED
  BY <1>1, <1>2, <1>3, <1>4, <1>5, <1>6, TypedLoop, TypedHandler DEF Next

-----------------------------------------------------------------------------
\* A channel is closed for the last time, or the process ends.
LEMMA DoneStep == IInv /\ TakeDone => Consistent'
<1> SUFFICES ASSUME IInv, TakeDone
             PROVE  Consistent'
  OBVIOUS
<1> USE DEF IInv, Consistent, TakeDone, LoopRuns, channels
<1>1. closed \subseteq closed' /\ (~dead' => closed' = closed \cup clients)
  BY DEF Close
<1>2. Fits' /\ ClosedLast' /\ PanicNeedsStop'
  BY DEF Fits, ClosedLast, PanicNeedsStop
<1>3. Fresh'
  BY DEF Fresh, InRegister, Close
<1>4. Waiting' /\ Joined'
  BY DEF Waiting, Joined
<1>5. Known'
  BY <1>1 DEF Known, Listening, InRegister
<1>6. Ahead' /\ NoGap' /\ UpToDate'
  BY DEF Ahead, NoGap, UpToDate
<1> QED
  BY <1>2, <1>3, <1>4, <1>5, <1>6

\* The first of the register channel joins with an empty channel, or is turned away.
LEMMA RegisterStep == IInv /\ TakeRegister => Consistent'
<1> SUFFICES ASSUME IInv, TakeRegister
             PROVE  Consistent'
  OBVIOUS
<1> USE DEF IInv, Consistent
<1>0. PICK c \in Client : c = Head(register)
  BY TailOf DEF Typed, TakeRegister
<1>1. /\ c = register[1] /\ 1 \in DOMAIN register
      /\ \A i \in DOMAIN register' :
             /\ i \in Nat /\ i + 1 \in DOMAIN register /\ i + 1 # 1
             /\ register'[i] = register[i + 1]
      /\ \A i \in DOMAIN register : i # 1 => i - 1 \in DOMAIN register' /\ register'[i - 1] = register[i]
  BY <1>0, TailOf DEF Typed, TakeRegister
<1>2. c \notin clients /\ pos[c] = Off /\ buf[c] = {} /\ pc[c] # "new" /\ (c \in closed => done)
  BY <1>1 DEF Waiting, Joined, Fresh, InRegister
<1>3. ~InRegister(c)'
  <2> SUFFICES ASSUME NEW i \in DOMAIN register', register'[i] = c
               PROVE  FALSE
    BY DEF InRegister
  <2>1. register[i + 1] = register[1] /\ i + 1 \in DOMAIN register /\ i + 1 # 1
    BY <1>1
  <2> QED
    BY <1>1, <2>1 DEF Waiting
<1>4. \A d \in Client : InRegister(d) => d = c \/ InRegister(d)'
  BY <1>1 DEF InRegister
<1>5. \A d \in Client : InRegister(d)' => InRegister(d)
  BY <1>1 DEF InRegister
<1>6. UNCHANGED <<done, log, buf, cap, pc>> /\ ~dead
  BY DEF TakeRegister, LoopRuns
<1>7. \/ /\ clients' = clients /\ pos' = pos
         /\ (~dead' => closed' = closed \cup {c}) /\ closed' \subseteq closed \cup {c}
         /\ (dead' => done)
      \/ clients' = clients \cup {c} /\ pos' = [pos EXCEPT ![c] = Len(log)] /\ UNCHANGED <<dead, closed>>
  <2>1. CASE Cardinality(clients) >= limit
    <3>1. Close({c}) /\ UNCHANGED <<clients, pos>>
      BY <1>0, <2>1 DEF TakeRegister
    <3> QED
      BY <1>2, <1>6, <3>1 DEF Close
  <2>2. CASE ~(Cardinality(clients) >= limit)
    BY <1>0, <2>2 DEF TakeRegister
  <2> QED
    BY <2>1, <2>2
<1>8. Fits' /\ ClosedLast' /\ PanicNeedsStop'
  BY <1>2, <1>6, <1>7 DEF Fits, ClosedLast, PanicNeedsStop
<1>9. Fresh'
  BY <1>1, <1>2, <1>5, <1>6, <1>7 DEF Fresh, Typed
<1>10. \A d \in Client : d # c => pos'[d] = pos[d]
  BY <1>7 DEF Typed
<1>11. Waiting'
  <2>1. \A i, j \in DOMAIN register' : register'[i] = register'[j] => i = j
    BY <1>1 DEF Waiting
  <2>2. ASSUME NEW i \in DOMAIN register'
        PROVE  /\ register'[i] \notin clients' /\ pos'[register'[i]] = Off
               /\ register'[i] \in closed' => done'
    <3>1. register'[i] # c
      BY <1>3, <2>2 DEF InRegister
    <3>2. register'[i] \in Client
      BY <1>1, <2>2 DEF Typed
    <3>3. register'[i] \notin clients /\ pos[register'[i]] = Off /\ (register'[i] \in closed => done)
      BY <1>1, <2>2 DEF Waiting
    <3> QED
      BY <1>6, <1>7, <1>10, <3>1, <3>2, <3>3
  <2> QED
    BY <2>1, <2>2 DEF Waiting
<1>12. Len(log) \in Nat /\ Len(log) # Off
  BY HubAssumption, LenProperties DEF Typed
<1>13. Joined'
  BY <1>2, <1>6, <1>7, <1>10, <1>12 DEF Joined, Typed
<1>14. Known'
  BY <1>4, <1>6, <1>7 DEF Known, Listening
<1>15. Ahead' /\ NoGap'
  <2>1. pos'[c] = Off \/ pos'[c] = Len(log)
    BY <1>2, <1>7 DEF Typed
  <2>2. Ahead'
    BY <1>2, <1>6, <1>10, <1>12, <2>1 DEF Ahead
  <2>3. NoGap'
    BY <1>2, <1>6, <1>10, <2>1 DEF NoGap
  <2> QED
    BY <2>2, <2>3
<1>16. UpToDate'
  BY <1>2, <1>6, <1>7, <1>10, <1>12 DEF UpToDate, Typed
<1> QED
  BY <1>8, <1>9, <1>11, <1>13, <1>14, <1>15, <1>16

\* A client that leaves is told; one that is unknown is passed over.
LEMMA UnregisterStep == IInv /\ TakeUnregister => Consistent'
<1> SUFFICES ASSUME IInv, TakeUnregister
             PROVE  Consistent'
  OBVIOUS
<1> USE DEF IInv, Consistent
<1>0. PICK c \in Client : c = Head(unregister)
  BY TailOf DEF Typed, TakeUnregister
<1>1. UNCHANGED <<done, register, log, buf, cap, pos, pc>> /\ ~dead
  BY DEF TakeUnregister, LoopRuns
<1>2. /\ clients' = clients \ {c}
      /\ (~dead' => closed' = closed \cup ({c} \cap clients))
      /\ closed' \subseteq closed \cup clients
      /\ (dead' => done)
  <2>1. clients' = clients \ {c}
    BY <1>0 DEF TakeUnregister
  <2>2. Close({c} \cap clients)
    BY <1>0 DEF TakeUnregister
  <2> QED
    BY <1>1, <2>1, <2>2 DEF Close, ClosedLast
<1>3. Fits' /\ PanicNeedsStop'
  BY <1>1, <1>2 DEF Fits, PanicNeedsStop
<1>4. ClosedLast'
  BY <1>1, <1>2 DEF ClosedLast, TakeUnregister, Close
<1>5. Fresh' /\ Waiting' /\ Joined'
  BY <1>1, <1>2 DEF Fresh, Waiting, Joined, InRegister
<1>6. Known'
  BY <1>1, <1>2 DEF Known, Listening, InRegister
<1>7. Ahead' /\ NoGap' /\ UpToDate'
  BY <1>1, <1>2 DEF Ahead, NoGap, UpToDate
<1> QED
  BY <1>3, <1>4, <1>5, <1>6, <1>7

\* An event goes to who should have it and has room; who has none is told.
LEMMA BroadcastStep == IInv /\ TakeBroadcast => Consistent'
<1> SUFFICES ASSUME IInv, TakeBroadcast
             PROVE  Consistent'
  OBVIOUS
<1> USE DEF IInv, Consistent
<1>1. UNCHANGED <<done, register, cap, pos, pc>> /\ ~dead
  BY DEF TakeBroadcast, FanOut, LoopRuns
<1>2. PICK k \in Kind : k = Head(broadcast)
  BY TailOf DEF TakeBroadcast, FanOut, Typed
<1>3. /\ Len(log) \in Nat /\ DOMAIN log = 1..Len(log)
      /\ Len(log') = Len(log) + 1 /\ DOMAIN log' = 1..(Len(log) + 1)
      /\ \A i \in DOMAIN log : log'[i] = log[i]
      /\ log'[Len(log) + 1] = k
  BY <1>2, AppendTo DEF TakeBroadcast, FanOut, Typed
<1>4. PICK s \in SUBSET clients : s = Receivers \ (Slow \cup closed)
  BY DEF Receivers
<1>5. \A c \in Client : buf'[c] = buf[c] \cup IF c \in s THEN {Len(log) + 1} ELSE {}
  BY <1>4 DEF TakeBroadcast, FanOut
<1>6. clients' = clients \ Slow /\ Slow \subseteq clients
  BY DEF TakeBroadcast, Receivers, Slow
<1>7. \/ Receivers \cap closed = {} /\ closed' = closed \cup Slow /\ UNCHANGED dead
      \/ Receivers \cap closed # {} /\ dead' = TRUE /\ UNCHANGED closed
  <2>1. Slow \subseteq Receivers
    BY DEF Slow
  <2>2. CASE Receivers \cap closed = {}
    <3>1. Close(Slow) /\ Slow \cap closed = {}
      BY <2>1, <2>2 DEF TakeBroadcast
    <3> QED
      BY <2>2, <3>1 DEF Close
  <2>3. CASE Receivers \cap closed # {}
    BY <2>3 DEF TakeBroadcast
  <2> QED
    BY <2>2, <2>3
<1>8. dead' => done
  BY <1>1, <1>7 DEF ClosedLast, Receivers
<1>9. Fits'
  <2> SUFFICES ASSUME NEW c \in Client
               PROVE  Cardinality(buf'[c]) <= cap[c]
    BY <1>1 DEF Fits
  <2>1. IsFiniteSet(buf[c]) /\ Cardinality(buf[c]) \in Nat /\ cap[c] \in Nat
    BY ChannelFinite
  <2>2. CASE c \notin s
    BY <1>5, <2>2 DEF Fits
  <2>3. CASE c \in s
    <3>1. ~(Cardinality(buf[c]) >= cap[c])
      BY <1>4, <2>3 DEF Slow
    <3>2. Cardinality(buf[c] \cup {Len(log) + 1}) = Cardinality(buf[c]) + 1
      <4>1. Len(log) + 1 \notin buf[c]
        BY <1>3 DEF Typed
      <4> QED
        BY <2>1, <4>1, FS_AddElement
    <3>3. buf'[c] = buf[c] \cup {Len(log) + 1}
      BY <1>5, <2>3
    <3> QED
      BY <2>1, <3>1, <3>2, <3>3
  <2> QED
    BY <2>2, <2>3
<1>10. ClosedLast' /\ PanicNeedsStop'
  BY <1>1, <1>6, <1>7, <1>8 DEF ClosedLast, PanicNeedsStop
<1>11. Fresh' /\ Waiting'
  BY <1>1, <1>6, <1>7 DEF Fresh, Waiting, InRegister
<1>12. Joined'
  BY <1>1, <1>4, <1>5, <1>6 DEF Joined
<1>13. Known'
  BY <1>1, <1>6, <1>7 DEF Known, Listening, InRegister
<1>14. Ahead'
  <2> SUFFICES ASSUME NEW c \in Client, pos[c] # Off
               PROVE  pos[c] \in 0..Len(log') /\ \A n \in buf'[c] : pos[c] < n
    BY <1>1 DEF Ahead
  <2>1. pos[c] \in 0..Len(log) /\ \A n \in buf[c] : pos[c] < n
    BY DEF Ahead
  <2>2. \A n \in buf'[c] : n \in buf[c] \/ n = Len(log) + 1
    BY <1>5
  <2>3. Len(log) \in Nat /\ Len(log') = Len(log) + 1
    BY <1>3
  <2>4. pos[c] < Len(log) + 1 /\ pos[c] \in 0..Len(log')
    BY <2>1, <2>3
  <2> QED
    BY <2>1, <2>2, <2>4
<1>15. \A c \in clients : pos[c] # Off
  BY DEF Joined, Typed
<1>16. NoGap'
  <2> SUFFICES ASSUME NEW c \in Client, pos[c] # Off, NEW n \in buf'[c], NEW i \in DOMAIN log',
                      pos[c] < i, i < n, log'[i] = "plain"
               PROVE  i \in buf'[c]
    BY <1>1 DEF NoGap
  <2>1. i \in DOMAIN log /\ log[i] = "plain"
    <3>1. n \in 1..(Len(log) + 1)
      BY <1>3, <1>5 DEF Typed
    <3> QED
      BY <1>3, <3>1
  <2>2. CASE n \in buf[c]
    BY <1>5, <2>1, <2>2 DEF NoGap
  <2>3. CASE n \notin buf[c]
    BY <1>1, <1>4, <1>5, <2>1, <2>3 DEF UpToDate
  <2> QED
    BY <2>2, <2>3
<1>17. UpToDate'
  <2> SUFFICES ASSUME ~dead', NEW c \in clients', NEW i \in DOMAIN log', pos[c] < i, log'[i] = "plain"
               PROVE  i \in buf'[c]
    BY <1>1 DEF UpToDate
  <2>1. c \in clients /\ c \in Client /\ c \notin Slow
    BY <1>6 DEF Typed
  <2>2. CASE i \in DOMAIN log
    BY <1>1, <1>3, <1>5, <2>1, <2>2 DEF UpToDate
  <2>3. CASE i \notin DOMAIN log
    <3>1. i = Len(log) + 1 /\ Head(broadcast) = "plain"
      BY <1>2, <1>3, <2>3
    <3>2. c \in Receivers
      BY <2>1, <3>1 DEF Receivers, ShouldReceive
    <3> QED
      BY <1>4, <1>5, <1>7, <2>1, <3>1, <3>2
  <2> QED
    BY <2>2, <2>3
<1> QED
  BY <1>9, <1>10, <1>11, <1>12, <1>13, <1>14, <1>16, <1>17

LEMMA CallsRegister == ASSUME IInv, NEW c \in Client, Register(c) PROVE Consistent'
<1> USE DEF IInv, Consistent
<1>1. UNCHANGED <<done, clients, log, buf, pos>> /\ ~dead
  BY DEF Register
<1>2. c \notin clients \cup closed /\ pos[c] = Off /\ buf[c] = {} /\ ~InRegister(c)
  BY DEF Register, Fresh, Joined
<1>3. /\ pc'[c] \in {"recheck", "check"}
      /\ \A d \in Client : d # c => pc'[d] = pc[d] /\ cap'[d] = cap[d]
      /\ cap'[c] \in Nat
  BY HubAssumption DEF Register, Goto, Typed
<1>4. \/ register' = Append(register, c) /\ UNCHANGED <<dead, closed>>
      \/ UNCHANGED <<register, dead>> /\ closed' = closed \cup {c} /\ done
  BY <1>2 DEF Register, Close
<1>5. /\ DOMAIN register = 1..Len(register) /\ Len(register) \in Nat
      /\ register' # register => DOMAIN register' = 1..(Len(register) + 1)
      /\ \A i \in DOMAIN register : i \in DOMAIN register' /\ register'[i] = register[i]
      /\ \A i \in DOMAIN register' : i \notin DOMAIN register => register'[i] = c
      /\ register' # register => register'[Len(register) + 1] = c /\ Len(register) + 1 \in DOMAIN register'
  <2>1. CASE register' = register
    BY <2>1, LenProperties DEF Typed
  <2>2. CASE register' = Append(register, c)
    BY <2>2, AppendTo DEF Typed
  <2> QED
    BY <1>4, <2>1, <2>2
<1>6. \A d \in Client : InRegister(d) => InRegister(d)'
  BY <1>5 DEF InRegister
<1>7. \A d \in Client : d # c /\ InRegister(d)' => InRegister(d)
  BY <1>5 DEF InRegister
<1>8. c \in closed' \/ InRegister(c)'
  <2>1. CASE register' = Append(register, c)
    <3>1. Len(register) + 1 \in DOMAIN register' /\ register'[Len(register) + 1] = c
      BY <2>1, AppendTo DEF Typed
    <3> QED
      BY <3>1 DEF InRegister
  <2> QED
    BY <1>4, <2>1
<1>9. Fits'
  <2>1. Cardinality(buf[c]) = 0
    BY <1>2, FS_EmptySet
  <2> QED
    BY <1>1, <1>3, <2>1 DEF Fits
<1>10. ClosedLast' /\ PanicNeedsStop'
  BY <1>1, <1>2, <1>4 DEF ClosedLast, PanicNeedsStop
<1>11. Fresh'
  BY <1>1, <1>3, <1>4, <1>7 DEF Fresh
<1>12. Waiting'
  <2>1. \A i, j \in DOMAIN register' : register'[i] = register'[j] => i = j
    BY <1>2, <1>5 DEF Waiting, InRegister
  <2>2. ASSUME NEW i \in DOMAIN register'
        PROVE  /\ register'[i] \notin clients' /\ pos'[register'[i]] = Off
               /\ register'[i] \in closed' => done'
    BY <1>1, <1>2, <1>4, <1>5, <2>2 DEF Waiting
  <2> QED
    BY <2>1, <2>2 DEF Waiting
<1>13. Joined' /\ Ahead' /\ NoGap' /\ UpToDate'
  BY <1>1, <1>4 DEF Joined, Ahead, NoGap, UpToDate
<1>14. Known'
  BY <1>1, <1>3, <1>4, <1>6, <1>8 DEF Known, Listening
<1> QED
  BY <1>9, <1>10, <1>11, <1>12, <1>13, <1>14

LEMMA CallsRecheck == ASSUME IInv, NEW c \in Client, Recheck(c) PROVE Consistent'
<1> USE DEF IInv, Consistent
<1>1. UNCHANGED <<done, register, clients, log, buf, cap, pos>> /\ ~dead
  BY DEF Recheck, channels
<1>2. /\ pc[c] = "recheck" /\ pc'[c] = "check"
      /\ \A d \in Client : d # c => pc'[d] = pc[d]
  BY DEF Recheck, Goto, Typed
<1>3. /\ closed' = closed \/ (done /\ closed' = closed \cup {c})
      /\ dead' => done
  BY <1>1 DEF Recheck, Close
<1>4. Fits' /\ ClosedLast' /\ PanicNeedsStop'
  BY <1>1, <1>3 DEF Fits, ClosedLast, PanicNeedsStop
<1>5. Fresh' /\ Waiting'
  BY <1>1, <1>2, <1>3 DEF Fresh, Waiting, InRegister
<1>6. Known'
  BY <1>1, <1>2, <1>3 DEF Known, Listening, InRegister
<1>7. Joined' /\ Ahead' /\ NoGap' /\ UpToDate'
  BY <1>1 DEF Joined, Ahead, NoGap, UpToDate
<1> QED
  BY <1>4, <1>5, <1>6, <1>7

\* A handler reads the first event, or none.
LEMMA ReadsChannel ==
  ASSUME IInv, NEW c \in Client, TakeEvent(c) \/ UNCHANGED <<buf, pos>>, ~dead, ~dead',
         pc[c] # "new", pc'[c] \in {"hello", "write", "leave", "gone"},
         Listening(c)' => Listening(c) /\ pc[c] # "recheck",
         \A d \in Client : d # c => pc'[d] = pc[d],
         UNCHANGED <<done, register, clients, log, cap, closed>>
  PROVE  Consistent'
<1> USE DEF IInv, Consistent
<1>1. Fresh' /\ Waiting' /\ Known'
  <2>1. \A d \in Client : pos[d] = Off => pos'[d] = Off
    <3>1. CASE TakeEvent(c)
      BY <3>1 DEF TakeEvent, Joined, Typed
    <3> QED
      BY <3>1
  <2>2. \A i \in DOMAIN register : register[i] \in Client
    BY LenProperties DEF Typed
  <2>3. Fresh'
    BY <2>1 DEF Fresh, InRegister
  <2>4. Waiting'
    BY <2>1, <2>2 DEF Waiting
  <2>5. Known'
    BY DEF Known, Listening, InRegister
  <2> QED
    BY <2>3, <2>4, <2>5
<1>2. ClosedLast' /\ PanicNeedsStop'
  BY DEF ClosedLast, PanicNeedsStop
<1>3. CASE UNCHANGED <<buf, pos>>
  <2>1. Fits' /\ Joined' /\ Ahead' /\ NoGap' /\ UpToDate'
    BY <1>3 DEF Fits, Joined, Ahead, NoGap, UpToDate
  <2> QED
    BY <1>1, <1>2, <2>1
<1>4. CASE TakeEvent(c)
  <2>1. PICK n \in buf[c] : n = Oldest(c) /\ \A k \in buf[c] : n <= k
    BY <1>4, OldestIsFirst DEF TakeEvent
  <2>2. /\ pos'[c] = n /\ buf'[c] = buf[c] \ {n}
        /\ \A d \in Client : d # c => pos'[d] = pos[d] /\ buf'[d] = buf[d]
    BY <1>4, <2>1 DEF TakeEvent, Typed
  <2>3. Len(log) \in Nat /\ DOMAIN log = 1..Len(log)
    BY LenProperties DEF Typed
  <2>4. buf[c] \subseteq 1..Len(log) /\ n \in 1..Len(log) /\ n # Off
    BY <2>3, HubAssumption DEF Typed
  <2>5. pos[c] # Off /\ pos[c] < n /\ pos[c] \in Nat
    BY <2>3 DEF Joined, Ahead
  <2>6. Fits'
    <3>1. IsFiniteSet(buf[c]) /\ Cardinality(buf[c]) \in Nat /\ cap[c] \in Nat
      BY ChannelFinite
    <3>2. Cardinality(buf'[c]) = Cardinality(buf[c]) - 1
      BY <2>2, <3>1, FS_RemoveElement
    <3>3. Cardinality(buf'[c]) <= cap[c]
      BY <3>1, <3>2 DEF Fits
    <3> QED
      BY <2>2, <3>3 DEF Fits
  <2>7. Joined'
    BY <2>2, <2>4, <2>5 DEF Joined
  <2>8. Ahead'
    <3>1. \A k \in buf'[c] : n < k
      BY <2>1, <2>2, <2>4
    <3> QED
      BY <2>2, <2>3, <2>4, <3>1 DEF Ahead
  <2>9. NoGap'
    <3>1. ASSUME NEW m \in buf'[c], NEW i \in DOMAIN log, n < i, i < m, log[i] = "plain"
          PROVE  i \in buf'[c]
      <4>1. pos[c] < i
        BY <2>3, <2>4, <2>5, <3>1
      <4>2. i \in buf[c]
        BY <2>2, <2>5, <3>1, <4>1 DEF NoGap
      <4> QED
        BY <2>2, <2>3, <2>4, <3>1, <4>2
    <3> QED
      BY <2>2, <3>1 DEF NoGap
  <2>10. UpToDate'
    <3>1. ASSUME c \in clients, NEW i \in DOMAIN log, n < i, log[i] = "plain"
          PROVE  i \in buf'[c]
      <4>1. pos[c] < i
        BY <2>3, <2>4, <2>5, <3>1
      <4>2. i \in buf[c]
        BY <3>1, <4>1 DEF UpToDate
      <4> QED
        BY <2>2, <2>3, <2>4, <3>1, <4>2
    <3>2. clients \subseteq Client
      BY DEF Typed
    <3> QED
      BY <2>2, <3>1, <3>2 DEF UpToDate
  <2> QED
    BY <1>1, <1>2, <2>6, <2>7, <2>8, <2>9, <2>10
<1> QED
  BY <1>3, <1>4

LEMMA HandlerKeeps == ASSUME IInv, NEW c \in Client, HandlerStep(c) PROVE Consistent'
<1>1. CASE Check(c)
  BY <1>1, ReadsChannel DEF Check, IInv, Typed, Listening, Goto, hub, channels
<1>2. CASE Greet(c)
  BY <1>2, ReadsChannel DEF Greet, IInv, Typed, Listening, Goto, hub, channels, feeds
<1>3. CASE Write(c)
  BY <1>3, ReadsChannel DEF Write, IInv, Typed, Listening, Goto, hub, channels
<1>4. CASE Unregister(c)
  BY <1>4, ReadsChannel DEF Unregister, IInv, Typed, Listening, Goto, hub, feeds
<1> QED
  BY <1>1, <1>2, <1>3, <1>4, CallsRegister, CallsRecheck DEF HandlerStep

\* What changes neither a client nor an event, nor a handler.
LEMMA AsideKeeps ==
  ASSUME IInv, UNCHANGED <<dead, register, feeds, pc>>, done => done'
  PROVE  Consistent'
<1> USE DEF IInv, Consistent, feeds
<1>1. Fits' /\ ClosedLast' /\ PanicNeedsStop'
  BY DEF Fits, ClosedLast, PanicNeedsStop
<1>2. Fresh' /\ Waiting' /\ Known'
  BY DEF Fresh, Waiting, Known, Listening, InRegister
<1>3. Joined' /\ Ahead' /\ NoGap' /\ UpToDate'
  BY DEF Joined, Ahead, NoGap, UpToDate
<1> QED
  BY <1>1, <1>2, <1>3

LEMMA IInvStep == IInv /\ [Next]_vars => IInv'
<1> SUFFICES ASSUME IInv, [Next]_vars
             PROVE  IInv'
  OBVIOUS
<1>1. CASE LoopStep
  BY <1>1, DoneStep, RegisterStep, UnregisterStep, BroadcastStep, TypedStep DEF LoopStep, IInv
<1>2. ASSUME NEW k \in Kind, Broadcast(k)
      PROVE  Consistent'
  BY <1>2, AsideKeeps DEF Broadcast, hub
<1>3. ASSUME Reconfigure
      PROVE  Consistent'
  BY <1>3, AsideKeeps DEF Reconfigure, channels
<1>4. ASSUME Stop
      PROVE  Consistent'
  BY <1>4, AsideKeeps DEF Stop, channels
<1>5. ASSUME NEW c \in Client, NEW s \in Subscription, Subscribe(c, s)
      PROVE  Consistent'
  BY <1>5, AsideKeeps DEF Subscribe, hub, channels
<1>6. ASSUME NEW c \in Client, Disconnect(c)
      PROVE  Consistent'
  BY <1>6, ReadsChannel DEF Disconnect, IInv, Typed, Listening, Goto, hub, channels, feeds
<1>7. ASSUME UNCHANGED vars
      PROVE  Consistent'
  BY <1>7, AsideKeeps DEF vars, hub, channels
<1>8. Typed'
  BY TypedStep DEF IInv
<1> QED
  BY <1>1, <1>2, <1>3, <1>4, <1>5, <1>6, <1>7, <1>8, HandlerKeeps DEF Next, IInv

LEMMA Invariance == Spec => []IInv
  BY InitIInv, IInvStep, PTL DEF Spec

-----------------------------------------------------------------------------
(* What the runs check *)

\* States are of their types, no channel holds more than its size, and a hub that
\* is not stopped knows no client whose channel is closed.
THEOREM TypeCorrect == Spec => []TypeOK
<1>1. IInv => TypeOK
  BY DEF IInv, Consistent, Fits, ClosedLast, TypeOK
<1> QED
  BY <1>1, Invariance, PTL

\* A handler that waits on its channel is known to the hub, or on its way to it,
\* or finds the channel closed.
THEOREM NobodyIsForgotten == Spec => []NobodyForgotten
<1>1. IInv => NobodyForgotten
  BY DEF IInv, Consistent, Known, InRegister, NobodyForgotten
<1> QED
  BY <1>1, Invariance, PTL

\* As long as nobody stops the hub no channel is closed twice or sent to after it
\* was closed, for any number of clients and any order of the loop's cases.
THEOREM PanicsNeedStop == Spec => []PanicNeedsStop
<1>1. IInv => PanicNeedsStop
  BY DEF IInv, Consistent
<1> QED
  BY <1>1, Invariance, PTL

-----------------------------------------------------------------------------
(* The refinement *)

\* What the connection c has read, as EventFeed sees it.
Read(c) == IF pc[c] \in {"hello", "write"} THEN pos[c] ELSE Off

LEMMA FeedInitially == Init => Feed!FeedInit
  BY DEF Init, Feed!FeedInit

\* A step of one connection that leaves the log alone is a step of its feed.
LEMMA FeedOfOne ==
  ASSUME NEW c \in Client, UNCHANGED log,
         \A d \in Client : d # c => Read(d)' = Read(d),
         \/ Read(c)' = Read(c)
         \/ Read(c)' = Off
         \/ Read(c) = Off /\ Read(c)' \in 0..Len(log)
         \/ /\ Read(c) # Off
            /\ Read(c)' \in (Read(c) + 1)..Len(log)
            /\ \A i \in (Read(c) + 1)..(Read(c)' - 1) : log[i] # "plain"
  PROVE  [Feed!FeedNext]_Feed!feedVars
<1> DEFINE F == [d \in Client |-> Read(d)]
<1>1. F' = [F EXCEPT ![c] = Read(c)']
  OBVIOUS
<1>2. F[c] = Read(c) /\ F = [F EXCEPT ![c] = F[c]]
  OBVIOUS
<1>3. /\ F = [d \in Client |-> IF pc[d] \in {"hello", "write"} THEN pos[d] ELSE Off]
      /\ F' = [d \in Client |-> IF pc'[d] \in {"hello", "write"} THEN pos'[d] ELSE Off]
  BY DEF Read
<1> HIDE DEF F
<1>4. CASE Read(c)' = Read(c)
  <2>1. F' = F
    BY <1>1, <1>2, <1>4
  <2> QED
    BY <1>3, <2>1 DEF Feed!feedVars
<1>5. CASE Read(c)' = Off
  <2>1. F' = [F EXCEPT ![c] = Off] /\ UNCHANGED log
    BY <1>1, <1>5
  <2>2. Feed!Leave(c)
    BY <1>3, <2>1 DEF Feed!Leave
  <2> QED
    BY <2>2 DEF Feed!FeedNext
<1>6. CASE Read(c) = Off /\ Read(c)' \in 0..Len(log)
  <2>1. F[c] = Off /\ \E n \in 0..Len(log) : F' = [F EXCEPT ![c] = n]
    BY <1>1, <1>2, <1>6
  <2>2. Feed!Join(c)
    BY <1>3, <2>1 DEF Feed!Join
  <2> QED
    BY <2>2 DEF Feed!FeedNext
<1>7. CASE /\ Read(c) # Off
           /\ Read(c)' \in (Read(c) + 1)..Len(log)
           /\ \A i \in (Read(c) + 1)..(Read(c)' - 1) : log[i] # "plain"
  <2>1. /\ F[c] # Off
        /\ \E n \in (F[c] + 1)..Len(log) :
               /\ \A i \in (F[c] + 1)..(n - 1) : log[i] # "plain"
               /\ F' = [F EXCEPT ![c] = n]
    BY <1>1, <1>2, <1>7
  <2>2. Feed!Receive(c)
    BY <1>3, <2>1 DEF Feed!Receive
  <2> QED
    BY <2>2 DEF Feed!FeedNext
<1> QED
  BY <1>4, <1>5, <1>6, <1>7

\* What a handler reads is the next event, or events only for others come before it.
LEMMA ReadsNext ==
  ASSUME IInv, ~dead, NEW c \in Client, TakeEvent(c), UNCHANGED log
  PROVE  /\ pos[c] # Off
         /\ pos'[c] \in (pos[c] + 1)..Len(log)
         /\ \A i \in (pos[c] + 1)..(pos'[c] - 1) : log[i] # "plain"
         /\ \A d \in Client : d # c => pos'[d] = pos[d]
<1> USE DEF IInv, Consistent
<1>1. PICK n \in buf[c] : n = Oldest(c) /\ \A k \in buf[c] : n <= k
  BY OldestIsFirst DEF TakeEvent
<1>2. pos'[c] = n /\ \A d \in Client : d # c => pos'[d] = pos[d]
  BY <1>1 DEF TakeEvent, Typed
<1>3. Len(log) \in Nat /\ DOMAIN log = 1..Len(log) /\ buf[c] \subseteq 1..Len(log)
  BY LenProperties DEF Typed
<1>4. pos[c] # Off /\ pos[c] \in 0..Len(log) /\ pos[c] < n
  BY DEF Joined, Ahead
<1>5. ASSUME NEW i \in (pos[c] + 1)..(n - 1), log[i] = "plain"
      PROVE  FALSE
  <2>1. i \in DOMAIN log /\ pos[c] < i /\ i < n
    BY <1>3, <1>4, <1>5
  <2>2. i \in buf[c]
    BY <1>4, <1>5, <2>1 DEF NoGap
  <2> QED
    BY <1>1, <1>3, <2>1, <2>2
<1>6. pos'[c] \in (pos[c] + 1)..Len(log)
  BY <1>2, <1>3, <1>4
<1> QED
  BY <1>2, <1>4, <1>5, <1>6

LEMMA FeedHandler ==
  ASSUME IInv, NEW c \in Client, HandlerStep(c)
  PROVE  [Feed!FeedNext]_Feed!feedVars
<1> USE DEF Goto, hub, channels, feeds, IInv, Typed
<1>1. UNCHANGED log /\ ~dead
  BY DEF HandlerStep, Register, Recheck, Check, Greet, Write, Unregister
<1>2. \A d \in Client : d # c => pc'[d] = pc[d]
  BY DEF HandlerStep, Register, Recheck, Check, Greet, Write, Unregister
<1>3. CASE TakeEvent(c)
  <2>1. /\ pos[c] # Off
        /\ pos'[c] \in (pos[c] + 1)..Len(log)
        /\ \A i \in (pos[c] + 1)..(pos'[c] - 1) : log[i] # "plain"
        /\ \A d \in Client : d # c => pos'[d] = pos[d]
    BY <1>1, <1>3, ReadsNext
  <2>2. \A d \in Client : d # c => Read(d)' = Read(d)
    BY <1>2, <2>1 DEF Read
  <2>3. pos'[c] \in 0..Len(log)
    <3>1. pos[c] \in 0..Len(log) /\ Len(log) \in Nat
      BY <2>1, LenProperties DEF Consistent, Ahead
    <3> QED
      BY <2>1, <3>1
  <2>4. Read(c) = Off \/ Read(c) = pos[c]
    BY DEF Read
  <2>5. Read(c)' = Off \/ Read(c)' = pos'[c]
    BY DEF Read
  <2> QED
    BY <1>1, <2>1, <2>2, <2>3, <2>4, <2>5, FeedOfOne
<1>4. CASE UNCHANGED pos
  <2>1. \A d \in Client : d # c => Read(d)' = Read(d)
    BY <1>2, <1>4 DEF Read
  <2>2. pos[c] = Off \/ pos[c] \in 0..Len(log)
    BY DEF Consistent, Ahead
  <2>3. Read(c) = Off \/ Read(c) = pos[c]
    BY DEF Read
  <2>4. Read(c)' = Off \/ Read(c)' = pos[c]
    BY <1>4 DEF Read
  <2> QED
    BY <1>1, <2>1, <2>2, <2>3, <2>4, FeedOfOne
<1> QED
  BY <1>3, <1>4 DEF HandlerStep, Register, Recheck, Check, Greet, Write, Unregister

LEMMA FeedLoop ==
  ASSUME IInv, LoopStep
  PROVE  [Feed!FeedNext]_Feed!feedVars
<1>1. CASE TakeBroadcast
  <2>1. Head(broadcast) \in Kind /\ log' = Append(log, Head(broadcast))
    BY <1>1, TailOf DEF IInv, Typed, TakeBroadcast, FanOut
  <2>2. UNCHANGED <<pos, pc>>
    BY <1>1 DEF TakeBroadcast, FanOut
  <2> QED
    BY <2>1, <2>2 DEF Feed!FeedNext, Feed!Publish
<1>2. CASE TakeRegister
  <2>1. PICK c \in Client : c = Head(register) /\ InRegister(c)
    BY <1>2, TailOf DEF IInv, Typed, TakeRegister, InRegister
  <2>2. pos[c] = Off /\ UNCHANGED <<log, pc>>
    BY <1>2, <2>1 DEF IInv, Consistent, Waiting, InRegister, TakeRegister
  <2>3. pos' = pos \/ pos' = [pos EXCEPT ![c] = Len(log)]
    BY <1>2, <2>1 DEF TakeRegister
  <2>4. \A d \in Client : d # c => Read(d)' = Read(d)
    BY <2>2, <2>3 DEF Read, IInv, Typed
  <2>5. Read(c) = Off /\ (Read(c)' = Off \/ Read(c)' = Len(log))
    BY <2>2, <2>3 DEF Read, IInv, Typed
  <2>6. Len(log) \in 0..Len(log)
    BY LenProperties DEF IInv, Typed
  <2> QED
    BY <2>2, <2>4, <2>5, <2>6, FeedOfOne
<1>3. CASE TakeDone \/ TakeUnregister
  BY <1>3 DEF TakeDone, TakeUnregister, channels, Feed!feedVars
<1> QED
  BY <1>1, <1>2, <1>3 DEF LoopStep

LEMMA FeedStep == IInv /\ [Next]_vars => [Feed!FeedNext]_Feed!feedVars
<1> SUFFICES ASSUME IInv, [Next]_vars
             PROVE  [Feed!FeedNext]_Feed!feedVars
  OBVIOUS
<1>1. CASE LoopStep
  BY <1>1, FeedLoop
<1>2. ASSUME NEW c \in Client, HandlerStep(c)
      PROVE  [Feed!FeedNext]_Feed!feedVars
  BY <1>2, FeedHandler
<1>3. ASSUME NEW c \in Client, Disconnect(c)
      PROVE  [Feed!FeedNext]_Feed!feedVars
  <2>1. Read(c)' = Off /\ UNCHANGED log /\ \A d \in Client : d # c => Read(d)' = Read(d)
    BY <1>3 DEF Disconnect, Goto, Read, IInv, Typed, feeds
  <2> QED
    BY <2>1, FeedOfOne
<1>4. ASSUME UNCHANGED <<log, pos, pc>>
      PROVE  [Feed!FeedNext]_Feed!feedVars
  BY <1>4 DEF Feed!feedVars
<1>5. ASSUME NEW c \in Client, NEW s \in Subscription, Subscribe(c, s)
      PROVE  UNCHANGED <<log, pos, pc>>
  BY <1>5 DEF Subscribe, feeds
<1>6. ASSUME NEW k \in Kind, Broadcast(k)
      PROVE  UNCHANGED <<log, pos, pc>>
  BY <1>6 DEF Broadcast, feeds
<1>7. Reconfigure \/ Stop \/ UNCHANGED vars => UNCHANGED <<log, pos, pc>>
  BY DEF Reconfigure, Stop, vars, feeds
<1> QED
  BY <1>1, <1>2, <1>3, <1>4, <1>5, <1>6, <1>7 DEF Next

\* A connection that is written to gets, from where it joined, every event that is
\* broadcast to all, in order and once: it is dropped rather than left with a gap.
THEOREM HubImplementsFeed == Spec => ImplementsFeed
  BY FeedInitially, FeedStep, Invariance, PTL DEF Spec, ImplementsFeed, Feed!FeedSpec

-----------------------------------------------------------------------------
(* How connections end *)

\* What is closed stays closed, and a handler that leaves comes back from nowhere.
LEMMA EndingLasts ==
    ASSUME IInv, NEW c \in Client, [Next]_vars, Ending(c)
    PROVE  Ending(c)' \/ (pc[c] = "gone")'
<1>1. closed \subseteq closed'
  BY DEF Next, LoopStep, TakeDone, TakeRegister, TakeUnregister, TakeBroadcast, FanOut, Close,
     Broadcast, Reconfigure, Stop, HandlerStep, Register, Recheck, Check, Greet, Write,
     Unregister, Disconnect, Subscribe, feeds, vars
<1>2. pc \in [Client -> {"new", "recheck", "check", "hello", "write", "leave", "gone"}]
  BY DEF IInv, Typed
<1>3. /\ pc[c] # "new" => pc'[c] # "new"
      /\ pc[c] = "leave" => pc'[c] \in {"leave", "gone"}
  BY <1>2 DEF Next, LoopStep, TakeDone, TakeRegister, TakeUnregister, TakeBroadcast, FanOut,
     Broadcast, Reconfigure, Stop, HandlerStep, Register, Recheck, Check, Greet, Write,
     Unregister, Disconnect, Subscribe, Goto, vars
<1> QED
  BY <1>1, <1>3 DEF Ending

\* HandlersEnd says that a handler is found not ending, gone or dead again and
\* again.  Since an end once begun is not taken back, each one that begins to end
\* is gone, or the process is.
THEOREM EndingHandlersGo ==
    ASSUME NEW c \in Client
    PROVE  Spec /\ HandlersEnd => (Ending(c) ~> (pc[c] = "gone" \/ dead))
<1>1. HandlersEnd => []<>(Ending(c) => pc[c] = "gone" \/ dead)
  BY DEF HandlersEnd
<1>2. IInv /\ [Next]_vars /\ Ending(c) => Ending(c)' \/ (pc[c] = "gone")'
  BY EndingLasts
<1> QED
  BY <1>1, <1>2, Invariance, PTL DEF Spec

=============================================================================
