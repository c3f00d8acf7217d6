-------------------------- MODULE StartRateLimiter --------------------------
(***************************************************************************)
(* kitchenqueue.RateLimiter: the gate a worker passes between claiming a   *)
(* row and starting a machine (KitchenQueue!Admit and GateAborts).  Its    *)
(* mutex is held over the whole of Wait, the sleep included, and its       *)
(* window and maximum are read anew in every round of Wait's loop, so an   *)
(* administrator changes them under callers that sleep or queue for the    *)
(* mutex.  The recorded starts are memory and go with the process.         *)
(***************************************************************************)
EXTENDS Integers, Sequences

CONSTANTS
    Caller,      \* the worker goroutines
    Config,      \* the settings administrators choose from
    MaxTime,     \* how far the clock runs
    MaxBoots     \* how many processes a behaviour sees

ASSUME LimiterAssumption ==
    /\ Config \subseteq [window : Nat, max : Nat]
    /\ MaxTime \in Nat
    /\ MaxBoots \in Nat \ {0}

VARIABLES
    now,         \* the clock
    config,      \* the live configuration
    stopped,     \* m.ctx is cancelled
    pc,          \* per caller: where in Wait it is
    params,      \* what the mutex holder last read from the configuration
    wake,        \* when the mutex holder's timer fires
    slept,       \* ghost: the mutex holder already slept on these parameters
    starts,      \* RateLimiter.starts
    charged,     \* ghost: every start ever granted, with the settings it was granted under
    boots        \* which process this is

round == <<params, wake, slept>>
vars == <<now, config, stopped, pc, round, starts, charged, boots>>

-----------------------------------------------------------------------------

Disabled(c) == c.window <= 0 \/ c.max < 1

\* Inside the mutex.
Inside == {"look", "decide", "asleep"}

\* What a holder reads and computes is local to its call.
NoSetting == [window |-> 0, max |-> 0]

Forget == params' = NoSetting /\ wake' = 0 /\ slept' = FALSE

Step(w, from, to) == pc[w] = from /\ pc' = [pc EXCEPT ![w] = to]

\* prune: the first n starts are at least a window old and the next one is not.
AgedTooSoon(n) ==
    /\ \A k \in 1..n : starts[k] < now
    /\ n < Len(starts) => starts[n + 1] >= now

Aged(n) ==
    /\ \A k \in 1..n : starts[k] <= now - params.window
    /\ n < Len(starts) => starts[n + 1] > now - params.window

Kept(n) == SubSeq(starts, n + 1, Len(starts))

\* When the window has room: the max-th start from the end must age out.
WindowClearOldest(s) ==
    IF Len(s) >= params.max THEN s[1] + params.window ELSE 0

WindowClear(s) ==
    IF Len(s) >= params.max THEN s[Len(s) - params.max + 1] + params.window ELSE 0

\* When the last start is far enough back.
PacedUnevenly(s) == 0

PacedTimesMax(s) == IF s # <<>> THEN s[Len(s)] + params.window * params.max ELSE 0

Paced(s) == IF s # <<>> THEN s[Len(s)] + params.window \div params.max ELSE 0

Earliest(s) == IF Paced(s) > WindowClear(s) THEN Paced(s) ELSE WindowClear(s)

-----------------------------------------------------------------------------
(* Wait *)

\* A worker with a claimed row calls Wait.
Call(w) ==
    /\ Step(w, "idle", "blocked")
    /\ UNCHANGED <<now, config, stopped, round, starts, charged, boots>>

AcquireUnserialised(w) ==
    /\ Step(w, "blocked", "look")
    /\ UNCHANGED <<now, config, stopped, round, starts, charged, boots>>

\* The mutex is free and this caller gets it.
Acquire(w) ==
    /\ \A v \in Caller : pc[v] \notin Inside
    /\ Step(w, "blocked", "look")
    /\ UNCHANGED <<now, config, stopped, round, starts, charged, boots>>

GiveUpAwake(w) ==
    /\ stopped
    /\ Step(w, "look", "idle")
    /\ Forget
    /\ UNCHANGED <<now, config, stopped, starts, charged, boots>>

\* The context is cancelled: at the top of the loop or in the sleep.
GiveUp(w) ==
    /\ stopped
    /\ Step(w, "look", "idle") \/ Step(w, "asleep", "idle")
    /\ Forget
    /\ UNCHANGED <<now, config, stopped, starts, charged, boots>>

\* The limiter is off: the start is let through and not recorded.
PassThrough(w) ==
    /\ ~stopped
    /\ Disabled(config)
    /\ Step(w, "look", "idle")
    /\ Forget
    /\ UNCHANGED <<now, config, stopped, starts, charged, boots>>

\* The settings of this round.
Look(w) ==
    /\ ~stopped
    /\ ~Disabled(config)
    /\ Step(w, "look", "decide")
    /\ params' = config
    /\ slept' = (slept /\ config = params)
    /\ UNCHANGED <<now, config, stopped, wake, starts, charged, boots>>

\* A start is permitted now and recorded.
Grant(w) ==
    /\ Step(w, "decide", "idle")
    /\ \E n \in 0..Len(starts) :
          /\ Aged(n)
          /\ Earliest(Kept(n)) <= now
          /\ starts' = Append(Kept(n), now)
    /\ charged' = Append(charged, [at |-> now, by |-> params, boot |-> boots])
    /\ Forget
    /\ UNCHANGED <<now, config, stopped, boots>>

\* It is not: wait for the earliest time it will be, mutex in hand.
Sleep(w) ==
    /\ Step(w, "decide", "asleep")
    /\ \E n \in 0..Len(starts) :
          /\ Aged(n)
          /\ Earliest(Kept(n)) > now
          /\ starts' = Kept(n)
          /\ wake' = Earliest(Kept(n))
    /\ slept' = TRUE
    /\ UNCHANGED <<now, config, stopped, params, charged, boots>>

\* The timer fires; the loop starts over.
Wake(w) ==
    /\ now >= wake
    /\ Step(w, "asleep", "look")
    /\ wake' = 0
    /\ UNCHANGED <<now, config, stopped, params, slept, starts, charged, boots>>

-----------------------------------------------------------------------------
(* What happens around it *)

Tick ==
    /\ now < MaxTime
    /\ now' = now + 1
    /\ UNCHANGED <<config, stopped, pc, round, starts, charged, boots>>

\* An administrator saves other settings.
Configure(c) ==
    /\ config' = c
    /\ UNCHANGED <<now, stopped, pc, round, starts, charged, boots>>

\* Manager.Stop cancels m.ctx.
Stop ==
    /\ stopped' = TRUE
    /\ UNCHANGED <<now, config, pc, round, starts, charged, boots>>

\* A new process: NewRateLimiter starts without a history.
Restart ==
    /\ boots < MaxBoots
    /\ boots' = boots + 1
    /\ starts' = <<>>
    /\ stopped' = FALSE
    /\ pc' = [w \in Caller |-> "idle"]
    /\ Forget
    /\ UNCHANGED <<now, config, charged>>

Init ==
    /\ now = 0
    /\ config \in Config
    /\ stopped = FALSE
    /\ pc = [w \in Caller |-> "idle"]
    /\ params = NoSetting
    /\ wake = 0
    /\ slept = FALSE
    /\ starts = <<>>
    /\ charged = <<>>
    /\ boots = 1

Advance(w) ==
    \/ GiveUp(w)
    \/ PassThrough(w)
    \/ Look(w)
    \/ Grant(w)
    \/ Sleep(w)
    \/ Wake(w)

Next ==
    \/ \E w \in Caller : Call(w) \/ Acquire(w) \/ Advance(w)
    \/ Tick
    \/ \E c \in Config : Configure(c)
    \/ Stop
    \/ Restart

Spec == Init /\ [][Next]_vars

\* Goroutines are scheduled, and a Go mutex does not starve a waiter.
FairSpec ==
    /\ Spec
    /\ \A w \in Caller : WF_vars(Advance(w)) /\ SF_vars(Acquire(w))

-----------------------------------------------------------------------------
(* Properties *)

\* Every setting that switches the limiter on has a window of at least m.
AtLeast(m) == \A c \in Config : Disabled(c) \/ m <= c.window

\* The starts are the newest ones charged by this process, in order, and what
\* prune dropped is a window old.
TypeOK ==
    /\ now \in 0..MaxTime
    /\ config \in Config
    /\ stopped \in BOOLEAN
    /\ pc \in [Caller -> {"idle", "blocked"} \cup Inside]
    /\ params \in Config \cup {NoSetting}
    /\ wake \in Nat
    /\ slept \in BOOLEAN
    /\ starts \in Seq(0..MaxTime)
    /\ charged \in Seq([at : 0..MaxTime, by : Config, boot : 1..MaxBoots])
    /\ boots \in 1..MaxBoots
    /\ \A w \in Caller : pc[w] = "decide" => ~Disabled(params)
    /\ \A v, w \in Caller : pc[v] \in Inside /\ pc[w] \in Inside => v = w

\* "In any trailing window, no more than maxPerWindow starts": between a granted
\* start and the one maxPerWindow places before it, in the same process, lies the
\* shortest window an administrator may set.  A longer one is not kept to, since
\* a shorter one may have pruned starts that it needs; the maximum may move at
\* will, and whoever queues for the mutex.
WindowBound ==
    \A m \in {c.window : c \in Config} : AtLeast(m) =>
        \A i \in DOMAIN charged :
            LET c == charged[i] IN
            (i > c.by.max /\ charged[i - c.by.max].boot = c.boot)
                => c.at - charged[i - c.by.max].at >= m

\* Starts are evenly paced: each is at least window / maxPerWindow after the
\* one before it, for the maximum it was granted under and the same window.
EvenPace ==
    \A m \in {c.window : c \in Config} : AtLeast(m) =>
        \A i \in DOMAIN charged :
            (i > 1 /\ charged[i - 1].boot = charged[i].boot) =>
                charged[i].at - charged[i - 1].at >= m \div charged[i].by.max

\* Nobody holds the mutex asleep for longer than one window of the settings it
\* decided by: a wait at the gate is bounded.
SleepBounded ==
    \A w \in Caller : pc[w] = "asleep" => wake - now <= params.window

\* The computed time is exact: a caller that slept until it, under settings that
\* did not change, is let through and not put to sleep again.
OneSleep ==
    [][\A w \in Caller : pc[w] = "decide" /\ pc'[w] = "asleep" => ~slept]_vars

\* A shutdown empties the gate: the sleeper and everyone queued for the mutex
\* behind it return.
StopFreesWaiters ==
    \A w \in Caller : []<>(stopped => pc[w] = "idle")

=============================================================================
