----------------------- MODULE StartRateLimiterProofs -----------------------
(***************************************************************************)
(* Theorems about StartRateLimiter, for every set of callers and settings. *)
(* The window bound is about the whole history of granted starts, of which *)
(* the code keeps only a suffix: the inductive invariant says which suffix, *)
(* and that what is no longer kept is a full window old.                    *)
(***************************************************************************)
EXTENDS StartRateLimiter, SequenceTheorems, TLAPS

Charge == [at : 0..MaxTime, by : Config, boot : 1..MaxBoots]

LEMMA Quotient ==
  ASSUME NEW w \in Nat, NEW m \in Nat \ {0}
  PROVE  w \div m \in Nat /\ w \div m <= w
  OBVIOUS

LEMMA QuotientMonotone ==
  ASSUME NEW v \in Nat, NEW w \in Nat, v <= w, NEW m \in Nat \ {0}
  PROVE  v \div m <= w \div m
  OBVIOUS

\* What prune keeps is a suffix of the starts.
LEMMA KeptSuffix ==
  ASSUME starts \in Seq(0..MaxTime), NEW n \in 0..Len(starts)
  PROVE  /\ Kept(n) \in Seq(0..MaxTime)
         /\ Len(Kept(n)) = Len(starts) - n
         /\ \A k \in 1..(Len(starts) - n) : Kept(n)[k] = starts[n + k]
  <1>1. Len(starts) \in Nat
    BY LenProperties
  <1>2. \A i \in (n + 1)..Len(starts) : starts[i] \in 0..MaxTime
    <2>1. starts \in [1..Len(starts) -> 0..MaxTime]
      BY LenProperties
    <2> QED
      BY <1>1, <2>1
  <1>3. /\ Kept(n) \in Seq(0..MaxTime)
        /\ Len(Kept(n)) = IF n + 1 <= Len(starts) THEN Len(starts) - (n + 1) + 1 ELSE 0
        /\ \A k \in 1..(Len(starts) - (n + 1) + 1) : Kept(n)[k] = starts[n + 1 + k - 1]
    BY <1>1, <1>2, SubSeqProperties DEF Kept
  <1> QED
    BY <1>1, <1>3

\* The times computed from a sequence of starts are numbers, and at most one
\* window after the clock when the starts are not in the future.
LEMMA EarliestBound ==
  ASSUME params \in Config, ~Disabled(params), now \in 0..MaxTime,
         NEW s \in Seq(0..MaxTime), \A k \in 1..Len(s) : s[k] <= now
  PROVE  Earliest(s) \in Nat /\ Earliest(s) <= now + params.window
  <1>1. params.window \in Nat /\ params.max \in Nat \ {0}
    BY LimiterAssumption DEF Disabled
  <1>2. params.window \div params.max \in 0..params.window
    BY <1>1, Quotient
  <1>3. Len(s) \in Nat /\ \A k \in 1..Len(s) : s[k] \in Nat
    <2>1. Len(s) \in Nat /\ s \in [1..Len(s) -> 0..MaxTime]
      BY LenProperties
    <2> QED
      BY <2>1, LimiterAssumption
  <1>4. WindowClear(s) \in Nat /\ WindowClear(s) <= now + params.window
    <2>1. CASE Len(s) >= params.max
      <3>1. Len(s) - params.max + 1 \in 1..Len(s)
        BY <1>1, <1>3, <2>1
      <3> QED
        BY <1>1, <1>3, <2>1, <3>1 DEF WindowClear
    <2>2. CASE ~(Len(s) >= params.max)
      BY <1>1, <2>2 DEF WindowClear
    <2> QED
      BY <2>1, <2>2
  <1>5. Paced(s) \in Nat /\ Paced(s) <= now + params.window
    <2>1. CASE s # <<>>
      <3>1. Len(s) \in 1..Len(s)
        BY <1>3, <2>1, EmptySeq
      <3> QED
        BY <1>1, <1>2, <1>3, <2>1, <3>1 DEF Paced
    <2>2. CASE s = <<>>
      BY <1>1, <2>2 DEF Paced
    <2> QED
      BY <2>1, <2>2
  <1> QED
    BY <1>1, <1>4, <1>5 DEF Earliest

-----------------------------------------------------------------------------
(* Type correctness, together with what it takes for wake to be a number:   *)
(* no recorded start lies in the future.                                    *)

Past == \A k \in 1..Len(starts) : starts[k] <= now

TypeInv == TypeOK /\ Past

LEMMA TypeInit == Init => TypeInv
  <1> SUFFICES ASSUME Init
               PROVE  TypeInv
    OBVIOUS
  <1>1. <<>> \in Seq(0..MaxTime) /\ <<>> \in Seq(Charge) /\ Len(<<>>) = 0
    BY EmptySeq
  <1>2. starts = <<>> /\ charged = <<>> /\ starts \in Seq(0..MaxTime) /\ charged \in Seq(Charge)
    BY <1>1 DEF Init
  <1>3. Past
    BY <1>1, <1>2 DEF Past
  <1>4. /\ now \in 0..MaxTime
        /\ boots \in 1..MaxBoots
        /\ wake \in Nat
    BY LimiterAssumption DEF Init
  <1>5. /\ pc \in [Caller -> {"idle", "blocked"} \cup Inside]
        /\ \A w \in Caller : pc[w] = "idle"
    BY DEF Init
  <1> QED
    BY <1>2, <1>3, <1>4, <1>5 DEF Init, TypeInv, TypeOK, Inside, NoSetting, Charge

LEMMA TypeStep == TypeInv /\ [Next]_vars => TypeInv'
  <1> SUFFICES ASSUME TypeInv, [Next]_vars
               PROVE  TypeInv'
    OBVIOUS
  <1> USE DEF TypeInv, TypeOK, Past, Inside
  <1>1. ASSUME NEW w \in Caller, Call(w) \/ Acquire(w) \/ GiveUp(w) \/ PassThrough(w)
        PROVE  TypeInv'
    <2>1. CASE Call(w)
      BY <2>1 DEF Call, Step, round
    <2>2. CASE Acquire(w)
      BY <2>2 DEF Acquire, Step, round
    <2>3. CASE GiveUp(w)
      BY <2>3 DEF GiveUp, Step, Forget, NoSetting
    <2>4. CASE PassThrough(w)
      BY <2>4 DEF PassThrough, Step, Forget, NoSetting
    <2> QED
      BY <1>1, <2>1, <2>2, <2>3, <2>4
  <1>2. ASSUME NEW w \in Caller, Look(w)
        PROVE  TypeInv'
    BY <1>2 DEF Look, Step
  <1>3. ASSUME NEW w \in Caller, Wake(w)
        PROVE  TypeInv'
    BY <1>3 DEF Wake, Step
  <1>4. ASSUME NEW w \in Caller, Grant(w)
        PROVE  TypeInv'
    <2>1. PICK n \in 0..Len(starts) : starts' = Append(Kept(n), now)
      BY <1>4 DEF Grant
    <2>2. /\ Kept(n) \in Seq(0..MaxTime)
          /\ Len(Kept(n)) = Len(starts) - n
          /\ \A k \in 1..(Len(starts) - n) : Kept(n)[k] = starts[n + k]
      BY KeptSuffix
    <2>3. Len(starts) \in Nat
      BY LenProperties
    <2>4. /\ starts' \in Seq(0..MaxTime)
          /\ Len(starts') = Len(starts) - n + 1
          /\ \A k \in 1..(Len(starts) - n) : starts'[k] = starts[n + k]
          /\ starts'[Len(starts) - n + 1] = now
      BY <2>1, <2>2, AppendProperties
    <2>5. \A k \in 1..Len(starts') : starts'[k] <= now
      <3> TAKE k \in 1..Len(starts')
      <3>1. CASE k = Len(starts) - n + 1
        BY <2>4, <3>1
      <3>2. CASE k \in 1..(Len(starts) - n)
        <4>1. n + k \in 1..Len(starts)
          BY <2>3, <3>2
        <4> QED
          BY <2>4, <3>2, <4>1
      <3> QED
        BY <2>3, <2>4, <3>1, <3>2
    <2>6. params \in Config
      BY <1>4 DEF Grant, Step, Disabled, NoSetting
    <2>7. charged' \in Seq(Charge)
      <3>1. [at |-> now, by |-> params, boot |-> boots] \in Charge
        BY <2>6 DEF Charge
      <3> QED
        BY <1>4, <3>1, AppendProperties DEF Grant, Charge
    <2> QED
      BY <1>4, <2>4, <2>5, <2>7 DEF Grant, Step, Forget, NoSetting, Charge
  <1>5. ASSUME NEW w \in Caller, Sleep(w)
        PROVE  TypeInv'
    <2>1. PICK n \in 0..Len(starts) : starts' = Kept(n) /\ wake' = Earliest(Kept(n))
      BY <1>5 DEF Sleep
    <2>2. /\ Kept(n) \in Seq(0..MaxTime)
          /\ Len(Kept(n)) = Len(starts) - n
          /\ \A k \in 1..(Len(starts) - n) : Kept(n)[k] = starts[n + k]
      BY KeptSuffix
    <2>3. Len(starts) \in Nat
      BY LenProperties
    <2>4. \A k \in 1..Len(Kept(n)) : Kept(n)[k] <= now
      <3> TAKE k \in 1..Len(Kept(n))
      <3>1. n + k \in 1..Len(starts)
        BY <2>2, <2>3
      <3> QED
        BY <2>2, <3>1
    <2>5. params \in Config /\ ~Disabled(params)
      BY <1>5 DEF Sleep, Step, Disabled, NoSetting
    <2>6. wake' \in Nat
      BY <2>1, <2>2, <2>4, <2>5, EarliestBound
    <2> QED
      BY <1>5, <2>1, <2>2, <2>4, <2>6 DEF Sleep, Step
  <1>6. CASE Tick
    <2>1. now' \in 0..MaxTime /\ now < now'
      BY <1>6, LimiterAssumption DEF Tick
    <2>2. \A k \in 1..Len(starts) : starts[k] \in 0..MaxTime
      BY ElementOfSeq
    <2>3. \A k \in 1..Len(starts) : starts[k] <= now'
      BY <2>1, <2>2, LimiterAssumption
    <2> QED
      BY <1>6, <2>1, <2>3 DEF Tick, round
  <1>7. CASE (\E c \in Config : Configure(c)) \/ Stop
    BY <1>7 DEF Configure, Stop, round
  <1>8. CASE Restart
    <2>1. <<>> \in Seq(0..MaxTime) /\ Len(<<>>) = 0
      BY EmptySeq
    <2>2. starts' = <<>> /\ starts' \in Seq(0..MaxTime) /\ Past'
      BY <1>8, <2>1 DEF Restart
    <2>3. boots' \in 1..MaxBoots
      BY <1>8, LimiterAssumption DEF Restart
    <2> QED
      BY <1>8, <2>2, <2>3 DEF Restart, Forget, NoSetting
  <1>9. CASE UNCHANGED vars
    BY <1>9 DEF vars, round
  <1> QED
    BY <1>1, <1>2, <1>3, <1>4, <1>5, <1>6, <1>7, <1>8, <1>9 DEF Next, Advance

\* The limiter keeps its types, its mutex has one holder, and a decision is
\* only ever made under settings that switch the limiter on.
THEOREM LimiterTypeCorrect == Spec => []TypeOK
  <1>1. Spec => []TypeInv
    BY TypeInit, TypeStep, PTL DEF Spec
  <1> QED
    BY <1>1, PTL DEF TypeInv

-----------------------------------------------------------------------------
(* The window bound and the pace                                            *)

Dropped == Len(charged) - Len(starts)

\* The starts are the last ones charged, all by this process.
Recorded ==
    /\ Dropped \in Nat
    /\ \A k \in 1..Len(starts) :
          starts[k] = charged[Dropped + k].at /\ charged[Dropped + k].boot = boots
    /\ \A i \in 1..Len(charged) : charged[i].boot <= boots /\ ~Disabled(charged[i].by)

\* What this process charged and no longer keeps is as old as the shortest window.
Expired ==
    \A m \in Nat : AtLeast(m) =>
        \A i \in 1..Dropped : charged[i].boot = boots => charged[i].at + m <= now

History == Recorded /\ Expired

\* Grant and Sleep: the starts that survive prune, as part of the history.
LEMMA PrunedHistory ==
  ASSUME TypeOK, History, params \in Config, ~Disabled(params),
         NEW n \in 0..Len(starts), Aged(n)
  PROVE  /\ Dropped + n \in Nat
         /\ Len(Kept(n)) = Len(charged) - (Dropped + n)
         /\ \A k \in 1..Len(Kept(n)) :
               /\ Kept(n)[k] = charged[Dropped + n + k].at
               /\ charged[Dropped + n + k].boot = boots
         /\ \A m \in Nat : AtLeast(m) =>
               \A i \in 1..(Dropped + n) : charged[i].boot = boots => charged[i].at + m <= now
  <1> USE DEF History
  <1>1. Len(starts) \in Nat /\ Len(charged) \in Nat /\ Dropped \in Nat
    BY LenProperties DEF TypeOK, Recorded
  <1>2. /\ Len(Kept(n)) = Len(starts) - n
        /\ \A k \in 1..(Len(starts) - n) : Kept(n)[k] = starts[n + k]
    BY KeptSuffix DEF TypeOK
  <1>3. Len(Kept(n)) = Len(charged) - (Dropped + n)
    BY <1>1, <1>2 DEF Dropped
  <1>4. ASSUME NEW k \in 1..Len(Kept(n))
        PROVE  /\ Kept(n)[k] = charged[Dropped + n + k].at
               /\ charged[Dropped + n + k].boot = boots
    <2>1. n + k \in 1..Len(starts) /\ Dropped + (n + k) = Dropped + n + k
      BY <1>1, <1>2
    <2>2. Kept(n)[k] = starts[n + k]
      BY <1>2
    <2> QED
      BY <2>1, <2>2 DEF Recorded
  <1>5. ASSUME NEW m \in Nat, AtLeast(m), NEW i \in 1..(Dropped + n),
               charged[i].boot = boots
        PROVE  charged[i].at + m <= now
    <2>1. CASE i \in 1..Dropped
      BY <1>5, <2>1 DEF Expired
    <2>2. CASE i \notin 1..Dropped
      <3>1. i - Dropped \in 1..n /\ i - Dropped \in 1..Len(starts)
            /\ Dropped + (i - Dropped) = i
        BY <1>1, <2>2
      <3>2. starts[i - Dropped] = charged[i].at
        BY <3>1 DEF Recorded
      <3>3. starts[i - Dropped] <= now - params.window
        BY <3>1 DEF Aged
      <3>4. m <= params.window
        BY <1>5 DEF AtLeast
      <3>5. params.window \in Nat /\ now \in Nat /\ starts[i - Dropped] \in Nat
        <4>1. starts \in [1..Len(starts) -> 0..MaxTime]
          BY LenProperties DEF TypeOK
        <4> QED
          BY <3>1, <4>1, LimiterAssumption DEF TypeOK
      <3> QED
        BY <3>2, <3>3, <3>4, <3>5
    <2> QED
      BY <2>1, <2>2
  <1> QED
    BY <1>1, <1>3, <1>4, <1>5

\* A start is charged under settings that switch the limiter on.
LEMMA DecidesEnabled ==
  ASSUME TypeOK, NEW w \in Caller, pc[w] = "decide"
  PROVE  params \in Config /\ ~Disabled(params)
  BY DEF TypeOK, Disabled, NoSetting

\* What Grant appends.
LEMMA GrantAppends ==
  ASSUME TypeOK, NEW w \in Caller, Grant(w)
  PROVE  /\ Len(charged') = Len(charged) + 1
         /\ \A i \in 1..Len(charged) : charged'[i] = charged[i]
         /\ charged'[Len(charged) + 1] = [at |-> now, by |-> params, boot |-> boots]
  <1>1. [at |-> now, by |-> params, boot |-> boots] \in Charge
    BY DecidesEnabled DEF Grant, Step, TypeOK, Charge
  <1>2. charged \in Seq(Charge)
    BY DEF TypeOK, Charge
  <1> QED
    BY <1>1, <1>2, AppendProperties DEF Grant

LEMMA HistoryStep ==
  ASSUME TypeInv, TypeInv', History, [Next]_vars
  PROVE  History'
  <1> USE DEF TypeInv
  <1>1. Len(starts) \in Nat /\ Len(charged) \in Nat /\ Dropped \in Nat
    BY LenProperties DEF TypeOK, History, Recorded
  <1>2. ASSUME NEW w \in Caller, Grant(w)
        PROVE  History'
    <2> DEFINE N == Len(charged)
    <2>1. params \in Config /\ ~Disabled(params)
      BY <1>2, DecidesEnabled DEF Grant, Step
    <2>2. PICK n \in 0..Len(starts) : Aged(n) /\ starts' = Append(Kept(n), now)
      BY <1>2 DEF Grant
    <2> DEFINE D == Dropped + n
               L == Len(Kept(n))
    <2>3. /\ D \in Nat
          /\ L = N - D
          /\ \A k \in 1..L : Kept(n)[k] = charged[D + k].at /\ charged[D + k].boot = boots
          /\ \A m \in Nat : AtLeast(m) =>
                \A i \in 1..D : charged[i].boot = boots => charged[i].at + m <= now
      BY <2>1, <2>2, PrunedHistory
    <2>4. /\ Len(charged') = N + 1
          /\ \A i \in 1..N : charged'[i] = charged[i]
          /\ charged'[N + 1] = [at |-> now, by |-> params, boot |-> boots]
      BY <1>2, GrantAppends
    <2>5. /\ L \in Nat
          /\ Len(starts') = L + 1
          /\ \A k \in 1..L : starts'[k] = Kept(n)[k]
          /\ starts'[L + 1] = now
      <3>1. Kept(n) \in Seq(0..MaxTime) /\ now \in 0..MaxTime
        BY KeptSuffix DEF TypeOK
      <3> QED
        BY <2>2, <3>1, AppendProperties, LenProperties
    <2>6. Dropped' = D /\ now' = now /\ boots' = boots
      BY <1>1, <1>2, <2>3, <2>4, <2>5 DEF Dropped, Grant
    <2> HIDE DEF D, L, N
    <2>7. Recorded'
      <3>1. ASSUME NEW k \in 1..Len(starts')
            PROVE  starts'[k] = charged'[D + k].at /\ charged'[D + k].boot = boots
        <4>1. CASE k = L + 1
          <5>1. D + k = N + 1
            BY <1>1, <2>3, <2>5, <4>1 DEF N
          <5> QED
            BY <2>4, <2>5, <4>1, <5>1
        <4>2. CASE k \in 1..L
          <5>1. D + k \in 1..N
            BY <1>1, <2>3, <2>5, <4>2 DEF N
          <5> QED
            BY <2>3, <2>4, <2>5, <4>2, <5>1
        <4> QED
          BY <2>5, <3>1, <4>1, <4>2
      <3>2. ASSUME NEW i \in 1..Len(charged')
            PROVE  charged'[i].boot <= boots /\ ~Disabled(charged'[i].by)
        <4>1. CASE i = N + 1
          BY <2>1, <2>4, <4>1 DEF TypeOK
        <4>2. CASE i \in 1..N
          BY <2>4, <4>2 DEF History, Recorded, N
        <4> QED
          BY <1>1, <2>4, <3>2, <4>1, <4>2 DEF N
      <3> QED
        BY <2>3, <2>6, <3>1, <3>2 DEF Recorded, Disabled
    <2>8. Expired'
      <3>1. \A i \in 1..D : charged'[i] = charged[i]
        BY <1>1, <2>3, <2>4, <2>5 DEF N
      <3> QED
        BY <2>3, <2>6, <3>1 DEF Expired, Disabled, AtLeast
    <2> QED
      BY <2>7, <2>8 DEF History
  <1>3. ASSUME NEW w \in Caller, Sleep(w)
        PROVE  History'
    <2>1. params \in Config /\ ~Disabled(params)
      BY <1>3, DecidesEnabled DEF Sleep, Step
    <2>2. PICK n \in 0..Len(starts) : Aged(n) /\ starts' = Kept(n)
      BY <1>3 DEF Sleep
    <2>3. /\ Dropped + n \in Nat
          /\ Len(Kept(n)) = Len(charged) - (Dropped + n)
          /\ \A k \in 1..Len(Kept(n)) :
                /\ Kept(n)[k] = charged[Dropped + n + k].at
                /\ charged[Dropped + n + k].boot = boots
          /\ \A m \in Nat : AtLeast(m) =>
                \A i \in 1..(Dropped + n) : charged[i].boot = boots => charged[i].at + m <= now
      BY <2>1, <2>2, PrunedHistory
    <2>4. charged' = charged /\ now' = now /\ boots' = boots
      BY <1>3 DEF Sleep
    <2>5. Dropped' = Dropped + n
      BY <1>1, <2>2, <2>3, <2>4 DEF Dropped
    <2>6. Recorded'
      BY <2>2, <2>3, <2>4, <2>5 DEF Recorded, History, Disabled
    <2>7. Expired'
      BY <2>3, <2>4, <2>5 DEF Expired, Disabled, AtLeast
    <2> QED
      BY <2>6, <2>7 DEF History
  <1>4. CASE Tick
    <2>1. now' = now + 1 /\ UNCHANGED <<starts, charged, boots>> /\ now \in Nat
      BY <1>4, LimiterAssumption DEF Tick, TypeOK
    <2>2. \A i \in 1..Dropped : charged[i].at \in Nat
      <3>1. charged \in [1..Len(charged) -> Charge]
        BY LenProperties DEF TypeOK, Charge
      <3>2. 1..Dropped \subseteq 1..Len(charged)
        BY <1>1 DEF Dropped
      <3> QED
        BY <3>1, <3>2, LimiterAssumption DEF Charge
    <2>3. Dropped' = Dropped
      BY <2>1 DEF Dropped
    <2>4. Recorded'
      BY <2>1, <2>3 DEF Recorded, History, Disabled
    <2>5. Expired'
      <3>1. ASSUME NEW m \in Nat, AtLeast(m), NEW i \in 1..Dropped,
                   charged[i].boot = boots
            PROVE  charged[i].at + m <= now + 1
        <4>1. charged[i].at + m <= now
          BY <3>1 DEF History, Expired
        <4> QED
          BY <2>1, <2>2, <4>1
      <3> QED
        BY <2>1, <2>3, <3>1 DEF Expired, Disabled, AtLeast
    <2> QED
      BY <2>4, <2>5 DEF History
  <1>5. CASE Restart
    <2>1. /\ starts' = <<>> /\ charged' = charged /\ boots' = boots + 1
          /\ boots \in Nat /\ Len(<<>>) = 0
      BY <1>5, EmptySeq, LimiterAssumption DEF Restart, TypeOK
    <2>2. Dropped' = Len(charged)
      BY <1>1, <2>1 DEF Dropped
    <2>3. \A i \in 1..Len(charged) : charged[i].boot \in Nat /\ charged[i].boot <= boots
      <3>1. charged \in [1..Len(charged) -> Charge]
        BY LenProperties DEF TypeOK, Charge
      <3> QED
        BY <3>1 DEF History, Recorded, Charge
    <2>4. Recorded'
      BY <1>1, <2>1, <2>2, <2>3 DEF Recorded, History, Disabled
    <2>5. Expired'
      BY <2>1, <2>2, <2>3 DEF Expired
    <2> QED
      BY <2>4, <2>5 DEF History
  <1>6. ASSUME UNCHANGED <<starts, charged, boots, now>>
        PROVE  History'
    BY <1>6 DEF History, Recorded, Expired, Dropped, Disabled, AtLeast
  <1>7. ASSUME NEW w \in Caller, Call(w) \/ Acquire(w) \/ GiveUp(w) \/ PassThrough(w)
                                \/ Look(w) \/ Wake(w)
        PROVE  History'
    BY <1>6, <1>7 DEF Call, Acquire, GiveUp, PassThrough, Look, Wake
  <1>8. CASE (\E c \in Config : Configure(c)) \/ Stop \/ UNCHANGED vars
    BY <1>6, <1>8 DEF Configure, Stop, vars
  <1> QED
    BY <1>2, <1>3, <1>4, <1>5, <1>7, <1>8 DEF Next, Advance

LEMMA HistoryInit == Init => History
  <1> SUFFICES ASSUME Init
               PROVE  History
    OBVIOUS
  <1>1. starts = <<>> /\ charged = <<>> /\ Len(<<>>) = 0
    BY EmptySeq DEF Init
  <1> QED
    BY <1>1 DEF History, Recorded, Expired, Dropped

\* A start just granted keeps the bounds towards every start of its process.
Bounded(m, i) ==
    /\ i > charged[i].by.max /\ charged[i - charged[i].by.max].boot = charged[i].boot
          => charged[i].at - charged[i - charged[i].by.max].at >= m
    /\ i > 1 /\ charged[i - 1].boot = charged[i].boot =>
          charged[i].at - charged[i - 1].at >= m \div charged[i].by.max

AllBounded == \A m \in Nat : AtLeast(m) => \A i \in 1..Len(charged) : Bounded(m, i)

LEMMA GrantBounded ==
  ASSUME TypeInv, History, NEW m \in Nat, AtLeast(m), NEW w \in Caller, Grant(w),
         NEW new, new = Len(charged) + 1
  PROVE  Bounded(m, new)'
  <1> DEFINE N == Len(charged)
             W == params.window
             M == params.max
  <1>1. params \in Config /\ ~Disabled(params)
    BY DecidesEnabled DEF Grant, Step, TypeInv
  <1>2. /\ W \in Nat /\ M \in Nat \ {0} /\ m <= W
        /\ W \div M \in 0..W /\ m \div M \in 0..m /\ m \div M <= W \div M
    <2>1. W \in Nat /\ M \in Nat \ {0}
      BY <1>1, LimiterAssumption DEF Disabled
    <2>2. m <= W
      BY <1>1 DEF AtLeast
    <2>3. W \div M \in 0..W /\ m \div M \in 0..m
      BY <2>1, Quotient
    <2>4. m \div M <= W \div M
      <3> HIDE DEF W, M
      <3> QED
        BY <2>1, <2>2, QuotientMonotone
    <2> QED
      BY <2>1, <2>2, <2>3, <2>4
  <1>3. PICK n \in 0..Len(starts) : Aged(n) /\ Earliest(Kept(n)) <= now
    BY DEF Grant
  <1> DEFINE D == Dropped + n
             S == Kept(n)
             L == Len(S)
  <1>4. /\ D \in Nat
        /\ L = N - D
        /\ \A k \in 1..L : S[k] = charged[D + k].at /\ charged[D + k].boot = boots
        /\ \A i \in 1..D : charged[i].boot = boots => charged[i].at + m <= now
    BY <1>1, <1>3, PrunedHistory DEF TypeInv
  <1>5. N \in Nat /\ L \in Nat /\ now \in Nat
    <2>1. N \in Nat
      BY LenProperties DEF TypeInv, TypeOK
    <2>2. S \in Seq(0..MaxTime)
      BY KeptSuffix DEF TypeInv, TypeOK
    <2> QED
      BY <2>1, <2>2, LenProperties, LimiterAssumption DEF TypeInv, TypeOK
  <1>6. \A i \in 1..N : charged[i].at \in Nat
    <2>1. charged \in [1..N -> Charge]
      BY LenProperties DEF TypeInv, TypeOK, Charge
    <2> QED
      BY <2>1, LimiterAssumption DEF Charge
  <1>7. /\ \A i \in 1..N : charged'[i] = charged[i]
        /\ charged'[N + 1] = [at |-> now, by |-> params, boot |-> boots]
    BY GrantAppends DEF TypeInv
  <1>8. \A k \in 1..L : S[k] \in Nat
    BY <1>4, <1>5, <1>6
  <1>9. /\ L >= M => S[L - M + 1] + W <= now
        /\ L >= 1 => S[L] + W \div M <= now
    <2>1. WindowClear(S) \in Nat
      <3>1. L >= M => S[L - M + 1] \in Nat
        <4>1. L >= M => L - M + 1 \in 1..L
          BY <1>2, <1>5
        <4> QED
          BY <1>8, <4>1
      <3> QED
        BY <1>2, <3>1 DEF WindowClear
    <2>2. L >= 1 => S # <<>>
      BY EmptySeq
    <2>3. Paced(S) \in Nat
      <3>1. S # <<>> => L \in 1..L
        <4>1. S \in Seq(0..MaxTime)
          BY KeptSuffix DEF TypeInv, TypeOK
        <4> QED
          BY <4>1, <1>5, EmptySeq
      <3> QED
        BY <1>2, <1>8, <3>1 DEF Paced
    <2>4. WindowClear(S) <= now /\ Paced(S) <= now
      BY <1>3, <1>5, <2>1, <2>3 DEF Earliest
    <2>5. L >= M => S[L - M + 1] + W <= now
      BY <2>4 DEF WindowClear
    <2>6. L >= 1 => S[L] + W \div M <= now
      BY <2>2, <2>4 DEF Paced
    <2> QED
      BY <2>5, <2>6
  <1> HIDE DEF S, D, L, W, M
  <1>10. ASSUME N + 1 > M, charged[N + 1 - M].boot = boots
         PROVE  now - charged[N + 1 - M].at >= m
    <2>1. N + 1 - M \in 1..N
      BY <1>2, <1>5, <1>10
    <2>2. CASE N + 1 - M \in 1..D
      <3>1. charged[N + 1 - M].at + m <= now
        BY <1>4, <1>10, <2>2
      <3>2. charged[N + 1 - M].at \in Nat
        BY <1>6, <2>1
      <3> QED
        BY <1>2, <1>5, <3>1, <3>2
    <2>3. CASE N + 1 - M \notin 1..D
      <3>1. L - M + 1 \in 1..L /\ L >= M /\ D + (L - M + 1) = N + 1 - M
        BY <1>2, <1>4, <1>5, <2>1, <2>3
      <3>2. S[L - M + 1] = charged[N + 1 - M].at
        BY <1>4, <3>1
      <3> QED
        <4>1. charged[N + 1 - M].at + W <= now
          BY <1>9, <3>1, <3>2
        <4>2. charged[N + 1 - M].at \in Nat
          BY <1>6, <2>1
        <4> QED
          BY <1>2, <1>5, <4>1, <4>2
    <2> QED
      BY <2>2, <2>3
  <1>11. ASSUME N + 1 > 1, charged[N].boot = boots
         PROVE  now - charged[N].at >= m \div M
    <2>1. CASE L = 0
      <3>1. N \in 1..D
        BY <1>4, <1>5, <1>11, <2>1
      <3>2. charged[N].at + m <= now
        BY <1>4, <1>11, <3>1
      <3> QED
        BY <1>2, <1>5, <1>6, <1>11, <3>2
    <2>2. CASE L # 0
      <3>1. L \in 1..L /\ D + L = N
        BY <1>4, <1>5, <2>2
      <3>2. S[L] = charged[N].at
        BY <1>4, <3>1
      <3> QED
        BY <1>2, <1>5, <1>6, <1>9, <1>11, <3>1, <3>2
    <2> QED
      BY <2>1, <2>2
  <1>12. charged'[N + 1].at = now /\ charged'[N + 1].by = params /\ charged'[N + 1].boot = boots
    BY <1>7
  <1>13. N + 1 > M => charged'[N + 1 - M] = charged[N + 1 - M]
    <2>1. N + 1 > M => N + 1 - M \in 1..N
      BY <1>2, <1>5
    <2> QED
      BY <1>7, <2>1
  <1>14. N + 1 > 1 => charged'[N] = charged[N] /\ N + 1 - 1 = N
    BY <1>5, <1>7
  <1>15. /\ new = N + 1
         /\ charged'[new].at = now
         /\ charged'[new].boot = boots
         /\ charged'[new].by.max = M
    BY <1>12 DEF M
  <1>16. new > charged'[new].by.max /\ charged'[new - charged'[new].by.max].boot = charged'[new].boot
           => charged'[new].at - charged'[new - charged'[new].by.max].at >= m
    <2>1. new - charged'[new].by.max = N + 1 - M
      BY <1>2, <1>5, <1>15
    <2>2. CASE new > charged'[new].by.max /\ charged'[new - charged'[new].by.max].boot = charged'[new].boot
      <3>1. N + 1 > M /\ charged'[N + 1 - M].boot = boots
        BY <1>15, <2>1, <2>2
      <3>2. charged[N + 1 - M].boot = boots /\ now - charged[N + 1 - M].at >= m
        BY <1>10, <1>13, <3>1
      <3> QED
        BY <1>13, <1>15, <2>1, <3>1, <3>2
    <2> QED
      BY <2>2
  <1>17. new > 1 /\ charged'[new - 1].boot = charged'[new].boot =>
           charged'[new].at - charged'[new - 1].at >= m \div charged'[new].by.max
    BY <1>11, <1>14, <1>15
  <1> QED
    BY <1>16, <1>17 DEF Bounded

LEMMA BoundedStep ==
  ASSUME TypeInv, History, AllBounded, [Next]_vars
  PROVE  AllBounded'
  <1>1. SUFFICES ASSUME NEW m \in Nat, AtLeast(m)
                 PROVE  (\A i \in 1..Len(charged) : Bounded(m, i))'
    BY DEF AllBounded, AtLeast, Disabled
  <1>2. ASSUME NEW w \in Caller, Grant(w)
        PROVE  (\A i \in 1..Len(charged) : Bounded(m, i))'
    <2> DEFINE N == Len(charged)
    <2>1. /\ N \in Nat
          /\ Len(charged') = N + 1
          /\ \A i \in 1..N : charged'[i] = charged[i]
      BY <1>2, GrantAppends, LenProperties DEF TypeInv, TypeOK
    <2>2. ASSUME NEW i, i = N + 1
          PROVE  Bounded(m, i)'
      BY <1>1, <1>2, <2>2, GrantBounded
    <2>3. ASSUME NEW i \in 1..N
          PROVE  Bounded(m, i)'
      <3>1. charged[i].by.max \in Nat
        <4>1. charged \in [1..N -> Charge]
          BY LenProperties DEF TypeInv, TypeOK, Charge
        <4> QED
          BY <4>1, LimiterAssumption DEF Charge
      <3>2. Bounded(m, i) /\ charged'[i] = charged[i]
        BY <1>1, <2>1 DEF AllBounded
      <3>3. CASE charged[i].by.max = 0
        <4>1. charged'[i - charged[i].by.max] = charged[i - charged[i].by.max]
          BY <2>1, <3>3
        <4>2. i > 1 => charged'[i - 1] = charged[i - 1]
          BY <2>1
        <4> QED
          BY <3>2, <4>1, <4>2 DEF Bounded
      <3>4. CASE charged[i].by.max # 0
        <4>1. i > charged[i].by.max =>
                charged'[i - charged[i].by.max] = charged[i - charged[i].by.max]
          BY <2>1, <3>1, <3>4
        <4>2. i > 1 => charged'[i - 1] = charged[i - 1]
          BY <2>1
        <4> QED
          BY <3>2, <4>1, <4>2 DEF Bounded
      <3> QED
        BY <3>3, <3>4
    <2>4. ASSUME NEW i \in 1..Len(charged')
          PROVE  Bounded(m, i)'
      BY <2>1, <2>2, <2>3, <2>4
    <2> QED
      BY <2>4
  <1>3. CASE UNCHANGED charged
    BY <1>1, <1>3 DEF AllBounded, Bounded
  <1>4. ASSUME NEW w \in Caller, Call(w) \/ Acquire(w) \/ GiveUp(w) \/ PassThrough(w)
                                \/ Look(w) \/ Sleep(w) \/ Wake(w)
        PROVE  UNCHANGED charged
    BY <1>4 DEF Call, Acquire, GiveUp, PassThrough, Look, Sleep, Wake
  <1>5. CASE Tick \/ (\E c \in Config : Configure(c)) \/ Stop \/ Restart \/ UNCHANGED vars
    BY <1>3, <1>5 DEF Tick, Configure, Stop, Restart, vars
  <1> QED
    BY <1>1, <1>2, <1>3, <1>4, <1>5 DEF Next, Advance

LEMMA Bounds == Spec => [](TypeInv /\ History /\ AllBounded)
  <1>1. Init => TypeInv /\ History /\ AllBounded
    <2>1. Init => AllBounded
      BY EmptySeq DEF Init, AllBounded
    <2> QED
      BY <2>1, TypeInit, HistoryInit
  <1>2. (TypeInv /\ History /\ AllBounded) /\ [Next]_vars
          => (TypeInv /\ History /\ AllBounded)'
    BY TypeStep, HistoryStep, BoundedStep
  <1> QED
    BY <1>1, <1>2, PTL DEF Spec

LEMMA WindowIsNumber ==
  ASSUME TypeInv, NEW m \in {c.window : c \in Config}
  PROVE  m \in Nat /\ DOMAIN charged = 1..Len(charged)
  BY LimiterAssumption, LenProperties DEF TypeInv, TypeOK

\* In any stretch as long as the shortest window an administrator may set, a
\* process starts no more machines than the maximum in force at the last of
\* them, whatever was set in between.
THEOREM StartsBounded == Spec => []WindowBound
  <1>1. TypeInv /\ AllBounded => WindowBound
    BY WindowIsNumber DEF AllBounded, Bounded, WindowBound
  <1> QED
    BY <1>1, Bounds, PTL

\* Starts are at least that window / maxPerWindow apart, under the same conditions.
THEOREM StartsPaced == Spec => []EvenPace
  <1>1. TypeInv /\ AllBounded => EvenPace
    BY WindowIsNumber DEF AllBounded, Bounded, EvenPace
  <1> QED
    BY <1>1, Bounds, PTL

-----------------------------------------------------------------------------
(* How long a caller sleeps                                                 *)

LEMMA KeptPast ==
  ASSUME TypeInv, NEW n \in 0..Len(starts)
  PROVE  Kept(n) \in Seq(0..MaxTime) /\ \A k \in 1..Len(Kept(n)) : Kept(n)[k] <= now
  <1>1. starts \in Seq(0..MaxTime) /\ Len(starts) \in Nat
    BY LenProperties DEF TypeInv, TypeOK
  <1>2. /\ Kept(n) \in Seq(0..MaxTime)
        /\ Len(Kept(n)) = Len(starts) - n
        /\ \A k \in 1..(Len(starts) - n) : Kept(n)[k] = starts[n + k]
    BY <1>1, KeptSuffix
  <1>3. ASSUME NEW k \in 1..Len(Kept(n))
        PROVE  Kept(n)[k] <= now
    <2>1. n + k \in 1..Len(starts) /\ Kept(n)[k] = starts[n + k]
      BY <1>1, <1>2
    <2> QED
      BY <2>1 DEF TypeInv, Past
  <1> QED
    BY <1>2, <1>3

LEMMA SleepStep ==
  ASSUME TypeInv, SleepBounded, [Next]_vars
  PROVE  SleepBounded'
  <1> USE DEF TypeInv, TypeOK, SleepBounded, Inside
  <1>1. ASSUME NEW w \in Caller, Sleep(w)
        PROVE  SleepBounded'
    <2>1. params \in Config /\ ~Disabled(params)
      BY <1>1, DecidesEnabled DEF Sleep, Step
    <2>2. PICK n \in 0..Len(starts) : wake' = Earliest(Kept(n))
      BY <1>1 DEF Sleep
    <2>3. Kept(n) \in Seq(0..MaxTime) /\ \A k \in 1..Len(Kept(n)) : Kept(n)[k] <= now
      BY KeptPast
    <2>4. wake' \in Nat /\ wake' <= now + params.window
      BY <2>1, <2>2, <2>3, EarliestBound
    <2>5. params.window \in Nat
      BY <2>1, LimiterAssumption
    <2> QED
      BY <1>1, <2>4, <2>5, LimiterAssumption DEF Sleep
  <1>2. ASSUME NEW w \in Caller, Call(w) \/ Acquire(w) \/ GiveUp(w) \/ PassThrough(w)
                                \/ Look(w) \/ Grant(w) \/ Wake(w)
        PROVE  SleepBounded'
    <2>1. CASE Call(w) \/ Acquire(w)
      BY <2>1 DEF Call, Acquire, Step, round
    <2>2. CASE GiveUp(w) \/ PassThrough(w) \/ Grant(w) \/ Look(w) \/ Wake(w)
      <3>1. \A v \in Caller : pc'[v] # "asleep"
        BY <2>2 DEF GiveUp, PassThrough, Grant, Look, Wake, Step
      <3> QED
        BY <3>1
    <2> QED
      BY <1>2, <2>1, <2>2
  <1>3. CASE Tick
    <2>1. params.window \in Nat
      BY LimiterAssumption DEF NoSetting
    <2> QED
      BY <1>3, <2>1, LimiterAssumption DEF Tick, round
  <1>4. CASE (\E c \in Config : Configure(c)) \/ Stop \/ UNCHANGED vars
    BY <1>4 DEF Configure, Stop, vars, round
  <1>5. CASE Restart
    BY <1>5 DEF Restart
  <1> QED
    BY <1>1, <1>2, <1>3, <1>4, <1>5 DEF Next, Advance

\* A caller at the head of the gate sleeps at most one window at a time.
THEOREM SleepIsBounded == Spec => []SleepBounded
  <1>1. Init => SleepBounded
    BY DEF Init, SleepBounded
  <1>2. (TypeInv /\ SleepBounded) /\ [Next]_vars => (TypeInv /\ SleepBounded)'
    BY TypeStep, SleepStep
  <1> QED
    BY <1>1, <1>2, TypeInit, PTL DEF Spec

\* Pruning does not move the earliest permitted time past the clock.
LEMMA KeptNoLater ==
  ASSUME TypeInv, params \in Config, ~Disabled(params),
         NEW n \in 0..Len(starts), Earliest(starts) <= now
  PROVE  Earliest(Kept(n)) <= now
  <1> USE DEF TypeInv, TypeOK
  <1> DEFINE S == Kept(n)
             L == Len(S)
             M == params.max
  <1>1. M \in Nat \ {0} /\ params.window \in Nat /\ params.window \div M \in Nat
    <2>1. M \in Nat \ {0} /\ params.window \in Nat
      BY LimiterAssumption DEF Disabled
    <2> QED
      BY <2>1, Quotient
  <1>2. /\ Len(starts) \in Nat
        /\ S \in Seq(0..MaxTime)
        /\ L = Len(starts) - n
        /\ \A k \in 1..L : S[k] = starts[n + k]
    BY KeptSuffix, LenProperties
  <1>3. \A k \in 1..Len(starts) : starts[k] \in Nat
    <2>1. starts \in [1..Len(starts) -> 0..MaxTime]
      BY LenProperties
    <2> QED
      BY <2>1, LimiterAssumption
  <1>4. now \in Nat
    BY LimiterAssumption
  <1>5. /\ Len(starts) >= M => Len(starts) - M + 1 \in 1..Len(starts)
        /\ starts # <<>> => Len(starts) \in 1..Len(starts)
    BY <1>1, <1>2, EmptySeq
  <1>6. WindowClear(starts) \in Nat /\ Paced(starts) \in Nat
    <2>1. Len(starts) >= M => starts[Len(starts) - M + 1] \in Nat
      BY <1>3, <1>5
    <2>2. WindowClear(starts) \in Nat
      BY <1>1, <2>1 DEF WindowClear
    <2>3. starts # <<>> => starts[Len(starts)] \in Nat
      BY <1>3, <1>5
    <2>4. Paced(starts) \in Nat
      BY <1>1, <2>3 DEF Paced
    <2> QED
      BY <2>2, <2>4
  <1>7. WindowClear(starts) <= now /\ Paced(starts) <= now
    BY <1>4, <1>6 DEF Earliest
  <1>8. WindowClear(S) <= now
    <2>1. CASE L >= M
      <3>1. L - M + 1 \in 1..L /\ n + (L - M + 1) = Len(starts) - M + 1 /\ Len(starts) >= M
        BY <1>1, <1>2, <2>1
      <3>2. S[L - M + 1] = starts[n + (L - M + 1)]
        <4> DEFINE k == L - M + 1
        <4>1. k \in 1..L
          BY <3>1
        <4> HIDE DEF k
        <4>2. S[k] = starts[n + k]
          BY <1>2, <4>1
        <4> QED
          BY <4>2 DEF k
      <3> QED
        BY <1>7, <2>1, <3>1, <3>2 DEF WindowClear
    <2>2. CASE ~(L >= M)
      BY <1>4, <2>2 DEF WindowClear
    <2> QED
      BY <2>1, <2>2
  <1>9. Paced(S) <= now
    <2>1. CASE S # <<>>
      <3>1. L \in 1..L /\ n + L = Len(starts)
        BY <1>2, <2>1, EmptySeq
      <3>2. S[L] = starts[Len(starts)]
        BY <1>2, <3>1
      <3>3. starts # <<>>
        BY <1>2, <3>1, EmptySeq
      <3> QED
        BY <1>7, <2>1, <3>2, <3>3 DEF Paced
    <2>2. CASE S = <<>>
      BY <1>4, <2>2 DEF Paced
    <2> QED
      BY <2>1, <2>2
  <1> QED
    BY <1>8, <1>9 DEF Earliest

\* The starts let a caller through at the time it sleeps until, and from then on.
Ready ==
    /\ slept => /\ params \in Config /\ ~Disabled(params)
                /\ \E w \in Caller : pc[w] \in Inside
    /\ \A w \in Caller :
          /\ pc[w] = "asleep" => slept /\ Earliest(starts) <= wake
          /\ slept /\ pc[w] \in {"look", "decide"} => Earliest(starts) <= now

LEMMA ReadyStep ==
  ASSUME TypeInv, Ready, [Next]_vars
  PROVE  Ready'
  <1> USE DEF TypeInv, TypeOK, Ready, Inside
  <1>1. ASSUME NEW w \in Caller, Sleep(w)
        PROVE  Ready'
    <2>1. params \in Config /\ ~Disabled(params)
      BY <1>1, DecidesEnabled DEF Sleep, Step
    <2>2. PICK n \in 0..Len(starts) : starts' = Kept(n) /\ wake' = Earliest(Kept(n))
      BY <1>1 DEF Sleep
    <2>3. params' = params /\ slept' = TRUE
      BY <1>1 DEF Sleep
    <2>4. Earliest(starts)' = wake'
      BY <2>2, <2>3 DEF Earliest, WindowClear, Paced
    <2>5. wake' \in Nat
      BY <1>1, TypeStep DEF Next, Advance
    <2>6. pc'[w] = "asleep" /\ \A v \in Caller : v # w => pc'[v] \notin Inside
      BY <1>1 DEF Sleep, Step
    <2> QED
      BY <2>1, <2>3, <2>4, <2>5, <2>6 DEF Disabled
  <1>2. ASSUME NEW w \in Caller, Look(w)
        PROVE  Ready'
    <2>1. pc'[w] = "decide" /\ \A v \in Caller : v # w => pc'[v] \notin Inside
      BY <1>2 DEF Look, Step
    <2>2. CASE slept'
      <3>1. params' = params /\ slept /\ UNCHANGED <<starts, now, wake>>
        BY <1>2, <2>2 DEF Look
      <3>2. Earliest(starts)' = Earliest(starts)
        BY <3>1 DEF Earliest, WindowClear, Paced
      <3> QED
        BY <1>2, <2>1, <3>1, <3>2 DEF Look, Step, Disabled
    <2>3. CASE ~slept'
      BY <2>1, <2>3
    <2> QED
      BY <2>2, <2>3
  <1>3. ASSUME NEW w \in Caller, Wake(w)
        PROVE  Ready'
    <2>1. slept /\ Earliest(starts) <= wake /\ wake <= now
      BY <1>3 DEF Wake, Step
    <2>2. Earliest(starts) \in Nat
      BY <2>1, EarliestBound DEF Past
    <2>3. Earliest(starts) <= now
      BY <2>1, <2>2, LimiterAssumption
    <2>4. Earliest(starts)' = Earliest(starts)
      BY <1>3 DEF Wake, Earliest, WindowClear, Paced
    <2>5. pc'[w] = "look" /\ \A v \in Caller : v # w => pc'[v] \notin Inside
      BY <1>3 DEF Wake, Step
    <2> QED
      BY <1>3, <2>1, <2>3, <2>4, <2>5 DEF Wake, Disabled
  <1>4. ASSUME NEW w \in Caller, Call(w) \/ Acquire(w)
        PROVE  Ready'
    <2>1. UNCHANGED <<starts, now, wake, slept, params>>
      BY <1>4 DEF Call, Acquire, round
    <2>2. Earliest(starts)' = Earliest(starts) /\ Disabled(params)' = Disabled(params)
      BY <2>1 DEF Earliest, WindowClear, Paced, Disabled
    <2>3. CASE Call(w)
      BY <2>1, <2>2, <2>3 DEF Call, Step
    <2>4. CASE Acquire(w)
      BY <2>1, <2>2, <2>4 DEF Acquire, Step
    <2> QED
      BY <1>4, <2>3, <2>4
  <1>5. ASSUME NEW w \in Caller, GiveUp(w) \/ PassThrough(w) \/ Grant(w)
        PROVE  Ready'
    <2>1. ~slept' /\ \A v \in Caller : pc'[v] \notin Inside
      BY <1>5 DEF GiveUp, PassThrough, Grant, Step, Forget
    <2> QED
      BY <2>1
  <1>6. CASE Tick
    <2>1. now' = now + 1 /\ UNCHANGED <<starts, wake, slept, params, pc>>
      BY <1>6 DEF Tick, round
    <2>2. Earliest(starts)' = Earliest(starts) /\ Disabled(params)' = Disabled(params)
      BY <2>1 DEF Earliest, WindowClear, Paced, Disabled
    <2>3. slept => Earliest(starts) \in Nat
      BY EarliestBound DEF Past
    <2> QED
      BY <2>1, <2>2, <2>3, LimiterAssumption
  <1>7. CASE (\E c \in Config : Configure(c)) \/ Stop \/ UNCHANGED vars
    <2>1. UNCHANGED <<starts, now, wake, slept, params, pc>>
      BY <1>7 DEF Configure, Stop, vars, round
    <2>2. Earliest(starts)' = Earliest(starts) /\ Disabled(params)' = Disabled(params)
      BY <2>1 DEF Earliest, WindowClear, Paced, Disabled
    <2> QED
      BY <2>1, <2>2
  <1>8. CASE Restart
    BY <1>8 DEF Restart, Forget
  <1> QED
    BY <1>1, <1>2, <1>3, <1>4, <1>5, <1>6, <1>7, <1>8 DEF Next, Advance

\* A caller that slept until the computed time, under settings that did not
\* change, is let through.
THEOREM SleepsOnce == Spec => OneSleep
  <1>1. Init => Ready
    BY DEF Init, Ready
  <1>2. ASSUME TypeInv, Ready, [Next]_vars,
               NEW w \in Caller, pc[w] = "decide", pc'[w] = "asleep"
        PROVE  ~slept
    <2>1. Sleep(w)
      <3>1. PICK v \in Caller : Sleep(v) \/ Call(v) \/ Acquire(v) \/ GiveUp(v)
                                  \/ PassThrough(v) \/ Look(v) \/ Grant(v) \/ Wake(v)
        BY <1>2 DEF Next, Advance, Tick, Configure, Stop, Restart, vars
      <3>2. Sleep(v)
        BY <1>2, <3>1
        DEF Call, Acquire, GiveUp, PassThrough, Look, Grant, Wake, Step, TypeInv, TypeOK
      <3> QED
        BY <1>2, <3>2 DEF Sleep, Step, TypeInv, TypeOK
    <2>2. PICK n \in 0..Len(starts) : Earliest(Kept(n)) > now
      BY <2>1 DEF Sleep
    <2>3. params \in Config /\ ~Disabled(params)
      BY <1>2, DecidesEnabled DEF TypeInv
    <2>4. Kept(n) \in Seq(0..MaxTime) /\ \A k \in 1..Len(Kept(n)) : Kept(n)[k] <= now
      BY <1>2, KeptPast
    <2>5. Earliest(Kept(n)) \in Nat /\ now \in Nat
      BY <1>2, <2>3, <2>4, EarliestBound, LimiterAssumption DEF TypeInv, TypeOK
    <2>6. slept => Earliest(Kept(n)) <= now
      BY <1>2, <2>3, KeptNoLater DEF Ready
    <2> QED
      BY <2>2, <2>5, <2>6
  <1>3. TypeInv /\ Ready /\ [Next]_vars
          => [\A w \in Caller : pc[w] = "decide" /\ pc'[w] = "asleep" => ~slept]_vars
    BY <1>2
  <1>4. TypeInv /\ Ready /\ [Next]_vars => TypeInv' /\ Ready'
    BY TypeStep, ReadyStep
  <1> QED
    BY <1>1, <1>3, <1>4, TypeInit, PTL DEF Spec, OneSleep

-----------------------------------------------------------------------------
(* What a shutdown does to the callers *)

\* Nobody revokes a stop: whoever is in Wait when it comes stays there, stopped,
\* until the call returns or the process ends.
LEMMA WaiterWaits ==
    ASSUME NEW w \in Caller, [Next]_vars, stopped /\ pc[w] # "idle"
    PROVE  (stopped /\ pc[w] # "idle")' \/ (pc[w] = "idle")'
  <1>1. CASE Restart
    BY <1>1 DEF Restart
  <1>2. CASE Stop
    BY <1>2 DEF Stop
  <1>3. CASE UNCHANGED stopped
    BY <1>3
  <1> QED
    BY <1>1, <1>2, <1>3 DEF Next, Call, Acquire, Advance, GiveUp, PassThrough, Look, Grant,
       Sleep, Wake, Tick, Configure, vars

\* StopFreesWaiters says that a stopped caller is outside Wait again and again.
\* Since none leaves but by returning, each call that a stop finds returns.
THEOREM StoppedCallsReturn ==
    ASSUME NEW w \in Caller
    PROVE  Spec /\ StopFreesWaiters => (stopped /\ pc[w] # "idle" ~> pc[w] = "idle")
  <1>1. StopFreesWaiters => []<>(stopped => pc[w] = "idle")
    BY DEF StopFreesWaiters
  <1>2. [Next]_vars /\ stopped /\ pc[w] # "idle"
          => (stopped /\ pc[w] # "idle")' \/ (pc[w] = "idle")'
    BY WaiterWaits
  <1> QED
    BY <1>1, <1>2, PTL DEF Spec

=============================================================================
