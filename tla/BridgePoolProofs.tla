------------------------- MODULE BridgePoolProofs -------------------------
(***************************************************************************)
(* Proofs about BridgePool for any set of tasks and any number of slots:   *)
(* a respawn replaces only dead bridges, a task's own failure keeps it     *)
(* from spawning until the cooldown ends, and checkout() gives up next to  *)
(* a bridge that was alive all the time only if the counter left the       *)
(* walk's sequence at least twice.                                         *)
(*                                                                         *)
(* A bridge that was dead under the write lock stays dead until the lock's *)
(* holder replaces it (SpawnsDead), because only holders revive slots and  *)
(* two holders of one slot's lock are one task (OneWriter).                *)
(***************************************************************************)
EXTENDS BridgePool, TLAPS

OneWriter ==
  \A t, u \in Tasks :
    pc[t] = "spawn" /\ pc[u] = "spawn" /\ idx[t] = idx[u] => t = u

SpawnsDead == \A t \in Tasks : pc[t] = "spawn" => ~alive[idx[t]]

\* While some failure is remembered the cooldown is on.
BurnedInCooldown == burned # {} => cooldown

PInv == /\ TypeOK
        /\ OneWriter
        /\ SpawnsDead
        /\ BurnedInCooldown
        /\ OneFailurePerCooldown

\* The slots and the walk are sets of naturals that contain 0.
LEMMA SlotFacts ==
  /\ 0 \in Slots
  /\ 0 \in 0..Limit
  /\ 0 \in 0..Wrap-1
  /\ \A i \in 0..Wrap-1 : i % N \in Slots /\ (i + 1) % Wrap \in 0..Wrap-1
  /\ \A w \in 0..Limit : w < Limit => w + 1 \in 0..Limit
  BY PoolAssumption DEF PoolAssumption, Slots, Limit

\* A fresh pool satisfies the invariant.
LEMMA InitPInv == Init => PInv
<1> SUFFICES ASSUME Init PROVE PInv
  OBVIOUS
<1>1. TypeOK
  <2>1. /\ idx \in [Tasks -> Slots] /\ walked \in [Tasks -> 0..Limit]
        /\ jumps \in [Tasks -> 0..2] /\ next \in 0..Wrap-1
    BY SlotFacts DEF Init
  <2>2. /\ alive \in [Slots -> BOOLEAN] /\ gen \in [Slots -> {0, 1}]
        /\ cooldown \in BOOLEAN
    BY DEF Init
  <2>3. steady \in [Tasks -> SUBSET Slots] /\ burned \in SUBSET Tasks
    BY DEF Init
  <2>4. pc \in [Tasks -> {"idle", "walk", "look", "dead", "want", "spawn", "err"}]
    BY DEF Init
  <2> QED
    BY <2>1, <2>2, <2>3, <2>4 DEF TypeOK
<1>2. \A t \in Tasks : pc[t] = "idle"
  BY DEF Init
<1>3. OneWriter /\ SpawnsDead /\ OneFailurePerCooldown
  BY <1>2 DEF OneWriter, SpawnsDead, OneFailurePerCooldown
<1>4. BurnedInCooldown
  BY DEF Init, BurnedInCooldown
<1> QED
  BY <1>1, <1>3, <1>4 DEF PInv

\* A step that moves one task to a label, and touches no slot, keeps the
\* invariant if the task may be there.
LEMMA GotoPInv ==
  ASSUME PInv, NEW t \in Tasks,
         NEW l \in {"idle", "walk", "look", "dead", "want", "spawn", "err"},
         Goto(t, l),
         UNCHANGED <<alive, cooldown, idx, burned>>,
         l \in {"want", "spawn"} => t \notin burned,
         l = "spawn" => ~WriteLocked(idx[t]) /\ ~alive[idx[t]]
  PROVE  OneWriter' /\ SpawnsDead' /\ BurnedInCooldown' /\ OneFailurePerCooldown'
<1>1. pc'[t] = l /\ \A u \in Tasks : u # t => pc'[u] = pc[u]
  BY DEF Goto, PInv, TypeOK
<1>2. OneWriter'
  BY <1>1 DEF PInv, OneWriter, WriteLocked
<1>3. SpawnsDead'
  BY <1>1 DEF PInv, SpawnsDead
<1>4. BurnedInCooldown'
  BY DEF PInv, BurnedInCooldown
<1>5. OneFailurePerCooldown'
  BY <1>1 DEF PInv, OneFailurePerCooldown
<1> QED
  BY <1>2, <1>3, <1>4, <1>5

\* The end of a call writes nothing but the locals of the task.
LEMMA LeaveFacts ==
  ASSUME PInv, NEW t \in Tasks, Leave(t)
  PROVE  /\ pc' \in [Tasks -> {"idle", "walk", "look", "dead", "want", "spawn", "err"}]
         /\ idx' \in [Tasks -> Slots] /\ walked' \in [Tasks -> 0..Limit]
         /\ steady' \in [Tasks -> SUBSET Slots] /\ jumps' \in [Tasks -> 0..2]
         /\ pc'[t] = "idle"
         /\ \A u \in Tasks : u # t => pc'[u] = pc[u] /\ idx'[u] = idx[u]
         /\ UNCHANGED <<next, burned>>
<1>1. idx' \in [Tasks -> Slots] /\ walked' \in [Tasks -> 0..Limit]
  BY SlotFacts DEF PInv, TypeOK, Leave
<1>2. steady' \in [Tasks -> SUBSET Slots] /\ jumps' \in [Tasks -> 0..2]
  BY DEF PInv, TypeOK, Leave
<1>3. /\ pc' \in [Tasks -> {"idle", "walk", "look", "dead", "want", "spawn", "err"}]
      /\ pc'[t] = "idle"
      /\ \A u \in Tasks : u # t => pc'[u] = pc[u] /\ idx'[u] = idx[u]
  BY DEF PInv, TypeOK, Leave, Goto
<1> QED
  BY <1>1, <1>2, <1>3 DEF Leave

\* A task that leaves without a spawn keeps the invariant.
LEMMA LeavePInv ==
  ASSUME PInv, NEW t \in Tasks, Leave(t), UNCHANGED <<slotVars, cooldown>>
  PROVE  PInv'
<1>1. TypeOK'
  BY LeaveFacts DEF PInv, TypeOK, slotVars
<1>2. OneWriter' /\ SpawnsDead' /\ BurnedInCooldown' /\ OneFailurePerCooldown'
  BY LeaveFacts
  DEF PInv, slotVars, OneWriter, SpawnsDead, BurnedInCooldown, OneFailurePerCooldown
<1> QED
  BY <1>1, <1>2 DEF PInv

\* Every step of checkout() keeps the invariant.
LEMMA CheckoutPInv ==
  ASSUME PInv, NEW t \in Tasks, CheckoutStep(t)
  PROVE  PInv'
<1>1. CASE PickSlot(t)
  <2>1. TypeOK'
    <3>1. idx' \in [Tasks -> Slots] /\ next' \in 0..Wrap-1
      BY <1>1, SlotFacts DEF PInv, TypeOK, PickSlot
    <3>2. walked' \in [Tasks -> 0..Limit]
      <4>1. walked[t] + 1 \in 0..Limit
        BY <1>1, SlotFacts DEF PInv, TypeOK, PickSlot
      <4> QED
        BY <1>1, <4>1 DEF PInv, TypeOK, PickSlot
    <3>3. jumps' \in [Tasks -> 0..2]
      BY <1>1 DEF PInv, TypeOK, PickSlot
    <3>4. pc' \in [Tasks -> {"idle", "walk", "look", "dead", "want", "spawn", "err"}]
      BY <1>1 DEF PInv, TypeOK, PickSlot, Goto
    <3> QED
      BY <1>1, <3>1, <3>2, <3>3, <3>4 DEF PInv, TypeOK, PickSlot, slotVars
  <2>2. pc'[t] = "look" /\ \A u \in Tasks : u # t => pc'[u] = pc[u] /\ idx'[u] = idx[u]
    BY <1>1 DEF PInv, TypeOK, PickSlot, Goto
  <2>3. UNCHANGED <<alive, cooldown, burned>>
    BY <1>1 DEF PickSlot, slotVars
  <2> QED
    BY <2>1, <2>2, <2>3
    DEF PInv, OneWriter, SpawnsDead, BurnedInCooldown, OneFailurePerCooldown
<1>2. CASE /\ GiveUp(t) \/ Look(t) \/ CheckCooldown(t) \/ LockSlot(t)
           /\ ~Leave(t)
  <2>1. PICK l \in {"walk", "dead", "want", "spawn", "err"} :
          /\ Goto(t, l)
          /\ l = "want" => pc[t] = "dead" /\ ~cooldown
          /\ l = "spawn" => pc[t] = "want" /\ ~WriteLocked(idx[t]) /\ ~alive[idx[t]]
    BY <1>2 DEF GiveUp, Look, CheckCooldown, LockSlot
  <2>2. UNCHANGED <<alive, gen, next, cooldown, idx, walked, steady, jumps, burned>>
    BY <1>2 DEF GiveUp, Look, CheckCooldown, LockSlot, slotVars, history
  <2>3. l \in {"want", "spawn"} => t \notin burned
    BY <2>1 DEF PInv, BurnedInCooldown, OneFailurePerCooldown
  <2>4. OneWriter' /\ SpawnsDead' /\ BurnedInCooldown' /\ OneFailurePerCooldown'
    BY <2>1, <2>2, <2>3, GotoPInv
  <2>5. TypeOK'
    BY <2>1, <2>2 DEF PInv, TypeOK, Goto
  <2> QED
    BY <2>4, <2>5 DEF PInv
<1>3. CASE SpawnOk(t)
  <2>1. gen' \in [Slots -> {0, 1}] /\ alive' \in [Slots -> BOOLEAN]
    BY <1>3 DEF PInv, TypeOK, SpawnOk
  <2>2. /\ Leave(t) /\ pc[t] = "spawn"
        /\ \A s \in Slots : s # idx[t] => alive'[s] = alive[s]
        /\ UNCHANGED cooldown
    BY <1>3 DEF PInv, TypeOK, SpawnOk
  <2>3. TypeOK'
    BY <2>1, <2>2, LeaveFacts DEF PInv, TypeOK
  <2>4. SpawnsDead'
    BY <2>2, LeaveFacts DEF PInv, TypeOK, OneWriter, SpawnsDead
  <2>5. OneWriter' /\ BurnedInCooldown' /\ OneFailurePerCooldown'
    BY <2>2, LeaveFacts DEF PInv, OneWriter, BurnedInCooldown, OneFailurePerCooldown
  <2> QED
    BY <2>3, <2>4, <2>5 DEF PInv
<1>4. CASE SpawnFail(t)
  <2>1. TypeOK'
    BY <1>4 DEF PInv, TypeOK, SpawnFail, Goto, slotVars
  <2>2. /\ pc'[t] = "walk"
        /\ \A u \in Tasks : u # t => pc'[u] = pc[u]
        /\ cooldown' = TRUE /\ burned' = burned \cup {t}
        /\ UNCHANGED <<idx, alive>>
    BY <1>4 DEF PInv, TypeOK, SpawnFail, Goto, slotVars
  <2> QED
    BY <2>1, <2>2
    DEF PInv, OneWriter, SpawnsDead, BurnedInCooldown, OneFailurePerCooldown
<1>5. CASE (Look(t) \/ LockSlot(t)) /\ Leave(t)
  <2>1. UNCHANGED <<slotVars, cooldown>>
    BY <1>5 DEF Look, LockSlot, slotVars
  <2> QED
    BY <1>5, <2>1, LeavePInv
<1>6. ~(Leave(t) /\ (GiveUp(t) \/ CheckCooldown(t)))
  BY DEF GiveUp, CheckCooldown, Leave, Goto, PInv, TypeOK
<1> QED
  BY <1>1, <1>2, <1>3, <1>4, <1>5, <1>6 DEF CheckoutStep

\* The invariant is inductive.
LEMMA NextPInv == PInv /\ [Next]_vars => PInv'
<1> SUFFICES ASSUME PInv, [Next]_vars PROVE PInv'
  OBVIOUS
<1>1. ASSUME NEW t \in Tasks, Begin(t) PROVE PInv'
  <2>1. TypeOK'
    <3>1. steady' \in [Tasks -> SUBSET Slots]
      BY <1>1 DEF PInv, TypeOK, Begin
    <3> QED
      BY <1>1, <3>1 DEF PInv, TypeOK, Begin, Goto, slotVars
  <2>2. OneWriter' /\ SpawnsDead' /\ BurnedInCooldown' /\ OneFailurePerCooldown'
    BY <1>1, GotoPInv DEF Begin, slotVars
  <2> QED
    BY <2>1, <2>2 DEF PInv
<1>2. ASSUME NEW t \in Tasks, CheckoutStep(t) PROVE PInv'
  BY <1>2, CheckoutPInv
<1>3. ASSUME NEW t \in Tasks, Return(t) \/ Abandon(t) PROVE PInv'
  <2>1. Leave(t) /\ UNCHANGED <<slotVars, cooldown>>
    BY <1>3 DEF Return, Abandon, slotVars
  <2> QED
    BY <2>1, LeavePInv
<1>4. ASSUME NEW s \in Slots, Die(s) PROVE PInv'
  <2>1. /\ alive' = [alive EXCEPT ![s] = FALSE]
        /\ steady' \in [Tasks -> SUBSET Slots]
        /\ UNCHANGED <<gen, next, cooldown, pc, idx, walked, jumps, burned>>
    BY <1>4 DEF PInv, TypeOK, Die
  <2>2. TypeOK'
    BY <2>1 DEF PInv, TypeOK
  <2>3. SpawnsDead'
    BY <2>1 DEF PInv, TypeOK, SpawnsDead
  <2> QED
    BY <2>1, <2>2, <2>3 DEF PInv, OneWriter, BurnedInCooldown, OneFailurePerCooldown
<1>5. CASE CooldownEnds
  BY <1>5 DEF PInv, TypeOK, OneWriter, SpawnsDead, BurnedInCooldown,
              OneFailurePerCooldown, CooldownEnds, slotVars
<1>6. CASE UNCHANGED vars
  BY <1>6 DEF PInv, TypeOK, OneWriter, SpawnsDead, BurnedInCooldown,
              OneFailurePerCooldown, vars
<1> QED
  BY <1>1, <1>2, <1>3, <1>4, <1>5, <1>6 DEF Next

\* Every reachable state satisfies the invariant.
LEMMA PoolInvariance == Spec => []PInv
  BY InitPInv, NextPInv, PTL DEF Spec

-----------------------------------------------------------------------------
\* Every reachable state of the pool is well typed: in particular the
\* slot that a task looks at exists, also after the counter has wrapped.
THEOREM PoolTypeCorrect == Spec => []TypeOK
<1>1. PInv => TypeOK
  BY DEF PInv
<1> QED
  BY <1>1, PoolInvariance, PTL

\* checkout() never replaces, and so never kills, a live bridge.
THEOREM KeepsLiveBridges == Spec => LiveBridgeKept
<1>1. PInv /\ [Next]_vars => [\A s \in Slots : gen'[s] # gen[s] => ~alive[s]]_vars
  <2> SUFFICES ASSUME PInv, Next, NEW s \in Slots, gen'[s] # gen[s]
               PROVE  ~alive[s]
    OBVIOUS
  <2>1. PICK t \in Tasks : SpawnOk(t)
    BY DEF Next, Begin, CheckoutStep, PickSlot, GiveUp, Look, CheckCooldown,
           LockSlot, SpawnFail, Return, Abandon, Leave, Die, CooldownEnds, slotVars
  <2>2. s = idx[t] /\ pc[t] = "spawn"
    BY <2>1 DEF SpawnOk, PInv, TypeOK
  <2> QED
    BY <2>2 DEF PInv, SpawnsDead
<1> QED
  BY <1>1, PoolInvariance, PTL DEF Spec, LiveBridgeKept

\* Each task wastes at most one spawn per cooldown window.
THEOREM SpawnsBounded == Spec => []OneFailurePerCooldown
<1>1. PInv => OneFailurePerCooldown
  BY DEF PInv
<1> QED
  BY <1>1, PoolInvariance, PTL
-----------------------------------------------------------------------------
(***************************************************************************)
(* When checkout() gives up.  A task's picks are runs of consecutive       *)
(* values of the counter, and each disturbance begins a new run; every     *)
(* pick of a run found its slot dead.  With at most one disturbance there  *)
(* are two runs, and 2 * N picks in two runs put N into one of them: N     *)
(* consecutive values, which visit every slot.                             *)
(***************************************************************************)

\* The slots that t cannot use any more: found dead, or about to be looked at.
Missed(t) == {s \in Slots : s \notin steady[t] \/ (pc[t] = "look" /\ s = idx[t])}

\* The n values of the counter from x on led t to slots it could not use.
Run(x, n, t) == \A v \in Nat : x <= v /\ v < x + n => v % N \in Missed(t)

\* All picks of t make one run, which ends at the counter.
OneRun(t) == walked[t] <= next /\ Run(next - walked[t], walked[t], t)

\* The picks of t make two runs, the later of which ends at the counter.
TwoRuns(t) ==
  \E x \in Nat, b \in 0..walked[t] :
    b <= next /\ Run(next - b, b, t) /\ Run(x, walked[t] - b, t)

\* What a task's walk has found.
WalkFound(t) ==
  /\ \A s \in steady[t] : alive[s]
  /\ pc[t] = "idle" => walked[t] = 0 /\ jumps[t] = 0
  /\ Walking(t) /\ jumps[t] = 0 => OneRun(t)
  /\ Walking(t) /\ jumps[t] = 1 => TwoRuns(t)
  /\ pc[t] \in {"dead", "want", "spawn"} => idx[t] \notin steady[t]
  /\ pc[t] = "err" /\ jumps[t] # 2 => steady[t] = {}

WInv == \A t \in Tasks : WalkFound(t)

\* Each s below n is the remainder of the values congruent to it.
LEMMA Remainder ==
  ASSUME NEW n \in Nat \ {0}, NEW q \in Nat, NEW s \in 0..n-1
  PROVE  (n * q + s) % n = s
  OBVIOUS

\* Of n consecutive naturals one has the remainder s.
LEMMA Residues ==
  ASSUME NEW n \in Nat \ {0}, NEW x \in Nat, NEW s \in 0..n-1
  PROVE  \E v \in Nat : x <= v /\ v < x + n /\ v % n = s
<1>1. x = n * (x \div n) + (x % n) /\ x % n \in 0..n-1 /\ x \div n \in Nat
  OBVIOUS
<1>2. PICK q \in Nat, r \in 0..n-1 : x = n * q + r
  BY <1>1
<1>3. n * q \in Nat /\ n * (q + 1) \in Nat /\ n * (q + 1) = n * q + n
  BY <1>2
<1>4. CASE s >= r
  <2>1. n * q + s \in Nat /\ x <= n * q + s /\ n * q + s < x + n
    BY <1>2, <1>3, <1>4
  <2> QED
    BY <2>1, Remainder
<1>5. CASE s < r
  <2>1. /\ n * (q + 1) + s \in Nat /\ x <= n * (q + 1) + s
        /\ n * (q + 1) + s < x + n /\ q + 1 \in Nat
    BY <1>2, <1>3, <1>5
  <2> QED
    BY <2>1, Remainder
<1> QED
  BY <1>2, <1>4, <1>5

\* N consecutive values of the counter visit every slot.
LEMMA RunCovers ==
  ASSUME NEW x \in Nat, NEW s \in Slots
  PROVE  \E v \in Nat : x <= v /\ v < x + N /\ v % N = s
<1>1. N \in Nat \ {0} /\ s \in 0..N-1
  BY PoolAssumption DEF PoolAssumption, Slots
<1> QED
  BY <1>1, Residues

\* A run of N values or more leaves no slot to use.
LEMMA LongRun ==
  ASSUME NEW t \in Tasks, NEW x \in Nat, NEW n \in Nat, n >= N, Run(x, n, t)
  PROVE  Slots \subseteq Missed(t)
<1> SUFFICES ASSUME NEW s \in Slots PROVE s \in Missed(t)
  OBVIOUS
<1>1. PICK v \in Nat : x <= v /\ v < x + N /\ v % N = s
  BY RunCovers
<1>2. v < x + n
  BY <1>1, PoolAssumption DEF PoolAssumption
<1> QED
  BY <1>1, <1>2 DEF Run

\* A walk that ends after 2 * N picks in at most two runs has missed no live
\* slot.
LEMMA WalkOver ==
  ASSUME PInv, NEW t \in Tasks, WalkFound(t), pc[t] = "walk", walked[t] = Limit,
         jumps[t] # 2
  PROVE  steady[t] = {}
<1>1. /\ N \in Nat /\ N > 0 /\ walked[t] = 2 * N /\ next \in Nat
      /\ jumps[t] \in {0, 1} /\ steady[t] \subseteq Slots
  <2>1. jumps[t] \in 0..2 /\ next \in Nat /\ steady[t] \subseteq Slots
    BY PoolAssumption DEF PoolAssumption, PInv, TypeOK
  <2> QED
    BY <2>1, PoolAssumption DEF PoolAssumption, Limit
<1>2. \E x \in Nat, n \in Nat : n >= N /\ Run(x, n, t)
  <2>1. CASE jumps[t] = 0
    <3>1. OneRun(t)
      BY <2>1 DEF WalkFound, Walking
    <3>2. next - walked[t] \in Nat /\ walked[t] \in Nat /\ walked[t] >= N
      BY <3>1, <1>1 DEF OneRun
    <3> QED
      BY <3>1, <3>2 DEF OneRun
  <2>2. CASE jumps[t] = 1
    <3>1. PICK x \in Nat, b \in 0..walked[t] :
            b <= next /\ Run(next - b, b, t) /\ Run(x, walked[t] - b, t)
      BY <2>2 DEF WalkFound, Walking, TwoRuns
    <3>2. /\ b \in Nat /\ next - b \in Nat /\ walked[t] - b \in Nat
          /\ b >= N \/ walked[t] - b >= N
      BY <3>1, <1>1
    <3> QED
      BY <3>1, <3>2
  <2> QED
    BY <1>1, <2>1, <2>2
<1>3. Slots \subseteq Missed(t)
  BY <1>2, LongRun
<1> QED
  BY <1>1, <1>3 DEF Missed

\* The next value lengthens a run if its slot is added to the missed ones.
LEMMA LongerRun ==
  ASSUME NEW t \in Tasks, NEW n \in Nat, n <= next, next \in Nat,
         Run(next - n, n, t), Missed(t) \subseteq Missed(t)', next % N \in Missed(t)'
  PROVE  \A v \in Nat : next - n <= v /\ v < next + 1 => v % N \in Missed(t)'
<1> SUFFICES ASSUME NEW v \in Nat, next - n <= v, v < next + 1
             PROVE  v % N \in Missed(t)'
  OBVIOUS
<1>1. CASE v = next
  BY <1>1
<1>2. CASE v < next
  <2>1. v < (next - n) + n
    BY <1>2
  <2> QED
    BY <2>1 DEF Run
<1> QED
  BY <1>1, <1>2

\* No value lies in a run of length 0.
LEMMA NoRun ==
  ASSUME NEW y \in Nat
  PROVE  y - 0 \in Nat /\ \A v \in Nat : ~(y - 0 <= v /\ v < (y - 0) + 0)
  OBVIOUS

\* A run stays one while no missed slot is alive again for t.
LEMMA RunStays ==
  ASSUME NEW t \in Tasks, NEW x, NEW n, Run(x, n, t), Missed(t) \subseteq Missed(t)'
  PROVE  \A v \in Nat : x <= v /\ v < x + n => v % N \in Missed(t)'
  BY DEF Run

\* A step that leaves the counter and the walk of t alone keeps what the walk
\* has found.
LEMMA OthersWalk ==
  ASSUME NEW t \in Tasks, WalkFound(t), UNCHANGED <<next, walked[t], jumps[t]>>,
         Missed(t) \subseteq Missed(t)',
         Walking(t)' => Walking(t)
  PROVE  /\ (Walking(t) /\ jumps[t] = 0 => OneRun(t))'
         /\ (Walking(t) /\ jumps[t] = 1 => TwoRuns(t))'
<1>1. (Walking(t) /\ jumps[t] = 0 => OneRun(t))'
  <2> SUFFICES ASSUME Walking(t)', jumps[t]' = 0 PROVE OneRun(t)'
    OBVIOUS
  <2>1. OneRun(t)
    BY DEF WalkFound
  <2> QED
    BY <2>1, RunStays DEF OneRun, Run
<1>2. (Walking(t) /\ jumps[t] = 1 => TwoRuns(t))'
  <2> SUFFICES ASSUME Walking(t)', jumps[t]' = 1 PROVE TwoRuns(t)'
    OBVIOUS
  <2>1. PICK x \in Nat, b \in 0..walked[t] :
          b <= next /\ Run(next - b, b, t) /\ Run(x, walked[t] - b, t)
    BY DEF WalkFound, TwoRuns
  <2>2. Run(next - b, b, t)' /\ Run(x, walked[t] - b, t)'
    BY <2>1, RunStays DEF Run
  <2> QED
    BY <2>1, <2>2 DEF TwoRuns
<1> QED
  BY <1>1, <1>2

\* A task that a step leaves where it is keeps what its walk has found, also
\* when slots die.
LEMMA StillWalk ==
  ASSUME NEW u \in Tasks, WalkFound(u),
         UNCHANGED <<next, pc[u], idx[u], walked[u], jumps[u]>>,
         steady'[u] \subseteq steady[u], \A s \in steady'[u] : alive'[s]
  PROVE  WalkFound(u)'
<1>1. Missed(u) \subseteq Missed(u)' /\ (Walking(u)' => Walking(u))
  BY DEF Missed, Walking
<1>2. /\ (Walking(u) /\ jumps[u] = 0 => OneRun(u))'
      /\ (Walking(u) /\ jumps[u] = 1 => TwoRuns(u))'
  BY <1>1, OthersWalk
<1>3. (/\ \A s \in steady[u] : alive[s]
       /\ pc[u] = "idle" => walked[u] = 0 /\ jumps[u] = 0
       /\ pc[u] \in {"dead", "want", "spawn"} => idx[u] \notin steady[u]
       /\ pc[u] = "err" /\ jumps[u] # 2 => steady[u] = {})'
  BY DEF WalkFound
<1> QED
  BY <1>2, <1>3 DEF WalkFound

\* A walking task keeps what its walk has found from label to label, if it
\* leaves the slot it looks at as a dead one.
LEMMA MoveWalk ==
  ASSUME PInv, NEW t \in Tasks, WalkFound(t), Walking(t),
         NEW l \in {"walk", "dead", "want", "spawn"}, Goto(t, l),
         UNCHANGED <<alive, next, idx, walked, steady, jumps>>,
         pc[t] = "look" \/ l # "walk" => idx[t] \notin steady[t]
  PROVE  WalkFound(t)'
<1>1. pc'[t] = l
  BY DEF Goto, PInv, TypeOK
<1>2. Missed(t) \subseteq Missed(t)' /\ (Walking(t)' => Walking(t))
  BY <1>1 DEF Missed
<1>3. /\ (Walking(t) /\ jumps[t] = 0 => OneRun(t))'
      /\ (Walking(t) /\ jumps[t] = 1 => TwoRuns(t))'
  BY <1>2, OthersWalk
<1>4. (/\ \A s \in steady[t] : alive[s]
       /\ pc[t] = "idle" => walked[t] = 0 /\ jumps[t] = 0
       /\ pc[t] \in {"dead", "want", "spawn"} => idx[t] \notin steady[t]
       /\ pc[t] = "err" /\ jumps[t] # 2 => steady[t] = {})'
  BY <1>1 DEF WalkFound
<1> QED
  BY <1>3, <1>4 DEF WalkFound

\* A call that is over has found nothing.
LEMMA LeaveWalk ==
  ASSUME PInv, NEW t \in Tasks, Leave(t)
  PROVE  WalkFound(t)'
<1>1. pc'[t] = "idle" /\ walked'[t] = 0 /\ jumps'[t] = 0 /\ steady'[t] = {}
  BY DEF Leave, Goto, PInv, TypeOK
<1> QED
  BY <1>1 DEF WalkFound, Walking

\* The picking task's own run gets longer, or ends where the counter wraps.
LEMMA PickOwn ==
  ASSUME PInv, NEW t \in Tasks, WalkFound(t), PickSlot(t)
  PROVE  WalkFound(t)'
<1>1. /\ pc[t] = "walk" /\ pc'[t] = "look" /\ idx'[t] = next % N
      /\ walked'[t] = walked[t] + 1 /\ next' = (next + 1) % Wrap
      /\ jumps'[t] = IF next + 1 = Wrap /\ jumps[t] < 2 THEN jumps[t] + 1 ELSE jumps[t]
      /\ UNCHANGED <<alive, steady>>
  BY DEF PickSlot, Goto, PInv, TypeOK, slotVars, Disturbs, Walking
<1>2. /\ next \in Nat /\ next < Wrap /\ Wrap \in Nat /\ walked[t] \in Nat
      /\ jumps[t] \in 0..2 /\ next % N \in Slots
  BY SlotFacts, PoolAssumption DEF PoolAssumption, PInv, TypeOK, Limit
<1>3. next' = IF next + 1 = Wrap THEN 0 ELSE next + 1
  BY <1>1, <1>2
<1>4. Missed(t) \subseteq Missed(t)' /\ next % N \in Missed(t)'
  BY <1>1, <1>2 DEF Missed
<1>5. (Walking(t) /\ jumps[t] = 0 => OneRun(t))'
  <2> SUFFICES ASSUME jumps'[t] = 0 PROVE OneRun(t)'
    OBVIOUS
  <2>1. jumps[t] = 0 /\ next' = next + 1
    BY <1>1, <1>2, <1>3
  <2>2. OneRun(t)
    BY <2>1, <1>1 DEF WalkFound, Walking
  <2>3. \A v \in Nat : next - walked[t] <= v /\ v < next + 1 => v % N \in Missed(t)'
    BY <2>2, <1>2, <1>4, LongerRun DEF OneRun
  <2>4. /\ next' - walked'[t] = next - walked[t]
        /\ (next - walked[t]) + walked'[t] = next + 1
    BY <1>1, <1>2, <2>1
  <2>5. Run(next - walked[t], walked[t], t)'
    BY <2>3, <2>4 DEF Run
  <2> QED
    BY <2>1, <2>2, <2>5, <1>1, <1>2 DEF OneRun
<1>6. (Walking(t) /\ jumps[t] = 1 => TwoRuns(t))'
  <2> SUFFICES ASSUME jumps'[t] = 1 PROVE TwoRuns(t)'
    OBVIOUS
  <2>1. CASE jumps[t] = 0
    <3>1. next' = 0 /\ OneRun(t)
      BY <2>1, <1>1, <1>2, <1>3 DEF WalkFound, Walking
    <3>2. \A v \in Nat : next - walked[t] <= v /\ v < next + 1 => v % N \in Missed(t)'
      BY <3>1, <1>2, <1>4, LongerRun DEF OneRun
    <3>3. /\ next - walked[t] \in Nat
          /\ (next - walked[t]) + (walked'[t] - 0) = next + 1
      BY <3>1, <1>1, <1>2 DEF OneRun
    <3>4. \A v \in Nat : next - walked[t] <= v /\ v < (next - walked[t]) + (walked'[t] - 0)
                           => v % N \in Missed(t)'
      BY <3>2, <3>3
    <3>5. \A v \in Nat : 0 - 0 <= v /\ v < (0 - 0) + 0 => v % N \in Missed(t)'
      OBVIOUS
    <3>6. 0 \in 0..walked'[t] /\ 0 <= next'
      BY <1>1, <1>2, <3>1
    <3> QED
      BY <3>1, <3>3, <3>4, <3>5, <3>6 DEF TwoRuns, Run
  <2>2. CASE jumps[t] = 1
    <3>1. next' = next + 1 /\ TwoRuns(t)
      BY <2>2, <1>1, <1>2, <1>3 DEF WalkFound, Walking
    <3>2. PICK x \in Nat, b \in 0..walked[t] :
            b <= next /\ Run(next - b, b, t) /\ Run(x, walked[t] - b, t)
      BY <3>1 DEF TwoRuns
    <3>3. \A v \in Nat : next - b <= v /\ v < next + 1 => v % N \in Missed(t)'
      BY <3>2, <1>2, <1>4, LongerRun
    <3>4. /\ b + 1 \in 0..walked'[t] /\ b + 1 <= next'
          /\ next' - (b + 1) = next - b /\ (next - b) + (b + 1) = next + 1
          /\ walked'[t] - (b + 1) = walked[t] - b
      BY <3>1, <3>2, <1>1, <1>2
    <3>5. \A v \in Nat : x <= v /\ v < x + (walked[t] - b) => v % N \in Missed(t)'
      BY <3>2, <1>4, RunStays
    <3> QED
      BY <3>1, <3>4, <3>5, <3>3 DEF TwoRuns, Run
  <2> QED
    BY <2>1, <2>2, <1>1, <1>2
<1> QED
  BY <1>1, <1>5, <1>6 DEF WalkFound

\* Another task's pick ends the run of a walking task.
LEMMA PickOther ==
  ASSUME PInv, NEW t \in Tasks, NEW u \in Tasks, u # t, WalkFound(u), PickSlot(t)
  PROVE  WalkFound(u)'
<1>1. /\ pc'[u] = pc[u] /\ idx'[u] = idx[u] /\ walked'[u] = walked[u]
      /\ jumps'[u] = IF Walking(u) /\ jumps[u] < 2 THEN jumps[u] + 1 ELSE jumps[u]
      /\ UNCHANGED <<alive, steady>>
  BY DEF PickSlot, Goto, PInv, TypeOK, slotVars, Disturbs
<1>2. /\ next' \in Nat /\ next \in Nat /\ walked[u] \in Nat /\ jumps[u] \in 0..2
  BY SlotFacts, PoolAssumption DEF PoolAssumption, PInv, TypeOK, Limit, PickSlot
<1>3. Missed(u) \subseteq Missed(u)' /\ Walking(u)' = Walking(u)
  BY <1>1 DEF Missed, Walking
<1>4. ~(Walking(u) /\ jumps[u] = 0)'
  BY <1>1, <1>2, <1>3
<1>5. (Walking(u) /\ jumps[u] = 1 => TwoRuns(u))'
  <2> SUFFICES ASSUME Walking(u), jumps'[u] = 1 PROVE TwoRuns(u)'
    BY <1>3
  <2>1. jumps[u] = 0 /\ OneRun(u)
    BY <1>1, <1>2 DEF WalkFound
  <2>2. next - walked[u] \in Nat
    BY <2>1, <1>2 DEF OneRun
  <2>3. \A v \in Nat : next - walked[u] <= v /\ v < (next - walked[u]) + walked[u]
                         => v % N \in Missed(u)'
    BY <2>1, <1>3, RunStays DEF OneRun
  <2>4. 0 \in 0..walked'[u] /\ 0 <= next' /\ walked'[u] - 0 = walked[u]
    BY <1>1, <1>2
  <2>5. \A v \in Nat : next' - 0 <= v /\ v < (next' - 0) + 0 => v % N \in Missed(u)'
    BY <1>2, NoRun
  <2> QED
    BY <2>2, <2>3, <2>4, <2>5 DEF TwoRuns, Run
<1> QED
  BY <1>1, <1>4, <1>5 DEF WalkFound, Walking

\* The walks keep what they have found in every step of checkout().
LEMMA CheckoutWalk ==
  ASSUME PInv, WInv, NEW t \in Tasks, CheckoutStep(t), NEW u \in Tasks
  PROVE  WalkFound(u)'
<1> USE DEF WInv
<1>1. CASE PickSlot(t)
  BY <1>1, PickOwn, PickOther
<1>2. CASE ~PickSlot(t) /\ u # t
  <2>1. UNCHANGED <<next, pc[u], idx[u], walked[u], jumps[u], steady[u]>>
    BY <1>2 DEF CheckoutStep, GiveUp, Look, CheckCooldown, LockSlot, SpawnOk,
                SpawnFail, Leave, Goto, PInv, TypeOK, history
  <2>2. \A s \in Slots : alive[s] => alive'[s]
    BY <1>2 DEF CheckoutStep, GiveUp, Look, CheckCooldown, LockSlot, SpawnOk,
                SpawnFail, slotVars, PInv, TypeOK
  <2>3. steady[u] \subseteq Slots /\ \A s \in steady[u] : alive[s]
    BY DEF PInv, TypeOK, WalkFound
  <2> QED
    BY <2>1, <2>2, <2>3, StillWalk
<1>3. CASE u = t /\ GiveUp(t)
  <2>1. /\ pc[t] = "walk" /\ pc'[t] = "err" /\ walked[t] = Limit
        /\ UNCHANGED <<alive, jumps, steady>>
    BY <1>3 DEF GiveUp, Goto, PInv, TypeOK, slotVars, history
  <2>2. jumps[t] # 2 => steady[t] = {}
    BY <2>1, WalkOver
  <2> QED
    BY <1>3, <2>1, <2>2 DEF WalkFound, Walking
<1>4. CASE u = t /\ Leave(t)
  BY <1>4, LeaveWalk
<1>5. CASE /\ u = t /\ ~Leave(t)
           /\ Look(t) \/ CheckCooldown(t) \/ LockSlot(t) \/ SpawnFail(t)
  <2>1. PICK l \in {"walk", "dead", "want", "spawn"} :
          /\ Goto(t, l)
          /\ pc[t] = "look" => l = "dead" /\ ~alive[idx[t]]
    BY <1>5 DEF Look, CheckCooldown, LockSlot, SpawnFail
  <2>2. /\ pc[t] \in {"look", "dead", "want", "spawn"}
        /\ UNCHANGED <<alive, next, idx, walked, steady, jumps>>
    BY <1>5 DEF Look, CheckCooldown, LockSlot, SpawnFail, slotVars, history
  <2>3. idx[t] \notin steady[t]
    BY <2>1, <2>2 DEF WalkFound
  <2> QED
    BY <1>5, <2>1, <2>2, <2>3, MoveWalk DEF Walking
<1>6. SpawnOk(t) => Leave(t)
  BY DEF SpawnOk
<1> QED
  BY <1>1, <1>2, <1>3, <1>4, <1>5, <1>6 DEF CheckoutStep

\* What the walks have found is inductive.
LEMMA NextWInv == PInv /\ WInv /\ [Next]_vars => WInv'
<1> SUFFICES ASSUME PInv, WInv, [Next]_vars, NEW u \in Tasks PROVE WalkFound(u)'
  BY DEF WInv
<1>1. WalkFound(u)
  BY DEF WInv
<1>2. ASSUME NEW t \in Tasks, Begin(t) PROVE WalkFound(u)'
  <2>1. CASE u = t
    <3>1. /\ pc'[t] = "walk" /\ walked'[t] = 0 /\ jumps'[t] = 0
          /\ steady'[t] = {s \in Slots : alive[s]} /\ UNCHANGED <<alive, next>>
      BY <1>1, <1>2, <2>1 DEF Begin, Goto, PInv, TypeOK, WalkFound, slotVars
    <3>2. next' \in Nat /\ next' - 0 \in Nat
      BY <3>1, PoolAssumption DEF PoolAssumption, PInv, TypeOK
    <3>3. OneRun(t)'
      BY <3>1, <3>2, NoRun DEF OneRun, Run
    <3> QED
      BY <2>1, <3>1, <3>3 DEF WalkFound
  <2>2. CASE u # t
    <3>1. /\ UNCHANGED <<next, pc[u], idx[u], walked[u], jumps[u], steady[u]>>
          /\ UNCHANGED alive
      BY <1>2, <2>2 DEF Begin, Goto, PInv, TypeOK, slotVars
    <3> QED
      BY <1>1, <3>1, StillWalk DEF WalkFound
  <2> QED
    BY <2>1, <2>2
<1>3. ASSUME NEW t \in Tasks, CheckoutStep(t) PROVE WalkFound(u)'
  BY <1>3, CheckoutWalk
<1>4. ASSUME NEW t \in Tasks, Return(t) \/ Abandon(t) PROVE WalkFound(u)'
  <2>1. Leave(t) /\ UNCHANGED alive
    BY <1>4 DEF Return, Abandon, slotVars
  <2>2. CASE u = t
    BY <2>1, <2>2, LeaveWalk
  <2>3. CASE u # t
    <3>1. UNCHANGED <<next, pc[u], idx[u], walked[u], jumps[u], steady[u]>>
      BY <2>1, <2>3 DEF Leave, Goto, PInv, TypeOK
    <3> QED
      BY <1>1, <2>1, <3>1, StillWalk DEF WalkFound
  <2> QED
    BY <2>2, <2>3
<1>5. ASSUME NEW s \in Slots, Die(s) PROVE WalkFound(u)'
  <2>1. UNCHANGED <<next, pc, idx, walked, jumps>>
    BY <1>5 DEF Die
  <2>2. steady'[u] = steady[u] \ {s} /\ steady[u] \subseteq Slots
    BY <1>5 DEF Die, PInv, TypeOK
  <2>3. \A r \in steady'[u] : alive'[r]
    BY <1>1, <1>5, <2>2 DEF Die, PInv, TypeOK, WalkFound
  <2> QED
    BY <1>1, <2>1, <2>2, <2>3, StillWalk
<1>6. CASE CooldownEnds \/ UNCHANGED vars
  <2>1. UNCHANGED <<alive, next, pc, idx, walked, jumps, steady>>
    BY <1>6 DEF CooldownEnds, vars, slotVars
  <2> QED
    BY <1>1, <2>1, StillWalk DEF WalkFound
<1> QED
  BY <1>2, <1>3, <1>4, <1>5, <1>6 DEF Next

\* checkout() reports that every slot is dead although one stayed alive only
\* if the counter was disturbed twice during the call, for any number of slots,
\* tasks and values of the counter.
THEOREM GivesUpUnderContention == Spec => []ErrorNeedsContention
<1>1. Init => WInv
  BY DEF Init, WInv, WalkFound, Walking
<1>2. WInv => ErrorNeedsContention
  BY DEF WInv, WalkFound, ErrorNeedsContention
<1> QED
  BY <1>1, <1>2, NextWInv, PoolInvariance, PTL DEF Spec
=============================================================================
