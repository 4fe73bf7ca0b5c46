----------------------------- MODULE BridgePool -----------------------------
(***************************************************************************)
(* BridgePool::checkout() (src/src/bridge.rs:366-506): tasks share one     *)
(* round-robin counter, walk the slots, and respawn dead bridges under a   *)
(* slot's write lock unless a spawn failed less than RESPAWN_COOLDOWN ago. *)
(* What happens inside one bridge is the subject of Bridge; here a bridge  *)
(* is its alive flag, which may fall at any time.                          *)
(***************************************************************************)
EXTENDS Naturals

CONSTANTS
  Tasks,   \* tasks that check bridges out
  N,       \* number of slots (evoclaw.worker_count)
  Wrap     \* values of the counter, an AtomicUsize: no multiple of every N

ASSUME PoolAssumption == {N, Wrap} \subseteq Nat \ {0}

Slots == 0..N-1

\* Bug: every slot once only.
OnePass == N

\* Every slot at most twice.
Limit == 2 * N

VARIABLES
  alive,     \* alive[s]: the flag of the bridge in slot s
  gen,       \* gen[s]: flips when the bridge in slot s is replaced
  next,      \* the counter
  cooldown,  \* last_respawn_failed_at is less than RESPAWN_COOLDOWN ago
  pc,        \* where each task is in checkout()
  idx,       \* idx[t]: the slot t looks at
  walked,    \* walked[t]: iterations of t's loop so far
  steady,    \* history: slots that have been alive since t's call began
  jumps,     \* history: times the counter left t's sequence, up to 2
  burned     \* history: tasks whose spawn failed in the current cooldown

vars == <<alive, gen, next, cooldown, pc, idx, walked, steady, jumps, burned>>

TypeOK ==
  /\ alive \in [Slots -> BOOLEAN]
  /\ gen \in [Slots -> {0, 1}]
  /\ next \in 0..Wrap-1
  /\ cooldown \in BOOLEAN
  /\ pc \in [Tasks -> {"idle", "walk", "look", "dead", "want", "spawn", "err"}]
  /\ idx \in [Tasks -> Slots]
  /\ walked \in [Tasks -> 0..Limit]
  /\ steady \in [Tasks -> SUBSET Slots]
  /\ jumps \in [Tasks -> 0..2]
  /\ burned \in SUBSET Tasks

\* BridgePool::spawn returned: it found every bridge alive.
Init ==
  /\ alive = [s \in Slots |-> TRUE]
  /\ gen = [s \in Slots |-> 0]
  /\ next = 0
  /\ cooldown = FALSE
  /\ pc = [t \in Tasks |-> "idle"]
  /\ idx = [t \in Tasks |-> 0]
  /\ walked = [t \in Tasks |-> 0]
  /\ steady = [t \in Tasks |-> {}]
  /\ jumps = [t \in Tasks |-> 0]
  /\ burned = {}

-----------------------------------------------------------------------------
Goto(t, label) == pc' = [pc EXCEPT ![t] = label]

Walking(t) == pc[t] \notin {"idle", "err"}

slotVars == <<alive, gen>>
history == <<steady, jumps, burned>>

\* A task spawns while it has the write lock of its slot.  The read lock is
\* never kept beyond one step.
WriteLocked(s) == \E t \in Tasks : pc[t] = "spawn" /\ idx[t] = s

Begin(t) ==
  /\ pc[t] = "idle"
  /\ Goto(t, "walk")
  /\ steady' = [steady EXCEPT ![t] = {s \in Slots : alive[s]}]
  /\ UNCHANGED <<slotVars, next, cooldown, idx, walked, jumps, burned>>

\* The call is over, with a bridge or dropped, and its locals are gone.
Leave(t) ==
  /\ Goto(t, "idle")
  /\ idx' = [idx EXCEPT ![t] = 0]
  /\ walked' = [walked EXCEPT ![t] = 0]
  /\ steady' = [steady EXCEPT ![t] = {}]
  /\ jumps' = [jumps EXCEPT ![t] = 0]
  /\ UNCHANGED <<next, burned>>

\* The counter's next value does not follow u's last pick: t, another task,
\* took the value in between, or the counter wraps after t's own pick.
Disturbs(t, u) == Walking(u) /\ (u # t \/ next + 1 = Wrap)

\* next.fetch_add(1) % n, and fetch_add() wraps.
PickSlot(t) ==
  /\ pc[t] = "walk"
  /\ walked[t] < Limit
  /\ Goto(t, "look")
  /\ idx' = [idx EXCEPT ![t] = next % N]
  /\ next' = (next + 1) % Wrap
  /\ walked' = [walked EXCEPT ![t] = @ + 1]
  /\ jumps' = [u \in Tasks |-> IF Disturbs(t, u) /\ jumps[u] < 2 THEN jumps[u] + 1 ELSE jumps[u]]
  /\ UNCHANGED <<slotVars, cooldown, steady, burned>>

\* Bug: start over instead of failing.
WalkAgain(t) ==
  /\ pc[t] = "walk"
  /\ walked[t] = Limit
  /\ walked' = [walked EXCEPT ![t] = 0]
  /\ UNCHANGED <<slotVars, next, cooldown, pc, idx, history>>

\* The loop is over: "all bridge slots dead".
GiveUp(t) ==
  /\ pc[t] = "walk"
  /\ walked[t] = Limit
  /\ Goto(t, "err")
  /\ UNCHANGED <<slotVars, next, cooldown, idx, walked, history>>

\* Fast path, under the read lock.
Look(t) ==
  /\ pc[t] = "look"
  /\ ~WriteLocked(idx[t])
  /\ IF alive[idx[t]] THEN Leave(t) /\ UNCHANGED <<slotVars, cooldown>>
     ELSE /\ Goto(t, "dead")
          /\ UNCHANGED <<slotVars, next, cooldown, idx, walked, history>>

\* Bug: no look at the cooldown.
NoCooldown(t) ==
  /\ pc[t] = "dead"
  /\ Goto(t, "want")
  /\ UNCHANGED <<slotVars, next, cooldown, idx, walked, history>>

\* in_respawn_cooldown(), before the write lock is asked for.
CheckCooldown(t) ==
  /\ pc[t] = "dead"
  /\ Goto(t, IF cooldown THEN "walk" ELSE "want")
  /\ UNCHANGED <<slotVars, next, cooldown, idx, walked, history>>

\* Bug: respawn without another look at the flag.
NoRecheck(t) ==
  /\ pc[t] = "want"
  /\ ~WriteLocked(idx[t])
  /\ Goto(t, "spawn")
  /\ UNCHANGED <<slotVars, next, cooldown, idx, walked, history>>

\* The write lock is granted; somebody may have respawned the bridge.
LockSlot(t) ==
  /\ pc[t] = "want"
  /\ ~WriteLocked(idx[t])
  /\ IF alive[idx[t]] THEN Leave(t) /\ UNCHANGED <<slotVars, cooldown>>
     ELSE /\ Goto(t, "spawn")
          /\ UNCHANGED <<slotVars, next, cooldown, idx, walked, history>>

\* Bridge::spawn returns a bridge, which takes the slot.
SpawnOk(t) ==
  /\ pc[t] = "spawn"
  /\ alive' = [alive EXCEPT ![idx[t]] = TRUE]
  /\ gen' = [gen EXCEPT ![idx[t]] = 1 - @]
  /\ Leave(t)
  /\ UNCHANGED cooldown

\* Bridge::spawn fails; mark_respawn_failed().
SpawnFail(t) ==
  /\ pc[t] = "spawn"
  /\ cooldown' = TRUE
  /\ burned' = burned \cup {t}
  /\ Goto(t, "walk")
  /\ UNCHANGED <<slotVars, next, idx, walked, steady, jumps>>

\* The caller has the error, and may come back.
Return(t) ==
  /\ pc[t] = "err"
  /\ Leave(t)
  /\ UNCHANGED <<slotVars, cooldown>>

\* The caller's future is dropped while it waits for a lock.
Abandon(t) ==
  /\ pc[t] \in {"look", "want"}
  /\ Leave(t)
  /\ UNCHANGED <<slotVars, cooldown>>

\* The child of the bridge in slot s exits (ReaderFlag and WriteFail of
\* Bridge).
Die(s) ==
  /\ alive[s]
  /\ alive' = [alive EXCEPT ![s] = FALSE]
  /\ steady' = [t \in Tasks |-> steady[t] \ {s}]
  /\ UNCHANGED <<gen, next, cooldown, pc, idx, walked, jumps, burned>>

\* RESPAWN_COOLDOWN has elapsed since the last failure.
CooldownEnds ==
  /\ cooldown
  /\ cooldown' = FALSE
  /\ burned' = {}
  /\ UNCHANGED <<slotVars, next, pc, idx, walked, steady, jumps>>

-----------------------------------------------------------------------------
CheckoutStep(t) ==
  \/ PickSlot(t)
  \/ GiveUp(t)
  \/ Look(t)
  \/ CheckCooldown(t)
  \/ LockSlot(t)
  \/ SpawnOk(t)
  \/ SpawnFail(t)

Next ==
  \/ \E t \in Tasks : Begin(t) \/ CheckoutStep(t) \/ Return(t) \/ Abandon(t)
  \/ \E s \in Slots : Die(s)
  \/ CooldownEnds

Spec == Init /\ [][Next]_vars

\* tokio's RwLock queues its waiters in order, so one that is repeatedly
\* passed the lock's release gets it: strong fairness.
FairSpec == Spec /\ \A t \in Tasks : SF_vars(CheckoutStep(t))

-----------------------------------------------------------------------------
(* Properties. *)

\* A respawn never replaces, and so never kills, a live bridge that other
\* tasks may be using (bridge.rs:482-488).
LiveBridgeKept == [][\A s \in Slots : gen'[s] # gen[s] => ~alive[s]]_vars

\* checkout() misses a slot that stayed alive only if the shared counter was
\* disturbed at least twice during the call, by other tasks' picks or a wrap:
\* that is what walking every slot twice (bridge.rs:457-459) buys.
ErrorNeedsContention ==
  \A t \in Tasks : pc[t] = "err" /\ steady[t] # {} => jumps[t] = 2

\* "Errors only when every slot is dead" (bridge.rs:452-454): no slot was
\* alive throughout the call.
ErrorMeansAllDead == \A t \in Tasks : pc[t] = "err" => steady[t] = {}

\* A task does not try to spawn again in the cooldown that its own failure
\* began (bridge.rs:474-476): one failing spawn per task and cooldown.
OneFailurePerCooldown ==
  \A t \in Tasks : pc[t] \in {"want", "spawn"} => t \notin burned

\* Every checkout returns: the walk is bounded and no lock is kept.
CheckoutReturns == \A t \in Tasks : Walking(t) ~> ~Walking(t)
=============================================================================
