----------------------- MODULE ConvSerializerProofs -----------------------
(***************************************************************************)
(* Proofs about ConvSerializer, for every set of tasks, conversations and  *)
(* mutex addresses: the type invariant, mutual exclusion, and the          *)
(* refinement of PerConvLock.                                              *)
(*                                                                         *)
(* Mutual exclusion is not inductive.  What makes it true is that a task   *)
(* past acquire() refers to the very mutex the map holds for its           *)
(* conversation (References), which the sweep preserves because it looks   *)
(* at the reference count under the map's lock, and that the queue of a    *)
(* mutex is a strict total order (QueueOrder, QueueTotal).                 *)
(***************************************************************************)
EXTENDS ConvSerializer, TLAPS

References ==
  \A t \in Tasks :
    IF pc[t] = "idle" THEN conv[t] = NoCid /\ arc[t] = NoMutex
    ELSE conv[t] \in Cids /\ arc[t] \in Mutexes /\ locks[conv[t]] = arc[t]

OneEntryPerMutex ==
  \A c, d \in Cids : locks[c] = locks[d] /\ locks[c] # NoMutex => c = d

QueueOrder ==
  \A t, u \in Tasks :
    u \in ahead[t] => /\ Queued(t) /\ Queued(u) /\ arc[u] = arc[t]
                      /\ t \notin ahead[u]

QueueTotal ==
  \A t, u \in Tasks :
    Queued(t) /\ Queued(u) /\ t # u /\ arc[t] = arc[u] =>
      u \in ahead[t] \/ t \in ahead[u]

IInv ==
  TypeOK /\ References /\ OneEntryPerMutex /\ QueueOrder /\ QueueTotal

-----------------------------------------------------------------------------
\* The initial state, with an empty map and no task, satisfies IInv.
LEMMA InitIInv == Init => IInv
  BY SerializerAssumption
  DEF SerializerAssumption, Init, IInv, TypeOK, References, OneEntryPerMutex, QueueOrder,
      QueueTotal, Queued

\* acquire() keeps IInv: a fresh entry gets an address nobody refers to.
LEMMA AcquireIInv ==
  ASSUME IInv, NEW t \in Tasks, NEW c \in Cids, Acquire(t, c)
  PROVE  IInv'
<1> USE SerializerAssumption DEF SerializerAssumption
<1>1. /\ pc[t] = "idle"
      /\ locks \in [Cids -> Mutexes \cup {NoMutex}]
      /\ locks' \in [Cids -> Mutexes \cup {NoMutex}]
      /\ locks'[c] \in Mutexes
      /\ \A d \in Cids : d # c => locks'[d] = locks[d]
      /\ locks[c] # NoMutex => locks'[c] = locks[c]
      /\ locks[c] = NoMutex => \A d \in Cids : locks[d] # locks'[c]
  BY DEF IInv, TypeOK, Acquire, Unallocated
<1>2. TypeOK'
  <2>1. age' \in [Cids -> 0..IdleLimit]
    BY DEF IInv, TypeOK, Acquire
  <2>2. pc' \in [Tasks -> {"idle", "got", "queued"}]
    BY DEF IInv, TypeOK, Acquire
  <2>3. conv' \in [Tasks -> Cids \cup {NoCid}] /\ ahead' \in [Tasks -> SUBSET Tasks]
    BY DEF IInv, TypeOK, Acquire
  <2>4. arc' \in [Tasks -> Mutexes \cup {NoMutex}]
    BY <1>1 DEF IInv, TypeOK, Acquire
  <2> QED
    BY <1>1, <2>1, <2>2, <2>3, <2>4 DEF TypeOK
<1>3. /\ \A u \in Tasks : u # t => /\ pc'[u] = pc[u]
                                   /\ conv'[u] = conv[u]
                                   /\ arc'[u] = arc[u]
      /\ pc'[t] = "got" /\ conv'[t] = c /\ arc'[t] = locks'[c]
      /\ ahead' = ahead
  BY DEF IInv, TypeOK, Acquire
<1>4. References'
  BY <1>1, <1>3 DEF IInv, References
<1>5. OneEntryPerMutex'
  BY <1>1 DEF IInv, OneEntryPerMutex
<1>6. \A u \in Tasks : Queued(u)' <=> Queued(u)
  BY <1>1, <1>3 DEF Queued
<1>7. QueueOrder' /\ QueueTotal'
  BY <1>1, <1>3, <1>6 DEF IInv, QueueOrder, QueueTotal, Queued
<1> QED
  BY <1>2, <1>4, <1>5, <1>7 DEF IInv

\* Joining the end of a queue keeps it a strict total order.
LEMMA JoinIInv ==
  ASSUME IInv, NEW t \in Tasks, Join(t)
  PROVE  IInv'
<1>1. /\ pc[t] = "got" /\ pc'[t] = "queued"
      /\ \A u \in Tasks : u # t => pc'[u] = pc[u] /\ ahead'[u] = ahead[u]
      /\ ahead'[t] = {u \in Tasks : Queued(u) /\ arc[u] = arc[t]}
      /\ locks' = locks /\ conv' = conv /\ arc' = arc
  BY DEF IInv, TypeOK, Join
<1>2. TypeOK'
  BY DEF IInv, TypeOK, Join
<1>3. References' /\ OneEntryPerMutex'
  BY <1>1 DEF IInv, References, OneEntryPerMutex
<1>4. /\ ~Queued(t) /\ Queued(t)'
      /\ \A u \in Tasks : u # t => (Queued(u)' <=> Queued(u))
  BY <1>1 DEF Queued
<1>5. QueueOrder'
  BY <1>1, <1>4 DEF IInv, QueueOrder
<1>6. QueueTotal'
  BY <1>1, <1>4 DEF IInv, QueueTotal
<1> QED
  BY <1>2, <1>3, <1>5, <1>6 DEF IInv

\* Leaving a queue, from its front or from its middle, keeps the order of
\* the others.
LEMMA DropIInv ==
  ASSUME IInv, NEW t \in Tasks, Drop(t)
  PROVE  IInv'
<1> USE SerializerAssumption DEF SerializerAssumption
<1>1. /\ pc'[t] = "idle" /\ conv'[t] = NoCid /\ arc'[t] = NoMutex
      /\ ahead'[t] = {}
      /\ \A u \in Tasks : u # t => /\ pc'[u] = pc[u]
                                   /\ conv'[u] = conv[u]
                                   /\ arc'[u] = arc[u]
                                   /\ ahead'[u] = ahead[u] \ {t}
      /\ locks' = locks
  BY DEF IInv, TypeOK, Drop
<1>2. TypeOK'
  BY DEF IInv, TypeOK, Drop
<1>3. References' /\ OneEntryPerMutex'
  BY <1>1 DEF IInv, References, OneEntryPerMutex
<1>4. ~Queued(t)' /\ \A u \in Tasks : u # t => (Queued(u)' <=> Queued(u))
  BY <1>1 DEF Queued
<1>5. QueueOrder'
  BY <1>1, <1>4 DEF IInv, QueueOrder
<1>6. QueueTotal'
  BY <1>1, <1>4 DEF IInv, QueueTotal
<1> QED
  BY <1>2, <1>3, <1>5, <1>6 DEF IInv

\* The sweep never drops an entry that a task refers to.
LEMMA GcIInv ==
  ASSUME IInv, Gc
  PROVE  IInv'
<1>1. /\ locks' = [c \in Cids |-> IF Kept(c) THEN locks[c] ELSE NoMutex]
      /\ UNCHANGED <<age, pc, conv, arc, ahead>>
  BY DEF Gc
<1>2. TypeOK'
  BY <1>1 DEF IInv, TypeOK
<1>3. References'
  <2> SUFFICES ASSUME NEW t \in Tasks, pc[t] # "idle"
               PROVE  locks'[conv[t]] = arc[t]
    BY <1>1 DEF IInv, References
  <2>1. conv[t] \in Cids /\ locks[conv[t]] = arc[t]
    BY DEF IInv, References
  <2>2. Kept(conv[t])
    BY <2>1 DEF Kept, Referenced
  <2> QED
    BY <1>1, <2>1, <2>2
<1>4. OneEntryPerMutex'
  BY <1>1 DEF IInv, OneEntryPerMutex
<1>5. QueueOrder' /\ QueueTotal'
  BY <1>1 DEF IInv, QueueOrder, QueueTotal, Queued
<1> QED
  BY <1>2, <1>3, <1>4, <1>5 DEF IInv

\* IInv is inductive.
LEMMA NextIInv == IInv /\ [Next]_vars => IInv'
<1> SUFFICES ASSUME IInv, [Next]_vars PROVE IInv'
  OBVIOUS
<1>1. ASSUME NEW t \in Tasks, NEW c \in Cids, Acquire(t, c) PROVE IInv'
  BY <1>1, AcquireIInv
<1>2. ASSUME NEW t \in Tasks, Join(t) PROVE IInv'
  BY <1>2, JoinIInv
<1>3. ASSUME NEW t \in Tasks, Release(t) \/ Abandon(t) PROVE IInv'
  BY <1>3, DropIInv DEF Release, Abandon
<1>4. CASE Gc
  BY <1>4, GcIInv
<1>5. CASE Tick
  <2>1. age' \in [Cids -> 0..IdleLimit]
    BY <1>5, SerializerAssumption DEF SerializerAssumption, IInv, TypeOK, Tick
  <2>2. UNCHANGED <<locks, pc, conv, arc, ahead>>
    BY <1>5 DEF Tick
  <2> QED
    BY <2>1, <2>2 DEF IInv, TypeOK, References, OneEntryPerMutex, QueueOrder,
                      QueueTotal, Queued
<1>6. CASE UNCHANGED vars
  BY <1>6 DEF vars, IInv, TypeOK, References, OneEntryPerMutex, QueueOrder,
              QueueTotal, Queued
<1> QED
  BY <1>1, <1>2, <1>3, <1>4, <1>5, <1>6 DEF Next

\* Every reachable state satisfies the inductive invariant.
LEMMA Invariance == Spec => []IInv
  BY InitIInv, NextIInv, PTL DEF Spec

-----------------------------------------------------------------------------
\* Every reachable state is well typed.
THEOREM TypeCorrect == Spec => []TypeOK
<1>1. IInv => TypeOK
  BY DEF IInv
<1> QED
  BY <1>1, Invariance, PTL

\* The critical section of a conversation (router lookup and ask) has at
\* most one task in it, for any number of tasks, conversations and sweeps.
THEOREM Exclusion == Spec => []MutualExclusion
<1>1. IInv => MutualExclusion
  BY DEF IInv, References, QueueTotal, MutualExclusion, Holds, Queued
<1> QED
  BY <1>1, Invariance, PTL

-----------------------------------------------------------------------------
(* Refinement. *)

wantsBar == [t \in Tasks |-> IF Queued(t) THEN conv[t] ELSE NoCid]

\* A task is in the abstract line iff it is queued on the concrete mutex.
LEMMA LineIsQueue ==
  ASSUME IInv
  PROVE  /\ \A t \in Tasks : Abs!InLine(t) <=> Queued(t)
         /\ \A t, u \in Tasks :
              pc[t] # "idle" =>
                (wantsBar[u] = conv[t] <=> Queued(u) /\ arc[u] = arc[t])
<1>1. \A t \in Tasks : pc[t] # "idle" =>
        conv[t] \in Cids /\ arc[t] \in Mutexes /\ locks[conv[t]] = arc[t]
  BY DEF IInv, References
<1>2. \A t, u \in Tasks : pc[t] # "idle" /\ pc[u] # "idle" =>
        (conv[u] = conv[t] <=> arc[u] = arc[t])
  BY <1>1, SerializerAssumption DEF SerializerAssumption, IInv, OneEntryPerMutex
<1>3. \A t \in Tasks : Queued(t) => pc[t] # "idle"
  BY DEF Queued
<1>4. NoCid \notin Cids
  BY SerializerAssumption DEF SerializerAssumption
<1>5. \A t \in Tasks : Abs!InLine(t) <=> Queued(t)
  BY <1>1, <1>3, <1>4 DEF Abs!InLine
<1>6. \A t, u \in Tasks :
        pc[t] # "idle" =>
          (wantsBar[u] = conv[t] <=> Queued(u) /\ arc[u] = arc[t])
  BY <1>1, <1>2, <1>3, <1>4 DEF wantsBar
<1> QED
  BY <1>5, <1>6

\* Each step of the map and its mutexes is a step of the eternal locks, or
\* invisible to them.
LEMMA StepRefines == IInv /\ [Next]_vars => [Abs!Next]_(Abs!absVars)
<1> SUFFICES ASSUME IInv, [Next]_vars
             PROVE  Abs!Next \/ (wantsBar' = wantsBar /\ ahead' = ahead)
  BY DEF Abs!absVars, wantsBar
<1> USE DEF wantsBar
<1>1. ASSUME NEW t \in Tasks, NEW c \in Cids, Acquire(t, c)
      PROVE  wantsBar' = wantsBar /\ ahead' = ahead
  BY <1>1 DEF IInv, TypeOK, Acquire, Queued
<1>2. ASSUME NEW t \in Tasks, Join(t) PROVE Abs!Next
  <2>1. /\ pc[t] = "got" /\ conv[t] \in Cids /\ conv' = conv
        /\ pc' = [pc EXCEPT ![t] = "queued"]
    BY <1>2 DEF Join, IInv, References
  <2>2. ~Abs!InLine(t)
    BY <2>1, LineIsQueue DEF Queued
  <2>3. wantsBar' = [wantsBar EXCEPT ![t] = conv[t]]
    BY <2>1 DEF IInv, TypeOK, Queued
  <2>4. {u \in Tasks : Queued(u) /\ arc[u] = arc[t]}
          = {u \in Tasks : wantsBar[u] = conv[t]}
    <3>1. \A u \in Tasks : wantsBar[u] = conv[t] <=> Queued(u) /\ arc[u] = arc[t]
      BY <2>1, LineIsQueue
    <3> QED
      BY <3>1
  <2>5. ahead' = [ahead EXCEPT ![t] = {u \in Tasks : wantsBar[u] = conv[t]}]
    BY <1>2, <2>4 DEF Join
  <2>6. \E c \in Cids : Abs!Enter(t, c)
    BY <2>1, <2>2, <2>3, <2>5 DEF Abs!Enter
  <2> QED
    BY <2>6 DEF Abs!Next
<1>3. ASSUME NEW t \in Tasks, Release(t) \/ Abandon(t) PROVE Abs!Next
  <2>1. Queued(t) /\ Drop(t)
    BY <1>3 DEF Release, Abandon, Holds
  <2>2. Abs!InLine(t)
    BY <2>1, LineIsQueue
  <2>3. wantsBar' = [wantsBar EXCEPT ![t] = NoCid]
    BY <2>1 DEF Drop, IInv, TypeOK, Queued
  <2>4. Abs!Leave(t)
    BY <2>1, <2>2, <2>3 DEF Drop, Abs!Leave
  <2> QED
    BY <2>4 DEF Abs!Next
<1>4. CASE Gc \/ Tick \/ UNCHANGED vars
  BY <1>4 DEF Gc, Tick, vars, Queued
<1> QED
  BY <1>1, <1>2, <1>3, <1>4 DEF Next

\* The garbage-collected map of mutexes behaves like one FIFO lock per
\* conversation that exists for ever.
THEOREM Refinement == Spec => AbsSpec
<1>1. Init => Abs!Init
  BY DEF Init, Abs!Init, Queued
<1> QED
  BY <1>1, StepRefines, Invariance, PTL DEF Spec, AbsSpec, Abs!Spec
=============================================================================
