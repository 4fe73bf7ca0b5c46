--------------------------- MODULE TextPathProofs ---------------------------
(***************************************************************************)
(* Proofs about TextPath for any messages, fans, retries and workers.      *)
(*                                                                         *)
(* The invariants are proved one on top of the other: of the line for the  *)
(* conversation's lock (LockInv), of asks and the reply cache (AskInv), of *)
(* what children have been sent (QueueInv), of the replies that reach      *)
(* somebody else's ask (LateInv), of the order of a message's POSTs        *)
(* (TurnInv), and of the session files of conversations in which no ask    *)
(* was cut short (FileInv).  From them follow that a retry gets the text   *)
(* that was given before, that no message is asked twice unless its        *)
(* handler was dropped, that a reply that does not fit is a late one, and  *)
(* when session files have two writers and lose turns.                     *)
(***************************************************************************)
EXTENDS TextPath, TLAPS

Labels == {"unsent", "waiting", "routing", "asking", "answered", "done", "dropped"}

\* Every delivery has a message and a fan.
LEMMA DeliveryFacts ==
  \A d \in Deliveries :
    /\ Msg(d) \in Msgs /\ Fan(d) = FanOf[Msg(d)]
    /\ Fan(d) \in Fans /\ Fan(d) # NoFan
    /\ d[2] \in Nat /\ d[2] >= 1 /\ d = <<Msg(d), d[2]>>
  BY TextPathAssumption DEF TextPathAssumption, Msg, Fan

\* The special payloads are told apart.
LEMMA PayloadFacts ==
  /\ Deliveries \subseteq Payloads
  /\ {Canned} \cup Texts \cup Cards \subseteq Payloads
  /\ \A d \in Deliveries : d \notin {None, Canned} \cup Texts \cup Cards
  /\ None \notin Payloads /\ None \notin Workers
  /\ Canned \notin Cards /\ None \notin Cards
  BY TextPathAssumption DEF TextPathAssumption, Payloads

\* Taking the first of a child's queue, and adding one at its end.
LEMMA QueueTail ==
  ASSUME NEW S, NEW s \in Seq(S), s # <<>>
  PROVE  /\ Head(s) \in S /\ Head(s) = s[1] /\ Len(s) \in Nat /\ Len(s) >= 1
         /\ Tail(s) \in Seq(S) /\ Len(Tail(s)) = Len(s) - 1
         /\ \A i \in 1..Len(Tail(s)) : Tail(s)[i] = s[i + 1]
  OBVIOUS

LEMMA QueueAppend ==
  ASSUME NEW S, NEW s \in Seq(S), NEW e \in S
  PROVE  /\ Append(s, e) \in Seq(S) /\ Append(s, e) # <<>>
         /\ Len(s) \in Nat /\ Len(Append(s, e)) = Len(s) + 1
         /\ \A i \in 1..Len(s) : Append(s, e)[i] = s[i]
         /\ Append(s, e)[Len(s) + 1] = e
         /\ s # <<>> => Head(Append(s, e)) = Head(s)
<1>1. /\ Append(s, e) \in Seq(S) /\ Len(s) \in Nat /\ Len(Append(s, e)) = Len(s) + 1
      /\ \A i \in 1..Len(s) : Append(s, e)[i] = s[i]
      /\ Append(s, e)[Len(s) + 1] = e
  OBVIOUS
<1>2. Append(s, e) # <<>>
  BY <1>1
<1>3. s # <<>> => Head(Append(s, e)) = Head(s)
  <2> SUFFICES ASSUME s # <<>> PROVE Head(Append(s, e)) = Head(s)
    OBVIOUS
  <2>1. Head(Append(s, e)) = Append(s, e)[1] /\ Head(s) = s[1] /\ 1 \in 1..Len(s)
    BY <1>1, QueueTail
  <2> QED
    BY <1>1, <2>1
<1> QED
  BY <1>1, <1>2, <1>3

-----------------------------------------------------------------------------
(* Type correctness. *)

\* The ends of a handler's stay in line keep the types of the line.
LEMMA LineType ==
  ASSUME TypeOK, NEW d \in Deliveries, Lock!Enter(d, Fan(d)) \/ Lock!Leave(d)
  PROVE  /\ wants' \in [Deliveries -> Fans \cup {NoFan}]
         /\ ahead' \in [Deliveries -> SUBSET Deliveries]
<1>1. CASE Lock!Enter(d, Fan(d))
  BY <1>1, DeliveryFacts DEF Lock!Enter, TypeOK
<1>2. CASE Lock!Leave(d)
  BY <1>2 DEF Lock!Leave, TypeOK
<1> QED
  BY <1>1, <1>2

\* A payload is a reply that can be sent, and is cached unless it is a card.
LEMMA PayloadType ==
  ASSUME TypeOK, NEW d \in Deliveries, NEW p \in Payloads, Payload(d, p)
  PROVE  /\ pc' \in [Deliveries -> Labels]
         /\ got' \in [Deliveries -> Payloads \cup {None}]
         /\ cache' \in [Msgs -> (Payloads \ Cards) \cup {None}]
<1>1. pc' \in [Deliveries -> Labels] /\ got' \in [Deliveries -> Payloads \cup {None}]
  BY DEF Payload, TypeOK, Labels
<1>2. cache' \in [Msgs -> (Payloads \ Cards) \cup {None}]
  BY DEF Payload, Store, TypeOK
<1> QED
  BY <1>1, <1>2

\* Withdrawing an ask keeps the type of the pending maps.
LEMMA WithdrawType ==
  ASSUME TypeOK, NEW d \in Deliveries, Withdraw(d)
  PROVE  pending' \in [Workers -> [Fans -> Deliveries \cup {None}]]
<1>1. CASE at[d] = None
  BY <1>1 DEF Withdraw, TypeOK
<1>2. CASE at[d] # None
  BY <1>2 DEF Withdraw, TypeOK
<1> QED
  BY <1>1, <1>2

\* Steps of WeChat and of the handlers keep the types.
LEMMA HandlerType ==
  ASSUME TypeOK, NEW d \in Deliveries,
         Deliver(d) \/ GiveUp(d) \/ HandlerStep(d) \/ Disconnect(d)
  PROVE  TypeOK'
<1>1. CASE Deliver(d)
  <2>1. pc' \in [Deliveries -> Labels]
    BY <1>1 DEF Deliver, TypeOK, Labels
  <2> QED
    BY <1>1, <2>1, LineType DEF Deliver, TypeOK, workerVars, Labels
<1>2. CASE GiveUp(d)
  BY <1>2 DEF GiveUp, TypeOK, lockVars, workerVars
<1>3. CASE Lookup(d)
  <2>1. pc' \in [Deliveries -> Labels] /\ got' \in [Deliveries -> Payloads \cup {None}]
    BY <1>3, DeliveryFacts DEF Lookup, TypeOK, Labels
  <2> QED
    BY <1>3, <2>1 DEF Lookup, TypeOK, lockVars, workerVars, Labels
<1>4. CASE RouteLocally(d) \/ CheckoutFails(d) \/ Answered(d)
  <2>1. \E p \in Payloads : Payload(d, p)
    BY <1>4, PayloadFacts DEF RouteLocally, CheckoutFails, Answered, TypeOK
  <2>2. UNCHANGED <<lockVars, closed, at, pending, workerVars>>
    BY <1>4 DEF RouteLocally, CheckoutFails, Answered
  <2> QED
    BY <2>1, <2>2, PayloadType DEF TypeOK, lockVars, workerVars, Labels
<1>5. CASE TimeOut(d)
  <2>1. Payload(d, Canned) /\ Canned \in Payloads /\ Withdraw(d)
    BY <1>5, PayloadFacts DEF TimeOut
  <2> QED
    BY <1>5, <2>1, PayloadType, WithdrawType
    DEF TimeOut, TypeOK, lockVars, workerVars, Labels
<1>6. CASE Ask(d)
  <2>1. PICK w \in Workers :
          /\ at' = [at EXCEPT ![d] = w]
          /\ pending' = [pending EXCEPT ![w][Fan(d)] = d]
          /\ queue' = [queue EXCEPT ![w] = Append(@, d)]
    BY <1>6 DEF Ask
  <2>2. at' \in [Deliveries -> Workers \cup {None}] /\ pc' \in [Deliveries -> Labels]
    BY <1>6, <2>1 DEF Ask, TypeOK, Labels
  <2>3. pending' \in [Workers -> [Fans -> Deliveries \cup {None}]]
    BY <2>1 DEF TypeOK
  <2>4. queue' \in [Workers -> Seq(Deliveries)]
    <3>1. Append(queue[w], d) \in Seq(Deliveries)
      <4>1. queue[w] \in Seq(Deliveries)
        BY DEF TypeOK
      <4> QED
        BY <4>1, QueueAppend
    <3> QED
      BY <2>1, <3>1 DEF TypeOK
  <2> QED
    BY <1>6, <2>2, <2>3, <2>4 DEF Ask, TypeOK, lockVars, Labels
<1>7. CASE Respond(d)
  <2>1. pc' \in [Deliveries -> Labels]
    BY <1>7 DEF Respond, TypeOK, Labels
  <2> QED
    BY <1>7, <2>1, LineType DEF Respond, TypeOK, workerVars, Labels
<1>8. CASE Disconnect(d)
  <2>1. pc' \in [Deliveries -> Labels]
    BY <1>8 DEF Disconnect, TypeOK, Labels
  <2> QED
    BY <1>8, <2>1, LineType, WithdrawType DEF Disconnect, TypeOK, workerVars, Labels
<1> QED
  BY <1>1, <1>2, <1>3, <1>4, <1>5, <1>6, <1>7, <1>8 DEF HandlerStep

\* A child at work has something to work on.
Busy == \A w \in Workers : step[w] # "idle" => queue[w] # <<>>

\* Steps of the children keep the types.
LEMMA ChildType ==
  ASSUME TypeOK, Busy, NEW w \in Workers, Load(w) \/ Save(w) \/ Reply(w) \/ Crash(w)
  PROVE  TypeOK' /\ Busy'
<1>1. queue[w] # <<>> /\ queue[w] \in Seq(Deliveries)
  BY DEF Busy, TypeOK, Load, Save, Reply, Crash
<1>2. Current(w) \in Deliveries /\ Tail(queue[w]) \in Seq(Deliveries)
  BY <1>1, QueueTail DEF Current
<1>3. Fan(Current(w)) \in Fans
  BY <1>2, DeliveryFacts
<1>4. queue' \in [Workers -> Seq(Deliveries)]
  <2>1. UNCHANGED queue \/ Finish(w) \/ queue' = [queue EXCEPT ![w] = <<>>]
    BY DEF Load, Save, Reply, Crash
  <2>2. <<>> \in Seq(Deliveries) /\ queue \in [Workers -> Seq(Deliveries)]
    BY DEF TypeOK
  <2>3. CASE Finish(w)
    BY <1>2, <2>2, <2>3 DEF Finish
  <2> QED
    BY <2>1, <2>2, <2>3
<1>5. step' \in [Workers -> {"idle", "loaded", "saved", "replied"}]
  BY DEF Load, Save, Reply, Crash, TypeOK
<1>6. snap' \in [Workers -> SUBSET Deliveries]
  BY <1>3 DEF Load, Save, Reply, Crash, TypeOK
<1>7. session' \in [Fans -> SUBSET Deliveries]
  <2>1. snap[w] \cup {Current(w)} \in SUBSET Deliveries
    BY <1>2 DEF TypeOK
  <2> QED
    BY <2>1 DEF Load, Save, Reply, Crash, TypeOK
<1>8. got' \in [Deliveries -> Payloads \cup {None}]
  <2>1. CASE Reply(w)
    BY <2>1, <1>2, PayloadFacts DEF Reply, TypeOK
  <2>2. CASE Crash(w)
    BY <2>2, PayloadFacts DEF Crash, TypeOK
  <2>3. CASE UNCHANGED got
    BY <2>3 DEF TypeOK
  <2> QED
    BY <2>1, <2>2, <2>3 DEF Load, Save
<1>9. pending' \in [Workers -> [Fans -> Deliveries \cup {None}]]
  <2>1. CASE Reply(w)
    BY <2>1 DEF Reply, TypeOK
  <2>2. CASE Crash(w)
    BY <2>2 DEF Crash, TypeOK
  <2>3. CASE UNCHANGED pending
    BY <2>3 DEF TypeOK
  <2> QED
    BY <2>1, <2>2, <2>3 DEF Load, Save
<1>10. UNCHANGED <<wants, ahead, pc, closed, cache, at, saveFirst>>
  BY DEF Load, Save, Reply, Crash, lockVars
<1>11. TypeOK'
  BY <1>4, <1>5, <1>6, <1>7, <1>8, <1>9, <1>10 DEF TypeOK
<1>12. Busy'
  <2>1. /\ \A v \in Workers : v # w => queue'[v] = queue[v] /\ step'[v] = step[v]
        /\ step'[w] = "idle" \/ queue'[w] = queue[w]
    BY DEF Load, Save, Reply, Crash, Finish, TypeOK
  <2> QED
    BY <1>1, <2>1 DEF Busy
<1> QED
  BY <1>11, <1>12

\* Handlers leave no child at work without its message.
LEMMA HandlerBusy ==
  ASSUME TypeOK, Busy, NEW d \in Deliveries,
         Deliver(d) \/ GiveUp(d) \/ HandlerStep(d) \/ Disconnect(d)
  PROVE  Busy'
<1>1. CASE Ask(d)
  <2>1. PICK w \in Workers : queue' = [queue EXCEPT ![w] = Append(@, d)]
    BY <1>1 DEF Ask
  <2>2. Append(queue[w], d) # <<>>
    <3>1. queue[w] \in Seq(Deliveries)
      BY DEF TypeOK
    <3> QED
      BY <3>1, QueueAppend
  <2>3. \A v \in Workers : queue[v] # <<>> => queue'[v] # <<>>
    BY <2>1, <2>2 DEF TypeOK
  <2> QED
    BY <1>1, <2>3 DEF Ask, Busy
<1>2. CASE UNCHANGED workerVars
  BY <1>2 DEF Busy, workerVars
<1> QED
  BY <1>1, <1>2 DEF Deliver, GiveUp, HandlerStep, Lookup, RouteLocally,
                    CheckoutFails, Answered, TimeOut, Respond, Disconnect

\* Types are inductive.
LEMMA NextType == TypeOK /\ Busy /\ [Next]_vars => TypeOK' /\ Busy'
<1> SUFFICES ASSUME TypeOK, Busy, [Next]_vars PROVE TypeOK' /\ Busy'
  OBVIOUS
<1>1. CASE UNCHANGED vars
  BY <1>1 DEF TypeOK, Busy, vars, lockVars, workerVars
<1> QED
  BY <1>1, HandlerType, HandlerBusy, ChildType DEF Next

\* A fresh server is well typed.
LEMMA InitType == Init => TypeOK /\ Busy
<1> SUFFICES ASSUME Init PROVE TypeOK /\ Busy
  OBVIOUS
<1>1. wants \in [Deliveries -> Fans \cup {NoFan}] /\ ahead \in [Deliveries -> SUBSET Deliveries]
  BY DEF Init, Lock!Init
<1>2. queue \in [Workers -> Seq(Deliveries)]
  BY DEF Init
<1> QED
  BY <1>1, <1>2 DEF Init, TypeOK, Busy

-----------------------------------------------------------------------------
(* The conversation lock: the line of a fan is a strict total order, and   *)
(* only its first handler is past the lock.                                *)

\* The handler is past the lock.
Past(d) == pc[d] \in {"routing", "asking", "answered"}

\* A running handler is in the line of its own conversation.
InOwnLine == \A d \in Deliveries : wants[d] = IF Running(d) THEN Fan(d) ELSE NoFan

LineOrder ==
  \A d, e \in Deliveries : e \in ahead[d] =>
    Running(d) /\ Running(e) /\ Fan(e) = Fan(d) /\ d \notin ahead[e]

LineTotal ==
  \A d, e \in Deliveries : Running(d) /\ Running(e) /\ Fan(d) = Fan(e) /\ d # e =>
    e \in ahead[d] \/ d \in ahead[e]

PastOwns == \A d \in Deliveries : Past(d) => ahead[d] = {}

LockInv == InOwnLine /\ LineOrder /\ LineTotal /\ PastOwns


\* One handler of a conversation is past the lock.
LEMMA OnePast ==
  ASSUME LockInv, NEW d \in Deliveries, NEW e \in Deliveries,
         Past(d), Past(e), Fan(d) = Fan(e)
  PROVE  d = e
<1>1. Running(d) /\ Running(e) /\ ahead[d] = {} /\ ahead[e] = {}
  BY DEF Past, Running, LockInv, PastOwns
<1> QED
  BY <1>1 DEF LockInv, LineTotal

\* A handler that moves on, with the lock if it is past it, keeps the line.
LEMMA LockStays ==
  ASSUME LockInv, UNCHANGED <<wants, ahead>>,
         \A d \in Deliveries : Running(d)' <=> Running(d),
         \A d \in Deliveries : Past(d)' => Past(d) \/ ahead[d] = {}
  PROVE  LockInv'
<1>1. InOwnLine' /\ LineOrder'
  BY DEF LockInv, InOwnLine, LineOrder
<1>2. LineTotal' /\ PastOwns'
  BY DEF LockInv, LineTotal, PastOwns
<1> QED
  BY <1>1, <1>2 DEF LockInv

\* A handler that is dropped or done leaves the line in order.
LEMMA LockLeft ==
  ASSUME TypeOK, LockInv, NEW d \in Deliveries, Lock!Leave(d),
         NEW l \in {"done", "dropped"}, pc' = [pc EXCEPT ![d] = l]
  PROVE  LockInv'
<1>1. /\ wants'[d] = NoFan /\ ahead'[d] = {} /\ pc'[d] = l
      /\ \A e \in Deliveries : e # d =>
           wants'[e] = wants[e] /\ ahead'[e] = ahead[e] \ {d} /\ pc'[e] = pc[e]
  BY DEF Lock!Leave, TypeOK
<1>2. /\ ~Running(d)' /\ ~Past(d)'
      /\ \A e \in Deliveries : e # d => /\ Running(e)' <=> Running(e)
                                        /\ Past(e)' <=> Past(e)
  BY <1>1 DEF Running, Past
<1>3. InOwnLine'
  BY <1>1, <1>2 DEF LockInv, InOwnLine
<1>4. LineOrder'
  BY <1>1, <1>2 DEF LockInv, LineOrder
<1>5. LineTotal' /\ PastOwns'
  BY <1>1, <1>2 DEF LockInv, LineTotal, PastOwns
<1> QED
  BY <1>3, <1>4, <1>5 DEF LockInv

\* A delivery joins the end of its fan's line.
LEMMA LockJoined ==
  ASSUME TypeOK, LockInv, NEW d \in Deliveries, Deliver(d)
  PROVE  LockInv'
<1>1. /\ pc[d] = "unsent" /\ pc'[d] = "waiting"
      /\ wants'[d] = Fan(d) /\ ahead'[d] = {e \in Deliveries : wants[e] = Fan(d)}
      /\ \A e \in Deliveries : e # d =>
           wants'[e] = wants[e] /\ ahead'[e] = ahead[e] /\ pc'[e] = pc[e]
  BY DEF Deliver, Lock!Enter, TypeOK
<1>2. /\ ~Running(d) /\ Running(d)' /\ ~Past(d)'
      /\ \A e \in Deliveries : e # d => /\ Running(e)' <=> Running(e)
                                        /\ Past(e)' <=> Past(e)
  BY <1>1 DEF Running, Past
<1>3. \A e \in Deliveries : e \in ahead'[d] <=> Running(e) /\ Fan(e) = Fan(d)
  BY <1>1, DeliveryFacts DEF LockInv, InOwnLine
<1>4. InOwnLine'
  BY <1>1, <1>2 DEF LockInv, InOwnLine
<1>5. LineOrder'
  BY <1>1, <1>2, <1>3 DEF LockInv, LineOrder, TypeOK
<1>6. LineTotal' /\ PastOwns'
  BY <1>1, <1>2, <1>3 DEF LockInv, LineTotal, PastOwns
<1> QED
  BY <1>4, <1>5, <1>6 DEF LockInv

\* How far a step of a running handler takes it.
LEMMA HandlerMoves ==
  ASSUME TypeOK, NEW d \in Deliveries,
         Lookup(d) \/ RouteLocally(d) \/ Ask(d) \/ CheckoutFails(d) \/ Answered(d)
         \/ TimeOut(d)
  PROVE  /\ UNCHANGED <<wants, ahead, closed>>
         /\ pc[d] = "waiting" => Lookup(d) /\ ahead[d] = {}
         /\ pc[d] \in {"waiting", "routing", "asking"}
         /\ pc'[d] \in {"routing", "asking", "answered"}
         /\ \A e \in Deliveries : e # d =>
              pc'[e] = pc[e] /\ got'[e] = got[e] /\ at'[e] = at[e]
<1>1. CASE Lookup(d)
  BY <1>1 DEF Lookup, TypeOK, lockVars, Lock!Owns
<1>2. CASE Ask(d)
  BY <1>2 DEF Ask, TypeOK, lockVars
<1>3. CASE RouteLocally(d) \/ CheckoutFails(d) \/ Answered(d) \/ TimeOut(d)
  BY <1>3 DEF RouteLocally, CheckoutFails, Answered, TimeOut, Payload, TypeOK, lockVars
<1> QED
  BY <1>1, <1>2, <1>3

\* The lock's invariant is inductive.
LEMMA NextLock == TypeOK /\ LockInv /\ [Next]_vars => LockInv'
<1> SUFFICES ASSUME TypeOK, LockInv, [Next]_vars PROVE LockInv'
  OBVIOUS
<1>1. ASSUME NEW d \in Deliveries, HandlerStep(d), ~Respond(d) PROVE LockInv'
  <2>1. /\ UNCHANGED <<wants, ahead>>
        /\ \A e \in Deliveries : Running(e)' <=> Running(e)
        /\ \A e \in Deliveries : Past(e)' => Past(e) \/ ahead[e] = {}
    BY <1>1, HandlerMoves DEF HandlerStep, Running, Past
  <2> QED
    BY <2>1, LockStays
<1>2. ASSUME NEW d \in Deliveries, Respond(d) \/ Disconnect(d) PROVE LockInv'
  BY <1>2, LockLeft DEF Respond, Disconnect
<1>3. ASSUME NEW d \in Deliveries, Deliver(d) PROVE LockInv'
  BY <1>3, LockJoined
<1>4. CASE \/ \E d \in Deliveries : GiveUp(d)
           \/ \E w \in Workers : Load(w) \/ Save(w) \/ Reply(w) \/ Crash(w)
           \/ UNCHANGED vars
  <2>1. UNCHANGED <<wants, ahead, pc>>
    BY <1>4 DEF GiveUp, Load, Save, Reply, Crash, vars, lockVars
  <2> QED
    BY <2>1, LockStays DEF Running, Past
<1> QED
  BY <1>1, <1>2, <1>3, <1>4 DEF Next

-----------------------------------------------------------------------------
(* Asks, the pending maps and the reply cache. *)

\* What an ask has, by how far its handler is.
AskState ==
  \A d \in Deliveries :
    /\ pc[d] \in {"unsent", "waiting", "routing"} => at[d] = None /\ got[d] = None
    /\ pc[d] = "asking" => at[d] # None
    /\ at[d] # None => got[d] \in Deliveries \cup {Canned, None}
    /\ pc[d] \in {"answered", "done"} => got[d] # None

\* Who is pending for a conversation is asking, and has no answer yet.
PendingAsks ==
  \A w \in Workers, f \in Fans : \A d \in Deliveries : pending[w][f] = d =>
    pc[d] = "asking" /\ at[d] = w /\ Fan(d) = f /\ got[d] = None

\* A message whose handler still looks for a reply has none in the cache, and
\* one whose handler has found a text has that text.
CacheState ==
  \A d \in Deliveries : Msg(d) \in WithId =>
    /\ pc[d] \in {"routing", "asking"} => cache[Msg(d)] = None
    /\ pc[d] \in {"answered", "done"} /\ got[d] \notin Cards => cache[Msg(d)] = got[d]

AskInv == AskState /\ PendingAsks /\ CacheState /\ OneCallUnlessDropped

\* A step that drops handlers or none, and leaves what AskInv speaks of,
\* keeps it.
LEMMA AskStays ==
  ASSUME AskInv, UNCHANGED <<pc, got, cache, at, pending>>
  PROVE  AskInv'
  BY DEF AskInv, AskState, PendingAsks, CacheState, OneCallUnlessDropped, Asked

\* Where no ask begins and no handler is picked up again, OneCallUnlessDropped
\* stays.
LEMMA OneCallStays ==
  ASSUME OneCallUnlessDropped, UNCHANGED at,
         \A d \in Deliveries : pc[d] = "dropped" => pc'[d] = "dropped"
  PROVE  OneCallUnlessDropped'
  BY DEF OneCallUnlessDropped, Asked

\* A delivery that begins, and one that is over, asks nothing.
LEMMA EndsAsk ==
  ASSUME TypeOK, AskInv, NEW d \in Deliveries, Deliver(d) \/ Respond(d) \/ Disconnect(d)
  PROVE  AskInv'
<1> USE PayloadFacts
<1>1. CASE Deliver(d) \/ Respond(d)
  <2>1. /\ \/ pc[d] = "unsent" /\ pc'[d] = "waiting"
           \/ pc[d] = "answered" /\ pc'[d] = "done"
        /\ \A e \in Deliveries : e # d => pc'[e] = pc[e]
        /\ UNCHANGED <<got, cache, at, pending>>
    BY <1>1 DEF Deliver, Respond, TypeOK
  <2>2. AskState'
    BY <2>1 DEF AskInv, AskState
  <2>3. PendingAsks'
    BY <2>1 DEF AskInv, PendingAsks
  <2>4. CacheState'
    BY <2>1 DEF AskInv, CacheState
  <2>5. OneCallUnlessDropped'
    BY <2>1, OneCallStays DEF AskInv
  <2> QED
    BY <2>2, <2>3, <2>4, <2>5 DEF AskInv
<1>2. CASE Disconnect(d)
  <2>1. /\ pc[d] \in {"waiting", "routing", "asking"} /\ pc'[d] = "dropped"
        /\ \A e \in Deliveries : e # d => pc'[e] = pc[e]
        /\ UNCHANGED <<got, cache, at>> /\ Withdraw(d)
    BY <1>2 DEF Disconnect, TypeOK
  <2>2. AskState'
    BY <2>1 DEF AskInv, AskState
  <2>3. PendingAsks'
    <3> SUFFICES ASSUME NEW w \in Workers, NEW f \in Fans, NEW e \in Deliveries,
                        pending'[w][f] = e
                 PROVE  pc'[e] = "asking" /\ at[e] = w /\ Fan(e) = f /\ got[e] = None
      BY <2>1 DEF PendingAsks
    <3>1. pending[w][f] = e
      BY <2>1 DEF Withdraw, TypeOK
    <3>2. pc[e] = "asking" /\ at[e] = w /\ Fan(e) = f /\ got[e] = None
      BY <3>1 DEF AskInv, PendingAsks
    <3>3. e # d
      <4> SUFFICES ASSUME e = d PROVE FALSE
        OBVIOUS
      <4>1. pending'[w][f] = None
        BY <2>1, <3>2 DEF Withdraw, TypeOK
      <4> QED
        BY <4>1
    <3> QED
      BY <3>2, <3>3, <2>1
  <2>4. CacheState'
    BY <2>1 DEF AskInv, CacheState
  <2>5. OneCallUnlessDropped'
    BY <2>1, OneCallStays DEF AskInv
  <2> QED
    BY <2>2, <2>3, <2>4, <2>5 DEF AskInv
<1> QED
  BY <1>1, <1>2

\* Looking the message up in the cache keeps AskInv.
LEMMA LookupAsk ==
  ASSUME TypeOK, AskInv, NEW d \in Deliveries, Lookup(d)
  PROVE  AskInv'
<1> USE PayloadFacts
<1> DEFINE hit == Msg(d) \in WithId /\ cache[Msg(d)] # None
<1>1. /\ pc[d] = "waiting" /\ pc'[d] = IF hit THEN "answered" ELSE "routing"
      /\ got'[d] = IF hit THEN cache[Msg(d)] ELSE got[d]
      /\ \A e \in Deliveries : e # d => pc'[e] = pc[e] /\ got'[e] = got[e]
      /\ UNCHANGED <<cache, at, pending>>
  BY DEF Lookup, TypeOK
<1>2. AskState'
  BY <1>1 DEF AskInv, AskState
<1>3. PendingAsks'
  BY <1>1 DEF AskInv, PendingAsks
<1>4. CacheState'
  BY <1>1 DEF AskInv, CacheState
<1>5. OneCallUnlessDropped'
  BY <1>1, OneCallStays DEF AskInv
<1> QED
  BY <1>2, <1>3, <1>4, <1>5 DEF AskInv

\* What the handler makes of the message it has at hand.
LEMMA PayloadKinds ==
  ASSUME TypeOK, AskInv, NEW d \in Deliveries,
         RouteLocally(d) \/ CheckoutFails(d) \/ Answered(d) \/ TimeOut(d)
  PROVE  \E p \in Payloads :
           Payload(d, p) /\ (at[d] # None => p \in Deliveries \cup {Canned})
<1> USE PayloadFacts
<1>1. CASE RouteLocally(d)
  <2>1. \E p \in Texts \cup Cards : Payload(d, p)
    BY <1>1 DEF RouteLocally
  <2>2. at[d] = None
    BY <1>1 DEF RouteLocally, AskInv, AskState
  <2> QED
    BY <2>1, <2>2
<1>2. CASE CheckoutFails(d) \/ TimeOut(d)
  BY <1>2 DEF CheckoutFails, TimeOut
<1>3. CASE Answered(d)
  <2>1. Payload(d, got[d]) /\ got[d] \in Deliveries \cup {Canned}
    BY <1>3 DEF Answered, AskInv, AskState
  <2> QED
    BY <2>1
<1> QED
  BY <1>1, <1>2, <1>3

\* A payload becomes the cached reply of its message before anybody else can
\* look for one.
LEMMA PayloadAsk ==
  ASSUME TypeOK, LockInv, AskInv, NEW d \in Deliveries,
         RouteLocally(d) \/ CheckoutFails(d) \/ Answered(d) \/ TimeOut(d)
  PROVE  AskInv'
<1> USE PayloadFacts
<1>1. PICK p \in Payloads :
        Payload(d, p) /\ (at[d] # None => p \in Deliveries \cup {Canned})
  BY PayloadKinds
<1>2. /\ pc[d] \in {"routing", "asking"} /\ pc'[d] = "answered" /\ got'[d] = p
      /\ \A e \in Deliveries : e # d => pc'[e] = pc[e] /\ got'[e] = got[e]
      /\ at' = at
  BY <1>1 DEF RouteLocally, CheckoutFails, Answered, TimeOut, Payload, TypeOK
<1>3. /\ \A m \in Msgs : m # Msg(d) => cache'[m] = cache[m]
      /\ Msg(d) \in WithId => cache'[Msg(d)] = IF p \in Cards THEN cache[Msg(d)] ELSE p
      /\ Msg(d) \notin WithId => cache' = cache
  BY <1>1, DeliveryFacts DEF Payload, Store, TypeOK
<1>4. AskState'
  BY <1>1, <1>2 DEF AskInv, AskState
<1>5. PendingAsks'
  <2> SUFFICES ASSUME NEW w \in Workers, NEW f \in Fans, NEW e \in Deliveries,
                      pending'[w][f] = e
               PROVE  e # d /\ pc[e] = "asking" /\ at[e] = w /\ Fan(e) = f /\ got[e] = None
    BY <1>2 DEF PendingAsks
  <2>1. pending[w][f] = e
    <3>1. CASE TimeOut(d)
      BY <3>1 DEF TimeOut, Withdraw, TypeOK
    <3>2. CASE ~TimeOut(d)
      BY <3>2 DEF RouteLocally, CheckoutFails, Answered
    <3> QED
      BY <3>1, <3>2
  <2>2. pc[e] = "asking" /\ at[e] = w /\ Fan(e) = f /\ got[e] = None
    BY <2>1 DEF AskInv, PendingAsks
  <2>3. e # d
    <3>1. CASE TimeOut(d)
      <4> SUFFICES ASSUME e = d PROVE FALSE
        OBVIOUS
      <4>1. pending'[w][f] = None
        BY <3>1, <2>2 DEF TimeOut, Withdraw, TypeOK
      <4> QED
        BY <4>1
    <3>2. CASE ~TimeOut(d)
      BY <2>2, <3>2 DEF RouteLocally, CheckoutFails, Answered
    <3> QED
      BY <3>1, <3>2
  <2> QED
    BY <2>2, <2>3
<1>6. CacheState'
  <2> SUFFICES ASSUME NEW e \in Deliveries, Msg(e) \in WithId
               PROVE  (/\ pc[e] \in {"routing", "asking"} => cache[Msg(e)] = None
                       /\ pc[e] \in {"answered", "done"} /\ got[e] \notin Cards =>
                            cache[Msg(e)] = got[e])'
    BY DEF CacheState
  <2>1. CASE Msg(e) # Msg(d)
    BY <2>1, <1>2, <1>3, DeliveryFacts DEF AskInv, CacheState
  <2>2. CASE e = d
    BY <2>2, <1>1, <1>2, <1>3 DEF AskInv, CacheState
  <2>3. CASE Msg(e) = Msg(d) /\ e # d
    <3>1. cache[Msg(d)] = None
      BY <2>3, <1>2 DEF AskInv, CacheState
    <3>2. pc[e] \notin {"routing", "asking"}
      BY <2>3, <1>2, OnePast, DeliveryFacts DEF Past
    <3>3. got[e] \notin Cards => pc[e] \notin {"answered", "done"}
      BY <2>3, <3>1 DEF AskInv, CacheState, AskState
    <3> QED
      BY <2>3, <3>1, <3>2, <3>3, <1>1, <1>2, <1>3 DEF AskInv, CacheState
  <2> QED
    BY <2>1, <2>2, <2>3
<1>7. OneCallUnlessDropped'
  BY <1>2, OneCallStays DEF AskInv
<1> QED
  BY <1>4, <1>5, <1>6, <1>7 DEF AskInv

\* A message is asked only by the first of its handlers that was not dropped.
LEMMA AskAsk ==
  ASSUME TypeOK, LockInv, AskInv, NEW d \in Deliveries, Ask(d)
  PROVE  AskInv'
<1> USE PayloadFacts
<1>1. PICK w \in Workers :
        at' = [at EXCEPT ![d] = w] /\ pending' = [pending EXCEPT ![w][Fan(d)] = d]
  BY DEF Ask
<1>2. /\ pc[d] = "routing" /\ pc'[d] = "asking" /\ at'[d] = w
      /\ got[d] = None /\ UNCHANGED <<got, cache>>
      /\ \A e \in Deliveries : e # d => pc'[e] = pc[e] /\ at'[e] = at[e]
  BY <1>1 DEF Ask, TypeOK, AskInv, AskState
<1>3. AskState'
  BY <1>2 DEF AskInv, AskState
<1>4. PendingAsks'
  <2> SUFFICES ASSUME NEW v \in Workers, NEW f \in Fans, NEW e \in Deliveries,
                      pending'[v][f] = e
               PROVE  pc'[e] = "asking" /\ at'[e] = v /\ Fan(e) = f /\ got[e] = None
    BY <1>2 DEF PendingAsks
  <2>1. CASE v = w /\ f = Fan(d)
    BY <2>1, <1>1, <1>2 DEF TypeOK
  <2>2. CASE ~(v = w /\ f = Fan(d))
    <3>1. pending[v][f] = e
      BY <2>2, <1>1 DEF TypeOK
    <3> QED
      BY <3>1, <1>2 DEF AskInv, PendingAsks
  <2> QED
    BY <2>1, <2>2
<1>5. CacheState'
  BY <1>2 DEF AskInv, CacheState
<1>6. OneCallUnlessDropped'
  <2>1. ASSUME NEW e \in Deliveries, e # d, Msg(e) = Msg(d), Msg(d) \in WithId,
               at[e] # None
        PROVE  pc[e] = "dropped"
    <3>1. cache[Msg(d)] = None
      BY <2>1, <1>2 DEF AskInv, CacheState
    <3>2. pc[e] # "asking"
      BY <2>1, <1>2, OnePast, DeliveryFacts DEF Past
    <3>3. pc[e] \notin {"answered", "done"}
      BY <2>1, <3>1, <1>2 DEF AskInv, CacheState, AskState
    <3>4. pc[e] \notin {"unsent", "waiting", "routing"}
      BY <2>1 DEF AskInv, AskState
    <3> QED
      BY <3>2, <3>3, <3>4 DEF TypeOK
  <2> QED
    BY <2>1, <1>2 DEF AskInv, OneCallUnlessDropped, Asked
<1> QED
  BY <1>3, <1>4, <1>5, <1>6 DEF AskInv

\* A child's reply or exit answers only those that are pending.
LEMMA ChildAsk ==
  ASSUME TypeOK, Busy, AskInv, NEW w \in Workers, Reply(w) \/ Crash(w)
  PROVE  AskInv'
<1> USE PayloadFacts
<1>1. UNCHANGED <<pc, cache, at>>
  BY DEF Reply, Crash
<1>2. Reply(w) => Current(w) \in Deliveries /\ Fan(Current(w)) \in Fans
  <2> SUFFICES ASSUME Reply(w) PROVE Current(w) \in Deliveries
    BY DeliveryFacts
  <2>1. queue[w] # <<>> /\ queue[w] \in Seq(Deliveries)
    BY DEF Busy, TypeOK, Reply
  <2> QED
    BY <2>1, QueueTail DEF Current
<1>3. \A d \in Deliveries :
        \/ got'[d] = got[d]
        \/ got'[d] \in Deliveries \cup {Canned} /\ \E f \in Fans : pending[w][f] = d
  BY <1>2 DEF Reply, Crash, TypeOK
<1>4. \A v \in Workers, f \in Fans : \A d \in Deliveries : pending'[v][f] = d =>
        /\ pending[v][f] = d
        /\ \A g \in Fans : pending[w][g] = d => got'[d] = got[d]
  <2> SUFFICES ASSUME NEW v \in Workers, NEW f \in Fans, NEW d \in Deliveries,
                      pending'[v][f] = d
               PROVE  /\ pending[v][f] = d
                      /\ \A g \in Fans : pending[w][g] = d => got'[d] = got[d]
    OBVIOUS
  <2>1. pending[v][f] = d
    <3>1. CASE Reply(w)
      BY <1>2, <3>1 DEF Reply, TypeOK
    <3>2. CASE Crash(w)
      BY <3>2 DEF Crash, TypeOK
    <3> QED
      BY <3>1, <3>2
  <2>2. ASSUME NEW g \in Fans, got'[d] # got[d], pending[w][g] = d PROVE FALSE
    <3>1. v = w /\ f = g
      BY <2>1, <2>2 DEF AskInv, PendingAsks
    <3>2. CASE Crash(w)
      BY <3>1, <3>2 DEF Crash, TypeOK
    <3>3. CASE Reply(w)
      <4>1. pending[w][Fan(Current(w))] = d
        BY <2>2, <3>3 DEF Reply, TypeOK
      <4>2. f = Fan(Current(w))
        BY <4>1, <3>1, <1>2, <3>3, <2>1 DEF AskInv, PendingAsks
      <4> QED
        BY <4>2, <3>1, <3>3, <1>2 DEF Reply, TypeOK
    <3> QED
      BY <3>2, <3>3
  <2> QED
    BY <2>1, <2>2
<1>5. \A d \in Deliveries : (\E f \in Fans : pending[w][f] = d) =>
        pc[d] = "asking" /\ at[d] # None
  <2>1. \A d \in Deliveries : (\E f \in Fans : pending[w][f] = d) =>
          pc[d] = "asking" /\ at[d] = w
    BY DEF AskInv, PendingAsks
  <2>2. w # None
    OBVIOUS
  <2> QED
    BY <2>1, <2>2
<1>6. AskState'
  BY <1>1, <1>3, <1>5 DEF AskInv, AskState
<1>7. PendingAsks'
  BY <1>1, <1>3, <1>4 DEF AskInv, PendingAsks
<1>8. CacheState'
  BY <1>1, <1>3, <1>5 DEF AskInv, CacheState
<1>9. OneCallUnlessDropped'
  BY <1>1, OneCallStays DEF AskInv
<1> QED
  BY <1>6, <1>7, <1>8, <1>9 DEF AskInv

\* AskInv is inductive.
LEMMA NextAsk ==
  TypeOK /\ Busy /\ LockInv /\ AskInv /\ [Next]_vars => AskInv'
<1> SUFFICES ASSUME TypeOK, Busy, LockInv, AskInv, [Next]_vars PROVE AskInv'
  OBVIOUS
<1>1. ASSUME NEW d \in Deliveries, Deliver(d) \/ HandlerStep(d) \/ Disconnect(d)
      PROVE  AskInv'
  BY <1>1, EndsAsk, LookupAsk, PayloadAsk, AskAsk DEF HandlerStep
<1>2. ASSUME NEW w \in Workers, Reply(w) \/ Crash(w) PROVE AskInv'
  BY <1>2, ChildAsk
<1>3. CASE \/ \E d \in Deliveries : GiveUp(d)
           \/ \E w \in Workers : Load(w) \/ Save(w)
           \/ UNCHANGED vars
  BY <1>3, AskStays DEF GiveUp, Load, Save, vars
<1> QED
  BY <1>1, <1>2, <1>3 DEF Next

-----------------------------------------------------------------------------
(* Replies that come late.  A child's reply reaches an ask that it was not *)
(* made for only if the handler that sent the message is over (OnePast);   *)
(* and one that is over without its own reply timed out, was dropped, or   *)
(* was itself given an older reply.                                        *)

\* What a child has been sent.
QueueState ==
  \A w \in Workers :
    /\ \A i \in 1..Len(queue[w]) : at[queue[w][i]] = w
    /\ \A i, j \in 1..Len(queue[w]) : queue[w][i] = queue[w][j] => i = j

\* Nobody has its own reply before its child replies.
Unreplied ==
  \A w \in Workers : \A i \in 1..Len(queue[w]) :
    i > 1 \/ step[w] # "replied" => got[queue[w][i]] # queue[w][i]

QueueInv == QueueState /\ Unreplied

Over(d) == pc[d] \in {"done", "dropped"}

\* An ask that has the reply of another one, and a message whose cached reply
\* is not its own, are explained by a late reply.
StaleAsks ==
  \A d \in Deliveries : at[d] # None /\ got[d] \in Deliveries \ {d} =>
    Over(got[d]) /\ CutShort(Fan(d))

StaleCache ==
  \A m \in Msgs : cache[m] \in Deliveries /\ Msg(cache[m]) # m =>
    Over(cache[m]) /\ CutShort(FanOf[m])

LateInv == StaleAsks /\ StaleCache /\ MisfitIsLate

\* What a child works on is the first of its queue.
LEMMA AtWork ==
  ASSUME TypeOK, Busy, NEW w \in Workers, Load(w) \/ Save(w) \/ Reply(w)
  PROVE  /\ queue[w] \in Seq(Deliveries) /\ queue[w] # <<>>
         /\ Current(w) \in Deliveries /\ Fan(Current(w)) \in Fans
         /\ 1 \in 1..Len(queue[w]) /\ Current(w) = queue[w][1]
<1>1. queue[w] # <<>> /\ queue[w] \in Seq(Deliveries)
  BY DEF Busy, TypeOK, Load, Save, Reply
<1>2. /\ Current(w) \in Deliveries /\ Current(w) = queue[w][1]
      /\ Len(queue[w]) \in Nat /\ Len(queue[w]) >= 1
  BY <1>1, QueueTail DEF Current
<1> QED
  BY <1>1, <1>2, DeliveryFacts

\* Every way in which a payload or an answer comes to a handler.
LEMMA GotChanges ==
  ASSUME TypeOK, Busy, AskInv, [Next]_vars, NEW d \in Deliveries
  PROVE  \/ got'[d] = got[d]
         \/ got'[d] \in {Canned} \cup Texts \cup Cards
         \/ /\ Lookup(d) /\ Msg(d) \in WithId
            /\ got'[d] = cache[Msg(d)]
         \/ \E w \in Workers : /\ Reply(w) /\ pending[w][Fan(Current(w))] = d
                               /\ got'[d] = Current(w)
<1>1. CASE UNCHANGED got
  BY <1>1
<1>2. ASSUME NEW e \in Deliveries, HandlerStep(e), ~UNCHANGED got
      PROVE  \/ got'[d] = got[d]
             \/ got'[d] \in {Canned} \cup Texts \cup Cards
             \/ /\ Lookup(d) /\ Msg(d) \in WithId
                /\ got'[d] = cache[Msg(d)]
  <2>1. CASE Lookup(e)
    BY <2>1 DEF Lookup, TypeOK
  <2>2. CASE RouteLocally(e) \/ CheckoutFails(e) \/ Answered(e) \/ TimeOut(e)
    BY <2>2 DEF RouteLocally, CheckoutFails, Answered, TimeOut, Payload, TypeOK
  <2> QED
    BY <1>2, <2>1, <2>2 DEF HandlerStep, Ask, Respond
<1>3. ASSUME NEW w \in Workers, Reply(w)
      PROVE  \/ got'[d] = got[d]
             \/ pending[w][Fan(Current(w))] = d /\ got'[d] = Current(w)
  BY <1>3 DEF Reply
<1>4. ASSUME NEW w \in Workers, Crash(w)
      PROVE  got'[d] = got[d] \/ got'[d] = Canned
  BY <1>4 DEF Crash
<1> QED
  BY <1>1, <1>2, <1>3, <1>4
  DEF Next, Deliver, GiveUp, Disconnect, Load, Save, vars

\* What an ask has, and that a handler is over, is never taken back.
LEMMA Lasting ==
  ASSUME TypeOK, Busy, AskInv, [Next]_vars, NEW d \in Deliveries
  PROVE  /\ at[d] # None => at'[d] = at[d]
         /\ at[d] # None /\ got[d] # None => got'[d] = got[d]
         /\ Over(d) => pc'[d] = pc[d]
<1> USE PayloadFacts
<1>1. at[d] # None => at'[d] = at[d]
  <2> SUFFICES ASSUME at[d] # None, at'[d] # at[d] PROVE FALSE
    OBVIOUS
  <2>1. PICK e \in Deliveries : Ask(e)
    BY DEF Next, Deliver, GiveUp, HandlerStep, Lookup, RouteLocally, CheckoutFails,
           Answered, TimeOut, Respond, Disconnect, Load, Save, Reply, Crash, vars
  <2>2. e = d /\ pc[d] = "routing"
    BY <2>1 DEF Ask, TypeOK
  <2> QED
    BY <2>2 DEF AskInv, AskState
<1>2. Over(d) => pc'[d] = pc[d]
  <2> SUFFICES ASSUME Over(d), pc'[d] # pc[d] PROVE FALSE
    OBVIOUS
  <2>1. PICK e \in Deliveries : Deliver(e) \/ HandlerStep(e) \/ Disconnect(e)
    BY DEF Next, GiveUp, Load, Save, Reply, Crash, vars
  <2>2. e # d
    BY <2>1, HandlerMoves DEF Over, HandlerStep, Deliver, Respond, Disconnect
  <2> QED
    BY <2>1, <2>2, HandlerMoves DEF HandlerStep, Deliver, Respond, Disconnect, TypeOK
<1>3. at[d] # None /\ got[d] # None => got'[d] = got[d]
  <2> SUFFICES ASSUME at[d] # None, got[d] # None, got'[d] # got[d] PROVE FALSE
    OBVIOUS
  <2>1. pc[d] # "waiting" /\ pc[d] # "routing"
    BY DEF AskInv, AskState
  <2>2. \A w \in Workers, f \in Fans : pending[w][f] # d
    BY DEF AskInv, PendingAsks
  <2>3. ASSUME NEW e \in Deliveries, HandlerStep(e) PROVE FALSE
    <3>1. e = d /\ ~Respond(d)
      BY <2>3, HandlerMoves DEF HandlerStep, Respond
    <3>2. TimeOut(d) \/ Answered(d)
      BY <2>1, <2>3, <3>1 DEF HandlerStep, Lookup, RouteLocally, Ask, CheckoutFails
    <3> QED
      BY <3>2 DEF TimeOut, Answered, Payload, TypeOK
  <2>4. ASSUME NEW w \in Workers, Reply(w) PROVE FALSE
    BY <2>2, <2>4, AtWork DEF Reply
  <2>5. ASSUME NEW w \in Workers, Crash(w) PROVE FALSE
    BY <2>2, <2>5 DEF Crash
  <2> QED
    BY <2>3, <2>4, <2>5 DEF Next, Deliver, GiveUp, Disconnect, Load, Save, vars
<1> QED
  BY <1>1, <1>2, <1>3

\* A late conversation stays one.
LEMMA LateLasts ==
  ASSUME TypeOK, Busy, AskInv, [Next]_vars, NEW f, CutShort(f)
  PROVE  \E e \in Deliveries :
           Fan(e) = f /\ at'[e] # None /\ (got'[e] = Canned \/ pc'[e] = "dropped")
<1>1. PICK e \in Deliveries :
        Fan(e) = f /\ at[e] # None /\ (got[e] = Canned \/ pc[e] = "dropped")
  BY DEF CutShort
<1>2. at'[e] = at[e] /\ (got[e] = Canned => got'[e] = Canned)
      /\ (pc[e] = "dropped" => pc'[e] = "dropped")
  BY <1>1, Lasting, PayloadFacts DEF Over
<1> QED
  BY <1>1, <1>2

\* How a queue may change: an ask joins its end, its first leaves, or it is
\* emptied.
LEMMA QueueChanges ==
  ASSUME TypeOK, Busy, [Next]_vars, NEW w \in Workers
  PROVE  \/ queue'[w] = queue[w] /\ step'[w] = step[w]
         \/ \E d \in Deliveries : /\ Ask(d) /\ queue'[w] = Append(queue[w], d)
                                 /\ step'[w] = step[w]
         \/ queue'[w] = queue[w] /\ step[w] # "replied" /\ (Reply(w) => step'[w] = "replied")
         \/ queue[w] # <<>> /\ queue'[w] = Tail(queue[w])
         \/ queue'[w] = <<>>
<1>1. ASSUME NEW d \in Deliveries, Ask(d)
      PROVE  \/ queue'[w] = queue[w] /\ step'[w] = step[w]
             \/ queue'[w] = Append(queue[w], d) /\ step'[w] = step[w]
  BY <1>1 DEF Ask, TypeOK
<1>2. CASE Load(w)
  BY <1>2 DEF Load, Reply
<1>3. CASE Save(w) \/ Reply(w)
  <2>1. queue[w] # <<>>
    BY <1>3, AtWork
  <2> QED
    BY <1>3, <2>1 DEF Save, Reply, Finish, TypeOK
<1>4. CASE Crash(w)
  BY <1>4 DEF Crash, TypeOK
<1>5. ASSUME NEW v \in Workers, v # w, Load(v) \/ Save(v) \/ Reply(v) \/ Crash(v)
      PROVE  queue'[w] = queue[w] /\ step'[w] = step[w]
  BY <1>5 DEF Load, Save, Reply, Crash, Finish, TypeOK
<1>6. CASE UNCHANGED workerVars
  BY <1>6 DEF workerVars
<1> QED
  BY <1>1, <1>2, <1>3, <1>4, <1>5, <1>6
  DEF Next, Deliver, GiveUp, HandlerStep, Lookup, RouteLocally, CheckoutFails,
      Answered, TimeOut, Respond, Disconnect, vars

\* What is in a queue was asked in this step, or was in it before, and then the
\* child has not replied to it in this step.
LEMMA QueueMoves ==
  ASSUME TypeOK, Busy, QueueState, [Next]_vars,
         NEW w \in Workers, NEW i \in 1..Len(queue'[w])
  PROVE  \/ \E d \in Deliveries : Ask(d) /\ queue'[w][i] = d
         \/ \E j \in 1..Len(queue[w]) :
              /\ queue'[w][i] = queue[w][j]
              /\ i > 1 \/ step'[w] # "replied" =>
                   /\ j > 1 \/ step[w] # "replied"
                   /\ \A v \in Workers : Reply(v) => Current(v) # queue[w][j]
<1>1. queue[w] \in Seq(Deliveries) /\ Len(queue[w]) \in Nat
  BY DEF TypeOK
<1>2. ASSUME NEW j \in 1..Len(queue[w]), NEW v \in Workers, Reply(v),
             Current(v) = queue[w][j]
      PROVE  v = w /\ j = 1 /\ step'[w] # step[w]
  <2>1. 1 \in 1..Len(queue[v]) /\ Current(v) = queue[v][1]
    BY <1>2, AtWork
  <2>2. v = w
    <3>1. at[queue[v][1]] = v
      BY <2>1 DEF QueueState
    <3>2. at[queue[w][j]] = w
      BY DEF QueueState
    <3> QED
      BY <1>2, <2>1, <3>1, <3>2
  <2>3. j = 1
    BY <1>2, <2>1, <2>2 DEF QueueState
  <2> QED
    BY <1>2, <2>2, <2>3 DEF Reply, TypeOK
<1>3. CASE queue'[w] = queue[w] /\ step'[w] = step[w]
  <2>1. i \in 1..Len(queue[w]) /\ queue'[w][i] = queue[w][i]
    BY <1>3
  <2> QED
    BY <1>2, <1>3, <2>1
<1>4. ASSUME NEW d \in Deliveries, Ask(d), queue'[w] = Append(queue[w], d),
             step'[w] = step[w]
      PROVE  \/ queue'[w][i] = d
             \/ /\ i \in 1..Len(queue[w]) /\ queue'[w][i] = queue[w][i]
                /\ step'[w] = step[w]
  <2>1. /\ Len(queue'[w]) = Len(queue[w]) + 1
        /\ \A j \in 1..Len(queue[w]) : queue'[w][j] = queue[w][j]
        /\ queue'[w][Len(queue[w]) + 1] = d
    BY <1>1, <1>4, QueueAppend
  <2>2. i \in 1..Len(queue[w]) \/ i = Len(queue[w]) + 1
    BY <1>1, <2>1
  <2> QED
    BY <1>4, <2>1, <2>2
<1>5. CASE /\ queue'[w] = queue[w] /\ step[w] # "replied"
           /\ Reply(w) => step'[w] = "replied"
  <2>1. i \in 1..Len(queue[w]) /\ queue'[w][i] = queue[w][i] /\ (i > 1 => i # 1)
    BY <1>5
  <2>2. ASSUME i > 1 \/ step'[w] # "replied", NEW v \in Workers, Reply(v)
        PROVE  Current(v) # queue[w][i]
    BY <1>2, <1>5, <2>1, <2>2
  <2> QED
    BY <1>5, <2>1, <2>2
<1>6. CASE queue[w] # <<>> /\ queue'[w] = Tail(queue[w])
  <2>1. /\ Len(queue'[w]) = Len(queue[w]) - 1
        /\ queue'[w][i] = queue[w][i + 1]
    BY <1>1, <1>6, QueueTail
  <2>2. i + 1 \in 1..Len(queue[w]) /\ i + 1 > 1 /\ i + 1 # 1
    BY <1>1, <2>1
  <2> QED
    BY <1>2, <2>1, <2>2
<1>7. CASE queue'[w] = <<>>
  <2>1. Len(queue'[w]) = 0
    BY <1>7
  <2> QED
    BY <2>1
<1>8. ASSUME NEW d \in Deliveries, Ask(d), queue'[w] = Append(queue[w], d),
             step'[w] = step[w]
      PROVE  \/ queue'[w][i] = d
             \/ \E j \in 1..Len(queue[w]) :
                  /\ queue'[w][i] = queue[w][j]
                  /\ i > 1 \/ step'[w] # "replied" =>
                       /\ j > 1 \/ step[w] # "replied"
                       /\ \A v \in Workers : Reply(v) => Current(v) # queue[w][j]
  BY <1>2, <1>4, <1>8
<1> QED
  BY <1>3, <1>5, <1>6, <1>7, <1>8, QueueChanges

\* Asks and steps of the children keep the queues in order: an ask is sent
\* once, and answered by itself only when its own turn comes.
LEMMA NextQueue ==
  TypeOK /\ Busy /\ LockInv /\ AskInv /\ QueueInv /\ [Next]_vars => QueueInv'
<1> SUFFICES ASSUME TypeOK, Busy, LockInv, AskInv, QueueInv, [Next]_vars
             PROVE  QueueInv'
  OBVIOUS
<1> USE PayloadFacts
<1>1. \A w \in Workers : queue[w] \in Seq(Deliveries) /\ Len(queue[w]) \in Nat
                         /\ \A i \in 1..Len(queue[w]) : queue[w][i] \in Deliveries
  BY DEF TypeOK
<1>2. \A w \in Workers : \A i \in 1..Len(queue[w]) :
        at[queue[w][i]] = w /\ at'[queue[w][i]] = w
  BY <1>1, Lasting DEF QueueInv, QueueState
<1>3. QueueState'
  <2> SUFFICES ASSUME NEW w \in Workers
               PROVE  /\ \A i \in 1..Len(queue'[w]) : at'[queue'[w][i]] = w
                      /\ \A i, j \in 1..Len(queue'[w]) :
                           queue'[w][i] = queue'[w][j] => i = j
    BY DEF QueueState
  <2>1. CASE queue'[w] = queue[w]
    BY <1>2, <2>1 DEF QueueInv, QueueState
  <2>2. ASSUME NEW d \in Deliveries, Ask(d), queue'[w] = Append(queue[w], d)
        PROVE  /\ \A i \in 1..Len(queue'[w]) : at'[queue'[w][i]] = w
               /\ \A i, j \in 1..Len(queue'[w]) : queue'[w][i] = queue'[w][j] => i = j
    <3>1. at[d] = None /\ at'[d] = w
      <4>1. PICK v \in Workers :
              at' = [at EXCEPT ![d] = v] /\ queue' = [queue EXCEPT ![v] = Append(@, d)]
        BY <2>2 DEF Ask
      <4>2. v = w
        <5> SUFFICES ASSUME v # w PROVE FALSE
          OBVIOUS
        <5>1. Append(queue[w], d) = queue[w]
          BY <2>2, <4>1 DEF TypeOK
        <5>2. Len(Append(queue[w], d)) = Len(queue[w]) + 1
          BY <1>1, QueueAppend
        <5> QED
          BY <1>1, <5>1, <5>2
      <4> QED
        BY <2>2, <4>1, <4>2 DEF Ask, AskInv, AskState, TypeOK
    <3>2. /\ Len(queue'[w]) = Len(queue[w]) + 1
          /\ \A i \in 1..Len(queue[w]) : queue'[w][i] = queue[w][i]
          /\ queue'[w][Len(queue[w]) + 1] = d
      BY <1>1, <2>2, QueueAppend
    <3>3. \A i \in 1..Len(queue'[w]) :
            \/ i \in 1..Len(queue[w]) /\ queue'[w][i] = queue[w][i] /\ queue[w][i] # d
            \/ i = Len(queue[w]) + 1 /\ queue'[w][i] = d
      BY <3>1, <3>2, <1>1, <1>2
    <3> QED
      BY <3>1, <3>3, <1>2 DEF QueueInv, QueueState
  <2>3. CASE queue[w] # <<>> /\ queue'[w] = Tail(queue[w])
    <3>1. /\ Len(queue'[w]) = Len(queue[w]) - 1
          /\ \A i \in 1..Len(queue'[w]) : queue'[w][i] = queue[w][i + 1]
      BY <1>1, <2>3, QueueTail
    <3>2. \A i \in 1..Len(queue'[w]) : i + 1 \in 1..Len(queue[w])
      BY <1>1, <3>1
    <3>3. \A i \in 1..Len(queue'[w]) : at'[queue'[w][i]] = w
      BY <3>1, <3>2, <1>2
    <3>4. ASSUME NEW i \in 1..Len(queue'[w]), NEW j \in 1..Len(queue'[w]),
                 queue'[w][i] = queue'[w][j]
          PROVE  i = j
      <4>1. i + 1 = j + 1
        BY <3>1, <3>2, <3>4 DEF QueueInv, QueueState
      <4> QED
        BY <4>1
    <3> QED
      BY <3>3, <3>4
  <2>4. CASE queue'[w] = <<>>
    BY <2>4
  <2> QED
    BY <2>1, <2>2, <2>3, <2>4, QueueChanges
<1>4. Unreplied'
  <2> SUFFICES ASSUME NEW w \in Workers, NEW i \in 1..Len(queue'[w]),
                      i > 1 \/ step'[w] # "replied"
               PROVE  got'[queue'[w][i]] # queue'[w][i]
    BY DEF Unreplied
  <2>1. ASSUME NEW d \in Deliveries, Ask(d), queue'[w][i] = d
        PROVE  got'[queue'[w][i]] # queue'[w][i]
    <3>1. got[d] = None /\ got' = got /\ d # None
      BY <2>1 DEF Ask, AskInv, AskState
    <3> QED
      BY <2>1, <3>1
  <2>2. ASSUME NEW j \in 1..Len(queue[w]), queue'[w][i] = queue[w][j],
               j > 1 \/ step[w] # "replied",
               \A v \in Workers : Reply(v) => Current(v) # queue[w][j]
        PROVE  got'[queue[w][j]] # queue[w][j]
    <3>1. queue[w][j] \in Deliveries /\ at[queue[w][j]] # None
      BY <1>1, <1>2
    <3>2. ~Lookup(queue[w][j])
      BY <3>1 DEF Lookup, AskInv, AskState
    <3>3. got[queue[w][j]] # queue[w][j]
      BY <2>2 DEF QueueInv, Unreplied
    <3> QED
      BY <2>2, <3>1, <3>2, <3>3, GotChanges
  <2> QED
    BY <2>1, <2>2, QueueMoves DEF QueueInv
<1> QED
  BY <1>3, <1>4 DEF QueueInv

\* A reply that goes to another ask than its own was sent by a handler that is
\* over, in a conversation in which replies are late.
LEMMA StrayReply ==
  ASSUME TypeOK, Busy, LockInv, AskInv, QueueInv, LateInv,
         NEW w \in Workers, Reply(w), NEW d \in Deliveries,
         pending[w][Fan(Current(w))] = d, Current(w) # d
  PROVE  Over(Current(w)) /\ CutShort(Fan(d))
<1> DEFINE q == Current(w)
<1> USE PayloadFacts
<1>1. /\ q \in Deliveries /\ Fan(q) \in Fans
      /\ 1 \in 1..Len(queue[w]) /\ q = queue[w][1]
  BY AtWork
<1>2. Past(d) /\ Fan(d) = Fan(q)
  BY <1>1 DEF AskInv, PendingAsks, Past
<1>3. at[q] # None /\ got[q] # q
  BY <1>1 DEF QueueInv, QueueState, Unreplied, Reply
<1>4. pc[q] \in {"asking", "answered", "done", "dropped"}
  BY <1>1, <1>3 DEF TypeOK, AskInv, AskState
<1>5. pc[q] \notin {"asking", "answered"}
  BY <1>1, <1>2, OnePast DEF Past
<1>6. Over(q)
  BY <1>4, <1>5 DEF Over
<1>7. CASE pc[q] = "dropped" \/ got[q] = Canned
  BY <1>1, <1>2, <1>3, <1>6, <1>7 DEF CutShort
<1>8. CASE pc[q] = "done" /\ got[q] # Canned
  <2>1. got[q] \in Deliveries \ {q}
    BY <1>1, <1>3, <1>8 DEF AskInv, AskState
  <2> QED
    BY <1>1, <1>2, <1>3, <1>6, <2>1 DEF LateInv, StaleAsks
<1> QED
  BY <1>6, <1>7, <1>8 DEF Over

\* How a message gets its entry of the reply cache.
LEMMA CacheChanges ==
  ASSUME TypeOK, [Next]_vars, NEW m \in Msgs
  PROVE  \/ cache'[m] = cache[m]
         \/ cache'[m] \in {Canned} \cup Texts \cup Cards
         \/ \E d \in Deliveries : Answered(d) /\ Msg(d) = m /\ cache'[m] = got[d]
<1>1. CASE UNCHANGED cache
  BY <1>1
<1>2. ASSUME NEW d \in Deliveries, HandlerStep(d), ~UNCHANGED cache
      PROVE  \/ cache'[m] = cache[m]
             \/ cache'[m] \in {Canned} \cup Texts \cup Cards
             \/ Answered(d) /\ Msg(d) = m /\ cache'[m] = got[d]
  <2>1. CASE RouteLocally(d) \/ CheckoutFails(d) \/ TimeOut(d)
    BY <2>1 DEF RouteLocally, CheckoutFails, TimeOut, Payload, Store, TypeOK
  <2>2. CASE Answered(d)
    BY <2>2 DEF Answered, Payload, Store, TypeOK
  <2> QED
    BY <1>2, <2>1, <2>2 DEF HandlerStep, Lookup, Ask, Respond
<1> QED
  BY <1>1, <1>2
  DEF Next, Deliver, GiveUp, Disconnect, Load, Save, Reply, Crash, vars

\* LateInv is inductive.
LEMMA NextLate ==
  TypeOK /\ Busy /\ LockInv /\ AskInv /\ QueueInv /\ LateInv /\ [Next]_vars => LateInv'
<1> SUFFICES ASSUME TypeOK, Busy, LockInv, AskInv, QueueInv, LateInv, [Next]_vars
             PROVE  LateInv'
  OBVIOUS
<1> USE PayloadFacts
<1> DEFINE LateNext(f) ==
             \E e \in Deliveries :
               Fan(e) = f /\ at'[e] # None /\ (got'[e] = Canned \/ pc'[e] = "dropped")
<1>1. \A d \in Deliveries : Over(d) => pc'[d] \in {"done", "dropped"}
  BY Lasting DEF Over
<1>2. ASSUME NEW f, CutShort(f) PROVE LateNext(f)
  BY <1>2, LateLasts
<1>3. ASSUME NEW d \in Deliveries, at'[d] # None, got'[d] \in Deliveries \ {d}
      PROVE  pc'[got'[d]] \in {"done", "dropped"} /\ LateNext(Fan(d))
  <2>1. CASE got'[d] = got[d]
    <3>1. at[d] # None
      <4> SUFFICES ASSUME at[d] = None PROVE FALSE
        OBVIOUS
      <4>1. PICK e \in Deliveries : Ask(e)
        BY <1>3
        DEF Next, Deliver, GiveUp, HandlerStep, Lookup, RouteLocally, CheckoutFails,
            Answered, TimeOut, Respond, Disconnect, Load, Save, Reply, Crash, vars
      <4>2. e = d /\ got[d] = None
        BY <1>3, <4>1 DEF Ask, TypeOK, AskInv, AskState
      <4> QED
        BY <1>3, <2>1, <4>2
    <3>2. Over(got[d]) /\ CutShort(Fan(d))
      BY <1>3, <2>1, <3>1 DEF LateInv, StaleAsks
    <3> QED
      BY <1>1, <1>2, <1>3, <2>1, <3>2
  <2>2. CASE Lookup(d)
    <3>1. at'[d] = at[d] /\ at[d] = None
      BY <2>2 DEF Lookup, AskInv, AskState
    <3> QED
      BY <1>3, <3>1
  <2>3. ASSUME NEW w \in Workers, Reply(w), pending[w][Fan(Current(w))] = d,
               got'[d] = Current(w)
        PROVE  pc'[got'[d]] \in {"done", "dropped"} /\ LateNext(Fan(d))
    <3>1. Over(Current(w)) /\ CutShort(Fan(d))
      BY <1>3, <2>3, StrayReply
    <3> QED
      BY <1>1, <1>2, <1>3, <2>3, <3>1
  <2> QED
    BY <1>3, <2>1, <2>2, <2>3, GotChanges
<1>4. StaleAsks'
  BY <1>3 DEF StaleAsks, Over, CutShort
<1>5. StaleCache'
  <2> SUFFICES ASSUME NEW m \in Msgs, cache'[m] \in Deliveries, Msg(cache'[m]) # m
               PROVE  pc'[cache'[m]] \in {"done", "dropped"} /\ LateNext(FanOf[m])
    BY DEF StaleCache, Over, CutShort
  <2>1. CASE cache'[m] = cache[m]
    BY <1>1, <1>2, <2>1 DEF LateInv, StaleCache
  <2>2. ASSUME NEW d \in Deliveries, Answered(d), Msg(d) = m, cache'[m] = got[d]
        PROVE  pc'[cache'[m]] \in {"done", "dropped"} /\ LateNext(FanOf[m])
    <3>1. at[d] # None /\ got[d] \in Deliveries \ {d} /\ Fan(d) = FanOf[m]
      BY <2>2, DeliveryFacts DEF Answered, AskInv, AskState
    <3>2. Over(got[d]) /\ CutShort(FanOf[m])
      BY <3>1 DEF LateInv, StaleAsks
    <3> QED
      BY <1>1, <1>2, <2>2, <3>2
  <2> QED
    BY <2>1, <2>2, CacheChanges
<1>6. MisfitIsLate'
  <2> SUFFICES ASSUME NEW d \in Deliveries, got'[d] \in Deliveries, Msg(got'[d]) # Msg(d)
               PROVE  pc'[got'[d]] \in {"done", "dropped"} /\ LateNext(Fan(d))
    BY DEF MisfitIsLate, CutShort
  <2>1. CASE at'[d] # None
    BY <1>3, <2>1
  <2>2. CASE got'[d] = got[d]
    <3>1. Over(got[d]) /\ CutShort(Fan(d))
      BY <2>2 DEF LateInv, MisfitIsLate, Over
    <3> QED
      BY <1>1, <1>2, <2>2, <3>1
  <2>3. CASE Lookup(d) /\ got'[d] = cache[Msg(d)]
    <3>1. Over(cache[Msg(d)]) /\ CutShort(Fan(d))
      BY <2>3, DeliveryFacts DEF LateInv, StaleCache
    <3> QED
      BY <1>1, <1>2, <2>3, <3>1
  <2>4. ASSUME NEW w \in Workers, Reply(w), pending[w][Fan(Current(w))] = d
        PROVE  at'[d] # None
    <3>1. at[d] = w
      BY <2>4, AtWork DEF AskInv, PendingAsks
    <3> QED
      BY <2>4, <3>1 DEF Reply
  <2> QED
    BY <2>1, <2>2, <2>3, <2>4, GotChanges
<1> QED
  BY <1>4, <1>5, <1>6 DEF LateInv

-----------------------------------------------------------------------------
(* The POSTs of one message come one after the other, and so do their      *)
(* handlers: an earlier one is ahead in the line or is over.               *)

\* A later POST of the same message.
Later(e, d) == Msg(d) = Msg(e) /\ d[2] < e[2]

InTurn ==
  \A d, e \in Deliveries : Later(e, d) =>
    /\ pc[d] = "unsent" => pc[e] = "unsent"
    /\ Running(d) => pc[e] # "done"
    /\ Running(d) /\ Running(e) => d \in ahead[e]

\* Only a POST that was sent is given up.
ClosedSent == \A d \in closed : pc[d] # "unsent"

\* Once a text was found for a message, no card is found for it any more.
NoCardAfterText ==
  \A d, e \in Deliveries : Later(e, d) /\ Msg(d) \in WithId =>
    ~ /\ pc[d] \in {"answered", "done"} /\ got[d] \notin Cards
      /\ pc[e] \in {"answered", "done"} /\ got[e] \in Cards

TurnInv == InTurn /\ ClosedSent

\* The POST before e is d or later than d.
LEMMA PostBefore ==
  ASSUME NEW d \in Deliveries, NEW e \in Deliveries, Later(e, d)
  PROVE  LET g == <<Msg(e), e[2] - 1>>
         IN  e[2] > 1 /\ Msg(g) = Msg(e) /\ (d = g \/ Later(g, d))
<1> DEFINE g == <<Msg(e), e[2] - 1>>
<1>1. d[2] \in Nat /\ d[2] >= 1 /\ e[2] \in Nat /\ d[2] < e[2] /\ Msg(d) = Msg(e)
  BY DeliveryFacts DEF Later
<1>2. Msg(g) = Msg(e) /\ g[2] = e[2] - 1
  BY DEF Msg
<1>3. e[2] > 1 /\ (d[2] = e[2] - 1 \/ d[2] < e[2] - 1)
  BY <1>1
<1>4. d[2] = e[2] - 1 => d = g
  BY <1>1, DeliveryFacts
<1> HIDE DEF g
<1>5. d[2] < e[2] - 1 => Later(g, d)
  BY <1>1, <1>2 DEF Later
<1> QED
  BY <1>2, <1>3, <1>4, <1>5 DEF g

\* A POST that arrives finds every earlier one of its message ahead or over.
LEMMA TurnJoined ==
  ASSUME TypeOK, LockInv, TurnInv, NEW x \in Deliveries, Deliver(x)
  PROVE  TurnInv'
<1>1. /\ pc[x] = "unsent" /\ pc'[x] = "waiting" /\ UNCHANGED closed
      /\ ahead'[x] = {e \in Deliveries : wants[e] = Fan(x)}
      /\ \A e \in Deliveries : e # x => pc'[e] = pc[e] /\ ahead'[e] = ahead[e]
  BY DEF Deliver, Lock!Enter, TypeOK
<1>2. ASSUME NEW d \in Deliveries, Later(x, d) PROVE d # x /\ pc[d] # "unsent"
  <2> DEFINE g == <<Msg(x), x[2] - 1>>
  <2>1. x[2] > 1 /\ (d = g \/ Later(g, d))
    BY <1>2, PostBefore
  <2>2. g \in closed
    BY <2>1 DEF Deliver
  <2> HIDE DEF g
  <2>3. g \in Deliveries /\ pc[g] # "unsent"
    BY <2>2 DEF TurnInv, ClosedSent, TypeOK
  <2>4. pc[d] # "unsent"
    BY <2>1, <2>3 DEF TurnInv, InTurn
  <2> QED
    BY <1>1, <2>4
<1>3. ASSUME NEW d \in Deliveries, NEW e \in Deliveries, Later(e, d)
      PROVE  /\ pc'[d] = "unsent" => pc'[e] = "unsent"
             /\ Running(d)' => pc'[e] # "done"
             /\ Running(d)' /\ Running(e)' => d \in ahead'[e]
  <2>1. CASE e = x
    <3>1. d # x /\ pc[d] # "unsent" /\ pc'[d] = pc[d] /\ Fan(d) = Fan(x)
      BY <1>1, <1>2, <1>3, <2>1, DeliveryFacts DEF Later
    <3>2. Running(d) => wants[d] = Fan(x)
      BY <3>1 DEF LockInv, InOwnLine
    <3> QED
      BY <1>1, <2>1, <3>1, <3>2 DEF Running
  <2>2. CASE e # x /\ d = x
    BY <1>1, <1>3, <2>2 DEF TurnInv, InTurn, Running
  <2>3. CASE e # x /\ d # x
    BY <1>1, <1>3, <2>3 DEF TurnInv, InTurn, Running
  <2> QED
    BY <2>1, <2>2, <2>3
<1>4. InTurn'
  BY <1>3 DEF InTurn, Later
<1>5. ClosedSent'
  BY <1>1 DEF TurnInv, ClosedSent, TypeOK
<1> QED
  BY <1>4, <1>5 DEF TurnInv

\* A handler that is done was the first in line.
LEMMA TurnLeft ==
  ASSUME TypeOK, LockInv, TurnInv, NEW x \in Deliveries, Respond(x) \/ Disconnect(x)
  PROVE  TurnInv'
<1>1. /\ Running(x) /\ UNCHANGED closed /\ pc'[x] \in {"done", "dropped"}
      /\ pc'[x] = "done" => ahead[x] = {}
      /\ \A e \in Deliveries : e # x => pc'[e] = pc[e] /\ ahead'[e] = ahead[e] \ {x}
  BY DEF Respond, Disconnect, Lock!Leave, TypeOK, Running, LockInv, PastOwns, Past
<1>2. ASSUME NEW d \in Deliveries, NEW e \in Deliveries, Later(e, d)
      PROVE  /\ pc'[d] = "unsent" => pc'[e] = "unsent"
             /\ Running(d)' => pc'[e] # "done"
             /\ Running(d)' /\ Running(e)' => d \in ahead'[e]
  <2>1. ~Running(x)' /\ pc'[x] # "unsent"
    BY <1>1 DEF Running
  <2>2. CASE d = x
    BY <2>1, <2>2
  <2>3. CASE d # x /\ e = x
    <3>1. Running(d) => pc'[x] # "done"
      BY <1>1, <1>2, <2>3 DEF TurnInv, InTurn
    <3>2. pc[d] # "unsent"
      BY <1>1, <1>2, <2>3 DEF TurnInv, InTurn, Running
    <3> QED
      BY <1>1, <2>1, <2>3, <3>1, <3>2 DEF Running
  <2>4. CASE d # x /\ e # x
    BY <1>1, <1>2, <2>4 DEF TurnInv, InTurn, Running
  <2> QED
    BY <2>2, <2>3, <2>4
<1>3. InTurn'
  BY <1>2 DEF InTurn, Later
<1>4. ClosedSent'
  BY <1>1 DEF TurnInv, ClosedSent, TypeOK
<1> QED
  BY <1>3, <1>4 DEF TurnInv

\* TurnInv is inductive.
LEMMA NextTurn == TypeOK /\ LockInv /\ TurnInv /\ [Next]_vars => TurnInv'
<1> SUFFICES ASSUME TypeOK, LockInv, TurnInv, [Next]_vars PROVE TurnInv'
  OBVIOUS
<1>1. ASSUME NEW x \in Deliveries, Deliver(x) \/ Respond(x) \/ Disconnect(x)
      PROVE  TurnInv'
  BY <1>1, TurnJoined, TurnLeft
<1>2. ASSUME NEW x \in Deliveries, HandlerStep(x), ~Respond(x) PROVE TurnInv'
  <2>1. /\ UNCHANGED <<ahead, closed>>
        /\ pc[x] \in {"waiting", "routing", "asking"}
        /\ pc'[x] \in {"routing", "asking", "answered"}
        /\ \A e \in Deliveries : e # x => pc'[e] = pc[e]
    BY <1>2, HandlerMoves DEF HandlerStep
  <2>2. \A e \in Deliveries : /\ Running(e)' <=> Running(e)
                              /\ pc'[e] = "unsent" <=> pc[e] = "unsent"
                              /\ pc'[e] = "done" <=> pc[e] = "done"
    BY <2>1 DEF Running
  <2>3. InTurn'
    BY <2>1, <2>2 DEF TurnInv, InTurn, Later
  <2>4. ClosedSent'
    BY <2>1, <2>2 DEF TurnInv, ClosedSent, TypeOK
  <2> QED
    BY <2>3, <2>4 DEF TurnInv
<1>3. ASSUME NEW x \in Deliveries, GiveUp(x) PROVE TurnInv'
  BY <1>3 DEF GiveUp, lockVars, TurnInv, InTurn, ClosedSent, Later, Running
<1>4. CASE (\E w \in Workers : Load(w) \/ Save(w) \/ Reply(w) \/ Crash(w)) \/ UNCHANGED vars
  <2>1. UNCHANGED <<ahead, pc, closed>>
    BY <1>4 DEF Load, Save, Reply, Crash, vars, lockVars
  <2> QED
    BY <2>1 DEF TurnInv, InTurn, ClosedSent, Later, Running
<1> QED
  BY <1>1, <1>2, <1>3, <1>4 DEF Next

\* How a handler comes by what it answers with.
LEMMA AnswerFound ==
  ASSUME TypeOK, Busy, AskInv, [Next]_vars, NEW d \in Deliveries
  PROVE  \/ pc'[d] = pc[d] /\ got'[d] = got[d]
         \/ pc[d] = "answered" /\ pc'[d] = "done" /\ got'[d] = got[d]
         \/ pc'[d] \notin {"answered", "done"}
         \/ /\ pc'[d] = "answered"
            /\ \/ pc[d] \in {"routing", "asking"}
               \/ pc[d] = "waiting" /\ got'[d] = cache[Msg(d)]
<1>1. ASSUME NEW x \in Deliveries, HandlerStep(x) \/ Deliver(x) \/ Disconnect(x), x # d
      PROVE  pc'[d] = pc[d] /\ got'[d] = got[d]
  BY <1>1, HandlerMoves DEF HandlerStep, Respond, Deliver, Disconnect, TypeOK
<1>2. CASE Lookup(d)
  BY <1>2 DEF Lookup, TypeOK
<1>3. CASE RouteLocally(d) \/ CheckoutFails(d) \/ Answered(d) \/ TimeOut(d)
  BY <1>3 DEF RouteLocally, CheckoutFails, Answered, TimeOut, Payload, TypeOK
<1>4. CASE Ask(d) \/ Deliver(d) \/ Disconnect(d)
  BY <1>4 DEF Ask, Deliver, Disconnect, TypeOK
<1>5. CASE Respond(d)
  BY <1>5 DEF Respond, TypeOK
<1>6. CASE UNCHANGED <<pc, got>>
  BY <1>6
<1>7. ASSUME NEW w \in Workers, Reply(w) \/ Crash(w), got'[d] # got[d]
      PROVE  pc'[d] = "asking"
  <2>1. \E f \in Fans : pending[w][f] = d
    BY <1>7, AtWork DEF Reply, Crash, TypeOK
  <2>2. pc[d] = "asking" /\ UNCHANGED pc
    BY <1>7, <2>1 DEF AskInv, PendingAsks, Reply, Crash
  <2> QED
    BY <2>2
<1>8. ASSUME NEW w \in Workers, Reply(w) \/ Crash(w) PROVE pc'[d] = pc[d]
  BY <1>8 DEF Reply, Crash
<1> QED
  BY <1>1, <1>2, <1>3, <1>4, <1>5, <1>6, <1>7, <1>8
  DEF Next, HandlerStep, GiveUp, Load, Save, vars

\* A step moves one handler.
LEMMA StepOfOne ==
  ASSUME TypeOK, [Next]_vars, NEW d \in Deliveries, NEW e \in Deliveries,
         pc'[d] # pc[d], pc'[e] # pc[e]
  PROVE  d = e
<1>1. PICK x \in Deliveries : Deliver(x) \/ HandlerStep(x) \/ Disconnect(x)
  BY DEF Next, GiveUp, Load, Save, Reply, Crash, vars
<1>2. \A y \in Deliveries : y # x => pc'[y] = pc[y]
  BY <1>1, HandlerMoves DEF HandlerStep, Respond, Deliver, Disconnect, TypeOK
<1> QED
  BY <1>2

\* No card follows a text: its handler would have found the text in the cache.
LEMMA NextNoCard ==
  TypeOK /\ Busy /\ LockInv /\ AskInv /\ TurnInv /\ NoCardAfterText /\ [Next]_vars
  => NoCardAfterText'
<1> SUFFICES ASSUME TypeOK, Busy, LockInv, AskInv, TurnInv, NoCardAfterText, [Next]_vars,
                    NEW d \in Deliveries, NEW e \in Deliveries, Later(e, d),
                    Msg(d) \in WithId,
                    pc'[d] \in {"answered", "done"}, got'[d] \notin Cards,
                    pc'[e] \in {"answered", "done"}, got'[e] \in Cards
             PROVE  FALSE
  BY DEF NoCardAfterText, Later
<1>1. Msg(d) = Msg(e) /\ Msg(d) \in Msgs
  BY DeliveryFacts DEF Later
<1>2. d # e
  BY DeliveryFacts DEF Later
<1>3. CASE pc[d] \in {"answered", "done"} /\ got[d] \notin Cards
  <2>1. cache[Msg(e)] # None /\ cache[Msg(e)] \notin Cards
    <3>1. cache[Msg(d)] = got[d] /\ got[d] # None
      BY <1>3 DEF AskInv, AskState, CacheState
    <3> QED
      BY <1>1, <1>3, <3>1
  <2>2. pc[e] \notin {"routing", "asking"}
    BY <1>1, <2>1 DEF AskInv, CacheState
  <2>3. ~(pc[e] \in {"answered", "done"} /\ got[e] \in Cards)
    BY <1>3 DEF NoCardAfterText
  <2> QED
    BY <2>1, <2>2, <2>3, AnswerFound
<1>4. CASE ~(pc[d] \in {"answered", "done"} /\ got[d] \notin Cards)
  <2>1. Running(d) /\ pc[d] # "answered" /\ pc'[d] = "answered"
    BY <1>4, AnswerFound DEF Running
  <2>2. pc[e] = "answered" \/ pc[e] = "done"
    <3>1. ASSUME pc'[e] # pc[e], pc'[d] # pc[d] PROVE FALSE
      BY <1>2, <3>1, StepOfOne
    <3>2. pc[d] # "answered"
      BY <2>1
    <3> QED
      BY <2>1, <3>1, <3>2
  <2>3. pc[e] # "done"
    BY <2>1 DEF TurnInv, InTurn
  <2>4. Running(e) /\ Past(e)
    BY <2>2, <2>3 DEF Running, Past
  <2>5. d \in ahead[e] /\ ahead[e] = {}
    BY <2>1, <2>4 DEF TurnInv, InTurn, LockInv, PastOwns
  <2> QED
    BY <2>5
<1> QED
  BY <1>3, <1>4

-----------------------------------------------------------------------------
(* Session files.  In a conversation in which no ask was cut short, whoever *)
(* sent a child what it has not replied to still waits for the reply, and  *)
(* so, by the lock, only one child has work of the conversation.           *)

Waits(q) == CutShort(Fan(q)) \/ (pc[q] = "asking" /\ got[q] = None)

QueueAsks ==
  \A w \in Workers : \A i \in 1..Len(queue[w]) :
    i > 1 \/ step[w] # "replied" => Waits(queue[w][i])

\* What a child that saves first has loaded is what the file still holds.
SnapFresh ==
  \A w \in Workers : saveFirst /\ step[w] = "loaded" =>
    CutShort(Fan(Current(w))) \/ snap[w] = session[Fan(Current(w))]

FileInv == QueueAsks /\ SnapFresh

\* Who waits keeps waiting until the child replies, unless it is cut short.
LEMMA WaitsOn ==
  ASSUME TypeOK, Busy, LockInv, AskInv, QueueInv, LateInv, [Next]_vars,
         NEW q \in Deliveries, at[q] # None, Waits(q),
         \A v \in Workers : Reply(v) => Current(v) # q
  PROVE  Waits(q)'
<1> USE PayloadFacts
<1>1. CASE CutShort(Fan(q))
  BY <1>1, LateLasts DEF Waits, CutShort
<1>2. CASE pc[q] = "asking" /\ got[q] = None
  <2>1. at'[q] # None
    BY Lasting
  <2>2. CASE pc'[q] = pc[q] /\ got'[q] = got[q]
    BY <1>2, <2>2 DEF Waits
  <2>3. CASE got'[q] = Canned \/ pc'[q] = "dropped"
    BY <2>1, <2>3 DEF Waits, CutShort
  <2>4. ASSUME NEW x \in Deliveries, Deliver(x) \/ HandlerStep(x) \/ Disconnect(x)
        PROVE  \/ pc'[q] = pc[q] /\ got'[q] = got[q]
               \/ got'[q] = Canned \/ pc'[q] = "dropped"
    <3>1. CASE x # q
      BY <2>4, <3>1, HandlerMoves
      DEF HandlerStep, Respond, Deliver, Disconnect, TypeOK
    <3>2. CASE x = q
      <4>1. TimeOut(q) \/ Disconnect(q)
        BY <1>2, <2>4, <3>2
        DEF HandlerStep, Lookup, RouteLocally, Ask, CheckoutFails, Answered, Respond,
            Deliver
      <4> QED
        BY <4>1 DEF TimeOut, Payload, Disconnect, TypeOK
    <3> QED
      BY <3>1, <3>2
  <2>5. ASSUME NEW v \in Workers, Reply(v), got'[q] # got[q] PROVE Waits(q)'
    <3>1. pending[v][Fan(Current(v))] = q
      BY <2>5 DEF Reply
    <3>2. CutShort(Fan(q))
      BY <2>5, <3>1, StrayReply
    <3> QED
      BY <3>2, LateLasts DEF Waits, CutShort
  <2>6. ASSUME NEW v \in Workers, Reply(v) \/ Crash(v)
        PROVE  pc'[q] = pc[q] /\ (Crash(v) => got'[q] = got[q] \/ got'[q] = Canned)
    BY <2>6 DEF Reply, Crash
  <2>7. CASE UNCHANGED <<pc, got>>
    BY <2>2, <2>7
  <2> QED
    BY <2>2, <2>3, <2>4, <2>5, <2>6, <2>7 DEF Next, GiveUp, Load, Save, vars
<1> QED
  BY <1>1, <1>2 DEF Waits

\* What is in a queue was sent by somebody who waits for it.
LEMMA NextQueueAsks ==
  TypeOK /\ Busy /\ LockInv /\ AskInv /\ QueueInv /\ LateInv /\ QueueAsks /\ [Next]_vars
  => QueueAsks'
<1> SUFFICES ASSUME TypeOK, Busy, LockInv, AskInv, QueueInv, LateInv, QueueAsks,
                    [Next]_vars,
                    NEW w \in Workers, NEW i \in 1..Len(queue'[w]),
                    i > 1 \/ step'[w] # "replied",
                    NEW q, q = queue'[w][i]
             PROVE  Waits(q)'
  BY DEF QueueAsks, Waits, CutShort, Fan
<1>1. ASSUME NEW d \in Deliveries, Ask(d), q = d PROVE Waits(q)'
  <2>1. pc'[d] = "asking" /\ got'[d] = None
    BY <1>1 DEF Ask, AskInv, AskState, TypeOK
  <2> QED
    BY <1>1, <2>1 DEF Waits
<1>2. ASSUME NEW j \in 1..Len(queue[w]), q = queue[w][j],
             j > 1 \/ step[w] # "replied",
             \A v \in Workers : Reply(v) => Current(v) # queue[w][j]
      PROVE  Waits(q)'
  <2>1. q \in Deliveries
    BY <1>2 DEF TypeOK
  <2>2. at[q] # None
    BY <1>2, PayloadFacts DEF QueueInv, QueueState
  <2>3. Waits(queue[w][j])
    BY <1>2 DEF QueueAsks
  <2>4. Waits(q)
    BY <1>2, <2>3
  <2>5. \A v \in Workers : Reply(v) => Current(v) # q
    BY <1>2
  <2> QED
    BY <2>1, <2>2, <2>4, <2>5, WaitsOn
<1> QED
  BY <1>1, <1>2, QueueMoves DEF QueueInv

\* Two children have work of one conversation only if an ask was cut short, or
\* one of them has replied.
LEMMA OneChild ==
  ASSUME TypeOK, LockInv, QueueInv, QueueAsks, NEW f, ~CutShort(f),
         NEW v \in Workers, NEW w \in Workers,
         1 \in 1..Len(queue[v]), 1 \in 1..Len(queue[w]),
         Fan(queue[v][1]) = f, Fan(queue[w][1]) = f,
         step[v] # "replied", step[w] # "replied"
  PROVE  v = w
<1>1. queue[v][1] \in Deliveries /\ queue[w][1] \in Deliveries
  BY DEF TypeOK
<1>2. Waits(queue[v][1]) /\ Waits(queue[w][1])
  BY DEF QueueAsks
<1>3. Past(queue[v][1]) /\ Past(queue[w][1])
  BY <1>2 DEF Waits, Past
<1>4. queue[v][1] = queue[w][1]
  BY <1>1, <1>3, OnePast
<1>5. at[queue[v][1]] = v /\ at[queue[w][1]] = w
  BY DEF QueueInv, QueueState
<1> QED
  BY <1>4, <1>5

\* What a child has loaded stays up to date: no other child has the
\* conversation.
LEMMA NextSnapFresh ==
  TypeOK /\ Busy /\ LockInv /\ AskInv /\ QueueInv /\ FileInv /\ [Next]_vars => SnapFresh'
<1> SUFFICES ASSUME TypeOK, Busy, LockInv, AskInv, QueueInv, FileInv, [Next]_vars,
                    NEW w \in Workers, saveFirst', step'[w] = "loaded",
                    NEW q, q = Head(queue'[w])
             PROVE  CutShort(Fan(q))' \/ snap'[w] = session'[Fan(q)]
  BY DEF SnapFresh, Current, CutShort, Fan
<1>1. saveFirst
  BY DEF Next, Deliver, GiveUp, HandlerStep, Lookup, RouteLocally, Ask, CheckoutFails,
         Answered, TimeOut, Respond, Disconnect, Load, Save, Reply, Crash, workerVars, vars
<1>2. CASE Load(w)
  BY <1>2, AtWork DEF Load, Current, TypeOK
<1>3. CASE ~Load(w)
  <2>1. step[w] = "loaded"
    BY <1>3 DEF Next, Deliver, GiveUp, HandlerStep, Lookup, RouteLocally, Ask,
                CheckoutFails, Answered, TimeOut, Respond, Disconnect, Load, Save, Reply,
                Crash, workerVars, vars, TypeOK
  <2>2. /\ queue[w] \in Seq(Deliveries) /\ queue[w] # <<>>
        /\ 1 \in 1..Len(queue[w]) /\ Current(w) = queue[w][1]
    <3>1. queue[w] \in Seq(Deliveries) /\ queue[w] # <<>>
      BY <2>1 DEF Busy, TypeOK
    <3> QED
      BY <3>1, QueueTail DEF Current
  <2>3. q = Current(w) /\ snap'[w] = snap[w]
    <3>1. CASE UNCHANGED <<queue, snap>>
      BY <3>1 DEF Current
    <3>2. ASSUME NEW d \in Deliveries, Ask(d)
          PROVE  q = Current(w) /\ snap'[w] = snap[w]
      <4>1. queue'[w] = queue[w] \/ queue'[w] = Append(queue[w], d)
        BY <3>2 DEF Ask, TypeOK
      <4>2. Head(Append(queue[w], d)) = Head(queue[w])
        BY <2>2, QueueAppend
      <4> QED
        BY <3>2, <4>1, <4>2 DEF Ask, Current
    <3>3. ASSUME NEW v \in Workers, Load(v) \/ Save(v) \/ Reply(v) \/ Crash(v)
          PROVE  q = Current(w) /\ snap'[w] = snap[w]
      <4>1. v # w
        BY <1>3, <2>1, <3>3 DEF Save, Reply, Crash, TypeOK
      <4> QED
        BY <3>3, <4>1 DEF Load, Save, Reply, Crash, Finish, Current, TypeOK
    <3> QED
      BY <3>1, <3>2, <3>3
      DEF Next, Deliver, GiveUp, HandlerStep, Lookup, RouteLocally, CheckoutFails,
          Answered, TimeOut, Respond, Disconnect, workerVars, vars
  <2>4. CASE CutShort(Fan(Current(w)))
    BY <2>3, <2>4, LateLasts DEF CutShort, Fan
  <2>5. CASE ~CutShort(Fan(Current(w)))
    <3>1. snap[w] = session[Fan(Current(w))]
      BY <1>1, <2>1, <2>5 DEF FileInv, SnapFresh
    <3>2. ASSUME NEW v \in Workers, Save(v)
          PROVE  session'[Fan(Current(w))] = session[Fan(Current(w))]
      <4>1. step[v] = "loaded"
        BY <1>1, <3>2 DEF Save
      <4>2. v # w
        BY <1>1, <3>2 DEF Save, TypeOK
      <4>3. 1 \in 1..Len(queue[v]) /\ Current(v) = queue[v][1]
        BY <3>2, AtWork
      <4>4. Fan(Current(v)) # Fan(Current(w))
        BY <2>1, <2>2, <2>5, <4>1, <4>2, <4>3, OneChild DEF FileInv
      <4> QED
        BY <3>2, <4>4 DEF Save, TypeOK
    <3>3. session'[Fan(Current(w))] = session[Fan(Current(w))]
      BY <3>2
      DEF Next, Deliver, GiveUp, HandlerStep, Lookup, RouteLocally, Ask, CheckoutFails,
          Answered, TimeOut, Respond, Disconnect, Load, Reply, Crash, workerVars, vars
    <3> QED
      BY <2>3, <3>1, <3>3
  <2> QED
    BY <2>4, <2>5
<1> QED
  BY <1>2, <1>3

-----------------------------------------------------------------------------
(* The theorems. *)

HandlerInv == TypeOK /\ Busy /\ LockInv /\ AskInv /\ TurnInv /\ NoCardAfterText
WorkerInv == QueueInv /\ LateInv /\ FileInv

LEMMA InitInv == Init => HandlerInv /\ WorkerInv
<1> SUFFICES ASSUME Init PROVE HandlerInv /\ WorkerInv
  OBVIOUS
<1> USE PayloadFacts
<1>1. TypeOK /\ Busy
  BY InitType
<1>2. LockInv
  BY DEF Init, Lock!Init, LockInv, InOwnLine, LineOrder, LineTotal, PastOwns, Past, Running
<1>3. AskInv
  <2>1. AskState /\ CacheState
    BY DeliveryFacts DEF Init, AskState, CacheState
  <2>2. OneCallUnlessDropped
    BY DEF Init, OneCallUnlessDropped, Asked
  <2>3. \A w \in Workers, f \in Fans : pending[w][f] = None
    BY DEF Init
  <2>4. PendingAsks
    BY <2>3 DEF PendingAsks
  <2> QED
    BY <2>1, <2>2, <2>4 DEF AskInv
<1>4. TurnInv /\ NoCardAfterText
  BY DEF Init, TurnInv, InTurn, ClosedSent, NoCardAfterText, Running
<1>5. \A w \in Workers : Len(queue[w]) = 0
  BY DEF Init
<1>6. QueueInv
  BY <1>5 DEF Init, QueueInv, QueueState, Unreplied
<1>7. LateInv
  BY DeliveryFacts DEF Init, LateInv, StaleAsks, StaleCache, MisfitIsLate
<1>8. FileInv
  BY <1>5 DEF Init, FileInv, QueueAsks, SnapFresh
<1> QED
  BY <1>1, <1>2, <1>3, <1>4, <1>6, <1>7, <1>8 DEF HandlerInv, WorkerInv

\* What holds of handlers, the lock, asks and the cache.
LEMMA HandlersInvariant == Spec => []HandlerInv
<1>1. HandlerInv /\ [Next]_vars => HandlerInv'
  BY NextType, NextLock, NextAsk, NextTurn, NextNoCard DEF HandlerInv
<1>2. Init => HandlerInv
  BY InitInv
<1> QED
  BY <1>1, <1>2, PTL DEF Spec

\* What holds of the children's work, of late replies and of session files.
LEMMA WorkersInvariant == Spec => []WorkerInv
<1>1. HandlerInv /\ WorkerInv /\ [Next]_vars => WorkerInv'
  BY NextQueue, NextLate, NextQueueAsks, NextSnapFresh DEF HandlerInv, WorkerInv, FileInv
<1>2. Init => WorkerInv
  BY InitInv
<1> QED
  BY <1>1, <1>2, HandlersInvariant, PTL DEF Spec

\* TypeOK: a handler is at one of its stages, the reply cache never holds a
\* card, a child's queue holds deliveries.
THEOREM TextPathTypeCorrect == Spec => []TypeOK
<1>1. HandlerInv => TypeOK
  BY DEF HandlerInv
<1> QED
  BY <1>1, HandlersInvariant, PTL

\* RetrySameText, although a message that is not cached is classified and
\* routed anew on each POST, and whatever times out, crashes or hangs up: who
\* was answered with a text finds the same text in every later answer
\* (handler.rs:20-22).
THEOREM RetriesAgree == Spec => []RetrySameText
<1>1. HandlerInv => RetrySameText
  <2> SUFFICES ASSUME HandlerInv, NEW d \in Deliveries, NEW e \in Deliveries,
                      Msg(d) = Msg(e), Msg(d) \in WithId, d[2] < e[2],
                      pc[d] = "done", pc[e] = "done", got[d] \notin Cards
               PROVE  got[e] = got[d]
    BY DEF RetrySameText
  <2>1. got[e] \notin Cards
    BY DEF HandlerInv, NoCardAfterText, Later
  <2> QED
    BY <2>1 DEF HandlerInv, AskInv, CacheState
<1> QED
  BY <1>1, HandlersInvariant, PTL

\* A message that has an id is asked twice only if one of the two handlers was
\* dropped by its caller, who hung up: a time-out or a crash alone never
\* repeats a call (docs/USAGE.md:501-503).
THEOREM OneCallOrDropped == Spec => []OneCallUnlessDropped
<1>1. HandlerInv => OneCallUnlessDropped
  BY DEF HandlerInv, AskInv
<1> QED
  BY <1>1, HandlersInvariant, PTL

\* MisfitIsLate, with time-outs, crashes and callers who hang up: whoever gets
\* the reply to another message gets one whose handler is over, in a
\* conversation where an ask timed out, failed or was dropped.
THEOREM MisfitsAreLate == Spec => []MisfitIsLate
<1>1. WorkerInv => MisfitIsLate
  BY DEF WorkerInv, LateInv
<1> QED
  BY <1>1, WorkersInvariant, PTL

\* OverlapIsLate, in every run: two children work on one session file only for
\* a handler that is over, and only where an ask was cut short or a child
\* replies before it saves (config.example.toml:243 says never).
THEOREM SessionsOverlapLate == Spec => []OverlapIsLate
<1>1. HandlerInv /\ WorkerInv => OverlapIsLate
  <2> SUFFICES ASSUME HandlerInv, WorkerInv, NEW f \in Fans,
                      NEW v \in Workers, NEW w \in Workers,
                      v # w, Editing(v, f), Editing(w, f)
               PROVE  /\ \E u \in {v, w} : pc[Current(u)] \in {"done", "dropped"}
                      /\ CutShort(f) \/ "replied" \in {step[v], step[w]}
    BY DEF OverlapIsLate
  <2>1. \A u \in Workers : Editing(u, f) =>
          /\ 1 \in 1..Len(queue[u]) /\ Current(u) = queue[u][1]
          /\ Current(u) \in Deliveries /\ at[Current(u)] = u /\ Fan(Current(u)) = f
    <3> SUFFICES ASSUME NEW u \in Workers, Editing(u, f)
                 PROVE  /\ 1 \in 1..Len(queue[u]) /\ Current(u) = queue[u][1]
                        /\ Current(u) \in Deliveries /\ at[Current(u)] = u
                        /\ Fan(Current(u)) = f
      OBVIOUS
    <3>1. queue[u] \in Seq(Deliveries) /\ queue[u] # <<>>
      BY DEF HandlerInv, TypeOK, Busy, Editing
    <3>2. /\ 1 \in 1..Len(queue[u]) /\ Current(u) = queue[u][1]
          /\ Current(u) \in Deliveries
      BY <3>1, QueueTail DEF Current
    <3>3. at[Current(u)] = u
      BY <3>2 DEF WorkerInv, QueueInv, QueueState
    <3> QED
      BY <3>2, <3>3 DEF Editing
  <2>2. \E u \in {v, w} : pc[Current(u)] \in {"done", "dropped"}
    <3> SUFFICES ASSUME pc[Current(v)] \notin {"done", "dropped"},
                        pc[Current(w)] \notin {"done", "dropped"}
                 PROVE  FALSE
      OBVIOUS
    <3>1. \A u \in {v, w} : at[Current(u)] # None /\ Current(u) \in Deliveries
      BY <2>1, PayloadFacts
    <3>2. Past(Current(v)) /\ Past(Current(w))
      BY <3>1 DEF HandlerInv, TypeOK, AskInv, AskState, Past
    <3>3. Current(v) = Current(w)
      BY <2>1, <3>2, OnePast DEF HandlerInv
    <3> QED
      BY <2>1, <3>3
  <2>3. CutShort(f) \/ "replied" \in {step[v], step[w]}
    BY <2>1, OneChild DEF HandlerInv, WorkerInv, FileInv
  <2> QED
    BY <2>2, <2>3
<1> QED
  BY <1>1, HandlersInvariant, WorkersInvariant, PTL

\* TurnLostIsLate, in every run: while no ask of a conversation was cut short,
\* children that save before they reply never overwrite one of its turns.
THEOREM TurnsLostLate == Spec => TurnLostIsLate
<1> DEFINE Kept == \A f \in Fans :
                     session[f] \subseteq session'[f] \/ CutShort(f) \/ ~saveFirst
<1>1. HandlerInv /\ WorkerInv /\ [Next]_vars => [Kept]_vars
  <2> SUFFICES ASSUME HandlerInv, WorkerInv, [Next]_vars PROVE Kept
    OBVIOUS
  <2>1. CASE UNCHANGED session
    BY <2>1
  <2>2. ASSUME NEW w \in Workers, Save(w), saveFirst PROVE Kept
    <3>1. CutShort(Fan(Current(w))) \/ snap[w] = session[Fan(Current(w))]
      BY <2>2 DEF WorkerInv, FileInv, SnapFresh, Save
    <3>2. \A f \in Fans : f # Fan(Current(w)) => session'[f] = session[f]
      BY <2>2 DEF Save, HandlerInv, TypeOK
    <3>3. Fan(Current(w)) \in Fans =>
            session'[Fan(Current(w))] = snap[w] \cup {Current(w)}
      BY <2>2 DEF Save, HandlerInv, TypeOK
    <3> QED
      BY <3>1, <3>2, <3>3
  <2> QED
    BY <2>1, <2>2
    DEF Next, Deliver, GiveUp, HandlerStep, Lookup, RouteLocally, Ask, CheckoutFails,
        Answered, TimeOut, Respond, Disconnect, Load, Reply, Crash, workerVars, vars
<1> QED
  BY <1>1, HandlersInvariant, WorkersInvariant, PTL DEF Spec, TurnLostIsLate
=============================================================================
