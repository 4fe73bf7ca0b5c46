---------------------------- MODULE WebhookProofs ----------------------------
(***************************************************************************)
(* Proofs about Webhook.  Its properties compare an age in a history with  *)
(* a limit; the code compares the age in a cache, which entries may leave. *)
(* The invariant says that an entry tells the age of the last event and    *)
(* leaves only when that age has reached the limit.                        *)
(***************************************************************************)
EXTENDS Webhook, TLAPS

\* `entries` is what a cache still knows of `history`.
Remembers(entries, history, limit) ==
  \A k \in DOMAIN entries :
    \/ entries[k] # Never /\ entries[k] = history[k]
    \/ entries[k] = Never /\ history[k] \in {Never, limit}

\* Only texts wait or are worked on.
TextsOnly == \A h \in Handlers : pc[h] # "idle" => msg[h] \in Messages

WInv ==
  /\ TypeOK
  /\ TextsOnly
  /\ Remembers(nonces, taken, Window)
  /\ Remembers(cache, stored, Ttl)

-----------------------------------------------------------------------------
(* Lemmas about ages and caches. *)

\* Ages stay in their range as time passes.
LEMMA OlderType ==
  ASSUME NEW max \in Nat, NEW age \in Ages(max)
  PROVE  Older(age, max) \in Ages(max)
BY WebhookAssumption DEF Older, Ages

\* retain() keeps the type of a cache, and what it keeps it leaves unchanged.
LEMMA RetainType ==
  ASSUME NEW K, NEW max \in Nat, NEW entries \in [K -> Ages(max)]
  PROVE  Retain(entries, max) \in [K -> Ages(max)]
BY DEF Retain, Ages

\* As time passes a cache and its history grow old together.
LEMMA TickRemembers ==
  ASSUME NEW K, NEW max \in Nat,
         NEW entries \in [K -> Ages(max)], NEW history \in [K -> Ages(max)],
         Remembers(entries, history, max)
  PROVE  Remembers([k \in K |-> Older(entries[k], max)],
                   [k \in K |-> Older(history[k], max)], max)
BY WebhookAssumption DEF Remembers, Older, Ages

\* retain() forgets only what has reached the limit.
LEMMA RetainRemembers ==
  ASSUME NEW K, NEW max \in Nat,
         NEW entries \in [K -> Ages(max)], NEW history \in [K -> Ages(max)],
         Remembers(entries, history, max)
  PROVE  Remembers(Retain(entries, max), history, max)
BY WebhookAssumption DEF Remembers, Retain, Ages

\* An insertion is noted in both.
LEMMA InsertRemembers ==
  ASSUME NEW K, NEW max \in Nat, NEW k \in K,
         NEW entries \in [K -> Ages(max)], NEW history \in [K -> Ages(max)],
         Remembers(entries, history, max)
  PROVE  Remembers([Retain(entries, max) EXCEPT ![k] = 0],
                   [history EXCEPT ![k] = 0], max)
<1>1. Remembers(Retain(entries, max), history, max)
  BY RetainRemembers
<1>2. Retain(entries, max) \in [K -> Ages(max)]
  BY RetainType
<1> QED
  BY <1>1, <1>2, WebhookAssumption DEF Remembers

-----------------------------------------------------------------------------
(* The invariant. *)

LEMMA InitInv == Init => WInv
BY WebhookAssumption
DEF Init, WInv, TypeOK, TextsOnly, Remembers, Ages, TooOld

LEMMA NextInv == WInv /\ [Next]_vars => WInv'
<1> SUFFICES ASSUME WInv, [Next]_vars
             PROVE  WInv'
  OBVIOUS
<1> USE WebhookAssumption
<1>0. /\ Window \in Nat /\ Ttl \in Nat /\ TooOld \in Nat
      /\ 0 \in Ages(Window) /\ 0 \in Ages(Ttl) /\ 0 \in Ages(TooOld)
  BY DEF TooOld, Ages
<1>T. /\ sent \in [Requests -> Ages(TooOld)]
      /\ nonces \in [Requests -> Ages(Window)]
      /\ taken \in [Requests -> Ages(Window)]
      /\ cache \in [Messages -> Ages(Ttl)]
      /\ stored \in [Messages -> Ages(Ttl)]
      /\ Remembers(nonces, taken, Window)
      /\ Remembers(cache, stored, Ttl)
  BY DEF WInv, TypeOK
<1>R. /\ Retain(nonces, Window) \in [Requests -> Ages(Window)]
      /\ Retain(cache, Ttl) \in [Messages -> Ages(Ttl)]
      /\ Remembers(Retain(nonces, Window), taken, Window)
      /\ Remembers(Retain(cache, Ttl), stored, Ttl)
  BY <1>0, <1>T, RetainType, RetainRemembers
<1>1. CASE Tick
  <2>1. /\ sent' \in [Requests -> Ages(TooOld)]
        /\ nonces' \in [Requests -> Ages(Window)]
        /\ taken' \in [Requests -> Ages(Window)]
        /\ cache' \in [Messages -> Ages(Ttl)]
        /\ stored' \in [Messages -> Ages(Ttl)]
    BY <1>1, <1>0, <1>T, OlderType DEF Tick
  <2>2. Remembers(nonces', taken', Window)
    BY <1>1, <1>0, <1>T, TickRemembers DEF Tick
  <2>3. Remembers(cache', stored', Ttl)
    BY <1>1, <1>0, <1>T, TickRemembers DEF Tick
  <2> QED
    BY <1>1, <2>1, <2>2, <2>3 DEF WInv, TypeOK, TextsOnly, Tick, taskVars
<1>2. CASE Adjust
  BY <1>2 DEF WInv, TypeOK, TextsOnly, Adjust, taskVars
<1>3. CASE Sweep
  BY <1>3, <1>R DEF WInv, TypeOK, TextsOnly, Sweep, taskVars, timeVars
<1>4. ASSUME NEW r \in Requests, Send(r)
      PROVE  WInv'
  BY <1>4, <1>0 DEF WInv, TypeOK, TextsOnly, Send, taskVars
<1>5. ASSUME NEW h \in Handlers, NEW r \in Requests, Refuse(h, r)
      PROVE  WInv'
  BY <1>5, <1>R DEF WInv, TypeOK, TextsOnly, Refuse, taskVars, timeVars
<1>6. ASSUME NEW h \in Handlers, NEW r \in Requests, Arrive(h, r)
      PROVE  WInv'
  <2> PICK m \in Messages \cup {NoMsg}, s \in Shapes : Admit(h, r, m, s)
    BY <1>6 DEF Arrive
  <2>1. /\ nonces' \in [Requests -> Ages(Window)]
        /\ taken' \in [Requests -> Ages(Window)]
    BY <1>0, <1>T, <1>R DEF Admit
  <2>2. Remembers(nonces', taken', Window)
    BY <1>0, <1>T, InsertRemembers DEF Admit
  <2>3. /\ pc' \in [Handlers -> {"idle", "waiting", "working"}]
        /\ msg' \in [Handlers -> Messages \cup {NoMsg}]
        /\ TextsOnly'
    BY DEF Admit, WInv, TypeOK, TextsOnly, taskVars
  <2> QED
    BY <2>1, <2>2, <2>3 DEF WInv, TypeOK, Admit, timeVars
<1>7. ASSUME NEW h \in Handlers, Hit(h)
      PROVE  WInv'
  BY <1>7, <1>R DEF WInv, TypeOK, TextsOnly, Hit, Done, timeVars
<1>8. ASSUME NEW h \in Handlers, Miss(h)
      PROVE  WInv'
  BY <1>8, <1>R DEF WInv, TypeOK, TextsOnly, Miss, timeVars
<1>9. ASSUME NEW h \in Handlers, Store(h)
      PROVE  WInv'
  <2>1. msg[h] \in Messages
    BY <1>9 DEF WInv, TextsOnly, Store
  <2>2. /\ cache' \in [Messages -> Ages(Ttl)]
        /\ stored' \in [Messages -> Ages(Ttl)]
    BY <1>9, <1>0, <1>T, <1>R DEF Store
  <2>3. Remembers(cache', stored', Ttl)
    BY <1>9, <2>1, <1>0, <1>T, InsertRemembers DEF Store
  <2> QED
    BY <1>9, <2>2, <2>3 DEF WInv, TypeOK, TextsOnly, Store, Done, timeVars
<1>10. ASSUME NEW h \in Handlers, Leave(h)
       PROVE  WInv'
  BY <1>10 DEF WInv, TypeOK, TextsOnly, Leave, Done, timeVars
<1>11. CASE UNCHANGED vars
  BY <1>11 DEF WInv, TypeOK, TextsOnly, vars
<1> QED
  BY <1>1, <1>2, <1>3, <1>4, <1>5, <1>6, <1>7, <1>8, <1>9, <1>10, <1>11
  DEF Next

THEOREM WebhookInvariant == Spec => []WInv
BY InitInv, NextInv, PTL DEF Spec

-----------------------------------------------------------------------------
(* The properties. *)

\* Variables keep their types (handler.rs:55-82).
THEOREM WebhookTypeCorrect == Spec => []TypeOK
<1>1. WInv => TypeOK
  BY DEF WInv
<1> QED
  BY <1>1, WebhookInvariant, PTL

\* What retain() drops is as old as the limit.
LEMMA DroppedIsOld ==
  ASSUME NEW K, NEW max \in Nat, NEW k \in K,
         NEW entries \in [K -> Ages(max)], NEW history \in [K -> Ages(max)],
         Remembers(entries, history, max),
         Retain(entries, max)[k] = Never
  PROVE  history[k] \in {Never, max}
BY WebhookAssumption DEF Remembers, Retain, Ages

\* For any window, number of requests and adjustments of the wall clock, the
\* guard lets no request in twice within a window (handler.rs:475-503).
THEOREM AdmissionsFarApart == Spec => RepeatsFarApart
<1>1. ASSUME WInv, NEW h \in Handlers, NEW r \in Requests, Arrive(h, r)
      PROVE  taken[r] \in {Never, Window}
  BY <1>1, DroppedIsOld, WebhookAssumption DEF Arrive, Admit, WInv, TypeOK
<1>2. WInv => [\A h \in Handlers, r \in Requests :
                 Arrive(h, r) => taken[r] \in {Never, Window}]_vars
  BY <1>1
<1> QED
  BY <1>2, WebhookInvariant, PTL DEF RepeatsFarApart

\* For any TTL, a message is worked on again only when the TTL has passed
\* since its last reply was stored (handler.rs:509-528).
THEOREM CallsFarApart == Spec => OneCallPerTtl
<1>1. ASSUME WInv, [Next]_vars, NEW h \in Handlers,
             pc[h] = "waiting", pc'[h] = "working"
      PROVE  Miss(h)
  BY <1>1, Zenon
  DEF Next, vars, Tick, Adjust, Sweep, Send, Refuse, Arrive, Admit, Hit, Miss,
      Store, Leave, Done, taskVars, WInv, TypeOK
<1>2. ASSUME WInv, [Next]_vars, NEW h \in Handlers,
             pc[h] = "waiting", pc'[h] = "working"
      PROVE  stored[msg[h]] \in {Never, Ttl}
  <2>1. Miss(h)
    BY <1>1, <1>2
  <2> QED
    BY <2>1, <1>2, DroppedIsOld, WebhookAssumption DEF Miss, WInv, TypeOK, TextsOnly
<1>3. WInv /\ [Next]_vars =>
        [\A h \in Handlers : pc[h] = "waiting" /\ pc'[h] = "working" =>
           stored[msg[h]] \in {Never, Ttl}]_vars
  BY <1>2
<1> QED
  BY <1>3, WebhookInvariant, PTL DEF OneCallPerTtl, Spec

\* For any TTL, what is served was stored less than a TTL ago, with or
\* without the sweep.
THEOREM ServedIsYoung == Spec => NoExpiredReply
<1>1. ASSUME WInv, NEW h \in Handlers, Hit(h)
      PROVE  stored[msg[h]] \in 0..Ttl-1
  BY <1>1, WebhookAssumption DEF Hit, WInv, TypeOK, TextsOnly, Remembers, Retain, Ages
<1>2. WInv => [\A h \in Handlers :
                 Hit(h) => stored[msg[h]] \in 0..Ttl-1]_vars
  BY <1>1
<1> QED
  BY <1>2, WebhookInvariant, PTL DEF NoExpiredReply
=============================================================================
