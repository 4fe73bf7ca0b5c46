------------------------------- MODULE Webhook -------------------------------
(***************************************************************************)
(* The webhook's door (src/src/wechat/handler.rs:185-353, 468-566): the    *)
(* replay guard, the decision whether a POST is dispatched, the reply      *)
(* cache with its expiry, and the sweep of both caches, under two clocks.  *)
(* TextPath is about the locks and the LLM behind it and lets no entry     *)
(* expire.                                                                 *)
(*                                                                         *)
(* Instant is monotonic, so it is modelled by ages that grow together:     *)
(* an age of n means that n ticks or more have passed if n is its largest  *)
(* value.  SystemTime is that clock and an offset that may be adjusted.    *)
(***************************************************************************)
EXTENDS Integers

CONSTANTS
  Requests,  \* what a timestamp and a nonce identify; POSTs may be delivered
             \* late or several times
  Messages,  \* text messages; WeChat's retry is another request for one
  Mode,      \* wechat.encrypt_mode
  Handlers,  \* tasks that serve POSTs
  Window,    \* REPLAY_WINDOW_SECS, in ticks
  Ttl,       \* REPLY_CACHE_TTL, in ticks
  MaxSkew,   \* bound: ticks between the wall clock and WeChat's
  NoMsg,     \* blank text, event or another kind: answered at once
  Never      \* "no entry"

\* What the signatures and the body of a POST turn out to be.
Shapes == [sig: BOOLEAN, msgSig: BOOLEAN, encrypted: BOOLEAN, opens: BOOLEAN]

\* The age at which a request is outside the window whatever the clock says.
TooOld == Window + MaxSkew + 1

ASSUME WebhookAssumption ==
  /\ Mode \in {"plain", "compatible", "safe"}
  /\ Window \in Nat \ {0}
  /\ Ttl \in Nat \ {0}
  /\ MaxSkew \in Nat
  /\ NoMsg \notin Messages
  /\ Never \notin Int

VARIABLES
  sent,    \* sent[r]: ticks since WeChat stamped r
  skew,    \* wall clock minus WeChat's clock
  nonces,  \* nonce_cache: ticks since r's nonce was inserted
  cache,   \* reply_cache: ticks since m's reply was inserted
  pc,      \* idle -> waiting (for the lock) -> working (on the reply) -> idle
  msg,     \* msg[h]: the message that h serves
  taken,   \* history: taken[r]: ticks since the guard last let r in
  stored   \* history: stored[m]: ticks since a reply to m was last stored

vars == <<sent, skew, nonces, cache, pc, msg, taken, stored>>
timeVars == <<sent, skew>>
taskVars == <<pc, msg>>

Ages(max) == 0..max \cup {Never}

TypeOK ==
  /\ sent \in [Requests -> Ages(TooOld)]
  /\ skew \in -MaxSkew..MaxSkew
  /\ nonces \in [Requests -> Ages(Window)]
  /\ cache \in [Messages -> Ages(Ttl)]
  /\ pc \in [Handlers -> {"idle", "waiting", "working"}]
  /\ msg \in [Handlers -> Messages \cup {NoMsg}]
  /\ taken \in [Requests -> Ages(Window)]
  /\ stored \in [Messages -> Ages(Ttl)]

Init ==
  /\ sent = [r \in Requests |-> Never]
  /\ skew = 0
  /\ nonces = [r \in Requests |-> Never]
  /\ cache = [m \in Messages |-> Never]
  /\ pc = [h \in Handlers |-> "idle"]
  /\ msg = [h \in Handlers |-> NoMsg]
  /\ taken = [r \in Requests |-> Never]
  /\ stored = [m \in Messages |-> Never]

-----------------------------------------------------------------------------
(* The clocks and WeChat (external). *)

Older(age, max) ==
  IF age = Never THEN Never ELSE IF age < max THEN age + 1 ELSE max

Tick ==
  /\ sent' = [r \in Requests |-> Older(sent[r], TooOld)]
  /\ nonces' = [r \in Requests |-> Older(nonces[r], Window)]
  /\ cache' = [m \in Messages |-> Older(cache[m], Ttl)]
  /\ taken' = [r \in Requests |-> Older(taken[r], Window)]
  /\ stored' = [m \in Messages |-> Older(stored[m], Ttl)]
  /\ UNCHANGED <<skew, taskVars>>

\* The wall clock is adjusted.
Adjust ==
  /\ skew' \in -MaxSkew..MaxSkew
  /\ UNCHANGED <<sent, nonces, cache, taskVars, taken, stored>>

Send(r) ==
  /\ sent[r] = Never
  /\ sent' = [sent EXCEPT ![r] = 0]
  /\ UNCHANGED <<skew, nonces, cache, taskVars, taken, stored>>

-----------------------------------------------------------------------------
(* The caches. *)

\* retain(): entries younger than the limit.
Retain(entries, limit) ==
  [k \in DOMAIN entries |->
     IF entries[k] # Never /\ entries[k] < limit THEN entries[k] ELSE Never]

\* Mutants of Sweep: one limit for both caches; the reply cache is cleared;
\* the nonces are left to the next request.
SweepByTtl ==
  /\ cache' = Retain(cache, Ttl)
  /\ nonces' = Retain(nonces, Ttl)
  /\ UNCHANGED <<timeVars, taskVars, taken, stored>>

SweepAll ==
  /\ cache' = [m \in Messages |-> Never]
  /\ nonces' = Retain(nonces, Window)
  /\ UNCHANGED <<timeVars, taskVars, taken, stored>>

SweepReplies ==
  /\ cache' = Retain(cache, Ttl)
  /\ UNCHANGED <<timeVars, nonces, taskVars, taken, stored>>

\* gc_caches(), by the background task.
Sweep ==
  /\ cache' = Retain(cache, Ttl)
  /\ nonces' = Retain(nonces, Window)
  /\ UNCHANGED <<timeVars, taskVars, taken, stored>>

-----------------------------------------------------------------------------
(* handle_message() *)

\* |now - ts| is at most the window, by the wall clock.
InWindow(r) == sent[r] + skew \in -Window..Window

\* The signature that the mode and the body call for is right, and the body
\* can be decrypted.  The key is there: without it the server does not start.
Verified(s) ==
  \/ /\ Mode = "plain" \/ (Mode = "compatible" /\ ~s.encrypted)
     /\ s.sig
  \/ /\ Mode # "plain"
     /\ s.encrypted /\ s.msgSig /\ s.opens

\* check_replay() refuses: outside of the window nothing is touched, a nonce
\* that is known costs the expired ones.
Refuse(h, r) ==
  /\ pc[h] = "idle"
  /\ sent[r] # Never
  /\ \/ ~InWindow(r) /\ UNCHANGED nonces
     \/ /\ InWindow(r)
        /\ nonces' = Retain(nonces, Window)
        /\ nonces'[r] # Never
  /\ UNCHANGED <<timeVars, cache, taskVars, taken, stored>>

\* check_replay() lets r in, before any signature is looked at; a text whose
\* POST is verified joins the queue of its conversation, the rest is answered
\* or refused at once.
Admit(h, r, m, s) ==
  /\ pc[h] = "idle"
  /\ sent[r] # Never
  /\ InWindow(r)
  /\ Retain(nonces, Window)[r] = Never
  /\ nonces' = [Retain(nonces, Window) EXCEPT ![r] = 0]
  /\ taken' = [taken EXCEPT ![r] = 0]
  /\ IF Verified(s) /\ m # NoMsg
     THEN /\ pc' = [pc EXCEPT ![h] = "waiting"]
          /\ msg' = [msg EXCEPT ![h] = m]
     ELSE UNCHANGED taskVars
  /\ UNCHANGED <<timeVars, cache, stored>>

Arrive(h, r) == \E m \in Messages \cup {NoMsg}, s \in Shapes : Admit(h, r, m, s)

-----------------------------------------------------------------------------
(* The reply cache, under the conversation's lock. *)

\* All requests for a message are of one conversation.
Locked(m) == \E h \in Handlers : pc[h] = "working" /\ msg[h] = m

Done(h) ==
  /\ pc' = [pc EXCEPT ![h] = "idle"]
  /\ msg' = [msg EXCEPT ![h] = NoMsg]

\* Mutant of Hit: expired entries are left to the sweep.
HitUnpruned(h) ==
  /\ pc[h] = "waiting"
  /\ ~Locked(msg[h])
  /\ cache[msg[h]] # Never
  /\ Done(h)
  /\ UNCHANGED <<timeVars, nonces, cache, taken, stored>>

\* lookup_cached_reply() finds the reply.
Hit(h) ==
  /\ pc[h] = "waiting"
  /\ ~Locked(msg[h])
  /\ cache' = Retain(cache, Ttl)
  /\ cache'[msg[h]] # Never
  /\ Done(h)
  /\ UNCHANGED <<timeVars, nonces, taken, stored>>

\* It finds none: the message is classified, routed and maybe put to the LLM.
Miss(h) ==
  /\ pc[h] = "waiting"
  /\ ~Locked(msg[h])
  /\ cache' = Retain(cache, Ttl)
  /\ cache'[msg[h]] = Never
  /\ pc' = [pc EXCEPT ![h] = "working"]
  /\ UNCHANGED <<timeVars, nonces, msg, taken, stored>>

\* store_reply()
Store(h) ==
  /\ pc[h] = "working"
  /\ cache' = [Retain(cache, Ttl) EXCEPT ![msg[h]] = 0]
  /\ stored' = [stored EXCEPT ![msg[h]] = 0]
  /\ Done(h)
  /\ UNCHANGED <<timeVars, nonces, taken>>

\* News is not stored, and a handler whose connection is closed may be
\* dropped at an await: in the queue, or while it works on the reply.
Leave(h) ==
  /\ pc[h] # "idle"
  /\ Done(h)
  /\ UNCHANGED <<timeVars, nonces, cache, taken, stored>>

-----------------------------------------------------------------------------
Next ==
  \/ Tick
  \/ Adjust
  \/ Sweep
  \/ \E r \in Requests : Send(r)
  \/ \E h \in Handlers, r \in Requests : Refuse(h, r) \/ Arrive(h, r)
  \/ \E h \in Handlers : Hit(h) \/ Miss(h) \/ Store(h) \/ Leave(h)

Spec == Init /\ [][Next]_vars

\* Time passes and the background task runs.
FairSpec == Spec /\ WF_vars(Tick) /\ WF_vars(Sweep)

-----------------------------------------------------------------------------
(* Properties. *)

\* The guard lets a request in again only when the window has passed since
\* it let it in last, whatever is swept and however the wall clock is set
\* (handler.rs:475-484, 499).
RepeatsFarApart ==
  [][\A h \in Handlers, r \in Requests :
       Arrive(h, r) => taken[r] \in {Never, Window}]_vars

\* The work for a message is begun again only if its last reply, if there is
\* one, was stored a TTL ago or earlier (handler.rs:71-72, 545).
OneCallPerTtl ==
  [][\A h \in Handlers :
       pc[h] = "waiting" /\ pc'[h] = "working" =>
         stored[msg[h]] \in {Never, Ttl}]_vars

\* A cached reply that is served was stored less than a TTL ago, though nobody
\* swept the cache in between (handler.rs:509-514).
NoExpiredReply ==
  [][\A h \in Handlers :
       Hit(h) => stored[msg[h]] \in 0..Ttl-1]_vars

\* No entry is left behind when traffic stops: the sweep empties both caches
\* ("burst then idle", handler.rs:535-540).
EntriesExpire ==
  /\ \A r \in Requests : nonces[r] # Never ~> nonces[r] = Never
  /\ \A m \in Messages : cache[m] # Never ~> cache[m] = Never
=============================================================================
