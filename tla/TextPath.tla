------------------------------ MODULE TextPath ------------------------------
(***************************************************************************)
(* A text message from WeChat's POST to its reply: handle_message's text   *)
(* branch (dispatch_and_reply, compute_text_payload, ask_with_timeout in   *)
(* src/src/wechat/handler.rs), WeChat's retries, the reply cache, the      *)
(* conversation lock, the workers and the session files they keep.         *)
(*                                                                         *)
(* The lock is PerConvLock, which ConvSerializer implements.  A worker is  *)
(* a bridge and its child, with what Bridge shows of them: asks queue up,  *)
(* the child takes one at a time, and a reply goes to the ask that is      *)
(* pending for the conversation when it arrives.  WeChat and the child     *)
(* are external.                                                           *)
(*                                                                         *)
(* A message that is not in the cache is classified and routed anew on     *)
(* every POST, with the digest and the classifier of that moment, so that  *)
(* what it is and what the router makes of it are chosen each time.        *)
(***************************************************************************)
EXTENDS Naturals, Sequences

CONSTANTS
  Msgs,        \* messages (FromUserName, MsgId)
  Fans,        \* conversation ids
  FanOf,       \* FanOf[m]: the fan who sent m
  Kinds,       \* Kinds[m]: which of "llm", "text" and "news" intent and router may
               \* decide at a POST of m
  WithId,      \* messages that carry a non-empty MsgId
  Deliveries,  \* <<m, k>>: the k-th POST of m
  Workers,     \* bridges of the pool
  NoFan,       \* "no conversation"
  None,        \* "no payload", "no delivery"
  Canned,      \* reply.fallback
  Texts,       \* texts that the router makes of templates and digest
  Cards,       \* news cards that the router makes of the digest
  Timeouts,    \* TRUE iff an ask may take longer than evoclaw.timeout_ms
  Disconnects, \* TRUE iff axum drops handlers whose caller has gone
  Crashes      \* TRUE iff children may exit

Msg(d) == d[1]
Fan(d) == FanOf[d[1]]

ASSUME TextPathAssumption ==
  /\ FanOf \in [Msgs -> Fans]
  /\ Kinds \in [Msgs -> (SUBSET {"llm", "text", "news"}) \ {{}}]
  /\ WithId \subseteq Msgs
  /\ Deliveries \subseteq Msgs \X (Nat \ {0})
  /\ NoFan \notin Fans
  /\ ({None, Canned} \cup Texts \cup Cards) \cap Deliveries = {}
  /\ None \notin Workers \cup {Canned} \cup Texts \cup Cards
  /\ Cards \cap ({Canned} \cup Texts) = {}
  /\ {Timeouts, Disconnects, Crashes} \subseteq BOOLEAN

VARIABLES
  wants,    \* the conversation lock (PerConvLock) ...
  ahead,    \* ... and its queues
  pc,       \* where the handler of each delivery is
  closed,   \* deliveries whose reply WeChat no longer waits for
  got,      \* got[d]: d's payload; an LLM reply is the delivery it was made for
  cache,    \* cache[m]: reply_cache entry of m, or None
  at,       \* at[d]: the worker d asks, or None
  pending,  \* pending[w][f]: the delivery whose ask waits at w for f, or None
  queue,    \* queue[w]: what w's child has been sent and not finished
  step,     \* step[w]: what the child has done of the first in its queue
  snap,     \* snap[w]: the history that the child loaded for it
  session,  \* session[f]: the turns (deliveries) in f's session file
  saveFirst \* TRUE iff children save a session before they reply; never changes

lockVars == <<wants, ahead>>
workerVars == <<queue, step, snap, session, saveFirst>>
vars == <<lockVars, pc, closed, got, cache, at, pending, workerVars>>

Lock == INSTANCE PerConvLock WITH Tasks <- Deliveries, Cids <- Fans, NoCid <- NoFan

Payloads == Deliveries \cup {Canned} \cup Texts \cup Cards

TypeOK ==
  /\ wants \in [Deliveries -> Fans \cup {NoFan}]
  /\ ahead \in [Deliveries -> SUBSET Deliveries]
  /\ pc \in [Deliveries -> {"unsent", "waiting", "routing", "asking", "answered",
                            "done", "dropped"}]
  /\ closed \in SUBSET Deliveries
  /\ got \in [Deliveries -> Payloads \cup {None}]
  /\ cache \in [Msgs -> (Payloads \ Cards) \cup {None}]
  /\ at \in [Deliveries -> Workers \cup {None}]
  /\ pending \in [Workers -> [Fans -> Deliveries \cup {None}]]
  /\ queue \in [Workers -> Seq(Deliveries)]
  /\ step \in [Workers -> {"idle", "loaded", "saved", "replied"}]
  /\ snap \in [Workers -> SUBSET Deliveries]
  /\ session \in [Fans -> SUBSET Deliveries]
  /\ saveFirst \in BOOLEAN

Init ==
  /\ Lock!Init
  /\ pc = [d \in Deliveries |-> "unsent"]
  /\ closed = {}
  /\ got = [d \in Deliveries |-> None]
  /\ cache = [m \in Msgs |-> None]
  /\ at = [d \in Deliveries |-> None]
  /\ pending = [w \in Workers |-> [f \in Fans |-> None]]
  /\ queue = [w \in Workers |-> <<>>]
  /\ step = [w \in Workers |-> "idle"]
  /\ snap = [w \in Workers |-> {}]
  /\ session = [f \in Fans |-> {}]
  /\ saveFirst \in BOOLEAN

-----------------------------------------------------------------------------
(* WeChat. *)

Running(d) == pc[d] \in {"waiting", "routing", "asking", "answered"}

\* A first POST, or the retry after the one before was given up.
Deliver(d) ==
  /\ pc[d] = "unsent"
  /\ d[2] > 1 => <<Msg(d), d[2] - 1>> \in closed
  /\ pc' = [pc EXCEPT ![d] = "waiting"]
  /\ Lock!Enter(d, Fan(d))
  /\ UNCHANGED <<closed, got, cache, at, pending, workerVars>>

\* Five seconds are over.
GiveUp(d) ==
  /\ Running(d)
  /\ d \notin closed
  /\ closed' = closed \cup {d}
  /\ UNCHANGED <<lockVars, pc, got, cache, at, pending, workerVars>>

-----------------------------------------------------------------------------
(* The handler of one delivery. *)

\* The guard of d's ask, if it is in one, removes the entry of d's key.
Withdraw(d) ==
  pending' = IF at[d] = None THEN pending
             ELSE [pending EXCEPT ![at[d]][Fan(d)] = None]

StoreAnswers(d, p) ==  \* a variant that does not cache the canned text
  cache' = IF Msg(d) \in WithId /\ p \notin Cards \cup {Canned}
           THEN [cache EXCEPT ![Msg(d)] = p] ELSE cache

\* store_reply(): text payloads of messages with an id.
Store(d, p) ==
  cache' = IF Msg(d) \in WithId /\ p \notin Cards
           THEN [cache EXCEPT ![Msg(d)] = p] ELSE cache

LookupAtOnce(d) ==  \* a variant that does not wait for the lock
  /\ pc[d] = "waiting"
  /\ LET hit == Msg(d) \in WithId /\ cache[Msg(d)] # None
     IN  /\ pc' = [pc EXCEPT ![d] = IF hit THEN "answered" ELSE "routing"]
         /\ got' = IF hit THEN [got EXCEPT ![d] = cache[Msg(d)]] ELSE got
  /\ UNCHANGED <<lockVars, closed, cache, at, pending, workerVars>>

\* The conversation's lock is ours; lookup_cached_reply().
Lookup(d) ==
  /\ pc[d] = "waiting"
  /\ Lock!Owns(d)
  /\ LET hit == Msg(d) \in WithId /\ cache[Msg(d)] # None
     IN  /\ pc' = [pc EXCEPT ![d] = IF hit THEN "answered" ELSE "routing"]
         /\ got' = IF hit THEN [got EXCEPT ![d] = cache[Msg(d)]] ELSE got
  /\ UNCHANGED <<lockVars, closed, cache, at, pending, workerVars>>

\* compute_text_payload() returns p, having cached it.
Payload(d, p) ==
  /\ pc' = [pc EXCEPT ![d] = "answered"]
  /\ got' = [got EXCEPT ![d] = p]
  /\ Store(d, p)

\* The router answers by itself, as the message is understood this time.
RouteLocally(d) ==
  /\ pc[d] = "routing"
  /\ \/ "text" \in Kinds[Msg(d)] /\ \E p \in Texts : Payload(d, p)
     \/ "news" \in Kinds[Msg(d)] /\ \E p \in Cards : Payload(d, p)
  /\ UNCHANGED <<lockVars, closed, at, pending, workerVars>>

\* checkout() and ask(): registered at a worker, and written to its child.
Ask(d) ==
  /\ pc[d] = "routing"
  /\ "llm" \in Kinds[Msg(d)]
  /\ \E w \in Workers :
       /\ at' = [at EXCEPT ![d] = w]
       /\ pending' = [pending EXCEPT ![w][Fan(d)] = d]
       /\ queue' = [queue EXCEPT ![w] = Append(@, d)]
  /\ pc' = [pc EXCEPT ![d] = "asking"]
  /\ UNCHANGED <<lockVars, closed, got, cache, step, snap, session, saveFirst>>

\* checkout() finds no live bridge: canned text.
CheckoutFails(d) ==
  /\ Crashes
  /\ pc[d] = "routing"
  /\ "llm" \in Kinds[Msg(d)]
  /\ Payload(d, Canned)
  /\ UNCHANGED <<lockVars, closed, at, pending, workerVars>>

\* ask() has an answer (or an error, which became the canned text).
Answered(d) ==
  /\ pc[d] = "asking"
  /\ got[d] # None
  /\ Payload(d, got[d])
  /\ UNCHANGED <<lockVars, closed, at, pending, workerVars>>

\* timeout() fires: the ask is dropped, the canned text is the payload.
TimeOut(d) ==
  /\ Timeouts
  /\ pc[d] = "asking"
  /\ got[d] = None
  /\ Withdraw(d)
  /\ Payload(d, Canned)
  /\ UNCHANGED <<lockVars, closed, at, workerVars>>

\* The response is sent and the conversation's lock released.
Respond(d) ==
  /\ pc[d] = "answered"
  /\ pc' = [pc EXCEPT ![d] = "done"]
  /\ Lock!Leave(d)
  /\ UNCHANGED <<closed, got, cache, at, pending, workerVars>>

DisconnectHolding(d) ==  \* a variant that keeps the lock
  /\ Disconnects
  /\ d \in closed
  /\ pc[d] \in {"waiting", "routing", "asking"}
  /\ pc' = [pc EXCEPT ![d] = "dropped"]
  /\ Withdraw(d)
  /\ UNCHANGED <<lockVars, closed, got, cache, at, workerVars>>

\* The caller has gone: the handler is dropped at one of its awaits.
Disconnect(d) ==
  /\ Disconnects
  /\ d \in closed
  /\ pc[d] \in {"waiting", "routing", "asking"}
  /\ pc' = [pc EXCEPT ![d] = "dropped"]
  /\ Lock!Leave(d)
  /\ Withdraw(d)
  /\ UNCHANGED <<closed, got, cache, at, workerVars>>

-----------------------------------------------------------------------------
(* The child of worker w (external), with tests/integration_session.rs:91- *)
(* 137 as its description, which saves a turn before it replies.           *)
(* docs/USAGE.md:726 has it reply first.  A run has one or the other.      *)

Current(w) == Head(queue[w])

Finish(w) == queue' = [queue EXCEPT ![w] = Tail(@)]

\* It takes the next message and loads the fan's history.
Load(w) ==
  /\ step[w] = "idle"
  /\ queue[w] # <<>>
  /\ step' = [step EXCEPT ![w] = "loaded"]
  /\ snap' = [snap EXCEPT ![w] = session[Fan(Current(w))]]
  /\ UNCHANGED <<lockVars, pc, closed, got, cache, at, pending, queue, session, saveFirst>>

\* It replaces the session file by what it loaded and the new turn.
Save(w) ==
  /\ step[w] = (IF saveFirst THEN "loaded" ELSE "replied")
  /\ session' = [session EXCEPT ![Fan(Current(w))] = snap[w] \cup {Current(w)}]
  /\ IF saveFirst THEN step' = [step EXCEPT ![w] = "saved"] /\ UNCHANGED queue
                  ELSE step' = [step EXCEPT ![w] = "idle"] /\ Finish(w)
  /\ UNCHANGED <<lockVars, pc, closed, got, cache, at, pending, snap, saveFirst>>

\* It replies, and the reader hands the reply to who is pending for the fan.
Reply(w) ==
  /\ step[w] = (IF saveFirst THEN "saved" ELSE "loaded")
  /\ LET f == Fan(Current(w))
     IN  /\ got' = [d \in Deliveries |->
                      IF d = pending[w][f] THEN Current(w) ELSE got[d]]
         /\ pending' = [pending EXCEPT ![w][f] = None]
  /\ IF saveFirst THEN step' = [step EXCEPT ![w] = "idle"] /\ Finish(w)
                  ELSE step' = [step EXCEPT ![w] = "replied"] /\ UNCHANGED queue
  /\ UNCHANGED <<lockVars, pc, closed, cache, at, snap, session, saveFirst>>

\* It exits: its bridge fails every ask, and is replaced before it is used
\* again.
Crash(w) ==
  /\ Crashes
  /\ queue[w] # <<>>
  /\ got' = [d \in Deliveries |->
               IF \E f \in Fans : pending[w][f] = d THEN Canned ELSE got[d]]
  /\ pending' = [pending EXCEPT ![w] = [f \in Fans |-> None]]
  /\ queue' = [queue EXCEPT ![w] = <<>>]
  /\ step' = [step EXCEPT ![w] = "idle"]
  /\ UNCHANGED <<lockVars, pc, closed, cache, at, snap, session, saveFirst>>

-----------------------------------------------------------------------------
HandlerStep(d) ==
  \/ Lookup(d)
  \/ RouteLocally(d)
  \/ Ask(d)
  \/ CheckoutFails(d)
  \/ Answered(d)
  \/ TimeOut(d)
  \/ Respond(d)

Next ==
  \/ \E d \in Deliveries : Deliver(d) \/ GiveUp(d) \/ HandlerStep(d) \/ Disconnect(d)
  \/ \E w \in Workers : Load(w) \/ Save(w) \/ Reply(w) \/ Crash(w)

Spec == Init /\ [][Next]_vars

\* The runtime runs handlers, and timeouts fire.  Children may hang, WeChat
\* may do as it likes.
FairSpec == Spec /\ \A d \in Deliveries : WF_vars(HandlerStep(d))

-----------------------------------------------------------------------------
(* Properties. *)

Asked(m) == {d \in Deliveries : Msg(d) = m /\ at[d] # None}

\* "No repeated LLM call" for a retried message (docs/USAGE.md:501-503), but
\* for one thing: the first handler was dropped with its caller's connection.
\* Neither a timeout nor a crash makes a retry ask again.
OneCallUnlessDropped ==
  \A m \in WithId : \A d, e \in Asked(m) : d # e => "dropped" \in {pc[d], pc[e]}

\* Once a POST of a message was answered with a text, canned ones included,
\* every later POST of it is answered with the same, whatever the message
\* would be taken for by then, and whatever times out, crashes or hangs up: a
\* retry looks at the cache under the lock (handler.rs:20-22, 360-362).
RetrySameText ==
  \A d, e \in Deliveries :
    /\ Msg(d) = Msg(e) /\ Msg(d) \in WithId /\ d[2] < e[2]
    /\ pc[d] = "done" /\ pc[e] = "done"
    /\ got[d] \notin Cards
    => got[e] = got[d]

\* A conversation in which an ask failed, timed out or was dropped: its child
\* may still be working on it when the next message comes.
CutShort(f) ==
  \E e \in Deliveries :
    Fan(e) = f /\ at[e] # None /\ (got[e] = Canned \/ pc[e] = "dropped")

\* An LLM reply that does not fit is older than the message: its own handler
\* had timed out or gone, or was itself answered with an older one.
MisfitIsLate ==
  \A d \in Deliveries : got[d] \in Deliveries /\ Msg(got[d]) # Msg(d) =>
    /\ pc[got[d]] \in {"done", "dropped"}
    /\ CutShort(Fan(d))

\* Whether w has loaded, and will write back, the session of f.
Editing(w, f) ==
  step[w] \in {"loaded", "replied"} /\ Fan(Current(w)) = f

\* config.example.toml:243 promises that two children never work on one session
\* file.  They do in two cases only, and then one of them for a handler that is
\* over: an ask of the conversation was cut short, or a child that replies
\* first still has to save what it replied.
OverlapIsLate ==
  \A f \in Fans : \A v, w \in Workers :
    v # w /\ Editing(v, f) /\ Editing(w, f) =>
      /\ \E u \in {v, w} : pc[Current(u)] \in {"done", "dropped"}
      /\ CutShort(f) \/ "replied" \in {step[v], step[w]}

\* A turn of a conversation is overwritten only after one of its asks was cut
\* short, or by a child that replies before it saves (docs/USAGE.md:726).
TurnLostIsLate ==
  [][\A f \in Fans : session[f] \subseteq session'[f] \/ CutShort(f) \/ ~saveFirst]_vars

\* Every POST is answered or abandoned by its caller, even if every child
\* hangs.
EveryPostAnswered ==
  \A d \in Deliveries : Running(d) ~> pc[d] \in {"done", "dropped"}
=============================================================================
