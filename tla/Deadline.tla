------------------------------ MODULE Deadline ------------------------------
(***************************************************************************)
(* Time budgets of one fan's text messages (src/src/wechat/handler.rs:     *)
(* 292-466, src/src/intent/ai.rs:108-158): WeChat waits five seconds for a *)
(* POST and then sends it again, up to three times in all; the handler     *)
(* waits for the lock of the conversation, then at most                    *)
(* intent.ai_timeout_ms for the classifier, then at most                   *)
(* evoclaw.timeout_ms for the answer.                                      *)
(*                                                                         *)
(* Time goes by in ticks of TickMs.  What takes no time to speak of        *)
(* happens before the next tick: the steps between two waits, the FIFO     *)
(* hand-over of the lock (see PerConvLock) and checkout() when no spawn is *)
(* slow.  A child may answer at any time, or never.                        *)
(***************************************************************************)
EXTENDS Config, Sequences, SequencesExt

CONSTANTS
  Messages,     \* messages of the fan
  MaxAttempts,  \* times that WeChat sends a message
  TickMs,       \* length of a tick; every time of the configuration is so many
  WeChatMs      \* how long WeChat waits: 5000

ASSUME DeadlineAssumption ==
  /\ {MaxAttempts, TickMs, WeChatMs} \subseteq Nat \ {0}
  /\ MaxAttempts >= 2
  /\ WeChatMs > MaxTimeout
  /\ \A c \in Files : \A t \in {c.evoclaw.timeout_ms, c.intent.ai_timeout_ms} :
       t \in Nat /\ \E n \in 0..t : t = n * TickMs

Deliveries == Messages \X (1..MaxAttempts)

VARIABLES
  queue,    \* deliveries that have a handler; the first one has the lock
  stage,    \* what the first one does
  conn,     \* conn[d]: WeChat's end of the delivery
  clock,    \* clock[d]: ticks since the POST, while the connection is open
  timer,    \* ticks since the classifier or the LLM was asked
  cached,   \* messages with an entry in the reply cache
  dropped,  \* history: deliveries whose handler was dropped
  behind    \* history: deliveries queued behind another message

deadlineVars ==
  <<queue, stage, conn, clock, timer, cached, dropped, behind>>

DeadlineType ==
  /\ queue \in Seq(Deliveries)
  /\ IsInjective(queue)
  /\ stage \in {"lookup", "classify", "ask"}
  /\ conn \in [Deliveries -> {"none", "open", "answered", "late"}]
  /\ clock \in [Deliveries -> Nat]
  /\ \A d \in Deliveries : clock[d] * TickMs < WeChatMs + TickMs
  /\ timer \in Nat
  /\ cached \subseteq Messages
  /\ dropped \subseteq Deliveries
  /\ behind \subseteq Deliveries

DeadlineInit ==
  /\ queue = <<>>
  /\ stage = "lookup"
  /\ conn = [d \in Deliveries |-> "none"]
  /\ clock = [d \in Deliveries |-> 0]
  /\ timer = 0
  /\ cached = {}
  /\ dropped = {}
  /\ behind = {}

-----------------------------------------------------------------------------
At(s) == queue # <<>> /\ stage = s

\* Bug: a key of the reply cache that every POST has for itself.
PostKey == Head(queue)

\* The message that is worked on, the key of the reply cache.
Msg == Head(queue)[1]

\* How long tokio::time::timeout() lets the current wait last.
Budget == IF stage = "classify" THEN cfg.intent.ai_timeout_ms ELSE cfg.evoclaw.timeout_ms

Expired == timer * TickMs >= Budget

\* The lock is handed on.
HandOver(q) ==
  /\ queue' = q
  /\ stage' = "lookup"
  /\ timer' = 0

\* dispatch_and_reply() responds; a text is stored, a news card is not.
Respond(stores) ==
  LET d == Head(queue) IN
  /\ conn' = [conn EXCEPT ![d] = IF @ = "open" THEN "answered" ELSE @]
  /\ clock' = [clock EXCEPT ![d] = 0]
  /\ cached' = cached \cup {m \in {Msg} : stores}
  /\ HandOver(Tail(queue))
  /\ UNCHANGED <<dropped, behind>>

Enter(next) ==
  /\ stage' = next
  /\ timer' = 0
  /\ UNCHANGED <<queue, conn, clock, cached, dropped, behind>>

\* The lookup, and on a miss the dictionary.
Hit == At("lookup") /\ Msg \in cached /\ Respond(TRUE)

Miss ==
  /\ At("lookup")
  /\ Msg \notin cached
  /\ \/ ~cfg.intent.enabled /\ Enter("ask")
     \/ Classifies(cfg) /\ Enter("classify")
     \/ cfg.intent.enabled /\ \E stores \in BOOLEAN : Respond(stores)

\* The classifier answers or fails.
Classified ==
  /\ At("classify")
  /\ \/ Enter("ask")
     \/ \E stores \in BOOLEAN : Respond(stores)

\* Intent::unknown(): the fan gets the text for what is not understood.
ClassifierTimeOut == At("classify") /\ Expired /\ Respond(TRUE)

\* The bridge answers or fails.
Answered == At("ask") /\ Respond(TRUE)

\* Bug: only a connected fan's ask is timed.
AskTimeOutIfOpen ==
  At("ask") /\ Expired /\ conn[Head(queue)] = "open" /\ Respond(TRUE)

AskTimeOut == At("ask") /\ Expired /\ Respond(TRUE)

Post(m, k) ==
  LET d == <<m, k>> IN
  /\ conn[d] = "none"
  /\ k > 1 => conn[<<m, k - 1>>] = "late"
  /\ conn' = [conn EXCEPT ![d] = "open"]
  /\ queue' = Append(queue, d)
  /\ behind' = behind \cup {x \in {d} : \E i \in DOMAIN queue : queue[i][1] # m}
  /\ UNCHANGED <<stage, clock, timer, cached, dropped>>

\* WeChat hangs up.
Close(d) ==
  /\ conn[d] = "open"
  /\ clock[d] * TickMs >= WeChatMs
  /\ conn' = [conn EXCEPT ![d] = "late"]
  /\ clock' = [clock EXCEPT ![d] = 0]
  /\ UNCHANGED <<queue, stage, timer, cached, dropped, behind>>

\* The server notices and drops the handler, wherever it waits.
Drop(d) ==
  /\ conn[d] = "late"
  /\ \E i \in DOMAIN queue :
       /\ queue[i] = d
       /\ IF i = 1 THEN HandOver(Tail(queue))
          ELSE queue' = RemoveAt(queue, i) /\ UNCHANGED <<stage, timer>>
  /\ dropped' = dropped \cup {d}
  /\ UNCHANGED <<conn, clock, cached, behind>>

Open == {d \in Deliveries : conn[d] = "open"}

Tick ==
  /\ queue # <<>>
  /\ stage # "lookup"
  /\ ~Expired
  /\ \A d \in Open : clock[d] * TickMs < WeChatMs
  /\ clock' = [d \in Deliveries |-> clock[d] + (IF d \in Open THEN 1 ELSE 0)]
  /\ timer' = timer + 1
  /\ UNCHANGED <<queue, stage, conn, cached, dropped, behind>>

\* What a handler does by itself, whatever the child does.
HandlerStep == Hit \/ Miss \/ ClassifierTimeOut \/ AskTimeOut

DeadlineStep ==
  \/ HandlerStep
  \/ Classified
  \/ Answered
  \/ \E d \in Deliveries : Close(d) \/ Drop(d)
  \/ Tick

-----------------------------------------------------------------------------
(* Properties. *)

Late(d) == conn[d] = "late"

\* Classifier and answer together may take as long as WeChat waits.
Overlong ==
  Classifies(cfg) /\ cfg.intent.ai_timeout_ms + cfg.evoclaw.timeout_ms >= WeChatMs

\* A first POST that finds the conversation free is answered in time, unless
\* the classifier takes its share: the answer alone always leaves room, which
\* is what validate() sees to (config.rs:614-619).
LateNeedsCause ==
  \A m \in Messages :
    Late(<<m, 1>>) => <<m, 1>> \in behind \/ Overlong

\* WeChat's second POST of a message is answered in time, out of the cache if
\* the first one has the answer by then, however long the two waits are that
\* validate() accepts (config.rs:645-655): it is late only if a handler of the
\* message was dropped, or had to wait for another message.
RetryLateNeedsCause ==
  \A m \in Messages :
    Late(<<m, 2>>) =>
      \E k \in {1, 2} : <<m, k>> \in dropped \cup behind
=============================================================================
