---------------------------- MODULE BridgeProofs ----------------------------
(***************************************************************************)
(* Proofs about Bridge for any set of asks and conversations and pipes of  *)
(* any size: type correctness, no leak, isolation of conversations, an ask *)
(* fails only on a dead bridge, nobody hangs on a child that exited, only  *)
(* cancelled writes tear lines, and only a cancelled ask lets another one  *)
(* have its reply.                                                         *)
(*                                                                         *)
(* The inductive invariant has two halves.  CallInv ties the pending map   *)
(* to the asks: an in-flight ask is the only one of its conversation, so   *)
(* while its channel is open the map's entry is its own (Held), and its    *)
(* sender can be lost only to the drain (ClosedByDrain).  PipeInv says     *)
(* whose bytes are in the stdin pipe and when the child is gone.  TokenInv *)
(* stands on both: no message is on its way twice.                         *)
(***************************************************************************)
EXTENDS Bridge, SequenceTheorems, TLAPS

OneInFlight ==
  \A a, b \in Asks : InFlight(a) /\ InFlight(b) /\ CidOf[a] = CidOf[b] => a = b

Fresh == \A a \in Asks : pc[a] \in {"idle", "checked"} => answer[a] = Open

Held == \A a \in Asks : Registered(a) /\ answer[a] = Open => pending[CidOf[a]] = a

ClosedByDrain ==
  \A a \in Asks : Registered(a) /\ answer[a] = Closed => reader = "done"

FlagFalls == reader \in {"flagged", "done"} => ~alive

CallInv ==
  /\ NoLeak
  /\ OneInFlight
  /\ Fresh
  /\ Held
  /\ ClosedByDrain
  /\ FlagFalls
  /\ FailedMeansDead
  /\ ConversationIsolation

OneWriting ==
  \A a, b \in Asks : pc[a] = "writing" /\ pc[b] = "writing" => a = b

TailOwned == \A a \in tail : pc[a] \in {"writing", "cancelled"}

ExitClears == child = "exited" => tail = {} /\ stdin = <<>>

PipeInv == OneWriting /\ TailOwned /\ ExitClears /\ TornNeedsCancel

\* A reader that is gone has seen the end of stdout, or has an unreadable line
\* in front of it.
EndsAtExit ==
  reader # "running" =>
    IF stdout = <<>> THEN child = "exited" ELSE Head(stdout) = NotUtf8

EndInv == EndsAtExit /\ FailFast

BInv == TypeOK /\ CallInv /\ PipeInv /\ EndInv

Labels == {"idle", "checked", "registered", "writing", "awaiting",
           "answered", "failed", "cancelled"}

-----------------------------------------------------------------------------
(* Type correctness. *)

\* Taking the first line of a pipe leaves a pipe of the same lines.
LEMMA TailOfSeq ==
  ASSUME NEW S, NEW s \in Seq(S), s # <<>>
  PROVE  /\ Head(s) \in S
         /\ Tail(s) \in Seq(S)
         /\ Len(Tail(s)) = Len(s) - 1
         /\ \A i \in 1..Len(Tail(s)) : Tail(s)[i] = s[i + 1]
  OBVIOUS

\* Adding a line at the end leaves a pipe of lines.
LEMMA AppendToSeq ==
  ASSUME NEW S, NEW s \in Seq(S), NEW e \in S
  PROVE  /\ Append(s, e) \in Seq(S)
         /\ Len(Append(s, e)) = Len(s) + 1
         /\ \A i \in 1..Len(s) : Append(s, e)[i] = s[i]
         /\ Append(s, e)[Len(s) + 1] = e
  OBVIOUS

\* The types of what the asks and the reader share.
LEMMA DropSendersType ==
  ASSUME TypeOK, NEW S, DropSenders(S)
  PROVE  answer' \in [Asks -> Asks \cup {Open, Closed}]
  BY DEF TypeOK, DropSenders

\* Unregister keeps the types of the map and the channels.
LEMMA UnregisterType ==
  ASSUME TypeOK, NEW a \in Asks, Unregister(a)
  PROVE  /\ pending' \in [Cids -> Asks \cup {NoAsk}]
         /\ answer' \in [Asks -> Asks \cup {Open, Closed}]
  BY DropSendersType DEF TypeOK, Unregister

\* Steps of asks keep the types.
LEMMA AskType ==
  ASSUME TypeOK, NEW a \in Asks, Start(a) \/ AskStep(a) \/ Cancel(a)
  PROVE  TypeOK'
<1> USE BridgeAssumption DEF BridgeAssumption
<1>1. CASE Start(a)
  BY <1>1 DEF TypeOK, Start, pipeVars
<1>2. CASE Register(a)
  <2>1. pending' \in [Cids -> Asks \cup {NoAsk}] /\ pc' \in [Asks -> Labels]
    BY <1>2 DEF TypeOK, Register, Labels
  <2>2. answer' \in [Asks -> Asks \cup {Open, Closed}]
    BY <1>2, DropSendersType DEF Register
  <2> QED
    BY <1>2, <2>1, <2>2 DEF TypeOK, Register, pipeVars, Labels
<1>3. CASE LockStdin(a)
  BY <1>3 DEF TypeOK, LockStdin, pipeVars
<1>4. CASE WriteLine(a)
  <2>1. stdin' \in Seq(SUBSET Asks)
    <3>1. tail \cup {a} \in SUBSET Asks
      BY DEF TypeOK
    <3> QED
      BY <1>4, <3>1, AppendToSeq DEF TypeOK, WriteLine
  <2>2. pc' \in [Asks -> Labels] /\ tail' \in SUBSET Asks
    BY <1>4 DEF TypeOK, WriteLine, Labels
  <2> QED
    BY <1>4, <2>1, <2>2 DEF TypeOK, WriteLine, Labels
<1>5. CASE WritePart(a)
  BY <1>5 DEF TypeOK, WritePart, callVars
<1>6. CASE WriteFail(a)
  BY <1>6, UnregisterType DEF TypeOK, WriteFail, pipeVars
<1>7. CASE Resolve(a)
  BY <1>7, UnregisterType DEF TypeOK, Resolve, pipeVars
<1>8. CASE Cancel(a)
  BY <1>8, UnregisterType DEF TypeOK, Cancel, pipeVars
<1> QED
  BY <1>1, <1>2, <1>3, <1>4, <1>5, <1>6, <1>7, <1>8 DEF AskStep

\* Steps of the child keep the types.
LEMMA ChildType ==
  ASSUME TypeOK, ChildStep
  PROVE  TypeOK'
<1> DEFINE OutLines == Asks \cup {Noise, NotUtf8}
<1>1. CASE ChildRead
  <2>1. stdin' \in Seq(SUBSET Asks)
    BY <1>1, TailOfSeq DEF TypeOK, ChildRead
  <2>2. work' \in Asks \cup {NoAsk}
    BY <1>1 DEF ChildRead
  <2> QED
    BY <1>1, <2>1, <2>2 DEF TypeOK, ChildRead, callVars
<1>2. CASE ChildReply
  <2>1. work \in OutLines
    BY <1>2 DEF TypeOK, ChildReply
  <2>2. stdout' \in Seq(OutLines)
    BY <1>2, <2>1, AppendToSeq DEF TypeOK, ChildReply
  <2> QED
    BY <1>2, <2>2 DEF TypeOK, ChildReply, callVars
<1>3. CASE ChildNoise
  <2>1. PICK x \in OutLines : stdout' = Append(stdout, x)
    BY <1>3 DEF ChildNoise
  <2>2. stdout' \in Seq(OutLines)
    BY <2>1, AppendToSeq DEF TypeOK
  <2> QED
    BY <1>3, <2>2 DEF TypeOK, ChildNoise, callVars
<1>4. CASE ChildExit
  BY <1>4 DEF TypeOK, ChildExit, callVars
<1> QED
  BY <1>1, <1>2, <1>3, <1>4 DEF ChildStep

\* Steps of the reader keep the types.
LEMMA ReaderType ==
  ASSUME TypeOK, ReaderStep
  PROVE  TypeOK'
<1>1. CASE ReaderReply
  <2>1. stdout' \in Seq(Asks \cup {Noise, NotUtf8})
    BY <1>1, TailOfSeq DEF TypeOK, ReaderReply
  <2>2. /\ answer' \in [Asks -> Asks \cup {Open, Closed}]
        /\ pending' \in [Cids -> Asks \cup {NoAsk}]
    BY <1>1 DEF TypeOK, ReaderReply
  <2> QED
    BY <1>1, <2>1, <2>2 DEF TypeOK, ReaderReply
<1>2. CASE ReaderSkip
  <2>1. stdout' \in Seq(Asks \cup {Noise, NotUtf8})
    BY <1>2, TailOfSeq DEF TypeOK, ReaderSkip
  <2> QED
    BY <1>2, <2>1 DEF TypeOK, ReaderSkip, callVars
<1>3. CASE ReaderEnd
  BY <1>3 DEF TypeOK, ReaderEnd, callVars, pipeVars
<1>4. CASE ReaderFlag
  BY <1>4 DEF TypeOK, ReaderFlag, pipeVars
<1>5. CASE ReaderDrain
  <2>1. answer' \in [Asks -> Asks \cup {Open, Closed}]
    BY <1>5, DropSendersType DEF ReaderDrain
  <2> QED
    BY <1>5, <2>1 DEF TypeOK, ReaderDrain, pipeVars
<1> QED
  BY <1>1, <1>2, <1>3, <1>4, <1>5 DEF ReaderStep

\* TypeOK is inductive.
LEMMA NextType == TypeOK /\ [Next]_vars => TypeOK'
<1> SUFFICES ASSUME TypeOK, [Next]_vars PROVE TypeOK'
  OBVIOUS
<1>1. CASE UNCHANGED vars
  BY <1>1 DEF TypeOK, vars
<1> QED
  BY <1>1, AskType, ChildType, ReaderType DEF Next

-----------------------------------------------------------------------------
(* The asks and the pending map. *)

\* What dropping senders does to one channel.
LEMMA DropSendersEffect ==
  ASSUME TypeOK, NEW S, DropSenders(S)
  PROVE  \A b \in Asks :
           /\ answer'[b] = IF b \in S /\ answer[b] = Open THEN Closed ELSE answer[b]
           /\ answer'[b] \in Asks => answer'[b] = answer[b]
  BY BridgeAssumption DEF BridgeAssumption, TypeOK, DropSenders

\* Only an ask's own entry can be in the map under its conversation.
LEMMA OwnEntry ==
  ASSUME TypeOK, CallInv, NEW a \in Asks, InFlight(a)
  PROVE  pending[CidOf[a]] \in {a, NoAsk}
<1> SUFFICES ASSUME pending[CidOf[a]] # NoAsk PROVE pending[CidOf[a]] = a
  OBVIOUS
<1> DEFINE p == pending[CidOf[a]]
<1>1. CidOf[a] \in Cids /\ p \in Asks
  BY BridgeAssumption DEF BridgeAssumption, TypeOK
<1>2. Registered(p) /\ CidOf[p] = CidOf[a]
  BY <1>1 DEF CallInv, NoLeak
<1> QED
  BY <1>1, <1>2 DEF CallInv, OneInFlight, InFlight

\* An ask that ends takes its own entry with it, and nobody else's.
LEMMA EndOfAsk ==
  ASSUME TypeOK, CallInv, NEW a \in Asks, Registered(a), Unregister(a),
         NEW l \in {"answered", "failed", "cancelled"},
         pc' = [pc EXCEPT ![a] = l],
         ~alive => ~alive',
         l = "failed" => ~alive',
         reader' = reader
  PROVE  CallInv'
<1> USE BridgeAssumption DEF BridgeAssumption
<1>1. InFlight(a) /\ CidOf[a] \in Cids
  BY DEF InFlight
<1>2. /\ pc'[a] = l /\ \A b \in Asks : b # a => pc'[b] = pc[b]
      /\ ~Registered(a)' /\ ~InFlight(a)'
      /\ \A b \in Asks : b # a => /\ Registered(b)' <=> Registered(b)
                                  /\ InFlight(b)' <=> InFlight(b)
  BY DEF TypeOK, Registered, InFlight
<1>3. /\ pending'[CidOf[a]] = NoAsk
      /\ \A c \in Cids : c # CidOf[a] => pending'[c] = pending[c]
  BY <1>1 DEF TypeOK, Unregister
<1>4. \A b \in Asks : b # a => answer'[b] = answer[b]
  <2>1. DropSenders({pending[CidOf[a]]})
    BY DEF Unregister
  <2> QED
    BY <2>1, <1>1, OwnEntry, DropSendersEffect
<1>5. NoLeak'
  <2> SUFFICES ASSUME NEW c \in Cids, pending'[c] # NoAsk
               PROVE  Registered(pending[c])' /\ CidOf[pending'[c]] = c
                      /\ pending'[c] = pending[c]
    BY DEF NoLeak, Registered
  <2>1. c # CidOf[a] /\ pending'[c] = pending[c] /\ pending[c] \in Asks
    BY <1>3 DEF TypeOK
  <2>2. Registered(pending[c]) /\ CidOf[pending[c]] = c
    BY <2>1 DEF CallInv, NoLeak
  <2>3. pending[c] # a
    BY <2>1, <2>2
  <2>4. pc'[pending'[c]] = pc[pending[c]]
    BY <2>1, <2>3, <1>2
  <2> QED
    BY <2>1, <2>2, <2>4 DEF Registered
<1>6. OneInFlight'
  BY <1>2 DEF CallInv, OneInFlight
<1>7. Fresh'
  BY <1>2, <1>4 DEF CallInv, Fresh
<1>8. Held'
  <2> SUFFICES ASSUME NEW b \in Asks, Registered(b)', answer'[b] = Open
               PROVE  pending'[CidOf[b]] = b
    BY DEF Held
  <2>1. b # a /\ Registered(b) /\ answer[b] = Open
    BY <1>2, <1>4
  <2>2. CidOf[b] # CidOf[a]
    BY <2>1, <1>1 DEF CallInv, OneInFlight, InFlight
  <2> QED
    BY <2>1, <2>2, <1>3 DEF CallInv, Held
<1>9. ClosedByDrain'
  BY <1>2, <1>4 DEF CallInv, ClosedByDrain
<1>10. FlagFalls' /\ FailedMeansDead'
  BY <1>2 DEF CallInv, FlagFalls, FailedMeansDead
<1>11. ConversationIsolation'
  <2>1. \A b \in Asks : answer'[b] \in Asks => answer'[b] = answer[b]
    BY DropSendersEffect DEF Unregister
  <2> QED
    BY <2>1 DEF CallInv, ConversationIsolation
<1> QED
  BY <1>5, <1>6, <1>7, <1>8, <1>9, <1>10, <1>11 DEF CallInv

\* Steps of the asks keep CallInv.
LEMMA AskCall ==
  ASSUME TypeOK, CallInv, NEW a \in Asks, Start(a) \/ AskStep(a) \/ Cancel(a)
  PROVE  CallInv'
<1> USE BridgeAssumption DEF BridgeAssumption
<1>1. CASE Start(a)
  <2>1. /\ pc[a] = "idle"
        /\ pc'[a] = IF alive THEN "checked" ELSE "failed"
        /\ \A b \in Asks : b # a => pc'[b] = pc[b]
        /\ \A b \in Asks : CidOf[b] = CidOf[a] => ~InFlight(b)
        /\ UNCHANGED <<alive, pending, answer, reader>>
    BY <1>1 DEF TypeOK, Start
  <2>2. \A b \in Asks : (Registered(b)' <=> Registered(b))
                        /\ (b # a => (InFlight(b)' <=> InFlight(b)))
    BY <2>1 DEF Registered, InFlight
  <2>3. NoLeak'
    <3>1. \A c \in Cids : pending[c] # NoAsk => pending[c] \in Asks
      BY DEF TypeOK
    <3>2. \A c \in Cids : pending[c] # NoAsk => pc'[pending[c]] = pc[pending[c]]
      BY <2>1, <3>1 DEF CallInv, NoLeak, Registered
    <3> QED
      BY <2>1, <3>2 DEF CallInv, NoLeak, Registered
  <2>4. OneInFlight'
    BY <2>1, <2>2 DEF CallInv, OneInFlight
  <2>5. Fresh' /\ Held' /\ ClosedByDrain'
    BY <2>1, <2>2 DEF CallInv, Fresh, Held, ClosedByDrain
  <2>6. FlagFalls' /\ FailedMeansDead' /\ ConversationIsolation'
    BY <2>1 DEF CallInv, FlagFalls, FailedMeansDead, ConversationIsolation
  <2> QED
    BY <2>3, <2>4, <2>5, <2>6 DEF CallInv
<1>2. CASE Register(a)
  <2>1. /\ pc[a] = "checked" /\ pc'[a] = "registered"
        /\ \A b \in Asks : b # a => pc'[b] = pc[b]
        /\ DropSenders({pending[CidOf[a]]})
        /\ UNCHANGED <<alive, reader>>
        /\ pending'[CidOf[a]] = a
        /\ \A c \in Cids : c # CidOf[a] => pending'[c] = pending[c]
    BY <1>2 DEF TypeOK, Register
  <2>2. InFlight(a) /\ ~Registered(a) /\ InFlight(a)' /\ Registered(a)'
    BY <2>1 DEF InFlight, Registered
  <2>3. \A b \in Asks : b # a => /\ Registered(b)' <=> Registered(b)
                                 /\ InFlight(b)' <=> InFlight(b)
    BY <2>1 DEF InFlight, Registered
  <2>4. pending[CidOf[a]] = NoAsk
    <3>1. pending[CidOf[a]] # a
      BY <2>2 DEF CallInv, NoLeak
    <3> QED
      BY <2>2, <3>1, OwnEntry
  <2>5. \A b \in Asks : answer'[b] = answer[b]
    BY <2>1, <2>4, DropSendersEffect
  <2>6. NoLeak'
    <3> SUFFICES ASSUME NEW c \in Cids, pending'[c] # NoAsk
                 PROVE  pc'[pending'[c]] \in {"registered", "writing", "awaiting"}
                        /\ CidOf[pending'[c]] = c
      BY DEF NoLeak, Registered
    <3>1. CASE c = CidOf[a]
      BY <3>1, <2>1
    <3>2. CASE c # CidOf[a]
      <4>1. pending'[c] = pending[c] /\ pending[c] \in Asks
        BY <3>2, <2>1 DEF TypeOK
      <4>2. Registered(pending[c]) /\ CidOf[pending[c]] = c
        BY <4>1 DEF CallInv, NoLeak
      <4>3. pc'[pending[c]] = pc[pending[c]]
        BY <4>1, <4>2, <2>1, <2>2
      <4> QED
        BY <4>1, <4>2, <4>3 DEF Registered
    <3> QED
      BY <3>1, <3>2
  <2>7. OneInFlight'
    BY <2>2, <2>3 DEF CallInv, OneInFlight
  <2>8. Fresh'
    BY <2>1, <2>5 DEF CallInv, Fresh
  <2>9. Held'
    <3> SUFFICES ASSUME NEW b \in Asks, b # a, Registered(b), answer[b] = Open
                 PROVE  pending'[CidOf[b]] = b
      BY <2>1, <2>3, <2>5 DEF Held
    <3>1. CidOf[b] # CidOf[a]
      BY <2>2 DEF CallInv, OneInFlight, InFlight
    <3> QED
      BY <3>1, <2>1 DEF CallInv, Held
  <2>10. ClosedByDrain'
    <3>1. answer[a] = Open
      BY <2>1 DEF CallInv, Fresh
    <3> QED
      BY <3>1, <2>1, <2>3, <2>5 DEF CallInv, ClosedByDrain
  <2>11. FlagFalls' /\ FailedMeansDead' /\ ConversationIsolation'
    BY <2>1, <2>5 DEF CallInv, FlagFalls, FailedMeansDead, ConversationIsolation
  <2> QED
    BY <2>6, <2>7, <2>8, <2>9, <2>10, <2>11 DEF CallInv
<1>3. CASE LockStdin(a) \/ WriteLine(a)
  <2>1. /\ pc[a] \in {"registered", "writing"}
        /\ pc'[a] \in {"writing", "awaiting"}
        /\ \A b \in Asks : b # a => pc'[b] = pc[b]
        /\ UNCHANGED <<alive, pending, answer, reader>>
    BY <1>3 DEF TypeOK, LockStdin, WriteLine
  <2>2. \A b \in Asks : (Registered(b)' <=> Registered(b))
                        /\ (InFlight(b)' <=> InFlight(b))
    BY <2>1 DEF Registered, InFlight
  <2>3. NoLeak'
    <3>1. \A c \in Cids : pending[c] # NoAsk => pending[c] \in Asks
      BY DEF TypeOK
    <3> QED
      BY <3>1, <2>1, <2>2 DEF CallInv, NoLeak, Registered
  <2>4. OneInFlight' /\ Fresh' /\ Held' /\ ClosedByDrain'
    BY <2>1, <2>2 DEF CallInv, OneInFlight, Fresh, Held, ClosedByDrain
  <2>5. FlagFalls' /\ FailedMeansDead' /\ ConversationIsolation'
    BY <2>1 DEF CallInv, FlagFalls, FailedMeansDead, ConversationIsolation
  <2> QED
    BY <2>3, <2>4, <2>5 DEF CallInv
<1>4. CASE WritePart(a)
  BY <1>4 DEF WritePart, callVars, CallInv, NoLeak, OneInFlight, Fresh, Held,
              ClosedByDrain, FlagFalls, FailedMeansDead, ConversationIsolation,
              Registered, InFlight
<1>5. CASE WriteFail(a)
  BY <1>5, EndOfAsk DEF WriteFail, Registered
<1>6. CASE Resolve(a)
  <2>1. answer[a] = Closed => ~alive
    BY <1>6 DEF Resolve, CallInv, ClosedByDrain, FlagFalls, Registered
  <2> QED
    BY <1>6, <2>1, EndOfAsk DEF Resolve, Registered
<1>7. CASE Cancel(a)
  BY <1>7, EndOfAsk DEF Cancel
<1> QED
  BY <1>1, <1>2, <1>3, <1>4, <1>5, <1>6, <1>7 DEF AskStep

\* Steps of the reader keep CallInv.
LEMMA ReaderCall ==
  ASSUME TypeOK, CallInv, ReaderStep
  PROVE  CallInv'
<1> USE BridgeAssumption DEF BridgeAssumption
<1>1. CASE ReaderReply
  <2> DEFINE m == Head(stdout)
             c == CidOf[m]
  <2>1. /\ m \in Asks /\ c \in Cids
        /\ \A b \in Asks : answer'[b] = IF b = pending[c] THEN m ELSE answer[b]
        /\ pending'[c] = NoAsk
        /\ \A d \in Cids : d # c => pending'[d] = pending[d]
        /\ UNCHANGED <<alive, pc, reader>>
        /\ pc' = pc
    BY <1>1 DEF TypeOK, ReaderReply
  <2>2. \A b \in Asks : b = pending[c] => Registered(b) /\ CidOf[b] = c
    BY <2>1 DEF CallInv, NoLeak
  <2>3. NoLeak' /\ OneInFlight'
    BY <2>1 DEF CallInv, NoLeak, OneInFlight, Registered, InFlight
  <2>4. Fresh'
    BY <2>1, <2>2 DEF CallInv, Fresh, Registered
  <2>5. Held'
    <3> SUFFICES ASSUME NEW b \in Asks, Registered(b), answer'[b] = Open
                 PROVE  pending'[CidOf[b]] = b
      BY <2>1 DEF Held, Registered
    <3>1. answer[b] = Open /\ b # pending[c]
      BY <2>1
    <3>2. pending[CidOf[b]] = b /\ CidOf[b] \in Cids
      BY <3>1 DEF CallInv, Held
    <3> QED
      BY <3>1, <3>2, <2>1
  <2>6. ClosedByDrain'
    BY <2>1 DEF CallInv, ClosedByDrain, Registered
  <2>7. FlagFalls' /\ FailedMeansDead'
    BY <2>1 DEF CallInv, FlagFalls, FailedMeansDead
  <2>8. ConversationIsolation'
    BY <2>1, <2>2 DEF CallInv, ConversationIsolation
  <2> QED
    BY <2>3, <2>4, <2>5, <2>6, <2>7, <2>8 DEF CallInv
<1>2. CASE ReaderSkip \/ ReaderEnd \/ ReaderFlag
  <2>1. /\ UNCHANGED <<pending, pc, answer>>
        /\ ~alive => ~alive'
        /\ reader' = "done" <=> reader = "done"
        /\ reader' \in {"flagged", "done"} => ~alive'
    BY <1>2 DEF ReaderSkip, ReaderEnd, ReaderFlag, callVars, CallInv, FlagFalls
  <2>2. NoLeak' /\ OneInFlight' /\ Fresh' /\ Held' /\ ConversationIsolation'
    BY <2>1 DEF CallInv, NoLeak, OneInFlight, Fresh, Held, ConversationIsolation,
                Registered, InFlight
  <2>3. ClosedByDrain' /\ FlagFalls' /\ FailedMeansDead'
    BY <2>1 DEF CallInv, ClosedByDrain, FlagFalls, FailedMeansDead, Registered
  <2> QED
    BY <2>2, <2>3 DEF CallInv
<1>3. CASE ReaderDrain
  <2>1. /\ UNCHANGED <<alive, pc>>
        /\ \A c \in Cids : pending'[c] = NoAsk
        /\ reader = "flagged" /\ reader' = "done"
        /\ DropSenders({pending[c] : c \in Cids})
    BY <1>3 DEF ReaderDrain
  <2>2. \A b \in Asks :
          /\ answer'[b] = IF b \in {pending[c] : c \in Cids} /\ answer[b] = Open
                          THEN Closed ELSE answer[b]
          /\ answer'[b] \in Asks => answer'[b] = answer[b]
    BY <2>1, DropSendersEffect
  <2>3. NoLeak' /\ OneInFlight'
    BY <2>1 DEF CallInv, NoLeak, OneInFlight, Registered, InFlight
  <2>4. Fresh'
    <3>1. \A b \in Asks : pc[b] \in {"idle", "checked"} =>
            b \notin {pending[c] : c \in Cids}
      BY DEF CallInv, NoLeak, Registered
    <3> QED
      BY <2>1, <2>2, <3>1 DEF CallInv, Fresh
  <2>5. Held'
    <3>1. \A b \in Asks : Registered(b) /\ answer[b] = Open =>
            b \in {pending[c] : c \in Cids}
      BY DEF CallInv, Held
    <3> QED
      BY <2>1, <2>2, <3>1 DEF Held, Registered
  <2>6. ClosedByDrain' /\ FlagFalls' /\ FailedMeansDead'
    BY <2>1 DEF CallInv, ClosedByDrain, FlagFalls, FailedMeansDead
  <2>7. ConversationIsolation'
    BY <2>2 DEF CallInv, ConversationIsolation
  <2> QED
    BY <2>3, <2>4, <2>5, <2>6, <2>7 DEF CallInv
<1> QED
  BY <1>1, <1>2, <1>3 DEF ReaderStep

-----------------------------------------------------------------------------
(* The pipes and the child. *)

\* A step that only moves one ask past, or out of, its write keeps PipeInv.
LEMMA MovePipe ==
  ASSUME TypeOK, PipeInv, NEW a \in Asks, NEW l \in Labels \ {"writing"},
         pc' = [pc EXCEPT ![a] = l],
         pc[a] # "cancelled",
         pc[a] = "writing" => l = "cancelled" \/ child = "exited",
         UNCHANGED <<stdin, tail, child>>
  PROVE  PipeInv'
<1>1. pc'[a] = l /\ \A b \in Asks : b # a => pc'[b] = pc[b]
  BY DEF TypeOK
<1>2. OneWriting'
  BY <1>1 DEF PipeInv, OneWriting
<1>3. TailOwned'
  BY <1>1 DEF PipeInv, TailOwned, ExitClears, TypeOK
<1>4. ExitClears'
  BY DEF PipeInv, ExitClears
<1>5. TornNeedsCancel'
  <2>1. \A i \in 1..Len(stdin) : stdin[i] \in SUBSET Asks
    BY DEF TypeOK
  <2>2. \A b \in Asks : pc[b] = "cancelled" => pc'[b] = "cancelled"
    BY <1>1
  <2> QED
    BY <2>1, <2>2 DEF PipeInv, TornNeedsCancel
<1> QED
  BY <1>2, <1>3, <1>4, <1>5 DEF PipeInv

\* Steps of the asks keep PipeInv.
LEMMA AskPipe ==
  ASSUME TypeOK, PipeInv, NEW a \in Asks, Start(a) \/ AskStep(a) \/ Cancel(a)
  PROVE  PipeInv'
<1>1. CASE Start(a)
  BY <1>1, MovePipe DEF Start, pipeVars, Labels
<1>2. CASE Register(a)
  BY <1>2, MovePipe DEF Register, pipeVars, Labels
<1>3. CASE LockStdin(a)
  <2>1. /\ pc[a] = "registered" /\ pc'[a] = "writing"
        /\ \A b \in Asks : pc[b] # "writing"
        /\ \A b \in Asks : b # a => pc'[b] = pc[b]
        /\ UNCHANGED <<stdin, tail, child>>
    BY <1>3 DEF TypeOK, LockStdin, pipeVars
  <2>2. OneWriting' /\ ExitClears'
    BY <2>1 DEF PipeInv, OneWriting, ExitClears
  <2>3. TailOwned'
    BY <2>1 DEF TypeOK, PipeInv, TailOwned
  <2>4. TornNeedsCancel'
    <3>1. \A i \in 1..Len(stdin) : stdin[i] \in SUBSET Asks
      BY DEF TypeOK
    <3>2. \A b \in Asks : pc[b] = "cancelled" => pc'[b] = "cancelled"
      BY <2>1
    <3> QED
      BY <2>1, <3>1, <3>2 DEF PipeInv, TornNeedsCancel
  <2> QED
    BY <2>2, <2>3, <2>4 DEF PipeInv
<1>4. CASE WriteLine(a)
  <2>1. /\ pc[a] = "writing" /\ pc'[a] = "awaiting"
        /\ \A b \in Asks : b # a => pc'[b] = pc[b]
        /\ child = "running" /\ child' = child
        /\ stdin' = Append(stdin, tail \cup {a}) /\ tail' = {}
    BY <1>4 DEF TypeOK, WriteLine
  <2>2. OneWriting' /\ TailOwned' /\ ExitClears'
    BY <2>1 DEF PipeInv, OneWriting, TailOwned, ExitClears
  <2>3. \A b \in Asks : pc[b] = "cancelled" => pc'[b] = "cancelled"
    BY <2>1
  <2>4. \A b \in tail : b # a => pc'[b] = "cancelled"
    <3>1. \A b \in tail : b \in Asks /\ pc[b] \in {"writing", "cancelled"}
      BY DEF TypeOK, PipeInv, TailOwned
    <3> QED
      BY <3>1, <2>1 DEF PipeInv, OneWriting
  <2>5. TornNeedsCancel'
    <3> SUFFICES ASSUME NEW i \in 1..Len(stdin'), NEW b \in stdin'[i],
                        NEW d \in stdin'[i], b # d
                 PROVE  "cancelled" \in {pc'[b], pc'[d]}
      BY DEF TornNeedsCancel
    <3>1. /\ Len(stdin') = Len(stdin) + 1
          /\ \A k \in 1..Len(stdin) : stdin'[k] = stdin[k]
          /\ stdin'[Len(stdin) + 1] = tail \cup {a}
      <4>1. tail \cup {a} \in SUBSET Asks /\ stdin \in Seq(SUBSET Asks)
        BY DEF TypeOK
      <4> QED
        BY <2>1, <4>1, AppendToSeq
    <3>2. CASE i = Len(stdin) + 1
      BY <3>1, <3>2, <2>4
    <3>3. CASE i # Len(stdin) + 1
      <4>1. i \in 1..Len(stdin)
        BY <3>1, <3>3 DEF TypeOK
      <4>2. stdin'[i] = stdin[i] /\ stdin[i] \in SUBSET Asks
        BY <3>1, <4>1 DEF TypeOK
      <4>3. "cancelled" \in {pc[b], pc[d]}
        BY <4>1, <4>2 DEF PipeInv, TornNeedsCancel
      <4> QED
        BY <4>2, <4>3, <2>3
    <3> QED
      BY <3>2, <3>3
  <2> QED
    BY <2>2, <2>5 DEF PipeInv
<1>5. CASE WritePart(a)
  <2>1. /\ pc[a] = "writing" /\ child = "running" /\ tail' = tail \cup {a}
        /\ UNCHANGED <<pc, stdin, child>>
    BY <1>5 DEF WritePart, callVars
  <2> QED
    BY <2>1 DEF PipeInv, OneWriting, TailOwned, ExitClears, TornNeedsCancel
<1>6. CASE WriteFail(a)
  BY <1>6, MovePipe DEF WriteFail, pipeVars, Labels
<1>7. CASE Resolve(a)
  <2>1. PICK l \in {"failed", "answered"} : pc' = [pc EXCEPT ![a] = l]
    BY <1>7 DEF Resolve
  <2> QED
    BY <1>7, <2>1, MovePipe DEF Resolve, pipeVars, Labels
<1>8. CASE Cancel(a)
  BY <1>8, MovePipe DEF Cancel, pipeVars, Labels, Registered
<1> QED
  BY <1>1, <1>2, <1>3, <1>4, <1>5, <1>6, <1>7, <1>8 DEF AskStep

\* Steps of the child and of the reader keep PipeInv.
LEMMA OtherPipe ==
  ASSUME TypeOK, PipeInv, ChildStep \/ ReaderStep
  PROVE  PipeInv'
<1>1. CASE ChildRead
  <2>1. /\ child = "running" /\ stdin # <<>> /\ stdin' = Tail(stdin)
        /\ UNCHANGED <<pc, tail, child>>
    BY <1>1 DEF ChildRead, callVars
  <2>2. /\ Len(Tail(stdin)) = Len(stdin) - 1
        /\ \A i \in 1..Len(Tail(stdin)) : Tail(stdin)[i] = stdin[i + 1]
    BY <2>1, TailOfSeq DEF TypeOK
  <2>3. TornNeedsCancel'
    <3>1. \A i \in 1..Len(stdin') : i + 1 \in 1..Len(stdin)
      BY <2>1, <2>2 DEF TypeOK
    <3> QED
      BY <2>1, <2>2, <3>1 DEF PipeInv, TornNeedsCancel
  <2> QED
    BY <2>1, <2>3 DEF PipeInv, OneWriting, TailOwned, ExitClears
<1>2. CASE ChildExit
  BY <1>2 DEF ChildExit, callVars, PipeInv, OneWriting, TailOwned, ExitClears,
              TornNeedsCancel
<1>3. CASE ChildReply \/ ChildNoise \/ ReaderStep
  <2>1. UNCHANGED <<pc, stdin, tail, child>>
    BY <1>3 DEF ChildReply, ChildNoise, ReaderStep, ReaderReply, ReaderSkip,
                ReaderEnd, ReaderFlag, ReaderDrain, callVars, pipeVars
  <2> QED
    BY <2>1 DEF PipeInv, OneWriting, TailOwned, ExitClears, TornNeedsCancel
<1> QED
  BY <1>1, <1>2, <1>3 DEF ChildStep

-----------------------------------------------------------------------------
(* The end of the child. *)

\* Steps of the asks keep EndInv: nobody can write once the child is gone.
LEMMA AskEnd ==
  ASSUME TypeOK, CallInv, EndInv, NEW a \in Asks,
         Start(a) \/ AskStep(a) \/ Cancel(a)
  PROVE  EndInv'
<1>1. UNCHANGED <<child, stdout, reader>>
  BY DEF Start, AskStep, Register, LockStdin, WriteLine, WritePart, WriteFail,
         Resolve, Cancel, callVars, pipeVars
<1>2. EndsAtExit'
  BY <1>1 DEF EndInv, EndsAtExit
<1>3. ASSUME reader = "done", stdout = <<>>, NEW b \in Asks, pc'[b] = "awaiting"
      PROVE  answer'[b] # Open
  <2>1. child = "exited"
    BY <1>3 DEF EndInv, EndsAtExit
  <2>2. pc[b] = "awaiting"
    BY <1>3, <2>1 DEF TypeOK, Start, AskStep, Register, LockStdin, WriteLine,
                      WritePart, WriteFail, Resolve, Cancel, callVars
  <2>3. answer[b] # Open
    BY <1>3, <2>2 DEF EndInv, FailFast
  <2>4. CASE DropSenders({pending[CidOf[a]]})
    BY <2>3, <2>4, DropSendersEffect, BridgeAssumption DEF BridgeAssumption
  <2>5. CASE UNCHANGED answer
    BY <2>3, <2>5
  <2> QED
    BY <2>4, <2>5 DEF Start, AskStep, Register, LockStdin, WriteLine, WritePart,
                      WriteFail, Resolve, Cancel, Unregister, callVars
<1> QED
  BY <1>1, <1>2, <1>3 DEF EndInv, FailFast

\* Steps of the child keep EndInv.
LEMMA ChildEnd ==
  ASSUME TypeOK, EndInv, ChildStep
  PROVE  EndInv'
<1> USE BridgeAssumption DEF BridgeAssumption
<1>1. /\ UNCHANGED <<pc, answer, reader>>
      /\ child = "running"
      /\ child' \in {child, "exited"}
  BY DEF ChildStep, ChildRead, ChildReply, ChildNoise, ChildExit, callVars
<1>2. stdout # <<>> => stdout' # <<>> /\ Head(stdout') = Head(stdout)
  <2>1. CASE stdout' = stdout
    BY <2>1
  <2>2. CASE stdout' # stdout
    <3>1. PICK x \in Asks \cup {Noise, NotUtf8} : stdout' = Append(stdout, x)
      BY <2>2 DEF ChildStep, ChildRead, ChildReply, ChildNoise, ChildExit, TypeOK
    <3> QED
      BY <3>1, AppendToSeq DEF TypeOK
  <2> QED
    BY <2>1, <2>2
<1>3. stdout' = <<>> => stdout = <<>>
  <2>1. \/ UNCHANGED stdout
        \/ \E x \in Asks \cup {Noise, NotUtf8} : stdout' = Append(stdout, x)
    BY DEF ChildStep, ChildRead, ChildReply, ChildNoise, ChildExit, TypeOK
  <2> QED
    BY <2>1, AppendToSeq DEF TypeOK
<1>4. reader # "running" => stdout # <<>>
  BY <1>1 DEF EndInv, EndsAtExit
<1>5. EndsAtExit'
  BY <1>1, <1>2, <1>3, <1>4 DEF EndInv, EndsAtExit
<1>6. FailFast'
  BY <1>1, <1>3 DEF EndInv, FailFast
<1> QED
  BY <1>5, <1>6 DEF EndInv

\* Steps of the reader keep EndInv: the drain closes every open channel.
LEMMA ReaderEndInv ==
  ASSUME TypeOK, CallInv, EndInv, ReaderStep
  PROVE  EndInv'
<1> USE BridgeAssumption DEF BridgeAssumption
<1>1. CASE ReaderReply \/ ReaderSkip
  <2>1. UNCHANGED <<reader, pc>> /\ reader = "running"
    BY <1>1 DEF ReaderReply, ReaderSkip, callVars
  <2> QED
    BY <2>1 DEF EndInv, EndsAtExit, FailFast
<1>2. CASE ReaderEnd
  BY <1>2 DEF ReaderEnd, callVars, pipeVars, EndInv, EndsAtExit, FailFast
<1>3. CASE ReaderFlag
  BY <1>3 DEF ReaderFlag, pipeVars, EndInv, EndsAtExit, FailFast
<1>4. CASE ReaderDrain
  <2>1. /\ UNCHANGED <<child, stdout, pc>> /\ reader = "flagged" /\ reader' = "done"
        /\ DropSenders({pending[c] : c \in Cids})
    BY <1>4 DEF ReaderDrain, pipeVars
  <2>2. FailFast'
    <3> SUFFICES ASSUME NEW b \in Asks, pc[b] = "awaiting"
                 PROVE  answer'[b] # Open
      BY <2>1 DEF FailFast
    <3>1. answer[b] = Open => b \in {pending[c] : c \in Cids}
      BY DEF CallInv, Held, Registered
    <3> QED
      BY <2>1, <3>1, DropSendersEffect
  <2> QED
    BY <2>1, <2>2 DEF EndInv, EndsAtExit
<1> QED
  BY <1>1, <1>2, <1>3, <1>4 DEF ReaderStep

-----------------------------------------------------------------------------
(* The invariant and the theorems. *)

\* A bridge that was just spawned satisfies BInv.
LEMMA InitBInv == Init => BInv
<1> SUFFICES ASSUME Init PROVE BInv
  OBVIOUS
<1> USE BridgeAssumption DEF BridgeAssumption, Init
<1>1. TypeOK
  BY DEF TypeOK
<1>2. NoLeak /\ Fresh /\ ConversationIsolation
  BY DEF NoLeak, Fresh, ConversationIsolation
<1>3. \A a \in Asks : ~Registered(a) /\ ~InFlight(a) /\ pc[a] = "idle"
  BY DEF Registered, InFlight
<1>4. OneInFlight /\ Held /\ ClosedByDrain /\ FlagFalls /\ FailedMeansDead
  BY <1>3 DEF OneInFlight, Held, ClosedByDrain, FlagFalls, FailedMeansDead
<1>5. PipeInv
  BY <1>3 DEF PipeInv, OneWriting, TailOwned, ExitClears, TornNeedsCancel
<1>6. EndInv
  BY <1>3 DEF EndInv, EndsAtExit, FailFast
<1> QED
  BY <1>1, <1>2, <1>4, <1>5, <1>6 DEF BInv, CallInv

\* BInv is inductive.
LEMMA NextBInv == BInv /\ [Next]_vars => BInv'
<1> SUFFICES ASSUME BInv, [Next]_vars PROVE BInv'
  OBVIOUS
<1>1. TypeOK'
  BY NextType DEF BInv
<1>2. ASSUME NEW a \in Asks, Start(a) \/ AskStep(a) \/ Cancel(a) PROVE BInv'
  BY <1>1, <1>2, AskCall, AskPipe, AskEnd DEF BInv
<1>3. CASE ReaderStep
  BY <1>1, <1>3, ReaderCall, OtherPipe, ReaderEndInv DEF BInv
<1>4. CASE ChildStep
  <2>1. UNCHANGED <<alive, pending, pc, answer, reader>>
    BY <1>4 DEF ChildStep, ChildRead, ChildReply, ChildNoise, ChildExit, callVars
  <2>2. CallInv'
    BY <2>1 DEF BInv, CallInv, NoLeak, OneInFlight, Fresh, Held, ClosedByDrain,
                FlagFalls, FailedMeansDead, ConversationIsolation, Registered,
                InFlight
  <2> QED
    BY <1>1, <1>4, <2>2, OtherPipe, ChildEnd DEF BInv
<1>5. CASE UNCHANGED vars
  BY <1>1, <1>5
  DEF vars, BInv, CallInv, NoLeak, OneInFlight, Fresh, Held, ClosedByDrain,
      FlagFalls, FailedMeansDead, ConversationIsolation, Registered, InFlight,
      PipeInv, OneWriting, TailOwned, ExitClears, TornNeedsCancel, EndInv,
      EndsAtExit, FailFast
<1> QED
  BY <1>2, <1>3, <1>4, <1>5 DEF Next

\* Every reachable state satisfies BInv.
LEMMA BridgeInvariance == Spec => []BInv
  BY InitBInv, NextBInv, PTL DEF Spec

\* Every reachable state of a bridge is well typed.
THEOREM BridgeTypeCorrect == Spec => []TypeOK
<1>1. BInv => TypeOK
  BY DEF BInv
<1> QED
  BY <1>1, BridgeInvariance, PTL

\* No ask that ended, whatever ended it, leaves an entry in the pending map.
THEOREM NothingLeaks == Spec => []NoLeak
<1>1. BInv => NoLeak
  BY DEF BInv, CallInv
<1> QED
  BY <1>1, BridgeInvariance, PTL

\* A reply never crosses from one conversation to another.
THEOREM Isolation == Spec => []ConversationIsolation
<1>1. BInv => ConversationIsolation
  BY DEF BInv, CallInv
<1> QED
  BY <1>1, BridgeInvariance, PTL

\* ask() returns an error only when checkout() will see the bridge as dead.
THEOREM FailsOnlyWhenDead == Spec => []FailedMeansDead
<1>1. BInv => FailedMeansDead
  BY DEF BInv, CallInv
<1> QED
  BY <1>1, BridgeInvariance, PTL

\* Two messages share a line of the pipe only behind a cancelled write.
THEOREM LinesKeptApart == Spec => []TornNeedsCancel
<1>1. BInv => TornNeedsCancel
  BY DEF BInv, PipeInv
<1> QED
  BY <1>1, BridgeInvariance, PTL

\* When the reader goes at the end of stdout, the drain leaves no awaiter
\* behind.
THEOREM DrainIsComplete == Spec => []FailFast
<1>1. BInv => FailFast
  BY DEF BInv, EndInv
<1> QED
  BY <1>1, BridgeInvariance, PTL

-----------------------------------------------------------------------------
(***************************************************************************)
(* Whose reply a caller gets.  Each message goes through the pipes once,   *)
(* and is on its way only while its own ask has not been handed it.  So    *)
(* when the reader hands the reply of m to another ask, m's ask is over:   *)
(* it was cancelled, or it was answered with yet another message's reply,  *)
(* which needed a cancelled ask in its turn.                               *)
(***************************************************************************)

\* The message of m is on its way: a whole line to the child, the child's
\* work, or a reply that waits for the reader.
InPipe(m) ==
  \/ \E i \in 1..Len(stdin) : stdin[i] = {m}
  \/ work = m
  \/ \E j \in 1..Len(stdout) : stdout[j] = m

\* No message is on its way twice.
Once ==
  /\ \A i, j \in 1..Len(stdin) : \A m \in Asks :
       stdin[i] = {m} /\ stdin[j] = {m} => i = j
  /\ \A i, j \in 1..Len(stdout) : stdout[i] \in Asks /\ stdout[i] = stdout[j] => i = j
  /\ \A m \in Asks : \A i \in 1..Len(stdin) : stdin[i] = {m} =>
       work # m /\ \A j \in 1..Len(stdout) : stdout[j] # m
  /\ \A m \in Asks : work = m => \A j \in 1..Len(stdout) : stdout[j] # m

Unwritten(m) == pc[m] \in {"idle", "checked", "registered", "writing"}

\* What is on its way was written by its ask, which has not been handed it.
Written ==
  \A m \in Asks : InPipe(m) =>
    /\ ~Unwritten(m)
    /\ pc[m] = "failed" => reader = "done"
    /\ answer[m] # m

\* An ask that has its own reply has written its line.
OwnReply == \A m \in Asks : answer[m] = m => ~Unwritten(m)

\* An ask that returned a reply has it.
Answered == \A m \in Asks : pc[m] = "answered" => answer[m] \in Asks

TokenInv == Once /\ Written /\ OwnReply /\ Answered /\ MismatchNeedsCancel

\* A step that leaves the pipes alone, and neither takes an ask back nor hands
\* out a reply, keeps TokenInv.
LEMMA CallToken ==
  ASSUME TypeOK, TokenInv, UNCHANGED <<stdin, work, stdout>>,
         reader = "done" => reader' = "done",
         \A b \in Asks : answer'[b] \in Asks => answer'[b] = answer[b],
         \A b \in Asks : answer[b] \in Asks => answer'[b] = answer[b],
         \A b \in Asks : Unwritten(b)' => Unwritten(b),
         \A b \in Asks : pc'[b] = "failed" =>
           pc[b] = "failed" \/ Unwritten(b) \/ reader = "done",
         \A b \in Asks : pc'[b] = "answered" => answer[b] \in Asks,
         \A b \in Asks : pc[b] \in {"answered", "cancelled"} => pc'[b] = pc[b]
  PROVE  TokenInv'
<1>1. Once'
  BY DEF TokenInv, Once
<1>2. \A m \in Asks : InPipe(m)' <=> InPipe(m)
  BY DEF InPipe
<1>3. Written'
  BY <1>2 DEF TokenInv, Written
<1>4. OwnReply' /\ Answered'
  BY DEF TokenInv, OwnReply, Answered
<1>5. MismatchNeedsCancel'
  BY DEF TokenInv, MismatchNeedsCancel
<1> QED
  BY <1>1, <1>3, <1>4, <1>5 DEF TokenInv

\* A step of the pipes that puts no new message on its way keeps TokenInv.
LEMMA PipeToken ==
  ASSUME TokenInv, UNCHANGED <<pc, answer, reader>>, Once',
         \A m \in Asks : InPipe(m)' => InPipe(m)
  PROVE  TokenInv'
<1>1. Written'
  BY DEF TokenInv, Written, Unwritten
<1>2. OwnReply' /\ Answered' /\ MismatchNeedsCancel'
  BY DEF TokenInv, OwnReply, Unwritten, Answered, MismatchNeedsCancel
<1> QED
  BY <1>1, <1>2 DEF TokenInv

\* Steps of the asks keep TokenInv: only a write puts a message on its way,
\* and it is that of its ask or a torn one, which is nobody's.
LEMMA AskToken ==
  ASSUME BInv, TokenInv, NEW a \in Asks, Start(a) \/ AskStep(a) \/ Cancel(a)
  PROVE  TokenInv'
<1> USE BridgeAssumption DEF BridgeAssumption
<1>t. TypeOK
  BY DEF BInv
<1>1. CASE WriteLine(a)
  <2>1. /\ pc[a] = "writing" /\ pc'[a] = "awaiting"
        /\ \A b \in Asks : b # a => pc'[b] = pc[b]
        /\ stdin' = Append(stdin, tail \cup {a})
        /\ UNCHANGED <<answer, work, stdout, reader>>
    BY <1>1, <1>t DEF TypeOK, WriteLine
  <2>2. /\ Len(stdin') = Len(stdin) + 1 /\ Len(stdin) \in Nat
        /\ \A i \in 1..Len(stdin) : stdin'[i] = stdin[i]
        /\ stdin'[Len(stdin) + 1] = tail \cup {a}
    <3>1. tail \cup {a} \in SUBSET Asks /\ stdin \in Seq(SUBSET Asks)
      BY <1>t DEF TypeOK
    <3> QED
      BY <2>1, <3>1, AppendToSeq
  <2>3. ~InPipe(a)
    BY <2>1 DEF TokenInv, Written, Unwritten
  <2>4. \A i \in 1..Len(stdin') : \A m \in Asks : stdin'[i] = {m} =>
          \/ i \in 1..Len(stdin) /\ stdin[i] = {m} /\ m # a
          \/ i = Len(stdin) + 1 /\ m = a
    <3> SUFFICES ASSUME NEW i \in 1..Len(stdin'), NEW m \in Asks, stdin'[i] = {m}
                 PROVE  \/ i \in 1..Len(stdin) /\ stdin[i] = {m} /\ m # a
                        \/ i = Len(stdin) + 1 /\ m = a
      OBVIOUS
    <3>1. CASE i = Len(stdin) + 1
      BY <3>1, <2>2
    <3>2. CASE i # Len(stdin) + 1
      <4>1. i \in 1..Len(stdin)
        BY <3>2, <2>2
      <4>2. stdin[i] = {m}
        BY <4>1, <2>2
      <4> QED
        BY <4>1, <4>2, <2>3 DEF InPipe
    <3> QED
      BY <3>1, <3>2
  <2>5. Once'
    <3>1. \A i, j \in 1..Len(stdin') : \A m \in Asks :
            stdin'[i] = {m} /\ stdin'[j] = {m} => i = j
      BY <2>4 DEF TokenInv, Once
    <3>2. \A m \in Asks : \A i \in 1..Len(stdin') : stdin'[i] = {m} =>
            work # m /\ \A j \in 1..Len(stdout) : stdout[j] # m
      BY <2>3, <2>4 DEF TokenInv, Once, InPipe
    <3> QED
      BY <2>1, <3>1, <3>2 DEF TokenInv, Once
  <2>6. \A m \in Asks : InPipe(m)' => InPipe(m) \/ m = a
    BY <2>1, <2>4 DEF InPipe
  <2>7. Written'
    <3>1. answer[a] # a
      BY <2>1 DEF TokenInv, OwnReply, Unwritten
    <3> QED
      BY <2>1, <2>6, <3>1 DEF TokenInv, Written, Unwritten
  <2>8. OwnReply' /\ Answered' /\ MismatchNeedsCancel'
    BY <2>1 DEF TokenInv, OwnReply, Answered, MismatchNeedsCancel, Unwritten
  <2> QED
    BY <2>5, <2>7, <2>8 DEF TokenInv
<1>2. CASE ~WriteLine(a)
  <2>1. UNCHANGED <<stdin, work, stdout, reader>>
    BY <1>2 DEF Start, AskStep, Register, LockStdin, WritePart, WriteFail,
                Resolve, Cancel, callVars, pipeVars
  <2>2. \/ UNCHANGED answer
        \/ DropSenders({pending[CidOf[a]]})
    BY <1>2 DEF Start, AskStep, Register, LockStdin, WritePart, WriteFail,
                Resolve, Cancel, Unregister, callVars
  <2>3. \A b \in Asks : /\ answer'[b] \in Asks => answer'[b] = answer[b]
                        /\ answer[b] \in Asks => answer'[b] = answer[b]
    BY <2>2, <1>t, DropSendersEffect
  <2>4. \A b \in Asks : b # a => pc'[b] = pc[b]
    BY <1>2, <1>t DEF TypeOK, Start, AskStep, Register, LockStdin, WritePart,
                      WriteFail, Resolve, Cancel, callVars
  <2>5. /\ Unwritten(a)' => Unwritten(a)
        /\ pc'[a] = "failed" =>
             pc[a] = "failed" \/ Unwritten(a) \/ (answer[a] = Closed /\ Registered(a))
        /\ pc'[a] = "answered" =>
             pc[a] = "answered" \/ answer[a] \in Asks
        /\ pc[a] \in {"answered", "cancelled"} => pc'[a] = pc[a]
    <3>1. CASE Start(a) \/ Register(a) \/ LockStdin(a) \/ WritePart(a)
      BY <3>1, <1>t DEF TypeOK, Start, Register, LockStdin, WritePart, Unwritten,
                        callVars
    <3>2. CASE WriteFail(a) \/ Cancel(a)
      BY <3>2, <1>t DEF TypeOK, WriteFail, Cancel, Registered, Unwritten
    <3>3. CASE Resolve(a)
      BY <3>3, <1>t DEF TypeOK, Resolve, Registered, Unwritten
    <3> QED
      BY <1>2, <3>1, <3>2, <3>3 DEF AskStep
  <2>6. answer[a] = Closed /\ Registered(a) => reader = "done"
    BY DEF BInv, CallInv, ClosedByDrain
  <2>7. \A b \in Asks : pc'[b] = "answered" => answer[b] \in Asks
    BY <2>4, <2>5 DEF TokenInv, Answered
  <2>8. \A b \in Asks : Unwritten(b)' => Unwritten(b)
    BY <2>4, <2>5 DEF Unwritten
  <2> QED
    BY <1>t, <2>1, <2>3, <2>4, <2>5, <2>6, <2>7, <2>8, CallToken
<1> QED
  BY <1>1, <1>2

\* Taking the first line off stdout takes one message off its way.
LEMMA PopStdout ==
  ASSUME TypeOK, TokenInv, stdout # <<>>, stdout' = Tail(stdout),
         UNCHANGED <<stdin, work>>
  PROVE  /\ Once'
         /\ \A m \in Asks : InPipe(m)' => InPipe(m) /\ m # Head(stdout)
<1>1. /\ Len(stdout') = Len(stdout) - 1 /\ Len(stdout) \in Nat
      /\ \A i \in 1..Len(stdout') : stdout'[i] = stdout[i + 1]
      /\ Len(stdout) >= 1 /\ Head(stdout) = stdout[1]
  BY TailOfSeq DEF TypeOK
<1>2. \A i \in 1..Len(stdout') : i + 1 \in 1..Len(stdout) /\ i + 1 # 1
  BY <1>1
<1>3. 1 \in 1..Len(stdout)
  BY <1>1
<1>4. Once'
  <2>1. \A i, j \in 1..Len(stdout') : stdout'[i] \in Asks /\ stdout'[i] = stdout'[j] => i = j
    <3> SUFFICES ASSUME NEW i \in 1..Len(stdout'), NEW j \in 1..Len(stdout'),
                        stdout'[i] \in Asks, stdout'[i] = stdout'[j]
                 PROVE  i = j
      OBVIOUS
    <3>1. i + 1 = j + 1
      BY <1>1, <1>2 DEF TokenInv, Once
    <3> QED
      BY <3>1, <1>1
  <2>2. \A m \in Asks : \A j \in 1..Len(stdout') :
          stdout'[j] = m => \E k \in 1..Len(stdout) : stdout[k] = m
    BY <1>1, <1>2
  <2> QED
    BY <2>1, <2>2 DEF TokenInv, Once
<1>5. \A m \in Asks : InPipe(m)' => InPipe(m)
  BY <1>1, <1>2 DEF InPipe
<1>6. \A m \in Asks : m = Head(stdout) => ~InPipe(m)'
  <2> SUFFICES ASSUME NEW m \in Asks, m = stdout[1] PROVE ~InPipe(m)'
    BY <1>1
  <2>1. \A j \in 1..Len(stdout') : stdout'[j] # m
    BY <1>1, <1>2, <1>3 DEF TokenInv, Once
  <2>2. work # m /\ \A i \in 1..Len(stdin) : stdin[i] # {m}
    BY <1>3 DEF TokenInv, Once
  <2> QED
    BY <2>1, <2>2 DEF InPipe
<1> QED
  BY <1>4, <1>5, <1>6

\* Steps of the child keep TokenInv: a message moves from one place to the
\* next.
LEMMA ChildToken ==
  ASSUME TypeOK, TokenInv, ChildStep
  PROVE  TokenInv'
<1> USE BridgeAssumption DEF BridgeAssumption
<1>0. UNCHANGED <<pc, answer, reader>>
  BY DEF ChildStep, ChildRead, ChildReply, ChildNoise, ChildExit, callVars
<1>1. CASE ChildRead
  <2>1. /\ stdin # <<>> /\ stdin' = Tail(stdin) /\ work = NoAsk /\ UNCHANGED stdout
        /\ work' \in Asks => Head(stdin) = {work'}
    BY <1>1 DEF ChildRead
  <2>2. /\ Len(stdin') = Len(stdin) - 1 /\ Len(stdin) \in Nat /\ Len(stdin) >= 1
        /\ \A i \in 1..Len(stdin') : stdin'[i] = stdin[i + 1]
        /\ Head(stdin) = stdin[1]
    BY <2>1, TailOfSeq DEF TypeOK
  <2>3. /\ \A i \in 1..Len(stdin') : i + 1 \in 1..Len(stdin) /\ i + 1 # 1
        /\ 1 \in 1..Len(stdin)
    BY <2>2
  <2>4. \A i, j \in 1..Len(stdin') : \A m \in Asks :
          stdin'[i] = {m} /\ stdin'[j] = {m} => i = j
    <3> SUFFICES ASSUME NEW i \in 1..Len(stdin'), NEW j \in 1..Len(stdin'),
                        NEW m \in Asks, stdin'[i] = {m}, stdin'[j] = {m}
                 PROVE  i = j
      OBVIOUS
    <3>1. /\ i + 1 \in 1..Len(stdin) /\ j + 1 \in 1..Len(stdin)
          /\ stdin[i + 1] = {m} /\ stdin[j + 1] = {m}
      BY <2>2, <2>3
    <3>2. i + 1 = j + 1
      BY <3>1 DEF TokenInv, Once
    <3> QED
      BY <3>2, <2>2
  <2>5. \A m \in Asks : \A i \in 1..Len(stdin') : stdin'[i] = {m} =>
          work' # m /\ \A j \in 1..Len(stdout) : stdout[j] # m
    <3> SUFFICES ASSUME NEW m \in Asks, NEW i \in 1..Len(stdin'), stdin'[i] = {m}
                 PROVE  work' # m /\ \A j \in 1..Len(stdout) : stdout[j] # m
      OBVIOUS
    <3>1. stdin[i + 1] = {m} /\ i + 1 \in 1..Len(stdin) /\ i + 1 # 1
      BY <2>2, <2>3
    <3>2. stdin[1] # {m}
      BY <2>3, <3>1 DEF TokenInv, Once
    <3> QED
      BY <2>1, <2>2, <3>1, <3>2 DEF TokenInv, Once
  <2>6. \A m \in Asks : work' = m => \A j \in 1..Len(stdout) : stdout[j] # m
    BY <2>1, <2>2, <2>3 DEF TokenInv, Once
  <2>7. Once'
    BY <2>1, <2>4, <2>5, <2>6 DEF TokenInv, Once
  <2>8. \A m \in Asks : InPipe(m)' => InPipe(m)
    BY <2>1, <2>2, <2>3 DEF InPipe
  <2> QED
    BY <1>0, <2>7, <2>8, PipeToken
<1>2. CASE ChildReply \/ ChildNoise
  <2>1. CASE UNCHANGED stdout
    <3>1. UNCHANGED stdin /\ work' \in {work, NoAsk}
      BY <1>2 DEF ChildReply, ChildNoise, TypeOK
    <3>2. Once' /\ \A m \in Asks : InPipe(m)' => InPipe(m)
      BY <2>1, <3>1 DEF TokenInv, Once, InPipe
    <3> QED
      BY <1>0, <3>2, PipeToken
  <2>2. CASE ~UNCHANGED stdout
    <3>1. PICK x \in Asks \cup {Noise, NotUtf8} :
            /\ stdout' = Append(stdout, x)
            /\ x \in Asks => x = work /\ work' = NoAsk
      BY <1>2, <2>2 DEF ChildReply, ChildNoise, TypeOK
    <3>2. UNCHANGED stdin /\ work' \in {work, NoAsk}
      BY <1>2 DEF ChildReply, ChildNoise, TypeOK
    <3>3. /\ Len(stdout') = Len(stdout) + 1 /\ Len(stdout) \in Nat
          /\ \A i \in 1..Len(stdout) : stdout'[i] = stdout[i]
          /\ stdout'[Len(stdout) + 1] = x
      BY <3>1, AppendToSeq DEF TypeOK
    <3>4. \A i \in 1..Len(stdout') :
            \/ i \in 1..Len(stdout) /\ stdout'[i] = stdout[i]
            \/ i = Len(stdout) + 1 /\ stdout'[i] = x
      BY <3>3
    <3>5. \A i, j \in 1..Len(stdout') : stdout'[i] \in Asks /\ stdout'[i] = stdout'[j] => i = j
      <4>1. x \in Asks => \A j \in 1..Len(stdout) : stdout[j] # x
        BY <3>1 DEF TokenInv, Once
      <4> QED
        BY <3>4, <4>1 DEF TokenInv, Once
    <3>6. \A m \in Asks : \A i \in 1..Len(stdin) : stdin[i] = {m} =>
            work' # m /\ \A j \in 1..Len(stdout') : stdout'[j] # m
      BY <3>1, <3>2, <3>4 DEF TokenInv, Once
    <3>7. \A m \in Asks : work' = m => \A j \in 1..Len(stdout') : stdout'[j] # m
      BY <3>1, <3>2, <3>4 DEF TokenInv, Once
    <3>8. Once'
      BY <3>2, <3>5, <3>6, <3>7 DEF TokenInv, Once
    <3>9. \A m \in Asks : InPipe(m)' => InPipe(m)
      BY <3>1, <3>2, <3>4 DEF InPipe
    <3> QED
      BY <1>0, <3>8, <3>9, PipeToken
  <2> QED
    BY <2>1, <2>2
<1>3. CASE ChildExit
  <2>1. stdin' = <<>> /\ work' = NoAsk /\ UNCHANGED stdout
    BY <1>3 DEF ChildExit
  <2>2. Once' /\ \A m \in Asks : InPipe(m)' => InPipe(m)
    BY <2>1 DEF TokenInv, Once, InPipe
  <2> QED
    BY <1>0, <2>2, PipeToken
<1> QED
  BY <1>1, <1>2, <1>3 DEF ChildStep

\* Steps of the reader keep TokenInv: the ask whose message was handed to
\* another one is over.
LEMMA ReaderToken ==
  ASSUME BInv, TokenInv, ReaderStep
  PROVE  TokenInv'
<1> USE BridgeAssumption DEF BridgeAssumption
<1>t. TypeOK
  BY DEF BInv
<1>1. CASE ReaderReply
  <2> DEFINE m == Head(stdout)
             a == pending[CidOf[m]]
  <2>1. /\ m \in Asks /\ CidOf[m] \in Cids /\ stdout # <<>> /\ stdout' = Tail(stdout)
        /\ \A b \in Asks : answer'[b] = IF b = a THEN m ELSE answer[b]
        /\ UNCHANGED <<pc, stdin, work, reader>>
        /\ reader = "running"
    BY <1>1, <1>t DEF TypeOK, ReaderReply
  <2>2. Once' /\ \A b \in Asks : InPipe(b)' => InPipe(b) /\ b # m
    BY <2>1, <1>t, PopStdout
  <2>3. InPipe(m)
    BY <2>1, <1>t DEF InPipe, TypeOK
  <2>4. ~Unwritten(m) /\ pc[m] # "failed" /\ answer[m] # m
    BY <2>1, <2>3 DEF TokenInv, Written
  <2>5. a \in Asks => Registered(a) /\ CidOf[a] = CidOf[m]
    BY <2>1 DEF BInv, CallInv, NoLeak
  <2>6. a \in Asks /\ a # m => pc[m] \in {"answered", "cancelled"}
    <3>1. a \in Asks /\ a # m => ~InFlight(m)
      BY <2>1, <2>5 DEF BInv, CallInv, OneInFlight, InFlight
    <3> QED
      BY <2>1, <2>4, <3>1, <1>t DEF TypeOK, InFlight, Registered, Unwritten
  <2>7. a \in Asks /\ a # m => \E b \in Asks : CidOf[b] = CidOf[m] /\ pc[b] = "cancelled"
    <3> SUFFICES ASSUME a \in Asks, a # m, pc[m] = "answered"
                 PROVE  \E b \in Asks : CidOf[b] = CidOf[m] /\ pc[b] = "cancelled"
      BY <2>1, <2>6
    <3>1. answer[m] \in Asks \ {m}
      BY <2>1, <2>4 DEF TokenInv, Answered
    <3> QED
      BY <2>1, <3>1 DEF TokenInv, MismatchNeedsCancel
  <2> HIDE DEF m, a
  <2>8. Written'
    BY <2>1, <2>2 DEF TokenInv, Written, Unwritten
  <2>9. OwnReply' /\ Answered'
    BY <2>1, <2>4 DEF TokenInv, OwnReply, Answered, Unwritten
  <2>10. MismatchNeedsCancel'
    <3> SUFFICES ASSUME NEW b \in Asks, answer'[b] \in Asks \ {b}
                 PROVE  /\ pc[answer'[b]] \in {"answered", "cancelled"}
                        /\ \E d \in Asks : CidOf[d] = CidOf[b] /\ pc[d] = "cancelled"
      BY <2>1 DEF MismatchNeedsCancel
    <3>1. CASE b = a
      BY <3>1, <2>1, <2>5, <2>6, <2>7
    <3>2. CASE b # a
      BY <3>2, <2>1 DEF TokenInv, MismatchNeedsCancel
    <3> QED
      BY <3>1, <3>2
  <2> QED
    BY <2>2, <2>8, <2>9, <2>10 DEF TokenInv
<1>2. CASE ReaderSkip
  <2>1. stdout # <<>> /\ stdout' = Tail(stdout) /\ UNCHANGED <<stdin, work, pc, answer, reader>>
    BY <1>2 DEF ReaderSkip, callVars
  <2> QED
    BY <2>1, <1>t, PopStdout, PipeToken
<1>3. CASE ReaderEnd \/ ReaderFlag \/ ReaderDrain
  <2>1. UNCHANGED <<stdin, work, stdout, pc>> /\ (reader = "done" => reader' = "done")
    BY <1>3 DEF ReaderEnd, ReaderFlag, ReaderDrain, callVars, pipeVars
  <2>2. \/ UNCHANGED answer
        \/ DropSenders({pending[c] : c \in Cids})
    BY <1>3 DEF ReaderEnd, ReaderFlag, ReaderDrain, callVars
  <2>3. \A b \in Asks : /\ answer'[b] \in Asks => answer'[b] = answer[b]
                        /\ answer[b] \in Asks => answer'[b] = answer[b]
    BY <2>2, <1>t, DropSendersEffect
  <2>4. \A b \in Asks : /\ Unwritten(b)' => Unwritten(b)
                        /\ pc[b] = "answered" => answer[b] \in Asks
    BY <2>1 DEF Unwritten, TokenInv, Answered
  <2> QED
    BY <1>t, <2>1, <2>3, <2>4, CallToken
<1> QED
  BY <1>1, <1>2, <1>3 DEF ReaderStep

\* TokenInv is inductive in the states of BInv.
LEMMA NextTokenInv == BInv /\ TokenInv /\ [Next]_vars => TokenInv'
<1> SUFFICES ASSUME BInv, TokenInv, [Next]_vars PROVE TokenInv'
  OBVIOUS
<1>1. CASE UNCHANGED vars
  <2>1. UNCHANGED <<pc, answer, stdin, work, stdout, reader>>
    BY <1>1 DEF vars
  <2> QED
    BY <2>1, PipeToken DEF TokenInv, Once, InPipe
<1> QED
  BY <1>1, AskToken, ReaderToken, ChildToken DEF Next, BInv

\* A caller is handed another message's reply only behind a cancelled ask of
\* its conversation: with no timeout, correlation by conversation id is exact.
THEOREM MismatchOnlyAfterCancel == Spec => []MismatchNeedsCancel
<1>1. Init => TokenInv
  BY BridgeAssumption
  DEF BridgeAssumption, Init, TokenInv, Once, Written, InPipe, OwnReply, Answered,
      MismatchNeedsCancel
<1>2. TokenInv => MismatchNeedsCancel
  BY DEF TokenInv
<1> QED
  BY <1>1, <1>2, NextTokenInv, BridgeInvariance, PTL DEF Spec

\* Where no caller times out or is dropped, every reply goes to the ask whose
\* message it answers.
THEOREM ExactWithoutCancel ==
  ASSUME ~Cancels
  PROVE  Spec => []AnswerMatches
<1> DEFINE NoCancelled == \A a \in Asks : pc[a] # "cancelled"
<1>1. Init => NoCancelled
  BY DEF Init
<1>2. BInv /\ NoCancelled /\ [Next]_vars => NoCancelled'
  <2> SUFFICES ASSUME BInv, NoCancelled, [Next]_vars PROVE NoCancelled'
    OBVIOUS
  <2>1. TypeOK
    BY DEF BInv
  <2>2. ASSUME NEW a \in Asks, Start(a) \/ AskStep(a) PROVE NoCancelled'
    BY <2>1, <2>2
    DEF TypeOK, Start, AskStep, Register, LockStdin, WriteLine, WritePart,
        WriteFail, Resolve, callVars
  <2>3. ASSUME NEW a \in Asks, Cancel(a) PROVE FALSE
    BY <2>3 DEF Cancel
  <2>4. CASE ReaderStep \/ ChildStep \/ UNCHANGED vars
    BY <2>4 DEF ReaderStep, ReaderReply, ReaderSkip, ReaderEnd, ReaderFlag,
                ReaderDrain, ChildStep, ChildRead, ChildReply, ChildNoise,
                ChildExit, callVars, pipeVars, vars
  <2> QED
    BY <2>2, <2>3, <2>4 DEF Next
<1>3. NoCancelled /\ MismatchNeedsCancel => AnswerMatches
  BY DEF MismatchNeedsCancel, AnswerMatches
<1> QED
  BY <1>1, <1>2, <1>3, BridgeInvariance, MismatchOnlyAfterCancel, PTL DEF Spec
=============================================================================
