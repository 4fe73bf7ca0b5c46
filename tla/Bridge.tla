------------------------------- MODULE Bridge -------------------------------
(***************************************************************************)
(* One Bridge of the plugin (src/src/bridge.rs): calls of ask(), the       *)
(* pending map and its guard, the pipes to the EvoClaw child process, the  *)
(* reader task and the alive flag.  The child is external: it reads one    *)
(* line at a time (bridge.rs:5-7), may answer it or not, may write other   *)
(* lines, and may exit.                                                    *)
(*                                                                         *)
(* An ask stands for its message, and also for the reply that the child    *)
(* computes for it: answer[a] = b means that the caller of a was handed    *)
(* the reply to b.                                                         *)
(***************************************************************************)
EXTENDS Naturals, Sequences

CONSTANTS
  Asks,        \* calls of ask(), each made at most once
  Cids,        \* conversation ids
  CidOf,       \* CidOf[a]: the conversation id that a passes
  NoAsk,       \* "no ask"
  Open,        \* a oneshot channel that nobody has used
  Closed,      \* a oneshot channel whose sender was dropped
  Noise,       \* a stdout line the reader skips: blank, no JSON, unknown cid
  NotUtf8,     \* a stdout line that next_line() fails on
  PipeCap,     \* bound: lines that fit in the stdin pipe
  OutCap,      \* bound: lines that fit in the stdout pipe
  Cancels      \* TRUE iff callers may time out or be dropped

ASSUME BridgeAssumption ==
  /\ CidOf \in [Asks -> Cids]
  /\ NoAsk \notin Asks
  /\ Open \notin Asks
  /\ Closed \notin Asks
  /\ Open # Closed
  /\ Noise \notin Asks
  /\ NotUtf8 \notin Asks
  /\ NotUtf8 # Noise
  /\ PipeCap \in Nat \ {0}
  /\ OutCap \in Nat \ {0}
  /\ Cancels \in BOOLEAN

VARIABLES
  alive,    \* Bridge::alive
  pending,  \* pending[c]: the ask whose sender the map holds for c, or NoAsk
  pc,       \* where each ask is
  answer,   \* answer[a]: the state of a's oneshot channel, or the reply in it
  stdin,    \* complete lines in the pipe; a line is the set of asks whose
            \* bytes are in it, and parses iff there is one
  tail,     \* asks whose bytes follow the last newline in the pipe
  child,    \* running or exited
  work,     \* the ask that the child is processing, or NoAsk
  stdout,   \* lines in the pipe back
  reader    \* running -> ended (left its loop) -> flagged -> done

vars == <<alive, pending, pc, answer, stdin, tail, child, work, stdout, reader>>
callVars == <<alive, pending, pc, answer>>
pipeVars == <<stdin, tail, child, work, stdout>>

TypeOK ==
  /\ alive \in BOOLEAN
  /\ pending \in [Cids -> Asks \cup {NoAsk}]
  /\ pc \in [Asks -> {"idle", "checked", "registered", "writing", "awaiting",
                      "answered", "failed", "cancelled"}]
  /\ answer \in [Asks -> Asks \cup {Open, Closed}]
  /\ stdin \in Seq(SUBSET Asks)
  /\ tail \in SUBSET Asks
  /\ child \in {"running", "exited"}
  /\ work \in Asks \cup {NoAsk}
  /\ stdout \in Seq(Asks \cup {Noise, NotUtf8})
  /\ reader \in {"running", "ended", "flagged", "done"}

Init ==
  /\ alive = TRUE
  /\ pending = [c \in Cids |-> NoAsk]
  /\ pc = [a \in Asks |-> "idle"]
  /\ answer = [a \in Asks |-> Open]
  /\ stdin = <<>>
  /\ tail = {}
  /\ child = "running"
  /\ work = NoAsk
  /\ stdout = <<>>
  /\ reader = "running"

-----------------------------------------------------------------------------
(* ask() *)

\* Dropping the senders of the asks in S closes their channels.
DropSenders(S) ==
  answer' = [b \in Asks |->
               IF b \in S /\ answer[b] = Open THEN Closed ELSE answer[b]]

\* Bug: no guard, the entry of an ask that ends stays in the map.
LeakyUnregister(a) == UNCHANGED <<pending, answer>>

\* Drop of PendingGuard: the key is removed, whoever's sender it holds.
Unregister(a) ==
  /\ pending' = [pending EXCEPT ![CidOf[a]] = NoAsk]
  /\ DropSenders({pending[CidOf[a]]})

\* The guard exists.
Registered(a) == pc[a] \in {"registered", "writing", "awaiting"}

InFlight(a) == pc[a] = "checked" \/ Registered(a)

\* Bug: asks of one conversation overlap.
OverlappingStart(a) ==
  /\ pc[a] = "idle"
  /\ pc' = [pc EXCEPT ![a] = IF alive THEN "checked" ELSE "failed"]
  /\ UNCHANGED <<alive, pending, answer, reader, pipeVars>>

\* ConvSerializer (handler.rs:303) lets one ask per conversation in; a
\* classifier's ask has a conversation id of its own (intent/ai.rs:131).
Start(a) ==
  /\ pc[a] = "idle"
  /\ \A b \in Asks : CidOf[b] = CidOf[a] => ~InFlight(b)
  /\ pc' = [pc EXCEPT ![a] = IF alive THEN "checked" ELSE "failed"]
  /\ UNCHANGED <<alive, pending, answer, reader, pipeVars>>

\* Insert the sender; one that was there before is dropped.
Register(a) ==
  /\ pc[a] = "checked"
  /\ pending' = [pending EXCEPT ![CidOf[a]] = a]
  /\ DropSenders({pending[CidOf[a]]})
  /\ pc' = [pc EXCEPT ![a] = "registered"]
  /\ UNCHANGED <<alive, reader, pipeVars>>

\* Bug: stdin is written without its mutex.
UnlockedStdin(a) ==
  /\ pc[a] = "registered"
  /\ pc' = [pc EXCEPT ![a] = "writing"]
  /\ UNCHANGED <<alive, pending, answer, reader, pipeVars>>

\* stdin.lock().await
LockStdin(a) ==
  /\ pc[a] = "registered"
  /\ \A b \in Asks : pc[b] # "writing"
  /\ pc' = [pc EXCEPT ![a] = "writing"]
  /\ UNCHANGED <<alive, pending, answer, reader, pipeVars>>

\* The pipe takes what is left of the line and its newline; unlock.
WriteLine(a) ==
  /\ pc[a] = "writing"
  /\ child = "running"
  /\ Len(stdin) < PipeCap
  /\ stdin' = Append(stdin, tail \cup {a})
  /\ tail' = {}
  /\ pc' = [pc EXCEPT ![a] = "awaiting"]
  /\ UNCHANGED <<alive, pending, answer, child, work, stdout, reader>>

\* The pipe fills up in the middle of the line: write_all() suspends.
WritePart(a) ==
  /\ pc[a] = "writing"
  /\ child = "running"
  /\ Len(stdin) = PipeCap
  /\ a \notin tail
  /\ tail' = tail \cup {a}
  /\ UNCHANGED <<callVars, stdin, child, work, stdout, reader>>

\* EPIPE: mark the bridge dead, return the error, drop the guard.
WriteFail(a) ==
  /\ pc[a] = "writing"
  /\ child = "exited"
  /\ alive' = FALSE
  /\ pc' = [pc EXCEPT ![a] = "failed"]
  /\ Unregister(a)
  /\ UNCHANGED <<reader, pipeVars>>

\* rx.await is ready.
Resolve(a) ==
  /\ pc[a] = "awaiting"
  /\ answer[a] # Open
  /\ pc' = [pc EXCEPT ![a] = IF answer[a] = Closed THEN "failed" ELSE "answered"]
  /\ Unregister(a)
  /\ UNCHANGED <<alive, reader, pipeVars>>

\* The caller's timeout fires, or its future is dropped, at an await of
\* ask().  What a half-done write put into the pipe stays there.
Cancel(a) ==
  /\ Cancels
  /\ Registered(a)
  /\ pc' = [pc EXCEPT ![a] = "cancelled"]
  /\ Unregister(a)
  /\ UNCHANGED <<alive, reader, pipeVars>>

-----------------------------------------------------------------------------
(* The child (external). *)

\* It reads a line when it has finished the last, and skips what does not
\* parse.
ChildRead ==
  /\ child = "running"
  /\ work = NoAsk
  /\ stdin # <<>>
  /\ work' \in {a \in Asks : Head(stdin) = {a}}
             \cup {x \in {NoAsk} : \A a \in Asks : Head(stdin) # {a}}
  /\ stdin' = Tail(stdin)
  /\ UNCHANGED <<callVars, tail, child, stdout, reader>>

\* It has a reply, or gives up on the message without one.
ChildReply ==
  /\ child = "running"
  /\ work # NoAsk
  /\ \/ Len(stdout) < OutCap /\ stdout' = Append(stdout, work)
     \/ UNCHANGED stdout
  /\ work' = NoAsk
  /\ UNCHANGED <<callVars, stdin, tail, child, reader>>

\* It writes a line that is nobody's reply.
ChildNoise ==
  /\ child = "running"
  /\ Len(stdout) < OutCap
  /\ \E x \in {Noise, NotUtf8} : stdout' = Append(stdout, x)
  /\ UNCHANGED <<callVars, stdin, tail, child, work, reader>>

\* It exits, or is killed; what it wrote before can still be read.
ChildExit ==
  /\ child = "running"
  /\ child' = "exited"
  /\ work' = NoAsk
  /\ stdin' = <<>>
  /\ tail' = {}
  /\ UNCHANGED <<callVars, stdout, reader>>

-----------------------------------------------------------------------------
(* The reader task. *)

\* Bug: replies are correlated by nothing but their arrival.
ReplyToAnyone ==
  /\ reader = "running"
  /\ stdout # <<>>
  /\ Head(stdout) \in Asks
  /\ \E c \in Cids :
       /\ answer' = [a \in Asks |->
                       IF a = pending[c] THEN Head(stdout) ELSE answer[a]]
       /\ pending' = [pending EXCEPT ![c] = NoAsk]
  /\ stdout' = Tail(stdout)
  /\ UNCHANGED <<alive, pc, stdin, tail, child, work, reader>>

\* A reply is handed to the ask that is pending for its conversation id.
ReaderReply ==
  /\ reader = "running"
  /\ stdout # <<>>
  /\ Head(stdout) \in Asks
  /\ LET c == CidOf[Head(stdout)]
     IN  /\ answer' = [a \in Asks |->
                         IF a = pending[c] THEN Head(stdout) ELSE answer[a]]
         /\ pending' = [pending EXCEPT ![c] = NoAsk]
  /\ stdout' = Tail(stdout)
  /\ UNCHANGED <<alive, pc, stdin, tail, child, work, reader>>

\* Any other line is skipped.
ReaderSkip ==
  /\ reader = "running"
  /\ stdout # <<>>
  /\ Head(stdout) = Noise
  /\ stdout' = Tail(stdout)
  /\ UNCHANGED <<callVars, stdin, tail, child, work, reader>>

\* next_line() returns None (the child has exited) or Err: the loop ends.
ReaderEnd ==
  /\ reader = "running"
  /\ IF stdout = <<>> THEN child = "exited" ELSE Head(stdout) = NotUtf8
  /\ reader' = "ended"
  /\ UNCHANGED <<callVars, pipeVars>>

\* Bug: the flag is left to the next failing write.
NoFlag ==
  /\ reader = "ended"
  /\ reader' = "flagged"
  /\ UNCHANGED <<callVars, pipeVars>>

\* alive.store(false)
ReaderFlag ==
  /\ reader = "ended"
  /\ alive' = FALSE
  /\ reader' = "flagged"
  /\ UNCHANGED <<pending, pc, answer, pipeVars>>

\* Bug: the entries are left to the callers' timeouts.
NoDrain ==
  /\ reader = "flagged"
  /\ reader' = "done"
  /\ UNCHANGED <<callVars, pipeVars>>

\* map.clear(): every sender is dropped.
ReaderDrain ==
  /\ reader = "flagged"
  /\ DropSenders({pending[c] : c \in Cids})
  /\ pending' = [c \in Cids |-> NoAsk]
  /\ reader' = "done"
  /\ UNCHANGED <<alive, pc, pipeVars>>

-----------------------------------------------------------------------------
AskStep(a) ==
  \/ Register(a)
  \/ LockStdin(a)
  \/ WriteLine(a)
  \/ WritePart(a)
  \/ WriteFail(a)
  \/ Resolve(a)

ReaderStep ==
  \/ ReaderReply
  \/ ReaderSkip
  \/ ReaderEnd
  \/ ReaderFlag
  \/ ReaderDrain

ChildStep ==
  \/ ChildRead
  \/ ChildReply
  \/ ChildNoise
  \/ ChildExit

Next ==
  \/ \E a \in Asks : Start(a) \/ AskStep(a) \/ Cancel(a)
  \/ ReaderStep
  \/ ChildStep

Spec == Init /\ [][Next]_vars

\* The runtime polls ready tasks.  Nothing is assumed of the child or of
\* timeouts.
Fairness ==
  /\ \A a \in Asks : WF_vars(AskStep(a))
  /\ WF_vars(ReaderStep)

FairSpec == Spec /\ Fairness

-----------------------------------------------------------------------------
(* Properties. *)

\* The pending map holds the senders of live asks only, each under its own
\* conversation: a cancelled, failed or answered ask leaves nothing behind
\* (bridge.rs:16-19 "a never-arriving reply can't leak memory").
NoLeak ==
  \A c \in Cids : pending[c] # NoAsk =>
    Registered(pending[c]) /\ CidOf[pending[c]] = c

\* An ask fails only if the pool can see that the bridge is dead: no ask
\* loses its sender to another one (bridge.rs:312-314, 344-346, 349-350).
FailedMeansDead == \A a \in Asks : pc[a] = "failed" => ~alive

\* A fan never gets the reply to a message of another conversation, whatever
\* was cancelled, torn or reordered (conv_serializer.rs:5-9).
ConversationIsolation ==
  \A a \in Asks : answer[a] \in Asks => CidOf[answer[a]] = CidOf[a]

\* An ask gets the reply to another message only if that one is over and
\* some ask of the same conversation was cancelled before: without timeouts,
\* correlation by conversation id is exact.
MismatchNeedsCancel ==
  \A a \in Asks : answer[a] \in Asks \ {a} =>
    /\ pc[answer[a]] \in {"answered", "cancelled"}
    /\ \E b \in Asks : CidOf[b] = CidOf[a] /\ pc[b] = "cancelled"

\* The bytes of two messages get into one line only behind a cancelled write:
\* the stdin mutex keeps concurrent asks apart (bridge.rs:139-140, 327-343).
TornNeedsCancel ==
  \A i \in 1..Len(stdin) : \A a, b \in stdin[i] :
    a # b => "cancelled" \in {pc[a], pc[b]}

\* Once the reader has gone at the end of stdout, no ask that wrote its line
\* is left waiting (bridge.rs:229-231 "awaiters' rx.await returns Err
\* immediately instead of hanging until their caller-level timeout").  A
\* reader that goes because a line is not UTF-8 leaves that line in front,
\* and gives no such guarantee: the child may still live, and an ask that saw
\* the flag up may register after the drain.
FailFast ==
  reader = "done" /\ stdout = <<>> =>
    \A a \in Asks : pc[a] = "awaiting" => answer[a] # Open

\* The caller is handed the reply to its own message (bridge.rs:217-218: a
\* stale reply after a timeout is one with no pending request).
AnswerMatches == \A a \in Asks : answer[a] \in Asks => answer[a] = a

\* When the child exits and what it wrote can be read, the flag falls and
\* every ask ends, with no help of a timeout (bridge.rs:21-24).
DeadChildFailsFast ==
  child = "exited" /\ (\A i \in 1..Len(stdout) : stdout[i] # NotUtf8)
    ~> ~alive /\ \A a \in Asks : ~InFlight(a)
=============================================================================
