------------------------------ MODULE Service ------------------------------
(***************************************************************************)
(* The process from its start to its end: Startup until the server         *)
(* answers, Deadline while it does, and a graceful shutdown that lets the  *)
(* handlers finish (src/src/main.rs:158-317).  One configuration governs   *)
(* both.                                                                   *)
(***************************************************************************)
EXTENDS Startup, Deadline

vars == <<cfg, startVars, deadlineVars>>

TypeOK == StartType /\ DeadlineType

Init == StartInit /\ DeadlineInit

\* What happens before and beside the requests.
Boot ==
  /\ \/ Run
     \/ StartStep
     \/ \E i \in Workers : ChildExits(i) \/ Notice(i)
     \/ Signal
  /\ UNCHANGED deadlineVars

\* New connections are accepted until the signal.
Accept ==
  /\ phase = "serving"
  /\ \E m \in Messages, k \in 1..MaxAttempts : Post(m, k)
  /\ UNCHANGED startVars

Serve == DeadlineStep /\ UNCHANGED startVars

\* Graceful shutdown waits for the responses.
Finish ==
  /\ queue = <<>>
  /\ Stop
  /\ UNCHANGED deadlineVars

Next == Boot \/ Accept \/ Serve \/ Finish

Spec == Init /\ [][Next]_vars

\* The runtime runs handlers and timers, WeChat hangs up, time goes by.
\* Nothing is assumed of the children.
Fairness ==
  /\ WF_vars(HandlerStep /\ UNCHANGED startVars)
  /\ WF_vars(Tick /\ UNCHANGED startVars)
  /\ \A d \in Deliveries : WF_vars(Close(d) /\ UNCHANGED startVars)
  /\ WF_vars(Finish)

FairSpec == Spec /\ Fairness

-----------------------------------------------------------------------------
(* Properties. *)

\* A shutdown ends although a child hangs: every handler in progress, and
\* every one that waits for its lock, ends by its timeouts (main.rs:292-294).
DrainEnds == phase = "draining" ~> phase = "stopped"
=============================================================================
