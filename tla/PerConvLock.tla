---------------------------- MODULE PerConvLock ----------------------------
(***************************************************************************)
(* What the plugin needs from the conversation serializer: every           *)
(* conversation id has one lock, for ever, and the tasks that ask for it   *)
(* get it one at a time in the order in which they asked.  Nothing here    *)
(* says how a lock is stored or when its storage is reclaimed;             *)
(* ConvSerializer implements this with a map that is garbage-collected.    *)
(***************************************************************************)
CONSTANTS Tasks, Cids, NoCid

VARIABLES
  wants,   \* wants[t]: the conversation t is in line for, or NoCid
  ahead    \* ahead[t]: the tasks in that line that came before t

absVars == <<wants, ahead>>

InLine(t) == wants[t] # NoCid

\* The first task of a line has the lock.
Owns(t) == InLine(t) /\ ahead[t] = {}

Init ==
  /\ wants = [t \in Tasks |-> NoCid]
  /\ ahead = [t \in Tasks |-> {}]

Enter(t, c) ==
  /\ ~InLine(t)
  /\ wants' = [wants EXCEPT ![t] = c]
  /\ ahead' = [ahead EXCEPT ![t] = {u \in Tasks : wants[u] = c}]

\* The owner is done, or a task behind it gives up.
Leave(t) ==
  /\ InLine(t)
  /\ wants' = [wants EXCEPT ![t] = NoCid]
  /\ ahead' = [u \in Tasks |-> IF u = t THEN {} ELSE ahead[u] \ {t}]

Next == \E t \in Tasks : Leave(t) \/ \E c \in Cids : Enter(t, c)

Spec == Init /\ [][Next]_absVars
=============================================================================
