--------------------------- MODULE ConvSerializer ---------------------------
(***************************************************************************)
(* The per-conversation serializer (src/src/conv_serializer.rs), with its  *)
(* only caller, the text branch of dispatch_and_reply, and the background  *)
(* sweep of run_server.                                                    *)
(*                                                                         *)
(* A map from conversation id to a reference-counted tokio mutex.  A       *)
(* handler task clones the reference under the map's lock, queues on the   *)
(* mutex, and keeps the reference until its guard is dropped; the sweep    *)
(* drops map entries that nobody references and that were not asked for    *)
(* for a while.  A mutex object whose last reference is gone may be        *)
(* allocated again for another conversation.                               *)
(***************************************************************************)
EXTENDS Naturals

CONSTANTS
  Tasks,       \* handler tasks (one inbound text message each at a time)
  Cids,        \* conversation ids
  Mutexes,     \* addresses at which a mutex may be allocated
  NoCid,       \* "no conversation"
  NoMutex,     \* "no mutex"
  IdleLimit,   \* cid_lock_idle_secs, in clock ticks
  Sweep        \* TRUE iff [session].dir is set: only then main.rs sweeps

ASSUME SerializerAssumption ==
  /\ NoCid \notin Cids
  /\ NoMutex \notin Mutexes
  /\ IdleLimit \in Nat \ {0}
  /\ Sweep \in BOOLEAN

VARIABLES
  locks,  \* locks[c]: the mutex the map holds for c, or NoMutex (no entry)
  age,    \* age[c]: ticks since the entry's last_seen, up to IdleLimit
  pc,     \* idle -> got (has the Arc) -> queued (on the mutex; first = holds)
  conv,   \* conv[t]: conversation of t's message
  arc,    \* arc[t]: the mutex t has a reference to
  ahead   \* ahead[t]: tasks queued on arc[t] before t (tokio mutexes are FIFO)

vars == <<locks, age, pc, conv, arc, ahead>>

TypeOK ==
  /\ locks \in [Cids -> Mutexes \cup {NoMutex}]
  /\ age \in [Cids -> 0..IdleLimit]
  /\ pc \in [Tasks -> {"idle", "got", "queued"}]
  /\ conv \in [Tasks -> Cids \cup {NoCid}]
  /\ arc \in [Tasks -> Mutexes \cup {NoMutex}]
  /\ ahead \in [Tasks -> SUBSET Tasks]

Init ==
  /\ locks = [c \in Cids |-> NoMutex]
  /\ age = [c \in Cids |-> 0]
  /\ pc = [t \in Tasks |-> "idle"]
  /\ conv = [t \in Tasks |-> NoCid]
  /\ arc = [t \in Tasks |-> NoMutex]
  /\ ahead = [t \in Tasks |-> {}]

-----------------------------------------------------------------------------
(* The map. *)

\* Some task has a clone of the mutex: Arc::strong_count(m) > 1 for a mapped m.
Referenced(m) == \E t \in Tasks : arc[t] = m

\* Addresses the allocator may return: nothing points there.
Unallocated == {m \in Mutexes : ~Referenced(m) /\ \A c \in Cids : locks[c] # m}

\* acquire(): get or insert the entry, refresh last_seen, clone the Arc; all
\* of it under the outer std mutex.
Acquire(t, c) ==
  /\ pc[t] = "idle"
  /\ \/ locks[c] # NoMutex /\ UNCHANGED locks
     \/ /\ locks[c] = NoMutex
        /\ \E m \in Unallocated : locks' = [locks EXCEPT ![c] = m]
  /\ age' = [age EXCEPT ![c] = 0]
  /\ pc' = [pc EXCEPT ![t] = "got"]
  /\ conv' = [conv EXCEPT ![t] = c]
  /\ arc' = [arc EXCEPT ![t] = locks'[c]]
  /\ UNCHANGED ahead

\* Bugs: only the age counts; or nothing is ever old enough.
KeptIfRecent(c) == age[c] < IdleLimit
KeptAlways(c) == Referenced(locks[c]) \/ age[c] <= IdleLimit

\* An entry the sweep keeps: in use, or seen since the cutoff.
Kept(c) == Referenced(locks[c]) \/ age[c] < IdleLimit

\* gc(): retain, under the same outer mutex as acquire().
Gc ==
  /\ Sweep
  /\ locks' = [c \in Cids |-> IF Kept(c) THEN locks[c] ELSE NoMutex]
  /\ UNCHANGED <<age, pc, conv, arc, ahead>>

\* The monotonic clock advances.  Ages past IdleLimit are all alike to gc().
Tick ==
  /\ age' = [c \in Cids |-> IF age[c] < IdleLimit THEN age[c] + 1 ELSE age[c]]
  /\ UNCHANGED <<locks, pc, conv, arc, ahead>>

-----------------------------------------------------------------------------
(* The mutex of one conversation. *)

Queued(t) == pc[t] = "queued"

Holds(t) == Queued(t) /\ ahead[t] = {}

\* First poll of lock_owned(): the task joins the end of the queue, and has
\* the lock at once when the queue was empty.
Join(t) ==
  /\ pc[t] = "got"
  /\ ahead' = [ahead EXCEPT ![t] = {u \in Tasks : Queued(u) /\ arc[u] = arc[t]}]
  /\ pc' = [pc EXCEPT ![t] = "queued"]
  /\ UNCHANGED <<locks, age, conv, arc>>

\* Bug: the queue is not told.
DropSilently(t) ==
  /\ pc' = [pc EXCEPT ![t] = "idle"]
  /\ conv' = [conv EXCEPT ![t] = NoCid]
  /\ arc' = [arc EXCEPT ![t] = NoMutex]
  /\ ahead' = [ahead EXCEPT ![t] = {}]
  /\ UNCHANGED <<locks, age>>

\* The guard, or the pending lock future, is dropped together with its Arc;
\* if it was the first, the next in the queue has the lock.
Drop(t) ==
  /\ pc' = [pc EXCEPT ![t] = "idle"]
  /\ conv' = [conv EXCEPT ![t] = NoCid]
  /\ arc' = [arc EXCEPT ![t] = NoMutex]
  /\ ahead' = [u \in Tasks |-> IF u = t THEN {} ELSE ahead[u] \ {t}]
  /\ UNCHANGED <<locks, age>>

\* compute_text_payload returned (or its future was dropped).
Release(t) == Holds(t) /\ Drop(t)

\* axum drops the handler future while it waits for the lock.
Abandon(t) == Queued(t) /\ ~Holds(t) /\ Drop(t)

-----------------------------------------------------------------------------
Next ==
  \/ \E t \in Tasks :
       \/ \E c \in Cids : Acquire(t, c)
       \/ Join(t)
       \/ Release(t)
       \/ Abandon(t)
  \/ Gc
  \/ Tick

Spec == Init /\ [][Next]_vars

\* A task that has the Arc polls the lock, a critical section ends (the ask
\* in it is bounded by a timeout), the interval timer of the sweep fires and
\* the clock runs.  Nothing obliges a fan to write or a caller to give up.
Fairness ==
  /\ \A t \in Tasks : WF_vars(Join(t)) /\ WF_vars(Release(t))
  /\ WF_vars(Tick)
  /\ WF_vars(Gc)

FairSpec == Spec /\ Fairness

-----------------------------------------------------------------------------
(* Properties. *)

\* Two tasks are never inside the critical section of the same conversation
\* (conv_serializer.rs:12 "same cid is strictly serial"), whatever the sweep
\* evicted and whatever mutex objects were allocated in between.
MutualExclusion ==
  \A t, u \in Tasks : Holds(t) /\ Holds(u) /\ conv[t] = conv[u] => t = u

\* The detailed map implements one eternal FIFO lock per conversation.
Abs == INSTANCE PerConvLock WITH
         wants <- [t \in Tasks |-> IF Queued(t) THEN conv[t] ELSE NoCid]

AbsSpec == Abs!Spec

\* A task that queues on a lock gets it, unless it is dropped first.
NoStarvation == \A t \in Tasks : Queued(t) ~> (Holds(t) \/ ~Queued(t))

\* A conversation nobody writes to any more ends up without an entry
\* (main.rs:229-233 "the map stays small [...] because idle entries get
\* evicted").
QuietEntriesEvicted ==
  \A c \in Cids :
    <>[](\A t \in Tasks : conv[t] # c) => <>[](locks[c] = NoMutex)
=============================================================================
