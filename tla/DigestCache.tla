----------------------------- MODULE DigestCache -----------------------------
(***************************************************************************)
(* DigestCache::snapshot() (src/src/digest_cache.rs:150-253), called by    *)
(* handler tasks on several threads, against the offline job (external)    *)
(* that publishes a new digest by moving the `latest` link to a complete   *)
(* directory.                                                              *)
(*                                                                         *)
(* Digests are numbered in the order in which they are published; a number *)
(* stands for the contents of a directory and for the mtime of its meta    *)
(* file, which is new for each of them.                                    *)
(***************************************************************************)
EXTENDS Naturals

CONSTANTS
  Tasks,     \* threads that call snapshot()
  MaxDigest, \* bound: number of digests published
  MaxTime,   \* bound: ticks of the wall clock
  MaxAge,    \* max_age_secs, in ticks
  Valid      \* digests whose files parse and have the supported schema

Digests == 1..MaxDigest

NoDigest == 0

ASSUME DigestCacheAssumption ==
  /\ MaxDigest \in Nat
  /\ MaxTime \in Nat
  /\ MaxAge \in Nat
  /\ Valid \subseteq Digests

VARIABLES
  latest,   \* the digest that the link names, or NoDigest
  born,     \* born[v]: the wall clock when v was published
  now,      \* the wall clock
  last,     \* last_mtime
  inner,    \* inner: the snapshot <<meta of, data of>>, or None
  pc,       \* where each task is in snapshot()
  began,    \* began[t]: the wall clock when t's last call did its stat()
  mtime,    \* mtime[t]: what that stat() said
  read,     \* read[t]: the snapshot t is reading
  ret,      \* ret[t]: what t's last call returned
  hit,      \* history: hit[t]: t's last call was served out of the cache
  overlap   \* history: a call has looked at the cache during a reload

vars == <<latest, born, now, last, inner, pc, began, mtime, read, ret, hit, overlap>>
diskVars == <<latest, born, now>>
cacheVars == <<last, inner>>
taskVars == <<pc, began, mtime, read, ret, hit, overlap>>

None == <<NoDigest, NoDigest>>

Found == Digests \cup {NoDigest}

TypeOK ==
  /\ latest \in Found
  /\ born \in [Digests -> 0..MaxTime]
  /\ now \in 0..MaxTime
  /\ last \in Found
  /\ inner \in Found \X Found
  /\ pc \in [Tasks -> {"idle", "compare", "meta", "data", "check", "mark", "put"}]
  /\ began \in [Tasks -> 0..MaxTime]
  /\ mtime \in [Tasks -> Found]
  /\ read \in [Tasks -> Found \X Found]
  /\ ret \in [Tasks -> Found \X Found]
  /\ hit \in [Tasks -> BOOLEAN]
  /\ overlap \in BOOLEAN

Init ==
  /\ latest = NoDigest
  /\ born = [v \in Digests |-> 0]
  /\ now = 0
  /\ last = NoDigest
  /\ inner = None
  /\ pc = [t \in Tasks |-> "idle"]
  /\ began = [t \in Tasks |-> 0]
  /\ mtime = [t \in Tasks |-> NoDigest]
  /\ read = [t \in Tasks |-> None]
  /\ ret = [t \in Tasks |-> None]
  /\ hit = [t \in Tasks |-> FALSE]
  /\ overlap = FALSE

-----------------------------------------------------------------------------
(* The world. *)

\* The offline job moves the link to the next digest.
Publish ==
  /\ latest < MaxDigest
  /\ latest' = latest + 1
  /\ born' = [born EXCEPT ![latest + 1] = now]
  /\ UNCHANGED <<now, cacheVars, taskVars>>

Tick ==
  /\ now < MaxTime
  /\ now' = now + 1
  /\ UNCHANGED <<latest, born, cacheVars, taskVars>>

-----------------------------------------------------------------------------
(* snapshot() *)

Goto(t, label) == pc' = [pc EXCEPT ![t] = label]

Return(t, s) == Goto(t, "idle") /\ ret' = [ret EXCEPT ![t] = s]

Reloading(t) == pc[t] \in {"meta", "data", "check", "mark", "put"}

\* stat() of the meta file behind the link; no file, no snapshot.
Stat(t) ==
  /\ pc[t] = "idle"
  /\ began' = [began EXCEPT ![t] = now]
  /\ mtime' = [mtime EXCEPT ![t] = latest]
  /\ hit' = [hit EXCEPT ![t] = FALSE]
  /\ IF latest = NoDigest THEN Return(t, None)
                          ELSE Goto(t, "compare") /\ UNCHANGED ret
  /\ UNCHANGED <<diskVars, cacheVars, read, overlap>>

\* Under last_mtime's lock: if the mtime is the cached one, serve `inner`.
Compare(t) ==
  /\ pc[t] = "compare"
  /\ IF last = mtime[t] /\ inner # None
       THEN Return(t, inner) /\ hit' = [hit EXCEPT ![t] = TRUE]
       ELSE Goto(t, "meta") /\ UNCHANGED <<ret, hit>>
  /\ overlap' = (overlap \/ \E u \in Tasks : Reloading(u))
  /\ UNCHANGED <<diskVars, cacheVars, began, mtime, read>>

\* load_from_disk() opens the meta file: the link is resolved again ...
ReadMeta(t) ==
  /\ pc[t] = "meta"
  /\ read' = [read EXCEPT ![t] = <<latest, NoDigest>>]
  /\ Goto(t, "data")
  /\ UNCHANGED <<diskVars, cacheVars, began, mtime, ret, hit, overlap>>

\* ... and the data file: and again.
ReadData(t) ==
  /\ pc[t] = "data"
  /\ read' = [read EXCEPT ![t] = <<read[t][1], latest>>]
  /\ Goto(t, "check")
  /\ UNCHANGED <<diskVars, cacheVars, began, mtime, ret, hit, overlap>>

MetaAcceptable(t) ==  \* a variant that checks one of the two versions
  /\ read[t][1] \in Valid
  /\ now - born[mtime[t]] <= MaxAge

\* Both files must be readable and of the supported schema, and the mtime
\* that stat() saw young enough; otherwise no snapshot, and nothing cached.
Acceptable(t) ==
  /\ read[t][1] \in Valid
  /\ read[t][2] \in Valid
  /\ now - born[mtime[t]] <= MaxAge

Check(t) ==
  /\ pc[t] = "check"
  /\ IF Acceptable(t) THEN Goto(t, "mark") /\ UNCHANGED ret
                      ELSE Return(t, None)
  /\ UNCHANGED <<diskVars, cacheVars, began, mtime, read, hit, overlap>>

MarkNewest(t) ==  \* a variant that asks for the mtime again
  /\ pc[t] = "mark"
  /\ last' = latest
  /\ Goto(t, "put")
  /\ UNCHANGED <<diskVars, inner, began, mtime, read, ret, hit, overlap>>

\* last_mtime is stored under its lock ...
Mark(t) ==
  /\ pc[t] = "mark"
  /\ last' = mtime[t]
  /\ Goto(t, "put")
  /\ UNCHANGED <<diskVars, inner, began, mtime, read, ret, hit, overlap>>

\* ... and inner afterwards under its own.
Put(t) ==
  /\ pc[t] = "put"
  /\ inner' = read[t]
  /\ Return(t, read[t])
  /\ UNCHANGED <<diskVars, last, began, mtime, read, hit, overlap>>

-----------------------------------------------------------------------------
Next ==
  \/ Publish
  \/ Tick
  \/ \E t \in Tasks :
       \/ Stat(t) \/ Compare(t)
       \/ ReadMeta(t) \/ ReadData(t)
       \/ Check(t) \/ Mark(t) \/ Put(t)

Spec == Init /\ [][Next]_vars

-----------------------------------------------------------------------------
(* Properties. *)

\* However calls and publications interleave, no caller is handed a part of
\* a digest that failed to parse or has another schema (digest_cache.rs:
\* 31-34, "refuse to serve"), nor, unless it is in the cache already, a digest
\* that was too old when the call began (175-179).
OnlyAcceptableServed ==
  \A t \in Tasks : ret[t] # None =>
    /\ ret[t][1] \in Valid /\ ret[t][2] \in Valid
    /\ pc[t] = "idle" /\ ~hit[t] => began[t] - born[mtime[t]] <= MaxAge

\* A snapshot is at least as new as the meta file that the call looked at
\* (digest_cache.rs:171-173): the mark in last_mtime is not ahead of `inner`.
NotBehindStat ==
  \A t \in Tasks : pc[t] = "idle" /\ ret[t] # None =>
    mtime[t] <= ret[t][1] /\ mtime[t] <= ret[t][2]

\* That holds as long as no call looks at the cache during another's reload,
\* though the link may move between any two steps of a reload, the schema
\* may be refused, and calls may wait anywhere else.
NotBehindStatAlone == ~overlap => NotBehindStat
=============================================================================
