-------------------------- MODULE DigestCacheProofs --------------------------
(***************************************************************************)
(* What DigestCache::snapshot() serves, for any number of threads, digests *)
(* and ticks.  The invariant follows a call through its steps: what it has *)
(* read is at least as new as what it saw, and what it may still cache is  *)
(* acceptable.  As long as no call has looked at the cache during a        *)
(* reload, at most one call reloads, and the mark in last_mtime is ahead   *)
(* of `inner` only while that call is between its two stores.              *)
(***************************************************************************)
EXTENDS DigestCache, TLAPS

Sound(s) == s[1] \in Valid /\ s[2] \in Valid

NotOlder(v, s) == v <= s[1] /\ v <= s[2]

Young(t) == began[t] - born[mtime[t]] <= MaxAge

\* A call, from its stat() to what it returned.
CallInv(t) ==
  /\ mtime[t] <= latest
  /\ pc[t] # "idle" => mtime[t] # NoDigest /\ began[t] <= now
  /\ pc[t] = "data" => mtime[t] <= read[t][1]
  /\ pc[t] \in {"check", "mark", "put"} => NotOlder(mtime[t], read[t])
  /\ pc[t] \in {"mark", "put"} => Sound(read[t]) /\ Young(t)
  /\ ret[t] # None => Sound(ret[t])
  /\ pc[t] = "idle" /\ ret[t] # None => mtime[t] # NoDigest /\ (~hit[t] => Young(t))

OneReload == \A t, u \in Tasks : Reloading(t) /\ Reloading(u) => t = u

\* The mark and the snapshot under it.
MarkInv ==
  /\ \A t \in Tasks : pc[t] = "put" => last = mtime[t]
  /\ (\A t \in Tasks : pc[t] # "put") /\ inner # None => NotOlder(last, inner)

DInv ==
  /\ TypeOK
  /\ inner # None => Sound(inner)
  /\ \A t \in Tasks : CallInv(t)
  /\ ~overlap => OneReload /\ MarkInv /\ NotBehindStat

-----------------------------------------------------------------------------
\* Nothing is published, cached or asked for at the start.
LEMMA DInvInit == Init => DInv
<1> SUFFICES ASSUME Init PROVE DInv
  OBVIOUS
<1>1. TypeOK
  <2>1. NoDigest \in Found /\ None \in Found \X Found /\ 0 \in 0..MaxTime
    BY DigestCacheAssumption DEF DigestCacheAssumption, Found, None
  <2>2. /\ born \in [Digests -> 0..MaxTime] /\ began \in [Tasks -> 0..MaxTime]
        /\ latest \in Found /\ last \in Found /\ now \in 0..MaxTime
    BY <2>1 DEF Init
  <2>3. /\ mtime \in [Tasks -> Found] /\ inner \in Found \X Found
        /\ read \in [Tasks -> Found \X Found] /\ ret \in [Tasks -> Found \X Found]
    BY <2>1 DEF Init
  <2>4. /\ pc \in [Tasks -> {"idle", "compare", "meta", "data", "check", "mark", "put"}]
        /\ hit \in [Tasks -> BOOLEAN] /\ overlap \in BOOLEAN
    BY DEF Init
  <2> QED
    BY <2>2, <2>3, <2>4 DEF TypeOK
<1>2. \A t \in Tasks : pc[t] = "idle" /\ ret[t] = None /\ mtime[t] = latest
  BY DEF Init
<1>3. \A t \in Tasks : CallInv(t)
  <2> SUFFICES ASSUME NEW t \in Tasks PROVE CallInv(t)
    OBVIOUS
  <2> QED
    BY <1>2 DEF Init, NoDigest, CallInv
<1>4. inner = None
  BY DEF Init
<1>5. OneReload /\ MarkInv /\ NotBehindStat
  BY <1>2, <1>4 DEF OneReload, MarkInv, Reloading, NotBehindStat
<1> QED
  BY <1>1, <1>3, <1>4, <1>5 DEF DInv

\* The variables keep their types.
LEMMA TypeStep == TypeOK /\ [Next]_vars => TypeOK'
<1> SUFFICES ASSUME TypeOK, [Next]_vars PROVE TypeOK'
  OBVIOUS
<1> USE DEF diskVars, cacheVars, taskVars, Goto, Return
<1>0. /\ NoDigest \in Found /\ None \in Found \X Found
      /\ latest < MaxDigest => latest + 1 \in Digests /\ latest + 1 \in Found
      /\ now < MaxTime => now + 1 \in 0..MaxTime
  BY DigestCacheAssumption DEF DigestCacheAssumption, TypeOK, Found, NoDigest, Digests, None
<1>1. CASE Publish
  BY <1>0, <1>1 DEF TypeOK, Publish
<1>2. CASE Tick
  BY <1>0, <1>2 DEF TypeOK, Tick
<1>3. ASSUME NEW t \in Tasks, Stat(t) PROVE TypeOK'
  <2>1. CASE latest = NoDigest
    BY <1>0, <1>3, <2>1 DEF TypeOK, Stat
  <2>2. CASE latest # NoDigest
    BY <1>3, <2>2 DEF TypeOK, Stat
  <2> QED
    BY <2>1, <2>2
<1>4. ASSUME NEW t \in Tasks, Compare(t) PROVE TypeOK'
  <2>1. /\ pc' \in [Tasks -> {"idle", "compare", "meta", "data", "check", "mark", "put"}]
        /\ ret' \in [Tasks -> Found \X Found] /\ hit' \in [Tasks -> BOOLEAN]
    BY <1>4 DEF TypeOK, Compare
  <2>2. overlap' \in BOOLEAN
    BY <1>4 DEF TypeOK, Compare
  <2> QED
    BY <1>4, <2>1, <2>2 DEF TypeOK, Compare
<1>5. ASSUME NEW t \in Tasks, ReadMeta(t) PROVE TypeOK'
  BY <1>0, <1>5 DEF TypeOK, ReadMeta
<1>6. ASSUME NEW t \in Tasks, ReadData(t) PROVE TypeOK'
  BY <1>6 DEF TypeOK, ReadData
<1>7. ASSUME NEW t \in Tasks, Check(t) PROVE TypeOK'
  <2>1. CASE Acceptable(t)
    BY <1>7, <2>1 DEF TypeOK, Check
  <2>2. CASE ~Acceptable(t)
    BY <1>0, <1>7, <2>2 DEF TypeOK, Check
  <2> QED
    BY <2>1, <2>2
<1>8. ASSUME NEW t \in Tasks, Mark(t) PROVE TypeOK'
  BY <1>8 DEF TypeOK, Mark
<1>9. ASSUME NEW t \in Tasks, Put(t) PROVE TypeOK'
  BY <1>9 DEF TypeOK, Put
<1>10. CASE UNCHANGED vars
  BY <1>10 DEF TypeOK, vars
<1> QED
  BY <1>1, <1>2, <1>3, <1>4, <1>5, <1>6, <1>7, <1>8, <1>9, <1>10 DEF Next

\* What a step of one call leaves alone in another: its locals.
SameCall(t) ==
  /\ pc'[t] = pc[t] /\ began'[t] = began[t] /\ mtime'[t] = mtime[t]
  /\ read'[t] = read[t] /\ ret'[t] = ret[t] /\ hit'[t] = hit[t]

\* A call whose locals stay the same keeps its invariant, whatever is
\* published, and however time goes by.
LEMMA SameCallInv ==
  ASSUME DInv, NEW t \in Tasks, SameCall(t),
         latest <= latest', now <= now', latest' \in Nat, now' \in Nat,
         \A v \in Digests : v <= latest => born'[v] = born[v]
  PROVE  CallInv(t)'
<1> USE DigestCacheAssumption DEF DigestCacheAssumption, DInv, TypeOK, Found, NoDigest, Digests
<1>1. CallInv(t)
  OBVIOUS
<1>2. mtime[t] # NoDigest => born'[mtime[t]] = born[mtime[t]]
  BY <1>1 DEF CallInv
<1>3. mtime[t] # NoDigest => Young(t)' = Young(t)
  BY <1>2 DEF SameCall, Young
<1>4. mtime'[t] <= latest'
  BY <1>1 DEF SameCall, CallInv
<1>5. pc'[t] # "idle" => mtime'[t] # NoDigest /\ began'[t] <= now'
  BY <1>1 DEF SameCall, CallInv
<1>6. Sound(read[t])' = Sound(read[t]) /\ Sound(ret[t])' = Sound(ret[t])
  BY DEF SameCall, Sound
<1>7. NotOlder(mtime[t], read[t])' = NotOlder(mtime[t], read[t])
  BY DEF SameCall, NotOlder
<1> QED
  BY <1>1, <1>3, <1>4, <1>5, <1>6, <1>7 DEF SameCall, CallInv, None

\* A step of one call leaves the others' invariants alone.
LEMMA OtherCalls ==
  ASSUME DInv, NEW u \in Tasks, UNCHANGED diskVars,
         \A t \in Tasks \ {u} : SameCall(t), CallInv(u)'
  PROVE  \A t \in Tasks : CallInv(t)'
<1> SUFFICES ASSUME NEW t \in Tasks, t # u PROVE CallInv(t)'
  OBVIOUS
<1>1. latest' = latest /\ now' = now /\ born' = born
  BY DEF diskVars
<1>2. latest \in Nat /\ now \in Nat
  BY DigestCacheAssumption
    DEF DInv, TypeOK, Found, NoDigest, Digests, DigestCacheAssumption
<1> QED
  BY <1>1, <1>2, SameCallInv

\* The world's steps.
LEMMA WorldStep ==
  ASSUME DInv, TypeOK', Publish \/ Tick PROVE DInv'
<1> USE DEF DInv
<1>1. UNCHANGED <<cacheVars, taskVars>>
  BY DEF Publish, Tick
<1>2. UNCHANGED <<last, inner, pc, began, mtime, read, ret, hit, overlap>>
  BY <1>1 DEF cacheVars, taskVars
<1>3. /\ latest \in Nat /\ now \in Nat /\ latest' \in Nat /\ now' \in Nat
      /\ latest <= latest' /\ now <= now'
      /\ \A v \in Digests : v <= latest => born'[v] = born[v]
  BY DigestCacheAssumption
    DEF TypeOK, Found, NoDigest, Digests, DigestCacheAssumption, Publish, Tick
<1>4. \A t \in Tasks : SameCall(t)
  BY <1>2 DEF SameCall
<1>5. \A t \in Tasks : CallInv(t)'
  BY <1>3, <1>4, SameCallInv
<1>6. (inner # None => Sound(inner))'
  BY <1>2 DEF Sound
<1>7. (~overlap => OneReload /\ MarkInv /\ NotBehindStat)'
  BY <1>2 DEF OneReload, MarkInv, NotBehindStat, Reloading, NotOlder
<1> QED
  BY <1>5, <1>6, <1>7

\* stat(): a call begins, or ends with nothing.
LEMMA StatStep ==
  ASSUME DInv, TypeOK', NEW u \in Tasks, Stat(u) PROVE DInv'
<1> USE DEF DInv
<1>1. /\ UNCHANGED <<latest, born, now, last, inner, read, overlap>>
      /\ pc[u] = "idle"
      /\ mtime' = [mtime EXCEPT ![u] = latest] /\ began' = [began EXCEPT ![u] = now]
      /\ hit' = [hit EXCEPT ![u] = FALSE]
      /\ \/ latest = NoDigest /\ ret' = [ret EXCEPT ![u] = None]
            /\ pc' = [pc EXCEPT ![u] = "idle"]
         \/ latest # NoDigest /\ ret' = ret /\ pc' = [pc EXCEPT ![u] = "compare"]
  BY DEF Stat, Goto, Return, diskVars, cacheVars
<1>2. /\ \A t \in Tasks \ {u} : SameCall(t)
      /\ mtime'[u] = latest /\ began'[u] = now
      /\ \/ pc'[u] = "compare" /\ latest # NoDigest /\ ret'[u] = ret[u]
         \/ pc'[u] = "idle" /\ ret'[u] = None
  BY <1>1 DEF SameCall, TypeOK
<1>3. CallInv(u)'
  BY <1>1, <1>2, DigestCacheAssumption DEF CallInv, Sound, TypeOK, Found, NoDigest, Digests,
    DigestCacheAssumption, None
<1>4. \A t \in Tasks : CallInv(t)'
  BY <1>1, <1>2, <1>3, OtherCalls DEF diskVars
<1>5. (inner # None => Sound(inner))'
  BY <1>1 DEF Sound
<1>6. \A t \in Tasks : (pc'[t] = "put" <=> pc[t] = "put") /\ (Reloading(t)' <=> Reloading(t))
  BY <1>1, <1>2 DEF Reloading, SameCall
<1>7. \A t \in Tasks : pc'[t] = "put" => mtime'[t] = mtime[t]
  BY <1>1, <1>2 DEF SameCall
<1>8. (~overlap => OneReload /\ MarkInv)'
  BY <1>1, <1>6, <1>7 DEF OneReload, MarkInv, NotOlder
<1>9. (~overlap => NotBehindStat)'
  BY <1>1, <1>2 DEF NotBehindStat, SameCall
<1> QED
  BY <1>4, <1>5, <1>8, <1>9

\* A look at the cache while nobody reloads finds a mark that is not ahead.
LEMMA CompareStep ==
  ASSUME DInv, TypeOK', NEW u \in Tasks, Compare(u) PROVE DInv'
<1> USE DEF DInv
<1>1. /\ UNCHANGED <<latest, born, now, last, inner, began, mtime, read>>
      /\ pc[u] = "compare" /\ UNCHANGED diskVars
  BY DEF Compare, diskVars, cacheVars
<1>2. /\ \A t \in Tasks \ {u} : SameCall(t)
      /\ \/ /\ last = mtime[u] /\ inner # None
            /\ pc'[u] = "idle" /\ ret'[u] = inner /\ hit'[u] = TRUE
         \/ pc'[u] = "meta" /\ ret'[u] = ret[u] /\ hit'[u] = hit[u]
  BY <1>1 DEF Compare, Goto, Return, SameCall, TypeOK
<1>3. CallInv(u)'
  BY <1>1, <1>2 DEF CallInv, Sound
<1>4. \A t \in Tasks : CallInv(t)'
  BY <1>1, <1>2, <1>3, OtherCalls
<1>5. (inner # None => Sound(inner))'
  BY <1>1 DEF Sound
<1>6. ASSUME ~overlap' PROVE ~overlap /\ \A t \in Tasks : ~Reloading(t)
  BY <1>6 DEF Compare
<1>7. ASSUME ~overlap' PROVE (OneReload /\ MarkInv /\ NotBehindStat)'
  <2>1. \A t \in Tasks : t # u => pc'[t] = pc[t] /\ ~Reloading(t)'
    BY <1>2, <1>6, <1>7 DEF SameCall, Reloading
  <2>2. OneReload'
    BY <2>1 DEF OneReload
  <2>3. (\A t \in Tasks : pc[t] # "put") /\ \A t \in Tasks : pc'[t] # "put"
    BY <1>2, <1>6, <1>7, <2>1 DEF Reloading
  <2>4. MarkInv'
    BY <1>1, <1>6, <1>7, <2>3 DEF MarkInv, NotOlder
  <2>5. inner # None => NotOlder(last, inner)
    BY <1>6, <1>7, <2>3 DEF MarkInv
  <2>6. NotBehindStat'
    BY <1>1, <1>2, <1>6, <1>7, <2>5 DEF NotBehindStat, NotOlder, SameCall
  <2> QED
    BY <2>2, <2>4, <2>6
<1> QED
  BY <1>4, <1>5, <1>7

\* The files that a reload opens are at least as new as what stat() saw.
LEMMA ReadStep ==
  ASSUME DInv, TypeOK', NEW u \in Tasks, ReadMeta(u) \/ ReadData(u) PROVE DInv'
<1> USE DEF DInv
<1>1. /\ UNCHANGED <<latest, born, now, last, inner, began, mtime, ret, hit, overlap>>
      /\ UNCHANGED diskVars
  BY DEF ReadMeta, ReadData, diskVars, cacheVars
<1>2. /\ \A t \in Tasks \ {u} : SameCall(t)
      /\ \/ pc[u] = "meta" /\ pc'[u] = "data" /\ read'[u] = <<latest, NoDigest>>
         \/ pc[u] = "data" /\ pc'[u] = "check" /\ read'[u] = <<read[u][1], latest>>
  BY <1>1 DEF ReadMeta, ReadData, Goto, SameCall, TypeOK
<1>3. CallInv(u)'
  BY <1>1, <1>2 DEF CallInv, NotOlder, Sound
<1>4. \A t \in Tasks : CallInv(t)'
  BY <1>1, <1>2, <1>3, OtherCalls
<1>5. (inner # None => Sound(inner))'
  BY <1>1 DEF Sound
<1>6. \A t \in Tasks : /\ pc'[t] = "put" <=> pc[t] = "put"
                       /\ pc'[t] = "idle" <=> pc[t] = "idle"
                       /\ Reloading(t)' <=> Reloading(t)
  BY <1>2 DEF Reloading, SameCall
<1>7. (~overlap => OneReload /\ MarkInv /\ NotBehindStat)'
  BY <1>1, <1>6 DEF OneReload, MarkInv, NotOlder, NotBehindStat
<1> QED
  BY <1>4, <1>5, <1>7

\* What is too old or of another schema goes no further.
LEMMA CheckStep ==
  ASSUME DInv, TypeOK', NEW u \in Tasks, Check(u) PROVE DInv'
<1> USE DEF DInv
<1>1. /\ UNCHANGED <<latest, born, now, last, inner, began, mtime, read, hit, overlap>>
      /\ UNCHANGED diskVars /\ pc[u] = "check"
  BY DEF Check, diskVars, cacheVars
<1>2. /\ \A t \in Tasks \ {u} : SameCall(t)
      /\ \/ Acceptable(u) /\ pc'[u] = "mark" /\ ret'[u] = ret[u]
         \/ pc'[u] = "idle" /\ ret'[u] = None
  <2>1. CASE Acceptable(u)
    BY <2>1, <1>1 DEF Check, Goto, SameCall, TypeOK
  <2>2. CASE ~Acceptable(u)
    BY <2>2, <1>1 DEF Check, Goto, Return, SameCall, TypeOK
  <2> QED
    BY <2>1, <2>2
<1>3. CallInv(u)'
  <2>1. mtime[u] # NoDigest /\ began[u] <= now
    BY <1>1 DEF CallInv
  <2>2. born[mtime[u]] \in Nat /\ began[u] \in Nat /\ now \in Nat
    BY <2>1, DigestCacheAssumption DEF DigestCacheAssumption, TypeOK, Found
  <2>3. Acceptable(u) => Sound(read[u]) /\ Young(u)
    BY <2>1, <2>2, DigestCacheAssumption DEF DigestCacheAssumption, Acceptable, Sound, Young
  <2> QED
    BY <1>1, <1>2, <2>1, <2>3 DEF CallInv, NotOlder, Sound, Young
<1>4. \A t \in Tasks : CallInv(t)'
  BY <1>1, <1>2, <1>3, OtherCalls
<1>5. (inner # None => Sound(inner))'
  BY <1>1 DEF Sound
<1>6. \A t \in Tasks : /\ pc'[t] = "put" <=> pc[t] = "put"
                       /\ Reloading(t)' => Reloading(t)
                       /\ pc'[t] = "idle" /\ ret'[t] # None =>
                            pc[t] = "idle" /\ ret'[t] = ret[t]
  BY <1>1, <1>2 DEF Reloading, SameCall
<1>7. (~overlap => OneReload /\ MarkInv /\ NotBehindStat)'
  BY <1>1, <1>6 DEF OneReload, MarkInv, NotOlder, NotBehindStat
<1> QED
  BY <1>4, <1>5, <1>7

\* The mark goes ahead of `inner`; the one call that reloads is about to follow.
LEMMA MarkStep ==
  ASSUME DInv, TypeOK', NEW u \in Tasks, Mark(u) PROVE DInv'
<1> USE DEF DInv
<1>1. /\ UNCHANGED <<latest, born, now, inner, began, mtime, read, ret, hit, overlap>>
      /\ UNCHANGED diskVars /\ pc[u] = "mark" /\ last' = mtime[u]
  BY DEF Mark, diskVars
<1>2. (\A t \in Tasks \ {u} : SameCall(t)) /\ pc'[u] = "put"
  BY <1>1 DEF Mark, Goto, SameCall, TypeOK
<1>3. CallInv(u)'
  BY <1>1, <1>2 DEF CallInv, NotOlder, Sound, Young
<1>4. \A t \in Tasks : CallInv(t)'
  BY <1>1, <1>2, <1>3, OtherCalls
<1>5. (inner # None => Sound(inner))'
  BY <1>1 DEF Sound
<1>6. \A t \in Tasks : /\ Reloading(t)' <=> Reloading(t)
                       /\ pc'[t] = "idle" <=> pc[t] = "idle"
  BY <1>1, <1>2 DEF Reloading, SameCall
<1>7. ASSUME ~overlap PROVE (OneReload /\ MarkInv /\ NotBehindStat)'
  <2>1. \A t \in Tasks : pc'[t] = "put" => t = u
    BY <1>2, <1>6, <1>7 DEF OneReload, Reloading
  <2>2. MarkInv'
    BY <1>1, <1>2, <2>1 DEF MarkInv
  <2> QED
    BY <1>1, <1>6, <1>7, <2>2 DEF OneReload, NotBehindStat
<1> QED
  BY <1>1, <1>4, <1>5, <1>7

\* ... and does.
LEMMA PutStep ==
  ASSUME DInv, TypeOK', NEW u \in Tasks, Put(u) PROVE DInv'
<1> USE DEF DInv
<1>1. /\ UNCHANGED <<latest, born, now, last, began, mtime, read, hit, overlap>>
      /\ UNCHANGED diskVars /\ pc[u] = "put" /\ inner' = read[u]
  BY DEF Put, diskVars
<1>2. (\A t \in Tasks \ {u} : SameCall(t)) /\ pc'[u] = "idle" /\ ret'[u] = read[u]
  BY <1>1 DEF Put, Goto, Return, SameCall, TypeOK
<1>3. CallInv(u)'
  BY <1>1, <1>2 DEF CallInv, NotOlder, Sound, Young
<1>4. \A t \in Tasks : CallInv(t)'
  BY <1>1, <1>2, <1>3, OtherCalls
<1>5. (inner # None => Sound(inner))'
  BY <1>1 DEF CallInv, Sound
<1>6. \A t \in Tasks : Reloading(t)' => Reloading(t)
  BY <1>1, <1>2 DEF Reloading, SameCall
<1>7. NotOlder(mtime[u], read[u])
  BY <1>1 DEF CallInv
<1>8. ASSUME ~overlap PROVE (OneReload /\ MarkInv /\ NotBehindStat)'
  <2>1. \A t \in Tasks : pc'[t] # "put"
    BY <1>1, <1>2, <1>8 DEF OneReload, Reloading, SameCall
  <2>2. MarkInv'
    BY <1>1, <1>7, <1>8, <2>1 DEF MarkInv, NotOlder
  <2>3. NotBehindStat'
    BY <1>1, <1>2, <1>7, <1>8 DEF NotBehindStat, NotOlder, SameCall
  <2>4. OneReload'
    BY <1>6, <1>8 DEF OneReload
  <2> QED
    BY <2>2, <2>3, <2>4
<1> QED
  BY <1>1, <1>4, <1>5, <1>8

LEMMA DInvStep == DInv /\ [Next]_vars => DInv'
<1> SUFFICES ASSUME DInv, [Next]_vars PROVE DInv'
  OBVIOUS
<1>1. TypeOK'
  BY TypeStep DEF DInv
<1>2. CASE UNCHANGED vars
  BY <1>2 DEF vars, DInv, TypeOK, CallInv, OneReload, MarkInv, NotBehindStat, Reloading, Sound,
    NotOlder, Young
<1>3. CASE Next
  BY <1>1, <1>3, WorldStep, StatStep, CompareStep, ReadStep, CheckStep, MarkStep, PutStep DEF Next
<1> QED
  BY <1>2, <1>3

-----------------------------------------------------------------------------
\* The invariant holds of every execution of snapshot() against the job.
LEMMA DInvAlways == Spec => []DInv
BY DInvInit, DInvStep, PTL DEF Spec

\* Every variable keeps its type: in particular a snapshot never names a
\* digest that was not published (digest_cache.rs:150-253).
THEOREM DigestTypeCorrect == Spec => []TypeOK
<1>1. DInv => TypeOK
  BY DEF DInv
<1> QED
  BY <1>1, DInvAlways, PTL

\* snapshot() hands out nothing that failed to parse, has another schema or,
\* unless it came out of the cache, was too old when the call began
\* (digest_cache.rs:31-34, 175-179), for any number of threads.
THEOREM AcceptableServed == Spec => []OnlyAcceptableServed
<1>1. DInv => OnlyAcceptableServed
  BY DEF DInv, CallInv, Sound, Young, OnlyAcceptableServed
<1> QED
  BY <1>1, DInvAlways, PTL

\* As long as no call looks at the cache during another's reload, a snapshot
\* is at least as new as the meta file its call saw (digest_cache.rs:171-173).
THEOREM CurrentAlone == Spec => []NotBehindStatAlone
<1>1. DInv => NotBehindStatAlone
  BY DEF DInv, NotBehindStatAlone
<1> QED
  BY <1>1, DInvAlways, PTL
=============================================================================
