--------------------------- MODULE ServiceProofs ---------------------------
(***************************************************************************)
(* Proofs about Service, with Startup and Deadline, for any configurations *)
(* that an operator may write, any messages and any length of a tick that  *)
(* the configured times are multiples of (a millisecond always is one).    *)
(*                                                                         *)
(* StartInv follows the children from the spawn to the probe.  DeadlineInv *)
(* ties WeChat's clocks to the timer of the handler at the front of the    *)
(* line: a first POST that found the line empty stays at its front, and    *)
(* the second one stands right behind it or finds its answer in the cache. *)
(***************************************************************************)
EXTENDS Service, SequenceTheorems, TLAPS

-----------------------------------------------------------------------------
(* Startup. *)

\* Where the process is past load, the configuration is a valid one.
Validated == phase \notin {"idle", "load", "failed", "killed"} => Valid(cfg)

\* Whether startup waits for children that exit at once.
Grace == cfg.evoclaw.startup_grace_ms > 0

\* Children are started in their order, as many as the configuration says.
ChildOrder ==
  /\ phase \in {"idle", "load", "key", "dir"} => \A i \in Workers : child[i] = "none"
  /\ phase = "spawn" => \A i \in Workers : child[i] # "none" => i < Count
  /\ phase \in {"grace", "probe"} => \A i \in Workers : child[i] # "none" => i <= Count

\* Whoever had exited at the end of the grace is found dead by the probe,
\* and the server does not come to be wired.
ProbeState ==
  /\ phase \in {"idle", "load", "key", "dir", "spawn", "grace"} => probed = {}
  /\ Grace /\ phase = "probe" => \A i \in early : child[i] = "dead" /\ i \notin probed
  /\ Grace /\ phase \in {"wire", "bind"} => early = {}

StartInv ==
  /\ StartType /\ Validated /\ ChildOrder /\ ProbeState
  /\ CheckCatches /\ ProbedBeforeServing

\* A valid configuration has at least one worker, and at most MaxWorkers.
LEMMA CountFacts ==
  /\ \A c \in Files : c.evoclaw.worker_count \in Nat
  /\ MaxWorkers \in Nat /\ Workers \subseteq Nat
  /\ StartType /\ Valid(cfg) => Count \in Workers
BY StartupAssumption
DEF StartupAssumption, StartType, Valid, EvoclawValid, Count, Workers

\* Steps of startup keep types.
LEMMA StartStepType ==
  ASSUME StartType, Run \/ StartStep \/ Signal \/ Stop
         \/ (\E i \in Workers : ChildExits(i) \/ Notice(i))
  PROVE  StartType'
<1>1. CASE Run
  BY <1>1 DEF Run, Proceed, StartType, Starting
<1>2. CASE Load
  BY <1>2 DEF Load, Fail, Reap, Proceed, StartType, Starting, Spawned
<1>3. CASE DecodeKey
  BY <1>3 DEF DecodeKey, Fail, Reap, Proceed, StartType, Starting
<1>4. CASE \E works \in BOOLEAN : CreateDir(works)
  BY <1>4 DEF CreateDir, Fail, Reap, Proceed, StartType, Starting
<1>5. CASE \E works \in BOOLEAN : SpawnWorker(works)
  BY <1>5 DEF SpawnWorker, Fail, Reap, StartType, Starting
<1>6. CASE \E works \in BOOLEAN : Bind(works)
  BY <1>6 DEF Bind, Fail, Reap, StartType, Starting
<1>7. CASE GraceOver
  BY <1>7 DEF GraceOver, StartType, Starting
<1>8. CASE Probe
  BY <1>8 DEF Probe, Fail, Reap, StartType, Starting, Spawned
<1>9. CASE Wire
  BY <1>9 DEF Wire, Fail, Reap, Proceed, StartType, Starting
<1>10. CASE Signal \/ Stop
  BY <1>10 DEF Signal, Stop, Reap, Proceed, StartType, Starting
<1>11. CASE \E i \in Workers : ChildExits(i) \/ Notice(i)
  BY <1>11 DEF ChildExits, Notice, StartType
<1> QED
  BY <1>1, <1>2, <1>3, <1>4, <1>5, <1>6, <1>7, <1>8, <1>9, <1>10, <1>11 DEF StartStep

\* A failure keeps the invariant if its reason is one that `check` leaves.
LEMMA FailKeeps ==
  ASSUME StartInv, NEW r \in {"load", "address", "key", "dir", "spawn", "died", "route", "port"},
         Fail(r), StartType',
         r \in {"load", "address"} => ~Valid(cfg),
         r = "key" /\ Valid(cfg) => cfg.wechat.encoding_aes_key = "43 other characters",
         r = "route" => cfg.server.endpoint_path # "/wechat"
  PROVE  StartInv'
BY DEF Fail, StartInv, Validated, ChildOrder, ProbeState, CheckCatches, Check,
       ProbedBeforeServing, Grace, Starting, Count

\* The next child is started.
LEMMA SpawnInv ==
  ASSUME StartInv, NEW works \in BOOLEAN, SpawnWorker(works)
  PROVE  StartInv'
<1>1. StartType' /\ StartType
  BY StartStepType DEF StartInv, StartStep
<1>2. CASE Fail("spawn")
  BY <1>1, <1>2, FailKeeps
<1>3. CASE ~Fail("spawn")
  <2>1. PICK i \in Workers :
          /\ child[i] = "none"
          /\ \A j \in Workers : j < i => child[j] # "none"
          /\ child' = [child EXCEPT ![i] = "up"]
          /\ phase' = IF i = Count THEN "grace" ELSE "spawn"
          /\ UNCHANGED <<cfg, why, probed, early>>
    BY <1>3 DEF SpawnWorker, Spawned
  <2>2. phase = "spawn" /\ Valid(cfg) /\ probed = {}
    BY DEF SpawnWorker, StartInv, Validated, ProbeState
  <2>3. \A j \in Workers : child[j] # "none" => j < Count
    BY <2>2 DEF StartInv, ChildOrder
  <2>4. Count \in Workers /\ Count \in Nat /\ i \in Nat /\ UNCHANGED Count
    BY <1>1, <2>1, <2>2, CountFacts DEF Count
  <2>5. child[Count] = "none"
    BY <2>3, <2>4
  <2>6. i <= Count
    BY <2>1, <2>4, <2>5
  <2>7. \A j \in Workers : child'[j] # "none" => j < Count \/ j = i
    BY <1>1, <2>1, <2>3 DEF StartType
  <2>8. CASE i = Count
    <3>1. phase' = "grace"
      BY <2>1, <2>8
    <3>2. \A j \in Workers : child'[j] # "none" => j <= Count
      <4>1. \A j \in Workers : j \in Nat
        BY CountFacts
      <4> QED
        BY <2>4, <2>7, <2>8, <4>1
    <3> QED
      BY <1>1, <2>1, <2>2, <2>4, <3>1, <3>2
      DEF StartInv, Validated, ChildOrder, ProbeState, CheckCatches, Check, ProbedBeforeServing
  <2>9. CASE i # Count
    <3>1. i < Count
      BY <2>4, <2>6, <2>9
    <3>2. phase' = "spawn" /\ \A j \in Workers : child'[j] # "none" => j < Count
      BY <2>1, <2>7, <2>9, <3>1
    <3> QED
      BY <1>1, <2>1, <2>2, <2>4, <3>2
      DEF StartInv, Validated, ChildOrder, ProbeState, CheckCatches, Check, ProbedBeforeServing
  <2> QED
    BY <2>8, <2>9
<1> QED
  BY <1>2, <1>3

\* The next flag is looked at.
LEMMA ProbeInv ==
  ASSUME StartInv, Probe
  PROVE  StartInv'
<1>1. StartType' /\ StartType
  BY StartStepType DEF StartInv, StartStep
<1>2. CASE Fail("died")
  BY <1>1, <1>2, FailKeeps
<1>3. CASE ~Fail("died")
  <2>1. PICK i \in Workers :
          /\ child[i] # "none" /\ child[i] # "dead"
          /\ \A j \in Workers : child[j] # "none" /\ j < i => j \in probed
          /\ probed' = probed \cup {i}
          /\ phase' = IF i = Count THEN "wire" ELSE "probe"
          /\ UNCHANGED <<cfg, why, child, early>>
    BY <1>3 DEF Probe, Spawned
  <2>2. phase = "probe" /\ Valid(cfg)
    BY DEF Probe, StartInv, Validated
  <2>3. \A j \in Workers : child[j] # "none" => j <= Count
    BY <2>2 DEF StartInv, ChildOrder
  <2>4. Grace => \A j \in early : child[j] = "dead" /\ j \notin probed
    BY <2>2 DEF StartInv, ProbeState
  <2>5. /\ Count \in Nat /\ UNCHANGED <<Count, Grace>>
        /\ \A j \in Workers : j \in Nat
    BY <1>1, <2>1, <2>2, CountFacts DEF Count, Grace
  <2>6. ASSUME Grace, i = Count, NEW j \in early PROVE FALSE
    <3>1. j \in Workers /\ child[j] = "dead" /\ j \notin probed
      BY <1>1, <2>4, <2>6 DEF StartType
    <3>2. j <= Count /\ j # i
      BY <2>1, <2>3, <3>1
    <3>3. j < i
      BY <2>5, <2>6, <3>1, <3>2
    <3> QED
      BY <2>1, <3>1, <3>3
  <2>7. ProbeState'
    BY <2>1, <2>4, <2>5, <2>6 DEF ProbeState
  <2>8. ChildOrder'
    BY <2>1, <2>3, <2>5 DEF ChildOrder
  <2> QED
    BY <1>1, <2>1, <2>2, <2>7, <2>8
    DEF StartInv, Validated, CheckCatches, Check, ProbedBeforeServing
<1> QED
  BY <1>2, <1>3

\* Every step of startup keeps its invariant.
LEMMA StartStepInv ==
  ASSUME StartInv, Run \/ StartStep \/ Signal \/ Stop
         \/ (\E i \in Workers : ChildExits(i) \/ Notice(i))
  PROVE  StartInv'
<1>1. StartType' /\ StartType
  BY StartStepType DEF StartInv
<1> USE DEF StartInv, Validated, ChildOrder, ProbeState, CheckCatches, Check,
            ProbedBeforeServing, Grace, Starting, Count
<1>2. CASE Run \/ Signal \/ Stop
  BY <1>1, <1>2 DEF Run, Signal, Stop, Proceed
<1>3. CASE Load
  <2>1. CASE ~Valid(cfg) /\ Fail("load")
    BY <1>1, <2>1, FailKeeps
  <2>2. CASE cfg.server.bind = "typo" /\ Fail("address")
    <3>1. ~Valid(cfg)
      BY <2>2 DEF Valid, ServerValid
    <3> QED
      BY <1>1, <2>2, <3>1, FailKeeps
  <2>3. CASE Valid(cfg) /\ Proceed("key")
    BY <1>1, <1>3, <2>3 DEF Load, Proceed
  <2> QED
    BY <1>3, <2>1, <2>2, <2>3 DEF Load
<1>4. CASE DecodeKey
  <2>1. CASE Fail("key") /\ cfg.wechat.encrypt_mode # "plain"
             /\ cfg.wechat.encoding_aes_key # "key"
    <3>1. Valid(cfg) => cfg.wechat.encoding_aes_key = "43 other characters"
      BY <2>1 DEF Valid, WechatValid
    <3> QED
      BY <1>1, <2>1, <3>1, FailKeeps
  <2>2. CASE Proceed("spawn") \/ Proceed("dir")
    <3>1. Valid(cfg) /\ \A i \in Workers : child[i] = "none"
      BY <1>4 DEF DecodeKey
    <3> QED
      BY <1>1, <1>4, <2>2, <3>1 DEF DecodeKey, Proceed
  <2> QED
    BY <1>4, <2>1, <2>2 DEF DecodeKey
<1>5. ASSUME NEW works \in BOOLEAN, CreateDir(works) PROVE StartInv'
  <2>1. CASE Fail("dir")
    BY <1>1, <2>1, FailKeeps
  <2>2. CASE Proceed("spawn")
    BY <1>1, <1>5, <2>2 DEF CreateDir, Proceed
  <2> QED
    BY <1>5, <2>1, <2>2 DEF CreateDir
<1>6. ASSUME NEW works \in BOOLEAN, SpawnWorker(works) PROVE StartInv'
  BY <1>6, SpawnInv
<1>7. ASSUME NEW works \in BOOLEAN, Bind(works) PROVE StartInv'
  <2>1. CASE Fail("port")
    BY <1>1, <2>1, FailKeeps
  <2>2. CASE ~Fail("port")
    BY <1>1, <1>7, <2>2 DEF Bind
  <2> QED
    BY <2>1, <2>2
<1>8. CASE GraceOver
  <2>1. Grace => \A i \in early' : child[i] = "dead"
    BY <1>8 DEF GraceOver
  <2>2. /\ phase = "grace" /\ phase' = "probe" /\ probed = {}
        /\ UNCHANGED <<cfg, why, child, probed>>
    BY <1>8 DEF GraceOver
  <2> QED
    BY <1>1, <2>1, <2>2
<1>9. CASE Probe
  BY <1>9, ProbeInv
<1>10. CASE Wire
  <2>1. CASE Fail("route") /\ cfg.server.endpoint_path # "/wechat"
    BY <1>1, <2>1, FailKeeps
  <2>2. CASE Proceed("bind")
    BY <1>1, <1>10, <2>2 DEF Wire, Proceed
  <2> QED
    BY <1>10, <2>1, <2>2 DEF Wire
<1>11. ASSUME NEW i \in Workers, ChildExits(i) \/ Notice(i) PROVE StartInv'
  <2>1. /\ \A j \in Workers : /\ child'[j] # "none" => child[j] # "none"
                              /\ child[j] = "dead" => child'[j] = "dead"
        /\ \A j \in Workers : child[j] = "none" => child'[j] = "none"
        /\ UNCHANGED <<cfg, phase, why, probed, early>>
    BY <1>1, <1>11 DEF ChildExits, Notice, StartType
  <2>2. early \subseteq Workers
    BY <1>1 DEF StartType
  <2> QED
    BY <1>1, <2>1, <2>2
<1> QED
  BY <1>2, <1>3, <1>4, <1>5, <1>6, <1>7, <1>8, <1>9, <1>10, <1>11 DEF StartStep

-----------------------------------------------------------------------------
(* Deadline: arithmetic of ticks, and the line for the lock. *)

\* Counting ticks.
LEMMA Times ==
  ASSUME NEW k \in Nat, NEW a \in Nat, NEW b \in Nat
  PROVE  /\ a * k \in Nat /\ 0 * k = 0 /\ (a + 1) * k = a * k + k
         /\ a <= b => a * k <= b * k
         /\ a * k < b * k => (a + 1) * k <= b * k
<1>1. a * k \in Nat /\ 0 * k = 0 /\ (a + 1) * k = a * k + k
  OBVIOUS
<1>2. ASSUME NEW c \in Nat, NEW d \in Nat, c <= d PROVE c * k <= d * k
  <2>1. PICK j \in Nat : d = c + j
    BY <1>2, d - c \in Nat
  <2>2. d * k = c * k + j * k /\ j * k \in Nat /\ c * k \in Nat
    BY <2>1
  <2> QED
    BY <2>2
<1>3. a * k < b * k => (a + 1) * k <= b * k
  <2> SUFFICES ASSUME a * k < b * k PROVE (a + 1) * k <= b * k
    OBVIOUS
  <2>1. ~(b <= a)
    <3> SUFFICES ASSUME b <= a PROVE FALSE
      OBVIOUS
    <3>1. b * k <= a * k /\ b * k \in Nat /\ a * k \in Nat
      BY <1>2
    <3> QED
      BY <3>1
  <2> QED
    BY <2>1, <1>2
<1> QED
  BY <1>1, <1>2, <1>3

\* The times of a configuration are so many ticks, and a valid one's end
\* before WeChat hangs up.
LEMMA TimeFacts ==
  /\ TickMs \in Nat /\ TickMs > 0 /\ WeChatMs \in Nat /\ MaxAttempts \in Nat
  /\ MaxAttempts >= 2
  /\ \A c \in Files :
       /\ c.evoclaw.timeout_ms \in Nat /\ c.intent.ai_timeout_ms \in Nat
       /\ \E n \in Nat : c.evoclaw.timeout_ms = n * TickMs
       /\ \E n \in Nat : c.intent.ai_timeout_ms = n * TickMs
       /\ Valid(c) => c.evoclaw.timeout_ms < WeChatMs
       /\ Valid(c) /\ Classifies(c) => c.intent.ai_timeout_ms <= c.evoclaw.timeout_ms
<1>1. MaxTimeout = 4900
  BY DEF MaxTimeout
<1>2. /\ TickMs \in Nat /\ TickMs > 0 /\ WeChatMs \in Nat /\ MaxAttempts \in Nat
      /\ MaxAttempts >= 2 /\ WeChatMs > 4900
  BY <1>1, DeadlineAssumption DEF DeadlineAssumption
<1>3. ASSUME NEW c \in Files
      PROVE  /\ c.evoclaw.timeout_ms \in Nat /\ c.intent.ai_timeout_ms \in Nat
             /\ \E n \in Nat : c.evoclaw.timeout_ms = n * TickMs
             /\ \E n \in Nat : c.intent.ai_timeout_ms = n * TickMs
  BY DeadlineAssumption DEF DeadlineAssumption
<1>4. ASSUME NEW c \in Files, Valid(c) PROVE c.evoclaw.timeout_ms < WeChatMs
  <2>1. EvoclawValid(c)
    BY <1>4 DEF Valid
  <2>2. c.evoclaw.timeout_ms \in 1..MaxTimeout
    BY <2>1 DEF EvoclawValid
  <2>3. \A t \in 1..MaxTimeout : t < WeChatMs
    BY <1>1, <1>2
  <2> QED
    BY <2>2, <2>3
<1>5. ASSUME NEW c \in Files, Valid(c), Classifies(c)
      PROVE  c.intent.ai_timeout_ms <= c.evoclaw.timeout_ms
  BY <1>3, <1>5 DEF Valid, IntentValid, Classifies
<1> QED
  BY <1>2, <1>3, <1>4, <1>5

InLine(d) == \E i \in 1..Len(queue) : queue[i] = d

\* The line behind an end, an entry and a departure from its middle.
LEMMA TailLine ==
  ASSUME NEW S, NEW q \in Seq(S), IsInjective(q), q # <<>>
  PROVE  /\ Tail(q) \in Seq(S) /\ IsInjective(Tail(q))
         /\ Len(q) \in Nat /\ Len(q) >= 1 /\ Len(Tail(q)) = Len(q) - 1
         /\ Head(q) = q[1] /\ q[1] \in S
         /\ \A i \in 1..Len(Tail(q)) : Tail(q)[i] = q[i + 1]
         /\ \A d : (\E i \in 1..Len(Tail(q)) : Tail(q)[i] = d)
                   <=> d # q[1] /\ \E i \in 1..Len(q) : q[i] = d
<1>1. /\ Tail(q) \in Seq(S) /\ Len(q) \in Nat /\ Len(q) >= 1 /\ Len(Tail(q)) = Len(q) - 1
      /\ Head(q) = q[1] /\ q[1] \in S
      /\ \A i \in 1..Len(Tail(q)) : Tail(q)[i] = q[i + 1]
      /\ DOMAIN q = 1..Len(q) /\ DOMAIN Tail(q) = 1..Len(Tail(q))
  OBVIOUS
<1>2. IsInjective(Tail(q))
  <2> SUFFICES ASSUME NEW i \in 1..Len(Tail(q)), NEW j \in 1..Len(Tail(q)),
                      Tail(q)[i] = Tail(q)[j]
               PROVE  i = j
    BY <1>1 DEF IsInjective
  <2>1. i + 1 \in 1..Len(q) /\ j + 1 \in 1..Len(q) /\ q[i + 1] = q[j + 1]
    BY <1>1
  <2>2. i + 1 = j + 1
    BY <1>1, <2>1 DEF IsInjective
  <2> QED
    BY <2>2
<1>3. ASSUME NEW d, NEW i \in 1..Len(Tail(q)), Tail(q)[i] = d
      PROVE  d # q[1] /\ \E j \in 1..Len(q) : q[j] = d
  <2>1. i + 1 \in 1..Len(q) /\ q[i + 1] = d /\ 1 \in 1..Len(q) /\ i + 1 # 1
    BY <1>1, <1>3
  <2> QED
    BY <1>1, <2>1 DEF IsInjective
<1>4. ASSUME NEW d, NEW j \in 1..Len(q), q[j] = d, d # q[1]
      PROVE  \E i \in 1..Len(Tail(q)) : Tail(q)[i] = d
  <2>1. j - 1 \in 1..Len(Tail(q)) /\ (j - 1) + 1 = j
    BY <1>1, <1>4
  <2> QED
    BY <1>1, <1>4, <2>1
<1> QED
  BY <1>1, <1>2, <1>3, <1>4

LEMMA AppendLine ==
  ASSUME NEW S, NEW q \in Seq(S), IsInjective(q), NEW e \in S,
         \A i \in 1..Len(q) : q[i] # e
  PROVE  /\ Append(q, e) \in Seq(S) /\ IsInjective(Append(q, e))
         /\ Len(q) \in Nat /\ Len(Append(q, e)) = Len(q) + 1
         /\ \A i \in 1..Len(q) : Append(q, e)[i] = q[i]
         /\ Append(q, e)[Len(q) + 1] = e
         /\ \A d : (\E i \in 1..Len(Append(q, e)) : Append(q, e)[i] = d)
                   <=> d = e \/ \E i \in 1..Len(q) : q[i] = d
<1>1. /\ Append(q, e) \in Seq(S) /\ Len(q) \in Nat /\ Len(Append(q, e)) = Len(q) + 1
      /\ \A i \in 1..Len(q) : Append(q, e)[i] = q[i]
      /\ Append(q, e)[Len(q) + 1] = e
      /\ DOMAIN q = 1..Len(q) /\ DOMAIN Append(q, e) = 1..Len(Append(q, e))
  OBVIOUS
<1>2. \A i \in 1..(Len(q) + 1) : i \in 1..Len(q) \/ i = Len(q) + 1
  BY <1>1
<1>3. IsInjective(Append(q, e))
  BY <1>1, <1>2 DEF IsInjective
<1>4. \A d : (\E i \in 1..Len(Append(q, e)) : Append(q, e)[i] = d)
            <=> d = e \/ \E i \in 1..Len(q) : q[i] = d
  <2>1. Len(q) + 1 \in 1..Len(Append(q, e)) /\ 1..Len(q) \subseteq 1..Len(Append(q, e))
    BY <1>1
  <2> QED
    BY <1>1, <1>2, <2>1
<1> QED
  BY <1>1, <1>3, <1>4

LEMMA RemoveLine ==
  ASSUME NEW S, NEW q \in Seq(S), IsInjective(q), NEW n \in 2..Len(q)
  PROVE  /\ RemoveAt(q, n) \in Seq(S) /\ IsInjective(RemoveAt(q, n))
         /\ Len(q) \in Nat /\ Len(RemoveAt(q, n)) = Len(q) - 1
         /\ \A i \in 1..(n - 1) : RemoveAt(q, n)[i] = q[i]
         /\ \A d : (\E i \in 1..Len(RemoveAt(q, n)) : RemoveAt(q, n)[i] = d)
                   <=> d # q[n] /\ \E i \in 1..Len(q) : q[i] = d
<1> DEFINE r == RemoveAt(q, n)
           a == SubSeq(q, 1, n - 1)
           b == SubSeq(q, n + 1, Len(q))
<1>1. /\ Len(q) \in Nat /\ n \in Nat /\ n >= 2 /\ n <= Len(q) /\ DOMAIN q = 1..Len(q)
      /\ \A i \in 1..Len(q) : q[i] \in S
  OBVIOUS
<1>2. a \in Seq(S) /\ Len(a) = n - 1 /\ \A i \in 1..(n - 1) : a[i] = q[i]
  BY <1>1
<1>3. b \in Seq(S) /\ Len(b) = Len(q) - n /\ \A i \in 1..(Len(q) - n) : b[i] = q[n + i]
  <2>1. n + 1 \in Int /\ Len(q) \in Int /\ \A i \in (n + 1)..Len(q) : q[i] \in S
    BY <1>1
  <2>2. /\ b \in Seq(S) /\ Len(b) = IF n + 1 <= Len(q) THEN Len(q) - (n + 1) + 1 ELSE 0
        /\ \A i \in 1..(Len(q) - (n + 1) + 1) : b[i] = q[(n + 1) + i - 1]
    BY <2>1, SubSeqProperties
  <2> HIDE DEF b
  <2>3. Len(b) = Len(q) - n
    <3>1. CASE n + 1 <= Len(q)
      BY <1>1, <2>2, <3>1
    <3>2. CASE n = Len(q)
      BY <1>1, <2>2, <3>2
    <3>3. \A x, y \in Nat : x <= y => x + 1 <= y \/ x = y
      OBVIOUS
    <3>4. n + 1 <= Len(q) \/ n = Len(q)
      BY <1>1, <3>3
    <3> QED
      BY <3>1, <3>2, <3>4
  <2>4. ASSUME NEW i \in 1..(Len(q) - n) PROVE b[i] = q[n + i]
    <3>1. i \in 1..(Len(q) - (n + 1) + 1) /\ (n + 1) + i - 1 = n + i
      BY <1>1, <2>4
    <3> QED
      BY <2>2, <3>1
  <2> QED
    BY <2>2, <2>3, <2>4
<1>4. /\ r \in Seq(S) /\ Len(r) = Len(a) + Len(b)
      /\ \A i \in 1..(Len(a) + Len(b)) : r[i] = IF i <= Len(a) THEN a[i] ELSE b[i - Len(a)]
  BY <1>2, <1>3, ConcatProperties DEF RemoveAt
<1> HIDE DEF r, a, b
<1>5. r \in Seq(S) /\ Len(r) = Len(q) - 1 /\ DOMAIN r = 1..(Len(q) - 1)
  BY <1>1, <1>2, <1>3, <1>4
<1>6. \A i \in 1..(n - 1) : r[i] = q[i]
  <2> SUFFICES ASSUME NEW i \in 1..(n - 1) PROVE r[i] = q[i]
    OBVIOUS
  <2>1. i \in 1..(Len(a) + Len(b)) /\ i <= Len(a)
    BY <1>1, <1>2, <1>3
  <2> QED
    BY <1>2, <1>4, <2>1
<1>7. \A i \in n..(Len(q) - 1) : r[i] = q[i + 1]
  <2> SUFFICES ASSUME NEW i \in n..(Len(q) - 1) PROVE r[i] = q[i + 1]
    OBVIOUS
  <2>1. i - (n - 1) \in 1..(Len(q) - n) /\ n + (i - (n - 1)) = i + 1
    BY <1>1
  <2>2. i \in 1..(Len(a) + Len(b)) /\ ~(i <= Len(a))
    BY <1>1, <1>2, <1>3
  <2>3. r[i] = b[i - (n - 1)]
    BY <1>2, <1>4, <2>2
  <2> QED
    BY <1>3, <2>1, <2>3
<1>8. \A i \in 1..(Len(q) - 1) :
        \/ i \in 1..(n - 1) /\ i \in 1..Len(q) /\ i # n /\ r[i] = q[i]
        \/ i \in n..(Len(q) - 1) /\ i + 1 \in 1..Len(q) /\ i + 1 # n /\ r[i] = q[i + 1]
  BY <1>1, <1>6, <1>7
<1>9. IsInjective(r)
  <2> SUFFICES ASSUME NEW i \in 1..(Len(q) - 1), NEW j \in 1..(Len(q) - 1), r[i] = r[j]
               PROVE  i = j
    BY <1>5 DEF IsInjective
  <2>1. \A k, l \in 1..Len(q) : q[k] = q[l] => k = l
    BY <1>1 DEF IsInjective
  <2>2. CASE i \in 1..(n - 1) /\ j \in 1..(n - 1)
    BY <1>1, <1>8, <2>1, <2>2
  <2>3. CASE i \in n..(Len(q) - 1) /\ j \in n..(Len(q) - 1)
    <3>1. i + 1 = j + 1
      BY <1>1, <1>8, <2>1, <2>3
    <3> QED
      BY <3>1
  <2>4. CASE i \in 1..(n - 1) /\ j \in n..(Len(q) - 1)
    <3>1. i = j + 1
      BY <1>1, <1>6, <1>7, <1>8, <2>1, <2>4
    <3> QED
      BY <1>1, <2>4, <3>1
  <2>5. CASE j \in 1..(n - 1) /\ i \in n..(Len(q) - 1)
    <3>1. j = i + 1
      BY <1>1, <1>6, <1>7, <1>8, <2>1, <2>5
    <3> QED
      BY <1>1, <2>5, <3>1
  <2> QED
    BY <1>1, <2>2, <2>3, <2>4, <2>5
<1>10. ASSUME NEW d, NEW i \in 1..Len(r), r[i] = d
       PROVE  d # q[n] /\ \E j \in 1..Len(q) : q[j] = d
  <2>1. PICK j \in 1..Len(q) : j # n /\ q[j] = d
    BY <1>5, <1>8, <1>10
  <2> QED
    BY <1>1, <2>1 DEF IsInjective
<1>11. ASSUME NEW d, NEW j \in 1..Len(q), q[j] = d, d # q[n]
       PROVE  \E i \in 1..Len(r) : r[i] = d
  <2>1. CASE j < n
    <3>1. j \in 1..(n - 1) /\ j \in 1..Len(r)
      BY <1>1, <1>5, <2>1
    <3> QED
      BY <1>6, <1>11, <3>1
  <2>2. CASE j > n
    <3>1. j - 1 \in n..(Len(q) - 1) /\ j - 1 \in 1..Len(r) /\ (j - 1) + 1 = j
      BY <1>1, <1>5, <2>2
    <3> QED
      BY <1>7, <1>11, <3>1
  <2> QED
    BY <1>1, <1>11, <2>1, <2>2
<1> QED
  BY <1>1, <1>5, <1>6, <1>9, <1>10, <1>11 DEF r

-----------------------------------------------------------------------------
(* Deadline: its invariant. *)

\* So many ticks in milliseconds, and the times of the configuration.
Ms(n) == n * TickMs
AskMs == cfg.evoclaw.timeout_ms
AiMs == cfg.intent.ai_timeout_ms

\* A wait lasts at most as long as its time-out; nobody waits with an invalid
\* configuration.
WaitState ==
  /\ queue # <<>> => Valid(cfg)
  /\ stage = "lookup" => timer = 0
  /\ stage = "classify" => queue # <<>> /\ Classifies(cfg) /\ Ms(timer) <= AiMs
  /\ stage = "ask" => queue # <<>> /\ Ms(timer) <= AskMs

\* Who is connected is in the line, and each POST follows one that was late.
LineState ==
  /\ \A d \in Deliveries : conn[d] = "open" => InLine(d)
  /\ \A d \in Deliveries : InLine(d) => conn[d] \in {"open", "late"}
  /\ \A d \in Deliveries : conn[d] # "open" => clock[d] = 0
  /\ \A m \in Messages : \A j, k \in 1..MaxAttempts :
       j < k /\ conn[<<m, k>>] # "none" => conn[<<m, j>>] = "late"

\* The classifier's share of the time since the first POST.
AiShare == IF stage = "ask" /\ Classifies(cfg) THEN AiMs ELSE 0

D1(m) == <<m, 1>>
D2(m) == <<m, 2>>

\* A first POST that found the conversation free is worked on from the start;
\* it is late only while it asks, and has then left an answer or asks still.
FirstInTime(m) ==
  D1(m) \notin behind =>
    /\ InLine(D1(m)) => queue[1] = D1(m)
    /\ conn[D1(m)] = "open" => Ms(clock[D1(m)]) <= Ms(timer) + AiShare
    /\ conn[D1(m)] = "late" =>
         /\ Overlong
         /\ InLine(D1(m)) => stage = "ask"
         /\ D1(m) \in dropped \/ InLine(D1(m)) \/ m \in cached

\* The second POST waits for the first one's answer, or finds it.
SecondInTime(m) ==
  {D1(m), D2(m)} \cap (behind \cup dropped) = {} =>
    /\ conn[D2(m)] # "late"
    /\ conn[D2(m)] = "open" =>
         \/ /\ queue[1] = D2(m) /\ stage = "lookup" /\ m \in cached
            /\ Ms(clock[D2(m)]) < WeChatMs
         \/ /\ Len(queue) >= 2 /\ queue[1] = D1(m) /\ queue[2] = D2(m)
            /\ stage = "ask" /\ clock[D2(m)] <= timer

InTime == \A m \in Messages : FirstInTime(m) /\ SecondInTime(m)

DeadlineInv == cfg \in Files /\ DeadlineType /\ WaitState /\ LineState /\ InTime

LEMMA Ticking ==
  /\ TickMs \in Nat /\ TickMs > 0 /\ WeChatMs \in Nat /\ WeChatMs > 0
  /\ Ms(0) = 0
  /\ \A n \in Nat : Ms(n) \in Nat /\ Ms(n + 1) = Ms(n) + TickMs
  /\ \A a, b \in Nat : a <= b => Ms(a) <= Ms(b)
<1>1. TickMs \in Nat /\ TickMs > 0 /\ WeChatMs \in Nat /\ WeChatMs > 0
  BY DeadlineAssumption DEF DeadlineAssumption
<1>2. \A n \in Nat : Ms(n) \in Nat /\ Ms(n + 1) = Ms(n) + TickMs
  BY <1>1, Times DEF Ms
<1>3. \A a, b \in Nat : a <= b => Ms(a) <= Ms(b)
  BY <1>1, Times DEF Ms
<1>4. Ms(0) = 0
  BY <1>1, Times DEF Ms
<1> QED
  BY <1>1, <1>2, <1>3, <1>4

LEMMA CfgFacts ==
  ASSUME cfg \in Files
  PROVE  /\ AskMs \in Nat /\ AiMs \in Nat
         /\ \A n \in Nat : Ms(n) < AskMs => Ms(n + 1) <= AskMs
         /\ \A n \in Nat : Ms(n) < AiMs => Ms(n + 1) <= AiMs
         /\ Valid(cfg) => AskMs < WeChatMs
         /\ Valid(cfg) /\ Classifies(cfg) => AiMs <= AskMs
<1>1. AskMs \in Nat /\ AiMs \in Nat
  BY TimeFacts DEF AskMs, AiMs
<1>2. PICK a \in Nat : AskMs = Ms(a)
  BY TimeFacts DEF AskMs, Ms
<1>3. PICK b \in Nat : AiMs = Ms(b)
  BY TimeFacts DEF AiMs, Ms
<1>4. \A n, k \in Nat : Ms(n) < Ms(k) => Ms(n + 1) <= Ms(k)
  BY Ticking, Times DEF Ms
<1>5. Valid(cfg) => AskMs < WeChatMs
  BY TimeFacts DEF AskMs
<1>6. Valid(cfg) /\ Classifies(cfg) => AiMs <= AskMs
  BY TimeFacts DEF AskMs, AiMs
<1>7. /\ \A n \in Nat : Ms(n) < AskMs => Ms(n + 1) <= AskMs
      /\ \A n \in Nat : Ms(n) < AiMs => Ms(n + 1) <= AiMs
  BY <1>2, <1>3, <1>4
<1> QED
  BY <1>1, <1>5, <1>6, <1>7

\* The deliveries of a message.
LEMMA DeliveryFacts ==
  \A m \in Messages :
    /\ D1(m) \in Deliveries /\ D2(m) \in Deliveries /\ D1(m) # D2(m)
    /\ D1(m)[1] = m /\ D2(m)[1] = m
    /\ 1 \in 1..MaxAttempts /\ 2 \in 1..MaxAttempts /\ MaxAttempts \in Nat
  BY TimeFacts DEF D1, D2, Deliveries

\* While somebody waits, the timer is short of WeChat's five seconds.
LEMMA TimerShort ==
  ASSUME DeadlineInv, stage \in {"classify", "ask"}
  PROVE  Ms(timer) \in Nat /\ Ms(timer) < WeChatMs /\ Valid(cfg) /\ queue # <<>>
<1>1. timer \in Nat /\ cfg \in Files /\ Valid(cfg) /\ queue # <<>>
  BY DEF DeadlineInv, DeadlineType, WaitState
<1>2. Ms(timer) \in Nat
  BY <1>1, Ticking
<1>3. CASE stage = "classify"
  <2>1. Ms(timer) <= AiMs /\ AiMs <= AskMs /\ AskMs < WeChatMs
    BY <1>1, <1>3, CfgFacts DEF DeadlineInv, WaitState
  <2> QED
    BY <1>1, <1>2, <2>1, CfgFacts, Ticking
<1>4. CASE stage = "ask"
  <2>1. Ms(timer) <= AskMs /\ AskMs < WeChatMs
    BY <1>1, <1>4, CfgFacts DEF DeadlineInv, WaitState
  <2> QED
    BY <1>1, <1>2, <2>1, CfgFacts, Ticking
<1> QED
  BY <1>3, <1>4

\* The front of the line.
LEMMA FrontFacts ==
  ASSUME DeadlineInv, queue # <<>>
  PROVE  /\ queue \in Seq(Deliveries) /\ IsInjective(queue)
         /\ Len(queue) \in Nat /\ Len(queue) >= 1
         /\ Head(queue) = queue[1] /\ queue[1] \in Deliveries /\ InLine(queue[1])
         /\ queue[1][1] \in Messages
<1>1. queue \in Seq(Deliveries) /\ IsInjective(queue)
  BY DEF DeadlineInv, DeadlineType
<1>2. /\ Len(queue) \in Nat /\ Len(queue) >= 1
      /\ Head(queue) = queue[1] /\ queue[1] \in Deliveries
  BY <1>1, TailLine
<1>3. 1 \in 1..Len(queue)
  BY <1>2
<1>4. InLine(queue[1])
  BY <1>3 DEF InLine
<1>5. queue[1][1] \in Messages
  BY <1>2 DEF Deliveries
<1> QED
  BY <1>1, <1>2, <1>4, <1>5

\* A handler responds.
LEMMA RespondKeeps ==
  ASSUME DeadlineInv, queue # <<>>, NEW stores \in BOOLEAN, Respond(stores),
         stage = "ask" => stores, UNCHANGED cfg
  PROVE  DeadlineInv'
<1> DEFINE h == queue[1]
<1>1. /\ queue \in Seq(Deliveries) /\ IsInjective(queue)
      /\ Head(queue) = h /\ h \in Deliveries /\ InLine(h) /\ h[1] \in Messages
  BY FrontFacts
<1>2. /\ queue' = Tail(queue) /\ stage' = "lookup" /\ timer' = 0
      /\ conn' = [conn EXCEPT ![h] = IF @ = "open" THEN "answered" ELSE @]
      /\ clock' = [clock EXCEPT ![h] = 0]
      /\ cached' = cached \cup {m \in {h[1]} : stores}
      /\ UNCHANGED <<dropped, behind>>
  BY <1>1 DEF Respond, HandOver, Msg
<1>3. /\ queue' \in Seq(Deliveries) /\ IsInjective(queue')
      /\ Len(queue) \in Nat /\ Len(queue') = Len(queue) - 1
      /\ \A i \in 1..Len(queue') : queue'[i] = queue[i + 1]
      /\ \A d : InLine(d)' <=> d # h /\ InLine(d)
  <2>1. /\ Tail(queue) \in Seq(Deliveries) /\ IsInjective(Tail(queue))
        /\ Len(queue) \in Nat /\ Len(Tail(queue)) = Len(queue) - 1
        /\ \A i \in 1..Len(Tail(queue)) : Tail(queue)[i] = queue[i + 1]
    BY <1>1, TailLine
  <2>2. \A d : (\E i \in 1..Len(Tail(queue)) : Tail(queue)[i] = d)
              <=> d # queue[1] /\ \E i \in 1..Len(queue) : queue[i] = d
    BY <1>1, TailLine
  <2>3. \A d : InLine(d)' <=> d # h /\ InLine(d)
    BY <1>2, <2>2 DEF InLine
  <2> QED
    BY <1>2, <2>1, <2>3
<1>4. /\ \A d \in Deliveries : d # h => conn'[d] = conn[d] /\ clock'[d] = clock[d]
      /\ conn'[h] = (IF conn[h] = "open" THEN "answered" ELSE conn[h]) /\ clock'[h] = 0
      /\ conn[h] \in {"open", "late"}
      /\ \A d \in Deliveries : conn[d] \in {"none", "open", "answered", "late"}
      /\ \A d \in Deliveries : clock[d] \in Nat
  BY <1>1, <1>2 DEF DeadlineInv, DeadlineType, LineState
<1>5. /\ cached \subseteq cached' /\ cached' \subseteq Messages
      /\ stage = "ask" => h[1] \in cached'
  BY <1>1, <1>2 DEF DeadlineInv, DeadlineType
<1>6. DeadlineType'
  <2>1. conn' \in [Deliveries -> {"none", "open", "answered", "late"}]
    BY <1>2, <1>1 DEF DeadlineInv, DeadlineType
  <2>2. clock' \in [Deliveries -> Nat]
    BY <1>2, <1>1 DEF DeadlineInv, DeadlineType
  <2>3. \A d \in Deliveries : clock'[d] * TickMs < WeChatMs + TickMs
    <3>1. 0 * TickMs < WeChatMs + TickMs
      BY Ticking DEF Ms
    <3>2. \A d \in Deliveries : clock[d] * TickMs < WeChatMs + TickMs
      BY DEF DeadlineInv, DeadlineType
    <3> QED
      BY <1>4, <3>1, <3>2
  <2> QED
    BY <1>2, <1>3, <1>5, <2>1, <2>2, <2>3 DEF DeadlineInv, DeadlineType
<1>7. WaitState'
  BY <1>2 DEF DeadlineInv, WaitState
<1>8. LineState'
  <2>1. \A d \in Deliveries : /\ conn'[d] = "open" => InLine(d)'
                              /\ InLine(d)' => conn'[d] \in {"open", "late"}
                              /\ conn'[d] # "open" => clock'[d] = 0
    BY <1>3, <1>4 DEF DeadlineInv, LineState
  <2>2. \A d \in Deliveries : /\ conn[d] = "late" => conn'[d] = "late"
                              /\ conn'[d] # "none" => conn[d] # "none"
    BY <1>4
  <2>3. \A m \in Messages : \A j \in 1..MaxAttempts : <<m, j>> \in Deliveries
    BY DEF Deliveries
  <2>4. \A m \in Messages : \A j, k \in 1..MaxAttempts :
          j < k /\ conn'[<<m, k>>] # "none" => conn'[<<m, j>>] = "late"
    <3> SUFFICES ASSUME NEW m \in Messages, NEW j \in 1..MaxAttempts,
                        NEW k \in 1..MaxAttempts, j < k, conn'[<<m, k>>] # "none"
                 PROVE  conn'[<<m, j>>] = "late"
      OBVIOUS
    <3>1. conn[<<m, k>>] # "none"
      BY <2>2, <2>3
    <3>2. conn[<<m, j>>] = "late"
      BY <3>1 DEF DeadlineInv, LineState
    <3> QED
      BY <2>2, <2>3, <3>2
  <2> QED
    BY <2>1, <2>4 DEF LineState
<1>9. ASSUME NEW m \in Messages PROVE FirstInTime(m)'
  <2>1. D1(m) \in Deliveries /\ D1(m)[1] = m
    BY DeliveryFacts
  <2>2. FirstInTime(m)
    BY DEF DeadlineInv, InTime
  <2>3. conn'[D1(m)] = "open" => InLine(D1(m))'
    BY <1>8, <2>1 DEF LineState
  <2>4. (conn'[D1(m)] = "late") => conn[D1(m)] = "late"
    BY <1>4, <2>1
  <2>5. ASSUME D1(m) \notin behind PROVE ~InLine(D1(m))'
    BY <1>3, <2>2, <2>5 DEF FirstInTime
  <2>6. UNCHANGED Overlong
    BY DEF Overlong
  <2>7. ASSUME D1(m) \notin behind, conn'[D1(m)] = "late"
        PROVE  Overlong /\ (D1(m) \in dropped \/ m \in cached')
    <3>1. Overlong /\ (D1(m) \in dropped \/ InLine(D1(m)) \/ m \in cached)
      BY <2>2, <2>4, <2>7 DEF FirstInTime
    <3>2. CASE InLine(D1(m))
      BY <1>5, <2>1, <2>2, <2>4, <2>7, <3>1, <3>2 DEF FirstInTime
    <3> QED
      BY <1>5, <3>1, <3>2
  <2> QED
    BY <1>2, <2>3, <2>5, <2>6, <2>7 DEF FirstInTime
<1>10. ASSUME NEW m \in Messages PROVE SecondInTime(m)'
  <2>1. /\ D1(m) \in Deliveries /\ D2(m) \in Deliveries /\ D1(m)[1] = m
        /\ D1(m) # D2(m)
    BY DeliveryFacts
  <2>2. SecondInTime(m)
    BY DEF DeadlineInv, InTime
  <2> SUFFICES ASSUME {D1(m), D2(m)} \cap (behind \cup dropped) = {}
               PROVE  /\ conn'[D2(m)] # "late"
                      /\ conn'[D2(m)] = "open" =>
                           /\ queue'[1] = D2(m) /\ m \in cached'
                           /\ Ms(clock'[D2(m)]) < WeChatMs
    BY <1>2 DEF SecondInTime
  <2>3. conn'[D2(m)] # "late"
    BY <1>4, <2>1, <2>2 DEF SecondInTime
  <2>4. ASSUME conn'[D2(m)] = "open"
        PROVE  /\ queue'[1] = D2(m) /\ m \in cached'
               /\ Ms(clock'[D2(m)]) < WeChatMs
    <3>1. conn[D2(m)] = "open" /\ h # D2(m)
      BY <1>4, <2>1, <2>4
    <3>2. /\ Len(queue) >= 2 /\ h = D1(m) /\ queue[2] = D2(m)
          /\ stage = "ask" /\ clock[D2(m)] <= timer
      BY <2>2, <3>1 DEF SecondInTime
    <3>3. queue'[1] = D2(m)
      <4>1. 1 \in 1..Len(queue') /\ 1 + 1 = 2
        BY <1>3, <3>2
      <4> QED
        BY <1>3, <3>2, <4>1
    <3>4. m \in cached'
      BY <1>5, <2>1, <3>2
    <3>5. clock'[D2(m)] = clock[D2(m)] /\ clock[D2(m)] \in Nat /\ timer \in Nat
      BY <1>4, <2>1, <3>1 DEF DeadlineInv, DeadlineType
    <3>6. /\ Ms(clock[D2(m)]) \in Nat /\ Ms(timer) \in Nat
          /\ Ms(clock[D2(m)]) <= Ms(timer)
      BY <3>2, <3>5, Ticking
    <3>7. Ms(timer) < WeChatMs
      BY <3>2, TimerShort
    <3> QED
      BY <3>3, <3>4, <3>5, <3>6, <3>7, Ticking
  <2> QED
    BY <2>3, <2>4
<1> QED
  BY <1>6, <1>7, <1>8, <1>9, <1>10 DEF DeadlineInv, InTime

\* A handler goes on to its next wait.
LEMMA EnterKeeps ==
  ASSUME DeadlineInv, queue # <<>>, NEW next \in {"classify", "ask"}, Enter(next),
         \/ /\ stage = "lookup" /\ Msg \notin cached
            /\ next = "classify" => Classifies(cfg)
         \/ stage = "classify" /\ next = "ask",
         UNCHANGED cfg
  PROVE  DeadlineInv'
<1>1. /\ stage' = next /\ timer' = 0
      /\ UNCHANGED <<queue, conn, clock, cached, dropped, behind>>
  BY DEF Enter
<1>2. DeadlineType'
  BY <1>1 DEF DeadlineInv, DeadlineType
<1>3. Ms(timer') = 0 /\ AskMs \in Nat /\ AiMs \in Nat /\ UNCHANGED <<AskMs, AiMs, Overlong>>
  BY <1>1, Ticking, CfgFacts DEF DeadlineInv, AskMs, AiMs, Overlong
<1>4. WaitState'
  BY <1>1, <1>3 DEF DeadlineInv, WaitState
<1>5. (\A d : InLine(d)' <=> InLine(d)) /\ LineState'
  BY <1>1 DEF DeadlineInv, LineState, InLine
<1>6. ASSUME NEW m \in Messages PROVE FirstInTime(m)'
  <2>1. D1(m) \in Deliveries /\ FirstInTime(m)
    BY DeliveryFacts DEF DeadlineInv, InTime
  <2>2. ASSUME D1(m) \notin behind, conn[D1(m)] = "open"
        PROVE  Ms(clock'[D1(m)]) <= Ms(timer') + AiShare'
    <3>1. Ms(clock[D1(m)]) <= Ms(timer) + AiShare
      BY <2>1, <2>2 DEF FirstInTime
    <3>2. Ms(clock[D1(m)]) \in Nat
      BY <2>1, Ticking DEF DeadlineInv, DeadlineType
    <3>3. CASE stage = "lookup"
      <4>1. Ms(timer) = 0 /\ AiShare = 0
        BY <3>3, Ticking DEF DeadlineInv, WaitState, AiShare
      <4>2. Ms(clock[D1(m)]) = 0 /\ AiShare' \in Nat
        BY <1>1, <1>3, <3>1, <3>2, <4>1 DEF AiShare
      <4> QED
        BY <1>1, <1>3, <4>2
    <3>4. CASE stage = "classify"
      <4>1. Ms(timer) <= AiMs /\ Classifies(cfg) /\ AiShare = 0 /\ Ms(timer) \in Nat
        BY <3>4, TimerShort DEF DeadlineInv, WaitState, AiShare
      <4>2. AiShare' = AiMs
        BY <1>1, <1>3, <3>4, <4>1 DEF AiShare
      <4> QED
        BY <1>1, <1>3, <3>1, <3>2, <4>1, <4>2
    <3> QED
      BY <3>3, <3>4
  <2>3. ASSUME D1(m) \notin behind, conn[D1(m)] = "late", InLine(D1(m)) PROVE FALSE
    BY <2>1, <2>3 DEF FirstInTime
  <2> QED
    BY <1>1, <1>3, <1>5, <2>1, <2>2, <2>3 DEF FirstInTime
<1>7. ASSUME NEW m \in Messages PROVE SecondInTime(m)'
  <2>1. D2(m)[1] = m /\ SecondInTime(m) /\ Msg = queue[1][1]
    BY DeliveryFacts, FrontFacts DEF DeadlineInv, InTime, Msg
  <2> QED
    BY <1>1, <2>1 DEF SecondInTime
<1> QED
  BY <1>1, <1>2, <1>4, <1>5, <1>6, <1>7 DEF DeadlineInv, InTime

\* Time goes by.
LEMMA TickKeeps ==
  ASSUME DeadlineInv, Tick, UNCHANGED cfg
  PROVE  DeadlineInv'
<1>1. /\ queue # <<>> /\ stage \in {"classify", "ask"} /\ ~Expired
      /\ timer' = timer + 1 /\ timer \in Nat /\ cfg \in Files
      /\ UNCHANGED <<queue, stage, conn, cached, dropped, behind>>
  BY DEF Tick, DeadlineInv, DeadlineType
<1>2. \A d \in Deliveries :
        /\ clock[d] \in Nat
        /\ conn[d] = "open" => clock'[d] = clock[d] + 1 /\ Ms(clock[d]) < WeChatMs
        /\ conn[d] # "open" => clock'[d] = clock[d]
  BY DEF Tick, Open, DeadlineInv, DeadlineType, Ms
<1>3. AskMs \in Nat /\ AiMs \in Nat /\ UNCHANGED <<AskMs, AiMs, Overlong, AiShare>>
  BY <1>1, CfgFacts DEF AskMs, AiMs, Overlong, AiShare
<1>4. /\ Ms(timer) \in Nat /\ Ms(timer') = Ms(timer) + TickMs /\ TickMs \in Nat
      /\ stage = "classify" => Ms(timer') <= AiMs
      /\ stage = "ask" => Ms(timer') <= AskMs
  <2>1. Ms(timer) \in Nat /\ Ms(timer') = Ms(timer) + TickMs /\ TickMs \in Nat
    BY <1>1, Ticking
  <2>2. CASE stage = "classify"
    <3>1. Ms(timer) < AiMs
      BY <1>1, <1>3, <2>1, <2>2 DEF Expired, Budget, Ms, AiMs
    <3> QED
      BY <1>1, <2>1, <2>2, <3>1, CfgFacts
  <2>3. CASE stage = "ask"
    <3>1. Ms(timer) < AskMs
      BY <1>1, <1>3, <2>1, <2>3 DEF Expired, Budget, Ms, AskMs
    <3> QED
      BY <1>1, <2>1, <2>3, <3>1, CfgFacts
  <2> QED
    BY <1>1, <2>1, <2>2, <2>3
<1>5. DeadlineType'
  <2>1. clock' \in [Deliveries -> Nat]
    BY <1>2 DEF Tick
  <2>2. \A d \in Deliveries : Ms(clock'[d]) < WeChatMs + TickMs
    <3> SUFFICES ASSUME NEW d \in Deliveries PROVE Ms(clock'[d]) < WeChatMs + TickMs
      OBVIOUS
    <3>1. CASE conn[d] = "open"
      <4>1. /\ Ms(clock[d]) \in Nat /\ Ms(clock[d]) < WeChatMs
            /\ Ms(clock'[d]) = Ms(clock[d]) + TickMs
        BY <1>2, <3>1, Ticking
      <4> QED
        BY <4>1, Ticking
    <3>2. CASE conn[d] # "open"
      BY <1>2, <3>2 DEF DeadlineInv, DeadlineType, Ms
    <3> QED
      BY <3>1, <3>2
  <2> QED
    BY <1>1, <2>1, <2>2 DEF DeadlineInv, DeadlineType, Ms
<1>6. WaitState'
  BY <1>1, <1>3, <1>4 DEF DeadlineInv, WaitState
<1>7. \A d : InLine(d)' <=> InLine(d)
  BY <1>1 DEF InLine
<1>8. LineState'
  BY <1>1, <1>2, <1>7 DEF DeadlineInv, LineState
<1>9. ASSUME NEW m \in Messages PROVE FirstInTime(m)'
  <2>1. D1(m) \in Deliveries /\ FirstInTime(m)
    BY DeliveryFacts DEF DeadlineInv, InTime
  <2>2. ASSUME D1(m) \notin behind, conn[D1(m)] = "open"
        PROVE  Ms(clock'[D1(m)]) <= Ms(timer') + AiShare'
    <3>1. Ms(clock[D1(m)]) <= Ms(timer) + AiShare
      BY <2>1, <2>2 DEF FirstInTime
    <3>2. Ms(clock[D1(m)]) \in Nat /\ Ms(clock'[D1(m)]) = Ms(clock[D1(m)]) + TickMs
      BY <1>2, <2>1, <2>2, Ticking
    <3>3. AiShare \in Nat /\ AiShare' = AiShare
      BY <1>3 DEF AiShare
    <3> QED
      BY <1>4, <3>1, <3>2, <3>3
  <2> QED
    BY <1>1, <1>3, <1>7, <2>1, <2>2 DEF FirstInTime
<1>10. ASSUME NEW m \in Messages PROVE SecondInTime(m)'
  <2>1. D2(m) \in Deliveries /\ SecondInTime(m)
    BY DeliveryFacts DEF DeadlineInv, InTime
  <2>2. clock[D2(m)] \in Nat /\ (conn[D2(m)] = "open" => clock'[D2(m)] = clock[D2(m)] + 1)
    BY <1>2, <2>1
  <2>3. clock[D2(m)] <= timer => clock[D2(m)] + 1 <= timer'
    BY <1>1, <2>2
  <2> QED
    BY <1>1, <2>1, <2>2, <2>3 DEF SecondInTime
<1> QED
  BY <1>1, <1>5, <1>6, <1>8, <1>9, <1>10 DEF DeadlineInv, InTime

\* WeChat hangs up.
LEMMA CloseKeeps ==
  ASSUME DeadlineInv, NEW x \in Deliveries, Close(x), UNCHANGED cfg
  PROVE  DeadlineInv'
<1>1. /\ conn[x] = "open" /\ Ms(clock[x]) >= WeChatMs /\ InLine(x)
      /\ conn' = [conn EXCEPT ![x] = "late"] /\ clock' = [clock EXCEPT ![x] = 0]
      /\ UNCHANGED <<queue, stage, timer, cached, dropped, behind>>
  BY DEF Close, Ms, DeadlineInv, LineState
<1>2. /\ conn'[x] = "late" /\ clock'[x] = 0
      /\ \A d \in Deliveries : d # x => conn'[d] = conn[d] /\ clock'[d] = clock[d]
      /\ \A d \in Deliveries : clock[d] \in Nat
  BY <1>1 DEF DeadlineInv, DeadlineType
<1>3. \A d : InLine(d)' <=> InLine(d)
  BY <1>1 DEF InLine
<1>4. DeadlineType'
  <2>1. /\ conn' \in [Deliveries -> {"none", "open", "answered", "late"}]
        /\ clock' \in [Deliveries -> Nat]
    BY <1>1 DEF DeadlineInv, DeadlineType
  <2>2. \A d \in Deliveries : clock'[d] * TickMs < WeChatMs + TickMs
    <3>1. 0 * TickMs < WeChatMs + TickMs
      BY Ticking DEF Ms
    <3> QED
      BY <1>2, <3>1 DEF DeadlineInv, DeadlineType
  <2> QED
    BY <1>1, <2>1, <2>2 DEF DeadlineInv, DeadlineType
<1>5. WaitState' /\ UNCHANGED <<AiShare, Overlong>>
  BY <1>1 DEF DeadlineInv, WaitState, AiShare, AiMs, AskMs, Overlong
<1>6. LineState'
  <2>1. \A m \in Messages : \A j \in 1..MaxAttempts : <<m, j>> \in Deliveries
    BY DEF Deliveries
  <2>2. \A m \in Messages : \A j, k \in 1..MaxAttempts :
          j < k /\ conn'[<<m, k>>] # "none" => conn'[<<m, j>>] = "late"
    <3> SUFFICES ASSUME NEW m \in Messages, NEW j \in 1..MaxAttempts,
                        NEW k \in 1..MaxAttempts, j < k, conn'[<<m, k>>] # "none"
                 PROVE  conn'[<<m, j>>] = "late"
      OBVIOUS
    <3>1. conn[<<m, k>>] # "none"
      BY <1>1, <1>2, <2>1
    <3>2. conn[<<m, j>>] = "late"
      BY <3>1 DEF DeadlineInv, LineState
    <3> QED
      BY <1>2, <2>1, <3>2
  <2> QED
    BY <1>1, <1>2, <1>3, <2>2 DEF DeadlineInv, LineState
<1>7. queue # <<>>
  BY <1>1 DEF InLine
<1>8. ASSUME NEW m \in Messages PROVE FirstInTime(m)'
  <2>1. D1(m) \in Deliveries /\ FirstInTime(m)
    BY DeliveryFacts DEF DeadlineInv, InTime
  <2>2. ASSUME x = D1(m), x \notin behind PROVE Overlong /\ stage = "ask"
    <3>1. Ms(clock[x]) <= Ms(timer) + AiShare
      BY <1>1, <2>1, <2>2 DEF FirstInTime
    <3>2. /\ Ms(clock[x]) \in Nat /\ WeChatMs \in Nat /\ WeChatMs > 0
          /\ timer \in Nat /\ Ms(timer) \in Nat /\ cfg \in Files
      BY <1>2, Ticking DEF DeadlineInv, DeadlineType
    <3>3. stage # "lookup"
      <4> SUFFICES ASSUME stage = "lookup" PROVE FALSE
        OBVIOUS
      <4>1. Ms(timer) = 0 /\ AiShare = 0
        BY Ticking DEF DeadlineInv, WaitState, AiShare
      <4> QED
        BY <1>1, <3>1, <3>2, <4>1
    <3>4. stage # "classify"
      <4> SUFFICES ASSUME stage = "classify" PROVE FALSE
        OBVIOUS
      <4>1. Ms(timer) < WeChatMs /\ AiShare = 0
        BY TimerShort DEF AiShare
      <4> QED
        BY <1>1, <3>1, <3>2, <4>1
    <3>5. stage = "ask"
      BY <3>3, <3>4 DEF DeadlineInv, DeadlineType
    <3>6. /\ AskMs \in Nat /\ AiMs \in Nat /\ Ms(timer) <= AskMs /\ Ms(timer) < WeChatMs
      BY <3>2, <3>5, CfgFacts, TimerShort DEF DeadlineInv, WaitState
    <3>7. Classifies(cfg)
      <4> SUFFICES ASSUME ~Classifies(cfg) PROVE FALSE
        OBVIOUS
      <4>1. AiShare = 0
        BY DEF AiShare
      <4> QED
        BY <1>1, <3>1, <3>2, <3>6, <4>1
    <3>8. AiMs + AskMs >= WeChatMs
      <4>1. AiShare = AiMs
        BY <3>5, <3>7 DEF AiShare
      <4> QED
        BY <1>1, <3>1, <3>2, <3>6, <4>1
    <3> QED
      BY <3>5, <3>7, <3>8 DEF Overlong, AiMs, AskMs
  <2>3. CASE x = D1(m)
    BY <1>1, <1>2, <1>3, <1>5, <2>1, <2>2, <2>3 DEF FirstInTime
  <2>4. CASE x # D1(m)
    BY <1>1, <1>2, <1>3, <1>5, <2>1, <2>4 DEF FirstInTime
  <2> QED
    BY <2>3, <2>4
<1>9. ASSUME NEW m \in Messages PROVE SecondInTime(m)'
  <2>1. D2(m) \in Deliveries /\ SecondInTime(m)
    BY DeliveryFacts DEF DeadlineInv, InTime
  <2>2. ASSUME x = D2(m), {D1(m), D2(m)} \cap (behind \cup dropped) = {} PROVE FALSE
    <3>1. /\ Ms(clock[x]) \in Nat /\ WeChatMs \in Nat
          /\ timer \in Nat /\ Ms(timer) \in Nat /\ clock[x] \in Nat
      BY <1>2, Ticking DEF DeadlineInv, DeadlineType
    <3>2. ~(Ms(clock[x]) < WeChatMs)
      BY <1>1, <3>1
    <3>3. stage = "ask" /\ clock[x] <= timer
      BY <1>1, <2>1, <2>2, <3>2 DEF SecondInTime
    <3>4. Ms(clock[x]) <= Ms(timer) /\ Ms(timer) < WeChatMs
      BY <3>1, <3>3, Ticking, TimerShort
    <3> QED
      BY <3>1, <3>2, <3>4
  <2>3. CASE x = D2(m)
    BY <1>1, <2>2, <2>3 DEF SecondInTime
  <2>4. CASE x # D2(m)
    BY <1>1, <1>2, <2>1, <2>4 DEF SecondInTime
  <2> QED
    BY <2>3, <2>4
<1> QED
  BY <1>1, <1>4, <1>5, <1>6, <1>8, <1>9 DEF DeadlineInv, InTime

\* WeChat posts a message to a server that serves.
LEMMA PostKeeps ==
  ASSUME DeadlineInv, NEW n \in Messages, NEW k \in 1..MaxAttempts, Post(n, k),
         Valid(cfg), UNCHANGED cfg
  PROVE  DeadlineInv'
<1> DEFINE x == <<n, k>>
<1>1. /\ x \in Deliveries /\ conn[x] = "none"
      /\ k > 1 => conn[<<n, k - 1>>] = "late"
      /\ conn' = [conn EXCEPT ![x] = "open"] /\ queue' = Append(queue, x)
      /\ behind' = behind \cup {y \in {x} : \E i \in DOMAIN queue : queue[i][1] # n}
      /\ UNCHANGED <<stage, clock, timer, cached, dropped>>
  BY DEF Post, Deliveries
<1>2. /\ conn'[x] = "open" /\ clock[x] = 0 /\ ~InLine(x)
      /\ \A d \in Deliveries : d # x => conn'[d] = conn[d]
      /\ timer \in Nat /\ WeChatMs > 0 /\ AiShare \in Nat /\ UNCHANGED <<AiShare, Overlong>>
  BY <1>1, Ticking, CfgFacts
  DEF DeadlineInv, DeadlineType, LineState, AiShare, AiMs, AskMs, Overlong
<1>3. queue \in Seq(Deliveries) /\ IsInjective(queue) /\ DOMAIN queue = 1..Len(queue)
  BY DEF DeadlineInv, DeadlineType
<1>4. \A i \in 1..Len(queue) : queue[i] # x
  BY <1>2 DEF InLine
<1>5. /\ queue' \in Seq(Deliveries) /\ IsInjective(queue')
      /\ Len(queue) \in Nat /\ Len(queue') = Len(queue) + 1
      /\ \A i \in 1..Len(queue) : queue'[i] = queue[i]
      /\ queue'[Len(queue) + 1] = x
      /\ \A d : InLine(d)' <=> d = x \/ InLine(d)
  <2> HIDE DEF x
  <2>1. /\ Append(queue, x) \in Seq(Deliveries) /\ IsInjective(Append(queue, x))
        /\ Len(queue) \in Nat /\ Len(Append(queue, x)) = Len(queue) + 1
        /\ \A i \in 1..Len(queue) : Append(queue, x)[i] = queue[i]
        /\ Append(queue, x)[Len(queue) + 1] = x
    BY <1>1, <1>3, <1>4, AppendLine
  <2>2. \A d : (\E i \in 1..Len(Append(queue, x)) : Append(queue, x)[i] = d)
              <=> d = x \/ \E i \in 1..Len(queue) : queue[i] = d
    BY <1>1, <1>3, <1>4, AppendLine
  <2>3. \A d : InLine(d)' <=> d = x \/ InLine(d)
    BY <1>1, <2>2 DEF InLine
  <2> QED
    BY <1>1, <2>1, <2>3
<1>6. DeadlineType'
  <2>1. conn' \in [Deliveries -> {"none", "open", "answered", "late"}]
    BY <1>1 DEF DeadlineInv, DeadlineType
  <2>2. behind' \subseteq Deliveries
    BY <1>1 DEF DeadlineInv, DeadlineType
  <2> QED
    BY <1>1, <1>5, <2>1, <2>2 DEF DeadlineInv, DeadlineType
<1>7. WaitState'
  <2>1. queue' # <<>>
    BY <1>5
  <2> QED
    BY <1>1, <2>1 DEF DeadlineInv, WaitState, AiMs, AskMs
<1>8. \A m \in Messages : \A j \in 1..MaxAttempts : <<m, j>> \in Deliveries
  BY DEF Deliveries
<1>9. LineState'
  <2>1. \A m \in Messages : \A j, l \in 1..MaxAttempts :
          j < l /\ conn'[<<m, l>>] # "none" => conn'[<<m, j>>] = "late"
    <3> SUFFICES ASSUME NEW m \in Messages, NEW j \in 1..MaxAttempts,
                        NEW l \in 1..MaxAttempts, j < l, conn'[<<m, l>>] # "none"
                 PROVE  conn'[<<m, j>>] = "late"
      OBVIOUS
    <3>1. MaxAttempts \in Nat
      BY TimeFacts
    <3>2. conn[<<m, j>>] = "late"
      <4>1. CASE <<m, l>> = x
        <5>1. m = n /\ l = k /\ k > 1 /\ k - 1 \in 1..MaxAttempts /\ conn[<<n, k - 1>>] = "late"
          BY <1>1, <3>1, <4>1
        <5>2. j = k - 1 \/ j < k - 1
          BY <3>1, <5>1
        <5> QED
          BY <5>1, <5>2 DEF DeadlineInv, LineState
      <4>2. CASE <<m, l>> # x
        BY <1>2, <1>8, <4>2 DEF DeadlineInv, LineState
      <4> QED
        BY <4>1, <4>2
    <3>3. <<m, j>> # x
      BY <1>1, <3>2
    <3> QED
      BY <1>2, <1>8, <3>2, <3>3
  <2>2. \A d \in Deliveries : conn'[d] # "open" => clock'[d] = 0
    BY <1>1, <1>2 DEF DeadlineInv, LineState
  <2>3. \A d \in Deliveries : (conn'[d] = "open" => InLine(d)')
                             /\ (InLine(d)' => conn'[d] \in {"open", "late"})
    BY <1>2, <1>5 DEF DeadlineInv, LineState
  <2> QED
    BY <2>1, <2>2, <2>3 DEF LineState
<1>10. ASSUME x \notin behind', NEW i \in 1..Len(queue)
       PROVE  k > 1 /\ \E j \in 1..(k - 1) : queue[i] = <<n, j>>
  <2>1. queue[i][1] = n /\ queue[i] \in Deliveries /\ queue[i] # x
    BY <1>1, <1>3, <1>4, <1>10
  <2>2. PICK j \in 1..MaxAttempts : queue[i] = <<n, j>>
    BY <2>1 DEF Deliveries
  <2>3. conn[<<n, j>>] \in {"open", "late"}
    BY <2>1, <2>2 DEF DeadlineInv, LineState, InLine
  <2>4. ~(k < j)
    BY <1>1, <2>2, <2>3 DEF DeadlineInv, LineState
  <2>5. j # k
    BY <2>1, <2>2
  <2>6. MaxAttempts \in Nat
    BY TimeFacts
  <2>7. k > 1 /\ j \in 1..(k - 1)
    BY <2>4, <2>5, <2>6
  <2> QED
    BY <2>2, <2>7
<1>11. \A d \in Deliveries : InLine(d) => queue'[1] = queue[1] /\ Len(queue) >= 1
  BY <1>5 DEF InLine
<1>12. ASSUME NEW m \in Messages PROVE FirstInTime(m)'
  <2>1. D1(m) \in Deliveries /\ FirstInTime(m)
    BY DeliveryFacts DEF DeadlineInv, InTime
  <2>2. D1(m) \notin behind' => D1(m) \notin behind
    BY <1>1
  <2>3. CASE x = D1(m)
    <3>1. k = 1
      BY <2>3 DEF D1
    <3>2. x \notin behind' => Len(queue) = 0
      BY <1>5, <1>10, <3>1
    <3>3. x \notin behind' => queue'[1] = x
      BY <1>5, <3>2
    <3>4. Ms(clock'[x]) = 0 /\ Ms(timer') \in Nat
      BY <1>1, <1>2, Ticking
    <3> QED
      BY <1>2, <2>3, <3>3, <3>4 DEF FirstInTime
  <2>4. CASE x # D1(m)
    <3>1. InLine(D1(m))' <=> InLine(D1(m))
      BY <1>5, <2>4
    <3>2. conn'[D1(m)] = conn[D1(m)]
      BY <1>2, <2>1, <2>4
    <3> QED
      BY <1>1, <1>2, <1>11, <2>1, <2>2, <3>1, <3>2 DEF FirstInTime
  <2> QED
    BY <2>3, <2>4
<1>13. ASSUME NEW m \in Messages PROVE SecondInTime(m)'
  <2>1. /\ D1(m) \in Deliveries /\ D2(m) \in Deliveries
        /\ FirstInTime(m) /\ SecondInTime(m)
    BY DeliveryFacts DEF DeadlineInv, InTime
  <2>2. CASE x = D2(m)
    <3> SUFFICES ASSUME {D1(m), D2(m)} \cap (behind' \cup dropped) = {}
                 PROVE  \/ /\ queue'[1] = D2(m) /\ stage = "lookup" /\ m \in cached
                           /\ Ms(clock[D2(m)]) < WeChatMs
                        \/ /\ Len(queue') >= 2 /\ queue'[1] = D1(m) /\ queue'[2] = D2(m)
                           /\ stage = "ask" /\ clock[D2(m)] <= timer
      BY <1>1, <1>2, <2>2 DEF SecondInTime
    <3>1. k = 2 /\ n = m /\ conn[D1(m)] = "late" /\ x \notin behind'
      BY <1>1, <2>2 DEF D1, D2
    <3>2. \A i \in 1..Len(queue) : queue[i] = D1(m)
      BY <1>10, <3>1 DEF D1
    <3>3. D1(m) \notin behind /\ D1(m) \notin dropped
      BY <1>1
    <3>4. CASE InLine(D1(m))
      <4>1. stage = "ask" /\ queue[1] = D1(m)
        BY <2>1, <3>1, <3>3, <3>4 DEF FirstInTime
      <4>2. Len(queue) >= 1
        BY <1>5, <3>4 DEF InLine
      <4>3. ~(Len(queue) >= 2)
        <5> SUFFICES ASSUME Len(queue) >= 2 PROVE FALSE
          OBVIOUS
        <5>1. 1 \in 1..Len(queue) /\ 2 \in 1..Len(queue)
          BY <1>5
        <5>2. queue[1] = queue[2]
          BY <3>2, <5>1
        <5> QED
          BY <1>3, <5>1, <5>2 DEF IsInjective
      <4>4. Len(queue) = 1
        <5>1. \A l \in Nat : l >= 1 /\ ~(l >= 2) => l = 1
          OBVIOUS
        <5> QED
          BY <1>5, <4>2, <4>3, <5>1
      <4>5. Len(queue') >= 2 /\ queue'[1] = D1(m) /\ queue'[2] = x
        BY <1>5, <4>1, <4>4
      <4>6. clock[D2(m)] <= timer
        BY <1>2, <2>2
      <4> QED
        BY <2>2, <4>1, <4>5, <4>6
    <3>5. CASE ~InLine(D1(m))
      <4>1. Len(queue) = 0
        BY <1>5, <3>2, <3>5 DEF InLine
      <4>2. queue = <<>>
        BY <1>3, <4>1
      <4>3. stage = "lookup"
        BY <4>2 DEF DeadlineInv, DeadlineType, WaitState
      <4>4. m \in cached
        BY <2>1, <3>1, <3>3, <3>5 DEF FirstInTime
      <4>5. queue'[1] = x
        BY <1>5, <4>1
      <4>6. Ms(clock[x]) < WeChatMs
        BY <1>2, Ticking
      <4> QED
        BY <2>2, <4>3, <4>4, <4>5, <4>6
    <3> QED
      BY <3>4, <3>5
  <2>3. CASE x # D2(m)
    <3> SUFFICES ASSUME {D1(m), D2(m)} \cap (behind' \cup dropped') = {}
                 PROVE  (/\ conn[D2(m)] # "late"
                         /\ conn[D2(m)] = "open" =>
                              \/ /\ queue[1] = D2(m) /\ stage = "lookup" /\ m \in cached
                                 /\ Ms(clock[D2(m)]) < WeChatMs
                              \/ /\ Len(queue) >= 2 /\ queue[1] = D1(m) /\ queue[2] = D2(m)
                                 /\ stage = "ask" /\ clock[D2(m)] <= timer)'
      BY DEF SecondInTime
    <3>1. {D1(m), D2(m)} \cap (behind \cup dropped) = {}
      BY <1>1
    <3>2. conn'[D2(m)] = conn[D2(m)]
      BY <1>2, <2>1, <2>3
    <3>3. conn[D2(m)] = "open" => InLine(D2(m))
      BY <2>1 DEF DeadlineInv, LineState
    <3>4. Len(queue) >= 2 => Len(queue') >= 2 /\ queue'[1] = queue[1] /\ queue'[2] = queue[2]
      BY <1>5
    <3> QED
      BY <1>1, <1>11, <2>1, <3>1, <3>2, <3>3, <3>4 DEF SecondInTime
  <2> QED
    BY <2>2, <2>3
<1> QED
  BY <1>6, <1>7, <1>9, <1>12, <1>13 DEF DeadlineInv, InTime

\* A handler whose caller has gone is dropped.
LEMMA DropKeeps ==
  ASSUME DeadlineInv, NEW x \in Deliveries, Drop(x), UNCHANGED cfg
  PROVE  DeadlineInv'
<1>1. queue \in Seq(Deliveries) /\ IsInjective(queue) /\ DOMAIN queue = 1..Len(queue)
  BY DEF DeadlineInv, DeadlineType
<1>2. PICK n \in 1..Len(queue) :
        /\ queue[n] = x
        /\ IF n = 1 THEN HandOver(Tail(queue))
           ELSE queue' = RemoveAt(queue, n) /\ UNCHANGED <<stage, timer>>
  BY <1>1 DEF Drop
<1>3. /\ conn[x] = "late" /\ dropped' = dropped \cup {x}
      /\ UNCHANGED <<conn, clock, cached, behind>> /\ UNCHANGED Overlong
  BY DEF Drop, Overlong
<1>4. /\ Len(queue) \in Nat /\ queue # <<>> /\ Valid(cfg)
  <2>1. Len(queue) \in Nat /\ queue # <<>>
    BY <1>1, <1>2
  <2> QED
    BY <2>1 DEF DeadlineInv, WaitState
<1>5. CASE n = 1
  <2>1. queue' = Tail(queue) /\ stage' = "lookup" /\ timer' = 0 /\ x = queue[1]
    BY <1>2, <1>5 DEF HandOver
  <2>2. queue' \in Seq(Deliveries) /\ IsInjective(queue')
    BY <1>1, <1>4, <2>1, TailLine
  <2>3. \A d : (\E i \in 1..Len(Tail(queue)) : Tail(queue)[i] = d)
              <=> d # queue[1] /\ \E i \in 1..Len(queue) : queue[i] = d
    BY <1>1, <1>4, TailLine
  <2>4. \A d : InLine(d)' <=> d # x /\ InLine(d)
    BY <2>1, <2>3 DEF InLine
  <2>5. DeadlineType'
    BY <1>3, <2>1, <2>2 DEF DeadlineInv, DeadlineType
  <2>6. WaitState'
    BY <1>4, <2>1 DEF WaitState
  <2>7. LineState'
    BY <1>3, <2>4 DEF DeadlineInv, LineState
  <2>8. ASSUME NEW m \in Messages PROVE FirstInTime(m)'
    <3>1. D1(m) \in Deliveries /\ FirstInTime(m)
      BY DeliveryFacts DEF DeadlineInv, InTime
    <3>2. conn'[D1(m)] = "open" => InLine(D1(m))'
      BY <2>7, <3>1 DEF LineState
    <3>3. D1(m) \notin behind => ~InLine(D1(m))'
      BY <2>1, <2>4, <3>1 DEF FirstInTime
    <3>4. D1(m) \notin behind /\ InLine(D1(m)) => D1(m) = x
      BY <2>1, <3>1 DEF FirstInTime
    <3> QED
      BY <1>3, <3>1, <3>2, <3>3, <3>4 DEF FirstInTime
  <2>9. ASSUME NEW m \in Messages PROVE SecondInTime(m)'
    <3>1. SecondInTime(m)
      BY DEF DeadlineInv, InTime
    <3>2. {D1(m), D2(m)} \cap (behind' \cup dropped') = {} =>
            {D1(m), D2(m)} \cap (behind \cup dropped) = {} /\ x # D1(m) /\ x # D2(m)
      BY <1>3
    <3> QED
      BY <1>3, <2>1, <3>1, <3>2 DEF SecondInTime
  <2> QED
    BY <2>5, <2>6, <2>7, <2>8, <2>9 DEF DeadlineInv, InTime
<1>6. CASE n # 1
  <2>1. queue' = RemoveAt(queue, n) /\ UNCHANGED <<stage, timer>> /\ n \in 2..Len(queue)
    BY <1>2, <1>4, <1>6
  <2>2. /\ queue' \in Seq(Deliveries) /\ IsInjective(queue')
        /\ Len(queue') = Len(queue) - 1
        /\ \A i \in 1..(n - 1) : queue'[i] = queue[i]
    <3>1. /\ RemoveAt(queue, n) \in Seq(Deliveries) /\ IsInjective(RemoveAt(queue, n))
          /\ Len(RemoveAt(queue, n)) = Len(queue) - 1
          /\ \A i \in 1..(n - 1) : RemoveAt(queue, n)[i] = queue[i]
      BY <1>1, <2>1, RemoveLine
    <3> QED
      BY <2>1, <3>1
  <2>3. \A d : (\E i \in 1..Len(RemoveAt(queue, n)) : RemoveAt(queue, n)[i] = d)
              <=> d # queue[n] /\ \E i \in 1..Len(queue) : queue[i] = d
    BY <1>1, <2>1, RemoveLine
  <2>4. \A d : InLine(d)' <=> d # x /\ InLine(d)
    BY <1>2, <2>1, <2>3 DEF InLine
  <2>5. queue'[1] = queue[1] /\ queue' # <<>> /\ UNCHANGED AiShare
    <3>1. 1 \in 1..(n - 1) /\ Len(queue') >= 1
      BY <1>4, <2>1, <2>2
    <3> QED
      BY <2>1, <2>2, <3>1 DEF AiShare, AiMs
  <2>6. DeadlineType'
    BY <1>3, <2>1, <2>2 DEF DeadlineInv, DeadlineType
  <2>7. WaitState'
    BY <1>4, <2>1, <2>5 DEF DeadlineInv, WaitState, AiMs, AskMs
  <2>8. LineState'
    BY <1>3, <2>4 DEF DeadlineInv, LineState
  <2>9. ASSUME NEW m \in Messages PROVE FirstInTime(m)'
    <3>1. FirstInTime(m)
      BY DEF DeadlineInv, InTime
    <3>2. InLine(D1(m))' => InLine(D1(m))
      BY <2>4
    <3>3. InLine(D1(m)) => InLine(D1(m))' \/ D1(m) = x
      BY <2>4
    <3> QED
      BY <1>3, <2>1, <2>5, <3>1, <3>2, <3>3 DEF FirstInTime
  <2>10. ASSUME NEW m \in Messages PROVE SecondInTime(m)'
    <3>1. SecondInTime(m)
      BY DEF DeadlineInv, InTime
    <3>2. {D1(m), D2(m)} \cap (behind' \cup dropped') = {} =>
            {D1(m), D2(m)} \cap (behind \cup dropped) = {} /\ x # D1(m) /\ x # D2(m)
      BY <1>3
    <3>3. queue[2] # x => n # 2
      BY <1>2
    <3>4. n # 2 => Len(queue') >= 2 /\ queue'[2] = queue[2]
      <4> SUFFICES ASSUME n # 2 PROVE Len(queue') >= 2 /\ queue'[2] = queue[2]
        OBVIOUS
      <4>1. 2 \in 1..(n - 1) /\ Len(queue) >= 3
        BY <1>4, <2>1
      <4> QED
        BY <1>4, <2>2, <4>1
    <3> QED
      BY <1>3, <2>1, <2>5, <3>1, <3>2, <3>3, <3>4 DEF SecondInTime
  <2> QED
    BY <2>6, <2>7, <2>8, <2>9, <2>10 DEF DeadlineInv, InTime
<1> QED
  BY <1>5, <1>6

\* Every step of the handlers, of WeChat's end and of the clock.
LEMMA DeadlineStepKeeps ==
  ASSUME DeadlineInv, DeadlineStep, UNCHANGED cfg
  PROVE  DeadlineInv'
<1>1. CASE Hit
  <2>1. At("lookup") /\ Respond(TRUE)
    BY <1>1 DEF Hit
  <2> QED
    BY <2>1, RespondKeeps DEF At
<1>2. CASE Miss
  <2>1. queue # <<>> /\ stage = "lookup" /\ Msg \notin cached
    BY <1>2 DEF Miss, At
  <2>2. \/ Enter("ask")
        \/ Classifies(cfg) /\ Enter("classify")
        \/ \E stores \in BOOLEAN : Respond(stores)
    BY <1>2 DEF Miss
  <2> QED
    BY <2>1, <2>2, RespondKeeps, EnterKeeps
<1>3. CASE Classified
  <2>1. queue # <<>> /\ stage = "classify"
    BY <1>3 DEF Classified, At
  <2>2. Enter("ask") \/ \E stores \in BOOLEAN : Respond(stores)
    BY <1>3 DEF Classified
  <2> QED
    BY <2>1, <2>2, RespondKeeps, EnterKeeps
<1>4. CASE ClassifierTimeOut \/ Answered \/ AskTimeOut
  <2>1. queue # <<>> /\ Respond(TRUE)
    BY <1>4 DEF ClassifierTimeOut, Answered, AskTimeOut, At
  <2> QED
    BY <2>1, RespondKeeps
<1>5. CASE \E d \in Deliveries : Close(d) \/ Drop(d)
  BY <1>5, CloseKeeps, DropKeeps
<1>6. CASE Tick
  BY <1>6, TickKeeps
<1> QED
  BY <1>1, <1>2, <1>3, <1>4, <1>5, <1>6 DEF DeadlineStep, HandlerStep

-----------------------------------------------------------------------------
(* The theorems. *)

ServiceInv == StartInv /\ DeadlineInv

LEMMA ServiceInit == Init => ServiceInv
<1> SUFFICES ASSUME Init PROVE ServiceInv
  OBVIOUS
<1>1. StartInv
  BY DEF Init, StartInit, StartInv, StartType, Validated, ChildOrder, ProbeState, Starting,
         CheckCatches, ProbedBeforeServing
<1>2. Len(queue) = 0 /\ queue \in Seq(Deliveries) /\ DOMAIN queue = {}
  BY DEF Init, DeadlineInit
<1>3. \A d : ~InLine(d)
  BY <1>2 DEF InLine
<1>4. DeadlineType
  <2>1. \A d \in Deliveries : clock[d] * TickMs < WeChatMs + TickMs
    BY Ticking DEF Init, DeadlineInit, Ms
  <2>2. IsInjective(queue)
    BY <1>2 DEF IsInjective
  <2> QED
    BY <1>2, <2>1, <2>2 DEF Init, DeadlineInit, DeadlineType
<1>5. WaitState /\ LineState
  <2>1. \A m \in Messages : \A j \in 1..MaxAttempts : conn[<<m, j>>] = "none"
    BY DEF Init, DeadlineInit, Deliveries
  <2> QED
    BY <1>3, <2>1 DEF Init, DeadlineInit, WaitState, LineState
<1>6. InTime
  <2>1. \A m \in Messages : conn[D1(m)] = "none" /\ conn[D2(m)] = "none"
    BY DeliveryFacts DEF Init, DeadlineInit
  <2> QED
    BY <1>3, <2>1 DEF InTime, FirstInTime, SecondInTime
<1> QED
  BY <1>1, <1>4, <1>5, <1>6 DEF ServiceInv, DeadlineInv, StartInv, StartType

\* A configuration that does not change leaves what is said of the requests.
LEMMA DeadlineStays ==
  ASSUME DeadlineInv, UNCHANGED <<cfg, deadlineVars>>
  PROVE  DeadlineInv'
<1>1. /\ UNCHANGED <<queue, stage, conn, clock, timer, cached, dropped, behind>>
      /\ UNCHANGED <<AiMs, AskMs, AiShare, Overlong>>
      /\ \A d : InLine(d)' <=> InLine(d)
  BY DEF deadlineVars, AiMs, AskMs, AiShare, Overlong, InLine
<1>2. DeadlineType' /\ LineState'
  BY <1>1 DEF DeadlineInv, DeadlineType, LineState
<1>3. WaitState'
  BY <1>1 DEF DeadlineInv, WaitState
<1>4. InTime'
  BY <1>1 DEF DeadlineInv, InTime, FirstInTime, SecondInTime
<1> QED
  BY <1>2, <1>3, <1>4 DEF DeadlineInv

LEMMA StartStays ==
  ASSUME StartInv, UNCHANGED startVars
  PROVE  StartInv'
<1>1. UNCHANGED <<cfg, phase, why, child, probed, early, Count, Grace>>
  BY DEF startVars, Count, Grace
<1>2. StartType'
  BY <1>1 DEF StartInv, StartType
<1>3. Validated' /\ ChildOrder'
  BY <1>1 DEF StartInv, Validated, ChildOrder
<1>4. ProbeState' /\ ProbedBeforeServing'
  BY <1>1 DEF StartInv, ProbeState, ProbedBeforeServing
<1>5. CheckCatches'
  BY <1>1 DEF StartInv, CheckCatches, Check
<1> QED
  BY <1>2, <1>3, <1>4, <1>5 DEF StartInv

\* The configuration is read once.
LEMMA ConfigStays ==
  ASSUME Run \/ StartStep \/ Signal \/ Stop
         \/ (\E i \in Workers : ChildExits(i) \/ Notice(i))
  PROVE  UNCHANGED cfg
BY DEF Run, StartStep, Load, DecodeKey, CreateDir, SpawnWorker, Bind, GraceOver, Probe, Wire,
       Signal, Stop, ChildExits, Notice, Fail, Proceed

LEMMA ServiceNext == ServiceInv /\ [Next]_vars => ServiceInv'
<1> SUFFICES ASSUME StartInv, DeadlineInv, [Next]_vars PROVE ServiceInv'
  BY DEF ServiceInv
<1>1. CASE Boot \/ Finish
  <2>1. /\ \/ Run \/ StartStep \/ Signal \/ Stop
           \/ \E i \in Workers : ChildExits(i) \/ Notice(i)
        /\ UNCHANGED deadlineVars
    BY <1>1 DEF Boot, Finish
  <2>2. UNCHANGED cfg
    BY <2>1, ConfigStays
  <2> QED
    BY <2>1, <2>2, StartStepInv, DeadlineStays DEF ServiceInv
<1>2. CASE Accept
  <2>1. PICK m \in Messages, k \in 1..MaxAttempts : Post(m, k)
    BY <1>2 DEF Accept
  <2>2. UNCHANGED startVars /\ UNCHANGED cfg /\ Valid(cfg)
    BY <1>2 DEF Accept, startVars, StartInv, Validated
  <2> QED
    BY <2>1, <2>2, PostKeeps, StartStays DEF ServiceInv
<1>3. CASE Serve
  <2>1. DeadlineStep /\ UNCHANGED startVars /\ UNCHANGED cfg
    BY <1>3 DEF Serve, startVars
  <2> QED
    BY <2>1, DeadlineStepKeeps, StartStays DEF ServiceInv
<1>4. CASE UNCHANGED vars
  <2>1. UNCHANGED startVars /\ UNCHANGED cfg /\ UNCHANGED deadlineVars
    BY <1>4 DEF vars
  <2> QED
    BY <2>1, StartStays, DeadlineStays DEF ServiceInv
<1> QED
  BY <1>1, <1>2, <1>3, <1>4 DEF Next

LEMMA ServiceInvariant == Spec => []ServiceInv
BY ServiceInit, ServiceNext, PTL DEF Spec

\* TypeOK: no delivery is twice in the line for the lock, the reply cache is
\* keyed by messages, and no connection outlives WeChat's five seconds.
THEOREM ServiceTypeCorrect == Spec => []TypeOK
<1>1. ServiceInv => TypeOK
  BY DEF ServiceInv, StartInv, DeadlineInv, TypeOK
<1> QED
  BY <1>1, ServiceInvariant, PTL

\* CheckCatches, for whatever an operator may write: `run` does not fail for a
\* setting that `check` accepts, but for a key that is not base64, a path that
\* axum refuses and the machine (config.rs:579-580).
THEOREM CheckIsEnough == Spec => []CheckCatches
<1>1. ServiceInv => CheckCatches
  BY DEF ServiceInv, StartInv
<1> QED
  BY <1>1, ServiceInvariant, PTL

\* ProbedBeforeServing, for any number of workers: a child that exits within
\* the grace keeps the server from starting (bridge.rs:392-425).
THEOREM EarlyExitsFail == Spec => []ProbedBeforeServing
<1>1. ServiceInv => ProbedBeforeServing
  BY DEF ServiceInv, StartInv
<1> QED
  BY <1>1, ServiceInvariant, PTL

\* LateNeedsCause, for any configuration and any number of messages: a first
\* POST that finds the conversation free is late only where the classifier and
\* the answer together may take WeChat's five seconds (config.rs:614-619).
THEOREM LateHasCause == Spec => []LateNeedsCause
<1>1. ServiceInv => LateNeedsCause
  BY DEF ServiceInv, DeadlineInv, InTime, FirstInTime, LateNeedsCause, Late, D1
<1> QED
  BY <1>1, ServiceInvariant, PTL

\* RetryLateNeedsCause: the second POST of a message is answered in time
\* whatever times validate() accepted, unless a handler of the message was
\* dropped or queued behind another message (config.rs:645-655).
THEOREM RetryLateHasCause == Spec => []RetryLateNeedsCause
<1>1. ServiceInv => RetryLateNeedsCause
  <2> SUFFICES ASSUME ServiceInv, NEW m \in Messages, Late(<<m, 2>>),
                      ~\E k \in {1, 2} : <<m, k>> \in dropped \cup behind
               PROVE  FALSE
    BY DEF RetryLateNeedsCause
  <2>1. D1(m) \notin dropped \cup behind /\ D2(m) \notin dropped \cup behind
    BY DEF D1, D2
  <2>2. SecondInTime(m) /\ conn[D2(m)] = "late"
    BY DEF ServiceInv, DeadlineInv, InTime, Late, D2
  <2> QED
    BY <2>1, <2>2 DEF SecondInTime
<1> QED
  BY <1>1, ServiceInvariant, PTL
=============================================================================
