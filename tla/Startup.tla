------------------------------ MODULE Startup ------------------------------
(***************************************************************************)
(* The command line (src/src/main.rs): `check`, and `run` up to the moment *)
(* where the server answers requests, and from a signal to the end.  The   *)
(* pool is started by BridgePool::spawn (src/src/bridge.rs:376-430).  What *)
(* happens to a bridge while the server runs is the subject of BridgePool. *)
(***************************************************************************)
EXTENDS Config

CONSTANT
  MaxWorkers   \* bound on evoclaw.worker_count

ASSUME StartupAssumption ==
  /\ MaxWorkers \in Nat \ {0}
  /\ \A c \in Files : c.evoclaw.worker_count \in 0..MaxWorkers

Workers == 1..MaxWorkers

VARIABLES
  phase,    \* where the process is
  why,      \* why it failed, or "none"
  child,    \* child[i]: the i-th child process
  probed,   \* slots whose flag has been looked at
  early     \* history: children that had exited when the grace was over

startVars == <<cfg, phase, why, child, probed, early>>

Starting == {"load", "key", "dir", "spawn", "grace", "probe", "wire", "bind"}

StartType ==
  /\ cfg \in Files
  /\ phase \in {"idle", "serving", "draining", "failed", "killed", "stopped"} \cup Starting
  /\ why \in {"none", "load", "address", "key", "dir", "spawn", "died", "route", "port"}
  /\ child \in [Workers -> {"none", "up", "exited", "dead", "pooled", "gone"}]
  /\ probed \subseteq Workers
  /\ early \subseteq Workers

StartInit ==
  /\ cfg \in Files
  /\ phase = "idle"
  /\ why = "none"
  /\ child = [i \in Workers |-> "none"]
  /\ probed = {}
  /\ early = {}

-----------------------------------------------------------------------------
Count == cfg.evoclaw.worker_count

Spawned == {i \in Workers : child[i] # "none"}

\* Every Bridge is dropped, and kill_on_drop(true) ends its child.
Reap == child' = [i \in Workers |-> IF i \in Spawned THEN "gone" ELSE "none"]

Fail(reason) ==
  /\ phase' = "failed"
  /\ why' = reason
  /\ Reap
  /\ UNCHANGED <<cfg, probed, early>>

Proceed(next) ==
  /\ phase' = next
  /\ UNCHANGED <<cfg, why, child, probed, early>>

\* `check` says that the file is fine: it loads, and `evoclaw --version`
\* answers within 5 s.
Check(answers) == Valid(cfg) /\ answers

Run ==
  /\ phase = "idle"
  /\ Proceed("load")

Load ==
  /\ phase = "load"
  /\ IF ~Valid(cfg) THEN Fail("load")
     ELSE IF cfg.server.bind = "typo" THEN Fail("address")
     ELSE Proceed("key")

\* decode_aes_key() wants the key to be base64, too.
DecodeKey ==
  /\ phase = "key"
  /\ IF cfg.wechat.encrypt_mode # "plain" /\ cfg.wechat.encoding_aes_key # "key"
     THEN Fail("key")
     ELSE Proceed(IF cfg.session.dir = "absent" THEN "spawn" ELSE "dir")

CreateDir(works) ==
  /\ phase = "dir"
  /\ IF works THEN Proceed("spawn") ELSE Fail("dir")

\* Bridge::spawn: the operating system starts the child, or cannot.
SpawnWorker(works) ==
  /\ phase = "spawn"
  /\ \E i \in Workers \ Spawned :
       /\ \A j \in Workers : j < i => j \in Spawned
       /\ IF ~works THEN Fail("spawn")
          ELSE /\ child' = [child EXCEPT ![i] = "up"]
               /\ phase' = IF i = Count THEN "grace" ELSE "spawn"
               /\ UNCHANGED <<cfg, why, probed, early>>

\* A child ends, for a flag it does not know or a missing API key.
ChildExits(i) ==
  /\ phase \in Starting
  /\ child[i] = "up"
  /\ child' = [child EXCEPT ![i] = "exited"]
  /\ UNCHANGED <<cfg, phase, why, probed, early>>

\* The reader task sees the end of stdout and lowers the flag.
Notice(i) ==
  /\ phase \in Starting
  /\ child[i] = "exited"
  /\ child' = [child EXCEPT ![i] = "dead"]
  /\ UNCHANGED <<cfg, phase, why, probed, early>>

\* Bug: no sleep before the flags are looked at.
NoGrace ==
  /\ phase = "grace"
  /\ early' = {i \in Workers : child[i] \in {"exited", "dead"}}
  /\ phase' = "probe"
  /\ UNCHANGED <<cfg, why, child, probed>>

\* startup_grace is over.  Unless it is zero, it is taken to be long enough
\* for the reader to notice a child that has exited.
GraceOver ==
  /\ phase = "grace"
  /\ cfg.evoclaw.startup_grace_ms > 0 => \A i \in Workers : child[i] # "exited"
  /\ early' = {i \in Workers : child[i] \in {"exited", "dead"}}
  /\ phase' = "probe"
  /\ UNCHANGED <<cfg, why, child, probed>>

\* The flags are looked at one after the other.
Probe ==
  /\ phase = "probe"
  /\ \E i \in Spawned \ probed :
       /\ \A j \in Spawned : j < i => j \in probed
       /\ IF child[i] = "dead" THEN Fail("died")
          ELSE /\ probed' = probed \cup {i}
               /\ phase' = IF i = Count THEN "wire" ELSE "probe"
               /\ UNCHANGED <<cfg, why, child, early>>

\* The caches, the classifier, the sweep and the routes.  axum refuses a path
\* that does not begin with a slash or that is taken.
Wire ==
  /\ phase = "wire"
  /\ IF cfg.server.endpoint_path = "/wechat" THEN Proceed("bind") ELSE Fail("route")

\* The pool has the bridges now.
Bind(free) ==
  /\ phase = "bind"
  /\ IF ~free THEN Fail("port")
     ELSE /\ phase' = "serving"
          /\ child' = [i \in Workers |-> IF i \in Spawned THEN "pooled" ELSE "none"]
          /\ UNCHANGED <<cfg, why, probed, early>>

\* SIGINT or SIGTERM: shutdown_signal() listens only while the server runs,
\* before that the process ends at once and drops nothing.
Signal ==
  \/ /\ phase \in Starting
     /\ Proceed("killed")
  \/ /\ phase = "serving"
     /\ Proceed("draining")

\* axum::serve() returns, and the end of the runtime drops the pool.
Stop ==
  /\ phase = "draining"
  /\ phase' = "stopped"
  /\ Reap
  /\ UNCHANGED <<cfg, why, probed, early>>

StartStep ==
  \/ Load
  \/ DecodeKey
  \/ \E works \in BOOLEAN : CreateDir(works) \/ SpawnWorker(works) \/ Bind(works)
  \/ GraceOver
  \/ Probe
  \/ Wire

-----------------------------------------------------------------------------
(* Properties. *)

\* What `check` accepts does not fail at `run` for a configuration that can
\* be seen to be wrong (config.rs:579-580 and the test at 791): what is left
\* is a key that is not base64, a path that axum refuses, and the machine.
CheckCatches ==
  Check(TRUE) =>
    /\ why \notin {"load", "address"}
    /\ why = "key" => cfg.wechat.encoding_aes_key = "43 other characters"
    /\ why = "route" => cfg.server.endpoint_path # "/wechat"

\* A child that exits within the grace keeps the server from starting
\* (bridge.rs:392-425), whichever worker it is: spawn() alone does not tell.
ProbedBeforeServing ==
  phase \in {"serving", "draining"} /\ cfg.evoclaw.startup_grace_ms > 0 => early = {}
=============================================================================
