----------------------------- MODULE IndexBuild -----------------------------
(***************************************************************************)
(* Building the code index of a project and sending it to the host.        *)
(*                                                                         *)
(* An MCP server starts one worker at a time, which loads or builds the    *)
(* graph index, saves it, hands it to a detached thread that syncs it, and *)
(* then builds the BM25 index.  ctx_graph and other tools scan the project *)
(* on demand and save the same file.  Several servers share the file and   *)
(* the host; a sync that gets no answer waits in the outbox.               *)
(*                                                                         *)
(* An index is the version of the working tree it was built from.  The     *)
(* servers run in the directory of the project, where load_or_build has no *)
(* other index to fall back on.                                            *)
(***************************************************************************)
EXTENDS Naturals, FiniteSets

CONSTANTS
  Servers,    \* MCP server processes on one project
  MaxTree,    \* bound: versions of the working tree
  MaxWorkers  \* bound: workers started over all

ASSUME IndexAssumption == MaxTree \in Nat \ {0} /\ MaxWorkers \in Nat

VARIABLES
  tree,      \* the version of the working tree
  index,     \* the version index.json holds, Unreadable while it is written
  running,   \* worker_running of each process
  graph,     \* the graph component's state, as status_json shows it
  bm25,
  worker,    \* the control state of each process's worker
  built,     \* the index the worker holds
  scanner,   \* the version a tool has scanned and not saved yet, 0 when none
  scanCut,   \* the processes whose tool has emptied the file to save its scan
  syncing,   \* the indexes of the sync threads, by thread
  queuedSyncs, \* the same of the syncs in the outbox
  started,
  hostIndex, \* the version the host holds
  newest,    \* history: the newest version ever saved
  crossed    \* history: whether two writers of the file or the host overlapped

scans == <<scanner, scanCut>>
syncs == <<syncing, queuedSyncs>>
indexVars == <<tree, index, running, graph, bm25, worker, built, scans, syncs,
               started, hostIndex, newest, crossed>>

Unreadable == 0
TreeVersions == 0..MaxTree

IndexInit ==
  /\ tree = 1 /\ index = Unreadable
  /\ running = [s \in Servers |-> FALSE]
  /\ graph = [s \in Servers |-> "idle"] /\ bm25 = [s \in Servers |-> "idle"]
  /\ worker = [s \in Servers |-> "none"]
  /\ built = [s \in Servers |-> 0] /\ scanner = [s \in Servers |-> 0]
  /\ scanCut = {} /\ syncing = {} /\ queuedSyncs = {} /\ started = 0 /\ hostIndex = 0
  /\ newest = 0 /\ crossed = FALSE

EditTree ==
  /\ tree < MaxTree /\ tree' = tree + 1
  /\ UNCHANGED <<index, running, graph, bm25, worker, built, scans, syncs, started, hostIndex,
                 newest, crossed>>

\* Who is between reading the tree or the file and saving the index.
Writing(s) == built[s] # 0 \/ scanner[s] # 0

(***************************************************************************)
(* ensure_all_background and its worker.                                   *)
(***************************************************************************)

Ensure(s) ==
  /\ ~running[s] /\ started < MaxWorkers
  /\ started' = started + 1
  /\ running' = [running EXCEPT ![s] = TRUE]
  /\ worker' = [worker EXCEPT ![s] = "starts"]
  /\ UNCHANGED <<tree, index, graph, bm25, built, scans, syncs, hostIndex, newest, crossed>>

StartGraph(s) ==
  /\ worker[s] = "starts"
  /\ graph' = [graph EXCEPT ![s] = "building"]
  /\ worker' = [worker EXCEPT ![s] = "loads"]
  /\ UNCHANGED <<tree, index, running, bm25, built, scans, syncs, started, hostIndex, newest,
                 crossed>>

\* load_or_build takes any index it can read, however old, and scans the tree only
\* when there is none; scan saves what it made.
LoadOrBuild(s) ==
  /\ worker[s] = "loads"
  /\ built' = [built EXCEPT ![s] = IF index # Unreadable THEN index ELSE tree]
  /\ crossed' = (crossed \/ \E t \in Servers : Writing(t))
  /\ worker' = [worker EXCEPT ![s] = IF index # Unreadable THEN "saves" ELSE "scans"]
  /\ UNCHANGED <<tree, index, running, graph, bm25, scans, syncs, started, hostIndex, newest>>

\* The file is emptied and then written.
CutIndex(s) ==
  /\ worker[s] \in {"scans", "saves"}
  /\ index' = Unreadable
  /\ worker' = [worker EXCEPT ![s] = IF @ = "scans" THEN "keeps" ELSE "writes"]
  /\ UNCHANGED <<tree, running, graph, bm25, built, scans, syncs, started, hostIndex, newest,
                 crossed>>

Saved(v) ==
  /\ index' = v
  /\ newest' = IF v > newest THEN v ELSE newest

\* What scan saved, the worker saves again.
KeepScan(s) ==
  /\ worker[s] = "keeps"
  /\ Saved(built[s])
  /\ worker' = [worker EXCEPT ![s] = "saves"]
  /\ UNCHANGED <<tree, running, graph, bm25, built, scans, syncs, started, hostIndex, crossed>>

\* The worker saves what it loaded, marks the component ready and leaves the sync
\* to a thread of its own.
FinishGraph(s) ==
  /\ worker[s] = "writes"
  /\ Saved(built[s])
  /\ graph' = [graph EXCEPT ![s] = "ready"]
  /\ syncing' = syncing \union {<<started, s, built[s]>>}
  /\ crossed' = (crossed \/ syncing \union queuedSyncs # {})
  /\ built' = [built EXCEPT ![s] = 0]
  /\ worker' = [worker EXCEPT ![s] = "bm25"]
  /\ UNCHANGED <<tree, running, bm25, scans, queuedSyncs, started, hostIndex>>

\* catch_unwind: a panic fails the component and the worker goes on.
GraphPanics(s) ==
  /\ worker[s] \in {"loads", "scans", "saves"}
  /\ graph' = [graph EXCEPT ![s] = "failed"]
  /\ built' = [built EXCEPT ![s] = 0]
  /\ worker' = [worker EXCEPT ![s] = "bm25"]
  /\ UNCHANGED <<tree, index, running, bm25, scans, syncs, started, hostIndex, newest, crossed>>

StartBm25(s) ==
  /\ worker[s] = "bm25"
  /\ bm25' = [bm25 EXCEPT ![s] = "building"]
  /\ worker' = [worker EXCEPT ![s] = "builds"]
  /\ UNCHANGED <<tree, index, running, graph, built, scans, syncs, started, hostIndex, newest,
                 crossed>>

FinishBm25(s) ==
  /\ worker[s] = "builds"
  /\ \E end \in {"ready", "failed"} : bm25' = [bm25 EXCEPT ![s] = end]
  /\ worker' = [worker EXCEPT ![s] = "ends"]
  /\ UNCHANGED <<tree, index, running, graph, built, scans, syncs, started, hostIndex, newest,
                 crossed>>

EndWorker(s) ==
  /\ worker[s] = "ends"
  /\ running' = [running EXCEPT ![s] = FALSE]
  /\ worker' = [worker EXCEPT ![s] = "none"]
  /\ UNCHANGED <<tree, index, graph, bm25, built, scans, syncs, started, hostIndex, newest,
                 crossed>>

(***************************************************************************)
(* Scans on demand, and the syncs.                                         *)
(***************************************************************************)

\* ctx_graph scans at any time, the other tools where they find no index.
ScanTree(s) ==
  /\ scanner[s] = 0
  /\ scanner' = [scanner EXCEPT ![s] = tree]
  /\ crossed' = (crossed \/ \E t \in Servers : Writing(t))
  /\ UNCHANGED <<tree, index, running, graph, bm25, worker, built, scanCut, syncs, started,
                 hostIndex, newest>>

CutScan(s) ==
  /\ scanner[s] # 0 /\ s \notin scanCut
  /\ index' = Unreadable
  /\ scanCut' = scanCut \union {s}
  /\ UNCHANGED <<tree, running, graph, bm25, worker, built, scanner, syncs, started, hostIndex,
                 newest, crossed>>

\* Mutant: what was found before is written back.
MutSaveScan(s) ==
  /\ s \in scanCut
  /\ index' = IF newest # 0 THEN newest ELSE scanner[s]
  /\ newest' = IF scanner[s] > newest THEN scanner[s] ELSE newest
  /\ scanner' = [scanner EXCEPT ![s] = 0] /\ scanCut' = scanCut \ {s}
  /\ UNCHANGED <<tree, running, graph, bm25, worker, built, syncing, queuedSyncs, started,
                 hostIndex, crossed>>

SaveScan(s) ==
  /\ s \in scanCut
  /\ Saved(scanner[s])
  /\ scanner' = [scanner EXCEPT ![s] = 0] /\ scanCut' = scanCut \ {s}
  /\ UNCHANGED <<tree, running, graph, bm25, worker, built, syncing, queuedSyncs, started,
                 hostIndex, crossed>>

\* The host replaces its index; or there is no answer, whatever the host did, and the
\* outbox has it; or the sync is lost with its process.
SyncIndex ==
  /\ \E t \in syncing :
       /\ syncing' = syncing \ {t}
       /\ hostIndex' \in {hostIndex, t[3]}
       /\ queuedSyncs' \in {queuedSyncs, queuedSyncs \union {t}}
  /\ UNCHANGED <<tree, index, running, graph, bm25, worker, built, scans, started, newest,
                 crossed>>

\* A drain delivers a sync, and deletes it when it gets the answer.
ReplaySync ==
  /\ \E t \in queuedSyncs :
       /\ hostIndex' = t[3]
       /\ queuedSyncs' \in {queuedSyncs, queuedSyncs \ {t}}
  /\ UNCHANGED <<tree, index, running, graph, bm25, worker, built, scans, syncing, started,
                 newest, crossed>>

WorkerStep(s) ==
  \/ StartGraph(s) \/ LoadOrBuild(s) \/ CutIndex(s) \/ KeepScan(s) \/ FinishGraph(s)
  \/ GraphPanics(s) \/ StartBm25(s) \/ FinishBm25(s) \/ EndWorker(s)

IndexNext ==
  \/ EditTree \/ SyncIndex \/ ReplaySync
  \/ \E s \in Servers : Ensure(s) \/ WorkerStep(s) \/ ScanTree(s) \/ CutScan(s) \/ SaveScan(s)

IndexSpec == IndexInit /\ [][IndexNext]_indexVars

(***************************************************************************)
(* Properties.                                                             *)
(***************************************************************************)

Shown == {"idle", "building", "ready", "failed"}

IndexTypeOK ==
  /\ tree \in 1..MaxTree /\ {index, hostIndex, newest} \subseteq TreeVersions
  /\ running \in [Servers -> BOOLEAN]
  /\ graph \in [Servers -> Shown] /\ bm25 \in [Servers -> Shown]
  /\ worker \in [Servers -> {"none", "starts", "loads", "scans", "keeps", "saves", "writes", "bm25",
                             "builds", "ends"}]
  /\ built \in [Servers -> TreeVersions] /\ scanner \in [Servers -> TreeVersions]
  /\ scanCut \subseteq Servers
  /\ {syncing, queuedSyncs} \subseteq SUBSET ((1..MaxWorkers) \X Servers \X TreeVersions)
  /\ started \in 0..MaxWorkers /\ crossed \in BOOLEAN

\* Unless writers overlap, or a sync is still under way or in the outbox when the next
\* begins, neither the file nor the host goes back to an older version of the tree (save
\* after load_or_build, the detached fire_sync_index, its replay).
IndexGoesForward ==
  [][~crossed' => /\ index' # Unreadable => index' = newest'
                  /\ hostIndex' >= hostIndex]_indexVars
=============================================================================
