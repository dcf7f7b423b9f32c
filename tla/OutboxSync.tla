----------------------------- MODULE OutboxSync -----------------------------
(***************************************************************************)
(* Offline-tolerant delivery from the client to the host.                  *)
(*                                                                         *)
(* An operation (a telemetry event, a hosted tool call, a code index sync) *)
(* is first sent directly; when that fails it becomes a file of the        *)
(* outbox, which any process may later drain.  Nothing locks the outbox:   *)
(* the MCP server's startup task, shell hooks and `nebu-ctx sync flush`    *)
(* list, replay, delete and rewrite the same files.                        *)
(*                                                                         *)
(* The carrier of an operation is whatever holds it in memory on the       *)
(* direct path: the channel and a blocking worker of the MCP server        *)
(* (ChanOps), the detached thread of a shell hook (HookOps), or the caller *)
(* of queue_or_call_tool and queue_or_sync_index (CallOps).                *)
(***************************************************************************)
EXTENDS Naturals

CONSTANTS
  ChanOps,       \* telemetry raised by tools::record in the MCP server
  HookOps,       \* telemetry fired by short-lived shell hooks
  CallOps,       \* hosted tool calls and index syncs
  Poison,        \* operations the host rejects however often they are sent
  Drainers,      \* processes that may drain the outbox
  McpDrain,      \* the startup drain of the MCP server, one of the Drainers
  NoOp,          \* not an operation: a drainer between two entries
  RenameReplaces,\* TRUE where rename replaces the target, FALSE on Windows
  AttemptsLimit, \* the largest value of the attempts field
  MaxFaults,     \* bound: failed or unanswered requests of acceptable operations
  MaxKills,      \* bound: processes killed
  MaxStarts      \* bound: starts of the MCP server

Ops == ChanOps \union HookOps \union CallOps

ASSUME OriginsAssumption ==
  /\ ChanOps \intersect HookOps = {}
  /\ ChanOps \intersect CallOps = {}
  /\ HookOps \intersect CallOps = {}
  /\ NoOp \notin Ops
  /\ Poison \subseteq Ops
ASSUME DrainersAssumption == McpDrain \in Drainers
ASSUME BoundsAssumption ==
  /\ RenameReplaces \in BOOLEAN
  /\ AttemptsLimit \in Nat /\ MaxFaults \in Nat
  /\ MaxKills \in Nat /\ MaxStarts \in Nat

VARIABLES
  mcp,       \* the MCP server process
  carrier,   \* where each operation is on its direct path
  outbox,    \* operations that have an entry file
  attempts,  \* the attempts field of each entry file
  created,   \* creation order of the entry files
  clock,     \* orders the creations
  drainer,   \* the control state of each drainer
  current,   \* the entry each drainer is replaying
  todo,      \* the entries each drainer listed and has not finished
  seen,      \* the attempts fields each drainer loaded
  applied,   \* how often the host applied each operation
  late,      \* requests whose sender no longer waits, still under way
  faults, kills, starts

\* History, read by properties only.
VARIABLES
  filed,     \* operations that were ever written to the outbox
  settled,   \* operations whose entry was deleted after a successful replay
  failed,    \* failed replays of each operation
  unknown    \* requests of each operation given up while they may have worked

procVars == <<mcp, drainer, current, todo, seen>>
diskVars == <<outbox, attempts, created, clock>>
hostVars == <<applied, late>>
budgets  == <<faults, kills, starts>>
history  == <<filed, settled, failed, unknown>>
vars == <<procVars, carrier, diskVars, hostVars, budgets, history>>

\* Mutant: attempts left, counted down without a floor.
MutCountsDown(n) == n - 1

Saturating(n) == IF n < AttemptsLimit THEN n + 1 ELSE AttemptsLimit

\* Control states of a carrier and of a drainer.
CarrierStates == {"new", "chan", "post", "answered", "persist", "done", "killed"}
DrainerStates == {"idle", "listed", "loop", "sent", "answered", "failed", "unlinked"}

TypeOK ==
  /\ mcp \in {"off", "starting", "serving"}
  /\ carrier \in [Ops -> CarrierStates]
  /\ outbox \subseteq Ops
  /\ attempts \in [Ops -> Nat]
  /\ created \in [Ops -> Nat]
  /\ clock \in Nat
  /\ drainer \in [Drainers -> DrainerStates]
  /\ current \in [Drainers -> Ops \union {NoOp}]
  /\ todo \in [Drainers -> SUBSET Ops]
  /\ seen \in [Drainers -> [Ops -> Nat]]
  /\ applied \in [Ops -> Nat]
  /\ late \in [Ops -> Nat]
  /\ faults \in Nat /\ kills \in Nat /\ starts \in Nat
  /\ filed \subseteq Ops
  /\ settled \subseteq Ops
  /\ failed \in [Ops -> Nat]
  /\ unknown \in [Ops -> Nat]

Init ==
  /\ mcp = "off"
  /\ carrier = [o \in Ops |-> "new"]
  /\ outbox = {}
  /\ attempts = [o \in Ops |-> 0]
  /\ created = [o \in Ops |-> 0]
  /\ clock = 0
  /\ drainer = [d \in Drainers |-> "idle"]
  /\ current = [d \in Drainers |-> NoOp]
  /\ todo = [d \in Drainers |-> {}]
  /\ seen = [d \in Drainers |-> [o \in Ops |-> 0]]
  /\ applied = [o \in Ops |-> 0]
  /\ late = [o \in Ops |-> 0]
  /\ faults = 0 /\ kills = 0 /\ starts = 0
  /\ filed = {}
  /\ settled = {}
  /\ failed = [o \in Ops |-> 0]
  /\ unknown = [o \in Ops |-> 0]

-----------------------------------------------------------------------------
(***************************************************************************)
(* The host, and the faults of a request.                                  *)
(***************************************************************************)

\* The host applies a request of o; it rejects the poisoned operations.
HostApplies(o) ==
  /\ o \notin Poison
  /\ applied' = [applied EXCEPT ![o] = @ + 1]

Fault == faults < MaxFaults /\ faults' = faults + 1

\* A poisoned operation is refused for good; any other refusal is a fault.
Refusal(o) ==
  \/ o \in Poison /\ UNCHANGED faults
  \/ o \notin Poison /\ Fault

\* A request nobody waits for any more is applied after all, or is lost.
LateRequest(o) ==
  /\ late[o] > 0
  /\ late' = [late EXCEPT ![o] = @ - 1]
  /\ HostApplies(o) \/ UNCHANGED applied
  /\ UNCHANGED <<procVars, carrier, diskVars, budgets, history>>

-----------------------------------------------------------------------------
(***************************************************************************)
(* The direct path: core/telemetry_queue.rs and the queue_or_* functions   *)
(* of server_client.rs.                                                    *)
(***************************************************************************)

\* sync_outbox::enqueue: a new file, complete from the moment it is visible.
WriteEntry(o) ==
  /\ outbox' = outbox \union {o}
  /\ attempts' = [attempts EXCEPT ![o] = 0]
  /\ created' = [created EXCEPT ![o] = clock]
  /\ clock' = clock + 1
  /\ filed' = filed \union {o}
  /\ UNCHANGED <<settled, failed, unknown>>

Moves(o, from, to) ==
  /\ carrier[o] = from
  /\ carrier' = [carrier EXCEPT ![o] = to]

\* enqueue in the MCP server: the event waits in the unbounded channel.
EnqueueOnChannel(o) ==
  /\ o \in ChanOps /\ mcp # "off"
  /\ Moves(o, "new", "chan")
  /\ UNCHANGED <<procVars, diskVars, hostVars, budgets, history>>

\* enqueue in a process that never called start_drain_task.
EnqueueWithoutDrainTask(o) ==
  /\ o \in ChanOps
  /\ Moves(o, "new", "done")
  /\ WriteEntry(o)
  /\ UNCHANGED <<procVars, hostVars, budgets>>

\* The drain task, once its startup drain is over, gives the event a worker.
ReceiveFromChannel(o) ==
  /\ mcp = "serving"
  /\ Moves(o, "chan", "post")
  /\ UNCHANGED <<procVars, diskVars, hostVars, budgets, history>>

\* fire_sync: a detached thread sends the event.
FireSync(o) ==
  /\ o \in HookOps
  /\ Moves(o, "new", "post")
  /\ UNCHANGED <<procVars, diskVars, hostVars, budgets, history>>

\* queue_or_call_tool, queue_or_sync_index: the caller tries the host first.
CallDirectly(o) ==
  /\ o \in CallOps
  /\ Moves(o, "new", "post")
  /\ UNCHANGED <<procVars, diskVars, hostVars, budgets, history>>

CarrierApplied(o) ==
  /\ Moves(o, "post", "answered")
  /\ HostApplies(o)
  /\ UNCHANGED <<procVars, diskVars, late, budgets, history>>

CarrierDone(o) ==
  /\ Moves(o, "answered", "done")
  /\ UNCHANGED <<procVars, diskVars, hostVars, budgets, history>>

\* Mutant: a refused request is logged and forgotten.
MutCarrierRefusedForgets(o) ==
  /\ Moves(o, "post", "done")
  /\ Refusal(o)
  /\ UNCHANGED <<procVars, diskVars, hostVars, kills, starts, history>>

\* No connection configured, connection refused, or an error answer.
CarrierRefused(o) ==
  /\ Moves(o, "post", "persist")
  /\ Refusal(o)
  /\ UNCHANGED <<procVars, diskVars, hostVars, kills, starts, history>>

\* The agent's timeout passes; the request may have worked or may still.
CarrierTimesOut(o) ==
  /\ Fault
  /\ \/ /\ Moves(o, "post", "persist")
        /\ late' = [late EXCEPT ![o] = @ + 1]
     \/ /\ Moves(o, "answered", "persist")
        /\ UNCHANGED late
  /\ unknown' = [unknown EXCEPT ![o] = @ + 1]
  /\ UNCHANGED <<procVars, diskVars, applied, kills, starts, filed, settled, failed>>

CarrierPersists(o) ==
  /\ Moves(o, "persist", "done")
  /\ WriteEntry(o)
  /\ UNCHANGED <<procVars, hostVars, budgets>>

\* The requests of the carriers in S that die before the host saw them.
Orphaned(S) == [o \in Ops |-> IF o \in S /\ carrier[o] = "post" THEN late[o] + 1 ELSE late[o]]
InMemory(o) == carrier[o] \in {"chan", "post", "answered", "persist"}

\* fire_sync waits 300 ms at most; then the hook exits under its thread.
HookExits(o) ==
  /\ o \in HookOps /\ InMemory(o)
  /\ carrier' = [carrier EXCEPT ![o] = "killed"]
  /\ late' = Orphaned({o})
  /\ UNCHANGED <<procVars, diskVars, applied, budgets, history>>

KillCaller(o) ==
  /\ o \in CallOps /\ InMemory(o)
  /\ kills < MaxKills /\ kills' = kills + 1
  /\ carrier' = [carrier EXCEPT ![o] = "killed"]
  /\ late' = Orphaned({o})
  /\ UNCHANGED <<procVars, diskVars, applied, faults, starts, history>>

-----------------------------------------------------------------------------
(***************************************************************************)
(* drain_persisted, in the MCP server's startup task or in flush_pending.  *)
(***************************************************************************)

\* read_dir of the outbox.
List(d) ==
  /\ drainer[d] = "idle"
  /\ drainer' = [drainer EXCEPT ![d] = "listed"]
  /\ todo' = [todo EXCEPT ![d] = outbox]

StartFlush(d) ==
  /\ d # McpDrain
  /\ List(d)
  /\ UNCHANGED <<mcp, current, seen, carrier, diskVars, hostVars, budgets, history>>

\* start_drain_task: the channel exists before the startup drain runs.
StartMcp ==
  /\ mcp = "off"
  /\ starts < MaxStarts /\ starts' = starts + 1
  /\ mcp' = "starting"
  /\ List(McpDrain)
  /\ UNCHANGED <<current, seen, carrier, diskVars, hostVars, faults, kills, history>>

\* Back to idle; the MCP server's task goes on to read its channel.
Finish(d) ==
  /\ drainer' = [drainer EXCEPT ![d] = "idle"]
  /\ current' = [current EXCEPT ![d] = NoOp]
  /\ todo' = [todo EXCEPT ![d] = {}]
  /\ seen' = [seen EXCEPT ![d] = [o \in Ops |-> 0]]
  /\ mcp' = IF d = McpDrain /\ mcp = "starting" THEN "serving" ELSE mcp

\* load_entries fails as a whole when one listed file is gone by now.
LoadFails(d) ==
  /\ drainer[d] = "listed"
  /\ ~ (todo[d] \subseteq outbox)
  /\ Finish(d)
  /\ UNCHANGED <<carrier, diskVars, hostVars, budgets, history>>

\* Mutant: the attempt is counted when the entry is loaded as well.
MutLoadCountsAttempt(d) ==
  /\ drainer[d] = "listed"
  /\ todo[d] \subseteq outbox
  /\ drainer' = [drainer EXCEPT ![d] = "loop"]
  /\ seen' = [seen EXCEPT ![d] =
               [o \in Ops |-> IF o \in todo[d] THEN Saturating(attempts[o]) ELSE 0]]
  /\ UNCHANGED <<mcp, current, todo, carrier, diskVars, hostVars, budgets, history>>

LoadEntries(d) ==
  /\ drainer[d] = "listed"
  /\ todo[d] \subseteq outbox
  /\ drainer' = [drainer EXCEPT ![d] = "loop"]
  /\ seen' = [seen EXCEPT ![d] = [o \in Ops |-> IF o \in todo[d] THEN attempts[o] ELSE 0]]
  /\ UNCHANGED <<mcp, current, todo, carrier, diskVars, hostVars, budgets, history>>

Oldest(d, o) ==
  /\ o \in todo[d]
  /\ \A p \in todo[d] : created[o] <= created[p]

\* The next entry of the loaded list goes to the host.
Replay(d, o) ==
  /\ drainer[d] = "loop"
  /\ Oldest(d, o)
  /\ drainer' = [drainer EXCEPT ![d] = "sent"]
  /\ current' = [current EXCEPT ![d] = o]
  /\ UNCHANGED <<mcp, todo, seen, carrier, diskVars, hostVars, budgets, history>>

ReplayApplied(d) ==
  /\ drainer[d] = "sent"
  /\ drainer' = [drainer EXCEPT ![d] = "answered"]
  /\ HostApplies(current[d])
  /\ UNCHANGED <<mcp, current, todo, seen, carrier, diskVars, late, budgets, history>>

ReplayRefused(d) ==
  /\ drainer[d] = "sent"
  /\ Refusal(current[d])
  /\ drainer' = [drainer EXCEPT ![d] = "failed"]
  /\ failed' = [failed EXCEPT ![current[d]] = Saturating(@)]
  /\ UNCHANGED <<mcp, current, todo, seen, carrier, diskVars, hostVars,
                 kills, starts, filed, settled, unknown>>

ReplayTimesOut(d) ==
  LET o == current[d] IN
  /\ drainer[d] \in {"sent", "answered"}
  /\ Fault
  /\ late' = IF drainer[d] = "sent" THEN [late EXCEPT ![o] = @ + 1] ELSE late
  /\ drainer' = [drainer EXCEPT ![d] = "failed"]
  /\ failed' = [failed EXCEPT ![o] = Saturating(@)]
  /\ unknown' = [unknown EXCEPT ![o] = @ + 1]
  /\ UNCHANGED <<mcp, current, todo, seen, carrier, diskVars, applied,
                 kills, starts, filed, settled>>

\* Mutant: the pass does not advance past the entry it has handled.
MutNextEntryStays(d) ==
  /\ drainer' = [drainer EXCEPT ![d] = "loop"]
  /\ current' = [current EXCEPT ![d] = NoOp]
  /\ UNCHANGED <<mcp, todo, seen>>

\* The entry is done with, one way or the other; the pass goes on.
NextEntry(d) ==
  /\ drainer' = [drainer EXCEPT ![d] = "loop"]
  /\ current' = [current EXCEPT ![d] = NoOp]
  /\ todo' = [todo EXCEPT ![d] = @ \ {current[d]}]
  /\ UNCHANGED <<mcp, seen>>

\* Mutant: the entry is deleted whatever the host answered.
MutDeleteAnyAnswer(d) ==
  /\ drainer[d] \in {"answered", "failed"}
  /\ outbox' = outbox \ {current[d]}
  /\ settled' = settled \union {current[d]}
  /\ NextEntry(d)
  /\ UNCHANGED <<attempts, created, clock, carrier, hostVars, budgets,
                 filed, failed, unknown>>

\* Mutant: a replayed entry is left in the outbox.
MutDeleteLeavesFile(d) ==
  /\ drainer[d] = "answered"
  /\ NextEntry(d)
  /\ UNCHANGED <<diskVars, carrier, hostVars, budgets, history>>

\* sync_outbox::delete, which does not mind a file that is gone already.
DeleteEntry(d) ==
  /\ drainer[d] = "answered"
  /\ outbox' = outbox \ {current[d]}
  /\ settled' = settled \union {current[d]}
  /\ NextEntry(d)
  /\ UNCHANGED <<attempts, created, clock, carrier, hostVars, budgets,
                 filed, failed, unknown>>

\* Mutant: the pass ends at the first entry that fails.
MutSaveFailedEndsPass(d) ==
  LET o == current[d] IN
  /\ outbox' = outbox \union {o}
  /\ attempts' = [attempts EXCEPT ![o] = Saturating(seen[d][o])]
  /\ drainer' = [drainer EXCEPT ![d] = "loop"]
  /\ current' = [current EXCEPT ![d] = NoOp]
  /\ todo' = [todo EXCEPT ![d] = {}]
  /\ UNCHANGED <<mcp, seen, created, clock, carrier, hostVars, budgets, history>>

\* Mutant: an entry is given up after AttemptsLimit failed replays.
MutSaveFailedGivesUp(d) ==
  LET o == current[d] IN
  /\ outbox' = IF Saturating(seen[d][o]) = AttemptsLimit THEN outbox \ {o}
               ELSE outbox \union {o}
  /\ attempts' = [attempts EXCEPT ![o] = Saturating(seen[d][o])]
  /\ NextEntry(d)
  /\ UNCHANGED <<created, clock, carrier, hostVars, budgets, history>>

\* save_entry of the loaded entry with one more attempt: the file is put
\* back even if it was deleted since it was loaded.
SaveFailed(d) ==
  LET o == current[d] IN
  /\ outbox' = outbox \union {o}
  /\ attempts' = [attempts EXCEPT ![o] = Saturating(seen[d][o])]
  /\ NextEntry(d)
  /\ UNCHANGED <<created, clock, carrier, hostVars, budgets, history>>

MarkFailed(d) ==
  /\ drainer[d] = "failed"
  /\ RenameReplaces \/ current[d] \notin outbox
  /\ SaveFailed(d)

\* write_atomic on Windows removes the target before it renames.
UnlinkTarget(d) ==
  /\ drainer[d] = "failed"
  /\ ~ RenameReplaces /\ current[d] \in outbox
  /\ outbox' = outbox \ {current[d]}
  /\ drainer' = [drainer EXCEPT ![d] = "unlinked"]
  /\ UNCHANGED <<mcp, current, todo, seen, carrier, attempts, created, clock,
                 hostVars, budgets, history>>

RenameTemp(d) ==
  /\ drainer[d] = "unlinked"
  /\ SaveFailed(d)

EndPass(d) ==
  /\ drainer[d] = "loop"
  /\ todo[d] = {}
  /\ Finish(d)
  /\ UNCHANGED <<carrier, diskVars, hostVars, budgets, history>>

-----------------------------------------------------------------------------
(***************************************************************************)
(* Processes that end.                                                     *)
(***************************************************************************)

\* What the host and the counters see when drainer d dies.
DrainerDies(d) ==
  LET o == current[d] IN
  /\ unknown' = IF drainer[d] \in {"sent", "answered"}
                  THEN [unknown EXCEPT ![o] = @ + 1] ELSE unknown
  /\ drainer' = [drainer EXCEPT ![d] = "idle"]
  /\ current' = [current EXCEPT ![d] = NoOp]
  /\ todo' = [todo EXCEPT ![d] = {}]
  /\ seen' = [seen EXCEPT ![d] = [p \in Ops |-> 0]]
  /\ UNCHANGED <<filed, settled, failed>>

KillDrainer(d) ==
  /\ d # McpDrain /\ drainer[d] # "idle"
  /\ kills < MaxKills /\ kills' = kills + 1
  /\ DrainerDies(d)
  /\ late' = IF drainer[d] = "sent" THEN [late EXCEPT ![current[d]] = @ + 1] ELSE late
  /\ UNCHANGED <<mcp, carrier, diskVars, applied, faults, starts>>

\* The client closes stdin: main returns, the runtime is dropped.  Running
\* workers and a running startup drain finish; the channel's content is gone.
McpExits ==
  /\ mcp # "off"
  /\ mcp' = "off"
  /\ carrier' = [o \in Ops |-> IF carrier[o] = "chan" THEN "killed" ELSE carrier[o]]
  /\ UNCHANGED <<drainer, current, todo, seen, diskVars, hostVars, budgets, history>>

KillMcp ==
  LET mine == {o \in ChanOps : InMemory(o)}
      d    == McpDrain
  IN
  /\ mcp # "off" \/ drainer[d] # "idle" \/ mine # {}
  /\ kills < MaxKills /\ kills' = kills + 1
  /\ mcp' = "off"
  /\ carrier' = [o \in Ops |-> IF o \in mine THEN "killed" ELSE carrier[o]]
  /\ DrainerDies(d)
  /\ late' = [o \in Ops |-> Orphaned(mine)[o] +
                              (IF drainer[d] = "sent" /\ current[d] = o THEN 1 ELSE 0)]
  /\ UNCHANGED <<diskVars, applied, faults, starts>>

-----------------------------------------------------------------------------
CarrierProgress(o) ==
  \/ ReceiveFromChannel(o) \/ CarrierApplied(o) \/ CarrierDone(o)
  \/ (o \in Poison /\ CarrierRefused(o)) \/ CarrierPersists(o)

CarrierStep(o) ==
  \/ EnqueueOnChannel(o) \/ EnqueueWithoutDrainTask(o) \/ FireSync(o) \/ CallDirectly(o)
  \/ ReceiveFromChannel(o) \/ CarrierApplied(o) \/ CarrierDone(o)
  \/ CarrierRefused(o) \/ CarrierTimesOut(o) \/ CarrierPersists(o)
  \/ HookExits(o) \/ KillCaller(o)

DrainerProgress(d) ==
  \/ LoadFails(d) \/ LoadEntries(d)
  \/ \E o \in Ops : Replay(d, o)
  \/ ReplayApplied(d) \/ (current[d] \in Poison /\ ReplayRefused(d))
  \/ DeleteEntry(d) \/ MarkFailed(d) \/ UnlinkTarget(d) \/ RenameTemp(d)
  \/ EndPass(d)

DrainerStep(d) ==
  \/ StartFlush(d)
  \/ LoadFails(d) \/ LoadEntries(d)
  \/ \E o \in Ops : Replay(d, o)
  \/ ReplayApplied(d) \/ ReplayRefused(d) \/ ReplayTimesOut(d)
  \/ DeleteEntry(d) \/ MarkFailed(d) \/ UnlinkTarget(d) \/ RenameTemp(d)
  \/ EndPass(d) \/ KillDrainer(d)

Next ==
  \/ \E o \in Ops : CarrierStep(o) \/ LateRequest(o)
  \/ \E d \in Drainers : DrainerStep(d)
  \/ StartMcp \/ McpExits \/ KillMcp

Spec == Init /\ [][Next]_vars

(***************************************************************************)
(* A process that runs goes on, the host answers, and hooks keep draining  *)
(* the outbox: hook_handlers.rs does so at every stop, idle flush and      *)
(* compaction of an agent.                                                 *)
(***************************************************************************)
Fairness ==
  /\ \A o \in Ops : WF_vars(CarrierProgress(o))
  /\ \A d \in Drainers : WF_vars(DrainerProgress(d)) /\ WF_vars(StartFlush(d))

FairSpec == Spec /\ Fairness

-----------------------------------------------------------------------------
(***************************************************************************)
(* Properties.                                                             *)
(***************************************************************************)

\* Operations on the client's disk: entry files, and the temporary files that
\* are about to be renamed to one.
OnDisk == outbox \union {current[d] : d \in {e \in Drainers : drainer[e] = "unlinked"}}

\* An operation that was ever on disk still is, or the host has applied it: no
\* order of drains, deletes, late rewrites and kills loses it.
NoDurableLoss == \A o \in filed : o \in OnDisk \/ applied[o] > 0

\* When queue_or_call_tool, a worker or the hook's thread is through with an
\* operation, the host has applied it or the outbox has recorded it.
DoneMeansSafe ==
  \A o \in Ops : carrier[o] = "done" => applied[o] > 0 \/ o \in filed

\* The attempts field may miss failures of concurrent drains, but it never
\* claims a failed replay that did not happen.
AttemptsNeverOvercount == \A o \in Ops : attempts[o] <= failed[o]

\* An entry deleted after a successful replay does not come back.
SettledStaysOut == settled \intersect outbox = {}

\* The host sees an operation twice only if somebody gave up on, or died
\* before handling, an answer to one of its requests.
DuplicatesOnlyAfterUnknown == \A o \in Ops : applied[o] <= 1 + unknown[o]

\* A telemetry event of a hook is sent or queued, never dropped.
HookEventNotDropped ==
  \A o \in HookOps :
    carrier[o] = "killed" => o \in outbox \/ applied[o] > 0 \/ late[o] > 0

\* Once faults stop, drains empty the outbox of everything the host accepts,
\* whatever it rejects and however old the rejected entries are.
OutboxEmpties == <>[](outbox \subseteq Poison)

\* The outbox implements durable, at-least-once delivery.
Durable == INSTANCE DurableDelivery WITH
  Operations <- Ops,
  Acceptable <- Ops \ Poison,
  owed       <- OnDisk,
  applied    <- {o \in Ops : applied[o] > 0}

ImplementsDurableDelivery == Durable!Spec
=============================================================================
