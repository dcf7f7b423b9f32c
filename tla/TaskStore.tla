----------------------------- MODULE TaskStore -----------------------------
(***************************************************************************)
(* The tasks agents hand to each other, one JSON file for all of them.     *)
(*                                                                         *)
(* Every ctx_task call loads the file, drops old finished tasks, changes   *)
(* one task and saves: it opens one temporary file, the same for every     *)
(* process, writes it and renames it over the store.  Nothing is locked,   *)
(* the result of the save is ignored, and a file that does not parse loads *)
(* as an empty store.                                                      *)
(***************************************************************************)
EXTENDS Naturals, Sequences

CONSTANTS
  TaskIds,
  TaskProcs,   \* processes that call ctx_task
  Agents,
  AgentOf,     \* [TaskProcs -> Agents]: the agent each process acts for
  MaxTaskOps   \* bound: calls over all

ASSUME TaskAssumption == AgentOf \in [TaskProcs -> Agents] /\ MaxTaskOps \in Nat

TaskStates == {"created", "working", "input_required", "completed", "failed", "canceled"}
Terminal == {"completed", "failed", "canceled"}

\* can_transition_to
Transitions ==
  ({"created"} \X {"working", "canceled", "failed"}) \union
  ({"working"} \X {"input_required", "completed", "failed", "canceled"}) \union
  ({"input_required"} \X {"working", "canceled", "failed"})

Task == [from : Agents, to : Agents, state : TaskStates, history : Seq(TaskStates)]
IsStore(s) == DOMAIN s \subseteq TaskIds /\ s \in [DOMAIN s -> Task]
NoTasks == [t \in {} |-> 0]

VARIABLES
  taskFile,   \* the store on disk, see TempFile
  taskTemp,   \* the temporary file
  tempThere,  \* whether it exists
  taskProc,   \* the control state of each process
  taskCopy,   \* the store each process is to save
  handle,     \* where its open file is by now
  taskOps,
  reported,   \* history: the store as the last call to end believes it to be
  overtaken   \* history: whether two calls overlapped

taskVars == <<taskFile, taskTemp, tempThere, taskProc, taskCopy, handle, taskOps,
              reported, overtaken>>

Store == INSTANCE TempFile WITH Users <- TaskProcs, Nothing <- NoTasks,
                                file <- taskFile, temp <- taskTemp, there <- tempThere

storeVars == <<taskFile, taskTemp, tempThere, handle>>

TaskInit ==
  /\ taskFile = Store!Whole(NoTasks) /\ taskTemp = Store!Torn /\ tempThere = FALSE
  /\ taskProc = [p \in TaskProcs |-> "idle"]
  /\ taskCopy = [p \in TaskProcs |-> NoTasks]
  /\ handle = Store!NoHandles
  /\ taskOps = 0 /\ reported = NoTasks /\ overtaken = FALSE

\* What each kind of call makes of the tasks, for the agent a.
NewTask(a, b) == [from |-> a, to |-> b, state |-> "created", history |-> <<"created">>]

Added(tasks, t, task) ==
  [x \in DOMAIN tasks \union {t} |-> IF x = t THEN task ELSE tasks[x]]

Created(tasks, a) ==
  {Added(tasks, t, NewTask(a, b)) : t \in TaskIds \ DOMAIN tasks, b \in Agents}

\* Mutant: a task of any state may be moved on.
MutMoved(task, s) ==
  [task EXCEPT !.state = s, !.history = Append(task.history, s)]

\* transition: a step the state machine does not have changes nothing.
Moved(task, s) ==
  IF <<task.state, s>> \in Transitions
  THEN [task EXCEPT !.state = s, !.history = Append(task.history, s)]
  ELSE task

Updated(tasks, a) ==
  {[tasks EXCEPT ![t] = Moved(tasks[t], s)] :
     t \in {u \in DOMAIN tasks : a \in {tasks[u].from, tasks[u].to}}, s \in TaskStates}

Canceled(tasks, a) ==
  {[tasks EXCEPT ![t] = Moved(tasks[t], "canceled")] :
     t \in {u \in DOMAIN tasks : a = tasks[u].from}}

\* cleanup_old: of the tasks that ended, those that are old by now are dropped.
Cleaned(tasks) ==
  {[t \in DOMAIN tasks \ old |-> tasks[t]] :
     old \in SUBSET {t \in DOMAIN tasks : tasks[t].state \in Terminal}}

\* A call that is refused, or that adds a message only, saves the cleaned store.
Results(tasks, a) ==
  UNION {{kept} \union Created(kept, a) \union Updated(kept, a) \union Canceled(kept, a) :
           kept \in Cleaned(tasks)}

LoadTasks(p) ==
  /\ taskProc[p] = "idle" /\ taskOps < MaxTaskOps
  /\ taskOps' = taskOps + 1
  /\ \E result \in Results(taskFile.data, AgentOf[p]) :
       taskCopy' = [taskCopy EXCEPT ![p] = result]
  /\ taskProc' = [taskProc EXCEPT ![p] = "loaded"]
  /\ overtaken' = (overtaken \/ \E q \in TaskProcs : taskProc[q] # "idle")
  /\ UNCHANGED <<storeVars, reported>>

TaskGoes(p, s) == taskProc' = [taskProc EXCEPT ![p] = s]

OpenTemp(p) ==
  /\ taskProc[p] = "loaded" /\ Store!OpensTemp(p)
  /\ TaskGoes(p, "open")
  /\ UNCHANGED <<taskCopy, taskOps, reported, overtaken>>

WriteTemp(p) ==
  /\ taskProc[p] = "open" /\ Store!WritesTemp(p, taskCopy[p])
  /\ TaskGoes(p, "written")
  /\ UNCHANGED <<taskCopy, taskOps, reported, overtaken>>

Ends(p) ==
  /\ TaskGoes(p, "idle")
  /\ taskCopy' = [taskCopy EXCEPT ![p] = NoTasks]

\* When the rename fails the call succeeds all the same.
RenameTemp(p) ==
  /\ taskProc[p] = "written"
  /\ Store!RenamesTemp \/ Store!RenameFails
  /\ reported' = taskCopy[p]
  /\ Ends(p)
  /\ UNCHANGED <<taskOps, overtaken>>

\* Mutant: the store is written in place.
MutKillTaskProc(p) ==
  /\ taskProc[p] # "idle"
  /\ taskFile' = IF taskProc[p] = "open" THEN Store!Torn ELSE taskFile
  /\ handle' = [handle EXCEPT ![p] = "none"]
  /\ Ends(p)
  /\ UNCHANGED <<taskTemp, tempThere, taskOps, reported, overtaken>>

KillTaskProc(p) ==
  /\ taskProc[p] # "idle" /\ Store!Closes(p)
  /\ Ends(p)
  /\ UNCHANGED <<taskOps, reported, overtaken>>

TaskStep(p) ==
  LoadTasks(p) \/ OpenTemp(p) \/ WriteTemp(p) \/ RenameTemp(p) \/ KillTaskProc(p)

TaskNext == \E p \in TaskProcs : TaskStep(p)

TaskSpec == TaskInit /\ [][TaskNext]_taskVars

(***************************************************************************)
(* Properties.                                                             *)
(***************************************************************************)

IsTaskFile(f) ==
  f = [whole |-> f.whole, data |-> f.data] /\ f.whole \in BOOLEAN /\ IsStore(f.data)

TaskTypeOK ==
  /\ IsTaskFile(taskFile) /\ IsTaskFile(taskTemp) /\ tempThere \in BOOLEAN
  /\ taskProc \in [TaskProcs -> {"idle", "loaded", "open", "written"}]
  /\ DOMAIN taskCopy = TaskProcs /\ \A p \in TaskProcs : IsStore(taskCopy[p])
  /\ handle \in Store!Handles
  /\ taskOps \in 0..MaxTaskOps /\ IsStore(reported) /\ overtaken \in BOOLEAN

LegalHistory(task) ==
  /\ task.history # <<>> /\ task.history[1] = "created"
  /\ task.state = task.history[Len(task.history)]
  /\ \A i \in 1..Len(task.history) - 1 :
       <<task.history[i], task.history[i + 1]>> \in Transitions

Legal(tasks) == \A t \in DOMAIN tasks : LegalHistory(tasks[t])

\* However calls overlap and wherever one is killed, every task on disk has a
\* history that can_transition_to allows, and its state is where that ends.
TasksAreLegal == Legal(taskFile.data)

\* While calls do not overlap, the store is whole and is what the last call to end
\* has reported, whichever processes were killed in between (TaskStore::save).
ReportedIsStored == ~overtaken => taskFile = Store!Whole(reported)
=============================================================================
