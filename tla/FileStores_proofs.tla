------------------------- MODULE FileStores_proofs -------------------------
(***************************************************************************)
(* Proofs about three stores that several processes load, change and save  *)
(* as a file: TaskStore, WorkflowRun and AgentRegistry, each for any       *)
(* number of processes and entries.  Each part uses one module only.       *)
(***************************************************************************)
EXTENDS TaskStore, WorkflowRun, AgentRegistry, SequenceTheorems, TLAPS

-----------------------------------------------------------------------------
(***************************************************************************)
(* TaskStore: tasks, and what calls make of a store of them.               *)
(***************************************************************************)

Good(tasks) == IsStore(tasks) /\ Legal(tasks)

LEMMA NoTasksIsGood == Good(NoTasks)
BY DEF Good, NoTasks, IsStore, Legal

LEMMA NewTaskIsLegal ==
  ASSUME NEW a \in Agents, NEW b \in Agents
  PROVE  NewTask(a, b) \in Task /\ LegalHistory(NewTask(a, b))
<1>1. /\ <<"created">> \in Seq(TaskStates) /\ <<"created">> # << >>
      /\ Len(<<"created">>) = 1 /\ <<"created">>[1] = "created"
  BY DEF TaskStates
<1>2. "created" \in TaskStates
  BY DEF TaskStates
<1> QED
  BY <1>1, <1>2 DEF NewTask, Task, LegalHistory

\* A move that the state machine has extends a legal history by its new state.
LEMMA MovedIsLegal ==
  ASSUME NEW task \in Task, NEW s \in TaskStates, LegalHistory(task)
  PROVE  Moved(task, s) \in Task /\ LegalHistory(Moved(task, s))
<1>1. CASE <<task.state, s>> \notin Transitions
  BY <1>1 DEF Moved
<1>2. CASE <<task.state, s>> \in Transitions
  <2> DEFINE next == Moved(task, s)
             h == task.history
  <2>1. next = [task EXCEPT !.state = s, !.history = Append(h, s)]
    BY <1>2 DEF Moved
  <2>2. /\ h \in Seq(TaskStates) /\ h # << >> /\ Len(h) \in Nat \ {0}
        /\ task = [from |-> task.from, to |-> task.to, state |-> task.state, history |-> h]
    BY DEF Task, LegalHistory
  <2>3. /\ Append(h, s) \in Seq(TaskStates) /\ Len(Append(h, s)) = Len(h) + 1
        /\ Append(h, s)[Len(h) + 1] = s
        /\ \A i \in 1..Len(h) : Append(h, s)[i] = h[i]
    BY <2>2
  <2>4. next \in Task /\ next.state = s /\ next.history = Append(h, s)
    BY <2>1, <2>3 DEF Task
  <2> HIDE DEF next, h
  <2>5. next.history # << >> /\ next.history[1] = "created"
        /\ next.state = next.history[Len(next.history)]
    BY <2>2, <2>3, <2>4 DEF LegalHistory, h
  <2>6. ASSUME NEW i \in 1..Len(next.history) - 1
        PROVE  <<next.history[i], next.history[i + 1]>> \in Transitions
    <3>1. i \in 1..Len(h)
      BY <2>2, <2>3, <2>4
    <3>2. CASE i = Len(h)
      <4>1. task.state = h[Len(h)]
        BY DEF LegalHistory, h
      <4> QED
        BY <1>2, <2>2, <2>3, <2>4, <3>1, <3>2, <4>1
    <3>3. CASE i \in 1..Len(h) - 1
      <4>1. next.history[i] = h[i] /\ next.history[i + 1] = h[i + 1]
        BY <2>2, <2>3, <2>4, <3>3
      <4> QED
        BY <3>3, <4>1 DEF LegalHistory, h
    <3> QED
      BY <2>2, <3>1, <3>2, <3>3
  <2> QED
    BY <2>4, <2>5, <2>6 DEF LegalHistory, next
<1> QED
  BY <1>1, <1>2

LEMMA CleanedIsGood ==
  ASSUME NEW tasks, Good(tasks), NEW kept \in Cleaned(tasks)
  PROVE  Good(kept)
<1>1. PICK old \in SUBSET {t \in DOMAIN tasks : tasks[t].state \in Terminal} :
        kept = [t \in DOMAIN tasks \ old |-> tasks[t]]
  BY DEF Cleaned
<1> QED
  BY <1>1 DEF Good, IsStore, Legal

LEMMA CreatedIsGood ==
  ASSUME NEW tasks, Good(tasks), NEW a \in Agents, NEW result \in Created(tasks, a)
  PROVE  Good(result)
<1>1. PICK t \in TaskIds \ DOMAIN tasks, b \in Agents : result = Added(tasks, t, NewTask(a, b))
  BY DEF Created
<1>2. NewTask(a, b) \in Task /\ LegalHistory(NewTask(a, b))
  BY NewTaskIsLegal
<1> QED
  BY <1>1, <1>2 DEF Added, Good, IsStore, Legal

LEMMA MovesAreGood ==
  ASSUME NEW tasks, Good(tasks), NEW t \in DOMAIN tasks, NEW s \in TaskStates
  PROVE  Good([tasks EXCEPT ![t] = Moved(tasks[t], s)])
<1>1. tasks[t] \in Task /\ LegalHistory(tasks[t])
  BY DEF Good, IsStore, Legal
<1>2. Moved(tasks[t], s) \in Task /\ LegalHistory(Moved(tasks[t], s))
  BY <1>1, MovedIsLegal
<1> QED
  BY <1>2 DEF Good, IsStore, Legal

LEMMA ResultsAreGood ==
  ASSUME NEW tasks, Good(tasks), NEW a \in Agents, NEW result \in Results(tasks, a)
  PROVE  Good(result)
<1>1. PICK kept \in Cleaned(tasks) :
        result \in {kept} \union Created(kept, a) \union Updated(kept, a) \union Canceled(kept, a)
  BY DEF Results
<1>2. Good(kept)
  BY CleanedIsGood
<1>3. CASE result \in Updated(kept, a) \union Canceled(kept, a)
  <2>1. PICK t \in DOMAIN kept, s \in TaskStates : result = [kept EXCEPT ![t] = Moved(kept[t], s)]
    BY <1>3 DEF Updated, Canceled, TaskStates
  <2> QED
    BY <1>2, <2>1, MovesAreGood
<1> QED
  BY <1>1, <1>2, <1>3, CreatedIsGood

-----------------------------------------------------------------------------
(***************************************************************************)
(* The invariant: every store anywhere is good, in the file, beside it, in *)
(* a process and in what was reported.                                     *)
(***************************************************************************)

GoodFile(f) == IsTaskFile(f) /\ Good(f.data)

TaskInv ==
  /\ TaskTypeOK
  /\ GoodFile(taskFile) /\ GoodFile(taskTemp)
  /\ \A p \in TaskProcs : Good(taskCopy[p])

LEMMA StoreFilesAreGood ==
  ASSUME NEW tasks, Good(tasks)
  PROVE  GoodFile(Store!Whole(tasks)) /\ GoodFile(Store!Torn)
<1>1. Good(NoTasks)
  BY NoTasksIsGood
<1> QED
  BY <1>1 DEF GoodFile, IsTaskFile, Good, Store!Whole, Store!Torn

LEMMA TaskInvInit == TaskInit => TaskInv
<1> SUFFICES ASSUME TaskInit PROVE TaskInv
  OBVIOUS
<1>1. Good(NoTasks) /\ IsStore(NoTasks)
  BY NoTasksIsGood DEF Good
<1>2. GoodFile(taskFile) /\ GoodFile(taskTemp)
  BY <1>1, StoreFilesAreGood DEF TaskInit
<1>3. DOMAIN taskCopy = TaskProcs /\ \A p \in TaskProcs : taskCopy[p] = NoTasks
  BY DEF TaskInit
<1>4. handle \in Store!Handles
  BY DEF TaskInit, Store!NoHandles, Store!Handles
<1>5. /\ taskProc \in [TaskProcs -> {"idle", "loaded", "open", "written"}]
      /\ taskOps = 0 /\ reported = NoTasks /\ overtaken = FALSE /\ tempThere = FALSE
  BY DEF TaskInit
<1>6. 0 \in 0..MaxTaskOps
  BY TaskAssumption
<1> QED
  BY <1>1, <1>2, <1>3, <1>4, <1>5, <1>6 DEF TaskInv, TaskTypeOK, GoodFile

LEMMA TaskLoads == ASSUME TaskInv, NEW p \in TaskProcs, LoadTasks(p) PROVE TaskInv'
<1>1. AgentOf[p] \in Agents /\ Good(taskFile.data)
  BY TaskAssumption DEF TaskInv, GoodFile
<1>2. PICK result \in Results(taskFile.data, AgentOf[p]) : taskCopy' = [taskCopy EXCEPT ![p] = result]
  BY DEF LoadTasks
<1>3. Good(result) /\ IsStore(result)
  BY <1>1, ResultsAreGood DEF Good
<1>4. DOMAIN taskCopy' = TaskProcs /\ \A q \in TaskProcs : Good(taskCopy'[q]) /\ IsStore(taskCopy'[q])
  BY <1>2, <1>3 DEF TaskInv, TaskTypeOK
<1>5. /\ taskProc' \in [TaskProcs -> {"idle", "loaded", "open", "written"}]
      /\ taskOps' \in 0..MaxTaskOps /\ overtaken' \in BOOLEAN
  BY TaskAssumption DEF LoadTasks, TaskInv, TaskTypeOK
<1> QED
  BY <1>4, <1>5 DEF LoadTasks, storeVars, TaskInv, TaskTypeOK

\* What the steps of a save leave.
LEMMA TaskSaves ==
  ASSUME TaskInv, NEW p \in TaskProcs,
         NEW step \in {"idle", "loaded", "open", "written"}, TaskGoes(p, step),
         taskCopy' \in {taskCopy, [taskCopy EXCEPT ![p] = NoTasks]},
         UNCHANGED <<taskOps, overtaken>>, reported' \in {reported, taskCopy[p]},
         GoodFile(taskFile'), GoodFile(taskTemp'), tempThere' \in BOOLEAN,
         handle' \in Store!Handles
  PROVE  TaskInv'
<1>1. Good(NoTasks) /\ IsStore(NoTasks)
  BY NoTasksIsGood DEF Good
<1>2. DOMAIN taskCopy' = TaskProcs /\ \A q \in TaskProcs : Good(taskCopy'[q]) /\ IsStore(taskCopy'[q])
  BY <1>1 DEF TaskInv, TaskTypeOK
<1>3. taskProc' \in [TaskProcs -> {"idle", "loaded", "open", "written"}] /\ IsStore(reported')
  BY DEF TaskGoes, TaskInv, TaskTypeOK
<1> QED
  BY <1>2, <1>3 DEF TaskInv, TaskTypeOK, GoodFile

LEMMA TempSteps ==
  ASSUME TaskInv, NEW p \in TaskProcs,
         OpenTemp(p) \/ WriteTemp(p) \/ RenameTemp(p) \/ KillTaskProc(p)
  PROVE  TaskInv'
<1>1. GoodFile(taskFile) /\ GoodFile(taskTemp) /\ Good(taskCopy[p]) /\ handle \in Store!Handles
      /\ tempThere \in BOOLEAN
  BY DEF TaskInv, TaskTypeOK
<1>2. GoodFile(Store!Torn) /\ GoodFile(Store!Whole(taskCopy[p]))
  BY <1>1, StoreFilesAreGood
<1>3. CASE OpenTemp(p)
  <2>1. /\ GoodFile(taskFile') /\ GoodFile(taskTemp') /\ tempThere' \in BOOLEAN
        /\ handle' \in Store!Handles
    BY <1>1, <1>2, <1>3 DEF OpenTemp, Store!OpensTemp, Store!Handles
  <2> QED
    BY <1>3, <2>1, TaskSaves DEF OpenTemp
<1>4. CASE WriteTemp(p)
  <2>1. /\ GoodFile(taskFile') /\ GoodFile(taskTemp') /\ tempThere' \in BOOLEAN
        /\ handle' \in Store!Handles
    BY <1>1, <1>2, <1>4 DEF WriteTemp, Store!WritesTemp, Store!Written, Store!Handles
  <2> QED
    BY <1>4, <2>1, TaskSaves DEF WriteTemp
<1>5. CASE RenameTemp(p)
  <2>1. Store!Followed \in Store!Handles
    BY <1>1 DEF Store!Followed, Store!Handles
  <2>2. /\ GoodFile(taskFile') /\ GoodFile(taskTemp') /\ tempThere' \in BOOLEAN
        /\ handle' \in Store!Handles
    BY <1>1, <1>2, <1>5, <2>1 DEF RenameTemp, Store!RenamesTemp, Store!RenameFails
  <2> QED
    BY <1>5, <2>2, TaskSaves DEF RenameTemp, Ends
<1>6. CASE KillTaskProc(p)
  <2>1. /\ GoodFile(taskFile') /\ GoodFile(taskTemp') /\ tempThere' \in BOOLEAN
        /\ handle' \in Store!Handles
    BY <1>1, <1>6 DEF KillTaskProc, Store!Closes, Store!Handles
  <2> QED
    BY <1>6, <2>1, TaskSaves DEF KillTaskProc, Ends
<1> QED
  BY <1>3, <1>4, <1>5, <1>6

LEMMA TaskInvNext == TaskInv /\ [TaskNext]_taskVars => TaskInv'
<1>1. ASSUME TaskInv, UNCHANGED taskVars PROVE TaskInv'
  BY <1>1 DEF taskVars, TaskInv, TaskTypeOK, GoodFile, IsTaskFile, Good, Legal, LegalHistory,
              IsStore, Store!Handles
<1> QED
  BY <1>1, TaskLoads, TempSteps DEF TaskNext, TaskStep

\* The variables keep their types.
THEOREM TaskTypeCorrect == TaskSpec => []TaskTypeOK
<1>1. TaskInv => TaskTypeOK
  BY DEF TaskInv
<1> QED
  BY <1>1, TaskInvInit, TaskInvNext, PTL DEF TaskSpec

\* Every task on disk has a history that can_transition_to allows, however unlocked saves
\* interleave on the shared temporary file and wherever a process is killed.
THEOREM TasksStayLegal == TaskSpec => []TasksAreLegal
<1>1. TaskInv => TasksAreLegal
  BY DEF TaskInv, GoodFile, Good, TasksAreLegal
<1> QED
  BY <1>1, TaskInvInit, TaskInvNext, PTL DEF TaskSpec

-----------------------------------------------------------------------------
(***************************************************************************)
(* Calls one by one.  The call in progress is alone with the temporary     *)
(* file, and what it has written there is what it will report.             *)
(***************************************************************************)

Resting(p) == taskProc[p] = "idle"

OneByOne == \A p \in TaskProcs : \A q \in TaskProcs : Resting(p) \/ Resting(q) \/ p = q

HandleIs(p) ==
  /\ taskProc[p] # "open" => handle[p] = "none"
  /\ taskProc[p] = "open" => handle[p] = "temp" /\ taskTemp = Store!Torn /\ tempThere
  /\ taskProc[p] = "written" => taskTemp = Store!Whole(taskCopy[p]) /\ tempThere

AloneInv ==
  ~overtaken => /\ OneByOne
                /\ \A p \in TaskProcs : HandleIs(p)
                /\ taskFile = Store!Whole(reported)

\* A step that takes the call from one point of its save to the next.
LEMMA OneByOneStays ==
  ASSUME TaskTypeOK, NEW p \in TaskProcs, NEW step, TaskGoes(p, step),
         ~Resting(p) \/ \A q \in TaskProcs : Resting(q), OneByOne
  PROVE  /\ OneByOne'
         /\ taskProc'[p] = step
         /\ \A q \in TaskProcs : q # p => Resting(q) /\ taskProc'[q] = "idle"
BY DEF TaskTypeOK, TaskGoes, OneByOne, Resting

LEMMA AloneStep ==
  ASSUME TaskTypeOK, AloneInv, NEW p \in TaskProcs, TaskStep(p)
  PROVE  AloneInv'
<1> SUFFICES ASSUME ~overtaken'
             PROVE  OneByOne' /\ (\A q \in TaskProcs : HandleIs(q)') /\ taskFile' = Store!Whole(reported')
  BY DEF AloneInv
<1>1. ~overtaken
  BY DEF TaskStep, LoadTasks, OpenTemp, WriteTemp, RenameTemp, KillTaskProc
<1>2. OneByOne /\ (\A q \in TaskProcs : HandleIs(q)) /\ taskFile = Store!Whole(reported)
  BY <1>1 DEF AloneInv
<1>3. handle \in [TaskProcs -> {"none", "temp", "file", "lost"}] /\ DOMAIN taskCopy = TaskProcs
  BY DEF TaskTypeOK, Store!Handles
<1>4. CASE LoadTasks(p)
  <2>1. (\A q \in TaskProcs : Resting(q)) /\ TaskGoes(p, "loaded")
    BY <1>4 DEF LoadTasks, TaskGoes, Resting
  <2>2. /\ OneByOne' /\ taskProc'[p] = "loaded"
        /\ \A q \in TaskProcs : q # p => taskProc'[q] = "idle"
    BY <1>2, <2>1, OneByOneStays
  <2>3. UNCHANGED <<taskFile, taskTemp, tempThere, handle, reported>>
    BY <1>4 DEF LoadTasks, storeVars
  <2>4. \A q \in TaskProcs : handle[q] = "none"
    BY <1>2, <2>1 DEF HandleIs, Resting
  <2> QED
    BY <1>2, <2>2, <2>3, <2>4 DEF HandleIs
<1>5. CASE OpenTemp(p)
  <2>1. ~Resting(p) /\ TaskGoes(p, "open")
    BY <1>5 DEF OpenTemp, Resting
  <2>2. /\ OneByOne' /\ taskProc'[p] = "open"
        /\ \A q \in TaskProcs : q # p => Resting(q) /\ taskProc'[q] = "idle"
    BY <1>2, <2>1, OneByOneStays
  <2>3. /\ taskTemp' = Store!Torn /\ tempThere' = TRUE /\ handle' = [handle EXCEPT ![p] = "temp"]
        /\ UNCHANGED <<taskFile, reported>>
    BY <1>5 DEF OpenTemp, Store!OpensTemp
  <2> QED
    BY <1>2, <1>3, <2>2, <2>3 DEF HandleIs, Resting
<1>6. CASE WriteTemp(p)
  <2>1. ~Resting(p) /\ TaskGoes(p, "written") /\ taskProc[p] = "open"
    BY <1>6 DEF WriteTemp, Resting
  <2>2. /\ OneByOne' /\ taskProc'[p] = "written"
        /\ \A q \in TaskProcs : q # p => Resting(q) /\ taskProc'[q] = "idle"
    BY <1>2, <2>1, OneByOneStays
  <2>3. handle[p] = "temp" /\ taskTemp = Store!Torn /\ tempThere
    BY <1>2, <2>1 DEF HandleIs
  <2>4. /\ taskTemp' = Store!Whole(taskCopy[p]) /\ taskFile' = taskFile /\ tempThere' = tempThere
        /\ handle' = [handle EXCEPT ![p] = "none"] /\ UNCHANGED <<taskCopy, reported>>
    BY <1>6, <2>3 DEF WriteTemp, Store!WritesTemp, Store!Written, Store!Torn
  <2> QED
    BY <1>2, <1>3, <2>2, <2>3, <2>4 DEF HandleIs, Resting
<1>7. CASE RenameTemp(p)
  <2>1. ~Resting(p) /\ TaskGoes(p, "idle") /\ taskProc[p] = "written"
    BY <1>7 DEF RenameTemp, Ends, Resting
  <2>2. /\ OneByOne' /\ taskProc'[p] = "idle"
        /\ \A q \in TaskProcs : q # p => Resting(q) /\ taskProc'[q] = "idle"
    BY <1>2, <2>1, OneByOneStays
  <2>3. taskTemp = Store!Whole(taskCopy[p]) /\ tempThere
    BY <1>2, <2>1 DEF HandleIs
  <2>4. Store!RenamesTemp /\ reported' = taskCopy[p]
    BY <1>7, <2>3 DEF RenameTemp, Store!RenameFails
  <2>5. taskFile' = Store!Whole(reported') /\ handle' = Store!Followed
    BY <2>3, <2>4 DEF Store!RenamesTemp
  <2>6. \A q \in TaskProcs : handle[q] = "none"
    BY <1>2, <2>1, <2>2 DEF HandleIs, Resting
  <2>7. \A q \in TaskProcs : handle'[q] = "none" /\ taskProc'[q] = "idle"
    BY <2>2, <2>5, <2>6 DEF Store!Followed
  <2> QED
    BY <2>2, <2>5, <2>7 DEF HandleIs
<1>8. CASE KillTaskProc(p)
  <2>1. ~Resting(p) /\ TaskGoes(p, "idle")
    BY <1>8 DEF KillTaskProc, Ends, Resting
  <2>2. /\ OneByOne' /\ taskProc'[p] = "idle"
        /\ \A q \in TaskProcs : q # p => Resting(q) /\ taskProc'[q] = "idle"
    BY <1>2, <2>1, OneByOneStays
  <2>3. handle' = [handle EXCEPT ![p] = "none"] /\ UNCHANGED <<taskFile, reported>>
    BY <1>8 DEF KillTaskProc, Store!Closes
  <2> QED
    BY <1>2, <1>3, <2>2, <2>3 DEF HandleIs, Resting
<1> QED
  BY <1>4, <1>5, <1>6, <1>7, <1>8 DEF TaskStep

\* As long as calls do not overlap, the store on disk is whole and is what the last call to
\* end has reported, wherever processes are killed: a torn temporary file is opened anew.
THEOREM ReportsHold == TaskSpec => []ReportedIsStored
<1>1. TaskInit => AloneInv
  <2> SUFFICES ASSUME TaskInit PROVE AloneInv
    OBVIOUS
  <2>1. /\ \A p \in TaskProcs : taskProc[p] = "idle" /\ handle[p] = "none"
        /\ taskFile = Store!Whole(reported)
    BY DEF TaskInit, Store!NoHandles
  <2> QED
    BY <2>1 DEF AloneInv, OneByOne, Resting, HandleIs
<1>2. AloneInv => ReportedIsStored
  BY DEF AloneInv, ReportedIsStored
<1>3. TaskTypeOK /\ AloneInv /\ [TaskNext]_taskVars => AloneInv'
  <2>1. ASSUME AloneInv, UNCHANGED taskVars PROVE AloneInv'
    BY <2>1 DEF taskVars, AloneInv, OneByOne, Resting, HandleIs, Store!Torn, Store!Whole
  <2> QED
    BY <2>1, AloneStep DEF TaskNext
<1> QED
  BY <1>1, <1>2, <1>3, TaskTypeCorrect, PTL DEF TaskSpec

-----------------------------------------------------------------------------
(***************************************************************************)
(* WorkflowRun.  A run is sound for the evidence k when it walks the       *)
(* workflow on evidence of k only.                                         *)
(***************************************************************************)

Sound(run, k) ==
  /\ run \in Run /\ run.evidence \subseteq k
  /\ run # NoRun => run.walk # << >>
  /\ run.walk # << >> => run.walk[1] = WfInitial
  /\ \A i \in 1..Len(run.walk) - 1 :
       /\ <<run.walk[i], run.walk[i + 1]>> \in WfTransitions
       /\ Needs[run.walk[i + 1]] \subseteq k

LEMMA SoundGrows ==
  ASSUME NEW run, NEW k, NEW l, Sound(run, k), k \subseteq l
  PROVE  Sound(run, l)
BY DEF Sound

LEMMA NoRunIsSound == ASSUME NEW k PROVE Sound(NoRun, k)
<1>1. NoRun \in Run
  BY DEF Run, NoRun
<1>2. NoRun.walk = << >> /\ NoRun.evidence = {} /\ Len(NoRun.walk) = 0
  BY DEF NoRun
<1> QED
  BY <1>1, <1>2 DEF Sound

LEMMA NewRunIsSound == ASSUME NEW k PROVE Sound(NewRun, k)
<1>1. NewRun = [walk |-> <<WfInitial>>, evidence |-> {}]
  BY DEF NewRun
<1>2. <<WfInitial>> \in Seq(WfStates) /\ <<WfInitial>> # << >>
      /\ <<WfInitial>>[1] = WfInitial /\ Len(<<WfInitial>>) = 1
  BY WorkflowAssumption
<1>3. NewRun \in Run
  BY <1>1, <1>2 DEF Run
<1>4. \A i \in 1..Len(NewRun.walk) - 1 : FALSE
  BY <1>1, <1>2
<1> QED
  BY <1>1, <1>2, <1>3, <1>4 DEF Sound

\* A legal transition, on evidence of k, keeps a run sound.
LEMMA TransitionIsSound ==
  ASSUME NEW run, NEW k, NEW to \in WfStates, NEW evidence,
         Sound(run, k), run # NoRun, evidence \subseteq k, CanTransition(run, to, evidence)
  PROVE  Sound(MovedTo(run, to), k)
<1> DEFINE next == MovedTo(run, to)
<1>1. run \in Run /\ run.walk \in Seq(WfStates) /\ run.evidence \in SUBSET Evidence
      /\ Len(run.walk) \in Nat \ {0}
  BY DEF Sound, Run
<1>2. next = [walk |-> Append(run.walk, to), evidence |-> run.evidence]
  BY DEF MovedTo
<1> HIDE DEF next
<1>3. /\ Append(run.walk, to) \in Seq(WfStates)
      /\ Len(Append(run.walk, to)) = Len(run.walk) + 1
      /\ Append(run.walk, to)[Len(run.walk) + 1] = to
      /\ \A i \in 1..Len(run.walk) : Append(run.walk, to)[i] = run.walk[i]
  BY <1>1
<1>4. next \in Run /\ next.evidence \subseteq k /\ next.walk # << >>
  BY <1>1, <1>2, <1>3 DEF Run, Sound
<1>5. next.walk[1] = WfInitial
  BY <1>1, <1>2, <1>3 DEF Sound
<1>6. ASSUME NEW i \in 1..Len(next.walk) - 1
      PROVE  /\ <<next.walk[i], next.walk[i + 1]>> \in WfTransitions
             /\ Needs[next.walk[i + 1]] \subseteq k
  <2> i \in 1..Len(run.walk)
    BY <1>1, <1>2, <1>3
  <2>1. CASE i = Len(run.walk)
    BY <1>1, <1>2, <1>3, <2>1 DEF CanTransition, Current
  <2>2. CASE i \in 1..Len(run.walk) - 1
    <3>1. next.walk[i] = run.walk[i] /\ next.walk[i + 1] = run.walk[i + 1]
      BY <1>1, <1>2, <1>3, <2>2
    <3> QED
      BY <2>2, <3>1 DEF Sound
  <2> QED
    BY <1>1, <2>1, <2>2
<1> QED
  BY <1>4, <1>5, <1>6 DEF Sound, next

LEMMA EvidenceIsSound ==
  ASSUME NEW run, NEW k, NEW key \in Evidence, Sound(run, k), run # NoRun
  PROVE  Sound(Backed(run, key), k \union {key})
<1> DEFINE next == Backed(run, key)
<1>1. run \in Run
  BY DEF Sound
<1>2. next = [walk |-> run.walk, evidence |-> run.evidence \union {key}]
  BY DEF Backed
<1> HIDE DEF next
<1>3. next \in Run /\ next.walk = run.walk /\ next.evidence \subseteq k \union {key}
  BY <1>1, <1>2 DEF Run, Sound
<1> QED
  BY <1>3 DEF Sound, next

-----------------------------------------------------------------------------
(***************************************************************************)
(* The invariant: every run anywhere, in the file, beside it, in a call or *)
(* in a gate, is sound for what was recorded.                              *)
(***************************************************************************)

WalkInv ==
  /\ WorkflowTypeOK
  /\ Sound(runFile.data, known) /\ Sound(runTemp.data, known)
  /\ \A c \in WfCalls : Sound(runCopy[c], known)
  /\ \A s \in WfServers : Sound(gate[s], known) /\ receipts[s] \subseteq known

\* Everything but the calls and their number.
FileOK(f, k) == IsRunFile(f) /\ Sound(f.data, k)

LEMMA WholeIsFile ==
  ASSUME NEW run, NEW k, Sound(run, k)
  PROVE  FileOK(RunFile!Whole(run), k) /\ FileOK(RunFile!Torn, k)
<1>1. Sound(NoRun, k) /\ run \in Run /\ NoRun \in Run
  BY NoRunIsSound DEF Sound
<1> QED
  BY <1>1 DEF FileOK, IsRunFile, RunFile!Whole, RunFile!Torn

LEMMA WalkInit == WorkflowInit => WalkInv
<1> SUFFICES ASSUME WorkflowInit PROVE WalkInv
  OBVIOUS
<1>1. Sound(NoRun, {}) /\ NoRun \in Run
  <2>1. Sound(NoRun, {})
    BY NoRunIsSound
  <2> QED
    BY <2>1 DEF Sound
<1>2. FileOK(runFile, {}) /\ FileOK(runTemp, {})
  BY <1>1, WholeIsFile DEF WorkflowInit
<1>3. runHandle \in RunFile!Handles
  BY DEF WorkflowInit, RunFile!NoHandles, RunFile!Handles
<1>4. /\ wfCall \in [WfCalls -> {"idle", "loaded", "open", "written", "reload", "install"}]
      /\ receipts \in [WfServers -> SUBSET Evidence]
  BY DEF WorkflowInit
<1>5. runCopy \in [WfCalls -> Run] /\ gate \in [WfServers -> Run]
  BY <1>1 DEF WorkflowInit
<1>6. /\ wfCalls \in 0..MaxWfCalls /\ known \subseteq Evidence
      /\ lastBy \in WfServers \union {"none"} /\ mingled \in BOOLEAN /\ runTempThere \in BOOLEAN
  <2>1. wfCalls = 0 /\ known = {} /\ lastBy = "none" /\ mingled = FALSE /\ runTempThere = FALSE
    BY DEF WorkflowInit
  <2>2. 0 \in 0..MaxWfCalls
    BY WorkflowAssumption
  <2> QED
    BY <2>1, <2>2
<1>7. WorkflowTypeOK
  BY <1>2, <1>3, <1>4, <1>5, <1>6 DEF WorkflowTypeOK, FileOK
<1> QED
  BY <1>1, <1>2, <1>7 DEF WorkflowInit, WalkInv, FileOK

LEMMA RecordedIsTyped ==
  ASSUME NEW s \in WfServers, NEW key \in Evidence, NEW k,
         receipts \in [WfServers -> SUBSET Evidence],
         \A r \in WfServers : receipts[r] \subseteq k,
         Recorded(s, key)
  PROVE  /\ receipts' \in [WfServers -> SUBSET Evidence]
         /\ \A r \in WfServers : receipts'[r] \subseteq k \union {key}
<1>1. PICK old \in Evidence \union {"none"} :
        receipts' = [receipts EXCEPT ![s] = (receipts[s] \ {old}) \union {key}]
  BY DEF Recorded
<1> QED
  BY <1>1

\* What is left of WalkInv when no more was recorded than before.
LEMMA KnownGrows ==
  ASSUME WalkInv, NEW l, known \subseteq l
  PROVE  /\ FileOK(runFile, l) /\ FileOK(runTemp, l)
         /\ \A c \in WfCalls : Sound(runCopy[c], l)
         /\ \A s \in WfServers : Sound(gate[s], l) /\ receipts[s] \subseteq l
<1>1. Sound(runFile.data, l) /\ Sound(runTemp.data, l)
  BY SoundGrows DEF WalkInv
<1>2. \A c \in WfCalls : Sound(runCopy[c], l)
  BY SoundGrows DEF WalkInv
<1>3. \A s \in WfServers : Sound(gate[s], l) /\ receipts[s] \subseteq l
  BY SoundGrows DEF WalkInv
<1> QED
  BY <1>1, <1>2, <1>3 DEF WalkInv, WorkflowTypeOK, FileOK

\* A call that saves a sound run for what is recorded after it.
LEMMA WorkflowSaves ==
  ASSUME WalkInv, NEW c \in WfCalls, NEW run, NEW l, known \subseteq l, known' = l,
         l \subseteq Evidence, Sound(run, l), StartCall(c), Saves(c, run),
         receipts' \in [WfServers -> SUBSET Evidence],
         \A s \in WfServers : receipts'[s] \subseteq l
  PROVE  WalkInv'
<1>1. /\ FileOK(runFile', known') /\ FileOK(runTemp', known')
      /\ \A d \in WfCalls : Sound(runCopy[d], known')
      /\ \A s \in WfServers : Sound(gate'[s], known')
  BY KnownGrows DEF StartCall, Saves
<1>2. runCopy' = [runCopy EXCEPT ![c] = run] /\ wfCall' = [wfCall EXCEPT ![c] = "loaded"]
      /\ runCopy \in [WfCalls -> Run] /\ run \in Run
  BY DEF Saves, WfGoes, WalkInv, WorkflowTypeOK, Sound
<1>3. \A d \in WfCalls : Sound(runCopy'[d], known')
  BY <1>1, <1>2
<1>4. wfCalls' \in 0..MaxWfCalls /\ mingled' \in BOOLEAN
  BY WorkflowAssumption DEF StartCall, WalkInv, WorkflowTypeOK
<1>5. /\ runTempThere' \in BOOLEAN /\ runHandle' \in RunFile!Handles
      /\ gate' \in [WfServers -> Run] /\ lastBy' \in WfServers \union {"none"}
  BY DEF StartCall, WalkInv, WorkflowTypeOK
<1>6. WorkflowTypeOK'
  BY <1>1, <1>2, <1>4, <1>5 DEF WalkInv, WorkflowTypeOK, FileOK
<1> QED
  BY <1>1, <1>3, <1>6 DEF WalkInv, FileOK

\* A call that only looks, or removes the file.
LEMMA ReloadStep ==
  ASSUME WalkInv, NEW c \in WfCalls, NEW f, StartCall(c), WfGoes(c, "reload"),
         runFile' = f, FileOK(f, known), UNCHANGED <<runCopy, receipts, known>>
  PROVE  WalkInv'
<1>1. wfCall' \in [WfCalls -> {"idle", "loaded", "open", "written", "reload", "install"}]
  BY DEF WfGoes, WalkInv, WorkflowTypeOK
<1>2. wfCalls' \in 0..MaxWfCalls /\ mingled' \in BOOLEAN
  BY WorkflowAssumption DEF StartCall, WalkInv, WorkflowTypeOK
<1>3. WorkflowTypeOK'
  BY <1>1, <1>2 DEF StartCall, WalkInv, WorkflowTypeOK, FileOK
<1> QED
  BY <1>3 DEF StartCall, WalkInv, FileOK

\* What the steps on the temporary file leave.
LEMMA TempStep ==
  ASSUME WalkInv, NEW c \in WfCalls,
         NEW step \in {"open", "written", "reload"}, WfGoes(c, step),
         UNCHANGED <<runCopy, receipts, gate, wfCalls, workflowHistory>>,
         FileOK(runFile', known), FileOK(runTemp', known), runTempThere' \in BOOLEAN,
         runHandle' \in RunFile!Handles
  PROVE  WalkInv'
<1>1. wfCall' \in [WfCalls -> {"idle", "loaded", "open", "written", "reload", "install"}]
  BY DEF WfGoes, WalkInv, WorkflowTypeOK
<1>2. WorkflowTypeOK'
  BY <1>1 DEF WalkInv, WorkflowTypeOK, FileOK, workflowHistory
<1> QED
  BY <1>2 DEF WalkInv, FileOK, workflowHistory

LEMMA OpenStep == ASSUME WalkInv, NEW c \in WfCalls, OpenRun(c) PROVE WalkInv'
<1>1. FileOK(runFile, known) /\ FileOK(RunFile!Torn, known)
  BY NoRunIsSound, WholeIsFile DEF WalkInv, WorkflowTypeOK, FileOK
<1>2. FileOK(runFile', known) /\ FileOK(runTemp', known) /\ runTempThere' \in BOOLEAN
  BY <1>1 DEF OpenRun, RunFile!OpensTemp
<1>3. runHandle' \in RunFile!Handles
  BY DEF OpenRun, RunFile!OpensTemp, RunFile!Handles, WalkInv, WorkflowTypeOK
<1> QED
  BY <1>2, <1>3, TempStep DEF OpenRun

LEMMA WorkflowWrites == ASSUME WalkInv, NEW c \in WfCalls, WriteRun(c) PROVE WalkInv'
<1>1. Sound(runCopy[c], known) /\ FileOK(runFile, known) /\ FileOK(runTemp, known)
  BY DEF WalkInv, WorkflowTypeOK, FileOK
<1>2. FileOK(RunFile!Whole(runCopy[c]), known) /\ FileOK(RunFile!Torn, known)
  BY <1>1, WholeIsFile
<1>3. FileOK(runFile', known) /\ FileOK(runTemp', known)
  BY <1>1, <1>2 DEF WriteRun, RunFile!WritesTemp, RunFile!Written
<1>4. runTempThere' \in BOOLEAN /\ runHandle' \in RunFile!Handles
  BY DEF WriteRun, RunFile!WritesTemp, RunFile!Handles, WalkInv, WorkflowTypeOK
<1> QED
  BY <1>3, <1>4, TempStep DEF WriteRun

LEMMA RenameStep == ASSUME WalkInv, NEW c \in WfCalls, RenameRun(c) PROVE WalkInv'
<1>1. FileOK(runFile, known) /\ FileOK(runTemp, known) /\ FileOK(RunFile!Torn, known)
  BY NoRunIsSound, WholeIsFile DEF WalkInv, WorkflowTypeOK, FileOK
<1>2. RunFile!Followed \in RunFile!Handles
  BY DEF RunFile!Followed, RunFile!Handles, WalkInv, WorkflowTypeOK
<1>3. /\ FileOK(runFile', known) /\ FileOK(runTemp', known) /\ runTempThere' \in BOOLEAN
      /\ runHandle' \in RunFile!Handles
  BY <1>1, <1>2 DEF RenameRun, RunFile!RenamesTemp, RunFile!RenameFails, WalkInv, WorkflowTypeOK
<1> QED
  BY <1>3, TempStep DEF RenameRun

LEMMA ReadStep == ASSUME WalkInv, NEW c \in WfCalls, ReloadRun(c) PROVE WalkInv'
<1>1. runFile.data \in Run /\ Sound(runFile.data, known)
  BY DEF WalkInv, Sound
<1>2. /\ wfCall' \in [WfCalls -> {"idle", "loaded", "open", "written", "reload", "install"}]
      /\ runCopy' \in [WfCalls -> Run]
  BY <1>1 DEF ReloadRun, WfGoes, WalkInv, WorkflowTypeOK
<1>3. \A d \in WfCalls : Sound(runCopy'[d], known)
  BY <1>1 DEF ReloadRun, WalkInv, WorkflowTypeOK
<1>4. WorkflowTypeOK'
  BY <1>2 DEF ReloadRun, WalkInv, WorkflowTypeOK, runVars, workflowHistory
<1> QED
  BY <1>3, <1>4 DEF ReloadRun, WalkInv, runVars, workflowHistory

LEMMA InstallStep == ASSUME WalkInv, NEW c \in WfCalls, InstallGate(c) PROVE WalkInv'
<1>1. ServerOf[c] \in WfServers
  BY WorkflowAssumption
<1>2. Sound(NoRun, known) /\ Sound(runCopy[c], known)
  BY NoRunIsSound DEF WalkInv
<1>3. NoRun \in Run /\ runCopy[c] \in Run
  BY <1>2 DEF Sound
<1>4. /\ wfCall' \in [WfCalls -> {"idle", "loaded", "open", "written", "reload", "install"}]
      /\ runCopy' \in [WfCalls -> Run] /\ gate' \in [WfServers -> Run]
  BY <1>1, <1>3 DEF InstallGate, WfGoes, WalkInv, WorkflowTypeOK
<1>5. /\ \A d \in WfCalls : Sound(runCopy'[d], known)
      /\ \A s \in WfServers : Sound(gate'[s], known)
  BY <1>1, <1>2 DEF InstallGate, WalkInv, WorkflowTypeOK
<1>6. WorkflowTypeOK'
  BY <1>1, <1>4 DEF InstallGate, WalkInv, WorkflowTypeOK, runVars
<1> QED
  BY <1>5, <1>6 DEF InstallGate, WalkInv, runVars

LEMMA RestartStep == ASSUME WalkInv, NEW s \in WfServers, RestartServer(s) PROVE WalkInv'
<1>1. Sound(NoRun, known) /\ Sound(runFile.data, known)
  BY NoRunIsSound DEF WalkInv
<1>2. NoRun \in Run /\ runFile.data \in Run
  BY <1>1 DEF Sound
<1>3. PICK kept \in SUBSET receipts[s] : receipts' = [receipts EXCEPT ![s] = kept]
  BY DEF RestartServer
<1>4. /\ receipts' \in [WfServers -> SUBSET Evidence]
      /\ \A r \in WfServers : receipts'[r] \subseteq known
  BY <1>3 DEF WalkInv, WorkflowTypeOK
<1>5. wfCall' \in [WfCalls -> {"idle", "loaded", "open", "written", "reload", "install"}]
  BY DEF RestartServer, WalkInv, WorkflowTypeOK
<1>6. runCopy' \in [WfCalls -> Run] /\ gate' \in [WfServers -> Run]
  BY <1>2 DEF RestartServer, WalkInv, WorkflowTypeOK
<1>7. /\ \A d \in WfCalls : Sound(runCopy'[d], known)
      /\ \A r \in WfServers : Sound(gate'[r], known)
  BY <1>1 DEF RestartServer, WalkInv, WorkflowTypeOK
<1>8. runHandle' \in RunFile!Handles
  BY DEF RestartServer, RunFile!Handles, WalkInv, WorkflowTypeOK
<1>9. mingled' \in BOOLEAN /\ lastBy' \in WfServers \union {"none"}
  BY DEF RestartServer, WalkInv, WorkflowTypeOK
<1>10. WorkflowTypeOK'
  BY <1>4, <1>5, <1>6, <1>8, <1>9 DEF RestartServer, WalkInv, WorkflowTypeOK
<1> QED
  BY <1>4, <1>7, <1>10 DEF RestartServer, WalkInv

LEMMA ToolStep ==
  ASSUME WalkInv, NEW s \in WfServers, NEW tool \in LocalTools, CallLocalTool(s, tool)
  PROVE  WalkInv'
<1>1. tool \in Evidence
  BY WorkflowAssumption
<1>2. /\ receipts' \in [WfServers -> SUBSET Evidence]
      /\ \A r \in WfServers : receipts'[r] \subseteq known'
  BY <1>1, RecordedIsTyped DEF CallLocalTool, WalkInv, WorkflowTypeOK
<1>3. known \subseteq known' /\ known' \subseteq Evidence
  BY <1>1 DEF CallLocalTool, WalkInv, WorkflowTypeOK
<1>4. /\ FileOK(runFile, known') /\ FileOK(runTemp, known')
      /\ \A c \in WfCalls : Sound(runCopy[c], known')
      /\ \A r \in WfServers : Sound(gate[r], known')
  BY <1>3, KnownGrows
<1>5. WorkflowTypeOK'
  BY <1>2, <1>3 DEF CallLocalTool, WalkInv, WorkflowTypeOK, runVars
<1> QED
  BY <1>2, <1>4, <1>5 DEF CallLocalTool, WalkInv, runVars, FileOK

LEMMA ChangeStep ==
  ASSUME WalkInv, NEW c \in WfCalls,
         \/ StartRun(c) \/ (\E to \in WfStates : Transition(c, to))
         \/ (\E key \in Evidence : AddEvidence(c, key))
  PROVE  WalkInv'
<1>1. /\ known \in SUBSET Evidence /\ receipts \in [WfServers -> SUBSET Evidence]
      /\ \A s \in WfServers : receipts[s] \subseteq known
      /\ Sound(runFile.data, known) /\ ServerOf[c] \in WfServers
  BY WorkflowAssumption DEF WalkInv, WorkflowTypeOK
<1>2. CASE StartRun(c)
  <2>1. Sound(NewRun, known)
    BY NewRunIsSound
  <2> QED
    BY <1>1, <1>2, <2>1, WorkflowSaves DEF StartRun
<1>3. ASSUME NEW to \in WfStates, Transition(c, to) PROVE WalkInv'
  <2>1. runFile.data # NoRun
    BY <1>3 DEF Transition, Active
  <2>2. runFile.data.evidence \union receipts[ServerOf[c]] \subseteq known
    BY <1>1 DEF Sound
  <2>3. Sound(MovedTo(runFile.data, to), known)
    BY <1>1, <1>3, <2>1, <2>2, TransitionIsSound DEF Transition
  <2> QED
    BY <1>1, <1>3, <2>3, WorkflowSaves DEF Transition
<1>4. ASSUME NEW key \in Evidence, AddEvidence(c, key) PROVE WalkInv'
  <2>1. runFile.data # NoRun
    BY <1>4 DEF AddEvidence, Active
  <2>2. Sound(Backed(runFile.data, key), known \union {key})
    BY <1>1, <2>1, EvidenceIsSound
  <2>3. /\ receipts' \in [WfServers -> SUBSET Evidence]
        /\ \A s \in WfServers : receipts'[s] \subseteq known \union {key}
    BY <1>1, <1>4, RecordedIsTyped DEF AddEvidence
  <2>4. /\ StartCall(c) /\ Saves(c, Backed(runFile.data, key))
        /\ known' = known \union {key} /\ known \subseteq known \union {key}
        /\ known \union {key} \subseteq Evidence
    BY <1>1, <1>4 DEF AddEvidence
  <2> QED
    BY <2>2, <2>3, <2>4, WorkflowSaves
<1> QED
  BY <1>2, <1>3, <1>4

LEMMA WalkNext == WalkInv /\ [WorkflowNext]_workflowVars => WalkInv'
<1> SUFFICES ASSUME WalkInv, [WorkflowNext]_workflowVars PROVE WalkInv'
  OBVIOUS
<1>1. ASSUME NEW c \in WfCalls, WfCallStep(c) PROVE WalkInv'
  <2>1. CASE StopRun(c)
    <3>1. Sound(NoRun, known)
      BY NoRunIsSound
    <3>2. FileOK(RunFile!Whole(NoRun), known)
      BY <3>1, WholeIsFile
    <3> QED
      BY <2>1, <3>2, ReloadStep DEF StopRun
  <2>2. CASE LookOnly(c)
    <3>1. FileOK(runFile, known)
      BY DEF WalkInv, WorkflowTypeOK, FileOK
    <3> QED
      BY <2>2, <3>1, ReloadStep DEF LookOnly
  <2> QED
    BY <1>1, <2>1, <2>2, ChangeStep, OpenStep, WorkflowWrites, RenameStep, ReadStep, InstallStep
       DEF WfCallStep
<1>2. CASE UNCHANGED workflowVars
  BY <1>2 DEF WalkInv, WorkflowTypeOK, workflowVars, runVars, workflowHistory, IsRunFile,
              RunFile!Handles
<1> QED
  BY <1>1, <1>2, RestartStep, ToolStep DEF WorkflowNext

\* The variables keep their types.
THEOREM WorkflowTypeCorrect == WorkflowSpec => []WorkflowTypeOK
<1>1. WalkInv => WorkflowTypeOK
  BY DEF WalkInv
<1> QED
  BY <1>1, WalkInit, WalkNext, PTL DEF WorkflowSpec

\* The run on disk and every installed run have walked the workflow on evidence that
\* somebody recorded, whatever the interleaving of the calls on the shared files and
\* whichever server ends (handle_transition, handle_complete, can_transition).
THEOREM RunsAreWalks == WorkflowSpec => []RunsWalkTheWorkflow
<1>1. WalkInv => RunsWalkTheWorkflow
  <2>1. ASSUME NEW run, Sound(run, known) PROVE Walks(run)
    BY <2>1 DEF Sound, Walks
  <2> QED
    BY <2>1 DEF WalkInv, RunsWalkTheWorkflow
<1> QED
  BY <1>1, WalkInit, WalkNext, PTL DEF WorkflowSpec

-----------------------------------------------------------------------------
(***************************************************************************)
(* The gate.  As long as calls come one by one, the one in progress is     *)
(* alone, what it has read again is still in the file, and so is what the  *)
(* last one installed.                                                     *)
(***************************************************************************)

Idle(c) == wfCall[c] = "idle"

Alone == \A c \in WfCalls : \A d \in WfCalls : Idle(c) \/ Idle(d) \/ c = d

ReadAgain == \A c \in WfCalls : wfCall[c] = "install" => runCopy[c] = runFile.data

GateInv == ~mingled => Alone /\ ReadAgain /\ GateIsCurrent

\* A step of the call in progress that does not end it.
LEMMA CallGoesOn ==
  ASSUME WorkflowTypeOK, GateInv, NEW c \in WfCalls, ~Idle(c), ~mingled,
         NEW step, step # "idle", WfGoes(c, step),
         step = "install" => runCopy'[c] = runFile'.data,
         UNCHANGED mingled
  PROVE  GateInv'
<1>1. wfCall' = [wfCall EXCEPT ![c] = step] /\ wfCall'[c] = step
  BY DEF WfGoes, WorkflowTypeOK
<1>2. \A d \in WfCalls : d # c => Idle(d) /\ wfCall'[d] = "idle"
  BY <1>1 DEF GateInv, Alone, Idle, WorkflowTypeOK
<1>3. Alone' /\ ReadAgain' /\ GateIsCurrent'
  BY <1>1, <1>2 DEF Alone, ReadAgain, GateIsCurrent, Idle
<1> QED
  BY <1>3 DEF GateInv

\* A call that starts while all are idle.
LEMMA CallStarts ==
  ASSUME WorkflowTypeOK, GateInv, NEW c \in WfCalls, StartCall(c),
         NEW step \in {"loaded", "reload"}, WfGoes(c, step)
  PROVE  GateInv'
<1> SUFFICES ASSUME ~mingled' PROVE Alone' /\ ReadAgain' /\ GateIsCurrent'
  BY DEF GateInv
<1>1. \A d \in WfCalls : Idle(d)
  BY DEF StartCall, Idle
<1>2. wfCall' = [wfCall EXCEPT ![c] = step] /\ wfCall'[c] = step
  BY DEF WfGoes, WorkflowTypeOK
<1>3. \A d \in WfCalls : d # c => wfCall'[d] = "idle"
  BY <1>1, <1>2 DEF Idle, WorkflowTypeOK
<1> QED
  BY <1>2, <1>3 DEF Alone, ReadAgain, GateIsCurrent, Idle

LEMMA GateInstalled ==
  ASSUME WorkflowTypeOK, GateInv, NEW c \in WfCalls, InstallGate(c)
  PROVE  GateInv'
<1> SUFFICES ASSUME ~mingled' PROVE Alone' /\ ReadAgain' /\ GateIsCurrent'
  BY DEF GateInv
<1>1. ~mingled /\ ~Idle(c) /\ runCopy[c] = runFile.data /\ runFile' = runFile
  BY DEF InstallGate, GateInv, ReadAgain, Idle, runVars
<1>2. \A d \in WfCalls : wfCall'[d] = "idle"
  BY <1>1 DEF InstallGate, WfGoes, GateInv, Alone, Idle, WorkflowTypeOK
<1>3. lastBy' \in WfServers /\ gate'[lastBy'] = runFile'.data
  BY <1>1, WorkflowAssumption DEF InstallGate, WorkflowTypeOK
<1> QED
  BY <1>2, <1>3 DEF Alone, ReadAgain, GateIsCurrent, Idle

LEMMA GateRestarted ==
  ASSUME WorkflowTypeOK, GateInv, NEW s \in WfServers, RestartServer(s)
  PROVE  GateInv'
<1> SUFFICES ASSUME ~mingled' PROVE Alone' /\ ReadAgain' /\ GateIsCurrent'
  BY DEF GateInv
<1>1. \A d \in WfCalls : wfCall'[d] = "idle"
  BY DEF RestartServer
<1>2. lastBy' = s /\ gate'[s] = runFile'.data
  BY DEF RestartServer, WorkflowTypeOK
<1> QED
  BY <1>1, <1>2 DEF Alone, ReadAgain, GateIsCurrent, Idle

LEMMA GateNext ==
  ASSUME WorkflowTypeOK, GateInv, [WorkflowNext]_workflowVars PROVE GateInv'
<1>1. ASSUME NEW c \in WfCalls, WfCallStep(c) PROVE GateInv'
  <2>1. ASSUME StartCall(c), ~InstallGate(c) PROVE GateInv'
    <3>1. PICK step \in {"loaded", "reload"} : WfGoes(c, step)
      BY <1>1, <2>1 DEF WfCallStep, StartRun, Transition, AddEvidence, StopRun, LookOnly,
                        Saves, OpenRun, WriteRun, RenameRun, ReloadRun, StartCall
    <3> QED
      BY <2>1, <3>1, CallStarts
  <2>2. ASSUME OpenRun(c) \/ WriteRun(c) \/ RenameRun(c) \/ ReloadRun(c) PROVE GateInv'
    <3>1. ~Idle(c) /\ UNCHANGED mingled
      BY <2>2 DEF OpenRun, WriteRun, RenameRun, ReloadRun, Idle, workflowHistory
    <3>2. CASE mingled
      BY <3>1, <3>2 DEF GateInv
    <3>3. CASE ~mingled
      <4>1. PICK step \in {"open", "written", "reload", "install"} :
              /\ WfGoes(c, step)
              /\ step = "install" => ReloadRun(c)
        BY <2>2 DEF OpenRun, WriteRun, RenameRun, ReloadRun
      <4>2. ReloadRun(c) => runCopy'[c] = runFile'.data
        BY DEF ReloadRun, runVars, WorkflowTypeOK
      <4> QED
        BY <3>1, <3>3, <4>1, <4>2, CallGoesOn
    <3> QED
      BY <3>2, <3>3
  <2> QED
    BY <1>1, <2>1, <2>2, GateInstalled
       DEF WfCallStep, StartRun, Transition, AddEvidence, StopRun, LookOnly
<1>2. ASSUME NEW s \in WfServers, NEW tool \in LocalTools, CallLocalTool(s, tool) PROVE GateInv'
  BY <1>2 DEF CallLocalTool, GateInv, Alone, ReadAgain, GateIsCurrent, Idle, runVars
<1>3. CASE UNCHANGED workflowVars
  BY <1>3 DEF workflowVars, workflowHistory, runVars, GateInv, Alone, ReadAgain, GateIsCurrent, Idle
<1> QED
  BY <1>1, <1>2, <1>3, GateRestarted DEF WorkflowNext

\* Once calls have come one by one, the gate of the server that made the last one is the
\* run on disk: the file is read again after the save, before the next call (call_tool).
THEOREM GateIsTheRun == WorkflowSpec => []GateIsCurrent
<1>1. WorkflowInit => GateInv
  <2> SUFFICES ASSUME WorkflowInit PROVE Alone /\ ReadAgain /\ GateIsCurrent
    BY DEF GateInv
  <2>1. /\ \A c \in WfCalls : wfCall[c] = "idle"
        /\ \A s \in WfServers : gate[s] = NoRun
    BY DEF WorkflowInit
  <2>2. runFile.data = NoRun
    BY DEF WorkflowInit, RunFile!Whole
  <2> QED
    BY <2>1, <2>2 DEF Alone, ReadAgain, GateIsCurrent, Idle
<1>2. GateInv => GateIsCurrent
  BY DEF GateInv, GateIsCurrent
<1>3. WorkflowTypeOK /\ GateInv /\ [WorkflowNext]_workflowVars => GateInv'
  BY GateNext
<1> QED
  BY <1>1, <1>2, <1>3, WorkflowTypeCorrect, PTL DEF WorkflowSpec

-----------------------------------------------------------------------------
(***************************************************************************)
(* AgentRegistry: the mutual exclusion of saves, for which neither what is *)
(* saved nor what the calls do matters.                                    *)
(***************************************************************************)

LockShape ==
  /\ agentProc \in [Agent -> {"ready", "loaded", "breaks", "locked", "cut", "written"}]
  /\ agentLock \in [held : BOOLEAN, stale : BOOLEAN, owner : Agent \union {"nobody"}]
  /\ broken \in BOOLEAN

\* Who believes that it holds the lock owns the file that is there.
HoldersOwn ==
  ~broken => \A a \in Agent : Holds(a) => agentLock.held /\ agentLock.owner = a

LockInv == LockShape /\ HoldersOwn

LEMMA OwnInit == AgentInit => LockInv
<1> SUFFICES ASSUME AgentInit PROVE LockInv
  OBVIOUS
<1>1. agentLock = [held |-> FALSE, stale |-> FALSE, owner |-> "nobody"]
  BY DEF AgentInit, RegistryLock!Unlocked
<1>2. agentProc = [a \in Agent |-> "ready"] /\ broken = FALSE
  BY DEF AgentInit
<1> QED
  BY <1>1, <1>2 DEF LockInv, LockShape, HoldersOwn, Holds

\* A step of one process that touches neither the lock nor the right to it.
LEMMA KeepsRight ==
  ASSUME LockInv, NEW a \in Agent,
         NEW step \in {"ready", "loaded", "breaks", "locked", "cut", "written"},
         agentProc' = [agentProc EXCEPT ![a] = step],
         step \in {"locked", "cut", "written"} => Holds(a),
         UNCHANGED <<agentLock, broken>>
  PROVE  LockInv'
<1>1. LockShape'
  BY DEF LockInv, LockShape
<1>2. \A b \in Agent : Holds(b)' => Holds(b)
  BY DEF LockInv, LockShape, Holds
<1> QED
  BY <1>1, <1>2 DEF LockInv, HoldersOwn

LEMMA TakesRight ==
  ASSUME LockInv, NEW a \in Agent, GetRegistryLock(a)
  PROVE  LockInv'
<1>1. /\ ~agentLock.held /\ broken' = broken
      /\ agentLock' = [held |-> TRUE, stale |-> FALSE, owner |-> a]
      /\ agentProc' = [agentProc EXCEPT ![a] = "locked"]
  BY DEF GetRegistryLock, RegistryLock!Take, AgentGoes
<1>2. LockShape'
  BY <1>1 DEF LockInv, LockShape
<1>3. ~broken => \A b \in Agent : ~Holds(b)
  BY <1>1 DEF LockInv, HoldersOwn
<1>4. \A b \in Agent : b # a => (Holds(b)' <=> Holds(b))
  BY <1>1 DEF LockInv, LockShape, Holds
<1> QED
  BY <1>1, <1>2, <1>3, <1>4 DEF LockInv, HoldersOwn

LEMMA DropsRight ==
  ASSUME LockInv, NEW a \in Agent, RemovesLock(a) \/ UnlockRegistry(a)
  PROVE  LockInv'
<1>1. /\ agentLock' = [held |-> FALSE, stale |-> FALSE, owner |-> "nobody"]
      /\ agentProc' \in {[agentProc EXCEPT ![a] = "loaded"], [agentProc EXCEPT ![a] = "ready"]}
  BY DEF RemovesLock, UnlockRegistry, RegistryLock!Drop, RegistryLock!Unlocked, AgentGoes
<1>2. broken' \in BOOLEAN
  BY DEF RemovesLock, UnlockRegistry, LockInv, LockShape
<1>3. LockShape'
  BY <1>1, <1>2 DEF LockInv, LockShape
<1>4. ~broken' => ~broken
  BY DEF RemovesLock, UnlockRegistry
<1>5. ASSUME ~broken', NEW b \in Agent, Holds(b)' PROVE FALSE
  <2>1. b # a /\ Holds(b)
    BY <1>1, <1>5 DEF LockInv, LockShape, Holds
  <2>2. agentLock.owner = b
    BY <1>4, <1>5, <2>1 DEF LockInv, HoldersOwn
  <2>3. CASE RemovesLock(a)
    BY <1>5, <2>1, <2>2, <2>3 DEF RemovesLock
  <2>4. CASE UnlockRegistry(a)
    <3>1. Holds(a)
      BY <2>4 DEF UnlockRegistry, Holds
    <3> QED
      BY <1>4, <1>5, <2>1, <2>2, <3>1 DEF LockInv, HoldersOwn
  <2> QED
    BY <2>3, <2>4
<1> QED
  BY <1>3, <1>5 DEF LockInv, HoldersOwn

LEMMA AgesRight == ASSUME LockInv, RegistryLockGetsOld PROVE LockInv'
<1>1. /\ agentLock' = [agentLock EXCEPT !.stale = TRUE]
      /\ agentProc' = agentProc /\ broken' = broken
  BY DEF RegistryLockGetsOld, RegistryLock!Age
<1>2. LockShape' /\ agentLock'.held = agentLock.held /\ agentLock'.owner = agentLock.owner
  BY <1>1 DEF LockInv, LockShape
<1> QED
  BY <1>1, <1>2 DEF LockInv, HoldersOwn, Holds

LEMMA OwnNext == LockInv /\ [AgentNext]_agentVars => LockInv'
<1> SUFFICES ASSUME LockInv, [AgentNext]_agentVars PROVE LockInv'
  OBVIOUS
<1>1. ASSUME NEW a \in Agent, Call(a) \/ ReadMessages(a) PROVE LockInv'
  BY <1>1, KeepsRight DEF Call, ReadMessages, Loads
<1>2. ASSUME NEW a \in Agent, GiveUp(a) \/ FindsStale(a) \/ KillAgent(a) PROVE LockInv'
  BY <1>2, KeepsRight DEF GiveUp, FindsStale, KillAgent, AgentGoes
<1>3. ASSUME NEW a \in Agent, CutRegistry(a) \/ WriteRegistry(a) PROVE LockInv'
  BY <1>3, KeepsRight DEF CutRegistry, WriteRegistry, AgentGoes, Holds
<1>4. CASE UNCHANGED agentVars
  BY <1>4 DEF agentVars, LockInv, LockShape, HoldersOwn, Holds
<1> QED
  BY <1>1, <1>2, <1>3, <1>4, TakesRight, DropsRight, AgesRight DEF AgentNext, AgentStep

\* Two saves of the registry overlap only after a process has removed the lock of one that
\* still held it: FileLock excludes, but for what it does to a lock it has found stale.
THEOREM SavesExclude == AgentSpec => []WritersExclude
<1>1. LockInv => WritersExclude
  BY DEF LockInv, HoldersOwn, WritersExclude
<1> QED
  BY <1>1, OwnInit, OwnNext, PTL DEF AgentSpec

-----------------------------------------------------------------------------
(***************************************************************************)
(* The scratchpad.  It holds the newest of a sequence of pushes.           *)
(***************************************************************************)

LEMMA RecentIs ==
  ASSUME NEW S, NEW s \in Seq(S)
  PROVE  /\ Recent(s) \in Seq(S)
         /\ Len(Recent(s)) = IF Len(s) > MaxPad THEN MaxPad ELSE Len(s)
         /\ \A i \in 1..Len(Recent(s)) : Recent(s)[i] = s[i + (Len(s) - Len(Recent(s)))]
<1> DEFINE first == IF Len(s) > MaxPad THEN Len(s) - MaxPad + 1 ELSE 1
<1>1. Len(s) \in Nat /\ MaxPad \in Nat \ {0} /\ first \in Nat \ {0}
  BY AgentAssumption, LenProperties
<1>2. \A i \in first..Len(s) : s[i] \in S
  BY <1>1, ElementOfSeq
<1>3. /\ SubSeq(s, first, Len(s)) \in Seq(S)
      /\ Len(SubSeq(s, first, Len(s))) = IF first <= Len(s) THEN Len(s) - first + 1 ELSE 0
      /\ \A i \in 1..Len(s) - first + 1 : SubSeq(s, first, Len(s))[i] = s[first + i - 1]
  <2> HIDE DEF first
  <2> QED
    BY <1>1, <1>2, SubSeqProperties
<1>4. Recent(s) = SubSeq(s, first, Len(s))
  BY DEF Recent
<1>5. Len(Recent(s)) = IF Len(s) > MaxPad THEN MaxPad ELSE Len(s)
  <2>1. (IF first <= Len(s) THEN Len(s) - first + 1 ELSE 0)
          = IF Len(s) > MaxPad THEN MaxPad ELSE Len(s)
    <3>1. CASE Len(s) > MaxPad
      BY <1>1, <3>1
    <3>2. CASE ~(Len(s) > MaxPad) /\ Len(s) # 0
      BY <1>1, <3>2
    <3>3. CASE ~(Len(s) > MaxPad) /\ Len(s) = 0
      BY <1>1, <3>3
    <3> QED
      BY <3>1, <3>2, <3>3
  <2> HIDE DEF first
  <2> QED
    BY <1>3, <1>4, <2>1
<1>6. ASSUME NEW i \in 1..Len(Recent(s))
      PROVE  Recent(s)[i] = s[i + (Len(s) - Len(Recent(s)))]
  <2>1. i \in 1..Len(s) - first + 1 /\ first + i - 1 = i + (Len(s) - Len(Recent(s)))
    BY <1>1, <1>5, <1>6
  <2>2. Recent(s)[i] = s[first + i - 1]
    BY <1>3, <1>4, <2>1
  <2> QED
    BY <2>1, <2>2
<1> QED
  BY <1>3, <1>4, <1>5, <1>6

\* A post is the newest of the sequence and of the pad, which it cuts.
LEMMA PostKeeps ==
  ASSUME NEW pad \in Seq(Message), NEW ids \in Seq(Id), KeepsNewest(pad, ids), NEW m \in Message
  PROVE  LET new == Recent(Append(pad, m)) IN
         new \in Seq(Message) /\ KeepsNewest(new, ids \o <<m.id>>)
<1> DEFINE long == Append(pad, m)  new == Recent(long)  all == ids \o <<m.id>>
<1>0. m.id \in Id /\ MaxPad \in Nat \ {0} /\ Len(pad) \in Nat /\ Len(ids) \in Nat
  BY AgentAssumption, LenProperties DEF Message
<1>1. /\ long \in Seq(Message) /\ Len(long) = Len(pad) + 1 /\ long[Len(pad) + 1] = m
      /\ \A i \in 1..Len(pad) : long[i] = pad[i]
  OBVIOUS
<1>2. /\ Len(all) = Len(ids) + 1 /\ all[Len(ids) + 1] = m.id /\ all # <<>>
      /\ \A i \in 1..Len(ids) : all[i] = ids[i]
  <2>1. PICK x \in Id : x = m.id
    BY <1>0
  <2>2. /\ <<x>> \in Seq(Id) /\ Len(<<x>>) = 1 /\ <<x>>[1] = x
    OBVIOUS
  <2>3. /\ Len(ids \o <<x>>) = Len(ids) + 1 /\ ids \o <<x>> \in Seq(Id)
        /\ \A i \in 1..(Len(ids) + 1) :
             (ids \o <<x>>)[i] = IF i <= Len(ids) THEN ids[i] ELSE <<x>>[i - Len(ids)]
    BY <1>0, <2>2, ConcatProperties
  <2> QED
    BY <1>0, <2>1, <2>2, <2>3
<1>3. /\ new \in Seq(Message)
      /\ Len(new) = IF Len(long) > MaxPad THEN MaxPad ELSE Len(long)
      /\ \A i \in 1..Len(new) : new[i] = long[i + (Len(long) - Len(new))]
  BY <1>1, RecentIs
<1> HIDE DEF long, new, all
<1>4. /\ Len(ids) - Len(pad) >= 0 /\ (Len(ids) - Len(pad) > 0 => Len(pad) >= MaxPad)
      /\ \A i \in 1..Len(pad) : pad[i].id = ids[i + (Len(ids) - Len(pad))]
  BY DEF KeepsNewest
<1>. Len(new) \in Nat \ {0} /\ Len(long) \in Nat /\ Len(all) \in Nat
  BY <1>0, <1>1, <1>2, <1>3
<1>5. /\ Len(all) - Len(new) >= 0 /\ (Len(all) - Len(new) > 0 => Len(new) >= MaxPad)
      /\ Len(new) <= MaxPad
  BY <1>0, <1>1, <1>2, <1>3, <1>4
<1>6. new[Len(new)] = m
  <2>1. Len(new) \in 1..Len(new) /\ Len(new) + (Len(long) - Len(new)) = Len(long)
    OBVIOUS
  <2>2. new[Len(new)] = long[Len(long)]
    BY <1>3, <2>1
  <2> QED
    BY <1>1, <2>2
<1>7. ASSUME NEW i \in 1..Len(new) PROVE new[i].id = all[i + (Len(all) - Len(new))]
  <2>1. CASE i = Len(new)
    <3>1. i + (Len(all) - Len(new)) = Len(all)
      BY <2>1
    <3>2. all[Len(all)] = m.id
      BY <1>2
    <3> QED
      BY <1>6, <2>1, <3>1, <3>2
  <2>2. CASE i # Len(new)
    <3> DEFINE j == i + (Len(long) - Len(new))
    <3>0. Len(new) <= Len(long) /\ Len(long) = Len(pad) + 1
      BY <1>0, <1>1, <1>3
    <3>1. j \in 1..Len(pad) /\ new[i] = pad[j]
      <4>1. j \in 1..Len(pad)
        BY <1>0, <2>2, <3>0
      <4>2. new[i] = long[j]
        BY <1>3
      <4> QED
        BY <1>1, <4>1, <4>2
    <3>2. j + (Len(ids) - Len(pad)) = i + (Len(all) - Len(new))
      BY <1>0, <1>1, <1>2, <1>3
    <3>3. j + (Len(ids) - Len(pad)) \in 1..Len(ids)
      BY <1>0, <1>4, <3>1
    <3> HIDE DEF j
    <3>4. pad[j].id = ids[j + (Len(ids) - Len(pad))]
      BY <1>4, <3>1
    <3> QED
      BY <1>2, <3>1, <3>2, <3>3, <3>4
  <2> QED
    BY <2>1, <2>2
<1>8. KeepsNewest(new, all)
  BY <1>5, <1>7 DEF KeepsNewest
<1> QED
  BY <1>3, <1>8 DEF new, long, all

\* The facts of a share are the newest, and nothing is cut for them.
LEMMA ShareKeeps ==
  ASSUME NEW pad \in Seq(Message), NEW ids \in Seq(Id), KeepsNewest(pad, ids),
         NEW m \in Message, m.id[1] = "knowledge", NEW n \in Nat \ {0}
  PROVE  LET new == pad \o [i \in 1..n |-> m] IN
         new \in Seq(Message) /\ KeepsNewest(new, ids \o [i \in 1..n |-> m.id])
<1> DEFINE ms == [i \in 1..n |-> m]  ns == [i \in 1..n |-> m.id]
           new == pad \o ms  all == ids \o ns
<1>0. m.id \in Id /\ MaxPad \in Nat \ {0} /\ Len(pad) \in Nat /\ Len(ids) \in Nat
  BY AgentAssumption, LenProperties DEF Message
<1>1. ms \in Seq(Message) /\ Len(ms) = n /\ \A i \in 1..n : ms[i] = m
  OBVIOUS
<1>2. ns \in Seq(Id) /\ Len(ns) = n /\ \A i \in 1..n : ns[i] = m.id
  BY <1>0
<1> HIDE DEF ms, ns
<1>3. /\ new \in Seq(Message) /\ Len(new) = Len(pad) + n
      /\ \A i \in 1..(Len(pad) + n) : new[i] = IF i <= Len(pad) THEN pad[i] ELSE ms[i - Len(pad)]
  BY <1>1, ConcatProperties
<1>4. /\ all \in Seq(Id) /\ Len(all) = Len(ids) + n
      /\ \A i \in 1..(Len(ids) + n) : all[i] = IF i <= Len(ids) THEN ids[i] ELSE ns[i - Len(ids)]
  BY <1>2, ConcatProperties
<1> HIDE DEF new, all
<1>5. /\ Len(ids) - Len(pad) >= 0 /\ (Len(ids) - Len(pad) > 0 => Len(pad) >= MaxPad)
      /\ \A i \in 1..Len(pad) : pad[i].id = ids[i + (Len(ids) - Len(pad))]
  BY DEF KeepsNewest
<1>6. /\ Len(all) - Len(new) = Len(ids) - Len(pad)
      /\ Len(all) - Len(new) >= 0 /\ (Len(all) - Len(new) > 0 => Len(new) >= MaxPad)
  BY <1>0, <1>3, <1>4, <1>5
<1>7. ASSUME NEW i \in 1..Len(new) PROVE new[i].id = all[i + (Len(all) - Len(new))]
  <2>a. PICK j : j = i + (Len(ids) - Len(pad))
    OBVIOUS
  <2>b. i \in Nat /\ 1 <= i /\ i <= Len(pad) + n
    BY <1>0, <1>3
  <2>0. i \in 1..(Len(pad) + n) /\ j \in 1..(Len(ids) + n) /\ i + (Len(all) - Len(new)) = j
    <3>1. i + (Len(all) - Len(new)) = j
      BY <1>6, <2>a
    <3>2. i \in 1..(Len(pad) + n)
      BY <1>0, <2>b
    <3>3. j \in 1..(Len(ids) + n)
      BY ONLY <1>0, <1>5, <2>a, <2>b, n \in Nat
    <3> QED
      BY <3>1, <3>2, <3>3
  <2>1. CASE i <= Len(pad)
    <3>1. i \in 1..Len(pad) /\ j <= Len(ids)
      BY <1>0, <2>a, <2>b, <2>1
    <3>2. new[i] = pad[i] /\ all[j] = ids[j]
      BY <1>3, <1>4, <2>0, <2>1, <3>1
    <3>3. pad[i].id = ids[j]
      BY <1>5, <2>a, <3>1
    <3> QED
      BY <2>0, <3>2, <3>3
  <2>2. CASE ~(i <= Len(pad))
    <3>1. /\ ~(j <= Len(ids)) /\ i - Len(pad) \in 1..n /\ j - Len(ids) \in 1..n
      BY <1>0, <2>a, <2>b, <2>2
    <3>2. new[i] = ms[i - Len(pad)] /\ all[j] = ns[j - Len(ids)]
      BY <1>3, <1>4, <2>0, <2>2, <3>1
    <3>3. new[i] = m /\ all[j] = m.id
      BY <1>1, <1>2, <3>1, <3>2
    <3> QED
      BY <2>0, <3>3
  <2> QED
    BY <2>1, <2>2
<1>8. all[Len(all)][1] # "post"
  <2>1. /\ Len(all) \in 1..(Len(ids) + n) /\ ~(Len(all) <= Len(ids)) /\ Len(all) - Len(ids) = n
        /\ n \in 1..n
    BY <1>0, <1>4
  <2>2. all[Len(all)] = m.id
    BY <1>2, <1>4, <2>1
  <2> QED
    BY <2>2
<1>9. KeepsNewest(new, all)
  BY <1>6, <1>7, <1>8 DEF KeepsNewest
<1> QED
  BY <1>3, <1>9 DEF new, all, ms, ns

-----------------------------------------------------------------------------
(***************************************************************************)
(* What a call does to the pad: nothing, or it posts a message or shares   *)
(* facts, or it marks messages as read.                                    *)
(***************************************************************************)

IsPad(r) == \E agents, pad : r = [agents |-> agents, pad |-> pad] /\ pad \in Seq(Message)

LEMMA StatusPad ==
  ASSUME NEW r, IsPad(r), NEW a, NEW status
  PROVE  LET c == WithStatus(r, a, status) IN IsPad(c) /\ c.pad = r.pad
<1>1. PICK agents, pad : r = [agents |-> agents, pad |-> pad] /\ pad \in Seq(Message)
  BY DEF IsPad
<1>2. WithStatus(r, a, status) = r \/ WithStatus(r, a, status) = [r EXCEPT !.agents[a] = status]
  BY DEF WithStatus
<1>3. [r EXCEPT !.agents[a] = status] = [agents |-> [agents EXCEPT ![a] = status], pad |-> pad]
  BY <1>1
<1> QED
  BY <1>1, <1>2, <1>3 DEF IsPad

LEMMA CleanPad ==
  ASSUME NEW r, IsPad(r), NEW c \in CleanedUp(r)
  PROVE  IsPad(c) /\ c.pad = r.pad
<1>1. PICK agents, pad : r = [agents |-> agents, pad |-> pad] /\ pad \in Seq(Message)
  BY DEF IsPad
<1>2. PICK old : c = [r EXCEPT !.agents = [a \in DOMAIN r.agents \ old |-> r.agents[a]]]
  BY DEF CleanedUp
<1>3. c = [agents |-> [a \in DOMAIN r.agents \ old |-> r.agents[a]], pad |-> pad]
  BY <1>1, <1>2
<1> QED
  BY <1>1, <1>3 DEF IsPad

LEMMA RegisterPad ==
  ASSUME NEW r, IsPad(r), NEW a
  PROVE  IsPad(Registered(r, a)) /\ Registered(r, a).pad = r.pad
<1>1. PICK agents, pad : r = [agents |-> agents, pad |-> pad] /\ pad \in Seq(Message)
  BY DEF IsPad
<1> DEFINE registered == [b \in DOMAIN agents \union {a} |-> IF b = a THEN "active" ELSE agents[b]]
<1>2. Registered(r, a) = [agents |-> registered, pad |-> pad]
  BY <1>1 DEF Registered
<1> HIDE DEF registered
<1>3. IsPad(Registered(r, a))
  BY <1>1, <1>2 DEF IsPad
<1> QED
  BY <1>1, <1>2, <1>3

\* What a call adds is the newest of the pad that it leaves.
Adds(r, c, ids) ==
  IsPad(c) /\ \A old \in Seq(Id) : KeepsNewest(r.pad, old) => KeepsNewest(c.pad, old \o ids)

LEMMA NewIds ==
  ASSUME agentCalls \in Nat, agentCalls < MaxAgentCalls
  PROVE  PostId \in Id /\ FactId \in Id /\ FactId[1] = "knowledge"
BY AgentAssumption DEF PostId, FactId, Id

LEMMA PostPad ==
  ASSUME NEW r, IsPad(r), NEW a \in Agent, NEW to \in Agent \union {Everybody},
         agentCalls \in Nat, agentCalls < MaxAgentCalls
  PROVE  Adds(r, Posted(r, a, to), <<PostId>>)
<1> DEFINE m == [id |-> PostId, from |-> a, to |-> to, readers |-> {a}]
<1>1. PICK agents, pad : r = [agents |-> agents, pad |-> pad] /\ pad \in Seq(Message)
  BY DEF IsPad
<1>2. m \in Message /\ m.id = PostId
  BY NewIds DEF Message
<1>3. Posted(r, a, to) = [agents |-> agents, pad |-> Recent(Append(pad, m))]
  BY <1>1 DEF Posted
<1> HIDE DEF m
<1>4. Append(pad, m) \in Seq(Message)
  BY <1>1, <1>2
<1>5. Recent(Append(pad, m)) \in Seq(Message)
  BY <1>4, RecentIs
<1>6. IsPad(Posted(r, a, to))
  BY <1>3, <1>5 DEF IsPad
<1>7. ASSUME NEW old \in Seq(Id), KeepsNewest(r.pad, old)
      PROVE  KeepsNewest(Posted(r, a, to).pad, old \o <<PostId>>)
  <2>1. KeepsNewest(pad, old)
    BY <1>1, <1>7
  <2>2. KeepsNewest(Recent(Append(pad, m)), old \o <<m.id>>)
    BY <1>1, <1>2, <2>1, PostKeeps
  <2> QED
    BY <1>2, <1>3, <2>2
<1> QED
  BY <1>6, <1>7 DEF Adds

LEMMA SharePad ==
  ASSUME NEW r, IsPad(r), NEW a \in Agent, NEW n \in Nat \ {0},
         agentCalls \in Nat, agentCalls < MaxAgentCalls
  PROVE  Adds(r, SharedFacts(r, a, n), [i \in 1..n |-> FactId])
<1> DEFINE m == [id |-> FactId, from |-> a, to |-> Everybody, readers |-> {}]
<1>1. PICK agents, pad : r = [agents |-> agents, pad |-> pad] /\ pad \in Seq(Message)
  BY DEF IsPad
<1>2. m \in Message /\ m.id = FactId /\ m.id[1] = "knowledge"
  BY NewIds DEF Message
<1> DEFINE ms == [i \in 1..n |-> m]
<1>3. SharedFacts(r, a, n) = [agents |-> agents, pad |-> pad \o ms]
  <2>1. SharedFacts(r, a, n) = [r EXCEPT !.pad = @ \o ms]
    BY DEF SharedFacts
  <2> HIDE DEF ms
  <2> QED
    BY <1>1, <2>1
<1> HIDE DEF m
<1>4. pad \o [i \in 1..n |-> m] \in Seq(Message)
  <2>1. [i \in 1..n |-> m] \in Seq(Message)
    BY <1>2
  <2> QED
    BY <1>1, <2>1, ConcatProperties
<1>5. IsPad(SharedFacts(r, a, n))
  BY <1>3, <1>4 DEF IsPad
<1>6. ASSUME NEW old \in Seq(Id), KeepsNewest(r.pad, old)
      PROVE  KeepsNewest(SharedFacts(r, a, n).pad, old \o [i \in 1..n |-> FactId])
  <2>1. KeepsNewest(pad, old)
    BY <1>1, <1>6
  <2>2. KeepsNewest(pad \o [i \in 1..n |-> m], old \o [i \in 1..n |-> m.id])
    BY <1>1, <1>2, <2>1, ShareKeeps
  <2>3. SharedFacts(r, a, n).pad = pad \o ms
    BY <1>3
  <2>4. [i \in 1..n |-> m.id] = [i \in 1..n |-> FactId]
    BY <1>2
  <2> QED
    BY <2>2, <2>3, <2>4
<1> QED
  BY <1>5, <1>6 DEF Adds

LEMMA ChangedPad ==
  ASSUME NEW r, IsPad(r), NEW a \in Agent, NEW c \in Changed(r, a)
  PROVE  IsPad(c) /\ c.pad = r.pad
<1>1. CASE c = r
  BY <1>1
<1>2. CASE c \in CleanedUp(r)
  BY <1>2, CleanPad
<1>3. ASSUME NEW d \in CleanedUp(r), c = Registered(d, a) PROVE IsPad(c) /\ c.pad = r.pad
  BY <1>3, CleanPad, RegisterPad
<1>4. ASSUME NEW status, c = WithStatus(r, a, status) PROVE IsPad(c) /\ c.pad = r.pad
  BY <1>4, StatusPad
<1> QED
  BY <1>1, <1>2, <1>3, <1>4 DEF Changed

LEMMA ReadPad ==
  ASSUME NEW r, IsPad(r), NEW a \in Agent
  PROVE  LET c == MarkedRead(r, a) IN
         /\ IsPad(c) /\ Len(c.pad) = Len(r.pad)
         /\ \A i \in 1..Len(r.pad) : c.pad[i].id = r.pad[i].id
<1>1. PICK agents, pad : r = [agents |-> agents, pad |-> pad] /\ pad \in Seq(Message)
  BY DEF IsPad
<1>2. \A m \in Message : ReadBy(m, a) \in Message /\ ReadBy(m, a).id = m.id
  BY DEF Message, ReadBy
<1> DEFINE new == [i \in 1..Len(pad) |-> ReadBy(pad[i], a)]
<1>3. MarkedRead(r, a) = [agents |-> agents, pad |-> new]
  <2>1. r.pad = pad /\ DOMAIN pad = 1..Len(pad)
    BY <1>1, LenProperties
  <2>2. MarkedRead(r, a) = [r EXCEPT !.pad = new]
    BY <2>1 DEF MarkedRead
  <2> HIDE DEF new
  <2> QED
    BY <1>1, <2>2
<1>4. Len(pad) \in Nat /\ \A i \in 1..Len(pad) : pad[i] \in Message
  BY <1>1, ElementOfSeq, LenProperties
<1>5. new \in [1..Len(pad) -> Message] /\ \A i \in 1..Len(pad) : new[i].id = pad[i].id
  BY <1>2, <1>4
<1> HIDE DEF new
<1>6. new \in Seq(Message) /\ Len(new) = Len(pad)
  BY <1>4, <1>5, SeqDef
<1>7. r.pad = pad /\ MarkedRead(r, a).pad = new
  BY <1>1, <1>3
<1>8. IsPad(MarkedRead(r, a))
  BY <1>3, <1>6 DEF IsPad
<1> QED
  BY <1>5, <1>6, <1>7, <1>8

LEMMA Unpushed ==
  ASSUME NEW ids \in Seq(Id)
  PROVE  ids \o <<>> = ids
BY ConcatEmptySeq

\* What a call is to save, and what it has added.
LEMMA CallPad ==
  ASSUME NEW a \in Agent, Call(a) \/ ReadMessages(a), IsPad(registry), agentCalls \in Nat,
         agentCalls < MaxAgentCalls
  PROVE  \E c, ids : IsToSave(a, c, ids) /\ ids \in Seq(Id) /\ Adds(registry, c, ids)
<1>1. ASSUME NEW c \in Changed(registry, a), IsToSave(a, c, <<>>)
      PROVE  \E d, ids : IsToSave(a, d, ids) /\ ids \in Seq(Id) /\ Adds(registry, d, ids)
  <2>1. <<>> \in Seq(Id) /\ Adds(registry, c, <<>>)
    BY ChangedPad, Unpushed DEF Adds
  <2> QED
    BY <1>1, <2>1
<1>2. ASSUME NEW to \in Agent \union {Everybody}, IsToSave(a, Posted(registry, a, to), <<PostId>>)
      PROVE  \E d, ids : IsToSave(a, d, ids) /\ ids \in Seq(Id) /\ Adds(registry, d, ids)
  <2>1. <<PostId>> \in Seq(Id) /\ Adds(registry, Posted(registry, a, to), <<PostId>>)
    BY NewIds, PostPad
  <2> QED
    BY <1>2, <2>1
<1>3. ASSUME NEW to \in Agent,
             IsToSave(a, WithStatus(Posted(registry, a, to), a, "finished"), <<PostId>>)
      PROVE  \E d, ids : IsToSave(a, d, ids) /\ ids \in Seq(Id) /\ Adds(registry, d, ids)
  <2>1. <<PostId>> \in Seq(Id) /\ Adds(registry, Posted(registry, a, to), <<PostId>>)
    BY NewIds, PostPad
  <2>2. PICK c : c = WithStatus(Posted(registry, a, to), a, "finished")
    OBVIOUS
  <2>3. IsPad(c) /\ c.pad = Posted(registry, a, to).pad
    BY <2>1, <2>2, StatusPad DEF Adds
  <2>4. Adds(registry, c, <<PostId>>)
    BY <2>1, <2>3 DEF Adds
  <2> QED
    BY <1>3, <2>1, <2>2, <2>4
<1>4. ASSUME NEW n \in 1..MaxFacts, IsToSave(a, SharedFacts(registry, a, n), [i \in 1..n |-> FactId])
      PROVE  \E d, ids : IsToSave(a, d, ids) /\ ids \in Seq(Id) /\ Adds(registry, d, ids)
  <2>1. n \in Nat \ {0}
    BY AgentAssumption
  <2>2. [i \in 1..n |-> FactId] \in Seq(Id)
    BY <2>1, NewIds
  <2>3. Adds(registry, SharedFacts(registry, a, n), [i \in 1..n |-> FactId])
    BY <2>1, SharePad
  <2> QED
    BY <1>4, <2>2, <2>3
<1>5. ASSUME ReadMessages(a)
      PROVE  \E d, ids : IsToSave(a, d, ids) /\ ids \in Seq(Id) /\ Adds(registry, d, ids)
  <2>1. PICK c : c = MarkedRead(registry, a)
    OBVIOUS
  <2>2. /\ IsPad(c) /\ Len(c.pad) = Len(registry.pad)
        /\ \A i \in 1..Len(registry.pad) : c.pad[i].id = registry.pad[i].id
    BY <2>1, ReadPad
  <2>3. ASSUME NEW old \in Seq(Id), KeepsNewest(registry.pad, old)
        PROVE  KeepsNewest(c.pad, old \o <<>>)
    BY <2>2, <2>3, Unpushed DEF KeepsNewest
  <2>4. <<>> \in Seq(Id) /\ Adds(registry, c, <<>>)
    BY <2>2, <2>3 DEF Adds
  <2> QED
    BY <1>5, <2>1, <2>4 DEF ReadMessages
<1> QED
  BY <1>1, <1>2, <1>3, <1>4, <1>5 DEF Call

-----------------------------------------------------------------------------
(***************************************************************************)
(* The messages.  As long as calls do not overlap, one process at most is  *)
(* at work, and what it is to save is the newest of what was saved before  *)
(* and of what its own call has added.                                     *)
(***************************************************************************)

AgentSteps == {"ready", "loaded", "breaks", "locked", "cut", "written"}
ToBeSaved == {"loaded", "breaks", "locked", "cut"}

PadShape ==
  /\ agentProc \in [Agent -> AgentSteps]
  /\ loaded = [a \in Agent |-> loaded[a]] /\ \A a \in Agent : IsPad(loaded[a])
  /\ IsPad(registry)
  /\ agentCalls \in 0..MaxAgentCalls /\ posted \in Seq(Id) /\ pushed \in [Agent -> Seq(Id)]
  /\ clashed \in BOOLEAN

CallInv ==
  /\ \A a, b \in Agent : agentProc[a] # "ready" /\ agentProc[b] # "ready" => a = b
  /\ (\A a \in Agent : agentProc[a] # "cut") => KeepsNewest(registry.pad, posted)
  /\ \A a \in Agent : agentProc[a] \in ToBeSaved => KeepsNewest(loaded[a].pad, posted \o pushed[a])

PadInv == PadShape /\ (~clashed => CallInv)

LEMMA EmptyPad == IsPad(NewRegistry) /\ NewRegistry.pad = <<>> /\ KeepsNewest(<<>>, <<>>)
<1>1. NewRegistry = [agents |-> [a \in {} |-> "idle"], pad |-> <<>>] /\ <<>> \in Seq(Message)
  BY EmptySeq DEF NewRegistry
<1>2. IsPad(NewRegistry)
  BY <1>1 DEF IsPad
<1>3. Len(<<>>) = 0 /\ 0 <= MaxPad
  BY AgentAssumption
<1> QED
  BY <1>1, <1>2, <1>3, AgentAssumption DEF KeepsNewest

LEMMA PadInit == AgentInit => PadInv
<1> SUFFICES ASSUME AgentInit PROVE PadInv
  OBVIOUS
<1>1. /\ registry = NewRegistry /\ agentCalls = 0 /\ posted = <<>> /\ clashed = FALSE
      /\ pushed = [a \in Agent |-> <<>>]
      /\ agentProc = [a \in Agent |-> "ready"] /\ loaded = [a \in Agent |-> NewRegistry]
  BY DEF AgentInit
<1>2. PadShape
  <2>1. agentProc \in [Agent -> AgentSteps] /\ loaded = [a \in Agent |-> loaded[a]]
    BY <1>1 DEF AgentSteps
  <2>2. IsPad(registry) /\ \A a \in Agent : IsPad(loaded[a])
    BY <1>1, EmptyPad
  <2>3. agentCalls \in 0..MaxAgentCalls
    BY <1>1, AgentAssumption
  <2>5. clashed \in BOOLEAN
    BY <1>1
  <2>4. posted \in Seq(Id) /\ pushed \in [Agent -> Seq(Id)]
    BY <1>1, EmptySeq
  <2> QED
    BY <2>1, <2>2, <2>3, <2>4, <2>5 DEF PadShape
<1> QED
  BY <1>1, <1>2, EmptyPad DEF PadInv, CallInv, ToBeSaved

\* A process that saves nothing yet, or no more.
LEMMA QuietStep ==
  ASSUME PadInv, NEW a \in Agent, NEW step \in AgentSteps \ {"cut"}, agentProc[a] \notin {"ready", "cut"},
         step \in ToBeSaved => agentProc[a] \in ToBeSaved,
         agentProc' = [agentProc EXCEPT ![a] = step],
         UNCHANGED <<registry, agentCalls, posted, clashed>>,
         \/ UNCHANGED <<loaded, pushed>>
         \/ step = "ready" /\ IsToSave(a, NewRegistry, <<>>)
  PROVE  PadInv'
<1> USE DEF IsToSave
<1>0. <<>> \in Seq(Id)
  OBVIOUS
<1>1. PadShape'
  BY <1>0, EmptyPad DEF PadInv, PadShape
<1>2. \A b \in Agent : b # a => /\ agentProc'[b] = agentProc[b] /\ loaded'[b] = loaded[b]
                               /\ pushed'[b] = pushed[b]
  BY DEF PadInv, PadShape
<1>3. agentProc'[a] = step
  BY DEF PadInv, PadShape
<1>4. ASSUME ~clashed' PROVE CallInv'
  <2>1. CallInv
    BY <1>4 DEF PadInv
  <2>2. \A b, c \in Agent : agentProc'[b] # "ready" /\ agentProc'[c] # "ready" => b = c
    BY <1>2, <2>1 DEF CallInv
  <2>3. \A b \in Agent : agentProc'[b] # "cut"
    BY <1>2, <1>3, <2>1 DEF CallInv
  <2>4. \A b \in Agent : agentProc[b] # "cut"
    BY <1>2, <2>3
  <2>5. KeepsNewest(registry'.pad, posted')
    BY <2>1, <2>4 DEF CallInv
  <2>6. ASSUME NEW b \in Agent, agentProc'[b] \in ToBeSaved
        PROVE  KeepsNewest(loaded'[b].pad, posted' \o pushed'[b])
    <3>1. agentProc[b] \in ToBeSaved /\ loaded'[b] = loaded[b] /\ pushed'[b] = pushed[b]
      BY <1>2, <1>3, <2>6 DEF ToBeSaved
    <3> QED
      BY <2>1, <3>1 DEF CallInv
  <2> QED
    BY <2>2, <2>5, <2>6 DEF CallInv
<1> QED
  BY <1>1, <1>4 DEF PadInv

LEMMA PadLoads ==
  ASSUME PadInv, NEW a \in Agent, Call(a) \/ ReadMessages(a) PROVE PadInv'
<1>1. /\ agentProc[a] = "ready" /\ agentCalls \in Nat /\ agentCalls < MaxAgentCalls
      /\ agentCalls' = agentCalls + 1 /\ UNCHANGED <<registry, posted>>
      /\ agentProc' = [agentProc EXCEPT ![a] = "loaded"]
      /\ clashed' = (clashed \/ \E b \in Agent : agentProc[b] # "ready")
  BY AgentAssumption DEF Call, ReadMessages, Loads, PadInv, PadShape
<1>3. IsPad(registry)
  BY DEF PadInv, PadShape
<1>2. PICK c, ids : IsToSave(a, c, ids) /\ ids \in Seq(Id) /\ Adds(registry, c, ids)
  BY <1>1, <1>3, CallPad
<1>4. IsPad(c) /\ loaded' = [loaded EXCEPT ![a] = c] /\ pushed' = [pushed EXCEPT ![a] = ids]
  BY <1>2 DEF Adds, IsToSave
<1>5. PadShape'
  <2>1. PadShape
    BY DEF PadInv
  <2>2. agentProc' \in [Agent -> AgentSteps] /\ agentCalls' \in 0..MaxAgentCalls
    BY <1>1, <2>1, AgentAssumption DEF PadShape, AgentSteps
  <2>3. loaded' = [b \in Agent |-> loaded'[b]] /\ \A b \in Agent : IsPad(loaded'[b])
    BY <1>4, <2>1 DEF PadShape
  <2>4. pushed' \in [Agent -> Seq(Id)]
    BY <1>2, <1>4, <2>1 DEF PadShape
  <2>5. IsPad(registry') /\ posted' \in Seq(Id) /\ clashed' \in BOOLEAN
    BY <1>1, <2>1 DEF PadShape
  <2> QED
    BY <2>2, <2>3, <2>4, <2>5 DEF PadShape
<1>6. ASSUME ~clashed' PROVE CallInv'
  <2>1. ~clashed /\ CallInv /\ \A b \in Agent : agentProc[b] = "ready"
    BY <1>1, <1>6 DEF PadInv
  <2>2. KeepsNewest(registry.pad, posted) /\ posted \in Seq(Id)
    BY <2>1 DEF CallInv, PadInv, PadShape
  <2>3. agentProc'[a] = "loaded" /\ \A b \in Agent : b # a => agentProc'[b] = "ready"
    BY <1>1, <2>1 DEF PadInv, PadShape
  <2>4. loaded'[a] = c /\ pushed'[a] = ids
    BY <1>4 DEF PadInv, PadShape
  <2>5. KeepsNewest(registry'.pad, posted')
    BY <1>1, <2>2
  <2>6. KeepsNewest(loaded'[a].pad, posted' \o pushed'[a])
    BY <1>1, <1>2, <2>2, <2>4 DEF Adds
  <2> QED
    BY <2>3, <2>5, <2>6 DEF CallInv, ToBeSaved
<1> QED
  BY <1>5, <1>6 DEF PadInv

LEMMA PadIsCut ==
  ASSUME PadInv, NEW a \in Agent, CutRegistry(a) PROVE PadInv'
<1>1. /\ agentProc[a] = "locked" /\ agentProc' = [agentProc EXCEPT ![a] = "cut"]
      /\ registry' = NewRegistry /\ UNCHANGED <<loaded, pushed, agentCalls, posted, clashed>>
  BY DEF CutRegistry, AgentGoes
<1>2. PadShape'
  BY <1>1, EmptyPad DEF PadInv, PadShape, AgentSteps
<1>3. agentProc'[a] = "cut" /\ \A b \in Agent : b # a => agentProc'[b] = agentProc[b]
  BY <1>1 DEF PadInv, PadShape
<1>4. ASSUME ~clashed' PROVE CallInv'
  <2>1. CallInv
    BY <1>1, <1>4 DEF PadInv
  <2>2. \A b \in Agent : agentProc'[b] \in ToBeSaved => agentProc[b] \in ToBeSaved
    BY <1>1, <1>3 DEF ToBeSaved
  <2>3. \A b \in Agent : agentProc'[b] \in ToBeSaved =>
                          KeepsNewest(loaded'[b].pad, posted' \o pushed'[b])
    BY <1>1, <2>1, <2>2 DEF CallInv
  <2>4. \A b, c \in Agent : agentProc'[b] # "ready" /\ agentProc'[c] # "ready" => b = c
    BY <1>1, <1>3, <2>1 DEF CallInv
  <2> QED
    BY <1>1, <1>3, <2>1, <2>3, <2>4 DEF CallInv
<1> QED
  BY <1>2, <1>4 DEF PadInv

LEMMA PadWrites ==
  ASSUME PadInv, NEW a \in Agent, WriteRegistry(a) PROVE PadInv'
<1>1. /\ agentProc[a] = "cut" /\ agentProc' = [agentProc EXCEPT ![a] = "written"]
      /\ registry' = loaded[a] /\ loaded' = [loaded EXCEPT ![a] = NewRegistry]
      /\ posted' = posted \o pushed[a] /\ pushed' = [pushed EXCEPT ![a] = <<>>]
      /\ UNCHANGED <<agentCalls, clashed>>
  BY DEF WriteRegistry, AgentGoes, IsToSave
<1>2. posted' \in Seq(Id) /\ pushed' \in [Agent -> Seq(Id)]
  <2>1. posted \in Seq(Id) /\ pushed[a] \in Seq(Id) /\ <<>> \in Seq(Id)
    BY DEF PadInv, PadShape
  <2> QED
    BY <1>1, <2>1, ConcatProperties DEF PadInv, PadShape
<1>3. PadShape'
  BY <1>1, <1>2, EmptyPad DEF PadInv, PadShape, AgentSteps
<1>4. agentProc'[a] = "written" /\ \A b \in Agent : b # a => agentProc'[b] = agentProc[b]
  BY <1>1 DEF PadInv, PadShape
<1>5. ASSUME ~clashed' PROVE CallInv'
  <2>1. CallInv
    BY <1>1, <1>5 DEF PadInv
  <2>2. \A b \in Agent : b # a => agentProc'[b] = "ready"
    BY <1>1, <1>4, <2>1 DEF CallInv
  <2>3. KeepsNewest(registry'.pad, posted')
    BY <1>1, <2>1 DEF CallInv, ToBeSaved
  <2> QED
    BY <1>4, <2>2, <2>3 DEF CallInv, ToBeSaved
<1> QED
  BY <1>3, <1>5 DEF PadInv

LEMMA PadKilled ==
  ASSUME PadInv, NEW a \in Agent, KillAgent(a) PROVE PadInv'
<1>1. CASE agentProc[a] = "cut"
  <2>1. clashed'
    BY <1>1 DEF KillAgent
  <2>2. PadShape'
    <3>1. <<>> \in Seq(Id)
      OBVIOUS
    <3> QED
      BY <3>1, EmptyPad DEF KillAgent, AgentGoes, IsToSave, PadInv, PadShape, AgentSteps
  <2> QED
    BY <2>1, <2>2 DEF PadInv
<1>2. CASE agentProc[a] # "cut"
  <2>1. /\ agentProc[a] # "ready" /\ agentProc' = [agentProc EXCEPT ![a] = "ready"]
        /\ IsToSave(a, NewRegistry, <<>>) /\ UNCHANGED <<registry, agentCalls, posted>>
    BY DEF KillAgent, AgentGoes
  <2>2. clashed' = clashed
    BY <1>2 DEF KillAgent, PadInv, PadShape
  <2> QED
    BY <1>2, <2>1, <2>2, QuietStep DEF AgentSteps, ToBeSaved
<1> QED
  BY <1>1, <1>2

LEMMA PadNext == PadInv /\ [AgentNext]_agentVars => PadInv'
<1> SUFFICES ASSUME PadInv, [AgentNext]_agentVars PROVE PadInv'
  OBVIOUS
<1>1. ASSUME NEW a \in Agent, GetRegistryLock(a) \/ FindsStale(a) \/ RemovesLock(a) \/ UnlockRegistry(a)
      PROVE  PadInv'
  <2>1. PICK step \in AgentSteps \ {"cut"} :
          /\ agentProc[a] \notin {"ready", "cut"} /\ (step \in ToBeSaved => agentProc[a] \in ToBeSaved)
          /\ agentProc' = [agentProc EXCEPT ![a] = step]
    BY <1>1 DEF GetRegistryLock, FindsStale, RemovesLock, UnlockRegistry, AgentGoes, AgentSteps, ToBeSaved
  <2>2. UNCHANGED <<registry, loaded, pushed, agentCalls, posted, clashed>>
    BY <1>1 DEF GetRegistryLock, FindsStale, RemovesLock, UnlockRegistry
  <2> QED
    BY <2>1, <2>2, QuietStep
<1>2. ASSUME NEW a \in Agent, GiveUp(a) PROVE PadInv'
  BY <1>2, QuietStep DEF GiveUp, AgentGoes, AgentSteps, ToBeSaved
<1>3. CASE RegistryLockGetsOld \/ UNCHANGED agentVars
  <2>1. UNCHANGED <<registry, agentProc, loaded, pushed, agentCalls, posted, clashed>>
    BY <1>3 DEF RegistryLockGetsOld, agentVars
  <2>2. PadShape'
    BY <2>1 DEF PadInv, PadShape
  <2>3. ASSUME ~clashed' PROVE CallInv'
    <3>1. CallInv
      BY <2>1, <2>3 DEF PadInv
    <3>2. (\A a \in Agent : agentProc'[a] # "cut") => KeepsNewest(registry'.pad, posted')
      BY <2>1, <3>1 DEF CallInv
    <3>3. \A a \in Agent : agentProc'[a] \in ToBeSaved =>
                            KeepsNewest(loaded'[a].pad, posted' \o pushed'[a])
      BY <2>1, <3>1 DEF CallInv
    <3>4. \A a, b \in Agent : agentProc'[a] # "ready" /\ agentProc'[b] # "ready" => a = b
      BY <2>1, <3>1 DEF CallInv
    <3> QED
      BY <2>1, <3>1, <3>2, <3>3, <3>4 DEF CallInv
  <2> QED
    BY <2>2, <2>3 DEF PadInv
<1> QED
  BY <1>1, <1>2, <1>3, PadLoads, PadIsCut, PadWrites, PadKilled DEF AgentNext, AgentStep

\* While calls of ctx_agent do not overlap and none is killed as it writes, the scratchpad
\* is the newest of the messages and facts whose save succeeded, in their order, and a post
\* drops none but the oldest beyond MaxPad, for any number of agents, calls, facts and
\* messages kept (post_message, share_knowledge, AgentRegistry::save).
THEOREM MessagesKept == AgentSpec => []MessagesStay
<1>1. PadInv => MessagesStay
  BY DEF PadInv, CallInv, MessagesStay
<1> QED
  BY <1>1, PadInit, PadNext, PTL DEF AgentSpec

-----------------------------------------------------------------------------
(***************************************************************************)
(* The types of the registry.                                              *)
(***************************************************************************)
AreAgents(agents) ==
  DOMAIN agents \subseteq Agent /\ \A b \in DOMAIN agents : agents[b] \in Status

\* A registry, and its agents by themselves; IsPad has its messages.
Typed(r) == IsPad(r) /\ AreAgents(r.agents)

LEMMA PairTyped ==
  ASSUME NEW agents, AreAgents(agents), NEW pad \in Seq(Message)
  PROVE  Typed([agents |-> agents, pad |-> pad])
<1>1. PICK r : r = [agents |-> agents, pad |-> pad]
  OBVIOUS
<1>2. IsPad(r)
  BY <1>1 DEF IsPad
<1>3. r.agents = agents /\ r.pad = pad
  BY <1>1
<1> QED
  BY <1>1, <1>2, <1>3 DEF Typed

LEMMA NewTyped == Typed(NewRegistry)
<1> DEFINE none == [a \in {} |-> "idle"]
<1>1. << >> \in Seq(Message)
  OBVIOUS
<1>2. NewRegistry = [agents |-> none, pad |-> << >>] /\ DOMAIN none = {}
  BY DEF NewRegistry
<1>3. AreAgents(none)
  BY DEF AreAgents
<1> HIDE DEF none
<1> QED
  BY <1>1, <1>2, <1>3, PairTyped

LEMMA StatusTyped ==
  ASSUME NEW r, Typed(r), NEW a \in Agent, NEW status \in Status
  PROVE  Typed(WithStatus(r, a, status))
<1>1. PICK agents, pad : r = [agents |-> agents, pad |-> pad] /\ pad \in Seq(Message)
  BY DEF Typed, IsPad
<1>2. CASE a \in DOMAIN r.agents
  <2>1. PICK new : new = [agents EXCEPT ![a] = status]
    OBVIOUS
  <2>2. WithStatus(r, a, status) = [agents |-> new, pad |-> pad]
    BY <1>1, <1>2, <2>1 DEF WithStatus
  <2>3. AreAgents(new)
    BY <1>1, <2>1 DEF Typed, AreAgents
  <2> QED
    BY <1>1, <2>2, <2>3, PairTyped DEF Typed
<1>3. CASE a \notin DOMAIN r.agents
  BY <1>3 DEF WithStatus
<1> QED
  BY <1>2, <1>3

LEMMA CleanTyped ==
  ASSUME NEW r, Typed(r), NEW c \in CleanedUp(r)
  PROVE  Typed(c)
<1>1. PICK agents, pad : r = [agents |-> agents, pad |-> pad] /\ pad \in Seq(Message)
  BY DEF Typed, IsPad
<1>2. PICK old : c = [r EXCEPT !.agents = [a \in DOMAIN r.agents \ old |-> r.agents[a]]]
  BY DEF CleanedUp
<1>3. PICK new : new = [a \in DOMAIN agents \ old |-> agents[a]]
  OBVIOUS
<1>4. c = [agents |-> new, pad |-> pad]
  BY <1>1, <1>2, <1>3
<1>5. AreAgents(new)
  BY <1>1, <1>3 DEF Typed, AreAgents
<1> QED
  BY <1>1, <1>4, <1>5, PairTyped DEF Typed

LEMMA RegisterTyped ==
  ASSUME NEW r, Typed(r), NEW a \in Agent
  PROVE  Typed(Registered(r, a))
<1>1. PICK agents, pad : r = [agents |-> agents, pad |-> pad] /\ pad \in Seq(Message)
  BY DEF Typed, IsPad
<1>2. PICK new : new = [b \in DOMAIN agents \union {a} |-> IF b = a THEN "active" ELSE agents[b]]
  OBVIOUS
<1>3. Registered(r, a) = [agents |-> new, pad |-> pad]
  BY <1>1, <1>2 DEF Registered
<1>4. AreAgents(new)
  BY <1>1, <1>2 DEF Typed, AreAgents, Status
<1> QED
  BY <1>1, <1>3, <1>4, PairTyped DEF Typed

LEMMA PostTyped ==
  ASSUME NEW r, Typed(r), NEW a \in Agent, NEW to \in Agent \union {Everybody},
         agentCalls \in Nat, agentCalls < MaxAgentCalls
  PROVE  Typed(Posted(r, a, to))
<1>1. PICK agents, pad : r = [agents |-> agents, pad |-> pad] /\ pad \in Seq(Message)
  BY DEF Typed, IsPad
<1>2. IsPad(Posted(r, a, to))
  BY PostPad DEF Typed, Adds
<1>3. Posted(r, a, to).agents = agents
  BY <1>1 DEF Posted
<1> QED
  BY <1>1, <1>2, <1>3 DEF Typed

LEMMA ShareTyped ==
  ASSUME NEW r, Typed(r), NEW a \in Agent, NEW n \in Nat \ {0},
         agentCalls \in Nat, agentCalls < MaxAgentCalls
  PROVE  Typed(SharedFacts(r, a, n))
<1>1. PICK agents, pad : r = [agents |-> agents, pad |-> pad] /\ pad \in Seq(Message)
  BY DEF Typed, IsPad
<1>2. IsPad(SharedFacts(r, a, n))
  BY SharePad DEF Typed, Adds
<1>3. SharedFacts(r, a, n).agents = agents
  BY <1>1 DEF SharedFacts
<1> QED
  BY <1>1, <1>2, <1>3 DEF Typed

LEMMA ChangedTyped ==
  ASSUME NEW r, Typed(r), NEW a \in Agent, NEW c \in Changed(r, a) \union {MarkedRead(r, a)}
  PROVE  Typed(c)
<1>2. CASE c = MarkedRead(r, a)
  <2>1. IsPad(c) /\ Len(c.pad) = Len(r.pad)
    BY <1>2, ReadPad DEF Typed
  <2>2. PICK agents, pad : r = [agents |-> agents, pad |-> pad]
    BY DEF Typed, IsPad
  <2>3. c.agents = agents /\ r.agents = agents
    BY <1>2, <2>2 DEF MarkedRead
  <2> QED
    BY <2>1, <2>3 DEF Typed
<1>3. ASSUME NEW d \in CleanedUp(r), c = Registered(d, a) PROVE Typed(c)
  <2>1. Typed(d)
    BY CleanTyped
  <2> QED
    BY <1>3, <2>1, RegisterTyped
<1> QED
  BY <1>2, <1>3, CleanTyped, StatusTyped DEF Changed

\* Every call is to save a registry, and ids of what it added.
LEMMA CallTyped ==
  ASSUME NEW a \in Agent, Call(a) \/ ReadMessages(a), Typed(registry), agentCalls \in Nat,
         agentCalls < MaxAgentCalls
  PROVE  \E c, ids : IsToSave(a, c, ids) /\ Typed(c) /\ ids \in Seq(Id)
<1>1. ASSUME NEW c \in Changed(registry, a) \union {MarkedRead(registry, a)}, IsToSave(a, c, <<>>)
      PROVE  \E d, ids : IsToSave(a, d, ids) /\ Typed(d) /\ ids \in Seq(Id)
  <2>1. <<>> \in Seq(Id) /\ Typed(c)
    BY ChangedTyped
  <2> QED
    BY <1>1, <2>1
<1>2. ASSUME NEW to \in Agent \union {Everybody},
             \/ IsToSave(a, Posted(registry, a, to), <<PostId>>)
             \/ IsToSave(a, WithStatus(Posted(registry, a, to), a, "finished"), <<PostId>>)
      PROVE  \E d, ids : IsToSave(a, d, ids) /\ Typed(d) /\ ids \in Seq(Id)
  <2>1. <<PostId>> \in Seq(Id) /\ Typed(Posted(registry, a, to))
    BY NewIds, PostTyped
  <2>2. Typed(WithStatus(Posted(registry, a, to), a, "finished"))
    <3>1. "finished" \in Status
      BY DEF Status
    <3> QED
      BY <2>1, <3>1, StatusTyped
  <2> QED
    BY <1>2, <2>1, <2>2
<1>3. ASSUME NEW n \in 1..MaxFacts, IsToSave(a, SharedFacts(registry, a, n), [i \in 1..n |-> FactId])
      PROVE  \E d, ids : IsToSave(a, d, ids) /\ Typed(d) /\ ids \in Seq(Id)
  <2>1. n \in Nat \ {0}
    BY AgentAssumption
  <2>2. [i \in 1..n |-> FactId] \in Seq(Id)
    BY <2>1, NewIds
  <2>3. Typed(SharedFacts(registry, a, n))
    BY <2>1, ShareTyped
  <2> QED
    BY <1>3, <2>2, <2>3
<1> QED
  BY <1>1, <1>2, <1>3 DEF Call, ReadMessages

AgentTypeInv ==
  /\ Typed(registry) /\ DOMAIN loaded = Agent /\ \A a \in Agent : Typed(loaded[a])
  /\ agentCalls \in 0..MaxAgentCalls /\ posted \in Seq(Id) /\ pushed \in [Agent -> Seq(Id)]
  /\ clashed \in BOOLEAN

\* A step that makes nothing of a registry but what is there.
LEMMA SameRegistries ==
  ASSUME AgentTypeInv, NEW a \in Agent, registry' \in {registry, NewRegistry},
         UNCHANGED <<loaded, pushed>> \/ IsToSave(a, NewRegistry, <<>>),
         UNCHANGED <<agentCalls, posted>>, clashed' \in BOOLEAN
  PROVE  AgentTypeInv'
<1>1. <<>> \in Seq(Id)
  OBVIOUS
<1> QED
  BY <1>1, NewTyped DEF AgentTypeInv, IsToSave

LEMMA AgentTypeStep ==
  ASSUME AgentTypeInv, NEW a \in Agent, AgentStep(a)
  PROVE  AgentTypeInv'
<1>0. clashed' \in BOOLEAN
  BY DEF AgentTypeInv, AgentStep, Call, ReadMessages, Loads, GetRegistryLock, GiveUp, FindsStale,
         RemovesLock, CutRegistry, WriteRegistry, UnlockRegistry, KillAgent
<1>1. CASE Call(a) \/ ReadMessages(a)
  <2>1. /\ agentCalls < MaxAgentCalls /\ agentCalls' = agentCalls + 1
        /\ UNCHANGED <<registry, posted>>
    BY <1>1 DEF Call, ReadMessages, Loads
  <2>2. agentCalls \in Nat /\ agentCalls' \in 0..MaxAgentCalls
    BY <2>1, AgentAssumption DEF AgentTypeInv
  <2>3. Typed(registry)
    BY DEF AgentTypeInv
  <2>4. PICK c, ids : IsToSave(a, c, ids) /\ Typed(c) /\ ids \in Seq(Id)
    BY <1>1, <2>1, <2>2, <2>3, CallTyped
  <2> QED
    BY <1>0, <2>1, <2>2, <2>4 DEF AgentTypeInv, IsToSave
<1>2. CASE WriteRegistry(a)
  <2>1. registry' = loaded[a] /\ IsToSave(a, NewRegistry, <<>>)
        /\ agentCalls' = agentCalls /\ posted' = posted \o pushed[a]
    BY <1>2 DEF WriteRegistry
  <2>2. posted' \in Seq(Id) /\ <<>> \in Seq(Id)
    <3>1. posted \in Seq(Id) /\ pushed[a] \in Seq(Id)
      BY DEF AgentTypeInv
    <3> QED
      BY <2>1, <3>1, ConcatProperties
  <2> QED
    BY <1>0, <2>1, <2>2, NewTyped DEF AgentTypeInv, IsToSave
<1>3. CASE GetRegistryLock(a) \/ FindsStale(a) \/ RemovesLock(a) \/ UnlockRegistry(a)
  BY <1>0, <1>3, SameRegistries DEF GetRegistryLock, FindsStale, RemovesLock, UnlockRegistry
<1>4. CASE GiveUp(a) \/ KillAgent(a)
  BY <1>0, <1>4, SameRegistries DEF GiveUp, KillAgent
<1>5. CASE CutRegistry(a)
  BY <1>0, <1>5, SameRegistries DEF CutRegistry
<1> QED
  BY <1>1, <1>2, <1>3, <1>4, <1>5 DEF AgentStep

\* The registry and the copies that are to be saved hold known agents and messages, whoever
\* was killed or overtaken.
THEOREM AgentTypeCorrect == AgentSpec => []AgentTypeOK
<1>1. AgentInit => AgentTypeInv
  <2> SUFFICES ASSUME AgentInit PROVE AgentTypeInv
    OBVIOUS
  <2>1. << >> \in Seq(Id) /\ 0 \in 0..MaxAgentCalls
    BY AgentAssumption
  <2>2. posted = << >> /\ pushed = [a \in Agent |-> <<>>] /\ agentCalls = 0 /\ clashed = FALSE /\ registry = NewRegistry
        /\ loaded = [a \in Agent |-> NewRegistry]
    BY DEF AgentInit
  <2> QED
    BY <2>1, <2>2, NewTyped DEF AgentTypeInv
<1>2. AgentTypeInv /\ [AgentNext]_agentVars => AgentTypeInv'
  <2>1. ASSUME AgentTypeInv, RegistryLockGetsOld \/ UNCHANGED agentVars PROVE AgentTypeInv'
    BY <2>1 DEF RegistryLockGetsOld, agentVars, AgentTypeInv
  <2> QED
    BY <2>1, AgentTypeStep DEF AgentNext
<1>3. AgentTypeInv /\ LockInv => AgentTypeOK
  <2> SUFFICES ASSUME AgentTypeInv, LockInv PROVE AgentTypeOK
    OBVIOUS
  <2>1. \A r : Typed(r) => IsRegistry(r)
    BY DEF Typed, IsPad, AreAgents, IsRegistry
  <2>2. agentLock \in RegistryLock!LockType(Agent, "nobody")
    BY DEF LockInv, LockShape, RegistryLock!LockType
  <2> QED
    BY <2>1, <2>2 DEF AgentTypeInv, LockInv, LockShape, AgentTypeOK
<1> QED
  BY <1>1, <1>2, <1>3, OwnInit, OwnNext, PTL DEF AgentSpec
==============================================================================
