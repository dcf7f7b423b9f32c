---------------------------- MODULE WorkflowRun ----------------------------
(***************************************************************************)
(* The workflow of a project and the gate it puts before the tools.        *)
(*                                                                         *)
(* The run is one file for all MCP servers.  A call of ctx_workflow loads  *)
(* it, changes it and saves it while it holds the session of its server;   *)
(* then, without any lock, it reads the file again and installs what it    *)
(* found as the gate of the server.  The gate decides which tools may be   *)
(* called; a tool that is answered by the host is called past it.  What a  *)
(* local tool call leaves in the session is the evidence transitions need. *)
(***************************************************************************)
EXTENDS Naturals, Sequences, FiniteSets

CONSTANTS
  WfServers,
  WfCalls,      \* calls of ctx_workflow that may be in progress at once
  ServerOf,     \* [WfCalls -> WfServers]
  WfStates, WfInitial, WfTransitions,
  Needs,        \* [WfStates -> the evidence a state requires]
  AllowedTools, \* [WfStates -> the tools it allows]
  Evidence,     \* keys of evidence; a local tool is the key of its receipt
  LocalTools,
  MaxWfCalls    \* bound: calls of ctx_workflow over all

ASSUME WorkflowAssumption ==
  /\ ServerOf \in [WfCalls -> WfServers]
  \* validate_spec
  /\ WfInitial \in WfStates /\ WfTransitions \subseteq WfStates \X WfStates
  /\ Needs \in [WfStates -> SUBSET Evidence] /\ AllowedTools \in [WfStates -> SUBSET LocalTools]
  /\ LocalTools \subseteq Evidence /\ MaxWfCalls \in Nat

VARIABLES
  runFile,    \* active.json, see TempFile; NoRun when there is none
  runTemp, runTempThere, runHandle,
  wfCall,     \* the control state of each call
  runCopy,    \* the run a call is to save, or has read for the gate
  receipts,   \* the evidence in the session of each server
  gate,       \* the run each server has installed
  wfCalls

\* History, read by properties only.
VARIABLES
  known,      \* evidence that was ever recorded
  lastBy,     \* the server of the last call that ended
  mingled     \* whether two calls were ever in progress at once

runVars == <<runFile, runTemp, runTempThere, runHandle>>
workflowHistory == <<known, lastBy, mingled>>
workflowVars == <<runVars, wfCall, runCopy, receipts, gate, wfCalls, workflowHistory>>

NoRun == [walk |-> << >>, evidence |-> {}]
NewRun == [walk |-> <<WfInitial>>, evidence |-> {}]
Current(run) == run.walk[Len(run.walk)]

RunFile == INSTANCE TempFile WITH Users <- WfCalls, Nothing <- NoRun,
             file <- runFile, temp <- runTemp, there <- runTempThere, handle <- runHandle

WorkflowInit ==
  /\ runFile = RunFile!Whole(NoRun) /\ runTemp = RunFile!Torn /\ runTempThere = FALSE
  /\ runHandle = RunFile!NoHandles
  /\ wfCall = [c \in WfCalls |-> "idle"] /\ runCopy = [c \in WfCalls |-> NoRun]
  /\ receipts = [s \in WfServers |-> {}] /\ gate = [s \in WfServers |-> NoRun]
  /\ wfCalls = 0 /\ known = {} /\ lastBy = "none" /\ mingled = FALSE

WfGoes(c, step) == wfCall' = [wfCall EXCEPT ![c] = step]

(***************************************************************************)
(* Tools.                                                                  *)
(***************************************************************************)

\* The session forgets its oldest evidence when there is too much.
Recorded(s, key) ==
  receipts' \in {[receipts EXCEPT ![s] = (@ \ {old}) \union {key}] : old \in Evidence \union {"none"}}

\* A tool the gate lets through leaves a receipt.
CallLocalTool(s, tool) ==
  /\ gate[s] # NoRun => tool \in AllowedTools[Current(gate[s])]
  /\ Recorded(s, tool) /\ known' = known \union {tool}
  /\ UNCHANGED <<runVars, wfCall, runCopy, gate, wfCalls, lastBy, mingled>>

(***************************************************************************)
(* ctx_workflow.                                                           *)
(***************************************************************************)

\* One call at a time has the session of the server.
HasSession(c) == wfCall[c] \in {"loaded", "open", "written"}

StartCall(c) ==
  /\ wfCall[c] = "idle" /\ wfCalls < MaxWfCalls
  /\ \A d \in WfCalls : ServerOf[d] = ServerOf[c] => ~HasSession(d)
  /\ wfCalls' = wfCalls + 1
  /\ mingled' = (mingled \/ \E d \in WfCalls : wfCall[d] # "idle")
  /\ UNCHANGED <<runTemp, runTempThere, runHandle, gate, lastBy>>

Saves(c, run) ==
  /\ runCopy' = [runCopy EXCEPT ![c] = run] /\ WfGoes(c, "loaded")
  /\ UNCHANGED runFile

StartRun(c) == StartCall(c) /\ Saves(c, NewRun) /\ UNCHANGED <<receipts, known>>

Active == runFile.whole /\ runFile.data # NoRun

\* Mutant: complete does not ask for the evidence.
MutCanTransition(run, to, evidence) == <<Current(run), to>> \in WfTransitions

CanTransition(run, to, evidence) ==
  <<Current(run), to>> \in WfTransitions /\ Needs[to] \subseteq evidence

MovedTo(run, to) == [walk |-> Append(run.walk, to), evidence |-> run.evidence]
Backed(run, key) == [walk |-> run.walk, evidence |-> run.evidence \union {key}]

\* transition, and complete, which is the transition to the state "done".
Transition(c, to) ==
  LET run == runFile.data IN
  /\ StartCall(c) /\ Active
  /\ CanTransition(run, to, run.evidence \union receipts[ServerOf[c]])
  /\ Saves(c, MovedTo(run, to))
  /\ UNCHANGED <<receipts, known>>

\* The evidence is in the session whether or not the save succeeds.
AddEvidence(c, key) ==
  LET run == runFile.data IN
  /\ StartCall(c) /\ Active
  /\ Saves(c, Backed(run, key))
  /\ Recorded(ServerOf[c], key) /\ known' = known \union {key}

\* stop removes the file.
StopRun(c) ==
  /\ StartCall(c)
  /\ runFile' = RunFile!Whole(NoRun) /\ WfGoes(c, "reload")
  /\ UNCHANGED <<runCopy, receipts, known>>

\* status and lists, and what is refused.
LookOnly(c) ==
  /\ StartCall(c) /\ WfGoes(c, "reload")
  /\ UNCHANGED <<runFile, runCopy, receipts, known>>

OpenRun(c) ==
  /\ wfCall[c] = "loaded" /\ RunFile!OpensTemp(c) /\ WfGoes(c, "open")
  /\ UNCHANGED <<runCopy, receipts, gate, wfCalls, workflowHistory>>

WriteRun(c) ==
  /\ wfCall[c] = "open" /\ RunFile!WritesTemp(c, runCopy[c]) /\ WfGoes(c, "written")
  /\ UNCHANGED <<runCopy, receipts, gate, wfCalls, workflowHistory>>

RenameRun(c) ==
  /\ wfCall[c] = "written" /\ (RunFile!RenamesTemp \/ RunFile!RenameFails) /\ WfGoes(c, "reload")
  /\ UNCHANGED <<runCopy, receipts, gate, wfCalls, workflowHistory>>

\* load_active().ok().flatten(): a file that does not parse is no run.
ReloadRun(c) ==
  /\ wfCall[c] = "reload" /\ WfGoes(c, "install")
  /\ runCopy' = [runCopy EXCEPT ![c] = runFile.data]
  /\ UNCHANGED <<runVars, receipts, gate, wfCalls, workflowHistory>>

\* Mutant: a run that was stopped stays installed.
MutInstallGate(c) ==
  /\ wfCall[c] = "install" /\ WfGoes(c, "idle")
  /\ gate' = IF runCopy[c] = NoRun THEN gate ELSE [gate EXCEPT ![ServerOf[c]] = runCopy[c]]
  /\ runCopy' = [runCopy EXCEPT ![c] = NoRun] /\ lastBy' = ServerOf[c]
  /\ UNCHANGED <<runVars, receipts, wfCalls, known, mingled>>

InstallGate(c) ==
  /\ wfCall[c] = "install" /\ WfGoes(c, "idle")
  /\ gate' = [gate EXCEPT ![ServerOf[c]] = runCopy[c]]
  /\ runCopy' = [runCopy EXCEPT ![c] = NoRun] /\ lastBy' = ServerOf[c]
  /\ UNCHANGED <<runVars, receipts, wfCalls, known, mingled>>

\* A server ends and another takes its place: it loads the run, and the session as it
\* was saved some time before.
RestartServer(s) ==
  /\ gate' = [gate EXCEPT ![s] = runFile.data]
  /\ \E kept \in SUBSET receipts[s] : receipts' = [receipts EXCEPT ![s] = kept]
  /\ wfCall' = [c \in WfCalls |-> IF ServerOf[c] = s THEN "idle" ELSE wfCall[c]]
  /\ runCopy' = [c \in WfCalls |-> IF ServerOf[c] = s THEN NoRun ELSE runCopy[c]]
  /\ runHandle' = [c \in WfCalls |-> IF ServerOf[c] = s THEN "none" ELSE runHandle[c]]
  /\ lastBy' = s
  /\ mingled' = (mingled \/ \E c \in WfCalls : wfCall[c] # "idle" /\ ServerOf[c] # s)
  /\ UNCHANGED <<runFile, runTemp, runTempThere, wfCalls, known>>

WfCallStep(c) ==
  \/ StartRun(c) \/ (\E to \in WfStates : Transition(c, to))
  \/ (\E key \in Evidence : AddEvidence(c, key)) \/ StopRun(c) \/ LookOnly(c)
  \/ OpenRun(c) \/ WriteRun(c) \/ RenameRun(c) \/ ReloadRun(c) \/ InstallGate(c)

WorkflowNext ==
  \/ \E c \in WfCalls : WfCallStep(c)
  \/ \E s \in WfServers : RestartServer(s) \/ \E tool \in LocalTools : CallLocalTool(s, tool)

WorkflowSpec == WorkflowInit /\ [][WorkflowNext]_workflowVars

(***************************************************************************)
(* Properties.                                                             *)
(***************************************************************************)

Run == [walk : Seq(WfStates), evidence : SUBSET Evidence]

IsRunFile(f) == f = [whole |-> f.whole, data |-> f.data] /\ f.whole \in BOOLEAN /\ f.data \in Run

WorkflowTypeOK ==
  /\ IsRunFile(runFile) /\ IsRunFile(runTemp) /\ runTempThere \in BOOLEAN
  /\ runHandle \in RunFile!Handles
  /\ wfCall \in [WfCalls -> {"idle", "loaded", "open", "written", "reload", "install"}]
  /\ runCopy \in [WfCalls -> Run] /\ receipts \in [WfServers -> SUBSET Evidence]
  /\ gate \in [WfServers -> Run] /\ wfCalls \in 0..MaxWfCalls
  /\ known \subseteq Evidence /\ lastBy \in WfServers \union {"none"} /\ mingled \in BOOLEAN

\* The states of a run follow one another from the first by the transitions of the
\* workflow, and what each of them requires was recorded by somebody.
Walks(run) ==
  /\ run.walk # << >> => run.walk[1] = WfInitial
  /\ \A i \in 1..Len(run.walk) - 1 :
       /\ <<run.walk[i], run.walk[i + 1]>> \in WfTransitions
       /\ Needs[run.walk[i + 1]] \subseteq known

\* However the calls of several servers interleave on the one file, and whichever server
\* dies, the run on disk and every run a server goes by has walked its workflow
\* (handle_transition, handle_complete, can_transition).
RunsWalkTheWorkflow ==
  /\ Walks(runFile.data)
  /\ \A s \in WfServers : Walks(gate[s])

\* The gate of the server that made the last call is the run on disk, as long as no two
\* calls were in progress at once: the file is read again after the session was released.
GateIsCurrent ==
  (~mingled /\ \A c \in WfCalls : wfCall[c] = "idle") =>
     \A s \in WfServers : s = lastBy => gate[s] = runFile.data
=============================================================================
