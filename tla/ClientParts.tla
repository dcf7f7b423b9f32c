---------------------------- MODULE ClientParts ----------------------------
(***************************************************************************)
(* The components of the client that keep a state of their own, side by    *)
(* side.  They share no variable, so a behaviour runs one of them, picked  *)
(* in its first state, and the others stay as they were: a run checks each *)
(* of its components on all of their behaviours.                           *)
(***************************************************************************)
EXTENDS JournalSync, RepoMemorySync, TaskStore, IndexBuild, StatsFlush, AgentRegistry,
        ReadCache, ServerLocks, LoopDetector, SessionStore, WorkflowRun, GraphSearch,
        EditorConfig

CONSTANT Parts  \* the components that a run is about

ASSUME PartsAssumption ==
  Parts \subseteq {"journal", "repoMemory", "task", "index", "stats", "agent", "read", "lock",
                   "detector", "session", "workflow", "graph", "editor"}

VARIABLE active  \* the component that runs

partsVars == <<journalVars, repoMemoryVars, taskVars, indexVars, statsVars, agentVars,
               readVars, lockVars, detectorVars, sessionVars, workflowVars, graphVars, editorVars,
               active>>

PartsInit ==
  /\ active \in Parts
  /\ JournalInit /\ RepoMemoryInit /\ TaskInit /\ IndexInit /\ StatsInit /\ AgentInit
  /\ ReadInit /\ LockInit /\ DetectorInit /\ SessionInit /\ WorkflowInit
  \* A graph, a search and a format are picked only where they are looked at.
  /\ \/ active = "graph"
     \/ active # "graph" /\ edges = {} /\ search = "impact"
  /\ \/ active = "editor"
     \/ active # "editor" /\ format = "json"
  /\ GraphInit /\ EditorInit

\* All the others stay as they are.
Only(part) ==
  /\ active = part /\ UNCHANGED active
  /\ part # "journal" => UNCHANGED journalVars
  /\ part # "repoMemory" => UNCHANGED repoMemoryVars
  /\ part # "task" => UNCHANGED taskVars
  /\ part # "index" => UNCHANGED indexVars
  /\ part # "stats" => UNCHANGED statsVars
  /\ part # "agent" => UNCHANGED agentVars
  /\ part # "read" => UNCHANGED readVars
  /\ part # "lock" => UNCHANGED lockVars
  /\ part # "detector" => UNCHANGED detectorVars
  /\ part # "session" => UNCHANGED sessionVars
  /\ part # "workflow" => UNCHANGED workflowVars
  /\ part # "graph" => UNCHANGED graphVars
  /\ part # "editor" => UNCHANGED editorVars

PartsNext ==
  \/ Only("journal") /\ JournalNext
  \/ Only("repoMemory") /\ RepoMemoryNext
  \/ Only("task") /\ TaskNext
  \/ Only("index") /\ IndexNext
  \/ Only("stats") /\ StatsNext
  \/ Only("agent") /\ AgentNext
  \/ Only("read") /\ ReadNext
  \/ Only("lock") /\ LockNext
  \/ Only("detector") /\ DetectorNext
  \/ Only("session") /\ SessionNext
  \/ Only("workflow") /\ WorkflowNext
  \/ Only("graph") /\ GraphNext
  \/ Only("editor") /\ EditorNext

PartsSpec == PartsInit /\ [][PartsNext]_partsVars

\* The variables of the component that runs have their types; those of the others are
\* as they were at first.
PartsTypeOK ==
  CASE active = "journal" -> JournalTypeOK [] active = "repoMemory" -> RepoMemoryTypeOK
    [] active = "task" -> TaskTypeOK       [] active = "index" -> IndexTypeOK
    [] active = "stats" -> StatsTypeOK     [] active = "agent" -> AgentTypeOK
    [] active = "read" -> ReadTypeOK       [] active = "lock" -> LockTypeOK
    [] active = "detector" -> DetectorTypeOK
    [] active = "session" -> SessionTypeOK [] active = "workflow" -> WorkflowTypeOK
    [] active = "graph" -> GraphTypeOK     [] active = "editor" -> EditorTypeOK
=============================================================================
