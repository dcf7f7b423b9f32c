------------------------ MODULE ClientParts_proofs ------------------------
(***************************************************************************)
(* What is proved of each of the client's components by itself holds of    *)
(* them side by side, as no component can tell that there are others.      *)
(***************************************************************************)
EXTENDS ClientParts, ClientSync_proofs, ClientStores_proofs, FileStores_proofs

LEMMA PartsInitially ==
  ASSUME PartsInit
  PROVE  /\ JournalInit /\ RepoMemoryInit /\ TaskInit /\ IndexInit /\ StatsInit /\ AgentInit
         /\ ReadInit /\ LockInit /\ DetectorInit /\ SessionInit /\ WorkflowInit /\ GraphInit
         /\ EditorInit /\ active \in Parts
BY DEF PartsInit

\* A step of the composition is a step of each component, or none.
LEMMA PartsStepBy ==
  ASSUME [PartsNext]_partsVars
  PROVE  /\ [JournalNext]_journalVars
         /\ [RepoMemoryNext]_repoMemoryVars
         /\ [TaskNext]_taskVars
         /\ [IndexNext]_indexVars
         /\ [StatsNext]_statsVars
         /\ [AgentNext]_agentVars
         /\ [ReadNext]_readVars
         /\ [LockNext]_lockVars
         /\ [DetectorNext]_detectorVars
         /\ [SessionNext]_sessionVars
         /\ [WorkflowNext]_workflowVars
         /\ [GraphNext]_graphVars
         /\ [EditorNext]_editorVars
         /\ active' = active
<1>1. [JournalNext]_journalVars
  BY DEF PartsNext, Only, partsVars
<1>2. [RepoMemoryNext]_repoMemoryVars
  BY DEF PartsNext, Only, partsVars
<1>3. [TaskNext]_taskVars
  BY DEF PartsNext, Only, partsVars
<1>4. [IndexNext]_indexVars
  BY DEF PartsNext, Only, partsVars
<1>5. [StatsNext]_statsVars
  BY DEF PartsNext, Only, partsVars
<1>6. [AgentNext]_agentVars
  BY DEF PartsNext, Only, partsVars
<1>7. [ReadNext]_readVars
  BY DEF PartsNext, Only, partsVars
<1>8. [LockNext]_lockVars
  BY DEF PartsNext, Only, partsVars
<1>9. [DetectorNext]_detectorVars
  BY DEF PartsNext, Only, partsVars
<1>10. [SessionNext]_sessionVars
  BY DEF PartsNext, Only, partsVars
<1>11. [WorkflowNext]_workflowVars
  BY DEF PartsNext, Only, partsVars
<1>12. [GraphNext]_graphVars
  BY DEF PartsNext, Only, partsVars
<1>13. [EditorNext]_editorVars
  BY DEF PartsNext, Only, partsVars
<1>14. active' = active
  BY DEF PartsNext, Only, partsVars
<1> QED
  BY <1>1, <1>2, <1>3, <1>4, <1>5, <1>6, <1>7, <1>8, <1>9, <1>10, <1>11, <1>12, <1>13, <1>14

\* A behaviour of the composition is one of every component: what is proved of a component
\* by itself is proved of what the runs check.
THEOREM PartsAreIndependent ==
  PartsSpec => /\ JournalSpec
               /\ RepoMemorySpec
               /\ TaskSpec
               /\ IndexSpec
               /\ StatsSpec
               /\ AgentSpec
               /\ ReadSpec
               /\ LockSpec
               /\ DetectorSpec
               /\ SessionSpec
               /\ WorkflowSpec
               /\ GraphSpec
               /\ EditorSpec
BY PartsInitially, PartsStepBy, PTL DEF PartsSpec, JournalSpec, RepoMemorySpec, TaskSpec, IndexSpec,
   StatsSpec, AgentSpec, ReadSpec, LockSpec, DetectorSpec, SessionSpec, WorkflowSpec, GraphSpec,
   EditorSpec

\* The state of whichever component runs has its types.
THEOREM PartsAreTyped == PartsSpec => []PartsTypeOK
<1>1. PartsInit => active \in Parts
  BY PartsInitially
<1>2. active \in Parts /\ [PartsNext]_partsVars => (active \in Parts)'
  BY PartsStepBy
<1>3. /\ active \in Parts
      /\ JournalTypeOK
      /\ RepoMemoryTypeOK
      /\ TaskTypeOK
      /\ IndexTypeOK
      /\ StatsTypeOK
      /\ AgentTypeOK
      /\ ReadTypeOK
      /\ LockTypeOK
      /\ DetectorTypeOK
      /\ SessionTypeOK
      /\ WorkflowTypeOK
      /\ GraphTypeOK
      /\ EditorTypeOK
      => PartsTypeOK
  BY PartsAssumption DEF PartsTypeOK
<1> QED
  BY <1>1, <1>2, <1>3, PartsAreIndependent, JournalIsTyped, RepoMemoryIsTyped, TaskTypeCorrect, IndexTypeCorrect,
     StatsTypeCorrect, AgentTypeCorrect, ReadTypeCorrect, LockTypeCorrect,
     DetectorIsTyped, SessionTypeCorrect, WorkflowTypeCorrect, SearchesAreTyped,
     EditorTypeCorrect,
     PTL DEF PartsSpec
=============================================================================
