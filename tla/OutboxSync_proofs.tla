-------------------------- MODULE OutboxSync_proofs --------------------------
(***************************************************************************)
(* Proofs about OutboxSync, for every set of operations, every set of      *)
(* drainers and every bound.                                               *)
(***************************************************************************)
EXTENDS OutboxSync, TLAPS

USE DEF procVars, diskVars, hostVars, budgets, history

\* The saturating increment of the attempts field stays a natural number.
LEMMA SaturatingType == \A n \in Nat : Saturating(n) \in Nat
  BY BoundsAssumption DEF Saturating

\* A drainer that works on an entry works on an operation.
Busy == {"sent", "answered", "failed", "unlinked"}
CurrentIsOp == \A d \in Drainers : drainer[d] \in Busy => current[d] \in Ops

TypeInv == TypeOK /\ CurrentIsOp

LEMMA InitType == Init => TypeInv
  BY DEF Init, TypeInv, TypeOK, CurrentIsOp, Busy, CarrierStates, DrainerStates

LEMMA CarrierType ==
  ASSUME TypeInv, NEW o \in Ops, CarrierStep(o)
  PROVE  TypeInv'
<1> USE DEF TypeInv, TypeOK, CurrentIsOp, CarrierStates
<1>1. CASE EnqueueOnChannel(o) BY <1>1 DEF EnqueueOnChannel, Moves
<1>2. CASE EnqueueWithoutDrainTask(o) BY <1>2 DEF EnqueueWithoutDrainTask, Moves, WriteEntry
<1>3. CASE ReceiveFromChannel(o) BY <1>3 DEF ReceiveFromChannel, Moves
<1>4. CASE FireSync(o) BY <1>4 DEF FireSync, Moves
<1>5. CASE CallDirectly(o) BY <1>5 DEF CallDirectly, Moves
<1>6. CASE CarrierApplied(o) BY <1>6 DEF CarrierApplied, Moves, HostApplies
<1>7. CASE CarrierDone(o) BY <1>7 DEF CarrierDone, Moves
<1>8. CASE CarrierRefused(o) BY <1>8 DEF CarrierRefused, Moves, Refusal, Fault
<1>9. CASE CarrierTimesOut(o)
  <2>1. carrier' = [carrier EXCEPT ![o] = "persist"]
    BY <1>9 DEF CarrierTimesOut, Moves
  <2>2. late' \in [Ops -> Nat] BY <1>9 DEF CarrierTimesOut, Moves
  <2>3. faults' \in Nat BY <1>9 DEF CarrierTimesOut, Fault
  <2>4. unknown' \in [Ops -> Nat] BY <1>9 DEF CarrierTimesOut
  <2>6. carrier' \in [Ops -> CarrierStates] BY <2>1
  <2>7. UNCHANGED <<mcp, outbox, attempts, created, clock, drainer, current, todo, seen, applied, kills, starts, filed, settled, failed>> BY <1>9 DEF CarrierTimesOut
  <2>5. QED BY <2>2, <2>3, <2>4, <2>6, <2>7
<1>10. CASE CarrierPersists(o) BY <1>10 DEF CarrierPersists, Moves, WriteEntry
<1>11. CASE HookExits(o) BY <1>11 DEF HookExits, Orphaned
<1>12. CASE KillCaller(o) BY <1>12 DEF KillCaller, Orphaned
<1>13. QED
  BY <1>1, <1>2, <1>3, <1>4, <1>5, <1>6, <1>7, <1>8, <1>9, <1>10, <1>11, <1>12
     DEF CarrierStep

LEMMA DrainerType ==
  ASSUME TypeInv, NEW d \in Drainers, DrainerStep(d)
  PROVE  TypeInv'
<1> USE DEF TypeInv, TypeOK, CurrentIsOp, Busy, DrainerStates
<1>1. CASE StartFlush(d) BY <1>1 DEF StartFlush, List
<1>2. CASE LoadFails(d) BY <1>2 DEF LoadFails, Finish
<1>3. CASE LoadEntries(d) BY <1>3 DEF LoadEntries
<1>4. CASE \E o \in Ops : Replay(d, o) BY <1>4 DEF Replay
<1>5. CASE ReplayApplied(d) BY <1>5 DEF ReplayApplied, HostApplies
<1>6. CASE ReplayRefused(d) BY <1>6, SaturatingType DEF ReplayRefused, Refusal, Fault
<1>7. CASE ReplayTimesOut(d) BY <1>7, SaturatingType DEF ReplayTimesOut, Fault
<1>8. CASE DeleteEntry(d) BY <1>8 DEF DeleteEntry, NextEntry
<1>9. CASE MarkFailed(d) BY <1>9, SaturatingType DEF MarkFailed, SaveFailed, NextEntry
<1>10. CASE UnlinkTarget(d) BY <1>10 DEF UnlinkTarget
<1>11. CASE RenameTemp(d) BY <1>11, SaturatingType DEF RenameTemp, SaveFailed, NextEntry
<1>12. CASE EndPass(d) BY <1>12 DEF EndPass, Finish
<1>13. CASE KillDrainer(d) BY <1>13 DEF KillDrainer, DrainerDies
<1>14. QED
  BY <1>1, <1>2, <1>3, <1>4, <1>5, <1>6, <1>7, <1>8, <1>9, <1>10, <1>11, <1>12, <1>13
     DEF DrainerStep

LEMMA ProcessType ==
  ASSUME TypeInv, StartMcp \/ McpExits \/ KillMcp \/ \E o \in Ops : LateRequest(o)
  PROVE  TypeInv'
<1> USE DrainersAssumption DEF TypeInv, TypeOK, CurrentIsOp, Busy, DrainerStates, CarrierStates
<1>1. CASE StartMcp BY <1>1 DEF StartMcp, List
<1>2. CASE McpExits BY <1>2 DEF McpExits
<1>3. CASE KillMcp BY <1>3 DEF KillMcp, DrainerDies, Orphaned
<1>4. CASE \E o \in Ops : LateRequest(o) BY <1>4 DEF LateRequest, HostApplies
<1>5. QED BY <1>1, <1>2, <1>3, <1>4

\* In every reachable state a drainer that works on an entry holds one.
LEMMA TypeInvariant == Spec => []TypeInv
<1>1. TypeInv /\ [Next]_vars => TypeInv'
  <2> SUFFICES ASSUME TypeInv, [Next]_vars PROVE TypeInv' OBVIOUS
  <2>1. CASE UNCHANGED vars BY <2>1 DEF vars, TypeInv, TypeOK, CurrentIsOp
  <2>2. CASE Next BY <2>2, CarrierType, DrainerType, ProcessType DEF Next
  <2>3. QED BY <2>1, <2>2
<1>2. QED BY InitType, <1>1, PTL DEF Spec

\* Every reachable state is well typed, whatever processes do to each other's
\* entries.
THEOREM TypeCorrect == Spec => []TypeOK
<1>1. TypeInv => TypeOK BY DEF TypeInv
<1>2. QED BY <1>1, TypeInvariant, PTL
-----------------------------------------------------------------------------
\* An answer that arrived comes from a request the host applied.
AnsweredMeansApplied ==
  /\ \A o \in Ops : carrier[o] = "answered" => applied[o] > 0
  /\ \A d \in Drainers : drainer[d] = "answered" => applied[current[d]] > 0

\* Where rename replaces its target, no entry is ever unlinked for a rewrite.
NoUnlinked == \A d \in Drainers : drainer[d] # "unlinked"

\* What one step can do to the entry files, to the host and to the record of
\* what was filed.
Quiet == UNCHANGED <<outbox, applied, filed>>
Puts(o) == outbox' = outbox \union {o} /\ filed' \subseteq filed \union {o} /\ UNCHANGED applied
Applies(o) ==
  /\ o \notin Poison
  /\ applied' = [applied EXCEPT ![o] = @ + 1]
  /\ UNCHANGED <<outbox, filed>>
Removes(o) == applied[o] > 0 /\ outbox' = outbox \ {o} /\ UNCHANGED <<applied, filed>>
\* Only where rename does not replace its target is a file unlinked for a while.
Unlinks == ~ RenameReplaces /\ UNCHANGED <<applied, filed>>
Effect == Quiet \/ Unlinks \/ \E o \in Ops : Puts(o) \/ Applies(o) \/ Removes(o)

LEMMA StepEffect ==
  ASSUME TypeInv, AnsweredMeansApplied, Next
  PROVE  Effect
<1> USE DEF Effect, Quiet
<1>1. CASE \E o \in Ops : CarrierStep(o)
  <2>1. PICK o \in Ops : CarrierStep(o) BY <1>1
  <2>2. CASE EnqueueWithoutDrainTask(o) \/ CarrierPersists(o)
    BY <2>2 DEF EnqueueWithoutDrainTask, CarrierPersists, WriteEntry, Puts
  <2>3. CASE CarrierApplied(o)
    BY <2>3 DEF CarrierApplied, HostApplies, Applies
  <2>4. CASE ~ (EnqueueWithoutDrainTask(o) \/ CarrierPersists(o) \/ CarrierApplied(o))
    BY <2>1, <2>4 DEF CarrierStep, EnqueueOnChannel, FireSync, CallDirectly, ReceiveFromChannel,
      CarrierDone, CarrierRefused, CarrierTimesOut, HookExits, KillCaller
  <2>5. QED BY <2>2, <2>3, <2>4
<1>2. CASE \E o \in Ops : LateRequest(o)
  BY <1>2 DEF LateRequest, HostApplies, Applies
<1>3. CASE \E d \in Drainers : DrainerStep(d)
  <2>1. PICK d \in Drainers : DrainerStep(d) BY <1>3
  <2>2. drainer[d] \in Busy => current[d] \in Ops BY DEF TypeInv, CurrentIsOp
  <2>3. CASE ReplayApplied(d)
    BY <2>2, <2>3 DEF ReplayApplied, HostApplies, Applies, Busy
  <2>4. CASE DeleteEntry(d)
    BY <2>2, <2>4 DEF DeleteEntry, Removes, AnsweredMeansApplied, Busy
  <2>5. CASE MarkFailed(d)
    BY <2>2, <2>5 DEF MarkFailed, SaveFailed, Puts, Busy
  <2>6. CASE RenameTemp(d)
    BY <2>2, <2>6 DEF RenameTemp, SaveFailed, Puts, Busy
  <2>7. CASE UnlinkTarget(d)
    BY <2>7 DEF UnlinkTarget, Unlinks
  <2>8. CASE ~ (ReplayApplied(d) \/ DeleteEntry(d) \/ MarkFailed(d) \/ RenameTemp(d)
                \/ UnlinkTarget(d))
    BY <2>1, <2>8 DEF DrainerStep, StartFlush, LoadFails, LoadEntries, Replay, ReplayRefused,
      ReplayTimesOut, EndPass, KillDrainer, DrainerDies
  <2>9. QED BY <2>3, <2>4, <2>5, <2>6, <2>7, <2>8
<1>4. CASE StartMcp \/ McpExits \/ KillMcp
  BY <1>4 DEF StartMcp, McpExits, KillMcp, DrainerDies
<1>5. QED BY <1>1, <1>2, <1>3, <1>4 DEF Next

LEMMA AppliedGrows ==
  ASSUME TypeInv, Effect, NEW o \in Ops, applied[o] > 0
  PROVE  applied'[o] > 0
BY DEF TypeInv, TypeOK, Effect, Quiet, Unlinks, Puts, Applies, Removes

\* A carrier or drainer becomes "answered" only when the host applies.
LEMMA AnsweredStep ==
  ASSUME TypeInv, AnsweredMeansApplied, Next
  PROVE  AnsweredMeansApplied'
<1>1. Effect BY StepEffect
<1> USE DEF AnsweredMeansApplied, TypeInv, TypeOK
<1>2. ASSUME NEW p \in Ops, carrier'[p] = "answered"
      PROVE  applied'[p] > 0
  <2>1. CASE carrier[p] = "answered" BY <1>1, <2>1, AppliedGrows
  <2>2. CASE carrier[p] # "answered"
    <3>1. CarrierApplied(p)
      <4>1. PICK o \in Ops : CarrierStep(o)
        BY <1>2, <2>2 DEF Next, LateRequest, StartMcp, McpExits, KillMcp, DrainerStep,
          StartFlush, LoadFails, LoadEntries, Replay, ReplayApplied, ReplayRefused,
          ReplayTimesOut, DeleteEntry, MarkFailed, SaveFailed, UnlinkTarget, RenameTemp,
          EndPass, KillDrainer
      <4>2. QED
        BY <1>2, <2>2, <4>1 DEF CarrierStep, Moves, EnqueueOnChannel, EnqueueWithoutDrainTask,
          FireSync, CallDirectly, ReceiveFromChannel, CarrierApplied, CarrierDone,
          CarrierRefused, CarrierTimesOut, CarrierPersists, HookExits, KillCaller
    <3>2. QED BY <3>1 DEF CarrierApplied, HostApplies
  <2>3. QED BY <2>1, <2>2
<1>3. ASSUME NEW e \in Drainers, drainer'[e] = "answered"
      PROVE  applied'[current'[e]] > 0
  <2>1. CASE ReplayApplied(e)
    BY <2>1 DEF ReplayApplied, HostApplies, CurrentIsOp, Busy
  <2>2. CASE ~ ReplayApplied(e)
    <3>1. drainer[e] = "answered" /\ current'[e] = current[e]
      <4>1. CASE UNCHANGED <<drainer, current>> BY <1>3, <4>1
      <4>2. CASE \E d \in Drainers : DrainerStep(d)
        BY <1>3, <2>2, <4>2 DEF DrainerStep, StartFlush, List, LoadFails, Finish, LoadEntries,
          Replay, ReplayApplied, ReplayRefused, ReplayTimesOut, DeleteEntry, NextEntry,
          MarkFailed, SaveFailed, UnlinkTarget, RenameTemp, EndPass, KillDrainer, DrainerDies
      <4>3. CASE StartMcp \/ KillMcp
        BY <1>3, <4>3 DEF StartMcp, List, KillMcp, DrainerDies
      <4>4. CASE McpExits \/ \E o \in Ops : CarrierStep(o) \/ LateRequest(o)
        BY <4>1, <4>4 DEF McpExits, CarrierStep, LateRequest, EnqueueOnChannel,
          EnqueueWithoutDrainTask, FireSync, CallDirectly, ReceiveFromChannel, CarrierApplied,
          CarrierDone, CarrierRefused, CarrierTimesOut, CarrierPersists, HookExits, KillCaller
      <4>5. QED BY <4>2, <4>3, <4>4 DEF Next
    <3>2. current[e] \in Ops BY <3>1 DEF CurrentIsOp, Busy
    <3>3. QED BY <1>1, <3>1, <3>2, AppliedGrows
  <2>3. QED BY <2>1, <2>2
<1>4. QED BY <1>2, <1>3

-----------------------------------------------------------------------------
\* The safety argument: while answers come from applied requests, an entry
\* file goes only after the host applied its operation.
Kept == \A o \in filed : o \in outbox \/ applied[o] > 0
SafetyInv == AnsweredMeansApplied /\ Kept /\ NoUnlinked

LEMMA SafetyInit == Init => SafetyInv
  BY DEF Init, SafetyInv, AnsweredMeansApplied, Kept, NoUnlinked

LEMMA KeptStep ==
  ASSUME RenameReplaces, TypeInv, AnsweredMeansApplied, Kept, Next
  PROVE  Kept'
<1> SUFFICES ASSUME NEW p \in filed', p \notin outbox' PROVE applied'[p] > 0
  BY DEF Kept
<1> USE DEF Kept, TypeInv, TypeOK
<1>1. Effect BY StepEffect
<1>2. p \in filed /\ p \in Ops
  BY <1>1 DEF Effect, Quiet, Unlinks, Puts, Applies, Removes
<1>3. applied[p] > 0
  BY <1>1, <1>2 DEF Effect, Quiet, Unlinks, Puts, Applies, Removes
<1>4. QED BY <1>1, <1>2, <1>3, AppliedGrows

LEMMA NoUnlinkedStep ==
  ASSUME RenameReplaces, TypeInv, NoUnlinked, Next
  PROVE  NoUnlinked'
<1> USE DEF NoUnlinked, TypeInv, TypeOK
<1>1. CASE UNCHANGED drainer BY <1>1
<1>2. CASE \E d \in Drainers : DrainerStep(d)
  BY <1>2 DEF DrainerStep, StartFlush, List, LoadFails, Finish, LoadEntries, Replay,
    ReplayApplied, ReplayRefused, ReplayTimesOut, DeleteEntry, NextEntry, MarkFailed,
    SaveFailed, UnlinkTarget, RenameTemp, EndPass, KillDrainer, DrainerDies
<1>3. CASE StartMcp \/ KillMcp
  BY <1>3 DEF StartMcp, List, KillMcp, DrainerDies
<1>4. CASE McpExits \/ \E o \in Ops : CarrierStep(o) \/ LateRequest(o)
  BY <1>1, <1>4 DEF McpExits, CarrierStep, LateRequest, EnqueueOnChannel,
    EnqueueWithoutDrainTask, FireSync, CallDirectly, ReceiveFromChannel, CarrierApplied,
    CarrierDone, CarrierRefused, CarrierTimesOut, CarrierPersists, HookExits, KillCaller
<1>5. QED BY <1>2, <1>3, <1>4 DEF Next

LEMMA SafetyInvariant == RenameReplaces /\ Spec => []SafetyInv
<1>1. RenameReplaces /\ TypeInv /\ SafetyInv /\ [Next]_vars => SafetyInv'
  <2> SUFFICES ASSUME RenameReplaces, TypeInv, SafetyInv, [Next]_vars PROVE SafetyInv'
    OBVIOUS
  <2>1. CASE UNCHANGED vars
    BY <2>1 DEF vars, SafetyInv, AnsweredMeansApplied, Kept, NoUnlinked
  <2>2. CASE Next
    BY <2>2, AnsweredStep, KeptStep, NoUnlinkedStep DEF SafetyInv
  <2>3. QED BY <2>1, <2>2
<1>2. CASE RenameReplaces
  BY <1>1, <1>2, SafetyInit, TypeInvariant, PTL DEF Spec
<1>3. QED BY <1>2

\* Nothing that was ever written to the outbox is lost: whatever processes
\* drain it at the same time, and whatever is killed, an operation leaves the
\* disk only after the host applied it (where rename replaces its target).
THEOREM NothingDurableIsLost == RenameReplaces /\ Spec => []NoDurableLoss
<1>1. SafetyInv => NoDurableLoss BY DEF SafetyInv, Kept, NoDurableLoss, OnDisk
<1>2. QED BY <1>1, SafetyInvariant, PTL

-----------------------------------------------------------------------------
\* OutboxSync implements DurableDelivery, liveness aside: every step is a
\* step of it or a stutter.
THEOREM SafeRefinement == RenameReplaces /\ Spec => Durable!SafeSpec
<1> DEFINE done == {o \in Ops : applied[o] > 0}
<1>1. Init => Durable!Init
  BY DEF Init, Durable!Init, OnDisk
<1>2. ASSUME RenameReplaces, TypeInv, SafetyInv, SafetyInv', [Next]_vars
      PROVE  [Durable!Next]_(Durable!vars)
  <2>1. OnDisk = outbox /\ OnDisk' = outbox'
    BY <1>2 DEF OnDisk, SafetyInv, NoUnlinked
  <2>2. CASE UNCHANGED vars
    BY <2>1, <2>2 DEF vars, Durable!vars
  <2>3. CASE Next
    <3>1. Effect BY <1>2, <2>3, StepEffect DEF SafetyInv
    <3>2. CASE Quiet BY <2>1, <3>2 DEF Quiet, Durable!vars
    <3>3. ASSUME NEW o \in Ops, Puts(o) PROVE Durable!Record(o)
      BY <2>1, <3>3 DEF Puts, Durable!Record
    <3>4. ASSUME NEW o \in Ops, Removes(o) PROVE Durable!Discharge(o)
      BY <2>1, <3>4 DEF Removes, Durable!Discharge
    <3>5. ASSUME NEW o \in Ops, Applies(o) PROVE Durable!Apply(o)
      <4>1. done' = done \union {o}
        BY <1>2, <3>5 DEF Applies, TypeInv, TypeOK
      <4>2. QED BY <2>1, <3>5, <4>1 DEF Applies, Durable!Apply
    <3>6. QED BY <1>2, <3>1, <3>2, <3>3, <3>4, <3>5 DEF Effect, Unlinks, Durable!Next
  <2>4. QED BY <1>2, <2>2, <2>3
<1>3. CASE RenameReplaces
  BY <1>1, <1>2, <1>3, SafetyInvariant, TypeInvariant, PTL DEF Spec, Durable!SafeSpec
<1>4. QED BY <1>3

-----------------------------------------------------------------------------
DirectInv == AnsweredMeansApplied /\ DoneMeansSafe

\* A carrier becomes "done" by writing the entry or by reading an answer.
LEMMA DoneStep ==
  ASSUME TypeInv, DirectInv, Next
  PROVE  DoneMeansSafe'
<1> SUFFICES ASSUME NEW p \in Ops, carrier'[p] = "done" PROVE applied'[p] > 0 \/ p \in filed'
  BY DEF DoneMeansSafe
<1> USE DEF TypeInv, TypeOK, DirectInv, DoneMeansSafe, AnsweredMeansApplied
<1>1. Effect BY StepEffect
<1>2. filed \subseteq filed'
  BY DEF Next, CarrierStep, EnqueueOnChannel, EnqueueWithoutDrainTask, FireSync, CallDirectly,
    ReceiveFromChannel, CarrierApplied, CarrierDone, CarrierRefused, CarrierTimesOut,
    CarrierPersists, WriteEntry, HookExits, KillCaller, LateRequest, StartMcp, McpExits, KillMcp,
    DrainerDies, DrainerStep, StartFlush, LoadFails, LoadEntries, Replay, ReplayApplied,
    ReplayRefused, ReplayTimesOut, DeleteEntry, MarkFailed, SaveFailed, UnlinkTarget, RenameTemp,
    EndPass, KillDrainer
<1>3. CASE carrier[p] = "done" BY <1>1, <1>2, <1>3, AppliedGrows
<1>4. CASE carrier[p] # "done"
  <2>1. PICK o \in Ops : CarrierStep(o)
    BY <1>4 DEF Next, LateRequest, StartMcp, McpExits, KillMcp, DrainerStep, StartFlush,
      LoadFails, LoadEntries, Replay, ReplayApplied, ReplayRefused, ReplayTimesOut, DeleteEntry,
      MarkFailed, SaveFailed, UnlinkTarget, RenameTemp, EndPass, KillDrainer
  <2>2. EnqueueWithoutDrainTask(p) \/ CarrierPersists(p) \/ CarrierDone(p)
    BY <1>4, <2>1 DEF CarrierStep, Moves, EnqueueOnChannel, EnqueueWithoutDrainTask, FireSync,
      CallDirectly, ReceiveFromChannel, CarrierApplied, CarrierDone, CarrierRefused,
      CarrierTimesOut, CarrierPersists, HookExits, KillCaller
  <2>3. CASE EnqueueWithoutDrainTask(p) \/ CarrierPersists(p)
    BY <2>3 DEF EnqueueWithoutDrainTask, CarrierPersists, WriteEntry
  <2>4. CASE CarrierDone(p) BY <2>4 DEF CarrierDone, Moves
  <2>5. QED BY <2>2, <2>3, <2>4
<1>5. QED BY <1>3, <1>4

\* Whoever is through with an operation leaves it applied or on record, on
\* every platform.
THEOREM DirectPathIsSafe == Spec => []DoneMeansSafe
<1>1. Init => DirectInv
  BY DEF Init, DirectInv, AnsweredMeansApplied, DoneMeansSafe
<1>2. TypeInv /\ DirectInv /\ [Next]_vars => DirectInv'
  <2> SUFFICES ASSUME TypeInv, DirectInv, [Next]_vars PROVE DirectInv' OBVIOUS
  <2>1. CASE UNCHANGED vars
    BY <2>1 DEF vars, DirectInv, AnsweredMeansApplied, DoneMeansSafe
  <2>2. CASE Next BY <2>2, AnsweredStep, DoneStep DEF DirectInv
  <2>3. QED BY <2>1, <2>2
<1>3. DirectInv => DoneMeansSafe BY DEF DirectInv
<1>4. QED BY <1>1, <1>2, <1>3, TypeInvariant, PTL DEF Spec

-----------------------------------------------------------------------------
\* The attempts field, on disk and as loaded by a drainer, counts at most the
\* failed replays; so does the value a drainer is about to write.
AttemptsInv ==
  /\ \A o \in Ops : attempts[o] <= failed[o] /\ failed[o] <= AttemptsLimit
  /\ \A d \in Drainers : \A o \in Ops : seen[d][o] <= failed[o]
  /\ \A d \in Drainers : drainer[d] \in {"failed", "unlinked"} =>
       Saturating(seen[d][current[d]]) <= failed[current[d]]

LEMMA SaturatingMonotone ==
  \A m, n \in Nat : m <= n /\ n <= AttemptsLimit =>
    Saturating(m) <= Saturating(n) /\ n <= Saturating(n) /\ Saturating(n) <= AttemptsLimit
  BY BoundsAssumption DEF Saturating

\* A failed replay raises the count of one operation and nothing else.
LEMMA FailureStep ==
  ASSUME TypeInv, AttemptsInv, NEW d \in Drainers, current[d] \in Ops,
         failed' = [failed EXCEPT ![current[d]] = Saturating(@)],
         drainer' = [drainer EXCEPT ![d] = "failed"],
         UNCHANGED <<current, seen, attempts>>
  PROVE  AttemptsInv'
<1> USE DEF TypeInv, TypeOK
<1>1. \A o \in Ops : failed[o] <= failed'[o] /\ failed'[o] <= AttemptsLimit /\ failed'[o] \in Nat
  BY SaturatingMonotone, SaturatingType DEF AttemptsInv
<1>2. \A o \in Ops : attempts'[o] <= failed'[o]
  BY <1>1 DEF AttemptsInv
<1>3. \A e \in Drainers : \A o \in Ops : seen'[e][o] <= failed'[o]
  BY <1>1 DEF AttemptsInv
<1>4. ASSUME NEW e \in Drainers, drainer'[e] \in {"failed", "unlinked"}
      PROVE  Saturating(seen'[e][current'[e]]) <= failed'[current'[e]]
  <2>1. CASE e = d
    <3>1. seen[d][current[d]] \in Nat /\ failed[current[d]] \in Nat OBVIOUS
    <3>2. seen[d][current[d]] <= failed[current[d]] /\ failed[current[d]] <= AttemptsLimit
      BY DEF AttemptsInv
    <3>3. Saturating(seen[d][current[d]]) <= Saturating(failed[current[d]])
      BY <3>1, <3>2, SaturatingMonotone
    <3>4. QED BY <2>1, <3>3
  <2>2. CASE e # d
    <3>1. drainer[e] \in {"failed", "unlinked"} BY <1>4, <2>2
    <3>2. current[e] \in Ops BY <3>1 DEF CurrentIsOp, Busy
    <3>3. Saturating(seen[e][current[e]]) <= failed[current[e]]
      BY <3>1 DEF AttemptsInv
    <3>4. Saturating(seen[e][current[e]]) \in Nat BY <3>2, SaturatingType
    <3>5. QED BY <1>1, <3>2, <3>3, <3>4
  <2>3. QED BY <2>1, <2>2
<1>5. QED BY <1>1, <1>2, <1>3, <1>4 DEF AttemptsInv

LEMMA DrainerAttempts ==
  ASSUME TypeInv, AttemptsInv, NEW d \in Drainers, DrainerStep(d)
  PROVE  AttemptsInv'
<1>0. drainer[d] \in Busy => current[d] \in Ops BY DEF TypeInv, CurrentIsOp
<1>6. CASE ReplayRefused(d)
  BY <1>0, <1>6, FailureStep DEF ReplayRefused, Busy
<1>7. CASE ReplayTimesOut(d)
  BY <1>0, <1>7, FailureStep DEF ReplayTimesOut, Busy
<1> USE DEF TypeInv, TypeOK, AttemptsInv
<1>1. CASE StartFlush(d) BY <1>1 DEF StartFlush, List
<1>2. CASE LoadFails(d) BY <1>2 DEF LoadFails, Finish
<1>3. CASE LoadEntries(d) BY <1>3 DEF LoadEntries
<1>4. CASE \E o \in Ops : Replay(d, o) BY <1>4 DEF Replay
<1>5. CASE ReplayApplied(d) BY <1>5 DEF ReplayApplied
<1>8. CASE DeleteEntry(d) BY <1>8 DEF DeleteEntry, NextEntry
<1>9. CASE MarkFailed(d) BY <1>0, <1>9 DEF MarkFailed, SaveFailed, NextEntry, Busy
<1>10. CASE UnlinkTarget(d) BY <1>10 DEF UnlinkTarget
<1>11. CASE RenameTemp(d) BY <1>0, <1>11 DEF RenameTemp, SaveFailed, NextEntry, Busy
<1>12. CASE EndPass(d) BY <1>12 DEF EndPass, Finish
<1>13. CASE KillDrainer(d) BY <1>13 DEF KillDrainer, DrainerDies
<1>14. QED
  BY <1>1, <1>2, <1>3, <1>4, <1>5, <1>6, <1>7, <1>8, <1>9, <1>10, <1>11, <1>12, <1>13
     DEF DrainerStep

\* Concurrent drains lose counts, but no interleaving of loads and rewrites
\* makes the attempts field claim a failure that did not happen.
THEOREM AttemptsAreHonest == Spec => []AttemptsNeverOvercount
<1>1. Init => AttemptsInv
  BY BoundsAssumption DEF Init, AttemptsInv
<1>2. TypeInv /\ AttemptsInv /\ [Next]_vars => AttemptsInv'
  <2> SUFFICES ASSUME TypeInv, AttemptsInv, [Next]_vars PROVE AttemptsInv' OBVIOUS
  <2>1. CASE UNCHANGED vars BY <2>1 DEF vars, AttemptsInv
  <2>2. CASE \E d \in Drainers : DrainerStep(d) BY <2>2, DrainerAttempts
  <2>3. CASE \E o \in Ops : CarrierStep(o) \/ LateRequest(o)
    <3>1. PICK o \in Ops : CarrierStep(o) \/ LateRequest(o) BY <2>3
    <3>2. UNCHANGED <<drainer, current, seen, failed>>
      BY <3>1 DEF CarrierStep, LateRequest, EnqueueOnChannel, EnqueueWithoutDrainTask, FireSync,
        CallDirectly, ReceiveFromChannel, CarrierApplied, CarrierDone, CarrierRefused,
        CarrierTimesOut, CarrierPersists, WriteEntry, HookExits, KillCaller
    <3>3. attempts' = attempts \/ attempts' = [attempts EXCEPT ![o] = 0]
      BY <3>1 DEF CarrierStep, LateRequest, EnqueueOnChannel, EnqueueWithoutDrainTask, FireSync,
        CallDirectly, ReceiveFromChannel, CarrierApplied, CarrierDone, CarrierRefused,
        CarrierTimesOut, CarrierPersists, WriteEntry, HookExits, KillCaller
    <3>4. QED BY <3>2, <3>3 DEF AttemptsInv, TypeInv, TypeOK
  <2>4. CASE StartMcp \/ McpExits
    BY <2>4, DrainersAssumption DEF StartMcp, List, McpExits, AttemptsInv, TypeInv, TypeOK
  <2>5. CASE KillMcp
    BY <2>5, DrainersAssumption DEF KillMcp, DrainerDies, AttemptsInv, TypeInv, TypeOK
  <2>6. QED BY <2>1, <2>2, <2>3, <2>4, <2>5 DEF Next
<1>3. TypeInv /\ AttemptsInv => AttemptsNeverOvercount
  BY DEF AttemptsInv, AttemptsNeverOvercount
<1>4. QED BY <1>1, <1>2, <1>3, TypeInvariant, PTL DEF Spec

-----------------------------------------------------------------------------
\* An operation is filed once, by a carrier that is then through with it; what
\* is on record or listed was filed, and a pass replays what it listed.
FiledInv ==
  /\ \A o \in filed : carrier[o] = "done"
  /\ outbox \subseteq filed /\ settled \subseteq filed
  /\ \A d \in Drainers : todo[d] \subseteq filed
  /\ \A d \in Drainers : drainer[d] \in Busy => current[d] \in todo[d]

LEMMA FiledCarrier ==
  ASSUME TypeInv, FiledInv, NEW o \in Ops, CarrierStep(o) \/ LateRequest(o)
  PROVE  FiledInv'
<1> USE DEF TypeInv, TypeOK, FiledInv, Moves, InMemory
<1>1. CASE EnqueueOnChannel(o) BY <1>1 DEF EnqueueOnChannel
<1>2. CASE EnqueueWithoutDrainTask(o) BY <1>2 DEF EnqueueWithoutDrainTask, WriteEntry
<1>3. CASE ReceiveFromChannel(o) BY <1>3 DEF ReceiveFromChannel
<1>4. CASE FireSync(o) BY <1>4 DEF FireSync
<1>5. CASE CallDirectly(o) BY <1>5 DEF CallDirectly
<1>6. CASE CarrierApplied(o) BY <1>6 DEF CarrierApplied
<1>7. CASE CarrierDone(o) BY <1>7 DEF CarrierDone
<1>8. CASE CarrierRefused(o) BY <1>8 DEF CarrierRefused
<1>9. CASE CarrierTimesOut(o) BY <1>9 DEF CarrierTimesOut
<1>10. CASE CarrierPersists(o) BY <1>10 DEF CarrierPersists, WriteEntry
<1>11. CASE HookExits(o) BY <1>11 DEF HookExits
<1>12. CASE KillCaller(o) BY <1>12 DEF KillCaller
<1>13. CASE LateRequest(o) BY <1>13 DEF LateRequest
<1>14. QED
  BY <1>1, <1>2, <1>3, <1>4, <1>5, <1>6, <1>7, <1>8, <1>9, <1>10, <1>11, <1>12, <1>13
     DEF CarrierStep

LEMMA FiledDrainer ==
  ASSUME TypeInv, FiledInv, NEW d \in Drainers, DrainerStep(d)
  PROVE  FiledInv'
<1> USE DEF TypeInv, TypeOK, FiledInv, Busy
<1>1. CASE StartFlush(d) BY <1>1 DEF StartFlush, List
<1>2. CASE LoadFails(d) BY <1>2 DEF LoadFails, Finish
<1>3. CASE LoadEntries(d) BY <1>3 DEF LoadEntries
<1>4. CASE \E o \in Ops : Replay(d, o) BY <1>4 DEF Replay, Oldest
<1>5. CASE ReplayApplied(d) BY <1>5 DEF ReplayApplied
<1>6. CASE ReplayRefused(d) BY <1>6 DEF ReplayRefused
<1>7. CASE ReplayTimesOut(d) BY <1>7 DEF ReplayTimesOut
<1>8. CASE DeleteEntry(d) BY <1>8 DEF DeleteEntry, NextEntry
<1>9. CASE MarkFailed(d) BY <1>9 DEF MarkFailed, SaveFailed, NextEntry
<1>10. CASE UnlinkTarget(d) BY <1>10 DEF UnlinkTarget
<1>11. CASE RenameTemp(d) BY <1>11 DEF RenameTemp, SaveFailed, NextEntry
<1>12. CASE EndPass(d) BY <1>12 DEF EndPass, Finish
<1>13. CASE KillDrainer(d) BY <1>13 DEF KillDrainer, DrainerDies
<1>14. QED
  BY <1>1, <1>2, <1>3, <1>4, <1>5, <1>6, <1>7, <1>8, <1>9, <1>10, <1>11, <1>12, <1>13
     DEF DrainerStep

LEMMA FiledInvariant == Spec => []FiledInv
<1>1. Init => FiledInv BY DEF Init, FiledInv, Busy
<1>2. TypeInv /\ FiledInv /\ [Next]_vars => FiledInv'
  <2> SUFFICES ASSUME TypeInv, FiledInv, [Next]_vars PROVE FiledInv' OBVIOUS
  <2>1. CASE UNCHANGED vars BY <2>1 DEF vars, FiledInv
  <2>2. CASE StartMcp
    BY <2>2, DrainersAssumption DEF StartMcp, List, FiledInv, Busy, TypeInv, TypeOK
  <2>3. CASE McpExits
    BY <2>3 DEF McpExits, FiledInv, TypeInv, TypeOK
  <2>4. CASE KillMcp
    BY <2>4, DrainersAssumption DEF KillMcp, DrainerDies, InMemory, FiledInv, Busy, TypeInv, TypeOK
  <2>5. QED BY <2>1, <2>2, <2>3, <2>4, FiledCarrier, FiledDrainer DEF Next
<1>3. QED BY <1>1, <1>2, TypeInvariant, PTL DEF Spec

-----------------------------------------------------------------------------
\* The deployment in which nothing but the MCP server drains the outbox.
OneDrainer == Drainers = {McpDrain}

\* A settled operation is neither on record nor about to be handled.
Apart ==
  /\ settled \intersect outbox = {}
  /\ \A d \in Drainers : settled \intersect todo[d] = {}

LEMMA ApartDrainer ==
  ASSUME OneDrainer, TypeInv, FiledInv, Apart, NEW d \in Drainers, DrainerStep(d)
  PROVE  Apart'
<1>0. d = McpDrain /\ Drainers = {McpDrain} BY DEF OneDrainer
<1> USE DEF TypeInv, TypeOK, Apart, FiledInv, Busy
<1>1. CASE StartFlush(d) BY <1>1 DEF StartFlush, List
<1>2. CASE LoadFails(d) BY <1>2 DEF LoadFails, Finish
<1>3. CASE DeleteEntry(d) BY <1>0, <1>3 DEF DeleteEntry, NextEntry
<1>4. CASE MarkFailed(d) BY <1>0, <1>4 DEF MarkFailed, SaveFailed, NextEntry
<1>5. CASE UnlinkTarget(d) BY <1>5 DEF UnlinkTarget
<1>6. CASE RenameTemp(d) BY <1>0, <1>6 DEF RenameTemp, SaveFailed, NextEntry
<1>7. CASE EndPass(d) BY <1>7 DEF EndPass, Finish
<1>8. CASE KillDrainer(d) BY <1>8 DEF KillDrainer, DrainerDies
<1>9. CASE LoadEntries(d) \/ (\E o \in Ops : Replay(d, o)) \/ ReplayApplied(d) \/ ReplayRefused(d)
           \/ ReplayTimesOut(d)
  BY <1>9 DEF LoadEntries, Replay, ReplayApplied, ReplayRefused, ReplayTimesOut
<1>10. QED
  BY <1>1, <1>2, <1>3, <1>4, <1>5, <1>6, <1>7, <1>8, <1>9 DEF DrainerStep

LEMMA ApartInvariant == OneDrainer /\ Spec => []Apart
<1>1. Init => Apart BY DEF Init, Apart
<1>2. OneDrainer /\ TypeInv /\ FiledInv /\ Apart /\ [Next]_vars => Apart'
  <2> SUFFICES ASSUME OneDrainer, TypeInv, FiledInv, Apart, [Next]_vars PROVE Apart' OBVIOUS
  <2>1. CASE UNCHANGED vars BY <2>1 DEF vars, Apart
  <2>2. CASE StartMcp
    BY <2>2, DrainersAssumption DEF StartMcp, List, Apart, TypeInv, TypeOK
  <2>3. CASE McpExits BY <2>3 DEF McpExits, Apart
  <2>4. CASE KillMcp
    BY <2>4, DrainersAssumption DEF KillMcp, DrainerDies, Apart, TypeInv, TypeOK
  <2>5. ASSUME NEW o \in Ops, CarrierStep(o) \/ LateRequest(o) PROVE Apart'
    <3>1. CASE EnqueueWithoutDrainTask(o) \/ CarrierPersists(o)
      <4>1. o \notin filed
        BY <3>1 DEF EnqueueWithoutDrainTask, CarrierPersists, Moves, FiledInv
      <4>2. QED
        BY <3>1, <4>1 DEF EnqueueWithoutDrainTask, CarrierPersists, WriteEntry, FiledInv, Apart
    <3>2. CASE ~ (EnqueueWithoutDrainTask(o) \/ CarrierPersists(o))
      BY <2>5, <3>2 DEF CarrierStep, LateRequest, EnqueueOnChannel, FireSync, CallDirectly,
        ReceiveFromChannel, CarrierApplied, CarrierDone, CarrierRefused, CarrierTimesOut,
        HookExits, KillCaller, Apart
    <3>3. QED BY <3>1, <3>2
  <2>6. QED BY <2>1, <2>2, <2>3, <2>4, <2>5, ApartDrainer DEF Next
<1>3. CASE OneDrainer
  BY <1>1, <1>2, <1>3, FiledInvariant, TypeInvariant, PTL DEF Spec
<1>4. QED BY <1>3

\* While one process at a time drains the outbox, an entry that was deleted
\* after a successful replay never comes back, whatever is killed between the
\* steps of a pass.
THEOREM SettledEntriesStayOut == OneDrainer /\ Spec => []SettledStaysOut
<1>1. Apart => SettledStaysOut BY DEF Apart, SettledStaysOut
<1>2. QED BY <1>1, ApartInvariant, PTL

-----------------------------------------------------------------------------
\* Nobody may send a concluded operation again, unless an answer is lost first.
Concluded(o) ==
  \/ carrier[o] \in {"answered", "killed"}
  \/ carrier[o] = "done" /\ o \notin filed
  \/ o \in settled
  \/ \E d \in Drainers : drainer[d] = "answered" /\ current[d] = o

\* What the host did with an operation, or may still do, against the answers
\* that went missing.
Spent(o) == applied[o] + late[o]
Counted ==
  \A o \in Ops : Spent(o) <= unknown[o] + 1 /\ (~ Concluded(o) => Spent(o) <= unknown[o])

LEMMA CountedCarrier ==
  ASSUME TypeInv, FiledInv, Counted, NEW o \in Ops, CarrierStep(o) \/ LateRequest(o)
  PROVE  Counted'
<1>0. carrier[o] # "done" => o \notin filed /\ o \notin settled
                             /\ \A d \in Drainers : drainer[d] = "answered" => current[d] # o
  BY DEF FiledInv, Busy
<1> USE DEF TypeInv, TypeOK, Counted, Concluded, Spent, Moves, InMemory
<1>1. CASE EnqueueOnChannel(o) BY <1>1 DEF EnqueueOnChannel
<1>2. CASE EnqueueWithoutDrainTask(o) BY <1>0, <1>2 DEF EnqueueWithoutDrainTask, WriteEntry
<1>3. CASE ReceiveFromChannel(o) BY <1>3 DEF ReceiveFromChannel
<1>4. CASE FireSync(o) BY <1>4 DEF FireSync
<1>5. CASE CallDirectly(o) BY <1>5 DEF CallDirectly
<1>6. CASE CarrierApplied(o) BY <1>0, <1>6 DEF CarrierApplied, HostApplies
<1>7. CASE CarrierDone(o) BY <1>0, <1>7 DEF CarrierDone
<1>8. CASE CarrierRefused(o) BY <1>0, <1>8 DEF CarrierRefused
<1>9. CASE CarrierTimesOut(o) BY <1>0, <1>9 DEF CarrierTimesOut
<1>10. CASE CarrierPersists(o) BY <1>0, <1>10 DEF CarrierPersists, WriteEntry
<1>11. CASE HookExits(o) BY <1>0, <1>11 DEF HookExits, Orphaned
<1>12. CASE KillCaller(o) BY <1>0, <1>12 DEF KillCaller, Orphaned
<1>13. CASE LateRequest(o) BY <1>13 DEF LateRequest, HostApplies
<1>14. QED
  BY <1>1, <1>2, <1>3, <1>4, <1>5, <1>6, <1>7, <1>8, <1>9, <1>10, <1>11, <1>12, <1>13
     DEF CarrierStep

LEMMA CountedDrainer ==
  ASSUME OneDrainer, TypeInv, FiledInv, Apart, Counted, NEW d \in Drainers, DrainerStep(d)
  PROVE  Counted'
<1>0. \A e \in Drainers : e = d BY DEF OneDrainer
<1>00. drainer[d] \in Busy => /\ current[d] \in Ops /\ current[d] \notin settled
                              /\ current[d] \in filed /\ carrier[current[d]] = "done"
  BY DEF FiledInv, Apart, TypeInv, TypeOK
<1> USE DEF TypeInv, TypeOK, Counted, Concluded, Spent
<1>1. CASE StartFlush(d) BY <1>0, <1>1 DEF StartFlush, List
<1>2. CASE LoadFails(d) BY <1>0, <1>2 DEF LoadFails, Finish
<1>3. CASE LoadEntries(d) BY <1>0, <1>3 DEF LoadEntries
<1>4. CASE \E o \in Ops : Replay(d, o) BY <1>0, <1>4 DEF Replay
<1>5. CASE ReplayApplied(d) BY <1>0, <1>00, <1>5 DEF ReplayApplied, HostApplies, Busy
<1>6. CASE ReplayRefused(d) BY <1>0, <1>6 DEF ReplayRefused
<1>7. CASE ReplayTimesOut(d) BY <1>0, <1>00, <1>7 DEF ReplayTimesOut, Busy
<1>8. CASE DeleteEntry(d) BY <1>0, <1>8 DEF DeleteEntry, NextEntry
<1>9. CASE MarkFailed(d) BY <1>0, <1>9 DEF MarkFailed, SaveFailed, NextEntry
<1>10. CASE UnlinkTarget(d) BY <1>0, <1>10 DEF UnlinkTarget
<1>11. CASE RenameTemp(d) BY <1>0, <1>11 DEF RenameTemp, SaveFailed, NextEntry
<1>12. CASE EndPass(d) BY <1>0, <1>12 DEF EndPass, Finish
<1>13. CASE KillDrainer(d) BY <1>0, <1>13 DEF KillDrainer, DrainerDies, OneDrainer
<1>14. QED
  BY <1>1, <1>2, <1>3, <1>4, <1>5, <1>6, <1>7, <1>8, <1>9, <1>10, <1>11, <1>12, <1>13
     DEF DrainerStep

LEMMA CountedProcess ==
  ASSUME OneDrainer, TypeInv, FiledInv, Apart, Counted, StartMcp \/ McpExits \/ KillMcp
  PROVE  Counted'
<1>0. \A e \in Drainers : e = McpDrain BY DEF OneDrainer
<1> USE DrainersAssumption DEF TypeInv, TypeOK, Counted, Concluded, Spent
<1>1. CASE StartMcp BY <1>0, <1>1 DEF StartMcp, List
<1>2. CASE McpExits BY <1>2 DEF McpExits
<1>3. CASE KillMcp
  <2> DEFINE m == McpDrain
  <2>1. drainer[m] \in Busy => /\ current[m] \in Ops /\ current[m] \notin settled
                               /\ current[m] \in filed /\ carrier[current[m]] = "done"
    BY DEF FiledInv, Apart
  <2>2. UNCHANGED <<applied, filed, settled>> /\ drainer'[m] = "idle"
    BY <1>3 DEF KillMcp, DrainerDies
  <2> SUFFICES ASSUME NEW o \in Ops
               PROVE  /\ Spent(o)' <= unknown'[o] + 1
                      /\ ~ Concluded(o)' => Spent(o)' <= unknown'[o]
    OBVIOUS
  <2>3. CASE o = current[m] /\ drainer[m] \in Busy
    <3>1. carrier'[o] = "done"
      BY <1>3, <2>1, <2>3 DEF KillMcp, InMemory
    <3>2. late'[o] = late[o] + (IF drainer[m] = "sent" THEN 1 ELSE 0)
      BY <1>3, <2>1, <2>3 DEF KillMcp, Orphaned, InMemory
    <3>3. unknown'[o] = unknown[o] + (IF drainer[m] \in {"sent", "answered"} THEN 1 ELSE 0)
      BY <1>3, <2>3 DEF KillMcp, DrainerDies
    <3>4. drainer[m] # "answered" => ~ Concluded(o)
      BY <1>0, <2>1, <2>3
    <3>5. QED BY <2>2, <3>1, <3>2, <3>3, <3>4
  <2>4. CASE ~ (o = current[m] /\ drainer[m] \in Busy)
    <3>1. unknown'[o] = unknown[o]
      BY <1>3, <2>4 DEF KillMcp, DrainerDies, Busy
    <3>2. CASE carrier'[o] = "killed" /\ carrier[o] # "killed"
      <4>1. InMemory(o) BY <1>3, <3>2 DEF KillMcp
      <4>2. late'[o] = late[o] + (IF carrier[o] = "post" THEN 1 ELSE 0)
        BY <1>3, <2>4, <3>2 DEF KillMcp, Orphaned, Busy
      <4>3. o \notin filed BY <4>1 DEF FiledInv, InMemory
      <4>4. o \notin settled /\ \A d \in Drainers : drainer[d] = "answered" => current[d] # o
        BY <4>3 DEF FiledInv, Busy
      <4>5. carrier[o] = "post" => ~ Concluded(o) BY <4>4
      <4>6. QED BY <2>2, <3>1, <3>2, <4>2, <4>5
    <3>3. CASE ~ (carrier'[o] = "killed" /\ carrier[o] # "killed")
      <4>1. carrier'[o] = carrier[o] BY <1>3, <3>3 DEF KillMcp
      <4>2. late'[o] = late[o]
        BY <1>3, <2>4, <3>3 DEF KillMcp, Orphaned, InMemory, Busy
      <4>3. Concluded(o) => Concluded(o)'
        BY <1>0, <2>2, <2>4, <4>1 DEF Busy
      <4>4. QED BY <2>2, <3>1, <4>2, <4>3
    <3>4. QED BY <3>2, <3>3
  <2>5. QED BY <2>3, <2>4
<1>4. QED BY <1>1, <1>2, <1>3

\* While one process at a time drains the outbox, the host applies an operation
\* at most once more than answers to its requests were lost: by a timeout, or
\* by the death of the drainer that waited for one.
THEOREM DuplicatesNeedALostAnswer == OneDrainer /\ Spec => []DuplicatesOnlyAfterUnknown
<1>1. Init => Counted BY DEF Init, Counted, Spent
<1>2. OneDrainer /\ TypeInv /\ FiledInv /\ Apart /\ Counted /\ [Next]_vars => Counted'
  <2> SUFFICES ASSUME OneDrainer, TypeInv, FiledInv, Apart, Counted, [Next]_vars PROVE Counted'
    OBVIOUS
  <2>1. CASE UNCHANGED vars BY <2>1 DEF vars, Counted, Concluded, Spent
  <2>2. CASE Next BY <2>2, CountedCarrier, CountedDrainer, CountedProcess DEF Next
  <2>3. QED BY <2>1, <2>2
<1>3. TypeInv /\ Counted => DuplicatesOnlyAfterUnknown
  BY DEF TypeInv, TypeOK, Counted, Spent, DuplicatesOnlyAfterUnknown
<1>4. CASE OneDrainer
  BY <1>1, <1>2, <1>3, <1>4, FiledInvariant, ApartInvariant, TypeInvariant, PTL DEF Spec
<1>5. QED BY <1>4
=============================================================================
