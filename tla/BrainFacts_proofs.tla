-------------------------- MODULE BrainFacts_proofs --------------------------
(***************************************************************************)
(* Proofs about BrainFacts for any number of keys, facts and concurrent    *)
(* requests.                                                               *)
(***************************************************************************)
EXTENDS BrainFacts, KnowledgeFacts_proofs

\* Handler h is storing a current fact on subject s.
StoresOn(h, s) == StoresCurrent(h) /\ task[h].fact.subject = s

\* A handler that has rows to supersede is storing a current fact, and the rows
\* are about its subject.
PriorsInv ==
  \A h \in Handlers : task[h] # NoTask =>
    \A k \in DOMAIN task[h].priors :
      StoresCurrent(h) /\ task[h].priors[k].subject = task[h].fact.subject

\* Two requests at work on one subject have overlapped.
OverlapInv ==
  \A g, h \in Handlers, s \in Subjects :
    StoresOn(g, s) /\ StoresOn(h, s) /\ g # h => s \in contended

\* Unless it was overlapped, a request that is storing a current fact has still
\* loaded every other current fact on the subject that is left.
LoadedInv ==
  \A h \in Handlers, s \in Subjects \ contended : StoresOn(h, s) =>
    \A k \in CurrentOn(s) :
      brain[k].identity # task[h].fact.identity => k \in DOMAIN task[h].priors

\* Of a loaded row that is current, either the subject is the handler's or a
\* request on the row's subject overlapped with it.
ForeignInv ==
  \A h \in Handlers : task[h] # NoTask =>
    \A k \in DOMAIN task[h].priors \intersect DOMAIN brain :
      brain[k].status = "current" =>
        brain[k].subject = task[h].fact.subject \/ brain[k].subject \in contended

SubjectInv == /\ PriorsInv /\ OverlapInv /\ LoadedInv /\ ForeignInv
              /\ OneCurrentFact /\ CurrentFactRemains

IInv == TypeOK /\ CountersInv /\ RecordInv /\ SubjectInv

-----------------------------------------------------------------------------
LEMMA TaskFacts ==
  ASSUME BrainTypeOK, NEW h \in Handlers, task[h] # NoTask
  PROVE  /\ task[h] \in Tasks /\ task[h].fact \in Facts /\ task[h].priors \in Loaded
         /\ task[h].fact.key \in Keys /\ task[h].fact.value \in Values
         /\ task[h].fact.subject \in Subjects
  BY DEF BrainTypeOK, Tasks, Facts

LEMMA LoadedFacts ==
  ASSUME NEW b
  PROVE  b \in Loaded <=> DOMAIN b \subseteq Keys /\ b \in [DOMAIN b -> BrainRows]
  BY DEF Loaded

LEMMA PutFacts ==
  ASSUME BrainTypeOK, NEW k \in Keys, NEW row \in BrainRows, Put(k, row)
  PROVE  /\ brain' \in Loaded
         /\ DOMAIN brain' = DOMAIN brain \union {k}
         /\ brain'[k] = row
         /\ \A j \in DOMAIN brain \ {k} : brain'[j] = brain[j]
<1>1. brain' = [j \in DOMAIN brain \union {k} |-> IF j = k THEN row ELSE brain[j]]
  BY DEF Put
<1>2. DOMAIN brain \subseteq Keys /\ \A j \in DOMAIN brain : brain[j] \in BrainRows
  BY LoadedFacts DEF BrainTypeOK
<1>3. DOMAIN brain' \subseteq Keys /\ brain' \in [DOMAIN brain' -> BrainRows]
  BY <1>1, <1>2
<1> QED
  BY <1>1, <1>3, LoadedFacts

\* The rows written for a fact, for a row it supersedes and for a plain entry.
LEMMA NewRowFacts ==
  ASSUME NEW f \in Facts
  PROVE  /\ NewRow(f) \in BrainRows
         /\ NewRow(f).subject = f.subject /\ NewRow(f).status = f.status
         /\ NewRow(f).identity = f.identity
  BY DEF NewRow, Facts, BrainRows, RowIdentities

LEMMA SupersededRowFacts ==
  ASSUME NEW f \in Facts, NEW row \in BrainRows
  PROVE  /\ SupersededRow(row, f) \in BrainRows
         /\ SupersededRow(row, f).status # "current"
         /\ SupersededRow(row, f).subject = row.subject
  BY DEF SupersededRow, BrainRows

LEMMA PlainRowFacts ==
  ASSUME NEW k \in Keys, NEW v \in Values
  PROVE  [value |-> v, subject |-> k, identity |-> LegacyIdentity(k), status |-> "legacy"]
           \in BrainRows
  BY DEF BrainRows, RowIdentities

-----------------------------------------------------------------------------
\* Handler h gives up, or goes on with the projection of what it has stored.
Quits(h) ==
  /\ task' = [task EXCEPT ![h] = NoTask]
  /\ covered' = IF StoresCurrent(h) THEN covered \ {task[h].fact.subject} ELSE covered
  /\ UNCHANGED <<brain, contended>>

\* The row at k is deleted, or overwritten by one that is not current.
Clears(k) ==
  /\ brain' \in Loaded
  /\ DOMAIN brain \ {k} \subseteq DOMAIN brain'
  /\ DOMAIN brain' \subseteq DOMAIN brain \union {k}
  /\ k \in DOMAIN brain' => brain'[k].status # "current"
  /\ \A j \in DOMAIN brain \ {k} : brain'[j] = brain[j]
  /\ covered' = covered \ Displaced(k)
  /\ UNCHANGED <<task, contended>>

\* What a step may do to the facts of the brain.
BrainStep ==
  \/ \E h \in Handlers, f \in Ingests : Ingest(h, f)
  \/ \E h \in Handlers, k \in Keys : Supersede(h, k)
  \/ \E h \in Handlers : StoreFact(h)
  \/ \E h \in Handlers : Quits(h)
  \/ \E k \in Keys : Clears(k)
  \/ UNCHANGED <<brain, task, contended, covered>>

LEMMA NextIsBrainStep ==
  ASSUME TypeOK, [Next]_vars
  PROVE  BrainStep
<1> USE DEF BrainStep
<1>0. BrainTypeOK
  BY DEF TypeOK
<1>1. ASSUME NEW h \in Handlers, Work(h) PROVE BrainStep
  <2>1. ASSUME NEW f \in Ingests, Ingest(h, f) PROVE BrainStep
    BY <2>1
  <2>2. ASSUME NEW k \in Keys, Supersede(h, k) PROVE BrainStep
    BY <2>2
  <2>3. CASE StoreFact(h)
    BY <2>3
  <2>4. CASE Project(h)
    <3>1. ~ StoresCurrent(h)
      BY <2>4 DEF Project, StoresCurrent
    <3> QED
      BY <2>4, <3>1 DEF Project, Quits
  <2>5. CASE Refused(h) \/ Stop(h)
    BY <2>5 DEF Refused, Stop, GivesUp, Quits
  <2>6. ASSUME NEW k \in Keys, NEW v \in DirectValues, Told(h, k, v) PROVE BrainStep
    BY <2>6 DEF Told
  <2>7. ASSUME NEW S \in (SUBSET stored) \ {{}}, Recalled(h, S) PROVE BrainStep
    BY <2>7 DEF Recalled, brainVars
  <2>8. ASSUME NEW k \in Keys, WriteFact(h, k) PROVE BrainStep
    BY <2>8 DEF WriteFact, brainVars
  <2> QED
    BY <1>1, <2>1, <2>2, <2>3, <2>4, <2>5, <2>6, <2>7, <2>8 DEF Work
<1>2. ASSUME NEW k \in Keys, NEW v \in DirectValues, StorePlain(k, v) PROVE BrainStep
  <2> DEFINE row == [value |-> v, subject |-> k, identity |-> LegacyIdentity(k),
                     status |-> "legacy"]
  <2>1. row \in BrainRows
    BY ValuesAssumption, PlainRowFacts
  <2>2. row.status # "current"
    OBVIOUS
  <2>3. Put(k, row)
    BY <1>2 DEF StorePlain
  <2> HIDE DEF row
  <2>4. Clears(k)
    BY <1>0, <1>2, <2>1, <2>2, <2>3, PutFacts DEF StorePlain, Clears
  <2> QED
    BY <2>4
<1>3. ASSUME NEW k \in Keys, Forget(k) PROVE BrainStep
  <2>1. brain' = [j \in DOMAIN brain \ {k} |-> brain[j]]
    BY <1>3 DEF Forget
  <2>2. DOMAIN brain \subseteq Keys /\ \A j \in DOMAIN brain : brain[j] \in BrainRows
    BY <1>0, LoadedFacts DEF BrainTypeOK
  <2>3. DOMAIN brain' \subseteq Keys /\ brain' \in [DOMAIN brain' -> BrainRows]
    BY <2>1, <2>2
  <2>4. brain' \in Loaded
    BY <2>3, LoadedFacts
  <2>5. Clears(k)
    BY <1>3, <2>1, <2>4 DEF Forget, Clears
  <2> QED
    BY <2>5
<1>4. ASSUME NEW k \in Keys, Removed(k) PROVE BrainStep
  BY <1>4 DEF Removed
<1>5. CASE UNCHANGED vars
  BY <1>5 DEF vars, brainVars
<1> QED
  BY <1>1, <1>2, <1>3, <1>4, <1>5 DEF Next

-----------------------------------------------------------------------------
LEMMA BrainTypeStep ==
  ASSUME TypeOK, [Next]_vars
  PROVE  BrainTypeOK'
<1>0. BrainTypeOK
  BY DEF TypeOK
<1>b. DOMAIN brain \subseteq Keys /\ \A k \in DOMAIN brain : brain[k] \in BrainRows
  BY <1>0, LoadedFacts DEF BrainTypeOK
<1>1. ASSUME NEW h \in Handlers, Work(h) PROVE BrainTypeOK'
  <2>1. ASSUME NEW f \in Ingests, Ingest(h, f) PROVE BrainTypeOK'
    <3> DEFINE new == [k \in Priors(f) |-> brain[k]]
    <3>1. f \in Facts /\ f.subject \in Subjects
      BY IngestsAssumption DEF Facts
    <3>2. Priors(f) \subseteq DOMAIN brain
      BY DEF Priors, CurrentOn
    <3>3. DOMAIN new \subseteq Keys /\ new \in [DOMAIN new -> BrainRows]
      BY <1>b, <3>2
    <3>4. new \in Loaded
      BY <3>3, LoadedFacts
    <3>5. task' = [task EXCEPT ![h] = [stage |-> "store", fact |-> f, priors |-> new]]
      BY <2>1 DEF Ingest
    <3> HIDE DEF new
    <3>6. [stage |-> "store", fact |-> f, priors |-> new] \in Tasks
      BY <3>1, <3>4 DEF Tasks
    <3>7. task' \in [Handlers -> Tasks \union {NoTask}]
      BY <1>0, <3>5, <3>6 DEF BrainTypeOK
    <3> QED
      BY <1>0, <2>1, <3>1, <3>7 DEF Ingest, BrainTypeOK
  <2>2. ASSUME NEW k \in Keys, Supersede(h, k) PROVE BrainTypeOK'
    <3> DEFINE f   == task[h].fact
               row == task[h].priors[k]
               new == [j \in DOMAIN task[h].priors \ {k} |-> task[h].priors[j]]
    <3>1. task[h] \in Tasks /\ f \in Facts /\ task[h].priors \in Loaded
      BY <1>0, <2>2, TaskFacts DEF Supersede
    <3>2. /\ DOMAIN task[h].priors \subseteq Keys
          /\ \A j \in DOMAIN task[h].priors : task[h].priors[j] \in BrainRows
      BY <3>1, LoadedFacts
    <3>3. row \in BrainRows
      BY <2>2, <3>2 DEF Supersede
    <3>4. row.identity \in RowIdentities
      BY <3>3 DEF BrainRows
    <3>5. brain' \in Loaded
      BY <1>0, <2>2, <3>1, <3>3, SupersededRowFacts, PutFacts DEF Supersede
    <3>6. DOMAIN new \subseteq Keys /\ new \in [DOMAIN new -> BrainRows]
      BY <3>2
    <3>7. new \in Loaded
      BY <3>6, LoadedFacts
    <3>8. task' = [task EXCEPT ![h].priors = new]
      BY <2>2 DEF Supersede
    <3> HIDE DEF new, f, row
    <3>9. [task[h] EXCEPT !.priors = new] \in Tasks
      BY <3>1, <3>7 DEF Tasks
    <3>10. task' \in [Handlers -> Tasks \union {NoTask}]
      BY <1>0, <3>8, <3>9 DEF BrainTypeOK
    <3>11. marked' \subseteq marked \union {row.identity}
      BY <2>2 DEF Supersede, row
    <3> QED
      BY <1>0, <2>2, <3>4, <3>5, <3>10, <3>11 DEF Supersede, BrainTypeOK
  <2>3. CASE StoreFact(h)
    <3> DEFINE f == task[h].fact
    <3>1. task[h] \in Tasks /\ f \in Facts /\ f.key \in Keys /\ f.subject \in Subjects
      BY <1>0, <2>3, TaskFacts DEF StoreFact, ReadyToStore
    <3>2. brain' \in Loaded
      BY <1>0, <2>3, <3>1, NewRowFacts, PutFacts DEF StoreFact
    <3>3. [task[h] EXCEPT !.stage = "project"] \in Tasks
      BY <3>1 DEF Tasks
    <3>4. task' = [task EXCEPT ![h] = IF Projected(f) THEN [task[h] EXCEPT !.stage = "project"]
                                      ELSE NoTask]
      BY <2>3 DEF StoreFact
    <3>5. task' \in [Handlers -> Tasks \union {NoTask}]
      BY <1>0, <3>3, <3>4 DEF BrainTypeOK
    <3>6. covered' \subseteq covered \union {f.subject}
      BY <2>3 DEF StoreFact
    <3>7. contended' \subseteq contended \union {f.subject}
      BY <2>3 DEF StoreFact
    <3>8. loose' \subseteq loose \union {f.key}
      BY <2>3 DEF StoreFact
    <3> HIDE DEF f
    <3> QED
      BY <1>0, <2>3, <3>1, <3>2, <3>5, <3>6, <3>7, <3>8 DEF StoreFact, BrainTypeOK
  <2>4. CASE Project(h)
    BY <1>0, <2>4 DEF Project, BrainTypeOK
  <2>5. CASE Refused(h) \/ Stop(h)
    <3>1. task[h] # NoTask => task[h].fact.key \in Keys
      BY <1>0, TaskFacts
    <3>2. GivesUp(h)
      BY <2>5 DEF Refused, Stop
    <3>3. loose' \subseteq Keys
      BY <1>0, <3>1, <3>2 DEF GivesUp, BrainTypeOK
    <3>4. covered' \subseteq covered
      BY <3>2 DEF GivesUp
    <3> QED
      BY <1>0, <3>2, <3>3, <3>4 DEF GivesUp, BrainTypeOK
  <2>6. ASSUME NEW k \in Keys, NEW v \in DirectValues, Told(h, k, v) PROVE BrainTypeOK'
    BY <1>0, <2>6 DEF Told, BrainTypeOK
  <2>7. ASSUME NEW S \in (SUBSET stored) \ {{}}, Recalled(h, S) PROVE BrainTypeOK'
    BY <1>0, <2>7 DEF Recalled, brainVars, BrainTypeOK
  <2>8. ASSUME NEW k \in Keys, WriteFact(h, k) PROVE BrainTypeOK'
    BY <1>0, <2>8 DEF WriteFact, brainVars, BrainTypeOK
  <2> QED
    BY <1>1, <2>1, <2>2, <2>3, <2>4, <2>5, <2>6, <2>7, <2>8 DEF Work
<1>2. ASSUME NEW k \in Keys, NEW v \in DirectValues, StorePlain(k, v) PROVE BrainTypeOK'
  <2>1. v \in Values
    BY ValuesAssumption
  <2>2. brain' \in Loaded
    BY <1>0, <1>2, <2>1, PlainRowFacts, PutFacts DEF StorePlain
  <2> QED
    BY <1>0, <1>2, <2>2 DEF StorePlain, BrainTypeOK
<1>3. ASSUME NEW k \in Keys, Forget(k) PROVE BrainTypeOK'
  <2>1. brain' = [j \in DOMAIN brain \ {k} |-> brain[j]]
    BY <1>3 DEF Forget
  <2>2. DOMAIN brain' \subseteq Keys /\ brain' \in [DOMAIN brain' -> BrainRows]
    BY <1>b, <2>1
  <2>3. brain' \in Loaded
    BY <2>2, LoadedFacts
  <2> QED
    BY <1>0, <1>3, <2>3 DEF Forget, BrainTypeOK
<1>4. ASSUME NEW k \in Keys, Removed(k) PROVE BrainTypeOK'
  BY <1>0, <1>4 DEF Removed, BrainTypeOK
<1>5. CASE UNCHANGED vars
  BY <1>0, <1>5 DEF vars, brainVars, BrainTypeOK
<1> QED
  BY <1>1, <1>2, <1>3, <1>4, <1>5 DEF Next

LEMMA NextIsStoreStep ==
  ASSUME TypeOK, CountersInv, [Next]_vars
  PROVE  StoreStep /\ today' \in Nat /\ requests' \in Nat
<1> USE DEF StoreStep
<1>0. FactsTypeOK /\ BrainTypeOK /\ today \in Nat /\ requests \in Nat
  BY DEF TypeOK, FactsTypeOK
<1>1. ASSUME NEW h \in Handlers, Work(h)
      PROVE  StoreStep /\ today' \in Nat /\ requests' \in Nat
  <2>1. ASSUME NEW f \in Ingests, Ingest(h, f)
        PROVE  StoreStep /\ today' \in Nat /\ requests' \in Nat
    BY <1>0, <2>1 DEF Ingest, Request
  <2>2. CASE (\E k \in Keys : Supersede(h, k)) \/ StoreFact(h) \/ Refused(h)
    BY <1>0, <2>2 DEF Supersede, StoreFact, Refused, factVars
  <2>3. CASE Project(h)
    <3>1. ReadStep(h)
      BY <1>0, <2>3, TaskFacts, RememberIsRead DEF Project
    <3> QED
      BY <1>0, <2>3, <3>1 DEF Project, RememberReads, Computes
  <2>4. CASE Stop(h)
    BY <1>0, <2>4 DEF Stop, HandlerStops, factVars
  <2>5. ASSUME NEW k \in Keys, NEW v \in DirectValues, Told(h, k, v)
        PROVE  StoreStep /\ today' \in Nat /\ requests' \in Nat
    <3>1. v \in Values /\ RememberReads(h, k, v)
      BY <2>5, ValuesAssumption DEF Told, Remember
    <3>2. ReadStep(h)
      BY <1>0, <3>1, RememberIsRead
    <3> QED
      BY <1>0, <2>5, <3>2 DEF Told, Remember, RememberReads, Computes, Request
  <2>6. ASSUME NEW S \in (SUBSET stored) \ {{}}, Recalled(h, S)
        PROVE  StoreStep /\ today' \in Nat /\ requests' \in Nat
    <3>1. ReadStep(h)
      BY <1>0, <2>6, RecallIsRead DEF Recalled
    <3> QED
      BY <1>0, <2>6, <3>1 DEF Recalled, RecallReads, Computes, Request
  <2>7. ASSUME NEW k \in Keys, WriteFact(h, k)
        PROVE  StoreStep /\ today' \in Nat /\ requests' \in Nat
    BY <1>0, <2>7 DEF WriteFact, WriteBack
  <2> QED
    BY <1>1, <2>1, <2>2, <2>3, <2>4, <2>5, <2>6, <2>7 DEF Work
<1>2. ASSUME NEW k \in Keys, NEW v \in DirectValues, StorePlain(k, v)
      PROVE  StoreStep /\ today' \in Nat /\ requests' \in Nat
  BY <1>0, <1>2 DEF StorePlain, Request
<1>3. ASSUME NEW k \in Keys, Forget(k)
      PROVE  StoreStep /\ today' \in Nat /\ requests' \in Nat
  BY <1>0, <1>3 DEF Forget, Request
<1>4. ASSUME NEW k \in Keys, Removed(k)
      PROVE  StoreStep /\ today' \in Nat /\ requests' \in Nat
  BY <1>0, <1>4 DEF Removed, Remove, Delete, Request
<1>5. CASE UNCHANGED vars
  BY <1>0, <1>5 DEF vars, factVars
<1> QED
  BY <1>1, <1>2, <1>3, <1>4, <1>5 DEF Next

-----------------------------------------------------------------------------
(***************************************************************************)
(* The invariant of the subjects, one lemma per kind of step.              *)
(***************************************************************************)

LEMMA IngestSubjects ==
  ASSUME BrainTypeOK, BrainTypeOK', SubjectInv,
         NEW h \in Handlers, NEW f \in Ingests, Ingest(h, f)
  PROVE  SubjectInv'
<1> DEFINE new == [k \in Priors(f) |-> brain[k]]
<1>1. /\ task' = [task EXCEPT ![h] = [stage |-> "store", fact |-> f, priors |-> new]]
      /\ task[h] = NoTask /\ brain' = brain /\ covered' = covered
      /\ contended \subseteq contended'
      /\ (\E g \in Handlers : StoresOn(g, f.subject)) => f.subject \in contended'
  BY DEF Ingest, Free, StoresOn
<1>2. f \in Facts /\ f.subject \in Subjects
  BY IngestsAssumption DEF Facts
<1>n. /\ DOMAIN new = Priors(f) /\ \A k \in Priors(f) : new[k] = brain[k]
      /\ Priors(f) \subseteq CurrentOn(f.subject)
      /\ Priors(f) # {} => f.status = "current"
      /\ f.status = "current" =>
           Priors(f) = {k \in CurrentOn(f.subject) : brain[k].identity # f.identity}
  BY DEF Priors
<1> HIDE DEF new
<1>3. /\ task'[h] = [stage |-> "store", fact |-> f, priors |-> new]
      /\ task'[h].stage = "store" /\ task'[h].fact = f /\ task'[h].priors = new
      /\ \A g \in Handlers \ {h} : task'[g] = task[g]
  BY <1>1 DEF BrainTypeOK
<1>4. task'[h] # NoTask
  <2>1. DOMAIN new = {} \/ DOMAIN new # {}
    OBVIOUS
  <2>2. f.status \in {"current", "timeline"}
    BY <1>2 DEF Facts
  <2>3. new \in Loaded
    <3>1. Priors(f) \subseteq DOMAIN brain
      BY <1>n DEF CurrentOn
    <3>2. DOMAIN brain \subseteq Keys /\ \A k \in DOMAIN brain : brain[k] \in BrainRows
      BY LoadedFacts DEF BrainTypeOK
    <3>3. DOMAIN new \subseteq Keys /\ new \in [DOMAIN new -> BrainRows]
      BY <1>n, <3>1, <3>2 DEF new
    <3> QED
      BY <3>3, LoadedFacts
  <2>4. task'[h] \in Tasks
    BY <1>2, <1>3, <2>3 DEF Tasks
  <2> QED
    BY <2>4, NoTaskAssumption
<1>5. /\ \A s : CurrentOn(s)' = CurrentOn(s)
      /\ \A s : StoresOn(h, s)' <=> f.status = "current" /\ f.subject = s
      /\ \A s : ~ StoresOn(h, s)
      /\ \A g \in Handlers \ {h} : StoresCurrent(g)' <=> StoresCurrent(g)
      /\ \A g \in Handlers \ {h} : \A s : StoresOn(g, s)' <=> StoresOn(g, s)
  BY <1>1, <1>3, <1>4 DEF CurrentOn, StoresOn, StoresCurrent
<1>6. PriorsInv'
  <2>1. ASSUME NEW k \in Priors(f)
        PROVE  StoresCurrent(h)' /\ new[k].subject = f.subject
    BY <1>n, <1>3, <1>4 DEF CurrentOn, StoresCurrent
  <2> QED
    BY <1>n, <1>3, <1>5, <2>1 DEF PriorsInv, SubjectInv
<1>7. OverlapInv'
  BY <1>1, <1>5 DEF OverlapInv, SubjectInv
<1>8. LoadedInv'
  <2>1. ASSUME NEW s \in Subjects \ contended', NEW g \in Handlers, StoresOn(g, s)',
               NEW k \in CurrentOn(s), brain[k].identity # task'[g].fact.identity
        PROVE  k \in DOMAIN task'[g].priors
    <3>1. CASE g = h
      BY <1>n, <1>3, <1>5, <2>1, <3>1
    <3>2. CASE g # h
      BY <1>1, <1>3, <1>5, <2>1, <3>2 DEF LoadedInv, SubjectInv
    <3> QED
      BY <3>1, <3>2
  <2> QED
    BY <1>1, <1>5, <2>1 DEF LoadedInv
<1>9. ForeignInv'
  BY <1>1, <1>n, <1>3 DEF ForeignInv, SubjectInv, CurrentOn
<1>10. OneCurrentFact'
  BY <1>1, <1>5 DEF OneCurrentFact, SubjectInv
<1>11. CurrentFactRemains'
  BY <1>1, <1>5 DEF CurrentFactRemains, SubjectInv, StoresOn
<1> QED
  BY <1>6, <1>7, <1>8, <1>9, <1>10, <1>11 DEF SubjectInv

LEMMA SupersedeSubjects ==
  ASSUME BrainTypeOK, BrainTypeOK', SubjectInv,
         NEW h \in Handlers, NEW k \in Keys, Supersede(h, k)
  PROVE  SubjectInv'
<1> DEFINE row == SupersededRow(task[h].priors[k], task[h].fact)
<1>1. /\ task[h] # NoTask /\ task[h].stage = "store" /\ k \in DOMAIN task[h].priors
      /\ Put(k, row) /\ covered' = covered /\ contended' = contended
      /\ task' = [task EXCEPT ![h].priors =
                    [j \in DOMAIN task[h].priors \ {k} |-> task[h].priors[j]]]
  BY DEF Supersede
<1>2. task[h] \in Tasks /\ task[h].fact \in Facts /\ task[h].priors[k] \in BrainRows
  BY <1>1, TaskFacts, LoadedFacts
<1>3. /\ DOMAIN brain' = DOMAIN brain \union {k} /\ brain'[k].status # "current"
      /\ \A j \in DOMAIN brain \ {k} : brain'[j] = brain[j]
  BY <1>1, <1>2, SupersededRowFacts, PutFacts
<1>4. StoresCurrent(h)
  BY <1>1 DEF SubjectInv, PriorsInv
<1>5. /\ task'[h] = [task[h] EXCEPT !.priors =
                       [j \in DOMAIN task[h].priors \ {k} |-> task[h].priors[j]]]
      /\ \A g \in Handlers \ {h} : task'[g] = task[g]
  BY <1>1 DEF BrainTypeOK
<1>6. /\ task'[h].stage = "store" /\ task'[h].fact = task[h].fact
      /\ DOMAIN task'[h].priors = DOMAIN task[h].priors \ {k}
      /\ \A j \in DOMAIN task'[h].priors : task'[h].priors[j] = task[h].priors[j]
      /\ task'[h] \in Tasks
  <2>1. [task[h] EXCEPT !.priors =
          [j \in DOMAIN task[h].priors \ {k} |-> task[h].priors[j]]] \in Tasks
    <3> DEFINE new == [j \in DOMAIN task[h].priors \ {k} |-> task[h].priors[j]]
    <3>1. /\ DOMAIN task[h].priors \subseteq Keys
          /\ \A j \in DOMAIN task[h].priors : task[h].priors[j] \in BrainRows
      BY <1>1, TaskFacts, LoadedFacts
    <3>2. DOMAIN new \subseteq Keys /\ new \in [DOMAIN new -> BrainRows]
      BY <3>1
    <3>3. new \in Loaded
      BY <3>2, LoadedFacts
    <3> HIDE DEF new
    <3>4. [task[h] EXCEPT !.priors = new] \in Tasks
      BY <1>2, <3>3 DEF Tasks
    <3> QED
      BY <3>4 DEF new
  <2> QED
    BY <1>1, <1>2, <1>5, <2>1 DEF Tasks
<1>7. task'[h] # NoTask
  BY <1>6, NoTaskAssumption
<1>8. /\ \A g \in Handlers : task'[g] # NoTask <=> task[g] # NoTask
      /\ \A g \in Handlers : task[g] # NoTask => task'[g].fact = task[g].fact
      /\ \A g \in Handlers : StoresCurrent(g)' <=> StoresCurrent(g)
      /\ \A g \in Handlers : \A s : StoresOn(g, s)' <=> StoresOn(g, s)
  BY <1>1, <1>4, <1>5, <1>6, <1>7 DEF StoresOn, StoresCurrent
<1>9. \A s : CurrentOn(s)' = CurrentOn(s) \ {k}
  BY <1>3 DEF CurrentOn
<1>10. \A g \in Handlers : task[g] # NoTask =>
         /\ DOMAIN task'[g].priors \subseteq DOMAIN task[g].priors
         /\ DOMAIN task[g].priors \subseteq DOMAIN task'[g].priors \union {k}
         /\ \A j \in DOMAIN task'[g].priors : task'[g].priors[j] = task[g].priors[j]
  BY <1>5, <1>6
<1>11. PriorsInv'
  <2>1. ASSUME NEW g \in Handlers, task[g] # NoTask, NEW j \in DOMAIN task'[g].priors
        PROVE  StoresCurrent(g)' /\ task'[g].priors[j].subject = task'[g].fact.subject
    <3>1. j \in DOMAIN task[g].priors /\ task'[g].priors[j] = task[g].priors[j]
      BY <1>10, <2>1
    <3>2. StoresCurrent(g) /\ task[g].priors[j].subject = task[g].fact.subject
      BY <2>1, <3>1 DEF PriorsInv, SubjectInv
    <3> QED
      BY <1>8, <2>1, <3>1, <3>2
  <2> QED
    BY <1>8, <2>1 DEF PriorsInv
<1>12. OverlapInv'
  BY <1>1, <1>8 DEF OverlapInv, SubjectInv
<1>13. LoadedInv'
  <2>1. ASSUME NEW s \in Subjects \ contended, NEW g \in Handlers, StoresOn(g, s),
               NEW j \in CurrentOn(s) \ {k}, brain'[j].identity # task'[g].fact.identity
        PROVE  j \in DOMAIN task'[g].priors
    <3>1. task[g] # NoTask /\ brain'[j] = brain[j]
      BY <1>3, <2>1 DEF StoresOn, StoresCurrent, CurrentOn
    <3>2. brain[j].identity # task[g].fact.identity
      BY <1>8, <2>1, <3>1
    <3>3. j \in DOMAIN task[g].priors
      BY <2>1, <3>2 DEF LoadedInv, SubjectInv
    <3> QED
      BY <1>10, <2>1, <3>1, <3>3
  <2> QED
    BY <1>1, <1>8, <1>9, <2>1 DEF LoadedInv
<1>14. ForeignInv'
  BY <1>1, <1>3, <1>8, <1>10 DEF ForeignInv, SubjectInv
<1>15. OneCurrentFact'
  BY <1>1, <1>9 DEF OneCurrentFact, SubjectInv
<1>16. CurrentFactRemains'
  <2>1. ASSUME NEW s \in (covered \intersect Subjects) \ contended, CurrentOn(s)' = {}
        PROVE  \E g \in Handlers : StoresOn(g, s)
    <3>1. CASE CurrentOn(s) = {}
      BY <2>1, <3>1 DEF CurrentFactRemains, SubjectInv, StoresOn
    <3>2. CASE CurrentOn(s) # {}
      <4>1. k \in CurrentOn(s)
        BY <1>9, <2>1, <3>2
      <4>2. task[h].fact.subject = s
        BY <1>1, <2>1, <4>1 DEF ForeignInv, SubjectInv, CurrentOn
      <4> QED
        BY <1>4, <4>2 DEF StoresOn
    <3> QED
      BY <3>1, <3>2
  <2> QED
    BY <1>1, <1>8, <2>1 DEF CurrentFactRemains, StoresOn
<1> QED
  BY <1>11, <1>12, <1>13, <1>14, <1>15, <1>16 DEF SubjectInv

LEMMA StoreFactSubjects ==
  ASSUME BrainTypeOK, BrainTypeOK', SubjectInv, NEW h \in Handlers, StoreFact(h)
  PROVE  SubjectInv'
<1> DEFINE f == task[h].fact
           k == f.key
<1>1. /\ task[h] # NoTask /\ task[h].stage = "store" /\ DOMAIN task[h].priors = {}
      /\ Admitted(k, f.identity) /\ Put(k, NewRow(f))
      /\ task' = [task EXCEPT ![h] = IF Projected(f) THEN [task[h] EXCEPT !.stage = "project"]
                                      ELSE NoTask]
      /\ contended \subseteq contended'
      /\ (\E g \in Handlers \ {h} : task[g] # NoTask /\ k \in DOMAIN task[g].priors)
           => f.subject \in contended'
      /\ covered' = (covered \ Displaced(k)) \union
                      (IF f.status = "current" THEN {f.subject} ELSE {})
  BY DEF StoreFact, ReadyToStore
<1>2. task[h] \in Tasks /\ f \in Facts /\ k \in Keys /\ f.subject \in Subjects
  BY <1>1, TaskFacts
<1>3. /\ DOMAIN brain' = DOMAIN brain \union {k}
      /\ brain'[k].subject = f.subject /\ brain'[k].status = f.status
      /\ \A j \in DOMAIN brain \ {k} : brain'[j] = brain[j]
  BY <1>1, <1>2, NewRowFacts, PutFacts
<1>4. /\ task'[h] # NoTask => task'[h].stage = "project" /\ DOMAIN task'[h].priors = {}
      /\ \A g \in Handlers \ {h} : task'[g] = task[g]
  BY <1>1, <1>2 DEF BrainTypeOK, Tasks
<1>5. /\ f.status = "current" => StoresOn(h, f.subject)
      /\ \A s : StoresOn(h, s) => f.status = "current" /\ f.subject = s
      /\ \A s : ~ StoresOn(h, s)'
      /\ \A g \in Handlers \ {h} : StoresCurrent(g)' <=> StoresCurrent(g)
      /\ \A g \in Handlers \ {h} : \A s : StoresOn(g, s)' <=> StoresOn(g, s)
  BY <1>1, <1>4 DEF StoresOn, StoresCurrent
<1> HIDE DEF f, k
<1>6. \A s : CurrentOn(s)' = IF f.status = "current" /\ f.subject = s
                             THEN CurrentOn(s) \union {k} ELSE CurrentOn(s) \ {k}
  BY <1>3 DEF CurrentOn
<1>7. PriorsInv'
  <2>1. ASSUME NEW g \in Handlers \ {h}, task[g] # NoTask, NEW j \in DOMAIN task[g].priors
        PROVE  StoresCurrent(g)' /\ task[g].priors[j].subject = task[g].fact.subject
    BY <1>5, <2>1 DEF PriorsInv, SubjectInv
  <2> QED
    BY <1>4, <2>1 DEF PriorsInv
<1>8. OverlapInv'
  <2>1. ASSUME NEW g \in Handlers, NEW i \in Handlers, NEW s \in Subjects,
               StoresOn(g, s)', StoresOn(i, s)', g # i
        PROVE  s \in contended'
    <3>1. StoresOn(g, s) /\ StoresOn(i, s)
      BY <1>5, <2>1
    <3> QED
      BY <1>1, <2>1, <3>1 DEF OverlapInv, SubjectInv
  <2> QED
    BY <2>1 DEF OverlapInv
<1>9. LoadedInv'
  <2>1. ASSUME NEW s \in Subjects \ contended', NEW g \in Handlers, StoresOn(g, s)',
               NEW j \in CurrentOn(s)', brain'[j].identity # task'[g].fact.identity
        PROVE  j \in DOMAIN task'[g].priors
    <3>1. g # h /\ StoresOn(g, s) /\ task'[g] = task[g] /\ s \notin contended
      BY <1>1, <1>4, <1>5, <2>1
    <3>2. ~ (f.status = "current" /\ f.subject = s)
      BY <1>2, <1>5, <3>1 DEF OverlapInv, SubjectInv
    <3>3. j \in CurrentOn(s) /\ brain'[j] = brain[j]
      BY <1>3, <1>6, <2>1, <3>2 DEF CurrentOn
    <3>4. brain[j].identity # task[g].fact.identity
      BY <2>1, <3>1, <3>3
    <3> QED
      BY <2>1, <3>1, <3>3, <3>4 DEF LoadedInv, SubjectInv
  <2> QED
    BY <2>1 DEF LoadedInv
<1>10. ForeignInv'
  <2>1. ASSUME NEW g \in Handlers, task'[g] # NoTask,
               NEW j \in DOMAIN task'[g].priors \intersect DOMAIN brain',
               brain'[j].status = "current"
        PROVE  brain'[j].subject = task'[g].fact.subject \/ brain'[j].subject \in contended'
    <3>1. g # h /\ task'[g] = task[g]
      BY <1>4, <2>1
    <3>2. CASE j = k
      BY <1>1, <1>3, <2>1, <3>1, <3>2
    <3>3. CASE j # k
      <4>1. j \in DOMAIN brain /\ brain'[j] = brain[j]
        BY <1>3, <2>1, <3>3
      <4> QED
        BY <1>1, <2>1, <3>1, <4>1 DEF ForeignInv, SubjectInv
    <3> QED
      BY <3>2, <3>3
  <2> QED
    BY <2>1 DEF ForeignInv
<1>11. OneCurrentFact'
  <2>1. ASSUME f.status = "current", f.subject \notin contended
        PROVE  CurrentOn(f.subject) \subseteq {k}
    <3>1. ASSUME NEW j \in CurrentOn(f.subject), j # k PROVE FALSE
      <4>1. j \in DOMAIN brain /\ brain[j].identity # f.identity
        BY <1>1, <3>1 DEF Admitted, CurrentOn
      <4>2. brain[j].identity # task[h].fact.identity
        BY <4>1 DEF f
      <4>3. j \in DOMAIN task[h].priors
        BY <1>2, <1>5, <2>1, <3>1, <4>2 DEF LoadedInv, SubjectInv
      <4> QED
        BY <1>1, <4>3
    <3> QED
      BY <3>1
  <2>2. ASSUME NEW s \in Subjects \ contended', NEW i \in CurrentOn(s)', NEW j \in CurrentOn(s)'
        PROVE  i = j
    <3>1. CASE f.status = "current" /\ f.subject = s
      BY <1>1, <1>6, <2>1, <2>2, <3>1
    <3>2. CASE ~ (f.status = "current" /\ f.subject = s)
      BY <1>1, <1>6, <2>2, <3>2 DEF OneCurrentFact, SubjectInv
    <3> QED
      BY <3>1, <3>2
  <2> QED
    BY <2>2 DEF OneCurrentFact
<1>12. CurrentFactRemains'
  <2>1. ASSUME NEW s \in (covered' \intersect Subjects) \ contended', CurrentOn(s)' = {}
        PROVE  \E g \in Handlers : StoresOn(g, s)'
    <3>1. ~ (f.status = "current" /\ f.subject = s)
      BY <1>6, <2>1
    <3>2. s \in covered /\ s \notin Displaced(k) /\ s \notin contended
      BY <1>1, <2>1, <3>1
    <3>3. CurrentOn(s) = {}
      BY <1>6, <2>1, <3>1, <3>2 DEF CurrentOn, Displaced
    <3>4. PICK g \in Handlers : StoresOn(g, s)
      BY <2>1, <3>2, <3>3 DEF CurrentFactRemains, SubjectInv, StoresOn
    <3>5. g # h
      BY <1>5, <3>1, <3>4
    <3> QED
      BY <1>5, <3>4, <3>5
  <2> QED
    BY <2>1 DEF CurrentFactRemains, StoresOn
<1> QED
  BY <1>7, <1>8, <1>9, <1>10, <1>11, <1>12 DEF SubjectInv

LEMMA QuitsSubjects ==
  ASSUME BrainTypeOK, BrainTypeOK', SubjectInv, NEW h \in Handlers, Quits(h)
  PROVE  SubjectInv'
<1>1. /\ task'[h] = NoTask /\ \A g \in Handlers \ {h} : task'[g] = task[g]
      /\ brain' = brain /\ contended' = contended /\ covered' \subseteq covered
      /\ StoresCurrent(h) => task[h].fact.subject \notin covered'
  BY DEF Quits, BrainTypeOK
<1>2. /\ \A s : CurrentOn(s)' = CurrentOn(s)
      /\ ~ StoresCurrent(h)'
      /\ \A g \in Handlers \ {h} : StoresCurrent(g)' <=> StoresCurrent(g)
      /\ \A s : ~ StoresOn(h, s)'
      /\ \A g \in Handlers \ {h} : \A s : StoresOn(g, s)' <=> StoresOn(g, s)
  BY <1>1 DEF CurrentOn, StoresOn, StoresCurrent
<1>3. PriorsInv'
  BY <1>1, <1>2 DEF PriorsInv, SubjectInv
<1>4. OverlapInv'
  BY <1>1, <1>2 DEF OverlapInv, SubjectInv
<1>5. LoadedInv'
  BY <1>1, <1>2 DEF LoadedInv, SubjectInv
<1>6. ForeignInv'
  BY <1>1 DEF ForeignInv, SubjectInv
<1>7. OneCurrentFact'
  BY <1>1, <1>2 DEF OneCurrentFact, SubjectInv
<1>8. CurrentFactRemains'
  <2>1. ASSUME NEW s \in (covered' \intersect Subjects) \ contended, CurrentOn(s) = {}
        PROVE  \E g \in Handlers : StoresOn(g, s)'
    <3>1. PICK g \in Handlers : StoresOn(g, s)
      BY <1>1, <2>1 DEF CurrentFactRemains, SubjectInv, StoresOn
    <3>2. g # h
      BY <1>1, <2>1, <3>1 DEF StoresOn
    <3> QED
      BY <1>2, <3>1, <3>2
  <2> QED
    BY <1>1, <1>2, <2>1 DEF CurrentFactRemains, StoresOn
<1> QED
  BY <1>3, <1>4, <1>5, <1>6, <1>7, <1>8 DEF SubjectInv

LEMMA ClearsSubjects ==
  ASSUME BrainTypeOK, BrainTypeOK', SubjectInv, NEW k \in Keys, Clears(k)
  PROVE  SubjectInv'
<1>1. /\ DOMAIN brain \ {k} \subseteq DOMAIN brain'
      /\ DOMAIN brain' \subseteq DOMAIN brain \union {k}
      /\ k \in DOMAIN brain' => brain'[k].status # "current"
      /\ \A j \in DOMAIN brain \ {k} : brain'[j] = brain[j]
      /\ covered' = covered \ Displaced(k) /\ task' = task /\ contended' = contended
  BY DEF Clears
<1>2. /\ \A s : CurrentOn(s)' = CurrentOn(s) \ {k}
      /\ \A g \in Handlers : StoresCurrent(g)' <=> StoresCurrent(g)
      /\ \A g \in Handlers : \A s : StoresOn(g, s)' <=> StoresOn(g, s)
  BY <1>1 DEF CurrentOn, StoresOn, StoresCurrent
<1>3. PriorsInv'
  BY <1>1, <1>2 DEF PriorsInv, SubjectInv
<1>4. OverlapInv'
  BY <1>1, <1>2 DEF OverlapInv, SubjectInv
<1>5. LoadedInv'
  BY <1>1, <1>2 DEF LoadedInv, SubjectInv, CurrentOn
<1>6. ForeignInv'
  BY <1>1 DEF ForeignInv, SubjectInv
<1>7. OneCurrentFact'
  BY <1>1, <1>2 DEF OneCurrentFact, SubjectInv
<1>8. CurrentFactRemains'
  <2>1. ASSUME NEW s \in (covered' \intersect Subjects) \ contended, CurrentOn(s)' = {}
        PROVE  \E g \in Handlers : StoresOn(g, s)
    <3>1. s \in covered /\ CurrentOn(s) = {}
      BY <1>1, <1>2, <2>1 DEF CurrentOn, Displaced
    <3> QED
      BY <2>1, <3>1 DEF CurrentFactRemains, SubjectInv, StoresOn
  <2> QED
    BY <1>1, <1>2, <2>1 DEF CurrentFactRemains, StoresOn
<1> QED
  BY <1>3, <1>4, <1>5, <1>6, <1>7, <1>8 DEF SubjectInv

LEMMA SubjectStep ==
  ASSUME TypeOK, SubjectInv, [Next]_vars
  PROVE  SubjectInv'
<1>1. BrainTypeOK /\ BrainTypeOK' /\ BrainStep
  BY BrainTypeStep, NextIsBrainStep DEF TypeOK
<1>2. CASE UNCHANGED <<brain, task, contended, covered>>
  BY <1>2 DEF SubjectInv, PriorsInv, OverlapInv, LoadedInv, ForeignInv, OneCurrentFact,
              CurrentFactRemains, StoresOn, StoresCurrent, CurrentOn
<1> QED
  BY <1>1, <1>2, IngestSubjects, SupersedeSubjects, StoreFactSubjects, QuitsSubjects,
     ClearsSubjects DEF BrainStep

-----------------------------------------------------------------------------
LEMMA InvInit == Init => IInv
<1> SUFFICES ASSUME Init PROVE IInv
  OBVIOUS
<1> USE DEF Init, FactsInit, stored
<1>1. NothingPending \in [Keys -> Seq(Rows)]
      /\ \A k \in Keys : NothingPending[k] = << >>
  BY DEF NothingPending
<1>2. DOMAIN rows = {} /\ DOMAIN brain = {} /\ DOMAIN << >> = {}
  BY DEF Nothing
<1>3. FactsTypeOK
  BY <1>1, <1>2 DEF FactsTypeOK
<1>4. brain \in Loaded
  BY <1>2, LoadedFacts DEF Nothing
<1>5. TypeOK
  BY <1>2, <1>3, <1>4 DEF TypeOK, BrainTypeOK
<1>6. CountersInv
  BY <1>1, <1>2 DEF CountersInv, CountersAreEarned
<1>7. RecordInv
  BY <1>1, <1>2 DEF RecordInv, OverlapAloneForgets, Recorded
<1>8. SubjectInv
  BY <1>2 DEF SubjectInv, PriorsInv, OverlapInv, LoadedInv, ForeignInv, OneCurrentFact,
              CurrentFactRemains, StoresOn, StoresCurrent, CurrentOn
<1> QED
  BY <1>5, <1>6, <1>7, <1>8 DEF IInv

LEMMA InvStep == IInv /\ [Next]_vars => IInv'
<1> SUFFICES ASSUME IInv, [Next]_vars PROVE IInv'
  OBVIOUS
<1>1. TypeOK /\ FactsTypeOK /\ CountersInv /\ RecordInv /\ SubjectInv
  BY DEF IInv, TypeOK
<1>2. StoreStep /\ today' \in Nat /\ requests' \in Nat
  BY <1>1, NextIsStoreStep
<1>3. TypeOK'
  <2>1. StoreType' /\ BrainTypeOK'
    BY <1>1, <1>2, StoreTypeStep, BrainTypeStep
  <2> QED
    BY <1>2, <2>1 DEF TypeOK, FactsTypeOK, StoreType
<1>4. CountersInv' /\ RecordInv' /\ SubjectInv'
  BY <1>1, <1>2, CountersStep, RecordStep, SubjectStep
<1> QED
  BY <1>3, <1>4 DEF IInv

LEMMA Invariance == Spec => []IInv
  BY InvInit, InvStep, PTL DEF Spec

\* The brain, the tasks of its handlers and the knowledge they project to keep
\* their types.
THEOREM BrainTypeCorrect == Spec => []TypeOK
<1>1. IInv => TypeOK
  BY DEF IInv
<1> QED
  BY <1>1, Invariance, PTL

\* StoreFactAsync leaves a subject with at most one current fact as long as no
\* two requests on the subject overlap, through refusals by the unique index,
\* stopped requests, plain entries and deletions.
THEOREM AtMostOneCurrentFact == Spec => []OneCurrentFact
<1>1. IInv => OneCurrentFact
  BY DEF IInv, SubjectInv
<1> QED
  BY <1>1, Invariance, PTL

\* ApplySupersessionAsync takes the current fact of a subject away only for one
\* that StoreFactAsync is about to write, unless requests overlapped or the
\* request in between was refused or stopped.
THEOREM CurrentFactIsKept == Spec => []CurrentFactRemains
<1>1. IInv => CurrentFactRemains
  BY DEF IInv, SubjectInv
<1> QED
  BY <1>1, Invariance, PTL

\* Projections of brain facts keep what KnowledgeService promises of the rows
\* of knowledge: earned counters, and history unless an outdated row is written.
THEOREM ProjectionKeepsKnowledge == Spec => [](CountersAreEarned /\ OverlapAloneForgets)
<1>1. IInv => CountersAreEarned /\ OverlapAloneForgets
  BY DEF IInv, CountersInv, RecordInv
<1> QED
  BY <1>1, Invariance, PTL
-----------------------------------------------------------------------------
(***************************************************************************)
(* The brain and the knowledge its facts are projected to.                 *)
(***************************************************************************)
\* Handler h has stored a fact under k and has yet to project it.
Projecting(h, k) == task[h] # NoTask /\ task[h].stage = "project" /\ task[h].fact.key = k

\* The rows handler h holds of knowledge k say v.
Holds(h, k, v) == \A i \in DOMAIN pending[h][k] : pending[h][k][i].value = v

\* Knowledge says v under k, or will once a handler that knows v has written;
\* nobody who could write something else holds an up-to-date row.
Agreed(k, v) ==
  /\ \A h \in Handlers : Projecting(h, k) => task[h].fact.value = v
  /\ \/ \E h \in Handlers : Projecting(h, k)
     \/ \E h \in Handlers : pending[h][k] # << >> /\ Holds(h, k, v)
     \/ /\ k \in stored /\ rows[k].value = v
        /\ \A h \in Handlers : <<h, k>> \notin outdated => Holds(h, k, v)

Agrees(k) ==
  k \in DOMAIN brain \ (loose \union lost) /\ brain[k].status = "current" =>
    Agreed(k, brain[k].value)

AgreeInv == \A k \in Keys : Agrees(k)

LEMMA AgreedStays ==
  ASSUME NEW k, NEW v, Agreed(k, v),
         \A h \in Handlers : /\ Projecting(h, k)' <=> Projecting(h, k)
                             /\ Projecting(h, k) => task'[h].fact = task[h].fact
                             /\ pending'[h][k] = pending[h][k]
                             /\ <<h, k>> \in outdated => <<h, k>> \in outdated' \/ pending[h][k] = << >>,
         k \in stored => k \in DOMAIN rows' /\ rows'[k].value = rows[k].value
  PROVE  Agreed(k, v)'
<1>1. \A h \in Handlers : Holds(h, k, v)' <=> Holds(h, k, v)
  BY DEF Holds
<1>e. \A h \in Handlers : pending[h][k] = << >> => Holds(h, k, v)
  BY DEF Holds
<1>2. \A h \in Handlers : Projecting(h, k)' => task'[h].fact.value = v
  BY DEF Agreed
<1>3. CASE \E h \in Handlers : Projecting(h, k)
  BY <1>2, <1>3 DEF Agreed
<1>4. CASE \E h \in Handlers : pending[h][k] # << >> /\ Holds(h, k, v)
  BY <1>1, <1>2, <1>4 DEF Agreed
<1>5. CASE /\ k \in stored /\ rows[k].value = v
           /\ \A h \in Handlers : <<h, k>> \notin outdated => Holds(h, k, v)
  BY <1>1, <1>2, <1>5, <1>e DEF Agreed, stored
<1> QED
  BY <1>3, <1>4, <1>5 DEF Agreed

\* A step that leaves the knowledge and the tasks at k alone, and at most takes
\* the current fact at k away.
LeavesAlone(k) ==
  /\ k \in DOMAIN brain' /\ brain'[k].status = "current" =>
       k \in DOMAIN brain /\ brain'[k] = brain[k]
  /\ k \in loose \union lost => k \in loose' \union lost'
  /\ \A h \in Handlers : /\ Projecting(h, k)' <=> Projecting(h, k)
                         /\ Projecting(h, k) => task'[h].fact = task[h].fact
                         /\ pending'[h][k] = pending[h][k]
                         /\ <<h, k>> \in outdated => <<h, k>> \in outdated' \/ pending[h][k] = << >>
  /\ k \in stored => k \in DOMAIN rows' /\ rows'[k].value = rows[k].value

\* To show agreement after a step, show it for the value there is then.
LEMMA AgreesByValue ==
  ASSUME NEW k,
         ASSUME k \in DOMAIN brain', k \notin loose' \union lost', brain'[k].status = "current",
                NEW v, v = brain'[k].value
         PROVE  Agreed(k, v)'
  PROVE  Agrees(k)'
<1> SUFFICES ASSUME k \in DOMAIN brain', k \notin loose' \union lost', brain'[k].status = "current"
             PROVE  Agreed(k, brain[k].value)'
  BY DEF Agrees
<1>1. PICK v : v = brain'[k].value
  OBVIOUS
<1>2. Agreed(k, v)'
  BY <1>1
<1> QED
  BY <1>1, <1>2 DEF Agreed, Holds

LEMMA LeftAloneAgrees ==
  ASSUME NEW k, Agrees(k), LeavesAlone(k)
  PROVE  Agrees(k)'
<1>1. ASSUME k \in DOMAIN brain', k \notin loose' \union lost', brain'[k].status = "current",
             NEW v, v = brain'[k].value
      PROVE  Agreed(k, v)'
  <2>1. Agreed(k, brain[k].value) /\ v = brain[k].value
    BY <1>1 DEF LeavesAlone, Agrees
  <2>2. Agreed(k, v)
    BY <2>1
  <2> QED
    BY <2>2, AgreedStays DEF LeavesAlone
<1> QED
  BY <1>1, AgreesByValue

\* The steps of the brain alone.
LEMMA BrainStepAgrees ==
  ASSUME TypeOK, AgreeInv, NEW k \in Keys,
         \/ \E h \in Handlers, f \in Ingests : Ingest(h, f)
         \/ \E h \in Handlers, j \in Keys : Supersede(h, j)
         \/ \E h \in Handlers : StoreFact(h)
         \/ \E j \in Keys, v \in DirectValues : StorePlain(j, v)
         \/ \E j \in Keys : Forget(j)
  PROVE  Agrees(k)'
<1>0. BrainTypeOK /\ Agrees(k)
  BY DEF TypeOK, AgreeInv
<1>1. ASSUME NEW h \in Handlers, NEW f \in Ingests, Ingest(h, f) PROVE Agrees(k)'
  <2>1. /\ task[h] = NoTask /\ task'[h].stage = "store"
        /\ \A g \in Handlers \ {h} : task'[g] = task[g]
    BY <1>0, <1>1 DEF Ingest, Free, BrainTypeOK
  <2>2. LeavesAlone(k)
    BY <1>1, <2>1 DEF LeavesAlone, Ingest, Projecting, stored
  <2> QED
    BY <1>0, <2>2, LeftAloneAgrees
<1>2. ASSUME NEW h \in Handlers, NEW j \in Keys, Supersede(h, j) PROVE Agrees(k)'
  <2>1. /\ task[h] # NoTask /\ task[h].stage = "store" /\ task[h] \in Tasks
        /\ task[h].fact \in Facts /\ task[h].priors[j] \in BrainRows
    BY <1>0, <1>2, TaskFacts, LoadedFacts DEF Supersede
  <2>2. task'[h].stage = "store" /\ \A g \in Handlers \ {h} : task'[g] = task[g]
    BY <1>0, <1>2, <2>1 DEF Supersede, BrainTypeOK, Tasks
  <2>3. /\ DOMAIN brain' = DOMAIN brain \union {j} /\ brain'[j].status # "current"
        /\ \A i \in DOMAIN brain \ {j} : brain'[i] = brain[i]
    BY <1>0, <1>2, <2>1, PutFacts, SupersededRowFacts DEF Supersede
  <2>4. LeavesAlone(k)
    BY <1>2, <2>1, <2>2, <2>3 DEF LeavesAlone, Supersede, Projecting, factVars, stored
  <2> QED
    BY <1>0, <2>4, LeftAloneAgrees
<1>3. ASSUME NEW h \in Handlers, StoreFact(h) PROVE Agrees(k)'
  <2> DEFINE f == task[h].fact
  <2>1. /\ task[h] # NoTask /\ task[h].stage = "store" /\ task[h] \in Tasks /\ f \in Facts
    BY <1>0, <1>3, TaskFacts DEF StoreFact, ReadyToStore
  <2>2. /\ DOMAIN brain' = DOMAIN brain \union {f.key}
        /\ brain'[f.key].status = f.status /\ brain'[f.key].value = f.value
        /\ \A i \in DOMAIN brain \ {f.key} : brain'[i] = brain[i]
    <3>1. Put(f.key, NewRow(f)) /\ NewRow(f) \in BrainRows /\ f.key \in Keys
      BY <1>3, <2>1, NewRowFacts DEF StoreFact, Facts
    <3>2. NewRow(f).status = f.status /\ NewRow(f).value = f.value
      BY DEF NewRow
    <3> HIDE DEF f
    <3> QED
      BY <1>0, <3>1, <3>2, PutFacts
  <2>3. /\ Projected(f) => /\ task'[h] \in Tasks /\ task'[h].stage = "project"
                            /\ task'[h].fact = f
        /\ ~ Projected(f) => task'[h] = NoTask
        /\ \A g \in Handlers \ {h} : task'[g] = task[g]
    BY <1>0, <1>3, <2>1 DEF StoreFact, BrainTypeOK, Tasks
  <2>4. UNCHANGED <<rows, pending, outdated, lost>>
    BY <1>3 DEF StoreFact, factVars
  <2>5. CASE k # f.key
    <3>1. k \in loose => k \in loose'
      BY <1>3, <2>5 DEF StoreFact
    <3>2. ~ Projecting(h, k) /\ ~ Projecting(h, k)'
      BY <2>1, <2>3, <2>5 DEF Projecting
    <3>3. LeavesAlone(k)
      BY <2>2, <2>3, <2>4, <2>5, <3>1, <3>2 DEF LeavesAlone, Projecting, stored
    <3> QED
      BY <1>0, <3>3, LeftAloneAgrees
  <2>6. CASE k = f.key
    <3>1. ASSUME k \notin loose', brain'[k].status = "current", NEW v, v = brain'[k].value
          PROVE  Agreed(k, v)'
      <4>1. Projected(f) /\ v = f.value
        BY <2>2, <2>6, <3>1 DEF Projected
      <4>2. \A g \in Handlers \ {h} : ~ Projecting(g, k)'
        BY <1>3, <2>3, <2>6, <3>1 DEF StoreFact, Projecting
      <4>3. Projecting(h, k)' /\ task'[h].fact.value = v
        BY <2>3, <2>6, <4>1, NoTaskAssumption DEF Projecting
      <4> QED
        BY <4>2, <4>3 DEF Agreed
    <3> QED
      BY <3>1, AgreesByValue
  <2> QED
    BY <2>5, <2>6
<1>4. ASSUME NEW j \in Keys, NEW v \in DirectValues, StorePlain(j, v) PROVE Agrees(k)'
  <2>1. /\ DOMAIN brain' = DOMAIN brain \union {j} /\ brain'[j].status # "current"
        /\ \A i \in DOMAIN brain \ {j} : brain'[i] = brain[i]
    <3> DEFINE row == [value |-> v, subject |-> j, identity |-> LegacyIdentity(j),
                       status |-> "legacy"]
    <3>1. Put(j, row) /\ row \in BrainRows /\ row.status # "current"
      BY <1>4, ValuesAssumption, PlainRowFacts DEF StorePlain
    <3> HIDE DEF row
    <3> QED
      BY <1>0, <3>1, PutFacts
  <2>2. LeavesAlone(k)
    BY <1>4, <2>1 DEF LeavesAlone, StorePlain, Projecting, stored
  <2> QED
    BY <1>0, <2>2, LeftAloneAgrees
<1>5. ASSUME NEW j \in Keys, Forget(j) PROVE Agrees(k)'
  <2>1. LeavesAlone(k)
    BY <1>5 DEF LeavesAlone, Forget, Projecting, stored
  <2> QED
    BY <1>0, <2>1, LeftAloneAgrees
<1> QED
  BY <1>1, <1>2, <1>3, <1>4, <1>5

\* A handler that gives up leaves loose whatever it had to tell.
LEMMA GivesUpAgrees ==
  ASSUME TypeOK, AgreeInv, NEW k \in Keys, NEW h \in Handlers, GivesUp(h),
         HandlerStops(h) \/ UNCHANGED factVars
  PROVE  Agrees(k)'
<1>0. BrainTypeOK /\ FactsTypeOK /\ Agrees(k)
  BY DEF TypeOK, AgreeInv
<1>1. CASE k \in loose'
  BY <1>1 DEF Agrees
<1>2. CASE k \notin loose'
  <2>1. pending[h][k] = << >> /\ ~ Projecting(h, k)
    BY <1>2 DEF GivesUp, Projecting
  <2>2. task'[h] = NoTask /\ \A g \in Handlers \ {h} : task'[g] = task[g]
    BY <1>0 DEF GivesUp, BrainTypeOK
  <2>3. /\ UNCHANGED <<rows, lost, brain>> /\ \A g \in Handlers : pending'[g][k] = pending[g][k]
        /\ \A g \in Handlers \ {h} : <<g, k>> \in outdated => <<g, k>> \in outdated'
    <3>1. UNCHANGED <<rows, lost, brain>>
      BY DEF GivesUp, HandlerStops, factVars
    <3>2. CASE UNCHANGED factVars
      BY <3>1, <3>2 DEF factVars
    <3>3. CASE HandlerStops(h)
      <4>1. \A g \in Handlers \ {h} : pending'[g] = pending[g]
        BY <1>0, <3>3 DEF HandlerStops, FactsTypeOK
      <4>2. pending'[h][k] = << >>
        BY <1>0, <3>3 DEF HandlerStops, FactsTypeOK, NothingPending
      <4>3. \A g \in Handlers \ {h} : <<g, k>> \in outdated => <<g, k>> \in outdated'
        BY <3>3 DEF HandlerStops
      <4> QED
        BY <2>1, <3>1, <4>1, <4>2, <4>3
    <3> QED
      BY <3>2, <3>3
  <2>4. k \in loose => k \in loose'
    BY DEF GivesUp
  <2>5. LeavesAlone(k)
    BY <2>1, <2>2, <2>3, <2>4 DEF LeavesAlone, Projecting, stored
  <2> QED
    BY <1>0, <2>5, LeftAloneAgrees
<1> QED
  BY <1>1, <1>2

\* The projection, and what knowledge is told by others.
LEMMA ReadsAgree ==
  ASSUME TypeOK, CountersInv, AgreeInv, NEW k \in Keys, NEW h \in Handlers,
         \/ Project(h)
         \/ \E j \in Keys, v \in DirectValues : Told(h, j, v)
         \/ \E S \in (SUBSET stored) \ {{}} : Recalled(h, S)
  PROVE  Agrees(k)'
<1>0. BrainTypeOK /\ FactsTypeOK /\ Agrees(k) /\ pending \in [Handlers -> [Keys -> Seq(Rows)]]
  BY DEF TypeOK, FactsTypeOK, AgreeInv
<1>1. CASE Project(h)
  <2> DEFINE f == task[h].fact
  <2>1. Projecting(h, f.key) /\ f \in Facts /\ f.key \in Keys /\ f.value \in Values
    BY <1>0, <1>1, TaskFacts DEF Project, Projecting
  <2>2. /\ pending[h] = NothingPending
        /\ pending' = [pending EXCEPT ![h] =
             [NothingPending EXCEPT ![f.key] = <<Remembered(f.key, f.value)>>]]
        /\ UNCHANGED <<rows, outdated, lost, brain, loose>>
    BY <1>1 DEF Project, RememberReads, Computes, Idle
  <2>3. /\ \A g \in Handlers \ {h} : pending'[g] = pending[g] /\ task'[g] = task[g]
        /\ task'[h] = NoTask
    BY <1>0, <1>1, <2>2 DEF Project, BrainTypeOK
  <2>4. CASE k # f.key
    <3>1. pending'[h][k] = pending[h][k]
      BY <1>0, <2>2, <2>4 DEF NothingPending
    <3>2. ~ Projecting(h, k) /\ ~ Projecting(h, k)'
      BY <2>3, <2>4 DEF Projecting
    <3>3. LeavesAlone(k)
      BY <2>2, <2>3, <3>1, <3>2 DEF LeavesAlone, Projecting, stored
    <3> QED
      BY <1>0, <3>3, LeftAloneAgrees
  <2>5. CASE k = f.key
    <3>1. ASSUME k \in DOMAIN brain', k \notin loose' \union lost', brain'[k].status = "current",
                 NEW v, v = brain'[k].value
          PROVE  Agreed(k, v)'
      <4>1. Agreed(k, brain[k].value)
        BY <1>0, <2>2, <3>1 DEF Agrees
      <4>2. f.value = v /\ \A g \in Handlers : Projecting(g, k) => task[g].fact.value = v
        BY <2>1, <2>2, <2>5, <3>1, <4>1 DEF Agreed
      <4>3. pending'[h][k] = <<Remembered(k, v)>> /\ Remembered(k, v).value = v
        BY <1>0, <2>1, <2>2, <2>5, <4>2, RememberedFacts DEF NothingPending
      <4>4. pending'[h][k] # << >> /\ \A i \in DOMAIN pending'[h][k] : pending'[h][k][i].value = v
        BY <4>3
      <4>5. \A g \in Handlers : Projecting(g, k)' => task'[g].fact.value = v
        BY <2>3, <4>2 DEF Projecting
      <4> QED
        BY <4>4, <4>5 DEF Agreed, Holds
    <3> QED
      BY <3>1, AgreesByValue
  <2> QED
    BY <2>4, <2>5
<1>2. ASSUME NEW j \in Keys, NEW v \in DirectValues, Told(h, j, v) PROVE Agrees(k)'
  <2>1. CASE k = j
    BY <1>2, <2>1 DEF Told, Agrees
  <2>2. CASE k # j
    <3>1. /\ pending[h] = NothingPending
          /\ pending' = [pending EXCEPT ![h] = [NothingPending EXCEPT ![j] = <<Remembered(j, v)>>]]
          /\ UNCHANGED <<rows, outdated, lost>>
      BY <1>2 DEF Told, Remember, RememberReads, Computes, Idle
    <3>2. \A g \in Handlers : pending'[g][k] = pending[g][k]
      BY <1>0, <2>2, <3>1 DEF NothingPending
    <3>3. LeavesAlone(k)
      BY <1>2, <3>1, <3>2 DEF LeavesAlone, Told, Projecting, stored
    <3> QED
      BY <1>0, <3>3, LeftAloneAgrees
  <2> QED
    BY <2>1, <2>2
<1>3. ASSUME NEW S \in (SUBSET stored) \ {{}}, Recalled(h, S) PROVE Agrees(k)'
  <2>1. /\ pending[h] = NothingPending
        /\ pending' = [pending EXCEPT ![h] = [j \in Keys |->
             IF j \in S THEN << [rows[j] EXCEPT !.retrievals = @ + 1] >> ELSE << >>]]
        /\ UNCHANGED <<rows, outdated, lost, brain, task, loose>>
    BY <1>3 DEF Recalled, RecallReads, Computes, Idle, brainVars
  <2>2. \A g \in Handlers \ {h} : pending'[g] = pending[g]
    BY <1>0, <2>1
  <2>3. CASE k \notin S
    <3>1. pending'[h][k] = pending[h][k]
      BY <1>0, <2>1, <2>3 DEF NothingPending
    <3>2. LeavesAlone(k)
      BY <2>1, <2>2, <3>1 DEF LeavesAlone, Projecting, stored
    <3> QED
      BY <1>0, <3>2, LeftAloneAgrees
  <2>4. CASE k \in S
    <3> DEFINE row == [rows[k] EXCEPT !.retrievals = @ + 1]
    <3>1. row.value = rows[k].value
      BY <1>0, <2>4, RowFacts DEF Rows
    <3>2. pending'[h][k] = <<row>> /\ pending[h][k] = << >>
      BY <1>0, <2>1, <2>4 DEF NothingPending
    <3> HIDE DEF row
    <3>3. \A i \in DOMAIN pending'[h][k] : pending'[h][k][i].value = rows[k].value
      BY <3>1, <3>2
    <3>4. ASSUME k \in DOMAIN brain', k \notin loose' \union lost', brain'[k].status = "current",
                 NEW v, v = brain'[k].value
          PROVE  Agreed(k, v)'
      <4>1. Agreed(k, v)
        BY <1>0, <2>1, <3>4 DEF Agrees
      <4>2. \A g \in Handlers : /\ Projecting(g, k)' <=> Projecting(g, k)
                                /\ Projecting(g, k)' => task'[g].fact.value = v
        BY <2>1, <4>1 DEF Projecting, Agreed
      <4>3. \A g \in Handlers \ {h} : Holds(g, k, v)' <=> Holds(g, k, v)
        BY <2>2 DEF Holds
      <4>4. CASE \E g \in Handlers : Projecting(g, k)
        BY <4>2, <4>4 DEF Agreed
      <4>5. CASE \E g \in Handlers : pending[g][k] # << >> /\ Holds(g, k, v)
        BY <2>2, <3>2, <4>2, <4>3, <4>5 DEF Agreed
      <4>6. CASE /\ k \in stored /\ rows[k].value = v
                 /\ \A g \in Handlers : <<g, k>> \notin outdated => Holds(g, k, v)
        <5>1. Holds(h, k, v)'
          BY <3>3, <4>6 DEF Holds
        <5> QED
          BY <2>1, <4>2, <4>3, <4>6, <5>1 DEF Agreed, stored
      <4> QED
        BY <4>1, <4>4, <4>5, <4>6 DEF Agreed
    <3> QED
      BY <3>4, AgreesByValue
  <2> QED
    BY <2>3, <2>4
<1> QED
  BY <1>1, <1>2, <1>3

\* Writing a row that is out of date makes the fact lost; writing another makes
\* knowledge say it, and puts every other handler's row out of date.
LEMMA WriteAgrees ==
  ASSUME TypeOK, AgreeInv, NEW k \in Keys, NEW h \in Handlers, NEW j \in Keys, WriteFact(h, j)
  PROVE  Agrees(k)'
<1>0. BrainTypeOK /\ FactsTypeOK /\ Agrees(k) /\ pending \in [Handlers -> [Keys -> Seq(Rows)]]
  BY DEF TypeOK, FactsTypeOK, AgreeInv
<1> DEFINE q == pending[h][j]
<1>1. /\ q # << >> /\ Upsert(j, Head(q)) /\ pending' = [pending EXCEPT ![h][j] = Tail(q)]
      /\ lost' = IF <<h, j>> \in outdated THEN lost \union {j} ELSE lost
      /\ outdated' = (outdated \ {<<h, j>>}) \union Outdate({j}, Handlers \ {h})
      /\ UNCHANGED <<brain, task, loose>>
  BY DEF WriteFact, WriteBack, brainVars
<1>2. /\ 1 \in DOMAIN q /\ Head(q) = q[1] /\ Head(q) \in Rows
      /\ \A i \in DOMAIN Tail(q) : i + 1 \in DOMAIN q /\ Tail(q)[i] = q[i + 1]
  BY <1>0, <1>1, HeldRows
<1>3. /\ DOMAIN rows' = stored \union {j} /\ rows'[j].value = q[1].value
      /\ \A i \in stored \ {j} : rows'[i] = rows[i]
  BY <1>0, <1>1, <1>2, UpsertType
<1>4. /\ pending'[h][j] = Tail(q)
      /\ \A g \in Handlers : g # h \/ k # j => pending'[g][k] = pending[g][k]
  BY <1>0, <1>1
<1>5. CASE k # j
  <2>1. LeavesAlone(k)
    BY <1>1, <1>3, <1>4, <1>5 DEF LeavesAlone, Projecting, stored
  <2> QED
    BY <1>0, <2>1, LeftAloneAgrees
<1>6. CASE k = j
  <2>1. ASSUME k \in DOMAIN brain', k \notin loose' \union lost', brain'[k].status = "current",
               NEW v, v = brain'[k].value
        PROVE  Agreed(k, v)'
    <3>1. Agreed(k, v) /\ <<h, k>> \notin outdated
      BY <1>0, <1>1, <1>6, <2>1 DEF Agrees
    <3>2. \A g \in Handlers : /\ Projecting(g, k)' <=> Projecting(g, k)
                              /\ Projecting(g, k)' => task'[g].fact.value = v
      BY <1>1, <3>1 DEF Projecting, Agreed
    <3>3. \A g \in Handlers \ {h} : Holds(g, k, v)' <=> Holds(g, k, v)
      BY <1>4 DEF Holds
    <3>4. ASSUME Holds(h, k, v) PROVE Agreed(k, v)'
      <4>1. rows'[k].value = v /\ k \in DOMAIN rows'
        BY <1>2, <1>3, <1>6, <3>4 DEF Holds
      <4>2. Holds(h, k, v)'
        <5>1. \A i \in DOMAIN Tail(q) : Tail(q)[i].value = v
          BY <1>2, <1>6, <3>4 DEF Holds
        <5> HIDE DEF q
        <5> QED
          BY <1>4, <1>6, <5>1 DEF Holds
      <4>3. ASSUME NEW g \in Handlers \ {h}, <<g, k>> \notin outdated' PROVE Holds(g, k, v)'
        <5>1. pending'[g][k] = << >>
          BY <1>1, <1>4, <1>6, <4>3 DEF Outdate
        <5> QED
          BY <5>1 DEF Holds
      <4> QED
        BY <3>2, <4>1, <4>2, <4>3 DEF Agreed, stored
    <3>5. CASE \E g \in Handlers : Projecting(g, k)
      BY <3>2, <3>5 DEF Agreed
    <3>6. CASE \E g \in Handlers \ {h} : pending[g][k] # << >> /\ Holds(g, k, v)
      BY <1>4, <3>2, <3>3, <3>6 DEF Agreed
    <3> QED
      BY <3>1, <3>4, <3>5, <3>6 DEF Agreed
  <2> QED
    BY <2>1, AgreesByValue
<1> QED
  BY <1>5, <1>6

LEMMA RemovedAgrees ==
  ASSUME TypeOK, AgreeInv, NEW k \in Keys, NEW j \in Keys, Removed(j)
  PROVE  Agrees(k)'
<1>0. Agrees(k)
  BY DEF AgreeInv
<1>1. CASE k = j
  BY <1>1 DEF Removed, Agrees
<1>2. CASE k # j
  <2>1. LeavesAlone(k)
    BY <1>2 DEF LeavesAlone, Removed, Remove, Delete, Projecting, stored
  <2> QED
    BY <1>0, <2>1, LeftAloneAgrees
<1> QED
  BY <1>1, <1>2

LEMMA AgreeStep ==
  ASSUME TypeOK, CountersInv, AgreeInv, [Next]_vars
  PROVE  AgreeInv'
<1> SUFFICES ASSUME NEW k \in Keys PROVE Agrees(k)'
  BY DEF AgreeInv
<1>1. CASE UNCHANGED vars
  <2>1. Agrees(k) /\ LeavesAlone(k)
    BY <1>1 DEF AgreeInv, LeavesAlone, vars, factVars, brainVars, Projecting, stored
  <2> QED
    BY <2>1, LeftAloneAgrees
<1>2. ASSUME NEW h \in Handlers, Work(h) PROVE Agrees(k)'
  <2>1. CASE Refused(h) \/ Stop(h)
    BY <2>1, GivesUpAgrees DEF Refused, Stop
  <2> QED
    BY <1>2, <2>1, BrainStepAgrees, ReadsAgree, WriteAgrees DEF Work
<1>3. CASE (\E j \in Keys, v \in DirectValues : StorePlain(j, v)) \/ \E j \in Keys : Forget(j)
  BY <1>3, BrainStepAgrees
<1> QED
  BY <1>1, <1>2, <1>3, RemovedAgrees DEF Next

\* A current fact of the brain is what knowledge says under its key once nobody
\* is at work on it: whatever projections, recalls, upserts of other keys,
\* refusals and stops happened, only overlapping requests on the key, a stopped
\* one, or another caller of knowledge can make the two differ.
THEOREM ProjectionsAgree == Spec => []ProjectionAgrees
<1>1. Init => AgreeInv
  BY DEF Init, AgreeInv, Agrees, Nothing
<1>2. IInv /\ AgreeInv /\ [Next]_vars => AgreeInv'
  BY AgreeStep DEF IInv
<1>3. IInv /\ AgreeInv => ProjectionAgrees
  <2> SUFFICES ASSUME IInv, AgreeInv, NEW k \in DOMAIN brain \ (loose \union lost),
                      brain[k].status = "current", \A h \in Handlers : ~ AtWorkOn(h, k)
               PROVE  k \in stored /\ rows[k].value = brain[k].value
    BY DEF ProjectionAgrees
  <2>1. k \in Keys
    BY LoadedFacts DEF IInv, TypeOK, BrainTypeOK
  <2>2. Agreed(k, brain[k].value)
    BY <2>1 DEF AgreeInv, Agrees
  <2> QED
    BY <2>2 DEF Agreed, AtWorkOn, Projecting
<1> QED
  BY <1>1, <1>2, <1>3, Invariance, PTL DEF Spec
=============================================================================
