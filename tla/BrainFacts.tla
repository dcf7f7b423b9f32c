----------------------------- MODULE BrainFacts -----------------------------
(***************************************************************************)
(* The host's brain: BrainService over one PostgreSQL row per key,         *)
(* composed with the canonical knowledge its facts are projected to.       *)
(*                                                                         *)
(* A fact has a logical key, the subject it is about, and a promotion      *)
(* identity, which says who derived it.  Storing a current fact takes      *)
(* three kinds of statements without a transaction: the other current      *)
(* facts on its subject are written back as superseded, the fact itself is *)
(* upserted under its key, and its value is remembered as knowledge.       *)
(* A unique index admits one row per promotion identity; an upsert that    *)
(* violates it ends the request.                                           *)
(***************************************************************************)
EXTENDS KnowledgeFacts

CONSTANTS
  Subjects,    \* logical keys
  Identities,  \* promotion identities
  Ingests,     \* the facts callers ingest
  NoTask       \* not a task: the handler stores no brain fact

\* StoreAsync derives the identity of a plain entry from its key.
LegacyIdentity(k) == <<"legacy", k>>

Facts == [key: Keys, subject: Subjects, identity: Identities, value: Values,
          status: {"current", "timeline"}, corrects: BOOLEAN]

ASSUME IngestsAssumption ==
  /\ Ingests \subseteq Facts
  /\ \A k \in Keys : LegacyIdentity(k) \notin Identities

VARIABLES
  brain,   \* the brain row of each key that has one
  task     \* the fact each handler is storing, and the rows it has to supersede

\* History, read by properties only.
VARIABLES
  contended, \* subjects on which two requests overlapped
  covered,   \* subjects that got a current fact nobody has displaced
  loose,     \* keys whose knowledge need not follow the brain
  marked     \* identities of facts that were superseded and not overwritten since

brainVars == <<brain, task, contended, covered, loose, marked>>
vars == <<factVars, brainVars>>

\* A plain entry's subject is its key.
RowIdentities == Identities \union {LegacyIdentity(k) : k \in Keys}
BrainRows == [value: Values, subject: Subjects \union Keys, identity: RowIdentities,
              status: {"current", "timeline", "legacy", "superseded", "invalidated"}]

Loaded == UNION {[S -> BrainRows] : S \in SUBSET Keys}
Tasks == [stage: {"store", "project"}, fact: Facts, priors: Loaded]

ASSUME NoTaskAssumption == NoTask \notin Tasks

BrainTypeOK ==
  /\ brain \in Loaded
  /\ task \in [Handlers -> Tasks \union {NoTask}]
  /\ contended \subseteq Subjects
  /\ covered \subseteq Subjects \union Keys
  /\ loose \subseteq Keys
  /\ marked \subseteq RowIdentities

TypeOK == FactsTypeOK /\ BrainTypeOK

Nothing == [k \in {} |-> {}]

Init ==
  /\ FactsInit
  /\ brain = Nothing
  /\ task = [h \in Handlers |-> NoTask]
  /\ contended = {}
  /\ covered = {}
  /\ loose = {}
  /\ marked = {}

-----------------------------------------------------------------------------
Free(h) == task[h] = NoTask /\ Idle(h)

\* Handler h is storing a fact that says how a subject is at present.
StoresCurrent(h) ==
  task[h] # NoTask /\ task[h].stage = "store" /\ task[h].fact.status = "current"

CurrentOn(s) == {k \in DOMAIN brain : brain[k].subject = s /\ brain[k].status = "current"}

\* The statement that writes a row, and the index that may refuse it.
Put(k, row) == brain' = [j \in DOMAIN brain \union {k} |-> IF j = k THEN row ELSE brain[j]]
Admitted(k, identity) == \A j \in DOMAIN brain \ {k} : brain[j].identity # identity

\* What a new row, or none, at k takes away.
Displaced(k) ==
  IF k \in DOMAIN brain /\ brain[k].status = "current" THEN {brain[k].subject} ELSE {}
Overwritten(k) == IF k \in DOMAIN brain THEN {brain[k].identity} ELSE {}

\* Mutant: the priors are looked up by promotion identity alone.
MutPriorsSameIdentity(f) == {k \in CurrentOn(f.subject) : brain[k].identity = f.identity}

\* Mutant: a timeline event supersedes too.
MutPriorsOfTimeline(f) == {k \in CurrentOn(f.subject) : brain[k].identity # f.identity}

\* ApplySupersessionAsync passes over the fact's own earlier row.
Priors(f) ==
  IF f.status = "current"
    THEN {k \in CurrentOn(f.subject) : brain[k].identity # f.identity}
    ELSE {}

\* StoreFactAsync, up to the list of rows to supersede.
Ingest(h, f) ==
  /\ Free(h) /\ Request
  /\ task' = [task EXCEPT ![h] =
       [stage |-> "store", fact |-> f, priors |-> [k \in Priors(f) |-> brain[k]]]]
  /\ contended' = IF \E g \in Handlers : StoresCurrent(g) /\ task[g].fact.subject = f.subject
                    THEN contended \union {f.subject} ELSE contended
  /\ UNCHANGED <<rows, pending, today, outdated, lost, told, said, recalls,
                 brain, covered, loose, marked>>

\* Mutant: a correction is written as the word it came with.
MutSupersededAsSpelled(row, f) ==
  [row EXCEPT !.status = IF f.corrects THEN "correction" ELSE "superseded"]

SupersededRow(row, f) ==
  [row EXCEPT !.status = IF f.corrects THEN "invalidated" ELSE "superseded"]

\* One loaded row goes back with its new status.
Supersede(h, k) ==
  LET f   == task[h].fact
      row == task[h].priors[k]
  IN
  /\ task[h] # NoTask /\ task[h].stage = "store"
  /\ k \in DOMAIN task[h].priors
  /\ Admitted(k, row.identity)
  /\ Put(k, SupersededRow(row, f))
  /\ task' = [task EXCEPT ![h].priors = [j \in DOMAIN @ \ {k} |-> @[j]]]
  /\ marked' = (marked \ Overwritten(k)) \union {row.identity}
  /\ UNCHANGED <<factVars, contended, covered, loose>>

ReadyToStore(h) ==
  task[h] # NoTask /\ task[h].stage = "store" /\ DOMAIN task[h].priors = {}

NewRow(f) == [value |-> f.value, subject |-> f.subject, identity |-> f.identity,
              status |-> f.status]

\* Mutant: the projection is skipped.
MutProjected(f) == FALSE

\* ProjectToKnowledgeAsync leaves the session timeline out.
Projected(f) == f.status = "current"

\* The fact itself; a row that had its key before is overwritten.
StoreFact(h) ==
  LET f == task[h].fact
      k == f.key
      rivals == {g \in Handlers \ {h} : task[g] # NoTask}
  IN
  /\ ReadyToStore(h)
  /\ Admitted(k, f.identity)
  /\ Put(k, NewRow(f))
  /\ task' = [task EXCEPT ![h] = IF Projected(f) THEN [@ EXCEPT !.stage = "project"]
                                 ELSE NoTask]
  /\ contended' = IF \E g \in rivals : k \in DOMAIN task[g].priors
                    THEN contended \union {f.subject} ELSE contended
  /\ covered' = (covered \ Displaced(k)) \union
                  (IF f.status = "current" THEN {f.subject} ELSE {})
  /\ loose' = IF \E g \in rivals : task[g].fact.key = k THEN loose \union {k} ELSE loose \ {k}
  /\ UNCHANGED <<factVars, marked>>

\* The read half of RememberAsync, on behalf of the stored fact.
Project(h) ==
  /\ task[h] # NoTask /\ task[h].stage = "project"
  /\ RememberReads(h, task[h].fact.key, task[h].fact.value)
  /\ task' = [task EXCEPT ![h] = NoTask]
  /\ UNCHANGED <<requests, brain, contended, covered, loose, marked>>

\* Handler h will not finish the task it has.
GivesUp(h) ==
  /\ task' = [task EXCEPT ![h] = NoTask]
  /\ covered' = IF StoresCurrent(h) THEN covered \ {task[h].fact.subject} ELSE covered
  /\ loose' = loose \union {k \in Keys : pending[h][k] # << >>}
                    \union (IF task[h] = NoTask THEN {} ELSE {task[h].fact.key})
  /\ UNCHANGED <<brain, contended, marked>>

\* The identity is in use under another key: the statement, and with it the
\* request, fails.
Refused(h) ==
  /\ \/ \E k \in Keys : /\ StoresCurrent(h) /\ k \in DOMAIN task[h].priors
                        /\ ~ Admitted(k, task[h].priors[k].identity)
     \/ ReadyToStore(h) /\ ~ Admitted(task[h].fact.key, task[h].fact.identity)
  /\ GivesUp(h)
  /\ UNCHANGED factVars

\* The request is cancelled or times out, or the host stops.
Stop(h) ==
  /\ \/ HandlerStops(h)
     \/ task[h] # NoTask /\ Idle(h) /\ UNCHANGED factVars
  /\ GivesUp(h)

-----------------------------------------------------------------------------
(***************************************************************************)
(* Single statements on brain rows, and the rest of the work on knowledge. *)
(***************************************************************************)

\* StoreAsync: a plain entry, neither superseding nor projected.
StorePlain(k, v) ==
  /\ Request
  /\ Put(k, [value |-> v, subject |-> k, identity |-> LegacyIdentity(k), status |-> "legacy"])
  /\ covered' = covered \ Displaced(k)
  /\ marked' = marked \ Overwritten(k)
  /\ UNCHANGED <<rows, pending, today, outdated, lost, told, said, recalls,
                 task, contended, loose>>

\* DeleteAsync.
Forget(k) ==
  /\ Request
  /\ k \in DOMAIN brain
  /\ brain' = [j \in DOMAIN brain \ {k} |-> brain[j]]
  /\ covered' = covered \ Displaced(k)
  /\ marked' = marked \ Overwritten(k)
  /\ UNCHANGED <<rows, pending, today, outdated, lost, told, said, recalls,
                 task, contended, loose>>

\* Knowledge is told something else by its own callers, or is removed.
Told(h, k, v) ==
  /\ Free(h)
  /\ Remember(h, k, v)
  /\ loose' = loose \union {k}
  /\ UNCHANGED <<brain, task, contended, covered, marked>>

Recalled(h, S) == Free(h) /\ RecallReads(h, S) /\ UNCHANGED brainVars

WriteFact(h, k) == WriteBack(h, k) /\ UNCHANGED brainVars

Removed(k) ==
  /\ Remove(k)
  /\ loose' = loose \union {k}
  /\ UNCHANGED <<brain, task, contended, covered, marked>>

Work(h) ==
  \/ \E f \in Ingests : Ingest(h, f)
  \/ \E k \in Keys : Supersede(h, k)
  \/ StoreFact(h) \/ Project(h) \/ Refused(h) \/ Stop(h)
  \/ \E k \in Keys, v \in DirectValues : Told(h, k, v)
  \/ \E S \in (SUBSET stored) \ {{}} : Recalled(h, S)
  \/ \E k \in Keys : WriteFact(h, k)

Next ==
  \/ \E h \in Handlers : Work(h)
  \/ \E k \in Keys, v \in DirectValues : StorePlain(k, v)
  \/ \E k \in Keys : Forget(k) \/ Removed(k)

Spec == Init /\ [][Next]_vars

-----------------------------------------------------------------------------
(***************************************************************************)
(* Properties.                                                             *)
(***************************************************************************)

\* Unless two requests on it overlapped, a subject has at most one current
\* fact, whatever identities, replays and stops were involved.
OneCurrentFact ==
  \A s \in Subjects \ contended : \A j, k \in CurrentOn(s) : j = k

\* Unless a request was stopped or refused half-way, superseding never leaves a
\* subject without a current fact, except while the new one is on its way.
CurrentFactRemains ==
  \A s \in (covered \intersect Subjects) \ contended :
    \/ CurrentOn(s) # {}
    \/ \E h \in Handlers : StoresCurrent(h) /\ task[h].fact.subject = s

\* Handler h has yet to tell knowledge about key k.
AtWorkOn(h, k) == pending[h][k] # << >> \/ (task[h] # NoTask /\ task[h].fact.key = k)

\* A current fact is what knowledge says once nobody is at work on it, unless
\* requests on its key overlapped, one was stopped, or knowledge was told
\* otherwise.
ProjectionAgrees ==
  \A k \in DOMAIN brain \ (loose \union lost) :
    brain[k].status = "current" /\ (\A h \in Handlers : ~ AtWorkOn(h, k)) =>
      k \in stored /\ rows[k].value = brain[k].value

\* A superseded fact stays on record, whoever is stored after it.
SupersededStaysOnRecord ==
  \A i \in marked : \E k \in DOMAIN brain : brain[k].identity = i
=============================================================================
