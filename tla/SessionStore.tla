---------------------------- MODULE SessionStore ----------------------------
(***************************************************************************)
(* The session of an MCP server and its file.                              *)
(*                                                                         *)
(* A server that starts takes up the newest session of its project, or the *)
(* latest of all when it is in none, or a new one, and saves it when its   *)
(* client connects.  Every tool call makes a few changes in memory; a save *)
(* follows when enough have piled up, and at checkpoints.  A save replaces *)
(* the file of the session, then writes the pointer to the latest session  *)
(* through a temporary file that all servers share.  By ctx_session an     *)
(* agent loads another session, resets its own or removes old files.       *)
(*                                                                         *)
(* A change is its time, and a session is as new as its last change.  A    *)
(* project root without a marker, which another may replace, is left out.  *)
(***************************************************************************)
EXTENDS Integers, FiniteSets, FiniteSetsExt, Functions

CONSTANTS
  McpServers,
  Projects,
  NoProject,      \* the project of a session that has none yet
  BatchInterval,  \* BATCH_SAVE_INTERVAL
  MaxBurst,       \* changes a call makes before it looks whether to save
  MaxChanges, MaxSessions, MaxDrops  \* bounds

ASSUME SessionAssumption ==
  /\ NoProject \notin Projects
  /\ BatchInterval \in Nat \ {0} /\ MaxBurst \in Nat \ {0}
  /\ MaxChanges \in Nat /\ MaxSessions \in Nat /\ MaxDrops \in Nat

VARIABLES
  sessionFile,  \* the files <id>.json: project, changes, count of unsaved changes
  latest,       \* the session latest.json names, or NoPointer, or Cut: it does not parse
  latestTmp,    \* the same of .latest.json.tmp
  session,      \* the session of each server: id 0 when the server is down
  saveStep,     \* how far the server has come with a save
  resetTo,      \* the session it goes on to after the save, or 0
  doomed        \* the session whose file it is about to remove, or 0

\* History, read by properties only.
VARIABLES
  changes,      \* how many changes were made
  opened,       \* how many sessions were opened
  removed,      \* what the files held that a cleanup removed
  doubled,      \* whether two servers ever had one session
  drops         \* how often a server dropped its session: by a kill, or for one it loaded

sessionVars == <<sessionFile, latest, latestTmp, session, saveStep, resetTo, doomed, changes,
                 opened, removed, doubled, drops>>

SessionId == 1..MaxSessions
NoPointer == 0
Cut == -1
SessionData == [id : 0..MaxSessions, project : Projects \union {NoProject},
                made : SUBSET (1..MaxChanges), unsaved : Nat]
NewSession(n, p) == [id |-> n, project |-> p, made |-> {}, unsaved |-> 0]
Down == NewSession(0, NoProject)

SaveSteps == {"off", "idle", "save", "tmp", "cut", "moved", "lost", "point", "clean"}

SessionTypeOK ==
  /\ DOMAIN sessionFile \subseteq SessionId
  /\ \A i \in DOMAIN sessionFile : sessionFile[i] \in SessionData /\ sessionFile[i].id = i
  /\ latest \in SessionId \union {NoPointer, Cut} /\ latestTmp \in SessionId \union {NoPointer, Cut}
  /\ session \in [McpServers -> SessionData] /\ saveStep \in [McpServers -> SaveSteps]
  /\ {resetTo, doomed} \subseteq [McpServers -> 0..MaxSessions]
  /\ changes \in 0..MaxChanges /\ opened \in 0..MaxSessions /\ drops \in Nat
  /\ removed \subseteq [id : SessionId, made : SUBSET (1..MaxChanges)] /\ doubled \in BOOLEAN

SessionInit ==
  /\ sessionFile = << >> /\ latest = NoPointer /\ latestTmp = NoPointer
  /\ session = [s \in McpServers |-> Down] /\ saveStep = [s \in McpServers |-> "off"]
  /\ resetTo = [s \in McpServers |-> 0] /\ doomed = [s \in McpServers |-> 0]
  /\ changes = 0 /\ opened = 0 /\ removed = {} /\ doubled = FALSE /\ drops = 0

\* What the bound MaxDrops is for: drops, and files removed.
Spent == drops + Cardinality(removed) + Cardinality({s \in McpServers : doomed[s] # 0})

SaveGoes(s, step) == saveStep' = [saveStep EXCEPT ![s] = step]

Age(data) == Max(data.made \union {0})

\* load_latest_for_project_root: the newest session file of the project.
NewestSessions(p) ==
  {i \in DOMAIN sessionFile :
     /\ sessionFile[i].project = p
     /\ \A j \in DOMAIN sessionFile :
          sessionFile[j].project = p => Age(sessionFile[j]) <= Age(sessionFile[i])}

\* load_latest: the session the pointer names, of whatever project.
LatestOf(p) ==
  IF p = NoProject THEN {latest} \intersect DOMAIN sessionFile ELSE NewestSessions(p)

\* A server takes up the session of a file.
TakesUp(s, i) ==
  /\ session' = [session EXCEPT ![s] = sessionFile[i]]
  /\ doubled' = (doubled \/ \E r \in McpServers \ {s} : session[r].id = i)

\* new_with_startup, in a project or outside of any, and the save when the client connects.
StartServer(s) ==
  /\ saveStep[s] = "off"
  /\ \E p \in Projects \union {NoProject} :
       \/ /\ \E i \in LatestOf(p) : TakesUp(s, i)
          /\ UNCHANGED opened
       \/ /\ LatestOf(p) = {} /\ opened < MaxSessions
          /\ opened' = opened + 1
          /\ session' = [session EXCEPT ![s] = NewSession(opened + 1, p)]
          /\ UNCHANGED doubled
  /\ SaveGoes(s, "save")
  /\ UNCHANGED <<sessionFile, latest, latestTmp, resetTo, doomed, changes, removed, drops>>

(***************************************************************************)
(* Tool calls.                                                             *)
(***************************************************************************)

\* Mutant: one more than the interval.
MutShouldSave(n) == n > BatchInterval

ShouldSave(n) == n >= BatchInterval

\* A tool call: its changes, and a save when there are enough.  The first file that is
\* read gives a session without a project its project.
CallTool(s) ==
  /\ saveStep[s] = "idle"
  /\ \E n \in 1..MaxBurst, p \in Projects \union {NoProject} :
       /\ p = session[s].project \/ session[s].project = NoProject
       /\ changes + n <= MaxChanges
       /\ changes' = changes + n
       /\ session' = [session EXCEPT ![s].made = @ \union (changes + 1)..(changes + n),
                                     ![s].unsaved = @ + n, ![s].project = p]
  /\ SaveGoes(s, IF ShouldSave(session'[s].unsaved) THEN "save" ELSE "idle")
  /\ UNCHANGED <<sessionFile, latest, latestTmp, resetTo, doomed, opened, removed, doubled, drops>>

\* An idle server, a checkpoint, a new root or ctx_session saves too.
SaveAnyway(s) ==
  /\ saveStep[s] = "idle"
  /\ SaveGoes(s, "save")
  /\ UNCHANGED <<sessionFile, latest, latestTmp, session, resetTo, doomed, changes, opened, removed,
                 doubled, drops>>

\* ctx_session load: the session in memory goes, whatever of it is unsaved.  A session
\* without a project loads whichever its directory lets it.
LoadSession(s) ==
  /\ saveStep[s] = "idle" /\ Spent < MaxDrops
  /\ \E i \in DOMAIN sessionFile :
       /\ session[s].project \in {NoProject, sessionFile[i].project}
       /\ TakesUp(s, i)
  /\ drops' = drops + 1
  /\ UNCHANGED <<sessionFile, latest, latestTmp, saveStep, resetTo, doomed, changes, opened, removed>>

\* ctx_session reset: a save, and then a new session, whether or not it went well.
ResetSession(s) ==
  /\ saveStep[s] = "idle" /\ opened < MaxSessions
  /\ opened' = opened + 1
  /\ resetTo' = [resetTo EXCEPT ![s] = opened + 1]
  /\ SaveGoes(s, "save")
  /\ UNCHANGED <<sessionFile, latest, latestTmp, session, doomed, changes, removed, doubled, drops>>

\* ctx_session cleanup: a file that is a week old goes, unless it is the latest; here a
\* pass is for one file.
CleanUpSessions(s) ==
  /\ saveStep[s] = "idle" /\ Spent < MaxDrops
  /\ \E i \in DOMAIN sessionFile, p \in Projects \union {NoProject} :
       /\ session[s].project \in {NoProject, p} /\ p \in {NoProject, sessionFile[i].project}
       /\ LatestOf(p) # {i}
       /\ doomed' = [doomed EXCEPT ![s] = i]
  /\ SaveGoes(s, "clean")
  /\ UNCHANGED <<sessionFile, latest, latestTmp, session, resetTo, changes, opened, removed, doubled,
                 drops>>

\* It may have been saved since it was found to be old.
RemoveSession(s) ==
  /\ saveStep[s] = "clean"
  /\ sessionFile' = [i \in DOMAIN sessionFile \ {doomed[s]} |-> sessionFile[i]]
  /\ removed' = removed \union {[id |-> i, made |-> sessionFile[i].made] :
                                  i \in DOMAIN sessionFile \intersect {doomed[s]}}
  /\ doomed' = [doomed EXCEPT ![s] = 0]
  /\ SaveGoes(s, "idle")
  /\ UNCHANGED <<latest, latestTmp, session, resetTo, changes, opened, doubled, drops>>

(***************************************************************************)
(* A save.                                                                 *)
(***************************************************************************)

\* Mutant: a session without unsaved changes is not written, but pointed to.
MutSaveFile(s) ==
  /\ saveStep[s] = "save"
  /\ sessionFile' = [i \in DOMAIN sessionFile
                             \union (IF session[s].unsaved = 0 THEN {} ELSE {session[s].id}) |->
                       IF i = session[s].id THEN session[s] ELSE sessionFile[i]]
  /\ SaveGoes(s, "tmp")
  /\ UNCHANGED <<latest, latestTmp, session, resetTo, doomed, changes, opened, removed, doubled, drops>>

\* The file is written beside and renamed into place.
SaveFile(s) ==
  /\ saveStep[s] = "save"
  /\ sessionFile' = [i \in DOMAIN sessionFile \union {session[s].id} |->
                       IF i = session[s].id THEN session[s] ELSE sessionFile[i]]
  /\ SaveGoes(s, "tmp")
  /\ UNCHANGED <<latest, latestTmp, session, resetTo, doomed, changes, opened, removed, doubled, drops>>

\* fs::write opens the temporary file and cuts it before it fills it.
CutLatestTmp(s) ==
  /\ saveStep[s] = "tmp"
  /\ latestTmp' = Cut
  /\ SaveGoes(s, "cut")
  /\ UNCHANGED <<sessionFile, latest, session, resetTo, doomed, changes, opened, removed, doubled,
                 drops>>

\* A file that was renamed meanwhile is filled where it is now, or is gone; every name of
\* a session is as long as every other.
FillLatestTmp(s) ==
  /\ saveStep[s] \in {"cut", "moved", "lost"}
  /\ latestTmp' = IF saveStep[s] = "cut" THEN session[s].id ELSE latestTmp
  /\ latest' = IF saveStep[s] = "moved" THEN session[s].id ELSE latest
  /\ SaveGoes(s, "point")
  /\ UNCHANGED <<sessionFile, session, resetTo, doomed, changes, opened, removed, doubled, drops>>

\* The file that a server has open moves with the rename of another.
Followed(step) == CASE step = "cut" -> "moved" [] step = "moved" -> "lost" [] OTHER -> step

\* The session after a save: its changes count as saved if the rename went well.
AfterSave(s, done) ==
  IF resetTo[s] # 0 THEN NewSession(resetTo[s], NoProject)
  ELSE IF done THEN [session[s] EXCEPT !.unsaved = 0] ELSE session[s]

\* The rename takes whatever the temporary file holds by now.  When another server took
\* it away, the save fails.
RenameLatest(s) ==
  /\ saveStep[s] = "point"
  /\ IF latestTmp = NoPointer
     THEN UNCHANGED <<latest, latestTmp>> /\ SaveGoes(s, "idle")
     ELSE /\ latest' = latestTmp /\ latestTmp' = NoPointer
          /\ saveStep' = [r \in McpServers |-> IF r = s THEN "idle" ELSE Followed(saveStep[r])]
  /\ session' = [session EXCEPT ![s] = AfterSave(s, latestTmp # NoPointer)]
  /\ resetTo' = [resetTo EXCEPT ![s] = 0]
  /\ UNCHANGED <<sessionFile, doomed, changes, opened, removed, doubled, drops>>

\* Nothing saves a session when its server ends.
KillServer(s) ==
  /\ saveStep[s] # "off" /\ Spent < MaxDrops
  /\ drops' = drops + 1
  /\ session' = [session EXCEPT ![s] = Down]
  /\ resetTo' = [resetTo EXCEPT ![s] = 0] /\ doomed' = [doomed EXCEPT ![s] = 0]
  /\ SaveGoes(s, "off")
  /\ UNCHANGED <<sessionFile, latest, latestTmp, changes, opened, removed, doubled>>

SessionNext ==
  \E s \in McpServers :
    \/ StartServer(s) \/ CallTool(s) \/ SaveAnyway(s) \/ LoadSession(s) \/ ResetSession(s)
    \/ CleanUpSessions(s) \/ RemoveSession(s)
    \/ SaveFile(s) \/ CutLatestTmp(s) \/ FillLatestTmp(s) \/ RenameLatest(s)
    \/ KillServer(s)

SessionSpec == SessionInit /\ [][SessionNext]_sessionVars

(***************************************************************************)
(* Properties.                                                             *)
(***************************************************************************)

RemovedIds == {data.id : data \in removed}

\* The changes that are in a file or in memory, or went with a file that was removed.
Kept == UNION ({sessionFile[i].made : i \in DOMAIN sessionFile}
               \union {session[s].made : s \in McpServers} \union {data.made : data \in removed})

\* Every kill of a server, and every session it loads over its own, costs fewer changes
\* than make a batch, and what the last call added to them (should_save after each call,
\* save), unless two servers write the same session.  A cleanup costs no more than it
\* removes.
DropsLoseABatch ==
  doubled \/ Cardinality(1..changes \ Kept) <= drops * (BatchInterval + MaxBurst - 1)

\* The pointer never names a session that had no file, however the saves of several
\* servers interleave on the one temporary file: at worst it does not parse, or a cleanup
\* has removed the file since.
LatestIsThere == latest \in DOMAIN sessionFile \union RemovedIds \union {NoPointer, Cut}
=============================================================================
