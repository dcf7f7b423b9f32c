--------------------------- MODULE RepoMemorySync ---------------------------
(***************************************************************************)
(* The markdown memories an editor keeps for a repository, mirrored into   *)
(* the host's knowledge.                                                   *)
(*                                                                         *)
(* A sync numbers the lines of each file, imports them all, removes the    *)
(* entries of its last sync that are gone and then writes the state file.  *)
(* Every call goes through the outbox: it is applied, kept for a later     *)
(* replay, or refused.  A drain of the outbox passes over the calls it     *)
(* cannot deliver, and two drains may hold the same call.                  *)
(***************************************************************************)
EXTENDS Naturals, Sequences, FiniteSets, SequencesExt

CONSTANTS
  Syncers,     \* hook processes
  Files,       \* the files in the order of their names, a sequence
  CategoryOf,  \* [file -> category]: different names may have the same
  Contents,    \* the lines a file may hold, a set of sequences
  MaxEdits,    \* bound: edits of the files
  MaxQueued    \* bound: calls waiting in the outbox

ASSUME RepoMemoryAssumption ==
  /\ MaxEdits \in Nat /\ MaxQueued \in Nat
  /\ Files \in Seq(ToSet(Files)) /\ IsInjective(Files)
  /\ << >> \in Contents /\ \A lines \in Contents : lines \in Seq(ToSet(lines))

VARIABLES
  files,       \* [file -> its lines]
  hostMemory,  \* [entry -> value]: what the host holds of them
  queued,      \* the calls that wait in the outbox, oldest first
  inHand,      \* a call that a request given up on, or a second drain, may yet deliver
  lastSync,    \* the state file: the records of the last completed sync
  syncer,      \* the control state of each process
  records,     \* the records each process has read
  gone,        \* the entries it still has to remove
  edits,
  disturbed    \* history: a sync stopped half way or overlapped, or a call was applied
               \* out of order, again, or in part

repoMemoryVars ==
  <<files, hostMemory, queued, inHand, lastSync, syncer, records, gone, edits, disturbed>>

\* The records of one file: category and line number are the entry's identity.
RecordsOf(f) ==
  [i \in 1..Len(files[f]) |-> [entry |-> <<CategoryOf[f], i>>, value |-> files[f][i]]]

Records == FlattenSeq([i \in 1..Len(Files) |-> RecordsOf(Files[i])])

Entries(recs) == {r.entry : r \in ToSet(recs)}

\* What an import of records leaves: of two with one entry the later wins.
Image(recs) ==
  [x \in Entries(recs) |-> Last(SelectSeq(recs, LAMBDA r : r.entry = x)).value]

ImportCall(recs) == [kind |-> "import", records |-> recs]
RemoveCall(x) == [kind |-> "remove", entry |-> x]

\* What the host does with a call: the records of an import replace their entries.
Effect(call, memory) ==
  LET new == Image(call.records) IN
  IF call.kind = "import"
    THEN [x \in DOMAIN new \union DOMAIN memory |-> IF x \in DOMAIN new THEN new[x] ELSE memory[x]]
    ELSE Restrict(memory, DOMAIN memory \ {call.entry})

\* An import replaces entry by entry, by a removal and a store, and answers that it is
\* done when one of them failed: that entry is left as it was, or is gone.
Outcomes(call, memory) ==
  LET full == Effect(call, memory) IN
  {full} \union
    (IF call.kind = "import"
       THEN {Restrict(full, DOMAIN full \ {x}) : x \in Entries(call.records)}
            \union {[full EXCEPT ![x] = memory[x]] : x \in Entries(call.records) \intersect DOMAIN memory}
       ELSE {})

RepoMemoryInit ==
  /\ files = [f \in ToSet(Files) |-> <<>>]
  /\ hostMemory = <<>> /\ queued = <<>> /\ inHand = {} /\ lastSync = <<>>
  /\ syncer = [p \in Syncers |-> "idle"]
  /\ records = [p \in Syncers |-> <<>>] /\ gone = [p \in Syncers |-> {}]
  /\ edits = 0 /\ disturbed = FALSE

\* The editor writes, empties or removes a memory file.
EditFile(f) ==
  /\ edits < MaxEdits /\ edits' = edits + 1
  /\ \E lines \in Contents : files' = [files EXCEPT ![f] = lines]
  /\ UNCHANGED <<hostMemory, queued, inHand, lastSync, syncer, records, gone, disturbed>>

\* Mutant: an entry is gone only when its whole category is.
MutGone(old, new) ==
  {x \in Entries(old) : \A y \in Entries(new) : y[1] # x[1]}

Gone(old, new) == Entries(old) \ Entries(new)

\* The digest of the last sync decides whether there is anything to do.
StartMemorySync(p) ==
  /\ syncer[p] = "idle" /\ Records # lastSync
  /\ records' = [records EXCEPT ![p] = Records]
  /\ gone' = [gone EXCEPT ![p] = Gone(lastSync, Records)]
  /\ syncer' = [syncer EXCEPT ![p] = IF Records = <<>> THEN "remove" ELSE "import"]
  /\ disturbed' = (disturbed \/ \E q \in Syncers : syncer[q] # "idle")
  /\ UNCHANGED <<files, hostMemory, queued, inHand, lastSync, edits>>

MayLinger(call) == inHand' \in {inHand, {call}}

\* queue_or_call_tool: the call is applied, or kept in the outbox, or both when
\* its answer is lost.
Sends(call) ==
  \/ /\ hostMemory' \in Outcomes(call, hostMemory) /\ UNCHANGED <<queued, inHand>>
     /\ disturbed' = (disturbed \/ queued # <<>> \/ hostMemory' # Effect(call, hostMemory))
  \/ /\ Len(queued) < MaxQueued /\ queued' = Append(queued, call) /\ MayLinger(call)
     /\ hostMemory' \in {hostMemory} \union Outcomes(call, hostMemory)
     /\ disturbed' = (\/ disturbed \/ (queued # <<>> /\ hostMemory' # hostMemory)
                      \/ hostMemory' \notin {hostMemory, Effect(call, hostMemory)})

ImportRecords(p) ==
  /\ syncer[p] = "import"
  /\ Sends(ImportCall(records[p]))
  /\ syncer' = [syncer EXCEPT ![p] = "remove"]
  /\ UNCHANGED <<files, lastSync, records, gone, edits>>

RemoveEntry(p) ==
  /\ syncer[p] = "remove"
  /\ \E x \in gone[p] : Sends(RemoveCall(x)) /\ gone' = [gone EXCEPT ![p] = @ \ {x}]
  /\ UNCHANGED <<files, lastSync, syncer, records, edits>>

Stops(p) ==
  /\ syncer' = [syncer EXCEPT ![p] = "idle"]
  /\ records' = [records EXCEPT ![p] = <<>>] /\ gone' = [gone EXCEPT ![p] = {}]

WriteState(p) ==
  /\ syncer[p] = "remove" /\ gone[p] = {}
  /\ lastSync' = records[p]
  /\ Stops(p)
  /\ UNCHANGED <<files, hostMemory, queued, inHand, edits, disturbed>>

NextCalls(p) ==
  IF syncer[p] = "import" THEN {ImportCall(records[p])} ELSE {RemoveCall(x) : x \in gone[p]}

\* A call is refused, the state file cannot be written, or the hook is killed, be it
\* after the host has applied the call it was making.
BreakOff(p) ==
  /\ syncer[p] # "idle"
  /\ hostMemory' \in {hostMemory} \union UNION {Outcomes(c, hostMemory) : c \in NextCalls(p)}
  /\ inHand' \in {inHand} \union {{c} : c \in NextCalls(p)}
  /\ disturbed' = (disturbed \/ syncer[p] = "remove" \/ hostMemory' # hostMemory)
  /\ Stops(p)
  /\ UNCHANGED <<files, queued, lastSync, edits>>

\* A drain delivers a call, passing over those before it that failed, and deletes it;
\* a lost answer leaves it in the outbox.
ReplayQueued ==
  \E i \in 1..Len(queued) :
    /\ hostMemory' \in Outcomes(queued[i], hostMemory)
    /\ queued' \in {RemoveAt(queued, i), queued} /\ MayLinger(queued[i])
    /\ disturbed' = (disturbed \/ i # 1 \/ hostMemory' # Effect(queued[i], hostMemory))
    /\ UNCHANGED <<files, lastSync, syncer, records, gone, edits>>

\* A call is delivered late; a drain that fails to deliver it puts it back.
ReplayLate ==
  /\ \E call \in inHand :
       \/ hostMemory' \in Outcomes(call, hostMemory) /\ UNCHANGED queued
       \/ /\ Len(queued) < MaxQueued /\ queued' = <<call>> \o queued
          /\ hostMemory' \in {hostMemory} \union Outcomes(call, hostMemory)
  /\ inHand' = {} /\ disturbed' = TRUE
  /\ UNCHANGED <<files, lastSync, syncer, records, gone, edits>>

RepoMemoryNext ==
  \/ \E f \in ToSet(Files) : EditFile(f)
  \/ \E p \in Syncers : \/ StartMemorySync(p) \/ ImportRecords(p) \/ RemoveEntry(p)
                        \/ WriteState(p) \/ BreakOff(p)
  \/ ReplayQueued \/ ReplayLate

RepoMemorySpec == RepoMemoryInit /\ [][RepoMemoryNext]_repoMemoryVars

(***************************************************************************)
(* Properties.                                                             *)
(***************************************************************************)

RepoMemoryTypeOK ==
  /\ files \in [ToSet(Files) -> Contents]
  /\ \A x \in DOMAIN hostMemory : x[1] \in {CategoryOf[f] : f \in ToSet(Files)}
  /\ Len(queued) <= MaxQueued
  /\ syncer \in [Syncers -> {"idle", "import", "remove"}]
  /\ \A p \in Syncers : syncer[p] = "idle" => records[p] = <<>> /\ gone[p] = {}
  /\ edits \in 0..MaxEdits /\ disturbed \in BOOLEAN

\* The host holds the memories the last completed sync read, no more and no others,
\* once the outbox is empty (sync_copilot_repo_memories_to_server).  Only these may leave
\* it otherwise: a sync that stopped after its import, two that overlapped, a call, direct
\* or of a drain, that overtook an older one in the outbox, a request given up on or a
\* second drain that applied a call late or put it back, and an import of which the host
\* failed a part.
HostMirrorsFiles ==
  (~disturbed /\ queued = <<>> /\ \A p \in Syncers : syncer[p] = "idle")
    => hostMemory = Image(lastSync)
=============================================================================
