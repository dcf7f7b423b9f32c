---------------------------- MODULE StatsFlush ----------------------------
(***************************************************************************)
(* The statistics every process keeps and merges into stats.json.          *)
(*                                                                         *)
(* A process counts in memory, against the baseline it last read or wrote. *)
(* To flush, it takes the lock, reads the file, adds what it has counted   *)
(* beyond the baseline and writes the result, which becomes its new state  *)
(* and baseline.  It tries for a tenth of a second to get the lock and     *)
(* then flushes without it.                                                *)
(***************************************************************************)
EXTENDS Naturals, Sequences, FiniteSets, Functions, SequencesExt

CONSTANTS
  StatsProcs,
  MaxCounted,  \* bound: commands and scores recorded over all
  MaxScores,   \* how many session scores are kept
  MaxStatsKilled

ASSUME StatsAssumption ==
  /\ IsFiniteSet(StatsProcs)
  /\ MaxCounted \in Nat /\ MaxScores \in Nat \ {0} /\ MaxStatsKilled \in Nat

VARIABLES
  statsFile,  \* [total, scores]
  current,    \* the buffer of each process, once it has one
  baseline,
  statsProc,  \* its control state
  disk,       \* the file as its flush has read it
  statsLock,
  guarded,    \* the processes that will remove the lock file when they are done
  statsKilled,
  counted,    \* history: how many commands were recorded and not lost with a process
  scored,     \* history: the scores recorded, in that order
  collided    \* history: whether two flushes were ever at work at the same time

statsVars == <<statsFile, current, baseline, statsProc, disk, statsLock, guarded, statsKilled,
               counted, scored, collided>>

NobodyHolds == "nobody"
Lock == INSTANCE FileLock WITH lock <- statsLock

Empty == [total |-> 0, scores |-> <<>>]
NoBuffer == [total |-> 0, scores |-> <<0>>]  \* no buffer yet: 0 is no score

\* The newest that may be kept, as both record_cep_session and merge_cep cut them.
Newest(scores) ==
  SubSeq(scores, IF Len(scores) > MaxScores THEN Len(scores) - MaxScores + 1 ELSE 1, Len(scores))

StatsInit ==
  /\ statsFile = Empty
  /\ current = [p \in StatsProcs |-> NoBuffer] /\ baseline = [p \in StatsProcs |-> NoBuffer]
  /\ statsProc = [p \in StatsProcs |-> "ready"]
  /\ disk = [p \in StatsProcs |-> Empty]
  /\ statsLock = Lock!Unlocked(NobodyHolds)
  /\ guarded = {} /\ statsKilled = 0 /\ counted = 0 /\ scored = <<>> /\ collided = FALSE

\* The first record of a process fills its buffer from the file.
Buffer(p) == IF current[p] = NoBuffer THEN statsFile ELSE current[p]
Base(p) == IF current[p] = NoBuffer THEN statsFile ELSE baseline[p]

\* A command that finds nothing else waiting in the buffer is flushed at once; one
\* that does is flushed when the last flush is long enough ago.
Record(p) ==
  /\ statsProc[p] = "ready" /\ counted + Len(scored) < MaxCounted
  /\ counted' = counted + 1
  /\ current' = [current EXCEPT ![p] = [Buffer(p) EXCEPT !.total = @ + 1]]
  /\ baseline' = [baseline EXCEPT ![p] = Base(p)]
  /\ \E goes \in IF Buffer(p).total = Base(p).total THEN {"locks"} ELSE {"locks", "ready"} :
       statsProc' = [statsProc EXCEPT ![p] = goes]
  /\ UNCHANGED <<statsFile, disk, statsLock, guarded, statsKilled, scored, collided>>

RecordScore(p) ==
  /\ statsProc[p] = "ready" /\ counted + Len(scored) < MaxCounted
  /\ scored' = Append(scored, Len(scored) + 1)
  /\ current' = [current EXCEPT ![p] =
                   [Buffer(p) EXCEPT !.scores = Newest(Append(@, Len(scored) + 1))]]
  /\ baseline' = [baseline EXCEPT ![p] = Base(p)]
  /\ \E goes \in {"locks", "ready"} : statsProc' = [statsProc EXCEPT ![p] = goes]
  /\ UNCHANGED <<statsFile, disk, statsLock, guarded, statsKilled, counted, collided>>

\* flush, as every command and the MCP server call it before they end.
Flush(p) ==
  /\ statsProc[p] = "ready" /\ current[p] # NoBuffer
  /\ statsProc' = [statsProc EXCEPT ![p] = "locks"]
  /\ UNCHANGED <<statsFile, current, baseline, disk, statsLock, guarded, statsKilled, counted,
                 scored, collided>>

\* Whether a process is between getting the lock and giving it back.
Merges(p) == statsProc[p] \in {"reads", "writes", "unlocks"}

GetLock(p) ==
  /\ statsProc[p] = "locks" /\ Lock!Take(p)
  /\ guarded' = guarded \union {p}
  /\ collided' = (collided \/ \E q \in StatsProcs : Merges(q))
  /\ statsProc' = [statsProc EXCEPT ![p] = "reads"]
  /\ UNCHANGED <<statsFile, current, baseline, disk, statsKilled, counted, scored>>

LockGetsOld == Lock!Age /\ UNCHANGED <<statsFile, current, baseline, statsProc, disk, guarded,
                                       statsKilled, counted, scored, collided>>

SeesStale(p) ==
  /\ statsProc[p] = "locks" /\ statsLock.stale
  /\ statsProc' = [statsProc EXCEPT ![p] = "breaks"]
  /\ UNCHANGED <<statsFile, current, baseline, disk, statsLock, guarded, statsKilled, counted,
                 scored, collided>>

BreakLock(p) ==
  /\ statsProc[p] = "breaks" /\ Lock!Drop(NobodyHolds)
  /\ statsProc' = [statsProc EXCEPT ![p] = "locks"]
  /\ UNCHANGED <<statsFile, current, baseline, disk, guarded, statsKilled, counted, scored,
                 collided>>

LockTimesOut(p) ==
  /\ statsProc[p] = "locks" /\ statsLock.held
  /\ statsProc' = [statsProc EXCEPT ![p] = "reads"]
  /\ collided' = (collided \/ \E q \in StatsProcs : Merges(q))
  /\ UNCHANGED <<statsFile, current, baseline, disk, statsLock, guarded, statsKilled, counted, scored>>

\* Mutant: the file is taken to be as it was when the process last saw it.
MutReadStats(p) ==
  /\ statsProc[p] = "reads"
  /\ disk' = [disk EXCEPT ![p] = baseline[p]]
  /\ statsProc' = [statsProc EXCEPT ![p] = "writes"]
  /\ UNCHANGED <<statsFile, current, baseline, statsLock, guarded, statsKilled, counted,
                 scored, collided>>

ReadStats(p) ==
  /\ statsProc[p] = "reads"
  /\ disk' = [disk EXCEPT ![p] = statsFile]
  /\ statsProc' = [statsProc EXCEPT ![p] = "writes"]
  /\ UNCHANGED <<statsFile, current, baseline, statsLock, guarded, statsKilled, counted, scored, collided>>

\* Mutant: the scores beyond the number the file has are new.
MutMerged(p) ==
  [total |-> disk[p].total + (current[p].total - baseline[p].total),
   scores |-> Newest(disk[p].scores \o
                     SubSeq(current[p].scores, Len(disk[p].scores) + 1, Len(current[p].scores)))]

\* apply_deltas: the scores beyond the number the baseline had are new.
Merged(p) ==
  [total |-> disk[p].total + (current[p].total - baseline[p].total),
   scores |-> Newest(disk[p].scores \o
                     SubSeq(current[p].scores, Len(baseline[p].scores) + 1, Len(current[p].scores)))]

\* Two that write at once share the temporary file: either's text, or none, stays.
WriteStats(p) ==
  /\ statsProc[p] = "writes"
  /\ statsFile' \in {Merged(p)} \union
       (IF \E q \in StatsProcs \ {p} : statsProc[q] = "writes" THEN {Empty} ELSE {})
  /\ current' = [current EXCEPT ![p] = Merged(p)]
  /\ baseline' = [baseline EXCEPT ![p] = Merged(p)]
  /\ disk' = [disk EXCEPT ![p] = Empty]
  /\ statsProc' = [statsProc EXCEPT ![p] = "unlocks"]
  /\ UNCHANGED <<statsLock, guarded, statsKilled, counted, scored, collided>>

\* The guard removes the file, unless there was no lock to guard.
Unlock(p) ==
  /\ statsProc[p] = "unlocks"
  /\ IF p \in guarded THEN Lock!Drop(NobodyHolds) ELSE UNCHANGED statsLock
  /\ guarded' = guarded \ {p}
  /\ statsProc' = [statsProc EXCEPT ![p] = "ready"]
  /\ UNCHANGED <<statsFile, current, baseline, disk, statsKilled, counted, scored, collided>>

\* What a process has counted and not merged yet goes with it; its lock file stays.
KillStats(p) ==
  /\ statsKilled < MaxStatsKilled /\ statsKilled' = statsKilled + 1
  /\ statsProc' = [statsProc EXCEPT ![p] = "ready"]
  /\ counted' = counted - (current[p].total - baseline[p].total)
  /\ current' = [current EXCEPT ![p] = NoBuffer] /\ baseline' = [baseline EXCEPT ![p] = NoBuffer]
  /\ disk' = [disk EXCEPT ![p] = Empty] /\ guarded' = guarded \ {p}
  /\ UNCHANGED <<statsFile, statsLock, scored, collided>>

StatsStep(p) ==
  \/ Record(p) \/ RecordScore(p) \/ Flush(p) \/ GetLock(p) \/ SeesStale(p) \/ BreakLock(p)
  \/ LockTimesOut(p) \/ ReadStats(p) \/ WriteStats(p) \/ Unlock(p) \/ KillStats(p)

StatsNext == LockGetsOld \/ \E p \in StatsProcs : StatsStep(p)

StatsSpec == StatsInit /\ [][StatsNext]_statsVars

(***************************************************************************)
(* Properties.                                                             *)
(***************************************************************************)

Stats == [total : 0..MaxCounted, scores : Seq(0..MaxCounted)]

StatsTypeOK ==
  /\ statsFile \in Stats
  /\ current \in [StatsProcs -> Stats] /\ baseline \in [StatsProcs -> Stats]
  /\ statsProc \in [StatsProcs -> {"ready", "locks", "breaks", "reads", "writes", "unlocks"}]
  /\ disk \in [StatsProcs -> Stats]
  /\ statsLock \in Lock!LockType(StatsProcs, NobodyHolds)
  /\ guarded \subseteq StatsProcs
  /\ statsKilled \in 0..MaxStatsKilled /\ counted \in 0..MaxCounted
  /\ scored \in Seq(1..MaxCounted) /\ collided \in BOOLEAN

\* What the buffer of each process counts beyond its baseline.
Pending == [p \in StatsProcs |-> current[p].total - baseline[p].total]

\* However flushes overlap and processes end, no command is counted twice: what the file
\* holds and what still waits is never more than was recorded (merge_and_save).
NothingCountsTwice == statsFile.total + SumFunction(Pending) <= counted

\* And as long as no two flushes were at work at once, every command that was recorded
\* is in the file or waits in a buffer (merge_and_save).
EveryCommandCountsOnce ==
  /\ NothingCountsTwice
  /\ ~collided => counted = statsFile.total + SumFunction(Pending)

\* Below the limit no score is lost or doubled on its way to the file: what a process
\* has not merged yet completes what is there.
ScoresArrive ==
  (~collided /\ statsKilled = 0 /\ Len(scored) <= MaxScores) =>
    ToSet(scored) = ToSet(statsFile.scores) \union UNION {ToSet(current[p].scores) \ {0} : p \in StatsProcs}
=============================================================================
