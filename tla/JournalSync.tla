---------------------------- MODULE JournalSync ----------------------------
(***************************************************************************)
(* The local journal of a project and its sync to the host.                *)
(*                                                                         *)
(* Every editor hook is a process of its own.  It appends one event to the *)
(* journal by loading the file, adding a line and writing the file again;  *)
(* most hooks then sync, as a server does that saves its session: they     *)
(* turn the newest unsynced events into memory candidates for the host and *)
(* move two markers, one that debounces the next sync and one that says    *)
(* how far the journal is synced.  No lock holds any of this together.     *)
(*                                                                         *)
(* An event is its timestamp: no two hooks fire at the same time.          *)
(***************************************************************************)
EXTENDS Naturals, Sequences, FiniteSets, SequencesExt, Selection

CONSTANTS
  Hooks,          \* hook processes that may run at the same time
  MaxClock,       \* bound: hooks over all
  MaxEvents,      \* MAX_EVENTS_PER_PROJECT, the retention of the journal
  RecentLimit,    \* how many unsynced events a sync looks at
  CandidateLimit, \* how many candidates it sends
  Debounce,       \* HOSTED_MEMORY_SYNC_DEBOUNCE_SECS
  Durable,        \* events whose text makes a candidate
  MaxKilled       \* bound: hooks killed

ASSUME JournalAssumption ==
  /\ MaxClock \in Nat /\ MaxKilled \in Nat /\ Debounce \in Nat \ {0}
  /\ MaxEvents \in Nat \ {0} /\ RecentLimit \in Nat \ {0} /\ CandidateLimit \in Nat
  /\ Durable \subseteq 1..MaxClock

VARIABLES
  journal,    \* the lines of the journal file
  clock,
  syncedTo,   \* the journal marker: the timestamp of the last synced event
  hostedAt,   \* the hosted marker: when the last sync ended, 0 when there is none
  hook,       \* the control state of each process
  event,      \* the event each process is to append
  copy        \* the lines, or the recent events, each process has loaded

\* History, read by properties only.
VARIABLES
  logged,     \* the events whose append was completed, in that order
  sent,       \* how often each event was sent as a candidate
  crowded,    \* unsynced events that retention dropped or a sync had no room for
  overlapped, \* whether two hooks were ever at work at the same time
  raced,      \* whether one loaded the journal while another was to rewrite it
  killed,     \* how many hooks were killed
  torn        \* whether one was killed while it rewrote the journal

journalHistory == <<logged, sent, crowded, overlapped, raced, killed, torn>>
journalVars == <<journal, clock, syncedTo, hostedAt, hook, event, copy, journalHistory>>

Events == 1..MaxClock

\* The last n elements of a sequence.
LastOf(s, n) == SubSeq(s, IF Len(s) > n THEN Len(s) - n + 1 ELSE 1, Len(s))

JournalTypeOK ==
  /\ journal \in Seq(Events) /\ clock \in 0..MaxClock
  /\ syncedTo \in 0..MaxClock /\ hostedAt \in 0..MaxClock
  /\ hook \in [Hooks -> {"idle", "append", "appendSync", "loaded", "loadedSync", "cut",
                         "cutSync", "sync", "recent", "posted", "marked"}]
  /\ event \in [Hooks -> 0..MaxClock]
  /\ copy \in [Hooks -> Seq(Events)]
  /\ logged \in Seq(Events) /\ sent \in [Events -> Nat] /\ crowded \subseteq Events
  /\ {overlapped, raced, torn} \subseteq BOOLEAN /\ killed \in 0..MaxKilled

JournalInit ==
  /\ journal = <<>> /\ clock = 0 /\ syncedTo = 0 /\ hostedAt = 0
  /\ hook = [h \in Hooks |-> "idle"] /\ event = [h \in Hooks |-> 0]
  /\ copy = [h \in Hooks |-> <<>>]
  /\ logged = <<>> /\ sent = [e \in Events |-> 0] /\ crowded = {}
  /\ overlapped = FALSE /\ raced = FALSE /\ killed = 0 /\ torn = FALSE

At(h, s) == hook[h] = s
Goes(h, s) == hook' = [hook EXCEPT ![h] = s]
Rewrites(h) == hook[h] \in {"loaded", "loadedSync", "cut", "cutSync"}

(***************************************************************************)
(* Appending one event.                                                    *)
(***************************************************************************)

\* A hook starts, soon after the last or late enough for a sync: it takes the time, and
\* will sync after its append or not.
HookFires(h) ==
  /\ At(h, "idle")
  /\ clock' \in {clock + 1, clock + Debounce} \intersect Events
  /\ event' = [event EXCEPT ![h] = clock']
  /\ \E s \in {"append", "appendSync"} : Goes(h, s)
  /\ overlapped' = (overlapped \/ \E g \in Hooks : ~At(g, "idle"))
  /\ UNCHANGED <<journal, syncedTo, hostedAt, copy, logged, sent, crowded, raced,
                 killed, torn>>

\* Mutant: the journal is cut before the event is added, one line too short.
MutRetained(s) == LastOf(s, MaxEvents - 1)

Retained(s) == LastOf(s, MaxEvents)

\* Mutant: the event at the marker is taken again.
MutUnsynced == SelectIn(journal, {e \in Events : e >= syncedTo})

Unsynced == SelectIn(journal, {e \in Events : e > syncedTo})

LoadJournal(h) ==
  /\ hook[h] \in {"append", "appendSync"}
  /\ copy' = [copy EXCEPT ![h] = Retained(Append(journal, event[h]))]
  /\ crowded' = crowded \union (ToSet(Unsynced) \ ToSet(copy'[h]))
  /\ raced' = (raced \/ \E g \in Hooks : Rewrites(g))
  /\ Goes(h, IF At(h, "append") THEN "loaded" ELSE "loadedSync")
  /\ UNCHANGED <<journal, clock, syncedTo, hostedAt, event, logged, sent, overlapped,
                 killed, torn>>

\* fs::write empties the file before it writes it.
CutJournal(h) ==
  /\ hook[h] \in {"loaded", "loadedSync"}
  /\ journal' = <<>>
  /\ Goes(h, IF At(h, "loaded") THEN "cut" ELSE "cutSync")
  /\ UNCHANGED <<clock, syncedTo, hostedAt, event, copy, journalHistory>>

\* The lines are written from the start of the file; what another process wrote
\* beyond them meanwhile stays.
WriteJournal(h) ==
  /\ hook[h] \in {"cut", "cutSync"}
  /\ journal' = copy[h] \o SubSeq(journal, Len(copy[h]) + 1, Len(journal))
  /\ logged' = Append(logged, event[h])
  /\ copy' = [copy EXCEPT ![h] = <<>>]
  /\ event' = [event EXCEPT ![h] = 0]
  /\ Goes(h, IF At(h, "cut") THEN "idle" ELSE "sync")
  /\ UNCHANGED <<clock, syncedTo, hostedAt, sent, crowded, overlapped,
                 raced, killed, torn>>

(***************************************************************************)
(* Syncing.                                                                *)
(***************************************************************************)

MaySync == hostedAt = 0 \/ clock - hostedAt >= Debounce

Debounced(h) ==
  /\ At(h, "sync") /\ ~MaySync
  /\ Goes(h, "idle")
  /\ UNCHANGED <<journal, clock, syncedTo, hostedAt, event, copy, journalHistory>>

LoadRecent(h) ==
  /\ copy' = [copy EXCEPT ![h] = LastOf(Unsynced, RecentLimit)]
  /\ crowded' = crowded \union (ToSet(Unsynced) \ ToSet(LastOf(Unsynced, RecentLimit)))
  /\ Goes(h, "recent")
  /\ UNCHANGED <<journal, clock, syncedTo, hostedAt, event, logged, sent, raced, killed,
                 torn>>

HookSyncs(h) ==
  /\ At(h, "sync") /\ MaySync
  /\ LoadRecent(h) /\ UNCHANGED overlapped

\* A server that saves its session syncs without an event.
SessionSyncs(h) ==
  /\ At(h, "idle") /\ MaySync
  /\ LoadRecent(h)
  /\ overlapped' = (overlapped \/ \E g \in Hooks : ~At(g, "idle"))

\* The newest durable events that fit beside the candidates of the session.
Chosen(h, room) == ToSet(LastOf(SelectIn(copy[h], Durable), room))

\* Facts of the session and the journal are posted first, then the candidates.  A
\* sync that has sent nothing leaves the markers alone.
Post(h) ==
  /\ At(h, "recent")
  /\ \E room \in 0..CandidateLimit, facts \in BOOLEAN :
       LET chosen == Chosen(h, room) IN
       /\ sent' = [e \in Events |-> IF e \in chosen THEN sent[e] + 1 ELSE sent[e]]
       /\ crowded' = crowded \union ((ToSet(copy[h]) \intersect Durable) \ chosen)
       /\ Goes(h, IF facts \/ chosen # {} \/ room < CandidateLimit THEN "posted" ELSE "idle")
  /\ copy' = [copy EXCEPT ![h] = <<>>]
  /\ UNCHANGED <<journal, clock, syncedTo, hostedAt, event, logged, overlapped, raced,
                 killed, torn>>

MarkHosted(h) ==
  /\ At(h, "posted")
  /\ hostedAt' = clock
  /\ Goes(h, "marked")
  /\ UNCHANGED <<journal, clock, syncedTo, event, copy, journalHistory>>

\* Mutant: the marker takes the time of the sync, not that of the last event.
MutLatestEvent == IF clock < MaxClock THEN clock + 1 ELSE clock

LatestEvent == IF journal = <<>> THEN 0 ELSE Last(journal)

\* The journal is read again for the marker.
MarkJournal(h) ==
  /\ At(h, "marked")
  /\ syncedTo' = LatestEvent
  /\ Goes(h, "idle")
  /\ UNCHANGED <<journal, clock, hostedAt, event, copy, journalHistory>>

KillHook(h) ==
  /\ ~At(h, "idle") /\ killed < MaxKilled
  /\ killed' = killed + 1
  /\ torn' = (torn \/ hook[h] \in {"cut", "cutSync"})
  /\ Goes(h, "idle")
  /\ copy' = [copy EXCEPT ![h] = <<>>]
  /\ event' = [event EXCEPT ![h] = 0]
  /\ UNCHANGED <<journal, clock, syncedTo, hostedAt, logged, sent, crowded, overlapped,
                 raced>>

JournalStep(h) ==
  \/ HookFires(h) \/ LoadJournal(h) \/ CutJournal(h) \/ WriteJournal(h)
  \/ Debounced(h) \/ HookSyncs(h) \/ SessionSyncs(h) \/ Post(h) \/ MarkHosted(h)
  \/ MarkJournal(h) \/ KillHook(h)

JournalNext == \E h \in Hooks : JournalStep(h)

JournalSpec == JournalInit /\ [][JournalNext]_journalVars

(***************************************************************************)
(* Properties.                                                             *)
(***************************************************************************)

\* An event is lost, but by retention, only when one hook loads the journal before
\* another has written it again, or is killed while it writes: otherwise the journal
\* holds the last MaxEvents events that were appended (append_event, save_events).
JournalKeepsTheLast ==
  (~raced /\ ~torn /\ \A h \in Hooks : hook[h] \notin {"cut", "cutSync"})
    => journal = LastOf(logged, MaxEvents)

\* The journal marker covers a durable event only if it was sent, or retention or a
\* sync had no room for it (load_recent_unsynced_journal_events, the two markers of
\* sync_session_memory_to_server), as long as hooks do not overlap and the file was
\* not torn.
MarkerCoversSent ==
  (~overlapped /\ ~torn) => \A e \in ToSet(logged) \intersect Durable :
                   e <= syncedTo => sent[e] > 0 \/ e \in crowded

\* An event is sent a second time only after hooks overlapped or one was killed
\* between the post and the marker.
SentOnce == (~overlapped /\ killed = 0) => \A e \in Events : sent[e] <= 1
=============================================================================
