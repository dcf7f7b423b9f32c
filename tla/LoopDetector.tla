---------------------------- MODULE LoopDetector ----------------------------
(***************************************************************************)
(* The throttle in front of every tool call (LoopDetector): a call that is *)
(* repeated too often within a window of time, and a search too many, is   *)
(* answered with a refusal.                                                *)
(*                                                                         *)
(* A call is its tool and arguments; what a search looks for is its topic, *)
(* and two topics are similar or not.                                      *)
(***************************************************************************)
EXTENDS Integers, Sequences, FiniteSets, Selection

CONSTANTS
  ToolArgs,      \* tool and arguments of a call
  SearchArgs,    \* those of ctx_search
  TopicOf,       \* what each search looks for; equal topics are similar.  "missing":
                 \* the search names no pattern; "empty": it names an empty one
  Window,        \* window_secs
  Normal, Reduced, Blocked,  \* thresholds of repeated calls
  SearchLimit,   \* search_group_limit
  TopicsKept,    \* how many patterns are remembered
  MaxTime, MaxThrottled  \* bounds: clock and calls

ASSUME DetectorAssumption ==
  /\ SearchArgs \subseteq ToolArgs /\ Window \in Nat \ {0} /\ TopicsKept \in Nat \ {0}
  /\ Normal \in Nat /\ Reduced \in Nat /\ Blocked \in Nat /\ SearchLimit \in Nat
  /\ Normal <= Reduced /\ Reduced <= Blocked /\ SearchLimit >= 3
  /\ MaxTime \in Nat /\ MaxThrottled \in Nat

VARIABLES
  now,
  callHistory,    \* when each call was made, as far as it is remembered
  searchHistory,  \* when searches were made
  topics,         \* what the last ones looked for
  verdict         \* the last answer: level and reason

\* History, read by properties only.
VARIABLE made     \* every call: what and when

detectorVars == <<now, callHistory, searchHistory, topics, verdict, made>>

Levels == {"normal", "reduced", "blocked"}
Reasons == {"repeated", "similar", "searches"}

DetectorTypeOK ==
  /\ now \in 0..MaxTime
  /\ callHistory \in [ToolArgs -> Seq(0..MaxTime)] /\ searchHistory \in Seq(0..MaxTime)
  /\ topics \in Seq({TopicOf[a] : a \in SearchArgs}) /\ Len(topics) <= TopicsKept
  /\ verdict \in [level : Levels, reason : Reasons, args : ToolArgs \union {"none"}]
  /\ made \in Seq(ToolArgs \X (0..MaxTime)) /\ Len(made) <= MaxThrottled

DetectorInit ==
  /\ now = 0 /\ callHistory = [a \in ToolArgs |-> << >>]
  /\ searchHistory = << >> /\ topics = << >> /\ made = << >>
  /\ verdict = [level |-> "normal", reason |-> "repeated", args |-> "none"]

\* Mutant: what leaves the window is kept.
MutPruned(times) == times

\* prune_window keeps what is younger than the window.
Pruned(times) == SelectIn(times, {t \in 0..now : now - t < Window})

Verdict(level, reason, args) ==
  verdict' = [level |-> level, reason |-> reason, args |-> args]

\* Above either of the two lower thresholds the code returns ThrottleLevel::Reduced; only
\* the text differs.
LevelOf(count) ==
  CASE count > Blocked -> "blocked"
    [] count <= Blocked /\ count > Reduced -> "reduced"
    [] count <= Reduced /\ count > Normal -> "reduced"
    [] OTHER -> "normal"

\* record_call: everything is pruned, then the call counts; `least' is the level that a
\* caller asks for at least.
RecordRepeat(args, searches, least) ==
  LET times == Append(Pruned(callHistory[args]), now)
      level == LevelOf(Len(times))
  IN /\ callHistory' = [a \in ToolArgs |-> IF a = args THEN times ELSE Pruned(callHistory[a])]
     /\ searchHistory' = Pruned(searches)
     /\ Verdict(IF level = "normal" THEN least ELSE level, "repeated", args)

\* Mutant: one topic too many is remembered.
MutRemembered(kept) == IF Len(kept) > TopicsKept + 1 THEN Tail(kept) ELSE kept

\* The oldest topic makes room for the newest.
Remembered(kept) == IF Len(kept) > TopicsKept THEN Tail(kept) ELSE kept

\* How many of the remembered topics a search is similar to: an empty pattern is
\* contained in every other one, and a search without a pattern resembles none.
SimilarCount(topic) ==
  CASE topic = "missing" -> 0
    [] topic = "empty" -> Len(topics)
    [] OTHER -> Cardinality({i \in DOMAIN topics : topics[i] = topic})

\* Neither of them is remembered.
TopicsAfter(topic) ==
  IF topic \in {"missing", "empty"} THEN topics ELSE Remembered(Append(topics, topic))

\* record_search: the search counts first, nothing is pruned before it.  A refusal
\* prunes nothing at all.
RecordSearch(args) ==
  LET searches == Append(searchHistory, now)
      similar == SimilarCount(TopicOf[args])
  IN /\ topics' = TopicsAfter(TopicOf[args])
     /\ \/ /\ similar >= Blocked \/ Len(searches) > SearchLimit
           /\ Verdict("blocked", IF similar >= Blocked THEN "similar" ELSE "searches", args)
           /\ searchHistory' = searches /\ UNCHANGED callHistory
        \/ /\ similar < Blocked /\ Len(searches) <= SearchLimit /\ similar >= Reduced
           /\ Verdict("reduced", "similar", args)
           /\ searchHistory' = searches /\ UNCHANGED callHistory
        \/ /\ similar < Reduced /\ Len(searches) <= SearchLimit
           /\ RecordRepeat(args, searches,
                           IF Len(searches) > SearchLimit - 3 THEN "reduced" ELSE "normal")

ThrottledCall(args) ==
  /\ Len(made) < MaxThrottled
  /\ made' = Append(made, <<args, now>>)
  /\ IF args \in SearchArgs THEN RecordSearch(args)
     ELSE RecordRepeat(args, searchHistory, "normal") /\ UNCHANGED topics
  /\ UNCHANGED now

TimePasses ==
  /\ now < MaxTime
  /\ now' = now + 1
  /\ UNCHANGED <<callHistory, searchHistory, topics, verdict, made>>

DetectorNext == (\E a \in ToolArgs : ThrottledCall(a)) \/ TimePasses

DetectorSpec == DetectorInit /\ [][DetectorNext]_detectorVars

(***************************************************************************)
(* Properties.                                                             *)
(***************************************************************************)

\* A call is refused as a repetition only when it was made more often than the threshold
\* within the window (record_call, prune_window), at the time of the refusal.
RepeatsAreRecent ==
  [][(verdict'.level = "blocked" /\ verdict'.reason = "repeated" /\ made' # made)
       => Cardinality({i \in DOMAIN made' :
                         made'[i][1] = verdict'.args /\ now - made'[i][2] < Window}) > Blocked]_detectorVars
=============================================================================
