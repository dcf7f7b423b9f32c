---------------------------- MODULE ServerLocks ----------------------------
(***************************************************************************)
(* The locks of the MCP server.  One server answers the tool calls of its  *)
(* client concurrently; its state is split over tokio read-write locks,    *)
(* which are fair: a request waits behind the ones that came before it, a  *)
(* reader behind a writer that waits.                                      *)
(*                                                                         *)
(* A call takes locks in scopes: a few locks one inside the other, all     *)
(* released at the end of the scope.  Between two scopes it holds nothing, *)
(* so who can wait for whom does not depend on the order of a call's       *)
(* scopes, and a call enters any scope of the code below next.             *)
(***************************************************************************)
EXTENDS Integers, Sequences, FiniteSets

CONSTANT ToolCalls  \* the calls that run at the same time

ASSUME ToolCallsAssumption == IsFiniteSet(ToolCalls)

VARIABLES
  scope,   \* the scope each call is in, empty between two
  taken,   \* how many of its locks the call holds
  waiting  \* the queue of each lock

lockVars == <<scope, taken, waiting>>

ServerLock == {"lastCall", "cache", "toolCalls", "session", "agentId", "ledger",
               "pipelineStats", "workflow", "loopDetector", "clientName"}

Shared(l) == [lock |-> l, exclusive |-> FALSE]
Exclusive(l) == [lock |-> l, exclusive |-> TRUE]

(***************************************************************************)
(* The scopes, by the function they are in.                                *)
(***************************************************************************)

IdleExpiry == {<<Shared("lastCall")>>, <<Exclusive("session")>>, <<Exclusive("cache")>>,
               <<Exclusive("lastCall")>>}

\* The root of the session is read, and written when the path leads to another one.
ResolvePath == {<<Shared("session")>>, <<Exclusive("session")>>}

LiveStats == {<<Shared("cache"), Shared("toolCalls")>>}

\* Mutant: the guards of the calls and the session live on to the statistics.
MutRecordCall == {<<Exclusive("toolCalls"), Exclusive("session"), Shared("cache")>>,
                  <<Shared("session")>>} \union LiveStats

RecordCall == {<<Exclusive("toolCalls"), Exclusive("session")>>, <<Shared("session")>>}
              \union LiveStats

\* ctx_read: the session stays locked while the agent is registered for a new root.
ReadArm == {<<Shared("session")>>, <<Shared("cache")>>, <<Shared("lastCall")>>,
            <<Exclusive("cache")>>, <<Exclusive("session"), Exclusive("agentId")>>,
            <<Exclusive("ledger")>>, <<Exclusive("pipelineStats")>>}

\* The tools that read files, or only look at the cache.
CacheArms == {<<Shared("session")>>, <<Exclusive("cache")>>, <<Shared("cache")>>}

\* ctx_preload: the ledger is read inside the session.
PreloadArm == {<<Exclusive("cache")>>, <<Exclusive("session")>>,
               <<Shared("session"), Shared("ledger")>>}

\* ctx_prefetch and the tools that ask the index for the project of the session.
IndexArms == {<<Shared("session")>>, <<Exclusive("cache")>>}

\* ctx_session, ctx_knowledge, ctx_agent and ctx_share.
AgentArms == {<<Exclusive("session")>>, <<Shared("session")>>, <<Shared("agentId")>>,
              <<Exclusive("agentId")>>, <<Shared("cache")>>}

\* ctx_feedback, ctx_task, ctx_impact, ctx_architecture and ctx_workflow.
RecordArms == {<<Shared("agentId")>>, <<Shared("toolCalls")>>, <<Shared("session")>>,
               <<Exclusive("session")>>, <<Exclusive("workflow")>>}

\* What a call does before its tool: the gate of the workflow, the context of a new
\* session, the throttle.
BeforeTool == {<<Shared("workflow")>>, <<Shared("session")>>, <<Exclusive("cache")>>,
               <<Exclusive("loopDetector")>>}

\* And after it: related files, the receipt, the autopilot.
AfterTool == {<<Shared("session")>>, <<Exclusive("cache")>>, <<Shared("agentId")>>,
              <<Shared("clientName")>>, <<Exclusive("session")>>}

Checkpoint == {<<Shared("cache")>>, <<Exclusive("session")>>, <<Shared("agentId")>>}
              \union LiveStats

Initialize == {<<Exclusive("clientName")>>, <<Exclusive("session")>>,
               <<Exclusive("agentId")>>}

Scopes == UNION {IdleExpiry, ResolvePath, RecordCall, ReadArm, CacheArms, PreloadArm,
                 IndexArms, AgentArms, RecordArms, BeforeTool, AfterTool, Checkpoint, Initialize}

(***************************************************************************)
(* The locks.                                                              *)
(***************************************************************************)

Wanted(c) == scope[c][taken[c] + 1]

Waits(c) == taken[c] < Len(scope[c]) /\ \E i \in DOMAIN waiting[Wanted(c).lock] :
                                          waiting[Wanted(c).lock][i] = c

\* The lock a call holds, and whether it holds it alone.
HoldsLock(c, l, exclusive) ==
  \E i \in 1..taken[c] : scope[c][i] = [lock |-> l, exclusive |-> exclusive]

\* Who keeps a request of c waiting among the holders of the lock.
Holders(c) ==
  {d \in ToolCalls : \/ HoldsLock(d, Wanted(c).lock, TRUE)
                     \/ Wanted(c).exclusive /\ HoldsLock(d, Wanted(c).lock, FALSE)}

LockTypeOK ==
  /\ scope \in [ToolCalls -> Scopes \union {<< >>}]
  /\ taken \in [ToolCalls -> Nat] /\ \A c \in ToolCalls : taken[c] <= Len(scope[c])
  /\ waiting \in [ServerLock -> Seq(ToolCalls)]

LockInit ==
  /\ scope = [c \in ToolCalls |-> << >>]
  /\ taken = [c \in ToolCalls |-> 0]
  /\ waiting = [l \in ServerLock |-> << >>]

EnterScope(c) ==
  /\ scope[c] = << >>
  /\ \E s \in Scopes : scope' = [scope EXCEPT ![c] = s]
  /\ UNCHANGED <<taken, waiting>>

AskLock(c) ==
  /\ taken[c] < Len(scope[c]) /\ ~Waits(c)
  /\ waiting' = [waiting EXCEPT ![Wanted(c).lock] = Append(@, c)]
  /\ UNCHANGED <<scope, taken>>

TakeLock(c) ==
  /\ Waits(c) /\ Head(waiting[Wanted(c).lock]) = c /\ Holders(c) = {}
  /\ waiting' = [waiting EXCEPT ![Wanted(c).lock] = Tail(@)]
  /\ taken' = [taken EXCEPT ![c] = @ + 1]
  /\ UNCHANGED scope

LeaveScope(c) ==
  /\ scope[c] # << >> /\ taken[c] = Len(scope[c])
  /\ scope' = [scope EXCEPT ![c] = << >>]
  /\ taken' = [taken EXCEPT ![c] = 0]
  /\ UNCHANGED waiting

LockNext == \E c \in ToolCalls : EnterScope(c) \/ AskLock(c) \/ TakeLock(c) \/ LeaveScope(c)

LockSpec == LockInit /\ [][LockNext]_lockVars

(***************************************************************************)
(* Properties.                                                             *)
(***************************************************************************)

\* Whom a waiting call waits for: holders of the lock, and those before it in the queue.
WaitsFor(c, d) ==
  /\ Waits(c)
  /\ \/ d \in Holders(c)
     \/ \E i, j \in DOMAIN waiting[Wanted(c).lock] :
          i < j /\ waiting[Wanted(c).lock][i] = d /\ waiting[Wanted(c).lock][j] = c

\* No calls ever wait for each other: the cache is taken before the list of calls, that
\* before the session, and the session before what is taken inside it, and no function
\* keeps a guard over a call of another that takes locks out of that order.
NoCircularWait ==
  \A S \in SUBSET {c \in ToolCalls : Waits(c)} :
    S # {} => \E c \in S : \A d \in S : ~WaitsFor(c, d)
=============================================================================
