--------------------------- MODULE AgentRegistry ---------------------------
(***************************************************************************)
(* The registry of agents and their scratchpad of messages.                *)
(*                                                                         *)
(* Every ctx_agent call loads registry.json, changes it and saves it.  The *)
(* lock is taken for the save alone, and a call that does not get it       *)
(* within five seconds saves nothing.  A post cuts the scratchpad, a share *)
(* of facts adds to it and does not.                                       *)
(*                                                                         *)
(* A process has one agent and is known by it.  The file of its own that   *)
(* a share also writes (shared_knowledge.json) is left out.                *)
(***************************************************************************)
EXTENDS Naturals, Sequences, FiniteSets

CONSTANTS
  Agent,
  Everybody,     \* the addressee of a broadcast
  MaxPad,        \* MAX_SCRATCHPAD_ENTRIES
  MaxFacts,      \* bound: facts in one share
  MaxAgentCalls  \* bound: calls over all

ASSUME AgentAssumption ==
  /\ Everybody \notin Agent /\ "nobody" \notin Agent
  /\ MaxPad \in Nat \ {0} /\ MaxFacts \in Nat \ {0} /\ MaxAgentCalls \in Nat

VARIABLES
  registry,   \* [agents, pad]: the file
  agentProc,  \* the control state of each process
  loaded,     \* the registry it is to save
  agentLock,
  agentCalls,
  pushed,     \* history: the ids of the messages its call has added
  posted,     \* history: those whose save was completed, in that order
  clashed,    \* history: whether two calls overlapped or one was killed as it wrote
  broken      \* history: whether a lock was removed by another than its owner

agentVars == <<registry, agentProc, loaded, agentLock, agentCalls, pushed, posted, clashed,
               broken>>

RegistryLock == INSTANCE FileLock WITH lock <- agentLock

Status == {"active", "idle", "finished"}
\* The id of a fact begins with "knowledge", and all facts of one share may have the same.
Id == {"post", "knowledge"} \X (1..MaxAgentCalls)
Message == [id : Id, from : Agent, to : Agent \union {Everybody}, readers : SUBSET Agent]

NewRegistry == [agents |-> [a \in {} |-> "idle"], pad |-> <<>>]

AgentInit ==
  /\ registry = NewRegistry
  /\ agentProc = [a \in Agent |-> "ready"]
  /\ loaded = [a \in Agent |-> NewRegistry]
  /\ agentLock = RegistryLock!Unlocked("nobody")
  /\ agentCalls = 0 /\ posted = <<>> /\ pushed = [a \in Agent |-> <<>>]
  /\ clashed = FALSE /\ broken = FALSE

(***************************************************************************)
(* What the calls do to a registry.                                        *)
(***************************************************************************)

\* cleanup_stale: agents that have been silent for a day end when their process is
\* gone, and are dropped.
CleanedUp(r) ==
  {[r EXCEPT !.agents = [a \in DOMAIN r.agents \ old |-> r.agents[a]]] :
     old \in SUBSET DOMAIN r.agents}

WithStatus(r, a, s) ==
  IF a \in DOMAIN r.agents THEN [r EXCEPT !.agents[a] = s] ELSE r

Registered(r, a) ==
  [r EXCEPT !.agents = [b \in DOMAIN @ \union {a} |-> IF b = a THEN "active" ELSE @[b]]]

Recent(pad) ==
  SubSeq(pad, IF Len(pad) > MaxPad THEN Len(pad) - MaxPad + 1 ELSE 1, Len(pad))

PostId == <<"post", agentCalls + 1>>
FactId == <<"knowledge", agentCalls + 1>>

\* Mutant: the scratchpad is cut before the message is added.
MutPosted(r, a, to) ==
  [r EXCEPT !.pad = Append(Recent(@), [id |-> PostId, from |-> a, to |-> to, readers |-> {a}])]

Posted(r, a, to) ==
  [r EXCEPT !.pad = Recent(Append(@, [id |-> PostId, from |-> a, to |-> to, readers |-> {a}]))]

SharedFacts(r, a, n) ==
  [r EXCEPT !.pad =
     @ \o [i \in 1..n |-> [id |-> FactId, from |-> a, to |-> Everybody, readers |-> {}]]]

Addressed(m, a) == m.from # a /\ m.to \in {a, Everybody}

ReadBy(m, a) == IF Addressed(m, a) THEN [m EXCEPT !.readers = @ \union {a}] ELSE m

MarkedRead(r, a) == [r EXCEPT !.pad = [i \in DOMAIN @ |-> ReadBy(@[i], a)]]

(***************************************************************************)
(* A call.                                                                 *)
(***************************************************************************)

\* What a call that adds no message makes of the registry: list and register clean up
\* first, and a call that fails, receives facts or only looks saves the same.
Changed(r, a) ==
  {r} \union CleanedUp(r) \union {Registered(c, a) : c \in CleanedUp(r)}
  \union {WithStatus(r, a, s) : s \in Status}

\* A process is to save r, to which it has added messages.
IsToSave(a, r, ids) ==
  /\ loaded' = [loaded EXCEPT ![a] = r] /\ pushed' = [pushed EXCEPT ![a] = ids]

Loads(a) ==
  /\ agentProc[a] = "ready" /\ agentCalls < MaxAgentCalls
  /\ agentCalls' = agentCalls + 1
  /\ agentProc' = [agentProc EXCEPT ![a] = "loaded"]
  /\ clashed' = (clashed \/ \E b \in Agent : agentProc[b] # "ready")
  /\ UNCHANGED <<registry, agentLock, posted, broken>>

Call(a) ==
  /\ Loads(a)
  /\ \/ \E r \in Changed(registry, a) : IsToSave(a, r, <<>>)
     \/ \E to \in (Agent \ {a}) \union {Everybody} : IsToSave(a, Posted(registry, a, to), <<PostId>>)
     \/ \E to \in Agent \ {a} :
          IsToSave(a, WithStatus(Posted(registry, a, to), a, "finished"), <<PostId>>)
     \/ \E n \in 1..MaxFacts : IsToSave(a, SharedFacts(registry, a, n), [i \in 1..n |-> FactId])

ReadMessages(a) ==
  /\ Loads(a)
  /\ IsToSave(a, MarkedRead(registry, a), <<>>)

(***************************************************************************)
(* Its save.                                                               *)
(***************************************************************************)

AgentGoes(a, s) == agentProc' = [agentProc EXCEPT ![a] = s]

\* Whether the process believes that it holds the lock.
Holds(a) == agentProc[a] \in {"locked", "cut", "written"}

\* Mutant: the lock file is opened, whether or not it is there.
MutGetRegistryLock(a) ==
  /\ agentProc[a] = "loaded"
  /\ agentLock' = [held |-> TRUE, stale |-> FALSE, owner |-> a]
  /\ AgentGoes(a, "locked")
  /\ UNCHANGED <<registry, loaded, pushed, agentCalls, posted, clashed, broken>>

GetRegistryLock(a) ==
  /\ agentProc[a] = "loaded" /\ RegistryLock!Take(a)
  /\ AgentGoes(a, "locked")
  /\ UNCHANGED <<registry, loaded, pushed, agentCalls, posted, clashed, broken>>

GiveUp(a) ==
  /\ agentProc[a] = "loaded" /\ agentLock.held
  /\ AgentGoes(a, "ready")
  /\ IsToSave(a, NewRegistry, <<>>)
  /\ UNCHANGED <<registry, agentLock, agentCalls, posted, clashed, broken>>

RegistryLockGetsOld ==
  /\ RegistryLock!Age
  /\ UNCHANGED <<registry, agentProc, loaded, pushed, agentCalls, posted, clashed, broken>>

FindsStale(a) ==
  /\ agentProc[a] = "loaded" /\ agentLock.stale
  /\ AgentGoes(a, "breaks")
  /\ UNCHANGED <<registry, loaded, pushed, agentLock, agentCalls, posted, clashed, broken>>

RemovesLock(a) ==
  /\ agentProc[a] = "breaks" /\ RegistryLock!Drop("nobody")
  /\ AgentGoes(a, "loaded")
  /\ broken' = (broken \/ \E b \in Agent : agentLock.owner = b /\ Holds(b))
  /\ UNCHANGED <<registry, loaded, pushed, agentCalls, posted, clashed>>

\* The file is emptied, and loads as a new registry until it is written.
CutRegistry(a) ==
  /\ agentProc[a] = "locked"
  /\ registry' = NewRegistry
  /\ AgentGoes(a, "cut")
  /\ UNCHANGED <<loaded, pushed, agentLock, agentCalls, posted, clashed, broken>>

WriteRegistry(a) ==
  /\ agentProc[a] = "cut"
  /\ registry' = loaded[a] /\ posted' = posted \o pushed[a]
  /\ IsToSave(a, NewRegistry, <<>>)
  /\ AgentGoes(a, "written")
  /\ UNCHANGED <<agentLock, agentCalls, clashed, broken>>

UnlockRegistry(a) ==
  /\ agentProc[a] = "written" /\ RegistryLock!Drop("nobody")
  /\ AgentGoes(a, "ready")
  /\ UNCHANGED <<registry, loaded, pushed, agentCalls, posted, clashed, broken>>

KillAgent(a) ==
  /\ agentProc[a] # "ready"
  /\ AgentGoes(a, "ready")
  /\ IsToSave(a, NewRegistry, <<>>)
  /\ clashed' = (clashed \/ agentProc[a] = "cut")
  /\ UNCHANGED <<registry, agentLock, agentCalls, posted, broken>>

AgentStep(a) ==
  \/ Call(a) \/ ReadMessages(a) \/ GetRegistryLock(a) \/ GiveUp(a) \/ FindsStale(a) \/ RemovesLock(a)
  \/ CutRegistry(a) \/ WriteRegistry(a) \/ UnlockRegistry(a) \/ KillAgent(a)

AgentNext == RegistryLockGetsOld \/ \E a \in Agent : AgentStep(a)

AgentSpec == AgentInit /\ [][AgentNext]_agentVars

(***************************************************************************)
(* Properties.                                                             *)
(***************************************************************************)

IsRegistry(r) ==
  /\ DOMAIN r.agents \subseteq Agent /\ \A a \in DOMAIN r.agents : r.agents[a] \in Status
  /\ r.pad \in Seq(Message)

AgentTypeOK ==
  /\ IsRegistry(registry) /\ \A a \in Agent : IsRegistry(loaded[a])
  /\ agentProc \in [Agent -> {"ready", "loaded", "breaks", "locked", "cut", "written"}]
  /\ agentLock \in RegistryLock!LockType(Agent, "nobody")
  /\ agentCalls \in 0..MaxAgentCalls /\ posted \in Seq(Id)
  /\ pushed \in [Agent -> Seq(Id)]
  /\ {clashed, broken} \subseteq BOOLEAN

\* Two processes are in their saves at once only after one of them has removed the
\* lock of the other, which it had found stale before (FileLock::acquire).
WritersExclude == ~broken => \A a, b \in Agent : Holds(a) /\ Holds(b) => a = b

\* The pad is the newest of all pushes: MaxPad of them at least, and no more after a post.
KeepsNewest(pad, pushes) ==
  LET older == Len(pushes) - Len(pad) IN
  /\ older >= 0 /\ (older > 0 => Len(pad) >= MaxPad)
  /\ \A i \in 1..Len(pad) : pad[i].id = pushes[i + older]
  /\ pushes # <<>> /\ pushes[Len(pushes)][1] = "post" => Len(pad) <= MaxPad

\* Unless calls overlap or one is killed as it writes, the scratchpad is the newest
\* messages and facts of all those whose save succeeded, in their order; what a post
\* drops are the oldest beyond MaxPad (AgentRegistry::save, post_message,
\* share_knowledge).
MessagesStay ==
  (~clashed /\ \A a \in Agent : agentProc[a] # "cut") => KeepsNewest(registry.pad, posted)
=============================================================================
