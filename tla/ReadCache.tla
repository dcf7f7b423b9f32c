----------------------------- MODULE ReadCache -----------------------------
(***************************************************************************)
(* The file cache of the MCP server (SessionCache) and ctx_read on it.     *)
(*                                                                         *)
(* A call of ctx_read does its work under the write lock of the cache.     *)
(* Its mode is the caller's or was picked from the cache and the disk      *)
(* before the lock was taken, and both may have changed since: any mode    *)
(* meets any state.  A file is the number of its version, which is also    *)
(* its size in tokens.                                                     *)
(***************************************************************************)
EXTENDS Integers, FiniteSets, Functions

CONSTANTS
  Paths,
  MaxVersion,  \* bound: versions of a file
  MaxTokens,   \* NEBU_CTX_CACHE_MAX_TOKENS
  MaxReads,    \* bound: reads and prefetches over all
  MaxClears    \* bound: times the cache is cleared

ASSUME ReadCacheAssumption ==
  /\ IsFiniteSet(Paths) /\ MaxVersion \in Nat \ {0} /\ MaxTokens \in Nat \ {0}
  /\ MaxReads \in Nat /\ MaxClears \in Nat

VARIABLES
  onDisk,    \* the version of each file, 0 when it cannot be read
  cached,    \* the version of each entry of the cache
  fileRefs,  \* the short name of each file the cache has named
  nextRef,
  prefetched, \* the files of a ctx_prefetch that its answer has yet to name
  listing     \* whether it has begun to name them

\* History, read by properties only.
VARIABLES
  held,      \* the versions of each file that the agent was given whole
  partial,   \* files cached by something that did not give the agent the whole of them
  outgrown,  \* whether a cached file grew, or one file alone exceeded the limit
  named,     \* <<ref, path>>: what the answers since the last clear named
  answer,    \* the last answer
  reads, clears

readHistory == <<held, partial, outgrown, named, answer, reads, clears>>
prefetch == <<prefetched, listing>>
readVars == <<onDisk, cached, fileRefs, nextRef, prefetch, readHistory>>

Versions == 1..MaxVersion
Modes == {"full", "diff", "compressed", "auto"}
NoAnswer == [kind |-> "none"]
Kinds == {"content", "same", "unread", "delta", "compressed", "error"}
Answers == [kind : Kinds, path : Paths, version : 0..MaxVersion]

ReadTypeOK ==
  /\ onDisk \in [Paths -> 0..MaxVersion]
  /\ DOMAIN cached \subseteq Paths /\ \A p \in DOMAIN cached : cached[p] \in Versions
  /\ DOMAIN fileRefs \subseteq Paths /\ nextRef \in Nat \ {0}
  /\ \A p \in DOMAIN fileRefs : fileRefs[p] \in 1..(nextRef - 1)
  /\ prefetched \subseteq Paths /\ listing \in BOOLEAN
  /\ held \in [Paths -> SUBSET Versions] /\ partial \subseteq Paths
  /\ outgrown \in BOOLEAN /\ named \subseteq (Nat \X Paths)
  /\ answer = NoAnswer \/ answer \in Answers
  /\ reads \in 0..MaxReads /\ clears \in 0..MaxClears

ReadInit ==
  /\ onDisk \in [Paths -> {1}]
  /\ cached = << >> /\ fileRefs = << >> /\ nextRef = 1
  /\ prefetched = {} /\ listing = FALSE
  /\ held = [p \in Paths |-> {}] /\ partial = {} /\ outgrown = FALSE
  /\ named = {} /\ answer = NoAnswer /\ reads = 0 /\ clears = 0

(***************************************************************************)
(* The cache.                                                              *)
(***************************************************************************)

Without(f, S) == Restrict(f, DOMAIN f \ S)
With(f, p, v) == [q \in DOMAIN f \union {p} |-> IF q = p THEN v ELSE f[q]]

\* get_file_ref: the name the file has, or the next one.
RefOf(p) == IF p \in DOMAIN fileRefs THEN fileRefs[p] ELSE nextRef

\* Mutant: names are numbered by how many there are.
MutNames(p) == nextRef' = IF p \in DOMAIN fileRefs THEN nextRef
                          ELSE Cardinality(DOMAIN fileRefs') + 1

Names(p) == nextRef' = IF p \in DOMAIN fileRefs THEN nextRef ELSE nextRef + 1

Tokens(f, S) == SumFunctionOnSet(f, S)

\* Mutant: the size of the incoming file is forgotten.
MutSurplus(entries, incoming) == Tokens(entries, DOMAIN entries) - MaxTokens

Surplus(entries, incoming) == Tokens(entries, DOMAIN entries) + incoming - MaxTokens

\* What evict_if_needed may remove: it removes the entry with the lowest score until
\* enough is free.  The scores are left open.
Evictable(entries, incoming) ==
  LET target == Surplus(entries, incoming) IN
  {S \in SUBSET DOMAIN entries :
     /\ Tokens(entries, S) >= target \/ S = DOMAIN entries
     /\ S # {} => \E p \in S : Tokens(entries, S \ {p}) < target}

\* store: an entry is replaced in place; a new one may drive others out, and their
\* names with them.
Stores(entries, p, v) ==
  /\ outgrown' = (outgrown \/ v > MaxTokens \/ (p \in DOMAIN entries /\ v > entries[p]))
  /\ \E S \in (IF p \in DOMAIN entries THEN {{}} ELSE Evictable(entries, v)) :
       /\ cached' = With(Without(entries, S), p, v)
       /\ fileRefs' = With(Without(fileRefs, S), p, RefOf(p))

(***************************************************************************)
(* ctx_read.                                                               *)
(***************************************************************************)

Answer(kind, p, v) ==
  /\ answer' = [kind |-> kind, path |-> p, version |-> v]
  /\ named' = named \union {<<RefOf(p), p>>}

\* The agent now has version v of p whole.
Gives(p, v) ==
  /\ held' = [held EXCEPT ![p] = @ \union {v}]
  /\ partial' = partial \ {p}

GivesNothing == UNCHANGED <<held, partial>>

\* A delta gives the version to an agent that has its base.
Delta(p, v) ==
  /\ Answer("delta", p, v)
  /\ IF cached[p] \in held[p] THEN Gives(p, v) ELSE GivesNothing

Keeps(entries, p) ==
  /\ cached' = entries /\ fileRefs' = With(fileRefs, p, RefOf(p))
  /\ UNCHANGED outgrown

\* There is no entry, or fresh=true has thrown it away.
ReadMissing(p, mode) ==
  LET entries == Without(cached, {p}) IN
  \/ /\ onDisk[p] = 0
     /\ Keeps(entries, p) /\ Answer("error", p, 0) /\ GivesNothing
  \/ /\ onDisk[p] # 0 /\ mode # "compressed"
     /\ Stores(entries, p, onDisk[p]) /\ Answer("content", p, onDisk[p])
     /\ Gives(p, onDisk[p])
  \/ /\ onDisk[p] # 0 /\ mode \in {"compressed", "auto"}
     /\ Stores(entries, p, onDisk[p]) /\ Answer("compressed", p, onDisk[p])
     /\ partial' = partial \union {p} /\ UNCHANGED held

\* Mutant: a file that is not newer than its entry is the same.
MutSame(p) == onDisk[p] <= cached[p]

Same(p) == onDisk[p] = cached[p]

\* handle_full_with_auto_delta: a note that nothing changed, a delta if it is short, or
\* the whole file; when the file cannot be read, a note that the entry stands.
ReadFullAgain(p) ==
  \/ /\ onDisk[p] = 0
     /\ Keeps(cached, p) /\ Answer("unread", p, cached[p]) /\ GivesNothing
  \/ /\ onDisk[p] # 0
     /\ Stores(cached, p, onDisk[p])
     /\ \/ Same(p) /\ Answer("same", p, onDisk[p]) /\ GivesNothing
        \/ ~Same(p) /\ Delta(p, onDisk[p])
        \/ ~Same(p) /\ Answer("content", p, onDisk[p]) /\ Gives(p, onDisk[p])

\* handle_diff on an entry.
ReadDiffAgain(p) ==
  \/ /\ onDisk[p] = 0
     /\ Keeps(cached, p) /\ Answer("error", p, 0) /\ GivesNothing
  \/ /\ onDisk[p] # 0
     /\ Stores(cached, p, onDisk[p]) /\ Delta(p, onDisk[p])

\* Every other mode renders the entry, without a look at the disk.
ReadCached(p, mode) ==
  /\ Keeps(cached, p)
  /\ \/ Answer("compressed", p, cached[p]) /\ GivesNothing
     \/ mode = "auto" /\ Answer("content", p, cached[p]) /\ Gives(p, cached[p])

\* A call of ctx_prefetch has the write lock until its answer is complete.
NoPrefetch == prefetched = {}

Read(p, mode, fresh) ==
  /\ reads < MaxReads /\ NoPrefetch
  /\ reads' = reads + 1
  /\ LET hit == p \in DOMAIN cached /\ ~fresh IN
     \/ ~hit /\ ReadMissing(p, mode)
     \/ hit /\ mode = "full" /\ ReadFullAgain(p)
     \/ hit /\ mode = "diff" /\ ReadDiffAgain(p)
     \/ hit /\ mode \in {"compressed", "auto"} /\ ReadCached(p, mode)
  /\ Names(p)
  /\ UNCHANGED <<onDisk, prefetch, clears>>

\* ctx_prefetch reads its files one after another through the same code, and throws the
\* answers away: a file that is new to the cache, or read in mode full, is stored; another
\* is left as it is.
Prefetch(p) ==
  /\ reads < MaxReads /\ ~listing
  /\ reads' = reads + 1
  /\ onDisk[p] # 0 /\ p \notin prefetched
  /\ \/ /\ p \in DOMAIN cached
        /\ Keeps(cached, p) /\ UNCHANGED partial
     \/ /\ p \in DOMAIN cached => ~Same(p)
        /\ Stores(cached, p, onDisk[p]) /\ partial' = partial \union {p}
  /\ Names(p)
  /\ prefetched' = prefetched \union {p}
  /\ UNCHANGED <<onDisk, listing, held, named, answer, clears>>

\* Its answer then names each of them: by now a later one may have driven it out.
ListPrefetched(p) ==
  /\ p \in prefetched
  /\ prefetched' = prefetched \ {p} /\ listing' = (prefetched' # {})
  /\ Keeps(cached, p) /\ Names(p)
  /\ named' = named \union {<<RefOf(p), p>>}
  /\ UNCHANGED <<onDisk, held, partial, answer, reads, clears>>

\* check_idle_expiry: names start again at F1.
ClearIdle ==
  /\ clears < MaxClears /\ NoPrefetch
  /\ clears' = clears + 1
  /\ cached' = << >> /\ fileRefs' = << >> /\ nextRef' = 1 /\ named' = {}
  /\ UNCHANGED <<onDisk, prefetch, held, partial, outgrown, answer, reads>>

\* The files change, or stop to be readable, as they please.
Edit(p) ==
  /\ \E v \in 0..MaxVersion : v # onDisk[p] /\ onDisk' = [onDisk EXCEPT ![p] = v]
  /\ UNCHANGED <<cached, fileRefs, nextRef, prefetch, readHistory>>

ReadNext ==
  \/ \E p \in Paths : \E mode \in Modes, fresh \in BOOLEAN : Read(p, mode, fresh)
  \/ \E p \in Paths : Prefetch(p) \/ ListPrefetched(p) \/ Edit(p)
  \/ ClearIdle

ReadSpec == ReadInit /\ [][ReadNext]_readVars

(***************************************************************************)
(* Properties.                                                             *)
(***************************************************************************)

\* An answer of ctx_read tells the agent what is on disk by what it already has: a file
\* is called unchanged only at a version the agent was given whole, unless something
\* that did not give it whole put it into the cache (handle_full_with_auto_delta).
SameIsHeld ==
  answer.kind = "same"
    => answer.version \in held[answer.path] \/ answer.path \in partial

\* The notice under every compressed answer, "use mode=full for complete source", holds:
\* a full read gives the agent a version it does not have.
FullReadsComplete ==
  answer.kind = "same" => answer.version \in held[answer.path]

\* Between two clears a short name never means two files, whatever is evicted and named
\* again (get_file_ref, evict_if_needed).
RefsKeepMeaning == \A m, n \in named : m[1] = n[1] => m[2] = n[2]

\* The cache fits its limit unless a cached file grew or one file alone exceeds it.
CacheFits == outgrown \/ Tokens(cached, DOMAIN cached) <= MaxTokens
=============================================================================
