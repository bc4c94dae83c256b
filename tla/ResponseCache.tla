--------------------------- MODULE ResponseCache ---------------------------
(***************************************************************************)
(* CacheManager: the entries in the order of their last use, the index     *)
(* from tags to keys, the accounted size and the cleanup thread, with the  *)
(* callers that fill it (cached, cached_endpoint) and that invalidate it   *)
(* (a POST, PUT, PATCH or DELETE seen by CacheMiddleware).                 *)
(*                                                                         *)
(* The lock makes each public operation one step; a caller takes several:  *)
(* the lookup, the call of the cached function and the store are three.    *)
(*                                                                         *)
(* A positive ttl cannot be stored as the code is: CacheEntry adds the     *)
(* number to a datetime, which raises TypeError after set() has taken the  *)
(* old entry out of the tag index.  An entry that is stored has a ttl of 0 *)
(* or less and never expires, so nothing here does.                        *)
(***************************************************************************)
EXTENDS Integers, Sequences, FiniteSets, Sums

CONSTANTS
    Keys,           \* cache keys
    Tags,
    PathTag,        \* key -> the tag its writers invalidate ("path:...")
    TagSets,        \* key -> the tag lists it is stored with, none by default
    Prefixes,       \* the sets of keys that clear_by_prefix can name
    Sizes,          \* the sizes of values
    MaxSize,        \* config.max_size
    MaxMemory,      \* config.max_memory
    Fillers,        \* threads and coroutines that call cached functions
    Writers,        \* coroutines that serve write requests
    Cleaners,       \* cleanup threads: bounds how many are started
    MaxVersion,     \* bound: how often the source of a key changes
    MaxTotal,       \* bound on the accounted size
    NoEntry

ASSUME TagsAssumption ==
    \A k \in Keys : PathTag[k] \in Tags /\ \A tags \in TagSets[k] : tags \subseteq Tags
ASSUME SizesAssumption == Sizes \subseteq Nat
ASSUME LimitsAssumption ==
    MaxSize \in Nat /\ MaxMemory \in Nat /\ MaxVersion \in Nat /\ MaxTotal \in Nat

Callers == Fillers \union Writers

Versions == 0 .. MaxVersion
Entries == [size : Sizes, tags : SUBSET Tags, version : Versions]
ASSUME NoEntryAssumption == NoEntry \notin Entries

VARIABLES
    entry,      \* _cache: key -> its entry or NoEntry
    order,      \* the order of the OrderedDict: the next to evict is first
    index,      \* _tag_index: tag -> keys
    total,      \* _stats.total_size
    running,    \* _running
    cleaner,    \* cleanup thread -> "none", "asleep", "size" or "memory"
    caller,     \* caller -> what it does next
    source,     \* key -> the version of what its cached function returns
    torn,       \* history: keys whose entry lost its tags to a set that raised
    outrun      \* history: keys stored by a call that a write has outrun

cache == <<entry, order, index, total>>
vars == <<cache, running, cleaner, caller, source, torn, outrun>>

\* A caller between two steps: it has missed k and is to call the function, it
\* has the result and is to store it, it has changed the source of k and is to
\* invalidate its tag.
Idle == [step |-> "idle"]
CallerStates ==
    {Idle} \union [step : {"missed", "invalidate"}, key : Keys]
           \union [step : {"store"}, key : Keys, version : Versions, late : BOOLEAN]

Init ==
    /\ entry = [k \in Keys |-> NoEntry]
    /\ order = <<>>
    /\ index = [t \in Tags |-> {}]
    /\ total = 0
    /\ running = FALSE
    /\ cleaner = [c \in Cleaners |-> "none"]
    /\ caller = [p \in Callers |-> Idle]
    /\ source = [k \in Keys |-> 0]
    /\ torn = {}
    /\ outrun = {}

-----------------------------------------------------------------------------
(* The operations under the lock.                                          *)

Stored == {k \in Keys : entry[k] # NoEntry}
SizeOf(ks) == SumOver([k \in ks |-> entry[k].size], ks)

\* The order without some keys: what is left keeps its order, so that the n-th
\* is at the place in the old order up to which n are left.
Without(ks) ==
    LET left == {i \in DOMAIN order : order[i] \notin ks}
        Place(n) == CHOOSE i \in left : Cardinality({j \in left : j <= i}) = n
    IN [n \in 1 .. Cardinality(left) |-> order[Place(n)]]

\* Mutant: an entry leaves the cache and stays in the index.
DropUnindexed(ks) ==
    /\ entry' = [k \in Keys |-> IF k \in ks THEN NoEntry ELSE entry[k]]
    /\ order' = Without(ks)
    /\ total' = total - SizeOf(ks)
    /\ torn' = torn \ ks
    /\ outrun' = outrun \ ks
    /\ UNCHANGED index

\* Mutant: the size of a removed entry is taken off twice.
DropTwice(ks) ==
    /\ entry' = [k \in Keys |-> IF k \in ks THEN NoEntry ELSE entry[k]]
    /\ order' = Without(ks)
    /\ index' = [t \in Tags |-> index[t] \ {k \in ks : t \in entry[k].tags}]
    /\ total' = total - 2 * SizeOf(ks)
    /\ torn' = torn \ ks
    /\ outrun' = outrun \ ks

\* Entries are popped, each taken out of the index under its tags and its size
\* off the total.
Drop(ks) ==
    /\ entry' = [k \in Keys |-> IF k \in ks THEN NoEntry ELSE entry[k]]
    /\ order' = Without(ks)
    /\ index' = [t \in Tags |-> index[t] \ {k \in ks : t \in entry[k].tags}]
    /\ total' = total - SizeOf(ks)
    /\ torn' = torn \ ks
    /\ outrun' = outrun \ ks

\* The index after an entry of k was taken out of it.
Unindexed(k) ==
    [t \in Tags |-> IF entry[k] # NoEntry /\ t \in entry[k].tags THEN index[t] \ {k}
                                                                ELSE index[t]]

\* set: a replaced entry keeps its place in the order and its size in the total.
Store(k, e) ==
    /\ total + e.size <= MaxTotal
    /\ entry' = [entry EXCEPT ![k] = e]
    /\ order' = IF k \in Stored THEN order ELSE Append(order, k)
    /\ index' = [t \in Tags |-> IF t \in e.tags THEN Unindexed(k)[t] \union {k}
                                                 ELSE Unindexed(k)[t]]
    /\ total' = total + e.size
    /\ torn' = torn \ {k}

\* set with a ttl above 0: the new entry cannot be built.
StoreRaises(k) ==
    /\ index' = Unindexed(k)
    /\ torn' = IF k \in Stored THEN torn \union {k} ELSE torn
    /\ UNCHANGED <<entry, order, total, outrun>>

\* get of a key that is there moves it to the end.
Hit(k) ==
    /\ k \in Stored
    /\ order' = Append(Without({k}), k)
    /\ UNCHANGED <<entry, index, total, running, cleaner, caller, source, torn, outrun>>

\* invalidate_by_tag; delete; clear_by_prefix; clear.
Tagged(t) == index[t] \intersect Stored

Others == <<running, cleaner, caller, source>>

Delete(k) == k \in Stored /\ Drop({k}) /\ UNCHANGED Others

InvalidateByTag(t) == Tagged(t) # {} /\ Drop(Tagged(t)) /\ UNCHANGED Others

ClearByPrefix(ks) ==
    /\ ks \intersect Stored # {}
    /\ Drop(ks \intersect Stored)
    /\ UNCHANGED Others

Clear ==
    /\ entry' = [k \in Keys |-> NoEntry]
    /\ order' = <<>>
    /\ index' = [t \in Tags |-> {}]
    /\ total' = 0
    /\ torn' = {}
    /\ outrun' = {}
    /\ UNCHANGED Others

-----------------------------------------------------------------------------
(* The callers.                                                            *)

Goto(p, state) == caller' = [caller EXCEPT ![p] = state]

\* A lookup of a cached function, or of get_or_set, misses ...
Miss(p, k) ==
    /\ caller[p] = Idle
    /\ k \notin Stored
    /\ Goto(p, [step |-> "missed", key |-> k])
    /\ UNCHANGED <<cache, running, cleaner, source, torn, outrun>>

\* ... the function is called ...
Call(p) ==
    /\ caller[p].step = "missed"
    /\ Goto(p, [step |-> "store", key |-> caller[p].key,
                version |-> source[caller[p].key], late |-> FALSE])
    /\ UNCHANGED <<cache, running, cleaner, source, torn, outrun>>

\* ... and its result is stored; set() may raise, and the call with it.
Fill(p) ==
    /\ caller[p].step = "store"
    /\ Goto(p, Idle)
    /\ LET k == caller[p].key IN
         \/ \E size \in Sizes, tags \in TagSets[k] :
              /\ Store(k, [size |-> size, tags |-> tags, version |-> caller[p].version])
              /\ outrun' = IF caller[p].late THEN outrun \union {k} ELSE outrun \ {k}
         \/ StoreRaises(k)
    /\ UNCHANGED <<running, cleaner, source>>

\* set or warm_cache with a value that is current.
Set(k) ==
    /\ \/ \E size \in Sizes, tags \in TagSets[k] :
            /\ Store(k, [size |-> size, tags |-> tags, version |-> source[k]])
            /\ outrun' = outrun \ {k}
       \/ StoreRaises(k)
    /\ UNCHANGED Others

\* A write request changes the source; who has read it and not yet stored it is
\* late.
Write(p, k) ==
    /\ caller[p] = Idle
    /\ source[k] < MaxVersion
    /\ source' = [source EXCEPT ![k] = @ + 1]
    /\ caller' = [q \in Callers |->
         IF q = p THEN [step |-> "invalidate", key |-> k]
         ELSE IF caller[q].step = "store" /\ caller[q].key = k
           THEN [caller[q] EXCEPT !.late = TRUE]
         ELSE caller[q]]
    /\ UNCHANGED <<cache, running, cleaner, torn, outrun>>

\* Mutant: only the entries stored under exactly one tag are invalidated.
InvalidateSingly(p) ==
    /\ caller[p].step = "invalidate"
    /\ Goto(p, Idle)
    /\ Drop({k \in Tagged(PathTag[caller[p].key]) : Cardinality(entry[k].tags) = 1})
    /\ UNCHANGED <<running, cleaner, source>>

\* _handle_cache_invalidation, once the response is there.
Invalidate(p) ==
    /\ caller[p].step = "invalidate"
    /\ Goto(p, Idle)
    /\ Drop(Tagged(PathTag[caller[p].key]))
    /\ UNCHANGED <<running, cleaner, source>>

-----------------------------------------------------------------------------
(* The cleanup thread (strategy HYBRID).                                   *)

Start(c) ==
    /\ ~running
    /\ cleaner[c] = "none"
    /\ running' = TRUE
    /\ cleaner' = [cleaner EXCEPT ![c] = "asleep"]
    /\ UNCHANGED <<cache, caller, source, torn, outrun>>

\* stop() joins the thread for 5 s, which sleeps for 60, and forgets it.
Stop ==
    /\ running
    /\ running' = FALSE
    /\ UNCHANGED <<cache, cleaner, caller, source, torn, outrun>>

GotoCleaner(c, step) == cleaner' = [cleaner EXCEPT ![c] = step]

\* The thread wakes; nothing is expired.
Wake(c) ==
    /\ cleaner[c] = "asleep"
    /\ GotoCleaner(c, "size")
    /\ UNCHANGED <<cache, running, caller, source, torn, outrun>>

First(n) == {order[i] : i \in 1 .. n}

\* Mutant: one entry too many is left.
CleanupBySizeLoose(c) ==
    /\ cleaner[c] = "size"
    /\ GotoCleaner(c, "memory")
    /\ Drop(First(IF Len(order) > MaxSize + 1 THEN Len(order) - MaxSize ELSE 0))
    /\ UNCHANGED <<running, caller, source>>

\* _cleanup_by_size: the least recently used entries beyond max_size go.
CleanupBySize(c) ==
    /\ cleaner[c] = "size"
    /\ GotoCleaner(c, "memory")
    /\ Drop(First(IF Len(order) > MaxSize THEN Len(order) - MaxSize ELSE 0))
    /\ UNCHANGED <<running, caller, source>>

\* Mutant: the thread sleeps on after stop().
GoOnAlways(c) == GotoCleaner(c, "asleep")

\* The loop looks at _running: a thread that was stopped and has slept over
\* the next start() goes on.
GoOn(c) == GotoCleaner(c, IF running THEN "asleep" ELSE "none")

\* _cleanup_by_memory: as few of the least recently used as bring the total
\* under max_memory, or all of them.
CleanupByMemory(c) ==
    /\ cleaner[c] = "memory"
    /\ GoOn(c)
    /\ \E n \in 0 .. Len(order) :
         /\ n = Len(order) \/ total - SizeOf(First(n)) <= MaxMemory
         /\ \A m \in 0 .. n - 1 : total - SizeOf(First(m)) > MaxMemory
         /\ Drop(First(n))
    /\ UNCHANGED <<running, caller, source>>

Cleanup(c) == Wake(c) \/ CleanupBySize(c) \/ CleanupByMemory(c)

-----------------------------------------------------------------------------
Next ==
    \/ \E k \in Keys : Hit(k) \/ Delete(k) \/ Set(k)
    \/ \E t \in Tags : InvalidateByTag(t)
    \/ \E ks \in Prefixes : ClearByPrefix(ks)
    \/ Clear
    \/ \E p \in Fillers : (\E k \in Keys : Miss(p, k)) \/ Call(p) \/ Fill(p)
    \/ \E p \in Writers : (\E k \in Keys : Write(p, k)) \/ Invalidate(p)
    \/ \E c \in Cleaners : Start(c) \/ Cleanup(c)
    \/ Stop

Spec == Init /\ [][Next]_vars

\* A cleanup thread is scheduled; callers and start() and stop() are not owed.
FairSpec == Spec /\ \A c \in Cleaners : WF_vars(Cleanup(c))

-----------------------------------------------------------------------------
(* Properties.                                                             *)

TypeOK ==
    /\ entry \in [Keys -> Entries \union {NoEntry}]
    /\ order \in Seq(Keys)
    /\ index \in [Tags -> SUBSET Keys]
    /\ total \in Nat
    /\ running \in BOOLEAN
    /\ cleaner \in [Cleaners -> {"none", "asleep", "size", "memory"}]
    /\ caller \in [Callers -> CallerStates]
    /\ source \in [Keys -> Versions]
    /\ torn \subseteq Stored
    /\ outrun \subseteq Stored

\* The index names no key that is gone or that does not carry the tag, and of
\* the keys that carry a tag it lacks only those whose entry outlived a set()
\* that raised: no other sequence of stores, evictions and invalidations of
\* different threads tears the two structures apart.
IndexTellsEntries ==
    \A t \in Tags : \A k \in Keys :
        /\ k \in index[t] => k \in Stored /\ t \in entry[k].tags
        /\ k \in Stored /\ t \in entry[k].tags => k \in index[t] \union torn

\* The order of use holds each stored key once, so that eviction reaches all of
\* them, and their sizes are never more than the total that is compared with
\* max_memory: it drifts upwards only.
AccountedInFull ==
    /\ First(Len(order)) = Stored /\ Len(order) = Cardinality(Stored)
    /\ SizeOf(Stored) <= total

\* Whatever was stored while the thread slept, a cleanup by size leaves at most
\* max_size entries and a cleanup by memory no more than max_memory of values.
LimitsKept ==
    \A c \in Cleaners :
        /\ cleaner[c] = "size" /\ cleaner'[c] = "memory"
             => Cardinality(Stored') <= MaxSize
        /\ cleaner[c] = "memory" /\ cleaner'[c] # "memory"
             => SizeOf(Stored)' <= MaxMemory
CleanupKeepsLimits == [][LimitsKept]_vars

\* A value that is older than its source and that no write request is about to
\* invalidate was stored by a call that the write had outrun, had lost its tags,
\* or never had its path tag: only CacheMiddleware gives it one, while cached,
\* cached_endpoint, get_or_set and warm_cache give what tags they are told, by
\* default none.  Every other stale value is found by its path tag.
StaleIsExplained ==
    \A k \in Stored :
        /\ entry[k].version < source[k]
        /\ \A p \in Callers : caller[p].step = "invalidate" => caller[p].key # k
        => k \in outrun \union torn \/ PathTag[k] \notin entry[k].tags

\* A cache that has been stopped for good keeps no cleanup thread, however many
\* have been left behind by a stop() and a start() within their sleep.
CleanersEnd ==
    <>[](~running) => <>[](\A c \in Cleaners : cleaner[c] = "none")

-----------------------------------------------------------------------------
(* The inductive invariant behind IndexTellsEntries and StaleIsExplained.  *)

IndexInv ==
    /\ entry \in [Keys -> Entries \union {NoEntry}]
    /\ index \in [Tags -> SUBSET Keys]
    /\ caller \in [Callers -> CallerStates]
    /\ source \in [Keys -> Versions]
    /\ \A k \in Stored : entry[k].tags \in TagSets[k]
    /\ IndexTellsEntries

\* Who stores and is not late has what the source has.
CallsInv ==
    \A p \in Fillers : caller[p].step = "store" =>
        caller[p].late \/ caller[p].version = source[caller[p].key]

IInv == IndexInv /\ CallsInv /\ StaleIsExplained

\* The one behind AccountedInFull, CleanupKeepsLimits and the types: the order
\* holds each stored key once, and who is dropped was accounted for.
OrderInv ==
    /\ order \in Seq(Keys)
    /\ \A i, j \in DOMAIN order : order[i] = order[j] => i = j
    /\ First(Len(order)) = Stored
    /\ total \in Nat /\ SizeOf(Stored) <= total
    /\ torn \subseteq Stored /\ outrun \subseteq Stored
    /\ running \in BOOLEAN
    /\ cleaner \in [Cleaners -> {"none", "asleep", "size", "memory"}]
=============================================================================
