------------------------ MODULE ResponseCacheProofs ------------------------
(***************************************************************************)
(* The tag index, the stale values, the order of use and the sizes of      *)
(* ResponseCache, for any keys, tags, callers and limits.  IInv: index and *)
(* entries agree up to the torn keys, and a call that no write has outrun  *)
(* stores what the source has, so that what a write leaves behind is found *)
(* by its path tag.  OrderInv: the order is a list of the stored keys      *)
(* without repetitions, and what is dropped was accounted for.             *)
(***************************************************************************)
EXTENDS ResponseCache, FiniteSetTheorems, TLAPS

\* The invariant holds initially.
LEMMA InitInvariant == Init => IInv
  BY LimitsAssumption
  DEF Init, IInv, IndexInv, CallsInv, StaleIsExplained, IndexTellsEntries, Stored, Idle,
      CallerStates, Callers, Versions

\* Removing entries, and nothing else, keeps the invariant.
LEMMA DropKeeps ==
    ASSUME IInv, NEW ks, Drop(ks), UNCHANGED <<caller, source>>
    PROVE  IInv'
  <1>1. IndexInv'
    BY NoEntryAssumption
    DEF IInv, IndexInv, IndexTellsEntries, Drop, Stored
  <1>2. CallsInv'
    BY DEF IInv, CallsInv
  <1>3. StaleIsExplained'
    BY DEF IInv, StaleIsExplained, Drop, Stored
  <1> QED BY <1>1, <1>2, <1>3 DEF IInv

\* A step that leaves entries and index alone, stores nothing and ends no
\* invalidation keeps what they agree on.
LEMMA IndexUntouched ==
    ASSUME IInv, UNCHANGED <<entry, index, torn>>,
           caller' \in [Callers -> CallerStates], source' \in [Keys -> Versions]
    PROVE  IndexInv'
  BY DEF IInv, IndexInv, IndexTellsEntries, Stored

\* The index after a store: e is found under its tags and k under no other.
LEMMA StoreIndexes ==
    ASSUME IInv, NEW k \in Keys, NEW e \in Entries, e.tags \in TagSets[k], Store(k, e),
           caller' \in [Callers -> CallerStates], UNCHANGED source
    PROVE  /\ IndexInv'
           /\ Stored' = Stored \union {k}
           /\ \A x \in Keys : entry'[x] = IF x = k THEN e ELSE entry[x]
  <1>1. \A x \in Keys : entry'[x] = IF x = k THEN e ELSE entry[x]
    BY DEF Store, IInv, IndexInv
  <1>2. Stored' = Stored \union {k}
    BY <1>1, NoEntryAssumption DEF Stored
  <1>3. entry' \in [Keys -> Entries \union {NoEntry}]
    BY DEF Store, IInv, IndexInv
  <1>4. \A t \in Tags : index'[t] = IF t \in e.tags THEN Unindexed(k)[t] \union {k}
                                                   ELSE Unindexed(k)[t]
    BY DEF Store
  <1>5. \A t \in Tags : Unindexed(k)[t] = IF entry[k] # NoEntry /\ t \in entry[k].tags
                                          THEN index[t] \ {k} ELSE index[t]
    BY DEF Unindexed
  <1>6. index' \in [Tags -> SUBSET Keys]
    BY <1>4, <1>5 DEF Store, IInv, IndexInv
  <1>7. IndexTellsEntries'
    <2>1. torn' = torn \ {k}
      BY DEF Store
    <2> SUFFICES ASSUME NEW t \in Tags, NEW x \in Keys
                 PROVE  /\ x \in index'[t] => x \in Stored' /\ t \in entry'[x].tags
                        /\ x \in Stored' /\ t \in entry'[x].tags => x \in index'[t] \union torn'
      BY DEF IndexTellsEntries
    <2>2. /\ x \in index[t] => x \in Stored /\ t \in entry[x].tags
          /\ x \in Stored /\ t \in entry[x].tags => x \in index[t] \union torn
      BY DEF IInv, IndexInv, IndexTellsEntries
    <2>3. CASE x = k
      BY <1>1, <1>2, <1>4, <1>5, <2>2, <2>3 DEF Stored
    <2>4. CASE x # k
      BY <1>1, <1>2, <1>4, <1>5, <2>1, <2>2, <2>4
    <2> QED BY <2>3, <2>4
  <1>8. \A x \in Stored' : entry'[x].tags \in TagSets[x]
    BY <1>1, <1>2 DEF IInv, IndexInv, Stored
  <1> QED BY <1>1, <1>2, <1>3, <1>6, <1>7, <1>8 DEF IInv, IndexInv

\* The index after a set that raised: it lacks k, which is torn if it is there.
LEMMA RaiseIndexes ==
    ASSUME IInv, NEW k \in Keys, StoreRaises(k),
           caller' \in [Callers -> CallerStates], UNCHANGED source
    PROVE  IndexInv'
  <1>1. \A t \in Tags : index'[t] = IF entry[k] # NoEntry /\ t \in entry[k].tags
                                    THEN index[t] \ {k} ELSE index[t]
    BY DEF StoreRaises, Unindexed
  <1>2. index' \in [Tags -> SUBSET Keys]
    BY <1>1 DEF StoreRaises, Unindexed, IInv, IndexInv
  <1>3. Stored' = Stored /\ entry' = entry
    BY DEF StoreRaises, Stored
  <1>4. IndexTellsEntries'
    BY <1>1, <1>3 DEF IndexTellsEntries, IInv, IndexInv, StoreRaises, Stored
  <1> QED BY <1>2, <1>3, <1>4 DEF IInv, IndexInv

\* A set of a current value keeps the invariant.
LEMMA SetKeeps ==
    ASSUME IInv, NEW k \in Keys, Set(k)
    PROVE  IInv'
  <1>1. UNCHANGED <<caller, source>> /\ caller' \in [Callers -> CallerStates]
    BY DEF Set, Others, IInv, IndexInv
  <1>2. CallsInv'
    BY <1>1 DEF IInv, CallsInv
  <1>3. ASSUME NEW size \in Sizes, NEW tags \in TagSets[k],
               Store(k, [size |-> size, tags |-> tags, version |-> source[k]]),
               outrun' = outrun \ {k}
        PROVE  IInv'
    <2> DEFINE e == [size |-> size, tags |-> tags, version |-> source[k]]
    <2>1. e \in Entries /\ e.tags \in TagSets[k] /\ e.version = source[k]
      BY TagsAssumption DEF Entries, IInv, IndexInv
    <2>2. /\ IndexInv'
          /\ Stored' = Stored \union {k}
          /\ \A x \in Keys : entry'[x] = IF x = k THEN e ELSE entry[x]
      BY <1>1, <1>3, <2>1, StoreIndexes
    <2>3. torn' = torn \ {k}
      BY <1>3 DEF Store
    <2>4. source[k] \in Nat
      BY LimitsAssumption DEF IInv, IndexInv, Versions
    <2> HIDE DEF e
    <2>5. StaleIsExplained'
      BY <1>1, <1>3, <2>1, <2>2, <2>3, <2>4 DEF StaleIsExplained, IInv, Stored
    <2> QED BY <1>2, <2>2, <2>5 DEF IInv
  <1>4. CASE StoreRaises(k)
    <2>1. IndexInv'
      BY <1>1, <1>4, RaiseIndexes
    <2>2. StaleIsExplained'
      BY <1>1, <1>4 DEF StaleIsExplained, IInv, StoreRaises, Stored
    <2> QED BY <1>2, <2>1, <2>2 DEF IInv
  <1> QED BY <1>3, <1>4 DEF Set

\* A call that stores its result, or raises, keeps the invariant.
LEMMA FillKeeps ==
    ASSUME IInv, NEW p \in Fillers, Fill(p)
    PROVE  IInv'
  <1> DEFINE k == caller[p].key
  <1>1. /\ caller[p].step = "store" /\ p \in Callers
        /\ caller[p] \in [step : {"store"}, key : Keys, version : Versions, late : BOOLEAN]
    BY DEF Fill, IInv, IndexInv, CallerStates, Idle, Callers
  <1>2. k \in Keys /\ caller[p].version \in Versions
    BY <1>1
  <1>3. /\ caller' = [caller EXCEPT ![p] = Idle] /\ UNCHANGED source
        /\ caller' \in [Callers -> CallerStates]
    BY <1>1 DEF Fill, Goto, IInv, IndexInv, CallerStates
  <1>4. CallsInv'
    BY <1>1, <1>3 DEF IInv, CallsInv, IndexInv, Idle, Callers
  <1>5. \A q \in Callers : caller[q].step = "invalidate" =>
             caller'[q].step = "invalidate" /\ caller'[q].key = caller[q].key
    BY <1>1, <1>3 DEF IInv, IndexInv
  <1>6. ASSUME NEW size \in Sizes, NEW tags \in TagSets[k],
               Store(k, [size |-> size, tags |-> tags, version |-> caller[p].version]),
               outrun' = IF caller[p].late THEN outrun \union {k} ELSE outrun \ {k}
        PROVE  IInv'
    <2> DEFINE e == [size |-> size, tags |-> tags, version |-> caller[p].version]
    <2>1. e \in Entries /\ e.tags \in TagSets[k] /\ e.version = caller[p].version
      BY <1>2, TagsAssumption DEF Entries
    <2>2. /\ IndexInv'
          /\ Stored' = Stored \union {k}
          /\ \A x \in Keys : entry'[x] = IF x = k THEN e ELSE entry[x]
      BY <1>2, <1>3, <1>6, <2>1, StoreIndexes
    <2>3. torn' = torn \ {k}
      BY <1>6 DEF Store
    <2>4. caller[p].late \/ e.version = source[k]
      BY <1>1, <2>1 DEF IInv, CallsInv
    <2>5. source[k] \in Nat
      BY <1>2, LimitsAssumption DEF IInv, IndexInv, Versions
    <2> HIDE DEF e, k
    <2>6. StaleIsExplained'
      BY <1>2, <1>3, <1>5, <1>6, <2>2, <2>3, <2>4, <2>5 DEF StaleIsExplained, IInv, Stored
    <2> QED BY <1>4, <2>2, <2>6 DEF IInv
  <1>7. CASE StoreRaises(k)
    <2>1. IndexInv'
      BY <1>2, <1>3, <1>7, RaiseIndexes
    <2>2. StaleIsExplained'
      BY <1>3, <1>5, <1>7 DEF StaleIsExplained, IInv, StoreRaises, Stored
    <2> QED BY <1>4, <2>1, <2>2 DEF IInv
  <1> QED BY <1>6, <1>7 DEF Fill

\* A lookup that misses, and the call after it, keep the invariant.
LEMMA LookupKeeps ==
    ASSUME IInv, NEW p \in Fillers, (\E k \in Keys : Miss(p, k)) \/ Call(p)
    PROVE  IInv'
  <1>1. UNCHANGED <<entry, index, source, torn, outrun>>
    BY DEF Miss, Call, cache
  <1>2. /\ caller' \in [Callers -> CallerStates]
        /\ \A q \in Callers : caller[q].step = "invalidate" => caller'[q] = caller[q]
        /\ CallsInv'
    <2>1. ASSUME NEW k \in Keys, Miss(p, k)
          PROVE  <1>2!1 /\ <1>2!2 /\ CallsInv'
      BY <1>1, <2>1 DEF Miss, Goto, IInv, IndexInv, CallsInv, CallerStates, Idle, Callers
    <2>2. CASE Call(p)
      <3>1. p \in Callers /\ caller[p] \in [step : {"missed", "invalidate"}, key : Keys]
        BY <2>2 DEF Call, IInv, IndexInv, CallerStates, Idle, Callers
      <3>2. caller[p].key \in Keys /\ source[caller[p].key] \in Versions
        BY <3>1 DEF IInv, IndexInv
      <3>3. caller' = [caller EXCEPT ![p] =
                         [step |-> "store", key |-> caller[p].key,
                          version |-> source[caller[p].key], late |-> FALSE]]
        BY <2>2 DEF Call, Goto
      <3>4. caller' \in [Callers -> CallerStates]
        BY <3>1, <3>2, <3>3 DEF IInv, IndexInv, CallerStates
      <3>5. \A q \in Callers : caller[q].step = "invalidate" => caller'[q] = caller[q]
        BY <2>2, <3>3 DEF Call, IInv, IndexInv
      <3>6. CallsInv'
        BY <1>1, <3>1, <3>3 DEF IInv, IndexInv, CallsInv, Callers
      <3> QED BY <3>4, <3>5, <3>6
    <2> QED BY <2>1, <2>2
  <1>3. IndexInv'
    BY <1>1, <1>2, IndexUntouched DEF IInv, IndexInv
  <1>4. StaleIsExplained'
    BY <1>1, <1>2 DEF IInv, StaleIsExplained, Stored
  <1> QED BY <1>2, <1>3, <1>4 DEF IInv

\* A write request that changes a source keeps the invariant: it is about to
\* invalidate, and makes the calls late that have read the old value.
LEMMA WriteKeeps ==
    ASSUME IInv, NEW p \in Writers, NEW k \in Keys, Write(p, k)
    PROVE  IInv'
  <1>1. /\ UNCHANGED <<entry, index, torn, outrun>>
        /\ source' = [source EXCEPT ![k] = @ + 1] /\ source[k] < MaxVersion
        /\ p \in Callers /\ caller[p] = Idle
    BY DEF Write, cache, Callers
  <1>2. source' \in [Keys -> Versions]
    BY <1>1, LimitsAssumption DEF IInv, IndexInv, Versions
  <1>3. caller'[p] = [step |-> "invalidate", key |-> k]
    BY <1>1 DEF Write
  <1>4. ASSUME NEW q \in Callers, q # p
        PROVE  \/ /\ caller[q].step = "store" /\ caller[q].key = k
                  /\ caller'[q] = [caller[q] EXCEPT !.late = TRUE]
               \/ /\ ~(caller[q].step = "store" /\ caller[q].key = k)
                  /\ caller'[q] = caller[q]
    BY <1>4 DEF Write
  <1>5. ASSUME NEW q \in Callers, caller[q].step = "store"
        PROVE  /\ caller[q] \in [step : {"store"}, key : Keys, version : Versions, late : BOOLEAN]
               /\ LET c == [caller[q] EXCEPT !.late = TRUE] IN
                    c \in CallerStates /\ c.late /\ c.step = "store"
    <2>1. caller[q] \in [step : {"store"}, key : Keys, version : Versions, late : BOOLEAN]
      BY <1>5 DEF IInv, IndexInv, CallerStates, Idle
    <2> QED BY <2>1 DEF CallerStates
  <1>6. caller' \in [Callers -> CallerStates]
    <2>1. ASSUME NEW q \in Callers PROVE caller'[q] \in CallerStates
      <3>1. CASE q = p
        BY <1>3, <3>1 DEF CallerStates
      <3>2. CASE q # p
        BY <1>4, <1>5, <3>2 DEF IInv, IndexInv
      <3> QED BY <3>1, <3>2
    <2> QED BY <2>1 DEF Write
  <1>7. CallsInv'
    <2> SUFFICES ASSUME NEW q \in Fillers, caller'[q].step = "store"
                 PROVE  caller'[q].late \/ caller'[q].version = source'[caller'[q].key]
      BY DEF CallsInv
    <2>1. q \in Callers /\ q # p
      <3>1. caller'[p].step # "store"
        BY <1>3
      <3> QED BY <3>1 DEF Callers
    <2>2. CASE caller[q].step = "store" /\ caller[q].key = k
      BY <1>4, <1>5, <2>1, <2>2
    <2>3. CASE ~(caller[q].step = "store" /\ caller[q].key = k)
      <3>1. caller'[q] = caller[q] /\ caller[q].step = "store" /\ caller[q].key # k
        BY <1>4, <2>1, <2>3
      <3>2. caller[q].key \in Keys
        BY <1>5, <2>1, <3>1
      <3> QED BY <1>1, <3>1, <3>2 DEF IInv, IndexInv, CallsInv
    <2> QED BY <2>2, <2>3
  <1>8. StaleIsExplained'
    <2> SUFFICES ASSUME NEW x \in Stored, entry[x].version < source'[x],
                        \A q \in Callers : caller'[q].step = "invalidate" => caller'[q].key # x
                 PROVE  x \in outrun \union torn \/ PathTag[x] \notin entry[x].tags
      BY <1>1 DEF StaleIsExplained, Stored
    <2>1. x # k
      <3>1. caller'[p].step = "invalidate" /\ caller'[p].key = k
        BY <1>3
      <3> QED BY <1>1, <3>1
    <2>2. source'[x] = source[x]
      BY <1>1, <2>1 DEF Stored, IInv, IndexInv
    <2>3. ASSUME NEW q \in Callers, caller[q].step = "invalidate" PROVE caller[q].key # x
      <3>1. q # p
        BY <1>1, <2>3 DEF Idle
      <3>2. caller'[q] = caller[q]
        BY <1>4, <2>3, <3>1
      <3> QED BY <2>3, <3>2
    <2> QED BY <2>2, <2>3 DEF IInv, StaleIsExplained
  <1>9. IndexInv'
    BY <1>1, <1>2, <1>6, IndexUntouched
  <1> QED BY <1>7, <1>8, <1>9 DEF IInv

\* The invalidation at the end of a write request keeps the invariant: a value
\* of the key that has its path tag and is not torn is found under it.
LEMMA InvalidateKeeps ==
    ASSUME IInv, NEW p \in Writers, Invalidate(p)
    PROVE  IInv'
  <1> DEFINE k == caller[p].key
             ks == Tagged(PathTag[k])
  <1>1. p \in Callers /\ caller[p].step = "invalidate" /\ UNCHANGED source /\ Drop(ks)
    BY DEF Invalidate, Callers
  <1>2. k \in Keys
    BY <1>1 DEF IInv, IndexInv, CallerStates, Idle
  <1>3. caller' = [caller EXCEPT ![p] = Idle] /\ caller' \in [Callers -> CallerStates]
    BY <1>1 DEF Invalidate, Goto, IInv, IndexInv, CallerStates
  <1>4. CallsInv'
    BY <1>1, <1>3 DEF IInv, IndexInv, CallsInv, Idle, Callers
  <1>5. k \in Stored => k \in ks \/ k \in torn \/ PathTag[k] \notin entry[k].tags
    <2>1. PathTag[k] \in Tags
      BY <1>2, TagsAssumption
    <2> QED BY <1>2, <2>1 DEF IInv, IndexInv, IndexTellsEntries, Tagged
  <1> HIDE DEF ks
  <1>6. IndexInv'
    BY <1>1, <1>3, NoEntryAssumption
    DEF IInv, IndexInv, IndexTellsEntries, Drop, Stored
  <1>7. StaleIsExplained'
    <2> SUFFICES ASSUME NEW x \in Stored', entry'[x].version < source'[x],
                        \A q \in Callers : caller'[q].step = "invalidate" => caller'[q].key # x
                 PROVE  x \in outrun' \union torn' \/ PathTag[x] \notin entry'[x].tags
      BY DEF StaleIsExplained
    <2>1. /\ x \in Stored /\ x \notin ks /\ entry'[x] = entry[x] /\ source'[x] = source[x]
          /\ outrun' = outrun \ ks /\ torn' = torn \ ks
      BY <1>1 DEF Drop, Stored
    <2>2. CASE x = k
      BY <1>5, <2>1, <2>2
    <2>3. CASE x # k
      <3>1. \A q \in Callers : caller[q].step = "invalidate" => caller[q].key # x
        BY <1>1, <1>3, <2>3 DEF IInv, IndexInv
      <3> QED BY <2>1, <3>1 DEF IInv, StaleIsExplained
    <2> QED BY <2>2, <2>3
  <1> QED BY <1>4, <1>6, <1>7 DEF IInv

\* A step of a cleanup thread keeps the invariant.
LEMMA CleanupKeeps ==
    ASSUME IInv, NEW c \in Cleaners, Cleanup(c)
    PROVE  IInv'
  <1>1. CASE Wake(c)
    BY <1>1 DEF Wake, cache, IInv, IndexInv, CallsInv, StaleIsExplained, IndexTellsEntries, Stored
  <1>2. CASE CleanupBySize(c)
    BY <1>2, DropKeeps DEF CleanupBySize
  <1>3. CASE CleanupByMemory(c)
    BY <1>3, DropKeeps DEF CleanupByMemory
  <1> QED BY <1>1, <1>2, <1>3 DEF Cleanup

\* Every step keeps the invariant.
LEMMA NextKeeps == IInv /\ [Next]_vars => IInv'
  <1> SUFFICES ASSUME IInv, [Next]_vars PROVE IInv'
    OBVIOUS
  <1>1. ASSUME NEW k \in Keys, Hit(k) \/ Delete(k) \/ Set(k) PROVE IInv'
    <2>1. CASE Hit(k)
      BY <2>1 DEF Hit, IInv, IndexInv, CallsInv, StaleIsExplained, IndexTellsEntries, Stored
    <2>2. CASE Delete(k)
      BY <2>2, DropKeeps DEF Delete, Others
    <2> QED BY <1>1, <2>1, <2>2, SetKeeps
  <1>2. ASSUME NEW t \in Tags, InvalidateByTag(t) PROVE IInv'
    BY <1>2, DropKeeps DEF InvalidateByTag, Others
  <1>3. ASSUME NEW ks \in Prefixes, ClearByPrefix(ks) PROVE IInv'
    BY <1>3, DropKeeps DEF ClearByPrefix, Others
  <1>4. CASE Clear
    BY <1>4 DEF Clear, Others, IInv, IndexInv, CallsInv, StaleIsExplained, IndexTellsEntries, Stored
  <1>5. ASSUME NEW c \in Cleaners, Start(c) \/ Cleanup(c) PROVE IInv'
    <2>1. CASE Start(c)
      BY <2>1 DEF Start, cache, IInv, IndexInv, CallsInv, StaleIsExplained, IndexTellsEntries, Stored
    <2> QED BY <1>5, <2>1, CleanupKeeps
  <1>6. CASE Stop \/ UNCHANGED vars
    BY <1>6 DEF Stop, vars, cache, IInv, IndexInv, CallsInv, StaleIsExplained,
                IndexTellsEntries, Stored
  <1>7. ASSUME NEW p \in Fillers, (\E k \in Keys : Miss(p, k)) \/ Call(p) \/ Fill(p) PROVE IInv'
    BY <1>7, LookupKeeps, FillKeeps
  <1>8. ASSUME NEW p \in Writers, (\E k \in Keys : Write(p, k)) \/ Invalidate(p) PROVE IInv'
    BY <1>8, WriteKeeps, InvalidateKeeps
  <1> QED BY <1>1, <1>2, <1>3, <1>4, <1>5, <1>6, <1>7, <1>8 DEF Next

\* The invariant holds in every state of the cache.
THEOREM Invariance == Spec => []IInv
  BY InitInvariant, NextKeeps, PTL DEF Spec

\* The tag index and the entries agree, except for the entries that outlived a
\* set() that raised.
THEOREM IndexAgrees == Spec => []IndexTellsEntries
  <1>1. IInv => IndexTellsEntries
    BY DEF IInv, IndexInv
  <1> QED BY <1>1, Invariance, PTL

\* A stale value that no write is about to invalidate was stored by a call that
\* the write had outrun, has lost its tags, or was stored without its path tag.
THEOREM StaleExplained == Spec => []StaleIsExplained
  <1>1. IInv => StaleIsExplained
    BY DEF IInv
  <1> QED BY <1>1, Invariance, PTL

-----------------------------------------------------------------------------
(* Sums.                                                                   *)

\* A term as a set.
LEMMA TermFinite ==
    ASSUME NEW x, NEW n \in Nat
    PROVE  IsFiniteSet({x} \X (1 .. n)) /\ Cardinality({x} \X (1 .. n)) = n
  <1>1. IsFiniteSet(1 .. n) /\ Cardinality(1 .. n) = n
    <2>1. 1 \in Int /\ n \in Int
      OBVIOUS
    <2>2. IsFiniteSet(1 .. n) /\ Cardinality(1 .. n) = IF 1 > n THEN 0 ELSE n - 1 + 1
      BY <2>1, FS_Interval
    <2> QED BY <2>2
  <1>2. IsFiniteSet({x}) /\ Cardinality({x}) = 1
    BY FS_Singleton
  <1>3. Cardinality({x} \X (1 .. n)) = 1 * n /\ IsFiniteSet({x} \X (1 .. n))
    BY <1>1, <1>2, FS_Product
  <1> QED BY <1>3

\* What has finitely many terms is finite.
LEMMA UnitsFinite ==
    ASSUME NEW S, IsFiniteSet(S), NEW f, \A i \in S : f[i] \in Nat
    PROVE  IsFiniteSet(Units(f, S)) /\ SumOver(f, S) \in Nat
  <1> DEFINE T == {{i} \X (1 .. f[i]) : i \in S}
             g == [i \in S |-> {i} \X (1 .. f[i])]
  <1>1. g \in Surjection(S, T)
    BY DEF Surjection
  <1>2. IsFiniteSet(T)
    BY <1>1, FS_Surjection
  <1>3. ASSUME NEW i \in S PROVE IsFiniteSet({i} \X (1 .. f[i]))
    BY TermFinite
  <1>4. IsFiniteSet(UNION T)
    BY <1>2, <1>3, FS_UNION
  <1> QED BY <1>4, FS_CardinalityType DEF Units, SumOver

\* Equal terms have equal sums.
LEMMA SumSame ==
    ASSUME NEW S, NEW f, NEW g, \A i \in S : f[i] = g[i]
    PROVE  SumOver(f, S) = SumOver(g, S)
  <1>1. Units(f, S) = Units(g, S)
    BY DEF Units
  <1> QED BY <1>1 DEF SumOver

\* The sum over two sets that share nothing.
LEMMA SumOfTwo ==
    ASSUME NEW S, NEW T, IsFiniteSet(S), IsFiniteSet(T), S \intersect T = {},
           NEW f, \A i \in S \union T : f[i] \in Nat
    PROVE  SumOver(f, S \union T) = SumOver(f, S) + SumOver(f, T)
  <1>1. Units(f, S \union T) = Units(f, S) \union Units(f, T)
    BY DEF Units
  <1>2. Units(f, S) \intersect Units(f, T) = {}
    BY DEF Units
  <1>3. /\ IsFiniteSet(Units(f, S)) /\ SumOver(f, S) \in Nat
        /\ IsFiniteSet(Units(f, T)) /\ SumOver(f, T) \in Nat
    BY UnitsFinite
  <1>4. Cardinality(Units(f, S) \union Units(f, T))
          = Cardinality(Units(f, S)) + Cardinality(Units(f, T))
              - Cardinality(Units(f, S) \intersect Units(f, T))
    BY <1>3, FS_Union
  <1>5. Cardinality(Units(f, S) \intersect Units(f, T)) = 0
    BY <1>2, FS_EmptySet
  <1>6. /\ SumOver(f, S \union T) = Cardinality(Units(f, S) \union Units(f, T))
        /\ SumOver(f, S) = Cardinality(Units(f, S))
        /\ SumOver(f, T) = Cardinality(Units(f, T))
    BY <1>1 DEF SumOver
  <1> QED BY <1>3, <1>4, <1>5, <1>6

\* The sum of one term, and that of none.
LEMMA SumOfOne ==
    ASSUME NEW x, NEW f, f[x] \in Nat
    PROVE  SumOver(f, {x}) = f[x] /\ SumOver(f, {}) = 0
  <1>1. Units(f, {x}) = {x} \X (1 .. f[x])
    BY DEF Units
  <1>2. Units(f, {}) = {}
    BY DEF Units
  <1>3. Cardinality({x} \X (1 .. f[x])) = f[x]
    BY TermFinite
  <1>4. SumOver(f, {x}) = f[x]
    BY <1>1, <1>3 DEF SumOver
  <1>5. SumOver(f, {}) = 0
    BY <1>2, FS_EmptySet DEF SumOver
  <1> QED BY <1>4, <1>5

-----------------------------------------------------------------------------
(* The order of use.                                                       *)

\* A list without repetitions is as long as the set of what it lists.
LEMMA ListedOnce ==
    ASSUME OrderInv, NEW n \in 0 .. Len(order)
    PROVE  IsFiniteSet(First(n)) /\ Cardinality(First(n)) = n /\ First(n) \subseteq Stored
  <1> DEFINE f == [i \in 1 .. n |-> order[i]]
  <1>1. Len(order) \in Nat /\ DOMAIN order = 1 .. Len(order) /\ 1 .. n \subseteq 1 .. Len(order)
    BY DEF OrderInv
  <1>2. f \in Surjection(1 .. n, First(n))
    BY DEF Surjection, First
  <1>3. f \in Injection(1 .. n, First(n))
    BY <1>1, <1>2 DEF OrderInv, Injection, IsInjective, Surjection
  <1>4. IsFiniteSet(1 .. n) /\ Cardinality(1 .. n) = n
    <2>1. 1 \in Int /\ n \in Int /\ n \in Nat
      BY <1>1
    <2>2. IsFiniteSet(1 .. n) /\ Cardinality(1 .. n) = IF 1 > n THEN 0 ELSE n - 1 + 1
      BY <2>1, FS_Interval
    <2> QED BY <2>1, <2>2
  <1>5. First(n) \subseteq Stored
    BY <1>1 DEF OrderInv, First
  <1> HIDE DEF f
  <1> QED BY <1>2, <1>3, <1>4, <1>5, FS_Surjection

\* What is left when some keys are taken out of the order.
LEMMA WithoutIs ==
    ASSUME OrderInv, NEW ks
    PROVE  LET w == Without(ks) IN
           /\ w \in Seq(Keys)
           /\ \A i, j \in DOMAIN w : w[i] = w[j] => i = j
           /\ {w[i] : i \in 1 .. Len(w)} = Stored \ ks
  <1> DEFINE left == {i \in DOMAIN order : order[i] \notin ks}
             upTo(i) == {j \in left : j <= i}
             n == Cardinality(left)
             rank == [i \in left |-> Cardinality(upTo(i))]
             place(m) == CHOOSE i \in left : Cardinality(upTo(i)) = m
             w == Without(ks)
  <1>1. DOMAIN order = 1 .. Len(order) /\ Len(order) \in Nat /\ left \subseteq Nat
    BY DEF OrderInv
  <1>2. IsFiniteSet(left) /\ n \in Nat
    <2>1. 1 \in Int /\ Len(order) \in Int
      BY <1>1
    <2>2. IsFiniteSet(1 .. Len(order))
      BY <2>1, FS_Interval
    <2> QED BY <1>1, <2>2, FS_Subset, FS_CardinalityType
  <1>3. ASSUME NEW i \in left
        PROVE  IsFiniteSet(upTo(i)) /\ Cardinality(upTo(i)) \in 1 .. n
    <2>1. upTo(i) \subseteq left /\ i \in upTo(i)
      BY <1>1
    <2> HIDE DEF upTo, left
    <2>2. /\ IsFiniteSet(upTo(i)) /\ Cardinality(upTo(i)) <= n
          /\ Cardinality(upTo(i)) \in Nat
      BY <1>2, <2>1, FS_Subset, FS_CardinalityType
    <2>3. Cardinality(upTo(i)) # 0
      BY <2>1, <2>2, FS_EmptySet
    <2> QED BY <1>2, <2>2, <2>3
  <1>4. ASSUME NEW i \in left, NEW j \in left, i < j
        PROVE  Cardinality(upTo(i)) # Cardinality(upTo(j))
    <2>1. upTo(i) \subseteq upTo(j) /\ j \in upTo(j) /\ j \notin upTo(i)
      BY <1>1, <1>4
    <2> HIDE DEF upTo, left
    <2> QED BY <1>3, <2>1, FS_Subset
  <1>5. rank \in Injection(left, 1 .. n)
    <2>1. \A i \in left : rank[i] \in 1 .. n
      BY <1>3
    <2>2. \A i, j \in left : rank[i] = rank[j] => i = j
      <3> TAKE i, j \in left
      <3>1. i \in Nat /\ j \in Nat
        BY <1>1
      <3>2. i < j \/ j < i \/ i = j
        BY <3>1
      <3> QED BY <1>4, <3>2
    <2> HIDE DEF upTo, left, n
    <2> QED BY <2>1, <2>2 DEF Injection, IsInjective
  <1>6. rank \in Surjection(left, 1 .. n)
    <2>1. IsFiniteSet(1 .. n) /\ Cardinality(1 .. n) = n
      <3>1. 1 \in Int /\ n \in Int
        BY <1>2
      <3>2. IsFiniteSet(1 .. n) /\ Cardinality(1 .. n) = IF 1 > n THEN 0 ELSE n - 1 + 1
        BY <3>1, FS_Interval
      <3> QED BY <1>2, <3>2
    <2>2. IsFiniteSet(1 .. n) /\ Cardinality(left) = Cardinality(1 .. n)
      BY <2>1
    <2> HIDE DEF rank, left
    <2> QED BY <1>5, <2>2, FS_Injection
  <1>7. \A m \in 1 .. n : place(m) \in left /\ Cardinality(upTo(place(m))) = m
    <2> TAKE m \in 1 .. n
    <2>1. \E i \in left : Cardinality(upTo(i)) = m
      BY <1>6 DEF Surjection
    <2> HIDE DEF upTo, left
    <2> QED BY <2>1
  <1>8. \A i \in left : place(Cardinality(upTo(i))) = i /\ Cardinality(upTo(i)) \in 1 .. n
    <2> TAKE i \in left
    <2>1. Cardinality(upTo(i)) \in 1 .. n
      BY <1>3
    <2> DEFINE j == place(Cardinality(upTo(i)))
    <2>2. j \in left /\ Cardinality(upTo(j)) = Cardinality(upTo(i))
      BY <1>7, <2>1
    <2> HIDE DEF j
    <2>3. j \in Nat /\ i \in Nat
      BY <1>1, <2>2
    <2>4. j < i \/ i < j \/ i = j
      BY <2>3
    <2>5. j = i
      BY <1>4, <2>2, <2>4
    <2> QED BY <2>1, <2>5 DEF j
  <1>9. w = [m \in 1 .. n |-> order[place(m)]]
    BY DEF Without
  <1> HIDE DEF w, place, upTo, rank
  <1>10. \A m \in 1 .. n : order[place(m)] \in Keys \ ks
    BY <1>1, <1>7 DEF OrderInv
  <1> HIDE DEF n
  <1>11. w \in Seq(Keys) /\ DOMAIN w = 1 .. n /\ Len(w) = n
    BY <1>2, <1>9, <1>10
  <1>12. \A i, j \in DOMAIN w : w[i] = w[j] => i = j
    <2> SUFFICES ASSUME NEW i \in 1 .. n, NEW j \in 1 .. n, w[i] = w[j] PROVE i = j
      BY <1>11
    <2>1. order[place(i)] = order[place(j)]
      BY <1>9
    <2>2. place(i) = place(j)
      BY <1>7, <2>1 DEF OrderInv
    <2> QED BY <1>7, <2>2
  <1>13. {w[i] : i \in 1 .. Len(w)} = Stored \ ks
    <2>1. ASSUME NEW i \in 1 .. n PROVE w[i] \in Stored \ ks
      <3>1. place(i) \in DOMAIN order /\ w[i] = order[place(i)] /\ w[i] \notin ks
        BY <1>7, <1>9, <1>10
      <3> QED BY <1>1, <3>1 DEF OrderInv, First
    <2>2. ASSUME NEW k \in Stored \ ks PROVE \E i \in 1 .. n : w[i] = k
      <3>1. PICK i \in DOMAIN order : order[i] = k
        BY <1>1 DEF OrderInv, First
      <3>2. i \in left
        BY <3>1
      <3> HIDE DEF left
      <3> DEFINE m == Cardinality(upTo(i))
      <3>3. m \in 1 .. n /\ w[m] = k
        BY <1>8, <1>9, <3>1, <3>2
      <3> HIDE DEF m
      <3> QED BY <3>3
    <2> QED BY <1>11, <2>1, <2>2
  <1> QED BY <1>11, <1>12, <1>13 DEF w

-----------------------------------------------------------------------------
(* The order and the total through the steps.                              *)

\* The sizes of stored entries add up, in parts or in one.
LEMMA SizesAdd ==
    ASSUME IInv, OrderInv, NEW ks, ks \subseteq Stored
    PROVE  /\ IsFiniteSet(Stored) /\ SizeOf(Stored) \in Nat
           /\ SizeOf(ks) \in Nat /\ SizeOf(Stored \ ks) \in Nat
           /\ SizeOf(Stored) = SizeOf(ks) + SizeOf(Stored \ ks)
  <1> DEFINE f == [k \in Stored |-> entry[k].size]
             rest == Stored \ ks
  <1>1. \A k \in Stored : f[k] \in Nat
    BY SizesAssumption DEF IInv, IndexInv, Stored, Entries
  <1>2. IsFiniteSet(Stored)
    <2>1. Len(order) \in 0 .. Len(order)
      BY DEF OrderInv
    <2> QED BY <2>1, ListedOnce DEF OrderInv
  <1>3. IsFiniteSet(ks) /\ IsFiniteSet(rest) /\ ks \intersect rest = {} /\ ks \union rest = Stored
    BY <1>2, FS_Subset
  <1>4. /\ SizeOf(ks) = SumOver(f, ks) /\ SizeOf(rest) = SumOver(f, rest)
        /\ SizeOf(Stored) = SumOver(f, Stored)
    BY SumSame DEF SizeOf
  <1> HIDE DEF f, rest
  <1>5. SumOver(f, ks) \in Nat /\ SumOver(f, rest) \in Nat /\ SumOver(f, Stored) \in Nat
    BY <1>1, <1>2, <1>3, UnitsFinite
  <1>6. SumOver(f, ks \union rest) = SumOver(f, ks) + SumOver(f, rest)
    BY <1>1, <1>3, SumOfTwo
  <1> QED BY <1>2, <1>3, <1>4, <1>5, <1>6 DEF rest

\* What the steps that neither drop nor store keep.
LEMMA OrderUntouched ==
    ASSUME OrderInv, UNCHANGED <<entry, order, total, outrun>>,
           torn' \subseteq Stored, running' \in BOOLEAN,
           cleaner' \in [Cleaners -> {"none", "asleep", "size", "memory"}]
    PROVE  OrderInv'
  <1>1. Stored' = Stored /\ SizeOf(Stored)' = SizeOf(Stored) /\ First(Len(order))' = First(Len(order))
    BY DEF Stored, SizeOf, First
  <1> QED BY <1>1 DEF OrderInv

\* Dropping stored keys.
LEMMA DropOrders ==
    ASSUME IInv, OrderInv, NEW ks, ks \subseteq Stored, Drop(ks), running' \in BOOLEAN,
           cleaner' \in [Cleaners -> {"none", "asleep", "size", "memory"}]
    PROVE  /\ OrderInv' /\ Stored' = Stored \ ks
           /\ SizeOf(Stored)' = SizeOf(Stored) - SizeOf(ks)
           /\ total' = total - SizeOf(ks)
  <1>1. Stored' = Stored \ ks
    BY NoEntryAssumption DEF Drop, Stored
  <1>2. order' = Without(ks) /\ total' = total - SizeOf(ks)
        /\ torn' = torn \ ks /\ outrun' = outrun \ ks
    BY DEF Drop
  <1>3. SizeOf(Stored)' = SizeOf(Stored \ ks)
    <2> DEFINE f == [k \in Stored' |-> entry'[k].size]
               g == [k \in Stored \ ks |-> entry[k].size]
    <2>1. \A k \in Stored \ ks : f[k] = g[k]
      BY <1>1 DEF Drop, Stored
    <2>2. SizeOf(Stored)' = SumOver(f, Stored') /\ SizeOf(Stored \ ks) = SumOver(g, Stored \ ks)
      BY DEF SizeOf
    <2> HIDE DEF f, g
    <2>3. SumOver(f, Stored \ ks) = SumOver(g, Stored \ ks)
      BY <2>1, SumSame
    <2> QED BY <1>1, <2>2, <2>3
  <1>4. /\ SizeOf(Stored) \in Nat /\ SizeOf(ks) \in Nat /\ SizeOf(Stored \ ks) \in Nat
        /\ SizeOf(Stored) = SizeOf(ks) + SizeOf(Stored \ ks)
    BY SizesAdd
  <1>5. total' \in Nat /\ SizeOf(Stored)' <= total'
    BY <1>2, <1>3, <1>4 DEF OrderInv
  <1>6. /\ order' \in Seq(Keys)
        /\ \A i, j \in DOMAIN order' : order'[i] = order'[j] => i = j
        /\ {order'[i] : i \in 1 .. Len(order')} = Stored'
    BY <1>1, <1>2, WithoutIs
  <1>7. torn' \subseteq Stored' /\ outrun' \subseteq Stored'
    BY <1>1, <1>2 DEF OrderInv
  <1>8. OrderInv'
    BY <1>5, <1>6, <1>7 DEF OrderInv, First
  <1>9. SizeOf(Stored)' = SizeOf(Stored) - SizeOf(ks)
    BY <1>3, <1>4
  <1> QED BY <1>1, <1>2, <1>8, <1>9

\* Storing an entry.
LEMMA StoreOrders ==
    ASSUME IInv, OrderInv, NEW k \in Keys, NEW e \in Entries, Store(k, e),
           outrun' \subseteq outrun \union {k}, UNCHANGED <<running, cleaner>>
    PROVE  OrderInv'
  <1>1. /\ entry' = [entry EXCEPT ![k] = e] /\ total' = total + e.size
        /\ order' = IF k \in Stored THEN order ELSE Append(order, k)
        /\ torn' = torn \ {k}
    BY DEF Store
  <1>2. \A x \in Keys : entry'[x] = IF x = k THEN e ELSE entry[x]
    BY <1>1 DEF IInv, IndexInv
  <1>3. Stored' = Stored \union {k}
    BY <1>2, NoEntryAssumption DEF Stored
  <1>4. e.size \in Nat
    BY SizesAssumption DEF Entries
  <1>5. SizeOf(Stored)' <= SizeOf(Stored) + e.size /\ SizeOf(Stored)' \in Nat
    <2> DEFINE rest == Stored \ {k}
               f == [x \in Stored' |-> entry'[x].size]
               g == [x \in rest |-> entry[x].size]
               gone == Stored \intersect {k}
    <2>1. /\ IsFiniteSet(Stored) /\ SizeOf(gone) \in Nat /\ SizeOf(Stored \ gone) \in Nat
          /\ SizeOf(Stored) = SizeOf(gone) + SizeOf(Stored \ gone)
      BY SizesAdd
    <2>2. SizeOf(Stored \ gone) = SizeOf(rest)
      <3>1. Stored \ gone = rest
        OBVIOUS
      <3> QED BY <3>1
    <2>3. /\ SizeOf(Stored)' = SumOver(f, Stored') /\ SizeOf(rest) = SumOver(g, rest)
      BY DEF SizeOf
    <2>4. \A x \in rest : f[x] = g[x]
      BY <1>2, <1>3 DEF Stored
    <2>5. f[k] = e.size
      BY <1>2, <1>3
    <2>6. Stored' = rest \union {k} /\ rest \intersect {k} = {}
      BY <1>3
    <2>7. \A x \in rest \union {k} : f[x] \in Nat
      BY <1>4, <2>4, <2>5, SizesAssumption DEF IInv, IndexInv, Stored, Entries
    <2>8. IsFiniteSet(rest) /\ IsFiniteSet({k})
      BY <2>1, FS_Subset, FS_Singleton
    <2> HIDE DEF f, g, rest, gone
    <2>9. SumOver(f, rest \union {k}) = SumOver(f, rest) + SumOver(f, {k})
      BY <2>6, <2>7, <2>8, SumOfTwo
    <2>10. SumOver(f, rest) = SumOver(g, rest)
      BY <2>4, SumSame
    <2>11. SumOver(f, {k}) = e.size
      BY <1>4, <2>5, SumOfOne
    <2>12. SizeOf(Stored)' = SizeOf(rest) + e.size
      BY <2>3, <2>6, <2>9, <2>10, <2>11
    <2>13. SizeOf(rest) \in Nat /\ SizeOf(rest) <= SizeOf(Stored) /\ SizeOf(Stored) \in Nat
      BY <2>1, <2>2
    <2> QED BY <1>4, <2>12, <2>13
  <1>6. SizeOf(Stored) \in Nat
    BY SizesAdd
  <1>7. total' \in Nat /\ SizeOf(Stored)' <= total'
    BY <1>1, <1>4, <1>5, <1>6 DEF OrderInv
  <1>8. /\ order' \in Seq(Keys)
        /\ \A i, j \in DOMAIN order' : order'[i] = order'[j] => i = j
        /\ {order'[i] : i \in 1 .. Len(order')} = Stored'
    <2>1. CASE k \in Stored
      BY <1>1, <1>3, <2>1 DEF OrderInv, First
    <2>2. CASE k \notin Stored
      <3>1. order' = Append(order, k) /\ \A i \in 1 .. Len(order) : order[i] # k
        BY <1>1, <2>2 DEF OrderInv, First
      <3>2. {order[i] : i \in 1 .. Len(order)} = Stored
        BY DEF OrderInv, First
      <3> QED BY <1>3, <3>1, <3>2 DEF OrderInv
    <2> QED BY <2>1, <2>2
  <1>9. torn' \subseteq Stored' /\ outrun' \subseteq Stored'
    BY <1>1, <1>3 DEF OrderInv
  <1> QED BY <1>7, <1>8, <1>9 DEF OrderInv, First

\* A hit moves the key to the end.
LEMMA HitOrders ==
    ASSUME IInv, OrderInv, NEW k \in Keys, Hit(k)
    PROVE  OrderInv'
  <1> DEFINE w == Without({k})
  <1>1. /\ w \in Seq(Keys)
        /\ \A i, j \in DOMAIN w : w[i] = w[j] => i = j
        /\ {w[i] : i \in 1 .. Len(w)} = Stored \ {k}
    BY WithoutIs
  <1>2. order' = Append(w, k) /\ k \in Stored
    BY DEF Hit
  <1>3. UNCHANGED <<entry, total, torn, outrun, running, cleaner>>
    BY DEF Hit
  <1> HIDE DEF w
  <1>4. \A i \in 1 .. Len(w) : w[i] # k
    BY <1>1
  <1>5. /\ order' \in Seq(Keys)
        /\ \A i, j \in DOMAIN order' : order'[i] = order'[j] => i = j
        /\ {order'[i] : i \in 1 .. Len(order')} = (Stored \ {k}) \union {k}
    BY <1>1, <1>2, <1>4
  <1>6. Stored' = Stored /\ SizeOf(Stored)' = SizeOf(Stored) /\ (Stored \ {k}) \union {k} = Stored
    BY <1>2, <1>3 DEF Stored, SizeOf
  <1> QED BY <1>3, <1>5, <1>6 DEF OrderInv, First

\* What a caller stores, or fails to store.
LEMMA SetOrders ==
    ASSUME IInv, OrderInv, (\E k \in Keys : Set(k)) \/ (\E p \in Fillers : Fill(p))
    PROVE  OrderInv'
  <1>1. UNCHANGED <<running, cleaner>>
    BY DEF Set, Fill, Others
  <1>2. running' \in BOOLEAN /\ cleaner' \in [Cleaners -> {"none", "asleep", "size", "memory"}]
    BY <1>1 DEF OrderInv
  <1>3. ASSUME NEW k \in Keys, StoreRaises(k) PROVE OrderInv'
    <2>1. torn' \subseteq Stored
      BY <1>3 DEF StoreRaises, OrderInv
    <2> QED BY <1>2, <1>3, <2>1, OrderUntouched DEF StoreRaises
  <1>4. ASSUME NEW k \in Keys, Set(k) PROVE OrderInv'
    <2>1. ASSUME NEW size \in Sizes, NEW tags \in TagSets[k],
                 Store(k, [size |-> size, tags |-> tags, version |-> source[k]]),
                 outrun' = outrun \ {k}
          PROVE  OrderInv'
      <3>1. [size |-> size, tags |-> tags, version |-> source[k]] \in Entries
        BY TagsAssumption DEF Entries, IInv, IndexInv
      <3>2. outrun' \subseteq outrun \union {k}
        BY <2>1
      <3> QED BY <1>1, <2>1, <3>1, <3>2, StoreOrders
    <2> QED BY <1>3, <1>4, <2>1 DEF Set
  <1>5. ASSUME NEW p \in Fillers, Fill(p) PROVE OrderInv'
    <2> DEFINE k == caller[p].key
    <2>1. caller[p] \in [step : {"store"}, key : Keys, version : Versions, late : BOOLEAN]
      BY <1>5 DEF Fill, IInv, IndexInv, CallerStates, Idle, Callers
    <2>2. k \in Keys /\ caller[p].version \in Versions
      BY <2>1
    <2>3. ASSUME NEW size \in Sizes, NEW tags \in TagSets[k],
                 Store(k, [size |-> size, tags |-> tags, version |-> caller[p].version]),
                 outrun' = IF caller[p].late THEN outrun \union {k} ELSE outrun \ {k}
          PROVE  OrderInv'
      <3>1. [size |-> size, tags |-> tags, version |-> caller[p].version] \in Entries
        BY <2>2, TagsAssumption DEF Entries
      <3>2. outrun' \subseteq outrun \union {k}
        BY <2>3
      <3> HIDE DEF k
      <3> QED BY <1>1, <2>2, <2>3, <3>1, <3>2, StoreOrders
    <2> QED BY <1>3, <1>5, <2>2, <2>3 DEF Fill
  <1> QED BY <1>4, <1>5

\* Who drops entries drops stored ones: what is in the index is, by the
\* intersection, and what is in the order.
LEMMA DropsStored ==
    ASSUME OrderInv
    PROVE  /\ \A t : Tagged(t) \subseteq Stored
           /\ \A n \in 0 .. Len(order) : First(n) \subseteq Stored
           /\ (IF Len(order) > MaxSize THEN Len(order) - MaxSize ELSE 0) \in 0 .. Len(order)
  <1>1. Len(order) \in Nat /\ MaxSize \in Nat
    BY LimitsAssumption DEF OrderInv
  <1>2. \A n \in 0 .. Len(order) : First(n) \subseteq Stored
    BY ListedOnce
  <1> QED BY <1>1, <1>2 DEF Tagged

\* A cleanup by size leaves at most MaxSize entries.
LEMMA SizeCleanup ==
    ASSUME IInv, OrderInv, NEW c \in Cleaners, CleanupBySize(c)
    PROVE  OrderInv' /\ Cardinality(Stored') <= MaxSize
  <1> DEFINE n == IF Len(order) > MaxSize THEN Len(order) - MaxSize ELSE 0
  <1>1. Drop(First(n)) /\ running' \in BOOLEAN
        /\ cleaner' \in [Cleaners -> {"none", "asleep", "size", "memory"}]
    BY DEF CleanupBySize, GotoCleaner, OrderInv
  <1>2. n \in 0 .. Len(order) /\ Len(order) \in Nat /\ MaxSize \in Nat /\ Len(order) - n <= MaxSize
    BY DropsStored, LimitsAssumption DEF OrderInv
  <1> HIDE DEF n
  <1>3. IsFiniteSet(First(n)) /\ Cardinality(First(n)) = n /\ First(n) \subseteq Stored
    BY <1>2, ListedOnce
  <1>4. IsFiniteSet(Stored) /\ Cardinality(Stored) = Len(order)
    <2>1. Len(order) \in 0 .. Len(order)
      BY <1>2
    <2> QED BY <2>1, ListedOnce DEF OrderInv
  <1>5. OrderInv' /\ Stored' = Stored \ First(n)
    BY <1>1, <1>3, DropOrders
  <1>6. Cardinality(Stored \ First(n)) = Cardinality(Stored) - Cardinality(Stored \intersect First(n))
    BY <1>4, FS_Difference
  <1>7. Stored \intersect First(n) = First(n)
    BY <1>3
  <1>8. Cardinality(Stored \ First(n)) = Len(order) - n
    BY <1>3, <1>4, <1>6, <1>7
  <1> QED BY <1>2, <1>5, <1>8

\* A cleanup by memory leaves no more than MaxMemory of values.
LEMMA MemoryCleanup ==
    ASSUME IInv, OrderInv, NEW c \in Cleaners, CleanupByMemory(c)
    PROVE  OrderInv' /\ SizeOf(Stored)' <= MaxMemory
  <1>1. PICK n \in 0 .. Len(order) :
          /\ n = Len(order) \/ total - SizeOf(First(n)) <= MaxMemory
          /\ Drop(First(n))
    BY DEF CleanupByMemory
  <1>2. running' \in BOOLEAN
        /\ cleaner' \in [Cleaners -> {"none", "asleep", "size", "memory"}]
    BY DEF CleanupByMemory, GoOn, GotoCleaner, OrderInv
  <1>3. First(n) \subseteq Stored
    BY DropsStored
  <1>4. /\ OrderInv' /\ SizeOf(Stored)' = SizeOf(Stored) - SizeOf(First(n))
        /\ total' = total - SizeOf(First(n))
    BY <1>1, <1>2, <1>3, DropOrders
  <1>5. SizeOf(Stored) \in Nat /\ SizeOf(First(n)) \in Nat
    BY <1>3, SizesAdd
  <1>6. SizeOf(Stored)' <= total'
    BY <1>4 DEF OrderInv
  <1>7. CASE total - SizeOf(First(n)) <= MaxMemory
    <2>1. total \in Nat /\ MaxMemory \in Nat
      BY LimitsAssumption DEF OrderInv
    <2> QED BY <1>4, <1>5, <1>6, <1>7, <2>1
  <1>8. CASE n = Len(order)
    <2>1. SizeOf(First(n)) = SizeOf(Stored)
      <3>1. First(n) = Stored
        BY <1>8 DEF OrderInv
      <3> QED BY <3>1
    <2> QED BY <1>4, <1>5, <2>1, LimitsAssumption
  <1> QED BY <1>1, <1>4, <1>7, <1>8

-----------------------------------------------------------------------------
(* The theorems about the order and the sizes.                             *)

\* An empty cache accounts for nothing.
LEMMA EmptyAccounts ==
    SizeOf({}) = 0
  <1> DEFINE f == [k \in {} |-> entry[k].size]
             g == [k \in {0} |-> 0]
  <1>1. g[0] \in Nat
    OBVIOUS
  <1>2. SizeOf({}) = SumOver(f, {})
    BY DEF SizeOf
  <1> HIDE DEF f, g
  <1>3. SumOver(f, {}) = SumOver(g, {})
    BY SumSame
  <1>4. SumOver(g, {}) = 0
    BY <1>1, SumOfOne
  <1> QED BY <1>2, <1>3, <1>4

\* The order lists the stored keys initially.
LEMMA InitOrders == Init => OrderInv
  <1> SUFFICES ASSUME Init PROVE OrderInv
    OBVIOUS
  <1>1. Stored = {}
    BY DEF Init, Stored
  <1>2. SizeOf(Stored) = 0 /\ total = 0
    BY <1>1, EmptyAccounts DEF Init
  <1>3. /\ order \in Seq(Keys) /\ First(Len(order)) = {}
        /\ \A i, j \in DOMAIN order : order[i] = order[j] => i = j
    BY DEF Init, First
  <1>4. torn = {} /\ outrun = {} /\ running \in BOOLEAN
    BY DEF Init
  <1>5. cleaner \in [Cleaners -> {"none", "asleep", "size", "memory"}]
    BY DEF Init
  <1> QED BY <1>1, <1>2, <1>3, <1>4, <1>5 DEF OrderInv

\* clear() leaves nothing, and nothing to account for.
LEMMA ClearOrders ==
    ASSUME OrderInv, Clear
    PROVE  OrderInv'
  <1>1. Stored' = {}
    BY DEF Clear, Stored
  <1>2. SizeOf({})' = 0
    <2>1. (SizeOf({}) = 0)'
      BY EmptyAccounts, PTL
    <2> QED BY <2>1
  <1>3. SizeOf(Stored)' = 0
    <2>1. SizeOf(Stored)' = SizeOf({})'
      BY <1>1 DEF SizeOf
    <2> QED BY <1>2, <2>1
  <1>4. order' = <<>> /\ total' = 0 /\ torn' = {} /\ outrun' = {} /\ UNCHANGED <<running, cleaner>>
    BY DEF Clear, Others
  <1>5. First(Len(order))' = {}
    BY <1>4 DEF First
  <1> QED BY <1>1, <1>3, <1>4, <1>5 DEF OrderInv

\* Who invalidates, by key, by tag, by prefix or after a write.
LEMMA InvalidationsOrder ==
    ASSUME IInv, OrderInv,
           \/ \E k \in Keys : Delete(k)
           \/ \E t \in Tags : InvalidateByTag(t)
           \/ \E ks \in Prefixes : ClearByPrefix(ks)
           \/ \E p \in Writers : Invalidate(p)
    PROVE  OrderInv' /\ UNCHANGED cleaner
  <1>1. UNCHANGED <<running, cleaner>>
    BY DEF Delete, InvalidateByTag, ClearByPrefix, Invalidate, Others
  <1>2. running' \in BOOLEAN /\ cleaner' \in [Cleaners -> {"none", "asleep", "size", "memory"}]
    BY <1>1 DEF OrderInv
  <1>3. PICK ks : ks \subseteq Stored /\ Drop(ks)
    <2>1. ASSUME NEW k \in Keys, Delete(k) PROVE {k} \subseteq Stored /\ Drop({k})
      BY <2>1 DEF Delete
    <2>2. ASSUME NEW t \in Tags, InvalidateByTag(t)
          PROVE  Tagged(t) \subseteq Stored /\ Drop(Tagged(t))
      BY <2>2 DEF InvalidateByTag, Tagged
    <2>3. ASSUME NEW ks \in Prefixes, ClearByPrefix(ks)
          PROVE  ks \intersect Stored \subseteq Stored /\ Drop(ks \intersect Stored)
      BY <2>3 DEF ClearByPrefix
    <2>4. ASSUME NEW p \in Writers, Invalidate(p)
          PROVE  LET ks == Tagged(PathTag[caller[p].key]) IN ks \subseteq Stored /\ Drop(ks)
      BY <2>4 DEF Invalidate, Tagged
    <2> QED BY <2>1, <2>2, <2>3, <2>4
  <1>4. OrderInv'
    BY <1>2, <1>3, DropOrders
  <1> QED BY <1>1, <1>4

\* The steps that touch no entry: of callers, and of who starts, stops and wakes
\* the cleanup thread.
LEMMA OthersOrder ==
    ASSUME OrderInv,
           \/ \E p \in Fillers : (\E k \in Keys : Miss(p, k)) \/ Call(p)
           \/ \E p \in Writers : \E k \in Keys : Write(p, k)
           \/ \E c \in Cleaners : Start(c) \/ Wake(c)
           \/ Stop
           \/ UNCHANGED vars
    PROVE  OrderInv'
  <1>1. UNCHANGED <<entry, order, total, torn, outrun>>
    BY DEF Miss, Call, Write, Start, Wake, Stop, vars, cache
  <1>2. running' \in BOOLEAN
    BY DEF Miss, Call, Write, Start, Wake, Stop, vars, cache, OrderInv
  <1>3. cleaner' \in [Cleaners -> {"none", "asleep", "size", "memory"}]
    BY DEF Miss, Call, Write, Start, Wake, Stop, vars, cache, OrderInv, GotoCleaner
  <1>4. torn' \subseteq Stored
    BY <1>1 DEF OrderInv
  <1> QED BY <1>1, <1>2, <1>3, <1>4, OrderUntouched

\* Every step keeps the order a list of what is stored.
LEMMA NextOrders == IInv /\ OrderInv /\ [Next]_vars => OrderInv'
  <1> SUFFICES ASSUME IInv, OrderInv, [Next]_vars PROVE OrderInv'
    OBVIOUS
  <1>1. ASSUME NEW k \in Keys, Hit(k) \/ Delete(k) \/ Set(k) PROVE OrderInv'
    BY <1>1, HitOrders, SetOrders, InvalidationsOrder
  <1>2. ASSUME NEW t \in Tags, InvalidateByTag(t) PROVE OrderInv'
    BY <1>2, InvalidationsOrder
  <1>3. ASSUME NEW ks \in Prefixes, ClearByPrefix(ks) PROVE OrderInv'
    BY <1>3, InvalidationsOrder
  <1>4. CASE Clear
    BY <1>4, ClearOrders
  <1>5. ASSUME NEW c \in Cleaners, Start(c) \/ Cleanup(c) PROVE OrderInv'
    BY <1>5, OthersOrder, SizeCleanup, MemoryCleanup DEF Cleanup
  <1>6. CASE Stop \/ UNCHANGED vars
    BY <1>6, OthersOrder
  <1>7. ASSUME NEW p \in Fillers, (\E k \in Keys : Miss(p, k)) \/ Call(p) \/ Fill(p)
        PROVE  OrderInv'
    BY <1>7, OthersOrder, SetOrders
  <1>8. ASSUME NEW p \in Writers, (\E k \in Keys : Write(p, k)) \/ Invalidate(p)
        PROVE  OrderInv'
    BY <1>8, OthersOrder, InvalidationsOrder
  <1> QED BY <1>1, <1>2, <1>3, <1>4, <1>5, <1>6, <1>7, <1>8 DEF Next

\* The two invariants hold together in every state of the cache.
THEOREM OrderHolds == Spec => [](IInv /\ OrderInv)
  BY InitInvariant, NextKeeps, InitOrders, NextOrders, PTL DEF Spec

\* Every variable of the cache, its callers and its cleanup threads keeps its
\* type, and what is marked torn or outrun is stored.
THEOREM TypeCorrect == Spec => []TypeOK
  <1>1. IInv /\ OrderInv => TypeOK
    BY DEF IInv, IndexInv, OrderInv, TypeOK
  <1> QED BY <1>1, OrderHolds, PTL

\* The order holds each stored key once, and the accounted size is never less
\* than what the stored values take.
THEOREM Accounted == Spec => []AccountedInFull
  <1>1. IInv /\ OrderInv => AccountedInFull
    <2> SUFFICES ASSUME OrderInv PROVE AccountedInFull
      OBVIOUS
    <2>1. Len(order) \in 0 .. Len(order)
      BY DEF OrderInv
    <2>2. Cardinality(First(Len(order))) = Len(order)
      BY <2>1, ListedOnce
    <2> QED BY <2>2 DEF AccountedInFull, OrderInv
  <1> QED BY <1>1, OrderHolds, PTL

\* Only a cleanup by size takes a thread from that phase to the next, only a
\* cleanup by memory ends that one.
LEMMA PhasesEnd ==
    ASSUME OrderInv, [Next]_vars, NEW c \in Cleaners
    PROVE  /\ cleaner[c] = "size" /\ cleaner'[c] = "memory" => CleanupBySize(c)
           /\ cleaner[c] = "memory" /\ cleaner'[c] # "memory" => CleanupByMemory(c)
  <1>1. \/ UNCHANGED cleaner
        \/ \E d \in Cleaners : Start(d) \/ Cleanup(d)
    BY DEF Next, Hit, Delete, Set, InvalidateByTag, ClearByPrefix, Clear, Miss, Call, Fill,
           Write, Invalidate, Stop, Others, vars
  <1>2. CASE UNCHANGED cleaner
    BY <1>2
  <1>3. ASSUME NEW d \in Cleaners, Start(d) \/ Cleanup(d)
        PROVE  /\ cleaner[c] = "size" /\ cleaner'[c] = "memory" => CleanupBySize(c)
               /\ cleaner[c] = "memory" /\ cleaner'[c] # "memory" => CleanupByMemory(c)
    <2>1. cleaner \in [Cleaners -> {"none", "asleep", "size", "memory"}]
      BY DEF OrderInv
    <2>2. PICK phase : cleaner' = [cleaner EXCEPT ![d] = phase]
      BY <1>3 DEF Start, Cleanup, Wake, CleanupBySize, CleanupByMemory, GotoCleaner, GoOn
    <2>3. CASE c # d
      BY <2>1, <2>2, <2>3
    <2>4. CASE c = d
      BY <1>3, <2>4 DEF Start, Cleanup, Wake, CleanupBySize, CleanupByMemory
    <2> QED BY <2>3, <2>4
  <1> QED BY <1>1, <1>2, <1>3

\* A cleanup by size leaves at most max_size entries, one by memory at most
\* max_memory of values, whatever was stored while the thread slept.
THEOREM LimitsAreKept == Spec => CleanupKeepsLimits
  <1>1. IInv /\ OrderInv /\ [Next]_vars => LimitsKept
    <2> SUFFICES ASSUME IInv, OrderInv, [Next]_vars PROVE LimitsKept
      OBVIOUS
    <2> QED BY PhasesEnd, SizeCleanup, MemoryCleanup DEF LimitsKept
  <1>2. LimitsKept => [LimitsKept]_vars
    OBVIOUS
  <1> QED BY <1>1, <1>2, OrderHolds, PTL DEF Spec, CleanupKeepsLimits
=============================================================================
