-------------------------- MODULE FactStoreProofs --------------------------
(***************************************************************************)
(* Proofs about FactStore, for any number of workers, keys, values,        *)
(* confidences and tags, and logs of any length.                           *)
(***************************************************************************)
EXTENDS FactStore, TLAPS

-----------------------------------------------------------------------------
(* The log of events.                                                      *)

\* A commit makes the log one event longer and leaves the older events alone.
LEMMA LogAppends ==
    ASSUME TypeOK, NEW k \in FactKeys, NEW type \in {"upsert", "forget", "pin"},
           NEW c \in Confidences \union {NoPayload}, Log(k, type, c)
    PROVE  /\ events' \in Seq(Events)
           /\ Len(events) \in Nat
           /\ Len(events') = Len(events) + 1
           /\ DOMAIN events = 1..Len(events)
           /\ DOMAIN events' = 1..(Len(events) + 1)
           /\ \A i \in DOMAIN events : events'[i] = events[i]
           /\ events'[Len(events) + 1].key = k
           /\ events'[Len(events) + 1].type = type
           /\ events'[Len(events) + 1].confidence = c
<1>1. events \in Seq(Events) /\ [key |-> k, type |-> type, confidence |-> c] \in Events
  BY DEF TypeOK, Events
<1> QED
  BY <1>1 DEF Log

\* What is logged since an earlier point after a commit.
LEMMA LoggedGrows ==
    ASSUME TypeOK, NEW k \in FactKeys, NEW type \in {"upsert", "forget", "pin"},
           NEW c \in Confidences \union {NoPayload}, Log(k, type, c),
           NEW n \in Nat, n <= Len(events), NEW j, NEW ty
    PROVE  LoggedSince(n, j, ty)' <=> LoggedSince(n, j, ty) \/ (j = k /\ ty = type)
<1> DEFINE last == Len(events) + 1
<1> HIDE DEF last
<1>1. /\ Len(events) \in Nat
      /\ DOMAIN events = 1..Len(events)
      /\ last = Len(events) + 1
      /\ DOMAIN events' = 1..last
      /\ \A i \in DOMAIN events : events'[i] = events[i]
      /\ events'[last].key = k /\ events'[last].type = type
  <2>1. /\ Len(events) \in Nat
        /\ DOMAIN events = 1..Len(events)
        /\ DOMAIN events' = 1..(Len(events) + 1)
        /\ \A i \in DOMAIN events : events'[i] = events[i]
        /\ events'[Len(events) + 1].key = k /\ events'[Len(events) + 1].type = type
    BY LogAppends
  <2> QED
    BY <2>1 DEF last
<1>2. \A i \in DOMAIN events' : i \in DOMAIN events \/ i = last
  BY <1>1
<1>3. last \in DOMAIN events' /\ last > n /\ \A i \in DOMAIN events : i \in DOMAIN events'
  BY <1>1
<1> QED
  BY <1>1, <1>2, <1>3 DEF LoggedSince

\* Which events are in force after a commit: a forget ends all of its key, any
\* other event is in force itself and ends none.
LEMMA InForceChanges ==
    ASSUME TypeOK, NEW k \in FactKeys, NEW type \in {"upsert", "forget", "pin"},
           NEW c \in Confidences \union {NoPayload}, Log(k, type, c),
           NEW j, NEW ty \in {"upsert", "pin"}
    PROVE  /\ j = k /\ type = "forget" => ~InForce(j, ty)'
           /\ j = k /\ ty = type => InForce(j, ty)'
           /\ j # k \/ (type # "forget" /\ type # ty) => (InForce(j, ty)' <=> InForce(j, ty))
<1> DEFINE last == Len(events) + 1
<1> HIDE DEF last
<1>1. /\ Len(events) \in Nat
      /\ DOMAIN events = 1..Len(events)
      /\ last = Len(events) + 1
      /\ DOMAIN events' = 1..last
      /\ \A i \in DOMAIN events : events'[i] = events[i]
      /\ events'[last].key = k /\ events'[last].type = type
  <2>1. /\ Len(events) \in Nat
        /\ DOMAIN events = 1..Len(events)
        /\ DOMAIN events' = 1..(Len(events) + 1)
        /\ \A i \in DOMAIN events : events'[i] = events[i]
        /\ events'[Len(events) + 1].key = k /\ events'[Len(events) + 1].type = type
    BY LogAppends
  <2> QED
    BY <2>1 DEF last
<1>2. \A i \in DOMAIN events : i \in Nat /\ i <= Len(events)
  BY <1>1
<1>3. \A i \in DOMAIN events :
        LoggedSince(i, j, "forget")' <=> LoggedSince(i, j, "forget") \/ (j = k /\ type = "forget")
  BY <1>2, LoggedGrows
<1>4. \A i \in Nat : i = last => ~LoggedSince(i, j, "forget")'
  BY <1>1 DEF LoggedSince
<1>5. \A i \in DOMAIN events' : i \in DOMAIN events \/ i = last
  BY <1>1
<1>6. last \in DOMAIN events' /\ \A i \in DOMAIN events : i \in DOMAIN events'
  BY <1>1
<1>7. InForce(j, ty)' <=> \/ \E i \in DOMAIN events : /\ events[i].key = j
                                                       /\ events[i].type = ty
                                                       /\ ~LoggedSince(i, j, "forget")'
                          \/ j = k /\ ty = type
  BY <1>1, <1>4, <1>5, <1>6 DEF InForce
<1> QED
  BY <1>3, <1>7 DEF InForce

-----------------------------------------------------------------------------
(* Type correctness.                                                       *)

\* What an upsert writes is a row.
LEMMA UpsertedType ==
    ASSUME NEW r \in Rows \union {NoFact}, NEW o \in Upserts
    PROVE  Upserted(r, o) \in Rows /\ Upserted(r, o) # NoFact
<1>1. CASE r = NoFact
  <2>1. [value |-> o.value, confidence |-> o.confidence, pinned |-> FALSE, version |-> 1] \in Rows
    BY DEF Rows, Upserts
  <2> QED
    BY <1>1, <2>1, NoFactAssumption DEF Upserted
<1>2. CASE r \in Rows /\ r # NoFact
  <2>1. [r EXCEPT !.value = o.value, !.confidence = o.confidence] \in Rows
    BY <1>2 DEF Rows, Upserts
  <2> QED
    BY <1>2, <2>1, NoFactAssumption DEF Upserted
<1> QED
  BY <1>1, <1>2

\* The end of a transaction leaves the workers well typed.
LEMMA EndType ==
    ASSUME TypeOK, NEW w \in Workers, End(w)
    PROVE  /\ pc' \in [Workers -> {"idle", "upsert", "check_tag", "insert_tag"}]
           /\ op' \in [Workers -> Upserts \union Taggings \union {NoOp}]
           /\ \A v \in Workers :
                /\ pc'[v] = "upsert" => op'[v] \in Upserts
                /\ pc'[v] \in {"check_tag", "insert_tag"} => op'[v] \in Taggings
           /\ \A v \in Workers : v # w => pc'[v] = pc[v] /\ op'[v] = op[v]
           /\ pc'[w] = "idle"
BY DEF TypeOK, End

\* Every step keeps the tables, the log and the transactions well typed.
LEMMA TypeStep == TypeOK /\ [Next]_vars => TypeOK'
<1> SUFFICES ASSUME TypeOK, [Next]_vars PROVE TypeOK'
  OBVIOUS
<1>1. ASSUME NEW w \in Workers, NEW k \in FactKeys, NEW v \in Values,
             NEW c \in Confidences, SelectFact(w, k, v, c)
      PROVE  TypeOK'
  <2>1. [key |-> k, value |-> v, confidence |-> c, seen |-> facts[k],
         since |-> Len(events)] \in Upserts
    BY DEF TypeOK, Upserts
  <2> QED
    BY <1>1, <2>1 DEF SelectFact, TypeOK
<1>2. ASSUME NEW w \in Workers, WriteFact(w) PROVE TypeOK'
  <2>1. op[w] \in Upserts
    BY <1>2 DEF WriteFact, TypeOK
  <2>2. op[w].key \in FactKeys /\ op[w].confidence \in Confidences
    BY <2>1 DEF Upserts
  <2>3. facts' \in [FactKeys -> Rows \union {NoFact}]
    BY <1>2, <2>1, <2>2, UpsertedType DEF WriteFact, TypeOK
  <2>4. events' \in Seq(Events)
    BY <1>2, <2>2, LogAppends DEF WriteFact
  <2> QED
    BY <1>2, <2>3, <2>4, EndType DEF WriteFact, TypeOK
<1>3. ASSUME NEW k \in FactKeys, ForgetFact(k) PROVE TypeOK'
  <2>1. events' \in Seq(Events)
    BY <1>3, LogAppends DEF ForgetFact
  <2> QED
    BY <1>3, <2>1 DEF ForgetFact, TypeOK
<1>4. ASSUME NEW k \in FactKeys, PinFact(k) PROVE TypeOK'
  <2>1. events' \in Seq(Events)
    BY <1>4, LogAppends DEF PinFact
  <2>2. [facts[k] EXCEPT !.pinned = TRUE] \in Rows
    BY <1>4 DEF PinFact, Exists, TypeOK, Rows
  <2> QED
    BY <1>4, <2>1, <2>2 DEF PinFact, TypeOK
<1>5. ASSUME NEW k \in FactKeys, IncrementVersion(k) PROVE TypeOK'
  <2>1. [facts[k] EXCEPT !.version = facts[k].version + 1] \in Rows
    BY <1>5 DEF IncrementVersion, Exists, TypeOK, Rows
  <2> QED
    BY <1>5, <2>1 DEF IncrementVersion, TypeOK
<1>6. ASSUME NEW w \in Workers, NEW k \in FactKeys, NEW g \in Tags, CheckFact(w, k, g)
      PROVE  TypeOK'
  <2>1. [key |-> k, tag |-> g] \in Taggings
    BY DEF Taggings
  <2> QED
    BY <1>6, <2>1 DEF CheckFact, TypeOK
<1>7. ASSUME NEW w \in Workers, CheckTag(w) PROVE TypeOK'
  <2>1. CASE End(w)
    BY <1>7, <2>1, EndType DEF CheckTag, TypeOK
  <2>2. CASE pc' = [pc EXCEPT ![w] = "insert_tag"] /\ op' = op
    BY <1>7, <2>2 DEF CheckTag, TypeOK
  <2> QED
    BY <1>7, <2>1, <2>2 DEF CheckTag
<1>8. ASSUME NEW w \in Workers, InsertTag(w) PROVE TypeOK'
  <2>1. op[w].key \in FactKeys /\ op[w].tag \in Tags
    BY <1>8 DEF InsertTag, TypeOK, Taggings
  <2>2. tags' \in [FactKeys -> SUBSET Tags]
    BY <1>8, <2>1 DEF InsertTag, TypeOK
  <2> QED
    BY <1>8, <2>2, EndType DEF InsertTag, TypeOK
<1>9. ASSUME NEW k \in FactKeys, NEW g \in Tags, RemoveTag(k, g) PROVE TypeOK'
  BY <1>9 DEF RemoveTag, TypeOK
<1>10. ASSUME NEW w \in Workers, Crash(w) PROVE TypeOK'
  BY <1>10, EndType DEF Crash, TypeOK
<1>11. CASE UNCHANGED vars
  BY <1>11 DEF vars, TypeOK
<1> QED
  BY <1>1, <1>2, <1>3, <1>4, <1>5, <1>6, <1>7, <1>8, <1>9, <1>10, <1>11 DEF Next, NoRow

-----------------------------------------------------------------------------
(* The log tells the facts.                                                *)

\* A step that commits no event and leaves every row's pin and confidence.
LEMMA LogKept ==
    ASSUME TypeOK, LogTellsFacts, events' = events,
           \A k \in FactKeys : SameButVersion(facts[k], facts'[k])
    PROVE  LogTellsFacts'
<1>1. \A k \in FactKeys : /\ Exists(k)' <=> Exists(k)
                          /\ Exists(k) => /\ facts'[k].pinned = facts[k].pinned
                                          /\ facts'[k].confidence = facts[k].confidence
  BY DEF SameButVersion, Exists
<1>2. \A k, type : InForce(k, type)' <=> InForce(k, type)
  BY DEF InForce, LoggedSince
<1>3. \A n, k, type : LoggedSince(n, k, type)' <=> LoggedSince(n, k, type)
  BY DEF LoggedSince
<1> QED
  BY <1>1, <1>2, <1>3 DEF LogTellsFacts

\* Keys that the committed event is not about are told as before.
LEMMA LogKeptElsewhere ==
    ASSUME TypeOK, LogTellsFacts,
           NEW k \in FactKeys, NEW type \in {"upsert", "forget", "pin"},
           NEW c \in Confidences \union {NoPayload}, Log(k, type, c),
           NEW j \in FactKeys, j # k \/ type = "pin", facts'[j].confidence = facts[j].confidence,
           Exists(j)' <=> Exists(j)
    PROVE  Exists(j)' =>
             \A i \in DOMAIN events' :
               /\ events'[i].key = j
               /\ events'[i].type = "upsert"
               /\ ~LoggedSince(i, j, "upsert")'
               => facts'[j].confidence = events'[i].confidence
<1> SUFFICES ASSUME Exists(j)', NEW i \in DOMAIN events',
                    events'[i].key = j, events'[i].type = "upsert",
                    ~LoggedSince(i, j, "upsert")'
             PROVE  facts'[j].confidence = events'[i].confidence
  OBVIOUS
<1>1. /\ Len(events) \in Nat
      /\ DOMAIN events = 1..Len(events)
      /\ DOMAIN events' = 1..(Len(events) + 1)
      /\ \A n \in DOMAIN events : events'[n] = events[n]
      /\ events'[Len(events) + 1].key = k /\ events'[Len(events) + 1].type = type
  BY LogAppends
<1>2. i # Len(events) + 1
  BY <1>1
<1>3. i \in DOMAIN events /\ i \in Nat /\ i <= Len(events)
  BY <1>1, <1>2
<1>4. ~LoggedSince(i, j, "upsert")
  BY <1>3, LoggedGrows
<1> QED
  BY <1>1, <1>3, <1>4 DEF LogTellsFacts

\* An upsert writes its confidence to the row and to the log.
LEMMA LogAfterWrite ==
    ASSUME TypeOK, LogTellsFacts, NEW w \in Workers, WriteFact(w)
    PROVE  LogTellsFacts'
<1> DEFINE k == op[w].key
           c == op[w].confidence
<1>1. op[w] \in Upserts /\ k \in FactKeys /\ c \in Confidences
  BY DEF WriteFact, TypeOK, Upserts
<1>2. Log(k, "upsert", c)
  BY DEF WriteFact
<1>3. /\ facts'[k] = Upserted(facts[k], op[w])
      /\ \A j \in FactKeys : j # k => facts'[j] = facts[j]
  BY <1>1 DEF WriteFact, TypeOK
<1>4. /\ facts'[k] # NoFact
      /\ facts'[k].confidence = c
      /\ facts'[k].pinned = IF Exists(k) THEN facts[k].pinned ELSE FALSE
  <2>1. facts[k] \in Rows \union {NoFact}
    BY <1>1 DEF TypeOK
  <2>2. facts'[k] # NoFact
    BY <1>1, <1>3, <2>1, UpsertedType
  <2>3. facts'[k].confidence = c
    BY <1>1, <1>3, <2>1 DEF Upserted, Rows
  <2>4. CASE facts[k] = NoFact
    BY <1>3, <2>2, <2>3, <2>4 DEF Upserted, Exists
  <2>5. CASE facts[k] \in Rows /\ facts[k] # NoFact
    BY <1>3, <2>2, <2>3, <2>5 DEF Upserted, Exists, Rows
  <2> QED
    BY <2>1, <2>4, <2>5
<1> SUFFICES ASSUME NEW j \in FactKeys
             PROVE  /\ Exists(j)' <=> InForce(j, "upsert")'
                    /\ Exists(j)' /\ facts'[j].pinned <=> InForce(j, "pin")'
                    /\ Exists(j)' =>
                         \A i \in DOMAIN events' :
                           /\ events'[i].key = j
                           /\ events'[i].type = "upsert"
                           /\ ~LoggedSince(i, j, "upsert")'
                           => facts'[j].confidence = events'[i].confidence
  BY DEF LogTellsFacts
<1> HIDE DEF k, c
<1>5. CASE j # k
  <2>1. facts'[j] = facts[j] /\ (Exists(j)' <=> Exists(j))
    BY <1>3, <1>5 DEF Exists
  <2>2. /\ InForce(j, "upsert")' <=> InForce(j, "upsert")
        /\ InForce(j, "pin")' <=> InForce(j, "pin")
    BY <1>1, <1>2, <1>5, InForceChanges
  <2>3. Exists(j)' =>
             \A i \in DOMAIN events' :
               /\ events'[i].key = j
               /\ events'[i].type = "upsert"
               /\ ~LoggedSince(i, j, "upsert")'
               => facts'[j].confidence = events'[i].confidence
    BY <1>1, <1>2, <1>5, <2>1, LogKeptElsewhere
  <2> QED
    BY <2>1, <2>2, <2>3 DEF LogTellsFacts
<1>6. CASE j = k
  <2>1. InForce(j, "upsert")' /\ (InForce(j, "pin")' <=> InForce(j, "pin"))
    BY <1>1, <1>2, <1>6, InForceChanges
  <2>2. Exists(j)'
    BY <1>4, <1>6 DEF Exists
  <2>3. Exists(j)' /\ facts'[j].pinned <=> InForce(j, "pin")'
    BY <1>4, <1>6, <2>1, <2>2 DEF LogTellsFacts
  <2>4. ASSUME NEW i \in DOMAIN events', events'[i].key = j, events'[i].type = "upsert",
               ~LoggedSince(i, j, "upsert")'
        PROVE  events'[i].confidence = c
    <3>1. /\ DOMAIN events' = 1..(Len(events) + 1) /\ Len(events) \in Nat
          /\ events'[Len(events) + 1].key = k /\ events'[Len(events) + 1].type = "upsert"
          /\ events'[Len(events) + 1].confidence = c
      BY <1>1, <1>2, LogAppends
    <3>2. ~(Len(events) + 1 > i)
      BY <1>6, <2>4, <3>1 DEF LoggedSince
    <3> QED
      BY <3>1, <3>2
  <2> QED
    BY <1>4, <1>6, <2>1, <2>2, <2>3, <2>4
<1> QED
  BY <1>5, <1>6

\* A forget ends the row and, in the log, all that was in force.
LEMMA LogAfterForget ==
    ASSUME TypeOK, LogTellsFacts, NEW k \in FactKeys, ForgetFact(k)
    PROVE  LogTellsFacts'
<1>1. Log(k, "forget", NoPayload)
  BY DEF ForgetFact
<1>2. facts'[k] = NoFact /\ \A j \in FactKeys : j # k => facts'[j] = facts[j]
  BY DEF ForgetFact, TypeOK
<1> SUFFICES ASSUME NEW j \in FactKeys
             PROVE  /\ Exists(j)' <=> InForce(j, "upsert")'
                    /\ Exists(j)' /\ facts'[j].pinned <=> InForce(j, "pin")'
                    /\ Exists(j)' =>
                         \A i \in DOMAIN events' :
                           /\ events'[i].key = j
                           /\ events'[i].type = "upsert"
                           /\ ~LoggedSince(i, j, "upsert")'
                           => facts'[j].confidence = events'[i].confidence
  BY DEF LogTellsFacts
<1>3. CASE j # k
  <2>1. facts'[j] = facts[j] /\ (Exists(j)' <=> Exists(j))
    BY <1>2, <1>3 DEF Exists
  <2>2. /\ InForce(j, "upsert")' <=> InForce(j, "upsert")
        /\ InForce(j, "pin")' <=> InForce(j, "pin")
    BY <1>1, <1>3, InForceChanges
  <2>3. Exists(j)' =>
             \A i \in DOMAIN events' :
               /\ events'[i].key = j
               /\ events'[i].type = "upsert"
               /\ ~LoggedSince(i, j, "upsert")'
               => facts'[j].confidence = events'[i].confidence
    BY <1>1, <1>3, <2>1, LogKeptElsewhere
  <2> QED
    BY <2>1, <2>2, <2>3 DEF LogTellsFacts
<1>4. CASE j = k
  <2>1. ~InForce(j, "upsert")' /\ ~InForce(j, "pin")'
    BY <1>1, <1>4, InForceChanges
  <2> QED
    BY <1>2, <1>4, <2>1 DEF Exists
<1> QED
  BY <1>3, <1>4

\* A pin is in the row and in force in the log.
LEMMA LogAfterPin ==
    ASSUME TypeOK, LogTellsFacts, NEW k \in FactKeys, PinFact(k)
    PROVE  LogTellsFacts'
<1>1. Log(k, "pin", NoPayload) /\ Exists(k)
  BY DEF PinFact
<1>2. /\ facts'[k] = [facts[k] EXCEPT !.pinned = TRUE]
      /\ \A j \in FactKeys : j # k => facts'[j] = facts[j]
  BY DEF PinFact, TypeOK
<1>3. facts[k] \in Rows
  BY <1>1 DEF Exists, TypeOK
<1>4. facts'[k] \in Rows /\ facts'[k].pinned /\ facts'[k].confidence = facts[k].confidence
  BY <1>2, <1>3 DEF Rows
<1>5. \A j \in FactKeys : /\ Exists(j)' <=> Exists(j)
                          /\ facts'[j].confidence = facts[j].confidence
  BY <1>1, <1>2, <1>4, NoFactAssumption DEF Exists
<1> SUFFICES ASSUME NEW j \in FactKeys
             PROVE  /\ Exists(j)' <=> InForce(j, "upsert")'
                    /\ Exists(j)' /\ facts'[j].pinned <=> InForce(j, "pin")'
                    /\ Exists(j)' =>
                         \A i \in DOMAIN events' :
                           /\ events'[i].key = j
                           /\ events'[i].type = "upsert"
                           /\ ~LoggedSince(i, j, "upsert")'
                           => facts'[j].confidence = events'[i].confidence
  BY DEF LogTellsFacts
<1>6. InForce(j, "upsert")' <=> InForce(j, "upsert")
  BY <1>1, InForceChanges
<1>7. InForce(j, "pin")' <=> InForce(j, "pin") \/ j = k
  BY <1>1, InForceChanges
<1>8. Exists(j)' =>
             \A i \in DOMAIN events' :
               /\ events'[i].key = j
               /\ events'[i].type = "upsert"
               /\ ~LoggedSince(i, j, "upsert")'
               => facts'[j].confidence = events'[i].confidence
  BY <1>1, <1>5, LogKeptElsewhere
<1> QED
  BY <1>1, <1>2, <1>4, <1>5, <1>6, <1>7, <1>8 DEF LogTellsFacts

-----------------------------------------------------------------------------
(* The inductive invariant.                                                *)

\* A commit on the key of an open upsert is one since its SELECT; a commit on
\* another key, or none, leaves what the upsert knows as it was.
LEMMA OpenUpsertsKept ==
    ASSUME TypeOK, OpenUpserts,
           \/ events' = events /\ \A j \in FactKeys : SameButVersion(facts[j], facts'[j])
           \/ \E k \in FactKeys, type \in {"upsert", "forget", "pin"},
                 c \in Confidences \union {NoPayload} :
                /\ Log(k, type, c)
                /\ \A j \in FactKeys : j # k => facts'[j] = facts[j],
           NEW w \in Workers, pc[w] = "upsert", op'[w] = op[w]
    PROVE  /\ op'[w].since <= Len(events')
           /\ Allowed(op[w])
           /\ \/ \E type \in {"upsert", "forget", "pin"} :
                   LoggedSince(op[w].since, op[w].key, type)'
              \/ SameButVersion(facts'[op[w].key], op[w].seen)
<1> DEFINE o == op[w]
<1>1. o \in Upserts /\ o.key \in FactKeys /\ o.since \in Nat
  BY DEF TypeOK, Upserts
<1>2. /\ o.since <= Len(events)
      /\ Allowed(o)
      /\ \/ \E type \in {"upsert", "forget", "pin"} : LoggedSince(o.since, o.key, type)
         \/ SameButVersion(facts[o.key], o.seen)
  BY DEF OpenUpserts
<1>3. CASE events' = events /\ \A j \in FactKeys : SameButVersion(facts[j], facts'[j])
  <2>1. \A type : LoggedSince(o.since, o.key, type)' <=> LoggedSince(o.since, o.key, type)
    BY <1>3 DEF LoggedSince
  <2>2. SameButVersion(facts[o.key], o.seen) => SameButVersion(facts'[o.key], o.seen)
    BY <1>1, <1>3 DEF SameButVersion
  <2> QED
    BY <1>2, <1>3, <2>1, <2>2
<1>4. ASSUME NEW k \in FactKeys, NEW type \in {"upsert", "forget", "pin"},
             NEW c \in Confidences \union {NoPayload}, Log(k, type, c),
             \A j \in FactKeys : j # k => facts'[j] = facts[j]
      PROVE  /\ o.since <= Len(events')
             /\ \/ \E ty \in {"upsert", "forget", "pin"} : LoggedSince(o.since, o.key, ty)'
                \/ SameButVersion(facts'[o.key], o.seen)
  <2>1. Len(events) \in Nat /\ Len(events') = Len(events) + 1
    BY <1>4, LogAppends
  <2>2. \A n \in Nat, j \in FactKeys, ty \in {"upsert", "forget", "pin"} : n <= Len(events) =>
          (LoggedSince(n, j, ty)' <=> LoggedSince(n, j, ty) \/ (j = k /\ ty = type))
    BY <1>4, LoggedGrows
  <2> QED
    BY <1>1, <1>2, <1>4, <2>1, <2>2
<1> QED
  BY <1>2, <1>3, <1>4

\* There are no facts, no tags and no events at the start.
LEMMA IInvInit == Init => IInv
<1> SUFFICES ASSUME Init PROVE IInv
  OBVIOUS
<1>1. TypeOK
  BY DEF Init, TypeOK
<1>2. LogTellsFacts
  BY DEF Init, LogTellsFacts, InForce, Exists
<1> QED
  BY <1>1, <1>2 DEF Init, IInv, OpenUpserts, TaggedFactsExist

\* What a transaction that ends leaves open is what was open before.
LEMMA OpenAfterEnd ==
    ASSUME TypeOK, NEW w \in Workers, End(w), NEW v \in Workers, pc'[v] = "upsert"
    PROVE  pc[v] = "upsert" /\ op'[v] = op[v]
BY DEF TypeOK, End

\* A row is the same as itself.
LEMMA SameRow == \A r : SameButVersion(r, r)
BY DEF SameButVersion

\* Every step of a worker or of another operation keeps IInv.
LEMMA IInvStep == IInv /\ [Next]_vars => IInv'
<1> SUFFICES ASSUME IInv, [Next]_vars PROVE IInv'
  OBVIOUS
<1>0. TypeOK /\ TypeOK' /\ OpenUpserts /\ TaggedFactsExist /\ LogTellsFacts
  BY TypeStep DEF IInv
<1>1. ASSUME NEW w \in Workers, NEW k \in FactKeys, NEW v \in Values,
             NEW c \in Confidences, SelectFact(w, k, v, c)
      PROVE  IInv'
  <2>1. UNCHANGED <<facts, tags, events>>
    BY <1>1 DEF SelectFact
  <2>2. LogTellsFacts'
    BY <1>0, <2>1, LogKept, SameRow
  <2>3. ASSUME NEW u \in Workers, pc'[u] = "upsert"
        PROVE  /\ op'[u].since <= Len(events')
               /\ Allowed(op'[u])
               /\ \/ \E type \in {"upsert", "forget", "pin"} :
                       LoggedSince(op[u].since, op[u].key, type)'
                  \/ SameButVersion(facts'[op'[u].key], op'[u].seen)
    <3>1. CASE u = w
      <4>1. op'[u] = [key |-> k, value |-> v, confidence |-> c, seen |-> facts[k],
                      since |-> Len(events)]
        BY <1>0, <1>1, <3>1 DEF SelectFact, TypeOK
      <4>2. Allowed(op'[u])
        BY <1>1, <4>1 DEF SelectFact, Allowed, Exists
      <4>3. Len(events) \in Nat
        BY <1>0 DEF TypeOK
      <4> QED
        BY <2>1, <4>1, <4>2, <4>3, SameRow
    <3>2. CASE u # w
      <4>1. op'[u] = op[u] /\ pc[u] = "upsert"
        BY <1>0, <1>1, <2>3, <3>2 DEF SelectFact, TypeOK
      <4> QED
        BY <1>0, <2>1, <4>1, OpenUpsertsKept, SameRow
    <3> QED
      BY <3>1, <3>2
  <2>4. OpenUpserts'
    BY <2>3 DEF OpenUpserts
  <2> QED
    BY <1>0, <2>1, <2>2, <2>4 DEF IInv, TaggedFactsExist, Exists
<1>2. ASSUME NEW w \in Workers, WriteFact(w) PROVE IInv'
  <2>1. /\ op[w] \in Upserts /\ op[w].key \in FactKeys /\ op[w].confidence \in Confidences
        /\ facts[op[w].key] \in Rows \union {NoFact}
    BY <1>0, <1>2 DEF WriteFact, TypeOK, Upserts
  <2>2. /\ facts'[op[w].key] = Upserted(facts[op[w].key], op[w])
        /\ \A j \in FactKeys : j # op[w].key => facts'[j] = facts[j]
        /\ Log(op[w].key, "upsert", op[w].confidence)
    BY <1>0, <1>2, <2>1 DEF WriteFact, TypeOK
  <2>3. TaggedFactsExist'
    BY <1>0, <1>2, <2>1, <2>2, UpsertedType DEF WriteFact, TaggedFactsExist, Exists
  <2>4. \A v \in Workers : pc'[v] = "upsert" => pc[v] = "upsert" /\ op'[v] = op[v]
    BY <1>0, <1>2, OpenAfterEnd DEF WriteFact
  <2>5. OpenUpserts'
    BY <1>0, <2>1, <2>2, <2>4, OpenUpsertsKept DEF OpenUpserts
  <2> QED
    BY <1>0, <1>2, <2>3, <2>5, LogAfterWrite DEF IInv
<1>3. ASSUME NEW k \in FactKeys, ForgetFact(k) PROVE IInv'
  <2>1. /\ \A j \in FactKeys : j # k => facts'[j] = facts[j]
        /\ Log(k, "forget", NoPayload)
    BY <1>0, <1>3 DEF ForgetFact, TypeOK
  <2>2. TaggedFactsExist'
    BY <1>0, <1>3 DEF ForgetFact, TaggedFactsExist, Exists, TypeOK
  <2>3. OpenUpserts'
    BY <1>0, <1>3, <2>1, OpenUpsertsKept DEF ForgetFact, OpenUpserts
  <2> QED
    BY <1>0, <1>3, <2>2, <2>3, LogAfterForget DEF IInv
<1>4. ASSUME NEW k \in FactKeys, PinFact(k) PROVE IInv'
  <2>1. /\ \A j \in FactKeys : j # k => facts'[j] = facts[j]
        /\ Log(k, "pin", NoPayload)
    BY <1>0, <1>4 DEF PinFact, TypeOK
  <2>0. facts[k] \in Rows
    BY <1>0, <1>4 DEF PinFact, Exists, TypeOK
  <2>2. [facts[k] EXCEPT !.pinned = TRUE] \in Rows
    BY <2>0 DEF Rows
  <2>3. TaggedFactsExist'
    BY <1>0, <1>4, <2>2, NoFactAssumption DEF PinFact, TaggedFactsExist, Exists, TypeOK
  <2>4. OpenUpserts'
    BY <1>0, <1>4, <2>1, OpenUpsertsKept DEF PinFact, OpenUpserts
  <2> QED
    BY <1>0, <1>4, <2>3, <2>4, LogAfterPin DEF IInv
<1>5. ASSUME events' = events, \A j \in FactKeys : SameButVersion(facts[j], facts'[j]),
             \A v \in Workers : pc'[v] = "upsert" => pc[v] = "upsert" /\ op'[v] = op[v],
             TaggedFactsExist'
      PROVE  IInv'
  <2>1. LogTellsFacts'
    BY <1>0, <1>5, LogKept
  <2>2. OpenUpserts'
    BY <1>0, <1>5, OpenUpsertsKept DEF OpenUpserts
  <2> QED
    BY <1>0, <1>5, <2>1, <2>2 DEF IInv
<1>6. ASSUME NEW k \in FactKeys, IncrementVersion(k) PROVE IInv'
  <2>1. facts[k] \in Rows
    BY <1>0, <1>6 DEF IncrementVersion, Exists, TypeOK
  <2>2. [facts[k] EXCEPT !.version = facts[k].version + 1] \in Rows
    BY <2>1 DEF Rows
  <2>3. facts' = [facts EXCEPT ![k] = [facts[k] EXCEPT !.version = facts[k].version + 1]]
    BY <1>6 DEF IncrementVersion
  <2>4. SameButVersion(facts[k], [facts[k] EXCEPT !.version = facts[k].version + 1])
    BY <2>1, <2>2, NoFactAssumption DEF SameButVersion, Rows
  <2>5. \A j \in FactKeys : SameButVersion(facts[j], facts'[j])
    BY <1>0, <2>3, <2>4, SameRow DEF TypeOK
  <2>6. TaggedFactsExist'
    BY <1>0, <1>6, <2>5 DEF IncrementVersion, TaggedFactsExist, Exists, SameButVersion
  <2> QED
    BY <1>5, <1>6, <2>5, <2>6 DEF IncrementVersion
<1>7. ASSUME NEW w \in Workers, NEW k \in FactKeys, NEW g \in Tags, CheckFact(w, k, g)
      PROVE  IInv'
  <2>1. \A v \in Workers : pc'[v] = "upsert" => pc[v] = "upsert" /\ op'[v] = op[v]
    BY <1>0, <1>7 DEF CheckFact, TypeOK
  <2>2. TaggedFactsExist'
    BY <1>0, <1>7 DEF CheckFact, TaggedFactsExist, Exists
  <2> QED
    BY <1>5, <1>7, <2>1, <2>2, SameRow DEF CheckFact
<1>8. ASSUME NEW w \in Workers, CheckTag(w) PROVE IInv'
  <2>1. \A v \in Workers : pc'[v] = "upsert" => pc[v] = "upsert" /\ op'[v] = op[v]
    BY <1>0, <1>8, OpenAfterEnd DEF CheckTag, TypeOK
  <2>2. TaggedFactsExist'
    BY <1>0, <1>8 DEF CheckTag, TaggedFactsExist, Exists
  <2> QED
    BY <1>5, <1>8, <2>1, <2>2, SameRow DEF CheckTag
<1>9. ASSUME NEW w \in Workers, InsertTag(w) PROVE IInv'
  <2>1. \A v \in Workers : pc'[v] = "upsert" => pc[v] = "upsert" /\ op'[v] = op[v]
    BY <1>0, <1>9, OpenAfterEnd DEF InsertTag
  <2>2. TaggedFactsExist'
    BY <1>0, <1>9 DEF InsertTag, TaggedFactsExist, Exists, TypeOK
  <2> QED
    BY <1>5, <1>9, <2>1, <2>2, SameRow DEF InsertTag
<1>10. ASSUME NEW k \in FactKeys, NEW g \in Tags, RemoveTag(k, g) PROVE IInv'
  <2>1. TaggedFactsExist'
    BY <1>0, <1>10 DEF RemoveTag, TaggedFactsExist, Exists, TypeOK
  <2> QED
    BY <1>5, <1>10, <2>1, SameRow DEF RemoveTag
<1>11. ASSUME NEW w \in Workers, Crash(w) PROVE IInv'
  <2>1. \A v \in Workers : pc'[v] = "upsert" => pc[v] = "upsert" /\ op'[v] = op[v]
    BY <1>0, <1>11, OpenAfterEnd DEF Crash
  <2>2. TaggedFactsExist'
    BY <1>0, <1>11 DEF Crash, TaggedFactsExist, Exists
  <2> QED
    BY <1>5, <1>11, <2>1, <2>2, SameRow DEF Crash
<1>12. CASE UNCHANGED vars
  <2>1. TaggedFactsExist'
    BY <1>0, <1>12 DEF vars, TaggedFactsExist, Exists
  <2> QED
    BY <1>5, <1>12, <2>1, SameRow DEF vars
<1> QED
  BY <1>1, <1>2, <1>3, <1>4, <1>6, <1>7, <1>8, <1>9, <1>10, <1>11, <1>12 DEF Next, NoRow

-----------------------------------------------------------------------------
(* The theorems.                                                           *)

\* A step that keeps the values of all rows overwrites nothing.
LEMMA SameValues ==
    ASSUME \A k \in FactKeys : facts'[k] = NoFact \/ facts'[k].value = facts[k].value
    PROVE  OverwritesOvertaken
BY DEF OverwritesOvertaken, Keeps

\* An upsert that nothing has overtaken sees the row that it overwrites.
LEMMA WriteOverwrites ==
    ASSUME IInv, NEW w \in Workers, WriteFact(w)
    PROVE  OverwritesOvertaken
<1>1. /\ op[w] \in Upserts
      /\ op[w].key \in FactKeys
      /\ facts[op[w].key] \in Rows \union {NoFact}
      /\ pc[w] = "upsert"
  BY DEF WriteFact, IInv, TypeOK, Upserts
<1>2. /\ facts'[op[w].key] = Upserted(facts[op[w].key], op[w])
      /\ \A j \in FactKeys : j # op[w].key => facts'[j] = facts[j]
  BY <1>1 DEF WriteFact, IInv, TypeOK
<1> SUFFICES ASSUME NEW k \in FactKeys, Exists(k), facts'[k] # NoFact,
                    Keeps(facts[k], facts'[k].value, facts'[k].confidence)
             PROVE  \E v \in Workers :
                      /\ pc[v] = "upsert"
                      /\ op[v].key = k
                      /\ \E type \in {"upsert", "forget", "pin"} :
                           LoggedSince(op[v].since, k, type)
  BY DEF OverwritesOvertaken
<1>3. k = op[w].key
  BY <1>2 DEF Keeps
<1>4. facts'[k].value = op[w].value /\ facts'[k].confidence = op[w].confidence
  BY <1>1, <1>2, <1>3 DEF Upserted, Exists, Rows
<1>5. ~SameButVersion(facts[k], op[w].seen)
  <2>1. Allowed(op[w])
    BY <1>1 DEF IInv, OpenUpserts
  <2> QED
    BY <1>4, <2>1 DEF Allowed, Keeps, SameButVersion, Exists
<1> QED
  BY <1>1, <1>3, <1>5 DEF IInv, OpenUpserts

\* No step overwrites a value that is to be kept without being overtaken.
LEMMA StepOverwrites == IInv /\ [Next]_vars => [OverwritesOvertaken]_vars
<1> SUFFICES ASSUME IInv, [Next]_vars PROVE OverwritesOvertaken
  OBVIOUS
<1>1. \A w \in Workers : WriteFact(w) => OverwritesOvertaken
  BY WriteOverwrites
<1>2. ASSUME facts' = facts PROVE OverwritesOvertaken
  BY <1>2, SameValues
<1>3. ASSUME NEW k \in FactKeys, ForgetFact(k) \/ PinFact(k) \/ IncrementVersion(k)
      PROVE  OverwritesOvertaken
  <2>1. facts[k] \in Rows
    BY <1>3 DEF ForgetFact, PinFact, IncrementVersion, Exists, IInv, TypeOK
  <2>2. /\ \A j \in FactKeys : j # k => facts'[j] = facts[j]
        /\ facts'[k] = NoFact \/ facts'[k].value = facts[k].value
    BY <1>3, <2>1 DEF ForgetFact, PinFact, IncrementVersion, IInv, TypeOK, Rows
  <2> QED
    BY <2>2, SameValues
<1>4. \/ facts' = facts
      \/ \E w \in Workers : WriteFact(w)
      \/ \E k \in FactKeys : ForgetFact(k) \/ PinFact(k) \/ IncrementVersion(k)
  BY DEF Next, SelectFact, CheckFact, CheckTag, InsertTag, Crash, RemoveTag, NoRow, vars
<1> QED
  BY <1>1, <1>2, <1>3, <1>4

\* IInv holds in every state that overlapping transactions reach.
THEOREM Inductive == Spec => []IInv
BY IInvInit, IInvStep, PTL DEF Spec

\* The tables, the log and the transactions always have their types.
THEOREM TypeCorrect == Spec => []TypeOK
<1>1. IInv => TypeOK
  BY DEF IInv
<1> QED
  BY Inductive, <1>1, PTL

\* The log of events tells which facts there are, pinned or not, how certain.
THEOREM LogTells == Spec => []LogTellsFacts
<1>1. IInv => LogTellsFacts
  BY DEF IInv
<1> QED
  BY Inductive, <1>1, PTL

\* No tag outlives its fact.
THEOREM Tagged == Spec => []TaggedFactsExist
<1>1. IInv => TaggedFactsExist
  BY DEF IInv
<1> QED
  BY Inductive, <1>1, PTL

\* A value that is pinned or more certain is overwritten only by an upsert
\* that another commit on the same key has overtaken.
THEOREM Overwrites == Spec => OverwriteNeedsOverlap
BY Inductive, StepOverwrites, PTL DEF Spec, OverwriteNeedsOverlap

=============================================================================
