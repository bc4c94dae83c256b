----------------------------- MODULE FactStore -----------------------------
(***************************************************************************)
(* The long-term memory of one user in PostgreSQL: the table of facts, the *)
(* table of their tags and the log of events, used by several web workers  *)
(* at once.  Every operation opens a connection of its own and runs one    *)
(* READ COMMITTED transaction: a statement sees what was committed before  *)
(* it started, a write waits for the row's lock.  From its first write to  *)
(* the COMMIT a transaction holds that lock, so that both are one action;  *)
(* a SELECT whose answer is used later is an action of its own.            *)
(*                                                                         *)
(* Every statement has user_id and scope in its WHERE: other users and     *)
(* scopes are separate instances.  import_memory is a series of upserts.   *)
(***************************************************************************)
EXTENDS Naturals, Sequences

CONSTANTS
    Workers,        \* the processes that use the store
    FactKeys,       \* the keys of facts
    Values,         \* the values of facts
    Confidences,    \* the confidences an upsert may carry
    Tags,           \* the tags of facts
    NoFact,         \* a key that has no row
    NoOp,           \* an idle worker has no transaction
    NoPayload,      \* the event of a forget or a pin carries {}
    MaxEvents,      \* bound: no upsert, forget or pin starts past it
    MaxVersion      \* bound: no version is counted past it

ASSUME ConfidencesAssumption == Confidences \subseteq Nat
ASSUME BoundsAssumption == MaxEvents \in Nat /\ MaxVersion \in Nat \ {0}

Rows == [value : Values, confidence : Confidences, pinned : BOOLEAN, version : Nat \ {0}]
ASSUME NoFactAssumption == NoFact \notin Rows

Events == [key : FactKeys, type : {"upsert", "forget", "pin"},
           confidence : Confidences \union {NoPayload}]

\* The locals of a transaction; since is history: how many events had been
\* committed when its SELECT ran.
Upserts == [key : FactKeys, value : Values, confidence : Confidences,
            seen : Rows \union {NoFact}, since : Nat]
Taggings == [key : FactKeys, tag : Tags]

VARIABLES
    facts,      \* memory_facts: key -> row, or NoFact
    tags,       \* memory_fact_tags: key -> its tags
    events,     \* memory_events, in the order of their commits
    pc,         \* worker -> the next statement of its transaction, or "idle"
    op          \* worker -> the locals of its transaction

vars == <<facts, tags, events, pc, op>>

Init ==
    /\ facts = [k \in FactKeys |-> NoFact]
    /\ tags = [k \in FactKeys |-> {}]
    /\ events = <<>>
    /\ pc = [w \in Workers |-> "idle"]
    /\ op = [w \in Workers |-> NoOp]

Exists(k) == facts[k] # NoFact
Room == Len(events) < MaxEvents

Log(k, type, confidence) ==
    events' = Append(events, [key |-> k, type |-> type, confidence |-> confidence])

End(w) ==
    /\ pc' = [pc EXCEPT ![w] = "idle"]
    /\ op' = [op EXCEPT ![w] = NoOp]

\* A different value does not replace a pinned fact or a more confident one.
Keeps(row, value, confidence) ==
    (row.pinned \/ row.confidence > confidence) /\ row.value # value

-----------------------------------------------------------------------------
(* upsert_fact                                                             *)

\* Mutant: a pinned fact is kept from a less confident value only.
SelectFactPinned(w, k, value, confidence) ==
    /\ pc[w] = "idle"
    /\ Room
    /\ ~(Exists(k) /\ facts[k].confidence > confidence /\ facts[k].value # value)
    /\ pc' = [pc EXCEPT ![w] = "upsert"]
    /\ op' = [op EXCEPT ![w] = [key |-> k, value |-> value, confidence |-> confidence,
                                seen |-> facts[k], since |-> Len(events)]]
    /\ UNCHANGED <<facts, tags, events>>

\* SELECT; the transaction ends here when the stored value is to be kept.
SelectFact(w, k, value, confidence) ==
    /\ pc[w] = "idle"
    /\ Room
    /\ ~(Exists(k) /\ Keeps(facts[k], value, confidence))
    /\ pc' = [pc EXCEPT ![w] = "upsert"]
    /\ op' = [op EXCEPT ![w] = [key |-> k, value |-> value, confidence |-> confidence,
                                seen |-> facts[k], since |-> Len(events)]]
    /\ UNCHANGED <<facts, tags, events>>

\* Mutant: the row that was selected is written back.
UpsertSelected(row, o) ==
    IF o.seen = NoFact
      THEN [value |-> o.value, confidence |-> o.confidence, pinned |-> FALSE, version |-> 1]
      ELSE [o.seen EXCEPT !.value = o.value, !.confidence = o.confidence]

\* INSERT ... ON CONFLICT DO UPDATE: pinned and version stay as they are.
Upserted(row, o) ==
    IF row = NoFact
      THEN [value |-> o.value, confidence |-> o.confidence, pinned |-> FALSE, version |-> 1]
      ELSE [row EXCEPT !.value = o.value, !.confidence = o.confidence]

WriteFact(w) ==
    /\ pc[w] = "upsert"
    /\ facts' = [facts EXCEPT ![op[w].key] = Upserted(@, op[w])]
    /\ Log(op[w].key, "upsert", op[w].confidence)
    /\ End(w)
    /\ UNCHANGED tags

-----------------------------------------------------------------------------
(* forget_fact, pin_fact, increment_version: one writing statement each.   *)

\* Mutant: the value is set to null.
ForgetFactNull(k) ==
    /\ Room
    /\ Exists(k)
    /\ facts' = [facts EXCEPT ![k].value = NoFact]
    /\ tags' = [tags EXCEPT ![k] = {}]
    /\ Log(k, "forget", NoPayload)
    /\ UNCHANGED <<pc, op>>

\* The tags go with the row (ON DELETE CASCADE).
ForgetFact(k) ==
    /\ Room
    /\ Exists(k)
    /\ facts' = [facts EXCEPT ![k] = NoFact]
    /\ tags' = [tags EXCEPT ![k] = {}]
    /\ Log(k, "forget", NoPayload)
    /\ UNCHANGED <<pc, op>>

PinFact(k) ==
    /\ Room
    /\ Exists(k)
    /\ facts' = [facts EXCEPT ![k].pinned = TRUE]
    /\ Log(k, "pin", NoPayload)
    /\ UNCHANGED <<tags, pc, op>>

\* forget_fact, pin_fact and increment_version of a key that has no row.
NoRow(k) ==
    /\ ~Exists(k)
    /\ UNCHANGED vars

IncrementVersion(k) ==
    /\ Exists(k)
    /\ facts[k].version < MaxVersion
    /\ facts' = [facts EXCEPT ![k].version = @ + 1]
    /\ UNCHANGED <<tags, events, pc, op>>

-----------------------------------------------------------------------------
(* add_tag and remove_tag                                                  *)

\* SELECT the fact: without it the answer is False ...
CheckFact(w, k, tag) ==
    /\ pc[w] = "idle"
    /\ Exists(k)
    /\ pc' = [pc EXCEPT ![w] = "check_tag"]
    /\ op' = [op EXCEPT ![w] = [key |-> k, tag |-> tag]]
    /\ UNCHANGED <<facts, tags, events>>

\* ... SELECT the tag: when it is there the answer is False ...
CheckTag(w) ==
    /\ pc[w] = "check_tag"
    /\ IF op[w].tag \in tags[op[w].key]
         THEN End(w)
         ELSE pc' = [pc EXCEPT ![w] = "insert_tag"] /\ UNCHANGED op
    /\ UNCHANGED <<facts, tags, events>>

\* Mutant: no foreign key ties a tag to its fact.
InsertTagAnyway(w) ==
    /\ pc[w] = "insert_tag"
    /\ End(w)
    /\ tags' = [tags EXCEPT ![op[w].key] = @ \union {op[w].tag}]
    /\ UNCHANGED <<facts, events>>

\* ... INSERT: a fact that is gone by now violates the foreign key, a tag that
\* is there by now the primary key; either exception aborts the transaction.
InsertTag(w) ==
    /\ pc[w] = "insert_tag"
    /\ End(w)
    /\ tags' = IF Exists(op[w].key)
                 THEN [tags EXCEPT ![op[w].key] = @ \union {op[w].tag}]
                 ELSE tags
    /\ UNCHANGED <<facts, events>>

RemoveTag(k, tag) ==
    /\ tag \in tags[k]
    /\ tags' = [tags EXCEPT ![k] = @ \ {tag}]
    /\ UNCHANGED <<facts, events, pc, op>>

\* The worker is killed before it writes: the transaction is rolled back.
Crash(w) ==
    /\ pc[w] # "idle"
    /\ End(w)
    /\ UNCHANGED <<facts, tags, events>>

-----------------------------------------------------------------------------
Next ==
    \/ \E w \in Workers :
         \/ \E k \in FactKeys, v \in Values, c \in Confidences : SelectFact(w, k, v, c)
         \/ WriteFact(w)
         \/ \E k \in FactKeys, g \in Tags : CheckFact(w, k, g)
         \/ CheckTag(w)
         \/ InsertTag(w)
         \/ Crash(w)
    \/ \E k \in FactKeys :
         \/ ForgetFact(k)
         \/ PinFact(k)
         \/ IncrementVersion(k)
         \/ NoRow(k)
         \/ \E g \in Tags : RemoveTag(k, g)

Spec == Init /\ [][Next]_vars

-----------------------------------------------------------------------------
(* Properties.                                                             *)

TypeOK ==
    /\ facts \in [FactKeys -> Rows \union {NoFact}]
    /\ tags \in [FactKeys -> SUBSET Tags]
    /\ events \in Seq(Events)
    /\ pc \in [Workers -> {"idle", "upsert", "check_tag", "insert_tag"}]
    /\ op \in [Workers -> Upserts \union Taggings \union {NoOp}]
    /\ \A w \in Workers :
         /\ pc[w] = "upsert" => op[w] \in Upserts
         /\ pc[w] \in {"check_tag", "insert_tag"} => op[w] \in Taggings

\* An event of this type on k was committed after the first n events.
LoggedSince(n, k, type) ==
    \E i \in DOMAIN events : i > n /\ events[i].key = k /\ events[i].type = type

\* An event of this type on k that no forget of k followed.
InForce(k, type) ==
    \E i \in DOMAIN events :
        /\ events[i].key = k
        /\ events[i].type = type
        /\ ~LoggedSince(i, k, "forget")

\* The log of events alone says which facts there are, which of them are
\* pinned and how certain each is, whatever transactions overlapped: a fact
\* that was forgotten and comes back (an upsert that had selected it before
\* the forget) does not come back pinned.
LogTellsFacts ==
    \A k \in FactKeys :
        /\ Exists(k) <=> InForce(k, "upsert")
        /\ Exists(k) /\ facts[k].pinned <=> InForce(k, "pin")
        /\ Exists(k) =>
             \A i \in DOMAIN events :
               /\ events[i].key = k
               /\ events[i].type = "upsert"
               /\ ~LoggedSince(i, k, "upsert")
               => facts[k].confidence = events[i].confidence

\* No tag outlives its fact, even when the fact is forgotten between the
\* checks of add_tag and its INSERT: a fact stored anew starts without tags.
TaggedFactsExist == \A k \in FactKeys : tags[k] # {} => Exists(k)

\* The step overwrites no value that is to be kept, unless the transaction
\* that writes was overtaken on the key.
OverwritesOvertaken ==
    \A k \in FactKeys :
        (/\ Exists(k)
         /\ facts'[k] # NoFact
         /\ Keeps(facts[k], facts'[k].value, facts'[k].confidence))
        => \E w \in Workers :
             /\ pc[w] = "upsert"
             /\ op[w].key = k
             /\ \E type \in {"upsert", "forget", "pin"} : LoggedSince(op[w].since, k, type)

\* A pinned fact, or one that is more certain, loses its value only to a
\* transaction that overlaps another: something was committed on the key
\* after the SELECT of the one that overwrites.  Without an overlap pinned
\* facts keep their values and confidence decides.
OverwriteNeedsOverlap == [][OverwritesOvertaken]_vars

-----------------------------------------------------------------------------
(* The inductive invariant: while nothing is committed on a key, its row   *)
(* but for the version is the one an open upsert has selected.             *)

SameButVersion(r, s) ==
    \/ r = NoFact /\ s = NoFact
    \/ /\ r # NoFact /\ s # NoFact
       /\ r.value = s.value /\ r.confidence = s.confidence /\ r.pinned = s.pinned

Allowed(o) == o.seen # NoFact => ~Keeps(o.seen, o.value, o.confidence)

OpenUpserts ==
    \A w \in Workers : pc[w] = "upsert" =>
        /\ op[w].since <= Len(events)
        /\ Allowed(op[w])
        /\ \/ \E type \in {"upsert", "forget", "pin"} :
                LoggedSince(op[w].since, op[w].key, type)
           \/ SameButVersion(facts[op[w].key], op[w].seen)

IInv == TypeOK /\ OpenUpserts /\ TaggedFactsExist /\ LogTellsFacts
=============================================================================
