--------------------------- MODULE DialogueProofs ---------------------------
(***************************************************************************)
(* Proofs about Dialogue, for any texts, words, entities and thresholds:   *)
(* what a command is given is what was said last, what is asked for was    *)
(* not said, and only a word that cannot be converted ends a connection.   *)
(***************************************************************************)
EXTENDS Dialogue, FiniteSetTheorems, SequenceTheorems, TLAPS

-----------------------------------------------------------------------------
(* Dictionaries.                                                           *)

\* The keys of two merged dictionaries are the keys of both.
LEMMA MergeDomain == \A d, e : DOMAIN (d @@ e) = DOMAIN d \union DOMAIN e
BY DEF @@

\* The first of two merged dictionaries wins.
LEMMA MergeLeft == ASSUME NEW d, NEW e, NEW k \in DOMAIN d PROVE (d @@ e)[k] = d[k]
BY DEF @@

\* The second one has the rest.
LEMMA MergeRight ==
    ASSUME NEW d, NEW e, NEW k \in DOMAIN e, k \notin DOMAIN d
    PROVE  (d @@ e)[k] = e[k]
BY DEF @@

\* To merge the same again changes nothing.
LEMMA MergeAgain == ASSUME NEW d, NEW e PROVE d @@ (d @@ e) = d @@ e
<1>1. DOMAIN (d @@ e) = DOMAIN d \union DOMAIN e
  BY MergeDomain
<1> QED
  BY <1>1 DEF @@

\* A dictionary of one item.
LEMMA OneItem == \A k, v : DOMAIN (k :> v) = {k} /\ (k :> v)[k] = v
BY DEF :>

\* What is left of a dictionary.
LEMMA DropIs ==
    ASSUME NEW d, NEW ks
    PROVE  /\ DOMAIN Drop(d, ks) = DOMAIN d \ ks
           /\ \A k \in DOMAIN d \ ks : Drop(d, ks)[k] = d[k]
BY DEF Drop

\* Merged dictionaries are a dictionary, and so is what is left of one.
LEMMA MergeIsDictionary ==
    ASSUME NEW d, NEW e, IsDictionary(d), IsDictionary(e)
    PROVE  IsDictionary(d @@ e)
<1>1. DOMAIN (d @@ e) = DOMAIN d \union DOMAIN e
  BY MergeDomain
<1>2. ASSUME NEW k \in DOMAIN (d @@ e) PROVE k \in Keys /\ (d @@ e)[k] \in Words
  <2>1. CASE k \in DOMAIN d
    BY <2>1, MergeLeft DEF IsDictionary
  <2>2. CASE k \notin DOMAIN d
    BY <1>1, <1>2, <2>2, MergeRight DEF IsDictionary
  <2> QED
    BY <2>1, <2>2
<1> QED
  BY <1>2 DEF IsDictionary

\* What is left of a dictionary is one.
LEMMA DropIsDictionary ==
    ASSUME NEW d, NEW ks, IsDictionary(d)
    PROVE  IsDictionary(Drop(d, ks))
<1>1. DOMAIN Drop(d, ks) = DOMAIN d \ ks /\ \A k \in DOMAIN d \ ks : Drop(d, ks)[k] = d[k]
  BY DropIs
<1> QED
  BY <1>1 DEF IsDictionary

\* The empty dictionary is one.
LEMMA EmptyIsDictionary == IsDictionary(Empty) /\ DOMAIN Empty = {}
BY DEF IsDictionary, Empty

-----------------------------------------------------------------------------
(* The names of entities.                                                  *)

\* An entity under another name.
LEMMA SpelledIs ==
    ASSUME NEW d, NEW old, NEW new
    PROVE  /\ DOMAIN Spelled(d, old, new) = DOMAIN d \union (IF old \in DOMAIN d THEN {new} ELSE {})
           /\ \A k \in DOMAIN d : Spelled(d, old, new)[k] = d[k]
           /\ old \in DOMAIN d /\ new \notin DOMAIN d => Spelled(d, old, new)[new] = d[old]
BY DEF Spelled, @@, :>

\* The older names.
LEMMA OlderIs ==
    /\ DOMAIN Older = {"container_type", "amount", "env_name", "env_value"}
    /\ Older["container_type"] = "container_name" /\ Older["amount"] = "container_amount"
    /\ Older["env_name"] = "variable_name" /\ Older["env_value"] = "variable_value"
BY DEF Older, @@, :>

\* After the normalisation an entity is there that was there under one of its
\* names, with the word of the newer name if there is one.
LEMMA NormalizedIs ==
    ASSUME NEW d
    PROVE  /\ \A k : k \in DOMAIN Normalized(d) <=> NamesOf(k) \intersect DOMAIN d # {}
           /\ \A k \in DOMAIN d : Normalized(d)[k] = d[k]
           /\ \A k \in DOMAIN Older :
                k \notin DOMAIN d /\ Older[k] \in DOMAIN d => Normalized(d)[k] = d[Older[k]]
<1> DEFINE d1 == Spelled(d, "container_name", "container_type")
           d2 == Spelled(d1, "container_amount", "amount")
           d3 == Spelled(d2, "variable_name", "env_name")
           d4 == Spelled(d3, "variable_value", "env_value")
<1>1. Normalized(d) = d4
  BY DEF Normalized
<1>2. /\ DOMAIN d1 = DOMAIN d \union (IF "container_name" \in DOMAIN d THEN {"container_type"} ELSE {})
      /\ \A k \in DOMAIN d : d1[k] = d[k]
      /\ "container_name" \in DOMAIN d /\ "container_type" \notin DOMAIN d
           => d1["container_type"] = d["container_name"]
  BY SpelledIs
<1>3. /\ DOMAIN d2 = DOMAIN d1 \union (IF "container_amount" \in DOMAIN d1 THEN {"amount"} ELSE {})
      /\ \A k \in DOMAIN d1 : d2[k] = d1[k]
      /\ "container_amount" \in DOMAIN d1 /\ "amount" \notin DOMAIN d1
           => d2["amount"] = d1["container_amount"]
  BY SpelledIs
<1>4. /\ DOMAIN d3 = DOMAIN d2 \union (IF "variable_name" \in DOMAIN d2 THEN {"env_name"} ELSE {})
      /\ \A k \in DOMAIN d2 : d3[k] = d2[k]
      /\ "variable_name" \in DOMAIN d2 /\ "env_name" \notin DOMAIN d2
           => d3["env_name"] = d2["variable_name"]
  BY SpelledIs
<1>5. /\ DOMAIN d4 = DOMAIN d3 \union (IF "variable_value" \in DOMAIN d3 THEN {"env_value"} ELSE {})
      /\ \A k \in DOMAIN d3 : d4[k] = d3[k]
      /\ "variable_value" \in DOMAIN d3 /\ "env_value" \notin DOMAIN d3
           => d4["env_value"] = d3["variable_value"]
  BY SpelledIs
<1> HIDE DEF d1, d2, d3, d4
<1>6. \A k : k \in DOMAIN d4 <=>
        \/ k \in DOMAIN d
        \/ k = "container_type" /\ "container_name" \in DOMAIN d
        \/ k = "amount" /\ "container_amount" \in DOMAIN d
        \/ k = "env_name" /\ "variable_name" \in DOMAIN d
        \/ k = "env_value" /\ "variable_value" \in DOMAIN d
  BY <1>2, <1>3, <1>4, <1>5
<1>7. \A k : NamesOf(k) \intersect DOMAIN d # {} <=>
        \/ k \in DOMAIN d
        \/ k = "container_type" /\ "container_name" \in DOMAIN d
        \/ k = "amount" /\ "container_amount" \in DOMAIN d
        \/ k = "env_name" /\ "variable_name" \in DOMAIN d
        \/ k = "env_value" /\ "variable_value" \in DOMAIN d
  <2> SUFFICES ASSUME NEW k
               PROVE  NamesOf(k) \intersect DOMAIN d # {} <=>
                        \/ k \in DOMAIN d
                        \/ k = "container_type" /\ "container_name" \in DOMAIN d
                        \/ k = "amount" /\ "container_amount" \in DOMAIN d
                        \/ k = "env_name" /\ "variable_name" \in DOMAIN d
                        \/ k = "env_value" /\ "variable_value" \in DOMAIN d
    OBVIOUS
  <2>1. CASE k \in DOMAIN Older
    <3>1. NamesOf(k) = {k, Older[k]}
      BY <2>1 DEF NamesOf
    <3> QED
      BY <2>1, <3>1, OlderIs
  <2>2. CASE k \notin DOMAIN Older
    BY <2>2, OlderIs DEF NamesOf
  <2> QED
    BY <2>1, <2>2
<1>8. \A k \in DOMAIN d : d4[k] = d[k]
  BY <1>2, <1>3, <1>4, <1>5
<1>9. ASSUME NEW k \in DOMAIN Older, k \notin DOMAIN d, Older[k] \in DOMAIN d
      PROVE  d4[k] = d[Older[k]]
  BY <1>2, <1>3, <1>4, <1>5, <1>9, OlderIs
<1> QED
  BY <1>1, <1>6, <1>7, <1>8, <1>9

\* The normalisation of a dictionary is a dictionary.
LEMMA NormalizedIsDictionary ==
    ASSUME NEW d, IsDictionary(d)
    PROVE  IsDictionary(Normalized(d))
<1>1. \A k \in DOMAIN Older : Older[k] \in Keys => k \in Keys
  BY KeysAssumption, OlderIs
<1>2. ASSUME NEW k \in DOMAIN Normalized(d), k \notin DOMAIN d
      PROVE  k \in DOMAIN Older /\ Older[k] \in DOMAIN d
  BY <1>2, NormalizedIs DEF NamesOf
<1> QED
  BY <1>1, <1>2, NormalizedIs DEF IsDictionary

-----------------------------------------------------------------------------
(* The catalogue.                                                          *)

\* What the proofs need of a command: it converts only what it requires, and
\* without a scope it requires its region.
Fine(name, c) ==
    /\ c.scoped \in BOOLEAN
    /\ c.numbers \subseteq c.required \intersect ({"amount"} \union AutoscalerNumbers)
    /\ c.flags \subseteq c.required
    /\ c.patches \subseteq {"notifier_patch"}
    /\ c.addresses \subseteq c.required \intersect {"github_repo"}
    /\ c.scoped \/ c.without = "local" \/ "region" \in c.required
    /\ name \in {"apps.create", "deployments.list"} => c.without # "local"
    /\ name = "apps.create" => c.required = {"app_name", "region"}
    /\ name = "deployments.create" => c.required = {"github_repo"}
    /\ name = "deployments.list" => c.required = {}
    /\ name = "deployments.output" => c.required = {"deployment_id"}

AllFine(entries) == \A entry \in entries : Fine(entry[1], entry[2])

\* Commands that convert nothing.
LEMMA FineCommand ==
    ASSUME NEW name, NEW required, NEW without,
           name \notin {"apps.create", "deployments.create", "deployments.list",
                       "deployments.output"}
    PROVE  /\ Fine(name, Command(required, without))
           /\ Fine(name, Lists(required)) /\ Fine(name, Returns(required))
           /\ Fine(name, Acknowledges(required)) /\ Fine(name, Destroys(required))
           /\ Fine(name, Local(required))
           /\ \A flag : Fine(name, Sets(flag))
BY DEF Fine, Command, Lists, Returns, Acknowledges, Destroys, Local, Sets

\* Commands about apps.
LEMMA FineApps == AllFine(Apps) /\ AllFine(AppSettings) /\ AllFine(AppFacilities)
<1>1. Fine("apps.list", Unscoped(Lists({"region"})))
  BY DEF Fine, Unscoped, Lists, Command
<1>2. Fine("apps.create", Unscoped(Returns({"app_name", "region"})))
  BY DEF Fine, Unscoped, Returns, Command
<1>3. AllFine(Apps)
  BY <1>1, <1>2, FineCommand DEF Apps, AllFine
<1>4. AllFine(AppSettings) /\ AllFine(AppFacilities)
  BY FineCommand DEF AppSettings, AppFacilities, AllFine
<1> QED
  BY <1>3, <1>4

\* Commands about deployments and containers.
LEMMA FineDeployments == AllFine(Deployments) /\ AllFine(Containers) /\ AllFine(Autoscalers)
<1>1. /\ Fine("deployments.list", Lists({}))
      /\ Fine("deployments.output", Returns({"deployment_id"}))
      /\ Fine("deployments.create", [Returns({"github_repo"}) EXCEPT !.addresses = {"github_repo"}])
  BY DEF Fine, Lists, Returns, Command
<1>2. AllFine(Deployments)
  <2>1. /\ Fine("deployments.details", Returns({"deployment_id"}))
        /\ Fine("deployments.cache_reset", Destroys({}))
        /\ Fine("deployments.rollback", Acknowledges({"release_id"}))
    BY FineCommand
  <2> QED
    BY <1>1, <2>1 DEF Deployments, AllFine
<1>3. Fine("containers.scale",
           [Acknowledges({"container_type", "amount"}) EXCEPT !.numbers = {"amount"}])
  BY DEF Fine, Acknowledges, Command
<1>4. AllFine(Containers)
  <2>1. /\ Fine("containers.list", Lists({}))
        /\ Fine("containers.stop", Destroys({"container_id"}))
        /\ Fine("containers.signal", Destroys({"container_id", "signal"}))
    BY FineCommand
  <2> QED
    BY <1>3, <2>1 DEF Containers, AllFine
<1>5. Fine("autoscalers.create",
           [Returns({"container_type", "metric"} \union AutoscalerNumbers)
              EXCEPT !.numbers = AutoscalerNumbers])
  BY DEF Fine, Returns, Command
<1>6. AllFine(Autoscalers)
  BY <1>5, FineCommand DEF Autoscalers, AllFine
<1> QED
  BY <1>2, <1>4, <1>6

\* Commands about what belongs to an app.
LEMMA FineBelongings ==
    /\ AllFine(Collaborators) /\ AllFine(Domains) /\ AllFine(LogDrains)
    /\ AllFine(Notifiers) /\ AllFine(EnvVars) /\ AllFine(Addons)
<1>1. Fine("collaborators.update_role",
           [Returns({"collaborator_id", "is_limited"}) EXCEPT !.flags = {"is_limited"}])
  BY DEF Fine, Returns, Command
<1>2. AllFine(Collaborators)
  BY <1>1, FineCommand DEF Collaborators, AllFine
<1>3. AllFine(Domains) /\ AllFine(LogDrains)
  BY FineCommand DEF Domains, LogDrains, AllFine
<1>4. AllFine(Notifiers)
  <2>1. Fine("notifiers.update",
             [Returns({"notifier_id"}) EXCEPT !.patches = {"notifier_patch"}])
    BY DEF Fine, Returns, Command
  <2>2. /\ Fine("notifiers.list", Lists({}))
        /\ Fine("notifiers.create", Returns({"notifier_name", "platform_id"}))
        /\ Fine("notifiers.delete", Destroys({"notifier_id"}))
    BY FineCommand
  <2> QED
    BY <2>1, <2>2 DEF Notifiers, AllFine
<1>5. AllFine(EnvVars) /\ AllFine(Addons)
  BY FineCommand DEF EnvVars, Addons, AllFine
<1> QED
  BY <1>2, <1>3, <1>4, <1>5

\* The other commands.
LEMMA FineOthers ==
    /\ AllFine(Projects) /\ AllFine(Events) /\ AllFine(OneOffs)
    /\ AllFine(Memories) /\ AllFine(Platform) /\ AllFine(Confirmations)
<1>1. Fine("projects.list", Unscoped(Lists({"region"})))
  BY DEF Fine, Unscoped, Lists, Command
<1>2. AllFine(Projects) /\ AllFine(Events) /\ AllFine(OneOffs)
  BY <1>1, FineCommand DEF Projects, Events, OneOffs, AllFine
<1>3. AllFine(Memories) /\ AllFine(Platform) /\ AllFine(Confirmations)
  BY FineCommand DEF Memories, Platform, Confirmations, AllFine
<1> QED
  BY <1>2, <1>3

\* Every command of the registry.
LEMMA CatalogueIsFine == \A command \in Spoken : Fine(command, Catalogue[command])
<1>1. AllFine(Entries)
  BY FineApps, FineDeployments, FineBelongings, FineOthers DEF AllFine, Entries
<1>2. ASSUME NEW command \in Spoken PROVE Fine(command, Catalogue[command])
  <2> DEFINE chosen == CHOOSE entry \in Entries : entry[1] = command
  <2>1. \E entry \in Entries : entry[1] = command
    BY DEF Spoken
  <2>2. chosen \in Entries /\ chosen[1] = command
    BY <2>1
  <2>3. Catalogue[command] = chosen[2]
    BY DEF Catalogue
  <2> HIDE DEF chosen
  <2> QED
    BY <1>1, <2>2, <2>3 DEF AllFine
<1> QED
  BY <1>2

\* The commands that are made of two.
LEMMA FirstIs ==
    /\ DOMAIN First = {"legacy.create_and_deploy", "legacy.show_logs"}
    /\ First["legacy.create_and_deploy"] = "apps.create"
    /\ First["legacy.show_logs"] = "deployments.list"
    /\ SecondOf["legacy.create_and_deploy"] = "deployments.create"
    /\ SecondOf["legacy.show_logs"] = "deployments.output"
BY DEF First, SecondOf, @@, :>

\* Their own names are not in the registry.
LEMMA FirstIsNotSpoken == DOMAIN First \intersect Spoken = {}
<1> DEFINE Ordinary(entries) ==
             \A entry \in entries : entry[1] \notin {"legacy.create_and_deploy", "legacy.show_logs"}
<1>1. Ordinary(Apps) /\ Ordinary(AppSettings) /\ Ordinary(AppFacilities)
  BY DEF Apps, AppSettings, AppFacilities
<1>2. Ordinary(Deployments) /\ Ordinary(Containers) /\ Ordinary(Autoscalers)
  BY DEF Deployments, Containers, Autoscalers
<1>3. Ordinary(Collaborators) /\ Ordinary(Domains) /\ Ordinary(LogDrains) /\ Ordinary(Notifiers)
  BY DEF Collaborators, Domains, LogDrains, Notifiers
<1>4. Ordinary(EnvVars) /\ Ordinary(Addons) /\ Ordinary(Projects) /\ Ordinary(Events)
  BY DEF EnvVars, Addons, Projects, Events
<1>5. Ordinary(OneOffs) /\ Ordinary(Memories) /\ Ordinary(Platform) /\ Ordinary(Confirmations)
  BY DEF OneOffs, Memories, Platform, Confirmations
<1>6. Ordinary(Entries)
  BY <1>1, <1>2, <1>3, <1>4, <1>5 DEF Entries
<1> QED
  BY <1>6, FirstIs DEF Spoken

\* What they are made of is.
LEMMA FirstIsSpoken ==
    \A command \in DOMAIN First : First[command] \in Spoken /\ SecondOf[command] \in Spoken
<1>1. <<"apps.create", Unscoped(Returns({"app_name", "region"}))>> \in Apps
  BY DEF Apps
<1>2. /\ <<"deployments.list", Lists({})>> \in Deployments
      /\ <<"deployments.create",
           [Returns({"github_repo"}) EXCEPT !.addresses = {"github_repo"}]>> \in Deployments
      /\ <<"deployments.output", Returns({"deployment_id"})>> \in Deployments
  BY DEF Deployments
<1>3. Apps \subseteq Entries /\ Deployments \subseteq Entries
  BY DEF Entries
<1>4. \A entry \in Entries : entry[1] \in Spoken
  BY DEF Spoken
<1>5. \A name, c : <<name, c>>[1] = name
  OBVIOUS
<1>6. /\ "apps.create" \in Spoken /\ "deployments.list" \in Spoken
      /\ "deployments.create" \in Spoken /\ "deployments.output" \in Spoken
  BY <1>1, <1>2, <1>3, <1>4, <1>5
<1> QED
  BY <1>6, FirstIs

-----------------------------------------------------------------------------
(* What a text says.                                                       *)

\* Of some places of a list one is the last: the set of those that are not
\* before it is the smallest such set.
LEMMA LastExists ==
    ASSUME NEW n \in Nat, NEW S \in SUBSET (1 .. n), S # {}
    PROVE  \E i \in S : \A j \in S : j <= i
<1> DEFINE from(i) == {j \in S : i <= j}
           tails == {from(i) : i \in S}
<1>1. IsFiniteSet(1 .. n)
  BY FS_Interval
<1>2. tails \subseteq FiniteSubsetsOf(S)
  BY <1>1, FS_Subset DEF FiniteSubsetsOf
<1>3. IsWellFoundedOn(StrictSubsetOrdering(S), FiniteSubsetsOf(S))
  BY FS_StrictSubsetOrderingWellFounded
<1>4. tails # {}
  OBVIOUS
<1> HIDE DEF tails
<1>5. PICK T \in tails : \A U \in tails : ~(<<U, T>> \in StrictSubsetOrdering(S))
  BY <1>2, <1>3, <1>4, WFMin, Zenon
<1> USE DEF tails
<1>6. PICK i \in S : T = from(i)
  BY <1>5
<1>7. ASSUME NEW j \in S, ~(j <= i) PROVE FALSE
  <2>1. \A m \in S : m \in Int
    OBVIOUS
  <2>2. i < j
    BY <1>7, <2>1
  <2>3. from(j) \subseteq from(i) /\ i \in from(i) /\ i \notin from(j)
    <3> HIDE DEF tails
    <3>1. ASSUME NEW m \in from(j) PROVE m \in from(i)
      <4>1. m \in S /\ j <= m
        OBVIOUS
      <4> QED
        BY <2>1, <2>2, <4>1
    <3>2. i \in from(i) /\ i \notin from(j)
      BY <2>1, <2>2
    <3> QED
      BY <3>1, <3>2
  <2>4. <<from(j), T>> \in StrictSubsetOrdering(S)
    BY <1>6, <2>3 DEF StrictSubsetOrdering
  <2> QED
    BY <1>5, <2>4
<1> QED
  BY <1>7

\* And one is the first.
LEMMA FirstExists ==
    ASSUME NEW n \in Nat, NEW S \in SUBSET (1 .. n), S # {}
    PROVE  \E i \in S : \A j \in S : i <= j
<1> DEFINE R == {n + 1 - i : i \in S}
<1>1. R \in SUBSET (1 .. n) /\ R # {}
  <2>1. \A i \in S : n + 1 - i \in 1 .. n
    OBVIOUS
  <2> QED
    BY <2>1
<1>2. PICK r \in R : \A j \in R : j <= r
  BY <1>1, LastExists
<1>3. PICK i \in S : r = n + 1 - i
  BY <1>2
<1>4. \A j \in S : n + 1 - j <= n + 1 - i
  BY <1>2, <1>3
<1>5. \A j \in S : j \in Int
  OBVIOUS
<1> HIDE DEF R
<1> QED
  BY <1>4, <1>5

\* What the models found in a text.
LEMMA FoundIs ==
    ASSUME NEW text \in Texts
    PROVE  /\ Len(text.found) \in Nat /\ DOMAIN text.found = 1 .. Len(text.found)
           /\ \A i \in DOMAIN text.found :
                text.found[i].key \in Keys /\ text.found[i].word \in Words
<1>1. text.found \in Seq([key : Keys, word : Words, score : Int])
  BY TextsAssumption
<1>2. \A i \in 1 .. Len(text.found) : text.found[i] \in [key : Keys, word : Words, score : Int]
  BY <1>1, ElementOfSeq
<1> QED
  BY <1>1, <1>2, LenProperties

\* The places where a text names an entity, and those of them without repetitions.
Mentions(text, k) == {i \in 1 .. Len(text.found) :
                        /\ text.found[i].key = k
                        /\ k \in Known /\ text.found[i].score >= MinEntity}
NewMentions(text, k) == {i \in Mentions(text, k) : \A j \in Mentions(text, k) :
                           j < i => text.found[j].word # text.found[i].word}

\* The places of a list that are kept for an entity that no rule has found.
LEMMA KeptIs ==
    ASSUME NEW text \in Texts, NEW k
    PROVE  /\ NewMentions(text, k) \subseteq 1 .. Len(text.found)
           /\ NewMentions(text, k) = {i \in Extracted(text.found) : text.found[i].key = k}
           /\ Mentions(text, k) # {} =>
                \E i \in NewMentions(text, k) : \A j \in NewMentions(text, k) : j <= i
<1> DEFINE spoken == {i \in 1 .. Len(text.found) :
                        /\ text.found[i].key = k
                        /\ k \in Known /\ text.found[i].score >= MinEntity}
           fresh == {i \in spoken : \A j \in spoken :
                       j < i => text.found[j].word # text.found[i].word}
<1>0. spoken = Mentions(text, k) /\ fresh = NewMentions(text, k)
  BY DEF Mentions, NewMentions
<1>1. fresh = {i \in Extracted(text.found) : text.found[i].key = k}
  BY FoundIs DEF Extracted
<1>2. ASSUME spoken # {} PROVE fresh # {}
  <2>1. PICK i \in spoken : \A j \in spoken : i <= j
    BY <1>2, FoundIs, FirstExists
  <2>2. i \in fresh
    BY <2>1, FoundIs
  <2> QED
    BY <2>2
<1>3. ASSUME spoken # {} PROVE \E i \in fresh : \A j \in fresh : j <= i
  BY <1>2, <1>3, FoundIs, LastExists
<1>4. fresh \subseteq 1 .. Len(text.found)
  OBVIOUS
<1> HIDE DEF spoken, fresh
<1> QED
  BY <1>0, <1>1, <1>3, <1>4

\* What the histories take the session to get is what the NLU service passes on.
LEMMA KeptIsEntities ==
    ASSUME NEW text \in Texts
    PROVE  Kept(text) = Entities(text)
<1> DEFINE found == text.found
           rules == RuleWords(text.rules)
           kept == Overridden(found, rules)
           spoken(k) == Mentions(text, k)
           fresh(k) == NewMentions(text, k)
           Last(k) == CHOOSE i \in fresh(k) : \A j \in fresh(k) : j <= i
           LastOf(k) == CHOOSE i \in kept :
                          found[i].key = k /\ \A j \in kept : found[j].key = k => j <= i
           keys == DOMAIN rules \union {k \in Keys \ {"app_name"} : spoken(k) # {}}
           keysOf == DOMAIN rules \union {found[i].key : i \in kept}
<1>1. Kept(text) = [k \in keys |-> IF k \in DOMAIN rules THEN text.rules[k]
                                   ELSE found[Last(k)].word]
  <2>1. DOMAIN rules = {k \in DOMAIN text.rules :
                          k = "app_name" => text.rules[k] \notin RegionNames}
    BY DEF RuleWords
  <2> QED
    BY <2>1 DEF Kept, Mentions, NewMentions
<1>2. Entities(text) = [k \in keysOf |-> IF k \in DOMAIN rules THEN rules[k]
                                         ELSE found[LastOf(k)].word]
  BY DEF Entities
<1>3. \A k \in DOMAIN rules : rules[k] = text.rules[k]
  BY DEF RuleWords
<1>4. ASSUME NEW k, k \notin DOMAIN rules, k # "app_name"
      PROVE  /\ fresh(k) = {i \in kept : found[i].key = k}
             /\ spoken(k) # {} => \E i \in fresh(k) : \A j \in fresh(k) : j <= i
  <2>1. fresh(k) = {i \in Extracted(found) : found[i].key = k}
    BY KeptIs
  <2>2. \A i : i \in kept /\ found[i].key = k <=> i \in Extracted(found) /\ found[i].key = k
    BY <1>4 DEF Overridden
  <2>3. spoken(k) # {} => \E i \in fresh(k) : \A j \in fresh(k) : j <= i
    BY KeptIs
  <2> HIDE DEF fresh, spoken, kept
  <2> QED
    BY <2>1, <2>2, <2>3
<1>5. kept \subseteq 1 .. Len(found) /\ \A i \in kept : found[i].key \in Keys
  BY FoundIs DEF Overridden, Extracted
<1>6. \A i \in kept : found[i].key \notin DOMAIN rules /\ found[i].key # "app_name"
  BY DEF Overridden
<1> HIDE DEF rules, kept
<1>7. keys = keysOf
  <2>1. ASSUME NEW k \in keys PROVE k \in keysOf
    BY <1>4, <2>1
  <2>2. ASSUME NEW i \in kept PROVE found[i].key \in keys
    <3>1. i \in fresh(found[i].key)
      BY <1>4, <1>6, <2>2
    <3>2. found[i].key \in Keys \ {"app_name"} /\ spoken(found[i].key) # {}
      BY <1>5, <1>6, <2>2, <3>1 DEF NewMentions
    <3> QED
      BY <3>2
  <2> QED
    BY <2>1, <2>2
<1>8. ASSUME NEW k \in keys, k \notin DOMAIN rules
      PROVE  Last(k) = LastOf(k)
  <2>1. /\ spoken(k) # {} /\ k # "app_name"
        /\ fresh(k) = {i \in kept : found[i].key = k}
    BY <1>4, <1>8
  <2>2. PICK i \in fresh(k) : \A j \in fresh(k) : j <= i
    BY <1>4, <1>8, <2>1
  <2>3. fresh(k) \subseteq Int
    BY FoundIs, KeptIs
  <2> HIDE DEF fresh
  <2>4. Last(k) \in fresh(k) /\ \A j \in fresh(k) : j <= Last(k)
    BY <2>2
  <2>5. LastOf(k) \in fresh(k) /\ \A j \in fresh(k) : j <= LastOf(k)
    <3> DEFINE P(m) == found[m].key = k /\ \A j \in kept : found[j].key = k => j <= m
    <3>1. \E m \in kept : P(m)
      BY <2>1, <2>2
    <3>2. LastOf(k) \in kept /\ P(LastOf(k))
      BY <3>1
    <3> QED
      BY <2>1, <3>2
  <2> HIDE DEF Last, LastOf
  <2> QED
    BY <2>3, <2>4, <2>5
<1> HIDE DEF keys, keysOf, Last, LastOf
<1> QED
  BY <1>1, <1>2, <1>3, <1>7, <1>8

\* They are a dictionary.
LEMMA EntitiesIsDictionary ==
    ASSUME NEW text \in Texts
    PROVE  IsDictionary(Entities(text))
<1>1. IsDictionary(RuleWords(text.rules))
  BY TextsAssumption DEF RuleWords, IsDictionary
<1>2. ASSUME NEW k \in DOMAIN Entities(text), k \notin DOMAIN RuleWords(text.rules)
      PROVE  k \in Keys /\ Entities(text)[k] \in Words
  <2> DEFINE kept == Overridden(text.found, RuleWords(text.rules))
             P(i) == text.found[i].key = k /\ \A j \in kept : text.found[j].key = k => j <= i
  <2>1. PICK i \in kept : text.found[i].key = k
    BY <1>2 DEF Entities
  <2>2. kept \subseteq 1 .. Len(text.found)
    BY FoundIs DEF Overridden, Extracted
  <2> HIDE DEF kept
  <2>3. \E m \in kept : P(m)
    <3> DEFINE S == {m \in kept : text.found[m].key = k}
    <3>1. S \in SUBSET (1 .. Len(text.found)) /\ S # {}
      BY <2>1, <2>2
    <3>2. PICK m \in S : \A j \in S : j <= m
      BY <3>1, FoundIs, LastExists
    <3> QED
      BY <3>2
  <2>4. (CHOOSE m \in kept : P(m)) \in kept
    BY <2>3
  <2>5. Entities(text)[k] = text.found[CHOOSE m \in kept : P(m)].word
    BY <1>2 DEF Entities, kept
  <2> QED
    BY <2>1, <2>2, <2>4, <2>5, FoundIs
<1>3. \A k \in DOMAIN RuleWords(text.rules) :
        k \in DOMAIN Entities(text) /\ Entities(text)[k] = RuleWords(text.rules)[k]
  BY DEF Entities
<1> QED
  BY <1>1, <1>2, <1>3 DEF IsDictionary

\* What a text says: a dictionary of more than the NLU service passes on, in
\* which the words of its rule come first.
LEMMA SaysIs ==
    ASSUME NEW text \in Texts
    PROVE  /\ IsDictionary(Says(text))
           /\ DOMAIN Entities(text) \subseteq DOMAIN Says(text)
           /\ \A k \in DOMAIN text.captures :
                k \in DOMAIN Says(text) /\ Says(text)[k] = text.captures[k]
<1> DEFINE named == {text.found[i].key : i \in DOMAIN text.found}
           P(k, i) == text.found[i].key = k
                        /\ \A j \in DOMAIN text.found : text.found[j].key = k => j <= i
           lastOf(k) == CHOOSE i \in DOMAIN text.found : P(k, i)
           last == [k \in named |-> text.found[lastOf(k)].word]
           rules == RuleWords(text.rules)
<1>1. Says(text) = (text.captures @@ rules) @@ last
  BY DEF Says
<1>2. IsDictionary(rules) /\ IsDictionary(text.captures)
  BY TextsAssumption DEF RuleWords, IsDictionary
<1>3. ASSUME NEW k \in named PROVE k \in Keys /\ text.found[lastOf(k)].word \in Words
  <2> DEFINE S == {i \in DOMAIN text.found : text.found[i].key = k}
  <2>1. S \in SUBSET (1 .. Len(text.found)) /\ S # {}
    BY FoundIs
  <2>2. PICK i \in S : \A j \in S : j <= i
    BY <2>1, FoundIs, LastExists
  <2>3. i \in DOMAIN text.found /\ P(k, i)
    BY <2>2
  <2> HIDE DEF P
  <2>4. lastOf(k) \in DOMAIN text.found
    BY <2>3
  <2> QED
    BY <1>3, <2>4, FoundIs
<1>4. IsDictionary(last)
  BY <1>3 DEF IsDictionary
<1>5. DOMAIN Entities(text) \subseteq DOMAIN rules \union named
  <2>1. Overridden(text.found, rules) \subseteq DOMAIN text.found
    BY DEF Overridden, Extracted
  <2> QED
    BY <2>1 DEF Entities
<1>6. DOMAIN last = named
  OBVIOUS
<1> HIDE DEF rules, last, named
<1>7. /\ DOMAIN (text.captures @@ rules) = DOMAIN text.captures \union DOMAIN rules
      /\ DOMAIN Says(text) = DOMAIN (text.captures @@ rules) \union DOMAIN last
  BY <1>1, MergeDomain
<1>8. ASSUME NEW k \in DOMAIN text.captures
      PROVE  k \in DOMAIN Says(text) /\ Says(text)[k] = text.captures[k]
  <2>1. k \in DOMAIN (text.captures @@ rules)
    BY <1>7
  <2>2. (text.captures @@ rules)[k] = text.captures[k]
    BY MergeLeft
  <2>3. Says(text)[k] = (text.captures @@ rules)[k]
    BY <1>1, <2>1, MergeLeft
  <2> QED
    BY <1>7, <2>1, <2>2, <2>3
<1>9. IsDictionary(Says(text))
  BY <1>1, <1>2, <1>4, MergeIsDictionary
<1> QED
  BY <1>5, <1>6, <1>7, <1>8, <1>9

-----------------------------------------------------------------------------
(* What the engine answers.                                                *)

\* What is missing is not there, and belongs to the target or is required.
LEMMA MissingIs ==
    ASSUME NEW command, NEW entities, NEW scope,
           NEW k \in Missing(command, entities, scope)
    PROVE  /\ k \notin DOMAIN entities
           /\ k \in {"app_name", "region"} \union Catalogue[command].required
BY DEF Missing

\* When nothing is missing, what is required is there.
LEMMA NothingMissing ==
    ASSUME NEW command, NEW entities, NEW scope, Missing(command, entities, scope) = {}
    PROVE  /\ Catalogue[command].required \subseteq DOMAIN entities
           /\ LET target == Target(entities, scope)
              IN Catalogue[command].scoped /\ None \in {target.app, target.region} =>
                   "app_name" \in DOMAIN entities /\ (scope = None => "region" \in DOMAIN entities)
BY DEF Missing

\* What an answer is made of.
Fields == {"kind", "missing", "sent", "used"}

\* The answers of a handler that sends a request.
IsHandled(command, entities, scope, r) ==
    LET target == Destination(command, entities, scope)
        c == Catalogue[command]
        bad == \/ Unusable(command, entities)
               \/ target.region \notin Regions
               \/ c.scoped /\ target.app = None
    IN /\ r.used = entities /\ Fields \subseteq DOMAIN r
       /\ r.kind \in {"warning", "cut", "success", "error", "broken"}
       /\ r.kind = "success" => r.sent # <<>>
       /\ \/ r.sent = <<>>
          \/ /\ \E sent : r.sent = <<sent>> /\ sent.target = target
             /\ r.kind # "cut" /\ ~bad
       /\ r.kind = "cut" => bad

\* A handler warns, cuts the connection off, or sends.
LEMMA HandledIs ==
    ASSUME NEW command, NEW entities, NEW scope, NEW answer
    PROVE  IsHandled(command, entities, scope, Handled(command, entities, scope, answer))
<1> DEFINE target == Destination(command, entities, scope)
           c == Catalogue[command]
           r == Handled(command, entities, scope, answer)
           unclear == \E k \in c.flags : entities[k] \notin Booleans
           bad == \/ Unusable(command, entities)
                  \/ target.region \notin Regions
                  \/ c.scoped /\ target.app = None
           sent == [command |-> command, target |-> target, payload |-> Payload(command, answer)]
           kind == IF answer = "raises" THEN "broken" ELSE Status(command, Payload(command, answer))
<1>1. CASE unclear
  <2>1. r = Reply("warning", command, entities)
    BY <1>1 DEF Handled
  <2>2. /\ r.used = entities /\ r.kind = "warning" /\ r.sent = <<>>
        /\ Fields \subseteq DOMAIN r
    BY <2>1 DEF Reply, Silence, Fields
  <2> QED
    BY <2>2 DEF IsHandled
<1>2. CASE ~unclear /\ bad
  <2>1. r = Reply("cut", command, entities)
    BY <1>2 DEF Handled
  <2>2. /\ r.used = entities /\ r.kind = "cut" /\ r.sent = <<>>
        /\ Fields \subseteq DOMAIN r
    BY <2>1 DEF Reply, Silence, Fields
  <2> HIDE DEF r
  <2> QED
    BY <1>2, <2>2 DEF IsHandled, r
<1>3. CASE ~unclear /\ ~bad
  <2>1. r = [Reply(kind, command, entities) EXCEPT !.sent = <<sent>>]
    BY <1>3 DEF Handled
  <2>2. kind \in {"success", "error", "broken"}
    BY DEF Status
  <2>3. /\ r.used = entities /\ r.kind \in {"success", "error", "broken"} /\ r.sent = <<sent>>
        /\ Fields \subseteq DOMAIN r
    BY <2>1, <2>2 DEF Reply, Silence, Fields
  <2>4. sent.target = target
    OBVIOUS
  <2> HIDE DEF sent, r, kind
  <2> QED
    BY <1>3, <2>3, <2>4 DEF IsHandled, r
<1> QED
  BY <1>1, <1>2, <1>3

\* The answers of the engine.
IsExecuted(command, entities, scope, r) ==
    /\ r.used = entities /\ Fields \subseteq DOMAIN r
    /\ r.kind = "missing" => r.missing = Missing(command, entities, scope)
    /\ r.kind = "success" /\ Catalogue[command].without # "local" => r.sent # <<>>
    /\ r.sent # <<>> \/ r.kind = "cut" =>
         /\ Catalogue[command].without # "local"
         /\ Missing(command, entities, scope) = {}
         /\ IsHandled(command, entities, scope, r)
    /\ r.sent # <<>> => r.kind \notin {"cut", "missing"}

\* The engine asks, or hands on.
LEMMA ExecutedIs ==
    ASSUME NEW command, NEW entities, NEW scope, NEW confirmed, NEW answer
    PROVE  IsExecuted(command, entities, scope,
                      Executed(command, entities, scope, confirmed, answer))
<1> DEFINE c == Catalogue[command]
           r == Executed(command, entities, scope, confirmed, answer)
<1>1. CASE c.destructive /\ ~confirmed
  <2>1. r = Reply("confirmation", command, entities)
    BY <1>1 DEF Executed
  <2>2. /\ r.used = entities /\ r.kind = "confirmation" /\ r.sent = <<>>
        /\ Fields \subseteq DOMAIN r
    BY <2>1 DEF Reply, Silence, Fields
  <2> QED
    BY <2>2 DEF IsExecuted
<1>2. CASE ~(c.destructive /\ ~confirmed) /\ Missing(command, entities, scope) # {}
  <2>1. r = [Reply("missing", command, entities)
               EXCEPT !.missing = Missing(command, entities, scope)]
    BY <1>2 DEF Executed
  <2>2. /\ r.used = entities /\ r.kind = "missing" /\ r.sent = <<>> /\ Fields \subseteq DOMAIN r
        /\ r.missing = Missing(command, entities, scope)
    BY <2>1 DEF Reply, Silence, Fields
  <2> QED
    BY <2>2 DEF IsExecuted
<1>3. CASE /\ ~(c.destructive /\ ~confirmed) /\ Missing(command, entities, scope) = {}
           /\ c.without = "local"
  <2>1. r = HandledLocally(command, entities)
    BY <1>3 DEF Executed
  <2>2. PICK kind \in {"success", "warning", "error"} :
          HandledLocally(command, entities) = Reply(kind, command, entities)
    <3>1. CASE command \in {"memory.forget", "memory.pin"}
      BY <3>1 DEF HandledLocally
    <3>2. CASE command = "batch.execute"
      BY <3>2 DEF HandledLocally
    <3>3. CASE command \notin {"memory.forget", "memory.pin", "batch.execute"}
      BY <3>3 DEF HandledLocally
    <3> QED
      BY <3>1, <3>2, <3>3
  <2>3. /\ r.used = entities /\ r.kind \in {"success", "warning", "error"} /\ r.sent = <<>>
        /\ Fields \subseteq DOMAIN r
    BY <2>1, <2>2 DEF Reply, Silence, Fields
  <2> QED
    BY <1>3, <2>3 DEF IsExecuted
<1>4. CASE /\ ~(c.destructive /\ ~confirmed) /\ Missing(command, entities, scope) = {}
           /\ c.without # "local"
  <2>1. r = Handled(command, entities, scope, answer)
    BY <1>4 DEF Executed
  <2>2. IsHandled(command, entities, scope, r)
    BY <2>1, HandledIs
  <2> HIDE DEF r
  <2>3. /\ r.used = entities /\ r.kind # "missing" /\ Fields \subseteq DOMAIN r
        /\ r.kind = "success" => r.sent # <<>>
        /\ r.sent # <<>> => r.kind # "cut"
    BY <2>2 DEF IsHandled
  <2>4. IsExecuted(command, entities, scope, r)
    BY <1>4, <2>2, <2>3 DEF IsExecuted
  <2> QED
    BY <2>4 DEF r
<1> QED
  BY <1>1, <1>2, <1>3, <1>4

-----------------------------------------------------------------------------
(* Where the words of a command come from.                                 *)

\* w is what d has for k, under one of its names.
Names(d, k, w) == \E n \in NamesOf(k) : n \in DOMAIN d /\ d[n] = w

\* What a normalised dictionary has, the dictionary has.
LEMMA NormalizedNames ==
    ASSUME NEW d, NEW k \in DOMAIN Normalized(d)
    PROVE  Names(d, k, Normalized(d)[k])
<1>1. CASE k \in DOMAIN d
  BY <1>1, NormalizedIs DEF Names, NamesOf
<1>2. CASE k \notin DOMAIN d
  <2>1. k \in DOMAIN Older /\ Older[k] \in DOMAIN d
    BY <1>2, NormalizedIs DEF NamesOf
  <2> QED
    BY <1>2, <2>1, NormalizedIs DEF Names, NamesOf
<1> QED
  BY <1>1, <1>2

\* A command is given words of the merged entities or of the message.
LEMMA ForCommandIs ==
    ASSUME NEW command, NEW merged, NEW current,
           NEW k \in DOMAIN ForCommand(command, merged, current)
    PROVE  LET w == ForCommand(command, merged, current)[k]
           IN \/ k \in DOMAIN merged /\ w = merged[k]
              \/ k \in DOMAIN current /\ w = current[k]
<1>1. ASSUME NEW m, k \in DOMAIN (current @@ m)
      PROVE  \/ k \in DOMAIN current /\ (current @@ m)[k] = current[k]
             \/ k \in DOMAIN m /\ (current @@ m)[k] = m[k]
  BY <1>1 DEF @@
<1>2. k \in DOMAIN Drop(merged, {"app_name", "region"}) =>
        k \in DOMAIN merged /\ Drop(merged, {"app_name", "region"})[k] = merged[k]
  BY DEF Drop
<1> QED
  BY <1>1, <1>2 DEF ForCommand

\* To a plain command the message comes first, then all that was merged.
LEMMA ForPlainCommand ==
    ASSUME NEW command, NEW merged, NEW current,
           command # "confirm", ~Catalogue[command].destructive
    PROVE  ForCommand(command, merged, current) = current @@ merged
BY DEF ForCommand

\* What a command is given is a dictionary.
LEMMA ForCommandIsDictionary ==
    ASSUME NEW command, NEW merged, NEW current, IsDictionary(merged), IsDictionary(current)
    PROVE  IsDictionary(ForCommand(command, merged, current))
BY MergeIsDictionary, DropIsDictionary DEF ForCommand

\* The words of a text and of its rule.
LEMMA CurrentIsDictionary ==
    ASSUME NEW text \in Texts
    PROVE  IsDictionary(Current(text)) /\ IsDictionary(text.captures)
BY EntitiesIsDictionary, TextsAssumption DEF Current

\* What the proofs use of a turn that has a command: its text, and that the
\* session has the words of the text.
InSession(text) == text \in Texts /\ session = Entities(text) @@ session

\* What is merged is a dictionary.
LEMMA MergedIsDictionary ==
    ASSUME NEW text \in Texts, IsDictionary(session)
    PROVE  IsDictionary(Merged(text))
BY MergeIsDictionary, CurrentIsDictionary DEF Merged

\* The words of a turn's command were said in the session or captured by the
\* rule.
LEMMA WordsOfTurn ==
    ASSUME NEW text, InSession(text), NEW command,
           NEW k \in DOMAIN ForCommand(command, Normalized(Merged(text)), Normalized(Current(text)))
    PROVE  LET w == ForCommand(command, Normalized(Merged(text)), Normalized(Current(text)))[k]
           IN Names(session, k, w) \/ Names(text.captures, k, w)
<1> DEFINE w == ForCommand(command, Normalized(Merged(text)), Normalized(Current(text)))[k]
<1>1. \/ k \in DOMAIN Normalized(Merged(text)) /\ w = Normalized(Merged(text))[k]
      \/ k \in DOMAIN Normalized(Current(text)) /\ w = Normalized(Current(text))[k]
  BY ForCommandIs
<1>2. Names(Merged(text), k, w) \/ Names(Current(text), k, w)
  BY <1>1, NormalizedNames
<1> HIDE DEF w
<1>3. \A n \in DOMAIN Merged(text) :
        \/ n \in DOMAIN text.captures /\ Merged(text)[n] = text.captures[n]
        \/ n \in DOMAIN session /\ Merged(text)[n] = session[n]
  BY DEF Merged, @@
<1>4. \A n \in DOMAIN Entities(text) : n \in DOMAIN session /\ session[n] = Entities(text)[n]
  <2>1. \A n \in DOMAIN Entities(text) :
          /\ n \in DOMAIN (Entities(text) @@ session)
          /\ (Entities(text) @@ session)[n] = Entities(text)[n]
    BY DEF @@
  <2> QED
    BY <2>1 DEF InSession
<1>5. \A n \in DOMAIN Current(text) :
        \/ n \in DOMAIN text.captures /\ Current(text)[n] = text.captures[n]
        \/ n \in DOMAIN session /\ Current(text)[n] = session[n]
  BY <1>4 DEF Current
<1> QED
  BY <1>2, <1>3, <1>5 DEF Names, w

\* A word that cannot be converted is none under whichever name it was said.
LEMMA BadUnderAnyName ==
    ASSUME NEW d, NEW k, NEW w, Names(d, k, w), IsBad(k, w)
    PROVE  \E n \in DOMAIN d : IsBad(n, d[n])
<1>1. PICK n \in NamesOf(k) : n \in DOMAIN d /\ d[n] = w
  BY DEF Names
<1>2. k \in {"region", "amount", "container_amount", "github_repo", "notifier_patch"}
           \union AutoscalerNumbers
  BY DEF IsBad
<1>3. n = k \/ (k = "amount" /\ n = "container_amount")
  BY <1>1, <1>2, OlderIs DEF NamesOf, AutoscalerNumbers
<1>4. IsBad(n, w)
  BY <1>3 DEF IsBad
<1> QED
  BY <1>1, <1>4

\* An entity that was said, under any name, is there for a plain command.
LEMMA SaidIsThere ==
    ASSUME NEW text, InSession(text), NEW command,
           command # "confirm", ~Catalogue[command].destructive,
           NEW k, NamesOf(k) \intersect DOMAIN session # {}
    PROVE  k \in DOMAIN ForCommand(command, Normalized(Merged(text)), Normalized(Current(text)))
<1>1. DOMAIN session \subseteq DOMAIN Merged(text)
  BY MergeDomain DEF Merged
<1>2. k \in DOMAIN Normalized(Merged(text))
  BY <1>1, NormalizedIs
<1>3. k \in DOMAIN (Normalized(Current(text)) @@ Normalized(Merged(text)))
  BY <1>2, MergeDomain
<1> QED
  BY <1>3, ForPlainCommand

-----------------------------------------------------------------------------
(* The inductive invariant.                                                *)

\* A conversation begins with nothing said and nothing known.
LEMMA DialogueInit == Init => DialogueInv
BY EmptyIsDictionary
   DEF Init, DialogueInv, MemoryInv, SaidInv, HeardInv, DecidedInv, SecondInv, Idle, Silence,
       IsDictionary

\* The end of a turn leaves nothing to be known of it.
LEMMA EndStep ==
    ASSUME NEW answer, End(answer), Len(answer.sent) <= 2, MemoryInv', SaidInv'
    PROVE  DialogueInv'
BY DEF End, Idle, DialogueInv, HeardInv, DecidedInv, SecondInv

\* The session and the histories change together.
LEMMA SaidKept ==
    ASSUME DialogueInv, UNCHANGED <<session, history>>
    PROVE  SaidInv'
BY DEF DialogueInv, SaidInv, history

\* An accepted intent is a command, or none.
LEMMA IntentIs ==
    ASSUME NEW text \in Texts
    PROVE  Intent(text, None) \in Spoken \union {None}
<1>1. text.ranking \in Seq([intent : Spoken \union {None}, score : Int])
  BY TextsAssumption
<1>2. ASSUME Action(text.ranking) = "accept" PROVE 1 \in 1 .. Len(text.ranking)
  <2>1. ~(Score(text.ranking, 1) < MinConfidence)
    BY <1>2 DEF Action
  <2>2. 1 <= Len(text.ranking)
    BY <2>1, ThresholdAssumption DEF Score
  <2>3. Len(text.ranking) \in Nat
    BY <1>1, LenProperties
  <2> QED
    BY <2>2, <2>3
<1>3. ASSUME Action(text.ranking) = "accept" PROVE text.ranking[1] \in [intent : Spoken \union {None}, score : Int]
  BY <1>1, <1>2, <1>3, ElementOfSeq
<1> QED
  BY <1>3 DEF Intent

\* The command of a text.
LEMMA ResolvedIs ==
    ASSUME NEW text \in Texts, Resolved(text) # None
    PROVE  Resolved(text) \in Spoken \union DOMAIN First
<1>1. text.rule \in Spoken \union {None, "legacy.create_and_deploy", "legacy.show_logs"}
  BY TextsAssumption
<1> QED
  BY <1>1, IntentIs, FirstIs DEF Resolved, RuleOf

\* What a text says goes into the session, but for what the histories mark.
LEMMA RecallStep ==
    ASSUME SaidInv, NEW text \in Texts, Recall(text), session' = Entities(text) @@ session
    PROVE  /\ SaidInv'
           /\ \A k \in DOMAIN Says(text) :
                /\ k \in DOMAIN said' /\ said'[k] = Says(text)[k] /\ k \notin shadowed'
                /\ k \notin DOMAIN Entities(text) => k \in missed'
           /\ \A k \in DOMAIN Older \intersect DOMAIN said' :
                Older[k] \in DOMAIN Says(text) /\ k \notin DOMAIN Says(text) => k \in shadowed'
<1> DEFINE says == Says(text)
           heard == Entities(text)
<1>1. /\ IsDictionary(says) /\ DOMAIN heard \subseteq DOMAIN says
      /\ Kept(text) = heard
  BY SaysIs, KeptIsEntities
<1>2. /\ said' = says @@ said
      /\ missed' = (missed \ DOMAIN says) \union MissedIn(text)
      /\ shadowed' = (shadowed \ DOMAIN says) \union ShadowedIn(text)
  BY DEF Recall
<1>3. MissedIn(text) = {k \in DOMAIN says : k \notin DOMAIN heard \/ heard[k] # says[k]}
  BY <1>1 DEF MissedIn
<1>4. ShadowedIn(text) = {k \in DOMAIN Older \intersect DOMAIN said :
                            Older[k] \in DOMAIN says /\ k \notin DOMAIN says}
  BY DEF ShadowedIn
<1> HIDE DEF says, heard
<1>5. /\ DOMAIN said' = DOMAIN says \union DOMAIN said
      /\ \A k \in DOMAIN says : said'[k] = says[k]
      /\ \A k \in DOMAIN said : k \notin DOMAIN says => said'[k] = said[k]
  BY <1>2 DEF @@
<1>6. /\ DOMAIN session' = DOMAIN heard \union DOMAIN session
      /\ \A k \in DOMAIN heard : session'[k] = heard[k]
      /\ \A k \in DOMAIN session : k \notin DOMAIN heard => session'[k] = session[k]
  <2>1. session' = heard @@ session
    BY DEF heard
  <2> QED
    BY <2>1 DEF @@
<1>7. IsDictionary(said')
  BY <1>1, <1>2, MergeIsDictionary DEF SaidInv
<1>8. DOMAIN session' \subseteq DOMAIN said'
  BY <1>1, <1>5, <1>6 DEF SaidInv
<1>9. ASSUME NEW k \in DOMAIN said' \ missed'
      PROVE  k \in DOMAIN session' /\ session'[k] = said'[k]
  <2>1. CASE k \in DOMAIN says
    BY <1>2, <1>3, <1>5, <1>6, <1>9, <2>1
  <2>2. CASE k \notin DOMAIN says
    <3>1. k \in DOMAIN said /\ k \notin missed /\ k \notin DOMAIN heard
      BY <1>1, <1>2, <1>5, <1>9, <2>2
    <3> QED
      BY <1>5, <1>6, <2>2, <3>1 DEF SaidInv
  <2> QED
    BY <2>1, <2>2
<1>10. missed' \subseteq DOMAIN said'
  BY <1>2, <1>3, <1>5 DEF SaidInv
<1>11. shadowed' \subseteq DOMAIN Older \intersect DOMAIN said'
  BY <1>2, <1>4, <1>5 DEF SaidInv
<1>12. SaidInv'
  BY <1>7, <1>8, <1>9, <1>10, <1>11 DEF SaidInv
<1>13. \A k \in DOMAIN says :
         /\ k \in DOMAIN said' /\ said'[k] = says[k] /\ k \notin shadowed'
         /\ k \notin DOMAIN heard => k \in missed'
  BY <1>2, <1>3, <1>4, <1>5
<1>14. \A k \in DOMAIN Older \intersect DOMAIN said' :
         Older[k] \in DOMAIN says /\ k \notin DOMAIN says => k \in shadowed'
  BY <1>2, <1>4, <1>5
<1> QED
  BY <1>12, <1>13, <1>14 DEF says, heard

\* The facts take what is certain.
LEMMA RememberStep ==
    ASSUME DialogueInv, Remember
    PROVE  DialogueInv'
<1> DEFINE text == turn.text
<1> USE DEF DialogueInv, MemoryInv
<1>1. text \in Texts
  BY DEF Remember
<1>2. session' = Entities(text) @@ session /\ Recall(text)
  BY DEF Remember, Remembered
<1>3. IsDictionary(session')
  BY <1>1, <1>2, EntitiesIsDictionary, MergeIsDictionary
<1>4. IsDictionary(facts')
  <2>1. ASSUME NEW keeps, facts' = Drop(Entities(text), keeps) @@ facts
        PROVE  IsDictionary(facts')
    BY <1>1, <2>1, EntitiesIsDictionary, DropIsDictionary, MergeIsDictionary
  <2> QED
    BY <2>1 DEF Remember
<1>5. MemoryInv' /\ SaidInv'
  BY <1>1, <1>2, <1>3, <1>4, RecallStep DEF Remember
<1>6. CASE Resolved(text) = None
  <2>1. PICK kind \in {"unrecognised", "clarify"} : End([Silence EXCEPT !.kind = kind])
    BY <1>6 DEF Remember, Remembered
  <2>2. Len([Silence EXCEPT !.kind = kind].sent) <= 2
    BY DEF Silence
  <2> HIDE DEF DialogueInv, MemoryInv
  <2> QED
    BY <1>5, <2>1, <2>2, EndStep
<1>7. CASE Resolved(text) # None
  <2>1. /\ turn' = [step |-> "decided", text |-> text, command |-> Resolved(text),
                    merged |-> IF ByRule(text) THEN text.captures @@ session' ELSE session']
        /\ reply' = reply
    BY <1>2, <1>7 DEF Remember, Remembered
  <2>2. (turn.merged = Merged(turn.text))'
    BY <2>1 DEF Merged
  <2>3. session' = Entities(text) @@ session'
    BY <1>2, MergeAgain
  <2>4. Resolved(text) \in Spoken \union DOMAIN First
    BY <1>1, <1>7, ResolvedIs
  <2>5. DecidedInv'
    <3>1. turn'.text = text /\ turn'.command = Resolved(text) /\ turn'.step = "decided"
      BY <2>1
    <3> QED
      BY <1>1, <2>2, <2>3, <2>4, <3>1 DEF DecidedInv
  <2>6. SecondInv'
    BY <2>1 DEF SecondInv
  <2>7. HeardInv'
    <3>1. turn'.text = text
      BY <2>1
    <3> QED
      BY <1>1, <1>2, <3>1, RecallStep DEF HeardInv
  <2> QED
    BY <1>5, <2>1, <2>5, <2>6, <2>7
<1> QED
  BY <1>6, <1>7

\* A turn that is decided has the words of its text in the session.
LEMMA DecidedIs ==
    ASSUME DialogueInv, turn.step = "decided"
    PROVE  /\ InSession(turn.text) /\ turn.merged = Merged(turn.text)
           /\ turn.command \in Spoken \union DOMAIN First
           /\ \A command : EntitiesOfTurn(command) =
                ForCommand(command, Normalized(Merged(turn.text)), Normalized(Current(turn.text)))
           /\ \A command : IsDictionary(EntitiesOfTurn(command))
<1>1. /\ InSession(turn.text) /\ turn.merged = Merged(turn.text)
      /\ turn.command \in Spoken \union DOMAIN First
  BY DEF DialogueInv, DecidedInv, InSession
<1>2. IsDictionary(Merged(turn.text)) /\ IsDictionary(Current(turn.text))
  BY <1>1, MergedIsDictionary, CurrentIsDictionary DEF DialogueInv, MemoryInv, InSession
<1>3. IsDictionary(Normalized(Merged(turn.text))) /\ IsDictionary(Normalized(Current(turn.text)))
  BY <1>2, NormalizedIsDictionary
<1>4. \A command : EntitiesOfTurn(command) =
        ForCommand(command, Normalized(Merged(turn.text)), Normalized(Current(turn.text)))
  BY <1>1 DEF EntitiesOfTurn
<1> QED
  BY <1>1, <1>3, <1>4, ForCommandIsDictionary

\* A turn before its second command has the words of its text in the session, too.
LEMMA SecondIs ==
    ASSUME DialogueInv, turn.step = "second"
    PROVE  /\ InSession(turn.text) /\ turn.command \in DOMAIN First
           /\ turn.entities = FirstEntities(turn.command, turn.text)
           /\ IsDictionary(turn.entities)
           /\ turn.first.kind = "success"
<1>1. /\ InSession(turn.text) /\ turn.command \in DOMAIN First
      /\ turn.entities = FirstEntities(turn.command, turn.text)
      /\ turn.first.kind = "success"
  BY DEF DialogueInv, SecondInv, InSession
<1>2. IsDictionary(Merged(turn.text)) /\ IsDictionary(Current(turn.text))
  BY <1>1, MergedIsDictionary, CurrentIsDictionary DEF DialogueInv, MemoryInv, InSession
<1>3. IsDictionary(Normalized(Merged(turn.text))) /\ IsDictionary(Normalized(Current(turn.text)))
  BY <1>2, NormalizedIsDictionary
<1>4. IsDictionary(FirstEntities(turn.command, turn.text))
  BY <1>3, ForCommandIsDictionary, DropIsDictionary DEF FirstEntities, DeployEntities
<1> QED
  BY <1>1, <1>4

\* A sequence of one element, or of none, and one before it.
AtMostOne(s) == s = <<>> \/ \E x : s = <<x>>

\* Two of them make at most two elements.
LEMMA ShortIs ==
    ASSUME NEW s, AtMostOne(s), NEW t, AtMostOne(t)
    PROVE  /\ s = <<>> \/ s = <<s[1]>>
           /\ Len(s) <= 2 /\ Len(s \o t) <= 2
<1> USE DEF AtMostOne
<1>1. CASE s = <<>>
  <2>1. CASE t = <<>>
    BY <1>1, <2>1
  <2>2. ASSUME NEW y, t = <<y>> PROVE Len(s) <= 2 /\ Len(s \o t) <= 2
    BY <1>1, <2>2
  <2> QED
    BY <1>1, <2>1, <2>2
<1>2. ASSUME NEW x, s = <<x>> PROVE s = <<s[1]>> /\ Len(s) <= 2 /\ Len(s \o t) <= 2
  <2>1. CASE t = <<>>
    BY <1>2, <2>1
  <2>2. ASSUME NEW y, t = <<y>> PROVE s = <<s[1]>> /\ Len(s) <= 2 /\ Len(s \o t) <= 2
    BY <1>2, <2>2
  <2> QED
    BY <2>1, <2>2
<1> QED
  BY <1>1, <1>2

\* An answer has sent one request, or none.
LEMMA SentIs ==
    ASSUME NEW command, NEW entities, NEW scope, NEW r, IsExecuted(command, entities, scope, r)
    PROVE  AtMostOne(r.sent)
BY DEF IsExecuted, IsHandled, AtMostOne

\* A command runs, or is recorded to be confirmed.
LEMMA RunStep ==
    ASSUME DialogueInv, Run
    PROVE  DialogueInv'
<1> DEFINE entities == EntitiesOfTurn(turn.command)
           result(answer) == Executed(turn.command, entities, ScopeOf(entities), FALSE, answer)
<1>1. PICK answer \in Answers :
        /\ End(result(answer))
        /\ granted' = IF result(answer).kind = "confirmation"
                        THEN [command |-> turn.command, entities |-> entities] ELSE granted
        /\ facts' = IF turn.command = "memory.forget" /\ result(answer).kind = "success"
                      THEN Drop(facts, {entities["memory_key"]}) ELSE facts
  BY DEF Run
<1>2. turn.command \in Spoken /\ IsDictionary(entities)
  BY DecidedIs DEF Run, Decided
<1>3. IsDictionary(facts')
  BY <1>1, DropIsDictionary DEF DialogueInv, MemoryInv
<1>4. granted' # None => granted'.command \in Spoken /\ IsDictionary(granted'.entities)
  BY <1>1, <1>2 DEF DialogueInv, MemoryInv
<1>5. MemoryInv' /\ SaidInv'
  BY <1>3, <1>4, SaidKept DEF Run, DialogueInv, MemoryInv
<1>6. AtMostOne(result(answer).sent)
  BY ExecutedIs, SentIs
<1>7. Len(result(answer).sent) <= 2
  BY <1>6, ShortIs
<1> QED
  BY <1>1, <1>5, <1>7, EndStep

\* A confirmation runs what was recorded, once.
LEMMA ConfirmStep ==
    ASSUME DialogueInv, Confirm
    PROVE  DialogueInv'
<1>1. MemoryInv' /\ SaidInv'
  BY SaidKept DEF Confirm, DialogueInv, MemoryInv
<1>2. CASE granted = None
  <2>1. Len(Reply("warning", "confirm", Empty).sent) <= 2
    BY DEF Reply, Silence
  <2> QED
    BY <1>1, <1>2, <2>1, EndStep DEF Confirm
<1>3. CASE granted # None
  <2>1. PICK answer \in Answers :
          End(Executed(granted.command, granted.entities,
                       ScopeOf(EntitiesOfTurn("confirm")), TRUE, answer))
    BY <1>3 DEF Confirm
  <2> DEFINE r == Executed(granted.command, granted.entities,
                           ScopeOf(EntitiesOfTurn("confirm")), TRUE, answer)
  <2>2. AtMostOne(r.sent)
    BY ExecutedIs, SentIs
  <2>3. Len(r.sent) <= 2
    BY <2>2, ShortIs
  <2> QED
    BY <1>1, <2>1, <2>3, EndStep
<1> QED
  BY <1>2, <1>3

\* The first of two commands.
LEMMA RunFirstStep ==
    ASSUME DialogueInv, RunFirst
    PROVE  DialogueInv'
<1> DEFINE command == First[turn.command]
           all == EntitiesOfTurn(command)
           entities == IF turn.command = "legacy.create_and_deploy" THEN DeployEntities(all)
                       ELSE all
           result(answer) == Executed(command, entities, ScopeOf(entities), FALSE, answer)
<1>1. PICK answer \in Answers, deployed \in BOOLEAN :
        IF Goes(turn.command, result(answer)) /\ (deployed \/ turn.command # "legacy.show_logs")
        THEN /\ turn' = [step |-> "second", text |-> turn.text, command |-> turn.command,
                         entities |-> entities, first |-> result(answer)]
             /\ UNCHANGED reply
        ELSE End(result(answer))
  BY DEF RunFirst
<1>2. UNCHANGED <<session, facts, granted, history>> /\ turn.step = "decided"
      /\ turn.command \in DOMAIN First
  BY DEF RunFirst, Decided
<1>3. MemoryInv' /\ SaidInv'
  BY <1>2, SaidKept DEF DialogueInv, MemoryInv
<1> DEFINE r == result(answer)
<1>4. IsExecuted(command, entities, ScopeOf(entities), r)
  BY ExecutedIs
<1>5. AtMostOne(r.sent)
  BY <1>4, SentIs
<1>6. CASE End(r)
  <2>1. Len(r.sent) <= 2
    BY <1>5, ShortIs
  <2> QED
    BY <1>3, <1>6, <2>1, EndStep
<1>7. CASE /\ turn' = [step |-> "second", text |-> turn.text, command |-> turn.command,
                       entities |-> entities, first |-> r]
           /\ reply' = reply /\ Goes(turn.command, r)
  <2>1. entities = FirstEntities(turn.command, turn.text)
    BY <1>2, DecidedIs DEF FirstEntities
  <2>2. InSession(turn.text)
    BY <1>2, DecidedIs
  <2>3. r.kind = "success"
    BY <1>7 DEF Goes
  <2>4. Fine(command, Catalogue[command]) /\ command \in {"apps.create", "deployments.list"}
    BY <1>2, FirstIs, FirstIsSpoken, CatalogueIsFine
  <2>5. Catalogue[command].without # "local"
    BY <2>4 DEF Fine
  <2> HIDE DEF r, entities, command
  <2>6. r.sent = <<r.sent[1]>> /\ r.sent # <<>>
    BY <1>4, <1>5, <2>3, <2>5 DEF IsExecuted, AtMostOne
  <2>7. /\ Missing(command, entities, ScopeOf(entities)) = {}
        /\ IsHandled(command, entities, ScopeOf(entities), r)
    BY <1>4, <2>6 DEF IsExecuted
  <2>8. PICK sent : r.sent = <<sent>> /\ sent.target = Destination(command, entities, ScopeOf(entities))
                    /\ sent.target.region \in Regions
    BY <2>6, <2>7 DEF IsHandled
  <2>9. r.sent[1] = sent
    BY <2>8
  <2>10. /\ turn'.step = "second" /\ turn'.text = turn.text /\ turn'.command = turn.command
         /\ turn'.entities = entities /\ turn'.first = r
    BY <1>7
  <2>11. (turn.entities = FirstEntities(turn.command, turn.text))'
    BY <1>2, <2>1, <2>10 DEF FirstEntities, Merged
  <2>12. (Missing(First[turn.command], turn.entities, ScopeOf(turn.entities)) = {})'
    BY <1>2, <2>7, <2>10 DEF Missing, Target, ScopeOf, command
  <2>13. (turn.first.sent[1].target =
            Destination(First[turn.command], turn.entities, ScopeOf(turn.entities)))'
    BY <1>2, <2>8, <2>9, <2>10 DEF Destination, Target, ScopeOf, command
  <2>14. SecondInv'
    BY <1>2, <2>2, <2>3, <2>6, <2>8, <2>9, <2>10, <2>11, <2>12, <2>13
       DEF SecondInv, InSession
  <2>15. DecidedInv'
    BY <2>10 DEF DecidedInv
  <2>16. HeardInv'
    BY <1>2, <2>10 DEF DialogueInv, HeardInv, history
  <2> QED
    BY <1>3, <1>7, <2>10, <2>14, <2>15, <2>16 DEF DialogueInv
<1> QED
  BY <1>1, <1>6, <1>7

\* The second one.
LEMMA RunSecondStep ==
    ASSUME DialogueInv, RunSecond
    PROVE  DialogueInv'
<1> DEFINE command == SecondOf[turn.command]
           entities == PassedOn(turn.command, turn.entities)
           r(answer) == Executed(command, entities, ScopeOf(turn.entities), FALSE, answer)
<1>1. PICK answer \in Answers :
        End([r(answer) EXCEPT !.sent = turn.first.sent \o @])
  BY DEF RunSecond
<1>2. MemoryInv' /\ SaidInv'
  BY SaidKept DEF RunSecond, DialogueInv, MemoryInv
<1>3. AtMostOne(turn.first.sent)
  BY DEF RunSecond, DialogueInv, SecondInv, AtMostOne
<1>4. /\ AtMostOne(r(answer).sent)
      /\ "sent" \in DOMAIN r(answer)
  <2>1. IsExecuted(command, entities, ScopeOf(turn.entities), r(answer))
    BY ExecutedIs
  <2> HIDE DEF r
  <2> QED
    BY <2>1, SentIs DEF IsExecuted, Fields
<1>5. Len(turn.first.sent \o r(answer).sent) <= 2
  BY <1>3, <1>4, ShortIs
<1> HIDE DEF r
<1>6. [r(answer) EXCEPT !.sent = turn.first.sent \o @].sent = turn.first.sent \o r(answer).sent
  BY <1>4
<1> QED
  BY <1>1, <1>2, <1>5, <1>6, EndStep

\* Every step keeps the invariant.
LEMMA DialogueStep == DialogueInv /\ [Next]_vars => DialogueInv'
<1> SUFFICES ASSUME DialogueInv, [Next]_vars PROVE DialogueInv'
  OBVIOUS
<1>1. CASE \E text \in Texts : Hear(text)
  BY <1>1, AttemptsAssumption, SaidKept
     DEF Hear, DialogueInv, MemoryInv, HeardInv, DecidedInv, SecondInv, Silence
<1>2. CASE ParseFails
  <2>1. MemoryInv' /\ SaidInv'
    BY <1>2, SaidKept DEF ParseFails, DialogueInv, MemoryInv
  <2>2. ASSUME turn.attempts < MaxAttempts, turn' = [turn EXCEPT !.attempts = @ + 1],
               UNCHANGED reply
        PROVE  DialogueInv'
    <3>1. turn \in [step : {"asked"}, text : Texts, attempts : 1 .. MaxAttempts]
      BY <1>2 DEF ParseFails, DialogueInv
    <3>2. turn' \in [step : {"asked"}, text : Texts, attempts : 1 .. MaxAttempts]
      BY <2>2, <3>1, AttemptsAssumption
    <3>3. turn'.step = "asked"
      BY <3>2
    <3> QED
      BY <2>1, <2>2, <3>2, <3>3 DEF DialogueInv, HeardInv, DecidedInv, SecondInv
  <2>3. Len([Silence EXCEPT !.kind = "unavailable"].sent) <= 2
    BY DEF Silence
  <2>4. ASSUME End([Silence EXCEPT !.kind = "unavailable"])
        PROVE  DialogueInv'
    BY <2>1, <2>3, <2>4, EndStep
  <2> QED
    BY <1>2, <2>2, <2>4 DEF ParseFails
<1>3. CASE ExpireSession
  BY <1>3, EmptyIsDictionary
     DEF ExpireSession, DialogueInv, MemoryInv, SaidInv, HeardInv, DecidedInv, SecondInv
<1>4. CASE ExpireToken
  BY <1>4, SaidKept
     DEF ExpireToken, DialogueInv, MemoryInv, HeardInv, DecidedInv, SecondInv, Merged,
         FirstEntities, Missing, Destination, Target, history
<1>5. CASE UNCHANGED vars
  BY <1>5, SaidKept
     DEF vars, DialogueInv, MemoryInv, HeardInv, DecidedInv, SecondInv, Merged,
         FirstEntities, Missing, Destination, Target, history
<1> QED
  BY <1>1, <1>2, <1>3, <1>4, <1>5, RememberStep, RunStep, ConfirmStep, RunFirstStep,
     RunSecondStep DEF Next, Step

\* The invariant, in every state.
LEMMA DialogueHolds == Spec => []DialogueInv
BY DialogueInit, DialogueStep, PTL DEF Spec

\* The variables keep their types: dictionaries of known words, at most two
\* requests to the NLU service and two to the platform.
THEOREM TypeCorrect == Spec => []TypeOK
<1>1. ASSUME DialogueInv PROVE TurnTypeOK
  <2>1. CASE turn.step = "asked"
    <3>1. turn \in [step : {"asked"}, text : Texts, attempts : 1 .. MaxAttempts]
      BY <1>1, <2>1 DEF DialogueInv
    <3> QED
      BY <3>1 DEF TurnTypeOK
  <2>2. CASE turn.step = "decided"
    <3>1. InSession(turn.text) /\ IsDictionary(turn.merged)
      BY <1>1, <2>2, DecidedIs, MergedIsDictionary DEF DialogueInv, MemoryInv, InSession
    <3> QED
      BY <1>1, <2>2, <3>1, DecidedIs DEF TurnTypeOK, InSession
  <2>3. CASE turn.step = "second"
    BY <1>1, <2>3, SecondIs DEF TurnTypeOK, InSession
  <2> QED
    BY <1>1, <2>1, <2>2, <2>3 DEF DialogueInv, TurnTypeOK
<1>2. DialogueInv => TypeOK
  BY <1>1 DEF DialogueInv, MemoryInv, SaidInv, TypeOK
<1> QED
  BY DialogueHolds, <1>2, PTL

-----------------------------------------------------------------------------
(* What cuts a connection off.                                             *)

BadIn(d) == \E k \in DOMAIN d : IsBad(k, d[k])

\* When nothing is missing, a handler raises only for a word it cannot convert.
LEMMA CutIsBad ==
    ASSUME NEW command \in Spoken, NEW entities, NEW scope, NEW r,
           IsExecuted(command, entities, scope, r), r.kind = "cut",
           "app_name" \in DOMAIN entities => entities["app_name"] # None
    PROVE  \/ BadIn(entities) \/ BadIn(facts) \/ BadIn(session)
           \/ scope # None /\ IsBad("region", scope)
<1> DEFINE c == Catalogue[command]
           target == Destination(command, entities, scope)
           known == entities @@ facts @@ session
<1>1. /\ c.without # "local" /\ Missing(command, entities, scope) = {}
      /\ IsHandled(command, entities, scope, r)
  BY DEF IsExecuted
<1>2. \/ Unusable(command, entities)
      \/ target.region \notin Regions
      \/ c.scoped /\ target.app = None
  BY <1>1 DEF IsHandled
<1>3. Fine(command, c)
  BY CatalogueIsFine
<1>4. c.required \subseteq DOMAIN entities
  BY <1>1, NothingMissing
<1>5. CASE Unusable(command, entities)
  <2>1. CASE \E k \in c.numbers : entities[k] \notin Numerals
    BY <1>3, <1>4, <2>1 DEF Fine, BadIn, IsBad
  <2>2. CASE c.patches \intersect DOMAIN entities # {}
    <3>1. "notifier_patch" \in DOMAIN entities
      BY <1>3, <2>2 DEF Fine
    <3> QED
      BY <3>1 DEF BadIn, IsBad
  <2>3. CASE \E k \in c.addresses : entities[k] \notin Addresses
    BY <1>3, <1>4, <2>3 DEF Fine, BadIn, IsBad
  <2> QED
    BY <1>5, <2>1, <2>2, <2>3 DEF Unusable
<1>6. ASSUME c.scoped
      PROVE  /\ target.region = IF "region" \in DOMAIN known THEN known["region"] ELSE scope
             /\ target.app = IF "app_name" \in DOMAIN known THEN known["app_name"] ELSE None
             /\ None \in {target.app, target.region} =>
                  "app_name" \in DOMAIN entities /\ (scope = None => "region" \in DOMAIN entities)
  <2>1. target = Target(entities, scope)
    BY <1>6 DEF Destination
  <2> QED
    BY <1>1, <1>6, <2>1, NothingMissing DEF Target
<1>7. \A k \in DOMAIN known :
        \/ k \in DOMAIN entities /\ known[k] = entities[k]
        \/ k \in DOMAIN facts /\ known[k] = facts[k]
        \/ k \in DOMAIN session /\ known[k] = session[k]
  BY DEF @@
<1>8. \A k \in DOMAIN entities : k \in DOMAIN known /\ known[k] = entities[k]
  BY DEF @@
<1> HIDE DEF known, target, c
<1>9. CASE c.scoped /\ target.region \notin Regions
  <2>1. CASE "region" \in DOMAIN known
    <3>1. IsBad("region", known["region"])
      BY <1>6, <1>9, <2>1 DEF IsBad
    <3> QED
      BY <1>7, <2>1, <3>1 DEF BadIn
  <2>2. CASE "region" \notin DOMAIN known
    BY <1>6, <1>8, <1>9, <2>2 DEF IsBad
  <2> QED
    BY <2>1, <2>2
<1>10. CASE ~c.scoped /\ target.region \notin Regions
  <2>1. "region" \in DOMAIN entities
    BY <1>1, <1>3, <1>4, <1>10 DEF Fine, c
  <2>2. target.region = entities["region"]
    BY <1>10 DEF Destination, target, c
  <2> QED
    BY <1>10, <2>1, <2>2 DEF BadIn, IsBad
<1>11. CASE c.scoped /\ target.app = None
  BY <1>6, <1>8, <1>11
<1> QED
  BY <1>2, <1>3, <1>5, <1>9, <1>10, <1>11 DEF Fine

\* The entities of a command are said, captured, or the id of a deployment.
Sourced(entities) ==
    \A k \in DOMAIN entities :
        \/ Names(session, k, entities[k])
        \/ Names(turn.text.captures, k, entities[k])
        \/ k = "deployment_id"

\* A command of a turn is cut off only for a word of the turn or of its facts.
LEMMA CutInTurn ==
    ASSUME DialogueInv, InSession(turn.text), NEW command \in Spoken, NEW entities, NEW r,
           Sourced(entities), IsExecuted(command, entities, ScopeOf(entities), r),
           r.kind = "cut"
    PROVE  BadIn(session) \/ BadIn(facts) \/ BadIn(turn.text.captures)
<1>1. IsDictionary(session) /\ IsDictionary(turn.text.captures)
  BY CurrentIsDictionary DEF DialogueInv, MemoryInv, InSession
<1>2. "app_name" \in DOMAIN entities => entities["app_name"] \in Words
  BY <1>1 DEF Sourced, Names, IsDictionary
<1>3. "app_name" \in DOMAIN entities => entities["app_name"] # None
  BY <1>2, WordsAssumption
<1>4. \/ BadIn(entities) \/ BadIn(facts) \/ BadIn(session)
      \/ ScopeOf(entities) # None /\ IsBad("region", ScopeOf(entities))
  BY <1>3, CutIsBad
<1>5. ScopeOf(entities) # None =>
        "region" \in DOMAIN entities /\ ScopeOf(entities) = entities["region"]
  BY DEF ScopeOf
<1>6. BadIn(entities) \/ BadIn(facts) \/ BadIn(session)
  BY <1>4, <1>5 DEF BadIn
<1>7. ASSUME BadIn(entities) PROVE BadIn(session) \/ BadIn(turn.text.captures)
  <2>1. PICK k \in DOMAIN entities : IsBad(k, entities[k])
    BY <1>7 DEF BadIn
  <2>2. k # "deployment_id"
    BY <2>1 DEF IsBad, AutoscalerNumbers
  <2>3. Names(session, k, entities[k]) \/ Names(turn.text.captures, k, entities[k])
    BY <2>1, <2>2 DEF Sourced
  <2> QED
    BY <2>1, <2>3, BadUnderAnyName DEF BadIn
<1> QED
  BY <1>1, <1>6, <1>7

-----------------------------------------------------------------------------
(* How a turn ends.                                                        *)

\* What the command of a turn, or the first of two, is given.
MainEntities ==
    LET all == ForCommand(Main, Normalized(Merged(turn.text)), Normalized(Current(turn.text)))
    IN IF turn.command = "legacy.create_and_deploy" THEN DeployEntities(all) ELSE all

\* The command of a turn, or the first of two.
LEMMA MainIs ==
    /\ turn.command \in Spoken => Main = turn.command /\ turn.command \notin DOMAIN First
    /\ turn.command \in DOMAIN First => Main = First[turn.command] /\ Main \in Spoken
BY FirstIsNotSpoken, FirstIsSpoken DEF Main

\* The answer to a turn is that of its command, or of both.
EndsDecided ==
    /\ turn.step = "decided" /\ Main \in Spoken /\ InSession(turn.text)
    /\ IsExecuted(Main, MainEntities, ScopeOf(MainEntities), reply')

EndsSecond ==
    /\ turn.step = "second"
    /\ \E r : /\ IsExecuted(SecondOf[turn.command], PassedOn(turn.command, turn.entities),
                           ScopeOf(turn.entities), r)
             /\ reply' = [r EXCEPT !.sent = turn.first.sent \o @]

\* There is no other way in which a turn ends, but for a confirmation and for a
\* text that is not understood.
LEMMA TurnEnds ==
    ASSUME DialogueInv, [Next]_vars, Ends
    PROVE  \/ turn.step = "asked" /\ reply'.kind # "cut"
           \/ Confirm
           \/ EndsDecided
           \/ EndsSecond
<1>1. CASE ParseFails
  <2>1. turn' # Idle => turn' = [turn EXCEPT !.attempts = @ + 1]
    BY <1>1 DEF ParseFails, End
  <2>2. turn.step = "asked" /\ turn \in [step : {"asked"}, text : Texts, attempts : 1 .. MaxAttempts]
    BY <1>1 DEF ParseFails, DialogueInv
  <2>3. [turn EXCEPT !.attempts = @ + 1].step = "asked"
    BY <2>2
  <2>4. reply' = [Silence EXCEPT !.kind = "unavailable"]
    BY <1>1, <2>3 DEF ParseFails, End, Ends
  <2>5. reply'.kind = "unavailable"
    BY <2>4 DEF Silence
  <2> QED
    BY <2>2, <2>5
<1>2. CASE Remember
  <2>1. turn'.step # "decided"
    BY DEF Ends
  <2>2. PICK kind \in {"unrecognised", "clarify"} : reply' = [Silence EXCEPT !.kind = kind]
    BY <1>2, <2>1 DEF Remember, End
  <2>3. reply'.kind = kind
    BY <2>2 DEF Silence
  <2> QED
    BY <1>2, <2>2, <2>3 DEF Remember
<1>3. CASE Run
  <2>1. turn.step = "decided" /\ turn.command \in Spoken
    BY <1>3 DEF Run, Decided
  <2>2. /\ Main = turn.command /\ MainEntities = EntitiesOfTurn(turn.command)
        /\ InSession(turn.text)
    BY <2>1, MainIs, FirstIs, DecidedIs DEF MainEntities
  <2>3. PICK answer \in Answers :
          reply' = Executed(Main, MainEntities, ScopeOf(MainEntities), FALSE, answer)
    BY <1>3, <2>2 DEF Run, End
  <2> QED
    BY <2>1, <2>2, <2>3, ExecutedIs DEF EndsDecided
<1>4. CASE RunFirst
  <2>1. turn.step = "decided" /\ turn.command \in DOMAIN First
    BY <1>4 DEF RunFirst, Decided
  <2>2. /\ Main = First[turn.command] /\ Main \in Spoken /\ InSession(turn.text)
        /\ MainEntities = IF turn.command = "legacy.create_and_deploy"
                            THEN DeployEntities(EntitiesOfTurn(First[turn.command]))
                            ELSE EntitiesOfTurn(First[turn.command])
    BY <2>1, MainIs, DecidedIs DEF MainEntities
  <2>3. turn'.step # "second"
    BY DEF Ends
  <2> DEFINE r(answer) == Executed(Main, MainEntities, ScopeOf(MainEntities), FALSE, answer)
  <2>4. PICK answer \in Answers :
          \/ turn'.step = "second"
          \/ reply' = r(answer)
    <3> HIDE DEF MainEntities
    <3>1. PICK answer \in Answers, deployed \in BOOLEAN :
            IF Goes(turn.command, r(answer)) /\ (deployed \/ turn.command # "legacy.show_logs")
            THEN /\ turn' = [step |-> "second", text |-> turn.text, command |-> turn.command,
                             entities |-> MainEntities, first |-> r(answer)]
                 /\ UNCHANGED reply
            ELSE End(r(answer))
      BY <1>4, <2>2 DEF RunFirst
    <3> HIDE DEF r
    <3> QED
      BY <3>1 DEF End
  <2> QED
    BY <2>1, <2>2, <2>3, <2>4, ExecutedIs DEF EndsDecided
<1>5. CASE RunSecond
  <2>1. PICK answer \in Answers :
          LET r == Executed(SecondOf[turn.command], PassedOn(turn.command, turn.entities),
                            ScopeOf(turn.entities), FALSE, answer)
          IN reply' = [r EXCEPT !.sent = turn.first.sent \o @]
    BY <1>5 DEF RunSecond, End
  <2> QED
    BY <1>5, <2>1, ExecutedIs DEF RunSecond, EndsSecond
<1>6. CASE (\E text \in Texts : Hear(text)) \/ ExpireSession \/ ExpireToken \/ UNCHANGED vars
  BY <1>6 DEF Hear, ExpireSession, ExpireToken, vars, Ends
<1> QED
  BY <1>1, <1>2, <1>3, <1>4, <1>5, <1>6 DEF Next, Step

\* What the second command is given.
LEMMA PassedOnIs ==
    ASSUME NEW command \in DOMAIN First, NEW entities
    PROVE  /\ \A k \in {"app_name", "region"} :
                /\ k \in DOMAIN PassedOn(command, entities) <=> k \in DOMAIN entities
                /\ k \in DOMAIN entities => PassedOn(command, entities)[k] = entities[k]
           /\ \A k \in DOMAIN PassedOn(command, entities) :
                \/ k = "deployment_id"
                \/ k \in DOMAIN entities /\ PassedOn(command, entities)[k] = entities[k]
           /\ ScopeOf(PassedOn(command, entities)) = ScopeOf(entities)
<1>1. CASE command = "legacy.create_and_deploy"
  BY <1>1 DEF PassedOn
<1>2. CASE command # "legacy.create_and_deploy"
  <2> DEFINE kept == Drop(entities, DOMAIN entities \ {"app_name", "region"})
             id == "deployment_id" :> None
  <2>1. PassedOn(command, entities) = id @@ kept
    BY <1>2 DEF PassedOn
  <2>2. /\ DOMAIN kept = DOMAIN entities \intersect {"app_name", "region"}
        /\ \A k \in DOMAIN kept : kept[k] = entities[k]
    BY DEF Drop
  <2>3. DOMAIN id = {"deployment_id"}
    BY OneItem
  <2> HIDE DEF kept, id
  <2>4. /\ DOMAIN (id @@ kept) = {"deployment_id"} \union DOMAIN kept
        /\ \A k \in DOMAIN kept : k # "deployment_id" => (id @@ kept)[k] = kept[k]
    BY <2>3, MergeDomain, MergeRight
  <2> QED
    BY <2>1, <2>2, <2>4 DEF ScopeOf
<1> QED
  BY <1>1, <1>2

\* The words of a turn.
LEMMA MainIsSourced ==
    ASSUME DialogueInv, InSession(turn.text)
    PROVE  Sourced(MainEntities)
<1> DEFINE all == ForCommand(Main, Normalized(Merged(turn.text)), Normalized(Current(turn.text)))
<1>1. Sourced(all)
  BY WordsOfTurn DEF Sourced
<1> HIDE DEF all
<1>2. ASSUME NEW ks PROVE Sourced(Drop(all, ks))
  <2>1. /\ DOMAIN Drop(all, ks) = DOMAIN all \ ks
        /\ \A k \in DOMAIN all \ ks : Drop(all, ks)[k] = all[k]
    BY DropIs
  <2> QED
    BY <1>1, <2>1 DEF Sourced
<1> QED
  BY <1>1, <1>2 DEF MainEntities, DeployEntities, all

\* A step that ends a turn with an error of conversion.
LEMMA CutForABadWordStep == DialogueInv /\ [Next]_vars => [CutForABadWord]_vars
<1> SUFFICES ASSUME DialogueInv, [Next]_vars, Ends, reply'.kind = "cut"
             PROVE  \/ BadIn(session) \/ BadIn(facts) \/ BadIn(turn.text.captures)
                    \/ granted # None /\ BadIn(granted.entities)
  BY DEF CutForABadWord, BadIn
<1>1. CASE Confirm
  <2>1. turn.step = "decided" /\ granted # None
    <3>1. Reply("warning", "confirm", Empty).kind = "warning"
      BY DEF Reply, Silence
    <3> QED
      BY <1>1, <3>1 DEF Confirm, Decided, End
  <2> DEFINE entities == EntitiesOfTurn("confirm")
  <2>2. IsExecuted(granted.command, granted.entities, ScopeOf(entities), reply')
    BY <1>1, <2>1, ExecutedIs DEF Confirm, End
  <2>3. granted.command \in Spoken /\ IsDictionary(granted.entities)
    BY <2>1 DEF DialogueInv, MemoryInv
  <2>4. "app_name" \in DOMAIN granted.entities => granted.entities["app_name"] # None
    BY <2>3, WordsAssumption DEF IsDictionary
  <2>5. \/ BadIn(granted.entities) \/ BadIn(facts) \/ BadIn(session)
        \/ ScopeOf(entities) # None /\ IsBad("region", ScopeOf(entities))
    BY <2>2, <2>3, <2>4, CutIsBad
  <2>6. ASSUME ScopeOf(entities) # None, IsBad("region", ScopeOf(entities))
        PROVE  BadIn(session) \/ BadIn(turn.text.captures)
    <3>1. "region" \in DOMAIN entities /\ ScopeOf(entities) = entities["region"]
      BY <2>6 DEF ScopeOf
    <3>2. \/ Names(session, "region", entities["region"])
          \/ Names(turn.text.captures, "region", entities["region"])
      BY <2>1, <3>1, DecidedIs, WordsOfTurn
    <3> QED
      BY <2>6, <3>1, <3>2, BadUnderAnyName DEF BadIn
  <2> QED
    BY <2>1, <2>3, <2>5, <2>6
<1>2. CASE EndsDecided
  BY <1>2, MainIsSourced, CutInTurn DEF EndsDecided
<1>3. CASE EndsSecond
  <2> DEFINE entities == PassedOn(turn.command, turn.entities)
  <2>1. PICK r : /\ IsExecuted(SecondOf[turn.command], entities, ScopeOf(turn.entities), r)
                 /\ reply' = [r EXCEPT !.sent = turn.first.sent \o @]
    BY <1>3 DEF EndsSecond
  <2>2. r.kind = "cut"
    BY <2>1 DEF IsExecuted, Fields
  <2>3. /\ InSession(turn.text) /\ turn.command \in DOMAIN First
        /\ turn.entities = FirstEntities(turn.command, turn.text)
    BY <1>3, SecondIs DEF EndsSecond
  <2>4. turn.entities = MainEntities
    BY <2>3, MainIs DEF MainEntities, FirstEntities
  <2>5. Sourced(entities)
    BY <2>3, <2>4, MainIsSourced, PassedOnIs DEF Sourced
  <2>6. ScopeOf(turn.entities) = ScopeOf(entities)
    BY <2>3, PassedOnIs
  <2>7. SecondOf[turn.command] \in Spoken
    BY <2>3, FirstIsSpoken
  <2> HIDE DEF entities
  <2> QED
    BY <2>1, <2>2, <2>3, <2>5, <2>6, <2>7, CutInTurn
<1> QED
  BY <1>1, <1>2, <1>3, TurnEnds

\* Before its request a command cuts a connection off only for a word that is in
\* the session or a fact, that the rule captured or that was granted with it.
THEOREM BadWordsCutOff == Spec => OnlyBadWordsCutOff
BY DialogueHolds, CutForABadWordStep, PTL DEF Spec, OnlyBadWordsCutOff

-----------------------------------------------------------------------------
(* What a command is asked for, where it goes, and what it is given.       *)

\* A turn of a command that is neither destructive nor a confirmation.
Plain == turn.command # "confirm" /\ ~Catalogue[Main].destructive /\ turn.command \in Spoken \union DOMAIN First

\* The words of a plain command: the message comes first.
LEMMA MainEntitiesIs ==
    ASSUME Plain
    PROVE  LET all == Normalized(Current(turn.text)) @@ Normalized(Merged(turn.text))
           IN /\ turn.command # "legacy.create_and_deploy" => MainEntities = all
              /\ \A k \in {"app_name", "region", "github_repo"} :
                   k \in DOMAIN MainEntities <=> k \in DOMAIN all
              /\ \A k \in DOMAIN MainEntities : k \in DOMAIN all /\ MainEntities[k] = all[k]
<1> DEFINE all == Normalized(Current(turn.text)) @@ Normalized(Merged(turn.text))
<1>1. Main # "confirm"
  BY MainIs, FirstIs DEF Plain
<1>2. MainEntities = IF turn.command = "legacy.create_and_deploy" THEN DeployEntities(all) ELSE all
  BY <1>1, ForPlainCommand DEF MainEntities, Plain
<1> HIDE DEF all
<1>3. /\ DOMAIN DeployEntities(all) = DOMAIN all \intersect
              {"app_name", "region", "github_repo", "source_url", "git_ref"}
      /\ \A k \in DOMAIN DeployEntities(all) : DeployEntities(all)[k] = all[k]
  BY DEF DeployEntities, Drop
<1> QED
  BY <1>2, <1>3 DEF all

\* An entity that the turn has, under one of its names.
WasSaid(k) == NamesOf(k) \intersect DOMAIN Merged(turn.text) # {}

\* What the turn has is given to the command.
LEMMA SaidIsGiven ==
    ASSUME InSession(turn.text), Plain, NEW k, WasSaid(k),
           turn.command = "legacy.create_and_deploy" => k \in {"app_name", "region", "github_repo"}
    PROVE  k \in DOMAIN MainEntities
<1>1. k \in DOMAIN Normalized(Merged(turn.text))
  BY NormalizedIs DEF WasSaid
<1>2. k \in DOMAIN (Normalized(Current(turn.text)) @@ Normalized(Merged(turn.text)))
  BY <1>1, MergeDomain
<1> QED
  BY <1>2, MainEntitiesIs

\* A turn before its second command has a plain command.
LEMMA SecondIsMain ==
    ASSUME DialogueInv, turn.step = "second"
    PROVE  turn.entities = MainEntities /\ Main = First[turn.command]
BY SecondIs, MainIs DEF MainEntities, FirstEntities

\* The end of a turn of a plain command.
LEMMA PlainEnds ==
    ASSUME DialogueInv, [Next]_vars, EndsPlain
    PROVE  /\ Plain /\ InSession(turn.text) /\ Main \in Spoken
           /\ EndsDecided \/ EndsSecond
<1>1. EndsDecided \/ EndsSecond
  BY TurnEnds DEF EndsPlain, Confirm, Decided
<1>2. turn.command \in Spoken \union DOMAIN First /\ InSession(turn.text)
  BY <1>1, DecidedIs, SecondIs DEF EndsDecided, EndsSecond
<1> QED
  BY <1>1, <1>2, MainIs DEF EndsPlain, Plain

\* What was said and not missed the turn has.
LEMMA HeardIs ==
    ASSUME DialogueInv, NEW k \in DOMAIN said, k \notin Unheard
    PROVE  /\ k \in DOMAIN Merged(turn.text)
           /\ \/ ByRule(turn.text) /\ k \in DOMAIN turn.text.captures
              \/ k \notin missed /\ k \in DOMAIN session /\ session[k] = said[k]
<1>1. \/ ByRule(turn.text) /\ k \in DOMAIN turn.text.captures
      \/ k \notin missed /\ k \in DOMAIN session /\ session[k] = said[k]
  BY DEF Unheard, DialogueInv, SaidInv
<1>2. k \in DOMAIN Merged(turn.text)
  BY <1>1, MergeDomain DEF Merged
<1> QED
  BY <1>1, <1>2

\* A step that ends a turn with a question.
LEMMA AsksForTheUnsaidStep == DialogueInv /\ [Next]_vars => [AsksForTheUnsaid]_vars
<1> SUFFICES ASSUME DialogueInv, [Next]_vars, EndsPlain, reply'.kind = "missing",
                    NEW k \in reply'.missing, NEW name \in NamesOf(k) \intersect DOMAIN said,
                    name \notin Unheard
             PROVE  FALSE
  BY DEF AsksForTheUnsaid
<1>1. /\ Plain /\ InSession(turn.text) /\ Main \in Spoken
      /\ EndsDecided \/ EndsSecond
      /\ WasSaid(k)
  BY PlainEnds, HeardIs DEF WasSaid
<1>2. CASE EndsDecided
  <2>1. /\ k \notin DOMAIN MainEntities
        /\ k \in {"app_name", "region"} \union Catalogue[Main].required
    BY <1>2, MissingIs DEF EndsDecided, IsExecuted
  <2>2. turn.command = "legacy.create_and_deploy" => k \in {"app_name", "region"}
    BY <1>1, <2>1, MainIs, FirstIs, CatalogueIsFine DEF Fine
  <2> QED
    BY <1>1, <2>1, <2>2, SaidIsGiven
<1>3. CASE EndsSecond
  <2> DEFINE command == SecondOf[turn.command]
             entities == PassedOn(turn.command, turn.entities)
  <2>1. PICK r : /\ IsExecuted(command, entities, ScopeOf(turn.entities), r)
                 /\ reply' = [r EXCEPT !.sent = turn.first.sent \o @]
    BY <1>3 DEF EndsSecond
  <2>2. r.kind = "missing" /\ r.missing = reply'.missing
    BY <2>1 DEF IsExecuted, Fields
  <2>3. /\ k \notin DOMAIN entities
        /\ k \in {"app_name", "region"} \union Catalogue[command].required
    BY <2>1, <2>2, MissingIs DEF IsExecuted
  <2>4. turn.command \in DOMAIN First /\ turn.entities = MainEntities
    BY <1>3, SecondIs, SecondIsMain DEF EndsSecond
  <2>5. Fine(command, Catalogue[command])
    BY <2>4, FirstIsSpoken, CatalogueIsFine
  <2>6. CASE turn.command = "legacy.create_and_deploy"
    <3>1. entities = MainEntities
      BY <2>4, <2>6 DEF PassedOn
    <3>2. k \in {"app_name", "region", "github_repo"}
      BY <2>3, <2>5, <2>6, FirstIs DEF Fine
    <3> QED
      BY <1>1, <2>3, <3>1, <3>2, SaidIsGiven
  <2>7. CASE turn.command = "legacy.show_logs"
    <3>1. k \in {"app_name", "region", "deployment_id"}
      BY <2>3, <2>5, <2>7, FirstIs DEF Fine
    <3>2. "deployment_id" \in DOMAIN entities
      <4> DEFINE kept == Drop(turn.entities, DOMAIN turn.entities \ {"app_name", "region"})
                 id == "deployment_id" :> None
      <4>1. entities = id @@ kept
        BY <2>7 DEF PassedOn
      <4>2. DOMAIN id = {"deployment_id"} /\ DOMAIN (id @@ kept) = DOMAIN id \union DOMAIN kept
        BY OneItem, MergeDomain
      <4> HIDE DEF id, kept
      <4> QED
        BY <4>1, <4>2
    <3>3. k \notin DOMAIN MainEntities
      BY <2>3, <2>4, <3>1, <3>2, PassedOnIs
    <3> QED
      BY <1>1, <2>7, <3>3, SaidIsGiven
  <2> QED
    BY <2>4, <2>6, <2>7, FirstIs
<1> QED
  BY <1>1, <1>2, <1>3

\* Nobody is asked for what was said in the session, under any of its names,
\* unless the session has missed it.
THEOREM AskedForOnce == Spec => NeverAsksForWhatWasSaid
BY DialogueHolds, AsksForTheUnsaidStep, PTL DEF Spec, NeverAsksForWhatWasSaid

\* The words for an app and its region: those of the rule, then those of the
\* session.
Named == (IF ByRule(turn.text) THEN turn.text.captures ELSE Empty) @@ session

\* A dictionary that names the app and region of the turn.
SameTarget(entities) ==
    \A k \in {"app_name", "region"} :
        /\ k \in DOMAIN entities <=> k \in DOMAIN Named
        /\ k \in DOMAIN entities => entities[k] = Named[k]

\* The entities of the command do.
LEMMA MainNamesTarget ==
    ASSUME InSession(turn.text), Plain
    PROVE  SameTarget(MainEntities)
<1> DEFINE current == Current(turn.text)
           merged == Merged(turn.text)
           all == Normalized(current) @@ Normalized(merged)
<1>1. SUFFICES ASSUME NEW k \in {"app_name", "region"}
               PROVE  /\ k \in DOMAIN all <=> k \in DOMAIN Named
                      /\ k \in DOMAIN all => all[k] = Named[k]
  BY MainEntitiesIs DEF SameTarget
<1>2. NamesOf(k) = {k}
  BY OlderIs DEF NamesOf
<1>3. \A d : /\ k \in DOMAIN Normalized(d) <=> k \in DOMAIN d
             /\ k \in DOMAIN d => Normalized(d)[k] = d[k]
  <2> TAKE d
  <2>1. k \in DOMAIN Normalized(d) <=> NamesOf(k) \intersect DOMAIN d # {}
    BY NormalizedIs
  <2>2. \A n \in DOMAIN d : Normalized(d)[n] = d[n]
    BY NormalizedIs
  <2> QED
    BY <1>2, <2>1, <2>2
<1> HIDE DEF current, merged
<1>4. /\ k \in DOMAIN all <=> k \in DOMAIN current \union DOMAIN merged
      /\ k \in DOMAIN current => all[k] = current[k]
      /\ k \notin DOMAIN current /\ k \in DOMAIN merged => all[k] = merged[k]
  <2>1. DOMAIN all = DOMAIN Normalized(current) \union DOMAIN Normalized(merged)
    BY MergeDomain
  <2>2. k \in DOMAIN Normalized(current) => all[k] = Normalized(current)[k]
    BY MergeLeft
  <2>3. k \in DOMAIN Normalized(merged) /\ k \notin DOMAIN Normalized(current)
          => all[k] = Normalized(merged)[k]
    BY MergeRight
  <2> HIDE DEF all
  <2> QED
    BY <1>3, <2>1, <2>2, <2>3
<1> HIDE DEF all
<1>5. CASE ByRule(turn.text)
  <2>1. current = turn.text.captures /\ merged = turn.text.captures @@ session /\ Named = merged
    BY <1>5 DEF current, merged, Current, Merged, Named
  <2> QED
    BY <1>4, <2>1 DEF @@
<1>6. CASE ~ByRule(turn.text)
  <2>1. current = Entities(turn.text) /\ merged = session
    BY <1>6 DEF current, merged, Current, Merged
  <2>2. /\ DOMAIN Named = DOMAIN session
        /\ \A n \in DOMAIN session : Named[n] = session[n]
    BY <1>6, EmptyIsDictionary DEF Named, @@
  <2>3. \A n \in DOMAIN Entities(turn.text) :
          n \in DOMAIN session /\ session[n] = Entities(turn.text)[n]
    <3>1. \A n \in DOMAIN Entities(turn.text) :
            /\ n \in DOMAIN (Entities(turn.text) @@ session)
            /\ (Entities(turn.text) @@ session)[n] = Entities(turn.text)[n]
      BY DEF @@
    <3> QED
      BY <3>1 DEF InSession
  <2> QED
    BY <1>4, <2>1, <2>2, <2>3
<1> QED
  BY <1>5, <1>6

\* A request goes where the words of the turn and the facts say.
GoesThere(target) ==
    LET words == Named @@ facts
    IN /\ "region" \in DOMAIN words /\ target.region = words["region"]
       /\ target.app # None =>
            "app_name" \in DOMAIN words /\ target.app = words["app_name"]

\* A request of a command that has what it requires does.
LEMMA DestinationIs ==
    ASSUME NEW command \in Spoken, NEW entities, SameTarget(entities),
           Catalogue[command].without # "local",
           Catalogue[command].required \subseteq DOMAIN entities,
           Destination(command, entities, ScopeOf(entities)).region \in Regions
    PROVE  GoesThere(Destination(command, entities, ScopeOf(entities)))
<1> DEFINE c == Catalogue[command]
           target == Destination(command, entities, ScopeOf(entities))
           known == entities @@ facts @@ session
           words == Named @@ facts
<1>1. Fine(command, c)
  BY CatalogueIsFine
<1>2. \A k \in DOMAIN session : k \in DOMAIN Named
  BY MergeDomain DEF Named
<1>3. ASSUME NEW k \in {"app_name", "region"}
      PROVE  /\ k \in DOMAIN known <=> k \in DOMAIN words
             /\ k \in DOMAIN entities => k \in DOMAIN known /\ entities[k] = words[k]
             /\ k \in DOMAIN known => known[k] = words[k]
  <2>1. /\ k \in DOMAIN entities <=> k \in DOMAIN Named
        /\ k \in DOMAIN entities => entities[k] = Named[k]
    BY DEF SameTarget
  <2> QED
    BY <1>2, <2>1 DEF @@
<1>4. None \notin Regions
  BY WordsAssumption
<1>5. CASE c.scoped
  <2>1. target = Target(entities, ScopeOf(entities))
    BY <1>5 DEF Destination
  <2>2. /\ target.region = IF "region" \in DOMAIN known THEN known["region"] ELSE ScopeOf(entities)
        /\ target.app = IF "app_name" \in DOMAIN known THEN known["app_name"] ELSE None
    BY <2>1 DEF Target
  <2> HIDE DEF known, words, target
  <2>3. "region" \in DOMAIN known
    <3>1. CASE "region" \in DOMAIN entities
      BY <1>3, <3>1
    <3>2. CASE "region" \notin DOMAIN entities
      BY <1>4, <2>2, <3>2 DEF ScopeOf, target
    <3> QED
      BY <3>1, <3>2
  <2> QED
    BY <1>3, <2>2, <2>3 DEF GoesThere, words, target
<1>6. CASE ~c.scoped
  <2>1. "region" \in DOMAIN entities
    BY <1>1, <1>6 DEF Fine
  <2>2. /\ target.region = entities["region"]
        /\ target.app = IF "app_name" \in DOMAIN entities THEN entities["app_name"] ELSE None
    BY <1>6 DEF Destination
  <2> HIDE DEF known, words, target
  <2> QED
    BY <1>3, <2>1, <2>2 DEF GoesThere, words, target
<1> QED
  BY <1>1, <1>5, <1>6 DEF Fine

\* The request of an answer does.
LEMMA AnswerGoesThere ==
    ASSUME NEW command \in Spoken, NEW entities, SameTarget(entities), NEW r,
           IsExecuted(command, entities, ScopeOf(entities), r)
    PROVE  r.sent = <<>> \/ \E sent : r.sent = <<sent>> /\ GoesThere(sent.target)
<1> SUFFICES ASSUME r.sent # <<>>
             PROVE  \E sent : r.sent = <<sent>> /\ GoesThere(sent.target)
  OBVIOUS
<1>1. /\ Catalogue[command].without # "local"
      /\ Missing(command, entities, ScopeOf(entities)) = {}
      /\ IsHandled(command, entities, ScopeOf(entities), r)
  BY DEF IsExecuted
<1>2. PICK sent : /\ r.sent = <<sent>>
                  /\ sent.target = Destination(command, entities, ScopeOf(entities))
                  /\ sent.target.region \in Regions
  BY <1>1 DEF IsHandled
<1>3. Catalogue[command].required \subseteq DOMAIN entities
  BY <1>1, NothingMissing
<1> QED
  BY <1>1, <1>2, <1>3, DestinationIs

\* A word that the turn has is the last one that was said, unless it was missed;
\* a fact stands in only for what was not said.
LEMMA NamedIsSaid ==
    ASSUME DialogueInv, turn.step \in {"decided", "second"}, InSession(turn.text),
           NEW k \in DOMAIN (Named @@ facts), k \notin Unheard
    PROVE  (Named @@ facts)[k] = (said @@ facts)[k]
<1> DEFINE captured == ByRule(turn.text) /\ k \in DOMAIN turn.text.captures
           first == IF ByRule(turn.text) THEN turn.text.captures ELSE Empty
<1>1. /\ DOMAIN Named = DOMAIN first \union DOMAIN session
      /\ k \in DOMAIN first => Named[k] = first[k]
      /\ k \in DOMAIN session /\ k \notin DOMAIN first => Named[k] = session[k]
  <2>1. Named = first @@ session
    BY DEF Named
  <2> HIDE DEF first
  <2> QED
    BY <2>1 DEF @@
<1>2. captured <=> k \in DOMAIN first
  BY EmptyIsDictionary
<1>3. CASE captured
  <2>1. k \in DOMAIN Says(turn.text) /\ Says(turn.text)[k] = turn.text.captures[k]
    BY <1>3, SaysIs DEF InSession
  <2>2. k \in DOMAIN said /\ said[k] = Says(turn.text)[k]
    BY <2>1 DEF DialogueInv, HeardInv
  <2>3. k \in DOMAIN Named /\ Named[k] = turn.text.captures[k]
    BY <1>1, <1>2, <1>3
  <2> QED
    BY <2>1, <2>2, <2>3, MergeLeft
<1>4. CASE ~captured /\ k \in DOMAIN session
  <2>1. k \in DOMAIN said /\ session[k] = said[k]
    BY <1>4, HeardIs DEF DialogueInv, SaidInv
  <2>2. k \in DOMAIN Named /\ Named[k] = session[k]
    BY <1>1, <1>2, <1>4
  <2> QED
    BY <2>1, <2>2, MergeLeft
<1>5. CASE ~captured /\ k \notin DOMAIN session
  <2>1. k \notin DOMAIN said
    BY <1>5, HeardIs
  <2>2. k \notin DOMAIN Named
    BY <1>1, <1>2, <1>5
  <2>3. k \in DOMAIN facts
    BY <2>2, MergeDomain
  <2> QED
    BY <2>1, <2>2, <2>3, MergeRight
<1> QED
  BY <1>3, <1>4, <1>5

\* A step that ends a turn of a plain command.
LEMMA GoesWhereSaidLastStep == DialogueInv /\ [Next]_vars => [GoesWhereSaidLast]_vars
<1> SUFFICES ASSUME DialogueInv, [Next]_vars, EndsPlain, NEW i \in DOMAIN reply'.sent
             PROVE  GoesThere(reply'.sent[i].target)
  <2> SUFFICES ASSUME DialogueInv, [Next]_vars, EndsPlain, NEW i \in DOMAIN reply'.sent,
                      GoesThere(reply'.sent[i].target)
               PROVE  LET words == said @@ facts
                          target == reply'.sent[i].target
                      IN /\ "region" \notin Unheard => target.region = words["region"]
                         /\ "app_name" \notin Unheard /\ target.app # None
                              => target.app = words["app_name"]
    BY DEF GoesWhereSaidLast
  <2>1. turn.step \in {"decided", "second"} /\ InSession(turn.text)
    BY PlainEnds DEF EndsDecided, EndsSecond
  <2> QED
    BY <2>1, NamedIsSaid DEF GoesThere
<1>1. Plain /\ InSession(turn.text) /\ Main \in Spoken /\ (EndsDecided \/ EndsSecond)
  BY PlainEnds
<1>2. SameTarget(MainEntities)
  BY <1>1, MainNamesTarget
<1>3. CASE EndsDecided
  <2>1. reply'.sent = <<>> \/ \E sent : reply'.sent = <<sent>> /\ GoesThere(sent.target)
    BY <1>1, <1>2, <1>3, AnswerGoesThere DEF EndsDecided
  <2> QED
    BY <2>1
<1>4. CASE EndsSecond
  <2> DEFINE command == SecondOf[turn.command]
             entities == PassedOn(turn.command, turn.entities)
  <2>1. PICK r : /\ IsExecuted(command, entities, ScopeOf(turn.entities), r)
                 /\ reply' = [r EXCEPT !.sent = turn.first.sent \o @]
    BY <1>4 DEF EndsSecond
  <2>2. /\ turn.command \in DOMAIN First /\ turn.entities = MainEntities
        /\ Main = First[turn.command]
    BY <1>4, SecondIs, SecondIsMain DEF EndsSecond
  <2>3. ScopeOf(turn.entities) = ScopeOf(entities) /\ SameTarget(entities)
    BY <1>2, <2>2, PassedOnIs DEF SameTarget
  <2>4. command \in Spoken
    BY <2>2, FirstIsSpoken
  <2>5. r.sent = <<>> \/ \E sent : r.sent = <<sent>> /\ GoesThere(sent.target)
    <3> HIDE DEF entities, command
    <3> QED
      BY <2>1, <2>3, <2>4, AnswerGoesThere
  <2>6. reply'.sent = turn.first.sent \o r.sent
    BY <2>1 DEF IsExecuted, Fields
  <2>7. /\ Missing(Main, turn.entities, ScopeOf(turn.entities)) = {}
        /\ turn.first.sent = <<turn.first.sent[1]>>
        /\ turn.first.sent[1].target = Destination(Main, turn.entities, ScopeOf(turn.entities))
        /\ turn.first.sent[1].target.region \in Regions
    BY <1>4, <2>2 DEF EndsSecond, DialogueInv, SecondInv
  <2>8. Catalogue[Main].without # "local"
    BY <1>1, <2>2, FirstIs, CatalogueIsFine DEF Fine
  <2>9. GoesThere(turn.first.sent[1].target)
    BY <1>1, <1>2, <2>2, <2>7, <2>8, NothingMissing, DestinationIs
  <2>10. PICK first : turn.first.sent = <<first>> /\ GoesThere(first.target)
    BY <2>7, <2>9
  <2>11. CASE r.sent = <<>>
    <3>1. reply'.sent = <<first>>
      BY <2>6, <2>10, <2>11
    <3> QED
      BY <2>10, <3>1
  <2>12. ASSUME NEW sent, r.sent = <<sent>>, GoesThere(sent.target)
         PROVE  GoesThere(reply'.sent[i].target)
    <3>1. <<first>> \in Seq({first, sent}) /\ <<sent>> \in Seq({first, sent})
      OBVIOUS
    <3>2. reply'.sent \in Seq({first, sent})
      BY <2>6, <2>10, <2>12, <3>1, ConcatProperties
    <3>3. reply'.sent[i] \in {first, sent}
      BY <3>2, ElementOfSeq, LenProperties
    <3> QED
      BY <2>10, <2>12, <3>3
  <2> QED
    BY <2>5, <2>11, <2>12
<1> QED
  BY <1>1, <1>3, <1>4

\* The requests of a turn go to the app and region that were said last, and to
\* those of the facts if none was said, unless the session has missed the word.
THEOREM GoesToTheLastTarget == Spec => TargetIsLastSaid
BY DialogueHolds, GoesWhereSaidLastStep, PTL DEF Spec, TargetIsLastSaid

\* The word for an entity, under its name or its older one.
Word(d, k) == IF k \in DOMAIN d THEN d[k] ELSE d[Older[k]]

\* The words of the message.
OfMessage == Current(turn.text)

\* The normalisation has it.
LEMMA NormalizedWord ==
    ASSUME NEW d, NEW k, NamesOf(k) \intersect DOMAIN d # {}
    PROVE  k \in DOMAIN Normalized(d) /\ Normalized(d)[k] = Word(d, k)
<1>1. CASE k \in DOMAIN d
  BY <1>1, NormalizedIs DEF Word
<1>2. CASE k \notin DOMAIN d
  <2>1. k \in DOMAIN Older /\ Older[k] \in DOMAIN d
    BY <1>2 DEF NamesOf
  <2> QED
    BY <1>2, <2>1, NormalizedIs DEF Word
<1> QED
  BY <1>1, <1>2

\* A command that sends a request has the words of the message, or else those of
\* the session.
LEMMA UsedIs ==
    ASSUME DialogueInv, [Next]_vars, EndsPlain, turn.step = "decided",
           reply'.sent # <<>>, NEW k \in Catalogue[Main].required
    PROVE  /\ NamesOf(k) \intersect DOMAIN OfMessage # {} => reply'.used[k] = Word(OfMessage, k)
           /\ NamesOf(k) \intersect DOMAIN OfMessage = {} =>
                NamesOf(k) \intersect DOMAIN session # {} /\ reply'.used[k] = Word(session, k)
<1> DEFINE current == Current(turn.text)
           merged == Merged(turn.text)
           all == Normalized(current) @@ Normalized(merged)
<1>1. Plain /\ EndsDecided /\ OfMessage = current
  BY PlainEnds DEF EndsSecond, OfMessage
<1>2. /\ reply'.used = MainEntities
      /\ Missing(Main, MainEntities, ScopeOf(MainEntities)) = {}
  BY <1>1 DEF EndsDecided, IsExecuted
<1>3. k \in DOMAIN MainEntities
  BY <1>2, NothingMissing
<1>4. k \in DOMAIN all /\ reply'.used[k] = all[k]
  BY <1>1, <1>2, <1>3, MainEntitiesIs
<1>5. CASE NamesOf(k) \intersect DOMAIN current # {}
  <2>1. k \in DOMAIN Normalized(current) /\ Normalized(current)[k] = Word(current, k)
    BY <1>5, NormalizedWord
  <2>2. all[k] = Normalized(current)[k]
    BY <2>1, MergeLeft
  <2> QED
    BY <1>1, <1>4, <1>5, <2>1, <2>2
<1>6. CASE NamesOf(k) \intersect DOMAIN current = {}
  <2>1. k \notin DOMAIN Normalized(current)
    BY <1>6, NormalizedIs
  <2>2. k \in DOMAIN Normalized(merged) /\ all[k] = Normalized(merged)[k]
    <3>1. DOMAIN all = DOMAIN Normalized(current) \union DOMAIN Normalized(merged)
      BY MergeDomain
    <3>2. k \in DOMAIN Normalized(merged)
      BY <1>4, <2>1, <3>1
    <3> QED
      BY <2>1, <3>2, MergeRight
  <2>3. NamesOf(k) \intersect DOMAIN merged # {}
    BY <2>2, NormalizedIs
  <2>4. Normalized(merged)[k] = Word(merged, k)
    BY <2>3, NormalizedWord
  <2>5. \A n \in NamesOf(k) : /\ n \in DOMAIN merged <=> n \in DOMAIN session
                              /\ n \in DOMAIN merged => merged[n] = session[n]
    <3>1. CASE ByRule(turn.text)
      <4>1. current = turn.text.captures /\ merged = turn.text.captures @@ session
        BY <3>1 DEF Current, Merged
      <4> HIDE DEF current, merged
      <4> QED
        BY <1>6, <4>1 DEF @@
    <3>2. CASE ~ByRule(turn.text)
      BY <3>2 DEF Merged
    <3> QED
      BY <3>1, <3>2
  <2> HIDE DEF merged, current, all
  <2>6. Word(merged, k) = Word(session, k)
    <3>1. CASE k \in DOMAIN merged
      BY <2>5, <3>1 DEF Word, NamesOf
    <3>2. CASE k \notin DOMAIN merged
      BY <2>3, <2>5, <3>2 DEF Word, NamesOf
    <3> QED
      BY <3>1, <3>2
  <2>7. NamesOf(k) \intersect DOMAIN session # {}
    BY <2>3, <2>5
  <2> QED
    BY <1>1, <1>4, <1>6, <2>2, <2>4, <2>6, <2>7 DEF current
<1> QED
  BY <1>5, <1>6

\* The words of the message, and those of the session under names that the
\* message does not have, are the last ones that were said.
LEMMA WordsAreSaid ==
    ASSUME DialogueInv, turn.step = "decided", NEW n, n \notin Unheard
    PROVE  /\ n \in DOMAIN OfMessage =>
                /\ n \in DOMAIN said /\ OfMessage[n] = said[n] /\ n \in DOMAIN Says(turn.text)
           /\ n \notin DOMAIN OfMessage =>
                /\ n \in DOMAIN session <=> n \in DOMAIN said
                /\ n \in DOMAIN session => session[n] = said[n]
<1>1. InSession(turn.text)
  BY DecidedIs
<1>2. DOMAIN session \subseteq DOMAIN said
  BY DEF DialogueInv, SaidInv
<1>3. CASE ByRule(turn.text)
  <2>1. OfMessage = turn.text.captures
    BY <1>3 DEF OfMessage, Current
  <2>2. n \in DOMAIN turn.text.captures =>
          n \in DOMAIN Says(turn.text) /\ Says(turn.text)[n] = turn.text.captures[n]
    BY <1>1, SaysIs DEF InSession
  <2>3. n \in DOMAIN Says(turn.text) => n \in DOMAIN said /\ said[n] = Says(turn.text)[n]
    BY DEF DialogueInv, HeardInv
  <2> QED
    BY <1>2, <2>1, <2>2, <2>3, HeardIs
<1>4. CASE ~ByRule(turn.text)
  <2>1. OfMessage = Entities(turn.text)
    BY <1>4 DEF OfMessage, Current
  <2>2. n \in DOMAIN Entities(turn.text) =>
          n \in DOMAIN session /\ session[n] = Entities(turn.text)[n]
    <3>1. session = Entities(turn.text) @@ session
      BY <1>1 DEF InSession
    <3>2. \A e, d : n \in DOMAIN e => n \in DOMAIN (e @@ d) /\ (e @@ d)[n] = e[n]
      BY DEF @@
    <3> QED
      BY <3>1, <3>2
  <2>3. DOMAIN Entities(turn.text) \subseteq DOMAIN Says(turn.text)
    BY <1>1, SaysIs DEF InSession
  <2>4. n \in DOMAIN said => n \in DOMAIN session /\ session[n] = said[n]
    BY <1>4, HeardIs
  <2> QED
    BY <1>2, <2>1, <2>2, <2>3, <2>4
<1> QED
  BY <1>3, <1>4

\* A word that the message has under an older name alone is in the shadow of none.
LEMMA ShadowedIs ==
    ASSUME DialogueInv, turn.step = "decided", NEW k \in DOMAIN Older,
           Older[k] \in DOMAIN OfMessage, Older[k] \notin Unheard,
           k \notin DOMAIN OfMessage, k \notin Unheard, k \in DOMAIN said
    PROVE  k \in shadowed
<1>1. turn.text \in Texts
  BY DecidedIs DEF InSession
<1>2. ~ByRule(turn.text)
  BY <1>1, TextsAssumption DEF OfMessage, Current
<1>3. k \notin DOMAIN Says(turn.text)
  BY <1>2 DEF OfMessage, Current, Unheard, DialogueInv, HeardInv
<1>4. Older[k] \in DOMAIN Says(turn.text)
  BY WordsAreSaid
<1> QED
  BY <1>3, <1>4 DEF DialogueInv, HeardInv

\* A step that ends a turn with a request.
LEMMA RunsWithTheLastWordsStep == DialogueInv /\ [Next]_vars => [RunsWithTheLastWords]_vars
<1> SUFFICES ASSUME DialogueInv, [Next]_vars, EndsPlain, turn.step = "decided",
                    reply'.sent # <<>>, NEW k \in Catalogue[Main].required,
                    NamesOf(k) \intersect Unheard = {}
             PROVE  reply'.used[k] =
                      IF \/ k \notin DOMAIN said
                         \/ k \in shadowed /\ Older[k] \in DOMAIN OfMessage
                        THEN said[Older[k]] ELSE said[k]
  BY DEF RunsWithTheLastWords, OfMessage
<1>1. /\ k \in NamesOf(k) /\ k \notin Unheard
      /\ k \in DOMAIN Older => Older[k] \in NamesOf(k) /\ Older[k] \notin Unheard
      /\ \A n \in NamesOf(k) : n = k \/ (k \in DOMAIN Older /\ n = Older[k])
  BY DEF NamesOf
<1>2. /\ shadowed \subseteq DOMAIN Older
      /\ \A n \in DOMAIN Says(turn.text) : n \notin shadowed
  BY DEF DialogueInv, SaidInv, HeardInv
<1>3. CASE k \in DOMAIN OfMessage
  <2>1. reply'.used[k] = OfMessage[k]
    BY <1>1, <1>3, UsedIs DEF Word
  <2> QED
    BY <1>1, <1>2, <1>3, <2>1, WordsAreSaid
<1>4. CASE k \notin DOMAIN OfMessage /\ NamesOf(k) \intersect DOMAIN OfMessage # {}
  <2>1. k \in DOMAIN Older /\ Older[k] \in DOMAIN OfMessage
    BY <1>1, <1>4
  <2>2. reply'.used[k] = OfMessage[Older[k]]
    BY <1>4, UsedIs DEF Word
  <2>3. OfMessage[Older[k]] = said[Older[k]]
    BY <1>1, <2>1, WordsAreSaid
  <2>4. k \in DOMAIN said => k \in shadowed
    BY <1>1, <1>4, <2>1, ShadowedIs
  <2> QED
    BY <2>1, <2>2, <2>3, <2>4
<1>5. CASE NamesOf(k) \intersect DOMAIN OfMessage = {}
  <2>1. NamesOf(k) \intersect DOMAIN session # {} /\ reply'.used[k] = Word(session, k)
    BY <1>5, UsedIs
  <2>2. k \in shadowed => Older[k] \notin DOMAIN OfMessage
    BY <1>1, <1>2, <1>5
  <2>3. /\ k \in DOMAIN session <=> k \in DOMAIN said
        /\ k \in DOMAIN session => session[k] = said[k]
    BY <1>1, <1>5, WordsAreSaid
  <2>4. CASE k \in DOMAIN session
    BY <2>1, <2>2, <2>3, <2>4 DEF Word
  <2>5. CASE k \notin DOMAIN session
    <3>1. k \in DOMAIN Older /\ Older[k] \in DOMAIN session
      BY <1>1, <2>1, <2>5
    <3>2. session[Older[k]] = said[Older[k]]
      BY <1>1, <1>5, <3>1, WordsAreSaid
    <3> QED
      BY <2>1, <2>3, <2>5, <3>2 DEF Word
  <2> QED
    BY <2>4, <2>5
<1> QED
  BY <1>3, <1>4, <1>5

\* A command runs with the last words that were said and that the session has not
\* missed; of two names the newer one is preferred, unless only the older one is
\* in the message.
THEOREM RunsWithLastWords == Spec => ArgumentsAreLastSaid
BY DialogueHolds, RunsWithTheLastWordsStep, PTL DEF Spec, ArgumentsAreLastSaid
=============================================================================
