----------------------------- MODULE NluService -----------------------------
(***************************************************************************)
(* What the NLU service makes of a text: NLUModel.parse of nlu-app.  A     *)
(* text stands for what its models and regular expressions find in it:     *)
(*   ranking  <<[intent, score], ...>>, best first, scores calibrated      *)
(*   found    <<[key, word, score], ...>>, the entities of the NER model   *)
(*   rules    the words its regular expressions match, a dictionary        *)
(* A dictionary is a function from some of the Keys to Words.              *)
(***************************************************************************)
EXTENDS Integers, Sequences, Dictionaries

CONSTANTS
    MinConfidence,      \* settings.intent_min_confidence, in percent
    MinMargin,          \* settings.intent_min_margin
    MinEntity,          \* settings.entity_min_confidence
    MaxDoubt,           \* 0.6: above it nothing is persisted
    Known               \* the entities the model was trained for

ASSUME ThresholdAssumption == MinConfidence \in Nat \ {0}

Empty == [k \in {} |-> {}]

Score(ranking, i) == IF i <= Len(ranking) THEN ranking[i].score ELSE 0

\* _build_decision: only an accepted intent is passed on.
Action(ranking) ==
    IF Score(ranking, 1) < MinConfidence THEN "reject"
    ELSE IF Score(ranking, 1) - Score(ranking, 2) < MinMargin THEN "clarify"
    ELSE "accept"

\* _build_quality_signals: the doubt is what the best score lacks.
Doubt(ranking) == 100 - Score(ranking, 1)

\* _extract_entities: the places of the list it keeps, where a word that an
\* entity already has is not kept again.
Extracted(found) ==
    LET passes(i) == found[i].key \in Known /\ found[i].score >= MinEntity
    IN {i \in DOMAIN found :
          /\ passes(i)
          /\ \A j \in 1 .. (i - 1) : passes(j) =>
               <<found[j].key, found[j].word>> # <<found[i].key, found[i].word>>}

RegionNames == {"osc-fr1", "osc-secnum-fr1"}

\* The extractors: a region is never taken for the name of an app.
RuleWords(rules) ==
    [k \in {k \in DOMAIN rules : ~(k = "app_name" /\ rules[k] \in RegionNames)} |-> rules[k]]

\* _apply_rule_based_entity_overrides: the model's word for an entity is
\* replaced by the rule's; without a rule it stands, but for app_name, which
\* is dropped.
Overridden(found, rules) ==
    {i \in Extracted(found) : found[i].key \notin DOMAIN rules \union {"app_name"}}

\* NLUAdapter.interpret: of several words for an entity the last one wins.
Entities(text) ==
    LET rules == RuleWords(text.rules)
        kept == Overridden(text.found, rules)
        lastOf(k) == CHOOSE i \in kept :
            text.found[i].key = k /\ \A j \in kept : text.found[j].key = k => j <= i
    IN [k \in DOMAIN rules \union {text.found[i].key : i \in kept} |->
          IF k \in DOMAIN rules THEN rules[k] ELSE text.found[lastOf(k)].word]

Intent(text, none) == IF Action(text.ranking) = "accept" THEN text.ranking[1].intent ELSE none

ShouldPersist(text) == Action(text.ranking) = "accept" /\ Doubt(text.ranking) < MaxDoubt
=============================================================================
