---------------------------- MODULE EntityTypes ----------------------------
(***************************************************************************)
(* The entities of a message, a session or a user's facts, cut down to the *)
(* two that say which application a command acts on.                       *)
(***************************************************************************)
CONSTANTS
    Values,     \* application names and regions
    NoValue     \* an entity that is absent

ASSUME NoValueAssumption == NoValue \notin Values

\* The entities _resolve_app_region needs.
Keys == {"app_name", "region"}

EntitySet == [Keys -> Values \union {NoValue}]
Targets == [Keys -> Values]

NoEntities == [k \in Keys |-> NoValue]

\* dict(base); .update(entities), where an absent entity updates nothing.
Update(base, entities) ==
    [k \in Keys |-> IF entities[k] # NoValue THEN entities[k] ELSE base[k]]

\* Both the application and its region are there.
NamesTarget(entities) == \A k \in Keys : entities[k] # NoValue
=============================================================================
