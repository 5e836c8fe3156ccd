--------------------------- MODULE MCConfigStore ---------------------------
(***************************************************************************)
(* Small instances of ConfigStore.  Group g takes over global x; version 1 *)
(* defines g and x; version 2 defines g and y, and drops x.                *)
(***************************************************************************)
EXTENDS ConfigStore

CONSTANTS dev, develop, g, x, y

MCContent == [v \in Versions |-> IF v = 1 THEN {g, x} ELSE {g, y}]

MCRefs == [h \in Groups |-> {x}]

MCRequests == {<<{g}, {y}>>}

(* "dev" is a prefix of "develop". *)
MCPrefix == [e \in Envs |-> IF e = dev THEN {dev, develop} ELSE {e}]
=============================================================================
