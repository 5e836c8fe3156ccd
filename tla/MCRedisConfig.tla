---------------------------- MODULE MCRedisConfig ----------------------------
(***************************************************************************)
(* Small instances of RedisConfig.  Version 1 defines group g and global   *)
(* x, which g takes over; version 2 defines g and y.                       *)
(***************************************************************************)
EXTENDS RedisConfig, TLC

CONSTANTS dev, feat, g, x, y, s, r1, c1, c2, d1

MCContent == [v \in Versions |-> IF v = 1 THEN {g, x} ELSE {g, y}]

MCRefs == [h \in Groups |-> {x}]

MCRequests == {<<{g}, {y}>>}

NoOverrides == {{}}

MCOverrides == {{}, {x}}

(* Requests are interchangeable. *)
Symmetry == Permutations(Cloners)
=============================================================================
