------------------------------ MODULE EtcdConfig ------------------------------
(***************************************************************************)
(* Deleting a configuration in etcd.  GetBaseKey does not end in the       *)
(* delimiter, so the prefix of "dev" is also the prefix of "develop":      *)
(* Under[e] are the environments whose names start with e.                 *)
(***************************************************************************)
EXTENDS ConfigKeys

CONSTANT Under  \* [Envs -> SUBSET Envs]

ASSUME UnderAssumption ==
  /\ Under \in [Envs -> SUBSET Envs]
  /\ \A e \in Envs : e \in Under[e]

(* Mutants: without WithPrefix no key is deleted; with a prefix that stops
   before the environment all of them are.                                 *)
MutDeleteNothing(kv, e) == kv
MutDeleteAll(kv, e) == [k \in DOMAIN kv |-> Missing]

(* Delete with WithPrefix on GetBaseKey(repo, e). *)
PrefixDelete(kv, e) == [k \in DOMAIN kv |-> IF k[1] \in Under[e] THEN Missing ELSE kv[k]]
=============================================================================
