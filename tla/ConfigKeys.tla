------------------------------ MODULE ConfigKeys ------------------------------
(***************************************************************************)
(* The keys under which etcd and redis hold the configurations.            *)
(*                                                                         *)
(* A key "configleam:config:<repo>:<env>:<group|global>:<name>" is the     *)
(* pair <<env, name>>.  A value is named by where it came from: the value  *)
(* of a key in version v of environment e is <<e, v>>.                     *)
(***************************************************************************)
EXTENDS Naturals, FiniteSets

CONSTANTS
  Envs,      \* environment names: the reserved ones and those of clones
  Reserved,  \* the environments of the Git repository (CG_ENVS)
  Groups,    \* group names
  Globals,   \* global names
  Refs,      \* [Groups -> SUBSET Globals]: globals a group takes over by name
  MaxVersion,
  Content,   \* [1 .. MaxVersion -> SUBSET Names]: the names a version defines
  Missing    \* the answer of a Get that finds no key

Names == Groups \cup Globals
Keys == Envs \X Names
Versions == 1 .. MaxVersion

ASSUME NamesAssumption ==
  /\ Reserved \subseteq Envs
  /\ Groups \cap Globals = {}
  /\ Refs \in [Groups -> SUBSET Globals]
  /\ MaxVersion \in Nat
  /\ Content \in [Versions -> SUBSET Names]

Override == <<Missing, 0>>  \* a value that came with a clone request (updateGlobals)

Values == (Envs \X Versions) \cup {Override}

ASSUME MissingAssumption == Missing \notin Values /\ Missing \notin Envs

(* One transaction that puts version v of e (storeConfig). *)
PutVersion(kv, e, v) ==
  [k \in Keys |-> IF k[1] = e /\ k[2] \in Content[v] THEN <<e, v>> ELSE kv[k]]

(* e is exactly at version v: its keys, and no others. *)
IsAt(kv, e, v) ==
  \A n \in Names : kv[<<e, n>>] = IF n \in Content[v] THEN <<e, v>> ELSE Missing

IsEmpty(kv, e) == \A n \in Names : kv[<<e, n>>] = Missing
=============================================================================
