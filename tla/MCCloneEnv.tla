------------------------------ MODULE MCCloneEnv ------------------------------
(***************************************************************************)
(* Small instances of CloneEnv.  Version 1 of an environment defines group *)
(* g and global x, version 2 group g alone; s is a secret.  The name "dev" *)
(* begins with "de", and "dev2" with both: a prefix is not a whole name.   *)
(***************************************************************************)
EXTENDS CloneEnv, Sequences, TLC

CONSTANTS de, dev, dev2, g, x, s

MCContent == [v \in Versions |-> IF v = 1 THEN {g, x} ELSE {g}]

MCRefs == [h \in Groups |-> {x}]

MCUnder ==
  [e \in Envs |-> {f \in Envs : \/ f = e \/ e = de
                                \/ e = dev /\ f = dev2}]

MCOverrides == {{}, {x}}

(* A digit sorts before the colon that ends a name: the keys of dev2 are
   before those of dev.  Globals come before groups; secrets are ordered
   among themselves.                                                       *)
NameOrder == <<x, g, s>>
EnvOrder == <<de, dev2, dev>>

Position(seq, a) == CHOOSE i \in DOMAIN seq : seq[i] = a

MCOrder ==
  [k \in Envs \X (Names \cup Secrets) |->
     Len(NameOrder) * (Position(EnvOrder, k[1]) - 1) + Position(NameOrder, k[2])]

Holds(t) ==
  \/ meta[t] # None
  \/ \E n \in Names : db["config"][<<t, n>>] # Missing
  \/ \E n \in Secrets : db["secrets"][<<t, n>>] # Missing

(* A name is in use if a request clones to it or something of a clone is
   there: anything, or the globals of a request if the name is reserved.   *)
InUse(t) ==
  \/ \E c \in Cloners : job[c].dst = t
  \/ \E n \in Names : db["config"][<<t, n>>] = Override
  \/ t \notin Reserved /\ Holds(t)

(* Bounds: clones to one name at a time (another name is taken after the
   last was deleted, with all that was left behind), and globals set for all
   names but dev2.                                                         *)
Bounds ==
  /\ \A t, u \in Targets : InUse(t) /\ InUse(u) => t = u
  /\ \A c \in Cloners : job[c].dst = dev2 <=> job[c].dst # None /\ job[c].globs = {}

(* Requests are interchangeable. *)
Symmetry == Permutations(Cloners)
=============================================================================
