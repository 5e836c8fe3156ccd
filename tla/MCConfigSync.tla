---------------------------- MODULE MCConfigSync ----------------------------
(***************************************************************************)
(* Small instances of ConfigSync.  The environments are "dev" and          *)
(* "dev2-dev": a tag of the second ends in "-dev" too, so the analyzer     *)
(* selects it for both, and its name starts with "dev", so that in etcd an *)
(* upsert of dev deletes its keys.  Tag dN is vN-dev, pN is vN-dev2-dev.   *)
(***************************************************************************)
EXTENDS ConfigSync

CONSTANTS dev, dev2, d1, d2, p1, p2

MCVersion == [t \in Tags |-> IF t \in {d1, p1} THEN 1 ELSE 2]

MCSelects == [t \in Tags |-> IF t \in {d1, d2} THEN {dev} ELSE {dev, dev2}]

MCUnder == [e \in Envs |-> IF e = dev THEN Envs ELSE {e}]

(* The branch head holds no environment yet, v2-dev2-dev does not parse for
   dev2-dev.                                                               *)
MCBroken == ({BranchHead} \X {dev, dev2}) \cup (({p2} \cap Tags) \X {dev2})

(* v2-dev parses for dev, but its configuration cannot be stored. *)
MCUnstorable == ({d2} \cap Tags) \X {dev}
=============================================================================
