----------------------------- MODULE MCAccessKeys -----------------------------
(***************************************************************************)
(* Small instances of AccessKeys: an administrator's key, a reader's key   *)
(* and one that administers an environment.                                *)
(***************************************************************************)
EXTENDS AccessKeys, TLC

CONSTANTS dev, feat, k1, k2, c1, c2

OnDev(ops) == [admin |-> FALSE, ops |-> [e \in Envs |-> IF e = dev THEN ops ELSE {}]]

MCReader == OnDev({"ReadConfig"})
MCEnvAdmin == OnDev({"EnvAdminAccess"})

OnlyAdmin == {Admin}
TwoProfiles == {Admin, MCReader}
AllProfiles == {Admin, MCReader, MCEnvAdmin}

(* The first page, of two items. *)
PageOfTwo == {<<1, 2>>}

(* Keys are random and requests alike. *)
Symmetry == Permutations(Keys) \cup Permutations(Clients)
=============================================================================
