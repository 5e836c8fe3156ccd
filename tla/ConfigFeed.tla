------------------------------ MODULE ConfigFeed ------------------------------
(***************************************************************************)
(* What the synchronisation of the Git repository promises to the services *)
(* that read their configuration, with the poller, the clone and the       *)
(* database hidden.                                                        *)
(*                                                                         *)
(* Every environment has a published version.  Configurations may be       *)
(* withdrawn for a while (the writer deletes old keys before it stores     *)
(* new ones, at times those of several environments), but what is          *)
(* published next is never older than what was published before, and the   *)
(* only version that is ever announced to the subscribers is the one that  *)
(* is published at that moment.                                            *)
(***************************************************************************)
EXTENDS Naturals

CONSTANTS
  Envs,
  Versions  \* numbers: the versions a configuration may have, 0 for an unversioned one

VARIABLES
  available,  \* available[e]: a reader finds a configuration of e
  version,    \* version[e]: the version last published for e, 0 at first
  announced   \* announced[e]: the version last announced to e's subscribers

feed == <<available, version, announced>>

Init ==
  /\ available \in [Envs -> BOOLEAN]
  /\ version = [e \in Envs |-> 0]
  /\ announced = [e \in Envs |-> 0]

Withdraw(gone) ==
  /\ available' = [e \in Envs |-> available[e] /\ e \notin gone]
  /\ UNCHANGED <<version, announced>>

Publish(e, v) ==
  /\ v >= version[e]
  /\ version' = [version EXCEPT ![e] = v]
  /\ available' = [available EXCEPT ![e] = TRUE]
  /\ UNCHANGED announced

Announce(e) ==
  /\ available[e]
  /\ announced' = [announced EXCEPT ![e] = version[e]]
  /\ UNCHANGED <<available, version>>

Next ==
  \/ \E gone \in SUBSET Envs : Withdraw(gone)
  \/ \E e \in Envs, v \in Versions : Publish(e, v)
  \/ \E e \in Envs : Announce(e)

Spec == Init /\ [][Next]_feed
=============================================================================
