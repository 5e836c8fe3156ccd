---------------------------- MODULE MCNotifyBroker ----------------------------
(* Small instances of NotifyBroker.  Connections are interchangeable. *)
EXTENDS NotifyBroker, TLC

Symmetry == Permutations(Handlers)
=============================================================================
