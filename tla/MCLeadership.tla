----------------------------- MODULE MCLeadership -----------------------------
(* A small instance of Leadership. *)
EXTENDS Leadership

CONSTANTS i1, i2, none
=============================================================================
