----------------------------- MODULE MCDelivery -----------------------------
(***************************************************************************)
(* Instances of Delivery for TLC.                                          *)
(***************************************************************************)
EXTENDS Delivery

\* Heads that say after which event they subscribe, and heads that do not.
BothKinds == BOOLEAN
Careless == {FALSE}
=============================================================================
