------------------------------- MODULE MCHmi -------------------------------
(***************************************************************************)
(* Two configurations with a row each, a register and a bit, and the same  *)
(* port; and one configuration with a register.                            *)
(***************************************************************************)
EXTENDS Hmi

TwoFiles == <<[a |-> 0], [b |-> 0]>>
OneFile == <<[a |-> 0]>>
SamePort == [c \in Configs |-> 502]
=============================================================================
