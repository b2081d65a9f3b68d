------------------------------- MODULE NodeMC -------------------------------
(***************************************************************************)
(* Values for the constants of Node in TLC's runs.                         *)
(***************************************************************************)
EXTENDS Node

SignalsHeard == {-60}
=============================================================================
