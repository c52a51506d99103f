------------------------------ MODULE MCChoice ------------------------------
(* EnvironmentChoice for TLC.                                               *)
EXTENDS EnvironmentChoice, MCEnvironment
=============================================================================
