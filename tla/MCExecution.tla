---------------------------- MODULE MCExecution ----------------------------
(***************************************************************************)
(* Instances of Execution for TLC: a job and a host.                       *)
(***************************************************************************)
EXTENDS Execution

CONSTANTS j1, h1

=============================================================================
