----------------------------- MODULE MCTransfer -----------------------------
(***************************************************************************)
(* Instances of Transfer for TLC: a job that runs on one or two hosts.     *)
(***************************************************************************)
EXTENDS Transfer

CONSTANTS h1, h2

OtherHost == [h \in Hosts |-> Hosts \ {h}]

AnyHost == [h \in Hosts |-> Hosts]

=============================================================================
