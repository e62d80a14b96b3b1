------------------------------ MODULE MCRelay ------------------------------
(* Instances of Relay for TLC.                                              *)
EXTENDS Relay

CONSTANTS s1, c1, c2, h1

OneShard == [s \in Streamed |-> h1]
=============================================================================
