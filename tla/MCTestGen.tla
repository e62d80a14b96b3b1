----------------------------- MODULE MCTestGen ------------------------------
(* Instances of TestGen for TLC.                                            *)
EXTENDS TestGen, TLC
CONSTANTS j1, j2, own, new

OneIterates == j1 :> 2 @@ j2 :> 1
OneWrites == j1 :> {own, new} @@ j2 :> {}
=============================================================================
