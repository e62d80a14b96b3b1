------------------------------ MODULE MCEngine ------------------------------
(* Instances of Engine for TLC.                                             *)
EXTENDS Engine, TLC
CONSTANTS s1, s2, s3, r1, r2

TwoOnOne == s1 :> r1 @@ s2 :> r1 @@ s3 :> r2
LastIsIdle == s1 :> {"edit f", "create n"} @@ s2 :> {"edit f", "edit n"} @@ s3 :> {}
FirstRetries == s1 :> 2 @@ s2 :> 1 @@ s3 :> 1
=============================================================================
