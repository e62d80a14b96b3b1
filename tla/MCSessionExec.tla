--------------------------- MODULE MCSessionExec ---------------------------
(* Instances of SessionExec for TLC: s1 has an interactive provider, s2 has *)
(* not.                                                                     *)
EXTENDS SessionExec

CONSTANTS s1, s2

(* The bound on concurrency: both sessions are executed in one behaviour    *)
(* only while nothing fails, nobody cancels and one question was asked.     *)
(* Each of them alone meets everything.                                     *)
Bounded ==
  (\A s \in Sessions : exec[s] # "none") =>
    /\ faults = 0
    /\ \A s \in Sessions : row[s] # "cancelling" /\ asked[s] <= 1
=============================================================================
