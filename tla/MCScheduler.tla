---------------------------- MODULE MCScheduler ----------------------------
(* Instances of Scheduler for TLC.                                          *)
EXTENDS Scheduler

CONSTANTS a, b, p1, p2

(* The bound on concurrency: the second process serves until the first      *)
(* fault, switch or recorded result, and then has been stopped.             *)
Bounded ==
  service[p2] # "down" =>
    /\ faults = 0
    /\ \A s \in Schedules : active[s] /\ failures[s] = 0
=============================================================================
