----------------------------- MODULE SessionLife -----------------------------
(***************************************************************************)
(* What a session promises to those who read its row (the task queue, the  *)
(* schedulers, the dashboard): it is created running, may be asked to      *)
(* stop at any time, and gets a final status only while it runs or is      *)
(* asked to stop, so that no result overwrites another one; it is done     *)
(* only after its container ended with exit code zero.                     *)
(***************************************************************************)
CONSTANT Sessions

VARIABLES row, container

Terminal == {"done", "error", "cancelled"}
Ended    == {"zero", "nonzero"}

Init ==
  /\ row = [s \in Sessions |-> "absent"]
  /\ container = [s \in Sessions |-> "none"]

Create(s) ==
  /\ row[s] = "absent"
  /\ row' = [row EXCEPT ![s] = "running"]
  /\ UNCHANGED container

AskToStop(s) ==
  /\ row[s] # "absent"
  /\ row' = [row EXCEPT ![s] = "cancelling"]
  /\ UNCHANGED container

Settle(s, result) ==
  /\ row[s] \in {"running", "cancelling"}
  /\ result = "done" => container[s] = "zero"
  /\ row' = [row EXCEPT ![s] = result]
  /\ UNCHANGED container

(* A container is made, runs, and ends; it does so once.                    *)
Moves(s) ==
  /\ \E c \in {"created", "running"} \cup Ended :
       /\ <<container[s], c>> \in {<<"none", "created">>, <<"created", "running">>,
                                   <<"running", "zero">>, <<"running", "nonzero">>}
       /\ container' = [container EXCEPT ![s] = c]
  /\ UNCHANGED row

Next ==
  \E s \in Sessions : \/ Create(s) \/ AskToStop(s) \/ Moves(s)
                      \/ \E result \in Terminal : Settle(s, result)

Spec == Init /\ [][Next]_<<row, container>>
=============================================================================
