---------------------------- MODULE MCDelegation ----------------------------
(* Instances of Delegation for TLC: agent 1 is a lead, 2 and 3 are juniors. *)
EXTENDS Delegation, TLC

CONSTANTS t1, t2, w1, w2, fix, doc

MCFrom == [t \in Tasks |-> 1]
MCToSame == [t \in Tasks |-> 2]
MCPriority == [t \in Tasks |-> IF t = t1 THEN 50 ELSE 60]
Plain == [words |-> fix, context |-> FALSE, raw |-> FALSE]
MCDescription == [t \in Tasks |-> Plain]
(* The description of t2 has a character that SanitizeTask removes.         *)
TwoDescriptions ==
  [t \in Tasks |-> [Plain EXCEPT !.words = IF t = t1 THEN fix ELSE doc, !.raw = t # t1]]
MCRole == <<"lead", "junior", "junior">>
MCDepth == <<1, 1, 1>>

Symmetry == Permutations(Workers)

(* Two finished sessions to delegate from.                                  *)
Old(a) == [agent |-> a, task |-> Plain, status |-> "done",
           repo |-> TRUE, for |-> NoTask]
OldTwo == <<Old(1), Old(1)>>
=============================================================================
