--------------------------- MODULE MCConversation ---------------------------
(* Instances of Conversation for TLC.                                       *)
EXTENDS Conversation, TLC
CONSTANTS m1, m2, m3, u1, u2, a, b

(* m1 names an agent and m3 goes on; m2 comes from somebody else.           *)
Answers == {{}, {b}, {a, b}}
Authors == m1 :> u1 @@ m2 :> u2 @@ m3 :> u1
Named == m1 :> a @@ m2 :> b @@ m3 :> NoAgent
=============================================================================
