--------------------------- MODULE MCRelationship ---------------------------
(* Instances of Relationship for TLC.                                       *)
EXTENDS Relationship, TLC

CONSTANTS a, b, r1, r2

MCUsers == {a, b}
MCTwoRequests == {r1, r2}
MCCalls == {c \in AllCalls : c.user # c.target \/ c.op = "follow"}
MCFollow == {c \in MCCalls : c.op = "follow"}
MCFollowOrBlock == {c \in MCCalls : c.op # "unblock" /\ c.user # c.target /\ c.type \in {NoBlock, Block3}}

MCSymmetry == Permutations(MCTwoRequests) \cup Permutations(MCUsers)
=============================================================================
