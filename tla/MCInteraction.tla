--------------------------- MODULE MCInteraction ---------------------------
(* Instances of Interaction for TLC: the first user is the author.          *)
EXTENDS Interaction, TLC

CONSTANTS author, fan, r1, r2, r3

MCUsers == {author, fan}
MCContents == {"post"}
MCAuthor == [c \in MCContents |-> author]
MCThreeRequests == {r1, r2, r3}

RequestSymmetry == Permutations(MCThreeRequests)
=============================================================================
