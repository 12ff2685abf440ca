----------------------------- MODULE MCComment -----------------------------
(* A post with a comment and its reply, and an id for one comment more.     *)
EXTENDS Comment, TLC

CONSTANTS a, b, none, r1, r2, r3

MCUsers == {a, b}
MCContents == {"post"}
MCComments == {"c1", "c2", "c3"}
MCOld == [c1 |-> [author |-> a, content |-> "post", parent |-> none],
          c2 |-> [author |-> b, content |-> "post", parent |-> "c1"]]
MCThreeRequests == {r1, r2, r3}

MCCalls ==
  [op : {"create"}, user : {b}, content : MCContents, parent : {none, "c2"}]
    \cup [op : {"delete"}, user : MCUsers, comment : {"c2", "c3"}]
    \cup [op : {"like", "unlike"}, user : {a}, comment : {"c2"}]

RequestSymmetry == Permutations(MCThreeRequests)
=============================================================================
