------------------------------ MODULE MCChat ------------------------------
(* A conversation of three, two of whom write, and somebody who is not in it. *)
EXTENDS Chat, TLC

CONSTANTS a, b, c, outsider, none, r1, r2, r3

MCUsers == {a, b, c, outsider}
MCMembers == {a, b, c}
MCHistory == <<a>>
MCThreeRequests == {r1, r2, r3}

MCCalls ==
  [op : {"send"}, user : {a}]
    \cup [op : {"counts"}, user : {c}]
    \cup [op : {"open"}, user : {a}]
    \cup [op : {"mark_all"}, user : {c}]
    \cup [op : {"mark_one"}, user : {a, c}, message : {1}]
    \cup [op : {"send", "mark_all"}, user : {outsider}]
    \cup [op : {"mark_one"}, user : {outsider}, message : {1}]

RequestSymmetry == Permutations(MCThreeRequests)
=============================================================================
