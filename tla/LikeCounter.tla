---------------------------- MODULE LikeCounter ----------------------------
(***************************************************************************)
(* What a like counter promises: it is moved in the same atomic step as    *)
(* the like it counts, so whoever reads it sees the number of likes.       *)
(***************************************************************************)
EXTENDS Integers, FiniteSets

CONSTANTS
  Users,    \* those who like
  Items     \* what they like

VARIABLES
  liked,      \* <<user, item>> for each like
  likeCount   \* the counter of each item

Init ==
  /\ liked \subseteq Users \X Items
  /\ likeCount = [i \in Items |-> Cardinality({u \in Users : <<u, i>> \in liked})]

Like(u, i) ==
  /\ <<u, i>> \notin liked
  /\ liked' = liked \cup {<<u, i>>}
  /\ likeCount' = [likeCount EXCEPT ![i] = @ + 1]

Unlike(u, i) ==
  /\ <<u, i>> \in liked
  /\ liked' = liked \ {<<u, i>>}
  /\ likeCount' = [likeCount EXCEPT ![i] = @ - 1]

Next == \E u \in Users, i \in Items : Like(u, i) \/ Unlike(u, i)

Spec == Init /\ [][Next]_<<liked, likeCount>>
=============================================================================
