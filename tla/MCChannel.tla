---------------------------- MODULE MCChannel ----------------------------
(* An owner and two others, and every RPC of any of them on one channel.    *)
EXTENDS Channel, TLC

CONSTANTS boss, ann, ben, r1, r2, r3

MCUsers == {boss, ann, ben}
MCThreeRequests == {r1, r2, r3}

\* The two others differ as ann is the author of the old post.
MCCalls ==
  [op : {"subscribe", "unsubscribe", "publish"}, user : {ann, ben}]
    \cup [op : {"create", "publish"}, user : {boss}]
    \cup [op : {"update", "delete"}, user : {boss, ben}]
    \cup [op : {"add_admin", "remove_admin"}, user : {boss}, target : {boss, ben}]
    \cup [op : {"remove_admin"}, user : {ben}, target : {boss}]
    \cup [op : {"delete_post"}, user : MCUsers, post : MCThreeRequests \cup {OldPost}]

RequestSymmetry == Permutations(MCThreeRequests)
=============================================================================
