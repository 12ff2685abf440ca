--------------------------- MODULE MCNotification ---------------------------
(* Two comments of a guest on a post, the first in reply to one of his own, *)
(* the second to a fan's; and a mention of a user who does not exist.       *)
EXTENDS Notification

Note(u, a, t) == [user |-> u, actor |-> a, type |-> t]

Remark == Note("author", "guest", "comment")

MCQueues  == <<"created", "mentioned">>
MCMsgs    == {"comment1", "comment2", "mention"}
MCQueueOf == [comment1 |-> "created", comment2 |-> "created", mention |-> "mentioned"]
MCNotices ==
  [comment1 |-> <<Note("guest", "guest", "reply"), Remark>>,
   comment2 |-> <<Note("fan", "guest", "reply"), Remark>>,
   mention  |-> <<Note("", "guest", "mention")>>]

\* The mention is of an id that is well-formed, and nobody's.
Ghosts == {Note("ghost", "guest", "mention")}
LiveNotices == [m \in MCMsgs |-> IF m = "mention" THEN <<Note("ghost", "guest", "mention")>>
                                 ELSE MCNotices[m]]
=============================================================================
