------------------------------ MODULE Comment ------------------------------
(***************************************************************************)
(* The Comment service (service/comment): comments, their replies and      *)
(* their likes, and the comment_count it has the Content service keep.     *)
(*                                                                         *)
(* The handlers check first, each check a statement or an RPC of its own,  *)
(* and write last, in a transaction that also moves reply_count or         *)
(* like_count. No two of these transactions can wait for each other in a   *)
(* ring (they lock a comment before its parent), so one is an action.      *)
(*                                                                         *)
(* Abstracted: texts, listing and sorting, mentions.  Requests are served  *)
(* once each; MaxFaults bounds the failures.                               *)
(***************************************************************************)
EXTENDS Integers, FiniteSets

CONSTANTS
  Users,       \* user ids
  Contents,    \* content ids
  Comments,    \* comment ids
  NoComment,   \* the parent of a comment that is no reply
  Old,         \* the comments there are at the start: author, content and parent of each
  Requests,    \* ids of the requests that may arrive
  Calls,       \* what they may ask
  MaxRetries,  \* cfg.MaxRetries of the RPC client
  MaxFaults    \* bound on the failures of one behaviour

Parents == Comments \cup {NoComment}
Info == [author : Users, content : Contents, parent : Parents]

AllCalls ==
  [op : {"create"}, user : Users, content : Contents, parent : Parents]
    \cup [op : {"delete", "like", "unlike"}, user : Users, comment : Comments]
NoCall == [op |-> "none"]

ASSUME UsersFinite     == IsFiniteSet(Users)
ASSUME CommentsFinite  == IsFiniteSet(Comments) /\ NoComment \notin Comments
ASSUME OldAssumption   == /\ DOMAIN Old \subseteq Comments
                          /\ \A c \in DOMAIN Old :
                               Old[c] \in Info /\ Old[c].parent \in DOMAIN Old \cup {NoComment}
ASSUME CallsAssumption == Calls \subseteq AllCalls
ASSUME InfoAssumption  == Info # {}
ASSUME RequestsFinite  == IsFiniteSet(Requests)
ASSUME BoundAssumption == MaxFaults \in Nat /\ MaxRetries \in Nat

VARIABLES
  open,          \* contents that exist
  muted,         \* contents with comments_disabled
  live,          \* comments that are there and not deleted
  dead,          \* comments with is_deleted
  info,          \* author, content and parent of each comment
  replyCount,    \* reply_count of each comment
  liked,         \* the rows <<user, comment>> of comment_likes
  likeCount,     \* like_count of each comment
  commentCount,  \* comment_count of each content
  pc,            \* where each request handler is
  call,          \* what each request asks
  id,            \* the comment a request creates, deletes or likes
  reply,         \* what the caller was told
  tries,         \* failed attempts of the UpdateCounter call
  committed,     \* requests whose transaction has committed
  events,        \* requests whose event was handed to the publisher
  faults         \* failures so far

dbVars  == <<live, dead, info, replyCount, liked, likeCount>>
content == <<open, muted, commentCount>>
reqVars == <<pc, call, id, reply, tries>>
ghosts  == <<committed, events>>
vars    == <<content, dbVars, reqVars, ghosts, faults>>

Active(r) == pc[r] \notin {"idle", "done"}
Is(r, op) == call[r].op = op
Goto(r, label) == pc' = [pc EXCEPT ![r] = label]
Finish(r, answer) == Goto(r, "done") /\ reply' = [reply EXCEPT ![r] = answer]

Repliers(p) == {c \in live : info[c].parent = p}

\* A decrement without GREATEST.
UnclampedBug(n) == n

\* GREATEST(n, 0)
Greatest0(n) == IF n < 0 THEN 0 ELSE n

\* Adds d to the counter of c, if there is such a comment.
AddTo(counter, c, d) ==
  IF c = NoComment THEN counter ELSE [counter EXCEPT ![c] = Greatest0(@ + d)]

-----------------------------------------------------------------------------
\* Some comments are there, liked by some, all counted.
Init ==
  /\ open = Contents
  /\ muted \in SUBSET Contents
  /\ live = DOMAIN Old
  /\ dead = {}
  /\ info = [c \in Comments |-> IF c \in DOMAIN Old THEN Old[c] ELSE CHOOSE i \in Info : TRUE]
  /\ replyCount = [c \in Comments |-> Cardinality(Repliers(c))]
  /\ liked \in SUBSET (Users \X DOMAIN Old)
  /\ likeCount = [c \in Comments |-> Cardinality({u \in Users : <<u, c>> \in liked})]
  /\ commentCount = [p \in Contents |-> Cardinality({c \in live : info[c].content = p})]
  /\ pc = [r \in Requests |-> "idle"]
  /\ call = [r \in Requests |-> NoCall]
  /\ id = [r \in Requests |-> NoComment]
  /\ reply = [r \in Requests |-> "none"]
  /\ tries = [r \in Requests |-> 0]
  /\ committed = {}
  /\ events = {}
  /\ faults = 0

\* The author deletes a content, or turns its comments off or on.
ChangeContent ==
  /\ \E p \in open : \/ open' = open \ {p} /\ UNCHANGED muted
                     \/ muted' \in {muted \ {p}, muted \cup {p}} /\ UNCHANGED open
  /\ UNCHANGED <<commentCount, dbVars, reqVars, ghosts, faults>>

\* A request arrives. A new comment gets an id nobody has.
Begin(r, a) ==
  /\ pc[r] = "idle"
  /\ call' = [call EXCEPT ![r] = a]
  /\ IF a.op = "create"
     THEN /\ \E c \in Comments \ (live \cup dead) :
               /\ \A q \in Requests : id[q] # c
               /\ id' = [id EXCEPT ![r] = c]
          /\ Goto(r, "check")
     ELSE /\ id' = [id EXCEPT ![r] = a.comment]
          /\ Goto(r, IF a.op = "unlike" THEN "unlike" ELSE "get")
  /\ UNCHANGED <<content, dbVars, reply, tries, ghosts, faults>>

-----------------------------------------------------------------------------
(* CreateComment. *)

\* The CheckContentExists RPC: the content is there and takes comments.
CheckContentExists(r) ==
  /\ pc[r] = "check"
  /\ LET p == call[r].content
     IN  \/ p \notin open /\ Finish(r, "not_found")
         \/ p \in open /\ p \in muted /\ Finish(r, "disabled")
         \/ /\ p \in open \ muted /\ UNCHANGED reply
            /\ Goto(r, IF call[r].parent = NoComment THEN "insert" ELSE "parent")
  /\ UNCHANGED <<content, dbVars, call, id, tries, ghosts, faults>>

\* GetByID of the parent, which may be deleted, and then an EXISTS for which it
\* may not.  Nothing asks whether the parent is on the same content.
CheckParent(r) ==
  /\ \/ /\ pc[r] = "parent"
        /\ \/ call[r].parent \in live \cup dead /\ Goto(r, "alive") /\ UNCHANGED reply
           \/ call[r].parent \notin live \cup dead /\ Finish(r, "invalid")
     \/ /\ pc[r] = "alive"
        /\ \/ call[r].parent \in live /\ Goto(r, "insert") /\ UNCHANGED reply
           \/ call[r].parent \notin live /\ Finish(r, "invalid")
  /\ UNCHANGED <<content, dbVars, call, id, tries, ghosts, faults>>

\* The transaction of Create: the row, and the parent's reply_count.
ApplyInsert(r) ==
  /\ live' = live \cup {id[r]}
  /\ info' = [info EXCEPT ![id[r]] = [author  |-> call[r].user,
                                      content |-> call[r].content,
                                      parent  |-> call[r].parent]]
  /\ replyCount' = AddTo(replyCount, call[r].parent, 1)
  /\ committed' = committed \cup {r}
  /\ UNCHANGED <<dead, liked, likeCount>>

\* A creation that is not counted.
InsertCommentBug(r) ==
  /\ pc[r] = "insert"
  /\ ApplyInsert(r)
  /\ Goto(r, "notify")
  /\ UNCHANGED <<content, call, id, reply, tries, events, faults>>

InsertComment(r) ==
  /\ pc[r] = "insert"
  /\ ApplyInsert(r)
  /\ Goto(r, "count")
  /\ UNCHANGED <<content, call, id, reply, tries, events, faults>>

-----------------------------------------------------------------------------
(* DeleteComment. *)

\* GetByID: for a deletion the caller must be the author and the comment not
\* deleted; for a like it is enough that there is a row.
GetComment(r) ==
  /\ pc[r] = "get"
  /\ \/ id[r] \notin live \cup dead /\ Finish(r, "not_found")
     \/ id[r] \in live \cup dead /\ Is(r, "like") /\ Goto(r, "exists") /\ UNCHANGED reply
     \/ /\ id[r] \in live \cup dead /\ Is(r, "delete")
        /\ \/ info[id[r]].author # call[r].user /\ Finish(r, "unauthorized")
           \/ info[id[r]].author = call[r].user /\ id[r] \in dead /\ Finish(r, "not_found")
           \/ info[id[r]].author = call[r].user /\ id[r] \in live
              /\ Goto(r, "again") /\ UNCHANGED reply
  /\ UNCHANGED <<content, dbVars, call, id, tries, ghosts, faults>>

\* The same question once more, in the data access layer.
GetAgain(r) ==
  /\ pc[r] = "again"
  /\ \/ id[r] \in live /\ Goto(r, "erase") /\ UNCHANGED reply
     \/ id[r] \in dead /\ Finish(r, "not_found")
  /\ UNCHANGED <<content, dbVars, call, id, tries, ghosts, faults>>

\* An erasure that forgets the parent.
ApplyEraseBug(r) ==
  /\ live' = live \ {id[r]}
  /\ dead' = dead \cup {id[r]}
  /\ committed' = committed \cup {r}
  /\ UNCHANGED <<info, replyCount, liked, likeCount>>

\* The transaction of Delete. The UPDATE does not ask for is_deleted = false:
\* a second deletion that passed the checks decrements reply_count again.
ApplyErase(r) ==
  /\ live' = live \ {id[r]}
  /\ dead' = dead \cup {id[r]}
  /\ replyCount' = AddTo(replyCount, info[id[r]].parent, -1)
  /\ committed' = committed \cup {r}
  /\ UNCHANGED <<info, liked, likeCount>>

EraseComment(r) ==
  /\ pc[r] = "erase"
  /\ ApplyErase(r)
  /\ Goto(r, "count")
  /\ UNCHANGED <<content, call, id, reply, tries, events, faults>>

-----------------------------------------------------------------------------
(* comment_count. *)

ContentOf(r) == info[id[r]].content

Delta(r) == IF Is(r, "create") THEN 1 ELSE -1

\* UPDATE contents SET comment_count = GREATEST(comment_count + delta, 0)
MoveCount(r) ==
  commentCount' = [commentCount EXCEPT ![ContentOf(r)] = Greatest0(@ + Delta(r))]

\* The handler drops the error of UpdateCounter: a creation is announced in
\* any case.
AfterCount(r) ==
  IF Is(r, "create") THEN Goto(r, "notify") /\ UNCHANGED reply ELSE Finish(r, "ok")

UpdateCounter(r) ==
  /\ pc[r] = "count"
  /\ \/ ContentOf(r) \in open /\ MoveCount(r)
     \/ ContentOf(r) \notin open /\ UNCHANGED commentCount
  /\ AfterCount(r)
  /\ UNCHANGED <<open, muted, dbVars, call, id, tries, ghosts, faults>>

\* An attempt fails, executed by the server or not; the interceptor sends the
\* same delta again until it has retried MaxRetries times.
UpdateCounterFails(r) ==
  /\ pc[r] = "count" /\ faults < MaxFaults
  /\ faults' = faults + 1
  /\ \/ ContentOf(r) \in open /\ MoveCount(r)
     \/ UNCHANGED commentCount
  /\ \/ /\ tries[r] < MaxRetries
        /\ tries' = [tries EXCEPT ![r] = @ + 1]
        /\ UNCHANGED <<pc, reply>>
     \/ AfterCount(r) /\ UNCHANGED tries
  /\ UNCHANGED <<open, muted, dbVars, call, id, ghosts>>

\* PublishCommentCreated, even when the author of the content is unknown, and
\* PublishCommentLiked, unless it is one's own comment.
Publish(r) ==
  /\ pc[r] = "notify"
  /\ events' = IF Is(r, "create") \/ info[id[r]].author # call[r].user
               THEN events \cup {r} ELSE events
  /\ Finish(r, "ok")
  /\ UNCHANGED <<content, dbVars, call, id, tries, committed, faults>>

-----------------------------------------------------------------------------
(* LikeComment and UnlikeComment. *)

\* A like that publishes before it knows.
CheckLikeBug(r) ==
  /\ \/ /\ pc[r] = "exists"
        /\ \/ id[r] \in live /\ Goto(r, "already") /\ UNCHANGED reply
           \/ id[r] \notin live /\ Finish(r, "not_found")
     \/ /\ pc[r] = "already"
        /\ Goto(r, IF <<call[r].user, id[r]>> \in liked THEN "notify" ELSE "like")
        /\ UNCHANGED reply
  /\ UNCHANGED <<content, dbVars, call, id, tries, ghosts, faults>>

\* The two EXISTS of LikeComment.
CheckLike(r) ==
  /\ \/ /\ pc[r] = "exists"
        /\ \/ id[r] \in live /\ Goto(r, "already") /\ UNCHANGED reply
           \/ id[r] \notin live /\ Finish(r, "not_found")
     \/ /\ pc[r] = "already"
        /\ \/ <<call[r].user, id[r]>> \notin liked /\ Goto(r, "like") /\ UNCHANGED reply
           \/ <<call[r].user, id[r]>> \in liked /\ Finish(r, "already_liked")
  /\ UNCHANGED <<content, dbVars, call, id, tries, ghosts, faults>>

\* The INSERT and the UPDATE of LikeComment, committed.
ApplyLike(r) ==
  /\ <<call[r].user, id[r]>> \notin liked
  /\ liked' = liked \cup {<<call[r].user, id[r]>>}
  /\ likeCount' = AddTo(likeCount, id[r], 1)
  /\ committed' = committed \cup {r}
  /\ UNCHANGED <<live, dead, info, replyCount>>

\* A like whose INSERT ignores the conflict.
InsertLikeBug(r) ==
  /\ pc[r] = "like"
  /\ liked' = liked \cup {<<call[r].user, id[r]>>}
  /\ likeCount' = AddTo(likeCount, id[r], 1)
  /\ committed' = committed \cup {r}
  /\ Goto(r, "notify")
  /\ UNCHANGED <<live, dead, info, replyCount, reply, content, call, id, tries, events, faults>>

\* unique_comment_like stops the second of two likes that both passed the check.
InsertLike(r) ==
  /\ pc[r] = "like"
  /\ \/ ApplyLike(r) /\ Goto(r, "notify") /\ UNCHANGED reply
     \/ /\ <<call[r].user, id[r]>> \in liked
        /\ Finish(r, "error")
        /\ UNCHANGED <<dbVars, committed>>
  /\ UNCHANGED <<content, call, id, tries, events, faults>>

\* DELETE tells by its row count whether there is a like to take back.
ApplyUnlike(r) ==
  /\ <<call[r].user, id[r]>> \in liked
  /\ liked' = liked \ {<<call[r].user, id[r]>>}
  /\ likeCount' = AddTo(likeCount, id[r], -1)
  /\ committed' = committed \cup {r}
  /\ UNCHANGED <<live, dead, info, replyCount>>

DeleteLike(r) ==
  /\ pc[r] = "unlike"
  /\ \/ ApplyUnlike(r) /\ Finish(r, "ok")
     \/ /\ <<call[r].user, id[r]>> \notin liked
        /\ Finish(r, "not_liked")
        /\ UNCHANGED <<dbVars, committed>>
  /\ UNCHANGED <<content, call, id, tries, events, faults>>

-----------------------------------------------------------------------------
(* Failures. *)

\* A statement or RPC before the write fails, or the transaction does.
HandlerFails(r) ==
  /\ Active(r) /\ pc[r] \notin {"count", "notify"} /\ faults < MaxFaults
  /\ faults' = faults + 1
  /\ Finish(r, IF pc[r] = "parent" THEN "invalid" ELSE "error")
  /\ UNCHANGED <<content, dbVars, call, id, tries, ghosts>>

\* COMMIT succeeds, but its answer is lost.
CommitUnknown(r) ==
  /\ faults < MaxFaults
  /\ faults' = faults + 1
  /\ \/ pc[r] = "insert" /\ ApplyInsert(r)
     \/ pc[r] = "erase" /\ ApplyErase(r)
     \/ pc[r] = "like" /\ ApplyLike(r)
     \/ pc[r] = "unlike" /\ ApplyUnlike(r)
  /\ Finish(r, "error")
  /\ UNCHANGED <<content, call, id, tries, events>>

\* The process stops; an open transaction is rolled back.
Crash(r) ==
  /\ Active(r) /\ faults < MaxFaults
  /\ faults' = faults + 1
  /\ Goto(r, "done")
  /\ UNCHANGED <<content, dbVars, call, id, reply, tries, ghosts>>

HandlerStep(r) ==
  \/ CheckContentExists(r) \/ CheckParent(r) \/ InsertComment(r)
  \/ GetComment(r) \/ GetAgain(r) \/ EraseComment(r)
  \/ UpdateCounter(r) \/ Publish(r)
  \/ CheckLike(r) \/ InsertLike(r) \/ DeleteLike(r)

HandlerFault(r) ==
  UpdateCounterFails(r) \/ HandlerFails(r) \/ CommitUnknown(r) \/ Crash(r)

Next ==
  \/ ChangeContent
  \/ \E r \in Requests : \/ \E a \in Calls : Begin(r, a)
                         \/ HandlerStep(r)
                         \/ HandlerFault(r)

Spec == Init /\ [][Next]_vars

-----------------------------------------------------------------------------
(* Properties. *)

TypeOK ==
  /\ open \subseteq Contents
  /\ muted \subseteq Contents
  /\ live \subseteq Comments
  /\ dead \subseteq Comments
  /\ info \in [Comments -> Info]
  /\ replyCount \in [Comments -> Nat]
  /\ liked \subseteq Users \X Comments
  /\ likeCount \in [Comments -> Nat]
  /\ commentCount \in [Contents -> Nat]
  /\ pc \in [Requests -> {"idle", "check", "parent", "alive", "insert", "get", "again", "erase",
                          "count", "notify", "exists", "already", "like", "unlike", "done"}]
  /\ call \in [Requests -> Calls \cup {NoCall}]
  /\ id \in [Requests -> Parents]
  /\ reply \in [Requests -> {"none", "ok", "error", "not_found", "disabled", "invalid",
                             "unauthorized", "already_liked", "not_liked"}]
  /\ tries \in [Requests -> 0 .. MaxRetries]
  /\ committed \subseteq Requests
  /\ events \subseteq Requests
  /\ faults \in 0 .. MaxFaults

\* like_count is at every moment the number of likes, whatever requests
\* overlap or fail: LikeComment and UnlikeComment are as good as atomic.
Likes == INSTANCE LikeCounter WITH Items <- Comments
LikesAreAtomic == Likes!Spec

\* The deletions of a comment that went through, and those too many.
Erasures(c) == {r \in committed : Is(r, "delete") /\ id[r] = c}
ErasedTwice(c) == Cardinality(Erasures(c)) > 1

\* reply_count is the number of replies that are not deleted, in every
\* interleaving and however requests fail, as long as no reply was deleted by
\* two requests at once.
ReplyCountExact ==
  \A p \in live \cup dead :
    (\A c \in dead : info[c].parent = p => ~ErasedTwice(c))
      => replyCount[p] = Cardinality(Repliers(p))

\* The calls of UpdateCounter in flight, and the deletions behind those made twice.
Owing(p, d) == Cardinality({r \in Requests : pc[r] = "count" /\ ContentOf(r) = p /\ Delta(r) = d})
Extra(p) == Cardinality({r \in committed : /\ Is(r, "delete") /\ ContentOf(r) = p
                                           /\ ErasedTwice(id[r])})

\* Whatever happens, a content never shows fewer comments than there are, but
\* for calls in flight, failures, and deletions made twice.
CommentCountNotTooLow ==
  \A p \in open :
    commentCount[p] + Owing(p, 1) - Owing(p, -1)
      >= Cardinality({c \in live : info[c].content = p}) - faults - Extra(p)

\* Nobody is told of a comment or a like that was not written.
EventsOnlyForCommitted == events \subseteq committed
=============================================================================
