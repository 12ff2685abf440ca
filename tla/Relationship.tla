---------------------------- MODULE Relationship ----------------------------
(***************************************************************************)
(* Following and blocking in the User service (service/user).              *)
(*                                                                         *)
(* Follow and Unfollow read before they write, in a transaction that moves *)
(* the row and both counters. Block opens a transaction too, but its       *)
(* statements go through the *sql.DB handle: each commits on its own, on a *)
(* second connection of the pool. Unblock reads the block, then writes.    *)
(*                                                                         *)
(* A statement is an action. PostgreSQL (READ COMMITTED) is modelled by    *)
(* the locks a transaction holds until it commits: the row it inserted or  *)
(* deleted, and the users it updated. A transaction's effects appear when  *)
(* it commits, which those locks make indistinguishable from before.       *)
(*                                                                         *)
(* Abstracted: profiles, but for is_private; lists and settings; ids.  The *)
(* requests of a behaviour are those of Requests, each served once.        *)
(***************************************************************************)
EXTENDS Integers, FiniteSets

CONSTANTS
  Users,      \* user ids, all of active accounts
  Requests,   \* ids of the requests that may arrive
  Calls,      \* what they may ask
  PoolSize,   \* MaxOpenConns of the service
  MaxFaults   \* bound on the failures of one behaviour

HidePosts == 1
HideMe == 2
Block3 == 3     \* BlockTypeBlock = HIDE_POSTS + HIDE_ME
NoBlock == 0    \* no row

AllCalls ==
  [op : {"follow", "unfollow"}, user : Users, target : Users, type : {NoBlock}]
    \cup [op : {"block", "unblock"}, user : Users, target : Users,
          type : {HidePosts, HideMe, Block3}]

NoCall == [op |-> "none"]

ASSUME UsersFinite     == IsFiniteSet(Users)
ASSUME RequestsFinite  == IsFiniteSet(Requests)
ASSUME CallsAssumption == Calls \subseteq AllCalls
ASSUME PoolAssumption  == PoolSize \in Nat \ {0} /\ MaxFaults \in Nat

VARIABLES
  follows,      \* the rows <<follower, following>> of the table follows
  requested,    \* the rows of follow_requests, all pending
  followers,    \* followers_count of each user
  following,    \* following_count of each user
  blocks,       \* block_type of each <<blocker, blocked>>, or NoBlock
  private,      \* the users whose account is private
  pc,           \* where each request handler is
  call,         \* what each request asks
  did,          \* whether the INSERT or DELETE of the transaction hit a row
  seen,         \* what the handler read: is_private, or the block to write
  back,         \* whether a Block is cutting the opposite direction
  reply,        \* what the caller was told
  events,       \* requests whose follow event was published
  faults,       \* failures so far
  blockFaults,  \* those of them that hit a Block
  raced         \* pairs of users on whom two requests overlapped

dbVars  == <<follows, requested, followers, following, blocks, private>>
reqVars == <<pc, call, did, seen, back, reply>>
ghosts  == <<events, faults, blockFaults, raced>>
vars    == <<dbVars, reqVars, ghosts>>

Pairs == {p \in Users \X Users : p[1] # p[2]}

\* The follow a request is about; for a Block, the one it is cutting.
Edge(r) == IF back[r] THEN <<call[r].target, call[r].user>>
           ELSE <<call[r].user, call[r].target>>
Cell(r) == <<call[r].user, call[r].target>>
Party(r) == {call[r].user, call[r].target}

Active(r) == pc[r] \notin {"idle", "done"}
Is(r, op) == call[r].op = op

Goto(r, label) == pc' = [pc EXCEPT ![r] = label]
Finish(r, answer) == Goto(r, "done") /\ reply' = [reply EXCEPT ![r] = answer]

-----------------------------------------------------------------------------
(* The connection pool and the locks. *)

\* A transaction that is not rolled back after an error.
InTxBug ==
  {r \in Requests : \/ pc[r] \in {"insert", "delete", "count1", "count2", "commit",
                                 "block", "find", "cut", "dec1", "dec2", "end"}
                    \/ pc[r] = "done" /\ reply[r] = "error"}

\* Requests holding a connection for their transaction.
InTx == {r \in Requests : pc[r] \in {"insert", "delete", "count1", "count2", "commit",
                                    "block", "find", "cut", "dec1", "dec2", "end"}}
BlocksInTx == {r \in InTx : Is(r, "block")}

\* A statement outside a transaction, or a BEGIN, finds a connection. One that
\* waits for a lock would hold it meanwhile: the holder of the lock has its own.
FreeConn == Cardinality(InTx) < PoolSize

\* The transactions that hold the lock of a row of follows, or of users.
RowLock(p) == {r \in Requests : pc[r] \in {"count1", "count2", "commit"} /\ did[r] /\ Edge(r) = p}
UserLock(u) == {r \in Requests : \/ pc[r] \in {"count2", "commit"} /\ call[r].user = u
                                 \/ pc[r] = "commit" /\ call[r].target = u}

-----------------------------------------------------------------------------
(* Counters. *)

Incr(counter, u) == [counter EXCEPT ![u] = @ + 1]

\* A decrement without GREATEST.
UnclampedBug(counter, u) == [counter EXCEPT ![u] = @ - 1]

\* GREATEST(c - 1, 0)
Decr(counter, u) == [counter EXCEPT ![u] = IF @ = 0 THEN 0 ELSE @ - 1]

FollowersOf(f, u) == {v \in Users : <<v, u>> \in f}
FollowingOf(f, u) == {v \in Users : <<u, v>> \in f}

-----------------------------------------------------------------------------
\* What calls made one after the other can have led to.
Init ==
  /\ follows \in SUBSET Pairs
  /\ requested = {}
  /\ followers = [u \in Users |-> Cardinality(FollowersOf(follows, u))]
  /\ following = [u \in Users |-> Cardinality(FollowingOf(follows, u))]
  /\ blocks \in [Users \X Users -> NoBlock .. Block3]
  /\ \A p \in Users \X Users : blocks[p] # NoBlock => p \in Pairs
  /\ \A p \in Pairs : blocks[p] = Block3 => <<p[2], p[1]>> \notin follows
  /\ private \in SUBSET Users
  /\ pc = [r \in Requests |-> "idle"]
  /\ call = [r \in Requests |-> NoCall]
  /\ did = [r \in Requests |-> FALSE]
  /\ seen = [r \in Requests |-> NoBlock]
  /\ back = [r \in Requests |-> FALSE]
  /\ reply = [r \in Requests |-> "none"]
  /\ events = {}
  /\ faults = 0
  /\ blockFaults = 0
  /\ raced = {}

\* Where a handler starts.
Entry(a) ==
  CASE a.op \in {"follow", "block"} -> "target"
    [] a.op = "unfollow" -> "exists"
    [] a.op = "unblock"  -> "get"

\* A request arrives. Following or blocking oneself is refused at once.
Begin(r, a) ==
  /\ pc[r] = "idle"
  /\ call' = [call EXCEPT ![r] = a]
  /\ IF a.user = a.target /\ a.op \in {"follow", "block"}
     THEN Finish(r, "invalid")
     ELSE Goto(r, Entry(a)) /\ UNCHANGED reply
  /\ raced' = IF \E q \in Requests : Active(q) /\ Party(q) = {a.user, a.target}
              THEN raced \cup {{a.user, a.target}} ELSE raced
  /\ UNCHANGED <<dbVars, did, seen, back, events, faults, blockFaults>>

\* UpdateProfile writes is_private, and no counter.
SetPrivate(u) ==
  /\ FreeConn /\ UserLock(u) = {}
  /\ private' = IF u \in private THEN private \ {u} ELSE private \cup {u}
  /\ UNCHANGED <<follows, requested, followers, following, blocks, reqVars, ghosts>>

-----------------------------------------------------------------------------
(* Follow and Unfollow. *)

\* GetByID of the target: the account is there, private or not.
GetTarget(r) ==
  /\ pc[r] = "target" /\ FreeConn
  /\ \/ /\ Is(r, "follow")
        /\ seen' = [seen EXCEPT ![r] = IF call[r].target \in private THEN 1 ELSE 0]
        /\ Goto(r, "blocked")
     \/ Is(r, "block") /\ Goto(r, "begin") /\ UNCHANGED seen
  /\ UNCHANGED <<dbVars, call, did, back, reply, ghosts>>

\* IsBlockedBy: has the target blocked the follower, or hidden from him?
CheckBlocked(r) ==
  /\ pc[r] = "blocked" /\ FreeConn
  /\ IF blocks[<<call[r].target, call[r].user>>] \in {Block3, HideMe}
     THEN Finish(r, "blocked")
     ELSE Goto(r, "exists") /\ UNCHANGED reply
  /\ UNCHANGED <<dbVars, call, did, seen, back, ghosts>>

\* A Follow that relies on ON CONFLICT alone.
CheckExistsBug(r) ==
  /\ pc[r] = "exists" /\ FreeConn
  /\ Goto(r, IF Is(r, "follow") /\ seen[r] = 1 THEN "request" ELSE "begin")
  /\ UNCHANGED <<dbVars, call, did, seen, back, reply, ghosts>>

\* followDA.Exists: an existing follow is not followed again, a missing one
\* not removed.
CheckExists(r) ==
  /\ pc[r] = "exists" /\ FreeConn
  /\ LET exists == Edge(r) \in follows
     IN  \/ Is(r, "follow") /\ exists /\ Finish(r, "ok")
         \/ /\ Is(r, "follow") /\ ~exists
            /\ Goto(r, IF seen[r] = 1 THEN "request" ELSE "begin") /\ UNCHANGED reply
         \/ /\ Is(r, "unfollow")
            /\ Goto(r, IF exists THEN "begin" ELSE "request") /\ UNCHANGED reply
  /\ UNCHANGED <<dbVars, call, did, seen, back, ghosts>>

\* CreateFollowRequest and DeleteFollowRequest.
WriteFollowRequest(r) ==
  /\ pc[r] = "request" /\ FreeConn
  /\ requested' = IF Is(r, "follow") THEN requested \cup {Edge(r)} ELSE requested \ {Edge(r)}
  /\ Finish(r, "ok")
  /\ UNCHANGED <<follows, followers, following, blocks, private, call, did, seen, back, ghosts>>

\* db.BeginTx takes a connection until the transaction ends.
BeginTx(r) ==
  /\ pc[r] = "begin" /\ FreeConn
  /\ Goto(r, CASE Is(r, "follow") -> "insert" [] Is(r, "unfollow") -> "delete"
               [] Is(r, "block") -> "block")
  /\ UNCHANGED <<dbVars, call, did, seen, back, reply, ghosts>>

\* INSERT ... ON CONFLICT DO NOTHING waits for whoever is writing the row.
InsertFollow(r) ==
  /\ pc[r] = "insert" /\ RowLock(Edge(r)) = {}
  /\ did' = [did EXCEPT ![r] = Edge(r) \notin follows]
  /\ Goto(r, "count1")
  /\ UNCHANGED <<dbVars, call, seen, back, reply, ghosts>>

\* DELETE waits for whoever is deleting the row; an uncommitted one is unseen.
DeleteFollow(r) ==
  /\ pc[r] = "delete"
  /\ Edge(r) \in follows => RowLock(Edge(r)) = {}
  /\ did' = [did EXCEPT ![r] = Edge(r) \in follows]
  /\ Goto(r, "count1")
  /\ UNCHANGED <<dbVars, call, seen, back, reply, ghosts>>

\* An update through the *sql.DB instead of the transaction.
UpdateFollowerBug(r) ==
  /\ pc[r] = "count1" /\ UserLock(call[r].user) = {} /\ FreeConn
  /\ Goto(r, "count2")
  /\ UNCHANGED <<dbVars, call, did, seen, back, reply, ghosts>>

\* UPDATE users ... following_count of the one who follows
UpdateFollower(r) ==
  /\ pc[r] = "count1" /\ UserLock(call[r].user) = {}
  /\ Goto(r, "count2")
  /\ UNCHANGED <<dbVars, call, did, seen, back, reply, ghosts>>

\* UPDATE users ... followers_count of the one who is followed
UpdateFollowed(r) ==
  /\ pc[r] = "count2" /\ UserLock(call[r].target) = {}
  /\ Goto(r, "commit")
  /\ UNCHANGED <<dbVars, call, did, seen, back, reply, ghosts>>

\* The transaction's effects. The counters move whether or not a row did.
ApplyTx(r) ==
  /\ IF Is(r, "follow")
     THEN /\ follows' = IF did[r] THEN follows \cup {Edge(r)} ELSE follows
          /\ following' = Incr(following, call[r].user)
          /\ followers' = Incr(followers, call[r].target)
     ELSE /\ follows' = IF did[r] THEN follows \ {Edge(r)} ELSE follows
          /\ following' = Decr(following, call[r].user)
          /\ followers' = Decr(followers, call[r].target)
  /\ UNCHANGED <<requested, blocks, private>>

\* Commit, and for Follow the event of a new follower.
Commit(r) ==
  /\ pc[r] = "commit"
  /\ ApplyTx(r)
  /\ Finish(r, "ok")
  /\ events' = IF Is(r, "follow") THEN events \cup {r} ELSE events
  /\ UNCHANGED <<call, did, seen, back, faults, blockFaults, raced>>

\* Transactions that wait for each other's users, all of them, in a ring.
Ring(S) ==
  /\ \A r \in S : pc[r] = "count2" /\ UserLock(call[r].target) \cap S # {}
  /\ \A r \in S : \E q \in S : r \in UserLock(call[q].target)

InRing(r) == \E S \in SUBSET Requests : r \in S /\ Ring(S)

\* PostgreSQL breaks such a ring: the statement of one of them fails, and
\* WithTransaction rolls back.
DeadlockAbort(r) ==
  /\ InRing(r)
  /\ Finish(r, "error")
  /\ UNCHANGED <<dbVars, call, did, seen, back, ghosts>>

-----------------------------------------------------------------------------
(* Block and Unblock. *)

\* blockDA.Create: INSERT ... ON CONFLICT DO UPDATE SET block_type
CreateBlock(r) ==
  /\ pc[r] = "block" /\ FreeConn
  /\ blocks' = [blocks EXCEPT ![Cell(r)] = call[r].type]
  /\ Goto(r, IF call[r].type = Block3 THEN "find" ELSE "end")
  /\ UNCHANGED <<follows, requested, followers, following, private,
                 call, did, seen, back, reply, ghosts>>

\* A Block that cuts the blocker's own follow only.
NextDirectionBug(r) == Goto(r, "end") /\ UNCHANGED back

\* Done with one direction: the opposite one, or the commit of nothing.
NextDirection(r) ==
  /\ Goto(r, IF back[r] THEN "end" ELSE "find")
  /\ back' = [back EXCEPT ![r] = TRUE]

\* followDA.Exists in one direction, then in the other.
FindFollow(r) ==
  /\ pc[r] = "find" /\ FreeConn
  /\ \/ Edge(r) \in follows /\ Goto(r, "cut") /\ UNCHANGED back
     \/ Edge(r) \notin follows /\ NextDirection(r)
  /\ UNCHANGED <<dbVars, call, did, seen, reply, ghosts>>

\* followDA.Delete
CutFollow(r) ==
  /\ pc[r] = "cut" /\ FreeConn
  /\ Edge(r) \in follows => RowLock(Edge(r)) = {}
  /\ follows' = follows \ {Edge(r)}
  /\ Goto(r, "dec1")
  /\ UNCHANGED <<requested, followers, following, blocks, private,
                 call, did, seen, back, reply, ghosts>>

\* userDA.DecrementFollowingCount
DecrementFollowing(r) ==
  /\ pc[r] = "dec1" /\ FreeConn /\ UserLock(Edge(r)[1]) = {}
  /\ following' = Decr(following, Edge(r)[1])
  /\ Goto(r, "dec2")
  /\ UNCHANGED <<follows, requested, followers, blocks, private,
                 call, did, seen, back, reply, ghosts>>

\* A decrement of the wrong user.
DecrementFollowersBug(r) ==
  /\ pc[r] = "dec2" /\ FreeConn /\ UserLock(Edge(r)[1]) = {}
  /\ followers' = Decr(followers, Edge(r)[1])
  /\ NextDirection(r)
  /\ UNCHANGED <<follows, requested, following, blocks, private,
                 call, did, seen, reply, ghosts>>

\* userDA.DecrementFollowersCount
DecrementFollowers(r) ==
  /\ pc[r] = "dec2" /\ FreeConn /\ UserLock(Edge(r)[2]) = {}
  /\ followers' = Decr(followers, Edge(r)[2])
  /\ NextDirection(r)
  /\ UNCHANGED <<follows, requested, following, blocks, private,
                 call, did, seen, reply, ghosts>>

\* The commit of a transaction in which nothing was done.
EndBlock(r) ==
  /\ pc[r] = "end"
  /\ Finish(r, "ok")
  /\ UNCHANGED <<dbVars, call, did, seen, back, ghosts>>

\* The other half, whatever the current type.
UnblockedBug(current, type) ==
  CASE type = Block3    -> NoBlock
    [] type = HidePosts -> HideMe
    [] OTHER            -> HidePosts

\* What is left of the block `current` once `type` is taken out of it.
Unblocked(current, type) ==
  CASE type = Block3    -> NoBlock
    [] current = Block3 -> IF type = HidePosts THEN HideMe ELSE HidePosts
    [] current = type   -> NoBlock
    [] OTHER            -> current

\* blockDA.Get: nothing to do without a row, or if the types do not match.
GetBlock(r) ==
  /\ pc[r] = "get" /\ FreeConn
  /\ LET current == blocks[Cell(r)]
         left    == Unblocked(current, call[r].type)
     IN  IF current = left
         THEN Finish(r, "ok") /\ UNCHANGED seen
         ELSE Goto(r, "unblock") /\ seen' = [seen EXCEPT ![r] = left] /\ UNCHANGED reply
  /\ UNCHANGED <<dbVars, call, did, back, ghosts>>

\* blockDA.Delete or UpdateType, which hits no row if there is none any more.
WriteUnblock(r) ==
  /\ pc[r] = "unblock" /\ FreeConn
  /\ blocks' = [blocks EXCEPT ![Cell(r)] = IF @ = NoBlock THEN NoBlock ELSE seen[r]]
  /\ Finish(r, "ok")
  /\ UNCHANGED <<follows, requested, followers, following, private,
                 call, did, seen, back, ghosts>>

-----------------------------------------------------------------------------
(* Failures. *)

Fault(r) ==
  /\ faults < MaxFaults
  /\ faults' = faults + 1
  /\ blockFaults' = IF Is(r, "block") THEN blockFaults + 1 ELSE blockFaults
  /\ UNCHANGED <<events, raced>>

\* A statement fails, or its context is cancelled: the handler returns the
\* error, and a transaction is rolled back. DeleteFollowRequest's is dropped.
StatementFails(r) ==
  /\ pc[r] \in {"target", "blocked", "exists", "request", "begin", "insert", "delete",
                "count1", "count2", "block", "cut", "get", "unblock"}
  /\ Fault(r)
  /\ Finish(r, IF pc[r] = "request" /\ Is(r, "unfollow") THEN "ok" ELSE "error")
  /\ UNCHANGED <<dbVars, call, did, seen, back>>

\* Block ignores the error of Exists and takes it for no, and those of both
\* decrements.
IgnoredFailure(r) ==
  /\ Fault(r)
  /\ \/ pc[r] = "dec1" /\ Goto(r, "dec2") /\ UNCHANGED back
     \/ pc[r] \in {"find", "dec2"} /\ NextDirection(r)
  /\ UNCHANGED <<dbVars, call, did, seen, reply>>

\* COMMIT fails, or its answer is lost.
CommitFails(r) ==
  /\ pc[r] \in {"commit", "end"}
  /\ Fault(r)
  /\ \/ UNCHANGED dbVars
     \/ pc[r] = "commit" /\ ApplyTx(r)
  /\ Finish(r, "error")
  /\ UNCHANGED <<call, did, seen, back>>

\* The process stops: PostgreSQL rolls the transaction back.
Crash(r) ==
  /\ Active(r)
  /\ Fault(r)
  /\ Goto(r, "done")
  /\ UNCHANGED <<dbVars, call, did, seen, back, reply>>

HandlerStep(r) ==
  \/ GetTarget(r) \/ CheckBlocked(r) \/ CheckExists(r) \/ WriteFollowRequest(r)
  \/ BeginTx(r) \/ InsertFollow(r) \/ DeleteFollow(r)
  \/ UpdateFollower(r) \/ UpdateFollowed(r) \/ Commit(r) \/ DeadlockAbort(r)
  \/ CreateBlock(r) \/ FindFollow(r) \/ CutFollow(r)
  \/ DecrementFollowing(r) \/ DecrementFollowers(r) \/ EndBlock(r)
  \/ GetBlock(r) \/ WriteUnblock(r)

HandlerFault(r) == StatementFails(r) \/ IgnoredFailure(r) \/ CommitFails(r) \/ Crash(r)

Next ==
  \/ \E u \in Users : SetPrivate(u)
  \/ \E r \in Requests : \/ \E a \in Calls : Begin(r, a)
                         \/ HandlerStep(r)
                         \/ HandlerFault(r)

Spec == Init /\ [][Next]_vars

-----------------------------------------------------------------------------
(* Properties. *)

TypeOK ==
  /\ follows \subseteq Pairs
  /\ requested \subseteq Users \X Users
  /\ followers \in [Users -> Nat]
  /\ following \in [Users -> Nat]
  /\ blocks \in [Users \X Users -> NoBlock .. Block3]
  /\ private \subseteq Users
  /\ pc \in [Requests -> {"idle", "target", "blocked", "exists", "request", "begin",
                          "insert", "delete", "count1", "count2", "commit", "block",
                          "find", "cut", "dec1", "dec2", "end", "get", "unblock", "done"}]
  /\ call \in [Requests -> Calls \cup {NoCall}]
  /\ did \in [Requests -> BOOLEAN]
  /\ seen \in [Requests -> NoBlock .. Block3]
  /\ back \in [Requests -> BOOLEAN]
  /\ reply \in [Requests -> {"none", "ok", "error", "invalid", "blocked"}]
  /\ events \subseteq Requests
  /\ faults \in 0 .. MaxFaults
  /\ blockFaults \in 0 .. faults
  /\ raced \subseteq SUBSET Users

Unraced(u) == \A pair \in raced : u \notin pair

\* A follow that a Block has cut, and whose counter it is about to decrement.
FollowersOwed(u) == Cardinality({r \in Requests : pc[r] \in {"dec1", "dec2"} /\ Edge(r)[2] = u})
FollowingOwed(u) == Cardinality({r \in Requests : pc[r] = "dec1" /\ Edge(r)[1] = u})

\* Without two requests at once on a pair, a user's counters are exact but for
\* the decrements a Block in progress still owes, and one too high for each
\* failed Block: a failed Follow or Unfollow leaves no trace in them.
CountersExactWhenSerial ==
  \A u \in Users : Unraced(u) =>
    /\ followers[u] - Cardinality(FollowersOf(follows, u)) - FollowersOwed(u) \in 0 .. blockFaults
    /\ following[u] - Cardinality(FollowingOf(follows, u)) - FollowingOwed(u) \in 0 .. blockFaults

Quiet(pair) == \A r \in Requests : Active(r) => Party(r) # pair

\* Who is blocked does not follow the one who blocked him, once Block is done
\* and unless it raced or failed. The blocker himself may follow again.
BlockedDoNotFollow ==
  \A p \in Pairs :
    /\ blocks[p] = Block3
    /\ Quiet({p[1], p[2]}) /\ {p[1], p[2]} \notin raced
    /\ blockFaults = 0
    => <<p[2], p[1]>> \notin follows

\* A user is told of a new follower only if there is a new row, unless two
\* requests raced: following again is no news.
EventsOnlyForNewFollows ==
  \A r \in events : did[r] \/ Party(r) \in raced

Hides(type) == CASE type = Block3 -> {HidePosts, HideMe}
                 [] type = NoBlock -> {}
                 [] OTHER -> {type}

\* Unblock never hides more than before, unless another request on the pair
\* came in between its read and its write.
UnblockNeverHidesMore ==
  [][\A r \in Requests :
       /\ pc[r] = "unblock" /\ pc'[r] = "done" /\ Party(r) \notin raced
       => Hides(blocks'[Cell(r)]) \subseteq Hides(blocks[Cell(r)])]_vars

\* The transactions that hold a lock the next statement of a request waits for.
Ahead(r) ==
  CASE pc[r] = "insert" -> RowLock(Edge(r))
    [] pc[r] \in {"delete", "cut"} -> IF Edge(r) \in follows THEN RowLock(Edge(r)) ELSE {}
    [] pc[r] = "count1" -> UserLock(call[r].user)
    [] pc[r] = "count2" -> UserLock(call[r].target)
    [] pc[r] = "dec1" -> UserLock(Edge(r)[1])
    [] pc[r] = "dec2" -> UserLock(Edge(r)[2])
    [] OTHER -> {}

\* Statements for which a connection has to be free.
NeedsConn == {"target", "blocked", "exists", "request", "begin", "block", "find", "cut",
              "dec1", "dec2", "get", "unblock"}

\* A request that has begun goes on unless it waits for a lock or a connection;
\* one of a ring of transactions is aborted.
CanGoOn(r) ==
  /\ Active(r)
  /\ \/ Ahead(r) = {} /\ (pc[r] \in NeedsConn => FreeConn)
     \/ InRing(r)

\* Nothing but a lock or the pool keeps a request from its next statement: no
\* handler gets to where none of its cases applies.
NothingElseDelays == \A r \in Requests : CanGoOn(r) => ENABLED HandlerStep(r)

Transfers == InTx \ BlocksInTx

\* The transactions of Follow and Unfollow never all wait: they take the rows of
\* users in any order, yet one of them can go on, be the pool exhausted or not.
TransfersGoOn ==
  Transfers # {} => \E r \in Transfers : CanGoOn(r)

\* And as long as Blocks do not hold every connection of the pool, each waiting
\* for a second one, some request that has begun can go on: row locks never
\* stop the service.
StuckOnlyOnPool ==
  /\ TransfersGoOn
  /\ (\E r \in Requests : Active(r)) /\ Cardinality(BlocksInTx) < PoolSize
       => \E r \in Requests : CanGoOn(r)

\* user_service.go:364 cuts the follows in a transaction with the block, so a
\* Block that fails, no other request around, leaves neither without the other.
\* Refuted: the block stays and the follow too, for no statement uses the tx.
FailedBlockIsNotHalfDone ==
  \A r \in Requests :
    /\ pc[r] = "done" /\ Is(r, "block") /\ reply[r] = "error"
    /\ \A q \in Requests \ {r} : pc[q] = "idle"
    /\ blocks[Cell(r)] = Block3
    => <<call[r].target, call[r].user>> \notin follows

\* user_service.go:176: to follow again changes nothing, so without failures
\* the counters count the follows once every request is done.
\* Refuted: two requests that both find no row both move them.
FollowIsIdempotent ==
  faults = 0 /\ (\A r \in Requests : ~Active(r))
    => \A u \in Users : /\ followers[u] = Cardinality(FollowersOf(follows, u))
                       /\ following[u] = Cardinality(FollowingOf(follows, u))
=============================================================================
