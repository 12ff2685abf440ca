------------------------- MODULE RelationshipProofs -------------------------
(***************************************************************************)
(* For any users, requests, pool and failures: type correctness of         *)
(* Relationship, that who is blocked does not follow, that a new follower  *)
(* is announced only if there is one, that Unblock hides nothing more,     *)
(* that the counters are exact for users on whom no two requests met, that *)
(* row locks hold and that they never stop the service.                    *)
(***************************************************************************)
EXTENDS Relationship, FiniteSetTheorems, WellFoundedInduction, TLAPS

Pcs == {"idle", "target", "blocked", "exists", "request", "begin", "insert", "delete", "count1",
        "count2", "commit", "block", "find", "cut", "dec1", "dec2", "end", "get", "unblock", "done"}

Answers == {"none", "ok", "error", "invalid", "blocked"}

\* Where a request may be, by what it asks.
CallAt(a, label) ==
  \/ /\ a.op = "follow"
     /\ label \in {"target", "blocked", "exists", "request", "begin", "insert", "count1",
                   "count2", "commit", "done"}
  \/ /\ a.op = "unfollow"
     /\ label \in {"exists", "request", "begin", "delete", "count1", "count2", "commit", "done"}
  \/ /\ a.op = "block"
     /\ label \in {"target", "begin", "block", "find", "cut", "dec1", "dec2", "end", "done"}
  \/ a.op = "unblock" /\ label \in {"get", "unblock", "done"}

\* Where a Block may be that cuts the opposite direction.
BackPcs == {"find", "cut", "dec1", "dec2", "end", "done"}

CallFits ==
  \A r \in Requests :
    /\ pc[r] # "idle" => call[r] \in Calls /\ CallAt(call[r], pc[r])
    /\ Active(r) /\ call[r].op \in {"follow", "block"} => call[r].user # call[r].target
    /\ back[r] => pc[r] \in BackPcs /\ call[r].op = "block"

Typed == TypeOK /\ CallFits

-----------------------------------------------------------------------------
(* What a step of a request does. *)

LEMMA CallType ==
  ASSUME NEW a \in Calls
  PROVE  /\ a.op \in {"follow", "unfollow", "block", "unblock"}
         /\ a.user \in Users /\ a.target \in Users
         /\ a.op \in {"follow", "unfollow"} => a.type = NoBlock
         /\ a.op \in {"block", "unblock"} => a.type \in {HidePosts, HideMe, Block3}
BY CallsAssumption DEF AllCalls

\* The variables as they are.
LEMMA Now ==
  ASSUME Typed
  PROVE  /\ pc \in [Requests -> Pcs] /\ call \in [Requests -> Calls \cup {NoCall}]
         /\ did \in [Requests -> BOOLEAN] /\ seen \in [Requests -> NoBlock .. Block3]
         /\ back \in [Requests -> BOOLEAN] /\ reply \in [Requests -> Answers]
         /\ blocks \in [Users \X Users -> NoBlock .. Block3]
         /\ followers \in [Users -> Nat] /\ following \in [Users -> Nat]
         /\ faults \in Nat /\ faults <= MaxFaults /\ blockFaults \in Nat /\ blockFaults <= faults
         /\ MaxFaults \in Nat
         /\ \A r \in Requests : Active(r) =>
              /\ call[r] \in Calls /\ CallAt(call[r], pc[r])
              /\ call[r].op \in {"follow", "unfollow", "block", "unblock"}
              /\ call[r].user \in Users /\ call[r].target \in Users
              /\ call[r].op \in {"follow", "block"} => call[r].user # call[r].target
              /\ back[r] => pc[r] \in BackPcs /\ call[r].op = "block"
BY CallType, PoolAssumption DEF Typed, TypeOK, CallFits, Pcs, Answers, Active

\* What every step of a request keeps.
Sound(r) ==
  /\ Active(r) /\ UNCHANGED <<call, raced, private>>
  /\ \A q \in Requests \ {r} : pc'[q] = pc[q] /\ did'[q] = did[q] /\ seen'[q] = seen[q]
                               /\ back'[q] = back[q] /\ reply'[q] = reply[q]
  /\ pc' \in [Requests -> Pcs] /\ pc'[r] # "idle" /\ CallAt(call[r], pc'[r])
  /\ did' \in [Requests -> BOOLEAN] /\ seen' \in [Requests -> NoBlock .. Block3]
  /\ back' \in [Requests -> BOOLEAN] /\ reply' \in [Requests -> Answers]
  /\ back'[r] => pc'[r] \in BackPcs /\ call[r].op = "block"
  /\ requested' \subseteq Users \X Users
  /\ faults' \in 0 .. MaxFaults /\ blockFaults' \in 0 .. faults'
  /\ blockFaults' \in {blockFaults, blockFaults + 1}

Failed(r) == blockFaults' = blockFaults + 1
Held == UNCHANGED <<follows, followers, following, blocks>>

\* A step that ends the request and writes neither rows nor counters; for a
\* Block on its way it is a failure.
Ended(r) ==
  /\ pc'[r] = "done" /\ Held /\ UNCHANGED <<did, seen, back, events>>
  /\ pc[r] \in {"find", "cut", "dec1", "dec2"} => Failed(r)

\* A step of Follow or Unfollow before the commit, or of Block before its
\* INSERT.
Checked(r) ==
  /\ Held /\ UNCHANGED <<back, events>>
  /\ seen' = seen \/ seen'[r] \in {0, 1}
  /\ \/ pc[r] = "target" /\ pc'[r] = (IF Is(r, "block") THEN "begin" ELSE "blocked") /\ did' = did
     \/ /\ pc[r] = "blocked" /\ pc'[r] = "exists" /\ did' = did
        /\ blocks[<<call[r].target, call[r].user>>] # Block3
     \/ pc[r] = "exists" /\ pc'[r] = "request" /\ did' = did
     \/ /\ pc[r] = "exists" /\ pc'[r] = "begin" /\ did' = did
        /\ (Edge(r) \in follows) <=> Is(r, "unfollow")
     \/ pc[r] = "begin" /\ pc'[r] \in {"insert", "delete", "block"} /\ did' = did
     \/ pc[r] = "insert" /\ pc'[r] = "count1" /\ did'[r] = (Edge(r) \notin follows)
     \/ pc[r] = "delete" /\ pc'[r] = "count1" /\ did'[r] = (Edge(r) \in follows)
     \/ pc[r] = "count1" /\ pc'[r] = "count2" /\ did' = did
     \/ pc[r] = "count2" /\ pc'[r] = "commit" /\ did' = did

\* The commit of Follow or Unfollow, whether or not its answer arrives.
Applied(r) ==
  /\ pc[r] = "commit" /\ pc'[r] = "done" /\ ApplyTx(r) /\ UNCHANGED <<did, seen, back>>
  /\ events' \in {events, IF Is(r, "follow") THEN events \cup {r} ELSE events}

\* The statements of Block.
PutBlock(r) ==
  /\ pc[r] = "block" /\ blocks' = [blocks EXCEPT ![Cell(r)] = call[r].type]
  /\ pc'[r] = IF call[r].type = Block3 THEN "find" ELSE "end"
  /\ UNCHANGED <<follows, followers, following, did, seen, back, events>>

Found(r) ==
  /\ pc[r] = "find" /\ pc'[r] = "cut" /\ Edge(r) \in follows
  /\ Held /\ UNCHANGED <<did, seen, back, events>>

DidCut(r) ==
  /\ pc[r] = "cut" /\ pc'[r] = "dec1" /\ follows' = follows \ {Edge(r)}
  /\ UNCHANGED <<followers, following, blocks, did, seen, back, events>>

Decremented(r) ==
  /\ pc[r] = "dec1" /\ pc'[r] = "dec2"
  /\ \/ following' = Decr(following, Edge(r)[1])
     \/ following' = following /\ Failed(r)
  /\ UNCHANGED <<follows, followers, blocks, did, seen, back, events>>

Turned(r) ==
  /\ pc'[r] = IF back[r] THEN "end" ELSE "find"
  /\ back' = [back EXCEPT ![r] = TRUE]
  /\ \/ pc[r] = "find" /\ Held /\ (Edge(r) \notin follows \/ Failed(r))
     \/ /\ pc[r] = "dec2" /\ UNCHANGED <<follows, following, blocks>>
        /\ \/ followers' = Decr(followers, Edge(r)[2])
           \/ followers' = followers /\ Failed(r)
  /\ UNCHANGED <<did, seen, events>>

\* The statements of Unblock.
GotBlock(r) ==
  /\ pc[r] = "get" /\ pc'[r] = "unblock"
  /\ seen'[r] = Unblocked(blocks[Cell(r)], call[r].type)
  /\ Held /\ UNCHANGED <<did, back, events>>

PutUnblock(r) ==
  /\ pc[r] = "unblock" /\ pc'[r] = "done"
  /\ blocks' = [blocks EXCEPT ![Cell(r)] = IF @ = NoBlock THEN NoBlock ELSE seen[r]]
  /\ UNCHANGED <<follows, followers, following, did, seen, back, events>>

Kind(r) ==
  \/ Ended(r) \/ Checked(r) \/ Applied(r)
  \/ PutBlock(r) \/ Found(r) \/ DidCut(r) \/ Decremented(r) \/ Turned(r)
  \/ GotBlock(r) \/ PutUnblock(r)

LEMMA MovedOn ==
  ASSUME Typed, NEW r \in Requests, Active(r), UNCHANGED <<call, raced, private, reply>>,
         NEW label \in Pcs \ {"idle"}, Goto(r, label), CallAt(call[r], label),
         did' \in [Requests -> BOOLEAN], \A q \in Requests \ {r} : did'[q] = did[q],
         seen' \in [Requests -> NoBlock .. Block3], \A q \in Requests \ {r} : seen'[q] = seen[q],
         back' \in [Requests -> BOOLEAN], \A q \in Requests \ {r} : back'[q] = back[q],
         back'[r] => label \in BackPcs /\ call[r].op = "block",
         requested' \subseteq Users \X Users,
         faults' \in 0 .. MaxFaults, blockFaults' \in 0 .. faults',
         blockFaults' \in {blockFaults, blockFaults + 1}
  PROVE  Sound(r) /\ pc'[r] = label
BY Now DEF Goto, Sound

LEMMA Finished ==
  ASSUME Typed, NEW r \in Requests, Active(r), UNCHANGED <<call, raced, private, did, seen, back>>,
         NEW answer \in Answers, Finish(r, answer),
         requested' \subseteq Users \X Users,
         faults' \in 0 .. MaxFaults, blockFaults' \in 0 .. faults',
         blockFaults' \in {blockFaults, blockFaults + 1}
  PROVE  Sound(r) /\ pc'[r] = "done"
<1>1. reply' \in [Requests -> Answers] /\ \A q \in Requests \ {r} : reply'[q] = reply[q]
  BY Now DEF Finish
<1>2. /\ pc' \in [Requests -> Pcs] /\ pc'[r] = "done"
      /\ \A q \in Requests \ {r} : pc'[q] = pc[q]
  BY Now DEF Finish, Goto, Pcs
<1>3. CallAt(call[r], "done") /\ (back[r] => call[r].op = "block")
  BY Now DEF CallAt
<1>. QED  BY <1>1, <1>2, <1>3, Now DEF Sound, BackPcs

LEMMA StepKind ==
  ASSUME Typed, NEW r \in Requests, HandlerStep(r)
  PROVE  Sound(r) /\ Kind(r)
<1>0. /\ faults \in 0 .. MaxFaults /\ blockFaults \in 0 .. faults /\ requested \subseteq Users \X Users
      /\ follows \subseteq Users \X Users
  BY DEF Typed, TypeOK, Pairs
<1>1. CASE GetTarget(r)
  <2>1. /\ Active(r) /\ UNCHANGED <<dbVars, call, did, back, reply, ghosts>>
        /\ seen' \in [Requests -> NoBlock .. Block3] /\ \A q \in Requests \ {r} : seen'[q] = seen[q]
        /\ pc[r] = "target"
        /\ seen' = seen \/ seen'[r] \in {0, 1}
        /\ \/ Goto(r, "blocked") /\ call[r].op = "follow"
           \/ Goto(r, "begin") /\ call[r].op = "block"
    BY <1>1, Now DEF GetTarget, Active, Is, NoBlock, Block3
  <2>2. ~back[r] /\ CallAt(call[r], "begin") /\ (call[r].op = "follow" => CallAt(call[r], "blocked"))
    BY <2>1, Now DEF CallAt, BackPcs
  <2>3. Sound(r) /\ pc'[r] = IF Is(r, "block") THEN "begin" ELSE "blocked"
    BY <1>0, <2>1, <2>2, Now, MovedOn DEF dbVars, ghosts, Pcs, Is
  <2>. QED  BY <2>1, <2>3 DEF Kind, Checked, Held, dbVars, ghosts
<1>2. CASE CheckBlocked(r)
  <2>1. /\ Active(r) /\ UNCHANGED <<dbVars, call, did, seen, back, ghosts>> /\ pc[r] = "blocked"
        /\ \/ Finish(r, "blocked")
           \/ /\ Goto(r, "exists") /\ reply' = reply
              /\ blocks[<<call[r].target, call[r].user>>] # Block3
    BY <1>2 DEF CheckBlocked, Active
  <2>2. ~back[r] /\ CallAt(call[r], "exists")
    BY <2>1, Now DEF CallAt, BackPcs
  <2>3. CASE Finish(r, "blocked")
    <3>1. Sound(r) /\ pc'[r] = "done"
      BY <1>0, <2>1, <2>3, Finished DEF dbVars, ghosts, Answers
    <3>. QED  BY <2>1, <3>1 DEF Kind, Ended, Held, dbVars, ghosts
  <2>4. CASE /\ Goto(r, "exists") /\ reply' = reply
             /\ blocks[<<call[r].target, call[r].user>>] # Block3
    <3>1. Sound(r) /\ pc'[r] = "exists"
      BY <1>0, <2>1, <2>2, <2>4, Now, MovedOn DEF dbVars, ghosts, Pcs
    <3>. QED  BY <2>1, <2>4, <3>1 DEF Kind, Checked, Held, dbVars, ghosts
  <2>. QED  BY <2>1, <2>3, <2>4
<1>3. CASE CheckExists(r)
  <2>1. /\ Active(r) /\ UNCHANGED <<dbVars, call, did, seen, back, ghosts>> /\ pc[r] = "exists"
        /\ \/ Finish(r, "ok")
           \/ Goto(r, "request") /\ reply' = reply
           \/ Goto(r, "begin") /\ reply' = reply /\ ((Edge(r) \in follows) <=> Is(r, "unfollow"))
    BY <1>3 DEF CheckExists, Active, Is
  <2>2. ~back[r] /\ CallAt(call[r], "request") /\ CallAt(call[r], "begin")
    BY <2>1, Now DEF CallAt, BackPcs
  <2>3. CASE Finish(r, "ok")
    <3>1. Sound(r) /\ pc'[r] = "done"
      BY <1>0, <2>1, <2>3, Finished DEF dbVars, ghosts, Answers
    <3>. QED  BY <2>1, <3>1 DEF Kind, Ended, Held, dbVars, ghosts
  <2>4. CASE Goto(r, "request") /\ reply' = reply
    <3>1. Sound(r) /\ pc'[r] = "request"
      BY <1>0, <2>1, <2>2, <2>4, Now, MovedOn DEF dbVars, ghosts, Pcs
    <3>. QED  BY <2>1, <2>4, <3>1 DEF Kind, Checked, Held, dbVars, ghosts
  <2>5. CASE Goto(r, "begin") /\ reply' = reply /\ ((Edge(r) \in follows) <=> Is(r, "unfollow"))
    <3>1. Sound(r) /\ pc'[r] = "begin"
      BY <1>0, <2>1, <2>2, <2>5, Now, MovedOn DEF dbVars, ghosts, Pcs
    <3>. QED  BY <2>1, <2>5, <3>1 DEF Kind, Checked, Held, dbVars, ghosts
  <2>. QED  BY <2>1, <2>3, <2>4, <2>5
<1>4. CASE WriteFollowRequest(r)
  <2>1. /\ Active(r) /\ pc[r] = "request" /\ Finish(r, "ok")
        /\ UNCHANGED <<follows, followers, following, blocks, private, call, did, seen, back, ghosts>>
        /\ requested' \in {requested \cup {Edge(r)}, requested \ {Edge(r)}}
    BY <1>4 DEF WriteFollowRequest, Active
  <2>2. Edge(r) \in Users \X Users
    BY <2>1, Now DEF Edge
  <2>3. requested' \subseteq Users \X Users
    BY <1>0, <2>1, <2>2
  <2>4. Sound(r) /\ pc'[r] = "done"
    BY <1>0, <2>1, <2>3, Finished DEF ghosts, Answers
  <2>. QED  BY <2>1, <2>4 DEF Kind, Ended, Held, ghosts
<1>5. CASE BeginTx(r)
  <2>1. /\ Active(r) /\ UNCHANGED <<dbVars, call, did, seen, back, reply, ghosts>> /\ pc[r] = "begin"
    BY <1>5 DEF BeginTx, Active
  <2>2. PICK label \in {"insert", "delete", "block"} : Goto(r, label) /\ CallAt(call[r], label)
    <3>1. call[r].op \in {"follow", "unfollow", "block"}
      BY <2>1, Now DEF CallAt
    <3>. QED  BY <1>5, <3>1 DEF BeginTx, CallAt, Is
  <2>3. ~back[r]
    BY <2>1, Now DEF BackPcs
  <2>4. Sound(r) /\ pc'[r] = label
    BY <1>0, <2>1, <2>2, <2>3, Now, MovedOn DEF dbVars, ghosts, Pcs
  <2>. QED  BY <2>1, <2>4 DEF Kind, Checked, Held, dbVars, ghosts
<1>6. CASE InsertFollow(r) \/ DeleteFollow(r)
  <2>1. /\ Active(r) /\ Goto(r, "count1") /\ UNCHANGED <<dbVars, call, seen, back, reply, ghosts>>
        /\ \/ pc[r] = "insert" /\ did' = [did EXCEPT ![r] = Edge(r) \notin follows]
           \/ pc[r] = "delete" /\ did' = [did EXCEPT ![r] = Edge(r) \in follows]
    BY <1>6 DEF InsertFollow, DeleteFollow, Active
  <2>2. ~back[r] /\ CallAt(call[r], "count1")
    BY <2>1, Now DEF CallAt, BackPcs
  <2>3. /\ did' \in [Requests -> BOOLEAN] /\ \A q \in Requests \ {r} : did'[q] = did[q]
        /\ \/ pc[r] = "insert" /\ did'[r] = (Edge(r) \notin follows)
           \/ pc[r] = "delete" /\ did'[r] = (Edge(r) \in follows)
    <3>1. PICK hit \in BOOLEAN :
            /\ did' = [did EXCEPT ![r] = hit]
            /\ \/ pc[r] = "insert" /\ hit = (Edge(r) \notin follows)
               \/ pc[r] = "delete" /\ hit = (Edge(r) \in follows)
      <4>1. (Edge(r) \in follows) \in BOOLEAN /\ (Edge(r) \notin follows) \in BOOLEAN
        OBVIOUS
      <4>2. CASE pc[r] = "insert" /\ did' = [did EXCEPT ![r] = Edge(r) \notin follows]
        BY <4>1, <4>2, Zenon
      <4>3. CASE pc[r] = "delete" /\ did' = [did EXCEPT ![r] = Edge(r) \in follows]
        BY <4>1, <4>3, Zenon
      <4>. QED  BY <2>1, <4>2, <4>3
    <3>. QED  BY <3>1, Now
  <2>4. Sound(r) /\ pc'[r] = "count1"
    BY <1>0, <2>1, <2>2, <2>3, Now, MovedOn DEF dbVars, ghosts, Pcs
  <2>. QED  BY <2>1, <2>3, <2>4 DEF Kind, Checked, Held, dbVars, ghosts
<1>7. CASE UpdateFollower(r) \/ UpdateFollowed(r)
  <2>1. /\ Active(r) /\ UNCHANGED <<dbVars, call, did, seen, back, reply, ghosts>>
        /\ \/ pc[r] = "count1" /\ Goto(r, "count2")
           \/ pc[r] = "count2" /\ Goto(r, "commit")
    BY <1>7 DEF UpdateFollower, UpdateFollowed, Active
  <2>2. ~back[r] /\ CallAt(call[r], "count2") /\ CallAt(call[r], "commit")
    BY <2>1, Now DEF CallAt, BackPcs
  <2>3. Sound(r) /\ \/ pc[r] = "count1" /\ pc'[r] = "count2"
                    \/ pc[r] = "count2" /\ pc'[r] = "commit"
    BY <1>0, <2>1, <2>2, Now, MovedOn DEF dbVars, ghosts, Pcs
  <2>. QED  BY <2>1, <2>3 DEF Kind, Checked, Held, dbVars, ghosts
<1>8. CASE Commit(r)
  <2>1. /\ Active(r) /\ pc[r] = "commit" /\ ApplyTx(r) /\ Finish(r, "ok")
        /\ UNCHANGED <<call, did, seen, back, faults, blockFaults, raced>>
        /\ events' \in {events, IF Is(r, "follow") THEN events \cup {r} ELSE events}
    BY <1>8 DEF Commit, Active
  <2>2. Sound(r) /\ pc'[r] = "done"
    BY <1>0, <2>1, Finished DEF ApplyTx, Answers
  <2>. QED  BY <2>1, <2>2 DEF Kind, Applied
<1>9. CASE DeadlockAbort(r)
  <2>1. /\ Active(r) /\ pc[r] = "count2" /\ Finish(r, "error")
        /\ UNCHANGED <<dbVars, call, did, seen, back, ghosts>>
    BY <1>9 DEF DeadlockAbort, InRing, Ring, Active
  <2>2. Sound(r) /\ pc'[r] = "done"
    BY <1>0, <2>1, Finished DEF dbVars, ghosts, Answers
  <2>. QED  BY <2>1, <2>2 DEF Kind, Ended, Held, dbVars, ghosts
<1>10. CASE CreateBlock(r)
  <2>1. /\ Active(r) /\ pc[r] = "block" /\ blocks' = [blocks EXCEPT ![Cell(r)] = call[r].type]
        /\ Goto(r, IF call[r].type = Block3 THEN "find" ELSE "end")
        /\ UNCHANGED <<follows, requested, followers, following, private,
                       call, did, seen, back, reply, ghosts>>
    BY <1>10 DEF CreateBlock, Active
  <2>2. ~back[r] /\ CallAt(call[r], "find") /\ CallAt(call[r], "end")
    BY <2>1, Now DEF CallAt, BackPcs
  <2>3. Sound(r) /\ pc'[r] = IF call[r].type = Block3 THEN "find" ELSE "end"
    BY <1>0, <2>1, <2>2, Now, MovedOn DEF ghosts, Pcs
  <2>. QED  BY <2>1, <2>3 DEF Kind, PutBlock, ghosts
<1>11. CASE FindFollow(r)
  <2>1. /\ Active(r) /\ pc[r] = "find" /\ UNCHANGED <<dbVars, call, did, seen, reply, ghosts>>
        /\ \/ Edge(r) \in follows /\ Goto(r, "cut") /\ back' = back
           \/ Edge(r) \notin follows /\ NextDirection(r)
    BY <1>11 DEF FindFollow, Active
  <2>2. CallAt(call[r], "cut") /\ CallAt(call[r], "end") /\ CallAt(call[r], "find")
        /\ call[r].op = "block"
    BY <2>1, Now DEF CallAt
  <2>3. CASE Edge(r) \in follows /\ Goto(r, "cut") /\ back' = back
    <3>1. Sound(r) /\ pc'[r] = "cut"
      BY <1>0, <2>1, <2>2, <2>3, Now, MovedOn DEF dbVars, ghosts, Pcs, BackPcs
    <3>. QED  BY <2>1, <2>3, <3>1 DEF Kind, Found, Held, dbVars, ghosts
  <2>4. CASE Edge(r) \notin follows /\ NextDirection(r)
    <3>1. /\ back' \in [Requests -> BOOLEAN] /\ \A q \in Requests \ {r} : back'[q] = back[q]
          /\ back' = [back EXCEPT ![r] = TRUE]
      BY <2>4, Now DEF NextDirection
    <3>2. Goto(r, IF back[r] THEN "end" ELSE "find")
      BY <2>4 DEF NextDirection
    <3>3. Sound(r) /\ pc'[r] = IF back[r] THEN "end" ELSE "find"
      BY <1>0, <2>1, <2>2, <3>1, <3>2, Now, MovedOn DEF dbVars, ghosts, Pcs, BackPcs
    <3>. QED  BY <2>1, <2>4, <3>1, <3>3 DEF Kind, Turned, Held, dbVars, ghosts
  <2>. QED  BY <2>1, <2>3, <2>4
<1>12. CASE CutFollow(r)
  <2>1. /\ Active(r) /\ pc[r] = "cut" /\ follows' = follows \ {Edge(r)} /\ Goto(r, "dec1")
        /\ UNCHANGED <<requested, followers, following, blocks, private,
                       call, did, seen, back, reply, ghosts>>
    BY <1>12 DEF CutFollow, Active
  <2>2. CallAt(call[r], "dec1") /\ call[r].op = "block"
    BY <2>1, Now DEF CallAt
  <2>3. Sound(r) /\ pc'[r] = "dec1"
    BY <1>0, <2>1, <2>2, Now, MovedOn DEF ghosts, Pcs, BackPcs
  <2>. QED  BY <2>1, <2>3 DEF Kind, DidCut, ghosts
<1>13. CASE DecrementFollowing(r)
  <2>1. /\ Active(r) /\ pc[r] = "dec1" /\ following' = Decr(following, Edge(r)[1]) /\ Goto(r, "dec2")
        /\ UNCHANGED <<follows, requested, followers, blocks, private,
                       call, did, seen, back, reply, ghosts>>
    BY <1>13 DEF DecrementFollowing, Active
  <2>2. CallAt(call[r], "dec2") /\ call[r].op = "block"
    BY <2>1, Now DEF CallAt
  <2>3. Sound(r) /\ pc'[r] = "dec2"
    BY <1>0, <2>1, <2>2, Now, MovedOn DEF ghosts, Pcs, BackPcs
  <2>. QED  BY <2>1, <2>3 DEF Kind, Decremented, ghosts
<1>14. CASE DecrementFollowers(r)
  <2>1. /\ Active(r) /\ pc[r] = "dec2" /\ followers' = Decr(followers, Edge(r)[2]) /\ NextDirection(r)
        /\ UNCHANGED <<follows, requested, following, blocks, private,
                       call, did, seen, reply, ghosts>>
    BY <1>14 DEF DecrementFollowers, Active
  <2>2. CallAt(call[r], "end") /\ CallAt(call[r], "find") /\ call[r].op = "block"
    BY <2>1, Now DEF CallAt
  <2>3. /\ back' \in [Requests -> BOOLEAN] /\ \A q \in Requests \ {r} : back'[q] = back[q]
        /\ back' = [back EXCEPT ![r] = TRUE]
    BY <2>1, Now DEF NextDirection
  <2>4. Sound(r) /\ pc'[r] = IF back[r] THEN "end" ELSE "find"
    BY <1>0, <2>1, <2>2, <2>3, Now, MovedOn DEF ghosts, Pcs, BackPcs, NextDirection
  <2>. QED  BY <2>1, <2>3, <2>4 DEF Kind, Turned, ghosts
<1>15. CASE EndBlock(r)
  <2>1. /\ Active(r) /\ pc[r] = "end" /\ Finish(r, "ok")
        /\ UNCHANGED <<dbVars, call, did, seen, back, ghosts>>
    BY <1>15 DEF EndBlock, Active
  <2>2. Sound(r) /\ pc'[r] = "done"
    BY <1>0, <2>1, Finished DEF dbVars, ghosts, Answers
  <2>. QED  BY <2>1, <2>2 DEF Kind, Ended, Held, dbVars, ghosts
<1>16. CASE GetBlock(r)
  <2>1. /\ Active(r) /\ pc[r] = "get" /\ UNCHANGED <<dbVars, call, did, back, ghosts>>
        /\ \/ Finish(r, "ok") /\ seen' = seen
           \/ /\ Goto(r, "unblock") /\ reply' = reply
              /\ seen' = [seen EXCEPT ![r] = Unblocked(blocks[Cell(r)], call[r].type)]
    BY <1>16 DEF GetBlock, Active
  <2>2. ~back[r] /\ CallAt(call[r], "unblock")
    BY <2>1, Now DEF CallAt, BackPcs
  <2>3. CASE Finish(r, "ok") /\ seen' = seen
    <3>1. Sound(r) /\ pc'[r] = "done"
      BY <1>0, <2>1, <2>3, Finished DEF dbVars, ghosts, Answers
    <3>. QED  BY <2>1, <2>3, <3>1 DEF Kind, Ended, Held, dbVars, ghosts
  <2>4. CASE /\ Goto(r, "unblock") /\ reply' = reply
             /\ seen' = [seen EXCEPT ![r] = Unblocked(blocks[Cell(r)], call[r].type)]
    <3>1. blocks[Cell(r)] \in NoBlock .. Block3
      BY <2>1, Now DEF Cell
    <3>2. Unblocked(blocks[Cell(r)], call[r].type) \in NoBlock .. Block3
      <4>1. \A current \in NoBlock .. Block3 : \A type : Unblocked(current, type) \in NoBlock .. Block3
        BY DEF Unblocked, NoBlock, Block3, HidePosts, HideMe
      <4>. QED  BY <3>1, <4>1
    <3>3. /\ seen' \in [Requests -> NoBlock .. Block3] /\ \A q \in Requests \ {r} : seen'[q] = seen[q]
          /\ seen'[r] = Unblocked(blocks[Cell(r)], call[r].type)
      BY <2>4, <3>2, Now
    <3>4. Sound(r) /\ pc'[r] = "unblock"
      BY <1>0, <2>1, <2>2, <2>4, <3>3, Now, MovedOn DEF dbVars, ghosts, Pcs
    <3>. QED  BY <2>1, <3>3, <3>4 DEF Kind, GotBlock, Held, dbVars, ghosts
  <2>. QED  BY <2>1, <2>3, <2>4
<1>17. CASE WriteUnblock(r)
  <2>1. /\ Active(r) /\ pc[r] = "unblock" /\ Finish(r, "ok")
        /\ blocks' = [blocks EXCEPT ![Cell(r)] = IF @ = NoBlock THEN NoBlock ELSE seen[r]]
        /\ UNCHANGED <<follows, requested, followers, following, private,
                       call, did, seen, back, ghosts>>
    BY <1>17 DEF WriteUnblock, Active
  <2>2. Sound(r) /\ pc'[r] = "done"
    BY <1>0, <2>1, Finished DEF ghosts, Answers
  <2>. QED  BY <2>1, <2>2 DEF Kind, PutUnblock, ghosts
<1>. QED  BY <1>1, <1>2, <1>3, <1>4, <1>5, <1>6, <1>7, <1>8, <1>9, <1>10, <1>11, <1>12, <1>13,
            <1>14, <1>15, <1>16, <1>17 DEF HandlerStep

LEMMA FaultKind ==
  ASSUME Typed, NEW r \in Requests, HandlerFault(r)
  PROVE  Sound(r) /\ Kind(r)
<1>0. /\ requested \subseteq Users \X Users /\ Fault(r) /\ UNCHANGED events /\ UNCHANGED raced
      /\ faults' \in 0 .. MaxFaults /\ blockFaults' \in 0 .. faults'
      /\ blockFaults' \in {blockFaults, blockFaults + 1}
      /\ Is(r, "block") => Failed(r)
  <2>1. Fault(r)
    BY DEF HandlerFault, StatementFails, IgnoredFailure, CommitFails, Crash
  <2>. QED  BY <2>1, Now DEF Typed, TypeOK, Fault, Failed
<1>1. CASE StatementFails(r) \/ Crash(r)
  <2>1. /\ Active(r) /\ UNCHANGED <<dbVars, call, did, seen, back>>
        /\ Goto(r, "done") /\ \E answer \in Answers : reply' \in {reply, [reply EXCEPT ![r] = answer]}
    <3>1. CASE StatementFails(r)
      BY <3>1 DEF StatementFails, Active, Finish, Answers
    <3>2. CASE Crash(r)
      BY <3>2 DEF Crash, Answers
    <3>. QED  BY <1>1, <3>1, <3>2
  <2>2. /\ reply' \in [Requests -> Answers] /\ \A q \in Requests \ {r} : reply'[q] = reply[q]
    BY <2>1, Now
  <2>3. /\ pc' \in [Requests -> Pcs] /\ pc'[r] = "done"
        /\ \A q \in Requests \ {r} : pc'[q] = pc[q]
    BY <2>1, Now DEF Goto, Pcs
  <2>4. CallAt(call[r], "done") /\ (back[r] => call[r].op = "block")
    BY <2>1, Now DEF CallAt
  <2>5. Sound(r)
    BY <1>0, <2>1, <2>2, <2>3, <2>4, Now DEF Sound, BackPcs, dbVars
  <2>6. pc[r] \in {"find", "cut", "dec1", "dec2"} => Failed(r)
    BY <1>0, <2>1, Now DEF CallAt, Is
  <2>. QED  BY <1>0, <2>1, <2>3, <2>5, <2>6 DEF Kind, Ended, Held, dbVars
<1>2. CASE IgnoredFailure(r)
  <2>1. /\ Active(r) /\ UNCHANGED <<dbVars, call, did, seen, reply>>
        /\ \/ pc[r] = "dec1" /\ Goto(r, "dec2") /\ back' = back
           \/ pc[r] \in {"find", "dec2"} /\ NextDirection(r)
    BY <1>2 DEF IgnoredFailure, Active
  <2>2. CallAt(call[r], "dec2") /\ CallAt(call[r], "end") /\ CallAt(call[r], "find")
        /\ call[r].op = "block" /\ Failed(r)
    BY <1>0, <2>1, Now DEF CallAt, Is
  <2>3. CASE pc[r] = "dec1" /\ Goto(r, "dec2") /\ back' = back
    <3>1. Sound(r) /\ pc'[r] = "dec2"
      BY <1>0, <2>1, <2>2, <2>3, Now, MovedOn DEF dbVars, Pcs, BackPcs
    <3>. QED  BY <1>0, <2>1, <2>2, <2>3, <3>1 DEF Kind, Decremented, dbVars
  <2>4. CASE pc[r] \in {"find", "dec2"} /\ NextDirection(r)
    <3>1. /\ back' \in [Requests -> BOOLEAN] /\ \A q \in Requests \ {r} : back'[q] = back[q]
          /\ back' = [back EXCEPT ![r] = TRUE]
      BY <2>4, Now DEF NextDirection
    <3>2. Goto(r, IF back[r] THEN "end" ELSE "find")
      BY <2>4 DEF NextDirection
    <3>3. Sound(r) /\ pc'[r] = IF back[r] THEN "end" ELSE "find"
      BY <1>0, <2>1, <2>2, <3>1, <3>2, Now, MovedOn DEF dbVars, Pcs, BackPcs
    <3>. QED  BY <1>0, <2>1, <2>2, <2>4, <3>1, <3>3 DEF Kind, Turned, Held, dbVars
  <2>. QED  BY <2>1, <2>3, <2>4
<1>3. CASE CommitFails(r)
  <2>1. /\ Active(r) /\ UNCHANGED <<call, did, seen, back>> /\ Finish(r, "error")
        /\ pc[r] \in {"commit", "end"}
        /\ UNCHANGED dbVars \/ (pc[r] = "commit" /\ ApplyTx(r))
    BY <1>3 DEF CommitFails, Active
  <2>2. UNCHANGED <<requested, private>>
    BY <2>1 DEF dbVars, ApplyTx
  <2>3. Sound(r) /\ pc'[r] = "done"
    BY <1>0, <2>1, <2>2, Finished DEF Answers
  <2>4. CASE UNCHANGED dbVars
    BY <1>0, <2>1, <2>3, <2>4 DEF Kind, Ended, Held, dbVars
  <2>5. CASE pc[r] = "commit" /\ ApplyTx(r)
    BY <1>0, <2>1, <2>3, <2>5 DEF Kind, Applied
  <2>. QED  BY <2>1, <2>4, <2>5
<1>. QED  BY <1>1, <1>2, <1>3 DEF HandlerFault

LEMMA RequestStep ==
  ASSUME Typed, NEW r \in Requests, HandlerStep(r) \/ HandlerFault(r)
  PROVE  Sound(r) /\ Kind(r)
BY StepKind, FaultKind

\* A request arrives.
LEMMA BeginStep ==
  ASSUME Typed, NEW r \in Requests, NEW a \in Calls, Begin(r, a)
  PROVE  /\ UNCHANGED <<dbVars, did, seen, back, events, faults, blockFaults>>
         /\ pc[r] = "idle" /\ call'[r] = a /\ CallAt(a, pc'[r])
         /\ pc'[r] \in {"target", "exists", "get", "done"}
         /\ pc'[r] = "exists" => a.op = "unfollow"
         /\ \A q \in Requests \ {r} : pc'[q] = pc[q] /\ call'[q] = call[q] /\ reply'[q] = reply[q]
         /\ pc' \in [Requests -> Pcs] /\ call' \in [Requests -> Calls \cup {NoCall}]
         /\ reply' \in [Requests -> Answers]
         /\ a.op \in {"follow", "block"} => a.user # a.target \/ pc'[r] = "done"
         /\ raced' = IF \E q \in Requests : Active(q) /\ Party(q) = {a.user, a.target}
                     THEN raced \cup {{a.user, a.target}} ELSE raced
         /\ ~back[r]
<1>1. a.op \in {"follow", "unfollow", "block", "unblock"}
  BY CallType
<1>2. /\ Entry(a) \in {"target", "exists", "get"} /\ CallAt(a, Entry(a)) /\ CallAt(a, "done")
      /\ Entry(a) = "exists" => a.op = "unfollow"
  BY <1>1 DEF Entry, CallAt
<1>3. /\ pc' \in [Requests -> Pcs] /\ CallAt(a, pc'[r]) /\ pc'[r] \in {"target", "exists", "get", "done"}
      /\ pc'[r] = "exists" => a.op = "unfollow"
      /\ a.op \in {"follow", "block"} => a.user # a.target \/ pc'[r] = "done"
      /\ \A q \in Requests \ {r} : pc'[q] = pc[q]
  BY <1>2, Now DEF Begin, Finish, Goto, Pcs
<1>4. reply' \in [Requests -> Answers] /\ \A q \in Requests \ {r} : reply'[q] = reply[q]
  BY Now DEF Begin, Finish, Answers
<1>5. /\ call' \in [Requests -> Calls \cup {NoCall}] /\ call'[r] = a
      /\ \A q \in Requests \ {r} : call'[q] = call[q]
  BY Now DEF Begin
<1>6. ~back[r]
  BY DEF Begin, Typed, CallFits, BackPcs
<1>. QED  BY <1>3, <1>4, <1>5, <1>6 DEF Begin

LEMMA TypeInit ==
  ASSUME Init
  PROVE  Typed
<1>1. \A u \in Users : Cardinality(FollowersOf(follows, u)) \in Nat
                       /\ Cardinality(FollowingOf(follows, u)) \in Nat
  <2>1. \A u \in Users : FollowersOf(follows, u) \subseteq Users /\ FollowingOf(follows, u) \subseteq Users
    BY DEF FollowersOf, FollowingOf
  <2>. QED  BY <2>1, UsersFinite, FS_Subset, FS_CardinalityType
<1>2. TypeOK
  BY <1>1, PoolAssumption DEF Init, TypeOK, NoBlock, Block3
<1>. QED  BY <1>2 DEF Init, Typed, CallFits, Active

LEMMA TypeStep ==
  ASSUME Typed, [Next]_vars
  PROVE  Typed'
<1>1. CASE \E u \in Users : SetPrivate(u)
  <2>1. /\ UNCHANGED <<follows, requested, followers, following, blocks, reqVars, ghosts>>
        /\ private' \subseteq Users
    BY <1>1 DEF SetPrivate, Typed, TypeOK
  <2>. QED  BY <2>1 DEF Typed, TypeOK, CallFits, Active, reqVars, ghosts
<1>2. ASSUME NEW r \in Requests, NEW a \in Calls, Begin(r, a)
      PROVE  Typed'
  <2>1. /\ UNCHANGED <<dbVars, did, seen, back, events, faults, blockFaults>>
        /\ call'[r] = a /\ CallAt(a, pc'[r]) /\ ~back[r]
        /\ \A q \in Requests \ {r} : pc'[q] = pc[q] /\ call'[q] = call[q]
        /\ pc' \in [Requests -> Pcs] /\ call' \in [Requests -> Calls \cup {NoCall}]
        /\ reply' \in [Requests -> Answers]
        /\ a.op \in {"follow", "block"} => a.user # a.target \/ pc'[r] = "done"
        /\ raced' \in {raced, raced \cup {{a.user, a.target}}}
    BY <1>2, BeginStep
  <2>2. raced' \subseteq SUBSET Users
    BY <2>1, CallType DEF Typed, TypeOK
  <2>3. TypeOK'
    BY <2>1, <2>2 DEF Typed, TypeOK, Pcs, Answers, dbVars
  <2>4. CallFits'
    BY <2>1 DEF Typed, CallFits, Active
  <2>. QED  BY <2>3, <2>4 DEF Typed
<1>3. ASSUME NEW r \in Requests, HandlerStep(r) \/ HandlerFault(r)
      PROVE  Typed'
  <2>1. Sound(r) /\ Kind(r)
    BY <1>3, RequestStep
  <2>2. /\ call[r].user \in Users /\ call[r].target \in Users
        /\ call[r].op \in {"follow", "unfollow", "block", "unblock"}
        /\ (call[r].op \in {"follow", "block"} => call[r].user # call[r].target)
    BY <2>1, Now DEF Sound
  <2>3. Edge(r) \in Users \X Users /\ (pc[r] = "commit" /\ Is(r, "follow") => Edge(r) \in Pairs)
    BY <2>2 DEF Edge, Pairs, Is
  <2>4. follows' \subseteq Pairs
    BY <2>1, <2>3 DEF Typed, TypeOK, Kind, Ended, Checked, Applied, ApplyTx, PutBlock, Found, DidCut,
                      Decremented, Turned, GotBlock, PutUnblock, Held
  <2>5. /\ followers' \in [Users -> Nat] /\ following' \in [Users -> Nat]
    <3>1. \A u \in Users : /\ Incr(followers, u) \in [Users -> Nat] /\ Incr(following, u) \in [Users -> Nat]
                           /\ Decr(followers, u) \in [Users -> Nat] /\ Decr(following, u) \in [Users -> Nat]
      BY Now DEF Incr, Decr
    <3>2. Edge(r)[1] \in Users /\ Edge(r)[2] \in Users
      BY <2>3
    <3>3. /\ followers' \in {followers, Incr(followers, call[r].target), Decr(followers, call[r].target),
                             Decr(followers, Edge(r)[2])}
          /\ following' \in {following, Incr(following, call[r].user), Decr(following, call[r].user),
                             Decr(following, Edge(r)[1])}
      BY <2>1 DEF Kind, Ended, Checked, Applied, ApplyTx, PutBlock, Found, DidCut,
                  Decremented, Turned, GotBlock, PutUnblock, Held
    <3>. QED  BY <2>2, <3>1, <3>2, <3>3, Now
  <2>6. blocks' \in [Users \X Users -> NoBlock .. Block3]
    <3>1. Cell(r) \in Users \X Users
      BY <2>2 DEF Cell
    <3>2. CASE PutBlock(r)
      <4>1. call[r].type \in {HidePosts, HideMe, Block3}
        BY <2>1, <3>2, Now, CallType DEF Sound, PutBlock, CallAt
      <4>. QED  BY <3>1, <3>2, <4>1, Now DEF PutBlock, HidePosts, HideMe, Block3, NoBlock
    <3>3. CASE PutUnblock(r)
      <4>1. seen[r] \in NoBlock .. Block3
        BY Now
      <4>. QED  BY <3>1, <3>3, <4>1, Now DEF PutUnblock, Block3, NoBlock
    <3>4. CASE UNCHANGED blocks
      BY <3>4, Now
    <3>. QED  BY <2>1, <3>2, <3>3, <3>4 DEF Kind, Ended, Checked, Applied, ApplyTx, Found, DidCut,
                  Decremented, Turned, GotBlock, Held
  <2>7. events' \subseteq Requests
    BY <2>1 DEF Typed, TypeOK, Kind, Ended, Checked, Applied, PutBlock, Found, DidCut,
                Decremented, Turned, GotBlock, PutUnblock
  <2>8. TypeOK'
    BY <2>1, <2>4, <2>5, <2>6, <2>7 DEF Sound, Typed, TypeOK, Pcs, Answers
  <2>9. CallFits'
    <3>1. call[r] \in Calls
      BY <2>1, Now DEF Sound
    <3>. QED  BY <2>1, <2>2, <3>1 DEF Sound, Typed, CallFits, Active
  <2>. QED  BY <2>8, <2>9 DEF Typed
<1>4. CASE UNCHANGED vars
  BY <1>4 DEF Typed, TypeOK, CallFits, Active, vars, dbVars, reqVars, ghosts
<1>. QED  BY <1>1, <1>2, <1>3, <1>4 DEF Next

\* Every variable keeps its type.
THEOREM TypeCorrect == Spec => []TypeOK
<1>1. Init => Typed
  BY TypeInit
<1>2. Typed /\ [Next]_vars => Typed'
  BY TypeStep
<1>3. Typed => TypeOK
  BY DEF Typed
<1>. QED  BY <1>1, <1>2, <1>3, PTL DEF Spec

-----------------------------------------------------------------------------
(* A request alone on its pair of users: what it read still holds when it  *)
(* writes. A pair on which two requests overlapped is in raced for good.   *)

Alone ==
  \A q, r \in Requests :
    q # r /\ Active(q) /\ Active(r) /\ Party(q) = Party(r) => Party(r) \in raced

NotBlocked(r) ==
  /\ Is(r, "follow")
  /\ pc[r] \in {"exists", "request", "begin", "insert", "count1", "count2", "commit"}
  => blocks[<<call[r].target, call[r].user>>] # Block3

RowAsRead(r) ==
  /\ pc[r] \in {"begin", "insert", "delete"} /\ ~Is(r, "block")
       => ((Edge(r) \in follows) <=> Is(r, "unfollow"))
  /\ pc[r] \in {"count1", "count2", "commit"}
       => did[r] /\ ((Edge(r) \in follows) <=> Is(r, "unfollow"))
  /\ pc[r] = "cut" => Edge(r) \in follows

BlockAsRead(r) == pc[r] = "unblock" => seen[r] = Unblocked(blocks[Cell(r)], call[r].type)

AsRead == \A r \in Requests : Active(r) /\ Party(r) \notin raced
                                => NotBlocked(r) /\ RowAsRead(r) /\ BlockAsRead(r)

\* The half of a block that Unblock leaves.
HalfSeen == \A r \in Requests : seen[r] # Block3

Serial == Typed /\ Alone /\ AsRead /\ HalfSeen

LEMMA HalfLeft ==
  ASSUME NEW current, NEW type
  PROVE  Unblocked(current, type) # Block3
BY DEF Unblocked, NoBlock, HidePosts, HideMe, Block3

\* A request writes the rows of its own two users only.
LEMMA Elsewhere ==
  ASSUME Typed, NEW r \in Requests, Sound(r), Kind(r),
         NEW p \in Users \X Users, {p[1], p[2]} # Party(r)
  PROVE  /\ (p \in follows') <=> (p \in follows)
         /\ blocks'[p] = blocks[p]
<1>1. p # Edge(r) /\ p # Cell(r)
  BY DEF Edge, Cell, Party
<1>2. (p \in follows') <=> (p \in follows)
  BY <1>1 DEF Kind, Ended, Checked, Applied, ApplyTx, PutBlock, Found, DidCut,
              Decremented, Turned, GotBlock, PutUnblock, Held
<1>3. blocks' = blocks \/ \E type : blocks' = [blocks EXCEPT ![Cell(r)] = type]
  BY DEF Kind, Ended, Checked, Applied, ApplyTx, PutBlock, Found, DidCut,
         Decremented, Turned, GotBlock, PutUnblock, Held
<1>4. blocks'[p] = blocks[p]
  BY <1>1, <1>3, Now
<1>. QED  BY <1>2, <1>4

LEMMA SerialInit ==
  ASSUME Init
  PROVE  Serial
BY TypeInit DEF Init, Serial, Alone, AsRead, HalfSeen, Active, NoBlock, Block3

LEMMA AloneStep ==
  ASSUME Typed, Alone, [Next]_vars
  PROVE  Alone'
<1>1. CASE UNCHANGED <<pc, call, raced>>
  BY <1>1 DEF Alone, Active, Party
<1>2. ASSUME NEW r \in Requests, NEW a \in Calls, Begin(r, a)
      PROVE  Alone'
  <2>1. /\ call'[r] = a
        /\ \A q \in Requests \ {r} : pc'[q] = pc[q] /\ call'[q] = call[q]
        /\ raced' = IF \E q \in Requests : Active(q) /\ Party(q) = {a.user, a.target}
                    THEN raced \cup {{a.user, a.target}} ELSE raced
        /\ pc[r] = "idle"
    BY <1>2, BeginStep
  <2>2. SUFFICES ASSUME NEW p \in Requests, NEW q \in Requests, p # q, Active(p)', Active(q)',
                        Party(p)' = Party(q)'
                 PROVE  Party(q)' \in raced'
    BY DEF Alone
  <2>3. Party(r)' = {a.user, a.target}
    BY <2>1 DEF Party
  <2>4. \A o \in Requests \ {r} : Party(o)' = Party(o) /\ (Active(o)' <=> Active(o))
    BY <2>1 DEF Party, Active
  <2>5. CASE p # r /\ q # r
    BY <2>1, <2>2, <2>4, <2>5 DEF Alone
  <2>6. CASE p = r \/ q = r
    BY <2>1, <2>2, <2>3, <2>4, <2>6
  <2>. QED  BY <2>5, <2>6
<1>3. ASSUME NEW r \in Requests, HandlerStep(r) \/ HandlerFault(r)
      PROVE  Alone'
  <2>1. Sound(r)
    BY <1>3, RequestStep
  <2>2. \A q \in Requests : (Active(q)' => Active(q)) /\ Party(q)' = Party(q)
    BY <2>1 DEF Sound, Active, Party
  <2>. QED  BY <2>1, <2>2 DEF Alone, Sound
<1>4. CASE \E u \in Users : SetPrivate(u)
  BY <1>1, <1>4 DEF SetPrivate, reqVars, ghosts
<1>. QED  BY <1>1, <1>2, <1>3, <1>4 DEF Next, vars, reqVars, ghosts

\* The request that moved.
LEMMA AsReadMoved ==
  ASSUME Serial, NEW r \in Requests, Sound(r), Kind(r), Active(r)', Party(r) \notin raced
  PROVE  (NotBlocked(r) /\ RowAsRead(r) /\ BlockAsRead(r))'
<1>1. /\ NotBlocked(r) /\ RowAsRead(r) /\ BlockAsRead(r) /\ Active(r) /\ call' = call
      /\ call[r].op \in {"follow", "unfollow", "block", "unblock"} /\ CallAt(call[r], pc[r])
      /\ (back[r] => call[r].op = "block")
  BY Now DEF Serial, AsRead, Sound
<1>2. CASE Checked(r)
  <2>1. Edge(r)' = Edge(r) /\ Cell(r)' = Cell(r) /\ UNCHANGED <<follows, blocks>>
    BY <1>1, <1>2 DEF Checked, Held, Edge, Cell
  <2>2. NotBlocked(r)'
    <3>1. Is(r, "follow") /\ pc'[r] # "blocked" /\ pc[r] # "blocked" /\ pc[r] # "target"
            => pc[r] \in {"exists", "request", "begin", "insert", "count1", "count2", "commit"}
      BY <1>1 DEF Is, CallAt, Active
    <3>2. Is(r, "follow") /\ pc[r] = "target" => pc'[r] = "blocked"
      BY <1>1, <1>2 DEF Is, CallAt, Checked
    <3>. QED  BY <1>1, <1>2, <2>1, <3>1, <3>2 DEF NotBlocked, Checked, Is
  <2>3. RowAsRead(r)'
    BY <1>1, <1>2, <2>1 DEF RowAsRead, Checked, Is, CallAt
  <2>4. BlockAsRead(r)'
    BY <1>2 DEF BlockAsRead, Checked
  <2>. QED  BY <2>2, <2>3, <2>4
<1>3. CASE PutBlock(r) \/ Found(r) \/ DidCut(r) \/ Decremented(r) \/ Turned(r)
  <2>1. call[r].op = "block" /\ pc'[r] \in {"find", "cut", "dec1", "dec2", "end"}
        /\ (pc'[r] = "cut" => Found(r))
    BY <1>1, <1>3 DEF PutBlock, Found, DidCut, Decremented, Turned, CallAt
  <2>2. Found(r) => Edge(r)' = Edge(r) /\ follows' = follows /\ Edge(r) \in follows
    BY <1>1 DEF Found, Edge, Held
  <2>3. NotBlocked(r)' /\ BlockAsRead(r)'
    BY <1>1, <2>1 DEF NotBlocked, BlockAsRead, Is
  <2>4. RowAsRead(r)'
    BY <2>1, <2>2 DEF RowAsRead
  <2>. QED  BY <2>3, <2>4
<1>4. CASE GotBlock(r)
  BY <1>1, <1>4 DEF GotBlock, Held, NotBlocked, RowAsRead, BlockAsRead, Cell, CallAt, Is
<1>5. CASE Ended(r) \/ Applied(r) \/ PutUnblock(r)
  BY <1>5 DEF Ended, Applied, PutUnblock, Active
<1>. QED  BY <1>2, <1>3, <1>4, <1>5 DEF Kind

LEMMA SerialStep ==
  ASSUME Serial, [Next]_vars
  PROVE  Serial'
<1>0. Typed' /\ Alone'
  BY TypeStep, AloneStep DEF Serial
<1>1. CASE UNCHANGED <<follows, blocks, reqVars, raced>>
  BY <1>0, <1>1 DEF Serial, AsRead, HalfSeen, NotBlocked, RowAsRead, BlockAsRead, Active, Party, Edge,
                    Cell, Is, reqVars
<1>2. ASSUME NEW r \in Requests, NEW a \in Calls, Begin(r, a)
      PROVE  Serial'
  <2>1. /\ UNCHANGED <<follows, blocks, did, seen, back>> /\ raced \subseteq raced'
        /\ call'[r] = a /\ pc'[r] \in {"target", "exists", "get", "done"}
        /\ pc'[r] = "exists" => a.op = "unfollow"
        /\ \A q \in Requests \ {r} : pc'[q] = pc[q] /\ call'[q] = call[q]
    BY <1>2, BeginStep DEF Serial, dbVars
  <2>2. ASSUME NEW q \in Requests, Active(q)', Party(q)' \notin raced'
        PROVE  (NotBlocked(q) /\ RowAsRead(q) /\ BlockAsRead(q))'
    <3>1. CASE q = r
      BY <2>1, <3>1 DEF NotBlocked, RowAsRead, BlockAsRead, Is
    <3>2. CASE q # r
      <4>1. Active(q) /\ Party(q) \notin raced /\ Edge(q)' = Edge(q) /\ Cell(q)' = Cell(q)
        BY <2>1, <2>2, <3>2 DEF Active, Party, Edge, Cell
      <4>2. NotBlocked(q) /\ RowAsRead(q) /\ BlockAsRead(q)
        BY <4>1 DEF Serial, AsRead
      <4>. QED  BY <2>1, <3>2, <4>1, <4>2 DEF NotBlocked, RowAsRead, BlockAsRead, Is
    <3>. QED  BY <3>1, <3>2
  <2>. QED  BY <1>0, <2>1, <2>2 DEF Serial, AsRead, HalfSeen
<1>3. ASSUME NEW r \in Requests, HandlerStep(r) \/ HandlerFault(r)
      PROVE  Serial'
  <2>1. Sound(r) /\ Kind(r) /\ Active(r) /\ UNCHANGED <<call, raced>> /\ Typed
    BY <1>3, RequestStep DEF Serial, Sound
  <2>2. HalfSeen'
    <3>1. seen'[r] # Block3
      BY <2>1, HalfLeft DEF Serial, HalfSeen, Kind, Ended, Checked, Applied, PutBlock, Found, DidCut,
                            Decremented, Turned, GotBlock, PutUnblock, Block3
    <3>. QED  BY <2>1, <3>1 DEF Serial, HalfSeen, Sound
  <2>3. ASSUME NEW q \in Requests, Active(q)', Party(q)' \notin raced'
        PROVE  (NotBlocked(q) /\ RowAsRead(q) /\ BlockAsRead(q))'
    <3>0. Party(q) \notin raced /\ Party(q)' = Party(q)
      BY <2>1, <2>3 DEF Party
    <3>1. CASE q = r
      BY <2>1, <2>3, <3>0, <3>1, AsReadMoved
    <3>2. CASE q # r
      <4>1. /\ pc'[q] = pc[q] /\ did'[q] = did[q] /\ seen'[q] = seen[q] /\ back'[q] = back[q]
            /\ Active(q) /\ Edge(q)' = Edge(q) /\ Cell(q)' = Cell(q)
        BY <2>1, <2>3, <3>2 DEF Sound, Active, Edge, Cell
      <4>2. NotBlocked(q) /\ RowAsRead(q) /\ BlockAsRead(q)
        BY <3>0, <4>1 DEF Serial, AsRead
      <4>3. Party(q) # Party(r)
        BY <2>1, <3>0, <3>2, <4>1 DEF Serial, Alone
      <4>4. call[q].user \in Users /\ call[q].target \in Users
        BY <2>1, <4>1, Now
      <4>5. ASSUME NEW p \in {<<call[q].target, call[q].user>>, <<call[q].user, call[q].target>>}
            PROVE  (p \in follows' <=> p \in follows) /\ blocks'[p] = blocks[p]
        <5>1. p \in Users \X Users /\ {p[1], p[2]} = Party(q)
          BY <4>4 DEF Party
        <5>. QED  BY <2>1, <4>3, <5>1, Elsewhere
      <4>6. /\ Edge(q) \in follows' <=> Edge(q) \in follows
            /\ blocks'[Cell(q)] = blocks[Cell(q)]
            /\ blocks'[<<call[q].target, call[q].user>>] = blocks[<<call[q].target, call[q].user>>]
        BY <4>5 DEF Edge, Cell
      <4>. QED  BY <2>1, <4>1, <4>2, <4>6 DEF NotBlocked, RowAsRead, BlockAsRead, Is
    <3>. QED  BY <3>1, <3>2
  <2>. QED  BY <1>0, <2>2, <2>3 DEF Serial, AsRead
<1>4. CASE \E u \in Users : SetPrivate(u)
  BY <1>1, <1>4 DEF SetPrivate, ghosts
<1>. QED  BY <1>1, <1>2, <1>3, <1>4 DEF Next, vars, dbVars, ghosts

-----------------------------------------------------------------------------
(* What a request alone on its pair may be told, hide and leave.           *)

\* Only a follow that has ended has an event, and it inserted a row.
EventInv == \A r \in events : pc[r] = "done" /\ (did[r] \/ Party(r) \in raced)

LEMMA EventStep ==
  ASSUME Serial, EventInv, [Next]_vars
  PROVE  EventInv'
<1>1. CASE UNCHANGED <<events, reqVars, raced>>
  BY <1>1 DEF EventInv, Party, reqVars
<1>2. ASSUME NEW r \in Requests, NEW a \in Calls, Begin(r, a)
      PROVE  EventInv'
  <2>1. /\ pc[r] = "idle" /\ UNCHANGED <<did, events>> /\ raced \subseteq raced'
        /\ \A q \in Requests \ {r} : pc'[q] = pc[q] /\ call'[q] = call[q]
    BY <1>2, BeginStep DEF Serial
  <2>2. events \subseteq Requests
    BY DEF Serial, Typed, TypeOK
  <2>. QED  BY <2>1, <2>2 DEF EventInv, Party
<1>3. ASSUME NEW r \in Requests, HandlerStep(r) \/ HandlerFault(r)
      PROVE  EventInv'
  <2>1. Sound(r) /\ Kind(r) /\ Active(r) /\ UNCHANGED <<call, raced>>
    BY <1>3, RequestStep DEF Serial, Sound
  <2>2. events \subseteq Requests /\ \A q \in events : q # r
    BY <2>1 DEF Serial, Typed, TypeOK, EventInv, Active
  <2>3. CASE events' = events
    BY <2>1, <2>2, <2>3 DEF EventInv, Party, Sound
  <2>4. CASE Applied(r) /\ events' = events \cup {r}
    <3>1. pc[r] = "commit" /\ pc'[r] = "done" /\ did'[r] = did[r]
      BY <2>4 DEF Applied
    <3>2. did[r] \/ Party(r) \in raced
      BY <2>1, <3>1 DEF Serial, AsRead, RowAsRead
    <3>3. Party(r)' = Party(r)
      BY <2>1 DEF Party
    <3>. QED  BY <2>1, <2>2, <2>4, <3>1, <3>2, <3>3 DEF EventInv, Party, Sound
  <2>. QED  BY <2>1, <2>3, <2>4 DEF Kind, Ended, Checked, Applied, PutBlock, Found, DidCut,
                                    Decremented, Turned, GotBlock, PutUnblock
<1>4. CASE \E u \in Users : SetPrivate(u)
  BY <1>1, <1>4 DEF SetPrivate, ghosts
<1>. QED  BY <1>1, <1>2, <1>3, <1>4 DEF Next, vars, ghosts

\* Unblock writes what is left of the block that is there.
LEMMA UnblockStep ==
  ASSUME Serial, [Next]_vars, NEW r \in Requests,
         pc[r] = "unblock", pc'[r] = "done", Party(r) \notin raced
  PROVE  Hides(blocks'[Cell(r)]) \subseteq Hides(blocks[Cell(r)])
<1>1. HandlerStep(r) \/ HandlerFault(r)
  <2>1. ASSUME NEW q \in Requests, HandlerStep(q) \/ HandlerFault(q)
        PROVE  q = r
    BY <2>1, RequestStep DEF Serial, Sound
  <2>2. ASSUME NEW q \in Requests, NEW a \in Calls, Begin(q, a)
        PROVE  FALSE
    BY <2>2, BeginStep DEF Serial
  <2>3. ~UNCHANGED pc
    OBVIOUS
  <2>. QED  BY <2>1, <2>2, <2>3 DEF Next, SetPrivate, reqVars, vars
<1>2. Sound(r) /\ Kind(r) /\ Typed /\ Active(r)
  BY <1>1, RequestStep DEF Serial, Sound
<1>3. /\ seen[r] = Unblocked(blocks[Cell(r)], call[r].type)
      /\ call[r] \in Calls /\ call[r].op = "unblock" /\ Cell(r) \in Users \X Users
  BY <1>2, Now DEF Serial, AsRead, BlockAsRead, CallAt, Cell
<1>4. CASE blocks' = blocks
  BY <1>4
<1>5. CASE PutUnblock(r)
  <2>1. call[r].type \in {HidePosts, HideMe, Block3}
    BY <1>3, CallType
  <2>2. blocks'[Cell(r)] = IF blocks[Cell(r)] = NoBlock THEN NoBlock ELSE seen[r]
    BY <1>2, <1>3, <1>5, Now DEF PutUnblock
  <2>3. blocks[Cell(r)] \in NoBlock .. Block3
    BY <1>2, <1>3, Now
  <2>4. \A current \in NoBlock .. Block3, type \in {HidePosts, HideMe, Block3} :
          Hides(Unblocked(current, type)) \subseteq Hides(current)
    BY DEF Hides, Unblocked, NoBlock, HidePosts, HideMe, Block3
  <2>. QED  BY <1>3, <2>1, <2>2, <2>3, <2>4
<1>. QED  BY <1>2, <1>4, <1>5 DEF Kind, Ended, Checked, Applied, ApplyTx, PutBlock, Found, DidCut,
                                  Decremented, Turned, GotBlock, Held

\* A Block that is on its way to cut the follow of the one it blocks.
Cutting(r, p) ==
  /\ Active(r) /\ Is(r, "block") /\ Cell(r) = p
  /\ pc[r] \in {"find", "cut", "dec1", "dec2"}
  /\ pc[r] \in {"dec1", "dec2"} => ~back[r]

\* A follow of who is blocked is about to be cut.
CutInv ==
  \A p \in Pairs :
    /\ blocks[p] = Block3 /\ <<p[2], p[1]>> \in follows
    /\ {p[1], p[2]} \notin raced /\ blockFaults = 0
    => \E r \in Requests : Cutting(r, p)

LEMMA CutStep ==
  ASSUME Serial, CutInv, [Next]_vars
  PROVE  CutInv'
<1>1. CASE UNCHANGED <<follows, blocks, reqVars, raced, blockFaults>>
  BY <1>1 DEF CutInv, Cutting, Active, Is, Cell, reqVars
<1>2. ASSUME NEW r \in Requests, NEW a \in Calls, Begin(r, a)
      PROVE  CutInv'
  <2>1. /\ pc[r] = "idle" /\ UNCHANGED <<follows, blocks, back, blockFaults>> /\ raced \subseteq raced'
        /\ \A q \in Requests \ {r} : pc'[q] = pc[q] /\ call'[q] = call[q]
    BY <1>2, BeginStep DEF Serial, dbVars
  <2>2. ASSUME NEW p, NEW q \in Requests, Cutting(q, p)
        PROVE  Cutting(q, p)'
    BY <2>1, <2>2 DEF Cutting, Active, Is, Cell
  <2>. QED  BY <2>1, <2>2 DEF CutInv
<1>3. ASSUME NEW r \in Requests, HandlerStep(r) \/ HandlerFault(r)
      PROVE  CutInv'
  <2>1. Sound(r) /\ Kind(r) /\ Active(r) /\ UNCHANGED <<call, raced>> /\ Typed
    BY <1>3, RequestStep DEF Serial, Sound
  <2>2. SUFFICES ASSUME NEW p \in Pairs, blocks'[p] = Block3, <<p[2], p[1]>> \in follows',
                        {p[1], p[2]} \notin raced, blockFaults' = 0
                 PROVE  \E q \in Requests : Cutting(q, p)'
    BY <2>1 DEF CutInv
  <2>3. p \in Users \X Users /\ <<p[2], p[1]>> \in Users \X Users /\ p = <<p[1], p[2]>> /\ p[1] # p[2]
    BY DEF Pairs
  <2>4. blockFaults = 0 /\ ~Failed(r)
    BY <2>1, <2>2, Now DEF Sound, Failed
  <2>5. ASSUME NEW q \in Requests \ {r}, Cutting(q, p)
        PROVE  Cutting(q, p)'
    BY <2>1, <2>5 DEF Cutting, Active, Is, Cell, Sound
  <2>6. CASE Party(r) # {p[1], p[2]}
    <3>1. blocks[p] = Block3 /\ <<p[2], p[1]>> \in follows
      BY <2>1, <2>2, <2>3, <2>6, Elsewhere
    <3>2. PICK q \in Requests : Cutting(q, p)
      BY <2>2, <2>4, <3>1 DEF CutInv
    <3>3. q # r
      BY <2>3, <2>6, <3>2 DEF Cutting, Cell, Party
    <3>. QED  BY <2>5, <3>2, <3>3
  <2>7. CASE Party(r) = {p[1], p[2]}
    <3>1. NotBlocked(r) /\ RowAsRead(r) /\ BlockAsRead(r)
      BY <2>1, <2>2, <2>7 DEF Serial, AsRead
    <3>2. /\ call[r] \in Calls /\ CallAt(call[r], pc[r]) /\ call[r].user \in Users
          /\ call[r].target \in Users
          /\ Cell(r) = p \/ Cell(r) = <<p[2], p[1]>>
          /\ Cell(r) = <<call[r].user, call[r].target>>
      BY <2>1, <2>3, <2>7, Now DEF Party, Cell
    <3>3. CASE PutBlock(r)
      <4>1. follows' = follows /\ pc'[r] # "done" /\ call[r].op = "block" /\ ~back'[r]
        BY <2>1, <3>2, <3>3, Now DEF PutBlock, CallAt, BackPcs
      <4>2. CASE Cell(r) = p
        <5>1. blocks'[p] = call[r].type
          BY <2>1, <2>3, <3>3, <4>2, Now DEF PutBlock
        <5>2. pc'[r] = "find" /\ Cell(r)' = p
          BY <2>1, <2>2, <3>3, <4>2, <5>1 DEF PutBlock, Cell
        <5>3. Cutting(r, p)'
          BY <2>1, <4>1, <5>2 DEF Cutting, Active, Is
        <5>. QED  BY <5>3
      <4>3. CASE Cell(r) # p
        <5>1. blocks[p] = Block3
          BY <2>1, <2>2, <2>3, <3>3, <4>3, Now DEF PutBlock
        <5>2. PICK q \in Requests : Cutting(q, p)
          BY <2>2, <2>4, <4>1, <5>1 DEF CutInv
        <5>. QED  BY <2>5, <4>3, <5>2 DEF Cutting
      <4>. QED  BY <4>2, <4>3
    <3>4. CASE PutUnblock(r)
      <4>1. blocks[p] = Block3 /\ follows' = follows
        BY <2>1, <2>2, <2>3, <3>4, Now DEF PutUnblock, Serial, HalfSeen, NoBlock, Block3
      <4>2. PICK q \in Requests : Cutting(q, p)
        BY <2>2, <2>4, <4>1 DEF CutInv
      <4>3. q # r
        BY <3>4, <4>2 DEF PutUnblock, Cutting
      <4>. QED  BY <2>5, <4>2, <4>3
    <3>5. CASE Applied(r)
      <4>1. blocks' = blocks /\ pc[r] = "commit"
        BY <3>5 DEF Applied, ApplyTx
      <4>2. <<p[2], p[1]>> \in follows
        <5>1. CASE Is(r, "follow")
          <6>1. blocks[<<call[r].target, call[r].user>>] # Block3
            BY <3>1, <4>1, <5>1 DEF NotBlocked
          <6>2. Edge(r) # <<p[2], p[1]>>
            <7>1. ~back[r]
              BY <2>1, <4>1, Now DEF BackPcs
            <7>. QED  BY <2>2, <2>3, <3>2, <4>1, <6>1, <7>1 DEF Edge
          <6>. QED  BY <2>2, <3>5, <5>1, <6>2 DEF Applied, ApplyTx
        <5>2. CASE ~Is(r, "follow")
          BY <2>2, <3>5, <5>2 DEF Applied, ApplyTx
        <5>. QED  BY <5>1, <5>2
      <4>3. PICK q \in Requests : Cutting(q, p)
        BY <2>2, <2>4, <4>1, <4>2 DEF CutInv
      <4>. QED  BY <2>5, <4>1, <4>3 DEF Cutting
    <3>6. CASE Ended(r) \/ Checked(r) \/ GotBlock(r) \/ Found(r) \/ DidCut(r) \/ Decremented(r)
               \/ Turned(r)
      <4>1. blocks[p] = Block3 /\ <<p[2], p[1]>> \in follows
        BY <2>2, <3>6 DEF Ended, Checked, GotBlock, Found, DidCut, Decremented, Turned, Held
      <4>2. PICK q \in Requests : Cutting(q, p)
        BY <2>2, <2>4, <4>1 DEF CutInv
      <4>3. CASE q # r
        BY <2>5, <4>2, <4>3
      <4>4. CASE q = r
        <5>1. /\ Is(r, "block") /\ Cell(r) = p /\ pc[r] \in {"find", "cut", "dec1", "dec2"}
              /\ pc[r] \in {"dec1", "dec2"} => ~back[r]
          BY <4>2, <4>4 DEF Cutting
        <5>2. back[r] => Edge(r) = <<p[2], p[1]>>
          BY <2>3, <3>2, <5>1 DEF Edge
        <5>3. /\ Found(r) => Cutting(r, p)'
              /\ DidCut(r) => Cutting(r, p)'
          BY <2>1, <2>2, <5>1, <5>2 DEF Found, DidCut, Cutting, Active, Is, Cell
        <5>4. Decremented(r) => Cutting(r, p)'
          BY <2>1, <5>1 DEF Decremented, Cutting, Active, Is, Cell
        <5>5. Turned(r) => Cutting(r, p)'
          <6>1. Turned(r) => ~back[r]
            BY <2>4, <4>1, <5>1, <5>2 DEF Turned
          <6>. QED  BY <2>1, <5>1, <6>1 DEF Turned, Cutting, Active, Is, Cell
        <5>6. ~Ended(r) /\ ~Checked(r) /\ ~GotBlock(r)
          BY <2>4, <5>1 DEF Ended, Checked, GotBlock
        <5>. QED  BY <3>6, <5>3, <5>4, <5>5, <5>6
      <4>. QED  BY <4>3, <4>4
    <3>. QED  BY <2>1, <3>3, <3>4, <3>5, <3>6 DEF Kind
  <2>. QED  BY <2>6, <2>7
<1>4. CASE \E u \in Users : SetPrivate(u)
  BY <1>1, <1>4 DEF SetPrivate, ghosts
<1>. QED  BY <1>1, <1>2, <1>3, <1>4 DEF Next, vars, dbVars, ghosts

\* A user is told of a new follower only when a row was inserted, or two
\* requests on the pair overlapped.
THEOREM NewFollowersTold == Spec => []EventsOnlyForNewFollows
<1>1. Init => Serial /\ EventInv
  BY SerialInit DEF Init, EventInv
<1>2. Serial /\ EventInv /\ [Next]_vars => (Serial /\ EventInv)'
  BY SerialStep, EventStep
<1>3. EventInv => EventsOnlyForNewFollows
  BY DEF EventInv, EventsOnlyForNewFollows
<1>. QED  BY <1>1, <1>2, <1>3, PTL DEF Spec

\* Unblock hides nothing that was not hidden, unless another request on the
\* pair came in between.
THEOREM UnblockReveals == Spec => UnblockNeverHidesMore
<1> DEFINE Act == \A r \in Requests :
                    /\ pc[r] = "unblock" /\ pc'[r] = "done" /\ Party(r) \notin raced
                    => Hides(blocks'[Cell(r)]) \subseteq Hides(blocks[Cell(r)])
<1>1. Init => Serial
  BY SerialInit
<1>2. Serial /\ [Next]_vars => Serial'
  BY SerialStep
<1>3. Serial /\ [Next]_vars => [Act]_vars
  BY UnblockStep
<1>. QED  BY <1>1, <1>2, <1>3, PTL DEF Spec, UnblockNeverHidesMore

\* Who is blocked does not follow, once the Block is done and unless it raced
\* or failed.
THEOREM BlockedAreCut == Spec => []BlockedDoNotFollow
<1>1. Init => Serial /\ CutInv
  BY SerialInit DEF Init, CutInv
<1>2. Serial /\ CutInv /\ [Next]_vars => (Serial /\ CutInv)'
  BY SerialStep, CutStep
<1>3. CutInv => BlockedDoNotFollow
  BY DEF CutInv, BlockedDoNotFollow, Cutting, Quiet, Party, Cell
<1>. QED  BY <1>1, <1>2, <1>3, PTL DEF Spec

-----------------------------------------------------------------------------
(* The counters of a user on whom no two requests met.                     *)

OwedIn(u) == {r \in Requests : pc[r] \in {"dec1", "dec2"} /\ Edge(r)[2] = u}
OwedOut(u) == {r \in Requests : pc[r] = "dec1" /\ Edge(r)[1] = u}

\* A counter is the number of follows, those whose decrement a Block still
\* owes, and at most one more for each failed Block.
Balanced(counter, rows, owed) ==
  \E k \in 0 .. blockFaults : counter = Cardinality(rows) + Cardinality(owed) + k

CountInv ==
  \A u \in Users : Unraced(u) =>
    /\ Balanced(followers[u], FollowersOf(follows, u), OwedIn(u))
    /\ Balanced(following[u], FollowingOf(follows, u), OwedOut(u))

LEMMA FiniteRows ==
  ASSUME NEW f, NEW u
  PROVE  /\ IsFiniteSet(FollowersOf(f, u)) /\ Cardinality(FollowersOf(f, u)) \in Nat
         /\ IsFiniteSet(FollowingOf(f, u)) /\ Cardinality(FollowingOf(f, u)) \in Nat
<1>1. FollowersOf(f, u) \subseteq Users /\ FollowingOf(f, u) \subseteq Users
  BY DEF FollowersOf, FollowingOf
<1>. QED  BY <1>1, UsersFinite, FS_Subset, FS_CardinalityType

LEMMA FiniteOwed ==
  ASSUME NEW u
  PROVE  /\ IsFiniteSet(OwedIn(u)) /\ Cardinality(OwedIn(u)) \in Nat
         /\ IsFiniteSet(OwedOut(u)) /\ Cardinality(OwedOut(u)) \in Nat
<1>1. OwedIn(u) \subseteq Requests /\ OwedOut(u) \subseteq Requests
  BY DEF OwedIn, OwedOut
<1>. QED  BY <1>1, RequestsFinite, FS_Subset, FS_CardinalityType

LEMMA OneMore ==
  ASSUME NEW S, IsFiniteSet(S), NEW x, x \notin S, NEW T, T = S \cup {x}
  PROVE  Cardinality(T) = Cardinality(S) + 1 /\ Cardinality(S) \in Nat
BY FS_AddElement, FS_CardinalityType

LEMMA OneLess ==
  ASSUME NEW S, IsFiniteSet(S), NEW x, x \in S, NEW T, T = S \ {x}
  PROVE  Cardinality(S) = Cardinality(T) + 1 /\ Cardinality(T) \in Nat
<1>1. IsFiniteSet(T) /\ Cardinality(T) = Cardinality(S) - 1 /\ Cardinality(S) \in Nat
  BY FS_RemoveElement, FS_CardinalityType
<1>2. Cardinality(T) \in Nat
  BY <1>1, FS_CardinalityType
<1>. QED  BY <1>1, <1>2

LEMMA RowsOf ==
  ASSUME NEW f, NEW e \in Users \X Users
  PROVE  /\ e[1] \in FollowersOf(f, e[2]) <=> e \in f
         /\ e[2] \in FollowingOf(f, e[1]) <=> e \in f
<1>1. PICK v \in Users, w \in Users : e = <<v, w>>
  OBVIOUS
<1>. QED  BY <1>1 DEF FollowersOf, FollowingOf

\* The rows of a user after the one of an edge is inserted or deleted.
LEMMA RowsMoved ==
  ASSUME NEW f, NEW g, NEW e \in Users \X Users, NEW u,
         g \in {f \cup {e}, f \ {e}}
  PROVE  /\ e[2] # u => FollowersOf(g, u) = FollowersOf(f, u)
         /\ e[1] # u => FollowingOf(g, u) = FollowingOf(f, u)
         /\ g = f \cup {e} /\ e[2] = u => FollowersOf(g, u) = FollowersOf(f, u) \cup {e[1]}
         /\ g = f \ {e} /\ e[2] = u => FollowersOf(g, u) = FollowersOf(f, u) \ {e[1]}
         /\ g = f \cup {e} /\ e[1] = u => FollowingOf(g, u) = FollowingOf(f, u) \cup {e[2]}
         /\ g = f \ {e} /\ e[1] = u => FollowingOf(g, u) = FollowingOf(f, u) \ {e[2]}
         /\ e[2] = u => (e[1] \in FollowersOf(f, u) <=> e \in f)
         /\ e[1] = u => (e[2] \in FollowingOf(f, u) <=> e \in f)
<1>1. PICK v \in Users, w \in Users : e = <<v, w>>
  OBVIOUS
<1>2. \A x \in Users : /\ e # <<x, u>> => (<<x, u>> \in g <=> <<x, u>> \in f)
                       /\ e # <<u, x>> => (<<u, x>> \in g <=> <<u, x>> \in f)
  OBVIOUS
<1>3. e[2] # u => FollowersOf(g, u) = FollowersOf(f, u)
  BY <1>1, <1>2 DEF FollowersOf
<1>4. e[1] # u => FollowingOf(g, u) = FollowingOf(f, u)
  BY <1>1, <1>2 DEF FollowingOf
<1>. QED  BY <1>1, <1>3, <1>4 DEF FollowersOf, FollowingOf

\* How a counter c of n rows with o decrements owed and b failed Blocks moves:
\* it does not; a follow is inserted, or deleted; a Block cuts one, decrements
\* the counter, or fails before it does.
Moves(c, n, o, b, c1, n1, o1, b1) ==
  \/ c1 = c /\ n1 = n /\ o1 = o
  \/ c1 = c + 1 /\ n1 = n + 1 /\ o1 = o
  \/ c1 = (IF c = 0 THEN 0 ELSE c - 1) /\ n = n1 + 1 /\ o1 = o
  \/ c1 = c /\ n = n1 + 1 /\ o1 = o + 1
  \/ c1 = (IF c = 0 THEN 0 ELSE c - 1) /\ n1 = n /\ o = o1 + 1
  \/ c1 = c /\ n1 = n /\ o = o1 + 1 /\ b1 = b + 1

\* What a request owes, before and after its step.
LEMMA OwedMoved ==
  ASSUME Typed, NEW r \in Requests, Sound(r), NEW u
  PROVE  /\ OwedIn(u)' = IF pc'[r] \in {"dec1", "dec2"} /\ Edge(r)'[2] = u
                         THEN OwedIn(u) \cup {r} ELSE OwedIn(u) \ {r}
         /\ OwedOut(u)' = IF pc'[r] = "dec1" /\ Edge(r)'[1] = u
                          THEN OwedOut(u) \cup {r} ELSE OwedOut(u) \ {r}
         /\ r \in OwedIn(u) <=> pc[r] \in {"dec1", "dec2"} /\ Edge(r)[2] = u
         /\ r \in OwedOut(u) <=> pc[r] = "dec1" /\ Edge(r)[1] = u
         /\ Cardinality(OwedIn(u)') \in Nat /\ Cardinality(OwedOut(u)') \in Nat
<1>1. \A q \in Requests \ {r} : pc'[q] = pc[q] /\ Edge(q)' = Edge(q)
  BY DEF Sound, Edge
<1>2. OwedIn(u)' \subseteq Requests /\ OwedOut(u)' \subseteq Requests
  BY DEF OwedIn, OwedOut
<1>3. Cardinality(OwedIn(u)') \in Nat /\ Cardinality(OwedOut(u)') \in Nat
  BY <1>2, RequestsFinite, FS_Subset, FS_CardinalityType
<1>. QED  BY <1>1, <1>3 DEF OwedIn, OwedOut

LEMMA InMoves ==
  ASSUME Serial, NEW r \in Requests, Sound(r), Kind(r), NEW u \in Users, Unraced(u)
  PROVE  Moves(followers[u], Cardinality(FollowersOf(follows, u)), Cardinality(OwedIn(u)), blockFaults,
               followers'[u], Cardinality(FollowersOf(follows', u)), Cardinality(OwedIn(u)'),
               blockFaults')
<1>1. /\ Typed /\ Active(r) /\ call' = call /\ call[r].user \in Users /\ call[r].target \in Users
      /\ CallAt(call[r], pc[r]) /\ (back[r] => pc[r] \in BackPcs)
      /\ followers \in [Users -> Nat] /\ follows \subseteq Pairs
  BY Now DEF Serial, Sound, Typed, TypeOK
<1>2. Edge(r) \in Users \X Users /\ Party(r) = {Edge(r)[1], Edge(r)[2]}
  BY <1>1 DEF Edge, Party
<1>3. u \in Party(r) => RowAsRead(r)
  BY <1>1 DEF Serial, AsRead, Unraced
<1>4. IsFiniteSet(FollowersOf(follows, u)) /\ IsFiniteSet(OwedIn(u))
  BY FiniteRows, FiniteOwed
<1>5. \A c \in Users : Decr(followers, c)[u] = IF c = u THEN IF followers[u] = 0 THEN 0 ELSE followers[u] - 1
                                               ELSE followers[u]
  BY <1>1 DEF Decr
<1>6. CASE Applied(r)
  <2>1. pc[r] = "commit" /\ pc'[r] = "done" /\ ApplyTx(r) /\ call[r].op \in {"follow", "unfollow"}
        /\ Edge(r) = <<call[r].user, call[r].target>>
    BY <1>1, <1>6 DEF Applied, CallAt, BackPcs, Edge
  <2>2. OwedIn(u)' = OwedIn(u)
    BY <1>1, <2>1, OwedMoved
  <2>3. CASE call[r].target # u
    <3>1. followers'[u] = followers[u]
      BY <1>1, <2>1, <2>3 DEF ApplyTx, Incr, Decr
    <3>2. FollowersOf(follows', u) = FollowersOf(follows, u)
      <4>1. follows' = follows \/ follows' \in {follows \cup {Edge(r)}, follows \ {Edge(r)}}
        BY <2>1 DEF ApplyTx
      <4>2. Edge(r)[2] # u
        BY <2>1, <2>3
      <4>. QED  BY <1>2, <4>1, <4>2, RowsMoved
    <3>. QED  BY <2>2, <3>1, <3>2 DEF Moves
  <2>4. CASE call[r].target = u /\ Is(r, "follow")
    <3>1. did[r] /\ Edge(r) \notin follows
      BY <1>2, <1>3, <2>1, <2>4 DEF RowAsRead, Is
    <3>2. followers'[u] = followers[u] + 1 /\ follows' = follows \cup {Edge(r)}
      BY <1>1, <2>1, <2>4, <3>1 DEF ApplyTx, Incr
    <3>3. /\ FollowersOf(follows', u) = FollowersOf(follows, u) \cup {call[r].user}
          /\ call[r].user \notin FollowersOf(follows, u)
      <4>1. Edge(r)[1] = call[r].user /\ Edge(r)[2] = u
        BY <2>1, <2>4
      <4>. QED  BY <1>2, <3>1, <3>2, <4>1, RowsMoved
    <3>4. Cardinality(FollowersOf(follows', u)) = Cardinality(FollowersOf(follows, u)) + 1
      BY <1>4, <3>3, OneMore
    <3>. QED  BY <2>2, <3>2, <3>4 DEF Moves
  <2>5. CASE call[r].target = u /\ ~Is(r, "follow")
    <3>1. did[r] /\ Edge(r) \in follows
      BY <1>2, <1>3, <2>1, <2>5 DEF RowAsRead, Is
    <3>2. followers'[u] = (IF followers[u] = 0 THEN 0 ELSE followers[u] - 1)
          /\ follows' = follows \ {Edge(r)}
      BY <1>1, <1>5, <2>1, <2>5, <3>1 DEF ApplyTx
    <3>3. /\ FollowersOf(follows', u) = FollowersOf(follows, u) \ {call[r].user}
          /\ call[r].user \in FollowersOf(follows, u)
      <4>1. Edge(r)[1] = call[r].user /\ Edge(r)[2] = u
        BY <2>1, <2>5
      <4>. QED  BY <1>2, <3>1, <3>2, <4>1, RowsMoved
    <3>4. Cardinality(FollowersOf(follows, u)) = Cardinality(FollowersOf(follows', u)) + 1
      BY <1>4, <3>3, OneLess
    <3>. QED  BY <2>2, <3>2, <3>4 DEF Moves
  <2>. QED  BY <2>3, <2>4, <2>5
<1>7. CASE DidCut(r)
  <2>1. /\ pc[r] = "cut" /\ pc'[r] = "dec1" /\ followers' = followers /\ Edge(r)' = Edge(r)
        /\ follows' = follows \ {Edge(r)}
    BY <1>1, <1>7 DEF DidCut, Edge
  <2>2. CASE Edge(r)[2] # u
    <3>1. OwedIn(u)' = OwedIn(u)
      <4>1. Edge(r)'[2] # u
        BY <2>1, <2>2
      <4>2. OwedIn(u)' = OwedIn(u) \ {r} /\ r \notin OwedIn(u)
        BY <1>1, <2>1, <4>1, OwedMoved
      <4>. QED  BY <4>2
    <3>2. FollowersOf(follows', u) = FollowersOf(follows, u)
      BY <1>2, <2>1, <2>2, RowsMoved
    <3>. QED  BY <2>1, <3>1, <3>2 DEF Moves
  <2>3. CASE Edge(r)[2] = u
    <3>1. Edge(r) \in follows
      BY <1>2, <1>3, <2>1, <2>3 DEF RowAsRead
    <3>2. /\ FollowersOf(follows', u) = FollowersOf(follows, u) \ {Edge(r)[1]}
          /\ Edge(r)[1] \in FollowersOf(follows, u)
      <4>1. follows' \in {follows \cup {Edge(r)}, follows \ {Edge(r)}}
        BY <2>1
      <4>2. FollowersOf(follows', u) = FollowersOf(follows, u) \ {Edge(r)[1]}
        BY <1>2, <2>1, <2>3, <4>1, RowsMoved
      <4>3. Edge(r)[1] \in FollowersOf(follows, u)
        BY <1>2, <2>3, <3>1, <4>1, RowsOf
      <4>. QED  BY <4>2, <4>3
    <3>3. Cardinality(FollowersOf(follows, u)) = Cardinality(FollowersOf(follows', u)) + 1
      BY <1>4, <3>2, OneLess
    <3>4. OwedIn(u)' = OwedIn(u) \cup {r} /\ r \notin OwedIn(u)
      BY <1>1, <2>1, <2>3, OwedMoved
    <3>5. Cardinality(OwedIn(u)') = Cardinality(OwedIn(u)) + 1
      BY <1>4, <3>4, OneMore
    <3>. QED  BY <2>1, <3>3, <3>5 DEF Moves
  <2>. QED  BY <2>2, <2>3
<1>8. CASE Turned(r) /\ pc[r] = "dec2" /\ Edge(r)[2] = u
  <2>1. /\ follows' = follows /\ pc'[r] \notin {"dec1", "dec2"}
        /\ followers' = Decr(followers, u) \/ (followers' = followers /\ Failed(r))
    BY <1>8 DEF Turned
  <2>2. OwedIn(u)' = OwedIn(u) \ {r} /\ r \in OwedIn(u)
    BY <1>1, <1>8, <2>1, OwedMoved
  <2>3. Cardinality(OwedIn(u)) = Cardinality(OwedIn(u)') + 1
    BY <1>4, <2>2, OneLess
  <2>4. followers'[u] = (IF followers[u] = 0 THEN 0 ELSE followers[u] - 1)
        \/ (followers'[u] = followers[u] /\ blockFaults' = blockFaults + 1)
    BY <1>5, <2>1 DEF Failed
  <2>. QED  BY <2>1, <2>3, <2>4 DEF Moves
<1>9. CASE Turned(r) /\ ~(pc[r] = "dec2" /\ Edge(r)[2] = u)
  <2>1. follows' = follows /\ pc'[r] \notin {"dec1", "dec2"} /\ pc[r] # "dec1"
    BY <1>9 DEF Turned, Held
  <2>2. OwedIn(u)' = OwedIn(u)
    BY <1>1, <1>9, <2>1, OwedMoved
  <2>3. followers'[u] = followers[u]
    BY <1>2, <1>5, <1>9 DEF Turned, Held
  <2>. QED  BY <2>1, <2>2, <2>3 DEF Moves
<1>10. CASE Ended(r)
  <2>1. follows' = follows /\ followers' = followers /\ pc'[r] = "done"
        /\ (pc[r] \in {"dec1", "dec2"} => blockFaults' = blockFaults + 1)
    BY <1>10 DEF Ended, Held, Failed
  <2>2. OwedIn(u)' = OwedIn(u) \ {r}
    BY <1>1, <2>1, OwedMoved
  <2>3. CASE r \notin OwedIn(u)
    BY <2>1, <2>2, <2>3 DEF Moves
  <2>4. CASE r \in OwedIn(u)
    <3>1. Cardinality(OwedIn(u)) = Cardinality(OwedIn(u)') + 1
      BY <1>4, <2>2, <2>4, OneLess
    <3>2. blockFaults' = blockFaults + 1
      BY <1>1, <2>1, <2>4, OwedMoved
    <3>. QED  BY <2>1, <3>1, <3>2 DEF Moves
  <2>. QED  BY <2>3, <2>4
<1>11. CASE Checked(r) \/ PutBlock(r) \/ Found(r) \/ Decremented(r) \/ GotBlock(r) \/ PutUnblock(r)
  <2>1. follows' = follows /\ followers' = followers
    BY <1>11 DEF Checked, PutBlock, Found, Decremented, GotBlock, PutUnblock, Held
  <2>2. \/ pc[r] \notin {"dec1", "dec2"} /\ pc'[r] \notin {"dec1", "dec2"}
        \/ pc[r] = "dec1" /\ pc'[r] = "dec2" /\ back' = back
    BY <1>11 DEF Checked, PutBlock, Found, Decremented, GotBlock, PutUnblock
  <2>3. back' = back => Edge(r)' = Edge(r)
    BY <1>1 DEF Edge
  <2>4. OwedIn(u)' = OwedIn(u)
    BY <1>1, <2>2, <2>3, OwedMoved
  <2>. QED  BY <2>1, <2>4 DEF Moves
<1>. QED  BY <1>6, <1>7, <1>8, <1>9, <1>10, <1>11 DEF Kind

LEMMA OutMoves ==
  ASSUME Serial, NEW r \in Requests, Sound(r), Kind(r), NEW u \in Users, Unraced(u)
  PROVE  Moves(following[u], Cardinality(FollowingOf(follows, u)), Cardinality(OwedOut(u)), blockFaults,
               following'[u], Cardinality(FollowingOf(follows', u)), Cardinality(OwedOut(u)'),
               blockFaults')
<1>1. /\ Typed /\ Active(r) /\ call' = call /\ call[r].user \in Users /\ call[r].target \in Users
      /\ CallAt(call[r], pc[r]) /\ (back[r] => pc[r] \in BackPcs)
      /\ following \in [Users -> Nat] /\ follows \subseteq Pairs
  BY Now DEF Serial, Sound, Typed, TypeOK
<1>2. Edge(r) \in Users \X Users /\ Party(r) = {Edge(r)[2], Edge(r)[1]}
  BY <1>1 DEF Edge, Party
<1>3. u \in Party(r) => RowAsRead(r)
  BY <1>1 DEF Serial, AsRead, Unraced
<1>4. IsFiniteSet(FollowingOf(follows, u)) /\ IsFiniteSet(OwedOut(u))
  BY FiniteRows, FiniteOwed
<1>5. \A c \in Users : Decr(following, c)[u] = IF c = u THEN IF following[u] = 0 THEN 0 ELSE following[u] - 1
                                               ELSE following[u]
  BY <1>1 DEF Decr
<1>6. CASE Applied(r)
  <2>1. pc[r] = "commit" /\ pc'[r] = "done" /\ ApplyTx(r) /\ call[r].op \in {"follow", "unfollow"}
        /\ Edge(r) = <<call[r].user, call[r].target>>
    BY <1>1, <1>6 DEF Applied, CallAt, BackPcs, Edge
  <2>2. OwedOut(u)' = OwedOut(u)
    BY <1>1, <2>1, OwedMoved
  <2>3. CASE call[r].user # u
    <3>1. following'[u] = following[u]
      BY <1>1, <2>1, <2>3 DEF ApplyTx, Incr, Decr
    <3>2. FollowingOf(follows', u) = FollowingOf(follows, u)
      <4>1. follows' = follows \/ follows' \in {follows \cup {Edge(r)}, follows \ {Edge(r)}}
        BY <2>1 DEF ApplyTx
      <4>2. Edge(r)[1] # u
        BY <2>1, <2>3
      <4>. QED  BY <1>2, <4>1, <4>2, RowsMoved
    <3>. QED  BY <2>2, <3>1, <3>2 DEF Moves
  <2>4. CASE call[r].user = u /\ Is(r, "follow")
    <3>1. did[r] /\ Edge(r) \notin follows
      BY <1>2, <1>3, <2>1, <2>4 DEF RowAsRead, Is
    <3>2. following'[u] = following[u] + 1 /\ follows' = follows \cup {Edge(r)}
      BY <1>1, <2>1, <2>4, <3>1 DEF ApplyTx, Incr
    <3>3. /\ FollowingOf(follows', u) = FollowingOf(follows, u) \cup {call[r].target}
          /\ call[r].target \notin FollowingOf(follows, u)
      <4>1. Edge(r)[2] = call[r].target /\ Edge(r)[1] = u
        BY <2>1, <2>4
      <4>2. FollowingOf(follows', u) = FollowingOf(follows, u) \cup {Edge(r)[2]}
        BY <1>2, <3>2, <4>1, RowsMoved
      <4>3. Edge(r)[2] \notin FollowingOf(follows, u)
        BY <1>2, <3>1, <3>2, <4>1, RowsOf
      <4>. QED  BY <4>1, <4>2, <4>3
    <3>4. Cardinality(FollowingOf(follows', u)) = Cardinality(FollowingOf(follows, u)) + 1
      BY <1>4, <3>3, OneMore
    <3>. QED  BY <2>2, <3>2, <3>4 DEF Moves
  <2>5. CASE call[r].user = u /\ ~Is(r, "follow")
    <3>1. did[r] /\ Edge(r) \in follows
      BY <1>2, <1>3, <2>1, <2>5 DEF RowAsRead, Is
    <3>2. following'[u] = (IF following[u] = 0 THEN 0 ELSE following[u] - 1)
          /\ follows' = follows \ {Edge(r)}
      BY <1>1, <1>5, <2>1, <2>5, <3>1 DEF ApplyTx
    <3>3. /\ FollowingOf(follows', u) = FollowingOf(follows, u) \ {call[r].target}
          /\ call[r].target \in FollowingOf(follows, u)
      <4>1. Edge(r)[2] = call[r].target /\ Edge(r)[1] = u
        BY <2>1, <2>5
      <4>2. FollowingOf(follows', u) = FollowingOf(follows, u) \ {Edge(r)[2]}
        BY <1>2, <3>2, <4>1, RowsMoved
      <4>3. Edge(r)[2] \in FollowingOf(follows, u)
        <5>1. follows' \in {follows \cup {Edge(r)}, follows \ {Edge(r)}}
          BY <3>2
        <5>. QED  BY <1>2, <3>1, <4>1, <5>1, RowsOf
      <4>. QED  BY <4>1, <4>2, <4>3
    <3>4. Cardinality(FollowingOf(follows, u)) = Cardinality(FollowingOf(follows', u)) + 1
      BY <1>4, <3>3, OneLess
    <3>. QED  BY <2>2, <3>2, <3>4 DEF Moves
  <2>. QED  BY <2>3, <2>4, <2>5
<1>7. CASE DidCut(r)
  <2>1. /\ pc[r] = "cut" /\ pc'[r] = "dec1" /\ following' = following /\ Edge(r)' = Edge(r)
        /\ follows' = follows \ {Edge(r)}
    BY <1>1, <1>7 DEF DidCut, Edge
  <2>2. CASE Edge(r)[1] # u
    <3>1. OwedOut(u)' = OwedOut(u)
      <4>1. Edge(r)'[1] # u
        BY <2>1, <2>2
      <4>2. OwedOut(u)' = OwedOut(u) \ {r} /\ r \notin OwedOut(u)
        BY <1>1, <2>1, <4>1, OwedMoved
      <4>. QED  BY <4>2
    <3>2. FollowingOf(follows', u) = FollowingOf(follows, u)
      BY <1>2, <2>1, <2>2, RowsMoved
    <3>. QED  BY <2>1, <3>1, <3>2 DEF Moves
  <2>3. CASE Edge(r)[1] = u
    <3>1. Edge(r) \in follows
      BY <1>2, <1>3, <2>1, <2>3 DEF RowAsRead
    <3>2. /\ FollowingOf(follows', u) = FollowingOf(follows, u) \ {Edge(r)[2]}
          /\ Edge(r)[2] \in FollowingOf(follows, u)
      <4>1. follows' \in {follows \cup {Edge(r)}, follows \ {Edge(r)}}
        BY <2>1
      <4>2. FollowingOf(follows', u) = FollowingOf(follows, u) \ {Edge(r)[2]}
        BY <1>2, <2>1, <2>3, <4>1, RowsMoved
      <4>3. Edge(r)[2] \in FollowingOf(follows, u)
        BY <1>2, <2>3, <3>1, <4>1, RowsOf
      <4>. QED  BY <4>2, <4>3
    <3>3. Cardinality(FollowingOf(follows, u)) = Cardinality(FollowingOf(follows', u)) + 1
      BY <1>4, <3>2, OneLess
    <3>4. OwedOut(u)' = OwedOut(u) \cup {r} /\ r \notin OwedOut(u)
      BY <1>1, <2>1, <2>3, OwedMoved
    <3>5. Cardinality(OwedOut(u)') = Cardinality(OwedOut(u)) + 1
      BY <1>4, <3>4, OneMore
    <3>. QED  BY <2>1, <3>3, <3>5 DEF Moves
  <2>. QED  BY <2>2, <2>3
<1>8. CASE Decremented(r) /\ Edge(r)[1] = u
  <2>1. /\ follows' = follows /\ pc[r] = "dec1" /\ pc'[r] = "dec2"
        /\ following' = Decr(following, u) \/ (following' = following /\ Failed(r))
    BY <1>8 DEF Decremented
  <2>2. OwedOut(u)' = OwedOut(u) \ {r} /\ r \in OwedOut(u)
    BY <1>1, <1>8, <2>1, OwedMoved
  <2>3. Cardinality(OwedOut(u)) = Cardinality(OwedOut(u)') + 1
    BY <1>4, <2>2, OneLess
  <2>4. following'[u] = (IF following[u] = 0 THEN 0 ELSE following[u] - 1)
        \/ (following'[u] = following[u] /\ blockFaults' = blockFaults + 1)
    BY <1>5, <2>1 DEF Failed
  <2>. QED  BY <2>1, <2>3, <2>4 DEF Moves
<1>9. CASE Decremented(r) /\ Edge(r)[1] # u
  <2>1. follows' = follows /\ pc'[r] = "dec2"
    BY <1>9 DEF Decremented
  <2>2. OwedOut(u)' = OwedOut(u) \ {r} /\ r \notin OwedOut(u)
    BY <1>1, <1>9, <2>1, OwedMoved
  <2>3. following'[u] = following[u]
    BY <1>2, <1>5, <1>9 DEF Decremented
  <2>4. OwedOut(u)' = OwedOut(u)
    BY <2>2
  <2>. QED  BY <2>1, <2>3, <2>4 DEF Moves
<1>10. CASE Ended(r)
  <2>1. follows' = follows /\ following' = following /\ pc'[r] = "done"
        /\ (pc[r] = "dec1" => blockFaults' = blockFaults + 1)
    BY <1>10 DEF Ended, Held, Failed
  <2>2. OwedOut(u)' = OwedOut(u) \ {r}
    BY <1>1, <2>1, OwedMoved
  <2>3. CASE r \notin OwedOut(u)
    BY <2>1, <2>2, <2>3 DEF Moves
  <2>4. CASE r \in OwedOut(u)
    <3>1. Cardinality(OwedOut(u)) = Cardinality(OwedOut(u)') + 1
      BY <1>4, <2>2, <2>4, OneLess
    <3>2. blockFaults' = blockFaults + 1
      BY <1>1, <2>1, <2>4, OwedMoved
    <3>. QED  BY <2>1, <3>1, <3>2 DEF Moves
  <2>. QED  BY <2>3, <2>4
<1>11. CASE Checked(r) \/ PutBlock(r) \/ Found(r) \/ Turned(r) \/ GotBlock(r) \/ PutUnblock(r)
  <2>1. follows' = follows /\ following' = following
    BY <1>11 DEF Checked, PutBlock, Found, Turned, GotBlock, PutUnblock, Held
  <2>2. pc[r] # "dec1" /\ pc'[r] # "dec1"
    BY <1>11 DEF Checked, PutBlock, Found, Turned, GotBlock, PutUnblock
  <2>3. OwedOut(u)' = OwedOut(u)
    BY <1>1, <2>2, OwedMoved
  <2>. QED  BY <2>1, <2>3 DEF Moves
<1>. QED  BY <1>6, <1>7, <1>8, <1>9, <1>10, <1>11 DEF Kind

LEMMA CountStep ==
  ASSUME Serial, CountInv, [Next]_vars
  PROVE  CountInv'
<1>1. CASE UNCHANGED <<follows, followers, following, pc, call, back, raced, blockFaults>>
  BY <1>1 DEF CountInv, Balanced, Unraced, OwedIn, OwedOut, Edge
<1>2. ASSUME NEW r \in Requests, NEW a \in Calls, Begin(r, a)
      PROVE  CountInv'
  <2>1. /\ UNCHANGED <<follows, followers, following, back, blockFaults>> /\ raced \subseteq raced'
        /\ pc[r] = "idle" /\ pc'[r] \in {"target", "exists", "get", "done"}
        /\ \A q \in Requests \ {r} : pc'[q] = pc[q] /\ call'[q] = call[q]
    BY <1>2, BeginStep DEF Serial, dbVars
  <2>2. SUFFICES ASSUME NEW u \in Users, Unraced(u)'
                 PROVE  (/\ Balanced(followers[u], FollowersOf(follows, u), OwedIn(u))
                         /\ Balanced(following[u], FollowingOf(follows, u), OwedOut(u)))'
    BY DEF CountInv
  <2>3. Unraced(u)
    BY <2>1, <2>2 DEF Unraced
  <2>4. OwedIn(u)' = OwedIn(u) /\ OwedOut(u)' = OwedOut(u)
    <3>1. \A q \in Requests \ {r} : Edge(q)' = Edge(q)
      BY <2>1 DEF Edge
    <3>. QED  BY <2>1, <3>1 DEF OwedIn, OwedOut
  <2>. QED  BY <2>1, <2>3, <2>4 DEF CountInv, Balanced
<1>3. ASSUME NEW r \in Requests, HandlerStep(r) \/ HandlerFault(r)
      PROVE  CountInv'
  <2>1. Sound(r) /\ Kind(r) /\ Typed /\ raced' = raced
    BY <1>3, RequestStep DEF Serial, Sound
  <2>2. SUFFICES ASSUME NEW u \in Users, Unraced(u)
                 PROVE  (/\ Balanced(followers[u], FollowersOf(follows, u), OwedIn(u))
                         /\ Balanced(following[u], FollowingOf(follows, u), OwedOut(u)))'
    BY <2>1 DEF CountInv, Unraced
  <2>3. /\ followers[u] \in Nat /\ following[u] \in Nat /\ blockFaults \in Nat
        /\ blockFaults' \in {blockFaults, blockFaults + 1}
        /\ Cardinality(OwedIn(u)) \in Nat /\ Cardinality(OwedOut(u)) \in Nat
        /\ Cardinality(OwedIn(u)') \in Nat /\ Cardinality(OwedOut(u)') \in Nat
    BY <2>1, Now, FiniteOwed, OwedMoved DEF Sound
  <2>4. /\ Cardinality(FollowersOf(follows, u)) \in Nat /\ Cardinality(FollowingOf(follows, u)) \in Nat
        /\ Cardinality(FollowersOf(follows', u)) \in Nat /\ Cardinality(FollowingOf(follows', u)) \in Nat
    BY FiniteRows
  <2>5. Balanced(followers[u], FollowersOf(follows, u), OwedIn(u))'
    <3>1. PICK k \in 0 .. blockFaults :
            followers[u] = Cardinality(FollowersOf(follows, u)) + Cardinality(OwedIn(u)) + k
      BY <2>2 DEF CountInv, Balanced
    <3>2. \E j \in 0 .. blockFaults' :
            followers'[u] = Cardinality(FollowersOf(follows', u)) + Cardinality(OwedIn(u)') + j
      <4>1. Moves(followers[u], Cardinality(FollowersOf(follows, u)), Cardinality(OwedIn(u)), blockFaults,
                  followers'[u], Cardinality(FollowersOf(follows', u)), Cardinality(OwedIn(u)'), blockFaults')
        BY <2>1, <2>2, InMoves
      <4>2. PICK j \in {k, k + 1} :
              /\ j \in 0 .. blockFaults'
              /\ followers'[u] = Cardinality(FollowersOf(follows', u)) + Cardinality(OwedIn(u)') + j
        BY <2>3, <2>4, <3>1, <4>1 DEF Moves
      <4>. QED  BY <4>2
    <3>. QED  BY <3>2 DEF Balanced
  <2>6. Balanced(following[u], FollowingOf(follows, u), OwedOut(u))'
    <3>1. PICK k \in 0 .. blockFaults :
            following[u] = Cardinality(FollowingOf(follows, u)) + Cardinality(OwedOut(u)) + k
      BY <2>2 DEF CountInv, Balanced
    <3>2. \E j \in 0 .. blockFaults' :
            following'[u] = Cardinality(FollowingOf(follows', u)) + Cardinality(OwedOut(u)') + j
      <4>1. Moves(following[u], Cardinality(FollowingOf(follows, u)), Cardinality(OwedOut(u)), blockFaults,
                  following'[u], Cardinality(FollowingOf(follows', u)), Cardinality(OwedOut(u)'), blockFaults')
        BY <2>1, <2>2, OutMoves
      <4>2. PICK j \in {k, k + 1} :
              /\ j \in 0 .. blockFaults'
              /\ following'[u] = Cardinality(FollowingOf(follows', u)) + Cardinality(OwedOut(u)') + j
        BY <2>3, <2>4, <3>1, <4>1 DEF Moves
      <4>. QED  BY <4>2
    <3>. QED  BY <3>2 DEF Balanced
  <2>. QED  BY <2>5, <2>6
<1>4. CASE \E u \in Users : SetPrivate(u)
  BY <1>1, <1>4 DEF SetPrivate, reqVars, ghosts
<1>. QED  BY <1>1, <1>2, <1>3, <1>4 DEF Next, vars, dbVars, reqVars, ghosts

LEMMA CountInit ==
  ASSUME Init
  PROVE  CountInv
<1>1. SUFFICES ASSUME NEW u \in Users
               PROVE  /\ Balanced(followers[u], FollowersOf(follows, u), OwedIn(u))
                      /\ Balanced(following[u], FollowingOf(follows, u), OwedOut(u))
  BY DEF CountInv
<1>2. OwedIn(u) = {} /\ OwedOut(u) = {}
  BY DEF Init, OwedIn, OwedOut
<1>3. /\ followers[u] = Cardinality(FollowersOf(follows, u)) /\ followers[u] \in Nat
      /\ following[u] = Cardinality(FollowingOf(follows, u)) /\ following[u] \in Nat
  BY FiniteRows DEF Init
<1>4. Cardinality(OwedIn(u)) = 0 /\ Cardinality(OwedOut(u)) = 0 /\ blockFaults = 0
  BY <1>2, FS_EmptySet DEF Init
<1>. QED  BY <1>3, <1>4 DEF Balanced

\* The counters of a user on whom no two requests met are exact, but for the
\* decrements a Block in progress owes and one for each failed Block.
THEOREM CountersExact == Spec => []CountersExactWhenSerial
<1>1. Init => Serial /\ CountInv
  BY SerialInit, CountInit
<1>2. Serial /\ CountInv /\ [Next]_vars => (Serial /\ CountInv)'
  BY SerialStep, CountStep
<1>3. Serial /\ CountInv => CountersExactWhenSerial
  <2>1. SUFFICES ASSUME Serial, CountInv, NEW u \in Users, Unraced(u)
                 PROVE  /\ followers[u] - Cardinality(FollowersOf(follows, u)) - FollowersOwed(u) \in 0 .. blockFaults
                        /\ following[u] - Cardinality(FollowingOf(follows, u)) - FollowingOwed(u) \in 0 .. blockFaults
    BY DEF CountersExactWhenSerial
  <2>2. FollowersOwed(u) = Cardinality(OwedIn(u)) /\ FollowingOwed(u) = Cardinality(OwedOut(u))
    BY DEF FollowersOwed, FollowingOwed, OwedIn, OwedOut
  <2>3. /\ Cardinality(FollowersOf(follows, u)) \in Nat /\ Cardinality(FollowingOf(follows, u)) \in Nat
        /\ Cardinality(OwedIn(u)) \in Nat /\ Cardinality(OwedOut(u)) \in Nat /\ blockFaults \in Nat
    BY <2>1, FiniteRows, FiniteOwed, Now DEF Serial
  <2>4. /\ Balanced(followers[u], FollowersOf(follows, u), OwedIn(u))
        /\ Balanced(following[u], FollowingOf(follows, u), OwedOut(u))
    BY <2>1 DEF CountInv
  <2>. QED  BY <2>2, <2>3, <2>4 DEF Balanced
<1>. QED  BY <1>1, <1>2, <1>3, PTL DEF Spec

-----------------------------------------------------------------------------
(* Waiting. Transactions that wait for each other are all at their second  *)
(* user; a smallest set of them that nobody outside can release is a ring, *)
(* and a ring is broken.                                                   *)

\* Each of S waits for one of S.
Closed(S) == S # {} /\ \A r \in S : UserLock(call[r].target) \cap S # {}

LEMMA RingFound ==
  ASSUME NEW W \in SUBSET Requests, Closed(W), \A r \in W : pc[r] = "count2"
  PROVE  \E r \in W : InRing(r)
<1>. DEFINE T == {S \in SUBSET W : Closed(S)}
<1>1. PICK S \in T : \A U \in T : ~(<<U, S>> \in StrictSubsetOrdering(W))
  <2>1. IsFiniteSet(W)
    BY RequestsFinite, FS_Subset
  <2>2. IsWellFoundedOn(StrictSubsetOrdering(W), SUBSET W)
    BY <2>1, FS_StrictSubsetOrderingWellFounded, FS_FiniteSubsetsOfFinite
  <2>3. W \in T /\ T \subseteq SUBSET W
    OBVIOUS
  <2>. HIDE DEF T
  <2>. QED  BY <2>2, <2>3, WFMin
<1>2. ASSUME NEW r \in S, \A q \in S : r \notin UserLock(call[q].target)
      PROVE  FALSE
  <2>1. S \ {r} # {}
    BY <1>2 DEF Closed
  <2>2. \A q \in S \ {r} : UserLock(call[q].target) \cap (S \ {r}) # {}
    BY <1>2 DEF Closed
  <2>3. S \ {r} \in T
    BY <2>1, <2>2 DEF Closed
  <2>4. <<S \ {r}, S>> \in StrictSubsetOrdering(W)
    BY <2>3 DEF StrictSubsetOrdering
  <2>. QED  BY <1>1, <2>3, <2>4
<1>3. Ring(S)
  <2>1. \A r \in S : pc[r] = "count2" /\ UserLock(call[r].target) \cap S # {}
    BY DEF Closed
  <2>. QED  BY <1>2, <2>1 DEF Ring
<1>4. PICK r \in S : TRUE
  BY DEF Closed
<1>. QED  BY <1>3, <1>4 DEF InRing

\* Where a transaction of Follow or Unfollow is.
LEMMA TransferAt ==
  ASSUME Typed, NEW r \in Transfers
  PROVE  r \in Requests /\ Active(r) /\ pc[r] \in {"insert", "delete", "count1", "count2", "commit"}
<1>1. r \in Requests /\ Active(r) /\ call[r].op # "block"
  BY DEF Transfers, BlocksInTx, InTx, Active, Is
<1>2. CallAt(call[r], pc[r])
  BY <1>1, Now
<1>. QED  BY <1>1, <1>2 DEF Transfers, InTx, CallAt

\* Only they hold locks.
LEMMA Holders ==
  ASSUME Typed
  PROVE  /\ \A p : \A r \in RowLock(p) : r \in Transfers /\ pc[r] \in {"count1", "count2", "commit"}
         /\ \A u : \A r \in UserLock(u) : r \in Transfers /\ pc[r] \in {"count2", "commit"}
<1>1. \A r \in Requests : pc[r] \in {"count1", "count2", "commit"} => r \in Transfers
  BY Now DEF Active, CallAt, Transfers, InTx, BlocksInTx, Is
<1>. QED  BY <1>1 DEF RowLock, UserLock

LEMMA SomeTransferGoesOn ==
  ASSUME Typed
  PROVE  TransfersGoOn
<1>. SUFFICES ASSUME Transfers # {}
              PROVE  \E r \in Transfers : CanGoOn(r)
  BY DEF TransfersGoOn
<1>1. CASE \E r \in Transfers : pc[r] = "commit"
  BY <1>1, TransferAt DEF CanGoOn, Ahead, NeedsConn
<1>2. ASSUME \A r \in Transfers : pc[r] # "commit", NEW w \in Transfers, pc[w] = "count2"
      PROVE  \E r \in Transfers : CanGoOn(r)
  <2>. DEFINE W == {r \in Transfers : pc[r] = "count2"}
  <2>1. \A u : UserLock(u) \subseteq W
    BY <1>2, Holders
  <2>2. CASE \E r \in W : UserLock(call[r].target) = {}
    BY <2>2, TransferAt DEF CanGoOn, Ahead, NeedsConn
  <2>3. CASE \A r \in W : UserLock(call[r].target) # {}
    <3>1. Closed(W) /\ W \in SUBSET Requests
      BY <1>2, <2>1, <2>3, TransferAt DEF Closed
    <3>2. PICK r \in W : InRing(r)
      BY <3>1, RingFound
    <3>. QED  BY <3>2, TransferAt DEF CanGoOn
  <2>. QED  BY <2>2, <2>3
<1>3. ASSUME \A r \in Transfers : pc[r] \notin {"count2", "commit"}, NEW w \in Transfers, pc[w] = "count1"
      PROVE  \E r \in Transfers : CanGoOn(r)
  <2>1. UserLock(call[w].user) = {}
    BY <1>3, Holders
  <2>. QED  BY <1>3, <2>1, TransferAt DEF CanGoOn, Ahead, NeedsConn
<1>4. ASSUME \A r \in Transfers : pc[r] \notin {"count1", "count2", "commit"}
      PROVE  \E r \in Transfers : CanGoOn(r)
  <2>1. PICK r \in Transfers : pc[r] \in {"insert", "delete"}
    BY <1>4, TransferAt
  <2>2. RowLock(Edge(r)) = {}
    BY <1>4, Holders
  <2>. QED  BY <2>1, <2>2, TransferAt DEF CanGoOn, Ahead, NeedsConn
<1>. QED  BY <1>1, <1>2, <1>3, <1>4

\* The transactions of Follow and Unfollow never all wait, and a service in which
\* nothing can go on is one whose Blocks hold the pool.
THEOREM OnlyThePoolStops == Spec => []StuckOnlyOnPool
<1>1. Init => Typed
  BY TypeInit
<1>2. Typed /\ [Next]_vars => Typed'
  BY TypeStep
<1>3. ASSUME Typed, NEW r \in Requests, Active(r), Cardinality(BlocksInTx) < PoolSize
      PROVE  \E q \in Requests : CanGoOn(q)
  <2>1. CASE Transfers # {}
    BY <1>3, <2>1, SomeTransferGoesOn, TransferAt DEF TransfersGoOn
  <2>2. CASE Transfers = {}
    <3>1. FreeConn
      <4>1. InTx = BlocksInTx
        BY <2>2 DEF Transfers, BlocksInTx
      <4>. QED  BY <1>3, <4>1 DEF FreeConn
    <3>2. \A p : RowLock(p) = {} /\ UserLock(p) = {}
      BY <1>3, <2>2, Holders
    <3>3. Ahead(r) = {}
      BY <3>2 DEF Ahead
    <3>. QED  BY <1>3, <3>1, <3>3 DEF CanGoOn
  <2>. QED  BY <2>1, <2>2
<1>4. Typed => StuckOnlyOnPool
  BY <1>3, SomeTransferGoesOn DEF StuckOnlyOnPool
<1>. QED  BY <1>1, <1>2, <1>4, PTL DEF Spec

-----------------------------------------------------------------------------
(* Locks. A statement that takes one, or writes a row, waited for it.      *)

\* A lock has one holder, and what a transaction did to a row, Blocks and others
\* notwithstanding, is neither done nor undone by anybody before it commits.
LocksProtect ==
  /\ \A p \in Pairs : \A q, r \in RowLock(p) : q = r
  /\ \A u \in Users : \A q, r \in UserLock(u) : q = r
  /\ \A p \in Pairs : \A r \in RowLock(p) : (p \in follows) <=> Is(r, "unfollow")

LEMMA Waited ==
  ASSUME Typed, NEW r \in Requests, HandlerStep(r) \/ HandlerFault(r)
  PROVE  /\ pc[r] = "insert" /\ pc'[r] = "count1" => RowLock(Edge(r)) = {}
         /\ (pc[r] = "delete" /\ pc'[r] = "count1") \/ (pc[r] = "cut" /\ pc'[r] = "dec1")
              => (Edge(r) \in follows => RowLock(Edge(r)) = {})
         /\ pc[r] = "count1" /\ pc'[r] = "count2" => UserLock(call[r].user) = {}
         /\ pc[r] = "count2" /\ pc'[r] = "commit" => UserLock(call[r].target) = {}
<1>1. pc \in [Requests -> Pcs]
  BY Now
<1>2. CASE DeadlockAbort(r) \/ HandlerFault(r)
  BY <1>1, <1>2 DEF DeadlockAbort, HandlerFault, StatementFails, IgnoredFailure, NextDirection,
                    CommitFails, Crash, Finish, Goto
<1>3. CASE HandlerStep(r) /\ ~DeadlockAbort(r) /\ pc[r] \in {"insert", "delete", "count1", "count2", "cut"}
  <2>1. \/ InsertFollow(r) \/ DeleteFollow(r) \/ UpdateFollower(r) \/ UpdateFollowed(r)
        \/ CutFollow(r)
    BY <1>3 DEF HandlerStep, GetTarget, CheckBlocked, CheckExists, WriteFollowRequest, BeginTx, Commit,
                CreateBlock, FindFollow, DecrementFollowing, DecrementFollowers, EndBlock, GetBlock,
                WriteUnblock
  <2>. QED  BY <2>1 DEF InsertFollow, DeleteFollow, UpdateFollower, UpdateFollowed, CutFollow
<1>. QED  BY <1>2, <1>3

LEMMA LocksStep ==
  ASSUME Typed, LocksProtect, NEW r \in Requests, HandlerStep(r) \/ HandlerFault(r)
  PROVE  LocksProtect'
<1>1. /\ Sound(r) /\ Kind(r) /\ call' = call /\ Active(r)
      /\ \A q \in Requests \ {r} : pc'[q] = pc[q] /\ did'[q] = did[q] /\ Edge(q)' = Edge(q)
      /\ call[r].op \in {"follow", "unfollow", "block", "unblock"}
      /\ CallAt(call[r], pc[r]) /\ (back[r] => call[r].op = "block")
  BY RequestStep, Now DEF Sound, Edge
<1>2. \A p : RowLock(p)' \ {r} = RowLock(p) \ {r} /\ RowLock(p) \subseteq Requests
  BY <1>1 DEF RowLock
<1>3. \A u : UserLock(u)' \ {r} = UserLock(u) \ {r} /\ UserLock(u) \subseteq Requests
  BY <1>1 DEF UserLock
\* A lock that r holds and did not hold before had no holder.
<1>4. ASSUME NEW p \in Pairs, r \in RowLock(p)', r \notin RowLock(p)
      PROVE  RowLock(p) = {} /\ ((p \in follows) <=> Is(r, "unfollow")) /\ follows' = follows
  <2>1. /\ pc'[r] \in {"count1", "count2", "commit"} /\ did'[r] /\ Edge(r)' = p
        /\ Checked(r) /\ Edge(r)' = Edge(r)
    BY <1>1, <1>4 DEF RowLock, Kind, Ended, Checked, Applied, PutBlock, Found, DidCut, Decremented,
                      Turned, GotBlock, PutUnblock, Edge
  <2>2. pc'[r] = "count1" /\ pc[r] \in {"insert", "delete"}
    BY <1>4, <2>1 DEF Checked, RowLock
  <2>3. \/ pc[r] = "insert" /\ p \notin follows /\ call[r].op = "follow"
        \/ pc[r] = "delete" /\ p \in follows /\ call[r].op = "unfollow"
    BY <1>1, <2>1, <2>2 DEF Checked, CallAt
  <2>4. RowLock(p) = {}
    BY <2>1, <2>2, <2>3, Waited
  <2>. QED  BY <2>1, <2>3, <2>4 DEF Checked, Held, Is
<1>5. ASSUME NEW u \in Users, r \in UserLock(u)', r \notin UserLock(u)
      PROVE  UserLock(u) = {}
  <2>1. \/ pc[r] = "count1" /\ pc'[r] = "count2" /\ call[r].user = u
        \/ pc[r] = "count2" /\ pc'[r] = "commit" /\ call[r].target = u
    BY <1>1, <1>5 DEF UserLock, Kind, Ended, Checked, Applied, PutBlock, Found, DidCut, Decremented,
                      Turned, GotBlock, PutUnblock
  <2>. QED  BY <2>1, Waited
\* A row that another holds is not written.
<1>6. ASSUME NEW p \in Pairs, NEW q \in RowLock(p), q # r
      PROVE  (p \in follows') <=> (p \in follows)
  <2>1. CASE Applied(r)
    <3>1. did[r] => r \in RowLock(Edge(r))
      BY <2>1 DEF Applied, RowLock
    <3>2. Edge(r) = p => ~did[r]
      BY <1>6, <3>1 DEF LocksProtect
    <3>. QED  BY <2>1, <3>2 DEF Applied, ApplyTx
  <2>2. CASE DidCut(r)
    BY <1>6, <2>2, Waited DEF DidCut
  <2>3. CASE ~Applied(r) /\ ~DidCut(r)
    BY <1>1, <2>3 DEF Kind, Ended, Checked, PutBlock, Found, Decremented, Turned, GotBlock, PutUnblock,
                      Held
  <2>. QED  BY <2>1, <2>2, <2>3
\* A row that r holds is written only as r lets go of it.
<1>7. ASSUME NEW p \in Pairs, r \in RowLock(p)'
      PROVE  follows' = follows
  BY <1>1, <1>7 DEF RowLock, Kind, Ended, Checked, Applied, PutBlock, Found, DidCut, Decremented,
                    Turned, GotBlock, PutUnblock, Held
<1>8. \A p \in Pairs : \A o, q \in RowLock(p)' : o = q
  BY <1>2, <1>4 DEF LocksProtect
<1>9. \A u \in Users : \A o, q \in UserLock(u)' : o = q
  BY <1>3, <1>5 DEF LocksProtect
<1>10. ASSUME NEW p \in Pairs, NEW q \in RowLock(p)'
       PROVE  (p \in follows') <=> Is(q, "unfollow")'
  <2>1. Is(q, "unfollow")' <=> Is(q, "unfollow")
    BY <1>1 DEF Is
  <2>2. CASE q # r
    BY <1>2, <1>6, <1>10, <2>1, <2>2 DEF LocksProtect
  <2>3. CASE q = r
    BY <1>4, <1>7, <1>10, <2>1, <2>3 DEF LocksProtect
  <2>. QED  BY <2>2, <2>3
<1>. QED  BY <1>8, <1>9, <1>10 DEF LocksProtect

\* A lock has one holder, and nobody undoes what it did to the row before it
\* commits.
THEOREM LocksHold == Spec => []LocksProtect
<1>1. Init => Typed /\ LocksProtect
  BY TypeInit DEF Init, LocksProtect, RowLock, UserLock
<1>2. Typed /\ LocksProtect /\ [Next]_vars => (Typed /\ LocksProtect)'
  <2>. SUFFICES ASSUME Typed, LocksProtect, [Next]_vars
                PROVE  LocksProtect'
    BY TypeStep
  <2>1. CASE UNCHANGED <<follows, pc, call, did, back>>
    BY <2>1 DEF LocksProtect, RowLock, UserLock, Edge, Is
  <2>2. ASSUME NEW r \in Requests, NEW a \in Calls, Begin(r, a)
        PROVE  LocksProtect'
    <3>1. /\ UNCHANGED <<follows, did, back>> /\ pc[r] = "idle"
          /\ pc'[r] \in {"target", "exists", "get", "done"}
          /\ \A q \in Requests \ {r} : pc'[q] = pc[q] /\ call'[q] = call[q]
      BY <2>2, BeginStep DEF dbVars
    <3>2. \A q \in Requests \ {r} : Edge(q)' = Edge(q) /\ (Is(q, "unfollow")' <=> Is(q, "unfollow"))
      BY <3>1 DEF Edge, Is
    <3>3. \A p : RowLock(p)' = RowLock(p) /\ UserLock(p)' = UserLock(p)
      BY <3>1, <3>2 DEF RowLock, UserLock
    <3>4. \A p : r \notin RowLock(p) /\ RowLock(p) \subseteq Requests
      BY <3>1 DEF RowLock
    <3>. QED  BY <3>1, <3>2, <3>3, <3>4 DEF LocksProtect
  <2>3. ASSUME NEW r \in Requests, HandlerStep(r) \/ HandlerFault(r)
        PROVE  LocksProtect'
    BY <2>3, LocksStep
  <2>4. CASE \E u \in Users : SetPrivate(u)
    BY <2>1, <2>4 DEF SetPrivate, reqVars
  <2>. QED  BY <2>1, <2>2, <2>3, <2>4 DEF Next, vars, dbVars, reqVars
<1>. QED  BY <1>1, <1>2, PTL DEF Spec

=============================================================================
