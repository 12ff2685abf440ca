--------------------------- MODULE CommentProofs ---------------------------
(***************************************************************************)
(* For any users, contents, comments, requests and failures: type          *)
(* correctness of Comment, that only what was written is announced, that   *)
(* likes and their counter move together, and what reply_count and         *)
(* comment_count are worth.                                                *)
(***************************************************************************)
EXTENDS Comment, FiniteSetTheorems, TLAPS

Pcs == {"idle", "check", "parent", "alive", "insert", "get", "again", "erase", "count", "notify",
        "exists", "already", "like", "unlike", "done"}

Answers == {"none", "ok", "error", "not_found", "disabled", "invalid", "unauthorized",
            "already_liked", "not_liked"}

\* Where a request may be, by what it asks.
CallAt(a, label) ==
  \/ /\ a.op = "create"
     /\ label \in {"check", "parent", "alive", "insert", "count", "notify", "done"}
  \/ a.op = "delete" /\ label \in {"get", "again", "erase", "count", "done"}
  \/ a.op = "like" /\ label \in {"get", "exists", "already", "like", "notify", "done"}
  \/ a.op = "unlike" /\ label \in {"unlike", "done"}

CallFits ==
  \A r \in Requests :
    pc[r] # "idle" => call[r] \in Calls /\ CallAt(call[r], pc[r]) /\ id[r] \in Comments

Typed == TypeOK /\ CallFits

-----------------------------------------------------------------------------
(* What a step of a request does. *)

LEMMA CallType ==
  ASSUME NEW a \in Calls
  PROVE  /\ a.op \in {"create", "delete", "like", "unlike"} /\ a.user \in Users
         /\ a.op = "create" => a.content \in Contents /\ a.parent \in Parents
         /\ a.op # "create" => a.comment \in Comments
BY CallsAssumption DEF AllCalls

LEMMA AddToType ==
  ASSUME NEW counter \in [Comments -> Nat], NEW c \in Parents, NEW d \in Int
  PROVE  /\ AddTo(counter, c, d) \in [Comments -> Nat]
         /\ \A x \in Comments \ {c} : AddTo(counter, c, d)[x] = counter[x]
         /\ c \in Comments =>
              AddTo(counter, c, d)[c] = IF counter[c] + d < 0 THEN 0 ELSE counter[c] + d
<1>1. CASE c = NoComment
  BY <1>1, CommentsFinite DEF AddTo
<1>2. CASE c # NoComment
  <2>1. c \in Comments
    BY <1>2 DEF Parents
  <2>2. Greatest0(counter[c] + d) \in Nat
    BY <2>1 DEF Greatest0
  <2>. QED  BY <1>2, <2>1, <2>2 DEF AddTo, Greatest0
<1>. QED  BY <1>1, <1>2

\* What every step of a request keeps.
Sound(r) ==
  /\ Active(r) /\ UNCHANGED <<call, id, open, muted>>
  /\ \A q \in Requests \ {r} : pc'[q] = pc[q]
  /\ pc' \in [Requests -> Pcs] /\ pc'[r] # "idle" /\ CallAt(call[r], pc'[r])
  /\ reply' \in [Requests -> Answers] /\ tries' \in [Requests -> 0 .. MaxRetries]
  /\ faults' \in 0 .. MaxFaults /\ faults' \in {faults, faults + 1}

\* The steps that write nothing, an event perhaps excepted.
Looked(r) ==
  /\ pc[r] # "count" /\ pc'[r] \notin {"count", "notify"}
  /\ UNCHANGED <<dbVars, commentCount, committed>>
  /\ pc'[r] \in {"again", "erase", "exists", "already"} => id[r] \in live \cup dead
  /\ pc'[r] \in {"parent", "alive", "insert"} => pc[r] \in {"check", "parent", "alive"}
  /\ pc'[r] \notin {"check", "get", "unlike"} /\ (pc[r] = "notify" => pc'[r] = "done")
  /\ events' = events \/ (pc[r] = "notify" /\ events' = events \cup {r})

\* The four transactions, whether or not their answer arrives.
Wrote(r) ==
  /\ \/ pc[r] = "insert" /\ ApplyInsert(r)
     \/ pc[r] = "erase" /\ ApplyErase(r)
     \/ pc[r] = "like" /\ ApplyLike(r)
     \/ pc[r] = "unlike" /\ ApplyUnlike(r)
  /\ \/ pc'[r] = "count" /\ pc[r] \in {"insert", "erase"} /\ faults' = faults
     \/ pc'[r] = "notify" /\ pc[r] = "like"
     \/ pc'[r] = "done" /\ (pc[r] = "unlike" \/ faults' = faults + 1)
  /\ UNCHANGED <<commentCount, events>>

\* The call of UpdateCounter, and what becomes of it.
DidCount(r) ==
  /\ pc[r] = "count" /\ pc'[r] \in {"count", "notify", "done"}
  /\ \/ /\ faults' = faults /\ pc'[r] # "count"
        /\ \/ ContentOf(r) \in open /\ MoveCount(r)
           \/ ContentOf(r) \notin open /\ UNCHANGED commentCount
     \/ /\ faults' = faults + 1
        /\ MoveCount(r) \/ UNCHANGED commentCount
  /\ UNCHANGED <<dbVars, ghosts>>

\* The variables as they are.
LEMMA Now ==
  ASSUME Typed
  PROVE  /\ pc \in [Requests -> Pcs] /\ call \in [Requests -> Calls \cup {NoCall}]
         /\ reply \in [Requests -> Answers] /\ tries \in [Requests -> 0 .. MaxRetries]
         /\ faults \in 0 .. MaxFaults /\ MaxFaults \in Nat /\ MaxRetries \in Nat
         /\ \A r \in Requests : Active(r) =>
              /\ call[r] \in Calls /\ CallAt(call[r], pc[r]) /\ id[r] \in Comments
              /\ call[r].op \in {"create", "delete", "like", "unlike"}
BY CallType, BoundAssumption DEF Typed, TypeOK, CallFits, Pcs, Answers, Active

LEMMA MovedOn ==
  ASSUME Typed, NEW r \in Requests, Active(r), UNCHANGED <<call, id, open, muted>>,
         NEW label \in Pcs \ {"idle"}, Goto(r, label), CallAt(call[r], label),
         reply' \in [Requests -> Answers], tries' \in [Requests -> 0 .. MaxRetries],
         faults' \in 0 .. MaxFaults, faults' \in {faults, faults + 1}
  PROVE  Sound(r) /\ pc'[r] = label
BY Now DEF Goto, Sound

LEMMA Finished ==
  ASSUME Typed, NEW r \in Requests, NEW answer \in Answers, Active(r), Finish(r, answer),
         UNCHANGED <<call, id, open, muted, tries>>,
         faults' \in 0 .. MaxFaults, faults' \in {faults, faults + 1}
  PROVE  Sound(r) /\ pc'[r] = "done"
<1>1. reply' \in [Requests -> Answers] /\ "done" \in Pcs \ {"idle"}
  BY Now DEF Finish, Pcs
<1>2. CallAt(call[r], "done")
  BY Now DEF CallAt
<1>. QED  BY <1>1, <1>2, Now, MovedOn DEF Finish

LEMMA StepKind ==
  ASSUME Typed, NEW r \in Requests, HandlerStep(r)
  PROVE  Sound(r) /\ (Looked(r) \/ Wrote(r) \/ DidCount(r))
<1>0. /\ Active(r) /\ UNCHANGED <<call, id, open, muted, faults>> /\ faults \in 0 .. MaxFaults
      /\ pc[r] = "count" \/ UNCHANGED commentCount
      /\ UNCHANGED tries
  BY Now DEF HandlerStep, CheckContentExists, CheckParent, InsertComment, GetComment, GetAgain,
     EraseComment, UpdateCounter, Publish, CheckLike, InsertLike, DeleteLike, Active, content
<1>1. /\ call[r] \in Calls /\ CallAt(call[r], pc[r])
      /\ call[r].op \in {"create", "delete", "like", "unlike"}
      /\ reply \in [Requests -> Answers] /\ tries \in [Requests -> 0 .. MaxRetries]
  BY <1>0, Now
<1>2. ASSUME NEW label \in Pcs \ {"idle"}, Goto(r, label), reply' = reply, CallAt(call[r], label)
      PROVE  Sound(r) /\ pc'[r] = label
  BY <1>0, <1>1, <1>2, MovedOn
<1>3. ASSUME NEW answer \in Answers, Finish(r, answer)
      PROVE  Sound(r) /\ pc'[r] = "done"
  BY <1>0, <1>3, Finished
<1>4. CASE CheckContentExists(r)
  <2>1. /\ pc[r] = "check" /\ UNCHANGED <<dbVars, commentCount, committed, events>>
        /\ \/ Finish(r, "not_found") \/ Finish(r, "disabled")
           \/ reply' = reply /\ (Goto(r, "insert") \/ Goto(r, "parent"))
    BY <1>4 DEF CheckContentExists, content, ghosts
  <2>2. Sound(r) /\ pc'[r] \in {"done", "insert", "parent"}
    BY <1>1, <1>2, <1>3, <2>1 DEF CallAt, Pcs, Answers
  <2>. QED  BY <2>1, <2>2 DEF Looked
<1>5. CASE CheckParent(r)
  <2>1. /\ pc[r] \in {"parent", "alive"} /\ UNCHANGED <<dbVars, commentCount, committed, events>>
        /\ \/ Finish(r, "invalid")
           \/ reply' = reply /\ (Goto(r, "insert") \/ Goto(r, "alive"))
    BY <1>5 DEF CheckParent, content, ghosts
  <2>2. Sound(r) /\ pc'[r] \in {"done", "insert", "alive"}
    BY <1>1, <1>2, <1>3, <2>1 DEF CallAt, Pcs, Answers
  <2>. QED  BY <2>1, <2>2 DEF Looked
<1>6. CASE InsertComment(r)
  <2>1. pc[r] = "insert" /\ ApplyInsert(r) /\ Goto(r, "count") /\ UNCHANGED <<reply, events>>
    BY <1>6 DEF InsertComment
  <2>2. Sound(r) /\ pc'[r] = "count"
    BY <1>1, <1>2, <2>1 DEF CallAt, Pcs
  <2>. QED  BY <1>0, <2>1, <2>2 DEF Wrote
<1>7. CASE GetComment(r)
  <2>1. /\ pc[r] = "get" /\ UNCHANGED <<dbVars, commentCount, committed, events>>
        /\ \/ Finish(r, "not_found") \/ Finish(r, "unauthorized")
           \/ reply' = reply /\ id[r] \in live \cup dead /\ Is(r, "like") /\ Goto(r, "exists")
           \/ reply' = reply /\ id[r] \in live \cup dead /\ Is(r, "delete") /\ Goto(r, "again")
    BY <1>7 DEF GetComment, content, ghosts
  <2>2. Sound(r) /\ pc'[r] \in {"done", "exists", "again"}
    BY <1>1, <1>2, <1>3, <2>1 DEF CallAt, Pcs, Answers, Is
  <2>3. pc'[r] = "done" \/ id[r] \in live \cup dead
    BY <1>3, <2>1 DEF Answers
  <2>. QED  BY <2>1, <2>2, <2>3 DEF Looked
<1>8. CASE GetAgain(r)
  <2>1. /\ pc[r] = "again" /\ UNCHANGED <<dbVars, commentCount, committed, events>>
        /\ \/ Finish(r, "not_found")
           \/ reply' = reply /\ id[r] \in live /\ Goto(r, "erase")
    BY <1>8 DEF GetAgain, content, ghosts
  <2>2. Sound(r) /\ (pc'[r] = "done" \/ (pc'[r] = "erase" /\ id[r] \in live))
    BY <1>1, <1>2, <1>3, <2>1 DEF CallAt, Pcs, Answers
  <2>. QED  BY <2>1, <2>2 DEF Looked
<1>9. CASE EraseComment(r)
  <2>1. pc[r] = "erase" /\ ApplyErase(r) /\ Goto(r, "count") /\ UNCHANGED <<reply, events>>
    BY <1>9 DEF EraseComment
  <2>2. Sound(r) /\ pc'[r] = "count"
    BY <1>1, <1>2, <2>1 DEF CallAt, Pcs
  <2>. QED  BY <1>0, <2>1, <2>2 DEF Wrote
<1>10. CASE UpdateCounter(r)
  <2>1. /\ pc[r] = "count" /\ UNCHANGED <<dbVars, ghosts>>
        /\ \/ ContentOf(r) \in open /\ MoveCount(r)
           \/ ContentOf(r) \notin open /\ UNCHANGED commentCount
        /\ \/ Is(r, "create") /\ Goto(r, "notify") /\ UNCHANGED reply
           \/ Finish(r, "ok")
    BY <1>10 DEF UpdateCounter, AfterCount
  <2>2. Sound(r) /\ pc'[r] \in {"notify", "done"}
    BY <1>1, <1>2, <1>3, <2>1 DEF CallAt, Pcs, Answers, Is
  <2>. QED  BY <1>0, <2>1, <2>2 DEF DidCount
<1>11. CASE Publish(r)
  <2>1. /\ pc[r] = "notify" /\ UNCHANGED <<dbVars, commentCount, committed>> /\ Finish(r, "ok")
        /\ events' \in {events, events \cup {r}}
    BY <1>11 DEF Publish, content
  <2>. QED  BY <1>3, <2>1 DEF Looked, Answers
<1>12. CASE CheckLike(r)
  <2>1. /\ pc[r] \in {"exists", "already"} /\ UNCHANGED <<dbVars, commentCount, committed, events>>
        /\ \/ Finish(r, "not_found") \/ Finish(r, "already_liked")
           \/ pc[r] = "exists" /\ reply' = reply /\ id[r] \in live /\ Goto(r, "already")
           \/ pc[r] = "already" /\ reply' = reply /\ Goto(r, "like")
    BY <1>12 DEF CheckLike, content, ghosts
  <2>2. CASE pc[r] = "exists" /\ reply' = reply /\ id[r] \in live /\ Goto(r, "already")
    BY <1>1, <1>2, <2>1, <2>2 DEF Looked, CallAt, Pcs
  <2>3. CASE pc[r] = "already" /\ reply' = reply /\ Goto(r, "like")
    BY <1>1, <1>2, <2>1, <2>3 DEF Looked, CallAt, Pcs
  <2>4. CASE Finish(r, "not_found") \/ Finish(r, "already_liked")
    BY <1>3, <2>1, <2>4 DEF Looked, Answers
  <2>. QED  BY <2>1, <2>2, <2>3, <2>4
<1>13. CASE InsertLike(r)
  <2>1. /\ pc[r] = "like" /\ UNCHANGED <<commentCount, events>>
        /\ \/ ApplyLike(r) /\ Goto(r, "notify") /\ UNCHANGED reply
           \/ Finish(r, "error") /\ UNCHANGED <<dbVars, committed>>
    BY <1>13 DEF InsertLike, content
  <2>2. CASE Finish(r, "error") /\ UNCHANGED <<dbVars, committed>>
    BY <1>3, <2>1, <2>2 DEF Looked, Answers
  <2>3. CASE ApplyLike(r) /\ Goto(r, "notify") /\ UNCHANGED reply
    BY <1>1, <1>2, <2>1, <2>3 DEF Wrote, CallAt, Pcs
  <2>. QED  BY <2>1, <2>2, <2>3
<1>14. CASE DeleteLike(r)
  <2>1. /\ pc[r] = "unlike" /\ UNCHANGED <<commentCount, events>>
        /\ \/ ApplyUnlike(r) /\ Finish(r, "ok")
           \/ Finish(r, "not_liked") /\ UNCHANGED <<dbVars, committed>>
    BY <1>14 DEF DeleteLike, content
  <2>. QED  BY <1>3, <2>1 DEF Looked, Wrote, Answers
<1>. QED  BY <1>4, <1>5, <1>6, <1>7, <1>8, <1>9, <1>10, <1>11, <1>12, <1>13, <1>14 DEF HandlerStep

LEMMA FaultKind ==
  ASSUME Typed, NEW r \in Requests, HandlerFault(r)
  PROVE  Sound(r) /\ (Looked(r) \/ Wrote(r) \/ DidCount(r))
<1>0. /\ Active(r) /\ UNCHANGED <<call, id, open, muted>>
      /\ faults < MaxFaults /\ faults' = faults + 1
  BY Now DEF HandlerFault, UpdateCounterFails, HandlerFails, CommitUnknown, Crash, Active, content
<1>00. faults' \in 0 .. MaxFaults /\ faults' \in {faults, faults + 1}
  BY <1>0, Now
<1>1. /\ call[r] \in Calls /\ CallAt(call[r], pc[r])
      /\ call[r].op \in {"create", "delete", "like", "unlike"}
      /\ reply \in [Requests -> Answers] /\ tries \in [Requests -> 0 .. MaxRetries]
      /\ MaxRetries \in Nat
  BY <1>0, Now
<1>3. ASSUME NEW answer \in Answers, Finish(r, answer), UNCHANGED tries
      PROVE  Sound(r) /\ pc'[r] = "done"
  BY <1>0, <1>00, <1>3, Finished
<1>4. CASE UpdateCounterFails(r)
  <2>1. /\ pc[r] = "count" /\ UNCHANGED <<dbVars, ghosts>>
        /\ MoveCount(r) \/ UNCHANGED commentCount
        /\ \/ tries[r] < MaxRetries /\ tries' = [tries EXCEPT ![r] = @ + 1] /\ UNCHANGED <<pc, reply>>
           \/ UNCHANGED tries /\ Is(r, "create") /\ Goto(r, "notify") /\ UNCHANGED reply
           \/ UNCHANGED tries /\ Finish(r, "ok")
    BY <1>4 DEF UpdateCounterFails, AfterCount
  <2>2. CASE tries[r] < MaxRetries /\ tries' = [tries EXCEPT ![r] = @ + 1] /\ UNCHANGED <<pc, reply>>
    <3>1. tries' \in [Requests -> 0 .. MaxRetries]
      BY <1>1, <2>2
    <3>2. Goto(r, "count") /\ "count" \in Pcs \ {"idle"} /\ pc'[r] = "count"
      BY <2>1, <2>2, Now DEF Goto, Pcs
    <3>. QED  BY <1>0, <1>00, <1>1, <2>1, <2>2, <3>1, <3>2, MovedOn DEF DidCount
  <2>3. CASE UNCHANGED tries /\ Is(r, "create") /\ Goto(r, "notify") /\ UNCHANGED reply
    <3>1. "notify" \in Pcs \ {"idle"} /\ CallAt(call[r], "notify")
      BY <2>3 DEF Pcs, CallAt, Is
    <3>. QED  BY <1>0, <1>00, <1>1, <2>1, <2>3, <3>1, MovedOn DEF DidCount
  <2>4. CASE UNCHANGED tries /\ Finish(r, "ok")
    BY <1>0, <1>3, <2>1, <2>4 DEF DidCount, Answers
  <2>. QED  BY <2>1, <2>2, <2>3, <2>4
<1>5. CASE HandlerFails(r)
  <2>1. /\ pc[r] \notin {"count", "notify"} /\ UNCHANGED <<dbVars, commentCount, ghosts, tries>>
        /\ Finish(r, "invalid") \/ Finish(r, "error")
    BY <1>5 DEF HandlerFails, content
  <2>. QED  BY <1>3, <2>1 DEF Looked, Answers, ghosts
<1>6. CASE CommitUnknown(r)
  <2>1. /\ \/ pc[r] = "insert" /\ ApplyInsert(r)
           \/ pc[r] = "erase" /\ ApplyErase(r)
           \/ pc[r] = "like" /\ ApplyLike(r)
           \/ pc[r] = "unlike" /\ ApplyUnlike(r)
        /\ Finish(r, "error") /\ UNCHANGED <<commentCount, tries, events>>
    BY <1>6 DEF CommitUnknown, content
  <2>. QED  BY <1>0, <1>3, <2>1 DEF Wrote, Answers
<1>7. CASE Crash(r)
  <2>1. /\ UNCHANGED <<dbVars, commentCount, ghosts, tries, reply>> /\ Goto(r, "done")
    BY <1>7 DEF Crash, content
  <2>2. "done" \in Pcs \ {"idle"} /\ CallAt(call[r], "done")
    BY <1>1 DEF Pcs, CallAt
  <2>3. Sound(r) /\ pc'[r] = "done"
    BY <1>0, <1>00, <1>1, <2>1, <2>2, MovedOn
  <2>. QED  BY <1>0, <2>1, <2>3 DEF Looked, DidCount, ghosts
<1>. QED  BY <1>4, <1>5, <1>6, <1>7 DEF HandlerFault

\* Every step of a request is of one of the three kinds.
LEMMA RequestStep ==
  ASSUME Typed, NEW r \in Requests, HandlerStep(r) \/ HandlerFault(r)
  PROVE  /\ Sound(r) /\ (Looked(r) \/ Wrote(r) \/ DidCount(r))
         /\ call[r] \in Calls /\ CallAt(call[r], pc[r]) /\ id[r] \in Comments
         /\ call[r].op \in {"create", "delete", "like", "unlike"}
<1>1. Sound(r) /\ (Looked(r) \/ Wrote(r) \/ DidCount(r))
  BY StepKind, FaultKind
<1>. QED  BY <1>1, Now DEF Sound

\* A request begins.
LEMMA BeginStep ==
  ASSUME Typed, NEW r \in Requests, NEW a \in Calls, Begin(r, a)
  PROVE  /\ pc[r] = "idle" /\ call'[r] = a /\ id'[r] \in Comments
         /\ pc' \in [Requests -> Pcs] /\ call' \in [Requests -> Calls \cup {NoCall}]
         /\ id' \in [Requests -> Parents]
         /\ \A q \in Requests \ {r} : pc'[q] = pc[q] /\ call'[q] = call[q] /\ id'[q] = id[q]
         /\ CallAt(a, pc'[r]) /\ pc'[r] \in {"check", "unlike", "get"}
         /\ pc'[r] = "check" => id'[r] \notin live \cup dead /\ \A q \in Requests : id[q] # id'[r]
         /\ UNCHANGED <<content, dbVars, reply, tries, ghosts, faults>>
<1>1. /\ pc[r] = "idle" /\ call' = [call EXCEPT ![r] = a]
      /\ UNCHANGED <<content, dbVars, reply, tries, ghosts, faults>>
  BY DEF Begin
<1>2. /\ pc \in [Requests -> Pcs] /\ call \in [Requests -> Calls \cup {NoCall}]
      /\ id \in [Requests -> Parents]
  BY Now DEF Typed, TypeOK
<1>3. CASE a.op = "create"
  <2>1. PICK c \in Comments \ (live \cup dead) :
          (\A q \in Requests : id[q] # c) /\ id' = [id EXCEPT ![r] = c] /\ Goto(r, "check")
    BY <1>3 DEF Begin
  <2>. QED  BY <1>1, <1>2, <1>3, <2>1 DEF Goto, CallAt, Pcs, Parents
<1>4. CASE a.op # "create"
  <2>1. /\ id' = [id EXCEPT ![r] = a.comment] /\ a.comment \in Comments
        /\ Goto(r, IF a.op = "unlike" THEN "unlike" ELSE "get")
    BY <1>4, CallType DEF Begin
  <2>. QED  BY <1>1, <1>2, <1>4, <2>1, CallType DEF Goto, CallAt, Pcs, Parents
<1>. QED  BY <1>3, <1>4

-----------------------------------------------------------------------------
(* Type correctness. *)

LEMMA WroteType ==
  ASSUME Typed, NEW r \in Requests, Wrote(r), id[r] \in Comments, call[r] \in Calls,
         CallAt(call[r], pc[r])
  PROVE  /\ live' \subseteq Comments /\ dead' \subseteq Comments
         /\ info' \in [Comments -> Info] /\ replyCount' \in [Comments -> Nat]
         /\ liked' \subseteq Users \X Comments /\ likeCount' \in [Comments -> Nat]
         /\ committed' = committed \cup {r}
<1>1. /\ live \subseteq Comments /\ dead \subseteq Comments
      /\ info \in [Comments -> Info] /\ replyCount \in [Comments -> Nat]
      /\ liked \subseteq Users \X Comments /\ likeCount \in [Comments -> Nat]
  BY DEF Typed, TypeOK
<1>2. id[r] \in Parents /\ call[r].user \in Users /\ 1 \in Int /\ -1 \in Int
  BY CallType DEF Parents
<1>3. CASE pc[r] = "insert" /\ ApplyInsert(r)
  <2>1. call[r].content \in Contents /\ call[r].parent \in Parents
    BY <1>3, CallType DEF CallAt
  <2>2. AddTo(replyCount, call[r].parent, 1) \in [Comments -> Nat]
    BY <1>1, <1>2, <2>1, AddToType
  <2>3. [author |-> call[r].user, content |-> call[r].content, parent |-> call[r].parent] \in Info
    BY <1>2, <2>1 DEF Info
  <2>. QED  BY <1>1, <1>3, <2>2, <2>3 DEF ApplyInsert
<1>4. CASE pc[r] = "erase" /\ ApplyErase(r)
  <2>1. info[id[r]].parent \in Parents
    BY <1>1 DEF Info
  <2>2. AddTo(replyCount, info[id[r]].parent, -1) \in [Comments -> Nat]
    BY <1>1, <1>2, <2>1, AddToType
  <2>. QED  BY <1>1, <1>4, <2>2 DEF ApplyErase
<1>5. CASE pc[r] = "like" /\ ApplyLike(r)
  <2>1. AddTo(likeCount, id[r], 1) \in [Comments -> Nat]
    BY <1>1, <1>2, AddToType
  <2>. QED  BY <1>1, <1>2, <1>5, <2>1 DEF ApplyLike
<1>6. CASE pc[r] = "unlike" /\ ApplyUnlike(r)
  <2>1. AddTo(likeCount, id[r], -1) \in [Comments -> Nat]
    BY <1>1, <1>2, AddToType
  <2>. QED  BY <1>1, <1>2, <1>6, <2>1 DEF ApplyUnlike
<1>. QED  BY <1>3, <1>4, <1>5, <1>6 DEF Wrote

\* What UpdateCounter moves.
LEMMA MoveEffect ==
  ASSUME Typed, NEW r \in Requests, MoveCount(r), id[r] \in Comments
  PROVE  /\ ContentOf(r) \in Contents /\ commentCount' \in [Contents -> Nat]
         /\ \A p \in Contents \ {ContentOf(r)} : commentCount'[p] = commentCount[p]
         /\ commentCount'[ContentOf(r)] >= commentCount[ContentOf(r)] + Delta(r)
<1>1. ContentOf(r) \in Contents /\ commentCount \in [Contents -> Nat]
  BY DEF Typed, TypeOK, Info, ContentOf
<1>2. Delta(r) = 1 \/ Delta(r) = -1
  BY DEF Delta
<1>3. /\ Greatest0(commentCount[ContentOf(r)] + Delta(r)) \in Nat
      /\ Greatest0(commentCount[ContentOf(r)] + Delta(r)) >= commentCount[ContentOf(r)] + Delta(r)
  BY <1>1, <1>2 DEF Greatest0
<1>. QED  BY <1>1, <1>3 DEF MoveCount

LEMMA TypeInit == ASSUME Init PROVE Typed
<1>1. \A c \in Comments : IsFiniteSet(Repliers(c))
  BY CommentsFinite, OldAssumption, FS_Subset DEF Init, Repliers
<1>2. \A c \in Comments : IsFiniteSet({u \in Users : <<u, c>> \in liked})
  BY UsersFinite, FS_Subset
<1>3. \A p \in Contents : IsFiniteSet({c \in live : info[c].content = p})
  BY CommentsFinite, OldAssumption, FS_Subset DEF Init
<1>4. (CHOOSE i \in Info : TRUE) \in Info
  BY InfoAssumption
<1>5. info \in [Comments -> Info]
  BY <1>4, OldAssumption DEF Init
<1>6. replyCount \in [Comments -> Nat]
  BY <1>1, FS_CardinalityType DEF Init
<1>7. likeCount \in [Comments -> Nat]
  BY <1>2, FS_CardinalityType DEF Init
<1>8. commentCount \in [Contents -> Nat]
  BY <1>3, FS_CardinalityType DEF Init
<1>9. 0 \in 0 .. MaxFaults /\ 0 \in 0 .. MaxRetries
  BY BoundAssumption
<1>10. TypeOK
  BY <1>5, <1>6, <1>7, <1>8, <1>9, OldAssumption DEF Init, TypeOK, Parents
<1>. QED  BY <1>10 DEF Init, Typed, CallFits

LEMMA BeginType ==
  ASSUME Typed, NEW r \in Requests, NEW a \in Calls, Begin(r, a)
  PROVE  Typed'
<1>1. CallFits'
  BY BeginStep DEF Typed, CallFits
<1>2. TypeOK'
  BY BeginStep DEF Typed, TypeOK, content, dbVars, ghosts, Pcs
<1>. QED  BY <1>1, <1>2 DEF Typed

LEMMA SoundType ==
  ASSUME Typed, NEW r \in Requests, HandlerStep(r) \/ HandlerFault(r)
  PROVE  Typed'
<1>0. /\ Sound(r) /\ (Looked(r) \/ Wrote(r) \/ DidCount(r))
      /\ call[r] \in Calls /\ CallAt(call[r], pc[r]) /\ id[r] \in Comments
  BY RequestStep
<1>1. CallFits'
  BY <1>0 DEF Typed, CallFits, Sound
<1>2. /\ live' \subseteq Comments /\ dead' \subseteq Comments
      /\ info' \in [Comments -> Info] /\ replyCount' \in [Comments -> Nat]
      /\ liked' \subseteq Users \X Comments /\ likeCount' \in [Comments -> Nat]
      /\ committed' \subseteq Requests /\ events' \subseteq Requests
      /\ commentCount' \in [Contents -> Nat]
  <2>1. CASE Looked(r)
    BY <2>1 DEF Looked, dbVars, Typed, TypeOK
  <2>2. CASE Wrote(r)
    <3>1. UNCHANGED <<commentCount, events>>
      BY <2>2 DEF Wrote
    <3>. QED  BY <1>0, <2>2, <3>1, WroteType DEF Typed, TypeOK
  <2>3. CASE DidCount(r)
    <3>1. commentCount' \in [Contents -> Nat]
      BY <1>0, <2>3, MoveEffect DEF DidCount, Typed, TypeOK
    <3>. QED  BY <2>3, <3>1 DEF DidCount, dbVars, ghosts, Typed, TypeOK
  <2>. QED  BY <1>0, <2>1, <2>2, <2>3
<1>3. TypeOK'
  BY <1>0, <1>2 DEF Typed, TypeOK, Sound, Pcs, Answers
<1>. QED  BY <1>1, <1>3 DEF Typed

LEMMA TypeStep ==
  ASSUME Typed, [Next]_vars
  PROVE  Typed'
<1>1. CASE ChangeContent \/ UNCHANGED vars
  <2>1. /\ UNCHANGED <<commentCount, dbVars, reqVars, ghosts, faults>>
        /\ open' \subseteq Contents /\ muted' \subseteq Contents
    BY <1>1 DEF ChangeContent, vars, content, Typed, TypeOK
  <2>. QED  BY <2>1 DEF dbVars, reqVars, ghosts, Typed, TypeOK, CallFits
<1>. QED  BY <1>1, BeginType, SoundType DEF Next

\* Every value is of its type; no counter of a comment or a content is ever
\* negative (service/comment).
THEOREM TypeCorrect == Spec => []TypeOK
<1>. QED  BY TypeInit, TypeStep, PTL DEF Spec, Typed

-----------------------------------------------------------------------------
(* Events. *)

\* A request that has written, or will count or announce, has committed; one
\* that has yet to write has not.
CommitInv ==
  /\ Typed
  /\ \A r \in Requests :
       /\ pc[r] \in {"count", "notify"} => r \in committed
       /\ r \in committed => pc[r] \in {"count", "notify", "done"}

LEMMA CommitInit == ASSUME Init PROVE CommitInv
BY TypeInit DEF Init, CommitInv

LEMMA CommitStep ==
  ASSUME CommitInv, [Next]_vars
  PROVE  CommitInv'
<1>. Typed /\ Typed'
  BY TypeStep DEF CommitInv
<1>1. ASSUME NEW r \in Requests, NEW a \in Calls, Begin(r, a)
      PROVE  CommitInv'
  BY <1>1, BeginStep DEF CommitInv, ghosts
<1>2. ASSUME NEW r \in Requests, HandlerStep(r) \/ HandlerFault(r)
      PROVE  CommitInv'
  <2>1. Sound(r) /\ (Looked(r) \/ Wrote(r) \/ DidCount(r)) /\ pc[r] # "idle"
    BY <1>2, RequestStep DEF Sound, Active
  <2>2. CASE Looked(r)
    <3>1. r \notin committed \/ pc'[r] = "done"
      BY <2>1, <2>2, Now DEF CommitInv, Looked, Sound, CallAt, Active
    <3>. QED  BY <2>1, <2>2, <3>1 DEF CommitInv, Looked, Sound
  <2>3. CASE Wrote(r)
    <3>1. committed' = committed \cup {r} /\ pc'[r] \in {"count", "notify", "done"}
      BY <2>3 DEF Wrote, ApplyInsert, ApplyErase, ApplyLike, ApplyUnlike
    <3>. QED  BY <2>1, <3>1 DEF CommitInv, Sound
  <2>4. CASE DidCount(r)
    BY <2>1, <2>4 DEF CommitInv, DidCount, Sound, ghosts
  <2>. QED  BY <2>1, <2>2, <2>3, <2>4
<1>3. CASE ChangeContent \/ UNCHANGED vars
  BY <1>3 DEF ChangeContent, vars, reqVars, ghosts, CommitInv
<1>. QED  BY <1>1, <1>2, <1>3 DEF Next

\* Nobody is told of a comment or a like that was not written: what is published
\* comes after the commit (CreateComment and LikeComment of comment_service.go).
THEOREM Announced == Spec => []EventsOnlyForCommitted
<1>1. Init => EventsOnlyForCommitted
  BY DEF Init, EventsOnlyForCommitted
<1>2. ASSUME CommitInv, EventsOnlyForCommitted, [Next]_vars
      PROVE  EventsOnlyForCommitted'
  <2>1. ASSUME NEW r \in Requests, NEW a \in Calls, Begin(r, a)
        PROVE  EventsOnlyForCommitted'
    BY <1>2, <2>1 DEF Begin, ghosts, EventsOnlyForCommitted
  <2>2. ASSUME NEW r \in Requests, HandlerStep(r) \/ HandlerFault(r)
        PROVE  EventsOnlyForCommitted'
    <3>1. Looked(r) \/ Wrote(r) \/ DidCount(r)
      BY <1>2, <2>2, RequestStep DEF CommitInv
    <3>2. committed \subseteq committed'
      BY <3>1 DEF Looked, Wrote, DidCount, ghosts, ApplyInsert, ApplyErase, ApplyLike, ApplyUnlike
    <3>. QED  BY <1>2, <3>1, <3>2 DEF EventsOnlyForCommitted, CommitInv, Looked, Wrote,
              DidCount, ghosts
  <2>3. CASE ChangeContent \/ UNCHANGED vars
    BY <1>2, <2>3 DEF ChangeContent, vars, ghosts, EventsOnlyForCommitted
  <2>. QED  BY <1>2, <2>1, <2>2, <2>3 DEF Next
<1>. QED  BY <1>1, <1>2, CommitInit, CommitStep, PTL DEF Spec

-----------------------------------------------------------------------------
(* Likes. *)

Likers(c) == {u \in Users : <<u, c>> \in liked}
LikesCounted == \A c \in Comments : likeCount[c] = Cardinality(Likers(c))

LikesInv == Typed /\ LikesCounted

\* A like or an unlike that commits is a step of the like counter: the counter
\* moves by one and never meets its floor.
LEMMA WroteLike ==
  ASSUME LikesInv, NEW r \in Requests, Wrote(r), call[r] \in Calls,
         NEW c \in Comments, id[r] = c, NEW u, u = call[r].user
  PROVE  /\ LikesCounted'
         /\ UNCHANGED <<liked, likeCount>> \/ Likes!Like(u, c) \/ Likes!Unlike(u, c)
<1>1. /\ liked \subseteq Users \X Comments /\ likeCount \in [Comments -> Nat]
      /\ u \in Users /\ c # NoComment
      /\ \A x \in Comments : likeCount[x] = Cardinality(Likers(x))
  BY CallType, CommentsFinite DEF LikesInv, LikesCounted, Typed, TypeOK
<1>2. IsFiniteSet(Likers(c))
  BY UsersFinite, FS_Subset DEF Likers
<1>3. Cardinality(Likers(c)) \in Nat
  BY <1>2, FS_CardinalityType
<1>4. CASE UNCHANGED <<liked, likeCount>>
  BY <1>1, <1>4 DEF LikesCounted, Likers
<1>5. CASE ApplyLike(r)
  <2>1. <<u, c>> \notin liked /\ liked' = liked \cup {<<u, c>>}
    BY <1>5 DEF ApplyLike
  <2>2. likeCount' = [likeCount EXCEPT ![c] = @ + 1]
    <3>1. Greatest0(likeCount[c] + 1) = likeCount[c] + 1
      BY <1>1 DEF Greatest0
    <3>2. likeCount' = [likeCount EXCEPT ![c] = Greatest0(@ + 1)]
      BY <1>1, <1>5 DEF ApplyLike, AddTo
    <3>. QED  BY <3>1, <3>2
  <2>3. u \notin Likers(c) /\ Likers(c)' = Likers(c) \cup {u}
    BY <1>1, <2>1 DEF Likers
  <2>4. \A x \in Comments \ {c} : Likers(x)' = Likers(x)
    BY <1>1, <2>1 DEF Likers
  <2>5. Cardinality(Likers(c)') = Cardinality(Likers(c)) + 1
    BY <1>2, <2>3, FS_AddElement
  <2>6. \A x \in Comments : likeCount'[x] = Cardinality(Likers(x)')
    BY <1>1, <2>2, <2>4, <2>5
  <2>. QED  BY <2>1, <2>2, <2>6 DEF LikesCounted, Likes!Like
<1>6. CASE ApplyUnlike(r)
  <2>1. <<u, c>> \in liked /\ liked' = liked \ {<<u, c>>}
    BY <1>6 DEF ApplyUnlike
  <2>3. u \in Likers(c) /\ Likers(c)' = Likers(c) \ {u}
    BY <1>1, <2>1 DEF Likers
  <2>4. \A x \in Comments \ {c} : Likers(x)' = Likers(x)
    BY <1>1, <2>1 DEF Likers
  <2>5. Cardinality(Likers(c)') = Cardinality(Likers(c)) - 1
    <3>1. Cardinality(Likers(c) \ {u}) = Cardinality(Likers(c)) - 1
      BY <1>2, <2>3, FS_RemoveElement
    <3>. QED  BY <2>3, <3>1
  <2>7. Cardinality(Likers(c)) > 0
    BY <1>2, <1>3, <2>3, FS_EmptySet
  <2>2. likeCount' = [likeCount EXCEPT ![c] = @ - 1]
    <3>1. likeCount[c] \in Nat /\ likeCount[c] > 0
      BY <1>1, <1>3, <2>7
    <3>2. Greatest0(likeCount[c] + -1) = likeCount[c] - 1
      BY <3>1 DEF Greatest0
    <3>3. likeCount' = [likeCount EXCEPT ![c] = Greatest0(@ + -1)]
      BY <1>1, <1>6 DEF ApplyUnlike, AddTo
    <3>. QED  BY <3>2, <3>3
  <2>6. \A x \in Comments : likeCount'[x] = Cardinality(Likers(x)')
    BY <1>1, <2>2, <2>4, <2>5
  <2>. QED  BY <2>1, <2>2, <2>6 DEF LikesCounted, Likes!Unlike
<1>. QED  BY <1>4, <1>5, <1>6 DEF Wrote, ApplyInsert, ApplyErase

LEMMA LikesStep ==
  ASSUME LikesInv, [Next]_vars
  PROVE  LikesInv' /\ [Likes!Next]_<<liked, likeCount>>
<1>. Typed /\ Typed'
  BY TypeStep DEF LikesInv
<1>1. ASSUME UNCHANGED <<liked, likeCount>>
      PROVE  LikesCounted'
  BY <1>1 DEF LikesInv, LikesCounted, Likers
<1>2. ASSUME NEW r \in Requests, HandlerStep(r) \/ HandlerFault(r)
      PROVE  LikesCounted' /\ [Likes!Next]_<<liked, likeCount>>
  <2>1. /\ Looked(r) \/ Wrote(r) \/ DidCount(r)
        /\ call[r] \in Calls /\ id[r] \in Comments /\ call[r].user \in Users
    BY <1>2, RequestStep, CallType
  <2>2. CASE Wrote(r)
    BY <2>1, <2>2, WroteLike DEF Likes!Next
  <2>3. CASE Looked(r) \/ DidCount(r)
    BY <1>1, <2>3 DEF Looked, DidCount, dbVars
  <2>. QED  BY <2>1, <2>2, <2>3
<1>3. ASSUME NEW r \in Requests, NEW a \in Calls, Begin(r, a)
      PROVE  LikesCounted' /\ UNCHANGED <<liked, likeCount>>
  BY <1>1, <1>3 DEF Begin, dbVars
<1>4. CASE ChangeContent \/ UNCHANGED vars
  BY <1>1, <1>4 DEF ChangeContent, vars, dbVars, LikesInv
<1>. QED  BY <1>2, <1>3, <1>4 DEF Next, LikesInv

\* LikeComment and UnlikeComment implement the like counter: whatever overlaps
\* and whatever fails, who reads like_count reads the number of likes
\* (comment_data_access.go).
THEOREM LikesRefine == Spec => LikesAreAtomic
<1>1. ASSUME Init
      PROVE  LikesInv /\ Likes!Init
  <2>1. Typed
    BY <1>1, TypeInit
  <2>2. LikesCounted
    BY <1>1 DEF Init, LikesCounted, Likers
  <2>3. liked \subseteq Users \X Comments
    BY <2>1 DEF Typed, TypeOK
  <2>4. likeCount = [c \in Comments |-> Cardinality({u \in Users : <<u, c>> \in liked})]
    BY <1>1 DEF Init
  <2>5. \A S : Cardinality(S) = Likes!Cardinality(S)
    BY DEF Cardinality, Likes!Cardinality, Likes!IsFiniteSet, IsFiniteSet
  <2>. QED  BY <2>1, <2>2, <2>3, <2>4, <2>5 DEF LikesInv, Likes!Init
<1>. QED  BY <1>1, LikesStep, PTL DEF Spec, LikesAreAtomic, Likes!Spec

-----------------------------------------------------------------------------
(* Which comments are there. *)

\* The comment of a creation under way is not there yet and is its own; that of
\* a deletion that has passed its check is, or was.
Unborn == \A r \in Requests :
            pc[r] \in {"check", "parent", "alive", "insert"} => id[r] \notin live \cup dead
Known == \A r \in Requests :
           pc[r] \in {"again", "erase", "exists", "already", "count"} => id[r] \in live \cup dead
NoTwins ==
  \A q, r \in Requests :
    q # r /\ pc[q] # "idle" /\ pc[r] # "idle" /\ Is(q, "create") /\ Is(r, "create")
      => id[q] # id[r]

\* A comment is dead exactly if a deletion of it has committed.
Gone == /\ \A r \in committed : Is(r, "delete") => id[r] \in dead
        /\ \A c \in dead : Erasures(c) # {}

IdInv == CommitInv /\ Unborn /\ Known /\ NoTwins /\ Gone /\ live \cap dead = {}

LEMMA IdInit == ASSUME Init PROVE IdInv
BY CommitInit DEF Init, IdInv, Unborn, Known, NoTwins, Gone

\* The deletions of a comment that have committed: a step adds one, or none.
LEMMA ErasuresStep ==
  ASSUME CommitInv, NEW r \in Requests, HandlerStep(r) \/ HandlerFault(r), NEW c
  PROVE  /\ Looked(r) \/ DidCount(r) => Erasures(c)' = Erasures(c)
         /\ Wrote(r) => /\ r \notin Erasures(c)
                        /\ Erasures(c)' = IF pc[r] = "erase" /\ id[r] = c
                                          THEN Erasures(c) \cup {r} ELSE Erasures(c)
         /\ IsFiniteSet(Erasures(c)) /\ IsFiniteSet(Erasures(c)')
         /\ Erasures(c) \subseteq Erasures(c)'
<1>1. /\ Sound(r) /\ (Looked(r) \/ Wrote(r) \/ DidCount(r)) /\ CallAt(call[r], pc[r])
      /\ call' = call /\ id' = id /\ committed \subseteq Requests
  BY RequestStep DEF CommitInv, Typed, TypeOK, Sound
<1>2. Looked(r) \/ DidCount(r) => Erasures(c)' = Erasures(c)
  BY <1>1 DEF Looked, DidCount, ghosts, Erasures, Is
<1>3. ASSUME Wrote(r)
      PROVE  /\ r \notin Erasures(c)
             /\ Erasures(c)' = IF pc[r] = "erase" /\ id[r] = c
                               THEN Erasures(c) \cup {r} ELSE Erasures(c)
  <2>1. committed' = committed \cup {r} /\ r \notin committed
    BY <1>3 DEF CommitInv, Wrote, ApplyInsert, ApplyErase, ApplyLike, ApplyUnlike
  <2>2. pc[r] = "erase" <=> Is(r, "delete")
    BY <1>1, <1>3 DEF Wrote, CallAt, Is
  <2>. QED  BY <1>1, <2>1, <2>2 DEF Erasures, Is
<1>4. IsFiniteSet(Erasures(c))
  BY <1>1, RequestsFinite, FS_Subset DEF Erasures
<1>5. IsFiniteSet(Erasures(c)')
  BY <1>1, <1>2, <1>3, <1>4, FS_AddElement
<1>6. Erasures(c) \subseteq Erasures(c)'
  BY <1>1, <1>2, <1>3
<1>. QED  BY <1>2, <1>3, <1>4, <1>5, <1>6

\* What was deleted twice stays so; a dead comment that is deleted again is.
LEMMA TwiceStep ==
  ASSUME IdInv, NEW r \in Requests, HandlerStep(r) \/ HandlerFault(r), NEW c
  PROVE  /\ ErasedTwice(c) => ErasedTwice(c)'
         /\ Wrote(r) /\ pc[r] = "erase" /\ id[r] = c /\ c \in dead => ErasedTwice(c)'
<1>1. /\ IsFiniteSet(Erasures(c)) /\ IsFiniteSet(Erasures(c)')
      /\ Erasures(c) \subseteq Erasures(c)'
      /\ Wrote(r) /\ pc[r] = "erase" /\ id[r] = c
           => r \notin Erasures(c) /\ Erasures(c)' = Erasures(c) \cup {r}
  BY ErasuresStep DEF IdInv
<1>2. /\ Cardinality(Erasures(c)) \in Nat /\ Cardinality(Erasures(c)') \in Nat
      /\ Cardinality(Erasures(c)) <= Cardinality(Erasures(c)')
  BY <1>1, FS_Subset, FS_CardinalityType
<1>3. ErasedTwice(c) => ErasedTwice(c)'
  BY <1>2 DEF ErasedTwice
<1>4. ASSUME Wrote(r), pc[r] = "erase", id[r] = c, c \in dead
      PROVE  ErasedTwice(c)'
  <2>1. Erasures(c) # {}
    BY <1>4 DEF IdInv, Gone
  <2>2. Cardinality(Erasures(c)) # 0
    BY <1>1, <2>1, FS_EmptySet
  <2>3. Cardinality(Erasures(c) \cup {r}) = Cardinality(Erasures(c)) + 1
    BY <1>1, <1>4, FS_AddElement
  <2>4. Cardinality(Erasures(c)') = Cardinality(Erasures(c)) + 1
    BY <1>1, <1>4, <2>3
  <2>. QED  BY <1>2, <2>2, <2>4 DEF ErasedTwice
<1>. QED  BY <1>3, <1>4

LEMMA IdStep ==
  ASSUME IdInv, [Next]_vars
  PROVE  IdInv'
<1>. CommitInv /\ CommitInv' /\ Typed /\ Typed'
  BY CommitStep DEF IdInv, CommitInv
<1>1. ASSUME NEW r \in Requests, NEW a \in Calls, Begin(r, a)
      PROVE  IdInv'
  <2>1. /\ pc[r] = "idle" /\ r \notin committed /\ committed \subseteq Requests
        /\ \A q \in Requests \ {r} : pc'[q] = pc[q] /\ call'[q] = call[q] /\ id'[q] = id[q]
        /\ pc'[r] \in {"check", "unlike", "get"} /\ call'[r] = a /\ CallAt(a, pc'[r])
        /\ pc'[r] = "check" => id'[r] \notin live \cup dead /\ \A q \in Requests : id[q] # id'[r]
        /\ UNCHANGED <<live, dead, committed>>
    BY <1>1, BeginStep DEF CommitInv, Typed, TypeOK, dbVars, ghosts
  <2>2. Unborn' /\ Known'
    BY <2>1 DEF IdInv, Unborn, Known
  <2>3. NoTwins'
    BY <2>1 DEF IdInv, NoTwins, Is, CallAt
  <2>4. \A c : Erasures(c)' = Erasures(c)
    BY <2>1 DEF Erasures, Is
  <2>5. Gone'
    BY <2>1, <2>4 DEF IdInv, Gone, Is
  <2>. QED  BY <2>1, <2>2, <2>3, <2>5 DEF IdInv
<1>2. ASSUME NEW r \in Requests, HandlerStep(r) \/ HandlerFault(r)
      PROVE  IdInv'
  <2>1. /\ Looked(r) \/ Wrote(r) \/ DidCount(r)
        /\ call' = call /\ id' = id /\ CallAt(call[r], pc[r]) /\ CallAt(call[r], pc'[r])
        /\ pc[r] # "idle" /\ \A q \in Requests \ {r} : pc'[q] = pc[q]
    BY <1>2, RequestStep DEF Sound, Active
  <2>2. NoTwins'
    BY <2>1 DEF IdInv, NoTwins, Is
  <2>3. \A c \in dead : Erasures(c)' # {}
    BY <1>2, ErasuresStep DEF IdInv, Gone
  <2>4. CASE Looked(r) \/ DidCount(r)
    <3>1. UNCHANGED <<live, dead, committed>>
      BY <2>4 DEF Looked, DidCount, dbVars, ghosts
    <3>2. Unborn'
      BY <2>1, <2>4, <3>1 DEF IdInv, Unborn, Looked, DidCount
    <3>3. Known'
      BY <2>1, <2>4, <3>1 DEF IdInv, Known, Looked, DidCount
    <3>4. Gone'
      BY <2>1, <2>3, <3>1 DEF IdInv, Gone, Is
    <3>. QED  BY <2>2, <3>1, <3>2, <3>3, <3>4 DEF IdInv
  <2>5. CASE Wrote(r)
    <3>1. pc'[r] \in {"count", "notify", "done"} /\ committed' = committed \cup {r}
      BY <2>5 DEF Wrote, ApplyInsert, ApplyErase, ApplyLike, ApplyUnlike
    <3>2. CASE pc[r] = "insert" /\ ApplyInsert(r)
      <4>1. live' = live \cup {id[r]} /\ dead' = dead /\ Is(r, "create")
        BY <2>1, <3>2 DEF ApplyInsert, CallAt, Is
      <4>2. \A q \in Requests \ {r} : pc[q] \in {"check", "parent", "alive", "insert"}
                                        => id[q] # id[r]
        BY <2>1, <4>1, Now DEF IdInv, NoTwins, Is, Active, CallAt
      <4>3. Unborn'
        BY <2>1, <3>1, <4>1, <4>2 DEF IdInv, Unborn
      <4>4. Known'
        BY <2>1, <3>1, <4>1 DEF IdInv, Known
      <4>5. Gone'
        BY <2>1, <2>3, <3>1, <4>1 DEF IdInv, Gone, Is
      <4>6. (live \cap dead)' = {}
        BY <3>2, <4>1 DEF IdInv, Unborn
      <4>. QED  BY <2>2, <4>3, <4>4, <4>5, <4>6 DEF IdInv
    <3>3. CASE pc[r] = "erase" /\ ApplyErase(r)
      <4>1. live' = live \ {id[r]} /\ dead' = dead \cup {id[r]} /\ id[r] \in live \cup dead
        BY <3>3 DEF ApplyErase, IdInv, Known
      <4>2. Unborn' /\ Known'
        BY <2>1, <3>1, <4>1 DEF IdInv, Unborn, Known
      <4>3. r \in Erasures(id[r])'
        BY <2>1, <3>1, <3>3 DEF Erasures, Is, CallAt
      <4>4. Gone'
        BY <2>1, <2>3, <3>1, <4>1, <4>3 DEF IdInv, Gone, Is
      <4>. QED  BY <2>2, <4>1, <4>2, <4>4 DEF IdInv
    <3>4. CASE (pc[r] = "like" /\ ApplyLike(r)) \/ (pc[r] = "unlike" /\ ApplyUnlike(r))
      <4>1. UNCHANGED <<live, dead>> /\ ~Is(r, "delete") /\ pc'[r] \in {"notify", "done"}
        BY <2>1, <2>5, <3>4 DEF Wrote, ApplyLike, ApplyUnlike, CallAt, Is
      <4>2. Unborn' /\ Known'
        BY <2>1, <4>1 DEF IdInv, Unborn, Known
      <4>3. Gone'
        BY <2>1, <2>3, <3>1, <4>1 DEF IdInv, Gone, Is
      <4>. QED  BY <2>2, <4>1, <4>2, <4>3 DEF IdInv
    <3>. QED  BY <2>5, <3>2, <3>3, <3>4 DEF Wrote
  <2>. QED  BY <2>1, <2>4, <2>5
<1>3. CASE ChangeContent \/ UNCHANGED vars
  <2>1. UNCHANGED <<live, dead, pc, call, id, committed>>
    BY <1>3 DEF ChangeContent, vars, dbVars, reqVars, ghosts
  <2>2. Unborn' /\ Known' /\ NoTwins'
    BY <2>1 DEF IdInv, Unborn, Known, NoTwins, Is
  <2>3. Gone'
    BY <2>1 DEF IdInv, Gone, Erasures, Is
  <2>. QED  BY <2>1, <2>2, <2>3 DEF IdInv
<1>. QED  BY <1>1, <1>2, <1>3 DEF Next

-----------------------------------------------------------------------------
(* Replies. *)

NoneTwice(p) == \A c \in dead : info[c].parent = p => ~ErasedTwice(c)

RepliesCounted ==
  \A p \in Comments : NoneTwice(p) => replyCount[p] = Cardinality(Repliers(p))

RepliesInv == IdInv /\ RepliesCounted

LEMMA RepliesWrote ==
  ASSUME RepliesInv, NEW r \in Requests, HandlerStep(r) \/ HandlerFault(r), Wrote(r),
         NEW p \in Comments, NoneTwice(p)'
  PROVE  replyCount'[p] = Cardinality(Repliers(p)')
<1>. IdInv /\ Typed
  BY DEF RepliesInv, IdInv, CommitInv
<1>1. /\ call[r] \in Calls /\ CallAt(call[r], pc[r]) /\ id[r] \in Comments
      /\ live \subseteq Comments /\ info \in [Comments -> Info] /\ replyCount \in [Comments -> Nat]
      /\ p \in Parents /\ 1 \in Int /\ -1 \in Int
  BY RequestStep DEF Typed, TypeOK, Parents
<1>2. dead \subseteq dead' /\ \A c \in dead : info'[c] = info[c]
  <2>1. CASE pc[r] = "insert" /\ ApplyInsert(r)
    BY <1>1, <2>1 DEF ApplyInsert, IdInv, Unborn
  <2>2. CASE ApplyErase(r) \/ ApplyLike(r) \/ ApplyUnlike(r)
    BY <2>2 DEF ApplyErase, ApplyLike, ApplyUnlike
  <2>. QED  BY <2>1, <2>2 DEF Wrote
<1>3. NoneTwice(p)
  <2>1. \A c \in dead : ErasedTwice(c) => ErasedTwice(c)'
    BY TwiceStep
  <2>. QED  BY <1>2, <2>1 DEF NoneTwice
<1>4. replyCount[p] = Cardinality(Repliers(p)) /\ IsFiniteSet(Repliers(p))
  <2>1. Repliers(p) \subseteq Comments
    BY <1>1 DEF Repliers
  <2>. QED  BY <1>3, <2>1, CommentsFinite, FS_Subset DEF RepliesInv, RepliesCounted
<1>5. CASE pc[r] = "insert" /\ ApplyInsert(r)
  <2>1. /\ id[r] \notin live /\ live' = live \cup {id[r]}
        /\ info'[id[r]].parent = call[r].parent
        /\ \A c \in live : info'[c] = info[c]
        /\ call[r].parent \in Parents
        /\ replyCount' = AddTo(replyCount, call[r].parent, 1)
    BY <1>1, <1>5, CallType DEF ApplyInsert, IdInv, Unborn, CallAt
  <2>2. CASE call[r].parent = p
    <3>1. Repliers(p)' = Repliers(p) \cup {id[r]} /\ id[r] \notin Repliers(p)
      BY <2>1, <2>2 DEF Repliers
    <3>2. Cardinality(Repliers(p)') = Cardinality(Repliers(p)) + 1
      BY <1>4, <3>1, FS_AddElement
    <3>3. replyCount'[p] = replyCount[p] + 1
      BY <1>1, <2>1, <2>2, AddToType
    <3>. QED  BY <1>4, <3>2, <3>3
  <2>3. CASE call[r].parent # p
    <3>1. Repliers(p)' = Repliers(p)
      BY <2>1, <2>3 DEF Repliers
    <3>2. replyCount'[p] = replyCount[p]
      <4>1. \A x \in Comments \ {call[r].parent} : AddTo(replyCount, call[r].parent, 1)[x] = replyCount[x]
        BY <1>1, <2>1, AddToType
      <4>. QED  BY <2>1, <2>3, <4>1
    <3>. QED  BY <1>4, <3>1, <3>2
  <2>. QED  BY <2>2, <2>3
<1>6. CASE pc[r] = "erase" /\ ApplyErase(r)
  <2>1. /\ live' = live \ {id[r]} /\ dead' = dead \cup {id[r]} /\ info' = info
        /\ info[id[r]].parent \in Parents /\ id[r] \in live \cup dead
        /\ replyCount' = AddTo(replyCount, info[id[r]].parent, -1)
    BY <1>1, <1>6 DEF ApplyErase, IdInv, Known, Info
  <2>2. CASE info[id[r]].parent = p
    <3>1. id[r] \in live
      <4>1. ASSUME id[r] \in dead
            PROVE  FALSE
        <5>1. PICK c \in dead : id[r] = c
          BY <4>1
        <5>2. ErasedTwice(c)'
          BY <1>6, <5>1, TwiceStep
        <5>. QED  BY <2>1, <2>2, <5>1, <5>2 DEF NoneTwice
      <4>. QED  BY <2>1, <4>1
    <3>2. Repliers(p)' = Repliers(p) \ {id[r]} /\ id[r] \in Repliers(p)
      BY <2>1, <2>2, <3>1 DEF Repliers
    <3>3. Cardinality(Repliers(p) \ {id[r]}) = Cardinality(Repliers(p)) - 1
      BY <1>4, <3>2, FS_RemoveElement
    <3>4. replyCount[p] # 0
      BY <1>4, <3>2, FS_EmptySet
    <3>5. replyCount'[p] = replyCount[p] - 1
      <4>1. AddTo(replyCount, p, -1)[p] = IF replyCount[p] + -1 < 0 THEN 0 ELSE replyCount[p] + -1
        BY <1>1, AddToType
      <4>2. replyCount[p] \in Nat /\ replyCount[p] + -1 >= 0
        BY <1>1, <3>4
      <4>. QED  BY <2>1, <2>2, <4>1, <4>2
    <3>. QED  BY <1>4, <3>2, <3>3, <3>5
  <2>3. CASE info[id[r]].parent # p
    <3>1. Repliers(p)' = Repliers(p)
      BY <2>1, <2>3 DEF Repliers
    <3>2. replyCount'[p] = replyCount[p]
      <4>1. \A x \in Comments \ {info[id[r]].parent} : AddTo(replyCount, info[id[r]].parent, -1)[x] = replyCount[x]
        BY <1>1, <2>1, AddToType
      <4>. QED  BY <2>1, <2>3, <4>1
    <3>. QED  BY <1>4, <3>1, <3>2
  <2>. QED  BY <2>2, <2>3
<1>7. CASE ApplyLike(r) \/ ApplyUnlike(r)
  <2>1. UNCHANGED <<live, info, replyCount>>
    BY <1>7 DEF ApplyLike, ApplyUnlike
  <2>. QED  BY <1>4, <2>1 DEF Repliers
<1>. QED  BY <1>5, <1>6, <1>7 DEF Wrote

LEMMA RepliesStep ==
  ASSUME RepliesInv, [Next]_vars
  PROVE  RepliesInv'
<1>. IdInv /\ IdInv' /\ CommitInv /\ Typed
  BY IdStep DEF RepliesInv, IdInv, CommitInv
<1>1. ASSUME UNCHANGED <<live, dead, info, replyCount>>, \A c \in dead : Erasures(c)' = Erasures(c)
      PROVE  RepliesCounted'
  <2>1. \A c \in dead : ErasedTwice(c)' <=> ErasedTwice(c)
    BY <1>1 DEF ErasedTwice
  <2>2. \A p \in Comments : NoneTwice(p)' => NoneTwice(p)
    BY <1>1, <2>1 DEF NoneTwice
  <2>3. \A p \in Comments : Repliers(p)' = Repliers(p)
    BY <1>1 DEF Repliers
  <2>. QED  BY <1>1, <2>2, <2>3 DEF RepliesInv, RepliesCounted
<1>2. ASSUME NEW r \in Requests, NEW a \in Calls, Begin(r, a)
      PROVE  RepliesCounted'
  <2>1. /\ UNCHANGED <<live, dead, info, replyCount, committed>> /\ r \notin committed
        /\ \A q \in Requests \ {r} : call'[q] = call[q] /\ id'[q] = id[q]
        /\ committed \subseteq Requests
    BY <1>2, BeginStep DEF dbVars, ghosts, CommitInv, Typed, TypeOK
  <2>2. \A c \in dead : Erasures(c)' = Erasures(c)
    BY <2>1 DEF Erasures, Is
  <2>. QED  BY <1>1, <2>1, <2>2
<1>3. ASSUME NEW r \in Requests, HandlerStep(r) \/ HandlerFault(r)
      PROVE  RepliesCounted'
  <2>1. Looked(r) \/ Wrote(r) \/ DidCount(r)
    BY <1>3, RequestStep
  <2>2. CASE Looked(r) \/ DidCount(r)
    <3>1. \A c \in dead : Erasures(c)' = Erasures(c)
      BY <1>3, <2>2, ErasuresStep
    <3>. QED  BY <1>1, <2>2, <3>1 DEF Looked, DidCount, dbVars
  <2>3. CASE Wrote(r)
    BY <1>3, <2>3, RepliesWrote DEF RepliesCounted
  <2>. QED  BY <2>1, <2>2, <2>3
<1>4. CASE ChangeContent \/ UNCHANGED vars
  <2>1. UNCHANGED <<live, dead, info, replyCount>> /\ UNCHANGED <<call, id, committed>>
    BY <1>4 DEF ChangeContent, vars, dbVars, reqVars, ghosts
  <2>2. \A c \in dead : Erasures(c)' = Erasures(c)
    BY <2>1 DEF Erasures, Is
  <2>. QED  BY <1>1, <2>1, <2>2 DEF RepliesInv
<1>. QED  BY <1>2, <1>3, <1>4 DEF Next, RepliesInv

\* The reply_count of a comment is the number of its replies, in every
\* interleaving and whatever fails, unless one of them was deleted twice (Create
\* and Delete of comment_data_access.go).
THEOREM RepliesExact == Spec => []ReplyCountExact
<1>1. ASSUME Init
      PROVE  RepliesInv
  <2>1. RepliesCounted
    BY <1>1 DEF Init, RepliesCounted
  <2>. QED  BY <1>1, <2>1, IdInit DEF RepliesInv
<1>2. RepliesInv => ReplyCountExact
  BY DEF RepliesInv, RepliesCounted, NoneTwice, ReplyCountExact, IdInv, CommitInv, Typed, TypeOK
<1>. QED  BY <1>1, <1>2, RepliesStep, PTL DEF Spec

-----------------------------------------------------------------------------
(* comment_count. *)

Owes(r, p, d) == pc[r] = "count" /\ ContentOf(r) = p /\ Delta(r) = d
Shown(p) == {c \in live : info[c].content = p}
Extras(p) == {r \in committed : Is(r, "delete") /\ ContentOf(r) = p /\ ErasedTwice(id[r])}

CountInv == IdInv /\ CommentCountNotTooLow

LEMMA Grown ==
  ASSUME NEW S, NEW T, IsFiniteSet(T), S \subseteq T
  PROVE  \E x \in Nat : Cardinality(T) = Cardinality(S) + x /\ (S # T => x >= 1)
<1>1. /\ IsFiniteSet(S) /\ Cardinality(S) <= Cardinality(T)
      /\ (Cardinality(T) = Cardinality(S) => S = T)
  BY FS_Subset
<1>2. Cardinality(S) \in Nat /\ Cardinality(T) \in Nat
  BY <1>1, FS_CardinalityType
<1>3. Cardinality(T) - Cardinality(S) \in Nat
  BY <1>1, <1>2
<1>. WITNESS Cardinality(T) - Cardinality(S) \in Nat
<1>. QED  BY <1>1, <1>2

\* One request comes to owe the counter something, or no longer does.
LEMMA OwingStep ==
  ASSUME NEW p, NEW d, NEW r \in Requests,
         \A q \in Requests \ {r} : Owes(q, p, d)' <=> Owes(q, p, d)
  PROVE  /\ Owing(p, d) \in Nat
         /\ Owing(p, d)' = Owing(p, d) + (IF Owes(r, p, d)
                                          THEN IF Owes(r, p, d)' THEN 0 ELSE -1
                                          ELSE IF Owes(r, p, d)' THEN 1 ELSE 0)
<1>. DEFINE S == {q \in Requests : Owes(q, p, d)}
<1>1. Owing(p, d) = Cardinality(S) /\ Owing(p, d)' = Cardinality(S')
  BY DEF Owing, Owes
<1>2. IsFiniteSet(S) /\ Cardinality(S) \in Nat
  BY RequestsFinite, FS_Subset, FS_CardinalityType
<1>3. CASE Owes(r, p, d) <=> Owes(r, p, d)'
  <2>1. S' = S
    BY <1>3
  <2>. QED  BY <1>1, <1>2, <1>3, <2>1
<1>4. CASE Owes(r, p, d) /\ ~Owes(r, p, d)'
  <2>1. S' = S \ {r} /\ r \in S
    BY <1>4
  <2>2. Cardinality(S \ {r}) = Cardinality(S) - 1
    BY <1>2, <2>1, FS_RemoveElement
  <2>. QED  BY <1>1, <1>2, <1>4, <2>1, <2>2
<1>5. CASE ~Owes(r, p, d) /\ Owes(r, p, d)'
  <2>1. S' = S \cup {r} /\ r \notin S
    BY <1>5
  <2>2. Cardinality(S \cup {r}) = Cardinality(S) + 1
    BY <1>2, <2>1, FS_AddElement
  <2>. QED  BY <1>1, <1>2, <1>5, <2>1, <2>2
<1>. QED  BY <1>3, <1>4, <1>5

\* What a step must leave in balance.
LEMMA LowStep ==
  ASSUME NEW p, NEW a \in Int, NEW b \in Int, NEW g \in Int, NEW l \in Int, NEW z \in Int,
         NEW x \in Int,
         Owing(p, 1)' = Owing(p, 1) + a, Owing(p, -1)' = Owing(p, -1) + b,
         Cardinality(Shown(p)') = Cardinality(Shown(p)) + l,
         faults' = faults + z, Extra(p)' = Extra(p) + x,
         commentCount'[p] >= commentCount[p] + g,
         g + a - b >= l - z - x,
         commentCount[p] \in Int, commentCount'[p] \in Int, faults \in Int,
         Owing(p, 1) \in Int, Owing(p, -1) \in Int, Extra(p) \in Int,
         Cardinality(Shown(p)) \in Int,
         commentCount[p] + Owing(p, 1) - Owing(p, -1)
           >= Cardinality(Shown(p)) - faults - Extra(p)
  PROVE  commentCount'[p] + Owing(p, 1)' - Owing(p, -1)'
           >= Cardinality(Shown(p)') - faults' - Extra(p)'
OBVIOUS

\* A step of a request leaves the comments there are where they are, and so what
\* the others owe.
LEMMA InfoStep ==
  ASSUME IdInv, NEW r \in Requests, HandlerStep(r) \/ HandlerFault(r)
  PROVE  /\ \A c \in live \cup dead : info'[c] = info[c]
         /\ dead \subseteq dead'
         /\ \A q \in Requests : id[q] \in live \cup dead => ContentOf(q)' = ContentOf(q)
         /\ \A q \in Requests : Delta(q)' = Delta(q)
         /\ \A p, d : \A q \in Requests \ {r} : Owes(q, p, d)' <=> Owes(q, p, d)
<1>1. /\ Looked(r) \/ Wrote(r) \/ DidCount(r)
      /\ call' = call /\ id' = id /\ \A q \in Requests \ {r} : pc'[q] = pc[q]
      /\ info \in [Comments -> Info]
  BY RequestStep DEF Sound, IdInv, CommitInv, Typed, TypeOK
<1>2. dead \subseteq dead' /\ \A c \in live \cup dead : info'[c] = info[c]
  <2>1. CASE pc[r] = "insert" /\ ApplyInsert(r)
    BY <1>1, <2>1 DEF ApplyInsert, IdInv, Unborn
  <2>2. CASE ApplyErase(r) \/ ApplyLike(r) \/ ApplyUnlike(r) \/ Looked(r) \/ DidCount(r)
    BY <2>2 DEF ApplyErase, ApplyLike, ApplyUnlike, Looked, DidCount, dbVars
  <2>. QED  BY <1>1, <2>1, <2>2 DEF Wrote
<1>3. \A q \in Requests : id[q] \in live \cup dead => ContentOf(q)' = ContentOf(q)
  BY <1>1, <1>2 DEF ContentOf
<1>4. \A q \in Requests : Delta(q)' = Delta(q)
  BY <1>1 DEF Delta, Is
<1>5. ASSUME NEW p, NEW d, NEW q \in Requests \ {r}
      PROVE  Owes(q, p, d)' <=> Owes(q, p, d)
  <2>1. pc[q] = "count" => id[q] \in live \cup dead
    BY DEF IdInv, Known
  <2>. QED  BY <1>1, <1>3, <1>4, <2>1 DEF Owes
<1>. QED  BY <1>2, <1>3, <1>4, <1>5

\* The deletions too many only grow, and one more of a dead comment is one.
LEMMA ExtraStep ==
  ASSUME IdInv, NEW r \in Requests, HandlerStep(r) \/ HandlerFault(r), NEW p
  PROVE  /\ Extra(p) \in Nat
         /\ \E x \in Nat :
              /\ Extra(p)' = Extra(p) + x
              /\ Wrote(r) /\ pc[r] = "erase" /\ id[r] \in dead /\ ContentOf(r) = p => x >= 1
<1>. CommitInv /\ Typed
  BY DEF IdInv, CommitInv
<1>1. /\ Looked(r) \/ Wrote(r) \/ DidCount(r)
      /\ call' = call /\ id' = id /\ CallAt(call[r], pc[r])
      /\ committed \subseteq Requests
  BY RequestStep DEF Sound, Typed, TypeOK
<1>2. committed \subseteq committed' /\ committed' \subseteq committed \cup {r}
  BY <1>1 DEF Looked, Wrote, DidCount, ghosts, ApplyInsert, ApplyErase, ApplyLike, ApplyUnlike
<1>3. Extra(p) = Cardinality(Extras(p)) /\ Extra(p)' = Cardinality(Extras(p)')
  BY DEF Extra, Extras
<1>4. IsFiniteSet(Extras(p)')
  <2>1. Extras(p)' \subseteq Requests
    BY <1>1, <1>2 DEF Extras
  <2>. QED  BY <2>1, RequestsFinite, FS_Subset
<1>5. ASSUME NEW q \in Extras(p)
      PROVE  q \in Extras(p)'
  <2>1. q \in committed /\ Is(q, "delete") /\ ContentOf(q) = p /\ ErasedTwice(id[q])
        /\ q \in Requests
    BY <1>1 DEF Extras
  <2>2. id[q] \in dead
    BY <2>1 DEF IdInv, Gone
  <2>3. ContentOf(q)' = p
    BY <2>1, <2>2, InfoStep
  <2>4. \A c : ErasedTwice(c) => ErasedTwice(c)'
    BY TwiceStep
  <2>5. ErasedTwice(id[q])'
    BY <1>1, <2>1, <2>4 DEF ErasedTwice, Erasures, Is
  <2>. QED  BY <1>1, <1>2, <2>1, <2>3, <2>5 DEF Extras, Is
<1>6. ASSUME Wrote(r), pc[r] = "erase", id[r] \in dead, ContentOf(r) = p
      PROVE  Extras(p) # Extras(p)'
  <2>1. r \notin committed /\ r \in committed' /\ Is(r, "delete")
    BY <1>1, <1>6 DEF CommitInv, Wrote, ApplyErase, CallAt, Is
  <2>2. \A c : id[r] = c => ErasedTwice(c)'
    BY <1>6, TwiceStep
  <2>3. ErasedTwice(id[r])'
    BY <1>1, <2>2 DEF ErasedTwice, Erasures, Is
  <2>4. ContentOf(r)' = p
    BY <1>6, InfoStep
  <2>. QED  BY <1>1, <2>1, <2>3, <2>4 DEF Extras, Is
<1>7. Extra(p) \in Nat
  <2>1. IsFiniteSet(Extras(p))
    BY <1>1, RequestsFinite, FS_Subset DEF Extras
  <2>. QED  BY <1>3, <2>1, FS_CardinalityType
<1>8. PICK x \in Nat : Cardinality(Extras(p)') = Cardinality(Extras(p)) + x
                       /\ (Extras(p) # Extras(p)' => x >= 1)
  <2>1. Extras(p) \subseteq Extras(p)'
    BY <1>5
  <2>. QED  BY <1>4, <2>1, Grown
<1>. QED  BY <1>3, <1>6, <1>7, <1>8

LEMMA CountRequest ==
  ASSUME CountInv, NEW r \in Requests, HandlerStep(r) \/ HandlerFault(r), NEW p \in open'
  PROVE  commentCount'[p] + Owing(p, 1)' - Owing(p, -1)'
           >= Cardinality(Shown(p)') - faults' - Extra(p)'
<1>. IdInv /\ Typed /\ Typed'
  BY TypeStep DEF CountInv, IdInv, CommitInv, Next
<1>1. /\ Looked(r) \/ Wrote(r) \/ DidCount(r)
      /\ call' = call /\ id' = id /\ pc[r] # "idle" /\ open' = open
      /\ CallAt(call[r], pc[r]) /\ CallAt(call[r], pc'[r])
      /\ id[r] \in Comments /\ p \in open /\ p \in Contents
      /\ faults' \in {faults, faults + 1}
  BY RequestStep DEF Sound, Active, Typed, TypeOK
<1>2. /\ commentCount[p] \in Int /\ commentCount'[p] \in Int /\ faults \in Int
      /\ commentCount \in [Contents -> Nat]
  BY <1>1, BoundAssumption DEF Typed, TypeOK
<1>3. IsFiniteSet(Shown(p)) /\ Cardinality(Shown(p)) \in Int
  <2>1. Shown(p) \subseteq Comments
    BY DEF Shown, Typed, TypeOK
  <2>2. IsFiniteSet(Shown(p))
    BY <2>1, CommentsFinite, FS_Subset
  <2>. QED  BY <2>2, FS_CardinalityType
<1>4. commentCount[p] + Owing(p, 1) - Owing(p, -1) >= Cardinality(Shown(p)) - faults - Extra(p)
  BY <1>1 DEF CountInv, CommentCountNotTooLow, Shown
<1>5. /\ \A d : \A q \in Requests \ {r} : Owes(q, p, d)' <=> Owes(q, p, d)
      /\ id[r] \in live \cup dead => ContentOf(r)' = ContentOf(r)
      /\ Delta(r)' = Delta(r)
  BY InfoStep
<1>6. /\ Owing(p, 1) \in Int /\ Owing(p, -1) \in Int /\ Extra(p) \in Int
      /\ Owing(p, 1)' = Owing(p, 1) + (IF Owes(r, p, 1) THEN IF Owes(r, p, 1)' THEN 0 ELSE -1
                                       ELSE IF Owes(r, p, 1)' THEN 1 ELSE 0)
      /\ Owing(p, -1)' = Owing(p, -1) + (IF Owes(r, p, -1) THEN IF Owes(r, p, -1)' THEN 0 ELSE -1
                                         ELSE IF Owes(r, p, -1)' THEN 1 ELSE 0)
  BY <1>5, OwingStep, ExtraStep
<1>7. PICK x \in Nat :
        /\ Extra(p)' = Extra(p) + x
        /\ Wrote(r) /\ pc[r] = "erase" /\ id[r] \in dead /\ ContentOf(r) = p => x >= 1
  BY ExtraStep
<1>8. Delta(r) = IF call[r].op = "create" THEN 1 ELSE -1
  BY DEF Delta, Is
<1>. DEFINE Balance(a, b, g, l, z) ==
       /\ Owing(p, 1)' = Owing(p, 1) + a /\ Owing(p, -1)' = Owing(p, -1) + b
       /\ Cardinality(Shown(p)') = Cardinality(Shown(p)) + l
       /\ faults' = faults + z
       /\ commentCount'[p] >= commentCount[p] + g
       /\ g + a - b >= l - z - x
<1>9. ASSUME NEW a \in Int, NEW b \in Int, NEW g \in Int, NEW l \in Int, NEW z \in Int,
             Balance(a, b, g, l, z)
      PROVE  commentCount'[p] + Owing(p, 1)' - Owing(p, -1)'
               >= Cardinality(Shown(p)') - faults' - Extra(p)'
  BY <1>2, <1>3, <1>4, <1>6, <1>7, <1>9, LowStep
<1>. HIDE DEF Balance
<1>10. CASE UNCHANGED <<live, info>> /\ commentCount' = commentCount
            /\ pc[r] # "count" /\ pc'[r] # "count"
  <2>1. Shown(p)' = Shown(p)
    BY <1>10 DEF Shown
  <2>2. \A d : ~Owes(r, p, d) /\ ~Owes(r, p, d)'
    BY <1>10 DEF Owes
  <2>5. ~Owes(r, p, 1) /\ ~Owes(r, p, 1)' /\ ~Owes(r, p, -1) /\ ~Owes(r, p, -1)'
    BY <2>2
  <2>3. PICK z \in {0, 1} : faults' = faults + z
    BY <1>1, <1>2
  <2>4. Balance(0, 0, 0, 0, z)
    BY <1>2, <1>3, <1>6, <1>7, <1>10, <2>1, <2>3, <2>5 DEF Balance
  <2>. QED  BY <1>9, <2>3, <2>4
<1>11. CASE pc[r] = "insert" /\ Wrote(r)
  <2>1. /\ ApplyInsert(r) /\ commentCount' = commentCount /\ call[r].op = "create"
        /\ \/ pc'[r] = "count" /\ faults' = faults
           \/ pc'[r] = "done" /\ faults' = faults + 1
    BY <1>1, <1>11 DEF Wrote, CallAt
  <2>2. /\ live' = live \cup {id[r]} /\ id[r] \notin live
        /\ info'[id[r]].content = call[r].content /\ \A c \in live : info'[c] = info[c]
    BY <1>1, <1>11, <2>1 DEF ApplyInsert, IdInv, CommitInv, Typed, TypeOK, Unborn
  <2>3. ~Owes(r, p, 1) /\ ~Owes(r, p, -1) /\ ~Owes(r, p, -1)'
    BY <1>5, <1>8, <1>11, <2>1 DEF Owes
  <2>4. Owes(r, p, 1)' <=> pc'[r] = "count" /\ call[r].content = p
    BY <1>1, <1>5, <1>8, <2>1, <2>2 DEF Owes, ContentOf
  <2>5. CASE call[r].content = p
    <3>1. Shown(p)' = Shown(p) \cup {id[r]} /\ id[r] \notin Shown(p)
      BY <2>2, <2>5 DEF Shown
    <3>2. Cardinality(Shown(p) \cup {id[r]}) = Cardinality(Shown(p)) + 1
      BY <1>3, <3>1, FS_AddElement
    <3>3. CASE pc'[r] = "count"
      <4>1. Balance(1, 0, 0, 1, 0)
        BY <1>2, <1>6, <1>7, <2>1, <2>3, <2>4, <2>5, <3>1, <3>2, <3>3 DEF Balance
      <4>. QED  BY <1>9, <4>1
    <3>4. CASE pc'[r] = "done"
      <4>1. Balance(0, 0, 0, 1, 1)
        BY <1>2, <1>6, <1>7, <2>1, <2>3, <2>4, <2>5, <3>1, <3>2, <3>4 DEF Balance
      <4>. QED  BY <1>9, <4>1
    <3>. QED  BY <2>1, <3>3, <3>4
  <2>6. CASE call[r].content # p
    <3>1. Shown(p)' = Shown(p)
      BY <2>2, <2>6 DEF Shown
    <3>2. PICK z \in {0, 1} : faults' = faults + z
      BY <1>1, <1>2
    <3>3. Balance(0, 0, 0, 0, z)
      BY <1>2, <1>3, <1>6, <1>7, <2>1, <2>3, <2>4, <2>6, <3>1, <3>2 DEF Balance
    <3>. QED  BY <1>9, <3>2, <3>3
  <2>. QED  BY <2>5, <2>6
<1>12. CASE pc[r] = "erase" /\ Wrote(r)
  <2>1. /\ ApplyErase(r) /\ commentCount' = commentCount /\ call[r].op = "delete"
        /\ \/ pc'[r] = "count" /\ faults' = faults
           \/ pc'[r] = "done" /\ faults' = faults + 1
    BY <1>1, <1>12 DEF Wrote, CallAt
  <2>2. live' = live \ {id[r]} /\ info' = info /\ id[r] \in live \cup dead
    BY <1>12, <2>1 DEF ApplyErase, IdInv, Known
  <2>3. ~Owes(r, p, 1) /\ ~Owes(r, p, -1) /\ ~Owes(r, p, 1)'
    BY <1>5, <1>8, <1>12, <2>1 DEF Owes
  <2>4. Owes(r, p, -1)' <=> pc'[r] = "count" /\ ContentOf(r) = p
    BY <1>1, <1>5, <1>8, <2>1, <2>2 DEF Owes
  <2>5. CASE ContentOf(r) = p
    <3>1. CASE id[r] \in live
      <4>1. Shown(p)' = Shown(p) \ {id[r]} /\ id[r] \in Shown(p)
        BY <2>2, <2>5, <3>1 DEF Shown, ContentOf
      <4>2. Cardinality(Shown(p) \ {id[r]}) = Cardinality(Shown(p)) - 1
        BY <1>3, <4>1, FS_RemoveElement
      <4>3. CASE pc'[r] = "count"
        <5>1. Balance(0, 1, 0, -1, 0)
          BY <1>2, <1>3, <1>6, <1>7, <2>1, <2>3, <2>4, <2>5, <4>1, <4>2, <4>3 DEF Balance
        <5>. QED  BY <1>9, <5>1
      <4>4. CASE pc'[r] = "done"
        <5>1. Balance(0, 0, 0, -1, 1)
          BY <1>2, <1>3, <1>6, <1>7, <2>1, <2>3, <2>4, <2>5, <4>1, <4>2, <4>4 DEF Balance
        <5>. QED  BY <1>9, <5>1
      <4>. QED  BY <2>1, <4>3, <4>4
    <3>2. CASE id[r] \notin live
      <4>1. Shown(p)' = Shown(p)
        BY <2>2, <3>2 DEF Shown
      <4>2. x >= 1
        BY <1>7, <1>12, <2>2, <2>5, <3>2
      <4>3. CASE pc'[r] = "count"
        <5>1. Balance(0, 1, 0, 0, 0)
          BY <1>2, <1>3, <1>6, <1>7, <2>1, <2>3, <2>4, <2>5, <4>1, <4>2, <4>3 DEF Balance
        <5>. QED  BY <1>9, <5>1
      <4>4. CASE pc'[r] = "done"
        <5>1. Balance(0, 0, 0, 0, 1)
          BY <1>2, <1>3, <1>6, <1>7, <2>1, <2>3, <2>4, <2>5, <4>1, <4>4 DEF Balance
        <5>. QED  BY <1>9, <5>1
      <4>. QED  BY <2>1, <4>3, <4>4
    <3>. QED  BY <3>1, <3>2
  <2>6. CASE ContentOf(r) # p
    <3>1. Shown(p)' = Shown(p)
      BY <2>2, <2>6 DEF Shown, ContentOf
    <3>2. PICK z \in {0, 1} : faults' = faults + z
      BY <1>1, <1>2
    <3>3. Balance(0, 0, 0, 0, z)
      BY <1>2, <1>3, <1>6, <1>7, <2>1, <2>3, <2>4, <2>6, <3>1, <3>2 DEF Balance
    <3>. QED  BY <1>9, <3>2, <3>3
  <2>. QED  BY <2>5, <2>6
<1>13. CASE DidCount(r)
  <2>1. /\ pc[r] = "count" /\ UNCHANGED <<live, info>> /\ id[r] \in live \cup dead
    BY <1>13 DEF DidCount, dbVars, IdInv, Known
  <2>2. Shown(p)' = Shown(p)
    BY <2>1 DEF Shown
  <2>3. ContentOf(r)' = ContentOf(r) /\ Delta(r)' = Delta(r)
    BY <1>5, <2>1
  <2>4. CASE ContentOf(r) # p
    <3>1. \A d : ~Owes(r, p, d) /\ ~Owes(r, p, d)'
      BY <2>3, <2>4 DEF Owes
    <3>2. commentCount'[p] = commentCount[p]
      BY <1>1, <1>13, <2>4, MoveEffect DEF DidCount
    <3>3. PICK z \in {0, 1} : faults' = faults + z
      BY <1>1, <1>2
    <3>4. Balance(0, 0, 0, 0, z)
      BY <1>2, <1>3, <1>6, <1>7, <2>2, <3>1, <3>2, <3>3 DEF Balance
    <3>. QED  BY <1>9, <3>3, <3>4
  <2>5. CASE ContentOf(r) = p
    <3>1. Delta(r) \in Int
      BY <1>8
    <3>2. /\ MoveCount(r) => commentCount'[p] >= commentCount[p] + Delta(r)
          /\ \/ faults' = faults /\ pc'[r] # "count" /\ MoveCount(r)
             \/ faults' = faults + 1 /\ MoveCount(r)
             \/ faults' = faults + 1 /\ UNCHANGED commentCount
      BY <1>1, <1>13, <2>5, MoveEffect DEF DidCount
    <3>3. /\ Owes(r, p, 1) <=> Delta(r) = 1
          /\ Owes(r, p, -1) <=> Delta(r) = -1
          /\ Owes(r, p, 1)' <=> Delta(r) = 1 /\ pc'[r] = "count"
          /\ Owes(r, p, -1)' <=> Delta(r) = -1 /\ pc'[r] = "count"
      BY <2>1, <2>3, <2>5 DEF Owes
    <3>4. PICK g \in {0, Delta(r)}, z \in {0, 1} :
            /\ commentCount'[p] >= commentCount[p] + g /\ faults' = faults + z
            /\ z = 0 => g = Delta(r) /\ pc'[r] # "count"
      <4>1. CASE faults' = faults /\ pc'[r] # "count" /\ MoveCount(r)
        <5>1. commentCount'[p] >= commentCount[p] + Delta(r) /\ faults' = faults + 0
          BY <1>2, <3>2, <4>1
        <5>. QED  BY <4>1, <5>1
      <4>2. CASE faults' = faults + 1 /\ MoveCount(r)
        BY <3>2, <4>2
      <4>3. CASE faults' = faults + 1 /\ UNCHANGED commentCount
        <5>1. commentCount'[p] >= commentCount[p] + 0
          BY <1>2, <4>3
        <5>. QED  BY <4>3, <5>1
      <4>. QED  BY <3>2, <4>1, <4>2, <4>3
    <3>5. CASE Delta(r) = 1
      <4>1. PICK a \in {0, -1} : /\ Owing(p, 1)' = Owing(p, 1) + a
                                 /\ Owing(p, -1)' = Owing(p, -1) + 0
        BY <1>6, <3>3, <3>5
      <4>2. Cardinality(Shown(p)') = Cardinality(Shown(p)) + 0
        BY <1>3, <2>2
      <4>3. g + a - 0 >= 0 - z - x
        BY <1>7, <3>4, <3>5, <4>1
      <4>4. Balance(a, 0, g, 0, z)
        BY <3>4, <4>1, <4>2, <4>3 DEF Balance
      <4>. QED  BY <1>9, <3>1, <3>4, <4>1, <4>4
    <3>6. CASE Delta(r) = -1
      <4>1. PICK b \in {0, -1} : /\ Owing(p, 1)' = Owing(p, 1) + 0
                                 /\ Owing(p, -1)' = Owing(p, -1) + b
                                 /\ pc'[r] # "count" => b = -1
        BY <1>6, <3>3, <3>6
      <4>2. Cardinality(Shown(p)') = Cardinality(Shown(p)) + 0
        BY <1>3, <2>2
      <4>3. g + 0 - b >= 0 - z - x
        BY <1>7, <3>4, <3>6, <4>1
      <4>4. Balance(0, b, g, 0, z)
        BY <3>4, <4>1, <4>2, <4>3 DEF Balance
      <4>. QED  BY <1>9, <3>1, <3>4, <4>1, <4>4
    <3>. QED  BY <1>8, <3>5, <3>6
  <2>. QED  BY <2>4, <2>5
<1>14. CASE Looked(r) \/ (Wrote(r) /\ pc[r] \notin {"insert", "erase"})
  <2>1. UNCHANGED <<live, info>> /\ commentCount' = commentCount
        /\ pc[r] # "count" /\ pc'[r] # "count"
    BY <1>14 DEF Looked, Wrote, ApplyLike, ApplyUnlike, dbVars
  <2>. QED  BY <1>10, <2>1
<1>. QED  BY <1>1, <1>11, <1>12, <1>13, <1>14

LEMMA CountStep ==
  ASSUME CountInv, [Next]_vars
  PROVE  CountInv'
<1>. IdInv /\ IdInv' /\ CommitInv /\ Typed
  BY IdStep DEF CountInv, IdInv, CommitInv
<1>1. ASSUME NEW r \in Requests, HandlerStep(r) \/ HandlerFault(r)
      PROVE  CommentCountNotTooLow'
  BY <1>1, CountRequest DEF CommentCountNotTooLow, Shown
<1>2. ASSUME UNCHANGED <<commentCount, live, info, faults>>, open' \subseteq open,
             \A p, d : Owing(p, d)' = Owing(p, d), \A p : Extra(p)' = Extra(p)
      PROVE  CommentCountNotTooLow'
  BY <1>2 DEF CountInv, CommentCountNotTooLow
<1>3. ASSUME NEW r \in Requests, NEW a \in Calls, Begin(r, a)
      PROVE  CommentCountNotTooLow'
  <2>1. /\ UNCHANGED <<commentCount, live, info, faults, committed, open>>
        /\ r \notin committed /\ committed \subseteq Requests
        /\ pc[r] # "count" /\ pc'[r] # "count"
        /\ \A q \in Requests \ {r} : pc'[q] = pc[q] /\ call'[q] = call[q] /\ id'[q] = id[q]
    BY <1>3, BeginStep DEF dbVars, ghosts, content, CommitInv, Typed, TypeOK
  <2>2. \A p, d : Owing(p, d)' = Owing(p, d)
    <3>1. ASSUME NEW p, NEW d
          PROVE  {q \in Requests : pc[q] = "count" /\ ContentOf(q) = p /\ Delta(q) = d}'
                   = {q \in Requests : pc[q] = "count" /\ ContentOf(q) = p /\ Delta(q) = d}
      BY <2>1 DEF ContentOf, Delta, Is
    <3>. QED  BY <3>1 DEF Owing
  <2>3. \A c : Erasures(c)' = Erasures(c)
    BY <2>1 DEF Erasures, Is
  <2>4. \A c : ErasedTwice(c)' <=> ErasedTwice(c)
    BY <2>3 DEF ErasedTwice
  <2>5. \A p : Extras(p)' = Extras(p)
    <3>1. ASSUME NEW q \in committed
          PROVE  /\ Is(q, "delete")' <=> Is(q, "delete")
                 /\ ContentOf(q)' = ContentOf(q)
                 /\ ErasedTwice(id[q])' <=> ErasedTwice(id[q])
      <4>1. q \in Requests \ {r} /\ call'[q] = call[q] /\ id'[q] = id[q]
        BY <2>1
      <4>2. \A c : c = id[q] => (ErasedTwice(c)' <=> ErasedTwice(id[q]))
        BY <2>4
      <4>. QED  BY <2>1, <2>3, <4>1 DEF Is, ContentOf, ErasedTwice, Erasures
    <3>. QED  BY <2>1, <3>1 DEF Extras
  <2>6. \A p : Extra(p)' = Extra(p)
    BY <2>5 DEF Extra, Extras
  <2>. QED  BY <1>2, <2>1, <2>2, <2>6
<1>4. CASE ChangeContent \/ UNCHANGED vars
  <2>1. /\ UNCHANGED <<commentCount, live, info, faults>> /\ open' \subseteq open
        /\ UNCHANGED <<pc, call, id, committed>>
    BY <1>4 DEF ChangeContent, vars, content, dbVars, reqVars, ghosts
  <2>2. \A p, d : Owing(p, d)' = Owing(p, d)
    BY <2>1 DEF Owing, ContentOf, Delta, Is
  <2>3. \A p : Extra(p)' = Extra(p)
    BY <2>1 DEF Extra, ContentOf, ErasedTwice, Erasures, Is
  <2>. QED  BY <1>2, <2>1, <2>2, <2>3 DEF CountInv
<1>. QED  BY <1>1, <1>3, <1>4 DEF Next, CountInv

\* An open content never shows fewer comments than it has, but for the calls
\* under way, for failures and for comments deleted twice (CreateComment and
\* DeleteComment of comment_service.go and the retries of their UpdateCounter).
THEOREM CountNotTooLow == Spec => []CommentCountNotTooLow
<1>1. ASSUME Init
      PROVE  CountInv
  <2>1. \A p, d : Owing(p, d) = 0
    <3>1. \A p, d : {r \in Requests : pc[r] = "count" /\ ContentOf(r) = p /\ Delta(r) = d} = {}
      BY <1>1 DEF Init
    <3>. QED  BY <3>1, FS_EmptySet DEF Owing
  <2>2. \A p : Extra(p) = 0
    <3>1. \A p : {r \in committed : Is(r, "delete") /\ ContentOf(r) = p /\ ErasedTwice(id[r])} = {}
      BY <1>1 DEF Init
    <3>. QED  BY <3>1, FS_EmptySet DEF Extra
  <2>3. IdInv /\ Typed
    BY <1>1, IdInit, TypeInit
  <2>4. ASSUME NEW p \in open
        PROVE  /\ commentCount[p] = Cardinality({c \in live : info[c].content = p})
               /\ commentCount[p] \in Nat /\ faults = 0
    BY <1>1, <2>3 DEF Init, Typed, TypeOK
  <2>. QED  BY <2>1, <2>2, <2>3, <2>4 DEF CountInv, CommentCountNotTooLow
<1>. QED  BY <1>1, CountStep, PTL DEF Spec, CountInv

=============================================================================
