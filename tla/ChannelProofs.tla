--------------------------- MODULE ChannelProofs ---------------------------
(***************************************************************************)
(* For any finite sets of users and requests, and any failures: type       *)
(* correctness of Channel, that its counts are off by no more than         *)
(* failures explain, who may change what, and that a deleted channel takes *)
(* nothing new.                                                            *)
(***************************************************************************)
EXTENDS Channel, FiniteSetTheorems, TLAPS

Pcs == Writes \cup {"idle", "get_post", "get_channel", "check_admin", "is_subscribed",
                    "count", "done"}
Ops == {"create", "update", "delete", "subscribe", "unsubscribe", "publish", "add_admin",
        "remove_admin", "delete_post"}
Tables == [channel : {"none", "live", "deleted"}, profile : Posts, admins : SUBSET Users,
           subscribers : SUBSET Users, subscriberCount : Nat,
           posts : [Posts -> {"none", "there", "deleted"}], postCount : Nat]

-----------------------------------------------------------------------------
(* Lemmas on the calls and on what a statement writes. *)

\* What the arguments of a call are.
LEMMA CallType ==
  ASSUME NEW a \in Calls
  PROVE  /\ a.op \in Ops /\ a.user \in Users
         /\ a.op \in {"add_admin", "remove_admin"} => a.target \in Users
         /\ a.op = "delete_post" => a.post \in Posts
BY ChannelAssumption DEF Ops

\* The RPC whose statement each pc is.
CallAt(a, label) ==
  /\ label \in {"insert_channel", "insert_admin"} => a.op = "create" /\ a.user = Owner
  /\ label = "get_post" => a.op = "delete_post"
  /\ label = "get_channel" => a.op \in Ops \ {"create", "unsubscribe"}
  /\ label = "check_admin" => a.op \in {"update", "publish", "delete_post"}
  /\ label \in {"is_subscribed", "insert_subscription"} => a.op = "subscribe"
  /\ label = "remove_subscription" => a.op = "unsubscribe"
  /\ label = "write_profile" => a.op = "update"
  /\ label = "erase" => a.op = "delete" /\ a.user = Owner
  /\ label = "add" => a.op = "add_admin" /\ a.user = Owner
  /\ label = "remove" => a.op = "remove_admin" /\ a.user = Owner /\ a.target # Owner
  /\ label = "insert_post" => a.op = "publish"
  /\ label = "erase_post" => a.op = "delete_post"
  /\ label = "count" => a.op \in {"subscribe", "unsubscribe", "publish", "delete_post"}

CallFits ==
  \A r \in Requests : pc[r] # "idle" => call[r] \in Calls /\ CallAt(call[r], pc[r])

Typed == TypeOK /\ CallFits

\* Each statement writes one field of the tables.
LEMMA WrittenEffect ==
  ASSUME Typed, NEW r \in Requests, pc[r] \in Writes
  PROVE  /\ Written(r) \in Tables
         /\ pc[r] # "write_profile" => Written(r).profile = db.profile
         /\ Written(r).subscriberCount = db.subscriberCount
         /\ Written(r).postCount = db.postCount
         /\ Written(r).channel = CASE pc[r] = "insert_channel" -> "live"
                                   [] pc[r] = "erase" -> "deleted"
                                   [] OTHER -> db.channel
         /\ Written(r).admins = CASE pc[r] = "insert_admin" -> db.admins \cup {Owner}
                                  [] pc[r] = "add" -> db.admins \cup {call[r].target}
                                  [] pc[r] = "remove" -> db.admins \ {call[r].target}
                                  [] OTHER -> db.admins
         /\ Written(r).subscribers =
              CASE pc[r] = "insert_subscription" -> db.subscribers \cup {call[r].user}
                [] pc[r] = "remove_subscription" -> db.subscribers \ {call[r].user}
                [] OTHER -> db.subscribers
         /\ Written(r).posts =
              CASE pc[r] = "insert_post" -> [db.posts EXCEPT ![r] = "there"]
                [] pc[r] = "erase_post" -> [db.posts EXCEPT ![call[r].post] = "deleted"]
                [] OTHER -> db.posts
<1>. USE DEF Written, Tables
<1>1. db \in Tables /\ call[r] \in Calls /\ CallAt(call[r], pc[r])
  BY DEF Typed, TypeOK, CallFits, Writes
<1>2. /\ call[r].user \in Users /\ r \in Posts /\ Owner \in Users
      /\ call[r].op \in {"add_admin", "remove_admin"} => call[r].target \in Users
      /\ call[r].op = "delete_post" => call[r].post \in Posts
  BY <1>1, CallType, ChannelAssumption DEF Posts
<1>3. CASE pc[r] = "insert_channel"
  BY <1>1, <1>2, <1>3
<1>4. CASE pc[r] = "insert_admin"
  BY <1>1, <1>2, <1>4
<1>5. CASE pc[r] = "write_profile"
  BY <1>1, <1>2, <1>5
<1>6. CASE pc[r] = "erase"
  BY <1>1, <1>2, <1>6
<1>7. CASE pc[r] = "add"
  BY <1>1, <1>2, <1>7 DEF CallAt
<1>8. CASE pc[r] = "remove"
  BY <1>1, <1>2, <1>8 DEF CallAt
<1>9. CASE pc[r] = "insert_subscription"
  BY <1>1, <1>2, <1>9
<1>10. CASE pc[r] = "remove_subscription"
  BY <1>1, <1>2, <1>10
<1>11. CASE pc[r] = "insert_post"
  BY <1>1, <1>2, <1>11
<1>12. CASE pc[r] = "erase_post"
  BY <1>1, <1>2, <1>12 DEF CallAt
<1>. QED  BY <1>3, <1>4, <1>5, <1>6, <1>7, <1>8, <1>9, <1>10, <1>11, <1>12 DEF Writes

\* A count moves one of the counts, of a channel that is there.
LEMMA CountedEffect ==
  ASSUME Typed, NEW r \in Requests, pc[r] = "count"
  PROVE  /\ Counted(r) \in Tables
         /\ Counted(r).channel = db.channel /\ Counted(r).profile = db.profile
         /\ Counted(r).admins = db.admins /\ Counted(r).subscribers = db.subscribers
         /\ Counted(r).posts = db.posts
         /\ db.channel # "live" => Counted(r) = db
         /\ db.channel = "live" =>
              /\ Counted(r).subscriberCount =
                   CASE call[r].op = "subscribe" -> db.subscriberCount + 1
                     [] call[r].op = "unsubscribe" -> Greatest0(db.subscriberCount - 1)
                     [] OTHER -> db.subscriberCount
              /\ Counted(r).postCount =
                   CASE call[r].op = "publish" -> db.postCount + 1
                     [] call[r].op = "delete_post" -> Greatest0(db.postCount - 1)
                     [] OTHER -> db.postCount
<1>. USE DEF Counted, Tables
<1>1. db \in Tables /\ call[r].op \in {"subscribe", "unsubscribe", "publish", "delete_post"}
  BY DEF Typed, TypeOK, CallFits, CallAt
<1>2. /\ db.subscriberCount \in Nat /\ db.postCount \in Nat
      /\ Greatest0(db.subscriberCount - 1) \in Nat /\ Greatest0(db.postCount - 1) \in Nat
  BY <1>1 DEF Greatest0
<1>3. CASE db.channel # "live"
  BY <1>1, <1>3
<1>4. CASE db.channel = "live" /\ call[r].op = "subscribe"
  BY <1>1, <1>2, <1>4
<1>5. CASE db.channel = "live" /\ call[r].op = "unsubscribe"
  BY <1>1, <1>2, <1>5
<1>6. CASE db.channel = "live" /\ call[r].op = "publish"
  BY <1>1, <1>2, <1>6
<1>7. CASE db.channel = "live" /\ call[r].op = "delete_post"
  BY <1>1, <1>2, <1>7
<1>. QED  BY <1>1, <1>3, <1>4, <1>5, <1>6, <1>7

\* The step after the channel has been found is one of its operation.
LEMMA ThenFits ==
  ASSUME Typed, NEW r \in Requests, pc[r] = "get_channel", Then(r) # "denied"
  PROVE  /\ Then(r) \in {"is_subscribed", "check_admin", "insert_post", "erase_post", "erase",
                         "add", "remove"}
         /\ CallAt(call[r], Then(r))
         /\ Then(r) \in {"insert_post", "erase_post"} => call[r].user = Owner
<1>1. call[r].op \in Ops \ {"create", "unsubscribe"}
  BY DEF Typed, CallFits, CallAt
<1>. DEFINE a == call[r]
            own == a.user = Owner
<1>2. CASE a.op = "subscribe"
  BY <1>2 DEF Then, CallAt
<1>3. CASE a.op = "update"
  BY <1>3 DEF Then, CallAt
<1>4. CASE a.op = "publish"
  BY <1>4 DEF Then, CallAt
<1>5. CASE a.op = "delete_post"
  BY <1>5 DEF Then, CallAt
<1>6. CASE a.op = "delete"
  BY <1>6 DEF Then, CallAt
<1>7. CASE a.op = "add_admin"
  BY <1>7 DEF Then, CallAt
<1>8. CASE a.op = "remove_admin"
  BY <1>8 DEF Then, CallAt
<1>. QED  BY <1>1, <1>2, <1>3, <1>4, <1>5, <1>6, <1>7, <1>8 DEF Ops

\* A request that moves, its call unchanged, to a step of its operation.
LEMMA Moved ==
  ASSUME Typed, NEW r \in Requests, NEW label \in Pcs, pc[r] # "idle", call' = call,
         Goto(r, label) \/ (label = "done" /\ \E answer \in {"none", "ok", "not_found",
                                  "denied", "already", "error"} : Finish(r, answer)),
         CallAt(call[r], label)
  PROVE  /\ pc' \in [Requests -> Pcs] /\ CallFits'
         /\ reply' \in [Requests -> {"none", "ok", "not_found", "denied", "already", "error"}]
         /\ pc'[r] = label /\ \A q \in Requests \ {r} : pc'[q] = pc[q]
<1>1. /\ pc \in [Requests -> Pcs]
      /\ reply \in [Requests -> {"none", "ok", "not_found", "denied", "already", "error"}]
  BY DEF Typed, TypeOK, Pcs
<1>2. pc' = [pc EXCEPT ![r] = label]
  BY DEF Goto, Finish
<1>3. reply' \in [Requests -> {"none", "ok", "not_found", "denied", "already", "error"}]
  BY <1>1 DEF Goto, Finish
<1>. QED  BY <1>1, <1>2, <1>3 DEF Typed, CallFits

\* A finished request is at no step of its operation.
LEMMA DoneFits == ASSUME NEW a PROVE CallAt(a, "done")
BY DEF CallAt

-----------------------------------------------------------------------------
(* Type correctness. *)

LEMMA TypeInit == ASSUME Init PROVE Typed
<1>1. db \in Tables
  <2>1. Cardinality({}) = 0 /\ Cardinality(OldSubscribers) \in Nat /\ OldPost \in Posts
    <3>1. IsFiniteSet(OldSubscribers)
      BY FS_Subset, ChannelAssumption
    <3>. QED  BY <3>1, FS_CardinalityType, FS_EmptySet DEF Posts
  <2>2. CASE db = [channel |-> "none", profile |-> OldPost, admins |-> {}, subscribers |-> {},
                   subscriberCount |-> 0, posts |-> [p \in Posts |-> "none"], postCount |-> 0]
    BY <2>1, <2>2 DEF Tables
  <2>3. ASSUME NEW others \in {{}, OldAdmins},
               db = [channel |-> "live", profile |-> OldPost, admins |-> {Owner} \cup others,
                     subscribers |-> OldSubscribers,
                     subscriberCount |-> Cardinality(OldSubscribers),
                     posts |-> [p \in Posts |-> IF p = OldPost THEN "there" ELSE "none"],
                     postCount |-> 1]
        PROVE  db \in Tables
    BY <2>1, <2>3, ChannelAssumption DEF Tables
  <2>. QED  BY <2>2, <2>3 DEF Init
<1>2. 0 \in 0 .. MaxFaults
  BY ChannelAssumption
<1>. QED  BY <1>1, <1>2 DEF Init, Typed, TypeOK, CallFits, Tables

\* A request begins: its call is one that may arrive, nothing else moves.
LEMMA BeginStep ==
  ASSUME Typed, NEW r \in Requests, NEW a \in Calls, Begin(r, a)
  PROVE  /\ Typed'
         /\ UNCHANGED <<db, clamped, faults>>
         /\ pc[r] = "idle" /\ pc'[r] = First(a.op) /\ call'[r] = a
         /\ First(a.op) \in {"insert_channel", "remove_subscription", "get_post", "get_channel"}
         /\ \A q \in Requests \ {r} : pc'[q] = pc[q] /\ call'[q] = call[q]
<1>1. /\ db \in Tables /\ pc \in [Requests -> Pcs] /\ call \in [Requests -> Calls \cup {NoCall}]
      /\ pc' = [pc EXCEPT ![r] = First(a.op)] /\ call' = [call EXCEPT ![r] = a]
      /\ UNCHANGED <<reply, db, clamped, faults>>
      /\ a.op = "create" => a.user = Owner
  BY DEF Begin, Goto, Typed, TypeOK, Tables, Pcs
<1>2. /\ First(a.op) \in {"insert_channel", "remove_subscription", "get_post", "get_channel"}
      /\ CallAt(a, First(a.op))
  BY <1>1, CallType DEF First, CallAt, Ops
<1>3. First(a.op) \in Pcs
  BY <1>2 DEF Pcs, Writes
<1>4. entitled' \subseteq Requests /\ late' \subseteq Requests
  BY DEF Begin, Typed, TypeOK
<1>5. pc' \in [Requests -> Pcs] /\ call' \in [Requests -> Calls \cup {NoCall}]
  BY <1>1, <1>3
<1>6. CallFits'
  BY <1>1, <1>2 DEF Typed, CallFits
<1>7. TypeOK'
  BY <1>1, <1>4, <1>5 DEF Typed, TypeOK, Tables, Pcs
<1>. QED  BY <1>1, <1>2, <1>6, <1>7, Zenon DEF Typed, Begin

\* What the steps of a request may be: it looks, a statement of its takes
\* effect, it counts, or its count is lost.
Looked(r) ==
  /\ UNCHANGED <<db, entitled, clamped>>
  /\ faults' \in {faults, faults + 1}
  /\ pc[r] # "count"
  /\ \/ pc'[r] = "done"
     \/ pc[r] = "get_post" /\ pc'[r] = "get_channel"
     \/ /\ pc[r] = "get_channel" /\ db.channel = "live"
        /\ Then(r) # "denied" /\ pc'[r] = Then(r)
     \/ pc[r] = "check_admin" /\ Allowed(r) /\ pc'[r] = Permitted(call[r].op)
     \/ pc[r] = "is_subscribed" /\ pc'[r] = "insert_subscription"

AfterWrite(label) ==
  CASE label = "insert_channel" -> "insert_admin"
    [] label \in {"insert_subscription", "remove_subscription", "insert_post",
                  "erase_post"} -> "count"
    [] OTHER -> "done"

Wrote(r) ==
  /\ pc[r] \in Writes /\ Matches(r) /\ Commit(r)
  /\ UNCHANGED clamped
  /\ \/ faults' = faults /\ pc'[r] = AfterWrite(pc[r])
     \/ faults' = faults + 1 /\ pc'[r] = "done"

DidCount(r) ==
  /\ pc[r] = "count" /\ CountIt(r) /\ pc'[r] = "done"
  /\ UNCHANGED <<entitled, faults>>

LostCount(r) ==
  /\ pc[r] = "count" /\ pc'[r] = "done"
  /\ faults' = faults + 1
  /\ UNCHANGED <<db, entitled, clamped>>

LEMMA RequestStep ==
  ASSUME Typed, NEW r \in Requests, HandlerStep(r) \/ HandlerFault(r)
  PROVE  /\ Active(r) /\ UNCHANGED <<call, late>>
         /\ \A q \in Requests \ {r} : pc'[q] = pc[q]
         /\ pc' \in [Requests -> Pcs] /\ CallFits'
         /\ reply' \in [Requests -> {"none", "ok", "not_found", "denied", "already", "error"}]
         /\ faults' \in 0 .. MaxFaults
         /\ Looked(r) \/ Wrote(r) \/ DidCount(r) \/ LostCount(r)
<1>1. /\ db \in Tables /\ pc \in [Requests -> Pcs] /\ faults \in 0 .. MaxFaults
      /\ pc[r] # "idle" => call[r] \in Calls /\ CallAt(call[r], pc[r])
  BY DEF Typed, TypeOK, CallFits, Tables, Pcs
<1>. DEFINE Answers == {"none", "ok", "not_found", "denied", "already", "error"}
            Common == /\ Active(r) /\ UNCHANGED <<call, late>>
                      /\ \A q \in Requests \ {r} : pc'[q] = pc[q]
                      /\ pc' \in [Requests -> Pcs] /\ CallFits'
                      /\ reply' \in [Requests -> Answers]
                      /\ faults' \in 0 .. MaxFaults
<1>2. ASSUME NEW answer \in Answers, Finish(r, answer), call' = call, pc[r] # "idle"
      PROVE  /\ pc' \in [Requests -> Pcs] /\ CallFits' /\ reply' \in [Requests -> Answers]
             /\ pc'[r] = "done" /\ \A q \in Requests \ {r} : pc'[q] = pc[q]
  BY <1>2, Moved, DoneFits DEF Pcs
<1>3. ASSUME GetPost(r)
      PROVE  Common /\ Looked(r)
  <2>1. /\ pc[r] = "get_post" /\ UNCHANGED <<db, call, entitled, late, clamped, faults>>
        /\ Goto(r, "get_channel") \/ Finish(r, "not_found")
    BY <1>3 DEF GetPost
  <2>2. CASE Goto(r, "get_channel")
    <3>1. CallAt(call[r], "get_channel") /\ "get_channel" \in Pcs
      BY <1>1, <2>1 DEF CallAt, Ops, Pcs
    <3>. QED  BY <1>1, <2>1, <2>2, <3>1, Moved DEF Active, Looked
  <2>3. CASE Finish(r, "not_found")
    BY <1>1, <1>2, <2>1, <2>3 DEF Active, Looked
  <2>. QED  BY <2>1, <2>2, <2>3
<1>4. ASSUME GetChannel(r)
      PROVE  Common /\ Looked(r)
  <2>1. /\ pc[r] = "get_channel" /\ UNCHANGED <<db, call, entitled, late, clamped, faults>>
        /\ \/ Finish(r, "not_found") \/ Finish(r, "denied")
           \/ db.channel = "live" /\ Then(r) # "denied" /\ Goto(r, Then(r))
    BY <1>4 DEF GetChannel
  <2>2. CASE db.channel = "live" /\ Then(r) # "denied" /\ Goto(r, Then(r))
    <3>1. CallAt(call[r], Then(r)) /\ Then(r) \in Pcs
      BY <2>1, <2>2, ThenFits DEF Pcs, Writes
    <3>. QED  BY <1>1, <2>1, <2>2, <3>1, Moved DEF Active, Looked
  <2>3. CASE Finish(r, "not_found")
    BY <1>1, <1>2, <2>1, <2>3 DEF Active, Looked
  <2>4. CASE Finish(r, "denied")
    BY <1>1, <1>2, <2>1, <2>4 DEF Active, Looked
  <2>. QED  BY <2>1, <2>2, <2>3, <2>4
<1>5. ASSUME CheckAdmin(r)
      PROVE  Common /\ Looked(r)
  <2>1. /\ pc[r] = "check_admin" /\ UNCHANGED <<db, call, entitled, late, clamped, faults>>
        /\ (Allowed(r) /\ Goto(r, Permitted(call[r].op))) \/ Finish(r, "denied")
    BY <1>5 DEF CheckAdmin
  <2>2. CASE Allowed(r) /\ Goto(r, Permitted(call[r].op))
    <3>1. CallAt(call[r], Permitted(call[r].op)) /\ Permitted(call[r].op) \in Pcs
      BY <1>1, <2>1 DEF CallAt, Permitted, Pcs, Writes
    <3>. QED  BY <1>1, <2>1, <2>2, <3>1, Moved DEF Active, Looked
  <2>3. CASE Finish(r, "denied")
    BY <1>1, <1>2, <2>1, <2>3 DEF Active, Looked
  <2>. QED  BY <2>1, <2>2, <2>3
<1>6. ASSUME IsSubscribed(r)
      PROVE  Common /\ Looked(r)
  <2>1. /\ pc[r] = "is_subscribed" /\ UNCHANGED <<db, call, entitled, late, clamped, faults>>
        /\ Goto(r, "insert_subscription") \/ Finish(r, "already")
    BY <1>6 DEF IsSubscribed
  <2>2. CASE Goto(r, "insert_subscription")
    <3>1. CallAt(call[r], "insert_subscription") /\ "insert_subscription" \in Pcs
      BY <1>1, <2>1 DEF CallAt, Pcs, Writes
    <3>. QED  BY <1>1, <2>1, <2>2, <3>1, Moved DEF Active, Looked
  <2>3. CASE Finish(r, "already")
    BY <1>1, <1>2, <2>1, <2>3 DEF Active, Looked
  <2>. QED  BY <2>1, <2>2, <2>3
<1>7. ASSUME Write(r)
      PROVE  Common /\ (Looked(r) \/ Wrote(r))
  <2>1. /\ pc[r] \in Writes /\ pc[r] \notin {"idle", "done", "count"}
        /\ UNCHANGED <<call, late, clamped, faults>>
    BY <1>7 DEF Write, Writes
  <2>2. CASE /\ ~Matches(r)
             /\ Finish(r, IF pc[r] = "insert_subscription" THEN "error" ELSE "not_found")
             /\ UNCHANGED <<db, entitled>>
    <3>1. \E answer \in Answers : Finish(r, answer)
      BY <2>2
    <3>. QED  BY <1>1, <1>2, <2>1, <2>2, <3>1 DEF Active, Looked
  <2>3. CASE /\ Matches(r) /\ Commit(r)
             /\ CASE pc[r] = "insert_channel" -> Goto(r, "insert_admin")
                  [] pc[r] \in {"insert_subscription", "remove_subscription", "insert_post",
                                "erase_post"} -> Goto(r, "count")
                  [] OTHER -> Finish(r, "ok")
    <3>1. CASE pc[r] = "insert_channel"
      <4>1. CallAt(call[r], "insert_admin") /\ "insert_admin" \in Pcs /\ Goto(r, "insert_admin")
        BY <1>1, <2>3, <3>1 DEF CallAt, Pcs, Writes
      <4>. QED  BY <1>1, <2>1, <2>3, <3>1, <4>1, Moved DEF Active, Wrote, AfterWrite
    <3>2. CASE pc[r] \in {"insert_subscription", "remove_subscription", "insert_post",
                          "erase_post"}
      <4>1. CallAt(call[r], "count") /\ "count" \in Pcs /\ Goto(r, "count")
        BY <1>1, <2>3, <3>2 DEF CallAt, Pcs, Writes
      <4>. QED  BY <1>1, <2>1, <2>3, <3>2, <4>1, Moved DEF Active, Wrote, AfterWrite
    <3>3. CASE pc[r] \notin {"insert_channel", "insert_subscription", "remove_subscription",
                             "insert_post", "erase_post"}
      BY <1>1, <1>2, <2>1, <2>3, <3>3 DEF Active, Wrote, AfterWrite
    <3>. QED  BY <3>1, <3>2, <3>3
  <2>. QED  BY <1>7, <2>2, <2>3 DEF Write
<1>8. ASSUME UpdateCount(r)
      PROVE  Common /\ DidCount(r)
  <2>1. /\ pc[r] = "count" /\ CountIt(r) /\ Finish(r, "ok")
        /\ UNCHANGED <<call, entitled, late, faults>>
    BY <1>8 DEF UpdateCount
  <2>. QED  BY <1>1, <1>2, <2>1 DEF Active, DidCount
<1>9. ASSUME StatementFails(r)
      PROVE  Common /\ (Looked(r) \/ Wrote(r))
  <2>1. /\ Active(r) /\ pc[r] # "idle" /\ pc[r] # "count" /\ Finish(r, "error")
        /\ UNCHANGED <<call, late, clamped>>
        /\ faults' = faults + 1 /\ faults < MaxFaults
        /\ UNCHANGED <<db, entitled>> \/ (pc[r] \in Writes /\ Matches(r) /\ Commit(r))
    BY <1>9 DEF StatementFails, Active
  <2>2. faults' \in 0 .. MaxFaults
    BY <1>1, <2>1, ChannelAssumption
  <2>. QED  BY <1>2, <2>1, <2>2 DEF Looked, Wrote
<1>10. ASSUME CountFails(r)
       PROVE  Common /\ LostCount(r)
  <2>1. /\ pc[r] = "count" /\ Finish(r, "ok") /\ faults' = faults + 1 /\ faults < MaxFaults
        /\ UNCHANGED <<db, call, entitled, late, clamped>>
    BY <1>10 DEF CountFails
  <2>2. faults' \in 0 .. MaxFaults
    BY <1>1, <2>1, ChannelAssumption
  <2>. QED  BY <1>2, <2>1, <2>2 DEF Active, LostCount
<1>11. ASSUME Crash(r)
       PROVE  Common /\ (Looked(r) \/ LostCount(r))
  <2>1. /\ Active(r) /\ pc[r] # "idle" /\ Finish(r, "none")
        /\ faults' = faults + 1 /\ faults < MaxFaults
        /\ UNCHANGED <<db, call, entitled, late, clamped>>
    BY <1>11 DEF Crash, Active
  <2>2. faults' \in 0 .. MaxFaults
    BY <1>1, <2>1, ChannelAssumption
  <2>. QED  BY <1>2, <2>1, <2>2 DEF Looked, LostCount
<1>. QED  BY <1>3, <1>4, <1>5, <1>6, <1>7, <1>8, <1>9, <1>10, <1>11
          DEF HandlerStep, HandlerFault

LEMMA TypeStep ==
  ASSUME Typed, [Next]_vars
  PROVE  Typed'
<1>1. ASSUME NEW r \in Requests, NEW a \in Calls, Begin(r, a)
      PROVE  Typed'
  BY <1>1, BeginStep
<1>2. ASSUME NEW r \in Requests, HandlerStep(r) \/ HandlerFault(r)
      PROVE  Typed'
  <2>1. /\ UNCHANGED <<call, late>> /\ pc' \in [Requests -> Pcs] /\ CallFits'
        /\ reply' \in [Requests -> {"none", "ok", "not_found", "denied", "already", "error"}]
        /\ faults' \in 0 .. MaxFaults
        /\ Looked(r) \/ Wrote(r) \/ DidCount(r) \/ LostCount(r)
    BY <1>2, RequestStep
  <2>2. db' \in Tables
    <3>1. CASE Looked(r) \/ LostCount(r)
      BY <3>1 DEF Looked, LostCount, Typed, TypeOK, Tables
    <3>2. CASE Wrote(r)
      BY <3>2, WrittenEffect DEF Wrote, Commit
    <3>3. CASE DidCount(r)
      BY <3>3, CountedEffect DEF DidCount, CountIt
    <3>. QED  BY <2>1, <3>1, <3>2, <3>3
  <2>3. entitled' \subseteq Requests
    BY <2>1 DEF Looked, Wrote, DidCount, LostCount, Commit, Typed, TypeOK
  <2>4. clamped' \subseteq {"subscribers", "posts"}
    BY <2>1 DEF Looked, Wrote, DidCount, LostCount, CountIt, Typed, TypeOK
  <2>. QED  BY <2>1, <2>2, <2>3, <2>4 DEF Typed, TypeOK, Tables, Pcs
<1>3. CASE UNCHANGED vars
  BY <1>3 DEF vars, reqVars, Typed, TypeOK, CallFits
<1>. QED  BY <1>1, <1>2, <1>3 DEF Next

\* Every value the service holds is of its type, in every reachable state
\* (service/channel/internal/logic, data_access).
THEOREM TypeCorrect == Spec => []TypeOK
<1>. QED  BY TypeInit, TypeStep, PTL DEF Spec, Typed

-----------------------------------------------------------------------------
(* Who acts. *)

\* Who administers the channel and is at work is entitled; one who has passed
\* the check was, or deletes a post of his own. A post has an author who began,
\* so that the author of a post does not change.
Entitlement ==
  \A r \in Requests :
    /\ Active(r) /\ call[r].user \in db.admins \cup {Owner} => r \in entitled
    /\ pc[r] \in {"write_profile", "insert_post"} => r \in entitled
    /\ pc[r] = "erase_post" => r \in entitled \/ Author(call[r].post) = call[r].user

Authored ==
  /\ \A p \in Requests : db.posts[p] # "none" => pc[p] # "idle"
  /\ \A r \in Requests : pc[r] # "idle" /\ call[r].op = "delete_post"
                           => db.posts[call[r].post] # "none"

EntitlementInv == Typed /\ Entitlement /\ Authored

LEMMA EntitlementInit == ASSUME Init PROVE EntitlementInv
<1>1. Typed
  BY TypeInit
<1>2. \A r \in Requests : pc[r] = "idle"
  BY DEF Init
<1>3. \A p \in Requests : db.posts[p] = "none"
  BY ChannelAssumption DEF Init, Posts
<1>. QED  BY <1>1, <1>2, <1>3 DEF EntitlementInv, Entitlement, Authored, Active

\* A post that is there, or has been, keeps its author.
LEMMA AuthorStays ==
  ASSUME EntitlementInv, NEW p \in Posts, db.posts[p] # "none",
         \A q \in Requests : pc[q] # "idle" => call'[q] = call[q]
  PROVE  Author(p)' = Author(p)
BY DEF Author, Posts, EntitlementInv, Authored

\* No post ceases to have been.
LEMMA PostsStay ==
  ASSUME Typed, NEW r \in Requests, pc[r] \in Writes
  PROVE  /\ \A p \in Posts : db.posts[p] # "none" => Written(r).posts[p] # "none"
         /\ \A p \in Posts \ {r} : db.posts[p] = "none" =>
              Written(r).posts[p] = "none" \/ (pc[r] = "erase_post" /\ p = call[r].post)
         /\ pc[r] # "insert_post" /\ db.posts[r] = "none" =>
              Written(r).posts[r] = "none" \/ (pc[r] = "erase_post" /\ r = call[r].post)
<1>1. /\ db.posts \in [Posts -> {"none", "there", "deleted"}] /\ r \in Posts
      /\ pc[r] = "erase_post" => call[r].post \in Posts
  BY CallType DEF Typed, TypeOK, CallFits, CallAt, Posts
<1>2. Written(r).posts = CASE pc[r] = "insert_post" -> [db.posts EXCEPT ![r] = "there"]
                [] pc[r] = "erase_post" -> [db.posts EXCEPT ![call[r].post] = "deleted"]
                [] OTHER -> db.posts
  BY WrittenEffect
<1>3. CASE pc[r] = "insert_post"
  BY <1>1, <1>2, <1>3
<1>4. CASE pc[r] = "erase_post"
  BY <1>1, <1>2, <1>4
<1>5. CASE pc[r] \notin {"insert_post", "erase_post"}
  BY <1>2, <1>5
<1>. QED  BY <1>3, <1>4, <1>5

LEMMA EntitlementStep ==
  ASSUME EntitlementInv, [Next]_vars
  PROVE  EntitlementInv'
<1>. Typed /\ Typed'
  BY TypeStep DEF EntitlementInv
<1>0. \A q \in Requests : pc[q] # "idle" => call[q] \in Calls /\ CallAt(call[q], pc[q])
  BY DEF Typed, CallFits
<1>1. ASSUME NEW r \in Requests, NEW a \in Calls, Begin(r, a)
      PROVE  Entitlement' /\ Authored'
  <2>1. /\ UNCHANGED db /\ pc[r] = "idle" /\ call'[r] = a
        /\ pc'[r] \in {"insert_channel", "remove_subscription", "get_post", "get_channel"}
        /\ \A q \in Requests \ {r} : pc'[q] = pc[q] /\ call'[q] = call[q]
    BY <1>1, BeginStep
  <2>2. /\ a.op = "delete_post" => db.posts[a.post] # "none"
        /\ entitled' = IF a.user \in db.admins \cup {Owner} THEN entitled \cup {r} ELSE entitled
    BY <1>1 DEF Begin
  <2>3. Authored'
    BY <2>1, <2>2 DEF Authored, EntitlementInv
  <2>4. ASSUME NEW q \in Requests \ {r}, pc[q] = "erase_post"
        PROVE  Author(call[q].post)' = Author(call[q].post)
    <3>1. call[q].post \in Posts /\ db.posts[call[q].post] # "none"
      BY <1>0, <2>4, CallType DEF CallAt, EntitlementInv, Authored
    <3>. QED  BY <2>1, <2>4, <3>1, AuthorStays DEF Author
  <2>. QED  BY <2>1, <2>2, <2>3, <2>4 DEF Entitlement, EntitlementInv, Active
<1>2. ASSUME NEW r \in Requests, HandlerStep(r) \/ HandlerFault(r)
      PROVE  Entitlement' /\ Authored'
  <2>1. /\ Active(r) /\ UNCHANGED call
        /\ \A q \in Requests \ {r} : pc'[q] = pc[q]
        /\ Looked(r) \/ Wrote(r) \/ DidCount(r) \/ LostCount(r)
    BY <1>2, RequestStep
  <2>2. \A p \in Posts : db.posts[p] # "none" => db'.posts[p] # "none"
    BY <2>1, PostsStay, CountedEffect
       DEF Looked, Wrote, DidCount, LostCount, Commit, CountIt
  <2>3. pc'[r] # "idle"
    <3>1. CASE Looked(r)
      <4>1. pc[r] = "get_channel" /\ Then(r) # "denied" => Then(r) # "idle"
        BY ThenFits
      <4>2. pc[r] = "check_admin" => Permitted(call[r].op) # "idle"
        BY <1>0 DEF CallAt, Permitted
      <4>. QED  BY <3>1, <4>1, <4>2 DEF Looked
    <3>. QED  BY <2>1, <3>1 DEF Wrote, DidCount, LostCount, AfterWrite
  <2>4. Authored'
    <3>1. ASSUME NEW p \in Requests, db'.posts[p] # "none"
          PROVE  pc'[p] # "idle"
      <4>1. CASE db.posts[p] # "none" \/ p = r
        BY <2>1, <2>3, <4>1 DEF EntitlementInv, Authored
      <4>2. CASE db.posts[p] = "none" /\ p # r
        <5>1. Wrote(r) /\ pc[r] = "erase_post" /\ p = call[r].post
          BY <2>1, <3>1, <4>2, PostsStay, CountedEffect
             DEF Looked, Wrote, DidCount, LostCount, Commit, CountIt, Posts
        <5>2. db.posts[p] # "none"
          BY <1>0, <5>1 DEF EntitlementInv, Authored, CallAt
        <5>. QED  BY <4>2, <5>2
      <4>. QED  BY <4>1, <4>2
    <3>2. ASSUME NEW q \in Requests, pc'[q] # "idle", call'[q].op = "delete_post"
          PROVE  db'.posts[call'[q].post] # "none"
      <4>1. pc[q] # "idle" /\ call'[q] = call[q]
        BY <2>1, <3>2 DEF Active
      <4>2. call[q].post \in Posts /\ db.posts[call[q].post] # "none"
        BY <1>0, <3>2, <4>1, CallType DEF EntitlementInv, Authored
      <4>. QED  BY <2>2, <4>1, <4>2
    <3>. QED  BY <3>1, <3>2 DEF Authored
  <2>5. ASSUME NEW q \in Requests
        PROVE  /\ Active(q)' /\ call'[q].user \in db'.admins \cup {Owner} => q \in entitled'
               /\ q \in entitled => q \in entitled'
    <3>1. Active(q)' => Active(q)
      BY <2>1 DEF Active
    <3>2. CASE db'.admins = db.admins /\ entitled' = entitled
      BY <2>1, <3>1, <3>2 DEF EntitlementInv, Entitlement
    <3>3. CASE Wrote(r)
      BY <2>1, <3>1, <3>3 DEF Wrote, Commit, EntitlementInv, Entitlement
    <3>. QED  BY <2>1, <3>2, <3>3, CountedEffect DEF Looked, DidCount, LostCount, CountIt
  <2>6. ASSUME NEW q \in Requests, pc'[q] \in {"write_profile", "insert_post", "erase_post"}
        PROVE  \/ q \in entitled'
               \/ pc'[q] = "erase_post" /\ Author(call[q].post) = call[q].user
    <3>1. CASE q # r
      BY <2>1, <2>5, <2>6, <3>1 DEF EntitlementInv, Entitlement
    <3>2. CASE q = r
      <4>1. Looked(r)
        BY <2>1, <2>6, <3>2 DEF Wrote, DidCount, LostCount, AfterWrite
      <4>2. CASE pc[r] = "get_channel" /\ Then(r) # "denied" /\ pc'[r] = Then(r)
        <5>1. call[r].user = Owner
          BY <2>6, <3>2, <4>2, ThenFits
        <5>. QED  BY <2>1, <2>5, <3>2, <5>1 DEF EntitlementInv, Entitlement
      <4>3. CASE pc[r] = "check_admin" /\ Allowed(r) /\ pc'[r] = Permitted(call[r].op)
        <5>1. CASE call[r].user \in db.admins \cup {Owner}
          BY <2>1, <2>5, <3>2, <5>1 DEF EntitlementInv, Entitlement
        <5>2. CASE call[r].op = "delete_post" /\ Author(call[r].post) = call[r].user
          BY <3>2, <4>3, <5>2 DEF Permitted
        <5>. QED  BY <4>3, <5>1, <5>2 DEF Allowed
      <4>. QED  BY <2>6, <3>2, <4>1, <4>2, <4>3 DEF Looked
    <3>. QED  BY <3>1, <3>2
  <2>7. ASSUME NEW q \in Requests, pc'[q] = "erase_post"
        PROVE  Author(call[q].post)' = Author(call[q].post)
    BY <2>1 DEF Author
  <2>. QED  BY <2>1, <2>4, <2>5, <2>6, <2>7 DEF Entitlement
<1>3. CASE UNCHANGED vars
  BY <1>3 DEF vars, reqVars, EntitlementInv, Entitlement, Authored, Active, Author
<1>. QED  BY <1>1, <1>2, <1>3 DEF Next, EntitlementInv

\* Nobody changes a channel or its posts but who may (publishPost, updateChannel,
\* deletePost, addAdmin, removeAdmin, deleteChannel of channel_service.go).
THEOREM AdminsAct == Spec => OnlyAdminsAct
<1>. DEFINE Act ==
       \A r \in Requests : Moves(r) =>
         /\ db'.posts # db.posts =>
              r \in entitled \/ (call[r].op = "delete_post" /\ Author(call[r].post) = call[r].user)
         /\ db'.profile # db.profile => r \in entitled
         /\ db'.admins # db.admins \/ db.channel # db'.channel => call[r].user = Owner
         /\ Owner \in db.admins => Owner \in db'.admins
<1>1. ASSUME EntitlementInv, [Next]_vars
      PROVE  [Act]_vars
  <2>1. ASSUME NEW r \in Requests, NEW a \in Calls, Begin(r, a)
        PROVE  Act
    <3>1. UNCHANGED db
      BY <2>1 DEF Begin
    <3>. QED  BY <3>1
  <2>2. ASSUME NEW r \in Requests, HandlerStep(r) \/ HandlerFault(r)
        PROVE  Act
    <3>. Typed
      BY <1>1 DEF EntitlementInv
    <3>1. /\ Active(r) /\ \A q \in Requests \ {r} : ~Moves(q)
          /\ Looked(r) \/ Wrote(r) \/ DidCount(r) \/ LostCount(r)
          /\ CallAt(call[r], pc[r])
      BY <2>2, RequestStep DEF Moves, Typed, CallFits, Active
    <3>2. CASE Wrote(r)
      <4>1. /\ pc[r] \in Writes /\ db' = Written(r)
            /\ pc[r] \notin {"insert_post", "erase_post"} => db'.posts = db.posts
            /\ pc[r] # "write_profile" => db'.profile = db.profile
            /\ pc[r] \notin {"insert_admin", "add", "remove"} => db'.admins = db.admins
            /\ pc[r] \notin {"insert_channel", "erase"} => db'.channel = db.channel
            /\ Owner \in db.admins => Owner \in db'.admins
        <5>1. pc[r] \in Writes /\ db' = Written(r)
          BY <3>2 DEF Wrote, Commit
        <5>2. CASE pc[r] = "remove"
          BY <3>1, <5>1, <5>2, WrittenEffect DEF CallAt
        <5>3. CASE pc[r] # "remove"
          BY <5>1, <5>3, WrittenEffect
        <5>. QED  BY <5>1, <5>2, <5>3
      <4>2. db'.posts # db.posts =>
              r \in entitled \/ (call[r].op = "delete_post" /\ Author(call[r].post) = call[r].user)
        BY <1>1, <3>1, <4>1 DEF EntitlementInv, Entitlement, CallAt
      <4>3. db'.profile # db.profile => r \in entitled
        BY <1>1, <4>1 DEF EntitlementInv, Entitlement
      <4>4. db'.admins # db.admins \/ db.channel # db'.channel => call[r].user = Owner
        BY <3>1, <4>1 DEF CallAt
      <4>. QED  BY <3>1, <4>1, <4>2, <4>3, <4>4
    <3>3. CASE DidCount(r)
      BY <3>1, <3>3, CountedEffect DEF DidCount, CountIt
    <3>4. CASE Looked(r) \/ LostCount(r)
      BY <3>4 DEF Looked, LostCount
    <3>. QED  BY <3>1, <3>2, <3>3, <3>4
  <2>. QED  BY <1>1, <2>1, <2>2 DEF Next
<1>. QED  BY <1>1, EntitlementInit, EntitlementStep, PTL DEF Spec, OnlyAdminsAct

-----------------------------------------------------------------------------
(* A deleted channel. *)

\* One request at most creates the channel, and it is not there before it has;
\* what comes after its deletion is at a step that looks, or leaves it.
OneCreator ==
  \A q, r \in Requests :
    Active(q) /\ Active(r) /\ call[q].op = "create" /\ call[r].op = "create" => q = r

BornOnce ==
  \A r \in Requests :
    /\ pc[r] = "insert_channel" => db.channel = "none"
    /\ pc[r] # "idle" /\ call[r].op # "create" => db.channel # "none"

LateLeaves ==
  \A r \in late :
    /\ db.channel = "deleted"
    /\ pc[r] \in {"get_post", "get_channel", "remove_subscription", "count", "done"}
    /\ pc[r] = "count" => call[r].op = "unsubscribe"

LifeInv == Typed /\ OneCreator /\ BornOnce /\ LateLeaves

LEMMA LifeInit == ASSUME Init PROVE LifeInv
BY TypeInit DEF Init, LifeInv, OneCreator, BornOnce, LateLeaves, Active

LEMMA LifeStep ==
  ASSUME LifeInv, [Next]_vars
  PROVE  LifeInv'
<1>. Typed /\ Typed'
  BY TypeStep DEF LifeInv
<1>0. \A q \in Requests : pc[q] # "idle" => call[q] \in Calls /\ CallAt(call[q], pc[q])
  BY DEF Typed, CallFits
<1>1. ASSUME NEW r \in Requests, NEW a \in Calls, Begin(r, a)
      PROVE  LifeInv'
  <2>1. /\ UNCHANGED db /\ pc[r] = "idle" /\ pc'[r] = First(a.op) /\ call'[r] = a
        /\ \A q \in Requests \ {r} : pc'[q] = pc[q] /\ call'[q] = call[q]
        /\ CallAt(a, First(a.op)) /\ a.op \in Ops
        /\ late' = IF db.channel = "deleted" THEN late \cup {r} ELSE late
    <3>1. CallAt(call'[r], pc'[r])
      BY <1>1, BeginStep DEF Typed, CallFits
    <3>. QED  BY <1>1, <3>1, BeginStep, CallType DEF Begin
  <2>2. IF a.op = "create"
        THEN db.channel = "none" /\ \A q \in Requests : Active(q) => call[q].op # "create"
        ELSE db.channel # "none"
    BY <1>1 DEF Begin
  <2>3. First(a.op) \in {"insert_channel", "remove_subscription", "get_post", "get_channel"}
    BY <1>1, BeginStep
  <2>4. OneCreator'
    BY <2>1, <2>2 DEF LifeInv, OneCreator, Active
  <2>5. BornOnce'
    BY <2>1, <2>2 DEF LifeInv, BornOnce, CallAt
  <2>6. r \notin late
    BY <2>1 DEF LifeInv, LateLeaves
  <2>7. r \in late' => db.channel = "deleted" /\ First(a.op) # "insert_channel"
    BY <2>1, <2>2, <2>6 DEF CallAt
  <2>8. LateLeaves'
    BY <2>1, <2>3, <2>7 DEF LifeInv, LateLeaves, Typed, TypeOK
  <2>. QED  BY <2>4, <2>5, <2>8 DEF LifeInv
<1>2. ASSUME NEW r \in Requests, HandlerStep(r) \/ HandlerFault(r)
      PROVE  LifeInv'
  <2>1. /\ Active(r) /\ UNCHANGED <<call, late>>
        /\ \A q \in Requests \ {r} : pc'[q] = pc[q]
        /\ Looked(r) \/ Wrote(r) \/ DidCount(r) \/ LostCount(r)
    BY <1>2, RequestStep
  <2>2. \A q \in Requests : Active(q)' => Active(q)
    BY <2>1 DEF Active
  <2>3. pc'[r] # "insert_channel"
    <3>1. pc[r] = "get_channel" /\ Then(r) # "denied" => Then(r) # "insert_channel"
      BY ThenFits
    <3>2. pc[r] = "check_admin" => Permitted(call[r].op) # "insert_channel"
      BY <1>0 DEF CallAt, Permitted
    <3>. QED  BY <2>1, <3>1, <3>2 DEF Looked, Wrote, DidCount, LostCount, AfterWrite
  <2>4. /\ db'.channel # db.channel => pc[r] \in {"insert_channel", "erase"}
        /\ db.channel # "none" => db'.channel # "none"
        /\ db.channel = "deleted" => db'.channel = "deleted"
    <3>1. CASE Wrote(r)
      <4>1. pc[r] \in Writes /\ db' = Written(r)
        BY <3>1 DEF Wrote, Commit
      <4>2. pc[r] = "insert_channel" => db.channel = "none"
        BY DEF LifeInv, BornOnce
      <4>3. pc[r] = "erase" => db'.channel = "deleted"
        BY <4>1, WrittenEffect
      <4>. QED  BY <4>1, <4>2, <4>3, WrittenEffect
    <3>2. CASE ~Wrote(r)
      BY <2>1, <3>2, CountedEffect DEF Looked, DidCount, LostCount, CountIt
    <3>. QED  BY <3>1, <3>2
  <2>5. ASSUME NEW q \in Requests, pc'[q] = "insert_channel"
        PROVE  db'.channel = "none"
    <3>1. q # r /\ pc[q] = "insert_channel" /\ db.channel = "none"
      BY <2>1, <2>3, <2>5 DEF LifeInv, BornOnce
    <3>2. call[q].op = "create" /\ Active(q)
      BY <1>0, <3>1 DEF CallAt, Active
    <3>3. pc[r] # "insert_channel"
      BY <1>0, <2>1, <3>1, <3>2 DEF CallAt, LifeInv, OneCreator
    <3>4. pc[r] # "erase"
      BY <1>0, <2>1, <3>1 DEF CallAt, LifeInv, BornOnce
    <3>. QED  BY <2>4, <3>1, <3>3, <3>4
  <2>6. ASSUME NEW q \in Requests, pc'[q] # "idle", call'[q].op # "create"
        PROVE  db'.channel # "none"
    BY <2>1, <2>4, <2>6 DEF LifeInv, BornOnce, Active
  <2>7. ASSUME NEW q \in late
        PROVE  /\ db'.channel = "deleted"
               /\ pc'[q] \in {"get_post", "get_channel", "remove_subscription", "count", "done"}
               /\ pc'[q] = "count" => call'[q].op = "unsubscribe"
    <3>1. /\ db.channel = "deleted"
          /\ pc[q] \in {"get_post", "get_channel", "remove_subscription", "count", "done"}
          /\ pc[q] = "count" => call[q].op = "unsubscribe"
          /\ q \in Requests
      BY <2>7 DEF LifeInv, LateLeaves, Typed, TypeOK
    <3>2. CASE q # r
      BY <2>1, <2>4, <3>1, <3>2
    <3>3. CASE q = r /\ Looked(r)
      BY <2>1, <2>4, <3>1, <3>3 DEF Looked
    <3>4. CASE q = r /\ Wrote(r)
      <4>1. pc[r] = "remove_subscription" /\ call[r].op = "unsubscribe"
        BY <1>0, <3>1, <3>4 DEF Wrote, Writes, CallAt
      <4>. QED  BY <2>1, <2>4, <3>1, <3>4, <4>1 DEF Wrote, AfterWrite
    <3>5. CASE q = r /\ (DidCount(r) \/ LostCount(r))
      BY <2>4, <3>1, <3>5 DEF DidCount, LostCount
    <3>. QED  BY <2>1, <3>2, <3>3, <3>4, <3>5
  <2>. QED  BY <2>1, <2>2, <2>5, <2>6, <2>7 DEF LifeInv, OneCreator, BornOnce, LateLeaves
<1>3. CASE UNCHANGED vars
  BY <1>3 DEF vars, reqVars, LifeInv, OneCreator, BornOnce, LateLeaves, Active
<1>. QED  BY <1>1, <1>2, <1>3 DEF Next

\* A deleted channel stays deleted and takes nothing new (deleteChannel, and the
\* GetByID of every operation but unsubscribe).
THEOREM DeletedChannel == Spec => DeletedTakesNothing
<1>. DEFINE Quiet ==
       db.channel = "deleted" =>
         /\ db'.channel = "deleted" /\ db'.profile = db.profile
         /\ db'.subscriberCount = db.subscriberCount /\ db'.postCount = db.postCount
         /\ \A r \in late : Moves(r) /\ db' # db => call[r].op = "unsubscribe"
<1>1. ASSUME LifeInv, [Next]_vars
      PROVE  [Quiet]_vars
  <2>. Typed
    BY <1>1 DEF LifeInv
  <2>1. ASSUME NEW r \in Requests, NEW a \in Calls, Begin(r, a)
        PROVE  Quiet
    BY <2>1 DEF Begin
  <2>2. ASSUME NEW r \in Requests, HandlerStep(r) \/ HandlerFault(r), db.channel = "deleted"
        PROVE  Quiet
    <3>1. /\ Active(r) /\ \A q \in Requests \ {r} : ~Moves(q)
          /\ Looked(r) \/ Wrote(r) \/ DidCount(r) \/ LostCount(r)
          /\ CallAt(call[r], pc[r])
          /\ late \subseteq Requests
      BY <2>2, RequestStep DEF Moves, Typed, TypeOK, CallFits, Active
    <3>2. CASE Wrote(r)
      <4>1. /\ pc[r] \in Writes /\ db' = Written(r) /\ Matches(r)
        BY <3>2 DEF Wrote, Commit
      <4>2. pc[r] \notin {"insert_channel", "write_profile", "erase"}
        BY <1>1, <2>2, <3>1, <4>1 DEF LifeInv, BornOnce, LateLeaves, Matches
      <4>3. /\ db'.channel = "deleted" /\ db'.profile = db.profile
            /\ db'.subscriberCount = db.subscriberCount /\ db'.postCount = db.postCount
        BY <2>2, <4>1, <4>2, WrittenEffect
      <4>4. r \in late => call[r].op = "unsubscribe"
        BY <1>1, <3>1, <4>1 DEF LifeInv, LateLeaves, Writes, CallAt
      <4>. QED  BY <3>1, <4>3, <4>4
    <3>3. CASE ~Wrote(r)
      <4>1. db' = db
        BY <2>2, <3>1, <3>3, CountedEffect DEF Looked, DidCount, LostCount, CountIt
      <4>. QED  BY <2>2, <4>1
    <3>. QED  BY <3>2, <3>3
  <2>. QED  BY <1>1, <2>1, <2>2 DEF Next
<1>. QED  BY <1>1, LifeInit, LifeStep, PTL DEF Spec, DeletedTakesNothing

-----------------------------------------------------------------------------
(* The counts. *)

AtCount(op) == {r \in Requests : pc[r] = "count" /\ call[r].op = op}

LEMMA CountingType ==
  ASSUME NEW op
  PROVE  IsFiniteSet(AtCount(op)) /\ Counting(op) = Cardinality(AtCount(op)) /\ Counting(op) \in Nat
<1>1. IsFiniteSet(AtCount(op))
  BY FS_Subset, ChannelAssumption DEF AtCount
<1>. QED  BY <1>1, FS_CardinalityType DEF AtCount, Counting

LEMMA CountingKept ==
  ASSUME NEW op,
         \A q \in Requests : pc[q] = "count" <=> pc'[q] = "count",
         \A q \in Requests : pc[q] = "count" => call'[q] = call[q]
  PROVE  Counting(op)' = Counting(op)
<1>1. AtCount(op)' = AtCount(op)
  BY DEF AtCount
<1>. QED  BY <1>1 DEF AtCount, Counting

LEMMA CountingEnters ==
  ASSUME NEW r \in Requests, pc[r] # "count", pc'[r] = "count", call' = call,
         \A q \in Requests \ {r} : pc'[q] = pc[q]
  PROVE  /\ Counting(call[r].op)' = Counting(call[r].op) + 1
         /\ \A op : op # call[r].op => Counting(op)' = Counting(op)
<1>1. Counting(call[r].op)' = Counting(call[r].op) + 1
  <2>. DEFINE op == call[r].op
  <2>1. AtCount(op)' = AtCount(op) \cup {r} /\ r \notin AtCount(op)
    BY DEF AtCount
  <2>2. Cardinality(AtCount(op)') = Cardinality(AtCount(op)) + 1
    BY <2>1, CountingType, FS_AddElement
  <2>. QED  BY <2>2, CountingType DEF AtCount, Counting
<1>2. ASSUME NEW op, op # call[r].op
      PROVE  Counting(op)' = Counting(op)
  <2>1. AtCount(op)' = AtCount(op)
    BY <1>2 DEF AtCount
  <2>. QED  BY <2>1 DEF AtCount, Counting
<1>. QED  BY <1>1, <1>2

LEMMA CountingLeaves ==
  ASSUME NEW r \in Requests, pc[r] = "count", pc'[r] # "count", call' = call,
         \A q \in Requests \ {r} : pc'[q] = pc[q]
  PROVE  /\ Counting(call[r].op)' = Counting(call[r].op) - 1
         /\ \A op : op # call[r].op => Counting(op)' = Counting(op)
<1>1. Counting(call[r].op)' = Counting(call[r].op) - 1
  <2>. DEFINE op == call[r].op
  <2>1. AtCount(op)' = AtCount(op) \ {r} /\ r \in AtCount(op)
    BY DEF AtCount
  <2>2. Cardinality(AtCount(op)') = Cardinality(AtCount(op)) - 1
    BY <2>1, CountingType, FS_RemoveElement
  <2>. QED  BY <2>2, CountingType DEF AtCount, Counting
<1>2. ASSUME NEW op, op # call[r].op
      PROVE  Counting(op)' = Counting(op)
  <2>1. AtCount(op)' = AtCount(op)
    BY <1>2 DEF AtCount
  <2>. QED  BY <2>1 DEF AtCount, Counting
<1>. QED  BY <1>1, <1>2

ThereNow == {p \in Posts : db.posts[p] = "there"}

LEMMA FiniteParts ==
  /\ \A S \in SUBSET Users : IsFiniteSet(S) /\ Cardinality(S) \in Nat
  /\ \A S \in SUBSET Posts : IsFiniteSet(S) /\ Cardinality(S) \in Nat
<1>1. IsFiniteSet(Posts)
  <2>1. IsFiniteSet({OldPost})
    BY FS_Singleton
  <2>. QED  BY <2>1, FS_Union, ChannelAssumption DEF Posts
<1>. QED  BY <1>1, FS_Subset, FS_CardinalityType, ChannelAssumption

LEMMA FiniteTables ==
  ASSUME Typed
  PROVE  /\ IsFiniteSet(db.subscribers) /\ Cardinality(db.subscribers) \in Nat
         /\ IsFiniteSet(ThereNow) /\ Cardinality(ThereNow) \in Nat
         /\ SubscribersTooMany \in Int /\ PostsTooMany \in Int
<1>1. db \in Tables /\ db.subscribers \in SUBSET Users
  BY DEF Typed, TypeOK, Tables
<1>2. IsFiniteSet(db.subscribers) /\ Cardinality(db.subscribers) \in Nat
  BY <1>1, FiniteParts
<1>3. ThereNow \in SUBSET Posts
  BY DEF ThereNow
<1>4. IsFiniteSet(ThereNow) /\ Cardinality(ThereNow) \in Nat
  BY <1>3, FiniteParts
<1>6. db.subscriberCount \in Nat /\ db.postCount \in Nat
  BY <1>1 DEF Tables
<1>. QED  BY <1>2, <1>4, <1>6, CountingType
          DEF SubscribersTooMany, PostsTooMany, ThereNow

\* A post is new until its request has written it. The counts of a channel that
\* is not deleted are within their bounds.
FreshPosts ==
  \A r \in Requests : pc[r] \notin {"count", "done"} => db.posts[r] = "none"

Bounds ==
  /\ SubscribersTooMany >= -faults /\ PostsTooMany >= -faults
  /\ "subscribers" \notin clamped => SubscribersTooMany <= faults
  /\ "posts" \notin clamped => PostsTooMany <= faults

CountsInv ==
  /\ LifeInv /\ FreshPosts
  /\ db.channel # "deleted" => Bounds

LEMMA CountsInit == ASSUME Init PROVE CountsInv
<1>1. LifeInv /\ Typed
  BY LifeInit, TypeInit
<1>2. FreshPosts
  BY ChannelAssumption DEF Init, FreshPosts, Posts
<1>3. ASSUME NEW op
      PROVE  Counting(op) = 0
  <2>1. AtCount(op) = {}
    BY DEF AtCount, Init
  <2>. QED  BY <2>1, CountingType, FS_EmptySet
<1>4. SubscribersTooMany = 0 /\ PostsTooMany = 0
  <2>1. /\ db.subscriberCount = Cardinality(db.subscribers)
        /\ db.postCount = Cardinality(ThereNow)
    <3>1. CASE db = [channel |-> "none", profile |-> OldPost, admins |-> {},
                     subscribers |-> {}, subscriberCount |-> 0,
                     posts |-> [p \in Posts |-> "none"], postCount |-> 0]
      <4>1. ThereNow = {}
        BY <3>1 DEF ThereNow
      <4>. QED  BY <3>1, <4>1, FS_EmptySet
    <3>2. ASSUME NEW others \in {{}, OldAdmins},
                 db = [channel |-> "live", profile |-> OldPost, admins |-> {Owner} \cup others,
                       subscribers |-> OldSubscribers,
                       subscriberCount |-> Cardinality(OldSubscribers),
                       posts |-> [p \in Posts |-> IF p = OldPost THEN "there" ELSE "none"],
                       postCount |-> 1]
          PROVE  /\ db.subscriberCount = Cardinality(db.subscribers)
                 /\ db.postCount = Cardinality(ThereNow)
      <4>1. ThereNow = {OldPost}
        BY <3>2 DEF ThereNow, Posts
      <4>. QED  BY <3>2, <4>1, FS_Singleton
    <3>. QED  BY <3>1, <3>2 DEF Init
  <2>. QED  BY <1>1, <1>3, <2>1, FiniteTables DEF SubscribersTooMany, PostsTooMany, ThereNow
<1>. QED  BY <1>1, <1>2, <1>4 DEF CountsInv, Bounds, Init

\* What a count has too much moves with its parts.
LEMMA TooManyMoves ==
  ASSUME Typed, Typed'
  PROVE  /\ SubscribersTooMany' = SubscribersTooMany +
              ((db'.subscriberCount - db.subscriberCount)
                + (Counting("subscribe")' - Counting("subscribe"))
                - (Counting("unsubscribe")' - Counting("unsubscribe"))
                - (Cardinality(db'.subscribers) - Cardinality(db.subscribers)))
         /\ PostsTooMany' = PostsTooMany +
              ((db'.postCount - db.postCount)
                + (Counting("publish")' - Counting("publish"))
                - (Counting("delete_post")' - Counting("delete_post"))
                - (Cardinality(ThereNow') - Cardinality(ThereNow)))
         /\ SubscribersTooMany' \in Int /\ PostsTooMany' \in Int
<1>1. \A op : Counting(op) \in Nat /\ Counting(op)' \in Nat
  <2>1. ASSUME NEW op
        PROVE  Counting(op)' \in Nat
    <3>1. AtCount(op)' \subseteq Requests
      BY DEF AtCount
    <3>2. IsFiniteSet(AtCount(op)')
      BY <3>1, FS_Subset, ChannelAssumption
    <3>. QED  BY <3>2, FS_CardinalityType DEF AtCount, Counting
  <2>. QED  BY <2>1, CountingType
<1>2. /\ db.subscriberCount \in Nat /\ db.postCount \in Nat
      /\ db'.subscriberCount \in Nat /\ db'.postCount \in Nat
      /\ Cardinality(db.subscribers) \in Nat /\ Cardinality(ThereNow) \in Nat
      /\ Cardinality(db'.subscribers) \in Nat /\ Cardinality(ThereNow') \in Nat
  <2>1. /\ db.subscribers \in SUBSET Users /\ ThereNow \in SUBSET Posts
        /\ db'.subscribers \in SUBSET Users /\ ThereNow' \in SUBSET Posts
    BY DEF Typed, TypeOK, ThereNow
  <2>. QED  BY <2>1, FiniteParts DEF Typed, TypeOK
<1>3. /\ Counting("subscribe") \in Nat /\ Counting("unsubscribe") \in Nat
      /\ Counting("subscribe")' \in Nat /\ Counting("unsubscribe")' \in Nat
      /\ Counting("publish") \in Nat /\ Counting("delete_post") \in Nat
      /\ Counting("publish")' \in Nat /\ Counting("delete_post")' \in Nat
  BY <1>1, Zenon
<1>. QED  BY <1>2, <1>3 DEF SubscribersTooMany, PostsTooMany, ThereNow

\* A bound moves with a failure, or where GREATEST has kept a count at zero.
LEMMA BoundsKept ==
  ASSUME Typed, Typed', Bounds, NEW x \in Int, NEW y \in Int, NEW z \in Nat,
         SubscribersTooMany' = SubscribersTooMany + x, PostsTooMany' = PostsTooMany + y,
         faults' = faults + z, clamped \subseteq clamped',
         -z <= x, x <= z \/ "subscribers" \in clamped',
         -z <= y, y <= z \/ "posts" \in clamped'
  PROVE  Bounds'
<1>1. /\ SubscribersTooMany \in Int /\ PostsTooMany \in Int /\ faults \in Int
      /\ SubscribersTooMany' \in Int /\ PostsTooMany' \in Int
  BY FiniteTables, ChannelAssumption DEF Typed, TypeOK
<1>2. SubscribersTooMany' >= -faults' /\ PostsTooMany' >= -faults'
  BY <1>1 DEF Bounds
<1>3. "subscribers" \notin clamped' => SubscribersTooMany' <= faults'
  BY <1>1 DEF Bounds
<1>4. "posts" \notin clamped' => PostsTooMany' <= faults'
  BY <1>1 DEF Bounds
<1>. QED  BY <1>2, <1>3, <1>4 DEF Bounds

\* The bounds stay where nothing they speak of moves.
LEMMA BoundsStay ==
  ASSUME Typed, Typed', Bounds, clamped \subseteq clamped',
         SubscribersTooMany' = SubscribersTooMany + 0, PostsTooMany' = PostsTooMany + 0,
         faults' = faults + 0
  PROVE  Bounds'
<1>1. /\ SubscribersTooMany \in Int /\ PostsTooMany \in Int /\ faults \in Int
  BY FiniteTables, ChannelAssumption DEF Typed, TypeOK
<1>2. /\ SubscribersTooMany' = SubscribersTooMany /\ PostsTooMany' = PostsTooMany
      /\ faults' = faults
  BY <1>1
<1>. QED  BY <1>2 DEF Bounds

\* A statement changes the rows of its own table by one.
LEMMA WrittenRows ==
  ASSUME Typed, FreshPosts, NEW r \in Requests, pc[r] \in Writes, Matches(r), db' = Written(r)
  PROVE  /\ db'.subscriberCount = db.subscriberCount /\ db'.postCount = db.postCount
         /\ Cardinality(db'.subscribers) - Cardinality(db.subscribers) =
              IF pc[r] = "insert_subscription" THEN 1
              ELSE IF pc[r] = "remove_subscription" THEN -1 ELSE 0
         /\ Cardinality(ThereNow') - Cardinality(ThereNow) =
              IF pc[r] = "insert_post" THEN 1 ELSE IF pc[r] = "erase_post" THEN -1 ELSE 0
<1>. DEFINE a == call[r]
<1>1. /\ db.posts \in [Posts -> {"none", "there", "deleted"}] /\ r \in Posts
      /\ pc[r] = "erase_post" => a.post \in Posts
      /\ CallAt(a, pc[r])
  BY CallType DEF Typed, TypeOK, CallFits, CallAt, Posts, Writes
<1>2. Cardinality(db'.subscribers) - Cardinality(db.subscribers) =
              IF pc[r] = "insert_subscription" THEN 1
              ELSE IF pc[r] = "remove_subscription" THEN -1 ELSE 0
  <2>1. CASE pc[r] = "insert_subscription"
    <3>1. db'.subscribers = db.subscribers \cup {a.user} /\ a.user \notin db.subscribers
      BY <2>1, WrittenEffect DEF Matches
    <3>2. Cardinality(db'.subscribers) = Cardinality(db.subscribers) + 1
      BY <3>1, FiniteTables, FS_AddElement
    <3>. QED  BY <2>1, <3>2, FiniteTables
  <2>2. CASE pc[r] = "remove_subscription"
    <3>1. db'.subscribers = db.subscribers \ {a.user} /\ a.user \in db.subscribers
      BY <2>2, WrittenEffect DEF Matches
    <3>2. Cardinality(db.subscribers \ {a.user}) = Cardinality(db.subscribers) - 1
      <4>1. IsFiniteSet(db.subscribers)
        BY FiniteTables
      <4>. QED  BY <3>1, <4>1, FS_RemoveElement
    <3>. QED  BY <2>2, <3>1, <3>2, FiniteTables
  <2>3. CASE pc[r] \notin {"insert_subscription", "remove_subscription"}
    <3>1. db'.subscribers = db.subscribers
      BY <2>3, WrittenEffect
    <3>. QED  BY <2>3, <3>1, FiniteTables
  <2>. QED  BY <2>1, <2>2, <2>3
<1>3. Cardinality(ThereNow') - Cardinality(ThereNow) =
              IF pc[r] = "insert_post" THEN 1 ELSE IF pc[r] = "erase_post" THEN -1 ELSE 0
  <2>1. CASE pc[r] = "insert_post"
    <3>1. db'.posts = [db.posts EXCEPT ![r] = "there"] /\ db.posts[r] = "none"
      BY <2>1, WrittenEffect DEF FreshPosts
    <3>2. ThereNow' = ThereNow \cup {r} /\ r \notin ThereNow
      BY <1>1, <3>1 DEF ThereNow
    <3>3. Cardinality(ThereNow') = Cardinality(ThereNow) + 1
      BY <3>2, FiniteTables, FS_AddElement
    <3>. QED  BY <2>1, <3>3, FiniteTables
  <2>2. CASE pc[r] = "erase_post"
    <3>1. /\ db'.posts = [db.posts EXCEPT ![a.post] = "deleted"]
          /\ db.posts[a.post] = "there"
      BY <2>2, WrittenEffect DEF Matches
    <3>2. ThereNow' = ThereNow \ {a.post} /\ a.post \in ThereNow
      BY <1>1, <2>2, <3>1 DEF ThereNow
    <3>3. Cardinality(ThereNow') = Cardinality(ThereNow) - 1
      BY <3>2, FiniteTables, FS_RemoveElement
    <3>. QED  BY <2>2, <3>3, FiniteTables
  <2>3. CASE pc[r] \notin {"insert_post", "erase_post"}
    <3>1. db'.posts = db.posts
      BY <2>3, WrittenEffect
    <3>2. ThereNow' = ThereNow
      BY <3>1 DEF ThereNow
    <3>. QED  BY <2>3, <3>2, FiniteTables
  <2>. QED  BY <2>1, <2>2, <2>3
<1>. QED  BY <1>2, <1>3, WrittenEffect

LEMMA CountsOfWrite ==
  ASSUME CountsInv, Typed', NEW r \in Requests, HandlerStep(r) \/ HandlerFault(r), Wrote(r),
         db.channel # "deleted"
  PROVE  Bounds'
<1>1. Typed /\ FreshPosts /\ Bounds
  BY DEF CountsInv, LifeInv
<1>2. /\ pc[r] \in Writes /\ Matches(r) /\ db' = Written(r) /\ clamped' = clamped
      /\ UNCHANGED call /\ \A q \in Requests \ {r} : pc'[q] = pc[q]
      /\ CallAt(call[r], pc[r]) /\ pc[r] # "count"
  BY <1>1, RequestStep DEF Wrote, Commit, Typed, CallFits, Writes
<1>. DEFINE s == IF pc[r] = "insert_subscription" THEN 1
                 ELSE IF pc[r] = "remove_subscription" THEN -1 ELSE 0
            p == IF pc[r] = "insert_post" THEN 1 ELSE IF pc[r] = "erase_post" THEN -1 ELSE 0
<1>3. /\ db.subscriberCount \in Nat /\ db.postCount \in Nat /\ faults \in Int
      /\ Cardinality(db.subscribers) \in Nat /\ Cardinality(ThereNow) \in Nat
      /\ Cardinality(db'.subscribers) \in Nat /\ Cardinality(ThereNow') \in Nat
  <2>1. db'.subscribers \in SUBSET Users /\ ThereNow' \in SUBSET Posts
    BY DEF Typed, TypeOK, ThereNow
  <2>2. Cardinality(db'.subscribers) \in Nat /\ Cardinality(ThereNow') \in Nat
    BY <2>1, FiniteParts
  <2>. QED  BY <1>1, <2>2, FiniteTables, ChannelAssumption DEF Typed, TypeOK
<1>4. /\ db'.subscriberCount = db.subscriberCount + 0 /\ db'.postCount = db.postCount + 0
      /\ Cardinality(db'.subscribers) = Cardinality(db.subscribers) + s
      /\ Cardinality(ThereNow') = Cardinality(ThereNow) + p
      /\ s \in -1 .. 1 /\ p \in -1 .. 1
  BY <1>1, <1>2, <1>3, WrittenRows
<1>5. /\ Counting("subscribe") \in Nat /\ Counting("unsubscribe") \in Nat
      /\ Counting("publish") \in Nat /\ Counting("delete_post") \in Nat
      /\ SubscribersTooMany \in Int /\ PostsTooMany \in Int
      /\ SubscribersTooMany' \in Int /\ PostsTooMany' \in Int
  BY <1>1, FiniteTables, CountingType, TooManyMoves
<1>6. CASE pc'[r] = "done" /\ faults' = faults + 1
  <2>1. \A op : Counting(op)' = Counting(op)
    BY <1>2, <1>6, CountingKept
  <2>2. /\ Counting("subscribe")' = Counting("subscribe") + 0
        /\ Counting("unsubscribe")' = Counting("unsubscribe") + 0
        /\ Counting("publish")' = Counting("publish") + 0
        /\ Counting("delete_post")' = Counting("delete_post") + 0
    BY <2>1, CountingType
  <2>3. /\ SubscribersTooMany' = SubscribersTooMany + (-s)
        /\ PostsTooMany' = PostsTooMany + (-p)
    <3>. HIDE DEF s, p
    <3>1. /\ db'.subscriberCount - db.subscriberCount = 0
          /\ db'.postCount - db.postCount = 0
          /\ Counting("subscribe")' - Counting("subscribe") = 0
          /\ Counting("unsubscribe")' - Counting("unsubscribe") = 0
          /\ Counting("publish")' - Counting("publish") = 0
          /\ Counting("delete_post")' - Counting("delete_post") = 0
          /\ Cardinality(db'.subscribers) - Cardinality(db.subscribers) = s
          /\ Cardinality(ThereNow') - Cardinality(ThereNow) = p
          /\ s \in Int /\ p \in Int
      BY <1>3, <1>4, <1>5, <2>2
    <3>2. /\ SubscribersTooMany' = SubscribersTooMany + (0 + 0 - 0 - s)
          /\ PostsTooMany' = PostsTooMany + (0 + 0 - 0 - p)
      BY <1>1, <3>1, TooManyMoves
    <3>. QED  BY <1>5, <3>1, <3>2
  <2>4. /\ -s \in Int /\ -1 <= -s /\ -s <= 1
        /\ -p \in Int /\ -1 <= -p /\ -p <= 1
    BY <1>4
  <2>5. clamped \subseteq clamped' /\ faults' = faults + 1 /\ 1 \in Nat
    BY <1>6 DEF Wrote
  <2>. QED  BY <1>1, <2>3, <2>4, <2>5, BoundsKept
<1>7. CASE pc'[r] = AfterWrite(pc[r]) /\ faults' = faults
  <2>. DEFINE OneAt(label) == IF pc[r] = label THEN 1 ELSE 0
  <2>1. /\ Counting("subscribe")' = Counting("subscribe") + OneAt("insert_subscription")
        /\ Counting("unsubscribe")' = Counting("unsubscribe") + OneAt("remove_subscription")
        /\ Counting("publish")' = Counting("publish") + OneAt("insert_post")
        /\ Counting("delete_post")' = Counting("delete_post") + OneAt("erase_post")
    <3>1. CASE pc[r] \notin {"insert_subscription", "remove_subscription", "insert_post",
                             "erase_post"}
      <4>1. pc'[r] # "count"
        BY <1>7, <3>1 DEF AfterWrite
      <4>2. \A op : Counting(op)' = Counting(op)
        BY <1>2, <4>1, CountingKept
      <4>3. /\ OneAt("insert_subscription") = 0 /\ OneAt("remove_subscription") = 0
            /\ OneAt("insert_post") = 0 /\ OneAt("erase_post") = 0
        BY <3>1
      <4>. HIDE DEF OneAt
      <4>. QED  BY <4>2, <4>3, CountingType
    <3>2. CASE pc[r] \in {"insert_subscription", "remove_subscription", "insert_post",
                          "erase_post"}
      <4>1. pc'[r] = "count"
        BY <1>7, <3>2 DEF AfterWrite
      <4>2. /\ Counting(call[r].op)' = Counting(call[r].op) + 1
            /\ \A op : op # call[r].op => Counting(op)' = Counting(op)
        BY <1>2, <4>1, CountingEnters
      <4>3. CASE pc[r] = "insert_subscription"
        BY <1>2, <4>2, <4>3, CountingType DEF CallAt
      <4>4. CASE pc[r] = "remove_subscription"
        BY <1>2, <4>2, <4>4, CountingType DEF CallAt
      <4>5. CASE pc[r] = "insert_post"
        BY <1>2, <4>2, <4>5, CountingType DEF CallAt
      <4>6. CASE pc[r] = "erase_post"
        BY <1>2, <4>2, <4>6, CountingType DEF CallAt
      <4>. QED  BY <3>2, <4>3, <4>4, <4>5, <4>6
    <3>. QED  BY <3>1, <3>2
  <2>2. /\ OneAt("insert_subscription") - OneAt("remove_subscription") = s
        /\ OneAt("insert_post") - OneAt("erase_post") = p
        /\ OneAt("insert_subscription") \in Int /\ OneAt("remove_subscription") \in Int
        /\ OneAt("insert_post") \in Int /\ OneAt("erase_post") \in Int
    OBVIOUS
  <2>. HIDE DEF OneAt, s, p
  <2>3. /\ SubscribersTooMany' = SubscribersTooMany + 0 /\ PostsTooMany' = PostsTooMany + 0
        /\ faults' = faults + 0
    <3>1. /\ db'.subscriberCount - db.subscriberCount = 0
          /\ db'.postCount - db.postCount = 0
          /\ Counting("subscribe")' - Counting("subscribe") = OneAt("insert_subscription")
          /\ Counting("unsubscribe")' - Counting("unsubscribe") = OneAt("remove_subscription")
          /\ Counting("publish")' - Counting("publish") = OneAt("insert_post")
          /\ Counting("delete_post")' - Counting("delete_post") = OneAt("erase_post")
          /\ Cardinality(db'.subscribers) - Cardinality(db.subscribers) = s
          /\ Cardinality(ThereNow') - Cardinality(ThereNow) = p
          /\ s \in Int /\ p \in Int
      BY <1>3, <1>4, <1>5, <2>1, <2>2
    <3>2. /\ SubscribersTooMany' = SubscribersTooMany
               + (0 + OneAt("insert_subscription") - OneAt("remove_subscription") - s)
          /\ PostsTooMany' = PostsTooMany
               + (0 + OneAt("insert_post") - OneAt("erase_post") - p)
      BY <1>1, <3>1, TooManyMoves
    <3>3. faults' = faults + 0
      BY <1>3, <1>7
    <3>. QED  BY <1>5, <2>2, <3>1, <3>2, <3>3
  <2>4. clamped \subseteq clamped'
    BY DEF Wrote
  <2>. QED  BY <1>1, <2>3, <2>4, BoundsStay
<1>. QED  BY <1>6, <1>7 DEF Wrote

\* A request that leaves its count moves what is too much only where GREATEST
\* has kept a count at zero, or where it has failed.
LEMMA CountsOfCount ==
  ASSUME CountsInv, Typed', NEW r \in Requests, HandlerStep(r) \/ HandlerFault(r),
         DidCount(r) \/ LostCount(r), db.channel # "deleted"
  PROVE  Bounds'
<1>. DEFINE One(op) == IF call[r].op = op THEN 1 ELSE 0
<1>1. Typed /\ Bounds
  BY DEF CountsInv, LifeInv
<1>2. /\ pc[r] = "count" /\ pc'[r] = "done" /\ UNCHANGED call
      /\ \A q \in Requests \ {r} : pc'[q] = pc[q]
      /\ call[r].op \in {"subscribe", "unsubscribe", "publish", "delete_post"}
      /\ db.channel = "live"
  <2>1. /\ pc[r] = "count" /\ pc'[r] = "done" /\ UNCHANGED call
        /\ \A q \in Requests \ {r} : pc'[q] = pc[q]
        /\ call[r].op \in {"subscribe", "unsubscribe", "publish", "delete_post"}
    BY <1>1, RequestStep DEF DidCount, LostCount, Typed, CallFits, CallAt
  <2>2. db.channel # "none"
    BY <2>1 DEF CountsInv, LifeInv, BornOnce
  <2>. QED  BY <1>1, <2>1, <2>2 DEF Typed, TypeOK
<1>3. /\ db.subscriberCount \in Nat /\ db.postCount \in Nat /\ faults \in Int
      /\ Cardinality(db.subscribers) \in Nat /\ Cardinality(ThereNow) \in Nat
      /\ Counting("subscribe") \in Nat /\ Counting("unsubscribe") \in Nat
      /\ Counting("publish") \in Nat /\ Counting("delete_post") \in Nat
      /\ SubscribersTooMany \in Int /\ PostsTooMany \in Int
  BY <1>1, FiniteTables, CountingType, ChannelAssumption DEF Typed, TypeOK
<1>4. /\ Counting("subscribe")' = Counting("subscribe") - One("subscribe")
      /\ Counting("unsubscribe")' = Counting("unsubscribe") - One("unsubscribe")
      /\ Counting("publish")' = Counting("publish") - One("publish")
      /\ Counting("delete_post")' = Counting("delete_post") - One("delete_post")
  <2>1. /\ Counting(call[r].op)' = Counting(call[r].op) - 1
        /\ \A op : op # call[r].op => Counting(op)' = Counting(op)
    BY <1>2, CountingLeaves
  <2>2. ASSUME NEW op
        PROVE  Counting(op)' = Counting(op) - One(op)
    <3>1. Counting(op) \in Nat
      BY CountingType
    <3>2. CASE op = call[r].op
      <4>1. One(op) = 1
        BY <3>2
      <4>. HIDE DEF One
      <4>. QED  BY <1>2, <2>1, <3>2, <4>1
    <3>3. CASE op # call[r].op
      <4>1. One(op) = 0
        BY <3>3
      <4>2. Counting(op)' = Counting(op)
        BY <2>1, <3>3, Zenon
      <4>. HIDE DEF One
      <4>. QED  BY <3>1, <4>1, <4>2
    <3>. QED  BY <3>2, <3>3
  <2>. HIDE DEF One
  <2>. QED  BY <2>2
<1>5. /\ One("subscribe") \in 0 .. 1 /\ One("unsubscribe") \in 0 .. 1
      /\ One("publish") \in 0 .. 1 /\ One("delete_post") \in 0 .. 1
      /\ One("subscribe") = 0 \/ One("unsubscribe") = 0
      /\ One("publish") = 0 \/ One("delete_post") = 0
  OBVIOUS
<1>6. /\ Counting("subscribe")' - Counting("subscribe") = 0 - One("subscribe")
      /\ Counting("unsubscribe")' - Counting("unsubscribe") = 0 - One("unsubscribe")
      /\ Counting("publish")' - Counting("publish") = 0 - One("publish")
      /\ Counting("delete_post")' - Counting("delete_post") = 0 - One("delete_post")
  <2>. HIDE DEF One
  <2>. QED  BY <1>3, <1>4, <1>5
<1>7. CASE DidCount(r)
  <2>. DEFINE stuckS == "subscribers" \in clamped' /\ db.subscriberCount = 0 /\ One("unsubscribe") = 1
              stuckP == "posts" \in clamped' /\ db.postCount = 0 /\ One("delete_post") = 1
              x == IF stuckS THEN 1 ELSE 0
              y == IF stuckP THEN 1 ELSE 0
  <2>1. /\ db' = Counted(r) /\ UNCHANGED faults
        /\ clamped \subseteq clamped'
        /\ call[r].op = "unsubscribe" /\ db.subscriberCount = 0 => "subscribers" \in clamped'
        /\ call[r].op = "delete_post" /\ db.postCount = 0 => "posts" \in clamped'
    BY <1>2, <1>7 DEF DidCount, CountIt
  <2>2. UNCHANGED <<db.subscribers, db.posts>>
    BY <1>1, <1>2, <2>1, CountedEffect
  <2>3. /\ Cardinality(db'.subscribers) - Cardinality(db.subscribers) = 0
        /\ Cardinality(ThereNow') - Cardinality(ThereNow) = 0
    <3>1. ThereNow' = ThereNow
      BY <2>2 DEF ThereNow
    <3>. QED  BY <1>3, <2>2, <3>1
  <2>4. db'.subscriberCount - db.subscriberCount = One("subscribe") - One("unsubscribe") + x
    <3>1. db'.subscriberCount =
            CASE call[r].op = "subscribe" -> db.subscriberCount + 1
              [] call[r].op = "unsubscribe" -> Greatest0(db.subscriberCount - 1)
              [] OTHER -> db.subscriberCount
      BY <1>1, <1>2, <2>1, CountedEffect
    <3>2. CASE call[r].op = "subscribe"
      BY <1>3, <3>1, <3>2
    <3>3. CASE call[r].op = "unsubscribe"
      BY <1>3, <2>1, <3>1, <3>3 DEF Greatest0
    <3>4. CASE call[r].op \notin {"subscribe", "unsubscribe"}
      BY <1>3, <3>1, <3>4
    <3>. QED  BY <3>2, <3>3, <3>4
  <2>5. db'.postCount - db.postCount = One("publish") - One("delete_post") + y
    <3>1. db'.postCount =
            CASE call[r].op = "publish" -> db.postCount + 1
              [] call[r].op = "delete_post" -> Greatest0(db.postCount - 1)
              [] OTHER -> db.postCount
      BY <1>1, <1>2, <2>1, CountedEffect
    <3>2. CASE call[r].op = "publish"
      BY <1>3, <3>1, <3>2
    <3>3. CASE call[r].op = "delete_post"
      BY <1>3, <2>1, <3>1, <3>3 DEF Greatest0
    <3>4. CASE call[r].op \notin {"publish", "delete_post"}
      BY <1>3, <3>1, <3>4
    <3>. QED  BY <3>2, <3>3, <3>4
  <2>6. /\ x \in 0 .. 1 /\ y \in 0 .. 1
        /\ x = 1 => "subscribers" \in clamped'
        /\ y = 1 => "posts" \in clamped'
    OBVIOUS
  <2>. HIDE DEF x, y, One
  <2>7. /\ SubscribersTooMany' = SubscribersTooMany
             + ((One("subscribe") - One("unsubscribe") + x) + (0 - One("subscribe"))
                  - (0 - One("unsubscribe")) - 0)
        /\ PostsTooMany' = PostsTooMany
             + ((One("publish") - One("delete_post") + y) + (0 - One("publish"))
                  - (0 - One("delete_post")) - 0)
    BY <1>1, <1>6, <2>3, <2>4, <2>5, TooManyMoves
  <2>8. /\ SubscribersTooMany' = SubscribersTooMany + x /\ PostsTooMany' = PostsTooMany + y
        /\ faults' = faults + 0
    BY <1>3, <1>5, <2>1, <2>6, <2>7
  <2>9. /\ x \in Int /\ y \in Int /\ -0 <= x /\ -0 <= y
        /\ x <= 0 \/ "subscribers" \in clamped'
        /\ y <= 0 \/ "posts" \in clamped'
    BY <2>6
  <2>. QED  BY <1>1, <2>1, <2>8, <2>9, BoundsKept
<1>8. CASE LostCount(r)
  <2>1. /\ UNCHANGED <<db, clamped>> /\ faults' = faults + 1
    BY <1>8 DEF LostCount
  <2>2. /\ db'.subscriberCount - db.subscriberCount = 0 /\ db'.postCount - db.postCount = 0
        /\ Cardinality(db'.subscribers) - Cardinality(db.subscribers) = 0
        /\ Cardinality(ThereNow') - Cardinality(ThereNow) = 0
    <3>1. ThereNow' = ThereNow
      BY <2>1 DEF ThereNow
    <3>. QED  BY <1>3, <2>1, <3>1
  <2>. DEFINE x == 0 - One("subscribe") + One("unsubscribe")
              y == 0 - One("publish") + One("delete_post")
  <2>3. /\ x \in Int /\ y \in Int /\ -1 <= x /\ x <= 1 /\ -1 <= y /\ y <= 1
    BY <1>5
  <2>4. /\ SubscribersTooMany' = SubscribersTooMany
             + (0 + (0 - One("subscribe")) - (0 - One("unsubscribe")) - 0)
        /\ PostsTooMany' = PostsTooMany
             + (0 + (0 - One("publish")) - (0 - One("delete_post")) - 0)
    BY <1>1, <1>6, <2>2, TooManyMoves
  <2>5. SubscribersTooMany' = SubscribersTooMany + x /\ PostsTooMany' = PostsTooMany + y
    <3>. HIDE DEF One
    <3>. QED  BY <1>3, <1>5, <2>4
  <2>. QED  BY <1>1, <2>1, <2>3, <2>5, BoundsKept
<1>. QED  BY <1>7, <1>8

LEMMA CountsStep ==
  ASSUME CountsInv, [Next]_vars
  PROVE  CountsInv'
<1>. Typed /\ Typed' /\ LifeInv' /\ FreshPosts
  BY LifeStep DEF CountsInv, LifeInv
<1>1. ASSUME NEW r \in Requests, NEW a \in Calls, Begin(r, a)
      PROVE  FreshPosts' /\ (db'.channel # "deleted" => Bounds')
  <2>1. /\ UNCHANGED <<db, clamped, faults>> /\ pc[r] = "idle"
        /\ pc'[r] \in {"insert_channel", "remove_subscription", "get_post", "get_channel"}
        /\ \A q \in Requests \ {r} : pc'[q] = pc[q] /\ call'[q] = call[q]
    BY <1>1, BeginStep
  <2>2. FreshPosts'
    BY <2>1 DEF FreshPosts
  <2>3. \A op : Counting(op)' = Counting(op)
    BY <2>1, CountingKept
  <2>4. /\ SubscribersTooMany' = SubscribersTooMany /\ PostsTooMany' = PostsTooMany
    BY <2>1, <2>3, Zenon DEF SubscribersTooMany, PostsTooMany
  <2>. QED  BY <2>1, <2>2, <2>4 DEF CountsInv, Bounds
<1>2. ASSUME NEW r \in Requests, HandlerStep(r) \/ HandlerFault(r)
      PROVE  FreshPosts' /\ (db'.channel # "deleted" => Bounds')
  <2>1. /\ Active(r) /\ UNCHANGED call
        /\ \A q \in Requests \ {r} : pc'[q] = pc[q]
        /\ Looked(r) \/ Wrote(r) \/ DidCount(r) \/ LostCount(r)
        /\ CallAt(call[r], pc[r])
    BY <1>2, RequestStep DEF Typed, CallFits, Active
  <2>2. FreshPosts'
    <3>1. CASE Wrote(r)
      <4>1. pc[r] \in Writes /\ Matches(r) /\ db' = Written(r)
        BY <3>1 DEF Wrote, Commit
      <4>2. pc[r] = "insert_post" => pc'[r] \in {"count", "done"}
        BY <3>1 DEF Wrote, AfterWrite
      <4>3. pc[r] = "erase_post" => call[r].post \in Posts /\ db.posts[call[r].post] = "there"
        BY <2>1, <4>1, CallType DEF Matches, CallAt, Typed, CallFits
      <4>4. ASSUME NEW q \in Requests, pc'[q] \notin {"count", "done"}
            PROVE  db'.posts[q] = "none"
        <5>1. pc[q] \notin {"count", "done"}
          BY <2>1, <4>1, <4>4 DEF Writes
        <5>2. db.posts[q] = "none" /\ q \in Posts
          BY <5>1 DEF FreshPosts, Posts
        <5>3. pc[r] = "erase_post" => q # call[r].post
          BY <4>3, <5>2
        <5>4. q = r => pc[r] # "insert_post"
          BY <4>2, <4>4
        <5>. QED  BY <4>1, <5>2, <5>3, <5>4, PostsStay
      <4>. QED  BY <4>4 DEF FreshPosts
    <3>2. CASE ~Wrote(r)
      <4>1. db'.posts = db.posts
        BY <2>1, <3>2, CountedEffect DEF Looked, DidCount, LostCount, CountIt
      <4>2. pc[r] \in {"count", "done"} => pc'[r] \in {"count", "done"}
        BY <2>1, <3>2 DEF Looked, DidCount, LostCount, Active
      <4>. QED  BY <2>1, <4>1, <4>2 DEF FreshPosts
    <3>. QED  BY <3>1, <3>2
  <2>3. ASSUME db'.channel # "deleted"
        PROVE  Bounds'
    <3>1. db.channel # "deleted"
      <4>1. CASE Wrote(r)
        <5>1. pc[r] \in Writes /\ Matches(r) /\ db' = Written(r)
          BY <4>1 DEF Wrote, Commit
        <5>2. pc[r] = "insert_channel" => db.channel = "none"
          BY DEF CountsInv, LifeInv, BornOnce
        <5>. QED  BY <2>3, <5>1, <5>2, WrittenEffect DEF Matches
      <4>2. CASE ~Wrote(r)
        BY <2>1, <2>3, <4>2, CountedEffect DEF Looked, DidCount, LostCount, CountIt
      <4>. QED  BY <4>1, <4>2
    <3>2. CASE Wrote(r)
      BY <1>2, <3>1, <3>2, CountsOfWrite
    <3>3. CASE DidCount(r) \/ LostCount(r)
      BY <1>2, <3>1, <3>3, CountsOfCount
    <3>4. CASE Looked(r)
      <4>1. /\ UNCHANGED <<db, clamped>> /\ faults' \in {faults, faults + 1}
            /\ pc[r] # "count" /\ pc'[r] # "count"
        <5>1. pc[r] = "get_channel" /\ Then(r) # "denied" => Then(r) # "count"
          BY ThenFits
        <5>2. pc[r] = "check_admin" => Permitted(call[r].op) # "count"
          BY <2>1 DEF CallAt, Permitted
        <5>. QED  BY <3>4, <5>1, <5>2 DEF Looked
      <4>2. \A op : Counting(op)' = Counting(op)
        BY <2>1, <4>1, CountingKept
      <4>3. SubscribersTooMany' = SubscribersTooMany /\ PostsTooMany' = PostsTooMany
        BY <4>1, <4>2, Zenon DEF SubscribersTooMany, PostsTooMany
      <4>4. SubscribersTooMany \in Int /\ PostsTooMany \in Int /\ faults \in Int
        BY FiniteTables, ChannelAssumption DEF Typed, TypeOK
      <4>5. Bounds
        BY <3>1 DEF CountsInv
      <4>6. SubscribersTooMany' = SubscribersTooMany + 0 /\ PostsTooMany' = PostsTooMany + 0
        BY <4>3, <4>4
      <4>7. PICK z \in 0 .. 1 : faults' = faults + z
        BY <4>1, <4>4
      <4>8. -z <= 0 /\ 0 <= z /\ z \in Nat
        BY <4>7
      <4>. QED  BY <4>1, <4>5, <4>6, <4>7, <4>8, BoundsKept
    <3>. QED  BY <2>1, <3>2, <3>3, <3>4
  <2>. QED  BY <2>2, <2>3
<1>3. ASSUME UNCHANGED vars
      PROVE  FreshPosts' /\ (db'.channel # "deleted" => Bounds')
  <2>1. \A op : Counting(op)' = Counting(op)
    BY <1>3, CountingKept DEF vars, reqVars
  <2>2. SubscribersTooMany' = SubscribersTooMany /\ PostsTooMany' = PostsTooMany
    BY <1>3, <2>1, Zenon DEF SubscribersTooMany, PostsTooMany, vars
  <2>3. FreshPosts' /\ UNCHANGED <<db, clamped, faults>>
    BY <1>3 DEF vars, reqVars, FreshPosts
  <2>. QED  BY <2>2, <2>3 DEF CountsInv, Bounds
<1>. QED  BY <1>1, <1>2, <1>3 DEF Next, CountsInv

\* The counts of a channel that is there are off by no more than its failures,
\* but for those that GREATEST has kept at zero (the count updates of
\* channel_service.go, each a statement after the one it counts).
THEOREM CountsExplained == Spec => []CountsAccountedFor
<1>1. CountsInv => CountsAccountedFor
  BY DEF CountsInv, Bounds, CountsAccountedFor
<1>. QED  BY <1>1, CountsInit, CountsStep, PTL DEF Spec

=============================================================================
