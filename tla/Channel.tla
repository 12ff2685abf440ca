------------------------------ MODULE Channel ------------------------------
(***************************************************************************)
(* A broadcast channel of service/channel: its life, its admins, its       *)
(* subscribers and posts with the two counts kept of them.                 *)
(*                                                                         *)
(* No operation of the service uses a transaction: an RPC is a sequence of *)
(* statements on PostgreSQL, each one step, that interleaves with other    *)
(* RPCs.  Any of them may fail, with or without its effect, and the        *)
(* process may stop.                                                       *)
(*                                                                         *)
(* Left out: the view count of a post, EditPost and PinPost (which check   *)
(* and then change nothing), lists, and the streams: what would feed them, *)
(* BroadcastNewPost and BroadcastPostDeleted, has no caller.               *)
(***************************************************************************)
EXTENDS Integers, FiniteSets

CONSTANTS
  Users,
  Owner,        \* who creates the channel
  OldAuthor,    \* who wrote the post that may be there to begin with
  OldPost,
  OldAdmins,    \* users who may administer the channel to begin with,
  OldSubscribers, \* and those who subscribe to it then
  Requests,     \* RPCs, each served once; a new post is named for its request
  Calls,        \* the RPCs that may arrive
  NoCall,
  MaxFaults     \* bound: failures

Posts == Requests \cup {OldPost}

ASSUME ChannelAssumption ==
  /\ IsFiniteSet(Users) /\ IsFiniteSet(Requests)
  /\ Owner \in Users /\ OldAuthor \in Users
  /\ OldAdmins \subseteq Users /\ OldSubscribers \subseteq Users
  /\ OldPost \notin Requests
  /\ MaxFaults \in Nat
  /\ Calls \subseteq
       [op : {"create", "update", "delete", "subscribe", "unsubscribe", "publish"}, user : Users]
       \cup [op : {"add_admin", "remove_admin"}, user : Users, target : Users]
       \cup [op : {"delete_post"}, user : Users, post : Posts]
  /\ NoCall \notin Calls

VARIABLES
  db,       \* the tables: channels, channel_admins, channel_subscriptions, channel_posts
  pc, call, reply,
  entitled, \* requests whose user owned or administered the channel since they began
  late,     \* requests that began after the channel was deleted
  clamped,  \* the counts GREATEST has kept at zero
  faults    \* failures so far

reqVars == <<pc, call, reply>>
vars == <<db, reqVars, entitled, late, clamped, faults>>

Active(r) == pc[r] \notin {"idle", "done"}
Goto(r, label) == pc' = [pc EXCEPT ![r] = label] /\ UNCHANGED reply
Finish(r, answer) ==
  /\ pc' = [pc EXCEPT ![r] = "done"]
  /\ reply' = [reply EXCEPT ![r] = answer]

Author(p) == IF p = OldPost THEN OldAuthor ELSE call[p].user

-----------------------------------------------------------------------------
Init ==
  /\ db \in
       {[channel |-> "none", profile |-> OldPost, admins |-> {}, subscribers |-> {},
         subscriberCount |-> 0, posts |-> [p \in Posts |-> "none"], postCount |-> 0]}
       \cup {[channel |-> "live", profile |-> OldPost, admins |-> {Owner} \cup others,
              subscribers |-> OldSubscribers, subscriberCount |-> Cardinality(OldSubscribers),
              posts |-> [p \in Posts |-> IF p = OldPost THEN "there" ELSE "none"],
              postCount |-> 1]
             : others \in {{}, OldAdmins}}
  /\ pc = [r \in Requests |-> "idle"]
  /\ call = [r \in Requests |-> NoCall]
  /\ reply = [r \in Requests |-> "none"]
  /\ entitled = {}
  /\ late = {}
  /\ clamped = {}
  /\ faults = 0

First(op) ==
  CASE op = "create" -> "insert_channel"
    [] op = "unsubscribe" -> "remove_subscription"
    [] op = "delete_post" -> "get_post"
    [] OTHER -> "get_channel"

\* Ids are known of what is there, or has been.
Begin(r, a) ==
  /\ pc[r] = "idle"
  /\ IF a.op = "create"
     THEN /\ a.user = Owner /\ db.channel = "none"
          /\ \A q \in Requests : Active(q) => call[q].op # "create"
     ELSE db.channel # "none"
  /\ a.op = "delete_post" => db.posts[a.post] # "none"
  /\ call' = [call EXCEPT ![r] = a]
  /\ Goto(r, First(a.op))
  /\ entitled' = IF a.user \in db.admins \cup {Owner} THEN entitled \cup {r} ELSE entitled
  /\ late' = IF db.channel = "deleted" THEN late \cup {r} ELSE late
  /\ UNCHANGED <<db, clamped, faults>>

-----------------------------------------------------------------------------
(* What the operations look at first. *)

\* GetByID of a post.
GetPost(r) ==
  /\ pc[r] = "get_post"
  /\ \/ db.posts[call[r].post] = "there" /\ Goto(r, "get_channel")
     \/ db.posts[call[r].post] # "there" /\ Finish(r, "not_found")
  /\ UNCHANGED <<db, call, entitled, late, clamped, faults>>

\* What follows once the channel is there. The owner needs no look into
\* channel_admins; only he deletes a channel and names admins, and he stays one.
Then(r) ==
  LET a == call[r]
      own == a.user = Owner
  IN CASE a.op = "subscribe" -> "is_subscribed"
       [] a.op = "update" -> "check_admin"
       [] a.op = "publish" -> IF own THEN "insert_post" ELSE "check_admin"
       [] a.op = "delete_post" -> IF own THEN "erase_post" ELSE "check_admin"
       [] a.op = "delete" -> IF own THEN "erase" ELSE "denied"
       [] a.op = "add_admin" -> IF own THEN "add" ELSE "denied"
       [] a.op = "remove_admin" -> IF own /\ a.target # Owner THEN "remove" ELSE "denied"

\* A look-up that finds a channel that is deleted, too.
GetChannelBug(r) ==
  /\ pc[r] = "get_channel"
  /\ IF Then(r) = "denied" THEN Finish(r, "denied") ELSE Goto(r, Then(r))
  /\ UNCHANGED <<db, call, entitled, late, clamped, faults>>

\* GetByID of the channel.
GetChannel(r) ==
  /\ pc[r] = "get_channel"
  /\ \/ db.channel # "live" /\ Finish(r, "not_found")
     \/ db.channel = "live" /\ Then(r) = "denied" /\ Finish(r, "denied")
     \/ db.channel = "live" /\ Then(r) # "denied" /\ Goto(r, Then(r))
  /\ UNCHANGED <<db, call, entitled, late, clamped, faults>>

Allowed(r) ==
  \/ call[r].user \in db.admins \cup {Owner}
  \/ call[r].op = "delete_post" /\ Author(call[r].post) = call[r].user

Permitted(op) ==
  CASE op = "update" -> "write_profile"
    [] op = "publish" -> "insert_post"
    [] op = "delete_post" -> "erase_post"

\* Subscribers take part.
CheckAdminBug(r) ==
  /\ pc[r] = "check_admin"
  /\ IF Allowed(r) \/ call[r].user \in db.subscribers
     THEN Goto(r, Permitted(call[r].op)) ELSE Finish(r, "denied")
  /\ UNCHANGED <<db, call, entitled, late, clamped, faults>>

\* IsAdmin, and the check that uses its answer.
CheckAdmin(r) ==
  /\ pc[r] = "check_admin"
  /\ \/ Allowed(r) /\ Goto(r, Permitted(call[r].op))
     \/ ~Allowed(r) /\ Finish(r, "denied")
  /\ UNCHANGED <<db, call, entitled, late, clamped, faults>>

IsSubscribed(r) ==
  /\ pc[r] = "is_subscribed"
  /\ \/ call[r].user \in db.subscribers /\ Finish(r, "already")
     \/ call[r].user \notin db.subscribers /\ Goto(r, "insert_subscription")
  /\ UNCHANGED <<db, call, entitled, late, clamped, faults>>

-----------------------------------------------------------------------------
(* What they write. *)

Writes == {"insert_channel", "insert_admin", "write_profile", "erase", "add", "remove",
           "insert_subscription", "remove_subscription", "insert_post", "erase_post"}

\* A delete that does not ask how many rows it has taken away.
MatchesBug(r) ==
  CASE pc[r] \in {"write_profile", "erase"} -> db.channel = "live"
    [] pc[r] = "remove" -> call[r].target \in db.admins
    [] pc[r] = "insert_subscription" -> call[r].user \notin db.subscribers
    [] OTHER -> TRUE

\* The statement writes a row: UPDATE and DELETE must affect one, and the key of
\* a subscription must be new. An admin may be there already.
Matches(r) ==
  CASE pc[r] \in {"write_profile", "erase"} -> db.channel = "live"
    [] pc[r] = "remove" -> call[r].target \in db.admins
    [] pc[r] = "insert_subscription" -> call[r].user \notin db.subscribers
    [] pc[r] = "remove_subscription" -> call[r].user \in db.subscribers
    [] pc[r] = "erase_post" -> db.posts[call[r].post] = "there"
    [] OTHER -> TRUE

Written(r) ==
  LET a == call[r]
  IN CASE pc[r] = "insert_channel" -> [db EXCEPT !.channel = "live"]
       [] pc[r] = "insert_admin" -> [db EXCEPT !.admins = @ \cup {Owner}]
       [] pc[r] = "write_profile" -> [db EXCEPT !.profile = r]
       [] pc[r] = "erase" -> [db EXCEPT !.channel = "deleted"]
       [] pc[r] = "add" -> [db EXCEPT !.admins = @ \cup {a.target}]
       [] pc[r] = "remove" -> [db EXCEPT !.admins = @ \ {a.target}]
       [] pc[r] = "insert_subscription" -> [db EXCEPT !.subscribers = @ \cup {a.user}]
       [] pc[r] = "remove_subscription" -> [db EXCEPT !.subscribers = @ \ {a.user}]
       [] pc[r] = "insert_post" -> [db EXCEPT !.posts[r] = "there"]
       [] pc[r] = "erase_post" -> [db EXCEPT !.posts[a.post] = "deleted"]

\* A statement takes effect.
Commit(r) ==
  /\ db' = Written(r)
  /\ entitled' = entitled \cup {q \in Requests : Active(q) /\ call[q].user \in Written(r).admins}

Write(r) ==
  /\ pc[r] \in Writes
  /\ \/ /\ Matches(r) /\ Commit(r)
        /\ CASE pc[r] = "insert_channel" -> Goto(r, "insert_admin")
             [] pc[r] \in {"insert_subscription", "remove_subscription", "insert_post",
                           "erase_post"} -> Goto(r, "count")
             [] OTHER -> Finish(r, "ok")
     \/ /\ ~Matches(r)
        /\ Finish(r, IF pc[r] = "insert_subscription" THEN "error" ELSE "not_found")
        /\ UNCHANGED <<db, entitled>>
  /\ UNCHANGED <<call, late, clamped, faults>>

\* A count that goes below zero.
Greatest0Bug(n) == n

Greatest0(n) == IF n < 0 THEN 0 ELSE n

\* The counts of a deleted channel stay as they are.
Counted(r) ==
  IF db.channel # "live" THEN db ELSE
  CASE call[r].op = "subscribe" -> [db EXCEPT !.subscriberCount = @ + 1]
    [] call[r].op = "unsubscribe" -> [db EXCEPT !.subscriberCount = Greatest0(@ - 1)]
    [] call[r].op = "publish" -> [db EXCEPT !.postCount = @ + 1]
    [] call[r].op = "delete_post" -> [db EXCEPT !.postCount = Greatest0(@ - 1)]

CountIt(r) ==
  /\ db' = Counted(r)
  /\ clamped' =
       clamped \cup (IF db.channel = "live" /\ call[r].op = "unsubscribe" /\ db.subscriberCount = 0
                     THEN {"subscribers"} ELSE {})
               \cup (IF db.channel = "live" /\ call[r].op = "delete_post" /\ db.postCount = 0
                     THEN {"posts"} ELSE {})

\* IncrementSubscriberCount, DecrementSubscriberCount and those of posts.
UpdateCount(r) ==
  /\ pc[r] = "count"
  /\ CountIt(r)
  /\ Finish(r, "ok")
  /\ UNCHANGED <<call, entitled, late, faults>>

-----------------------------------------------------------------------------
(* Failures. *)

\* A statement fails, with or without its effect: the caller is told.
StatementFails(r) ==
  /\ Active(r) /\ pc[r] # "count"
  /\ faults < MaxFaults
  /\ faults' = faults + 1
  /\ \/ UNCHANGED <<db, entitled>>
     \/ pc[r] \in Writes /\ Matches(r) /\ Commit(r)
  /\ Finish(r, "error")
  /\ UNCHANGED <<call, late, clamped>>

\* That of a count is logged: the caller hears of a success.
CountFails(r) ==
  /\ pc[r] = "count"
  /\ faults < MaxFaults
  /\ faults' = faults + 1
  /\ Finish(r, "ok")
  /\ UNCHANGED <<db, call, entitled, late, clamped>>

Crash(r) ==
  /\ Active(r) /\ faults < MaxFaults
  /\ faults' = faults + 1
  /\ Finish(r, "none")
  /\ UNCHANGED <<db, call, entitled, late, clamped>>

HandlerStep(r) ==
  \/ GetPost(r) \/ GetChannel(r) \/ CheckAdmin(r) \/ IsSubscribed(r)
  \/ Write(r) \/ UpdateCount(r)

HandlerFault(r) == StatementFails(r) \/ CountFails(r) \/ Crash(r)

Next ==
  \E r \in Requests : \/ \E a \in Calls : Begin(r, a)
                      \/ HandlerStep(r)
                      \/ HandlerFault(r)

Spec == Init /\ [][Next]_vars

-----------------------------------------------------------------------------
(* Properties. *)

TypeOK ==
  /\ db \in [channel : {"none", "live", "deleted"}, profile : Posts, admins : SUBSET Users,
             subscribers : SUBSET Users, subscriberCount : Nat,
             posts : [Posts -> {"none", "there", "deleted"}], postCount : Nat]
  /\ pc \in [Requests -> Writes \cup {"idle", "get_post", "get_channel", "check_admin",
                                      "is_subscribed", "count", "done"}]
  /\ call \in [Requests -> Calls \cup {NoCall}]
  /\ reply \in [Requests -> {"none", "ok", "not_found", "denied", "already", "error"}]
  /\ entitled \subseteq Requests
  /\ late \subseteq Requests
  /\ clamped \subseteq {"subscribers", "posts"}
  /\ faults \in 0 .. MaxFaults

Counting(op) == Cardinality({r \in Requests : pc[r] = "count" /\ call[r].op = op})

\* What a count has too much, once the requests that are about to move it have.
SubscribersTooMany ==
  db.subscriberCount + Counting("subscribe") - Counting("unsubscribe")
    - Cardinality(db.subscribers)
PostsTooMany ==
  db.postCount + Counting("publish") - Counting("delete_post")
    - Cardinality({p \in Posts : db.posts[p] = "there"})

\* Whatever requests overlap, the counts of a channel that is there are off by
\* no more than a failure each, but that one which GREATEST has kept at zero
\* stays too high: a removal has been counted before what it removed.
CountsAccountedFor ==
  db.channel = "live"
    => /\ SubscribersTooMany >= -faults /\ PostsTooMany >= -faults
       /\ "subscribers" \notin clamped => SubscribersTooMany <= faults
       /\ "posts" \notin clamped => PostsTooMany <= faults

Moves(r) == pc'[r] # pc[r]

\* Nobody publishes or updates a channel who was not its owner or one of its
\* admins at some time while he asked for it, nor deletes a post of others; and
\* nobody but the owner names admins, who never ceases to be one himself, or
\* deletes the channel.
OnlyAdminsAct ==
  [][\A r \in Requests : Moves(r) =>
       /\ db'.posts # db.posts =>
            r \in entitled \/ (call[r].op = "delete_post" /\ Author(call[r].post) = call[r].user)
       /\ db'.profile # db.profile => r \in entitled
       /\ db'.admins # db.admins \/ db.channel # db'.channel => call[r].user = Owner
       /\ Owner \in db.admins => Owner \in db'.admins]_vars

\* A channel that is deleted stays so, with its counts and its profile; and a
\* request that comes later adds nothing to it.
DeletedTakesNothing ==
  [][db.channel = "deleted" =>
       /\ db'.channel = "deleted" /\ db'.profile = db.profile
       /\ db'.subscriberCount = db.subscriberCount /\ db'.postCount = db.postCount
       /\ \A r \in late : Moves(r) /\ db' # db => call[r].op = "unsubscribe"]_vars
=============================================================================
