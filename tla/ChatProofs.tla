----------------------------- MODULE ChatProofs -----------------------------
(***************************************************************************)
(* For any users, members, history, calls and failures: type correctness   *)
(* of Chat, that the private conversation of two users is created once,    *)
(* that what was read stays read, and that the count in Redis is exact for *)
(* a user nobody is at work on.                                            *)
(***************************************************************************)
EXTENDS Chat, FiniteSetTheorems, TLAPS

Pcs == {"idle", "member", "insert", "next", "exists", "load", "incr", "set",
        "get", "miss", "fill", "look", "update", "drop", "find", "create", "done"}

Answers == {"none", "ok", "error", "not_member", "not_found", "own_message", "already_read"}

\* Between WATCH and EXEC.
Watching == {"exists", "load", "incr", "set"}

\* Where a request may be, by what it asks.
CallAt(a, label) ==
  \/ a.op = "send" /\ label \in {"member", "insert", "next", "done"} \cup Watching
  \/ a.op = "counts" /\ label \in {"get", "miss", "fill", "done"}
  \/ a.op \in {"mark_all", "mark_one"} /\ label \in {"look", "update", "drop", "done"}
  \/ a.op = "open" /\ label \in {"find", "create", "done"}

CallFits ==
  \A r \in Requests :
    /\ pc[r] # "idle" => call[r] \in Calls /\ CallAt(call[r], pc[r])
    /\ pc[r] = "idle" => todo[r] = {}
    /\ Active(r) => todo[r] \subseteq Members \ {call[r].user}
    /\ pc[r] \in Watching => who[r] \in Members \ {call[r].user} /\ who[r] \notin todo[r]

\* What a SendMessage is about to insert is its own message, not stored yet.
Stamped ==
  /\ \A r \in Requests : pc[r] = "insert" =>
       val[r] \in DOMAIN sent /\ val[r] \notin stored /\ sent[val[r]] = call[r].user
  /\ \A q, r \in Requests : q # r /\ pc[q] = "insert" /\ pc[r] = "insert" => val[q] # val[r]

\* Nobody has read what is not stamped.
ReadIsSent ==
  /\ \A u \in Users : lastRead[u] <= Len(sent)
  /\ \A r \in Requests : pc[r] = "update" => val[r] <= Len(sent) /\ call[r].user \in Members

\* A key that was not written since WATCH is as EXISTS found it.
Watched ==
  \A r \in Requests : r \notin dirty =>
    /\ pc[r] = "incr" => cache[who[r]] # Absent
    /\ pc[r] \in {"load", "set"} => cache[who[r]] = Absent

Typed == TypeOK /\ CallFits /\ Stamped /\ ReadIsSent /\ Watched

-----------------------------------------------------------------------------
(* What a step of a request does. *)

LEMMA CallType ==
  ASSUME NEW a \in Calls
  PROVE  /\ a.op \in {"send", "counts", "mark_all", "mark_one", "open"} /\ a.user \in Users
         /\ a.op = "mark_one" => a.message \in 1 .. MaxMessages
BY ChatAssumption

\* The variables as they are.
LEMMA Now ==
  ASSUME Typed
  PROVE  /\ pc \in [Requests -> Pcs] /\ call \in [Requests -> Calls \cup {NoCall}]
         /\ reply \in [Requests -> Answers] /\ val \in [Requests -> 0 .. MaxMessages]
         /\ who \in [Requests -> Users \cup {NoUser}] /\ todo \in [Requests -> SUBSET Members]
         /\ cache \in [Users -> Nat \cup {Absent}] /\ lastRead \in [Users -> 0 .. MaxMessages]
         /\ sent \in Seq(Members) /\ Len(sent) \in 0 .. MaxMessages /\ stored \subseteq 1 .. Len(sent)
         /\ faults \in 0 .. MaxFaults /\ MaxFaults \in Nat /\ MaxMessages \in Nat
         /\ Members \subseteq Users /\ Absent \notin Nat
         /\ \A r \in Requests : Active(r) =>
              /\ call[r] \in Calls /\ CallAt(call[r], pc[r]) /\ call[r].user \in Users
              /\ call[r].op \in {"send", "counts", "mark_all", "mark_one", "open"}
              /\ todo[r] \subseteq Members \ {call[r].user}
<1>1. /\ sent \in Seq(Members) /\ Len(sent) \in 0 .. MaxMessages /\ stored \subseteq 1 .. Len(sent)
      /\ MaxMessages \in Nat
  <2>1. sent \in Seq(Members) /\ Len(sent) <= MaxMessages /\ stored \subseteq DOMAIN sent /\ MaxMessages \in Nat
    BY ChatAssumption DEF Typed, TypeOK
  <2>2. Len(sent) \in Nat /\ DOMAIN sent = 1 .. Len(sent)
    BY <2>1
  <2>. QED  BY <2>1, <2>2
<1>2. \A r \in Requests : Active(r) =>
        /\ call[r] \in Calls /\ CallAt(call[r], pc[r]) /\ call[r].user \in Users
        /\ call[r].op \in {"send", "counts", "mark_all", "mark_one", "open"}
        /\ todo[r] \subseteq Members \ {call[r].user}
  BY CallType DEF Typed, CallFits, Active
<1>3. MaxFaults \in Nat /\ Members \subseteq Users /\ Absent \notin Nat
  BY ChatAssumption
<1>. QED  BY <1>1, <1>2, <1>3 DEF Typed, TypeOK, Pcs, Answers

LEMMA UpTo ==
  ASSUME NEW n \in Nat
  PROVE  IsFiniteSet(1 .. n) /\ Cardinality(1 .. n) = n
<1>1. 1 \in Int /\ n \in Int
  OBVIOUS
<1>2. IsFiniteSet(1 .. n) /\ Cardinality(1 .. n) = IF 1 <= n THEN n - 1 + 1 ELSE 0
  BY <1>1, FS_Interval
<1>. QED  BY <1>2

\* The messages of others, stored and later than last_read_at, are few.
LEMMA UnreadType ==
  ASSUME Typed, NEW u
  PROVE  /\ IsFiniteSet({m \in stored : u \in Members /\ sent[m] # u /\ m > lastRead[u]})
         /\ Unread(u) \in 0 .. MaxMessages
<1> DEFINE S == {m \in stored : u \in Members /\ sent[m] # u /\ m > lastRead[u]}
<1>1. S \subseteq 1 .. Len(sent) /\ Len(sent) \in Nat /\ Len(sent) <= MaxMessages /\ MaxMessages \in Nat
  BY Now
<1>2. IsFiniteSet(1 .. Len(sent)) /\ Cardinality(1 .. Len(sent)) = Len(sent)
  BY <1>1, UpTo
<1>3. IsFiniteSet(S) /\ Cardinality(S) <= Len(sent)
  BY <1>1, <1>2, FS_Subset
<1>4. Cardinality(S) \in Nat
  BY <1>3, FS_CardinalityType
<1>. QED  BY <1>1, <1>3, <1>4 DEF Unread

\* What every step of a request keeps.
Sound(r) ==
  /\ Active(r) /\ call' = call
  /\ \A q \in Requests \ {r} : pc'[q] = pc[q] /\ val'[q] = val[q] /\ who'[q] = who[q]
                               /\ todo'[q] = todo[q] /\ reply'[q] = reply[q]
  /\ pc' \in [Requests -> Pcs] /\ pc'[r] # "idle" /\ CallAt(call[r], pc'[r])
  /\ reply' \in [Requests -> Answers] /\ val' \in [Requests -> 0 .. MaxMessages]
  /\ who' \in [Requests -> Users \cup {NoUser}] /\ todo' \in [Requests -> SUBSET Members]
  /\ faults' \in 0 .. MaxFaults
  /\ unclean' \in {unclean, unclean \cup {r}}
  /\ stale' = IF pc'[r] # "done" THEN stale
              ELSE IF r \in unclean' THEN stale \cup Touched(call[r])
              ELSE IF pc[r] = "drop" THEN stale \ Touched(call[r])
              ELSE stale

\* A step that ends the request and writes nothing. Without a failure there is
\* nothing left to write.
Ended(r) ==
  /\ pc'[r] = "done" /\ UNCHANGED <<dbVars, cache, held>> /\ dirty' = dirty \ {r}
  /\ r \notin unclean' => pc[r] \notin Watching \cup {"fill", "drop"} /\ (pc[r] = "next" => todo[r] = {})

\* SendMessage.
DidStamp(r) ==
  /\ pc[r] = "member" /\ pc'[r] = "insert" /\ call[r].user \in Members
  /\ Len(sent) < MaxMessages /\ sent' = Append(sent, call[r].user) /\ val'[r] = Len(sent) + 1
  /\ todo'[r] = todo[r] /\ UNCHANGED <<stored, lastRead, private, cache, dirty, unclean>>

DidInsert(r) ==
  /\ pc[r] = "insert" /\ stored' = stored \cup {val[r]}
  /\ \/ pc'[r] = "next" /\ todo'[r] = Members \ {call[r].user}
     \/ pc'[r] = "done" /\ r \in unclean'
  /\ UNCHANGED <<sent, lastRead, private, cache, dirty>>

Picked(r) ==
  /\ pc[r] = "next" /\ pc'[r] = "exists"
  /\ who'[r] \in todo[r] /\ todo'[r] = todo[r] \ {who'[r]}
  /\ UNCHANGED <<dbVars, cache, dirty, unclean>>

FoundKey(r) ==
  /\ pc[r] = "exists" /\ pc'[r] = (IF cache[who[r]] = Absent THEN "load" ELSE "incr")
  /\ UNCHANGED <<dbVars, cache, dirty, unclean, held>>

Loaded(r) ==
  /\ \/ pc[r] = "load" /\ pc'[r] = "set" /\ val'[r] = Unread(who[r])
     \/ pc[r] = "miss" /\ pc'[r] = "fill" /\ val'[r] = Unread(call[r].user)
  /\ UNCHANGED <<dbVars, cache, dirty, unclean, who, todo>>

Executed(r) ==
  /\ pc[r] \in {"incr", "set"} /\ pc'[r] = "next"
  /\ \/ r \in dirty /\ dirty' = dirty \ {r} /\ UNCHANGED cache
     \/ r \notin dirty /\ Write(r, who[r], IF pc[r] = "incr" THEN cache[who[r]] + 1 ELSE val[r])
  /\ todo'[r] = todo[r] /\ UNCHANGED <<dbVars, unclean>>

GaveUp(r) ==
  /\ pc[r] \in Watching /\ pc'[r] = "next" /\ r \in unclean' /\ dirty' = dirty \ {r}
  /\ todo'[r] = todo[r] /\ UNCHANGED <<dbVars, cache>>

\* GetUnreadCounts, and the lookup of CreateConversation.
Missed(r) ==
  /\ \/ pc[r] = "get" /\ pc'[r] = "miss"
     \/ pc[r] = "find" /\ pc'[r] = "create" /\ (private = {} \/ r \in unclean')
  /\ UNCHANGED <<dbVars, cache, dirty, held>>

Filled(r) ==
  /\ pc[r] = "fill" /\ pc'[r] = "done" /\ Write(r, call[r].user, val[r])
  /\ UNCHANGED <<dbVars, held, unclean>>

\* The marks as read.
Chosen(r) ==
  /\ pc[r] = "look" /\ pc'[r] = "update" /\ call[r].user \in Members
  /\ \/ /\ call[r].op = "mark_one" /\ call[r].message \in stored
        /\ val'[r] = call[r].message /\ val'[r] > lastRead[call[r].user]
     \/ call[r].op = "mark_all" /\ val'[r] = Len(sent)
  /\ UNCHANGED <<dbVars, cache, dirty, unclean, who, todo>>

Updated(r) ==
  /\ pc[r] = "update" /\ lastRead' = [lastRead EXCEPT ![call[r].user] = val[r]]
  /\ pc'[r] = "drop" \/ (pc'[r] = "done" /\ r \in unclean')
  /\ todo'[r] = todo[r] /\ UNCHANGED <<sent, stored, private, cache, dirty>>

Dropped(r) ==
  /\ pc[r] = "drop" /\ pc'[r] = "done"
  /\ Write(r, call[r].user, IF call[r].op = "mark_all" THEN 0 ELSE Absent)
  /\ UNCHANGED <<dbVars, held, unclean>>

\* CreateConversation.
Created(r) ==
  /\ pc[r] = "create" /\ pc'[r] = "done" /\ private' = private \cup {r}
  /\ UNCHANGED <<sent, stored, lastRead, cache, dirty, held>>

Kind(r) ==
  \/ Ended(r) \/ DidStamp(r) \/ DidInsert(r) \/ Picked(r) \/ FoundKey(r) \/ Loaded(r)
  \/ Executed(r) \/ GaveUp(r) \/ Missed(r) \/ Filled(r)
  \/ Chosen(r) \/ Updated(r) \/ Dropped(r) \/ Created(r)

LEMMA MovedOn ==
  ASSUME Typed, NEW r \in Requests, Active(r), UNCHANGED <<call, reply, stale>>,
         NEW label \in Pcs \ {"idle", "done"}, Goto(r, label), CallAt(call[r], label),
         val' \in [Requests -> 0 .. MaxMessages], \A q \in Requests \ {r} : val'[q] = val[q],
         who' \in [Requests -> Users \cup {NoUser}], \A q \in Requests \ {r} : who'[q] = who[q],
         todo' \in [Requests -> SUBSET Members], \A q \in Requests \ {r} : todo'[q] = todo[q],
         faults' \in 0 .. MaxFaults, unclean' \in {unclean, unclean \cup {r}}
  PROVE  Sound(r) /\ pc'[r] = label
<1>1. pc' \in [Requests -> Pcs] /\ pc'[r] = label /\ \A q \in Requests \ {r} : pc'[q] = pc[q]
  BY Now DEF Goto
<1>. QED  BY <1>1, Now DEF Sound

LEMMA Ends ==
  ASSUME Typed, NEW r \in Requests, Active(r), UNCHANGED <<call, held>>,
         NEW answer \in Answers, NEW clean \in BOOLEAN, End(r, answer, clean),
         faults' \in 0 .. MaxFaults, unclean' \in {unclean, unclean \cup {r}},
         clean <=> r \notin unclean',
         clean => (answer = "ok" /\ call[r].op \in {"mark_all", "mark_one"} <=> pc[r] = "drop")
  PROVE  Sound(r) /\ pc'[r] = "done"
<1>1. pc' \in [Requests -> Pcs] /\ pc'[r] = "done" /\ \A q \in Requests \ {r} : pc'[q] = pc[q]
  BY Now DEF End, Goto, Pcs
<1>2. reply' \in [Requests -> Answers] /\ \A q \in Requests \ {r} : reply'[q] = reply[q]
  BY Now DEF End
<1>3. stale' = IF r \in unclean' THEN stale \cup Touched(call[r])
               ELSE IF pc[r] = "drop" THEN stale \ Touched(call[r])
               ELSE stale
  BY DEF End
<1>4. CallAt(call[r], "done")
  BY Now DEF CallAt
<1>. QED  BY <1>1, <1>2, <1>3, <1>4, Now DEF Sound, held

\* A request that is finished with the answer it has earned.
LEMMA Finishes ==
  ASSUME Typed, NEW r \in Requests, Active(r), UNCHANGED <<call, held, unclean>>,
         NEW answer \in Answers, Finish(r, answer), faults' \in 0 .. MaxFaults,
         answer = "ok" /\ call[r].op \in {"mark_all", "mark_one"} <=> pc[r] = "drop"
  PROVE  Sound(r) /\ pc'[r] = "done"
<1>1. (r \notin unclean) \in BOOLEAN
  OBVIOUS
<1>2. End(r, answer, r \notin unclean)
  BY DEF Finish
<1>. QED  BY <1>1, <1>2, Ends, Zenon

LEMMA StepKind ==
  ASSUME Typed, NEW r \in Requests, HandlerStep(r)
  PROVE  Sound(r) /\ Kind(r)
<1>0. /\ faults \in 0 .. MaxFaults /\ MaxMessages \in Nat /\ Len(sent) \in 0 .. MaxMessages
      /\ faults' = faults
  <2>1. faults' = faults
    BY DEF HandlerStep, CheckMember, InsertMessage, NextMember, CheckKey, Exec, GetKey, LoadCount, Fill,
           Look, UpdateLastReadAt, DropKey, FindPrivate, CreatePrivate
  <2>. QED  BY <2>1, Now
<1>d. pc[r] \notin Watching => dirty = dirty \ {r}
  BY DEF Typed, TypeOK, Watching
<1>1. CASE CheckMember(r)
  <2>1. /\ Active(r) /\ pc[r] = "member" /\ call[r].op = "send"
        /\ UNCHANGED <<stored, lastRead, private, cacheVars, call, who, todo, unclean>>
    BY <1>1, Now DEF CheckMember, Active, CallAt
  <2>2. CASE Finish(r, "not_member") /\ UNCHANGED <<sent, val>>
    <3>1. Sound(r) /\ pc'[r] = "done"
      BY <1>0, <2>1, <2>2, Finishes DEF held, Answers
    <3>. QED  BY <1>d, <2>1, <2>2, <3>1 DEF Kind, Ended, dbVars, cacheVars, held, Watching
  <2>3. CASE /\ call[r].user \in Members /\ Len(sent) < MaxMessages
             /\ sent' = Append(sent, call[r].user) /\ val' = [val EXCEPT ![r] = Len(sent) + 1]
             /\ Goto(r, "insert") /\ UNCHANGED <<reply, stale>>
    <3>1. Len(sent) + 1 \in 0 .. MaxMessages
      BY <1>0, <2>3
    <3>2. /\ val' \in [Requests -> 0 .. MaxMessages] /\ \A q \in Requests \ {r} : val'[q] = val[q]
          /\ val'[r] = Len(sent) + 1
      BY <2>3, <3>1, Now
    <3>3. CallAt(call[r], "insert")
      BY <2>1 DEF CallAt
    <3>4. Sound(r) /\ pc'[r] = "insert"
      BY <1>0, <2>1, <2>3, <3>2, <3>3, Now, MovedOn DEF Pcs
    <3>. QED  BY <2>1, <2>3, <3>2, <3>4 DEF Kind, DidStamp, cacheVars
  <2>. QED  BY <1>1, <2>2, <2>3 DEF CheckMember
<1>2. CASE InsertMessage(r)
  <2>1. /\ Active(r) /\ pc[r] = "insert" /\ call[r].op = "send"
        /\ UNCHANGED <<sent, lastRead, private, cacheVars, call, reply, who, unclean, stale>>
        /\ stored' = stored \cup {val[r]} /\ Goto(r, "next")
        /\ todo' = [todo EXCEPT ![r] = Members \ {call[r].user}] /\ val' = [val EXCEPT ![r] = 0]
    BY <1>2, Now DEF InsertMessage, Active, CallAt
  <2>2. /\ val' \in [Requests -> 0 .. MaxMessages] /\ \A q \in Requests \ {r} : val'[q] = val[q]
        /\ todo' \in [Requests -> SUBSET Members] /\ \A q \in Requests \ {r} : todo'[q] = todo[q]
        /\ todo'[r] = Members \ {call[r].user}
    BY <1>0, <2>1, Now
  <2>3. CallAt(call[r], "next")
    BY <2>1 DEF CallAt
  <2>4. Sound(r) /\ pc'[r] = "next"
    BY <1>0, <2>1, <2>2, <2>3, Now, MovedOn DEF Pcs
  <2>. QED  BY <2>1, <2>2, <2>4 DEF Kind, DidInsert, cacheVars
<1>3. CASE NextMember(r)
  <2>1. /\ Active(r) /\ pc[r] = "next" /\ call[r].op = "send"
        /\ UNCHANGED <<dbVars, cacheVars, call, val, unclean>>
    BY <1>3, Now DEF NextMember, Active, CallAt, Watching
  <2>2. CASE todo[r] = {} /\ Finish(r, "ok") /\ UNCHANGED <<who, todo>>
    <3>1. Sound(r) /\ pc'[r] = "done"
      BY <1>0, <2>1, <2>2, Finishes DEF held, Answers
    <3>. QED  BY <1>d, <2>1, <2>2, <3>1 DEF Kind, Ended, dbVars, cacheVars, held, Watching
  <2>3. ASSUME NEW u \in todo[r], who' = [who EXCEPT ![r] = u], todo' = [todo EXCEPT ![r] = @ \ {u}],
               Goto(r, "exists"), UNCHANGED <<reply, stale>>
        PROVE  Sound(r) /\ Kind(r)
    <3>1. u \in Users
      BY Now
    <3>2. /\ who' \in [Requests -> Users \cup {NoUser}] /\ \A q \in Requests \ {r} : who'[q] = who[q]
          /\ todo' \in [Requests -> SUBSET Members] /\ \A q \in Requests \ {r} : todo'[q] = todo[q]
          /\ who'[r] = u /\ todo'[r] = todo[r] \ {u}
      BY <2>3, <3>1, Now
    <3>3. CallAt(call[r], "exists")
      BY <2>1 DEF CallAt, Watching
    <3>4. Sound(r) /\ pc'[r] = "exists"
      BY <1>0, <2>1, <2>3, <3>2, <3>3, Now, MovedOn DEF Pcs
    <3>. QED  BY <2>1, <2>3, <3>2, <3>4 DEF Kind, Picked, cacheVars
  <2>. QED  BY <1>3, <2>2, <2>3 DEF NextMember
<1>4. CASE CheckKey(r)
  <2>1. /\ Active(r) /\ pc[r] = "exists" /\ call[r].op = "send"
        /\ UNCHANGED <<dbVars, cacheVars, call, reply, held, unclean, stale>>
        /\ Goto(r, IF cache[who[r]] = Absent THEN "load" ELSE "incr")
    BY <1>4, Now DEF CheckKey, Active, CallAt
  <2>2. CallAt(call[r], "load") /\ CallAt(call[r], "incr")
    BY <2>1 DEF CallAt, Watching
  <2>3. Sound(r) /\ pc'[r] = IF cache[who[r]] = Absent THEN "load" ELSE "incr"
    BY <1>0, <2>1, <2>2, Now, MovedOn DEF Pcs, held
  <2>. QED  BY <2>1, <2>3 DEF Kind, FoundKey, cacheVars
<1>5. CASE Exec(r)
  <2>1. /\ Active(r) /\ pc[r] \in {"incr", "set"} /\ call[r].op = "send" /\ Goto(r, "next")
        /\ who' = [who EXCEPT ![r] = NoUser] /\ val' = [val EXCEPT ![r] = 0]
        /\ UNCHANGED <<dbVars, call, reply, todo, unclean, stale>>
        /\ \/ r \in dirty /\ dirty' = dirty \ {r} /\ UNCHANGED cache
           \/ r \notin dirty /\ Write(r, who[r], IF pc[r] = "incr" THEN cache[who[r]] + 1 ELSE val[r])
    BY <1>5, Now DEF Exec, Active, CallAt
  <2>2. /\ val' \in [Requests -> 0 .. MaxMessages] /\ \A q \in Requests \ {r} : val'[q] = val[q]
        /\ who' \in [Requests -> Users \cup {NoUser}] /\ \A q \in Requests \ {r} : who'[q] = who[q]
    BY <1>0, <2>1, Now
  <2>3. CallAt(call[r], "next")
    BY <2>1 DEF CallAt
  <2>4. Sound(r) /\ pc'[r] = "next"
    BY <1>0, <2>1, <2>2, <2>3, Now, MovedOn DEF Pcs
  <2>. QED  BY <2>1, <2>4 DEF Kind, Executed
<1>6. CASE GetKey(r) \/ FindPrivate(r)
  <2>1. /\ Active(r) /\ pc[r] \in {"get", "find"} /\ call[r].op \in {"counts", "open"}
        /\ UNCHANGED <<dbVars, cacheVars, call, held, unclean>>
        /\ \/ Finish(r, "ok")
           \/ pc[r] = "get" /\ Goto(r, "miss") /\ UNCHANGED <<reply, stale>> /\ call[r].op = "counts"
           \/ pc[r] = "find" /\ Goto(r, "create") /\ UNCHANGED <<reply, stale>> /\ call[r].op = "open"
              /\ private = {}
    BY <1>6, Now DEF GetKey, FindPrivate, Active, CallAt, Watching
  <2>2. CASE Finish(r, "ok")
    <3>1. Sound(r) /\ pc'[r] = "done"
      BY <1>0, <2>1, <2>2, Finishes DEF Answers
    <3>. QED  BY <1>d, <2>1, <3>1 DEF Kind, Ended, cacheVars, Watching
  <2>3. CASE pc[r] = "get" /\ Goto(r, "miss") /\ UNCHANGED <<reply, stale>> /\ call[r].op = "counts"
    <3>1. CallAt(call[r], "miss")
      BY <2>3 DEF CallAt
    <3>2. Sound(r) /\ pc'[r] = "miss"
      BY <1>0, <2>1, <2>3, <3>1, Now, MovedOn DEF Pcs, held
    <3>. QED  BY <2>1, <2>3, <3>2 DEF Kind, Missed, cacheVars
  <2>4. CASE /\ pc[r] = "find" /\ Goto(r, "create") /\ UNCHANGED <<reply, stale>> /\ call[r].op = "open"
             /\ private = {}
    <3>1. CallAt(call[r], "create")
      BY <2>4 DEF CallAt
    <3>2. Sound(r) /\ pc'[r] = "create"
      BY <1>0, <2>1, <2>4, <3>1, Now, MovedOn DEF Pcs, held
    <3>. QED  BY <2>1, <2>4, <3>2 DEF Kind, Missed, cacheVars
  <2>. QED  BY <2>1, <2>2, <2>3, <2>4
<1>7. CASE LoadCount(r)
  <2>0. \A u : Unread(u) \in 0 .. MaxMessages
    BY UnreadType
  <2>1. PICK u, label :
          /\ Active(r) /\ UNCHANGED <<dbVars, cacheVars, call, reply, who, todo, unclean, stale>>
          /\ val' = [val EXCEPT ![r] = Unread(u)] /\ Goto(r, label)
          /\ \/ pc[r] = "load" /\ label = "set" /\ u = who[r] /\ call[r].op = "send"
             \/ pc[r] = "miss" /\ label = "fill" /\ u = call[r].user /\ call[r].op = "counts"
    BY <1>7, Now DEF LoadCount, Active, CallAt, Watching
  <2>2. /\ val' \in [Requests -> 0 .. MaxMessages] /\ \A q \in Requests \ {r} : val'[q] = val[q]
        /\ val'[r] = Unread(u)
    BY <2>0, <2>1, Now
  <2>3. CallAt(call[r], label) /\ label \in Pcs \ {"idle", "done"}
    BY <2>1 DEF CallAt, Watching, Pcs
  <2>4. Sound(r) /\ pc'[r] = label
    BY <1>0, <2>1, <2>2, <2>3, Now, MovedOn
  <2>. QED  BY <2>1, <2>2, <2>4 DEF Kind, Loaded, cacheVars
<1>8. CASE Fill(r)
  <2>1. /\ Active(r) /\ pc[r] = "fill" /\ call[r].op = "counts" /\ UNCHANGED <<dbVars, call, held, unclean>>
        /\ Write(r, call[r].user, val[r]) /\ Finish(r, "ok")
    BY <1>8, Now DEF Fill, Active, CallAt, Watching
  <2>2. Sound(r) /\ pc'[r] = "done"
    BY <1>0, <2>1, Finishes DEF Answers
  <2>. QED  BY <2>1, <2>2 DEF Kind, Filled
<1>9. CASE Look(r)
  <2>1. /\ Active(r) /\ pc[r] = "look" /\ UNCHANGED <<dbVars, cacheVars, call, who, todo, unclean>>
        /\ \/ /\ \E answer \in Answers \ {"ok"} : Finish(r, answer)
              /\ UNCHANGED val
           \/ \E m :
                /\ val' = [val EXCEPT ![r] = m] /\ Goto(r, "update") /\ UNCHANGED <<reply, stale>>
                /\ call[r].user \in Members
                /\ \/ /\ call[r].op = "mark_one" /\ m = call[r].message /\ m \in stored
                      /\ m > lastRead[call[r].user]
                   \/ call[r].op = "mark_all" /\ m = Len(sent)
    <3>1. CASE call[r].op = "mark_one"
      BY <1>9, <3>1 DEF Look, Active, Answers
    <3>2. CASE call[r].op = "mark_all"
      BY <1>9, <3>2 DEF Look, Active, Answers
    <3>. QED  BY <1>9, <3>1, <3>2 DEF Look
  <2>2. ASSUME NEW answer \in Answers \ {"ok"}, Finish(r, answer), UNCHANGED val
        PROVE  Sound(r) /\ Kind(r)
    <3>1. Sound(r) /\ pc'[r] = "done"
      BY <1>0, <2>1, <2>2, Finishes DEF held
    <3>. QED  BY <1>d, <2>1, <2>2, <3>1 DEF Kind, Ended, cacheVars, held, Watching
  <2>3. ASSUME NEW m, val' = [val EXCEPT ![r] = m], Goto(r, "update"), UNCHANGED <<reply, stale>>,
               call[r].user \in Members,
               \/ /\ call[r].op = "mark_one" /\ m = call[r].message /\ m \in stored
                  /\ m > lastRead[call[r].user]
               \/ call[r].op = "mark_all" /\ m = Len(sent)
        PROVE  Sound(r) /\ Kind(r)
    <3>1. m \in 0 .. MaxMessages
      BY <1>0, <2>3, Now
    <3>2. /\ val' \in [Requests -> 0 .. MaxMessages] /\ \A q \in Requests \ {r} : val'[q] = val[q]
          /\ val'[r] = m
      BY <2>3, <3>1, Now
    <3>3. CallAt(call[r], "update")
      BY <2>3 DEF CallAt
    <3>4. Sound(r) /\ pc'[r] = "update"
      BY <1>0, <2>1, <2>3, <3>2, <3>3, Now, MovedOn DEF Pcs
    <3>. QED  BY <2>1, <2>3, <3>2, <3>4 DEF Kind, Chosen, cacheVars
  <2>. QED  BY <2>1, <2>2, <2>3
<1>10. CASE UpdateLastReadAt(r)
  <2>1. /\ Active(r) /\ pc[r] = "update" /\ call[r].op \in {"mark_all", "mark_one"}
        /\ UNCHANGED <<sent, stored, private, cacheVars, call, reply, who, todo, unclean, stale>>
        /\ lastRead' = [lastRead EXCEPT ![call[r].user] = val[r]] /\ val' = [val EXCEPT ![r] = 0]
        /\ Goto(r, "drop")
    BY <1>10, Now DEF UpdateLastReadAt, Active, CallAt, Watching
  <2>2. val' \in [Requests -> 0 .. MaxMessages] /\ \A q \in Requests \ {r} : val'[q] = val[q]
    BY <1>0, <2>1, Now
  <2>3. CallAt(call[r], "drop")
    BY <2>1 DEF CallAt
  <2>4. Sound(r) /\ pc'[r] = "drop"
    BY <1>0, <2>1, <2>2, <2>3, Now, MovedOn DEF Pcs
  <2>. QED  BY <2>1, <2>4 DEF Kind, Updated, cacheVars
<1>11. CASE DropKey(r)
  <2>1. /\ Active(r) /\ pc[r] = "drop" /\ call[r].op \in {"mark_all", "mark_one"}
        /\ UNCHANGED <<dbVars, call, held, unclean>> /\ Finish(r, "ok")
        /\ Write(r, call[r].user, IF call[r].op = "mark_all" THEN 0 ELSE Absent)
    BY <1>11, Now DEF DropKey, Active, CallAt, Watching
  <2>2. Sound(r) /\ pc'[r] = "done"
    BY <1>0, <2>1, Finishes DEF Answers
  <2>. QED  BY <2>1, <2>2 DEF Kind, Dropped
<1>12. CASE CreatePrivate(r)
  <2>1. /\ Active(r) /\ pc[r] = "create" /\ call[r].op = "open" /\ private' = private \cup {r}
        /\ UNCHANGED <<sent, stored, lastRead, cacheVars, call, held, unclean>> /\ Finish(r, "ok")
    BY <1>12, Now DEF CreatePrivate, Active, CallAt, Watching
  <2>2. Sound(r) /\ pc'[r] = "done"
    BY <1>0, <2>1, Finishes DEF Answers
  <2>. QED  BY <2>1, <2>2 DEF Kind, Created, cacheVars
<1>. QED  BY <1>1, <1>2, <1>3, <1>4, <1>5, <1>6, <1>7, <1>8, <1>9, <1>10, <1>11, <1>12 DEF HandlerStep

LEMMA FaultKind ==
  ASSUME Typed, NEW r \in Requests, HandlerFault(r)
  PROVE  Sound(r) /\ Kind(r)
<1>0. faults' \in 0 .. MaxFaults
  <2>1. faults' = faults + 1 /\ faults < MaxFaults
    BY DEF HandlerFault, StatementFails, AnswerLost, ErrorLogged, Crash
  <2>. QED  BY <2>1, Now
<1>d. pc[r] \notin Watching => dirty = dirty \ {r}
  BY DEF Typed, TypeOK, Watching
<1>e. FALSE \in BOOLEAN
  OBVIOUS
<1>1. CASE StatementFails(r)
  <2>1. /\ Active(r) /\ pc[r] \in {"member", "insert", "miss", "look", "update", "create"}
        /\ Finish(r, "error") /\ UNCHANGED <<dbVars, cacheVars, call, held, unclean>>
    BY <1>1 DEF StatementFails, Active
  <2>2. Sound(r) /\ pc'[r] = "done"
    BY <1>0, <2>1, Finishes DEF Answers
  <2>. QED  BY <1>d, <2>1, <2>2 DEF Kind, Ended, cacheVars, Watching
<1>2. CASE AnswerLost(r)
  <2>1. /\ Active(r) /\ End(r, "error", FALSE) /\ unclean' = unclean \cup {r}
        /\ UNCHANGED <<cacheVars, call, held>>
        /\ \/ pc[r] = "insert" /\ stored' = stored \cup {val[r]} /\ UNCHANGED <<sent, lastRead, private>>
           \/ /\ pc[r] = "update" /\ lastRead' = [lastRead EXCEPT ![call[r].user] = val[r]]
              /\ UNCHANGED <<sent, stored, private>>
           \/ pc[r] = "create" /\ private' = private \cup {r} /\ UNCHANGED <<sent, stored, lastRead>>
    BY <1>2 DEF AnswerLost, Active
  <2>2. Sound(r) /\ pc'[r] = "done"
    BY <1>0, <1>e, <2>1, Ends DEF Answers
  <2>. QED  BY <2>1, <2>2 DEF Kind, DidInsert, Updated, Created, cacheVars, held
<1>3. CASE ErrorLogged(r)
  <2>1. Active(r) /\ unclean' = unclean \cup {r} /\ UNCHANGED <<dbVars, cache, call>>
    BY <1>3 DEF ErrorLogged, Active
  <2>2. CASE pc[r] \in {"next", "fill", "drop"} /\ End(r, "ok", FALSE) /\ UNCHANGED <<held, dirty>>
    <3>1. Sound(r) /\ pc'[r] = "done"
      BY <1>0, <1>e, <2>1, <2>2, Ends DEF Answers
    <3>. QED  BY <1>d, <2>1, <2>2, <3>1 DEF Kind, Ended, Watching
  <2>3. CASE /\ pc[r] \in Watching /\ Goto(r, "next") /\ dirty' = dirty \ {r}
             /\ who' = [who EXCEPT ![r] = NoUser] /\ val' = [val EXCEPT ![r] = 0]
             /\ UNCHANGED <<reply, todo, stale>>
    <3>1. /\ val' \in [Requests -> 0 .. MaxMessages] /\ \A q \in Requests \ {r} : val'[q] = val[q]
          /\ who' \in [Requests -> Users \cup {NoUser}] /\ \A q \in Requests \ {r} : who'[q] = who[q]
      BY <2>3, Now
    <3>2. CallAt(call[r], "next")
      BY <2>1, <2>3, Now DEF CallAt, Watching
    <3>3. Sound(r) /\ pc'[r] = "next"
      BY <1>0, <2>1, <2>3, <3>1, <3>2, Now, MovedOn DEF Pcs
    <3>. QED  BY <2>1, <2>3, <3>3 DEF Kind, GaveUp
  <2>4. CASE /\ pc[r] \in {"get", "find"} /\ Goto(r, IF pc[r] = "get" THEN "miss" ELSE "create")
             /\ UNCHANGED <<reply, held, stale, dirty>>
    <3>1. (pc[r] = "get" => CallAt(call[r], "miss")) /\ (pc[r] = "find" => CallAt(call[r], "create"))
      BY <2>1, Now DEF CallAt, Watching
    <3>2. Sound(r) /\ pc'[r] = IF pc[r] = "get" THEN "miss" ELSE "create"
      BY <1>0, <2>1, <2>4, <3>1, Now, MovedOn DEF Pcs, held
    <3>. QED  BY <2>1, <2>4, <3>2 DEF Kind, Missed
  <2>. QED  BY <1>3, <2>2, <2>3, <2>4 DEF ErrorLogged, Watching
<1>4. CASE Crash(r)
  <2>1. /\ Active(r) /\ End(r, "none", FALSE) /\ unclean' = unclean \cup {r} /\ dirty' = dirty \ {r}
        /\ UNCHANGED <<dbVars, cache, call, held>>
    BY <1>4 DEF Crash
  <2>2. Sound(r) /\ pc'[r] = "done"
    BY <1>0, <1>e, <2>1, Ends DEF Answers
  <2>. QED  BY <2>1, <2>2 DEF Kind, Ended
<1>. QED  BY <1>1, <1>2, <1>3, <1>4 DEF HandlerFault

LEMMA RequestStep ==
  ASSUME Typed, NEW r \in Requests, HandlerStep(r) \/ HandlerFault(r)
  PROVE  Sound(r) /\ Kind(r)
BY StepKind, FaultKind

\* A request arrives.
LEMMA BeginStep ==
  ASSUME Typed, NEW r \in Requests, NEW a \in Calls, Begin(r, a)
  PROVE  /\ UNCHANGED <<dbVars, cacheVars, reply, held, stale, faults>>
         /\ pc[r] = "idle" /\ call'[r] = a /\ CallAt(a, pc'[r])
         /\ pc'[r] \in {"member", "get", "find", "look"}
         /\ \A q \in Requests \ {r} : pc'[q] = pc[q] /\ call'[q] = call[q]
         /\ pc' \in [Requests -> Pcs] /\ call' \in [Requests -> Calls \cup {NoCall}]
         /\ unclean' = IF Rivals(a) = {} THEN unclean ELSE unclean \cup Rivals(a) \cup {r}
         /\ unclean \subseteq unclean' /\ unclean' \subseteq Requests
         /\ todo[r] = {}
<1>1. a.op \in {"send", "counts", "mark_all", "mark_one", "open"}
  BY CallType
<1>2. First(a.op) \in {"member", "get", "find", "look"} /\ CallAt(a, First(a.op))
  BY <1>1 DEF First, CallAt
<1>3. /\ pc' \in [Requests -> Pcs] /\ pc'[r] = First(a.op)
      /\ \A q \in Requests \ {r} : pc'[q] = pc[q]
  BY <1>2, Now DEF Begin, Goto, Pcs
<1>4. /\ call' \in [Requests -> Calls \cup {NoCall}] /\ call'[r] = a
      /\ \A q \in Requests \ {r} : call'[q] = call[q]
  BY Now DEF Begin
<1>5. unclean \subseteq unclean' /\ unclean' \subseteq Requests
  BY DEF Begin, Rivals, Typed, TypeOK
<1>6. pc[r] = "idle" /\ todo[r] = {}
  BY DEF Begin, Typed, CallFits
<1>. QED  BY <1>2, <1>3, <1>4, <1>5, <1>6 DEF Begin

LEMMA TypeInit ==
  ASSUME Init
  PROVE  Typed
<1>1. /\ sent \in Seq(Members) /\ Len(sent) <= MaxMessages /\ stored = 1 .. Len(sent)
      /\ Len(sent) \in Nat /\ DOMAIN sent = 1 .. Len(sent)
  BY ChatAssumption DEF Init
<1>2. \A u \in Users : Unread(u) \in Nat
  <2>1. ASSUME NEW u \in Users
        PROVE  Unread(u) \in Nat
    <3> DEFINE S == {m \in stored : u \in Members /\ sent[m] # u /\ m > lastRead[u]}
    <3>1. IsFiniteSet(1 .. Len(sent)) /\ S \subseteq 1 .. Len(sent)
      BY <1>1, UpTo
    <3>. QED  BY <3>1, FS_Subset, FS_CardinalityType DEF Unread
  <2>. QED  BY <2>1
<1>3. cache \in [Users -> Nat \cup {Absent}]
  BY <1>2 DEF Init
<1>4. TypeOK
  BY <1>1, <1>3, ChatAssumption DEF Init, TypeOK
<1>5. CallFits /\ Stamped /\ Watched
  BY DEF Init, CallFits, Stamped, Watched, Active, Watching
<1>6. ReadIsSent
  BY <1>1 DEF Init, ReadIsSent
<1>. QED  BY <1>4, <1>5, <1>6 DEF Typed

LEMMA TypeBegin ==
  ASSUME Typed, NEW r \in Requests, NEW a \in Calls, Begin(r, a)
  PROVE  Typed'
<1>1. /\ UNCHANGED <<dbVars, cacheVars, reply, held, stale, faults>>
      /\ pc[r] = "idle" /\ call'[r] = a /\ CallAt(a, pc'[r]) /\ todo[r] = {}
      /\ pc'[r] \in {"member", "get", "find", "look"}
      /\ \A q \in Requests \ {r} : pc'[q] = pc[q] /\ call'[q] = call[q]
      /\ pc' \in [Requests -> Pcs] /\ call' \in [Requests -> Calls \cup {NoCall}]
      /\ unclean' \subseteq Requests
  BY BeginStep
<1>2. TypeOK'
  BY <1>1 DEF Typed, TypeOK, Pcs, dbVars, cacheVars, held
<1>3. CallFits'
  BY <1>1 DEF Typed, CallFits, Active, Watching, held
<1>4. Stamped' /\ ReadIsSent' /\ Watched'
  BY <1>1 DEF Typed, Stamped, ReadIsSent, Watched, dbVars, cacheVars, held
<1>. QED  BY <1>2, <1>3, <1>4 DEF Typed

\* Messages are only ever added, at the end.
LEMMA SentGrows ==
  ASSUME Typed, NEW r \in Requests, Sound(r), Kind(r)
  PROVE  /\ sent' \in Seq(Members) /\ Len(sent') \in 0 .. MaxMessages /\ Len(sent) <= Len(sent')
         /\ \A m \in DOMAIN sent : m \in DOMAIN sent' /\ sent'[m] = sent[m]
         /\ DOMAIN sent = 1 .. Len(sent) /\ DOMAIN sent' = 1 .. Len(sent')
         /\ sent' = sent \/ DidStamp(r)
         /\ DidStamp(r) => val'[r] = Len(sent') /\ Len(sent') = Len(sent) + 1 /\ sent'[val'[r]] = call[r].user
<1>1. sent \in Seq(Members) /\ Len(sent) \in 0 .. MaxMessages /\ MaxMessages \in Nat
  BY Now
<1>2. CASE DidStamp(r)
  BY <1>1, <1>2 DEF DidStamp
<1>3. CASE ~DidStamp(r)
  <2>1. sent' = sent
    BY <1>3 DEF Kind, Ended, DidInsert, Picked, FoundKey, Loaded, Executed, GaveUp, Missed, Filled,
                Chosen, Updated, Dropped, Created, dbVars
  <2>. QED  BY <1>1, <1>3, <2>1
<1>. QED  BY <1>2, <1>3

\* How the keys are written: by a Write, or not at all.
LEMMA CacheMoves ==
  ASSUME Typed, NEW r \in Requests, Sound(r), Kind(r)
  PROVE  \/ cache' = cache /\ dirty' \in {dirty, dirty \ {r}}
         \/ \E u \in Users, v \in Nat \cup {Absent} :
              /\ Write(r, u, v) /\ pc'[r] \in {"next", "done"} /\ u \in Touched(call[r])
              /\ \/ Executed(r) /\ u = who[r]
                 \/ Filled(r) /\ u = call[r].user
                 \/ Dropped(r) /\ u = call[r].user
<1>1. CASE Executed(r)
  <2>1. CASE r \in dirty
    BY <1>1, <2>1 DEF Executed
  <2>2. CASE r \notin dirty
    <3> DEFINE v == IF pc[r] = "incr" THEN cache[who[r]] + 1 ELSE val[r]
    <3>1. Write(r, who[r], v)
      BY <1>1, <2>2 DEF Executed
    <3>2. who[r] \in Members \ {call[r].user} /\ who[r] \in Users
      BY <1>1, Now DEF Executed, Typed, CallFits, Watching
    <3>3. v \in Nat
      BY <1>1, <2>2, <3>2, Now DEF Executed, Typed, Watched
    <3>4. call[r].op = "send"
      BY <1>1, Now DEF Executed, Sound, CallAt, Watching
    <3>5. who[r] \in Touched(call[r])
      BY <3>2, <3>4 DEF Touched
    <3>. QED  BY <1>1, <3>1, <3>2, <3>3, <3>5 DEF Executed
  <2>. QED  BY <2>1, <2>2
<1>2. CASE Filled(r) \/ Dropped(r)
  <2>1. Active(r) /\ pc[r] \in {"fill", "drop"}
    BY <1>2 DEF Filled, Dropped, Sound
  <2>2. CallAt(call[r], pc[r]) /\ call[r].user \in Users /\ val[r] \in Nat /\ 0 \in Nat
    BY <2>1, Now
  <2>3. call[r].op \in {"counts", "mark_all", "mark_one"}
    BY <2>1, <2>2 DEF CallAt, Watching
  <2>4. call[r].user \in Touched(call[r])
    BY <2>3 DEF Touched
  <2>. QED  BY <1>2, <2>2, <2>4 DEF Filled, Dropped
<1>. QED  BY <1>1, <1>2 DEF Kind, Ended, DidStamp, DidInsert, Picked, FoundKey, Loaded, GaveUp, Missed,
                            Chosen, Updated, Created, dbVars

LEMMA TypeRequest ==
  ASSUME Typed, NEW r \in Requests, Sound(r), Kind(r)
  PROVE  Typed'
<1>1. /\ Active(r) /\ call' = call /\ call[r] \in Calls /\ CallAt(call[r], pc[r]) /\ call[r].user \in Users
      /\ pc' \in [Requests -> Pcs] /\ pc'[r] # "idle" /\ CallAt(call[r], pc'[r])
      /\ val \in [Requests -> 0 .. MaxMessages] /\ MaxMessages \in Nat
      /\ \A q \in Requests \ {r} : pc'[q] = pc[q] /\ val'[q] = val[q] /\ who'[q] = who[q]
                                   /\ todo'[q] = todo[q]
  BY Now DEF Sound
<1>2. /\ sent' \in Seq(Members) /\ Len(sent') \in 0 .. MaxMessages /\ Len(sent) <= Len(sent')
      /\ \A m \in DOMAIN sent : m \in DOMAIN sent' /\ sent'[m] = sent[m]
      /\ DOMAIN sent = 1 .. Len(sent) /\ DOMAIN sent' = 1 .. Len(sent')
      /\ Len(sent) \in Nat
  BY SentGrows, Now
<1>3. stored' \subseteq DOMAIN sent' /\ (stored' = stored \/ (DidInsert(r) /\ stored' = stored \cup {val[r]}))
  <2>1. stored \subseteq DOMAIN sent
    BY DEF Typed, TypeOK
  <2>2. DidInsert(r) => val[r] \in DOMAIN sent
    BY DEF Typed, Stamped, DidInsert
  <2>3. stored' = stored \/ (DidInsert(r) /\ stored' = stored \cup {val[r]})
    BY DEF Kind, Ended, DidStamp, DidInsert, Picked, FoundKey, Loaded, Executed, GaveUp, Missed, Filled,
           Chosen, Updated, Dropped, Created, dbVars
  <2>. QED  BY <1>2, <2>1, <2>2, <2>3
<1>4. /\ lastRead' \in [Users -> 0 .. MaxMessages]
      /\ \A u \in Users : lastRead'[u] <= Len(sent)
  <2>1. lastRead' = lastRead \/ (Updated(r) /\ lastRead' = [lastRead EXCEPT ![call[r].user] = val[r]])
    BY DEF Kind, Ended, DidStamp, DidInsert, Picked, FoundKey, Loaded, Executed, GaveUp, Missed, Filled,
           Chosen, Updated, Dropped, Created, dbVars
  <2>2. Updated(r) => val[r] <= Len(sent)
    BY DEF Updated, Typed, ReadIsSent
  <2>3. lastRead \in [Users -> 0 .. MaxMessages] /\ \A u \in Users : lastRead[u] <= Len(sent)
    BY DEF Typed, TypeOK, ReadIsSent
  <2>. QED  BY <1>1, <2>1, <2>2, <2>3
<1>5. private' \subseteq Requests
  BY DEF Typed, TypeOK, Kind, Ended, DidStamp, DidInsert, Picked, FoundKey, Loaded, Executed, GaveUp,
         Missed, Filled, Chosen, Updated, Dropped, Created, dbVars
<1>6. cache' \in [Users -> Nat \cup {Absent}]
  BY CacheMoves, Now DEF Write
<1>7. dirty' \subseteq {q \in Requests : pc'[q] \in Watching}
  <2>1. dirty \subseteq Requests /\ \A q \in dirty : pc[q] \in Watching
    BY DEF Typed, TypeOK, Watching
  <2>2. \A q \in dirty' : q \in Requests /\ (q # r => pc[q] \in Watching)
    BY <2>1, CacheMoves DEF Write, Watching
  <2>3. r \in dirty' => pc'[r] \in Watching
    BY <2>1 DEF Kind, Ended, DidStamp, DidInsert, Picked, FoundKey, Loaded, Executed, GaveUp,
                Missed, Filled, Chosen, Updated, Dropped, Created, Write, Watching
  <2>. QED  BY <1>1, <2>2, <2>3
<1>8. unclean' \subseteq Requests /\ stale' \subseteq Users
  <2>1. Touched(call[r]) \subseteq Users
    BY <1>1, Now DEF Touched
  <2>. QED  BY <2>1 DEF Sound, Typed, TypeOK
<1>9. TypeOK'
  <2>1. /\ reply' \in [Requests -> Answers] /\ val' \in [Requests -> 0 .. MaxMessages]
        /\ who' \in [Requests -> Users \cup {NoUser}] /\ todo' \in [Requests -> SUBSET Members]
        /\ call' \in [Requests -> Calls \cup {NoCall}] /\ faults' \in 0 .. MaxFaults
    BY Now DEF Sound
  <2>2. Len(sent') <= MaxMessages
    BY <1>1, <1>2
  <2>3. pc' \in [Requests -> Pcs]
    BY <1>1
  <2>. QED  BY <1>2, <1>3, <1>4, <1>5, <1>6, <1>7, <1>8, <2>1, <2>2, <2>3 DEF TypeOK, Pcs, Answers, Watching
<1>10. CallFits'
  <2>0. /\ todo[r] \subseteq Members \ {call[r].user}
        /\ pc[r] \in Watching => who[r] \in Members \ {call[r].user} /\ who[r] \notin todo[r]
    BY <1>1, Now DEF Typed, CallFits
  <2>1. /\ todo'[r] \subseteq Members \ {call[r].user} \/ pc'[r] = "done"
        /\ pc'[r] \in Watching => who'[r] \in Members \ {call[r].user} /\ who'[r] \notin todo'[r]
    <3>1. CASE Picked(r)
      <4>1. /\ pc[r] = "next" /\ pc'[r] = "exists" /\ who'[r] \in todo[r] /\ todo'[r] = todo[r] \ {who'[r]}
        BY <3>1 DEF Picked
      <4>. QED  BY <2>0, <4>1
    <3>2. CASE DidInsert(r)
      BY <2>0, <3>2, <1>1 DEF DidInsert, Watching
    <3>3. CASE ~Picked(r) /\ ~DidInsert(r)
      <4>1. todo'[r] = todo[r] /\ (pc'[r] \in Watching => pc[r] \in Watching /\ who'[r] = who[r])
        BY <3>3 DEF Kind, Ended, DidStamp, FoundKey, Loaded, Executed, GaveUp, Missed,
                    Filled, Chosen, Updated, Dropped, Created, held, Watching
      <4>. QED  BY <2>0, <4>1
    <3>. QED  BY <3>1, <3>2, <3>3
  <2>. QED  BY <1>1, <2>1 DEF Typed, CallFits, Active
<1>11. Stamped'
  <2>1. pc'[r] = "insert" => DidStamp(r)
    BY DEF Kind, Ended, DidStamp, DidInsert, Picked, FoundKey, Loaded, Executed, GaveUp, Missed,
           Filled, Chosen, Updated, Dropped, Created, Watching
  <2>2. DidStamp(r) => /\ val'[r] \in DOMAIN sent' /\ sent'[val'[r]] = call[r].user
                       /\ val'[r] \notin DOMAIN sent /\ stored' = stored
    <3>1. ASSUME DidStamp(r)
          PROVE  val'[r] = Len(sent') /\ Len(sent') = Len(sent) + 1 /\ sent'[val'[r]] = call[r].user
      BY <3>1, SentGrows
    <3>2. DidStamp(r) => stored' = stored
      BY DEF DidStamp
    <3>. QED  BY <1>2, <3>1, <3>2
  <2>3. ASSUME NEW q \in Requests \ {r}, pc[q] = "insert"
        PROVE  /\ val[q] \in DOMAIN sent /\ val[q] \notin stored' /\ sent[val[q]] = call[q].user
               /\ sent'[val[q]] = sent[val[q]]
    BY <1>2, <1>3, <2>3 DEF Typed, Stamped, DidInsert
  <2>4. stored \subseteq DOMAIN sent
    BY DEF Typed, TypeOK
  <2>5. ASSUME NEW q \in Requests, pc'[q] = "insert"
        PROVE  val'[q] \in DOMAIN sent' /\ val'[q] \notin stored' /\ sent'[val'[q]] = call'[q].user
    BY <1>1, <1>2, <2>1, <2>2, <2>3, <2>4, <2>5
  <2>6. ASSUME NEW p \in Requests, NEW q \in Requests, p # q, pc'[p] = "insert", pc'[q] = "insert"
        PROVE  val'[p] # val'[q]
    <3>1. CASE p = r
      BY <1>1, <2>1, <2>2, <2>3, <2>6, <3>1
    <3>2. CASE q = r
      BY <1>1, <2>1, <2>2, <2>3, <2>6, <3>2
    <3>3. CASE p # r /\ q # r
      BY <1>1, <2>6, <3>3 DEF Typed, Stamped
    <3>. QED  BY <3>1, <3>2, <3>3
  <2>. QED  BY <2>5, <2>6 DEF Stamped
<1>12. ReadIsSent'
  <2>1. pc'[r] = "update" => val'[r] <= Len(sent) /\ call[r].user \in Members
    <3>1. pc'[r] = "update" => Chosen(r)
      BY DEF Kind, Ended, DidStamp, DidInsert, Picked, FoundKey, Loaded, Executed, GaveUp, Missed,
             Filled, Chosen, Updated, Dropped, Created, Watching
    <3>2. Chosen(r) => val'[r] <= Len(sent) /\ call[r].user \in Members
      BY <1>2, Now DEF Chosen
    <3>. QED  BY <3>1, <3>2
  <2>2. ASSUME NEW q \in Requests, pc'[q] = "update"
        PROVE  val'[q] <= Len(sent') /\ call'[q].user \in Members
    <3>1. val'[q] \in Nat
      BY Now DEF Sound
    <3>2. CASE q = r
      BY <1>1, <1>2, <2>1, <2>2, <3>1, <3>2
    <3>3. CASE q # r
      <4>1. val'[q] = val[q] /\ pc[q] = "update" /\ call'[q] = call[q]
        BY <1>1, <2>2, <3>3
      <4>2. val[q] <= Len(sent) /\ call[q].user \in Members
        BY <4>1 DEF Typed, ReadIsSent
      <4>. QED  BY <1>2, <3>1, <4>1, <4>2
    <3>. QED  BY <3>2, <3>3
  <2>. QED  BY <1>2, <1>4, <2>2 DEF ReadIsSent
<1>13. Watched'
  <2>1. ASSUME NEW q \in Requests, q \notin dirty', q # r, pc'[q] \in {"incr", "load", "set"}
        PROVE  q \notin dirty /\ cache'[who[q]] = cache[who[q]] /\ who'[q] = who[q] /\ pc'[q] = pc[q]
    <3>1. who'[q] = who[q] /\ pc'[q] = pc[q] /\ pc[q] \in {"exists", "load", "incr", "set"}
      BY <1>1, <2>1
    <3>2. CASE cache' = cache /\ dirty' \in {dirty, dirty \ {r}}
      BY <2>1, <3>1, <3>2
    <3>3. ASSUME NEW u \in Users, NEW v \in Nat \cup {Absent}, Write(r, u, v)
          PROVE  q \notin dirty /\ cache'[who[q]] = cache[who[q]]
      <4>1. q \notin dirty /\ (who[q] = u => v = Absent /\ cache[u] = Absent)
        BY <2>1, <3>1, <3>3 DEF Write
      <4>2. cache' = [cache EXCEPT ![u] = v] /\ cache \in [Users -> Nat \cup {Absent}]
        BY <3>3, Now DEF Write
      <4>3. who[q] \in Users
        BY <3>1, Now DEF Typed, CallFits, Watching
      <4>. QED  BY <4>1, <4>2, <4>3
    <3>. QED  BY <3>1, <3>2, <3>3, CacheMoves
  <2>2. r \notin dirty' => /\ pc'[r] = "incr" => cache'[who'[r]] # Absent
                           /\ pc'[r] \in {"load", "set"} => cache'[who'[r]] = Absent
    BY <1>1 DEF Typed, Watched, Kind, Ended, DidStamp, DidInsert, Picked, FoundKey, Loaded, Executed,
                GaveUp, Missed, Filled, Chosen, Updated, Dropped, Created, held
  <2>. QED  BY <2>1, <2>2 DEF Typed, Watched
<1>. QED  BY <1>9, <1>10, <1>11, <1>12, <1>13 DEF Typed

LEMMA TypeStep ==
  ASSUME Typed, [Next]_vars
  PROVE  Typed'
<1>1. ASSUME NEW u \in Users, Expire(u)
      PROVE  Typed'
  <2>1. /\ UNCHANGED <<dbVars, pc, call, reply, held, unclean, faults>>
        /\ cache' \in [Users -> Nat \cup {Absent}] /\ stale' \subseteq Users
        /\ dirty' \subseteq {q \in Requests : pc[q] \in Watching}
    BY <1>1 DEF Expire, Typed, TypeOK, Watching
  <2>2. TypeOK' /\ CallFits' /\ Stamped' /\ ReadIsSent'
    BY <2>1 DEF Typed, TypeOK, CallFits, Stamped, ReadIsSent, Active, dbVars, held, Watching
  <2>3. Watched'
    BY <1>1, Now DEF Typed, Watched, Expire, held
  <2>. QED  BY <2>2, <2>3 DEF Typed
<1>2. CASE UNCHANGED vars
  BY <1>2 DEF Typed, TypeOK, CallFits, Stamped, ReadIsSent, Watched, Active, vars, dbVars, cacheVars, held
<1>. QED  BY <1>1, <1>2, TypeBegin, TypeRequest, RequestStep DEF Next

\* Every variable keeps its type.
THEOREM TypeCorrect == Spec => []TypeOK
<1>1. Init => Typed
  BY TypeInit
<1>2. Typed /\ [Next]_vars => Typed'
  BY TypeStep
<1>3. Typed => TypeOK
  BY DEF Typed
<1>. QED  BY <1>1, <1>2, <1>3, PTL DEF Spec

-----------------------------------------------------------------------------
(* Requests that met another one on the same key know it. *)

Meeting ==
  \A q, r \in Requests :
    q # r /\ Active(q) /\ Active(r) /\ Clash(call[q], call[r]) => q \in unclean /\ r \in unclean

\* What every step of Next is to the requests.
LEMMA NextCases ==
  ASSUME Typed, Next
  PROVE  \/ \E r \in Requests, a \in Calls : Begin(r, a)
         \/ \E r \in Requests : Sound(r) /\ Kind(r)
         \/ \E u \in Users : Expire(u)
BY RequestStep DEF Next

LEMMA CleanBefore ==
  ASSUME Typed, [Next]_vars
  PROVE  unclean \subseteq unclean'
<1>1. ASSUME NEW r \in Requests, NEW a \in Calls, Begin(r, a)
      PROVE  unclean \subseteq unclean'
  BY <1>1, BeginStep
<1>2. ASSUME NEW r \in Requests, Sound(r)
      PROVE  unclean \subseteq unclean'
  BY <1>2 DEF Sound
<1>3. ASSUME NEW u \in Users, Expire(u)
      PROVE  unclean \subseteq unclean'
  BY <1>3 DEF Expire
<1>. QED  BY <1>1, <1>2, <1>3, NextCases DEF vars

LEMMA MeetingStep ==
  ASSUME Typed, Meeting, [Next]_vars
  PROVE  Meeting'
<1>1. ASSUME NEW r \in Requests, NEW a \in Calls, Begin(r, a)
      PROVE  Meeting'
  <2>1. /\ pc[r] = "idle" /\ call'[r] = a /\ pc'[r] \in {"member", "get", "find", "look"}
        /\ \A q \in Requests \ {r} : pc'[q] = pc[q] /\ call'[q] = call[q]
        /\ unclean' = IF Rivals(a) = {} THEN unclean ELSE unclean \cup Rivals(a) \cup {r}
        /\ unclean \subseteq unclean'
    BY <1>1, BeginStep
  <2>2. ASSUME NEW q \in Requests \ {r}, Active(q)', Clash(call[q], a)
        PROVE  q \in unclean' /\ r \in unclean'
    <3>1. q \in Rivals(a)
      BY <2>1, <2>2 DEF Active, Rivals
    <3>. QED  BY <2>1, <3>1
  <2>3. ASSUME NEW q \in Requests \ {r}, Clash(a, call[q])
        PROVE  Clash(call[q], a)
    BY <2>3 DEF Clash
  <2>4. ASSUME NEW p \in Requests, NEW q \in Requests, p # q, Active(p)', Active(q)', Clash(call[p], call[q])'
        PROVE  p \in unclean' /\ q \in unclean'
    <3>0. Clash(call'[p], call'[q])
      BY <2>4 DEF Clash, Touched
    <3>1. CASE p = r
      BY <2>1, <2>2, <2>3, <2>4, <3>0, <3>1
    <3>2. CASE q = r
      BY <2>1, <2>2, <2>4, <3>0, <3>2
    <3>3. CASE p # r /\ q # r
      BY <2>1, <2>4, <3>0, <3>3 DEF Meeting, Active
    <3>. QED  BY <3>1, <3>2, <3>3
  <2>. QED  BY <2>4 DEF Meeting
<1>2. ASSUME NEW r \in Requests, Sound(r)
      PROVE  Meeting'
  <2>1. /\ call' = call /\ Active(r) /\ unclean \subseteq unclean'
        /\ \A q \in Requests \ {r} : pc'[q] = pc[q]
    BY <1>2 DEF Sound
  <2>2. \A q \in Requests : Active(q)' => Active(q)
    BY <2>1 DEF Active
  <2>. QED  BY <2>1, <2>2 DEF Meeting, Clash, Touched
<1>3. ASSUME NEW u \in Users, Expire(u)
      PROVE  Meeting'
  BY <1>3 DEF Expire, Meeting, Active, Clash, Touched
<1>4. CASE UNCHANGED vars
  BY <1>4 DEF vars, Meeting, Active, Clash, Touched
<1>. QED  BY <1>1, <1>2, <1>3, <1>4, NextCases

LEMMA MeetingInit ==
  ASSUME Init
  PROVE  Meeting
BY DEF Init, Meeting, Active

-----------------------------------------------------------------------------
(* The conversation of two users. *)

\* Who creates a conversation has looked and found none, or met somebody.
LookedFirst ==
  /\ \A r \in Requests : pc[r] = "create" /\ r \notin unclean => private = {}
  /\ \A p, q \in private : p = q \/ private \cap unclean # {}

LEMMA LookedStep ==
  ASSUME Typed, Meeting, LookedFirst, [Next]_vars
  PROVE  LookedFirst'
<1>1. unclean \subseteq unclean'
  BY CleanBefore
<1>2. ASSUME NEW r \in Requests, NEW a \in Calls, Begin(r, a)
      PROVE  LookedFirst'
  <2>1. /\ private' = private /\ pc'[r] # "create" /\ \A q \in Requests \ {r} : pc'[q] = pc[q]
    BY <1>2, BeginStep DEF dbVars
  <2>. QED  BY <1>1, <2>1 DEF LookedFirst
<1>3. ASSUME NEW r \in Requests, Sound(r), Kind(r)
      PROVE  LookedFirst'
  <2>1. /\ call' = call /\ Active(r) /\ \A q \in Requests \ {r} : pc'[q] = pc[q]
    BY <1>3 DEF Sound
  <2>2. CASE Created(r)
    <3>1. /\ pc[r] = "create" /\ pc'[r] = "done" /\ private' = private \cup {r}
      BY <2>2 DEF Created
    <3>2. ASSUME NEW q \in Requests \ {r}, pc[q] = "create"
          PROVE  q \in unclean'
      <4>1. Active(q)
        BY <3>2 DEF Active
      <4>2. call[q].op = "open" /\ call[r].op = "open"
        BY <2>1, <3>1, <3>2, <4>1, Now DEF CallAt, Watching
      <4>3. Clash(call[q], call[r])
        BY <4>2 DEF Clash
      <4>. QED  BY <1>1, <2>1, <4>1, <4>3 DEF Meeting
    <3>3. r \in unclean' \/ private' = {r}
      BY <1>1, <3>1 DEF LookedFirst
    <3>. QED  BY <2>1, <3>1, <3>2, <3>3 DEF LookedFirst
  <2>3. CASE ~Created(r)
    <3>1. private' = private /\ (pc'[r] = "create" => private = {} \/ r \in unclean')
      BY <1>3, <2>3 DEF Kind, Ended, DidStamp, DidInsert, Picked, FoundKey, Loaded, Executed, GaveUp, Missed,
                        Filled, Chosen, Updated, Dropped, dbVars
    <3>. QED  BY <1>1, <2>1, <3>1 DEF LookedFirst
  <2>. QED  BY <2>2, <2>3
<1>4. ASSUME NEW u \in Users, Expire(u)
      PROVE  LookedFirst'
  BY <1>4 DEF Expire, LookedFirst, dbVars
<1>5. CASE UNCHANGED vars
  BY <1>5 DEF vars, dbVars, LookedFirst
<1>. QED  BY <1>2, <1>3, <1>4, <1>5, NextCases

\* Two users have a single private conversation, unless two requests for it
\* overlapped or the lookup of one failed.
THEOREM OneConversation == Spec => []PrivateConversationUnique
<1>1. Init => Typed /\ Meeting /\ LookedFirst
  BY TypeInit, MeetingInit DEF Init, LookedFirst
<1>2. Typed /\ Meeting /\ LookedFirst /\ [Next]_vars => (Typed /\ Meeting /\ LookedFirst)'
  BY TypeStep, MeetingStep, LookedStep
<1>3. LookedFirst => PrivateConversationUnique
  <2>1. SUFFICES ASSUME LookedFirst, private \cap unclean = {}
                 PROVE  ~(Cardinality(private) > 1)
    BY DEF PrivateConversationUnique
  <2>2. CASE private = {}
    BY <2>2, FS_EmptySet
  <2>3. CASE private # {}
    <3>1. PICK p \in private : TRUE
      BY <2>3
    <3>2. private = {p}
      BY <2>1, <3>1 DEF LookedFirst
    <3>. QED  BY <3>2, FS_Singleton
  <2>. QED  BY <2>2, <2>3
<1>. QED  BY <1>1, <1>2, <1>3, PTL DEF Spec

-----------------------------------------------------------------------------
(* What was read. *)

\* A mark nobody met sets last_read_at to what is later than the row.
ReadAhead ==
  \A r \in Requests : pc[r] = "update" /\ r \notin unclean => lastRead[call[r].user] <= val[r]

\* Whose last_read_at a step sets.
LEMMA ReadMoves ==
  ASSUME Typed, NEW r \in Requests, Sound(r), Kind(r), ~Updated(r)
  PROVE  lastRead' = lastRead
BY DEF Kind, Ended, DidStamp, DidInsert, Picked, FoundKey, Loaded, Executed, GaveUp, Missed, Filled,
       Chosen, Dropped, Created, dbVars

LEMMA ReadAheadStep ==
  ASSUME Typed, Meeting, ReadAhead, [Next]_vars
  PROVE  ReadAhead'
<1>1. unclean \subseteq unclean'
  BY CleanBefore
<1>2. ASSUME NEW r \in Requests, NEW a \in Calls, Begin(r, a)
      PROVE  ReadAhead'
  <2>1. /\ lastRead' = lastRead /\ val' = val /\ pc'[r] # "update"
        /\ \A q \in Requests \ {r} : pc'[q] = pc[q] /\ call'[q] = call[q]
    BY <1>2, BeginStep DEF dbVars, held
  <2>. QED  BY <1>1, <2>1 DEF ReadAhead
<1>3. ASSUME NEW r \in Requests, Sound(r), Kind(r)
      PROVE  ReadAhead'
  <2>1. /\ call' = call /\ Active(r) /\ \A q \in Requests \ {r} : pc'[q] = pc[q] /\ val'[q] = val[q]
    BY <1>3 DEF Sound
  <2>2. ASSUME pc'[r] = "update"
        PROVE  lastRead'[call[r].user] <= val'[r]
    <3>1. Chosen(r)
      BY <1>3, <2>2 DEF Kind, Ended, DidStamp, DidInsert, Picked, FoundKey, Loaded, Executed, GaveUp, Missed,
                        Filled, Chosen, Updated, Dropped, Created, Watching
    <3>2. lastRead' = lastRead /\ (val'[r] > lastRead[call[r].user] \/ val'[r] = Len(sent))
      BY <3>1 DEF Chosen, dbVars
    <3>3. /\ call[r].user \in Users /\ lastRead[call[r].user] \in Nat /\ val'[r] \in Nat
          /\ lastRead[call[r].user] <= Len(sent) /\ Len(sent) \in Nat
      BY <1>3, <2>1, Now DEF Sound, Typed, ReadIsSent
    <3>. QED  BY <3>2, <3>3
  <2>3. ASSUME NEW q \in Requests \ {r}, pc[q] = "update", q \notin unclean
        PROVE  lastRead'[call[q].user] = lastRead[call[q].user]
    <3>1. CASE Updated(r)
      <4>1. pc[r] = "update" /\ lastRead' = [lastRead EXCEPT ![call[r].user] = val[r]] /\ Active(q)
        BY <2>3, <3>1 DEF Updated, Active
      <4>2. call[q].op \in {"mark_all", "mark_one"} /\ call[r].op \in {"mark_all", "mark_one"}
        BY <2>1, <2>3, <4>1, Now DEF CallAt, Watching
      <4>3. call[q].user # call[r].user
        BY <2>1, <2>3, <4>1, <4>2 DEF Meeting, Clash, Touched
      <4>. QED  BY <2>1, <4>1, <4>3, Now
    <3>. QED  BY <1>3, <3>1, ReadMoves
  <2>4. ASSUME NEW q \in Requests, pc'[q] = "update", q \notin unclean'
        PROVE  lastRead'[call'[q].user] <= val'[q]
    <3>1. CASE q = r
      BY <2>1, <2>2, <2>4, <3>1
    <3>2. CASE q # r
      BY <1>1, <2>1, <2>3, <2>4, <3>2 DEF ReadAhead
    <3>. QED  BY <3>1, <3>2
  <2>. QED  BY <2>4 DEF ReadAhead
<1>4. ASSUME NEW u \in Users, Expire(u)
      PROVE  ReadAhead'
  BY <1>4 DEF Expire, ReadAhead, dbVars, held
<1>5. CASE UNCHANGED vars
  BY <1>5 DEF vars, dbVars, held, ReadAhead
<1>. QED  BY <1>2, <1>3, <1>4, <1>5, NextCases

LEMMA ReadBack ==
  ASSUME Typed, ReadAhead, [Next]_vars, NEW u \in Users, lastRead'[u] < lastRead[u]
  PROVE  \E r \in unclean : pc[r] = "update" /\ call[r].user = u
<1>0. lastRead[u] \in Nat
  BY Now
<1>1. ASSUME NEW r \in Requests, NEW a \in Calls, Begin(r, a)
      PROVE  lastRead' = lastRead
  BY <1>1, BeginStep DEF dbVars
<1>2. ASSUME NEW r \in Requests, Sound(r), Kind(r)
      PROVE  r \in unclean /\ pc[r] = "update" /\ call[r].user = u
  <2>1. Updated(r)
    BY <1>0, <1>2, ReadMoves
  <2>2. pc[r] = "update" /\ lastRead' = [lastRead EXCEPT ![call[r].user] = val[r]]
    BY <2>1 DEF Updated
  <2>3. call[r].user = u /\ val[r] < lastRead[u]
    BY <1>0, <2>2, Now
  <2>4. val[r] \in Nat
    BY Now
  <2>. QED  BY <1>0, <2>2, <2>3, <2>4 DEF ReadAhead
<1>3. ASSUME NEW w \in Users, Expire(w)
      PROVE  lastRead' = lastRead
  BY <1>3 DEF Expire, dbVars
<1>4. CASE UNCHANGED vars
  BY <1>0, <1>4 DEF vars, dbVars
<1>. QED  BY <1>0, <1>1, <1>2, <1>3, <1>4, NextCases

\* A message that was read is never unread again, but by a request that met
\* another one of the same reader, or of a sender.
THEOREM StaysRead == Spec => ReadStaysRead
<1> DEFINE Act == \A u \in Users : lastRead'[u] < lastRead[u]
                    => \E r \in unclean : pc[r] = "update" /\ call[r].user = u
<1>1. Init => Typed /\ Meeting /\ ReadAhead
  BY TypeInit, MeetingInit DEF Init, ReadAhead
<1>2. Typed /\ Meeting /\ ReadAhead /\ [Next]_vars => (Typed /\ Meeting /\ ReadAhead)'
  BY TypeStep, MeetingStep, ReadAheadStep
<1>3. Typed /\ ReadAhead /\ [Next]_vars => [Act]_vars
  BY ReadBack
<1>. QED  BY <1>1, <1>2, <1>3, PTL DEF Spec, ReadStaysRead

-----------------------------------------------------------------------------
(* The count in Redis. *)

\* The messages an Unread counts.
NotRead(u) == {m \in stored : u \in Members /\ sent[m] # u /\ m > lastRead[u]}

\* SendMessage r has still to count its message for u.
Owed(r, u) ==
  /\ pc[r] \in {"next"} \cup Watching
  /\ u \in todo[r] \/ (pc[r] \in Watching /\ who[r] = u)

\* Nobody is at work on the key of u but requests that have met nobody.
Calm(u) == \A r \in Requests : Active(r) /\ u \in Touched(call[r]) => r \notin unclean

\* What a request that has met nobody holds for a user is still so.
Holds(r, u) ==
  /\ pc[r] = "insert" /\ u \in Members \ {call[r].user} => val[r] > lastRead[u]
  /\ r \in dirty /\ who[r] = u => cache[u] = Absent
  /\ pc[r] = "set" /\ who[r] = u => val[r] = Unread(u)
  /\ pc[r] = "fill" /\ call[r].user = u => val[r] = Unread(u)
  /\ pc[r] = "update" /\ call[r].op = "mark_all" /\ call[r].user = u
       => \A m \in stored : sent[m] = u \/ m <= val[r]
  /\ pc[r] = "drop" /\ call[r].op = "mark_all" /\ call[r].user = u => Unread(u) = 0

\* The count is exact but for what is owed, or about to be written anew.
Right(u) ==
  \/ cache[u] = Absent
  \/ \E r \in Requests : pc[r] = "drop" /\ u \in Touched(call[r])
  \/ (\E r \in Requests : Owed(r, u)) /\ cache[u] + 1 = Unread(u)
  \/ (\A r \in Requests : ~Owed(r, u)) /\ cache[u] = Unread(u)

Counting ==
  /\ \A r \in Requests : Active(r) /\ r \notin unclean => \A u \in Users : Holds(r, u)
  /\ \A u \in Users : u \notin stale /\ Calm(u) => Right(u)

\* Whose key a request touches, by where it is.
LEMMA Touches ==
  ASSUME Typed, NEW r \in Requests, Active(r)
  PROVE  /\ Touched(call[r]) \subseteq Users
         /\ pc[r] \in {"member", "insert", "next"} \cup Watching => Touched(call[r]) = Members \ {call[r].user}
         /\ pc[r] \in {"get", "miss", "fill", "look", "update", "drop"} => Touched(call[r]) = {call[r].user}
         /\ pc[r] \in {"find", "create"} => Touched(call[r]) = {}
         /\ \A u : Owed(r, u) => u \in Touched(call[r])
         /\ pc[r] \in Watching => who[r] \in Touched(call[r]) /\ who[r] \in Users
<1>1. /\ CallAt(call[r], pc[r]) /\ call[r].user \in Users /\ Members \subseteq Users
      /\ call[r].op \in {"send", "counts", "mark_all", "mark_one", "open"}
      /\ todo[r] \subseteq Members \ {call[r].user}
  BY Now
<1>2. pc[r] \in Watching => who[r] \in Members \ {call[r].user}
  BY DEF Typed, CallFits
<1>3. /\ pc[r] \in {"member", "insert", "next"} \cup Watching => call[r].op = "send"
      /\ pc[r] \in {"get", "miss", "fill", "look", "update", "drop"}
           => call[r].op \in {"counts", "mark_all", "mark_one"}
      /\ pc[r] \in {"find", "create"} => call[r].op = "open"
  BY <1>1 DEF CallAt, Watching
<1>4. /\ Touched(call[r]) \subseteq Users
      /\ call[r].op = "send" => Touched(call[r]) = Members \ {call[r].user}
      /\ call[r].op \in {"counts", "mark_all", "mark_one"} => Touched(call[r]) = {call[r].user}
      /\ call[r].op = "open" => Touched(call[r]) = {}
  BY <1>1 DEF Touched
<1>5. pc[r] \in {"next"} \cup Watching => Touched(call[r]) = Members \ {call[r].user}
  BY <1>3, <1>4
<1>6. \A u : Owed(r, u) => u \in Touched(call[r])
  BY <1>1, <1>2, <1>5 DEF Owed
<1>. QED  BY <1>1, <1>2, <1>3, <1>4, <1>5, <1>6

\* A request that has met nobody is the only one on its keys.
LEMMA OnlyOne ==
  ASSUME Typed, Meeting, NEW r \in Requests, Active(r), NEW q \in Requests \ {r}, Active(q),
         r \notin unclean \/ q \notin unclean, NEW u \in Touched(call[r])
  PROVE  u \notin Touched(call[q])
BY DEF Meeting, Clash

LEMMA SameUnread ==
  ASSUME NEW u, stored' = stored, lastRead'[u] = lastRead[u],
         \A m \in stored : sent'[m] = sent[m]
  PROVE  Unread(u)' = Unread(u) /\ NotRead(u)' = NotRead(u)
<1>1. NotRead(u)' = NotRead(u)
  BY DEF NotRead
<1>. QED  BY <1>1 DEF Unread, NotRead

\* A step of a request changes nothing for a user whose key it does not touch.
LEMMA Elsewhere ==
  ASSUME Typed, NEW r \in Requests, Sound(r), Kind(r), NEW u \in Users, u \notin Touched(call[r])
  PROVE  /\ cache'[u] = cache[u] /\ Unread(u)' = Unread(u) /\ lastRead'[u] = lastRead[u]
         /\ u \in stale' <=> u \in stale
         /\ \A q \in Requests \ {r} : q \in dirty' /\ pc[q] \in Watching /\ who[q] = u => q \in dirty
<1>0. Active(r) /\ stored \subseteq DOMAIN sent
  BY DEF Sound, Typed, TypeOK
<1>1. cache'[u] = cache[u] /\ \A q \in Requests \ {r} : q \in dirty' /\ pc[q] \in Watching /\ who[q] = u => q \in dirty
  <2>1. ASSUME NEW w \in Users, NEW v \in Nat \cup {Absent}, Write(r, w, v), w \in Touched(call[r])
        PROVE  /\ cache'[u] = cache[u]
               /\ \A q \in Requests \ {r} : q \in dirty' /\ pc[q] \in Watching /\ who[q] = u => q \in dirty
    <3>1. w # u /\ cache' = [cache EXCEPT ![w] = v] /\ cache \in [Users -> Nat \cup {Absent}]
      BY <2>1, Now DEF Write
    <3>2. \A q \in dirty' : q \in dirty \/ who[q] = w
      BY <2>1 DEF Write
    <3>. QED  BY <3>1, <3>2
  <2>2. CASE cache' = cache /\ dirty' \in {dirty, dirty \ {r}}
    BY <2>2
  <2>. QED  BY <2>1, <2>2, CacheMoves
<1>2. lastRead'[u] = lastRead[u]
  <2>1. CASE Updated(r)
    <3>1. call[r].user # u
      BY <1>0, <2>1, Touches DEF Updated
    <3>. QED  BY <2>1, <3>1, Now DEF Updated
  <2>. QED  BY <2>1, ReadMoves
<1>3. \A m \in stored : sent'[m] = sent[m]
  BY <1>0, SentGrows
<1>4. Unread(u)' = Unread(u)
  <2>1. CASE DidInsert(r)
    <3>1. /\ stored' = stored \cup {val[r]} /\ sent' = sent /\ lastRead' = lastRead
          /\ sent[val[r]] = call[r].user
      BY <2>1 DEF DidInsert, Typed, Stamped
    <3>2. u \notin Members \/ u = call[r].user
      BY <1>0, <2>1, Touches DEF DidInsert
    <3>3. NotRead(u)' = NotRead(u)
      BY <3>1, <3>2 DEF NotRead
    <3>. QED  BY <3>3 DEF Unread, NotRead
  <2>2. CASE ~DidInsert(r)
    <3>1. stored' = stored
      BY <2>2 DEF Kind, Ended, DidStamp, Picked, FoundKey, Loaded, Executed, GaveUp, Missed, Filled,
                  Chosen, Updated, Dropped, Created, dbVars
    <3>. QED  BY <1>2, <1>3, <3>1, SameUnread
  <2>. QED  BY <2>1, <2>2
<1>5. u \in stale' <=> u \in stale
  BY DEF Sound
<1>. QED  BY <1>1, <1>2, <1>4, <1>5

\* What is unread is a number, and none is when nothing is later.
LEMMA NothingUnread ==
  ASSUME NEW u, NotRead(u) = {}
  PROVE  Unread(u) = 0
BY FS_EmptySet DEF Unread, NotRead

\* An INSERT is one more unread message for every member but the sender.
LEMMA OneMoreUnread ==
  ASSUME Typed, NEW r \in Requests, DidInsert(r), NEW u \in Members \ {call[r].user}, val[r] > lastRead[u]
  PROVE  Unread(u)' = Unread(u) + 1
<1>1. /\ stored' = stored \cup {val[r]} /\ sent' = sent /\ lastRead' = lastRead
      /\ val[r] \notin stored /\ sent[val[r]] = call[r].user
  BY DEF DidInsert, Typed, Stamped
<1>2. NotRead(u)' = NotRead(u) \cup {val[r]} /\ val[r] \notin NotRead(u)
  BY <1>1 DEF NotRead
<1>3. IsFiniteSet(NotRead(u))
  BY UnreadType DEF NotRead
<1>4. Cardinality(NotRead(u) \cup {val[r]}) = Cardinality(NotRead(u)) + 1
  BY <1>2, <1>3, FS_AddElement
<1>5. Unread(u) = Cardinality(NotRead(u)) /\ Unread(u)' = Cardinality(NotRead(u)')
  BY DEF Unread, NotRead
<1>. QED  BY <1>2, <1>4, <1>5

\* Steps that leave the counts and what they count alone.
Quiet(r) ==
  /\ UNCHANGED <<stored, lastRead, cache>>
  /\ ~(DidInsert(r) \/ Updated(r) \/ Executed(r) \/ Filled(r) \/ Dropped(r))

LEMMA QuietOrNot ==
  ASSUME Typed, NEW r \in Requests, Kind(r)
  PROVE  Quiet(r) \/ DidInsert(r) \/ Updated(r) \/ Executed(r) \/ Filled(r) \/ Dropped(r)
BY DEF Kind, Ended, DidStamp, Picked, FoundKey, Loaded, GaveUp, Missed, Chosen, Created, Quiet, dbVars

LEMMA QuietUnread ==
  ASSUME Typed, NEW r \in Requests, Sound(r), Kind(r),
         UNCHANGED <<stored, lastRead>>
  PROVE  \A u : Unread(u)' = Unread(u)
<1>1. \A m \in stored : sent'[m] = sent[m]
  BY SentGrows DEF Typed, TypeOK
<1>. QED  BY <1>1, SameUnread

\* What the others hold is still so after a step of r.
LEMMA OthersHold ==
  ASSUME Typed, Meeting, Counting, NEW r \in Requests, Sound(r), Kind(r),
         NEW q \in Requests \ {r}, Active(q), q \notin unclean, NEW u \in Users
  PROVE  Holds(q, u)'
<1>1. /\ Active(r) /\ call' = call /\ pc'[q] = pc[q] /\ val'[q] = val[q] /\ who'[q] = who[q]
      /\ Holds(q, u)
  BY DEF Sound, Counting
<1>2. q \in dirty' => pc[q] \in Watching
  <2>1. Typed'
    BY TypeRequest
  <2>. QED  BY <1>1, <2>1 DEF Typed, TypeOK, Watching
<1>3. CASE u \notin Touched(call[q])
  <2>1. /\ pc[q] = "insert" => u \notin Members \ {call[q].user}
        /\ pc[q] \in Watching => who[q] # u
        /\ pc[q] \in {"fill", "update", "drop"} => call[q].user # u
    BY <1>3, Touches
  <2>. QED  BY <1>1, <1>2, <2>1 DEF Holds, Watching
<1>4. CASE u \in Touched(call[q])
  <2>0. u \notin Touched(call[r])
    BY <1>1, <1>4, OnlyOne
  <2>1. /\ cache'[u] = cache[u] /\ Unread(u)' = Unread(u) /\ lastRead'[u] = lastRead[u]
        /\ \A p \in Requests \ {r} : p \in dirty' /\ pc[p] \in Watching /\ who[p] = u => p \in dirty
    BY <2>0, Elsewhere
  <2>2. pc[q] = "update" /\ call[q].op = "mark_all" /\ call[q].user = u
          => \A m \in stored' : sent'[m] = u \/ m <= val[q]
    <3>1. SUFFICES ASSUME pc[q] = "update", call[q].op = "mark_all", call[q].user = u, NEW m \in stored'
                   PROVE  sent'[m] = u \/ m <= val[q]
      OBVIOUS
    <3>2. \A n \in stored : sent'[n] = sent[n]
      BY SentGrows DEF Typed, TypeOK
    <3>3. CASE m \in stored
      BY <1>1, <3>1, <3>2, <3>3 DEF Holds
    <3>4. CASE m \notin stored
      <4>1. DidInsert(r)
        BY <3>1, <3>4 DEF Kind, Ended, DidStamp, Picked, FoundKey, Loaded, Executed, GaveUp, Missed, Filled,
                    Chosen, Updated, Dropped, Created, dbVars
      <4>2. m = val[r] /\ sent' = sent /\ sent[val[r]] = call[r].user
        BY <3>1, <3>4, <4>1 DEF DidInsert, Typed, Stamped
      <4>3. u \notin Members \ {call[r].user}
        BY <1>1, <2>0, <4>1, Touches DEF DidInsert
      <4>4. u \in Members
        BY <3>1 DEF Typed, ReadIsSent
      <4>. QED  BY <4>2, <4>3, <4>4
    <3>. QED  BY <3>3, <3>4
  <2>. QED  BY <1>1, <1>2, <2>1, <2>2 DEF Holds
<1>. QED  BY <1>3, <1>4

\* What r holds is so after its own step.
LEMMA OwnHolds ==
  ASSUME Typed, Meeting, Counting, NEW r \in Requests, Sound(r), Kind(r), r \notin unclean', NEW u \in Users
  PROVE  Holds(r, u)'
<1>1. /\ Active(r) /\ call' = call /\ Holds(r, u) /\ r \notin unclean
      /\ call[r].user \in Users /\ CallAt(call[r], pc[r])
  BY Now DEF Sound, Counting
<1>2. CASE Ended(r) \/ Missed(r) \/ Picked(r) \/ GaveUp(r) \/ Created(r) \/ Filled(r) \/ Dropped(r)
  <2>1. pc'[r] \notin {"insert", "set", "fill", "update", "drop"} /\ (r \in dirty' => pc[r] \in Watching)
    <3>1. r \in dirty => pc[r] \in Watching
      BY DEF Typed, TypeOK, Watching
    <3>. QED  BY <1>2, <3>1 DEF Ended, Missed, Picked, GaveUp, Created, Filled, Dropped, Write, Watching
  <2>2. r \notin dirty'
    <3>1. r \in dirty => pc[r] \in Watching
      BY DEF Typed, TypeOK, Watching
    <3>. QED  BY <1>2, <2>1, <3>1 DEF Ended, Missed, Picked, GaveUp, Created, Filled, Dropped, Write, Watching
  <2>. QED  BY <2>1, <2>2 DEF Holds
<1>3. CASE DidStamp(r)
  <2>1. pc'[r] = "insert" /\ dirty' = dirty /\ pc[r] = "member" /\ lastRead' = lastRead /\ val'[r] = Len(sent) + 1
    BY <1>3 DEF DidStamp
  <2>2. lastRead[u] <= Len(sent) /\ lastRead[u] \in Nat /\ Len(sent) \in Nat
    BY Now DEF Typed, ReadIsSent
  <2>3. r \notin dirty
    BY <2>1 DEF Typed, TypeOK
  <2>4. val'[r] > lastRead'[u]
    BY <2>1, <2>2
  <2>. QED  BY <2>1, <2>3, <2>4 DEF Holds
<1>4. CASE DidInsert(r) \/ Executed(r)
  <2>1. pc'[r] \notin {"insert", "set", "fill", "update", "drop"}
    BY <1>4 DEF DidInsert, Executed
  <2>2. r \notin dirty'
    BY <1>4 DEF DidInsert, Executed, Write, Typed, TypeOK
  <2>. QED  BY <2>1, <2>2 DEF Holds
<1>5. CASE FoundKey(r)
  <2>1. pc'[r] \in {"load", "incr"} /\ dirty' = dirty /\ who' = who /\ cache' = cache
    BY <1>5 DEF FoundKey, held
  <2>. QED  BY <1>1, <2>1 DEF Holds
<1>6. CASE Loaded(r)
  <2>1. /\ UNCHANGED <<stored, lastRead, cache, dirty, who>>
        /\ \/ pc[r] = "load" /\ pc'[r] = "set" /\ val'[r] = Unread(who[r])
           \/ pc[r] = "miss" /\ pc'[r] = "fill" /\ val'[r] = Unread(call[r].user)
    BY <1>6 DEF Loaded, dbVars
  <2>2. Unread(u)' = Unread(u)
    BY <2>1, QuietUnread
  <2>. QED  BY <1>1, <2>1, <2>2 DEF Holds
<1>7. CASE Chosen(r)
  <2>1. /\ UNCHANGED <<sent, stored, lastRead, cache, dirty, who>> /\ pc[r] = "look" /\ pc'[r] = "update"
        /\ call[r].op = "mark_all" => val'[r] = Len(sent)
    BY <1>7 DEF Chosen, dbVars
  <2>2. \A m \in stored : m <= Len(sent)
    BY Now
  <2>. QED  BY <1>1, <2>1, <2>2 DEF Holds
<1>8. CASE Updated(r)
  <2>1. /\ pc[r] = "update" /\ pc'[r] = "drop" /\ stored' = stored /\ sent' = sent /\ dirty' = dirty
        /\ lastRead' = [lastRead EXCEPT ![call[r].user] = val[r]]
    BY <1>8 DEF Updated
  <2>2. r \notin dirty
    BY <2>1 DEF Typed, TypeOK
  <2>3. ASSUME call[r].op = "mark_all", call[r].user = u
        PROVE  Unread(u)' = 0
    <3>1. lastRead'[u] = val[r]
      BY <1>1, <2>1, <2>3, Now
    <3>2. \A m \in stored : sent[m] = u \/ m <= val[r]
      BY <1>1, <2>1, <2>3 DEF Holds
    <3>3. NotRead(u)' = {}
      <4>1. \A m \in stored : m \in Nat
        BY Now
      <4>2. val[r] \in Nat
        BY Now
      <4>. QED  BY <2>1, <3>1, <3>2, <4>1, <4>2 DEF NotRead
    <3>4. Unread(u)' = Cardinality(NotRead(u)')
      BY DEF Unread, NotRead
    <3>. QED  BY <3>3, <3>4, FS_EmptySet
  <2>. QED  BY <1>1, <2>1, <2>2, <2>3 DEF Holds
<1>. QED  BY <1>2, <1>3, <1>4, <1>5, <1>6, <1>7, <1>8 DEF Kind

\* A step of r leaves the count right for a user whose key it does not touch.
LEMMA RightElsewhere ==
  ASSUME Typed, Meeting, Counting, NEW r \in Requests, Sound(r), Kind(r),
         NEW u \in Users, u \notin Touched(call[r]), u \notin stale', Calm(u)'
  PROVE  Right(u)'
<1>1. /\ Active(r) /\ call' = call /\ unclean \subseteq unclean'
      /\ \A q \in Requests \ {r} : pc'[q] = pc[q] /\ who'[q] = who[q] /\ todo'[q] = todo[q]
  BY DEF Sound
<1>2. cache'[u] = cache[u] /\ Unread(u)' = Unread(u) /\ u \notin stale
  BY Elsewhere
<1>3. Calm(u)
  <2>1. ASSUME NEW q \in Requests, Active(q), u \in Touched(call[q])
        PROVE  q \notin unclean
    <3>1. q # r /\ Active(q)' /\ u \in Touched(call'[q])
      BY <1>1, <2>1 DEF Active
    <3>2. q \notin unclean'
      BY <3>1 DEF Calm, Touched
    <3>. QED  BY <1>1, <3>2
  <2>. QED  BY <2>1 DEF Calm
<1>4. Right(u)
  BY <1>2, <1>3 DEF Counting
<1>5. ~Owed(r, u) /\ ~Owed(r, u)'
  <2>1. ~Owed(r, u)
    BY <1>1, Touches
  <2>2. Typed'
    BY TypeRequest
  <2>3. ASSUME Owed(r, u)'
        PROVE  FALSE
    <3>1. pc'[r] \in {"next"} \cup Watching /\ call[r].op = "send"
      BY <2>3, Now DEF Owed, Sound, CallAt, Watching
    <3>2. u \in todo'[r] \/ (pc'[r] \in Watching /\ who'[r] = u)
      BY <2>3 DEF Owed
    <3>3. u \in Members \ {call[r].user}
      BY <1>1, <2>2, <3>1, <3>2 DEF Typed, CallFits, Active, Watching
    <3>. QED  BY <3>1, <3>3 DEF Touched
  <2>. QED  BY <2>1, <2>3
<1>6. \A q \in Requests : Owed(q, u)' <=> Owed(q, u)
  <2>1. ASSUME NEW q \in Requests \ {r}
        PROVE  Owed(q, u)' <=> Owed(q, u)
    BY <1>1, <2>1 DEF Owed
  <2>. QED  BY <1>5, <2>1
<1>7. (\E q \in Requests : pc[q] = "drop" /\ u \in Touched(call[q]))
        => \E q \in Requests : pc'[q] = "drop" /\ u \in Touched(call'[q])
  BY <1>1
<1>8. (\E q \in Requests : pc'[q] = "drop" /\ u \in Touched(call'[q]))
        => \E q \in Requests : pc'[q] = "drop" /\ u \in Touched(call[q])'
  BY DEF Touched
<1>9. \/ cache'[u] = Absent
      \/ \E q \in Requests : pc'[q] = "drop" /\ u \in Touched(call[q])'
      \/ (\E q \in Requests : Owed(q, u)') /\ cache'[u] + 1 = Unread(u)'
      \/ (\A q \in Requests : ~Owed(q, u)') /\ cache'[u] = Unread(u)'
  BY <1>2, <1>4, <1>6, <1>7, <1>8 DEF Right
<1>. QED  BY <1>9 DEF Right

\* And for a user whose key it does touch.
LEMMA RightHere ==
  ASSUME Typed, Meeting, Counting, NEW r \in Requests, Sound(r), Kind(r),
         NEW u \in Users, u \in Touched(call[r]), u \notin stale', Calm(u)'
  PROVE  Right(u)'
<1>1. /\ Active(r) /\ call' = call /\ unclean \subseteq unclean' /\ pc'[r] \in Pcs
      /\ \A q \in Requests \ {r} : pc'[q] = pc[q] /\ who'[q] = who[q] /\ todo'[q] = todo[q]
      /\ call[r].user \in Users /\ CallAt(call[r], pc[r]) /\ todo[r] \subseteq Members \ {call[r].user}
  BY Now DEF Sound
<1>2. r \notin unclean' /\ r \notin unclean
  <2>1. pc'[r] # "done" => r \notin unclean'
    <3>1. ASSUME pc'[r] # "done"
          PROVE  Active(r)' /\ u \in Touched(call[r])'
      BY <1>1, <3>1 DEF Sound, Active, Touched
    <3>. QED  BY <3>1 DEF Calm
  <2>2. pc'[r] = "done" => r \notin unclean'
    BY DEF Sound
  <2>. QED  BY <1>1, <2>1, <2>2
<1>3. Holds(r, u)
  BY <1>1, <1>2 DEF Counting
<1>4. \A q \in Requests \ {r} : Active(q) => u \notin Touched(call[q])
  BY <1>1, <1>2, OnlyOne
<1>5. \A q \in Requests \ {r} : ~Owed(q, u) /\ ~Owed(q, u)' /\ ~(pc[q] = "drop" /\ u \in Touched(call[q]))
  <2>1. ASSUME NEW q \in Requests \ {r}
        PROVE  ~Owed(q, u) /\ ~Owed(q, u)' /\ ~(pc[q] = "drop" /\ u \in Touched(call[q]))
    <3>1. Owed(q, u)' => Owed(q, u)
      BY <1>1, <2>1 DEF Owed
    <3>2. Owed(q, u) \/ pc[q] = "drop" => Active(q)
      BY DEF Owed, Active, Watching
    <3>. QED  BY <1>4, <2>1, <3>1, <3>2, Touches
  <2>. QED  BY <2>1
<1>6. pc[r] # "drop" => u \notin stale
  BY <1>2 DEF Sound
<1>7. Calm(u)
  BY <1>2, <1>4 DEF Calm
<1>8. pc[r] # "drop" => \/ cache[u] = Absent
                        \/ Owed(r, u) /\ cache[u] + 1 = Unread(u)
                        \/ ~Owed(r, u) /\ cache[u] = Unread(u)
  <2>1. ASSUME pc[r] # "drop"
        PROVE  \/ cache[u] = Absent
               \/ Owed(r, u) /\ cache[u] + 1 = Unread(u)
               \/ ~Owed(r, u) /\ cache[u] = Unread(u)
    <3>1. Right(u)
      BY <1>6, <1>7, <2>1 DEF Counting
    <3>. QED  BY <1>5, <2>1, <3>1 DEF Right
  <2>. QED  BY <2>1
<1>9. SUFFICES \/ cache'[u] = Absent
               \/ pc'[r] = "drop" /\ u \in Touched(call[r])'
               \/ Owed(r, u)' /\ cache'[u] + 1 = Unread(u)'
               \/ ~Owed(r, u)' /\ cache'[u] = Unread(u)'
  BY <1>5 DEF Right
<1>10. CASE Quiet(r)
  <2>1. cache' = cache /\ Unread(u)' = Unread(u)
    BY <1>10, QuietUnread DEF Quiet
  <2>2. pc[r] # "drop"
    BY <1>2, <1>10 DEF Quiet, Kind, Ended, DidStamp, Picked, FoundKey, Loaded, GaveUp, Missed,
                      Chosen, Created, Watching
  <2>3. Owed(r, u)' <=> Owed(r, u)
    <3>1. CASE Ended(r)
      <4>1. pc'[r] = "done" /\ pc[r] \notin Watching /\ (pc[r] = "next" => todo[r] = {})
        BY <1>2, <3>1 DEF Ended
      <4>. QED  BY <4>1 DEF Owed, Watching
    <3>2. CASE Picked(r)
      <4>1. /\ pc[r] = "next" /\ pc'[r] = "exists" /\ who'[r] \in todo[r] /\ todo'[r] = todo[r] \ {who'[r]}
        BY <3>2 DEF Picked
      <4>. QED  BY <4>1 DEF Owed, Watching
    <3>3. CASE FoundKey(r) \/ Loaded(r)
      <4>1. /\ who'[r] = who[r] /\ todo'[r] = todo[r]
            /\ \/ pc[r] \in Watching /\ pc'[r] \in Watching
               \/ pc[r] \notin {"next"} \cup Watching /\ pc'[r] \notin {"next"} \cup Watching
        BY <3>3 DEF FoundKey, Loaded, held, Watching
      <4>. QED  BY <4>1 DEF Owed
    <3>4. CASE DidStamp(r) \/ Missed(r) \/ Chosen(r) \/ Created(r)
      <4>1. pc[r] \notin {"next"} \cup Watching /\ pc'[r] \notin {"next"} \cup Watching
        BY <3>4 DEF DidStamp, Missed, Chosen, Created, Watching
      <4>. QED  BY <4>1 DEF Owed
    <3>5. ~GaveUp(r)
      BY <1>2 DEF GaveUp
    <3>. QED  BY <1>10, <3>1, <3>2, <3>3, <3>4, <3>5 DEF Quiet, Kind
  <2>. QED  BY <1>8, <2>1, <2>2, <2>3
<1>11. CASE DidInsert(r)
  <2>1. pc[r] = "insert" /\ pc'[r] = "next" /\ todo'[r] = Members \ {call[r].user} /\ cache' = cache
    BY <1>2, <1>11 DEF DidInsert
  <2>2. u \in Members \ {call[r].user}
    BY <1>1, <2>1, Touches
  <2>3. ~Owed(r, u) /\ Owed(r, u)'
    BY <2>1, <2>2 DEF Owed, Watching
  <2>4. Unread(u)' = Unread(u) + 1
    BY <1>3, <1>11, <2>1, <2>2, OneMoreUnread DEF Holds
  <2>. QED  BY <1>8, <2>1, <2>3, <2>4
<1>12. CASE Updated(r)
  <2>1. pc'[r] = "drop"
    BY <1>2, <1>12 DEF Updated
  <2>2. u \in Touched(call[r])'
    BY <1>1 DEF Touched
  <2>. QED  BY <2>1, <2>2
<1>13. CASE Executed(r)
  <2>1. /\ pc[r] \in {"incr", "set"} /\ pc'[r] = "next" /\ todo'[r] = todo[r]
        /\ UNCHANGED <<stored, lastRead>>
        /\ \/ r \in dirty /\ dirty' = dirty \ {r} /\ UNCHANGED cache
           \/ r \notin dirty /\ Write(r, who[r], IF pc[r] = "incr" THEN cache[who[r]] + 1 ELSE val[r])
    BY <1>13 DEF Executed, dbVars
  <2>2. Unread(u)' = Unread(u)
    BY <2>1, QuietUnread
  <2>3. /\ Owed(r, u) <=> (u \in todo[r] \/ who[r] = u)
        /\ Owed(r, u)' <=> u \in todo[r]
    BY <2>1 DEF Owed, Watching
  <2>4. who[r] \notin todo[r] /\ who[r] \in Users
    BY <2>1, Now DEF Typed, CallFits, Watching
  <2>5. CASE who[r] # u
    <3>1. cache'[u] = cache[u]
      BY <2>1, <2>4, <2>5, Now DEF Write
    <3>. QED  BY <1>8, <2>1, <2>2, <2>3, <2>5, <3>1
  <2>6. CASE who[r] = u /\ r \in dirty
    BY <1>3, <2>1, <2>6 DEF Holds
  <2>7. CASE who[r] = u /\ r \notin dirty
    <3>1. ~Owed(r, u)'
      BY <2>3, <2>4, <2>7
    <3>2. CASE pc[r] = "incr"
      <4>1. cache'[u] = cache[u] + 1 /\ cache[u] # Absent
        BY <2>1, <2>7, <3>2, Now DEF Write, Typed, Watched
      <4>2. cache[u] + 1 = Unread(u)
        BY <1>8, <2>3, <2>7, <3>2, <4>1
      <4>. QED  BY <2>2, <3>1, <4>1, <4>2
    <3>3. CASE pc[r] = "set"
      <4>1. cache'[u] = val[r]
        BY <2>1, <2>7, <3>3, Now DEF Write
      <4>2. val[r] = Unread(u)
        BY <1>3, <2>7, <3>3 DEF Holds
      <4>. QED  BY <2>2, <3>1, <4>1, <4>2
    <3>. QED  BY <2>1, <3>2, <3>3
  <2>. QED  BY <2>5, <2>6, <2>7
<1>14. CASE Filled(r) \/ Dropped(r)
  <2>1. /\ pc[r] \in {"fill", "drop"} /\ pc'[r] = "done" /\ UNCHANGED <<stored, lastRead>>
        /\ \/ pc[r] = "fill" /\ Write(r, call[r].user, val[r])
           \/ pc[r] = "drop" /\ Write(r, call[r].user, IF call[r].op = "mark_all" THEN 0 ELSE Absent)
    BY <1>14 DEF Filled, Dropped, dbVars
  <2>2. Unread(u)' = Unread(u) /\ ~Owed(r, u)'
    BY <2>1, QuietUnread DEF Owed, Watching
  <2>3. call[r].user = u
    BY <1>1, <2>1, Touches
  <2>4. CASE pc[r] = "fill"
    <3>1. cache'[u] = val[r]
      BY <2>1, <2>3, <2>4, Now DEF Write
    <3>2. val[r] = Unread(u)
      BY <1>3, <2>3, <2>4 DEF Holds
    <3>. QED  BY <2>2, <3>1, <3>2
  <2>5. CASE pc[r] = "drop"
    <3>1. cache'[u] = IF call[r].op = "mark_all" THEN 0 ELSE Absent
      BY <2>1, <2>3, <2>5, Now DEF Write
    <3>2. call[r].op = "mark_all" => Unread(u) = 0
      BY <1>3, <2>3, <2>5 DEF Holds
    <3>. QED  BY <2>2, <3>1, <3>2
  <2>. QED  BY <2>1, <2>4, <2>5
<1>. QED  BY <1>10, <1>11, <1>12, <1>13, <1>14, QuietOrNot

LEMMA CountingStep ==
  ASSUME Typed, Meeting, Counting, [Next]_vars
  PROVE  Counting'
<1>1. ASSUME NEW r \in Requests, NEW a \in Calls, Begin(r, a)
      PROVE  Counting'
  <2>1. /\ UNCHANGED <<dbVars, cacheVars, reply, held, stale, faults>>
        /\ pc[r] = "idle" /\ call'[r] = a /\ pc'[r] \in {"member", "get", "find", "look"}
        /\ \A q \in Requests \ {r} : pc'[q] = pc[q] /\ call'[q] = call[q]
        /\ unclean' = IF Rivals(a) = {} THEN unclean ELSE unclean \cup Rivals(a) \cup {r}
        /\ unclean \subseteq unclean'
    BY <1>1, BeginStep
  <2>2. \A u : Unread(u)' = Unread(u)
    BY <2>1 DEF Unread, dbVars
  <2>3. ASSUME NEW q \in Requests, Active(q)', q \notin unclean', NEW u \in Users
        PROVE  Holds(q, u)'
    <3>1. CASE q = r
      <4>1. r \notin dirty
        BY <2>1 DEF Typed, TypeOK
      <4>. QED  BY <2>1, <3>1, <4>1 DEF Holds, cacheVars
    <3>2. CASE q # r
      <4>1. Holds(q, u)
        BY <2>1, <2>3, <3>2 DEF Active, Counting
      <4>. QED  BY <2>1, <2>2, <3>2, <4>1 DEF Holds, dbVars, cacheVars, held
    <3>. QED  BY <3>1, <3>2
  <2>4. ASSUME NEW u \in Users, u \notin stale', Calm(u)'
        PROVE  Right(u)'
    <3>1. ASSUME NEW q \in Requests, Active(q), u \in Touched(call[q])
          PROVE  q \notin unclean
      <4>1. q # r /\ Active(q)' /\ call'[q] = call[q]
        BY <2>1, <3>1 DEF Active
      <4>2. u \in Touched(call[q])'
        BY <3>1, <4>1 DEF Touched
      <4>. QED  BY <2>1, <2>4, <4>1, <4>2 DEF Calm
    <3>2. Right(u)
      BY <2>1, <2>4, <3>1 DEF Calm, Counting
    <3>3. \A q \in Requests : Owed(q, u)' <=> Owed(q, u)
      <4>1. ~Owed(r, u) /\ ~Owed(r, u)'
        BY <2>1 DEF Owed, Watching
      <4>2. ASSUME NEW q \in Requests \ {r}
            PROVE  Owed(q, u)' <=> Owed(q, u)
        BY <2>1, <4>2 DEF Owed, held
      <4>. QED  BY <4>1, <4>2
    <3>4. ASSUME NEW q \in Requests, pc[q] = "drop", u \in Touched(call[q])
          PROVE  pc'[q] = "drop" /\ u \in Touched(call[q])'
      BY <2>1, <3>4 DEF Touched
    <3>5. cache' = cache /\ Unread(u)' = Unread(u)
      BY <2>1, <2>2 DEF cacheVars
    <3>6. \/ cache'[u] = Absent
          \/ \E q \in Requests : pc'[q] = "drop" /\ u \in Touched(call[q])'
          \/ (\E q \in Requests : Owed(q, u)') /\ cache'[u] + 1 = Unread(u)'
          \/ (\A q \in Requests : ~Owed(q, u)') /\ cache'[u] = Unread(u)'
      BY <3>2, <3>3, <3>4, <3>5 DEF Right
    <3>. QED  BY <3>6 DEF Right
  <2>. QED  BY <2>3, <2>4 DEF Counting
<1>2. ASSUME NEW r \in Requests, Sound(r), Kind(r)
      PROVE  Counting'
  <2>1. ASSUME NEW q \in Requests, Active(q)', q \notin unclean', NEW u \in Users
        PROVE  Holds(q, u)'
    <3>1. CASE q = r
      BY <1>2, <2>1, <3>1, OwnHolds
    <3>2. CASE q # r
      <4>1. Active(q) /\ q \notin unclean
        BY <1>2, <2>1, <3>2 DEF Sound, Active
      <4>. QED  BY <1>2, <3>2, <4>1, OthersHold
    <3>. QED  BY <3>1, <3>2
  <2>. QED  BY <1>2, <2>1, RightHere, RightElsewhere DEF Counting
<1>3. ASSUME NEW w \in Users, Expire(w)
      PROVE  Counting'
  <2>1. /\ UNCHANGED <<dbVars, pc, call, reply, held, unclean, faults>>
        /\ cache' = [cache EXCEPT ![w] = Absent] /\ cache \in [Users -> Nat \cup {Absent}]
        /\ \A q \in dirty' : q \in dirty \/ who[q] = w
        /\ \A u \in Users : u \in stale' => u \in stale
        /\ \A u \in Users \ {w} : u \in stale => u \in stale'
    BY <1>3, Now DEF Expire
  <2>2. \A u : Unread(u)' = Unread(u)
    BY <2>1 DEF Unread, dbVars
  <2>3. ASSUME NEW q \in Requests, Active(q)', q \notin unclean', NEW u \in Users
        PROVE  Holds(q, u)'
    <3>1. Holds(q, u)
      BY <2>1, <2>3 DEF Active, Counting
    <3>2. q \in dirty' /\ who[q] = u => cache'[u] = Absent
      BY <2>1, <3>1 DEF Holds
    <3>. QED  BY <2>1, <2>2, <3>1, <3>2 DEF Holds, dbVars, held
  <2>4. ASSUME NEW u \in Users, u \notin stale', Calm(u)'
        PROVE  Right(u)'
    <3>1. CASE u = w
      BY <2>1, <3>1 DEF Right
    <3>2. CASE u # w
      <4>1. Calm(u) /\ u \notin stale
        BY <2>1, <2>4, <3>2 DEF Calm, Active, Touched
      <4>2. Right(u) /\ cache'[u] = cache[u] /\ Unread(u)' = Unread(u)
        BY <2>1, <2>2, <3>2, <4>1 DEF Counting
      <4>. QED  BY <2>1, <4>2 DEF Right, Owed, Touched, held
    <3>. QED  BY <3>1, <3>2
  <2>. QED  BY <2>3, <2>4 DEF Counting
<1>4. CASE UNCHANGED vars
  BY <1>4 DEF vars, dbVars, cacheVars, held, Counting, Holds, Right, Owed, Calm, Active, Touched, Unread
<1>. QED  BY <1>1, <1>2, <1>3, <1>4, NextCases

\* The count in Redis is the count of the database, for a user nobody is at
\* work on, unless requests met on the key or one of them failed.
THEOREM CountExact == Spec => []CountExactWhenAlone
<1>1. Init => Typed /\ Meeting /\ Counting
  <2>1. SUFFICES ASSUME Init
                 PROVE  Counting
    BY TypeInit, MeetingInit
  <2>2. \A u \in Users : cache[u] \in {Absent, Unread(u)}
    <3>1. PICK C \in {{}, Members} : cache = [u \in Users |-> IF u \in C THEN Unread(u) ELSE Absent]
      BY <2>1 DEF Init
    <3>. QED  BY <3>1
  <2>3. \A r \in Requests : ~Active(r) /\ \A u : ~Owed(r, u)
    BY <2>1 DEF Init, Active, Owed, Watching
  <2>. QED  BY <2>2, <2>3 DEF Counting, Right
<1>2. Typed /\ Meeting /\ Counting /\ [Next]_vars => (Typed /\ Meeting /\ Counting)'
  BY TypeStep, MeetingStep, CountingStep
<1>3. Typed /\ Counting => CountExactWhenAlone
  <2>1. SUFFICES ASSUME Typed, Counting, NEW u \in Users, ~Busy(u), u \notin stale
                 PROVE  cache[u] \in {Absent, Unread(u)}
    BY DEF CountExactWhenAlone
  <2>2. \A r \in Requests : Active(r) => u \notin Touched(call[r])
    BY <2>1 DEF Busy
  <2>3. \A r \in Requests : ~Owed(r, u)
    <3>1. \A r \in Requests : Owed(r, u) => Active(r)
      BY DEF Owed, Active, Watching
    <3>. QED  BY <2>1, <2>2, <3>1, Touches
  <2>4. \A r \in Requests : ~(pc[r] = "drop" /\ u \in Touched(call[r]))
    BY <2>2 DEF Active
  <2>5. Right(u)
    BY <2>1, <2>2 DEF Calm, Counting
  <2>. QED  BY <2>3, <2>4, <2>5 DEF Right
<1>. QED  BY <1>1, <1>2, <1>3, PTL DEF Spec

=============================================================================
