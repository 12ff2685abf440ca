------------------------------- MODULE Chat -------------------------------
(***************************************************************************)
(* The chat service of service/chat: the messages of one group             *)
(* conversation, what each member has read of them, and the count of       *)
(* unread messages that Redis keeps per member in front of PostgreSQL;     *)
(* and, beside it, the creation of the private conversation of two users.  *)
(*                                                                         *)
(* Each request is one RPC.  It takes one step per statement it sends to   *)
(* PostgreSQL or Redis, and every step may fail or be the last one the     *)
(* process takes.                                                          *)
(*                                                                         *)
(* The n-th message is the one whose created_at was taken n-th: the code   *)
(* takes it before the INSERT, so messages may be stored in another order. *)
(* A point in time is the number of messages stamped before it.  Members   *)
(* do not change, since no RPC reaches AddMember and RemoveMember, and no  *)
(* message is deleted, since nothing calls Delete.                         *)
(***************************************************************************)
EXTENDS Integers, Sequences, FiniteSets

CONSTANTS
  Users,
  NoUser,
  Members,       \* the users of the conversation
  History,       \* the senders of the messages that are there already
  Requests,      \* RPCs, each served once
  Calls,         \* the RPCs that may arrive
  NoCall,
  Absent,        \* what Redis says of a key it does not have
  MaxMessages,   \* bound: messages of the conversation
  MaxFaults      \* bound: failures

ASSUME ChatAssumption ==
  /\ NoUser \notin Users
  /\ Members \subseteq Users
  /\ Calls \subseteq [op : {"send", "counts", "mark_all", "open"}, user : Users]
                \cup [op : {"mark_one"}, user : Users, message : 1 .. MaxMessages]
  /\ NoCall \notin Calls
  /\ Absent \notin Nat
  /\ MaxMessages \in Nat
  /\ History \in Seq(Members) /\ Len(History) <= MaxMessages
  /\ MaxFaults \in Nat

VARIABLES
  sent,       \* the sender of each message, in the order of created_at
  stored,     \* the messages that are committed
  lastRead,   \* last_read_at of each user, 0 when it is NULL
  private,    \* the requests that created a private conversation of the pair
  cache,      \* chat:unread:<user>:<conversation>
  dirty,      \* requests whose watched key has been written since WATCH
  pc, call, reply,
  val,        \* the created_at, readAt or count a request holds
  who,        \* the member a SendMessage is counting for
  todo,       \* the members it has still to count for
  unclean,    \* requests that met another one on the same key, or a failure
  stale,      \* users whose key such a request may have left wrong
  faults      \* failures so far

dbVars    == <<sent, stored, lastRead, private>>
cacheVars == <<cache, dirty>>
held      == <<val, who, todo>>
vars      == <<dbVars, cacheVars, pc, call, reply, held, unclean, stale, faults>>

Active(r) == pc[r] \notin {"idle", "done"}
Goto(r, label) == pc' = [pc EXCEPT ![r] = label]

\* The messages of others, stored and later than last_read_at.
Unread(u) ==
  Cardinality({m \in stored : u \in Members /\ sent[m] # u /\ m > lastRead[u]})

\* The users whose key a call reads or writes.
Touched(a) ==
  CASE a.op = "send" -> Members \ {a.user}
    [] a.op = "open" -> {}
    [] OTHER -> {a.user}

Clash(a, b) == Touched(a) \cap Touched(b) # {} \/ (a.op = "open" /\ b.op = "open")

Rivals(a) == {q \in Requests : Active(q) /\ Clash(call[q], a)}

Busy(u) == \E q \in Requests : Active(q) /\ u \in Touched(call[q])

\* A request that had no rival and no failure leaves every key as right as it
\* was, and a mark as read makes it right.
End(r, answer, clean) ==
  /\ Goto(r, "done")
  /\ reply' = [reply EXCEPT ![r] = answer]
  /\ stale' = IF ~clean THEN stale \cup Touched(call[r])
              ELSE IF answer = "ok" /\ call[r].op \in {"mark_all", "mark_one"}
                   THEN stale \ Touched(call[r])
              ELSE stale

Finish(r, answer) == End(r, answer, r \notin unclean)

\* Some command of another client than r writes, or lets expire, the key of u.
Write(r, u, v) ==
  /\ cache' = [cache EXCEPT ![u] = v]
  /\ dirty' = (dirty \ {r})
                \cup {q \in Requests \ {r} : /\ who[q] = u
                                             /\ pc[q] \in {"exists", "load", "incr", "set"}
                                             /\ ~(v = Absent /\ cache[u] = Absent)}

-----------------------------------------------------------------------------
\* Nobody has read the messages that are there; all counts are cached, or none.
Init ==
  /\ sent = History
  /\ stored = DOMAIN History
  /\ lastRead = [u \in Users |-> 0]
  /\ private = {}
  /\ \E C \in {{}, Members} : cache = [u \in Users |-> IF u \in C THEN Unread(u) ELSE Absent]
  /\ dirty = {}
  /\ pc = [r \in Requests |-> "idle"]
  /\ call = [r \in Requests |-> NoCall]
  /\ reply = [r \in Requests |-> "none"]
  /\ val = [r \in Requests |-> 0]
  /\ who = [r \in Requests |-> NoUser]
  /\ todo = [r \in Requests |-> {}]
  /\ unclean = {}
  /\ stale = {}
  /\ faults = 0

First(op) ==
  CASE op = "send" -> "member"
    [] op = "counts" -> "get"
    [] op = "open" -> "find"
    [] OTHER -> "look"

Begin(r, a) ==
  /\ pc[r] = "idle"
  /\ call' = [call EXCEPT ![r] = a]
  /\ Goto(r, First(a.op))
  /\ unclean' = IF Rivals(a) = {} THEN unclean ELSE unclean \cup Rivals(a) \cup {r}
  /\ UNCHANGED <<dbVars, cacheVars, reply, held, stale, faults>>

-----------------------------------------------------------------------------
(* SendMessage. *)

\* A message anybody may send.
CheckMemberBug(r) ==
  /\ pc[r] = "member"
  /\ Len(sent) < MaxMessages
  /\ sent' = Append(sent, call[r].user)
  /\ val' = [val EXCEPT ![r] = Len(sent) + 1]
  /\ Goto(r, "insert")
  /\ UNCHANGED <<stored, lastRead, private, cacheVars, call, reply, who, todo, unclean, stale, faults>>

\* IsMember; then created_at is taken.
CheckMember(r) ==
  /\ pc[r] = "member"
  /\ \/ /\ call[r].user \notin Members
        /\ Finish(r, "not_member")
        /\ UNCHANGED <<sent, val>>
     \/ /\ call[r].user \in Members
        /\ Len(sent) < MaxMessages
        /\ sent' = Append(sent, call[r].user)
        /\ val' = [val EXCEPT ![r] = Len(sent) + 1]
        /\ Goto(r, "insert")
        /\ UNCHANGED <<reply, stale>>
  /\ UNCHANGED <<stored, lastRead, private, cacheVars, call, who, todo, unclean, faults>>

\* The INSERT, and GetMemberIDs for the counts.
InsertMessage(r) ==
  /\ pc[r] = "insert"
  /\ stored' = stored \cup {val[r]}
  /\ todo' = [todo EXCEPT ![r] = Members \ {call[r].user}]
  /\ val' = [val EXCEPT ![r] = 0]
  /\ Goto(r, "next")
  /\ UNCHANGED <<sent, lastRead, private, cacheVars, call, reply, who, unclean, stale, faults>>

\* IncrementUnreadCount for the next member: WATCH.  After the last one the
\* message is published.
NextMember(r) ==
  /\ pc[r] = "next"
  /\ \/ /\ todo[r] = {}
        /\ Finish(r, "ok")
        /\ UNCHANGED <<who, todo>>
     \/ \E u \in todo[r] :
          /\ who' = [who EXCEPT ![r] = u]
          /\ todo' = [todo EXCEPT ![r] = @ \ {u}]
          /\ Goto(r, "exists")
          /\ UNCHANGED <<reply, stale>>
  /\ UNCHANGED <<dbVars, cacheVars, call, val, unclean, faults>>

\* EXISTS: a key that is there is incremented, another one loaded.
CheckKey(r) ==
  /\ pc[r] = "exists"
  /\ Goto(r, IF cache[who[r]] = Absent THEN "load" ELSE "incr")
  /\ UNCHANGED <<dbVars, cacheVars, call, reply, held, unclean, stale, faults>>

\* A key loaded from the database gets one more for the new message.
ExecBug(r) ==
  /\ pc[r] \in {"incr", "set"}
  /\ \/ /\ r \in dirty
        /\ dirty' = dirty \ {r}
        /\ UNCHANGED cache
     \/ /\ r \notin dirty
        /\ Write(r, who[r], IF pc[r] = "incr" THEN cache[who[r]] + 1 ELSE val[r] + 1)
  /\ Goto(r, "next")
  /\ who' = [who EXCEPT ![r] = NoUser]
  /\ val' = [val EXCEPT ![r] = 0]
  /\ UNCHANGED <<dbVars, call, reply, todo, unclean, stale, faults>>

\* MULTI: INCR and EXPIRE, or SET with what was loaded.  EXEC does nothing when
\* the key was written since WATCH; the error is logged, nobody tries again.
Exec(r) ==
  /\ pc[r] \in {"incr", "set"}
  /\ \/ /\ r \in dirty
        /\ dirty' = dirty \ {r}
        /\ UNCHANGED cache
     \/ /\ r \notin dirty
        /\ Write(r, who[r], IF pc[r] = "incr" THEN cache[who[r]] + 1 ELSE val[r])
  /\ Goto(r, "next")
  /\ who' = [who EXCEPT ![r] = NoUser]
  /\ val' = [val EXCEPT ![r] = 0]
  /\ UNCHANGED <<dbVars, call, reply, todo, unclean, stale, faults>>

-----------------------------------------------------------------------------
(* GetUnreadCounts. *)

GetKey(r) ==
  /\ pc[r] = "get"
  /\ \/ cache[call[r].user] # Absent /\ Finish(r, "ok")
     \/ cache[call[r].user] = Absent /\ Goto(r, "miss") /\ UNCHANGED <<reply, stale>>
  /\ UNCHANGED <<dbVars, cacheVars, call, held, unclean, faults>>

\* The count of the database, for GetUnreadCounts or for IncrementUnreadCount.
LoadCount(r) ==
  /\ \/ /\ pc[r] = "miss"
        /\ val' = [val EXCEPT ![r] = Unread(call[r].user)]
        /\ Goto(r, "fill")
     \/ /\ pc[r] = "load"
        /\ val' = [val EXCEPT ![r] = Unread(who[r])]
        /\ Goto(r, "set")
  /\ UNCHANGED <<dbVars, cacheVars, call, reply, who, todo, unclean, stale, faults>>

Fill(r) ==
  /\ pc[r] = "fill"
  /\ Write(r, call[r].user, val[r])
  /\ Finish(r, "ok")
  /\ UNCHANGED <<dbVars, call, held, unclean, faults>>

-----------------------------------------------------------------------------
(* MarkConversationAsRead and MarkMessageAsRead. *)

\* A reader who takes an older message for unread once more.
LookBug(r) ==
  /\ pc[r] = "look"
  /\ LET u == call[r].user
     IN  \/ u \notin Members /\ Finish(r, "not_member") /\ UNCHANGED val
         \/ /\ u \in Members
            /\ val' = [val EXCEPT ![r] = IF call[r].op = "mark_all" THEN Len(sent)
                                         ELSE call[r].message]
            /\ Goto(r, "update")
            /\ UNCHANGED <<reply, stale>>
  /\ UNCHANGED <<dbVars, cacheVars, call, who, todo, unclean, faults>>

\* GetMember, and for one message GetByID and whether it is another's and later
\* than last_read_at; then the time to set.
Look(r) ==
  /\ pc[r] = "look"
  /\ LET u == call[r].user
         m == call[r].message
     IN  \/ /\ call[r].op = "mark_one"
            /\ \/ m \notin stored /\ Finish(r, "not_found")
               \/ m \in stored /\ u \notin Members /\ Finish(r, "not_member")
               \/ m \in stored /\ u \in Members /\ sent[m] = u /\ Finish(r, "own_message")
               \/ /\ m \in stored /\ u \in Members /\ sent[m] # u
                  /\ m <= lastRead[u]
                  /\ Finish(r, "already_read")
            /\ UNCHANGED val
         \/ /\ call[r].op = "mark_one"
            /\ m \in stored /\ u \in Members /\ sent[m] # u
            /\ m > lastRead[u]
            /\ val' = [val EXCEPT ![r] = m]
            /\ Goto(r, "update")
            /\ UNCHANGED <<reply, stale>>
         \/ /\ call[r].op = "mark_all"
            /\ \/ u \notin Members /\ Finish(r, "not_member") /\ UNCHANGED val
               \/ /\ u \in Members
                  /\ val' = [val EXCEPT ![r] = Len(sent)]
                  /\ Goto(r, "update")
                  /\ UNCHANGED <<reply, stale>>
  /\ UNCHANGED <<dbVars, cacheVars, call, who, todo, unclean, faults>>

\* UpdateLastReadAt, whatever the row says by now.
UpdateLastReadAt(r) ==
  /\ pc[r] = "update"
  /\ lastRead' = [lastRead EXCEPT ![call[r].user] = val[r]]
  /\ val' = [val EXCEPT ![r] = 0]
  /\ Goto(r, "drop")
  /\ UNCHANGED <<sent, stored, private, cacheVars, call, reply, who, todo, unclean, stale, faults>>

\* ResetUnreadCount or InvalidateCache.
DropKey(r) ==
  /\ pc[r] = "drop"
  /\ Write(r, call[r].user, IF call[r].op = "mark_all" THEN 0 ELSE Absent)
  /\ Finish(r, "ok")
  /\ UNCHANGED <<dbVars, call, held, unclean, faults>>

-----------------------------------------------------------------------------
(* CreateConversation of the pair. *)

\* A creation that does not look first.
FindPrivateBug(r) ==
  /\ pc[r] = "find"
  /\ Goto(r, "create")
  /\ UNCHANGED <<dbVars, cacheVars, call, reply, held, unclean, stale, faults>>

FindPrivate(r) ==
  /\ pc[r] = "find"
  /\ \/ private # {} /\ Finish(r, "ok")
     \/ private = {} /\ Goto(r, "create") /\ UNCHANGED <<reply, stale>>
  /\ UNCHANGED <<dbVars, cacheVars, call, held, unclean, faults>>

\* The transaction of Create; the schema lets two users have any number of
\* private conversations.
CreatePrivate(r) ==
  /\ pc[r] = "create"
  /\ private' = private \cup {r}
  /\ Finish(r, "ok")
  /\ UNCHANGED <<sent, stored, lastRead, cacheVars, call, held, unclean, faults>>

-----------------------------------------------------------------------------
(* Failures, and the end of a key. *)

\* A statement whose error the RPC returns fails and has no effect.
StatementFails(r) ==
  /\ pc[r] \in {"member", "insert", "miss", "look", "update", "create"} /\ faults < MaxFaults
  /\ faults' = faults + 1
  /\ Finish(r, "error")
  /\ UNCHANGED <<dbVars, cacheVars, call, held, unclean>>

\* A write is committed, but the answer is lost.
AnswerLost(r) ==
  /\ faults < MaxFaults
  /\ faults' = faults + 1
  /\ \/ /\ pc[r] = "insert"
        /\ stored' = stored \cup {val[r]}
        /\ UNCHANGED <<sent, lastRead, private>>
     \/ /\ pc[r] = "update"
        /\ lastRead' = [lastRead EXCEPT ![call[r].user] = val[r]]
        /\ UNCHANGED <<sent, stored, private>>
     \/ /\ pc[r] = "create"
        /\ private' = private \cup {r}
        /\ UNCHANGED <<sent, stored, lastRead>>
  /\ End(r, "error", FALSE)
  /\ unclean' = unclean \cup {r}
  /\ UNCHANGED <<cacheVars, call, held>>

\* An error that is only logged: a count is not taken on, the counts of all
\* members are not, a key is neither filled nor dropped; a lookup that fails is
\* a miss, and a conversation that could not be looked up is created.
ErrorLogged(r) ==
  /\ faults < MaxFaults
  /\ faults' = faults + 1
  /\ unclean' = unclean \cup {r}
  /\ \/ /\ pc[r] = "next"
        /\ todo[r] = Members \ {call[r].user}
        /\ End(r, "ok", FALSE)
        /\ UNCHANGED <<held, dirty>>
     \/ /\ pc[r] \in {"exists", "load", "incr", "set"}
        /\ Goto(r, "next")
        /\ who' = [who EXCEPT ![r] = NoUser]
        /\ val' = [val EXCEPT ![r] = 0]
        /\ dirty' = dirty \ {r}
        /\ UNCHANGED <<reply, todo, stale>>
     \/ /\ pc[r] \in {"fill", "drop"}
        /\ End(r, "ok", FALSE)
        /\ UNCHANGED <<held, dirty>>
     \/ /\ pc[r] \in {"get", "find"}
        /\ Goto(r, IF pc[r] = "get" THEN "miss" ELSE "create")
        /\ UNCHANGED <<reply, held, stale, dirty>>
  /\ UNCHANGED <<dbVars, cache, call>>

\* The process stops.
Crash(r) ==
  /\ Active(r) /\ faults < MaxFaults
  /\ faults' = faults + 1
  /\ End(r, "none", FALSE)
  /\ unclean' = unclean \cup {r}
  /\ dirty' = dirty \ {r}
  /\ UNCHANGED <<dbVars, cache, call, held>>

\* UnreadCacheTTL is over. With nobody at work on the key it is right again.
Expire(u) ==
  /\ cache[u] # Absent
  /\ cache' = [cache EXCEPT ![u] = Absent]
  /\ dirty' = dirty \cup {q \in Requests : /\ who[q] = u
                                           /\ pc[q] \in {"exists", "load", "incr", "set"}}
  /\ stale' = IF Busy(u) THEN stale ELSE stale \ {u}
  /\ UNCHANGED <<dbVars, pc, call, reply, held, unclean, faults>>

HandlerStep(r) ==
  \/ CheckMember(r) \/ InsertMessage(r) \/ NextMember(r) \/ CheckKey(r) \/ Exec(r)
  \/ GetKey(r) \/ LoadCount(r) \/ Fill(r)
  \/ Look(r) \/ UpdateLastReadAt(r) \/ DropKey(r)
  \/ FindPrivate(r) \/ CreatePrivate(r)

HandlerFault(r) == StatementFails(r) \/ AnswerLost(r) \/ ErrorLogged(r) \/ Crash(r)

Next ==
  \/ \E r \in Requests : \/ \E a \in Calls : Begin(r, a)
                         \/ HandlerStep(r)
                         \/ HandlerFault(r)
  \/ \E u \in Users : Expire(u)

Spec == Init /\ [][Next]_vars

-----------------------------------------------------------------------------
(* Properties. *)

TypeOK ==
  /\ sent \in Seq(Members) /\ Len(sent) <= MaxMessages
  /\ stored \subseteq DOMAIN sent
  /\ lastRead \in [Users -> 0 .. MaxMessages]
  /\ private \subseteq Requests
  /\ cache \in [Users -> Nat \cup {Absent}]
  /\ dirty \subseteq {r \in Requests : pc[r] \in {"exists", "load", "incr", "set"}}
  /\ pc \in [Requests -> {"idle", "member", "insert", "next", "exists", "load", "incr", "set",
                          "get", "miss", "fill", "look", "update", "drop", "find", "create",
                          "done"}]
  /\ call \in [Requests -> Calls \cup {NoCall}]
  /\ reply \in [Requests -> {"none", "ok", "error", "not_member", "not_found", "own_message",
                             "already_read"}]
  /\ val \in [Requests -> 0 .. MaxMessages]
  /\ who \in [Requests -> Users \cup {NoUser}]
  /\ todo \in [Requests -> SUBSET Members]
  /\ unclean \subseteq Requests
  /\ stale \subseteq Users
  /\ faults \in 0 .. MaxFaults

\* The count in Redis is the count of the database, for a user nobody is at
\* work on, unless requests met on the key or one of them failed - and not even
\* then once the key has expired or a mark as read has run on its own.
CountExactWhenAlone ==
  \A u \in Users : ~Busy(u) /\ u \notin stale => cache[u] \in {Absent, Unread(u)}

\* A message that was read is never unread again, but by a request that met
\* another one of the same reader, or of a sender.
ReadStaysRead ==
  [][\A u \in Users : lastRead'[u] < lastRead[u]
       => \E r \in unclean : pc[r] = "update" /\ call[r].user = u]_vars

\* Two users have a single private conversation, unless two requests for it
\* overlapped or the lookup of one failed.
PrivateConversationUnique == Cardinality(private) > 1 => private \cap unclean # {}
=============================================================================
