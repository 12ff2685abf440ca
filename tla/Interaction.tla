---------------------------- MODULE Interaction ----------------------------
(***************************************************************************)
(* The Interaction service (service/interaction) and the content counters  *)
(* it drives in the Content service (service/content).                     *)
(*                                                                         *)
(* Like, Bookmark and CreateRepost, and the operations that undo them, are *)
(* one protocol run by concurrent request handlers over two databases:     *)
(* the handler writes a row of likes / bookmarks / reposts in a statement  *)
(* of its own and then asks the Content service, by an RPC the client      *)
(* interceptor retries, to move the counter of the content.  Nothing ties  *)
(* the two writes together, so every step is an action here.               *)
(*                                                                         *)
(* Abstracted: ids and quotes are model values; the three tables are one   *)
(* set of <<kind, user, content>>; a request is served at most once, so    *)
(* Requests bounds a behaviour, and MaxFaults bounds the failures in it.   *)
(***************************************************************************)
EXTENDS Integers, FiniteSets

CONSTANTS
  Users,        \* user ids
  Contents,     \* content ids, all of them live at the start
  Author,       \* the author of each content
  Kinds,        \* the interactions modelled, among "like", "bookmark", "repost"
  Requests,     \* ids of the requests that may arrive
  MaxRetries,   \* cfg.MaxRetries of the RPC client
  MaxFaults     \* bound on the failures of one behaviour

ASSUME UsersAssumption    == IsFiniteSet(Users)
ASSUME AuthorAssumption   == Author \in [Contents -> Users]
ASSUME KindsAssumption    == Kinds \subseteq {"like", "bookmark", "repost"}
ASSUME RequestsAssumption == IsFiniteSet(Requests)
ASSUME BoundsAssumption   == MaxRetries \in Nat /\ MaxFaults \in Nat

VARIABLES
  alive,    \* contents whose status is not DELETED
  rows,     \* the rows of the tables likes, bookmarks and reposts
  count,    \* like_count, bookmark_count and repost_count of each content
  pc,       \* where each request handler is
  call,     \* the arguments of each request
  delta,    \* the delta the handler sends to UpdateCounter
  tries,    \* failed attempts of the handler's UpdateCounter call
  reply,    \* what the caller was told
  events,   \* requests whose event was handed to the publisher
  faults,   \* failures so far: lost RPCs, database errors, dead handlers
  raced     \* <<kind, user, content>> on which two requests overlapped

dbVars  == <<alive, rows, count>>
reqVars == <<pc, call, delta, tries, reply>>
vars    == <<dbVars, reqVars, events, faults, raced>>

Calls == [op : {"create", "delete"}, kind : Kinds, user : Users, content : Contents]
NoCall == [op |-> "none"]

Row(r) == <<call[r].kind, call[r].user, call[r].content>>
Cell(r) == <<call[r].kind, call[r].content>>
Live(r) == call[r].content \in alive
Creates(r) == call[r].op = "create"

Active(r) == pc[r] \notin {"idle", "done"}

Goto(r, label) == pc' = [pc EXCEPT ![r] = label]

Finish(r, answer) ==
  /\ Goto(r, "done")
  /\ reply' = [reply EXCEPT ![r] = answer]

-----------------------------------------------------------------------------
(* The Content service. *)

\* A counter update without GREATEST.
UnclampedBug(n) == n

\* UPDATE contents SET c = GREATEST(c + delta, 0)
Greatest0(n) == IF n < 0 THEN 0 ELSE n

ApplyDelta(r) == count' = [count EXCEPT ![Cell(r)] = Greatest0(@ + delta[r])]

\* The author deletes the content: its status becomes DELETED, and no row of
\* likes, bookmarks or reposts is touched.
DeleteContent(c) ==
  /\ c \in alive
  /\ alive' = alive \ {c}
  /\ UNCHANGED <<rows, count, reqVars, events, faults, raced>>

-----------------------------------------------------------------------------
(* The handler of a request. *)

Init ==
  /\ alive = Contents
  /\ rows = {}
  /\ count = [cell \in Kinds \X Contents |-> 0]
  /\ pc = [r \in Requests |-> "idle"]
  /\ call = [r \in Requests |-> NoCall]
  /\ delta = [r \in Requests |-> 0]
  /\ tries = [r \in Requests |-> 0]
  /\ reply = [r \in Requests |-> "none"]
  /\ events = {}
  /\ faults = 0
  /\ raced = {}

Overlapping(a) ==
  {q \in Requests : /\ Active(q)
                    /\ Row(q) = <<a.kind, a.user, a.content>>}

\* A request arrives. Creations look the content up first; removals do not.
Begin(r, a) ==
  /\ pc[r] = "idle"
  /\ call' = [call EXCEPT ![r] = a]
  /\ Goto(r, IF a.op = "create" THEN "check" ELSE "write")
  /\ raced' = IF Overlapping(a) = {} THEN raced
              ELSE raced \cup {<<a.kind, a.user, a.content>>}
  /\ UNCHANGED <<dbVars, delta, tries, reply, events, faults>>

\* The CheckContentExists RPC.
CheckContentExists(r) ==
  /\ pc[r] = "check"
  /\ \/ Live(r) /\ Goto(r, "write") /\ UNCHANGED reply
     \/ ~Live(r) /\ Finish(r, "not_found")
  /\ UNCHANGED <<dbVars, call, delta, tries, events, faults, raced>>

\* A creation that takes the conflicting row for its own.
InsertRowBug(r) ==
  /\ pc[r] = "write" /\ Creates(r)
  /\ rows' = rows \cup {Row(r)}
  /\ delta' = [delta EXCEPT ![r] = 1]
  /\ Goto(r, "count")
  /\ UNCHANGED <<alive, count, call, tries, reply, events, faults, raced>>

\* INSERT ... ON CONFLICT DO NOTHING; a repost that exists is then read back.
InsertRow(r) ==
  /\ pc[r] = "write" /\ Creates(r)
  /\ rows' = rows \cup {Row(r)}
  /\ \/ Row(r) \notin rows /\ delta' = [delta EXCEPT ![r] = 1] /\ Goto(r, "count")
     \/ /\ Row(r) \in rows
        /\ Goto(r, IF call[r].kind = "repost" THEN "fetch" ELSE "count")
        /\ UNCHANGED delta
  /\ UNCHANGED <<alive, count, call, tries, reply, events, faults, raced>>

\* GetByUserAndContent after a conflict: a deletion in between leaves no row,
\* and sql.ErrNoRows reaches the caller.
FetchExisting(r) ==
  /\ pc[r] = "fetch"
  /\ \/ Row(r) \in rows /\ Goto(r, "count") /\ UNCHANGED reply
     \/ Row(r) \notin rows /\ Finish(r, "error")
  /\ UNCHANGED <<dbVars, call, delta, tries, events, faults, raced>>

\* A removal that does not look at the number of rows it deleted.
DeleteRowBug(r) ==
  /\ pc[r] = "write" /\ ~Creates(r)
  /\ rows' = rows \ {Row(r)}
  /\ delta' = [delta EXCEPT ![r] = -1]
  /\ Goto(r, "count")
  /\ UNCHANGED <<alive, count, call, tries, reply, events, faults, raced>>

\* DELETE, with the number of rows telling whether there is a count to undo.
DeleteRow(r) ==
  /\ pc[r] = "write" /\ ~Creates(r)
  /\ rows' = rows \ {Row(r)}
  /\ delta' = [delta EXCEPT ![r] = IF Row(r) \in rows THEN -1 ELSE 0]
  /\ Goto(r, "count")
  /\ UNCHANGED <<alive, count, call, tries, reply, events, faults, raced>>

\* A handler that publishes the event whether or not it created the row.
AfterCountBug(r, ok) ==
  IF ok /\ Creates(r) THEN Goto(r, "notify") /\ UNCHANGED reply
  ELSE Finish(r, IF ok THEN "ok" ELSE "error")

\* What the handler does once UpdateCounter has returned, with or without an
\* error. CreateRepost drops the error: the event is still published.
AfterCount(r, ok) ==
  LET tolerated == ok \/ (Creates(r) /\ call[r].kind = "repost")
  IN  IF tolerated /\ Creates(r) /\ delta[r] = 1
      THEN Goto(r, "notify") /\ UNCHANGED reply
      ELSE Finish(r, IF tolerated THEN "ok" ELSE "error")

\* An update without status != DELETED in its WHERE clause.
UpdateCounterUnguardedBug(r) ==
  /\ pc[r] = "count"
  /\ ApplyDelta(r) /\ AfterCount(r, TRUE)
  /\ UNCHANGED <<alive, rows, call, delta, tries, events, faults, raced>>

\* UpdateCounter is executed and its answer comes back; on a deleted content
\* it matches no row, which is an error the interceptor does not retry.
UpdateCounter(r) ==
  /\ pc[r] = "count"
  /\ \/ Live(r) /\ ApplyDelta(r) /\ AfterCount(r, TRUE)
     \/ ~Live(r) /\ AfterCount(r, FALSE) /\ UNCHANGED count
  /\ UNCHANGED <<alive, rows, call, delta, tries, events, faults, raced>>

\* An attempt of UpdateCounter fails after the server did or did not execute
\* it. RetryInterceptor sends the same delta again until it has retried
\* MaxRetries times, or the context is cancelled.
UpdateCounterFails(r) ==
  /\ pc[r] = "count" /\ faults < MaxFaults
  /\ faults' = faults + 1
  /\ \/ Live(r) /\ ApplyDelta(r)
     \/ UNCHANGED count
  /\ \/ /\ tries[r] < MaxRetries
        /\ tries' = [tries EXCEPT ![r] = @ + 1]
        /\ UNCHANGED <<pc, reply>>
     \/ AfterCount(r, FALSE) /\ UNCHANGED tries
  /\ UNCHANGED <<alive, rows, call, delta, events, raced>>

\* publishLikeEvent and its siblings: the author is looked up by another RPC
\* and told, unless it is the user or the content is gone by now.
PublishEvent(r) ==
  /\ pc[r] = "notify"
  /\ events' = IF Live(r) /\ Author[call[r].content] # call[r].user
               THEN events \cup {r} ELSE events
  /\ Finish(r, "ok")
  /\ UNCHANGED <<dbVars, call, delta, tries, faults, raced>>

\* The author look-up fails: the event is given up, the caller gets its count.
PublishFails(r) ==
  /\ pc[r] = "notify" /\ faults < MaxFaults
  /\ faults' = faults + 1
  /\ Finish(r, "ok")
  /\ UNCHANGED <<dbVars, call, delta, tries, events, raced>>

\* An RPC or a statement before the counter returns an error.
HandlerFails(r) ==
  /\ pc[r] \in {"check", "write", "fetch"} /\ faults < MaxFaults
  /\ faults' = faults + 1
  /\ Finish(r, "error")
  /\ UNCHANGED <<dbVars, call, delta, tries, events, raced>>

\* The process stops while the handler runs: nothing more of it happens.
Crash(r) ==
  /\ Active(r) /\ faults < MaxFaults
  /\ faults' = faults + 1
  /\ Goto(r, "done")
  /\ UNCHANGED <<dbVars, call, delta, tries, reply, events, raced>>

HandlerStep(r) ==
  \/ CheckContentExists(r)
  \/ InsertRow(r)
  \/ FetchExisting(r)
  \/ DeleteRow(r)
  \/ UpdateCounter(r)
  \/ PublishEvent(r)

HandlerFault(r) ==
  \/ UpdateCounterFails(r)
  \/ PublishFails(r)
  \/ HandlerFails(r)
  \/ Crash(r)

Next ==
  \/ \E c \in Contents : DeleteContent(c)
  \/ \E r \in Requests : \/ \E a \in Calls : Begin(r, a)
                         \/ HandlerStep(r)
                         \/ HandlerFault(r)

Spec == Init /\ [][Next]_vars

-----------------------------------------------------------------------------
(* Properties. *)

TypeOK ==
  /\ alive \subseteq Contents
  /\ rows \subseteq Kinds \X Users \X Contents
  /\ count \in [Kinds \X Contents -> Nat]
  /\ pc \in [Requests -> {"idle", "check", "write", "fetch", "count", "notify", "done"}]
  /\ call \in [Requests -> Calls \cup {NoCall}]
  /\ \A r \in Requests : pc[r] # "idle" => call[r] \in Calls
  /\ delta \in [Requests -> {-1, 0, 1}]
  /\ tries \in [Requests -> 0 .. MaxRetries]
  /\ reply \in [Requests -> {"none", "ok", "error", "not_found"}]
  /\ events \subseteq Requests
  /\ faults \in 0 .. MaxFaults
  /\ raced \subseteq Kinds \X Users \X Contents

\* The users holding a row of kind k on content c.
Holders(k, c) == {u \in Users : <<k, u, c>> \in rows}

\* The requests that still owe the counter of <<k, c>> the delta d.
Owing(k, c, d) ==
  {r \in Requests : pc[r] = "count" /\ delta[r] = d /\ Cell(r) = <<k, c>>}

\* What the counter is once the calls in flight have come through, less what
\* it should be.
Drift(k, c) ==
  count[<<k, c>>] + Cardinality(Owing(k, c, 1)) - Cardinality(Owing(k, c, -1))
    - Cardinality(Holders(k, c))

\* However the requests interleave, a live content never shows fewer likes,
\* bookmarks or reposts than there are rows, but for the calls in flight and
\* one for each failure: clamping at zero and overtaken calls only overcount.
UndercountBoundedByFaults ==
  \A k \in Kinds, c \in alive : Drift(k, c) >= -faults

Unraced(k, c) == \A u \in Users : <<k, u, c>> \notin raced

\* If no user ever had two requests of a kind on the content in flight at the
\* same time, the counter is off by at most one for each failure, in either
\* direction: without failures it is exact.
DriftBoundedWhenSerial ==
  \A k \in Kinds, c \in alive : Unraced(k, c) => Drift(k, c) <= faults

\* The author hears of a like, a bookmark or a repost only if this very
\* request created the row, it is not the author's own, and the caller was
\* not told it failed.
EventsOnlyForNewInteractions ==
  \A r \in events : /\ Creates(r) /\ delta[r] = 1
                    /\ Author[call[r].content] # call[r].user
                    /\ reply[r] = "ok"

\* A content once deleted stays so, and its counters are frozen.
DeletedContentFrozen ==
  [][\A c \in Contents \ alive : /\ c \notin alive'
                                 /\ \A k \in Kinds : count'[<<k, c>>] = count[<<k, c>>]]_vars
=============================================================================
