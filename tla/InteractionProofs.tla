------------------------- MODULE InteractionProofs -------------------------
(***************************************************************************)
(* For any users, contents and requests: type correctness of Interaction,  *)
(* the bounds on how far a counter and the rows it counts can differ, what *)
(* an event tells, and that the counters of deleted contents stay frozen.  *)
(***************************************************************************)
EXTENDS Interaction, FiniteSetTheorems, TLAPS

Pcs == {"idle", "check", "write", "fetch", "count", "notify", "done"}
Replies == {"none", "ok", "error", "not_found"}

-----------------------------------------------------------------------------
(* Lemmas on the operators the actions are built from. *)

\* The arguments of a call that has been made name a cell and a row.
LEMMA CallType ==
  ASSUME TypeOK, NEW r \in Requests, pc[r] # "idle"
  PROVE  /\ call[r] \in Calls
         /\ Row(r) \in Kinds \X Users \X Contents
         /\ Cell(r) \in Kinds \X Contents
         /\ call[r].kind \in Kinds /\ call[r].content \in Contents
BY DEF TypeOK, Row, Cell, Calls

\* UPDATE ... GREATEST(c + delta, 0) keeps the counters natural numbers.
LEMMA ApplyDeltaType ==
  ASSUME TypeOK, NEW r \in Requests, pc[r] # "idle", ApplyDelta(r)
  PROVE  count' \in [Kinds \X Contents -> Nat]
<1>1. Cell(r) \in Kinds \X Contents
  BY CallType
<1>2. count[Cell(r)] \in Nat /\ delta[r] \in {-1, 0, 1}
  BY <1>1 DEF TypeOK
<1>3. Greatest0(count[Cell(r)] + delta[r]) \in Nat
  BY <1>2 DEF Greatest0
<1>. QED  BY <1>3 DEF ApplyDelta, TypeOK

\* Whatever UpdateCounter returns, the handler goes on or finishes.
LEMMA AfterCountType ==
  ASSUME TypeOK, NEW r \in Requests, NEW ok \in BOOLEAN, pc[r] = "count", AfterCount(r, ok)
  PROVE  /\ pc' \in [Requests -> Pcs]
         /\ reply' \in [Requests -> Replies]
         /\ \A q \in Requests : pc'[q] # "idle" => pc[q] # "idle"
         /\ \A q \in Requests : q # r => pc'[q] = pc[q]
         /\ pc'[r] # "count"
BY DEF TypeOK, AfterCount, Finish, Goto, Pcs, Replies

-----------------------------------------------------------------------------
(* Type correctness. *)

\* TypeOK is preserved by every step.
LEMMA TypeStep ==
  ASSUME TypeOK, [Next]_vars
  PROVE  TypeOK'
<1>1. ASSUME NEW c \in Contents, DeleteContent(c)  PROVE TypeOK'
  BY <1>1 DEF DeleteContent, TypeOK, reqVars
<1>2. ASSUME NEW r \in Requests, NEW a \in Calls, Begin(r, a)  PROVE TypeOK'
  <2>1. <<a.kind, a.user, a.content>> \in Kinds \X Users \X Contents
    BY DEF Calls
  <2>. QED  BY <1>2, <2>1 DEF Begin, TypeOK, Goto, dbVars
<1>3. ASSUME NEW r \in Requests, CheckContentExists(r)  PROVE TypeOK'
  BY <1>3 DEF CheckContentExists, TypeOK, Goto, Finish, dbVars
<1>4. ASSUME NEW r \in Requests, InsertRow(r)  PROVE TypeOK'
  <2>1. Row(r) \in Kinds \X Users \X Contents
    BY <1>4, CallType DEF InsertRow
  <2>. QED  BY <1>4, <2>1 DEF InsertRow, TypeOK, Goto
<1>5. ASSUME NEW r \in Requests, FetchExisting(r)  PROVE TypeOK'
  BY <1>5 DEF FetchExisting, TypeOK, Goto, Finish, dbVars
<1>6. ASSUME NEW r \in Requests, DeleteRow(r)  PROVE TypeOK'
  BY <1>6 DEF DeleteRow, TypeOK, Goto
<1>7. ASSUME NEW r \in Requests, UpdateCounter(r)  PROVE TypeOK'
  <2>1. count' \in [Kinds \X Contents -> Nat]
    BY <1>7, ApplyDeltaType DEF UpdateCounter, TypeOK
  <2>2. PICK ok \in BOOLEAN : AfterCount(r, ok)
    BY <1>7 DEF UpdateCounter
  <2>. QED  BY <1>7, <2>1, <2>2, AfterCountType DEF UpdateCounter, TypeOK, Pcs, Replies
<1>8. ASSUME NEW r \in Requests, UpdateCounterFails(r)  PROVE TypeOK'
  <2>1. count' \in [Kinds \X Contents -> Nat]
    BY <1>8, ApplyDeltaType DEF UpdateCounterFails, TypeOK
  <2>2. faults' \in 0 .. MaxFaults
    BY <1>8, BoundsAssumption DEF UpdateCounterFails, TypeOK
  <2>3. CASE tries[r] < MaxRetries /\ tries' = [tries EXCEPT ![r] = @ + 1] /\ UNCHANGED <<pc, reply>>
    BY <1>8, <2>1, <2>2, <2>3, BoundsAssumption DEF UpdateCounterFails, TypeOK
  <2>4. CASE AfterCount(r, FALSE) /\ UNCHANGED tries
    BY <1>8, <2>1, <2>2, <2>4, AfterCountType DEF UpdateCounterFails, TypeOK, Pcs, Replies
  <2>. QED  BY <1>8, <2>3, <2>4 DEF UpdateCounterFails
<1>9. ASSUME NEW r \in Requests, PublishEvent(r)  PROVE TypeOK'
  BY <1>9 DEF PublishEvent, TypeOK, Goto, Finish, dbVars
<1>10. ASSUME NEW r \in Requests, PublishFails(r) \/ HandlerFails(r) \/ Crash(r)
       PROVE  TypeOK'
  BY <1>10, BoundsAssumption
     DEF PublishFails, HandlerFails, Crash, Active, TypeOK, Goto, Finish, dbVars
<1>11. CASE UNCHANGED vars
  BY <1>11 DEF vars, dbVars, reqVars, TypeOK
<1>. QED  BY <1>1, <1>2, <1>3, <1>4, <1>5, <1>6, <1>7, <1>8, <1>9, <1>10, <1>11
          DEF Next, HandlerStep, HandlerFault

\* The variables keep their types in every behaviour, whatever the handlers
\* and their failures do.
THEOREM TypeCorrect == Spec => []TypeOK
<1>1. Init => TypeOK
  BY BoundsAssumption DEF Init, TypeOK
<1>2. TypeOK /\ [Next]_vars => TypeOK'
  BY TypeStep
<1>. QED  BY <1>1, <1>2, PTL DEF Spec

-----------------------------------------------------------------------------
(* Counting the requests that owe a counter something. *)

\* A handler has no delta to send before it has written its row.
FreshDelta ==
  \A r \in Requests : pc[r] \in {"idle", "check", "write", "fetch"} => delta[r] = 0

\* On a row no two requests overlapped on, one request at most is in flight,
\* and while it owes the counter +1 the row it inserted is still there.
SerialRows ==
  /\ \A p, q \in Requests :
       Active(p) /\ Active(q) /\ Row(p) = Row(q) /\ Row(p) \notin raced => p = q
  /\ \A r \in Requests :
       pc[r] = "count" /\ delta[r] = 1 /\ Row(r) \notin raced => Row(r) \in rows

IInv ==
  /\ TypeOK
  /\ FreshDelta
  /\ SerialRows
  /\ UndercountBoundedByFaults
  /\ DriftBoundedWhenSerial

\* The sets Drift counts are finite.
LEMMA DriftType ==
  ASSUME TypeOK, NEW k \in Kinds, NEW c \in Contents
  PROVE  /\ \A d : IsFiniteSet(Owing(k, c, d)) /\ Cardinality(Owing(k, c, d)) \in Nat
         /\ IsFiniteSet(Holders(k, c)) /\ Cardinality(Holders(k, c)) \in Nat
         /\ count[<<k, c>>] \in Nat
         /\ Drift(k, c) \in Int
<1>1. \A d : IsFiniteSet(Owing(k, c, d)) /\ Cardinality(Owing(k, c, d)) \in Nat
  <2> TAKE d
  <2>1. Owing(k, c, d) \in SUBSET Requests
    BY DEF Owing
  <2>. QED  BY <2>1, RequestsAssumption, FS_Subset, FS_CardinalityType
<1>2. IsFiniteSet(Holders(k, c)) /\ Cardinality(Holders(k, c)) \in Nat
  <2>1. Holders(k, c) \in SUBSET Users
    BY DEF Holders
  <2>. QED  BY <2>1, UsersAssumption, FS_Subset, FS_CardinalityType
<1>3. count[<<k, c>>] \in Nat
  BY DEF TypeOK
<1>. QED  BY <1>1, <1>2, <1>3 DEF Drift

\* A step that lets no handler enter or leave the counter call, and changes
\* neither rows nor counters, leaves every drift as it is.
LEMMA DriftUnchanged ==
  ASSUME NEW k, NEW c, UNCHANGED <<rows, count>>,
         \A q \in Requests : (pc'[q] = "count") = (pc[q] = "count"),
         \A q \in Requests : pc[q] = "count" => call'[q] = call[q] /\ delta'[q] = delta[q]
  PROVE  Drift(k, c)' = Drift(k, c)
<1>1. \A d : Owing(k, c, d)' = Owing(k, c, d)
  BY DEF Owing, Cell
<1>2. Holders(k, c)' = Holders(k, c)
  BY DEF Holders
<1>. QED  BY <1>1, <1>2 DEF Drift

\* The request r stops owing its counter, the others go on.
LEMMA OwingLeaves ==
  ASSUME TypeOK, NEW r \in Requests, pc[r] = "count", pc'[r] # "count",
         \A q \in Requests : q # r => pc'[q] = pc[q],
         UNCHANGED <<call, delta>>,
         NEW k \in Kinds, NEW c \in Contents, NEW d \in {-1, 1}
  PROVE  Cardinality(Owing(k, c, d)') =
           IF Cell(r) = <<k, c>> /\ delta[r] = d THEN Cardinality(Owing(k, c, d)) - 1
                                                 ELSE Cardinality(Owing(k, c, d))
<1>1. Owing(k, c, d)' = Owing(k, c, d) \ {r}
  BY DEF Owing, Cell
<1>2. r \in Owing(k, c, d) <=> Cell(r) = <<k, c>> /\ delta[r] = d
  BY DEF Owing
<1>3. IsFiniteSet(Owing(k, c, d))
  BY DriftType
<1>4. Cardinality(Owing(k, c, d) \ {r}) =
        IF r \in Owing(k, c, d) THEN Cardinality(Owing(k, c, d)) - 1
                                ELSE Cardinality(Owing(k, c, d))
  BY <1>3, FS_RemoveElement
<1>. QED  BY <1>1, <1>2, <1>4

\* The request r starts owing its counter what it has just written.
LEMMA OwingEnters ==
  ASSUME TypeOK, NEW r \in Requests, pc[r] # "count", pc'[r] = "count",
         \A q \in Requests : q # r => pc'[q] = pc[q] /\ delta'[q] = delta[q],
         UNCHANGED call,
         NEW k \in Kinds, NEW c \in Contents, NEW d \in {-1, 1}
  PROVE  Cardinality(Owing(k, c, d)') =
           IF Cell(r) = <<k, c>> /\ delta'[r] = d THEN Cardinality(Owing(k, c, d)) + 1
                                                  ELSE Cardinality(Owing(k, c, d))
<1>1. r \notin Owing(k, c, d)
  BY DEF Owing
<1>2. CASE Cell(r) = <<k, c>> /\ delta'[r] = d
  <2>1. Owing(k, c, d)' = Owing(k, c, d) \cup {r}
    BY <1>2 DEF Owing, Cell
  <2>. QED  BY <1>1, <1>2, <2>1, DriftType, FS_AddElement
<1>3. CASE ~(Cell(r) = <<k, c>> /\ delta'[r] = d)
  <2>1. Owing(k, c, d)' = Owing(k, c, d)
    BY <1>1, <1>3 DEF Owing, Cell
  <2>. QED  BY <1>3, <2>1
<1>. QED  BY <1>2, <1>3

\* On a cell no two requests of a user overlapped on, the requests owing +1
\* belong to different users who all hold a row.
LEMMA OwingAtMostHolders ==
  ASSUME TypeOK, SerialRows, NEW k \in Kinds, NEW c \in Contents, Unraced(k, c)
  PROVE  Cardinality(Owing(k, c, 1)) <= Cardinality(Holders(k, c))
<1> DEFINE f == [q \in Owing(k, c, 1) |-> call[q].user]
<1>1. \A q \in Owing(k, c, 1) :
        /\ q \in Requests /\ Active(q) /\ call[q].user \in Users
        /\ Row(q) = <<k, call[q].user, c>> /\ Row(q) \notin raced
  BY DEF Owing, Active, Row, Cell, TypeOK, Calls, Unraced
<1>2. \A q \in Owing(k, c, 1) : call[q].user \in Holders(k, c)
  BY <1>1 DEF Owing, SerialRows, Holders
<1>3. \A p, q \in Owing(k, c, 1) : call[p].user = call[q].user => p = q
  BY <1>1 DEF SerialRows
<1>4. f \in Injection(Owing(k, c, 1), Holders(k, c))
  BY <1>2, <1>3 DEF Injection, IsInjective
<1>. QED  BY <1>4, DriftType, FS_Injection

\* GREATEST only ever raises the result of an update.
LEMMA ApplyDeltaCount ==
  ASSUME TypeOK, NEW r \in Requests, pc[r] # "idle", ApplyDelta(r),
         NEW k \in Kinds, NEW c \in Contents
  PROVE  count'[<<k, c>>] =
           IF Cell(r) = <<k, c>> THEN Greatest0(count[<<k, c>>] + delta[r])
                                 ELSE count[<<k, c>>]
BY CallType DEF ApplyDelta, TypeOK

-----------------------------------------------------------------------------
(* The steps of the induction. *)

\* What a step does to the drift of a live cell, given what it did before: the
\* lower bound always, the upper bound if the cell is unraced.
WithinBounds(k, c) ==
  /\ Drift(k, c) >= -faults
  /\ Unraced(k, c) => Drift(k, c) <= faults

\* Executing the delta of r moves the drift of its cell by no more than the
\* delta; clamping happens only where the drift is negative, or on a raced cell.
LEMMA ExecutedDelta ==
  ASSUME TypeOK, SerialRows, NEW r \in Requests, pc[r] = "count",
         NEW k \in Kinds, NEW c \in Contents, Cell(r) = <<k, c>>,
         NEW n \in Int, n = Greatest0(count[<<k, c>>] + delta[r]) - count[<<k, c>>]
  PROVE  /\ n >= delta[r]
         /\ n <= 1 /\ n >= -1
         /\ n # delta[r] => delta[r] = -1 /\ n = 0
         /\ n # delta[r] /\ Unraced(k, c) => Drift(k, c) < 0
<1>1. count[<<k, c>>] \in Nat /\ delta[r] \in {-1, 0, 1}
  BY DEF TypeOK
<1>2. n >= delta[r] /\ n <= 1 /\ n >= -1 /\ (n # delta[r] => delta[r] = -1 /\ n = 0 /\ count[<<k, c>>] = 0)
  BY <1>1 DEF Greatest0
<1>3. ASSUME n # delta[r], Unraced(k, c)
      PROVE  Drift(k, c) < 0
  <2>1. r \in Owing(k, c, -1)
    BY <1>2, <1>3 DEF Owing
  <2>2. Cardinality(Owing(k, c, -1)) \in Nat \ {0}
    BY <2>1, DriftType, FS_EmptySet
  <2>3. Cardinality(Owing(k, c, 1)) <= Cardinality(Holders(k, c))
    BY <1>3, OwingAtMostHolders
  <2>4. /\ Cardinality(Owing(k, c, 1)) \in Nat
        /\ Cardinality(Holders(k, c)) \in Nat
    BY DriftType
  <2>. QED  BY <1>2, <1>3, <2>2, <2>3, <2>4 DEF Drift
<1>. QED  BY <1>2, <1>3

\* FreshDelta is preserved by every step.
LEMMA FreshDeltaStep ==
  ASSUME TypeOK, FreshDelta, [Next]_vars
  PROVE  FreshDelta'
<1>. USE DEF FreshDelta, TypeOK
<1>1. ASSUME NEW c \in Contents, DeleteContent(c)  PROVE FreshDelta'
  BY <1>1 DEF DeleteContent, reqVars
<1>2. ASSUME NEW r \in Requests, NEW a \in Calls, Begin(r, a)  PROVE FreshDelta'
  BY <1>2 DEF Begin, Goto
<1>3. ASSUME NEW r \in Requests, HandlerStep(r)  PROVE FreshDelta'
  BY <1>3 DEF HandlerStep, CheckContentExists, InsertRow, FetchExisting, DeleteRow,
     UpdateCounter, PublishEvent, AfterCount, Goto, Finish
<1>4. ASSUME NEW r \in Requests, HandlerFault(r)  PROVE FreshDelta'
  BY <1>4 DEF HandlerFault, UpdateCounterFails, PublishFails, HandlerFails, Crash,
     AfterCount, Goto, Finish
<1>5. CASE UNCHANGED vars
  BY <1>5 DEF vars, reqVars
<1>. QED  BY <1>1, <1>2, <1>3, <1>4, <1>5 DEF Next

\* A step of a handler that keeps the tables keeps SerialRows: no request
\* becomes active, and none comes to owe +1.
LEMMA SerialRowsKept ==
  ASSUME SerialRows, UNCHANGED <<rows, call, raced, delta>>,
         \A q \in Requests : pc'[q] \notin {"idle", "done"} => pc[q] \notin {"idle", "done"},
         \A q \in Requests : pc'[q] = "count" /\ delta[q] = 1 => pc[q] = "count"
  PROVE  SerialRows'
BY DEF SerialRows, Active, Row

\* SerialRows is preserved by every step.
LEMMA SerialRowsStep ==
  ASSUME TypeOK, FreshDelta, SerialRows, [Next]_vars
  PROVE  SerialRows'
<1>1. ASSUME NEW c \in Contents, DeleteContent(c)  PROVE SerialRows'
  BY <1>1, SerialRowsKept DEF DeleteContent, reqVars
<1>2. ASSUME NEW r \in Requests, NEW a \in Calls, Begin(r, a)  PROVE SerialRows'
  <2>1. /\ ~Active(r) /\ pc'[r] # "count" /\ call'[r] = a
        /\ \A q \in Requests : q # r => pc'[q] = pc[q] /\ call'[q] = call[q]
        /\ raced \subseteq raced' /\ UNCHANGED <<rows, delta>>
    BY <1>2 DEF Begin, Goto, Active, TypeOK, dbVars
  <2>2. \A q \in Requests : Active(q) /\ Row(q) = <<a.kind, a.user, a.content>>
                              => Row(q) \in raced'
    BY <1>2 DEF Begin, Overlapping
  <2>3. ASSUME NEW p \in Requests, NEW q \in Requests,
               Active(p)', Active(q)', Row(p)' = Row(q)', Row(p)' \notin raced'
        PROVE  p = q
    <3>1. CASE p # r /\ q # r
      BY <2>1, <2>3, <3>1 DEF SerialRows, Active, Row
    <3>2. CASE p = r /\ q # r
      BY <2>1, <2>2, <2>3, <3>2 DEF Active, Row
    <3>3. CASE p # r /\ q = r
      BY <2>1, <2>2, <2>3, <3>3 DEF Active, Row
    <3>. QED  BY <3>1, <3>2, <3>3
  <2>4. ASSUME NEW q \in Requests, pc'[q] = "count", delta'[q] = 1, Row(q)' \notin raced'
        PROVE  Row(q)' \in rows'
    BY <2>1, <2>4 DEF SerialRows, Row
  <2>. QED  BY <2>3, <2>4 DEF SerialRows
<1>3. ASSUME NEW r \in Requests, InsertRow(r)  PROVE SerialRows'
  <2>1. /\ pc[r] = "write" /\ delta[r] = 0
        /\ \A q \in Requests : q # r => pc'[q] = pc[q] /\ delta'[q] = delta[q]
        /\ Row(r) \in rows' /\ rows \subseteq rows' /\ UNCHANGED <<call, raced>>
    BY <1>3 DEF InsertRow, FreshDelta, Goto, TypeOK
  <2>. QED  BY <2>1 DEF SerialRows, Active, Row
<1>4. ASSUME NEW r \in Requests, DeleteRow(r)  PROVE SerialRows'
  <2>1. /\ pc[r] = "write" /\ pc'[r] = "count" /\ delta'[r] # 1
        /\ \A q \in Requests : q # r => pc'[q] = pc[q] /\ delta'[q] = delta[q]
        /\ rows' = rows \ {Row(r)} /\ UNCHANGED <<call, raced>>
    BY <1>4 DEF DeleteRow, Goto, TypeOK
  <2>2. \A p, q \in Requests :
          Active(p)' /\ Active(q)' /\ Row(p)' = Row(q)' /\ Row(p)' \notin raced' => p = q
    BY <2>1 DEF SerialRows, Active, Row
  <2>3. ASSUME NEW q \in Requests, pc'[q] = "count", delta'[q] = 1, Row(q)' \notin raced'
        PROVE  Row(q)' \in rows'
    <3>1. q # r /\ pc[q] = "count" /\ delta[q] = 1 /\ Row(q) \notin raced
      BY <2>1, <2>3 DEF Row
    <3>2. Row(q) \in rows /\ Active(q) /\ Active(r)
      BY <2>1, <3>1 DEF SerialRows, Active
    <3>3. Row(q) # Row(r)
      BY <3>1, <3>2 DEF SerialRows
    <3>. QED  BY <2>1, <3>2, <3>3 DEF Row
  <2>. QED  BY <2>2, <2>3 DEF SerialRows
<1>5. ASSUME NEW r \in Requests,
             CheckContentExists(r) \/ FetchExisting(r) \/ UpdateCounter(r) \/ PublishEvent(r)
      PROVE  SerialRows'
  <2>1. \A q \in Requests : pc'[q] \notin {"idle", "done"} => pc[q] \notin {"idle", "done"}
    BY <1>5 DEF CheckContentExists, FetchExisting, UpdateCounter, PublishEvent,
       AfterCount, Goto, Finish, TypeOK
  <2>2. \A q \in Requests : pc'[q] = "count" /\ delta[q] = 1 => pc[q] = "count"
    BY <1>5 DEF CheckContentExists, FetchExisting, UpdateCounter, PublishEvent,
       AfterCount, Goto, Finish, TypeOK, FreshDelta
  <2>. QED  BY <1>5, <2>1, <2>2, SerialRowsKept
            DEF CheckContentExists, FetchExisting, UpdateCounter, PublishEvent, dbVars
<1>6. ASSUME NEW r \in Requests, HandlerFault(r)  PROVE SerialRows'
  <2>1. \A q \in Requests : pc'[q] \notin {"idle", "done"} => pc[q] \notin {"idle", "done"}
    BY <1>6 DEF HandlerFault, UpdateCounterFails, PublishFails, HandlerFails, Crash,
       Active, AfterCount, Goto, Finish, TypeOK
  <2>2. \A q \in Requests : pc'[q] = "count" /\ delta[q] = 1 => pc[q] = "count"
    BY <1>6 DEF HandlerFault, UpdateCounterFails, PublishFails, HandlerFails, Crash,
       AfterCount, Goto, Finish, TypeOK
  <2>. QED  BY <1>6, <2>1, <2>2, SerialRowsKept
            DEF HandlerFault, UpdateCounterFails, PublishFails, HandlerFails, Crash, dbVars
<1>7. CASE UNCHANGED vars
  BY <1>7, SerialRowsKept DEF vars, reqVars, dbVars
<1>. QED  BY <1>1, <1>2, <1>3, <1>4, <1>5, <1>6, <1>7 DEF Next, HandlerStep

\* Inserting the row of r adds one holder to its cell, unless the row is there.
LEMMA HoldersInsert ==
  ASSUME TypeOK, NEW r \in Requests, pc[r] # "idle", rows' = rows \cup {Row(r)},
         NEW k \in Kinds, NEW c \in Contents
  PROVE  Cardinality(Holders(k, c)') =
           IF Cell(r) = <<k, c>> /\ Row(r) \notin rows
           THEN Cardinality(Holders(k, c)) + 1 ELSE Cardinality(Holders(k, c))
<1>1. call[r] \in Calls /\ call[r].user \in Users
  BY CallType DEF Calls
<1>2. CASE Cell(r) = <<k, c>>
  <2>1. Holders(k, c)' = Holders(k, c) \cup {call[r].user}
    BY <1>1, <1>2 DEF Holders, Row, Cell
  <2>2. call[r].user \in Holders(k, c) <=> Row(r) \in rows
    BY <1>1, <1>2 DEF Holders, Row, Cell
  <2>. QED  BY <1>2, <2>1, <2>2, DriftType, FS_AddElement
<1>3. CASE Cell(r) # <<k, c>>
  <2>1. Holders(k, c)' = Holders(k, c)
    BY <1>3 DEF Holders, Row, Cell
  <2>. QED  BY <1>3, <2>1
<1>. QED  BY <1>2, <1>3

\* Deleting the row of r takes one holder from its cell, if there was such a row.
LEMMA HoldersDelete ==
  ASSUME TypeOK, NEW r \in Requests, pc[r] # "idle", rows' = rows \ {Row(r)},
         NEW k \in Kinds, NEW c \in Contents
  PROVE  Cardinality(Holders(k, c)') =
           IF Cell(r) = <<k, c>> /\ Row(r) \in rows
           THEN Cardinality(Holders(k, c)) - 1 ELSE Cardinality(Holders(k, c))
<1>1. call[r] \in Calls /\ call[r].user \in Users
  BY CallType DEF Calls
<1>2. CASE Cell(r) = <<k, c>>
  <2>1. Holders(k, c)' = Holders(k, c) \ {call[r].user}
    BY <1>1, <1>2 DEF Holders, Row, Cell
  <2>2. call[r].user \in Holders(k, c) <=> Row(r) \in rows
    BY <1>1, <1>2 DEF Holders, Row, Cell
  <2>3. IsFiniteSet(Holders(k, c))
    BY DriftType
  <2>4. Cardinality(Holders(k, c) \ {call[r].user}) =
          IF call[r].user \in Holders(k, c) THEN Cardinality(Holders(k, c)) - 1
                                           ELSE Cardinality(Holders(k, c))
    BY <2>3, FS_RemoveElement
  <2>. QED  BY <1>2, <2>1, <2>2, <2>4
<1>3. CASE Cell(r) # <<k, c>>
  <2>1. Holders(k, c)' = Holders(k, c)
    BY <1>3 DEF Holders, Row, Cell
  <2>. QED  BY <1>3, <2>1
<1>. QED  BY <1>2, <1>3

\* The bounds survive a step that moves the drift towards zero or not at all,
\* and one that moves it by one while counting a fault.
LEMMA BoundsKept ==
  ASSUME NEW k, NEW c, WithinBounds(k, c), raced \subseteq raced',
         faults \in Nat, faults' \in Nat, faults' >= faults,
         Drift(k, c) \in Int, Drift(k, c)' \in Int,
         \/ Drift(k, c)' = Drift(k, c)
         \/ /\ faults' = faults + 1
            /\ Drift(k, c)' - Drift(k, c) \in {-1, 1}
         \/ /\ Drift(k, c)' = Drift(k, c) + 1
            /\ Unraced(k, c) => Drift(k, c) < 0
  PROVE  WithinBounds(k, c)'
<1>1. Unraced(k, c)' => Unraced(k, c)
  BY DEF Unraced
<1>2. Drift(k, c)' >= -faults'
  BY DEF WithinBounds
<1>3. ASSUME Unraced(k, c)' PROVE Drift(k, c)' <= faults'
  BY <1>1, <1>3 DEF WithinBounds
<1>. QED  BY <1>2, <1>3 DEF WithinBounds

\* The drift of a live cell after UpdateCounter has been executed for r
\* (executed) or not, and r has left the call (left) or will retry it.
LEMMA CounterAttempt ==
  ASSUME TypeOK, SerialRows, TypeOK', NEW r \in Requests, pc[r] = "count",
         NEW k \in Kinds, NEW c \in alive,
         NEW executed \in BOOLEAN, NEW left \in BOOLEAN,
         executed => ApplyDelta(r), ~executed => count' = count,
         left => pc'[r] # "count", ~left => pc' = pc,
         \A q \in Requests : q # r => pc'[q] = pc[q],
         UNCHANGED <<rows, call, delta>>
  PROVE  \/ Drift(k, c)' = Drift(k, c)
         \/ ~(executed /\ left) /\ Drift(k, c)' - Drift(k, c) \in {-1, 1}
         \/ /\ Drift(k, c)' = Drift(k, c) + 1
            /\ Unraced(k, c) => Drift(k, c) < 0
<1> DEFINE P == Cardinality(Owing(k, c, 1))
           M == Cardinality(Owing(k, c, -1))
           H == Cardinality(Holders(k, c))
           n == count'[<<k, c>>] - count[<<k, c>>]
<1>1. c \in Contents /\ delta[r] \in {-1, 0, 1}
  BY DEF TypeOK
<1>2. P \in Nat /\ M \in Nat /\ H \in Nat /\ count[<<k, c>>] \in Nat /\ count'[<<k, c>>] \in Nat
  BY <1>1, DriftType DEF TypeOK
<1>3. Drift(k, c) = count[<<k, c>>] + P - M - H
  BY DEF Drift
<1>4. H' = H
  BY DEF Holders
<1>5. Drift(k, c)' = count'[<<k, c>>] + P' - M' - H
  BY <1>4 DEF Drift
<1>6. ~left => P' = P /\ M' = M
  BY DEF Owing, Cell
<1>7. left => /\ P' = IF Cell(r) = <<k, c>> /\ delta[r] = 1 THEN P - 1 ELSE P
              /\ M' = IF Cell(r) = <<k, c>> /\ delta[r] = -1 THEN M - 1 ELSE M
  BY <1>1, OwingLeaves
<1>8. CASE Cell(r) # <<k, c>>
  <2>1. n = 0
    BY <1>1, <1>2, <1>8, ApplyDeltaCount
  <2>. QED  BY <1>2, <1>3, <1>5, <1>6, <1>7, <1>8, <2>1
<1>9. CASE Cell(r) = <<k, c>> /\ ~executed
  <2>1. n = 0
    BY <1>1, <1>2, <1>9
  <2>. QED  BY <1>1, <1>2, <1>3, <1>5, <1>6, <1>7, <1>9, <2>1
<1>10. CASE Cell(r) = <<k, c>> /\ executed
  <2>1. n = Greatest0(count[<<k, c>>] + delta[r]) - count[<<k, c>>]
    BY <1>1, <1>10, ApplyDeltaCount
  <2>2. /\ n \in Int /\ n >= delta[r] /\ n <= 1 /\ n >= -1
        /\ n # delta[r] => delta[r] = -1 /\ n = 0
        /\ n # delta[r] /\ Unraced(k, c) => Drift(k, c) < 0
    <3>1. n \in Int
      BY <1>2
    <3>. QED  BY <1>1, <1>10, <2>1, <3>1, ExecutedDelta
  <2>3. CASE ~left
    <3>1. Drift(k, c)' = Drift(k, c) + n
      BY <1>2, <1>3, <1>5, <1>6, <2>3
    <3>2. Drift(k, c) \in Int
      BY <1>1, DriftType
    <3>. QED  BY <2>2, <2>3, <3>1, <3>2
  <2>4. CASE left
    <3>1. Drift(k, c)' = Drift(k, c) + n - delta[r]
      BY <1>1, <1>2, <1>3, <1>5, <1>7, <1>10, <2>2, <2>4
    <3>2. Drift(k, c) \in Int
      BY <1>1, DriftType
    <3>. QED  BY <1>1, <2>2, <3>1, <3>2
  <2>. QED  BY <2>3, <2>4
<1>. QED  BY <1>8, <1>9, <1>10

\* Every step keeps the drift of every live cell within its bounds.
LEMMA DriftStep ==
  ASSUME IInv, [Next]_vars, NEW k \in Kinds, NEW c \in alive'
  PROVE  WithinBounds(k, c)'
<1>. USE DEF IInv
<1>1. TypeOK'
  BY TypeStep
<1>2. alive' \subseteq alive /\ raced \subseteq raced'
  <2>1. \A r \in Requests, a \in Calls : Begin(r, a) => alive' \subseteq alive /\ raced \subseteq raced'
    BY DEF Begin, dbVars
  <2>2. \A r \in Requests : HandlerStep(r) \/ HandlerFault(r) => UNCHANGED <<alive, raced>>
    BY DEF HandlerStep, CheckContentExists, InsertRow, FetchExisting, DeleteRow, UpdateCounter,
       PublishEvent, HandlerFault, UpdateCounterFails, PublishFails, HandlerFails, Crash, dbVars
  <2>. QED  BY <2>1, <2>2 DEF Next, DeleteContent, vars, dbVars
<1>3. c \in alive /\ c \in Contents /\ WithinBounds(k, c)
  BY <1>2 DEF TypeOK, UndercountBoundedByFaults, DriftBoundedWhenSerial, WithinBounds
<1>4. /\ faults \in Nat /\ faults' \in Nat
      /\ Drift(k, c) \in Int /\ Drift(k, c)' \in Int
  <2>1. faults \in Nat /\ faults' \in Nat /\ count'[<<k, c>>] \in Nat
    BY <1>1, <1>3, BoundsAssumption DEF TypeOK
  <2>2. \A d : Owing(k, c, d)' \in SUBSET Requests
    BY DEF Owing
  <2>3. Holders(k, c)' \in SUBSET Users
    BY DEF Holders
  <2>4. /\ Cardinality(Owing(k, c, 1)') \in Nat /\ Cardinality(Owing(k, c, -1)') \in Nat
        /\ Cardinality(Holders(k, c)') \in Nat
    BY <2>2, <2>3, RequestsAssumption, UsersAssumption, FS_Subset, FS_CardinalityType
  <2>5. Drift(k, c)' \in Int
    BY <2>1, <2>4 DEF Drift
  <2>. QED  BY <1>3, <2>1, <2>5, DriftType
<1>5. ASSUME NEW d \in Contents, DeleteContent(d)  PROVE WithinBounds(k, c)'
  <2>1. Drift(k, c)' = Drift(k, c) /\ faults' = faults
    BY <1>5, DriftUnchanged DEF DeleteContent, reqVars
  <2>. QED  BY <1>2, <1>3, <1>4, <2>1, BoundsKept
<1>6. ASSUME NEW r \in Requests, NEW a \in Calls, Begin(r, a)  PROVE WithinBounds(k, c)'
  <2>1. /\ UNCHANGED <<rows, count, faults>>
        /\ \A q \in Requests : (pc'[q] = "count") = (pc[q] = "count")
        /\ \A q \in Requests : pc[q] = "count" => call'[q] = call[q] /\ delta'[q] = delta[q]
    BY <1>6 DEF Begin, Goto, TypeOK, dbVars
  <2>2. Drift(k, c)' = Drift(k, c)
    BY <2>1, DriftUnchanged
  <2>. QED  BY <1>2, <1>3, <1>4, <2>1, <2>2, BoundsKept
<1>7. ASSUME NEW r \in Requests, InsertRow(r)  PROVE WithinBounds(k, c)'
  <2>1. /\ pc[r] = "write" /\ delta[r] = 0 /\ UNCHANGED <<count, call, faults>>
        /\ \A q \in Requests : q # r => pc'[q] = pc[q] /\ delta'[q] = delta[q]
        /\ rows' = rows \cup {Row(r)}
        /\ Row(r) \notin rows => delta'[r] = 1 /\ pc'[r] = "count"
        /\ Row(r) \in rows => delta'[r] = 0
    BY <1>7 DEF InsertRow, FreshDelta, Goto, TypeOK
  <2>2. Cardinality(Holders(k, c)') =
          IF Cell(r) = <<k, c>> /\ Row(r) \notin rows
          THEN Cardinality(Holders(k, c)) + 1 ELSE Cardinality(Holders(k, c))
    BY <1>3, <2>1, HoldersInsert
  <2>3. /\ Cardinality(Owing(k, c, 1)') =
             IF Cell(r) = <<k, c>> /\ Row(r) \notin rows
             THEN Cardinality(Owing(k, c, 1)) + 1 ELSE Cardinality(Owing(k, c, 1))
        /\ Cardinality(Owing(k, c, -1)') = Cardinality(Owing(k, c, -1))
    <3>1. CASE pc'[r] = "count"
      BY <1>3, <2>1, <3>1, OwingEnters
    <3>2. CASE pc'[r] # "count"
      <4>1. \A d \in {-1, 1} : Owing(k, c, d)' = Owing(k, c, d)
        BY <2>1, <3>2 DEF Owing, Cell
      <4>. QED  BY <2>1, <3>2, <4>1
    <3>. QED  BY <3>1, <3>2
  <2>4. Drift(k, c)' = Drift(k, c)
    <3>1. /\ Cardinality(Owing(k, c, 1)) \in Nat /\ Cardinality(Owing(k, c, -1)) \in Nat
          /\ Cardinality(Holders(k, c)) \in Nat /\ count[<<k, c>>] \in Nat
      BY <1>3, DriftType
    <3>. QED  BY <2>1, <2>2, <2>3, <3>1 DEF Drift
  <2>. QED  BY <1>2, <1>3, <1>4, <2>1, <2>4, BoundsKept
<1>8. ASSUME NEW r \in Requests, DeleteRow(r)  PROVE WithinBounds(k, c)'
  <2>1. /\ pc[r] = "write" /\ pc'[r] = "count" /\ UNCHANGED <<count, call, faults>>
        /\ \A q \in Requests : q # r => pc'[q] = pc[q] /\ delta'[q] = delta[q]
        /\ rows' = rows \ {Row(r)}
        /\ delta'[r] = IF Row(r) \in rows THEN -1 ELSE 0
    BY <1>8 DEF DeleteRow, Goto, TypeOK
  <2>2. Cardinality(Holders(k, c)') =
          IF Cell(r) = <<k, c>> /\ Row(r) \in rows
          THEN Cardinality(Holders(k, c)) - 1 ELSE Cardinality(Holders(k, c))
    BY <1>3, <2>1, HoldersDelete
  <2>3. /\ Cardinality(Owing(k, c, -1)') =
             IF Cell(r) = <<k, c>> /\ Row(r) \in rows
             THEN Cardinality(Owing(k, c, -1)) + 1 ELSE Cardinality(Owing(k, c, -1))
        /\ Cardinality(Owing(k, c, 1)') = Cardinality(Owing(k, c, 1))
    BY <1>3, <2>1, OwingEnters
  <2>4. Drift(k, c)' = Drift(k, c)
    <3>1. /\ Cardinality(Owing(k, c, 1)) \in Nat /\ Cardinality(Owing(k, c, -1)) \in Nat
          /\ Cardinality(Holders(k, c)) \in Nat /\ count[<<k, c>>] \in Nat
      BY <1>3, DriftType
    <3>. QED  BY <2>1, <2>2, <2>3, <3>1 DEF Drift
  <2>. QED  BY <1>2, <1>3, <1>4, <2>1, <2>4, BoundsKept
<1>9. ASSUME NEW r \in Requests, FetchExisting(r)  PROVE WithinBounds(k, c)'
  <2>1. /\ pc[r] = "fetch" /\ delta[r] = 0 /\ UNCHANGED <<rows, count, call, delta, faults>>
        /\ \A q \in Requests : q # r => pc'[q] = pc[q]
    BY <1>9 DEF FetchExisting, FreshDelta, Goto, Finish, TypeOK, dbVars
  <2>2. \A d \in {-1, 1} : Owing(k, c, d)' = Owing(k, c, d)
    BY <2>1 DEF Owing, Cell
  <2>3. Holders(k, c)' = Holders(k, c)
    BY <2>1 DEF Holders
  <2>4. Drift(k, c)' = Drift(k, c)
    BY <2>1, <2>2, <2>3 DEF Drift
  <2>. QED  BY <1>2, <1>3, <1>4, <2>1, <2>4, BoundsKept
<1>10. ASSUME NEW r \in Requests,
              CheckContentExists(r) \/ PublishEvent(r) \/ PublishFails(r) \/ HandlerFails(r)
       PROVE  WithinBounds(k, c)'
  <2>1. /\ UNCHANGED <<rows, count, call, delta>> /\ faults' >= faults
        /\ \A q \in Requests : (pc'[q] = "count") = (pc[q] = "count")
    BY <1>4, <1>10 DEF CheckContentExists, PublishEvent, PublishFails, HandlerFails,
       Goto, Finish, TypeOK, dbVars
  <2>2. Drift(k, c)' = Drift(k, c)
    BY <2>1, DriftUnchanged
  <2>. QED  BY <1>2, <1>3, <1>4, <2>1, <2>2, BoundsKept
<1>11. ASSUME NEW r \in Requests, UpdateCounter(r)  PROVE WithinBounds(k, c)'
  <2>1. /\ pc[r] = "count" /\ pc'[r] # "count" /\ UNCHANGED <<rows, call, delta, faults>>
        /\ \A q \in Requests : q # r => pc'[q] = pc[q]
    BY <1>11, AfterCountType DEF UpdateCounter
  <2>2. CASE ApplyDelta(r)
    <3>1. PICK executed \in BOOLEAN, left \in BOOLEAN : executed /\ left
      OBVIOUS
    <3>2. \/ Drift(k, c)' = Drift(k, c)
          \/ /\ Drift(k, c)' = Drift(k, c) + 1
             /\ Unraced(k, c) => Drift(k, c) < 0
      BY <1>1, <1>3, <2>1, <2>2, <3>1, CounterAttempt
    <3>. QED  BY <1>2, <1>3, <1>4, <2>1, <3>2, BoundsKept
  <2>3. CASE ~Live(r) /\ UNCHANGED count
    <3>1. \A d \in {-1, 1} : Owing(k, c, d)' = Owing(k, c, d)
      BY <1>3, <2>1, <2>3 DEF Owing, Cell, Live
    <3>2. Drift(k, c)' = Drift(k, c)
      BY <2>1, <2>3, <3>1 DEF Drift, Holders
    <3>. QED  BY <1>2, <1>3, <1>4, <2>1, <3>2, BoundsKept
  <2>. QED  BY <1>11, <2>2, <2>3 DEF UpdateCounter
<1>12. ASSUME NEW r \in Requests, UpdateCounterFails(r)  PROVE WithinBounds(k, c)'
  <2>1. /\ pc[r] = "count" /\ faults' = faults + 1 /\ UNCHANGED <<rows, call, delta>>
        /\ ApplyDelta(r) \/ count' = count
        /\ pc' = pc \/ (pc'[r] # "count" /\ \A q \in Requests : q # r => pc'[q] = pc[q])
    BY <1>12, AfterCountType DEF UpdateCounterFails
  <2>2. PICK executed \in BOOLEAN, left \in BOOLEAN :
          /\ executed => ApplyDelta(r)
          /\ ~executed => count' = count
          /\ left => pc'[r] # "count" /\ \A q \in Requests : q # r => pc'[q] = pc[q]
          /\ ~left => pc' = pc
    BY <2>1
  <2>3. \/ Drift(k, c)' = Drift(k, c)
        \/ Drift(k, c)' - Drift(k, c) \in {-1, 1}
        \/ /\ Drift(k, c)' = Drift(k, c) + 1
           /\ Unraced(k, c) => Drift(k, c) < 0
    <3>1. \A q \in Requests : q # r => pc'[q] = pc[q]
      BY <2>2
    <3>. QED  BY <1>1, <1>3, <2>1, <2>2, <3>1, CounterAttempt
  <2>. QED  BY <1>2, <1>3, <1>4, <2>1, <2>3, BoundsKept
<1>13. ASSUME NEW r \in Requests, Crash(r)  PROVE WithinBounds(k, c)'
  <2>1. /\ faults' = faults + 1 /\ UNCHANGED <<rows, count, call, delta>>
        /\ pc'[r] = "done" /\ \A q \in Requests : q # r => pc'[q] = pc[q]
    BY <1>13 DEF Crash, Goto, TypeOK, dbVars
  <2>2. CASE pc[r] = "count"
    <3>1. \/ Drift(k, c)' = Drift(k, c)
          \/ Drift(k, c)' - Drift(k, c) \in {-1, 1}
          \/ /\ Drift(k, c)' = Drift(k, c) + 1
             /\ Unraced(k, c) => Drift(k, c) < 0
      BY <1>1, <1>3, <2>1, <2>2, CounterAttempt
    <3>. QED  BY <1>2, <1>3, <1>4, <2>1, <3>1, BoundsKept
  <2>3. CASE pc[r] # "count"
    <3>1. \A q \in Requests : (pc'[q] = "count") = (pc[q] = "count")
      BY <2>1, <2>3
    <3>2. Drift(k, c)' = Drift(k, c)
      BY <2>1, <3>1, DriftUnchanged
    <3>. QED  BY <1>2, <1>3, <1>4, <2>1, <3>2, BoundsKept
  <2>. QED  BY <2>2, <2>3
<1>14. CASE UNCHANGED vars
  <2>1. Drift(k, c)' = Drift(k, c) /\ faults' = faults
    BY <1>14, DriftUnchanged DEF vars, dbVars, reqVars
  <2>. QED  BY <1>2, <1>3, <1>4, <2>1, BoundsKept
<1>. QED  BY <1>5, <1>6, <1>7, <1>8, <1>9, <1>10, <1>11, <1>12, <1>13, <1>14
          DEF Next, HandlerStep, HandlerFault

\* Before any request there is nothing to count.
LEMMA IInvInit == Init => IInv
<1> SUFFICES ASSUME Init PROVE IInv
  OBVIOUS
<1>1. TypeOK
  BY BoundsAssumption DEF Init, TypeOK
<1>2. FreshDelta /\ SerialRows
  BY DEF Init, FreshDelta, SerialRows, Active
<1>3. ASSUME NEW k \in Kinds, NEW c \in Contents  PROVE Drift(k, c) = 0
  <2>1. Owing(k, c, 1) = {} /\ Owing(k, c, -1) = {} /\ Holders(k, c) = {}
    BY DEF Init, Owing, Holders
  <2>2. count[<<k, c>>] = 0
    BY DEF Init
  <2>. QED  BY <2>1, <2>2, FS_EmptySet DEF Drift
<1>. QED  BY <1>1, <1>2, <1>3 DEF IInv, Init, UndercountBoundedByFaults, DriftBoundedWhenSerial

\* IInv is inductive.
LEMMA IInvStep == IInv /\ [Next]_vars => IInv'
<1> SUFFICES ASSUME IInv, [Next]_vars PROVE IInv'
  OBVIOUS
<1>1. TypeOK' /\ FreshDelta' /\ SerialRows'
  BY TypeStep, FreshDeltaStep, SerialRowsStep DEF IInv
<1>2. \A k \in Kinds, c \in alive' : WithinBounds(k, c)'
  BY DriftStep
<1>. QED  BY <1>1, <1>2 DEF IInv, UndercountBoundedByFaults, DriftBoundedWhenSerial, WithinBounds

-----------------------------------------------------------------------------
(* The counters. *)

\* In every behaviour a live content's counter is never further below its
\* rows than the calls in flight and the failures explain.
THEOREM UndercountBounded == Spec => []UndercountBoundedByFaults
<1>1. IInv => UndercountBoundedByFaults
  BY DEF IInv
<1>. QED  BY <1>1, IInvInit, IInvStep, PTL DEF Spec

\* Where no user's requests overlap it is not further above them either:
\* without failures the counter is exact.
THEOREM SerialDriftBounded == Spec => []DriftBoundedWhenSerial
<1>1. IInv => DriftBoundedWhenSerial
  BY DEF IInv
<1>. QED  BY <1>1, IInvInit, IInvStep, PTL DEF Spec

-----------------------------------------------------------------------------
(* Events, and deleted contents. *)

\* Whoever is about to publish created a row, and who has published is done.
EventsInv ==
  /\ \A r \in Requests : pc[r] = "notify" => Creates(r) /\ delta[r] = 1
  /\ \A r \in events : pc[r] = "done"
  /\ EventsOnlyForNewInteractions

\* EventsInv is preserved by every step.
LEMMA EventsStep ==
  ASSUME TypeOK, EventsInv, [Next]_vars
  PROVE  EventsInv'
<1>. USE DEF EventsInv, EventsOnlyForNewInteractions, TypeOK, Creates
<1>1. ASSUME NEW c \in Contents, DeleteContent(c)  PROVE EventsInv'
  BY <1>1 DEF DeleteContent, reqVars
<1>2. ASSUME NEW r \in Requests, NEW a \in Calls, Begin(r, a)  PROVE EventsInv'
  BY <1>2 DEF Begin, Goto
<1>3. ASSUME NEW r \in Requests,
             CheckContentExists(r) \/ InsertRow(r) \/ FetchExisting(r) \/ DeleteRow(r)
      PROVE  EventsInv'
  BY <1>3 DEF CheckContentExists, InsertRow, FetchExisting, DeleteRow, Goto, Finish
<1>4. ASSUME NEW r \in Requests, UpdateCounter(r) \/ UpdateCounterFails(r)
      PROVE  EventsInv'
  BY <1>4 DEF UpdateCounter, UpdateCounterFails, AfterCount, Goto, Finish
<1>5. ASSUME NEW r \in Requests, PublishEvent(r)  PROVE EventsInv'
  BY <1>5 DEF PublishEvent, Goto, Finish
<1>6. ASSUME NEW r \in Requests, PublishFails(r) \/ HandlerFails(r) \/ Crash(r)
      PROVE  EventsInv'
  BY <1>6 DEF PublishFails, HandlerFails, Crash, Active, Goto, Finish
<1>7. CASE UNCHANGED vars
  BY <1>7 DEF vars, reqVars
<1>. QED  BY <1>1, <1>2, <1>3, <1>4, <1>5, <1>6, <1>7 DEF Next, HandlerStep, HandlerFault

\* An author is told of an interaction only by the request that created its
\* row, and never of one whose caller was told that it failed.
THEOREM EventsOnlyForNew == Spec => []EventsOnlyForNewInteractions
<1>1. Init => EventsInv
  BY DEF Init, EventsInv, EventsOnlyForNewInteractions
<1>2. TypeOK /\ EventsInv /\ [Next]_vars => EventsInv'
  BY EventsStep
<1>3. EventsInv => EventsOnlyForNewInteractions
  BY DEF EventsInv
<1>. QED  BY <1>1, <1>2, <1>3, TypeCorrect, PTL DEF Spec

\* Only the author's deletion changes which contents are alive, and no
\* statement moves a counter of one that is not.
LEMMA FrozenStep ==
  ASSUME TypeOK, [Next]_vars, NEW c \in Contents \ alive
  PROVE  c \notin alive' /\ \A k \in Kinds : count'[<<k, c>>] = count[<<k, c>>]
<1>1. ASSUME NEW r \in Requests, pc[r] = "count", alive' = alive,
             (Live(r) /\ ApplyDelta(r)) \/ UNCHANGED count
      PROVE  c \notin alive' /\ \A k \in Kinds : count'[<<k, c>>] = count[<<k, c>>]
  BY <1>1 DEF TypeOK, Live, Cell, ApplyDelta
<1>2. CASE \E r \in Requests : UpdateCounter(r) \/ UpdateCounterFails(r)
  BY <1>1, <1>2 DEF UpdateCounter, UpdateCounterFails
<1>3. CASE UNCHANGED count /\ alive' \subseteq alive
  BY <1>3
<1>4. ASSUME NEW r \in Requests,
             \/ \E a \in Calls : Begin(r, a)
             \/ CheckContentExists(r) \/ InsertRow(r) \/ FetchExisting(r) \/ DeleteRow(r)
             \/ PublishEvent(r) \/ PublishFails(r) \/ HandlerFails(r) \/ Crash(r)
      PROVE  UNCHANGED count /\ alive' \subseteq alive
  BY <1>4 DEF Begin, CheckContentExists, InsertRow, FetchExisting, DeleteRow,
              PublishEvent, PublishFails, HandlerFails, Crash, dbVars
<1>5. ASSUME NEW d \in Contents, DeleteContent(d)
      PROVE  UNCHANGED count /\ alive' \subseteq alive
  BY <1>5 DEF DeleteContent
<1>6. CASE UNCHANGED vars
  BY <1>6 DEF vars, dbVars
<1>. QED  BY <1>2, <1>3, <1>4, <1>5, <1>6 DEF Next, HandlerStep, HandlerFault

\* The status check in the WHERE clause of UpdateCounter freezes the counters
\* of a deleted content in every behaviour.
THEOREM DeletedFrozen == Spec => DeletedContentFrozen
<1>1. TypeOK /\ [Next]_vars
        => [\A c \in Contents \ alive :
              /\ c \notin alive'
              /\ \A k \in Kinds : count'[<<k, c>>] = count[<<k, c>>]]_vars
  BY FrozenStep
<1>. QED  BY <1>1, TypeCorrect, PTL DEF Spec, DeletedContentFrozen
=============================================================================
