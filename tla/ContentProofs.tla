--------------------------- MODULE ContentProofs ---------------------------
(***************************************************************************)
(* For any users, texts, requests and failures: type correctness of        *)
(* Content, that a deleted content stays as it is, that a draft stays out  *)
(* of the index, that a content is announced once, that what is published  *)
(* is complete, what the index shows when requests do not overlap, and     *)
(* that all this is one life, as ContentLife tells it.                     *)
(***************************************************************************)
EXTENDS Content, FiniteSetTheorems, TLAPS

Pcs == {"idle", "insert", "read", "write", "reread", "tell", "done"}

-----------------------------------------------------------------------------
(* Type correctness. *)

\* Which requests can be where.
CallFits ==
  \A r \in Requests :
    /\ pc[r] # "idle" => call[r] \in Calls
    /\ pc[r] = "insert" => call[r].op = "create"
    /\ pc[r] \in {"read", "write"} => call[r].op \in {"update", "publish", "delete", "pin", "unpin"}
    /\ pc[r] = "reread" => call[r].op \in {"create", "update", "publish"}
    /\ pc[r] = "tell" => call[r].op = "delete"

Typed == TypeOK /\ CallFits

\* What the arguments of a call are.
LEMMA CallType ==
  ASSUME NEW a \in Calls
  PROVE  /\ a.op \in {"create", "update", "publish", "delete", "pin", "unpin"}
         /\ a.op \in {"create", "update"} => /\ a.title \in Titles \cup {Empty}
                                            /\ a.text \in Texts \cup {Empty}
         /\ a.op = "create" => a.kind \in Kinds /\ a.draft \in BOOLEAN
BY ContentAssumption

\* What the row is made of.
LEMMA RowType ==
  ASSUME TypeOK
  PROVE  /\ row.status \in Statuses /\ row.kind \in Kinds /\ row.pinned \in BOOLEAN
         /\ row.title \in Titles \cup {Empty} /\ row.text \in Texts \cup {Empty}
         /\ [title |-> row.title, text |-> row.text] \in Fields
BY DEF TypeOK, Rows, Fields

\* Each of the four statements writes fields of its own and leaves the rest.
LEMMA WriteRowEffect ==
  ASSUME Typed, NEW r \in Requests, pc[r] = "write", WriteRow(r)
  PROVE  /\ row' \in Rows
         /\ row'.kind = row.kind
         /\ \/ /\ call[r].op = "update" /\ row.status # "deleted"
               /\ row'.status = row.status
               /\ row'.title = fields[r].title /\ row'.text = fields[r].text
            \/ /\ row'.title = row.title /\ row'.text = row.text
               /\ \/ call[r].op = "publish" /\ row.status = "draft" /\ row'.status = "published"
                  \/ call[r].op = "delete" /\ row'.status = "deleted"
                  \/ call[r].op \in {"pin", "unpin"} /\ row'.status = row.status
<1>1. row \in Rows /\ fields[r] \in Fields
  BY DEF Typed, TypeOK
<1>2. CASE UpdateRow(r)
  BY <1>1, <1>2 DEF UpdateRow, Rows, Fields
<1>3. CASE PublishRow(r)
  BY <1>1, <1>3 DEF PublishRow, Rows, Statuses
<1>4. CASE DeleteRow(r)
  BY <1>1, <1>4 DEF DeleteRow, Rows, Statuses
<1>5. CASE SetPinned(r)
  BY <1>1, <1>5 DEF SetPinned, Rows
<1>. QED  BY <1>2, <1>3, <1>4, <1>5 DEF WriteRow

\* What the INSERT leaves.
LEMMA InsertRowEffect ==
  ASSUME Typed, NEW r \in Requests, pc[r] = "insert", InsertRow(r)
  PROVE  /\ row' \in Rows /\ call[r].op = "create"
         /\ row'.status = IF call[r].draft THEN "draft" ELSE "published"
         /\ row'.status = "published" => Valid(row'.kind, row', FALSE)
         /\ row'.title = call[r].title /\ row'.text = call[r].text
<1>1. /\ call[r].title \in Titles \cup {Empty} /\ call[r].text \in Texts \cup {Empty}
      /\ call[r].kind \in Kinds /\ call[r].draft \in BOOLEAN /\ call[r].op = "create"
  BY CallType DEF Typed, CallFits
<1>2. /\ row' = [status |-> IF call[r].draft THEN "draft" ELSE "published",
                kind |-> call[r].kind, title |-> call[r].title, text |-> call[r].text,
                pinned |-> FALSE]
      /\ Valid(call[r].kind, [title |-> call[r].title, text |-> call[r].text], call[r].draft)
  BY DEF InsertRow
<1>3. row' \in Rows
  BY <1>1, <1>2 DEF Rows, Statuses
<1>. QED  BY <1>1, <1>2, <1>3 DEF Valid

\* Typed is preserved by every step.
LEMMA TypeStep ==
  ASSUME Typed, [Next]_vars
  PROVE  Typed'
<1>. USE DEF Typed
<1>1. ASSUME NEW r \in Requests, NEW a \in Calls, Begin(r, a)  PROVE Typed'
  <2>1. TypeOK'
    BY <1>1 DEF Begin, TypeOK, Goto
  <2>2. CallFits'
    BY <1>1, CallType DEF Begin, TypeOK, Goto, CallFits
  <2>. QED  BY <2>1, <2>2
<1>2. ASSUME NEW r \in Requests, Insert(r)  PROVE Typed'
  <2>1. /\ call[r].title \in Titles \cup {Empty} /\ call[r].text \in Texts \cup {Empty}
        /\ call[r].kind \in Kinds /\ call[r].draft \in BOOLEAN /\ call[r].op = "create"
    BY <1>2, CallType DEF Insert, CallFits
  <2>2. row' \in Rows
    <3>1. CASE row' = row
      BY <3>1 DEF TypeOK
    <3>2. CASE InsertRow(r)
      BY <1>2, <3>2, InsertRowEffect DEF Insert
    <3>. QED  BY <1>2, <3>1, <3>2 DEF Insert
  <2>. QED  BY <1>2, <2>1, <2>2 DEF Insert, TypeOK, CallFits, Goto, Finish, ghosts
<1>3. ASSUME NEW r \in Requests, Read(r)  PROVE Typed'
  <2>1. call[r].op = "update" => Merge(call[r]) \in Fields
    BY <1>3, CallType, RowType DEF Read, CallFits, Merge, Fields
  <2>2. fields' \in [Requests -> Fields]
    BY <1>3, <2>1 DEF Read, TypeOK
  <2>. QED  BY <1>3, <2>2 DEF Read, TypeOK, CallFits, Goto, Finish, ghosts
<1>4. ASSUME NEW r \in Requests, Write(r)  PROVE Typed'
  <2>1. row' \in Rows
    BY <1>4, WriteRowEffect DEF Write, TypeOK
  <2>. QED  BY <1>4, <2>1 DEF Write, TypeOK, CallFits, Goto, Finish, ghosts
<1>5. ASSUME NEW r \in Requests, Reread(r)  PROVE Typed'
  <2>1. \A t \in {"created", "updated"} : \A f :
          [title |-> f.title, text |-> f.text] \in Fields
            => /\ Event(r, t, f).by \in Requests
               /\ Event(r, t, f).type \in {"created", "updated", "deleted"}
               /\ [title |-> Event(r, t, f).title, text |-> Event(r, t, f).text] \in Fields
    BY DEF Event
  <2>2. /\ [title |-> row.title, text |-> row.text] \in Fields
        /\ call[r].op = "create" => [title |-> call[r].title, text |-> call[r].text] \in Fields
    BY <1>5, CallType, RowType DEF Reread, CallFits, Fields
  <2>3. \A e \in events' \ events :
          /\ e.by \in Requests /\ e.type \in {"created", "updated", "deleted"}
          /\ [title |-> e.title, text |-> e.text] \in Fields
    BY <1>5, <2>1, <2>2 DEF Reread
  <2>. QED  BY <1>5, <2>3 DEF Reread, TypeOK, CallFits, Goto, Finish
<1>6. ASSUME NEW r \in Requests, TellDeleted(r)  PROVE Typed'
  BY <1>6 DEF TellDeleted, Event, TypeOK, CallFits, Fields, Goto, Finish, ghosts
<1>7. ASSUME NEW r \in Requests, HandlerFails(r)  PROVE Typed'
  <2>1. row' \in Rows
    BY <1>7, WriteRowEffect, InsertRowEffect DEF HandlerFails, TypeOK
  <2>2. faults' \in 0 .. MaxFaults
    BY <1>7, ContentAssumption DEF HandlerFails, TypeOK
  <2>. QED  BY <1>7, <2>1, <2>2 DEF HandlerFails, Active, TypeOK, CallFits, Goto, Finish, ghosts
<1>8. ASSUME NEW e \in events, Consume(e) \/ EventFault(e)  PROVE Typed'
  <2>1. faults' \in 0 .. MaxFaults
    BY <1>8, ContentAssumption DEF Consume, EventFault, TypeOK
  <2>. QED  BY <1>8, <2>1 DEF Consume, EventFault, Index, TypeOK, CallFits, reqVars, ghosts
<1>9. CASE UNCHANGED vars
  BY <1>9 DEF vars, reqVars, ghosts, TypeOK, CallFits
<1>. QED  BY <1>1, <1>2, <1>3, <1>4, <1>5, <1>6, <1>7, <1>8, <1>9 DEF Next, HandlerStep

\* No request has come to begin with.
LEMMA TypeInit == Init => Typed
<1> SUFFICES ASSUME Init PROVE Typed
  OBVIOUS
<1>1. row \in Rows
  BY ContentAssumption DEF Init
<1>2. indexed \in Fields \cup {Nothing}
  BY <1>1 DEF Init, Rows, Fields
<1>3. [title |-> Empty, text |-> Empty] \in Fields
  BY DEF Fields
<1>4. 0 \in 0 .. MaxFaults
  BY ContentAssumption
<1>5. TypeOK
  BY <1>1, <1>2, <1>3, <1>4 DEF Init, TypeOK
<1>. QED  BY <1>5 DEF Init, Typed, CallFits

\* The variables keep their types in every behaviour, and no request is at a
\* statement that its RPC does not have.
THEOREM TypeCorrect == Spec => []TypeOK
<1>1. Typed => TypeOK
  BY DEF Typed
<1>. QED  BY <1>1, TypeInit, TypeStep, PTL DEF Spec

-----------------------------------------------------------------------------
(* The status of the row. *)

\* What a request has done or read says what the status may be by now: one
\* request at most is about to insert the row, none is past its look-up without
\* a row, none tells of a draft, and what is not published is unknown to the
\* index.
StatusInv ==
  /\ \A p, q \in Requests : pc[p] = "insert" /\ pc[q] = "insert" => p = q
  /\ \A r \in Requests :
       /\ pc[r] = "insert" => row.status = "none"
       /\ pc[r] \in {"write", "reread", "tell"} => row.status # "none"
       /\ pc[r] = "reread" /\ Announces(call[r]) => row.status # "draft"
       /\ pc[r] = "tell" => row.status = "deleted"
  /\ row.status \in {"none", "draft"} => indexed = Nothing /\ events = {}

\* StatusInv is preserved by every step.
LEMMA StatusStep ==
  ASSUME Typed, StatusInv, [Next]_vars
  PROVE  StatusInv'
<1>. USE DEF Typed, StatusInv, Announces
<1>1. ASSUME NEW r \in Requests, NEW a \in Calls, Begin(r, a)  PROVE StatusInv'
  BY <1>1 DEF Begin, TypeOK, Goto
<1>2. ASSUME NEW r \in Requests, Insert(r)  PROVE StatusInv'
  <2>1. /\ pc[r] = "insert" /\ row.status = "none" /\ UNCHANGED <<indexed, events, call>>
        /\ \A q \in Requests : q # r => pc'[q] = pc[q]
        /\ \/ pc'[r] = "done" /\ row' = row
           \/ pc'[r] = "reread" /\ row'.status = IF call[r].draft THEN "draft" ELSE "published"
    BY <1>2, InsertRowEffect DEF Insert, TypeOK, Goto, Finish
  <2>2. call[r].op = "create"
    BY <2>1 DEF CallFits
  <2>. QED  BY <2>1, <2>2
<1>3. ASSUME NEW r \in Requests, Read(r)  PROVE StatusInv'
  BY <1>3 DEF Read, There, TypeOK, Goto, Finish
<1>4. ASSUME NEW r \in Requests, Write(r)  PROVE StatusInv'
  <2>1. /\ pc[r] = "write" /\ row.status # "none" /\ UNCHANGED <<indexed, events, call>>
        /\ \A q \in Requests : q # r => pc'[q] = pc[q]
        /\ pc'[r] \in {"reread", "tell", "done"}
    BY <1>4 DEF Write, TypeOK, Goto, Finish
  <2>2. CASE row' = row /\ pc'[r] = "done"
    BY <2>1, <2>2
  <2>3. CASE WriteRow(r)
    <3>1. row'.status = row.status \/ row'.status \in {"published", "deleted"}
      BY <2>1, <2>3, WriteRowEffect
    <3>2. row'.status = "draft" => row.status = "draft"
      BY <3>1
    <3>3. row.status = "deleted" => row'.status = "deleted"
      BY <2>1, <2>3, WriteRowEffect
    <3>4. pc'[r] = "tell" => call[r].op = "delete"
      BY <1>4, <2>1 DEF Write, TypeOK, Goto, Finish
    <3>5. call[r].op = "delete" => row'.status = "deleted"
      BY <2>1, <2>3, WriteRowEffect
    <3>6. call[r].op = "publish" => row'.status # "draft"
      BY <2>1, <2>3, WriteRowEffect
    <3>7. call[r].op # "create"
      BY <2>1 DEF CallFits
    <3>8. row'.status # "none"
      BY <2>1, <3>1
    <3>. QED  BY <2>1, <3>2, <3>3, <3>4, <3>5, <3>6, <3>7, <3>8
  <2>. QED  BY <1>4, <2>1, <2>2, <2>3 DEF Write, TypeOK, Goto, Finish
<1>5. ASSUME NEW r \in Requests, Reread(r)  PROVE StatusInv'
  BY <1>5 DEF Reread, There, TypeOK, Goto, Finish
<1>6. ASSUME NEW r \in Requests, TellDeleted(r)  PROVE StatusInv'
  BY <1>6 DEF TellDeleted, TypeOK, Goto, Finish
<1>7. ASSUME NEW r \in Requests, HandlerFails(r)  PROVE StatusInv'
  <2>1. /\ \A q \in Requests : q # r => pc'[q] = pc[q]
        /\ pc'[r] = "done" /\ UNCHANGED <<indexed, events, call>>
    BY <1>7 DEF HandlerFails, TypeOK, Goto, Finish
  <2>2. CASE row' = row
    BY <2>1, <2>2
  <2>3. CASE pc[r] = "write" /\ WriteRow(r)
    <3>1. row.status # "none"
      BY <2>3
    <3>2. /\ row'.status # "none"
          /\ row'.status = "draft" => row.status = "draft"
          /\ row.status = "deleted" => row'.status = "deleted"
      BY <2>3, <3>1, WriteRowEffect
    <3>. QED  BY <2>1, <3>1, <3>2
  <2>4. CASE pc[r] = "insert" /\ InsertRow(r)
    <3>1. row.status = "none" /\ row'.status \in {"draft", "published"}
      BY <2>4, InsertRowEffect
    <3>2. \A q \in Requests : pc'[q] \notin {"insert", "write", "reread", "tell"}
      BY <2>1, <2>4
    <3>. QED  BY <2>1, <3>1, <3>2
  <2>. QED  BY <1>7, <2>2, <2>3, <2>4 DEF HandlerFails
<1>8. ASSUME NEW e \in events, Consume(e) \/ EventFault(e)  PROVE StatusInv'
  BY <1>8 DEF Consume, EventFault, Index, reqVars
<1>9. CASE UNCHANGED vars
  BY <1>9 DEF vars, reqVars
<1>. QED  BY <1>1, <1>2, <1>3, <1>4, <1>5, <1>6, <1>7, <1>8, <1>9 DEF Next, HandlerStep

\* Nobody is at work to begin with.
LEMMA StatusInit == Init => StatusInv
BY DEF Init, StatusInv

\* What a draft says is neither indexed nor on its way to the index.
DraftsStayOut ==
  row.status = "draft" => indexed = Nothing /\ events = {}

\* A draft is not in the index and no event on its way could put it there.
THEOREM DraftsOut == Spec => []DraftsStayOut
<1>1. StatusInv => DraftsStayOut
  BY DEF StatusInv, DraftsStayOut
<1>. QED  BY <1>1, TypeInit, TypeStep, StatusInit, StatusStep, PTL DEF Spec

\* No step but a pin changes the row of a deleted content.
LEMMA DeletedStep ==
  ASSUME Typed, StatusInv, [Next]_vars, row.status = "deleted"
  PROVE  row' = [row EXCEPT !.pinned = row'.pinned]
<1>. USE DEF Typed
<1>1. row = [row EXCEPT !.pinned = row.pinned]
  BY DEF TypeOK, Rows
<1>2. ASSUME NEW r \in Requests, pc[r] = "write", WriteRow(r)
      PROVE  row' = [row EXCEPT !.pinned = row'.pinned]
  <2>1. CASE DeleteRow(r)
    <3>1. row' = row
      BY <2>1 DEF DeleteRow, TypeOK, Rows
    <3>. QED  BY <1>1, <3>1
  <2>2. CASE SetPinned(r)
    BY <2>2 DEF SetPinned, TypeOK, Rows
  <2>. QED  BY <1>2, <2>1, <2>2 DEF WriteRow, UpdateRow, PublishRow
<1>3. row' = row \/ \E r \in Requests : pc[r] = "write" /\ WriteRow(r)
  BY DEF Next, HandlerStep, Begin, Insert, Read, Write, Reread, TellDeleted, HandlerFails,
     InsertRow, Consume, EventFault, Index, StatusInv, vars
<1>. QED  BY <1>1, <1>2, <1>3

\* A deleted content is never edited, published or brought back, whatever a
\* request has read of it before.
THEOREM DeletedFinal == Spec => DeletedIsFinal
<1>1. Typed /\ StatusInv /\ [Next]_vars
        => [row.status = "deleted" => row' = [row EXCEPT !.pinned = row'.pinned]]_row
  BY DeletedStep
<1>. QED  BY <1>1, TypeInit, TypeStep, StatusInit, StatusStep, PTL DEF Spec, DeletedIsFinal

-----------------------------------------------------------------------------
(* The announcement. *)

\* Requests that have announced the content, and those that are about to.
Announcers ==
  announced \cup {r \in Requests : pc[r] = "reread" /\ Announces(call[r])}

\* There is one at most; from when it has published the row on, no other finds
\* a draft to publish.
OneAnnouncer ==
  /\ \A p, q \in Announcers : p = q
  /\ Announcers # {} => row.status \in {"published", "deleted"}

\* A step that neither announces nor writes the row adds no announcer.
LEMMA AnnouncersKept ==
  ASSUME OneAnnouncer, Announcers' \subseteq Announcers,
         row'.status = row.status \/ row'.status = "deleted"
                                  \/ (row.status = "draft" /\ row'.status = "published")
  PROVE  OneAnnouncer'
BY DEF OneAnnouncer

\* OneAnnouncer is preserved by every step.
LEMMA AnnouncerStep ==
  ASSUME Typed, StatusInv, OneAnnouncer, [Next]_vars
  PROVE  OneAnnouncer'
<1>. USE DEF Typed
<1>1. ASSUME NEW r \in Requests, NEW a \in Calls, Begin(r, a)  PROVE OneAnnouncer'
  BY <1>1, AnnouncersKept DEF Begin, TypeOK, Goto, Announcers
<1>2. ASSUME NEW r \in Requests, Insert(r)  PROVE OneAnnouncer'
  <2>1. Announcers = {}
    BY <1>2 DEF Insert, StatusInv, OneAnnouncer
  <2>2. /\ UNCHANGED <<announced, call>> /\ call[r].op = "create"
        /\ \A q \in Requests : q # r => pc'[q] = pc[q]
        /\ \/ pc'[r] = "done"
           \/ row'.status = IF call[r].draft THEN "draft" ELSE "published"
    BY <1>2, InsertRowEffect DEF Insert, CallFits, TypeOK, Goto, Finish, ghosts
  <2>3. Announcers' \subseteq {r}
    BY <2>1, <2>2 DEF Announcers
  <2>4. r \in Announcers' => row'.status = "published"
    BY <2>1, <2>2 DEF Announcers, Announces
  <2>. QED  BY <2>3, <2>4 DEF OneAnnouncer
<1>3. ASSUME NEW r \in Requests, Read(r)  PROVE OneAnnouncer'
  <2>1. Announcers' = Announcers /\ row' = row
    BY <1>3 DEF Read, TypeOK, Goto, Finish, Announcers, ghosts
  <2>. QED  BY <2>1, AnnouncersKept
<1>4. ASSUME NEW r \in Requests, Write(r)  PROVE OneAnnouncer'
  <2>1. CASE row' = row /\ pc'[r] = "done"
    <3>1. Announcers' = Announcers
      BY <1>4, <2>1 DEF Write, TypeOK, Goto, Finish, Announcers, ghosts
    <3>. QED  BY <2>1, <3>1, AnnouncersKept
  <2>2. CASE WriteRow(r) /\ call[r].op = "publish"
    <3>1. row.status = "draft" /\ row'.status = "published"
      BY <1>4, <2>2, WriteRowEffect DEF Write
    <3>2. Announcers = {}
      BY <3>1 DEF OneAnnouncer
    <3>3. Announcers' \subseteq {r}
      BY <1>4, <3>2 DEF Write, TypeOK, Goto, Finish, Announcers, ghosts
    <3>. QED  BY <3>1, <3>3 DEF OneAnnouncer
  <2>3. CASE WriteRow(r) /\ call[r].op # "publish"
    <3>1. row'.status = row.status \/ row'.status = "deleted"
      BY <1>4, <2>3, WriteRowEffect DEF Write
    <3>2. call[r].op # "create"
      BY <1>4 DEF Write, CallFits
    <3>3. Announcers' = Announcers
      BY <1>4, <2>3, <3>2 DEF Write, TypeOK, Goto, Finish, Announcers, Announces, ghosts
    <3>. QED  BY <3>1, <3>3, AnnouncersKept
  <2>. QED  BY <1>4, <2>1, <2>2, <2>3 DEF Write, TypeOK, Goto, Finish
<1>5. ASSUME NEW r \in Requests, Reread(r)  PROVE OneAnnouncer'
  <2>1. /\ announced' \subseteq announced \cup {r}
        /\ announced' # announced => Announces(call[r])
    BY <1>5, CallType DEF Reread, CallFits, Announces
  <2>2. /\ pc[r] = "reread" /\ row' = row /\ call' = call
        /\ \A q \in Requests : q # r => pc'[q] = pc[q]
        /\ pc'[r] = "done"
    BY <1>5 DEF Reread, TypeOK, Goto, Finish
  <2>3. Announcers' \subseteq Announcers
    BY <2>1, <2>2 DEF Announcers
  <2>. QED  BY <2>2, <2>3, AnnouncersKept
<1>6. ASSUME NEW r \in Requests, TellDeleted(r)  PROVE OneAnnouncer'
  <2>1. Announcers' = Announcers /\ row' = row
    BY <1>6 DEF TellDeleted, TypeOK, Goto, Finish, Announcers, ghosts
  <2>. QED  BY <2>1, AnnouncersKept
<1>7. ASSUME NEW r \in Requests, HandlerFails(r)  PROVE OneAnnouncer'
  <2>1. Announcers' \subseteq Announcers
    BY <1>7 DEF HandlerFails, TypeOK, Goto, Finish, Announcers, ghosts
  <2>2. CASE pc[r] = "insert"
    BY <2>1, <2>2 DEF StatusInv, OneAnnouncer
  <2>3. CASE pc[r] # "insert"
    <3>1. \/ row'.status = row.status \/ row'.status = "deleted"
          \/ row.status = "draft" /\ row'.status = "published"
      BY <1>7, <2>3, WriteRowEffect DEF HandlerFails
    <3>. QED  BY <2>1, <3>1, AnnouncersKept
  <2>. QED  BY <2>2, <2>3
<1>8. ASSUME NEW e \in events, Consume(e) \/ EventFault(e)  PROVE OneAnnouncer'
  <2>1. Announcers' = Announcers /\ row' = row
    BY <1>8 DEF Consume, EventFault, Index, reqVars, ghosts, Announcers
  <2>. QED  BY <2>1, AnnouncersKept
<1>9. CASE UNCHANGED vars
  <2>1. Announcers' = Announcers /\ row' = row
    BY <1>9 DEF vars, reqVars, ghosts, Announcers
  <2>. QED  BY <2>1, AnnouncersKept
<1>. QED  BY <1>1, <1>2, <1>3, <1>4, <1>5, <1>6, <1>7, <1>8, <1>9 DEF Next, HandlerStep

\* Nobody has announced anything to begin with.
LEMMA AnnouncerInit == Init => OneAnnouncer
BY DEF Init, OneAnnouncer, Announcers

\* A content is announced once, however many requests publish its draft.
CreatedOnce == Cardinality(announced) <= 1

\* However many requests publish a draft at once, the content is announced
\* by one of them.
THEOREM AnnouncedOnce == Spec => []CreatedOnce
<1>1. OneAnnouncer => CreatedOnce
  <2> SUFFICES ASSUME OneAnnouncer PROVE CreatedOnce
    OBVIOUS
  <2>1. CASE announced = {}
    BY <2>1, FS_EmptySet DEF CreatedOnce
  <2>2. ASSUME NEW r \in announced  PROVE CreatedOnce
    <3>1. announced = {r}
      BY <2>2 DEF OneAnnouncer, Announcers
    <3>2. Cardinality({r}) = 1
      BY FS_Singleton
    <3>. QED  BY <3>1, <3>2 DEF CreatedOnce
  <2>. QED  BY <2>1, <2>2
<1>. QED  BY <1>1, TypeInit, TypeStep, StatusInit, StatusStep, AnnouncerInit, AnnouncerStep, PTL
          DEF Spec

-----------------------------------------------------------------------------
(* What is published is complete. *)

Updating(r) == Active(r) /\ call[r].op = "update"

\* What may be published.
Complete(f) == Valid(row.kind, f, FALSE)

\* As long as updates have not overlapped, an update that has merged its fields
\* does not undo what is complete; so a draft that was complete when a request
\* to publish it looked is so when it writes.
CompleteInv ==
  ~crossed =>
    /\ \A p, q \in Requests : Updating(p) /\ Updating(q) => p = q
    /\ \A r \in Requests :
         pc[r] = "write" =>
           /\ call[r].op = "update" => (Complete(row) => Complete(fields[r]))
           /\ call[r].op = "publish" => Complete(row)
    /\ row.status = "published" => Complete(row)
\* Merging replaces a field by one that is not empty, or leaves it.
LEMMA MergeComplete ==
  ASSUME NEW a, Complete(row)
  PROVE  Complete(Merge(a))
BY DEF Complete, Valid, Merge

\* A step that leaves the row and lets no request come to a write, and none
\* begin an update.
LEMMA CompleteKept ==
  ASSUME CompleteInv, UNCHANGED <<row, fields, call>>, crossed => crossed',
         \A q \in Requests : Active(q)' => Active(q),
         \A q \in Requests : pc'[q] = "write" => pc[q] = "write"
  PROVE  CompleteInv'
BY DEF CompleteInv, Updating, Complete

\* The statement of r is executed, and r goes on.
LEMMA CompleteWrite ==
  ASSUME Typed, CompleteInv, NEW r \in Requests, pc[r] = "write", WriteRow(r),
         pc'[r] \in {"reread", "tell", "done"},
         \A q \in Requests : q # r => pc'[q] = pc[q],
         UNCHANGED <<fields, call, crossed>>
  PROVE  CompleteInv'
<1> SUFFICES ASSUME ~crossed PROVE CompleteInv'
  BY DEF CompleteInv
<1>1. Active(r) /\ \A q \in Requests : Updating(q)' => Updating(q)
  BY DEF Updating, Active
<1>2. \A p, q \in Requests : Updating(p)' /\ Updating(q)' => p = q
  BY <1>1 DEF CompleteInv
<1>3. row'.kind = row.kind
  BY WriteRowEffect
<1>4. CASE /\ call[r].op = "update" /\ row'.status = row.status
           /\ row'.title = fields[r].title /\ row'.text = fields[r].text
  <2>1. Complete(row)' <=> Complete(fields[r])
    BY <1>3, <1>4 DEF Complete, Valid
  <2>2. Complete(row) => Complete(row)'
    BY <1>4, <2>1 DEF CompleteInv
  <2>3. \A q \in Requests : pc'[q] = "write" => pc[q] = "write" /\ call[q].op # "update"
    BY <1>1, <1>4 DEF CompleteInv, Updating, Active
  <2>. QED  BY <1>2, <1>4, <2>2, <2>3 DEF CompleteInv
<1>5. CASE row'.title = row.title /\ row'.text = row.text
  <2>1. Complete(row)' <=> Complete(row)
    BY <1>3, <1>5 DEF Complete, Valid
  <2>2. \A q \in Requests : Complete(fields[q])' <=> Complete(fields[q])
    BY <1>3 DEF Complete, Valid
  <2>3. row'.status = "published" => row.status = "published" \/ call[r].op = "publish"
    BY WriteRowEffect
  <2>4. \A q \in Requests : pc'[q] = "write" => pc[q] = "write"
    OBVIOUS
  <2>. QED  BY <1>2, <2>1, <2>2, <2>3, <2>4 DEF CompleteInv
<1>. QED  BY <1>4, <1>5, WriteRowEffect

\* CompleteInv is preserved by every step.
LEMMA CompleteStep ==
  ASSUME Typed, StatusInv, CompleteInv, [Next]_vars
  PROVE  CompleteInv'
<1>. USE DEF Typed
<1>1. ASSUME NEW r \in Requests, NEW a \in Calls, Begin(r, a)  PROVE CompleteInv'
  <2> SUFFICES ASSUME ~crossed' PROVE CompleteInv'
    BY DEF CompleteInv
  <2>1. /\ ~crossed /\ UNCHANGED <<row, fields>> /\ pc'[r] # "write" /\ call'[r] = a
        /\ \A q \in Requests : q # r => pc'[q] = pc[q] /\ call'[q] = call[q]
        /\ a.op = "update" => \A q \in Requests : ~Updating(q)
    BY <1>1 DEF Begin, TypeOK, Goto, Updating
  <2>2. \A p, q \in Requests : Updating(p)' /\ Updating(q)' => p = q
    BY <2>1 DEF CompleteInv, Updating, Active
  <2>. QED  BY <2>1, <2>2 DEF CompleteInv, Complete
<1>2. ASSUME NEW r \in Requests, Insert(r)  PROVE CompleteInv'
  <2>1. /\ pc[r] = "insert" /\ row.status = "none" /\ UNCHANGED <<call, fields, crossed>>
        /\ \A q \in Requests : q # r => pc'[q] = pc[q]
        /\ pc'[r] \in {"reread", "done"}
    BY <1>2 DEF Insert, StatusInv, TypeOK, Goto, Finish, ghosts
  <2>2. CASE row' = row
    BY <2>1, <2>2, CompleteKept DEF Active
  <2>3. CASE row' # row
    <3>1. row'.status = "published" => Complete(row)'
      BY <1>2, <2>3, InsertRowEffect DEF Insert, Complete
    <3>2. \A q \in Requests : pc'[q] # "write"
      BY <2>1 DEF StatusInv
    <3>3. ~crossed => \A p, q \in Requests : Updating(p)' /\ Updating(q)' => p = q
      BY <2>1 DEF CompleteInv, Updating, Active
    <3>. QED  BY <2>1, <3>1, <3>2, <3>3 DEF CompleteInv
  <2>. QED  BY <2>2, <2>3
<1>3. ASSUME NEW r \in Requests, Read(r)  PROVE CompleteInv'
  <2> SUFFICES ASSUME ~crossed PROVE CompleteInv'
    BY <1>3 DEF CompleteInv, Read, ghosts
  <2>1. /\ pc[r] = "read" /\ UNCHANGED <<row, call, crossed>>
        /\ \A q \in Requests : q # r => pc'[q] = pc[q] /\ fields'[q] = fields[q]
    BY <1>3 DEF Read, TypeOK, Goto, Finish, ghosts
  <2>2. pc'[r] = "write" =>
          /\ call[r].op = "update" => fields'[r] = Merge(call[r])
          /\ call[r].op = "publish" => Complete(row)
    BY <1>3 DEF Read, TypeOK, Goto, Finish, Publishable, Complete
  <2>3. \A p, q \in Requests : Updating(p)' /\ Updating(q)' => p = q
    BY <2>1 DEF CompleteInv, Updating, Active
  <2>4. Complete(row) => Complete(Merge(call[r]))
    BY MergeComplete
  <2>. QED  BY <2>1, <2>2, <2>3, <2>4 DEF CompleteInv, Complete
<1>4. ASSUME NEW r \in Requests, Write(r)  PROVE CompleteInv'
  <2>1. /\ pc[r] = "write" /\ pc'[r] \in {"reread", "tell", "done"}
        /\ \A q \in Requests : q # r => pc'[q] = pc[q]
        /\ UNCHANGED <<fields, call, crossed>>
    BY <1>4 DEF Write, TypeOK, Goto, Finish, ghosts
  <2>2. CASE WriteRow(r)
    BY <2>1, <2>2, CompleteWrite
  <2>3. CASE row' = row /\ pc'[r] = "done"
    BY <2>1, <2>3, CompleteKept DEF Active
  <2>. QED  BY <1>4, <2>2, <2>3 DEF Write, TypeOK, Goto, Finish
<1>5. ASSUME NEW r \in Requests, Reread(r) \/ TellDeleted(r)  PROVE CompleteInv'
  <2>1. /\ \A q \in Requests : q # r => pc'[q] = pc[q]
        /\ pc'[r] = "done" /\ UNCHANGED <<row, fields, call, crossed>>
    BY <1>5 DEF Reread, TellDeleted, TypeOK, Goto, Finish, ghosts
  <2>. QED  BY <2>1, CompleteKept DEF Active
<1>6. ASSUME NEW r \in Requests, HandlerFails(r)  PROVE CompleteInv'
  <2>1. /\ \A q \in Requests : q # r => pc'[q] = pc[q]
        /\ pc'[r] = "done" /\ UNCHANGED <<fields, call, crossed>>
    BY <1>6 DEF HandlerFails, TypeOK, Goto, Finish, ghosts
  <2>2. CASE pc[r] = "write" /\ WriteRow(r)
    BY <2>1, <2>2, CompleteWrite
  <2>3. CASE row' = row
    BY <2>1, <2>3, CompleteKept DEF Active
  <2>4. CASE pc[r] = "insert" /\ InsertRow(r)
    <3>1. row'.status = "published" => Complete(row)'
      BY <2>4, InsertRowEffect DEF Complete
    <3>2. \A q \in Requests : pc'[q] # "write"
      BY <2>1, <2>4 DEF StatusInv
    <3>3. ~crossed => \A p, q \in Requests : Updating(p)' /\ Updating(q)' => p = q
      BY <2>1 DEF CompleteInv, Updating, Active
    <3>. QED  BY <2>1, <3>1, <3>2, <3>3 DEF CompleteInv
  <2>. QED  BY <1>6, <2>2, <2>3, <2>4 DEF HandlerFails
<1>7. ASSUME NEW e \in events, Consume(e) \/ EventFault(e)  PROVE CompleteInv'
  BY <1>7, CompleteKept DEF Consume, EventFault, Index, reqVars, ghosts, Active
<1>8. CASE UNCHANGED vars
  BY <1>8, CompleteKept DEF vars, reqVars, ghosts, Active
<1>. QED  BY <1>1, <1>2, <1>3, <1>4, <1>5, <1>6, <1>7, <1>8 DEF Next, HandlerStep

\* What is published to begin with has been validated.
LEMMA CompleteInit == Init => CompleteInv
BY OldRowsAssumption DEF Init, CompleteInv, Complete, Updating, Active

\* A published content has the texts its kind asks for, however updates, drafts
\* and publications interleave, as long as no two updates do.
THEOREM PublishedAreComplete == Spec => []PublishedComplete
<1>1. CompleteInv => PublishedComplete
  BY DEF CompleteInv, Complete, PublishedComplete
<1>. QED  BY <1>1, TypeInit, TypeStep, StatusInit, StatusStep, CompleteInit, CompleteStep, PTL
          DEF Spec

-----------------------------------------------------------------------------
(* What the index shows. *)

\* The words of the row.
Words == [title |-> row.title, text |-> row.text]

\* As long as requests come one after the other, after the events of those
\* before, and nothing fails: whatever is on its way tells what the row says,
\* and so does the index, unless the request at work is about to tell it.
IndexInv ==
  ~raced /\ faults = 0 =>
    /\ \A p, q \in Requests : Active(p) /\ Active(q) => p = q
    /\ (\E r \in Requests : Active(r)) => events = {}
    /\ \A r \in Requests : pc[r] = "reread" /\ call[r].op = "create" =>
         /\ row.status = IF call[r].draft THEN "draft" ELSE "published"
         /\ Words = [title |-> call[r].title, text |-> call[r].text]
    /\ row.status = "published" =>
         /\ \A e \in events : e.type # "deleted" /\ [title |-> e.title, text |-> e.text] = Words
         /\ events = {} /\ (\A r \in Requests : pc[r] # "reread") => indexed = Words

\* IndexInv is preserved by every step.
LEMMA IndexStep ==
  ASSUME Typed, StatusInv, IndexInv, [Next]_vars
  PROVE  IndexInv'
<1> SUFFICES ASSUME ~raced', faults' = 0 PROVE IndexInv'
  BY DEF IndexInv
<1>. USE DEF Typed
<1>1. faults \in Nat
  BY ContentAssumption DEF TypeOK
<1>2. ASSUME NEW r \in Requests, NEW a \in Calls, Begin(r, a)  PROVE IndexInv'
  <2>1. /\ ~raced /\ faults = 0 /\ events = {} /\ \A q \in Requests : ~Active(q)
        /\ UNCHANGED <<row, indexed, events>>
        /\ pc'[r] # "reread" /\ \A q \in Requests : q # r => pc'[q] = pc[q]
    BY <1>2 DEF Begin, TypeOK, Goto
  <2>2. \A q \in Requests : q # r => ~Active(q)'
    BY <2>1 DEF Active
  <2>3. \A q \in Requests : pc[q] # "reread"
    BY <2>1 DEF Active
  <2>. QED  BY <2>1, <2>2, <2>3 DEF IndexInv, Words, Active
<1>3. ASSUME NEW r \in Requests, HandlerStep(r)  PROVE IndexInv'
  <2>1. /\ ~raced /\ faults = 0 /\ Active(r)
        /\ UNCHANGED <<raced, faults, indexed, call>>
        /\ \A q \in Requests : q # r => pc'[q] = pc[q]
    BY <1>3 DEF HandlerStep, Insert, Read, Write, Reread, TellDeleted, TypeOK, Goto, Finish,
       Active, ghosts
  <2>2. /\ events = {} /\ \A q \in Requests : q # r => ~Active(q) /\ ~Active(q)'
    BY <2>1 DEF IndexInv, Active
  <2>3. \A q \in Requests : q # r => pc[q] # "reread" /\ pc'[q] # "reread"
    BY <2>2 DEF Active
  <2>4. CASE Insert(r)
    <3>1. /\ pc[r] = "insert" /\ row.status = "none" /\ call[r].op = "create" /\ events' = events
          /\ \/ row' = row /\ pc'[r] = "done"
             \/ /\ pc'[r] = "reread"
                /\ row'.title = call[r].title /\ row'.text = call[r].text
                /\ row'.status = IF call[r].draft THEN "draft" ELSE "published"
      BY <2>4, InsertRowEffect DEF Insert, StatusInv, CallFits, TypeOK, Goto, Finish
    <3>2. CASE row' = row /\ pc'[r] = "done"
      BY <2>1, <2>2, <2>3, <3>1, <3>2 DEF IndexInv, Words, Active
    <3>3. CASE /\ pc'[r] = "reread"
               /\ row'.title = call[r].title /\ row'.text = call[r].text
               /\ row'.status = IF call[r].draft THEN "draft" ELSE "published"
      BY <2>1, <2>2, <2>3, <3>1, <3>3 DEF IndexInv, Words, Active
    <3>. QED  BY <3>1, <3>2, <3>3
  <2>5. CASE Read(r)
    <3>1. pc[r] = "read" /\ pc'[r] # "reread" /\ UNCHANGED <<row, events>>
      BY <2>5 DEF Read, TypeOK, Goto, Finish
    <3>. QED  BY <2>1, <2>2, <2>3, <3>1 DEF IndexInv, Words, Active
  <2>6. CASE Write(r)
    <3>1. /\ pc[r] = "write" /\ events' = events /\ pc'[r] \in {"reread", "tell", "done"}
          /\ row' = row \/ WriteRow(r)
          /\ row' = row \/ call[r].op \in {"delete", "pin", "unpin"} \/ pc'[r] = "reread"
      BY <2>6 DEF Write, TypeOK, Goto, Finish
    <3>2. call[r].op # "create" /\ (row.status = "published" => indexed = Words)
      BY <2>1, <2>2, <2>3, <3>1 DEF IndexInv, CallFits
    <3>3. row'.status = "published" /\ pc'[r] # "reread" => row.status = "published" /\ Words' = Words
      BY <3>1, WriteRowEffect DEF Words
    <3>. QED  BY <2>1, <2>2, <2>3, <3>1, <3>2, <3>3 DEF IndexInv, Active
  <2>7. CASE Reread(r)
    <3>1. pc[r] = "reread" /\ pc'[r] = "done" /\ row' = row
      BY <2>7 DEF Reread, TypeOK, Goto, Finish
    <3>2. \A q \in Requests : ~Active(q)' /\ pc'[q] # "reread"
      BY <2>2, <2>3, <3>1 DEF Active
    <3>3. row.status = "published" => \E t \in {"created", "updated"} : \E f :
             events' = {Event(r, t, f)} /\ f.title = row.title /\ f.text = row.text
      <4>1. CASE call[r].op = "create"
        <5>1. /\ row.status = IF call[r].draft THEN "draft" ELSE "published"
              /\ [title |-> row.title, text |-> row.text]
                   = [title |-> call[r].title, text |-> call[r].text]
          BY <2>1, <3>1, <4>1 DEF IndexInv, Words
        <5>2. row.title = call[r].title /\ row.text = call[r].text
          BY <5>1
        <5>. QED  BY <2>2, <2>7, <4>1, <5>1, <5>2 DEF Reread, There
      <4>2. CASE call[r].op \in {"update", "publish"}
        BY <2>2, <2>7, <4>2 DEF Reread, There
      <4>. QED  BY <3>1, <4>1, <4>2 DEF CallFits
    <3>4. row.status = "published" =>
            /\ events' # {}
            /\ \A e \in events' : e.type # "deleted" /\ [title |-> e.title, text |-> e.text] = Words
      <4> SUFFICES ASSUME row.status = "published" PROVE events' # {} /\ \A e \in events' :
               e.type # "deleted" /\ [title |-> e.title, text |-> e.text] = Words
        OBVIOUS
      <4>1. PICK t, f : t \in {"created", "updated"} /\
               events' = {Event(r, t, f)} /\ f.title = row.title /\ f.text = row.text
        BY <3>3
      <4>2. /\ Event(r, t, f).type = t
            /\ Event(r, t, f).title = row.title /\ Event(r, t, f).text = row.text
        BY <4>1 DEF Event
      <4>. QED  BY <4>1, <4>2 DEF Words
    <3>. QED  BY <2>1, <3>1, <3>2, <3>4 DEF IndexInv, Words
  <2>8. CASE TellDeleted(r)
    <3>1. pc[r] = "tell" /\ pc'[r] = "done" /\ row' = row /\ row.status = "deleted"
      BY <2>8 DEF TellDeleted, StatusInv, TypeOK, Goto, Finish
    <3>2. \A q \in Requests : ~Active(q)' /\ pc'[q] # "reread"
      BY <2>2, <2>3, <3>1 DEF Active
    <3>. QED  BY <3>1, <3>2 DEF IndexInv
  <2>. QED  BY <1>3, <2>4, <2>5, <2>6, <2>7, <2>8 DEF HandlerStep
<1>4. ASSUME NEW e \in events, Consume(e)  PROVE IndexInv'
  <2>1. /\ ~raced /\ faults = 0 /\ UNCHANGED <<row, pc, call, raced, faults>>
        /\ events' \subseteq events
        /\ e.type # "deleted" => indexed' = [title |-> e.title, text |-> e.text]
    BY <1>4 DEF Consume, Index, reqVars, ghosts
  <2>2. \A q \in Requests : ~Active(q)
    BY <2>1 DEF IndexInv
  <2>3. row.status = "published" => indexed' = Words
    BY <2>1 DEF IndexInv
  <2>. QED  BY <2>1, <2>2, <2>3 DEF IndexInv, Words, Active
<1>5. ASSUME \/ \E r \in Requests : HandlerFails(r)
             \/ \E e \in events : EventFault(e)
      PROVE  IndexInv'
  BY <1>1, <1>5 DEF HandlerFails, EventFault
<1>6. CASE UNCHANGED vars
  BY <1>6 DEF vars, reqVars, ghosts, IndexInv, Words, Active
<1>. QED  BY <1>2, <1>3, <1>4, <1>5, <1>6 DEF Next

\* What is published to begin with is in the index.
LEMMA IndexInit == Init => IndexInv
BY DEF Init, IndexInv, Words, Active

\* The index shows what a published content says, once its events have arrived,
\* if requests came one after the other and nothing failed.
THEOREM IndexExact == Spec => []IndexExactWhenAlone
<1>1. IndexInv => IndexExactWhenAlone
  BY DEF IndexInv, Words, Active, IndexExactWhenAlone
<1>. QED  BY <1>1, TypeInit, TypeStep, StatusInit, StatusStep, IndexInit, IndexStep, PTL DEF Spec

-----------------------------------------------------------------------------
(* The life of a content. *)

\* Who has yet to tell of the content it made public.
Owing == \E r \in Requests : pc[r] = "reread" /\ Announces(call[r])

\* Where the announcement stands.
Word == IF Owing THEN "owed" ELSE IF announced # {} THEN "told" ELSE "none"

\* The actions of ContentLife, of this row, this word and this index.
LEMMA LifeActions ==
  /\ Life!Init <=> /\ row.status \in {"none", "draft", "published", "deleted"}
                   /\ Word = "none" /\ (indexed # Nothing) = (row.status = "published")
  /\ Life!Draft <=> /\ row.status = "none" /\ row'.status = "draft"
                    /\ Word' = Word /\ (indexed' # Nothing) = (indexed # Nothing)
  /\ Life!Publish <=> /\ row.status \in {"none", "draft"} /\ row'.status = "published"
                      /\ Word' \in {"none", "owed"} /\ (indexed' # Nothing) = (indexed # Nothing)
  /\ Life!Delete <=> /\ row.status # "none" /\ row'.status = "deleted"
                     /\ Word' = Word /\ (indexed' # Nothing) = (indexed # Nothing)
  /\ Life!Tell <=> /\ row.status = "published" /\ Word = "owed" /\ Word' = "told"
                   /\ row'.status = row.status /\ (indexed' # Nothing) = (indexed # Nothing)
  /\ Life!GiveUp <=> /\ Word = "owed" /\ Word' = "none"
                     /\ row'.status = row.status /\ (indexed' # Nothing) = (indexed # Nothing)
  /\ Life!Find <=> /\ row.status \in {"published", "deleted"} /\ (indexed' # Nothing) = TRUE
                   /\ row'.status = row.status /\ Word' = Word
BY DEF Life!Init, Life!Draft, Life!Publish, Life!Delete, Life!Tell, Life!GiveUp, Life!Find,
   Word, Owing

\* Who has told of the content is through.
ToldDone == \A r \in announced : pc[r] = "done"

\* ToldDone is preserved by every step.
LEMMA ToldDoneStep ==
  ASSUME Typed, ToldDone, [Next]_vars
  PROVE  ToldDone'
<1>1. ASSUME NEW r \in Requests, \/ \E a \in Calls : Begin(r, a)
                                 \/ HandlerStep(r) \/ HandlerFails(r)
      PROVE  ToldDone'
  <2>1. /\ pc[r] # "done" /\ \A q \in Requests : q # r => pc'[q] = pc[q]
        /\ announced' = announced \/ (announced' = announced \cup {r} /\ pc'[r] = "done")
    BY <1>1 DEF Begin, HandlerStep, Insert, Read, Write, Reread, TellDeleted, HandlerFails,
       Active, Typed, TypeOK, Goto, Finish, ghosts
  <2>2. announced \subseteq Requests
    BY DEF Typed, TypeOK
  <2>. QED  BY <2>1, <2>2 DEF ToldDone
<1>2. ASSUME \/ \E e \in events : Consume(e) \/ EventFault(e)
             \/ UNCHANGED vars
      PROVE  ToldDone'
  BY <1>2 DEF Consume, EventFault, Index, vars, reqVars, ghosts, ToldDone
<1>. QED  BY <1>1, <1>2 DEF Next

\* What a step leaves alone.
LEMMA LifeStutters ==
  ASSUME row'.status = row.status, Word' = Word, (indexed' # Nothing) = (indexed # Nothing)
  PROVE  UNCHANGED Life!vars
BY DEF Life!vars, Word, Owing

\* A step that makes nobody owe and announces nothing leaves the word alone, if
\* it takes nobody from telling.
LEMMA WordKept ==
  ASSUME Owing' <=> Owing, announced' = announced
  PROVE  Word' = Word
BY DEF Word

\* Who owes the word is the only one, before anybody has told it.
LEMMA WordOwed ==
  ASSUME OneAnnouncer, ToldDone, NEW r \in Requests, pc[r] = "reread", Announces(call[r])
  PROVE  /\ Word = "owed" /\ announced = {}
         /\ \A q \in Requests : pc[q] = "reread" /\ Announces(call[q]) => q = r
BY DEF OneAnnouncer, ToldDone, Announcers, Word, Owing

\* A content that is not public has no word.
LEMMA WordNone ==
  ASSUME OneAnnouncer, row.status \in {"none", "draft"}
  PROVE  Word = "none" /\ ~Owing /\ announced = {}
BY DEF OneAnnouncer, Announcers, Word, Owing

\* A row that becomes public, or its draft, by a step of r.
LEMMA LifeOfRow ==
  ASSUME OneAnnouncer, NEW r \in Requests, UNCHANGED <<announced, indexed>>,
         \A q \in Requests : q # r => pc'[q] = pc[q] /\ call'[q] = call[q],
         \/ row.status = "none" /\ row'.status = "draft"
              /\ ~(pc'[r] = "reread" /\ Announces(call'[r]))
         \/ row.status \in {"none", "draft"} /\ row'.status = "published"
  PROVE  Life!Next
<1>1. Word = "none" /\ ~Owing /\ announced = {}
  BY WordNone
<1>2. Owing' <=> pc'[r] = "reread" /\ Announces(call'[r])
  BY <1>1 DEF Owing, Announces
<1>3. Word' = IF pc'[r] = "reread" /\ Announces(call'[r]) THEN "owed" ELSE "none"
  BY <1>1, <1>2 DEF Word
<1>. QED  BY <1>1, <1>3, LifeActions DEF Life!Next

\* The statement of r deletes the content, or leaves it its status.
LEMMA LifeOfWrite ==
  ASSUME row.status # "none", Owing' <=> Owing, UNCHANGED <<announced, indexed>>,
         row'.status \in {row.status, "deleted"}
  PROVE  [Life!Next]_(Life!vars)
<1>1. Word' = Word
  BY WordKept
<1>2. CASE row'.status = row.status
  BY <1>1, <1>2, LifeStutters
<1>3. CASE row'.status = "deleted"
  BY <1>1, <1>3, LifeActions DEF Life!Next
<1>. QED  BY <1>2, <1>3

\* r stops before it has told anybody, and leaves the row alone.
LEMMA LifeOfEnd ==
  ASSUME OneAnnouncer, ToldDone, NEW r \in Requests, pc'[r] = "done",
         \A q \in Requests : q # r => pc'[q] = pc[q],
         UNCHANGED <<row, call, announced, indexed>>
  PROVE  [Life!Next]_(Life!vars)
<1>1. CASE pc[r] = "reread" /\ Announces(call[r])
  <2>1. Word = "owed" /\ announced = {}
    BY <1>1, WordOwed
  <2>2. ~Owing'
    BY <1>1, WordOwed DEF Owing, Announces
  <2>3. Word' = "none"
    BY <2>1, <2>2 DEF Word
  <2>. QED  BY <2>1, <2>3, LifeActions DEF Life!Next
<1>2. CASE ~(pc[r] = "reread" /\ Announces(call[r]))
  <2>1. Owing' <=> Owing
    BY <1>2 DEF Owing, Announces
  <2>. QED  BY <2>1, WordKept, LifeStutters
<1>. QED  BY <1>1, <1>2

\* Every step is one of ContentLife, or leaves what it speaks of alone.
LEMMA LifeStep ==
  ASSUME Typed, StatusInv, OneAnnouncer, ToldDone, [Next]_vars
  PROVE  [Life!Next]_(Life!vars)
<1>. USE DEF Typed
<1>1. ASSUME NEW r \in Requests, NEW a \in Calls, Begin(r, a)  PROVE [Life!Next]_(Life!vars)
  <2>1. Owing' <=> Owing
    <3>1. /\ pc[r] = "idle" /\ pc'[r] # "reread"
          /\ \A q \in Requests : q # r => pc'[q] = pc[q] /\ call'[q] = call[q]
      BY <1>1 DEF Begin, TypeOK, Goto
    <3>. QED  BY <3>1 DEF Owing, Announces
  <2>. QED  BY <1>1, <2>1, WordKept, LifeStutters DEF Begin
<1>2. ASSUME NEW r \in Requests, Insert(r)  PROVE [Life!Next]_(Life!vars)
  <2>1. /\ pc[r] = "insert" /\ row.status = "none" /\ UNCHANGED <<announced, indexed, call>>
        /\ \A q \in Requests : q # r => pc'[q] = pc[q]
    BY <1>2 DEF Insert, StatusInv, TypeOK, Goto, Finish, ghosts
  <2>2. CASE row' = row /\ pc'[r] = "done"
    BY <2>1, <2>2, LifeOfEnd
  <2>3. CASE InsertRow(r)
    <3>1. /\ call[r].op = "create"
          /\ row'.status = IF call[r].draft THEN "draft" ELSE "published"
      BY <2>1, <2>3, InsertRowEffect
    <3>2. row'.status = "draft" => ~Announces(call'[r])
      BY <2>1, <3>1 DEF Announces
    <3>. QED  BY <2>1, <3>1, <3>2, LifeOfRow
  <2>. QED  BY <1>2, <2>2, <2>3 DEF Insert, TypeOK, Goto, Finish
<1>3. ASSUME NEW r \in Requests, Read(r)  PROVE [Life!Next]_(Life!vars)
  <2>1. /\ pc[r] = "read" /\ pc'[r] # "reread" /\ UNCHANGED <<row, indexed, announced, call>>
        /\ \A q \in Requests : q # r => pc'[q] = pc[q]
    BY <1>3 DEF Read, TypeOK, Goto, Finish, ghosts
  <2>2. Owing' <=> Owing
    BY <2>1 DEF Owing, Announces
  <2>. QED  BY <2>1, <2>2, WordKept, LifeStutters
<1>4. ASSUME NEW r \in Requests, Write(r)  PROVE [Life!Next]_(Life!vars)
  <2>1. /\ pc[r] = "write" /\ row.status # "none" /\ UNCHANGED <<indexed, announced, call>>
        /\ \A q \in Requests : q # r => pc'[q] = pc[q]
        /\ pc'[r] = "reread" => call[r].op \in {"update", "publish"}
    BY <1>4 DEF Write, StatusInv, TypeOK, Goto, Finish, ghosts
  <2>2. CASE row' = row /\ pc'[r] = "done"
    BY <2>1, <2>2, LifeOfEnd
  <2>3. CASE WriteRow(r)
    <3>1. CASE row.status = "draft" /\ row'.status = "published"
      BY <2>1, <3>1, LifeOfRow
    <3>2. CASE call[r].op # "publish" /\ row'.status \in {row.status, "deleted"}
      <4>1. call[r].op # "create"
        BY <2>1 DEF CallFits
      <4>2. Owing' <=> Owing
        BY <2>1, <3>2, <4>1 DEF Owing, Announces
      <4>. QED  BY <2>1, <3>2, <4>2, LifeOfWrite
    <3>. QED  BY <2>1, <2>3, <3>1, <3>2, WriteRowEffect
  <2>. QED  BY <1>4, <2>1, <2>2, <2>3 DEF Write, TypeOK, Goto, Finish
<1>5. ASSUME NEW r \in Requests, Reread(r)  PROVE [Life!Next]_(Life!vars)
  <2>1. /\ pc[r] = "reread" /\ pc'[r] = "done" /\ UNCHANGED <<row, indexed, call>>
        /\ \A q \in Requests : q # r => pc'[q] = pc[q]
    BY <1>5 DEF Reread, TypeOK, Goto, Finish
  <2>2. CASE announced' = announced
    BY <2>1, <2>2, LifeOfEnd
  <2>3. CASE announced' # announced
    <3>1. Announces(call[r]) /\ There /\ announced' = announced \cup {r}
      BY <1>5, <2>3 DEF Reread, Announces
    <3>2. row.status = "published"
      BY <2>1, <3>1 DEF StatusInv, There
    <3>3. Word = "owed"
      BY <2>1, <3>1, WordOwed
    <3>4. ~Owing'
      BY <2>1, <3>1, WordOwed DEF Owing, Announces
    <3>5. Word' = "told"
      BY <3>1, <3>4 DEF Word
    <3>. QED  BY <2>1, <3>2, <3>3, <3>5, LifeActions DEF Life!Next
  <2>. QED  BY <2>2, <2>3
<1>6. ASSUME NEW r \in Requests, TellDeleted(r)  PROVE [Life!Next]_(Life!vars)
  <2>1. /\ pc'[r] = "done" /\ UNCHANGED <<row, indexed, call, announced>>
        /\ \A q \in Requests : q # r => pc'[q] = pc[q]
    BY <1>6 DEF TellDeleted, TypeOK, Goto, Finish, ghosts
  <2>. QED  BY <2>1, LifeOfEnd
<1>7. ASSUME NEW r \in Requests, HandlerFails(r)  PROVE [Life!Next]_(Life!vars)
  <2>1. /\ pc'[r] = "done" /\ UNCHANGED <<indexed, call, announced>>
        /\ \A q \in Requests : q # r => pc'[q] = pc[q]
    BY <1>7 DEF HandlerFails, TypeOK, Goto, Finish, ghosts
  <2>2. CASE row' = row
    BY <2>1, <2>2, LifeOfEnd
  <2>3. CASE pc[r] = "insert" /\ InsertRow(r)
    <3>1. row.status = "none" /\ row'.status \in {"draft", "published"}
      BY <2>3, InsertRowEffect DEF StatusInv
    <3>. QED  BY <2>1, <3>1, LifeOfRow
  <2>4. CASE pc[r] = "write" /\ WriteRow(r)
    <3>1. CASE row.status = "draft" /\ row'.status = "published"
      BY <2>1, <3>1, LifeOfRow
    <3>2. CASE row'.status \in {row.status, "deleted"}
      <4>1. row.status # "none"
        BY <2>4 DEF StatusInv
      <4>2. Owing' <=> Owing
        BY <2>1, <2>4 DEF Owing, Announces
      <4>. QED  BY <2>1, <3>2, <4>1, <4>2, LifeOfWrite
    <3>. QED  BY <2>4, <3>1, <3>2, WriteRowEffect
  <2>. QED  BY <1>7, <2>2, <2>3, <2>4 DEF HandlerFails
<1>8. ASSUME NEW e \in events, Consume(e) \/ EventFault(e)  PROVE [Life!Next]_(Life!vars)
  <2>1. /\ UNCHANGED <<row, pc, call, announced>>
        /\ indexed' = indexed \/ indexed' = [title |-> e.title, text |-> e.text]
    BY <1>8 DEF Consume, EventFault, Index, reqVars, ghosts
  <2>2. Word' = Word
    BY <2>1, WordKept DEF Owing
  <2>3. CASE indexed' = indexed
    BY <2>1, <2>2, <2>3, LifeStutters
  <2>4. CASE indexed' = [title |-> e.title, text |-> e.text]
    <3>1. indexed' # Nothing
      BY <2>4, ContentAssumption DEF TypeOK
    <3>2. row.status \in {"published", "deleted"}
      BY RowType DEF StatusInv, Statuses
    <3>. QED  BY <2>1, <2>2, <3>1, <3>2, LifeActions DEF Life!Next
  <2>. QED  BY <2>1, <2>3, <2>4
<1>9. CASE UNCHANGED vars
  <2>1. Word' = Word
    BY <1>9, WordKept DEF vars, reqVars, ghosts, Owing
  <2>. QED  BY <1>9, <2>1, LifeStutters DEF vars
<1>. QED  BY <1>1, <1>2, <1>3, <1>4, <1>5, <1>6, <1>7, <1>8, <1>9 DEF Next, HandlerStep

\* What is public to begin with is known to the index, and nobody owes a word.
LEMMA LifeInit == Init => Life!Init /\ ToldDone
<1> SUFFICES ASSUME Init PROVE Life!Init /\ ToldDone
  OBVIOUS
<1>1. row \in Rows
  BY ContentAssumption DEF Init
<1>2. row.status \in {"none", "draft", "published", "deleted"}
  BY <1>1 DEF Rows, Statuses
<1>3. ~Owing /\ announced = {}
  BY DEF Init, Owing
<1>4. (indexed # Nothing) = (row.status = "published")
  <2>1. [title |-> row.title, text |-> row.text] # Nothing
    BY <1>1, ContentAssumption DEF Rows, Fields
  <2>. QED  BY <2>1 DEF Init
<1>. QED  BY <1>2, <1>3, <1>4, LifeActions DEF Word, ToldDone

\* The requests on a content and the events they send implement ContentLife: it
\* never goes back, it is announced once by the request that made it public, and
\* what was never public is not found (content_service.go, content_data_access.go).
THEOREM LivesInOrder == Spec => LifeInOrder
<1>. DEFINE I == Typed /\ StatusInv /\ OneAnnouncer /\ ToldDone
<1>1. Init => I /\ Life!Init
  BY TypeInit, StatusInit, AnnouncerInit, LifeInit
<1>2. I /\ [Next]_vars => I' /\ [Life!Next]_(Life!vars)
  BY TypeStep, StatusStep, AnnouncerStep, ToldDoneStep, LifeStep
<1>. QED  BY <1>1, <1>2, PTL DEF Spec, LifeInOrder, Life!Spec
=============================================================================
