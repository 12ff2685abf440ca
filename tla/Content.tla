------------------------------ MODULE Content ------------------------------
(***************************************************************************)
(* The life of one content: service/content creates, edits, publishes,     *)
(* pins and deletes it, and tells service/search of it, whose worker keeps *)
(* the search vector in the same row.                                      *)
(*                                                                         *)
(* Each request is one RPC, one step per statement; a step may fail or be  *)
(* the last of its process.  Every event is published by a goroutine of    *)
(* its own and each kind of event has a queue of its own, so events arrive *)
(* in any order.                                                           *)
(*                                                                         *)
(* Of the fields only title and text are modelled: summary, media and tags *)
(* go the same way.  The limits on their lengths are left out, and so are  *)
(* the embeddings, which nothing writes: DeleteContentIndex finds none.    *)
(***************************************************************************)
EXTENDS Integers, FiniteSets

CONSTANTS
  Users,
  Author,
  Titles, Texts,
  Empty,         \* "", and a field an update does not name
  Requests,      \* RPCs, each served once
  Calls,         \* the RPCs that may arrive
  NoCall,
  OldRows,       \* what the row may be to begin with
  Nothing,       \* a search vector that was never set
  MaxFaults      \* bound: failures

Kinds    == {"story", "short", "article"}
Statuses == {"none", "draft", "published", "deleted"}
Fields   == [title : Titles \cup {Empty}, text : Texts \cup {Empty}]
Rows     == [status : Statuses, kind : Kinds, title : Titles \cup {Empty},
             text : Texts \cup {Empty}, pinned : BOOLEAN]

ASSUME ContentAssumption ==
  /\ Author \in Users
  /\ Empty \notin Titles \cup Texts
  /\ Calls \subseteq
       [op : {"create"}, user : {Author}, kind : Kinds, draft : BOOLEAN,
        title : Titles \cup {Empty}, text : Texts \cup {Empty}]
       \cup [op : {"update"}, user : Users, title : Titles \cup {Empty}, text : Texts \cup {Empty}]
       \cup [op : {"publish", "delete", "pin", "unpin"}, user : Users]
  /\ NoCall \notin Calls
  /\ OldRows \subseteq Rows
  /\ Nothing \notin Fields
  /\ MaxFaults \in Nat

VARIABLES
  row,        \* the row of contents
  indexed,    \* what its search_vector was made of
  events,     \* events on their way: [by, type, title, text]
  pc, call, reply,
  fields,     \* the fields a request has read and merged
  announced,  \* requests that published a created event
  crossed,    \* two updates were at work at once
  raced,      \* requests overlapped, or one came before the events of another had arrived
  faults      \* failures so far

reqVars == <<pc, call, reply, fields>>
ghosts  == <<announced, crossed, raced>>
vars    == <<row, indexed, events, reqVars, ghosts, faults>>

Active(r) == pc[r] \notin {"idle", "done"}
Goto(r, label) == pc' = [pc EXCEPT ![r] = label]
Finish(r, answer) == Goto(r, "done") /\ reply' = [reply EXCEPT ![r] = answer]

There == row.status \in {"draft", "published"}

\* validateContent
Valid(kind, f, draft) ==
  /\ kind = "article" /\ ~draft => f.title # Empty
  /\ ~draft => f.text # Empty

\* What is published to begin with has passed these checks.
ASSUME OldRowsAssumption ==
  \A o \in OldRows : o.status = "published" => Valid(o.kind, o, FALSE)

\* The fields of the row with those an update names.
Merge(a) ==
  [title |-> IF a.title = Empty THEN row.title ELSE a.title,
   text  |-> IF a.text = Empty THEN row.text ELSE a.text]

-----------------------------------------------------------------------------
Init ==
  /\ row \in OldRows
  /\ indexed = IF row.status = "published" THEN [title |-> row.title, text |-> row.text]
               ELSE Nothing
  /\ events = {}
  /\ pc = [r \in Requests |-> "idle"]
  /\ call = [r \in Requests |-> NoCall]
  /\ reply = [r \in Requests |-> "none"]
  /\ fields = [r \in Requests |-> [title |-> Empty, text |-> Empty]]
  /\ announced = {}
  /\ crossed = FALSE
  /\ raced = FALSE
  /\ faults = 0

\* A request arrives; there is one id only to create a content with.
Begin(r, a) ==
  /\ pc[r] = "idle"
  /\ a.op = "create" => row.status = "none" /\ \A q \in Requests : pc[q] # "insert"
  /\ call' = [call EXCEPT ![r] = a]
  /\ Goto(r, IF a.op = "create" THEN "insert" ELSE "read")
  /\ crossed' = (crossed \/ (a.op = "update" /\ \E q \in Requests : Active(q) /\ call[q].op = "update"))
  /\ raced' = (raced \/ events # {} \/ \E q \in Requests : Active(q))
  /\ UNCHANGED <<row, indexed, events, reply, fields, announced, faults>>

\* The INSERT, of a draft or of what is public at once.
InsertRow(r) ==
  LET a == call[r]
  IN  /\ Valid(a.kind, [title |-> a.title, text |-> a.text], a.draft)
      /\ a.draft => a.kind = "article"
      /\ row' = [status |-> IF a.draft THEN "draft" ELSE "published", kind |-> a.kind,
                 title |-> a.title, text |-> a.text, pinned |-> FALSE]

\* Create: the checks, and the INSERT.
Insert(r) ==
  /\ pc[r] = "insert"
  /\ LET a == call[r]
         f == [title |-> a.title, text |-> a.text]
     IN  \/ /\ ~Valid(a.kind, f, a.draft)
            /\ Finish(r, "invalid") /\ UNCHANGED row
         \/ /\ Valid(a.kind, f, a.draft) /\ a.draft /\ a.kind # "article"
            /\ Finish(r, "no_drafts") /\ UNCHANGED row
         \/ InsertRow(r) /\ Goto(r, "reread") /\ UNCHANGED reply
  /\ UNCHANGED <<indexed, events, call, fields, ghosts, faults>>

\* What PublishDraft asks of the content it has read.
Publishable(r) == row.status = "draft" /\ Valid(row.kind, row, FALSE)

\* What Update asks: stories are not edited, and what will be stored is valid.
Editable(r) ==
  row.kind # "story" /\ Valid(row.kind, Merge(call[r]), row.status = "draft")

\* A draft that may be published as it is.
ReadBug(r) ==
  /\ pc[r] = "read"
  /\ \/ ~There /\ Finish(r, "not_found") /\ UNCHANGED fields
     \/ There /\ call[r].user # Author /\ Finish(r, "unauthorized") /\ UNCHANGED fields
     \/ /\ There /\ call[r].user = Author
        /\ \/ /\ call[r].op = "update"
              /\ \/ ~Editable(r) /\ Finish(r, "invalid") /\ UNCHANGED fields
                 \/ /\ Editable(r)
                    /\ fields' = [fields EXCEPT ![r] = Merge(call[r])]
                    /\ Goto(r, "write") /\ UNCHANGED reply
           \/ /\ call[r].op # "update"
              /\ Goto(r, "write") /\ UNCHANGED <<reply, fields>>
  /\ UNCHANGED <<row, indexed, events, call, ghosts, faults>>

\* GetByID and the checks of Update, PublishDraft, Delete and PinContent.
Read(r) ==
  /\ pc[r] = "read"
  /\ \/ ~There /\ Finish(r, "not_found") /\ UNCHANGED fields
     \/ There /\ call[r].user # Author /\ Finish(r, "unauthorized") /\ UNCHANGED fields
     \/ /\ There /\ call[r].user = Author
        /\ \/ /\ call[r].op = "update"
              /\ \/ ~Editable(r) /\ Finish(r, "invalid") /\ UNCHANGED fields
                 \/ /\ Editable(r)
                    /\ fields' = [fields EXCEPT ![r] = Merge(call[r])]
                    /\ Goto(r, "write") /\ UNCHANGED reply
           \/ /\ call[r].op = "publish"
              /\ \/ ~Publishable(r) /\ Finish(r, "invalid")
                 \/ Publishable(r) /\ Goto(r, "write") /\ UNCHANGED reply
              /\ UNCHANGED fields
           \/ /\ call[r].op \in {"delete", "pin", "unpin"}
              /\ Goto(r, "write") /\ UNCHANGED <<reply, fields>>
  /\ UNCHANGED <<row, indexed, events, call, ghosts, faults>>

-----------------------------------------------------------------------------
(* The statements that write, each with the WHERE clause it has. *)

\* An UPDATE that asks for nothing but the id.
UpdateRowBug(r) ==
  /\ call[r].op = "update"
  /\ row' = [row EXCEPT !.title = fields[r].title, !.text = fields[r].text]

\* The fields that were read and merged, unless the content is deleted.
UpdateRow(r) ==
  /\ call[r].op = "update" /\ row.status # "deleted"
  /\ row' = [row EXCEPT !.title = fields[r].title, !.text = fields[r].text]

\* Publish as Update does: anything but a deleted one.
PublishRowBug(r) ==
  /\ call[r].op = "publish" /\ row.status # "deleted"
  /\ row' = [row EXCEPT !.status = "published"]

\* Publish: only a draft.
PublishRow(r) ==
  /\ call[r].op = "publish" /\ row.status = "draft"
  /\ row' = [row EXCEPT !.status = "published"]

\* The wrong status.
DeleteRowBug(r) ==
  /\ call[r].op = "delete"
  /\ row' = [row EXCEPT !.status = "archived"]

\* Delete, and SetPinned: any row, a deleted one too.
DeleteRow(r) ==
  /\ call[r].op = "delete"
  /\ row' = [row EXCEPT !.status = "deleted"]

SetPinned(r) ==
  /\ call[r].op \in {"pin", "unpin"}
  /\ row' = [row EXCEPT !.pinned = (call[r].op = "pin")]

WriteRow(r) == UpdateRow(r) \/ PublishRow(r) \/ DeleteRow(r) \/ SetPinned(r)

\* An UPDATE that matches no row is an error.
Write(r) ==
  /\ pc[r] = "write"
  /\ \/ /\ WriteRow(r)
        /\ \/ call[r].op \in {"update", "publish"} /\ Goto(r, "reread") /\ UNCHANGED reply
           \/ call[r].op = "delete" /\ Goto(r, "tell") /\ UNCHANGED reply
           \/ call[r].op \in {"pin", "unpin"} /\ Finish(r, "ok")
     \/ /\ \/ call[r].op = "update" /\ row.status = "deleted"
           \/ call[r].op = "publish" /\ row.status # "draft"
        /\ Finish(r, "not_found")
        /\ UNCHANGED row
  /\ UNCHANGED <<indexed, events, call, fields, ghosts, faults>>

-----------------------------------------------------------------------------
(* The events. *)

\* An update tells what it was given, and not what became of it.
EventBug(r, type, f) ==
  LET g == IF type = "updated" THEN call[r] ELSE f
  IN  [by |-> r, type |-> type, title |-> g.title, text |-> g.text]

Event(r, type, f) == [by |-> r, type |-> type, title |-> f.title, text |-> f.text]

\* GetByID once more, then PublishContentCreated with what Create was given or
\* PublishDraft has read, or PublishContentUpdated, if the content is published.
Reread(r) ==
  /\ pc[r] = "reread"
  /\ \/ ~There /\ Finish(r, "not_found") /\ UNCHANGED <<events, announced>>
     \/ /\ There
        /\ \/ /\ call[r].op = "create" /\ ~call[r].draft
              /\ events' = events \cup {Event(r, "created", call[r])}
              /\ announced' = announced \cup {r}
           \/ /\ call[r].op = "publish"
              /\ events' = events \cup {Event(r, "created", row)}
              /\ announced' = announced \cup {r}
           \/ /\ call[r].op = "update" /\ row.status = "published"
              /\ events' = events \cup {Event(r, "updated", row)}
              /\ UNCHANGED announced
           \/ /\ \/ call[r].op = "create" /\ call[r].draft
                 \/ call[r].op = "update" /\ row.status = "draft"
              /\ UNCHANGED <<events, announced>>
        /\ Finish(r, "ok")
  /\ UNCHANGED <<row, indexed, call, fields, crossed, raced, faults>>

\* PublishContentDeleted, which carries the id alone.
TellDeleted(r) ==
  /\ pc[r] = "tell"
  /\ events' = events \cup {Event(r, "deleted", [title |-> Empty, text |-> Empty])}
  /\ Finish(r, "ok")
  /\ UNCHANGED <<row, indexed, call, fields, ghosts, faults>>

\* The handler of a queue of the search worker: IndexContent sets the vector of
\* the row, whatever its status; DeleteContentIndex has nothing to delete.
Index(e) ==
  /\ indexed' = IF e.type = "deleted" THEN indexed ELSE [title |-> e.title, text |-> e.text]
  /\ UNCHANGED <<row, reqVars, ghosts>>

Consume(e) ==
  /\ Index(e)
  /\ events' = events \ {e}
  /\ UNCHANGED faults

-----------------------------------------------------------------------------
(* Failures. *)

\* An event is not published; or its message comes once more; or the UPDATE of
\* IndexContent fails, which is no error as long as there is a row.
EventFault(e) ==
  /\ faults < MaxFaults
  /\ faults' = faults + 1
  /\ \/ events' = events \ {e} /\ UNCHANGED <<row, indexed, reqVars, ghosts>>
     \/ Index(e) /\ UNCHANGED events

\* A statement fails, with or without effect, or the process stops.
HandlerFails(r) ==
  /\ Active(r) /\ faults < MaxFaults
  /\ faults' = faults + 1
  /\ \/ pc[r] = "insert" /\ InsertRow(r)
     \/ pc[r] = "write" /\ WriteRow(r)
     \/ UNCHANGED row
  /\ \/ Finish(r, "error")
     \/ Goto(r, "done") /\ UNCHANGED reply
  /\ UNCHANGED <<indexed, events, call, fields, ghosts>>

HandlerStep(r) == Insert(r) \/ Read(r) \/ Write(r) \/ Reread(r) \/ TellDeleted(r)

Next ==
  \/ \E r \in Requests : \/ \E a \in Calls : Begin(r, a)
                         \/ HandlerStep(r)
                         \/ HandlerFails(r)
  \/ \E e \in events : Consume(e) \/ EventFault(e)

Spec == Init /\ [][Next]_vars

-----------------------------------------------------------------------------
(* Properties. *)

TypeOK ==
  /\ row \in Rows
  /\ indexed \in Fields \cup {Nothing}
  /\ \A e \in events : /\ e.by \in Requests
                       /\ e.type \in {"created", "updated", "deleted"}
                       /\ [title |-> e.title, text |-> e.text] \in Fields
  /\ pc \in [Requests -> {"idle", "insert", "read", "write", "reread", "tell", "done"}]
  /\ call \in [Requests -> Calls \cup {NoCall}]
  /\ reply \in [Requests -> {"none", "ok", "error", "invalid", "no_drafts", "not_found",
                             "unauthorized"}]
  /\ fields \in [Requests -> Fields]
  /\ announced \subseteq Requests
  /\ crossed \in BOOLEAN /\ raced \in BOOLEAN
  /\ faults \in 0 .. MaxFaults

\* content_service_property_test.go:217: an article that is not a draft has a
\* title and a text, whatever is read, merged and published at once, as long as
\* no two updates overlap.  Two can: one that read the draft without a title
\* writes the empty one back after the other has set it and a third request has
\* published the article.
PublishedComplete ==
  row.status = "published" /\ ~crossed => Valid(row.kind, row, FALSE)

\* Nothing a request read before brings a deleted content back, or edits it.
DeletedIsFinal ==
  [][row.status = "deleted" => row' = [row EXCEPT !.pinned = row'.pinned]]_row

\* The calls that tell the followers of a new content.
Announces(a) == a.op = "publish" \/ (a.op = "create" /\ ~a.draft)

Life == INSTANCE ContentLife WITH
  status <- row.status,
  word   <- IF \E r \in Requests : pc[r] = "reread" /\ Announces(call[r]) THEN "owed"
            ELSE IF announced # {} THEN "told" ELSE "none",
  found  <- indexed # Nothing

\* The statements of all requests and the events together make one life of the
\* content as ContentLife tells it: it is announced once, by the request that
\* made it public and has then found it so, or not at all.
LifeInOrder == Life!Spec

\* Once its events have arrived, a published content is found by the words it
\* has, if requests came one after the other and nothing failed.
IndexExactWhenAlone ==
  row.status = "published" /\ events = {} /\ ~raced /\ faults = 0
    /\ (\A r \in Requests : ~Active(r))
    => indexed = [title |-> row.title, text |-> row.text]
=============================================================================
