---------------------------- MODULE ContentLife ----------------------------
(***************************************************************************)
(* What a content goes through, whatever requests overlap or fail. A draft *)
(* may be published and what exists may be deleted, never the other way.   *)
(* Who makes it public owes one word about it, which is said once it is    *)
(* found public, or never; and what was never public is not found.         *)
(***************************************************************************)
VARIABLES
  status,   \* "none", "draft", "published" or "deleted"
  word,     \* the announcement: "none", "owed" or "told"
  found     \* the index knows the content

vars == <<status, word, found>>

Init ==
  /\ status \in {"none", "draft", "published", "deleted"}
  /\ word = "none"
  /\ found = (status = "published")

Draft ==
  /\ status = "none" /\ status' = "draft"
  /\ UNCHANGED <<word, found>>

\* Whoever publishes may be cut short before it can tell.
Publish ==
  /\ status \in {"none", "draft"} /\ status' = "published"
  /\ word' \in {"none", "owed"}
  /\ UNCHANGED found

Delete ==
  /\ status # "none" /\ status' = "deleted"
  /\ UNCHANGED <<word, found>>

Tell ==
  /\ status = "published" /\ word = "owed" /\ word' = "told"
  /\ UNCHANGED <<status, found>>

GiveUp ==
  /\ word = "owed" /\ word' = "none"
  /\ UNCHANGED <<status, found>>

Find ==
  /\ status \in {"published", "deleted"} /\ found' = TRUE
  /\ UNCHANGED <<status, word>>

Next == Draft \/ Publish \/ Delete \/ Tell \/ GiveUp \/ Find

Spec == Init /\ [][Next]_vars
=============================================================================
