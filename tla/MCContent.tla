----------------------------- MODULE MCContent -----------------------------
(* A content that is not there yet, an article without a title still in     *)
(* draft, or a story.                                                       *)
EXTENDS Content, TLC

CONSTANTS r1, r2, r3, r4

MCUsers == {"author", "guest"}
MCFourRequests == {r1, r2, r3, r4}

Row(s, k, t, x) == [status |-> s, kind |-> k, title |-> t, text |-> x, pinned |-> FALSE]
MCOldRows == {Row("none", "short", "", ""), Row("draft", "article", "", "x"),
              Row("published", "story", "", "x")}

New(k, d, t, x) ==
  [op |-> "create", user |-> "author", kind |-> k, draft |-> d, title |-> t, text |-> x]
Edit(u, t, x) == [op |-> "update", user |-> u, title |-> t, text |-> x]

MCCalls ==
  {New("short", FALSE, "", "x"), New("short", TRUE, "", "x"), New("article", TRUE, "t", ""),
   New("article", FALSE, "t", "")}
    \cup {Edit("author", "t", ""), Edit("author", "", "y"), Edit("guest", "t", "y")}
    \cup [op : {"publish", "delete", "pin", "unpin"}, user : {"author"}]

RequestSymmetry == Permutations(MCFourRequests)
=============================================================================
