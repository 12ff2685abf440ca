--------------------------- MODULE AccessProofs ---------------------------
(***************************************************************************)
(* For any set of requests, any number of keys and any failures: type      *)
(* correctness of Access, and that failed logins fade, that bans stand and *)
(* take hold, and that current tokens are accepted.                        *)
(***************************************************************************)
EXTENDS Access, FiniteSetTheorems, TLAPS

Pcs == {"idle", "locked", "cached", "select", "clean", "fill", "password", "window", "lift",
        "insert", "uncache", "verify", "fetch", "store", "reverify", "done"}
Answers == {"none", "ok", "error", "locked", "banned", "wrong", "no_key", "rejected"}
Ops == {"login", "refresh", "ban", "superban", "superunban", "pull", "validate"}

-----------------------------------------------------------------------------
(* Lemmas on the calls, the bans and how a request moves. *)

\* What the arguments of a call are.
LEMMA CallType ==
  ASSUME NEW a \in Calls
  PROVE  /\ a.op \in Ops
         /\ a.op = "login" => a.right \in BOOLEAN
         /\ a.op = "validate" => a.key \in Keys
<1>1. /\ a.op \in Ops
      /\ a \in [op : {"login"}, right : BOOLEAN] \/ a.op # "login"
      /\ a.op = "validate" => a.key \in Keys
  BY AccessAssumption DEF Ops
<1>. QED  BY <1>1

\* The RPC whose step each pc is.
CallAt(a, label) ==
  /\ label \in {"locked", "password", "window"} => a.op = "login"
  /\ label \in {"cached", "select", "clean", "fill"} => a.op \in {"login", "refresh"}
  /\ label = "lift" => a.op \in {"ban", "superban", "superunban"}
  /\ label = "insert" => a.op \in {"ban", "superban"}
  /\ label = "uncache" => a.op = "ban"
  /\ label \in {"verify", "reverify"} => a.op = "validate"
  /\ label \in {"fetch", "store"} => a.op \in {"pull", "validate"}

CallFits ==
  \A r \in Requests : pc[r] # "idle" => call[r] \in Calls /\ CallAt(call[r], pc[r])

\* At most one ban is active: the index of active bans is unique by user.
OneStanding == \A b, c \in Standing : b = c

\* Nobody is answered before his request ends.
NoAnswerYet == \A r \in Requests : pc[r] # "done" => reply[r] = "none"

Typed == TypeOK /\ CallFits /\ OneStanding /\ NoAnswerYet

\* A request that moves to a step of its RPC and one that ends.
LEMMA Moved ==
  ASSUME Typed, NEW r \in Requests, NEW label \in Pcs, pc[r] # "idle", call' = call,
         Goto(r, label), CallAt(call[r], label)
  PROVE  /\ pc' \in [Requests -> Pcs] /\ CallFits' /\ call' \in [Requests -> Calls \cup {NoCall}]
         /\ pc'[r] = label /\ \A q \in Requests \ {r} : pc'[q] = pc[q]
BY DEF Typed, TypeOK, CallFits, Goto, Pcs

LEMMA Answered ==
  ASSUME Typed, NEW r \in Requests, NEW answer \in Answers,
         pc[r] # "idle", call' = call, Answer(r, answer)
  PROVE  /\ pc' \in [Requests -> Pcs] /\ CallFits' /\ call' \in [Requests -> Calls \cup {NoCall}]
         /\ reply' \in [Requests -> Answers] /\ got' \in [Requests -> 0 .. MaxKeys]
         /\ pc'[r] = "done" /\ reply'[r] = answer
         /\ \A q \in Requests \ {r} : pc'[q] = pc[q] /\ reply'[q] = reply[q] /\ got'[q] = got[q]
<1>1. /\ Goto(r, "done") /\ "done" \in Pcs /\ CallAt(call[r], "done")
      /\ reply' = [reply EXCEPT ![r] = answer] /\ got' = [got EXCEPT ![r] = 0]
  BY DEF Answer, CallAt, Pcs
<1>2. /\ pc' \in [Requests -> Pcs] /\ CallFits' /\ call' \in [Requests -> Calls \cup {NoCall}]
      /\ pc'[r] = "done" /\ \A q \in Requests \ {r} : pc'[q] = pc[q]
  BY <1>1, Moved
<1>3. /\ reply \in [Requests -> Answers] /\ got \in [Requests -> 0 .. MaxKeys]
      /\ 0 \in 0 .. MaxKeys
  BY AccessAssumption DEF Typed, TypeOK, Answers
<1>. QED  BY <1>1, <1>2, <1>3

\* No ban is active once the active ones have been lifted; none other changes.
LEMMA LiftedEffect ==
  ASSUME Typed
  PROVE  /\ Lifted \in [Bans -> {"none", "active", "inactive"}]
         /\ \A b \in Bans : Lifted[b] # "active"
BY DEF Typed, TypeOK, Lifted

LEMMA AtMostOne ==
  ASSUME NEW S, \A b, c \in S : b = c
  PROVE  Cardinality(S) <= 1
<1>1. CASE S = {}
  BY <1>1, FS_EmptySet
<1>2. ASSUME NEW b \in S
      PROVE  Cardinality(S) <= 1
  <2>1. S = {b}
    BY <1>2
  <2>. QED  BY <2>1, FS_Singleton
<1>. QED  BY <1>1, <1>2

\* The bans stay within their type and at most one is active, whatever a
\* request does to them.
BansMove(r) ==
  \/ bans' = bans
  \/ bans' = Lifted
  \/ Standing = {} /\ bans' = [bans EXCEPT ![r] = "active"]

LEMMA BansType ==
  ASSUME Typed, NEW r \in Requests, BansMove(r)
  PROVE  /\ bans' \in [Bans -> {"none", "active", "inactive"}] /\ OneStanding'
         /\ Cardinality(Standing') <= 1
<1>1. bans \in [Bans -> {"none", "active", "inactive"}] /\ r \in Bans
  BY DEF Typed, TypeOK, Bans
<1>2. bans' \in [Bans -> {"none", "active", "inactive"}]
  BY <1>1, LiftedEffect DEF BansMove
<1>3. \A b, c \in Standing' : b = c
  <2>1. CASE bans' = bans
    BY <2>1 DEF Standing, Typed, OneStanding
  <2>2. CASE bans' = Lifted
    BY <2>2, LiftedEffect DEF Standing
  <2>3. CASE Standing = {} /\ bans' = [bans EXCEPT ![r] = "active"]
    BY <1>1, <2>3 DEF Standing
  <2>. QED  BY <2>1, <2>2, <2>3 DEF BansMove
<1>4. Cardinality(Standing') <= 1
  BY <1>3, AtMostOne
<1>. QED  BY <1>2, <1>3, <1>4 DEF OneStanding

\* What every step of a request keeps.
Sound(r) ==
  /\ Active(r) /\ UNCHANGED <<call, over, barred, key, current>>
  /\ \A q \in Requests \ {r} : pc'[q] = pc[q] /\ reply'[q] = reply[q] /\ got'[q] = got[q]
  /\ pc' \in [Requests -> Pcs] /\ CallFits' /\ pc'[r] # "idle"
  /\ pc'[r] # "done" => reply'[r] = reply[r]
  /\ reply' \in [Requests -> Answers] /\ got' \in [Requests -> 0 .. MaxKeys]
  /\ BansMove(r) /\ banCache' \in {"absent", "banned", "free"}
  /\ failures' \in Nat /\ fading' \in BOOLEAN /\ (fading' => failures' > 0)
  /\ gatewayKey' \in 0 .. MaxKeys
  /\ unclean' \in {unclean, unclean \cup {r}}
  /\ stale' \in BOOLEAN
  /\ faults' \in 0 .. MaxFaults

LEMMA SoundType ==
  ASSUME Typed, NEW r \in Requests, Sound(r)
  PROVE  Typed'
<1>1. /\ bans' \in [Bans -> {"none", "active", "inactive"}] /\ OneStanding'
      /\ Cardinality(Standing') <= 1
  BY BansType DEF Sound
<1>2. TypeOK'
  BY <1>1 DEF Sound, Typed, TypeOK, Pcs, Answers
<1>3. NoAnswerYet'
  BY DEF Sound, Typed, NoAnswerYet, Active
<1>. QED  BY <1>1, <1>2, <1>3 DEF Sound, Typed

\* The variables as they are, for steps that leave most of them alone.
LEMMA Now ==
  ASSUME Typed
  PROVE  /\ bans \in [Bans -> {"none", "active", "inactive"}]
         /\ banCache \in {"absent", "banned", "free"}
         /\ failures \in Nat /\ fading \in BOOLEAN /\ (fading => failures > 0)
         /\ key \in 0 .. MaxKeys /\ gatewayKey \in 0 .. MaxKeys
         /\ pc \in [Requests -> Pcs] /\ call \in [Requests -> Calls \cup {NoCall}]
         /\ reply \in [Requests -> Answers] /\ got \in [Requests -> 0 .. MaxKeys]
         /\ stale \in BOOLEAN /\ faults \in 0 .. MaxFaults
         /\ \A r \in Requests : pc[r] # "idle" =>
              /\ call[r] \in Calls /\ CallAt(call[r], pc[r])
              /\ call[r].op \in Ops
BY CallType, AccessAssumption DEF Typed, TypeOK, CallFits, Pcs, Answers, Keys

\* A step that moves a request on, or ends it.
LEMMA GotoSound ==
  ASSUME Typed, NEW r \in Requests, NEW label \in Pcs \ {"idle"}, Goto(r, label),
         Active(r), CallAt(call[r], label),
         UNCHANGED <<call, over, barred, key, current, reply>>,
         got' \in [Requests -> 0 .. MaxKeys], \A q \in Requests \ {r} : got'[q] = got[q],
         BansMove(r), banCache' \in {"absent", "banned", "free"},
         failures' \in Nat, fading' \in BOOLEAN, fading' => failures' > 0,
         gatewayKey' \in 0 .. MaxKeys, unclean' \in {unclean, unclean \cup {r}},
         stale' = stale, faults' \in 0 .. MaxFaults
  PROVE  Sound(r)
<1>1. pc[r] # "idle"
  BY DEF Active
<1>. QED  BY <1>1, Moved, Now DEF Sound

LEMMA AnswerSound ==
  ASSUME Typed, NEW r \in Requests, NEW answer \in Answers, Answer(r, answer), Active(r),
         UNCHANGED <<call, over, barred, key, current>>,
         BansMove(r), banCache' \in {"absent", "banned", "free"},
         failures' \in Nat, fading' \in BOOLEAN, fading' => failures' > 0,
         gatewayKey' \in 0 .. MaxKeys, unclean' \in {unclean, unclean \cup {r}},
         stale' \in BOOLEAN, faults' \in 0 .. MaxFaults
  PROVE  Sound(r)
<1>1. pc[r] # "idle"
  BY DEF Active
<1>2. call' = call
  OBVIOUS
<1>3. /\ pc' \in [Requests -> Pcs] /\ CallFits'
      /\ reply' \in [Requests -> Answers] /\ got' \in [Requests -> 0 .. MaxKeys]
      /\ pc'[r] = "done"
      /\ \A q \in Requests \ {r} : pc'[q] = pc[q] /\ reply'[q] = reply[q] /\ got'[q] = got[q]
  BY <1>1, <1>2, Answered
<1>. QED  BY <1>1, <1>3 DEF Sound

LEMMA EndSound ==
  ASSUME Typed, NEW r \in Requests, NEW answer \in Answers, NEW clean \in BOOLEAN,
         End(r, answer, clean), Active(r),
         UNCHANGED <<call, over, barred, key, current>>,
         BansMove(r), banCache' \in {"absent", "banned", "free"},
         failures' \in Nat, fading' \in BOOLEAN, fading' => failures' > 0,
         gatewayKey' \in 0 .. MaxKeys, unclean' \in {unclean, unclean \cup {r}},
         faults' \in 0 .. MaxFaults
  PROVE  Sound(r)
<1>1. Answer(r, answer) /\ stale' = (stale \/ (OnBan(call[r]) /\ ~clean))
  BY DEF End
<1>2. stale' \in BOOLEAN
  BY <1>1, Zenon
<1>. QED  BY <1>1, <1>2, AnswerSound

\* What is common to the cases below: nothing but pc and the request's own
\* fields moves.
Rest(r) ==
  /\ UNCHANGED <<bans, over, banCache, barred, attempts, keyVars, call, unclean, faults>>

LEMMA RestGoto ==
  ASSUME Typed, NEW r \in Requests, NEW label \in Pcs \ {"idle"}, Goto(r, label), Active(r),
         CallAt(call[r], label), Rest(r), UNCHANGED <<reply, stale>>,
         got' \in [Requests -> 0 .. MaxKeys], \A q \in Requests \ {r} : got'[q] = got[q]
  PROVE  Sound(r)
<1>1. BansMove(r)
  BY DEF Rest, BansMove
<1>. QED  BY <1>1, Now, GotoSound DEF Rest, attempts, keyVars

LEMMA RestEnd ==
  ASSUME Typed, NEW r \in Requests, NEW answer \in Answers, Finish(r, answer), Active(r), Rest(r)
  PROVE  Sound(r)
<1>1. BansMove(r) /\ (r \notin unclean) \in BOOLEAN /\ End(r, answer, r \notin unclean)
  BY DEF Rest, BansMove, Finish
<1>. QED  BY <1>1, Now, EndSound DEF Rest, attempts, keyVars

LEMMA AfterCheckSound ==
  ASSUME Typed, NEW r \in Requests, AfterCheck(r), Active(r), pc[r] \in {"cached", "fill"},
         UNCHANGED <<bans, over, barred, attempts, keyVars, call, unclean, faults>>,
         banCache' \in {"absent", "banned", "free"}
  PROVE  Sound(r)
<1>1. BansMove(r) /\ CallAt(call[r], pc[r])
  BY Now DEF BansMove, Active
<1>2. CASE call[r].op = "login"
  <2>1. Goto(r, "password") /\ UNCHANGED <<reply, got, stale>>
    BY <1>2 DEF AfterCheck
  <2>2. CallAt(call[r], "password") /\ "password" \in Pcs
    BY <1>2 DEF CallAt, Pcs
  <2>. QED  BY <1>1, <2>1, <2>2, Now, GotoSound DEF attempts, keyVars
<1>3. CASE call[r].op # "login"
  <2>1. End(r, "ok", r \notin unclean) /\ (r \notin unclean) \in BOOLEAN /\ "ok" \in Answers
    BY <1>3 DEF AfterCheck, Finish, Answers
  <2>. QED  BY <1>1, <2>1, Now, EndSound DEF attempts, keyVars
<1>. QED  BY <1>2, <1>3

\* A request of the superuser service that is through with the table.
LEMMA UncachedSound ==
  ASSUME Typed, NEW r \in Requests, EndUncached(r), Active(r), BansMove(r),
         UNCHANGED <<over, banCache, barred, attempts, keyVars, call, unclean, faults>>
  PROVE  Sound(r)
<1>. DEFINE Clean == /\ r \notin unclean
                     /\ banCache # IF call[r].op = "superban" THEN "free" ELSE "banned"
<1>1. End(r, "ok", Clean) /\ Clean \in BOOLEAN /\ "ok" \in Answers
  BY DEF EndUncached, Answers
<1>. HIDE DEF Clean
<1>. QED  BY <1>1, Now, EndSound DEF attempts, keyVars

LEMMA StepSound ==
  ASSUME Typed, NEW r \in Requests, HandlerStep(r)
  PROVE  Sound(r)
<1>0. pc[r] # "idle" => CallAt(call[r], pc[r])
  BY Now
<1>00. 0 \in 0 .. MaxKeys /\ 1 \in 0 .. MaxKeys
  BY AccessAssumption
<1>1. CASE CheckLocked(r)
  <2>1. /\ pc[r] = "locked" /\ Active(r) /\ Rest(r)
        /\ Finish(r, "locked") \/ (Goto(r, "cached") /\ UNCHANGED <<reply, got, stale>>)
    BY <1>1 DEF CheckLocked, Rest, Active
  <2>2. CallAt(call[r], "cached") /\ "cached" \in Pcs /\ "locked" \in Answers
    BY <1>0, <2>1 DEF CallAt, Pcs, Answers
  <2>. QED  BY <2>1, <2>2, RestGoto, RestEnd, Now
<1>2. CASE GetBanCache(r)
  <2>1. /\ pc[r] = "cached" /\ Active(r) /\ Rest(r)
        /\ \/ Finish(r, "banned") \/ AfterCheck(r)
           \/ Goto(r, "select") /\ UNCHANGED <<reply, got, stale>>
    BY <1>2 DEF GetBanCache, Rest, Active
  <2>2. CallAt(call[r], "select") /\ "select" \in Pcs /\ "banned" \in Answers
    BY <1>0, <2>1 DEF CallAt, Pcs, Answers
  <2>3. CASE AfterCheck(r)
    BY <2>1, <2>3, AfterCheckSound, Now DEF Rest
  <2>. QED  BY <2>1, <2>2, <2>3, RestGoto, RestEnd, Now
<1>3. CASE SelectBan(r)
  <2>1. /\ pc[r] = "select" /\ Active(r) /\ Rest(r) /\ UNCHANGED <<reply, stale>>
        /\ Goto(r, "fill") \/ Goto(r, "clean")
        /\ got' = [got EXCEPT ![r] = 0] \/ got' = [got EXCEPT ![r] = 1]
    BY <1>3 DEF SelectBan, Rest, Active, banVars
  <2>2. /\ CallAt(call[r], "fill") /\ CallAt(call[r], "clean")
        /\ "fill" \in Pcs /\ "clean" \in Pcs
    BY <1>0, <2>1 DEF CallAt, Pcs
  <2>3. got' \in [Requests -> 0 .. MaxKeys] /\ \A q \in Requests \ {r} : got'[q] = got[q]
    BY <1>00, <2>1, Now
  <2>. QED  BY <2>1, <2>2, <2>3, RestGoto
<1>4. CASE CleanBan(r)
  <2>1. /\ pc[r] = "clean" /\ Active(r) /\ Goto(r, "fill") /\ BansMove(r)
        /\ UNCHANGED <<over, banCache, stale, barred, attempts, keyVars, call, reply, got,
                       unclean, faults>>
    BY <1>4 DEF CleanBan, Active, BansMove
  <2>2. CallAt(call[r], "fill") /\ "fill" \in Pcs
    BY <1>0, <2>1 DEF CallAt, Pcs
  <2>. QED  BY <2>1, <2>2, Now, GotoSound DEF attempts, keyVars
<1>5. CASE FillBanCache(r)
  <2>1. /\ pc[r] = "fill" /\ Active(r) /\ Verdict(r) /\ BansMove(r)
        /\ banCache' \in {"absent", "banned", "free"}
        /\ UNCHANGED <<bans, over, barred, attempts, keyVars, call, unclean, faults>>
    BY <1>5 DEF FillBanCache, Active, BansMove
  <2>2. CASE AfterCheck(r)
    BY <2>1, <2>2, AfterCheckSound
  <2>3. CASE Finish(r, "banned")
    <3>1. End(r, "banned", r \notin unclean) /\ (r \notin unclean) \in BOOLEAN
          /\ "banned" \in Answers
      BY <2>3 DEF Finish, Answers
    <3>. QED  BY <2>1, <3>1, Now, EndSound DEF attempts, keyVars
  <2>. QED  BY <2>1, <2>2, <2>3 DEF Verdict
<1>6. CASE ClearFailures(r)
  <2>1. /\ pc[r] = "password" /\ Active(r) /\ End(r, "ok", r \notin unclean) /\ BansMove(r)
        /\ (r \notin unclean) \in BOOLEAN /\ "ok" \in Answers
        /\ failures' = 0 /\ fading' = FALSE
        /\ UNCHANGED <<over, banCache, barred, keyVars, call, unclean, faults>>
    BY <1>6 DEF ClearFailures, Finish, Active, BansMove, Answers
  <2>. QED  BY <2>1, Now, EndSound DEF keyVars
<1>7. CASE IncrementFailure(r)
  <2>1. /\ pc[r] = "password" /\ Active(r) /\ BansMove(r)
        /\ failures' = failures + 1 /\ UNCHANGED fading
        /\ \/ Goto(r, "window") /\ UNCHANGED <<reply, got, stale>>
           \/ End(r, "wrong", r \notin unclean)
        /\ (r \notin unclean) \in BOOLEAN /\ "wrong" \in Answers
        /\ UNCHANGED <<over, banCache, barred, keyVars, call, unclean, faults>>
    BY <1>7 DEF IncrementFailure, Finish, Active, BansMove, Answers
  <2>2. CallAt(call[r], "window") /\ "window" \in Pcs
    BY <1>0, <2>1 DEF CallAt, Pcs
  <2>3. failures' \in Nat /\ fading' \in BOOLEAN /\ (fading' => failures' > 0)
    BY <2>1, Now
  <2>4. CASE Goto(r, "window") /\ UNCHANGED <<reply, got, stale>>
    BY <2>1, <2>2, <2>3, <2>4, Now, GotoSound DEF keyVars
  <2>5. CASE End(r, "wrong", r \notin unclean)
    BY <2>1, <2>3, <2>5, Now, EndSound DEF keyVars
  <2>. QED  BY <2>1, <2>4, <2>5
<1>8. CASE SetWindow(r)
  <2>1. /\ pc[r] = "window" /\ Active(r) /\ End(r, "wrong", r \notin unclean) /\ BansMove(r)
        /\ (r \notin unclean) \in BOOLEAN /\ "wrong" \in Answers
        /\ UNCHANGED <<over, banCache, barred, failures, keyVars, call, unclean, faults>>
    BY <1>8 DEF SetWindow, Finish, Active, BansMove, Answers
  <2>2. fading' \in BOOLEAN
    <3>1. fading' = TRUE \/ fading' = FALSE
      BY <1>8 DEF SetWindow
    <3>. QED  BY <3>1
  <2>3. fading' => failures' > 0
    BY <1>8 DEF SetWindow
  <2>. QED  BY <2>1, <2>2, <2>3, Now, EndSound DEF keyVars
<1>9. CASE LiftBan(r)
  <2>1. /\ pc[r] = "lift" /\ Active(r) /\ BansMove(r)
        /\ \/ call[r].op = "superunban" /\ EndUncached(r)
           \/ call[r].op # "superunban" /\ Goto(r, "insert") /\ UNCHANGED <<reply, got, stale>>
        /\ UNCHANGED <<over, banCache, barred, attempts, keyVars, call, unclean, faults>>
    BY <1>9 DEF LiftBan, Active, BansMove
  <2>2. CASE EndUncached(r)
    BY <2>1, <2>2, UncachedSound
  <2>3. CASE call[r].op # "superunban" /\ Goto(r, "insert") /\ UNCHANGED <<reply, got, stale>>
    <3>1. CallAt(call[r], "insert") /\ "insert" \in Pcs
      BY <1>0, <2>1, <2>3 DEF CallAt, Pcs
    <3>. QED  BY <2>1, <2>3, <3>1, Now, GotoSound DEF attempts, keyVars
  <2>. QED  BY <2>1, <2>2, <2>3
<1>10. CASE InsertBan(r)
  <2>1. /\ pc[r] = "insert" /\ Active(r) /\ BansMove(r)
        /\ \/ call[r].op = "ban" /\ Goto(r, "uncache") /\ UNCHANGED <<reply, got, stale>>
           \/ EndUncached(r)
           \/ End(r, "error", r \notin unclean)
        /\ (r \notin unclean) \in BOOLEAN /\ "error" \in Answers
        /\ UNCHANGED <<over, banCache, barred, attempts, keyVars, call, unclean, faults>>
    BY <1>10 DEF InsertBan, Finish, Active, BansMove, Answers
  <2>2. CASE call[r].op = "ban" /\ Goto(r, "uncache") /\ UNCHANGED <<reply, got, stale>>
    <3>1. CallAt(call[r], "uncache") /\ "uncache" \in Pcs
      BY <2>2 DEF CallAt, Pcs
    <3>. QED  BY <2>1, <2>2, <3>1, Now, GotoSound DEF attempts, keyVars
  <2>3. CASE EndUncached(r)
    BY <2>1, <2>3, UncachedSound
  <2>4. CASE End(r, "error", r \notin unclean)
    BY <2>1, <2>4, Now, EndSound DEF attempts, keyVars
  <2>. QED  BY <2>1, <2>2, <2>3, <2>4
<1>11. CASE DeleteBanCache(r)
  <2>1. /\ pc[r] = "uncache" /\ Active(r) /\ BansMove(r) /\ Answer(r, "ok")
        /\ stale' = (r \in unclean) /\ "ok" \in Answers /\ banCache' = "absent"
        /\ UNCHANGED <<over, barred, attempts, keyVars, call, unclean, faults>>
    BY <1>11 DEF DeleteBanCache, Active, BansMove, Answers
  <2>2. stale' \in BOOLEAN
    BY <2>1
  <2>. QED  BY <2>1, <2>2, Now, AnswerSound DEF attempts, keyVars
<1>12. CASE Verify(r)
  <2>1. /\ pc[r] = "verify" /\ Active(r) /\ Rest(r)
        /\ \/ Finish(r, "no_key") \/ Finish(r, "ok")
           \/ Goto(r, "fetch") /\ UNCHANGED <<reply, got, stale>>
    BY <1>12 DEF Verify, Rest, Active
  <2>2. /\ CallAt(call[r], "fetch") /\ "fetch" \in Pcs
        /\ "no_key" \in Answers /\ "ok" \in Answers
    BY <1>0, <2>1 DEF CallAt, Pcs, Answers
  <2>. QED  BY <2>1, <2>2, RestGoto, RestEnd, Now
<1>13. CASE FetchKey(r)
  <2>1. /\ pc[r] = "fetch" /\ Active(r) /\ Rest(r) /\ UNCHANGED <<reply, stale>>
        /\ Goto(r, "store") /\ got' = [got EXCEPT ![r] = key]
    BY <1>13 DEF FetchKey, Rest, Active, banVars
  <2>2. CallAt(call[r], "store") /\ "store" \in Pcs
    BY <1>0, <2>1 DEF CallAt, Pcs
  <2>3. got' \in [Requests -> 0 .. MaxKeys] /\ \A q \in Requests \ {r} : got'[q] = got[q]
    BY <2>1, Now
  <2>. QED  BY <2>1, <2>2, <2>3, RestGoto
<1>14. CASE StoreKey(r)
  <2>1. /\ pc[r] = "store" /\ Active(r) /\ BansMove(r) /\ gatewayKey' = got[r]
        /\ UNCHANGED <<over, banCache, barred, attempts, key, current, call, unclean, faults>>
        /\ \/ call[r].op = "pull" /\ End(r, "ok", r \notin unclean)
           \/ /\ call[r].op # "pull" /\ Goto(r, "reverify")
              /\ got' = [got EXCEPT ![r] = 0] /\ UNCHANGED <<reply, stale>>
        /\ (r \notin unclean) \in BOOLEAN /\ "ok" \in Answers
    BY <1>14 DEF StoreKey, Finish, Active, BansMove, Answers
  <2>2. gatewayKey' \in 0 .. MaxKeys
    BY <2>1, Now
  <2>3. CASE call[r].op = "pull" /\ End(r, "ok", r \notin unclean)
    BY <2>1, <2>2, <2>3, Now, EndSound DEF attempts
  <2>4. CASE /\ call[r].op # "pull" /\ Goto(r, "reverify")
             /\ got' = [got EXCEPT ![r] = 0] /\ UNCHANGED <<reply, stale>>
    <3>1. CallAt(call[r], "reverify") /\ "reverify" \in Pcs
      BY <1>0, <2>1, <2>4 DEF CallAt, Pcs
    <3>2. got' \in [Requests -> 0 .. MaxKeys] /\ \A q \in Requests \ {r} : got'[q] = got[q]
      BY <1>00, <2>4, Now
    <3>. QED  BY <2>1, <2>2, <2>4, <3>1, <3>2, Now, GotoSound DEF attempts
  <2>. QED  BY <2>1, <2>3, <2>4
<1>15. CASE Reverify(r)
  <2>1. /\ pc[r] = "reverify" /\ Active(r) /\ Rest(r)
        /\ Finish(r, IF gatewayKey = call[r].key THEN "ok" ELSE "rejected")
        /\ "ok" \in Answers /\ "rejected" \in Answers
    BY <1>15 DEF Reverify, Rest, Active, Answers
  <2>. QED  BY <2>1, RestEnd
<1>. QED  BY <1>1, <1>2, <1>3, <1>4, <1>5, <1>6, <1>7, <1>8, <1>9, <1>10, <1>11, <1>12, <1>13,
             <1>14, <1>15 DEF HandlerStep

LEMMA FaultSound ==
  ASSUME Typed, NEW r \in Requests, HandlerFault(r)
  PROVE  Sound(r) /\ faults' = faults + 1
<1>0. pc[r] # "idle" => CallAt(call[r], pc[r])
  BY Now
<1>00. faults < MaxFaults /\ faults' = faults + 1 => faults' \in 0 .. MaxFaults
  BY Now, AccessAssumption
<1>1. CASE RequestFails(r)
  <2>1. /\ Active(r) /\ BansMove(r) /\ End(r, "error", FALSE)
        /\ "error" \in Answers /\ FALSE \in BOOLEAN
        /\ faults < MaxFaults /\ faults' = faults + 1 /\ unclean' = unclean \cup {r}
        /\ UNCHANGED <<over, banCache, barred, attempts, keyVars, call>>
    BY <1>1 DEF RequestFails, Active, BansMove, Answers
  <2>. QED  BY <1>00, <2>1, Now, EndSound DEF attempts, keyVars
<1>2. CASE ErrorDropped(r)
  <2>1. /\ BansMove(r) /\ faults < MaxFaults /\ faults' = faults + 1
        /\ unclean' = unclean \cup {r}
        /\ UNCHANGED <<bans, over, banCache, barred, fading, keyVars, call>>
        /\ pc[r] \in Pcs \ {"idle", "done"}
        /\ \/ /\ UNCHANGED <<reply, got, stale, failures>>
              /\ \/ pc[r] = "locked" /\ Goto(r, "cached")
                 \/ pc[r] = "cached" /\ Goto(r, "select")
                 \/ pc[r] = "clean" /\ Goto(r, "fill")
                 \/ pc[r] = "lift" /\ call[r].op # "superunban" /\ Goto(r, "insert")
                 \/ pc[r] = "fill" /\ call[r].op = "login" /\ Goto(r, "password")
           \/ /\ failures' \in {failures, failures + 1}
              /\ \E answer \in {"ok", "banned", "wrong"} : End(r, answer, FALSE)
    BY <1>2 DEF ErrorDropped, BansMove, Pcs
  <2>2. Active(r)
    BY <2>1 DEF Active
  <2>3. ASSUME UNCHANGED <<reply, got, stale, failures>>,
               \/ pc[r] = "locked" /\ Goto(r, "cached")
               \/ pc[r] = "cached" /\ Goto(r, "select")
               \/ pc[r] = "clean" /\ Goto(r, "fill")
               \/ pc[r] = "lift" /\ call[r].op # "superunban" /\ Goto(r, "insert")
               \/ pc[r] = "fill" /\ call[r].op = "login" /\ Goto(r, "password")
        PROVE  Sound(r)
    <3>1. PICK label \in Pcs \ {"idle"} : Goto(r, label) /\ CallAt(call[r], label)
      BY <1>0, <2>3 DEF CallAt, Pcs
    <3>. QED  BY <1>00, <2>1, <2>2, <2>3, <3>1, Now, GotoSound DEF keyVars
  <2>4. ASSUME failures' \in {failures, failures + 1},
               NEW answer \in {"ok", "banned", "wrong"}, End(r, answer, FALSE)
        PROVE  Sound(r)
    <3>1. answer \in Answers /\ FALSE \in BOOLEAN
      BY DEF Answers
    <3>2. failures' \in Nat /\ (fading' => failures' > 0) /\ fading' \in BOOLEAN
      BY <2>1, <2>4, Now
    <3>. QED  BY <1>00, <2>1, <2>2, <2>4, <3>1, <3>2, Now, EndSound DEF keyVars
  <2>. QED  BY <2>1, <2>3, <2>4
<1>3. CASE Crash(r)
  <2>1. /\ Active(r) /\ BansMove(r) /\ End(r, "none", FALSE)
        /\ "none" \in Answers /\ FALSE \in BOOLEAN
        /\ faults < MaxFaults /\ faults' = faults + 1 /\ unclean' = unclean \cup {r}
        /\ UNCHANGED <<bans, over, banCache, barred, attempts, keyVars, call>>
    BY <1>3 DEF Crash, BansMove, Answers
  <2>. QED  BY <1>00, <2>1, Now, EndSound DEF attempts, keyVars
<1>4. faults' = faults + 1
  BY DEF HandlerFault, RequestFails, ErrorDropped, Crash
<1>. QED  BY <1>1, <1>2, <1>3, <1>4 DEF HandlerFault

\* A request begins.
LEMMA BeginStep ==
  ASSUME Typed, NEW r \in Requests, NEW a \in Calls, Begin(r, a)
  PROVE  /\ Typed' /\ CallAt(a, First(a.op)) /\ First(a.op) \in Pcs \ {"idle", "done"}
         /\ pc[r] = "idle" /\ pc'[r] = First(a.op) /\ call'[r] = a
         /\ \A q \in Requests \ {r} : pc'[q] = pc[q] /\ call'[q] = call[q]
         /\ UNCHANGED <<bans, over, banCache, stale, attempts, key, gatewayKey, reply, got,
                        faults>>
<1>1. /\ pc[r] = "idle" /\ pc' = [pc EXCEPT ![r] = First(a.op)]
      /\ call' = [call EXCEPT ![r] = a]
      /\ UNCHANGED <<bans, over, banCache, stale, attempts, key, gatewayKey, reply, got, faults>>
  BY DEF Begin, Goto
<1>2. CallAt(a, First(a.op)) /\ First(a.op) \in Pcs \ {"idle", "done"}
  BY CallType DEF CallAt, First, Ops, Pcs
<1>3. unclean' \subseteq Requests /\ barred' \subseteq Requests /\ current' \subseteq Requests
  BY DEF Begin, Rivals, Typed, TypeOK
<1>4. /\ pc \in [Requests -> Pcs] /\ call \in [Requests -> Calls \cup {NoCall}]
  BY Now
<1>5. /\ pc' \in [Requests -> Pcs] /\ call' \in [Requests -> Calls \cup {NoCall}]
      /\ pc'[r] = First(a.op) /\ call'[r] = a
      /\ \A q \in Requests \ {r} : pc'[q] = pc[q] /\ call'[q] = call[q]
  BY <1>1, <1>2, <1>4
<1>6. CallFits'
  BY <1>2, <1>5 DEF CallFits, Typed
<1>7. Standing' = Standing
  BY <1>1 DEF Standing
<1>8. TypeOK' /\ OneStanding'
  BY <1>1, <1>3, <1>5, <1>7 DEF Typed, TypeOK, OneStanding, Pcs, attempts
<1>9. NoAnswerYet'
  BY <1>1, <1>5 DEF Typed, NoAnswerYet
<1>. QED  BY <1>1, <1>2, <1>5, <1>6, <1>8, <1>9 DEF Typed

\* Time changes no request.
LEMMA TimeStep ==
  ASSUME Typed, Rotate \/ BanCacheExpires \/ FailuresExpire \/ \E b \in Bans : BanEnds(b)
  PROVE  /\ Typed'
         /\ UNCHANGED <<bans, gatewayKey, pc, call, reply, got, unclean, faults>>
<1>1. UNCHANGED <<bans, gatewayKey, pc, call, reply, got, unclean, faults>>
  BY DEF Rotate, BanCacheExpires, FailuresExpire, BanEnds, banVars, keyVars, reqVars
<1>2. Standing' = Standing /\ CallFits' /\ NoAnswerYet'
  BY <1>1 DEF Standing, CallFits, NoAnswerYet, Typed
<1>3. over' \subseteq Bans /\ barred' \subseteq Requests /\ current' \subseteq Requests
  BY DEF Rotate, BanCacheExpires, FailuresExpire, BanEnds, banVars, keyVars, Typed, TypeOK
<1>4. banCache' \in {"absent", "banned", "free"} /\ key' \in Keys
  BY AccessAssumption DEF Rotate, BanCacheExpires, FailuresExpire, BanEnds, banVars, keyVars,
     Typed, TypeOK, Keys
<1>5. failures' \in Nat /\ fading' \in BOOLEAN /\ (fading' => failures' > 0)
  <2>1. CASE FailuresExpire
    BY <2>1 DEF FailuresExpire
  <2>2. CASE Rotate \/ BanCacheExpires \/ \E b \in Bans : BanEnds(b)
    <3>1. UNCHANGED <<failures, fading>>
      BY <2>2 DEF Rotate, BanCacheExpires, BanEnds, attempts
    <3>. QED  BY <3>1, Now
  <2>. QED  BY <2>1, <2>2
<1>6. stale' \in BOOLEAN
  <2>1. CASE BanCacheExpires
    <3>1. stale' = TRUE \/ stale' = FALSE
      BY <2>1 DEF BanCacheExpires
    <3>. QED  BY <3>1
  <2>2. CASE Rotate \/ FailuresExpire \/ \E b \in Bans : BanEnds(b)
    BY <2>2, Now DEF Rotate, FailuresExpire, BanEnds, banVars
  <2>. QED  BY <2>1, <2>2
<1>. QED  BY <1>1, <1>2, <1>3, <1>4, <1>5, <1>6 DEF Typed, TypeOK, OneStanding

-----------------------------------------------------------------------------
(* Type correctness. *)

LEMMA TypeInit == ASSUME Init PROVE Typed
<1>1. \A b, c \in Standing : b = c
  BY DEF Init, Standing
<1>2. Cardinality(Standing) <= 1
  BY <1>1, AtMostOne
<1>3. /\ 0 \in 0 .. MaxFaults /\ 0 \in 0 .. MaxKeys /\ 1 \in 0 .. MaxKeys /\ 1 \in Keys
      /\ MaxAttempts - 1 \in Nat
  BY AccessAssumption DEF Keys
<1>4. failures \in Nat /\ fading \in BOOLEAN /\ (fading => failures > 0)
  <2>1. fading = TRUE \/ fading = FALSE
    BY DEF Init
  <2>2. failures \in Nat
    BY <1>3 DEF Init
  <2>3. fading => failures > 0
    BY DEF Init
  <2>. QED  BY <2>1, <2>2, <2>3
<1>. QED  BY <1>1, <1>2, <1>3, <1>4 DEF Init, Typed, TypeOK, CallFits, OneStanding,
          NoAnswerYet

LEMMA TypeStep ==
  ASSUME Typed, [Next]_vars
  PROVE  Typed'
<1>1. CASE UNCHANGED vars
  <2>1. Standing' = Standing
    BY <1>1 DEF vars, banVars, Standing
  <2>. QED  BY <1>1, <2>1 DEF vars, banVars, attempts, keyVars, reqVars, Typed, TypeOK, CallFits,
            OneStanding, NoAnswerYet
<1>. QED  BY <1>1, BeginStep, StepSound, FaultSound, SoundType, TimeStep DEF Next

\* Every value is of its type, and never are two bans active (service/auth).
THEOREM TypeCorrect == Spec => []TypeOK
<1>. QED  BY TypeInit, TypeStep, PTL DEF Spec, Typed

-----------------------------------------------------------------------------
(* Failed logins. *)

\* A count without an expiry has a request at its EXPIRE, or there was a
\* failure: every count that begins goes through "window" (RecordLoginAttempt).
THEOREM CountsFade == Spec => []FailuresFade
<1>1. ASSUME Init
      PROVE  Typed /\ FailuresFade
  BY <1>1, TypeInit DEF Init, FailuresFade
<1>2. ASSUME Typed, FailuresFade, [Next]_vars
      PROVE  Typed' /\ FailuresFade'
  <2>. Typed'
    BY <1>2, TypeStep
  <2>1. ASSUME NEW r \in Requests, NEW a \in Calls, Begin(r, a)
        PROVE  FailuresFade'
    BY <1>2, <2>1, BeginStep DEF FailuresFade, attempts
  <2>2. ASSUME NEW r \in Requests, HandlerStep(r)
        PROVE  FailuresFade'
    <3>1. CASE IncrementFailure(r)
      <4>1. pc[r] = "password" /\ UNCHANGED <<fading, faults>> /\ failures' = failures + 1
        BY <3>1 DEF IncrementFailure
      <4>2. CASE failures = 0
        <5>1. pc'[r] = "window"
          BY <1>2, <3>1, <4>2, Now DEF IncrementFailure, Goto
        <5>. QED  BY <5>1 DEF FailuresFade
      <4>3. CASE failures > 0
        BY <1>2, <2>2, <4>1, <4>3, StepSound DEF FailuresFade, Sound
      <4>. QED  BY <1>2, <4>2, <4>3, Now
    <3>2. CASE SetWindow(r)
      BY <1>2, <3>2, Now DEF SetWindow, FailuresFade
    <3>3. CASE ClearFailures(r)
      BY <3>3 DEF ClearFailures, FailuresFade
    <3>4. CASE ~(IncrementFailure(r) \/ SetWindow(r) \/ ClearFailures(r))
      <4>1. UNCHANGED <<failures, fading, faults>> /\ pc[r] # "window"
        BY <2>2, <3>4 DEF HandlerStep, CheckLocked, GetBanCache, SelectBan, CleanBan,
           FillBanCache, LiftBan, InsertBan, DeleteBanCache, Verify, FetchKey, StoreKey, Reverify,
           attempts
      <4>. QED  BY <1>2, <2>2, <4>1, StepSound DEF FailuresFade, Sound
    <3>. QED  BY <3>1, <3>2, <3>3, <3>4
  <2>3. ASSUME NEW r \in Requests, HandlerFault(r)
        PROVE  FailuresFade'
    BY <1>2, <2>3, FaultSound, Now DEF FailuresFade
  <2>4. CASE Rotate \/ BanCacheExpires \/ FailuresExpire \/ \E b \in Bans : BanEnds(b)
    <3>1. UNCHANGED <<failures, fading>> \/ failures' = 0
      BY <2>4 DEF Rotate, BanCacheExpires, FailuresExpire, BanEnds, attempts
    <3>. QED  BY <1>2, <2>4, <3>1, TimeStep DEF FailuresFade
  <2>5. CASE UNCHANGED vars
    BY <1>2, <2>5 DEF vars, attempts, reqVars, FailuresFade
  <2>. QED  BY <1>2, <2>1, <2>2, <2>3, <2>4, <2>5 DEF Next
<1>. QED  BY <1>1, <1>2, PTL DEF Spec

-----------------------------------------------------------------------------
(* Requests that meet. *)

\* Of two requests at work on the ban, or on the key, neither is clean.
Alone ==
  \A q, r \in Requests :
    q # r /\ Active(q) /\ Active(r) /\ (OnKey(call[q]) <=> OnKey(call[r])) => q \in unclean

AloneInv == Typed /\ Alone

LEMMA AloneInit == ASSUME Init PROVE AloneInv
BY TypeInit DEF Init, AloneInv, Alone, Active

LEMMA SoundKeeps ==
  ASSUME Typed, NEW r \in Requests, Sound(r)
  PROVE  /\ \A q \in Requests : Active(q)' => Active(q)
         /\ \A q \in Requests : pc[q] = "idle" => pc'[q] = "idle"
         /\ unclean \subseteq unclean'
BY DEF Sound, Active

LEMMA AloneStep ==
  ASSUME AloneInv, [Next]_vars
  PROVE  AloneInv'
<1>. Typed /\ Typed'
  BY TypeStep DEF AloneInv
<1>1. ASSUME NEW r \in Requests, NEW a \in Calls, Begin(r, a)
      PROVE  Alone'
  <2>1. /\ pc[r] = "idle" /\ call'[r] = a
        /\ \A q \in Requests \ {r} : pc'[q] = pc[q] /\ call'[q] = call[q]
    BY <1>1, BeginStep
  <2>2. unclean \subseteq unclean'
    BY <1>1 DEF Begin
  <2>3. ASSUME NEW q \in Requests, q # r, Active(q), OnKey(call[q]) <=> OnKey(a)
        PROVE  q \in unclean' /\ r \in unclean'
    <3>1. q \in Rivals(a)
      BY <2>3 DEF Rivals, OnKey
    <3>2. unclean' = unclean \cup Rivals(a) \cup {r}
      BY <1>1, <3>1 DEF Begin
    <3>. QED  BY <3>1, <3>2
  <2>4. ASSUME NEW p \in Requests, NEW q \in Requests, p # q, Active(p)', Active(q)',
               OnKey(call'[p]) <=> OnKey(call'[q])
        PROVE  p \in unclean'
    <3>1. CASE p # r /\ q # r
      BY <2>1, <2>2, <2>4, <3>1 DEF AloneInv, Alone, Active
    <3>2. CASE p = r \/ q = r
      BY <2>1, <2>3, <2>4, <3>2 DEF Active
    <3>. QED  BY <3>1, <3>2
  <2>. QED  BY <2>4 DEF Alone
<1>2. ASSUME NEW r \in Requests, HandlerStep(r) \/ HandlerFault(r)
      PROVE  Alone'
  <2>1. Sound(r)
    BY <1>2, StepSound, FaultSound
  <2>. QED  BY <2>1, SoundKeeps DEF AloneInv, Alone, Sound
<1>3. CASE Rotate \/ BanCacheExpires \/ FailuresExpire \/ \E b \in Bans : BanEnds(b)
  BY <1>3, TimeStep DEF AloneInv, Alone, Active
<1>4. CASE UNCHANGED vars
  BY <1>4 DEF vars, reqVars, AloneInv, Alone, Active
<1>. QED  BY <1>1, <1>2, <1>3, <1>4 DEF Next, AloneInv

-----------------------------------------------------------------------------
(* Tokens. *)

\* A request whose token is current has the key of its token at hand, from the
\* fetch to the check, if it is clean.
TokenInv ==
  /\ AloneInv
  /\ \A r \in current : /\ pc[r] # "idle" /\ call[r].op = "validate"
                        /\ Active(r) => call[r].key = key
  /\ \A r \in current \ unclean :
       /\ pc[r] = "store" => got[r] = key
       /\ pc[r] = "reverify" => gatewayKey = key
       /\ pc[r] = "done" => reply[r] \in {"ok", "no_key"}

\* The steps of a validation and of a fetch; others leave the keys alone.
LEMMA KeySteps ==
  ASSUME Typed, NEW r \in Requests, HandlerStep(r)
  PROVE  /\ UNCHANGED unclean
         /\ gatewayKey' # gatewayKey => pc[r] = "store"
         /\ call[r].op = "validate" =>
              \/ pc[r] = "verify" /\ gatewayKey = 0 /\ pc'[r] = "done" /\ reply'[r] = "no_key"
              \/ /\ pc[r] = "verify" /\ gatewayKey = call[r].key
                 /\ pc'[r] = "done" /\ reply'[r] = "ok"
              \/ pc[r] = "verify" /\ pc'[r] = "fetch"
              \/ pc[r] = "fetch" /\ pc'[r] = "store" /\ got'[r] = key
              \/ pc[r] = "store" /\ pc'[r] = "reverify" /\ gatewayKey' = got[r]
              \/ /\ pc[r] = "reverify" /\ pc'[r] = "done"
                 /\ reply'[r] = IF gatewayKey = call[r].key THEN "ok" ELSE "rejected"
<1>1. /\ pc \in [Requests -> Pcs] /\ reply \in [Requests -> Answers]
      /\ got \in [Requests -> 0 .. MaxKeys] /\ (pc[r] # "idle" => CallAt(call[r], pc[r]))
  BY Now
<1>2. UNCHANGED unclean
  BY DEF HandlerStep, CheckLocked, GetBanCache, SelectBan, CleanBan, FillBanCache,
     ClearFailures, IncrementFailure, SetWindow, LiftBan, InsertBan, DeleteBanCache, Verify,
     FetchKey, StoreKey, Reverify
<1>3. CASE Verify(r)
  <2>1. CASE gatewayKey = 0 /\ Finish(r, "no_key")
    BY <1>1, <1>3, <2>1 DEF Verify, Finish, End, Answer, Goto, keyVars
  <2>2. CASE gatewayKey = call[r].key /\ Finish(r, "ok")
    BY <1>1, <1>3, <2>2 DEF Verify, Finish, End, Answer, Goto, keyVars
  <2>3. CASE Goto(r, "fetch")
    BY <1>1, <1>3, <2>3 DEF Verify, Goto, keyVars
  <2>. QED  BY <1>2, <1>3, <2>1, <2>2, <2>3 DEF Verify
<1>4. CASE FetchKey(r)
  BY <1>1, <1>2, <1>4 DEF FetchKey, Goto, keyVars
<1>5. CASE StoreKey(r)
  BY <1>1, <1>2, <1>5 DEF StoreKey, Goto
<1>6. CASE Reverify(r)
  BY <1>1, <1>2, <1>6 DEF Reverify, Finish, End, Answer, Goto, keyVars
<1>7. CASE ~(Verify(r) \/ FetchKey(r) \/ StoreKey(r) \/ Reverify(r))
  <2>1. /\ gatewayKey' = gatewayKey
        /\ pc[r] \in Pcs \ {"idle", "done", "verify", "fetch", "store", "reverify"}
    BY <1>7 DEF HandlerStep, CheckLocked, GetBanCache, SelectBan, CleanBan, FillBanCache,
       ClearFailures, IncrementFailure, SetWindow, LiftBan, InsertBan, DeleteBanCache, keyVars, Pcs
  <2>2. call[r].op # "validate"
    BY <1>1, <2>1 DEF CallAt, Pcs
  <2>. QED  BY <1>2, <2>1, <2>2
<1>. QED  BY <1>3, <1>4, <1>5, <1>6, <1>7

LEMMA TokenStep ==
  ASSUME TokenInv, [Next]_vars
  PROVE  TokenInv'
<1>. AloneInv /\ AloneInv' /\ Typed /\ Typed'
  BY AloneStep DEF TokenInv, AloneInv
<1>1. ASSUME NEW r \in Requests, NEW a \in Calls, Begin(r, a)
      PROVE  TokenInv'
  <2>1. /\ pc[r] = "idle" /\ pc'[r] = First(a.op) /\ call'[r] = a
        /\ \A q \in Requests \ {r} : pc'[q] = pc[q] /\ call'[q] = call[q]
        /\ UNCHANGED <<key, gatewayKey, reply, got>>
        /\ First(a.op) \in Pcs \ {"idle", "done"}
        /\ unclean \subseteq unclean'
        /\ current' = IF a.op = "validate" /\ a.key = key THEN current \cup {r} ELSE current
    BY <1>1, BeginStep DEF Begin
  <2>2. r \notin current /\ current \subseteq Requests
    BY <2>1 DEF TokenInv, Typed, TypeOK
  <2>3. r \in current' => First(a.op) = "verify"
    BY <2>1, <2>2 DEF First
  <2>4. ASSUME NEW q \in current'
        PROVE  /\ pc'[q] # "idle" /\ call'[q].op = "validate"
               /\ Active(q)' => call'[q].key = key'
    BY <2>1, <2>2 DEF TokenInv, Active
  <2>5. ASSUME NEW q \in current' \ unclean'
        PROVE  /\ pc'[q] = "store" => got'[q] = key'
               /\ pc'[q] = "reverify" => gatewayKey' = key'
               /\ pc'[q] = "done" => reply'[q] \in {"ok", "no_key"}
    BY <2>1, <2>2, <2>3 DEF TokenInv
  <2>. QED  BY <2>4, <2>5 DEF TokenInv
<1>2. ASSUME NEW r \in Requests, HandlerStep(r) \/ HandlerFault(r)
      PROVE  TokenInv'
  <2>1. Sound(r) /\ unclean \subseteq unclean' /\ current \subseteq Requests
    BY <1>2, StepSound, FaultSound, SoundKeeps DEF Typed, TypeOK
  <2>2. HandlerFault(r) => r \in unclean' /\ gatewayKey' = gatewayKey
    BY DEF HandlerFault, RequestFails, ErrorDropped, Crash, keyVars
  <2>3. ASSUME NEW q \in current'
        PROVE  /\ pc'[q] # "idle" /\ call'[q].op = "validate"
               /\ Active(q)' => call'[q].key = key'
    BY <2>1, SoundKeeps DEF TokenInv, Sound
  <2>4. ASSUME NEW q \in current' \ unclean'
        PROVE  /\ pc'[q] = "store" => got'[q] = key'
               /\ pc'[q] = "reverify" => gatewayKey' = key'
               /\ pc'[q] = "done" => reply'[q] \in {"ok", "no_key"}
    <3>1. q \in current \ unclean /\ q \in Requests /\ key' = key
      BY <2>1, <2>4 DEF Sound
    <3>2. CASE q = r
      <4>1. HandlerStep(r)
        BY <1>2, <2>2, <2>4, <3>2
      <4>2. Active(r) /\ call[r].op = "validate" /\ call[r].key = key
        BY <2>1, <3>1, <3>2 DEF TokenInv, Sound
      <4>. QED  BY <3>1, <3>2, <4>1, <4>2, KeySteps DEF TokenInv
    <3>3. CASE q # r
      <4>1. pc'[q] = pc[q] /\ got'[q] = got[q] /\ reply'[q] = reply[q]
        BY <2>1, <3>1, <3>3 DEF Sound
      <4>2. CASE gatewayKey' = gatewayKey
        BY <3>1, <4>1, <4>2 DEF TokenInv
      <4>3. CASE gatewayKey' # gatewayKey
        <5>1. pc[r] = "store" /\ Active(r) /\ OnKey(call[r])
          BY <1>2, <2>1, <2>2, <4>3, KeySteps, Now DEF Sound, OnKey, CallAt
        <5>2. OnKey(call[q])
          BY <3>1 DEF TokenInv, OnKey
        <5>3. ~Active(q)
          BY <3>1, <3>3, <5>1, <5>2 DEF AloneInv, Alone
        <5>. QED  BY <3>1, <4>1, <5>3 DEF TokenInv, Active
      <4>. QED  BY <4>2, <4>3
    <3>. QED  BY <3>2, <3>3
  <2>. QED  BY <2>3, <2>4 DEF TokenInv
<1>3. CASE Rotate
  <2>1. /\ UNCHANGED <<gatewayKey, pc, call, reply, got, unclean>>
        /\ current' = {r \in current : ~Active(r)}
    BY <1>3 DEF Rotate, banVars, reqVars
  <2>. QED  BY <2>1 DEF TokenInv, Active
<1>4. CASE BanCacheExpires \/ FailuresExpire \/ \E b \in Bans : BanEnds(b)
  <2>1. UNCHANGED <<key, gatewayKey, current, pc, call, reply, got, unclean>>
    BY <1>4 DEF BanCacheExpires, FailuresExpire, BanEnds, keyVars, reqVars
  <2>. QED  BY <2>1 DEF TokenInv, Active
<1>5. CASE UNCHANGED vars
  BY <1>5 DEF vars, keyVars, reqVars, TokenInv, Active
<1>. QED  BY <1>1, <1>2, <1>3, <1>4, <1>5 DEF Next

\* A token of the key that signs is accepted, but by requests that met another
\* fetch or failed (ValidateToken and refreshPublicKey of validator.go).
THEOREM TokensAccepted == Spec => []CurrentTokenAccepted
<1>1. Init => TokenInv
  <2>1. Init => current = {}
    BY DEF Init
  <2>. QED  BY <2>1, AloneInit DEF TokenInv
<1>2. TokenInv => CurrentTokenAccepted
  BY DEF TokenInv, CurrentTokenAccepted
<1>. QED  BY <1>1, <1>2, TokenStep, PTL DEF Spec

-----------------------------------------------------------------------------
(* Bans. *)

CacheAgrees ==
  /\ banCache = "free" => ~InForce
  /\ banCache = "banned" => Standing # {}

Quiet == \A r \in Requests : Active(r) => OnKey(call[r])

\* What a clean request on the ban may rely on at each of its steps; the cached
\* answer agrees with the table where the request has not yet changed it.
BanProgress(r) ==
  /\ ~stale /\ pc[r] \in {"locked", "cached", "password", "window", "lift"} => CacheAgrees
  /\ pc[r] = "clean" => Standing \subseteq over /\ got[r] = 0
  /\ pc[r] = "fill" => IF got[r] = 1 THEN Standing # {} ELSE ~InForce
  /\ pc[r] = "insert" => Standing = {}

\* A request that began while the user was banned does not get past the check.
BarredProgress(r) ==
  /\ pc[r] # "idle" /\ OnBan(call[r])
  /\ Active(r) => /\ InForce /\ ~stale
                  /\ pc[r] \in {"locked", "cached", "select", "fill"}
                  /\ pc[r] = "fill" => got[r] = 1
  /\ pc[r] = "done" => reply[r] # "ok"

BanInv ==
  /\ AloneInv
  /\ ~stale /\ Quiet => CacheAgrees
  /\ \A r \in Requests \ unclean : Active(r) /\ OnBan(call[r]) => BanProgress(r)
  /\ \A r \in barred \ unclean : BarredProgress(r)
  /\ \A r \in barred : pc[r] # "idle"

LEMMA BanInit == ASSUME Init PROVE BanInv
<1>1. AloneInv /\ barred = {} /\ \A r \in Requests : ~Active(r)
  BY AloneInit DEF Init, Active
<1>2. CacheAgrees
  BY DEF Init, CacheAgrees, InForce
<1>. QED  BY <1>1, <1>2 DEF BanInv

\* Requests on the key leave the ban alone.
LEMMA KeyRequest ==
  ASSUME Typed, NEW r \in Requests, HandlerStep(r) \/ HandlerFault(r), OnKey(call[r])
  PROVE  UNCHANGED <<bans, over, banCache, stale, barred>>
<1>1. /\ pc[r] # "idle" /\ call[r].op \in {"pull", "validate"} /\ CallAt(call[r], pc[r])
      /\ pc[r] \in Pcs
  BY StepSound, FaultSound, Now DEF Sound, Active, OnKey
<1>2. pc[r] \in {"verify", "fetch", "store", "reverify", "done"}
  BY <1>1 DEF CallAt, Pcs
<1>3. \A answer, clean : End(r, answer, clean) => stale' = stale
  BY Now DEF End, OnBan
<1>4. CASE Verify(r)
  BY <1>3, <1>4 DEF Verify, Finish
<1>5. CASE FetchKey(r)
  BY <1>5 DEF FetchKey, banVars
<1>6. CASE StoreKey(r)
  BY <1>3, <1>6 DEF StoreKey, Finish
<1>7. CASE Reverify(r)
  BY <1>3, <1>7 DEF Reverify, Finish
<1>8. CASE RequestFails(r)
  BY <1>2, <1>3, <1>8 DEF RequestFails
<1>9. CASE ErrorDropped(r)
  BY <1>2, <1>9 DEF ErrorDropped
<1>10. CASE Crash(r)
  BY <1>3, <1>10 DEF Crash
<1>11. Verify(r) \/ FetchKey(r) \/ StoreKey(r) \/ Reverify(r) \/ HandlerFault(r)
  BY <1>2 DEF HandlerStep, CheckLocked, GetBanCache, SelectBan, CleanBan, FillBanCache,
     ClearFailures, IncrementFailure, SetWindow, LiftBan, InsertBan, DeleteBanCache
<1>. QED  BY <1>4, <1>5, <1>6, <1>7, <1>8, <1>9, <1>10, <1>11 DEF HandlerFault

\* A clean request on the ban, at work alone: the step keeps what it may rely
\* on, and leaves a cache that agrees when it ends.
LEMMA BanRequest ==
  ASSUME BanInv, NEW r \in Requests, HandlerStep(r), OnBan(call[r]), r \notin unclean
  PROVE  /\ UNCHANGED <<over, barred>>
         /\ pc'[r] # "done" => stale' = stale /\ BanProgress(r)'
         /\ ~stale' /\ pc'[r] = "done" => CacheAgrees'
         /\ r \in barred => BarredProgress(r)'
<1>1. /\ Typed /\ Sound(r)
  BY StepSound DEF BanInv, AloneInv
<1>2. /\ Active(r) /\ BanProgress(r) /\ (r \in barred => BarredProgress(r))
      /\ pc \in [Requests -> Pcs] /\ got \in [Requests -> 0 .. MaxKeys]
      /\ reply \in [Requests -> Answers]
      /\ UNCHANGED <<over, barred, call>>
      /\ CallAt(call[r], pc[r]) /\ stale \in BOOLEAN
  BY <1>1, Now DEF BanInv, Sound, Active
<1>3. \A answer : Finish(r, answer) => stale' = stale /\ pc'[r] = "done" /\ reply'[r] = answer
  <2>1. ASSUME NEW answer, Finish(r, answer)
        PROVE  stale' = stale /\ pc'[r] = "done" /\ reply'[r] = answer
    <3>1. stale' = (stale \/ (OnBan(call[r]) /\ ~(r \notin unclean)))
      BY <2>1 DEF Finish, End
    <3>2. stale' = stale
      BY <1>2, <3>1
    <3>3. pc'[r] = "done" /\ reply'[r] = answer
      BY <1>2, <2>1 DEF Finish, End, Answer, Goto
    <3>. QED  BY <3>2, <3>3
  <2>. QED  BY <2>1
<1>4. \A label : Goto(r, label) => pc'[r] = label
  BY <1>2 DEF Goto
<1>. DEFINE Goal == /\ pc'[r] # "done" => stale' = stale /\ BanProgress(r)'
                    /\ ~stale' /\ pc'[r] = "done" => CacheAgrees'
                    /\ r \in barred => BarredProgress(r)'
\* Steps that leave the tables and the cache alone.
<1>5. bans' = bans => Standing' = Standing /\ (InForce' <=> InForce)
  BY <1>2 DEF Standing, InForce
<1>6. bans' = bans /\ banCache' = banCache => (CacheAgrees' <=> CacheAgrees)
  BY <1>5 DEF CacheAgrees
<1>7. CASE CheckLocked(r)
  <2>1. pc[r] = "locked" /\ bans' = bans /\ banCache' = banCache
    BY <1>7 DEF CheckLocked
  <2>2. CASE Finish(r, "locked")
    BY <1>2, <1>3, <1>5, <1>6, <2>1, <2>2 DEF BanProgress, BarredProgress, Active
  <2>3. CASE Goto(r, "cached") /\ UNCHANGED <<reply, got, stale>>
    BY <1>2, <1>4, <1>5, <1>6, <2>1, <2>3 DEF BanProgress, BarredProgress, Active
  <2>. QED  BY <1>7, <2>2, <2>3 DEF CheckLocked
<1>8. CASE GetBanCache(r)
  <2>1. pc[r] = "cached" /\ bans' = bans /\ banCache' = banCache
    BY <1>8 DEF GetBanCache
  <2>2. CASE Finish(r, "banned")
    BY <1>2, <1>3, <1>5, <1>6, <2>1, <2>2 DEF BanProgress, BarredProgress, Active
  <2>3. CASE banCache = "free" /\ AfterCheck(r)
    <3>1. ~stale => ~InForce
      BY <1>2, <2>1, <2>3 DEF BanProgress, CacheAgrees
    <3>2. r \notin barred
      BY <1>2, <3>1 DEF BarredProgress
    <3>3. CASE Goto(r, "password") /\ UNCHANGED <<reply, got, stale>>
      BY <1>2, <1>4, <1>5, <1>6, <2>1, <3>2, <3>3 DEF BanProgress
    <3>4. CASE Finish(r, "ok")
      BY <1>2, <1>3, <1>5, <1>6, <2>1, <3>2, <3>4 DEF BanProgress
    <3>. QED  BY <2>3, <3>3, <3>4 DEF AfterCheck
  <2>4. CASE Goto(r, "select") /\ UNCHANGED <<reply, got, stale>>
    BY <1>2, <1>4, <1>5, <1>6, <2>1, <2>4 DEF BanProgress, BarredProgress, Active
  <2>. QED  BY <1>8, <2>2, <2>3, <2>4 DEF GetBanCache
<1>9. CASE SelectBan(r)
  <2>1. /\ pc[r] = "select" /\ bans' = bans /\ stale' = stale /\ reply' = reply
    BY <1>9 DEF SelectBan, banVars
  <2>2. CASE Standing = {} /\ got' = [got EXCEPT ![r] = 0] /\ Goto(r, "fill")
    <3>1. pc'[r] = "fill" /\ got'[r] = 0 /\ ~InForce
      BY <1>2, <1>4, <2>2 DEF InForce
    <3>. QED  BY <1>2, <1>5, <2>1, <3>1 DEF BanProgress, BarredProgress
  <2>3. ASSUME NEW b \in Standing, b \in over, got' = [got EXCEPT ![r] = 0], Goto(r, "clean")
        PROVE  Goal
    <3>1. pc'[r] = "clean" /\ got'[r] = 0
      BY <1>2, <1>4, <2>3
    <3>2. Standing \subseteq over /\ ~InForce
      BY <1>1, <2>3 DEF Typed, OneStanding, InForce
    <3>3. r \notin barred
      BY <1>2, <3>2 DEF BarredProgress
    <3>. QED  BY <1>2, <1>5, <2>1, <3>1, <3>2, <3>3 DEF BanProgress
  <2>4. ASSUME NEW b \in Standing, b \notin over, got' = [got EXCEPT ![r] = 1], Goto(r, "fill")
        PROVE  Goal
    <3>1. pc'[r] = "fill" /\ got'[r] = 1 /\ Standing # {}
      BY <1>2, <1>4, <2>4
    <3>. QED  BY <1>2, <1>5, <2>1, <3>1 DEF BanProgress, BarredProgress
  <2>. QED  BY <1>9, <1>2, <2>2, <2>3, <2>4 DEF SelectBan
<1>10. CASE CleanBan(r)
  <2>1. pc[r] = "clean" /\ pc'[r] = "fill" /\ bans' = Lifted /\ UNCHANGED <<stale, got, reply>>
    BY <1>4, <1>10 DEF CleanBan
  <2>2. Standing' = {} /\ got'[r] = 0
    BY <1>1, <1>2, <2>1, LiftedEffect DEF Standing, BanProgress
  <2>3. ~InForce' /\ r \notin barred
    BY <1>2, <2>1, <2>2 DEF InForce, BarredProgress
  <2>. QED  BY <1>2, <2>1, <2>2, <2>3 DEF BanProgress
<1>11. CASE FillBanCache(r)
  <2>1. /\ pc[r] = "fill" /\ bans' = bans /\ Verdict(r)
        /\ banCache' = IF got[r] = 1 THEN "banned" ELSE "free"
    BY <1>11 DEF FillBanCache
  <2>2. CacheAgrees'
    BY <1>2, <1>5, <2>1 DEF BanProgress, CacheAgrees
  <2>3. CASE got[r] = 1
    <3>1. Finish(r, "banned")
      BY <2>1, <2>3 DEF Verdict
    <3>. QED  BY <1>2, <1>3, <1>5, <2>2, <3>1 DEF BarredProgress, Active
  <2>4. CASE got[r] # 1
    <3>1. r \notin barred
      BY <1>2, <2>1, <2>4 DEF BarredProgress
    <3>2. CASE Goto(r, "password") /\ UNCHANGED <<reply, got, stale>>
      BY <1>2, <1>4, <2>2, <3>1, <3>2 DEF BanProgress
    <3>3. CASE Finish(r, "ok")
      BY <1>2, <1>3, <2>2, <3>1, <3>3 DEF BanProgress
    <3>. QED  BY <2>1, <2>4, <3>2, <3>3 DEF Verdict, AfterCheck
  <2>. QED  BY <2>3, <2>4
<1>12. CASE ClearFailures(r) \/ IncrementFailure(r) \/ SetWindow(r)
  <2>1. /\ pc[r] \in {"password", "window"} /\ bans' = bans /\ banCache' = banCache
        /\ \/ \E answer : Finish(r, answer)
           \/ Goto(r, "window") /\ UNCHANGED <<reply, got, stale>>
    BY <1>12 DEF ClearFailures, IncrementFailure, SetWindow
  <2>2. r \notin barred
    BY <1>2, <2>1 DEF BarredProgress
  <2>3. CASE \E answer : Finish(r, answer)
    BY <1>2, <1>3, <1>6, <2>1, <2>2, <2>3 DEF BanProgress
  <2>4. CASE Goto(r, "window") /\ UNCHANGED <<reply, got, stale>>
    BY <1>2, <1>4, <1>6, <2>1, <2>2, <2>4 DEF BanProgress
  <2>. QED  BY <2>1, <2>3, <2>4
<1>13. CASE LiftBan(r)
  <2>1. pc[r] = "lift" /\ bans' = Lifted /\ banCache' = banCache
    BY <1>13 DEF LiftBan
  <2>2. Standing' = {} /\ r \notin barred
    BY <1>1, <1>2, <2>1, LiftedEffect DEF Standing, BarredProgress
  <2>3. CASE call[r].op = "superunban" /\ EndUncached(r)
    <3>1. pc'[r] = "done" /\ (~stale' => banCache # "banned")
      BY <1>2, <2>3 DEF EndUncached, End, Answer, Goto
    <3>2. ~stale' => CacheAgrees'
      BY <2>1, <2>2, <3>1 DEF CacheAgrees, InForce
    <3>. QED  BY <1>2, <2>2, <3>1, <3>2
  <2>4. CASE Goto(r, "insert") /\ UNCHANGED <<reply, got, stale>>
    <3>1. pc'[r] = "insert"
      BY <1>4, <2>4
    <3>. QED  BY <1>2, <2>2, <2>4, <3>1 DEF BanProgress
  <2>. QED  BY <1>13, <2>3, <2>4 DEF LiftBan
<1>14. CASE InsertBan(r)
  <2>1. pc[r] = "insert" /\ Standing = {} /\ banCache' = banCache
    BY <1>2, <1>14 DEF InsertBan, BanProgress
  <2>2. bans' = [bans EXCEPT ![r] = "active"] /\ r \notin barred
    BY <1>2, <1>14, <2>1 DEF InsertBan, BarredProgress
  <2>3. CASE Goto(r, "uncache") /\ UNCHANGED <<reply, got, stale>>
    <3>1. pc'[r] = "uncache"
      BY <1>4, <2>3
    <3>. QED  BY <1>2, <2>2, <2>3, <3>1 DEF BanProgress
  <2>4. CASE call[r].op = "superban" /\ EndUncached(r)
    <3>1. pc'[r] = "done" /\ (~stale' => banCache # "free")
      BY <1>2, <2>4 DEF EndUncached, End, Answer, Goto
    <3>2. r \in Standing'
      BY <1>1, <2>2 DEF Typed, TypeOK, Standing, Bans
    <3>3. ~stale' => CacheAgrees'
      BY <2>1, <3>1, <3>2 DEF CacheAgrees
    <3>. QED  BY <1>2, <2>2, <3>1, <3>3
  <2>. QED  BY <1>14, <2>1, <2>3, <2>4 DEF InsertBan
<1>15. CASE DeleteBanCache(r)
  <2>1. pc[r] = "uncache" /\ banCache' = "absent" /\ Answer(r, "ok")
    BY <1>15 DEF DeleteBanCache
  <2>2. r \notin barred /\ pc'[r] = "done"
    BY <1>2, <2>1 DEF BarredProgress, Answer, Goto
  <2>. QED  BY <1>2, <2>1, <2>2 DEF CacheAgrees
<1>16. ~(Verify(r) \/ FetchKey(r) \/ StoreKey(r) \/ Reverify(r))
  <2>1. call[r].op \notin {"pull", "validate"}
    BY DEF OnBan, OnKey
  <2>2. pc[r] \notin {"verify", "fetch", "store", "reverify"}
    BY <1>2, <2>1 DEF CallAt
  <2>. QED  BY <2>2 DEF Verify, FetchKey, StoreKey, Reverify
<1>. QED  BY <1>2, <1>7, <1>8, <1>9, <1>10, <1>11, <1>12, <1>13, <1>14, <1>15, <1>16
          DEF HandlerStep

\* A request on the ban that is not clean leaves its mark when it ends.
LEMMA UncleanEnds ==
  ASSUME Typed, NEW r \in Requests, OnBan(call[r]), pc'[r] = "done",
         HandlerFault(r) \/ (HandlerStep(r) /\ r \in unclean)
  PROVE  stale'
<1>1. /\ pc \in [Requests -> Pcs] /\ pc[r] # "done" /\ CallAt(call[r], pc[r])
      /\ call[r].op \notin {"pull", "validate"}
  BY StepSound, FaultSound, Now DEF Sound, Active, OnBan, OnKey
<1>2. \A answer : End(r, answer, FALSE) => stale'
  BY DEF End
<1>3. r \in unclean => \A answer : Finish(r, answer) => stale'
  <2>1. ASSUME r \in unclean, NEW answer, Finish(r, answer)
        PROVE  stale'
    BY <2>1 DEF Finish, End
  <2>. QED  BY <2>1
<1>4. \A label : Goto(r, label) => label = "done"
  BY <1>1 DEF Goto
<1>5. HandlerFault(r) => stale'
  BY <1>2, <1>4 DEF HandlerFault, RequestFails, ErrorDropped, Crash
<1>6. ASSUME HandlerStep(r), r \in unclean
      PROVE  stale'
  <2>1. pc[r] \notin {"verify", "fetch", "store", "reverify"}
    BY <1>1 DEF CallAt
  <2>2. (\E answer : Finish(r, answer)) \/ EndUncached(r) \/ DeleteBanCache(r)
    <3>1. AfterCheck(r) => \E answer : Finish(r, answer)
      BY <1>4 DEF AfterCheck
    <3>. QED  BY <1>4, <1>6, <2>1, <3>1
              DEF HandlerStep, CheckLocked, GetBanCache, SelectBan, CleanBan, FillBanCache,
                  Verdict, ClearFailures, IncrementFailure, SetWindow, LiftBan, InsertBan,
                  Verify, FetchKey, StoreKey, Reverify
  <2>3. EndUncached(r) => stale'
    BY <1>6 DEF EndUncached, End
  <2>4. DeleteBanCache(r) => stale'
    BY <1>6 DEF DeleteBanCache
  <2>. QED  BY <1>3, <1>6, <2>2, <2>3, <2>4
<1>. QED  BY <1>5, <1>6

LEMMA BanStep ==
  ASSUME BanInv, [Next]_vars
  PROVE  BanInv'
<1>. AloneInv /\ AloneInv' /\ Typed /\ Typed'
  BY AloneStep DEF BanInv, AloneInv
<1>0. bans' = bans /\ over' = over => Standing' = Standing /\ (InForce' <=> InForce)
  BY DEF Standing, InForce
<1>00. bans' = bans /\ over' = over /\ banCache' = banCache => (CacheAgrees' <=> CacheAgrees)
  BY <1>0 DEF CacheAgrees
<1>1. ASSUME NEW r \in Requests, NEW a \in Calls, Begin(r, a)
      PROVE  BanInv'
  <2>1. /\ pc[r] = "idle" /\ pc'[r] = First(a.op) /\ call'[r] = a
        /\ \A q \in Requests \ {r} : pc'[q] = pc[q] /\ call'[q] = call[q]
        /\ UNCHANGED <<bans, over, banCache, stale, reply, got>>
        /\ First(a.op) \in Pcs \ {"idle", "done"} /\ a.op \in Ops
        /\ unclean' = IF Rivals(a) = {} THEN unclean ELSE unclean \cup Rivals(a) \cup {r}
        /\ barred' = IF a.op \in {"login", "refresh"} /\ InForce /\ ~stale
                     THEN barred \cup {r} ELSE barred
    BY <1>1, BeginStep, CallType DEF Begin
  <2>2. r \notin barred /\ barred \subseteq Requests /\ unclean \subseteq unclean'
    BY <2>1 DEF BanInv, Typed, TypeOK
  <2>3. ~stale' /\ Quiet' => CacheAgrees'
    <3>1. Quiet' => Quiet
      BY <2>1 DEF Quiet, Active
    <3>. QED  BY <1>00, <2>1, <3>1 DEF BanInv
  <2>4. ASSUME NEW q \in Requests \ unclean', Active(q)', OnBan(call'[q])
        PROVE  BanProgress(q)'
    <3>1. CASE q = r
      <4>1. Rivals(a) = {} /\ OnBan(a)
        BY <2>1, <2>4, <3>1
      <4>2. Quiet
        BY <4>1 DEF Rivals, Quiet, OnBan, OnKey
      <4>3. First(a.op) \in {"locked", "cached", "lift"}
        BY <2>1, <4>1 DEF First, OnBan, OnKey, Ops
      <4>. QED  BY <1>00, <2>1, <3>1, <4>2, <4>3 DEF BanInv, BanProgress
    <3>2. CASE q # r
      <4>1. BanProgress(q)
        BY <2>1, <2>2, <2>4, <3>2 DEF BanInv, Active
      <4>. QED  BY <1>0, <1>00, <2>1, <3>2, <4>1 DEF BanProgress
    <3>. QED  BY <3>1, <3>2
  <2>5. ASSUME NEW q \in barred'
        PROVE  pc'[q] # "idle" /\ (q \notin unclean' => BarredProgress(q)')
    <3>1. CASE q = r
      <4>1. a.op \in {"login", "refresh"} /\ InForce /\ ~stale
        BY <2>1, <2>2, <2>5, <3>1
      <4>2. First(a.op) \in {"locked", "cached"}
        BY <4>1 DEF First
      <4>. QED  BY <1>0, <2>1, <3>1, <4>1, <4>2 DEF BarredProgress, OnBan, OnKey
    <3>2. CASE q # r
      <4>1. q \in barred /\ q \in Requests
        BY <2>1, <2>2, <2>5, <3>2
      <4>. QED  BY <1>0, <2>1, <2>2, <3>2, <4>1 DEF BanInv, BarredProgress, Active
    <3>. QED  BY <3>1, <3>2
  <2>. QED  BY <2>3, <2>4, <2>5 DEF BanInv
<1>2. ASSUME NEW r \in Requests, HandlerStep(r) \/ HandlerFault(r)
      PROVE  BanInv'
  <2>1. /\ Sound(r) /\ Active(r) /\ UNCHANGED <<call, over, barred>>
        /\ \A q \in Requests \ {r} : pc'[q] = pc[q] /\ reply'[q] = reply[q] /\ got'[q] = got[q]
        /\ pc'[r] # "idle" /\ barred \subseteq Requests /\ unclean \subseteq unclean'
    BY <1>2, StepSound, FaultSound, SoundKeeps DEF Sound, Typed, TypeOK
  <2>2. \A q \in barred : pc'[q] # "idle"
    BY <2>1 DEF BanInv
  <2>3. CASE OnKey(call[r])
    <3>1. UNCHANGED <<bans, over, banCache, stale, barred>>
      BY <1>2, <2>3, KeyRequest
    <3>2. Quiet' => Quiet
      BY <2>1, <2>3 DEF Quiet, Active
    <3>3. ASSUME NEW q \in Requests \ unclean', Active(q)', OnBan(call'[q])
          PROVE  BanProgress(q)'
      <4>1. q # r /\ BanProgress(q)
        BY <2>1, <2>3, <3>3 DEF BanInv, Active, OnBan
      <4>. QED  BY <1>0, <1>00, <2>1, <3>1, <4>1 DEF BanProgress
    <3>4. ASSUME NEW q \in barred \ unclean'
          PROVE  BarredProgress(q)'
      <4>1. q # r /\ BarredProgress(q)
        BY <2>1, <2>3, <3>4 DEF BanInv, BarredProgress, OnBan
      <4>. QED  BY <1>0, <2>1, <3>1, <4>1 DEF BarredProgress, Active
    <3>. QED  BY <1>00, <2>1, <2>2, <3>1, <3>2, <3>3, <3>4 DEF BanInv
  <2>4. CASE OnBan(call[r])
    <3>1. \A q \in Requests \ {r} : Active(q) /\ OnBan(call[q]) => q \in unclean /\ r \in unclean
      BY <2>1, <2>4 DEF AloneInv, Alone, OnBan
    <3>2. ASSUME NEW q \in Requests \ unclean', q # r
          PROVE  /\ ~(Active(q)' /\ OnBan(call'[q]))
                 /\ q \in barred => BarredProgress(q)'
      <4>1. ~(Active(q) /\ OnBan(call[q])) /\ q \notin unclean
        BY <2>1, <3>1, <3>2
      <4>. QED  BY <2>1, <3>2, <4>1 DEF Active, BanInv, BarredProgress
    <3>3. Quiet' => pc'[r] = "done"
      BY <2>1, <2>4 DEF Quiet, Active, OnBan
    <3>4. CASE HandlerStep(r) /\ r \notin unclean
      <4>1. /\ pc'[r] # "done" => stale' = stale /\ BanProgress(r)'
            /\ ~stale' /\ pc'[r] = "done" => CacheAgrees'
            /\ r \in barred => BarredProgress(r)'
        BY <2>4, <3>4, BanRequest
      <4>. QED  BY <2>1, <2>2, <3>2, <3>3, <4>1 DEF BanInv, Active
    <3>5. CASE HandlerFault(r) \/ (HandlerStep(r) /\ r \in unclean)
      <4>1. r \in unclean'
        BY <2>1, <3>5 DEF HandlerFault, RequestFails, ErrorDropped, Crash
      <4>2. Quiet' => stale'
        BY <2>4, <3>3, <3>5, UncleanEnds
      <4>. QED  BY <2>1, <2>2, <3>2, <4>1, <4>2 DEF BanInv
    <3>. QED  BY <1>2, <3>4, <3>5
  <2>. QED  BY <2>3, <2>4 DEF OnBan
<1>3. ASSUME NEW b \in Bans, BanEnds(b)
      PROVE  BanInv'
  <2>1. /\ over' = over \cup {b} /\ barred' = {}
        /\ UNCHANGED <<bans, banCache, stale, pc, call, got, unclean>>
    BY <1>3 DEF BanEnds, reqVars
  <2>2. Standing' = Standing /\ (InForce' => InForce)
    BY <2>1 DEF Standing, InForce
  <2>3. /\ CacheAgrees => CacheAgrees'
        /\ \A r \in Requests : BanProgress(r) => BanProgress(r)'
    BY <2>1, <2>2 DEF CacheAgrees, BanProgress
  <2>4. Quiet' => Quiet
    BY <2>1 DEF Quiet, Active
  <2>. QED  BY <2>1, <2>3, <2>4 DEF BanInv, Active
<1>4. CASE BanCacheExpires
  <2>1. /\ banCache' = "absent" /\ (stale' => stale)
        /\ UNCHANGED <<bans, over, barred, pc, call, reply, got, unclean>>
    BY <1>4 DEF BanCacheExpires, reqVars
  <2>2. CacheAgrees'
    BY <2>1 DEF CacheAgrees
  <2>3. \A r \in Requests : BanProgress(r) => BanProgress(r)'
    BY <1>0, <2>1, <2>2 DEF BanProgress
  <2>4. \A r \in Requests : BarredProgress(r) => BarredProgress(r)'
    BY <1>0, <2>1 DEF BarredProgress, Active
  <2>5. barred \subseteq Requests
    BY DEF Typed, TypeOK
  <2>. QED  BY <2>1, <2>2, <2>3, <2>4, <2>5 DEF BanInv, Active
<1>5. CASE Rotate \/ FailuresExpire \/ UNCHANGED vars
  <2>1. UNCHANGED <<bans, over, banCache, stale, barred, pc, call, reply, got, unclean>>
    BY <1>5 DEF Rotate, FailuresExpire, vars, banVars, reqVars
  <2>2. \A r \in Requests : /\ BanProgress(r) => BanProgress(r)'
                            /\ BarredProgress(r) => BarredProgress(r)'
    BY <1>0, <1>00, <2>1 DEF BanProgress, BarredProgress, Active
  <2>3. Quiet' => Quiet
    BY <2>1 DEF Quiet, Active
  <2>4. barred \subseteq Requests
    BY DEF Typed, TypeOK
  <2>. QED  BY <1>00, <2>1, <2>2, <2>3, <2>4 DEF BanInv, Active
<1>. QED  BY <1>1, <1>2, <1>3, <1>4, <1>5 DEF Next

\* What is cached of a ban is what the table says, once nobody is at work on it,
\* and nobody who was banned when he came is let in, although two services write
\* the table and one of them clears the cache (CheckBanned and BanUser of
\* auth_service.go, BanUser and UnbanUser of superuser_service.go): but for what
\* requests that met or failed, or a superuser while the opposite was cached,
\* have left until the answer expires or the auth service bans again.
THEOREM BansHold == Spec => []BansTakeHold
<1>1. ASSUME BanInv
      PROVE  BansTakeHold
  <2>1. BanCacheAgrees
    BY <1>1 DEF BanInv, BanCacheAgrees, Quiet, CacheAgrees
  <2>2. ASSUME NEW r \in barred \ unclean
        PROVE  reply[r] # "ok"
    <3>1. BarredProgress(r) /\ NoAnswerYet /\ r \in Requests
      BY <1>1, <2>2 DEF BanInv, AloneInv, Typed, TypeOK
    <3>2. CASE pc[r] = "done"
      BY <3>1, <3>2 DEF BarredProgress
    <3>3. CASE pc[r] # "done"
      BY <3>1, <3>3 DEF NoAnswerYet
    <3>. QED  BY <3>2, <3>3
  <2>. QED  BY <2>1, <2>2 DEF BansTakeHold, BannedStayOut
<1>. QED  BY <1>1, BanInit, BanStep, PTL DEF Spec

\* The check that deletes a ban it has found to be over deletes no other one, if
\* it is clean (IsUserBanned of ban_service.go).
THEOREM BansStandFirm == Spec => BansStand
<1>. DEFINE Act ==
       \A b \in Standing \ over : bans'[b] = "inactive"
         => \E r \in Requests : \/ pc[r] = "lift"
                                \/ pc[r] = "clean" /\ r \in unclean
<1>1. ASSUME BanInv, [Next]_vars
      PROVE  [Act]_vars
  <2>. Typed
    BY <1>1 DEF BanInv, AloneInv
  <2>. SUFFICES ASSUME NEW b \in Standing \ over, bans'[b] = "inactive"
                PROVE  \E r \in Requests : pc[r] = "lift" \/ (pc[r] = "clean" /\ r \in unclean)
    OBVIOUS
  <2>0. bans' # bans
    BY DEF Standing
  <2>1. PICK r \in Requests : HandlerStep(r) \/ HandlerFault(r)
    BY <1>1, <2>0, BeginStep, TimeStep DEF Next, vars, banVars
  <2>2. pc[r] \in {"clean", "lift", "insert"}
    BY <2>0, <2>1 DEF HandlerStep, CheckLocked, GetBanCache, SelectBan, CleanBan, FillBanCache,
       ClearFailures, IncrementFailure, SetWindow, LiftBan, InsertBan, DeleteBanCache, Verify,
       FetchKey, StoreKey, Reverify, HandlerFault, RequestFails, ErrorDropped, Crash, banVars
  <2>3. CASE pc[r] = "insert"
    <3>1. Standing = {}
      BY <2>0, <2>1, <2>3 DEF HandlerStep, CheckLocked, GetBanCache, SelectBan, CleanBan,
         FillBanCache, ClearFailures, IncrementFailure, SetWindow, LiftBan, InsertBan,
         DeleteBanCache, Verify, FetchKey, StoreKey, Reverify, HandlerFault, RequestFails,
         ErrorDropped, Crash, banVars
    <3>. QED  BY <3>1
  <2>4. CASE pc[r] = "clean" /\ r \notin unclean
    <3>1. Active(r) /\ OnBan(call[r])
      <4>1. Active(r) /\ call[r].op \in {"login", "refresh"}
        BY <2>4, Now DEF Active, CallAt
      <4>. QED  BY <4>1 DEF OnBan, OnKey
    <3>2. Standing \subseteq over
      BY <1>1, <2>4, <3>1 DEF BanInv, BanProgress
    <3>. QED  BY <3>2
  <2>. QED  BY <2>2, <2>3, <2>4
<1>. QED  BY <1>1, BanInit, BanStep, PTL DEF Spec, BansStand

=============================================================================
