------------------------------ MODULE Access ------------------------------
(***************************************************************************)
(* Who is let in: the auth service of service/auth, which locks an account *)
(* after failed logins, bans users, and rotates the key that signs access  *)
(* tokens; the superuser service, which bans in the same table; and the    *)
(* validator of service/gateway, which checks tokens with the public key   *)
(* it last fetched.                                                        *)
(*                                                                         *)
(* One user.  Bans are rows of PostgreSQL with an answer cached in Redis,  *)
(* failed logins a counter in Redis.  A request takes one step per         *)
(* statement, command or RPC, each of which may fail or be the last of its *)
(* process.  Time is the expiry of a ban, a key of Redis or a signing key. *)
(*                                                                         *)
(* Left out: registration, deactivated accounts, the hashing of passwords, *)
(* the time of the last login, refresh tokens' own signature, log-outs,    *)
(* the superuser's audit log.  UnbanUser of the auth service is reached by *)
(* no RPC: a ban is lifted by the superuser or by another one.             *)
(***************************************************************************)
EXTENDS Integers, FiniteSets

CONSTANTS
  Requests,      \* RPCs, each served once
  Calls,         \* the RPCs that may arrive
  NoCall,
  OldBan,        \* a ban that may be there to begin with
  MaxAttempts,   \* MaxLoginAttempts
  MaxKeys,       \* bound: signing keys
  MaxFaults      \* bound: failures

Keys == 1 .. MaxKeys
Bans == Requests \cup {OldBan}

ASSUME AccessAssumption ==
  /\ OldBan \notin Requests
  /\ MaxAttempts \in Nat \ {0}
  /\ MaxKeys \in Nat \ {0}
  /\ MaxFaults \in Nat
  /\ Calls \subseteq
       [op : {"login"}, right : BOOLEAN] \cup [op : {"refresh", "ban", "superban", "superunban", "pull"}]
       \cup [op : {"validate"}, key : Keys]
  /\ NoCall \notin Calls

VARIABLES
  bans,       \* the rows of user_bans: no row yet, active or inactive
  over,       \* bans whose expires_at has passed
  banCache,   \* auth:ban:<user>: absent, banned or free
  failures,   \* auth:login:attempt:<user>, 0 when there is no key
  fading,     \* that key has an expiry
  key,        \* the key that signs; the first one is 1
  gatewayKey, \* the key the gateway verifies with, 0 before its first fetch
  pc, call, reply,
  got,        \* what a request has fetched: the ban's verdict, a count or a key
  unclean,    \* requests that met another one on the ban or on the key, or a failure
  stale,      \* such a request, or a superuser, may have left banCache wrong
  barred,     \* requests that began while the user was banned
  current,    \* requests whose token is signed by the key of their time
  faults      \* failures so far

banVars == <<bans, over, banCache, stale, barred>>
attempts == <<failures, fading>>
keyVars == <<key, gatewayKey, current>>
reqVars == <<pc, call, reply, got>>
vars == <<banVars, attempts, keyVars, reqVars, unclean, faults>>

Active(r) == pc[r] \notin {"idle", "done"}
Goto(r, label) == pc' = [pc EXCEPT ![r] = label]

Standing == {b \in Bans : bans[b] = "active"}
InForce == Standing \ over # {}

OnKey(a) == a.op \in {"pull", "validate"}
OnBan(a) == ~OnKey(a)
Rivals(a) == {q \in Requests : Active(q) /\ OnKey(call[q]) = OnKey(a)}

\* An RPC ends. Whatever an unclean one did to the cache may be wrong.
Answer(r, answer) ==
  /\ Goto(r, "done")
  /\ reply' = [reply EXCEPT ![r] = answer]
  /\ got' = [got EXCEPT ![r] = 0]

End(r, answer, clean) ==
  /\ Answer(r, answer)
  /\ stale' = (stale \/ (OnBan(call[r]) /\ ~clean))

Finish(r, answer) == End(r, answer, r \notin unclean)

-----------------------------------------------------------------------------
\* The account may be banned for a while or nearly locked; the gateway has the
\* key or has still to fetch it.
Init ==
  /\ bans \in {[b \in Bans |-> IF b = OldBan THEN s ELSE "none"] : s \in {"none", "active"}}
  /\ over = {}
  /\ banCache \in {"absent", IF InForce THEN "banned" ELSE "free"}
  /\ failures \in {0, MaxAttempts - 1}
  /\ fading = (failures > 0)
  /\ key = 1
  /\ gatewayKey \in {0, 1}
  /\ pc = [r \in Requests |-> "idle"]
  /\ call = [r \in Requests |-> NoCall]
  /\ reply = [r \in Requests |-> "none"]
  /\ got = [r \in Requests |-> 0]
  /\ unclean = {}
  /\ stale = FALSE
  /\ barred = {}
  /\ current = {}
  /\ faults = 0

First(op) ==
  CASE op = "login" -> "locked"
    [] op = "refresh" -> "cached"
    [] op \in {"ban", "superban", "superunban"} -> "lift"
    [] op = "pull" -> "fetch"
    [] op = "validate" -> "verify"

\* A token is signed by a key that signs or has signed.
Begin(r, a) ==
  /\ pc[r] = "idle"
  /\ a.op = "validate" => a.key <= key
  /\ call' = [call EXCEPT ![r] = a]
  /\ Goto(r, First(a.op))
  /\ unclean' = IF Rivals(a) = {} THEN unclean ELSE unclean \cup Rivals(a) \cup {r}
  /\ barred' = IF a.op \in {"login", "refresh"} /\ InForce /\ ~stale
               THEN barred \cup {r} ELSE barred
  /\ current' = IF a.op = "validate" /\ a.key = key THEN current \cup {r} ELSE current
  /\ UNCHANGED <<bans, over, banCache, stale, attempts, key, gatewayKey, reply, got, faults>>

-----------------------------------------------------------------------------
(* Login and RefreshToken. *)

\* IsLocked.
CheckLocked(r) ==
  /\ pc[r] = "locked"
  /\ \/ failures >= MaxAttempts /\ Finish(r, "locked")
     \/ failures < MaxAttempts /\ Goto(r, "cached") /\ UNCHANGED <<reply, got, stale>>
  /\ UNCHANGED <<bans, over, banCache, barred, attempts, keyVars, call, unclean, faults>>

\* What comes after CheckBanned has answered free.
AfterCheck(r) ==
  IF call[r].op = "login" THEN Goto(r, "password") /\ UNCHANGED <<reply, got, stale>>
  ELSE Finish(r, "ok")

\* CheckBanned: the cached answer, whether or not the ban has ended since.
GetBanCache(r) ==
  /\ pc[r] = "cached"
  /\ \/ banCache = "banned" /\ Finish(r, "banned")
     \/ banCache = "free" /\ AfterCheck(r)
     \/ banCache = "absent" /\ Goto(r, "select") /\ UNCHANGED <<reply, got, stale>>
  /\ UNCHANGED <<bans, over, banCache, barred, attempts, keyVars, call, unclean, faults>>

\* A check that takes every ban for one that is over.
SelectBanBug(r) ==
  /\ pc[r] = "select"
  /\ got' = [got EXCEPT ![r] = 0]
  /\ Goto(r, IF Standing = {} THEN "fill" ELSE "clean")
  /\ UNCHANGED <<banVars, attempts, keyVars, call, reply, unclean, faults>>

\* GetByUserID gives the active row, if there is one. got is 1 for a ban that
\* goes on.
SelectBan(r) ==
  /\ pc[r] = "select"
  /\ \/ Standing = {} /\ got' = [got EXCEPT ![r] = 0] /\ Goto(r, "fill")
     \/ \E b \in Standing :
          \/ b \in over /\ got' = [got EXCEPT ![r] = 0] /\ Goto(r, "clean")
          \/ b \notin over /\ got' = [got EXCEPT ![r] = 1] /\ Goto(r, "fill")
  /\ UNCHANGED <<banVars, attempts, keyVars, call, reply, unclean, faults>>

\* The rows a Delete, or the first statement of a Create, deactivates: those
\* that are active by then.
Lifted == [b \in Bans |-> IF bans[b] = "active" THEN "inactive" ELSE bans[b]]

\* IsUserBanned deletes the ban it has found to be over - by the user's id.
CleanBan(r) ==
  /\ pc[r] = "clean"
  /\ bans' = Lifted
  /\ Goto(r, "fill")
  /\ UNCHANGED <<over, banCache, stale, barred, attempts, keyVars, call, reply, got, unclean, faults>>

Verdict(r) ==
  IF got[r] = 1 THEN Finish(r, "banned") ELSE AfterCheck(r)

FillBanCache(r) ==
  /\ pc[r] = "fill"
  /\ banCache' = IF got[r] = 1 THEN "banned" ELSE "free"
  /\ Verdict(r)
  /\ UNCHANGED <<bans, over, barred, attempts, keyVars, call, unclean, faults>>

\* A clearing that leaves the expiry of the key it has reset.
ClearFailuresBug(r) ==
  /\ pc[r] = "password" /\ call[r].right
  /\ failures' = 0 /\ UNCHANGED fading
  /\ Finish(r, "ok")
  /\ UNCHANGED <<bans, over, banCache, barred, keyVars, call, unclean, faults>>

\* The right password; the tokens are signed.
ClearFailures(r) ==
  /\ pc[r] = "password" /\ call[r].right
  /\ failures' = 0 /\ fading' = FALSE
  /\ Finish(r, "ok")
  /\ UNCHANGED <<bans, over, banCache, barred, keyVars, call, unclean, faults>>

\* A count that gets its expiry at the second failure.
IncrementFailureBug(r) ==
  /\ pc[r] = "password" /\ ~call[r].right
  /\ failures' = failures + 1
  /\ UNCHANGED fading
  /\ \/ failures = 1 /\ Goto(r, "window") /\ UNCHANGED <<reply, got, stale>>
     \/ failures # 1 /\ Finish(r, "wrong")
  /\ UNCHANGED <<bans, over, banCache, barred, keyVars, call, unclean, faults>>

\* The wrong password: the first failure is to give the count its expiry.
IncrementFailure(r) ==
  /\ pc[r] = "password" /\ ~call[r].right
  /\ failures' = failures + 1
  /\ UNCHANGED fading
  /\ \/ failures = 0 /\ Goto(r, "window") /\ UNCHANGED <<reply, got, stale>>
     \/ failures > 0 /\ Finish(r, "wrong")
  /\ UNCHANGED <<bans, over, banCache, barred, keyVars, call, unclean, faults>>

\* EXPIRE, after the first failure only; a key that is gone gets none.
SetWindow(r) ==
  /\ pc[r] = "window"
  /\ fading' = (failures > 0)
  /\ Finish(r, "wrong")
  /\ UNCHANGED <<bans, over, banCache, barred, failures, keyVars, call, unclean, faults>>

-----------------------------------------------------------------------------
(* BanUser of the auth service, BanUser and UnbanUser of the superuser's. *)

\* The superuser service does not know of the cache. Its ban is hidden by an
\* answer that lets the user in, what it lifts by one that does not.
EndUncached(r) ==
  End(r, "ok", /\ r \notin unclean
               /\ banCache # IF call[r].op = "superban" THEN "free" ELSE "banned")

\* The UPDATE before a ban, or that of Unban.
LiftBan(r) ==
  /\ pc[r] = "lift"
  /\ bans' = Lifted
  /\ \/ call[r].op = "superunban" /\ EndUncached(r)
     \/ call[r].op # "superunban" /\ Goto(r, "insert") /\ UNCHANGED <<reply, got, stale>>
  /\ UNCHANGED <<over, banCache, barred, attempts, keyVars, call, unclean, faults>>

\* The auth service's ban, if it did not look after the cache either.
InsertBanBug(r) ==
  /\ pc[r] = "insert"
  /\ \/ /\ Standing = {}
        /\ bans' = [bans EXCEPT ![r] = "active"]
        /\ \/ call[r].op = "ban" /\ Finish(r, "ok")
           \/ call[r].op = "superban" /\ EndUncached(r)
     \/ Standing # {} /\ Finish(r, "error") /\ UNCHANGED bans
  /\ UNCHANGED <<over, banCache, barred, attempts, keyVars, call, unclean, faults>>

\* The index of active bans is unique by user: one that was put there since, or
\* not lifted, is in the way.
InsertBan(r) ==
  /\ pc[r] = "insert"
  /\ \/ /\ Standing = {}
        /\ bans' = [bans EXCEPT ![r] = "active"]
        /\ \/ call[r].op = "ban" /\ Goto(r, "uncache") /\ UNCHANGED <<reply, got, stale>>
           \/ call[r].op = "superban" /\ EndUncached(r)
     \/ Standing # {} /\ Finish(r, "error") /\ UNCHANGED bans
  /\ UNCHANGED <<over, banCache, barred, attempts, keyVars, call, unclean, faults>>

\* The auth service deletes the cached answer, and with it what was wrong of it.
DeleteBanCache(r) ==
  /\ pc[r] = "uncache"
  /\ banCache' = "absent"
  /\ Answer(r, "ok")
  /\ stale' = (r \in unclean)
  /\ UNCHANGED <<bans, over, barred, attempts, keyVars, call, unclean, faults>>

-----------------------------------------------------------------------------
(* The gateway's validator. *)

\* ValidateToken: with the right key at hand, at once; else it is fetched.
Verify(r) ==
  /\ pc[r] = "verify"
  /\ \/ gatewayKey = 0 /\ Finish(r, "no_key")
     \/ gatewayKey # 0 /\ gatewayKey = call[r].key /\ Finish(r, "ok")
     \/ /\ gatewayKey # 0 /\ gatewayKey # call[r].key
        /\ Goto(r, "fetch") /\ UNCHANGED <<reply, got, stale>>
  /\ UNCHANGED <<bans, over, banCache, barred, attempts, keyVars, call, unclean, faults>>

\* GetPublicKey gives the current key alone.
FetchKey(r) ==
  /\ pc[r] = "fetch"
  /\ got' = [got EXCEPT ![r] = key]
  /\ Goto(r, "store")
  /\ UNCHANGED <<banVars, attempts, keyVars, call, reply, unclean, faults>>

\* A refresh that does not keep what it has fetched.
StoreKeyBug(r) ==
  /\ pc[r] = "store"
  /\ IF call[r].op = "pull"
     THEN gatewayKey' = got[r] /\ Finish(r, "ok")
     ELSE /\ Goto(r, "reverify") /\ got' = [got EXCEPT ![r] = 0]
          /\ UNCHANGED <<gatewayKey, reply, stale>>
  /\ UNCHANGED <<bans, over, banCache, barred, attempts, key, current, call, unclean, faults>>

\* refreshPublicKey stores what it was given, be there a newer one by now. It
\* is called from Start and backgroundRefresh, too.
StoreKey(r) ==
  /\ pc[r] = "store"
  /\ gatewayKey' = got[r]
  /\ IF call[r].op = "pull" THEN Finish(r, "ok")
     ELSE Goto(r, "reverify") /\ got' = [got EXCEPT ![r] = 0] /\ UNCHANGED <<reply, stale>>
  /\ UNCHANGED <<bans, over, banCache, barred, attempts, key, current, call, unclean, faults>>

\* With the key that is stored now: a token of the key before is refused.
Reverify(r) ==
  /\ pc[r] = "reverify"
  /\ Finish(r, IF gatewayKey = call[r].key THEN "ok" ELSE "rejected")
  /\ UNCHANGED <<bans, over, banCache, barred, attempts, keyVars, call, unclean, faults>>

-----------------------------------------------------------------------------
(* Time. *)

\* rotateKey, or a restart of the auth service: its keys are in memory.
Rotate ==
  /\ key < MaxKeys
  /\ key' = key + 1
  /\ current' = {r \in current : ~Active(r)}
  /\ UNCHANGED <<banVars, attempts, gatewayKey, reqVars, unclean, faults>>

\* The expires_at of a ban passes. A ban without one never takes this step, as
\* any may not.
BanEnds(b) ==
  /\ b \in Standing \ over
  /\ over' = over \cup {b}
  /\ barred' = {}
  /\ UNCHANGED <<bans, banCache, stale, attempts, keyVars, reqVars, unclean, faults>>

\* The cached answer expires, and its faults with it if nobody is at work.
BanCacheExpires ==
  /\ banCache # "absent"
  /\ banCache' = "absent"
  /\ stale' = (stale /\ \E r \in Requests : Active(r) /\ OnBan(call[r]))
  /\ UNCHANGED <<bans, over, barred, attempts, keyVars, reqVars, unclean, faults>>

\* LoginLockoutTime is over.
FailuresExpire ==
  /\ fading
  /\ failures' = 0 /\ fading' = FALSE
  /\ UNCHANGED <<banVars, keyVars, reqVars, unclean, faults>>

-----------------------------------------------------------------------------
(* Failures. *)

\* A statement or RPC whose error the caller gets to see.
RequestFails(r) ==
  /\ pc[r] \in {"select", "insert", "fetch"} \/ (pc[r] = "lift" /\ call[r].op = "superunban")
  /\ faults < MaxFaults
  /\ faults' = faults + 1
  /\ unclean' = unclean \cup {r}
  /\ \/ pc[r] = "insert" /\ Standing = {} /\ bans' = [bans EXCEPT ![r] = "active"]
     \/ pc[r] = "lift" /\ bans' = Lifted
     \/ UNCHANGED bans
  /\ End(r, "error", FALSE)
  /\ UNCHANGED <<over, banCache, barred, attempts, keyVars, call>>

\* One whose error is dropped: the request goes on as if it had been done. The
\* cache is then taken not to have the answer; a failed login that is counted
\* although its INCR fails gets no expiry.
ErrorDropped(r) ==
  /\ faults < MaxFaults
  /\ faults' = faults + 1
  /\ unclean' = unclean \cup {r}
  /\ \/ pc[r] = "locked" /\ Goto(r, "cached") /\ UNCHANGED <<reply, got, stale, failures>>
     \/ pc[r] = "cached" /\ Goto(r, "select") /\ UNCHANGED <<reply, got, stale, failures>>
     \/ pc[r] = "clean" /\ Goto(r, "fill") /\ UNCHANGED <<reply, got, stale, failures>>
     \/ pc[r] = "lift" /\ call[r].op # "superunban" /\ Goto(r, "insert")
        /\ UNCHANGED <<reply, got, stale, failures>>
     \/ pc[r] = "uncache" /\ End(r, "ok", FALSE) /\ UNCHANGED failures
     \/ /\ pc[r] = "fill"
        /\ \/ got[r] = 1 /\ End(r, "banned", FALSE)
           \/ got[r] = 0 /\ call[r].op = "login" /\ Goto(r, "password")
              /\ UNCHANGED <<reply, got, stale>>
           \/ got[r] = 0 /\ call[r].op = "refresh" /\ End(r, "ok", FALSE)
        /\ UNCHANGED failures
     \/ pc[r] = "window" /\ End(r, "wrong", FALSE) /\ UNCHANGED failures
     \/ pc[r] = "password" /\ call[r].right /\ End(r, "ok", FALSE) /\ UNCHANGED failures
     \/ /\ pc[r] = "password" /\ ~call[r].right
        /\ failures' \in {failures, failures + 1}
        /\ End(r, "wrong", FALSE)
  /\ UNCHANGED <<bans, over, banCache, barred, fading, keyVars, call>>

\* The process of the request stops.
Crash(r) ==
  /\ Active(r) /\ faults < MaxFaults
  /\ faults' = faults + 1
  /\ unclean' = unclean \cup {r}
  /\ End(r, "none", FALSE)
  /\ UNCHANGED <<bans, over, banCache, barred, attempts, keyVars, call>>

HandlerStep(r) ==
  \/ CheckLocked(r) \/ GetBanCache(r) \/ SelectBan(r) \/ CleanBan(r) \/ FillBanCache(r)
  \/ ClearFailures(r) \/ IncrementFailure(r) \/ SetWindow(r)
  \/ LiftBan(r) \/ InsertBan(r) \/ DeleteBanCache(r)
  \/ Verify(r) \/ FetchKey(r) \/ StoreKey(r) \/ Reverify(r)

HandlerFault(r) == RequestFails(r) \/ ErrorDropped(r) \/ Crash(r)

Next ==
  \/ \E r \in Requests : \/ \E a \in Calls : Begin(r, a)
                         \/ HandlerStep(r)
                         \/ HandlerFault(r)
  \/ \E b \in Bans : BanEnds(b)
  \/ Rotate \/ BanCacheExpires \/ FailuresExpire

Spec == Init /\ [][Next]_vars

-----------------------------------------------------------------------------
(* Properties. *)

TypeOK ==
  /\ bans \in [Bans -> {"none", "active", "inactive"}] /\ Cardinality(Standing) <= 1
  /\ over \subseteq Bans
  /\ banCache \in {"absent", "banned", "free"}
  /\ failures \in Nat
  /\ fading \in BOOLEAN /\ (fading => failures > 0)
  /\ key \in Keys
  /\ gatewayKey \in 0 .. MaxKeys
  /\ pc \in [Requests -> {"idle", "locked", "cached", "select", "clean", "fill", "password",
                          "window", "lift", "insert", "uncache", "verify", "fetch", "store",
                          "reverify", "done"}]
  /\ call \in [Requests -> Calls \cup {NoCall}]
  /\ reply \in [Requests -> {"none", "ok", "error", "locked", "banned", "wrong", "no_key",
                             "rejected"}]
  /\ got \in [Requests -> 0 .. MaxKeys]
  /\ unclean \subseteq Requests
  /\ stale \in BOOLEAN
  /\ barred \subseteq Requests
  /\ current \subseteq Requests
  /\ faults \in 0 .. MaxFaults

\* What is cached of a ban is what the table says, when nobody is at work on
\* it, whoever has banned or lifted. Two things excepted, until the answer
\* expires or the auth service bans again: what requests that met or failed have
\* left there, and an answer that was there when the superuser service wrote the
\* opposite in the table.
BanCacheAgrees ==
  ~stale /\ (\A r \in Requests : Active(r) => OnKey(call[r]))
    => /\ banCache = "free" => ~InForce
       /\ banCache = "banned" => Standing # {}

BannedStayOut == \A r \in barred \ unclean : reply[r] # "ok"

\* So nobody who was banned when he came is let in, but in that time or if his
\* request met another one or a failure.
BansTakeHold == BanCacheAgrees /\ BannedStayOut

\* A ban that goes on is lifted by the superuser or by another ban, never by the
\* check that cleans up after one that is over, unless another request met it.
BansStand ==
  [][\A b \in Standing \ over : bans'[b] = "inactive"
       => \E r \in Requests : \/ pc[r] = "lift"
                              \/ pc[r] = "clean" /\ r \in unclean]_vars

\* Failed logins are forgotten some time: a count without an expiry is one that
\* a request is about to give one, or whose EXPIRE failed.
FailuresFade ==
  failures > 0 /\ ~fading => faults > 0 \/ \E r \in Requests : pc[r] = "window"

\* A token of the key that signs is accepted, however late the gateway hears of
\* the key, unless a validation or a fetch of another request meets it, or
\* something fails.
CurrentTokenAccepted ==
  \A r \in current \ unclean : pc[r] = "done" => reply[r] \in {"ok", "no_key"}
=============================================================================
