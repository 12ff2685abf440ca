----------------------------- MODULE MCAccess -----------------------------
(* Logins with the right and the wrong password, bans by either service and *)
(* their end, and tokens of two keys.                                       *)
EXTENDS Access, TLC

CONSTANTS r1, r2, r3

MCThreeRequests == {r1, r2, r3}

MCCalls ==
  [op : {"login"}, right : BOOLEAN] \cup [op : {"refresh", "ban", "superban", "superunban", "pull"}]
    \cup [op : {"validate"}, key : 1 .. 2]

\* Bans and keys share no state: while only logins and bans have come, a
\* rotation or a first fetch changes nothing they read and is not followed. Those
\* are, in every combination, where a request that uses a key came first.
KeysMoveForTheirUsers ==
  (\E r \in Requests : call[r] # NoCall /\ OnBan(call[r]))
    /\ (\A r \in Requests : call[r] # NoCall => OnBan(call[r]))
  => key = 1 /\ gatewayKey = 1

RequestSymmetry == Permutations(MCThreeRequests)
=============================================================================
