------------------------------ MODULE Delivery ------------------------------
(***************************************************************************)
(* What publisher, broker, worker and handler together promise of an event *)
(* that has to be turned into notices: at least once. An event is taken or *)
(* given up at the start. Once taken it is never lost, and it is settled,  *)
(* once, when all its notices are there. Only events that were taken make  *)
(* notices; nothing says how many copies.                                  *)
(***************************************************************************)
EXTENDS Naturals

CONSTANTS
  Msgs,   \* the events
  Keys,   \* the notices
  Needs   \* the notices an event has to be turned into

VARIABLES
  accepted,   \* events taken
  lost,       \* events given up
  settled,    \* events done with
  copies      \* how often each notice was written

Init ==
  /\ accepted = {} /\ lost = {} /\ settled = {}
  /\ copies = [k \in Keys |-> 0]

Accept(m) ==
  /\ m \notin accepted \cup lost
  /\ accepted' = accepted \cup {m}
  /\ UNCHANGED <<lost, settled, copies>>

GiveUp(m) ==
  /\ m \notin lost /\ lost' = lost \cup {m}
  /\ m \notin accepted
  /\ UNCHANGED <<accepted, settled, copies>>

Write(m, k) ==
  /\ k \in Needs[m] /\ m \in accepted
  /\ copies' = [copies EXCEPT ![k] = @ + 1]
  /\ UNCHANGED <<accepted, lost, settled>>

Settle(m) ==
  /\ m \notin settled /\ settled' = settled \cup {m}
  /\ m \in accepted /\ \A k \in Needs[m] : copies[k] > 0
  /\ UNCHANGED <<accepted, lost, copies>>

Next ==
  \E m \in Msgs : \/ Accept(m) \/ GiveUp(m) \/ Settle(m)
                  \/ \E k \in Keys : Write(m, k)

Spec == Init /\ [][Next]_<<accepted, lost, settled, copies>>
=============================================================================
