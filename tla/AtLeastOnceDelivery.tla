------------------------ MODULE AtLeastOnceDelivery ------------------------
(***************************************************************************)
(* What the transactional outbox promises about each of its messages,      *)
(* without saying how: a message that was accepted may be handed to the    *)
(* transport any number of times while it is pending, and is settled once, *)
(* as published or as failed.  It may be settled as published only after   *)
(* it was handed over, and nothing happens to a settled message.           *)
(*                                                                         *)
(* Outbox.tla implements this specification: its polling workers, row      *)
(* locks, retries, commits and rollbacks are all steps of it or stutters.  *)
(***************************************************************************)
EXTENDS Naturals

CONSTANT Messages            \* the messages that may be accepted

VARIABLES
    state,                   \* [Messages -> "none", "pending", "published" or "failed"]
    delivered                \* [Messages -> Nat]: times handed to the transport

deliveryVars == <<state, delivered>>

Settled == {"published", "failed"}

DeliveryTypeOK ==
    /\ state \in [Messages -> {"none", "pending"} \cup Settled]
    /\ delivered \in [Messages -> Nat]

DeliveryInit ==
    /\ state = [m \in Messages |-> "none"]
    /\ delivered = [m \in Messages |-> 0]

Accept(m) ==
    /\ state[m] = "none"
    /\ state' = [state EXCEPT ![m] = "pending"]
    /\ UNCHANGED delivered

Deliver(m) ==
    /\ state[m] = "pending"
    /\ delivered' = [delivered EXCEPT ![m] = @ + 1]
    /\ UNCHANGED state

(* One atomic decision about a set of messages: those in P become          *)
(* published, those in F failed.                                           *)
Settle(P, F) ==
    /\ \A m \in P \cup F : state[m] = "pending"
    /\ \A m \in P : delivered[m] > 0
    /\ state' = [m \in Messages |-> IF m \in P THEN "published"
                                    ELSE IF m \in F THEN "failed"
                                    ELSE state[m]]
    /\ UNCHANGED delivered

DeliveryNext ==
    \/ \E m \in Messages : Accept(m) \/ Deliver(m)
    \/ \E P, F \in SUBSET Messages : Settle(P, F)

DeliverySpec == DeliveryInit /\ [][DeliveryNext]_deliveryVars
=============================================================================
