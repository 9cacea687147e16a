--------------------------- MODULE OutboxDelivery ---------------------------
(***************************************************************************)
(* What the outbox promises about an event, without publishers, batches,   *)
(* claims, retries or crashes: an event written is queued until it either  *)
(* has been delivered to every handler that must get it, or is given up;   *)
(* handlers get it only while it is queued; both ends are final.           *)
(***************************************************************************)
CONSTANTS
  Events,
  Subscriptions,
  Audience         \* Audience[e]: the subscriptions whose handlers must get e

VARIABLES
  state,           \* "absent", "queued", "published" or "failed"
  delivered        \* the pairs <<e, s>> such that s has handled e

Init ==
  /\ state = [e \in Events |-> "absent"]
  /\ delivered = {}

Move(e, from, to) ==
  /\ state[e] = from
  /\ state' = [state EXCEPT ![e] = to]
  /\ UNCHANGED delivered

Write(e) == Move(e, "absent", "queued")

Deliver(e, s) ==
  /\ state[e] = "queued"
  /\ s \in Audience[e]
  /\ delivered' = delivered \union {<<e, s>>}
  /\ UNCHANGED state

Publish(e) ==
  /\ \A s \in Audience[e] : <<e, s>> \in delivered
  /\ Move(e, "queued", "published")

GiveUp(e) == Move(e, "queued", "failed")

Next ==
  \E e \in Events :
    \/ Write(e) \/ Publish(e) \/ GiveUp(e)
    \/ \E s \in Subscriptions : Deliver(e, s)

Spec == Init /\ [][Next]_<<state, delivered>>
=============================================================================
