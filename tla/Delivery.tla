------------------------------- MODULE Delivery -------------------------------
(***************************************************************************)
(* What synchronisation promises a device, whatever the network does: an   *)
(* item is confirmed only once the server has it, what the server has it   *)
(* keeps, and nothing stays in the queue for ever.                         *)
(***************************************************************************)
CONSTANT Items  \* what the device records offline

VARIABLES recorded, \* the items the server has
          told      \* the answer that the device holds for each item

vars == <<recorded, told>>

Init ==
  /\ recorded = {}
  /\ told = [item \in Items |-> "new"]

Queue(item) ==
  /\ told[item] = "new"
  /\ told' = [told EXCEPT ![item] = "queued"]
  /\ UNCHANGED recorded

\* The server takes what the device has queued, perhaps long after the device
\* has given up on that attempt.
Take(item) ==
  /\ told[item] # "new"
  /\ item \notin recorded
  /\ recorded' = recorded \cup {item}
  /\ UNCHANGED told

\* One answer may confirm some items and refuse others.
Answer ==
  /\ \A item \in Items :
       told'[item] # told[item] =>
         /\ told[item] = "queued"
         /\ told'[item] \in {"applied", "refused"}
         /\ told'[item] = "applied" => item \in recorded
  /\ UNCHANGED recorded

Next == Answer \/ \E item \in Items : Queue(item) \/ Take(item)

Drains == \A item \in Items : told[item] = "queued" ~> told[item] # "queued"

Spec == Init /\ [][Next]_vars /\ Drains
===============================================================================
