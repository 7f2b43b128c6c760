------------------------------ MODULE OrderLife ------------------------------
(***************************************************************************)
(* What one order goes through, whoever moves it: the contract between the *)
(* writers of orders.status.  It is placed, locked for a payment, released *)
(* or paid, edited along the tables of status_machine.py, sent in for      *)
(* repair, completed, or canceled for good.                                *)
(*                                                                         *)
(* Modules Payment and Claims implement it, each with the locks its        *)
(* writers take: no writer acts on a status that another has changed.      *)
(***************************************************************************)
EXTENDS OrderStatus

CONSTANT type   \* orders.order_type

VARIABLES
  status,       \* orders.status, or "none" before the order exists
  arrivedFrom   \* the send status it was last received from, or "none"

life == <<status, arrivedFrom>>

LifeInit == status \in {"none", "pending"} /\ arrivedFrom = "none"

Turns(from, to) == status \in from /\ status' = to /\ UNCHANGED arrivedFrom

Placed    == Turns({"none"}, "pending")
Locked    == Turns({"pending"}, "paying")
Released  == Turns({"paying"}, "pending")
Paid      == Turns({"paying"}, PostStatus(type))
SentIn    == \E new \in {"sent", "sendCheck"} : Turns({"toSend"}, new)
Completed == Turns({"shipping", "delivered"}, "completed")

\* By the stale batch, or because the money went back at Toss.
Canceled  == Turns(OrderStatuses, "canceled")

\* By an operator, as the tables allow from the status the order has.
Edited ==
  \E new \in OrderStatuses, isRollback \in BOOLEAN :
    /\ status # "none"
    /\ ValidTransition(type, status, new, isRollback, arrivedFrom)
    /\ status' = new
    /\ arrivedFrom' = IF new = "received" /\ status \in RepairSendStatuses
                        THEN status ELSE arrivedFrom

LifeNext ==
  \/ Placed \/ Locked \/ Released \/ Paid \/ SentIn \/ Completed \/ Canceled \/ Edited

LifeSpec == LifeInit /\ [][LifeNext]_life
=============================================================================
