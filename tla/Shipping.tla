------------------------------ MODULE Shipping ------------------------------
(***************************************************************************)
(* The outbound shipment of one paid order: operators advance the order    *)
(* and edit its courier and tracking number, the owner or the batch        *)
(* completes it, and a shipping notice goes out when an order that is      *)
(* shipping has both.  admin_update_tracking decides on the notice after   *)
(* its commit, from a fresh read of the order, so other requests run in    *)
(* between.  The claims that stop all this are in module Claims.           *)
(***************************************************************************)
EXTENDS OrderStatus

CONSTANTS
  Type,        \* orders.order_type
  Editors      \* tracking edits handled at the same time

ASSUME ShippingAssumption == Type \in OrderTypes

VARIABLES
  status,     \* orders.status
  courier,    \* courier_company is recorded; of a repair order, which is
              \* shipped both ways, company_courier_company
  shippedAt,  \* shipped_at (company_shipped_at), set with the tracking
              \* number: "null", less than 7 days ago, or longer
  editor,     \* what a tracking edit found before its commit
  announced   \* a notice was sent since the pair was last completed

vars == <<status, courier, shippedAt, editor, announced>>

\* _shipment_ready
Ready == courier /\ shippedAt # "null"

TypeOK ==
  /\ status \in OrderStatuses
  /\ courier \in BOOLEAN
  /\ shippedAt \in {"null", "recent", "old"}
  /\ editor \in [Editors -> {"idle", "wasReady", "wasNotReady"}]
  /\ announced \in BOOLEAN

Init ==
  /\ status = PostStatus(Type)
  /\ courier = FALSE /\ shippedAt = "null"
  /\ editor = [e \in Editors |-> "idle"]
  /\ announced = FALSE

NotifyIf(due) == announced' = (due \/ announced)

-----------------------------------------------------------------------------
\* Mutant: the notice of an order that enters shipping is left to the edit.
MoveWithoutNotice(new) ==
  /\ new # "pending"
  /\ \E isRollback \in BOOLEAN :
       ValidTransition(Type, status, new, isRollback, "none")
  /\ status' = new
  /\ UNCHANGED <<courier, shippedAt, editor, announced>>

\* admin_update_status: entering shipping with a complete pair sends the
\* notice.  A rollback to pending leaves this module.
Move(new) ==
  /\ new # "pending"
  /\ \E isRollback \in BOOLEAN :
       /\ ValidTransition(Type, status, new, isRollback, "none")
       /\ NotifyIf(~isRollback /\ new = "shipping" /\ Ready)
  /\ status' = new
  /\ UNCHANGED <<courier, shippedAt, editor>>

\* admin_update_tracking up to its commit.  A number that is only changed
\* keeps its date.
EditTracking(e, withCourier, withNumber) ==
  /\ editor[e] = "idle"
  /\ status \notin {"delivered", "completed", "canceled"}
  /\ courier' = withCourier
  /\ shippedAt' = IF ~withNumber THEN "null"
                  ELSE IF shippedAt = "null" THEN "recent" ELSE shippedAt
  /\ editor' = [editor EXCEPT ![e] = IF Ready THEN "wasReady" ELSE "wasNotReady"]
  /\ announced' = (announced /\ (Ready \/ ~withCourier \/ ~withNumber))
  /\ UNCHANGED status

\* Its refresh and the notice.
EditTrackingNotifies(e) ==
  /\ editor[e] # "idle"
  /\ NotifyIf(status = "shipping" /\ editor[e] = "wasNotReady" /\ Ready)
  /\ editor' = [editor EXCEPT ![e] = "idle"]
  /\ UNCHANGED <<status, courier, shippedAt>>

\* confirm_purchase.
ConfirmPurchase ==
  /\ status \in {"delivered", "shipping"}
  /\ status' = "completed"
  /\ UNCHANGED <<courier, shippedAt, editor, announced>>

\* Mutant: the batch reads delivered_at, which nothing writes, for every order.
AutoConfirmDelivered ==
  /\ status = "delivered" /\ shippedAt = "old"
  /\ status' = "completed"
  /\ UNCHANGED <<courier, shippedAt, editor, announced>>

\* auto_confirm_orders: 7 days after the shipment, or 7 days after
\* delivered_at, which no code writes.
AutoConfirm ==
  /\ status = "shipping" /\ shippedAt = "old"
  /\ status' = "completed"
  /\ UNCHANGED <<courier, shippedAt, editor, announced>>

SevenDaysPass ==
  /\ shippedAt = "recent"
  /\ shippedAt' = "old"
  /\ UNCHANGED <<status, courier, editor, announced>>

Next ==
  \/ \E new \in OrderStatuses : Move(new)
  \/ \E e \in Editors, withCourier, withNumber \in BOOLEAN :
       EditTracking(e, withCourier, withNumber)
  \/ \E e \in Editors : EditTrackingNotifies(e)
  \/ ConfirmPurchase
  \/ AutoConfirm
  \/ SevenDaysPass

Spec == Init /\ [][Next]_vars

\* Time passes, and the daily batch is not skipped for ever: it passes over
\* rows that happen to be locked, but comes back.
FairSpec == Spec /\ WF_vars(SevenDaysPass) /\ SF_vars(AutoConfirm)

-----------------------------------------------------------------------------
(* Properties *)

\* money.md section 8: whichever of the status and the shipment is completed
\* last sends the notice.  So an order that is shipping with both has had its
\* notice once the edits under way are through, in whatever order the edits
\* and the status change commit and read.
NoticeNotLost ==
  status = "shipping" /\ Ready /\ (\A e \in Editors : editor[e] = "idle") =>
    announced

\* auto_confirm_orders: an order that ships with a tracking number does not
\* stay shipping for ever, unless the number is withdrawn.
ShippedEventuallyCompleted ==
  status = "shipping" /\ shippedAt # "null" ~>
    status # "shipping" \/ shippedAt = "null"

\* money.md section 7: a delivered order is completed after 7 days.  No code writes
\* delivered_at, the code does not keep this, and no run checks it.
DeliveredEventuallyCompleted == status = "delivered" ~> status = "completed"
=============================================================================
