------------------------------- MODULE Claims -------------------------------
(***************************************************************************)
(* Claims (cancel, return, exchange) on orders that are being moved by     *)
(* operators, their owner, the payment path and the batches.               *)
(*                                                                         *)
(* create_claim, admin_update_status of orders, confirm_purchase and the   *)
(* repair receipts hold the advisory lock order:<id> from their first read *)
(* to their commit; all but create_claim also lock the order row.  Each is *)
(* two actions here: what it reads (Begin...) and its commit (Commit...).  *)
(* Payment and the batches lock the order row only, and the edits of a     *)
(* claim lock the claim row only: they run between the two.                *)
(***************************************************************************)
EXTENDS ClaimStatus, Integers, FiniteSets

CONSTANTS
  Orders,
  TypeOf,      \* [Orders -> OrderTypes]
  Items,       \* order_items
  OrderOf,     \* [Items -> Orders]
  Claims,      \* claims rows; a bound on the claims that exist at a time
  NoItem,
  Jobs,        \* which of JobKinds run
  ClaimEdges   \* the <<current, new>> claim edits operators ask for

JobKinds == {"pay", "stale", "autoConfirm", "webhook"}

ASSUME ClaimsAssumption ==
  /\ TypeOf \in [Orders -> OrderTypes]
  /\ OrderOf \in [Items -> Orders]
  /\ NoItem \notin Items
  /\ Jobs \subseteq JobKinds
  /\ ClaimEdges \subseteq ClaimStatuses \X ClaimStatuses

VARIABLES
  status,       \* orders.status
  arrivedFrom,  \* the send status a repair order was last received from
  claim,        \* the claims rows; status "none" when the row does not exist
  txn           \* what the holder of order:<id> is doing

vars == <<status, arrivedFrom, claim, txn>>

NoRow == [item |-> NoItem, type |-> "none", status |-> "none"]
Free  == [op |-> "free", item |-> NoItem, what |-> "none"]

TypeOK ==
  /\ status \in [Orders -> OrderStatuses]
  /\ arrivedFrom \in [Orders -> RepairSendStatuses \union {"none"}]
  /\ claim \in [Claims -> [item : Items, type : ClaimTypes,
                           status : ClaimStatuses] \union {NoRow}]
  /\ txn \in [Orders -> [op : {"free", "claim", "move", "confirm"},
                         item : Items \union {NoItem},
                         what : OrderStatuses \union ClaimTypes \union {"none"}]]

Init ==
  /\ status = [o \in Orders |-> "pending"]
  /\ arrivedFrom = [o \in Orders |-> "none"]
  /\ claim = [c \in Claims |-> NoRow]
  /\ txn = [o \in Orders |-> Free]

-----------------------------------------------------------------------------
Rows            == {c \in Claims : claim[c].status # "none"}
ClaimsOf(o)     == {c \in Rows : OrderOf[claim[c].item] = o}
Active(c)       == claim[c].status \in ACTIVE_CLAIM_STATUSES
HasActiveClaim(o) == \E c \in ClaimsOf(o) : Active(c)

\* Mutant: the guard looks for an active cancel claim only.
HasActiveCancelClaim(o) ==
  \E c \in ClaimsOf(o) : claim[c].type = "cancel" /\ Active(c)

HasCompletedCancelClaim(o) ==
  \E c \in ClaimsOf(o) : claim[c].type = "cancel" /\ claim[c].status = "completed"

\* Mutant: only the check of the code, without the unique indexes, guards an
\* insert.
IndexesAcceptAnything(c, item, type, new) == TRUE

\* uq_claims_active_per_item and uq_claims_single_active_per_order would
\* accept row c with this content.
IndexesAccept(c, item, type, new) ==
  /\ new \in ACTIVE_CLAIM_STATUSES \union {"completed"} =>
       \A d \in Rows \ {c} :
         claim[d].item = item /\ claim[d].type = type
           => claim[d].status = "rejected"
  /\ new \in ACTIVE_CLAIM_STATUSES =>
       \A d \in ClaimsOf(OrderOf[item]) \ {c} : ~Active(d)

Begin(o, op, item, what) ==
  txn' = [txn EXCEPT ![o] = [op |-> op, item |-> item, what |-> what]]
End(o) == txn' = [txn EXCEPT ![o] = Free]

\* Nobody holds the row of the order FOR UPDATE.
RowFree(o) == txn[o].op \in {"free", "claim"}

MoveTo(o, new) ==
  /\ status' = [status EXCEPT ![o] = new]
  /\ arrivedFrom' = IF new = "received" /\ status[o] \in RepairSendStatuses
                      THEN [arrivedFrom EXCEPT ![o] = status[o]]
                      ELSE arrivedFrom

-----------------------------------------------------------------------------
(* create_claim *)

BeginClaim(i, type) ==
  LET o == OrderOf[i] IN
  /\ txn[o].op = "free"
  /\ ~HasCompletedCancelClaim(o)
  /\ status[o] \in Claimable(TypeOf[o], type)
  /\ ~HasActiveClaim(o)
  /\ Begin(o, "claim", i, type)
  /\ UNCHANGED <<status, arrivedFrom, claim>>

CommitClaim(o) ==
  /\ txn[o].op = "claim"
  /\ \E c \in Claims \ Rows :
       /\ IndexesAccept(c, txn[o].item, txn[o].what, "received")
       /\ claim' = [claim EXCEPT ![c] = [item |-> txn[o].item,
                                         type |-> txn[o].what,
                                         status |-> "received"]]
  /\ End(o)
  /\ UNCHANGED <<status, arrivedFrom>>

\* IntegrityError, a dropped connection: the transaction rolls back.
Abort(o) ==
  /\ txn[o].op # "free"
  /\ End(o)
  /\ UNCHANGED <<status, arrivedFrom, claim>>

(* Edits of a claim *)

\* cancel_claim deletes the row, and only while it is just received.
CancelClaim(c) ==
  /\ claim[c].status = "received"
  /\ claim' = [claim EXCEPT ![c] = NoRow]
  /\ UNCHANGED <<status, arrivedFrom, txn>>

\* admin_update_status of claims.  Its own check that no other claim of the
\* order is active repeats the second index.
AdminUpdateClaim(c, new, isRollback) ==
  /\ c \in Rows /\ <<claim[c].status, new>> \in ClaimEdges
  /\ ValidClaimEdit(claim[c].type, claim[c].status, new, isRollback)
  /\ IndexesAccept(c, claim[c].item, claim[c].type, new)
  /\ claim' = [claim EXCEPT ![c].status = new]
  /\ UNCHANGED <<status, arrivedFrom, txn>>

-----------------------------------------------------------------------------
(* Orders *)

\* Mutant: the order is moved without taking order:<id>.
MoveWithoutOrderLock(o, new) ==
  /\ txn[o].op \in {"free", "claim"}
  /\ ~HasCompletedCancelClaim(o) /\ ~HasActiveClaim(o)
  /\ ValidTransition(TypeOf[o], status[o], new, FALSE, arrivedFrom[o])
  /\ MoveTo(o, new)
  /\ UNCHANGED <<claim, txn>>

\* Mutant: the active claim is looked for before the lock is taken, so a
\* claim filed meanwhile is not seen.
ConfirmWithoutClaimCheck(o) ==
  /\ txn[o].op = "free"
  /\ status[o] \in {"delivered", "shipping"}
  /\ ~HasCompletedCancelClaim(o)
  /\ Begin(o, "confirm", NoItem, "completed")
  /\ UNCHANGED <<status, arrivedFrom, claim>>

\* admin_update_status, submit_repair_tracking, submit_repair_no_tracking.
BeginMove(o, new) ==
  /\ txn[o].op = "free"
  /\ ~HasCompletedCancelClaim(o) /\ ~HasActiveClaim(o)
  /\ \/ \E isRollback \in BOOLEAN :
          ValidTransition(TypeOf[o], status[o], new, isRollback, arrivedFrom[o])
     \/ status[o] = "toSend" /\ new \in {"sent", "sendCheck"}
  /\ Begin(o, "move", NoItem, new)
  /\ UNCHANGED <<status, arrivedFrom, claim>>

CommitMove(o) ==
  /\ txn[o].op = "move"
  /\ MoveTo(o, txn[o].what)
  /\ End(o)
  /\ UNCHANGED claim

\* confirm_purchase.
BeginConfirm(o) ==
  /\ txn[o].op = "free"
  /\ status[o] \in {"delivered", "shipping"}
  /\ ~HasCompletedCancelClaim(o) /\ ~HasActiveClaim(o)
  /\ Begin(o, "confirm", NoItem, "completed")
  /\ UNCHANGED <<status, arrivedFrom, claim>>

CommitConfirm(o) ==
  /\ txn[o].op = "confirm"
  /\ MoveTo(o, "completed")
  /\ End(o)
  /\ UNCHANGED claim

\* The payment path: a pending order is locked while Toss is asked, and then
\* confirmed, or released when Toss refuses.
JobLocks(o) ==
  /\ "pay" \in Jobs /\ RowFree(o)
  /\ status[o] = "pending"
  /\ MoveTo(o, "paying")
  /\ UNCHANGED <<claim, txn>>

JobPays(o) ==
  /\ "pay" \in Jobs /\ RowFree(o)
  /\ status[o] = "paying"
  /\ MoveTo(o, PostStatus(TypeOf[o]))
  /\ UNCHANGED <<claim, txn>>

JobReleases(o) ==
  /\ "pay" \in Jobs /\ RowFree(o)
  /\ status[o] = "paying"
  /\ MoveTo(o, "pending")
  /\ UNCHANGED <<claim, txn>>

\* reconcile_from_webhook: a full cancel at Toss, whatever the status.
JobWebhookCancels(o) ==
  /\ "webhook" \in Jobs /\ RowFree(o)
  /\ MoveTo(o, "canceled")
  /\ UNCHANGED <<claim, txn>>

\* cancel_stale_orders; age is not modelled.
JobCancelsStale(o) ==
  /\ "stale" \in Jobs /\ RowFree(o)
  /\ status[o] = "pending"
  /\ MoveTo(o, "canceled")
  /\ UNCHANGED <<claim, txn>>

\* Mutant: the batch does not lock the rows it selects.
JobAutoConfirmsHeldRow(o) ==
  /\ "autoConfirm" \in Jobs
  /\ status[o] = "shipping"
  /\ ~HasActiveClaim(o)
  /\ MoveTo(o, "completed")
  /\ UNCHANGED <<claim, txn>>

\* auto_confirm_orders; age is not modelled.  A delivered order never
\* qualifies: no code writes orders.delivered_at.
JobAutoConfirms(o) ==
  /\ "autoConfirm" \in Jobs /\ RowFree(o)
  /\ status[o] = "shipping"
  /\ ~HasActiveClaim(o)
  /\ MoveTo(o, "completed")
  /\ UNCHANGED <<claim, txn>>

-----------------------------------------------------------------------------
Next ==
  \/ \E i \in Items, type \in ClaimTypes : BeginClaim(i, type)
  \/ \E o \in Orders : CommitClaim(o)
  \/ \E o \in Orders : Abort(o)
  \/ \E c \in Claims : CancelClaim(c)
  \/ \E c \in Claims, new \in ClaimStatuses, isRollback \in BOOLEAN :
       AdminUpdateClaim(c, new, isRollback)
  \/ \E o \in Orders, new \in OrderStatuses : BeginMove(o, new)
  \/ \E o \in Orders : CommitMove(o)
  \/ \E o \in Orders : BeginConfirm(o)
  \/ \E o \in Orders : CommitConfirm(o)
  \/ \E o \in Orders : JobLocks(o) \/ JobPays(o) \/ JobReleases(o)
  \/ \E o \in Orders : JobWebhookCancels(o)
  \/ \E o \in Orders : JobCancelsStale(o) \/ JobAutoConfirms(o)

Spec == Init /\ [][Next]_vars

-----------------------------------------------------------------------------
(* Properties *)

\* An order has at most one active claim, and an item at most one claim of a
\* type that was not rejected, although a new claim and the revival of a
\* rejected one never take the same lock.
OneActiveClaim ==
  /\ \A o \in Orders : Cardinality({c \in ClaimsOf(o) : Active(c)}) <= 1
  /\ \A c, d \in Rows :
       /\ claim[c].item = claim[d].item /\ claim[c].type = claim[d].type
       /\ claim[c].status # "rejected" /\ claim[d].status # "rejected"
       => c = d

\* A claim is filed only on an order whose status allows it, except that a
\* payment may have locked the order since create_claim read it: the payment
\* path does not take order:<id>, every other writer waits for it.  It holds
\* without the batches and the webhook, which do not take that lock either.
ClaimFitsStatus ==
  [][\A c \in Claims :
       claim[c] = NoRow /\ claim'[c] # NoRow =>
         LET o == OrderOf[claim'[c].item] IN
         \/ status[o] \in Claimable(TypeOf[o], claim'[c].type)
         \/ status[o] = "paying" /\ claim'[c].type = "cancel"]_vars

\* money.md section 8: operators and the owner do not move an order that has
\* an active claim.  It holds when operators never revive a rejected claim.
OrderFrozenByClaim ==
  [][\A o \in Orders :
       txn[o].op \in {"move", "confirm"} /\ status'[o] # status[o]
         => ~HasActiveClaim(o)]_vars

\* An order with a completed cancel claim is not purchase-confirmed
\* (service.py, confirm_purchase), though the check and the write are two steps of its
\* owner's request.  With the batch among the jobs it does not hold.
CanceledNeverConfirmed ==
  [][\A o \in Orders :
       status'[o] = "completed" /\ status[o] # "completed"
         => ~\E c \in Claims : /\ claim[c].type = "cancel"
                               /\ claim[c].status = "completed"
                               /\ OrderOf[claim[c].item] = o]_vars

Life(o) == INSTANCE OrderLife
  WITH type <- TypeOf[o], status <- status[o], arrivedFrom <- arrivedFrom[o]

\* Operators, the owner, the payment path and the batches, which take different
\* locks, move an order together as OrderLife says: what each read of the status
\* is still so when it commits.
ImplementsLife ==
  /\ \A o \in Orders : Life(o)!LifeInit
  /\ [][\A o \in Orders : [Life(o)!LifeNext]_<<status[o], arrivedFrom[o]>>]_vars
=============================================================================
