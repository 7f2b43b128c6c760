------------------------------- MODULE Payment -------------------------------
(***************************************************************************)
(* The money path of apps/api: one user's payment groups, from checkout    *)
(* to a confirmed, released or canceled payment.                           *)
(*                                                                         *)
(* A confirm request is three transactions around calls to Toss:           *)
(*   1. lock the group (pending -> paying) and insert an open journal row; *)
(*   2. call Toss, outside any transaction;                                *)
(*   3. apply, release, or record that the outcome is not known.           *)
(* Toss webhooks, the stale-order batch, operators editing order statuses  *)
(* and operators reviewing the incident queue run between any two of       *)
(* those steps.  Each action below is one database transaction (its rows   *)
(* are locked FOR UPDATE until commit) or one step of Toss.                *)
(***************************************************************************)
EXTENDS OrderStatus, FiniteSets

CONSTANTS
  Groups,      \* payment_group_id values
  Orders,      \* orders that may be created
  GroupOf,     \* [Orders -> Groups]: orders.payment_group_id
  TypeOf,      \* [Orders -> OrderTypes]: orders.order_type
  Coupons,     \* user_coupons rows of the user
  FollowUp,    \* the coupon a confirmed sample order issues, or NoCoupon
  NoCoupon,
  Keys,        \* Toss paymentKeys
  KeyGroup,    \* [Keys -> Groups]: the orderId Toss holds for each key
  OddKeys,     \* keys whose amount at Toss is not the group's total
  NoKey,
  Requests,    \* confirm requests; a bound, each is sent at most once
  Hooks,       \* webhook deliveries handled at the same time
  Reviews,     \* incident reviews open at the same time
  NoItem,
  Replies,     \* replies of Toss to a confirm, a subset of TossReplies
  AdminEdges   \* the <<current, new>> status edits operators ask for

TossReplies == {"ok", "already", "rejected", "uncertain"}

ASSUME PaymentAssumption ==
  /\ GroupOf \in [Orders -> Groups]
  /\ TypeOf \in [Orders -> OrderTypes]
  /\ KeyGroup \in [Keys -> Groups]
  /\ OddKeys \subseteq Keys
  /\ NoKey \notin Keys
  /\ NoCoupon \notin Coupons
  /\ FollowUp \in Coupons \union {NoCoupon}
  /\ Replies \subseteq TossReplies
  /\ \A g \in Groups : \E o \in Orders : GroupOf[o] = g

VARIABLES
  status,      \* orders.status, or "none" before the order exists
  arrivedFrom, \* the send status an order was last received from (its log)
  payKey,      \* orders.payment_key
  paid,        \* orders.paid_at IS NOT NULL
  applied,     \* order_items.applied_user_coupon_id
  coupon,      \* user_coupons.status, or "none" before it is issued
  prov,        \* status of each payment at Toss
  wire,        \* the confirm call of a request, as Toss sees it
  pc,          \* where a confirm request is
  reqKey,      \* the paymentKey of a confirm request
  open,        \* payment_incidents rows with status open
  resolved,    \* payment_incidents rows with status resolved
  evidence,    \* rows whose details.reconciliation allows resolving them
  hook,        \* webhook deliveries being handled
  review       \* incident reviews being handled

orderVars  == <<status, arrivedFrom, payKey, paid>>
couponVars == <<applied, coupon>>
reqVars    == <<wire, pc, reqKey>>
queueVars  == <<open, resolved, evidence>>
vars == <<orderVars, couponVars, prov, reqVars, queueVars, hook, review>>

-----------------------------------------------------------------------------
(* Types *)

ProviderStatuses == {"READY", "DONE", "CANCELED", "PARTIAL"}

\* A row written by the webhook, or all rows that differ only in the details
\* the webhook recorded (order statuses, amounts).
Incident ==
  [type   : {"mixed_state", "amount_mismatch", "partial_cancel"},
   reason : {"key", "state", "amount", "partial"},
   seen   : {"DONE", "CANCELED", "PARTIAL"},
   key    : Keys]

\* A confirm request's journal row is named by the request.
Items == Requests \union Incident

\* payment_incidents tells a confirm row from the others by its type.
ASSUME RowAssumption == Requests \cap Incident = {}

IdleHook   == [key |-> NoKey, seen |-> "none"]
IdleReview == [item |-> NoItem, seen |-> "none", step |-> "idle"]

OrdersTypeOK ==
  /\ status \in [Orders -> OrderStatuses \union {"none"}]
  /\ arrivedFrom \in [Orders -> RepairSendStatuses \union {"none"}]
  /\ payKey \in [Orders -> Keys \union {NoKey}]
  /\ paid \in [Orders -> BOOLEAN]

CouponsTypeOK ==
  /\ applied \in [Orders -> Coupons \union {NoCoupon}]
  /\ coupon \in [Coupons -> {"none", "active", "reserved", "used"}]

TossTypeOK == prov \in [Keys -> ProviderStatuses]

\* A request has a key from its lock, or its repetition, on.
RequestsTypeOK ==
  /\ wire \in [Requests -> {"none", "sent"} \union TossReplies]
  /\ pc \in [Requests -> {"idle", "calling", "lookup", "confirming",
                          "done", "rejected", "unsure", "dead"}]
  /\ reqKey \in [Requests -> Keys \union {NoKey}]
  /\ \A r \in Requests : pc[r] # "idle" => reqKey[r] \in Keys

QueueTypeOK == open \subseteq Items /\ resolved \subseteq Items /\ evidence \subseteq Items

HooksTypeOK ==
  hook \in [Hooks -> {IdleHook} \union [key : Keys, seen : ProviderStatuses]]

ReviewsTypeOK ==
  review \in [Reviews -> {IdleReview} \union
                [item : Items, seen : ProviderStatuses \union {"error"},
                 step : {"looked", "ok", "failed"}]]

TypeOK ==
  /\ OrdersTypeOK   /\ CouponsTypeOK /\ TossTypeOK
  /\ RequestsTypeOK /\ QueueTypeOK   /\ HooksTypeOK /\ ReviewsTypeOK

Init ==
  /\ status = [o \in Orders |-> "none"]
  /\ arrivedFrom = [o \in Orders |-> "none"]
  /\ payKey = [o \in Orders |-> NoKey]
  /\ paid = [o \in Orders |-> FALSE]
  /\ applied = [o \in Orders |-> NoCoupon]
  /\ coupon = [c \in Coupons |-> IF c = FollowUp THEN "none" ELSE "active"]
  /\ prov = [k \in Keys |-> "READY"]
  /\ wire = [r \in Requests |-> "none"]
  /\ pc = [r \in Requests |-> "idle"]
  /\ reqKey = [r \in Requests |-> NoKey]
  /\ open = {} /\ resolved = {} /\ evidence = {}
  /\ hook = [h \in Hooks |-> IdleHook]
  /\ review = [v \in Reviews |-> IdleReview]

-----------------------------------------------------------------------------
(* Reading the tables *)

GroupOrders(g) == {o \in Orders : GroupOf[o] = g}
Created(g)     == \A o \in GroupOrders(g) : status[o] # "none"
AllIn(g, S)    == \A o \in GroupOrders(g) : status[o] \in S
AllPost(g)     == \A o \in GroupOrders(g) : status[o] = PostStatus(TypeOf[o])
AllPaid(g)     == \A o \in GroupOrders(g) : paid[o]
NonePaid(g)    == \A o \in GroupOrders(g) : ~paid[o]
AllKeyed(g, k) == \A o \in GroupOrders(g) : payKey[o] = k
KeysFit(g, k)  == \A o \in GroupOrders(g) : payKey[o] \in {NoKey, k}

KeyOf(x)      == IF x \in Requests THEN reqKey[x] ELSE x.key
IsConfirm(x)  == x \in Requests

\* Mutant: an attempt whose request has ended no longer blocks another.
HasRunningConfirm(g) ==
  \E r \in open \cap Requests :
    /\ KeyGroup[reqKey[r]] = g
    /\ pc[r] \in {"calling", "lookup", "confirming"}

\* An open confirm or amount_mismatch row of the group: no further attempt.
HasOpenConfirmIncident(g) ==
  \E x \in open : /\ KeyGroup[KeyOf(x)] = g
                  /\ IsConfirm(x) \/ x.type = "amount_mismatch"

\* confirmed_payment_is_consistent and canceled_payment_is_consistent.
ConfirmedConsistent(g, k) == AllPost(g) /\ AllKeyed(g, k)
CanceledConsistent(g, k)  == AllIn(g, {"canceled"}) /\ AllKeyed(g, k)

(* Writing them *)

SetStatus(S, new) == [o \in Orders |-> IF o \in S THEN new ELSE status[o]]

AppliedTo(S) == {applied[o] : o \in S} \ {NoCoupon}

\* Mutant: the coupon's status is not compared.
RestoreOrderCoupons(S) ==
  coupon' = [c \in Coupons |-> IF c \in AppliedTo(S) THEN "active" ELSE coupon[c]]

\* restore_reserved_order_coupons: by coupon, whatever order reserved it.
RestoreReservedOrderCoupons(S) ==
  coupon' = [c \in Coupons |-> IF c \in AppliedTo(S) /\ coupon[c] = "reserved"
                                 THEN "active" ELSE coupon[c]]

\* Mutant: the paying orders of the group are confirmed, the others skipped.
ApplyToPaying(g, k) ==
  LET S == {o \in GroupOrders(g) : status[o] = "paying"} IN
  /\ S # {}
  /\ status' = [o \in Orders |-> IF o \in S THEN PostStatus(TypeOf[o])
                                            ELSE status[o]]
  /\ payKey' = [o \in Orders |-> IF o \in S THEN k ELSE payKey[o]]
  /\ paid'   = [o \in Orders |-> o \in S \/ paid[o]]
  /\ UNCHANGED <<arrivedFrom, applied, coupon>>

\* Mutant: only the first order of the group gets its paid_at.
ApplyPaidAtOnce(g, k) ==
  LET S == GroupOrders(g)
      first == CHOOSE o \in S : TRUE
  IN
  /\ AllIn(g, {"paying"})
  /\ status' = [o \in Orders |-> IF o \in S THEN PostStatus(TypeOf[o])
                                            ELSE status[o]]
  /\ payKey' = [o \in Orders |-> IF o \in S THEN k ELSE payKey[o]]
  /\ paid'   = [paid EXCEPT ![first] = TRUE]
  /\ UNCHANGED <<arrivedFrom, applied, coupon>>

\* _apply_confirmation: every order must be paying, or it raises.
ApplyConfirmation(g, k) ==
  LET S == GroupOrders(g)
      issued == IF \E o \in S : TypeOf[o] = "sample" THEN {FollowUp} ELSE {}
  IN
  /\ AllIn(g, {"paying"})
  /\ status' = [o \in Orders |-> IF o \in S THEN PostStatus(TypeOf[o])
                                            ELSE status[o]]
  /\ payKey' = [o \in Orders |-> IF o \in S THEN k ELSE payKey[o]]
  /\ paid'   = [o \in Orders |-> o \in S \/ paid[o]]
  /\ coupon' = [c \in Coupons |->
       IF c \in AppliedTo(S) /\ coupon[c] = "reserved" THEN "used"
       ELSE IF c \in issued /\ coupon[c] = "none" THEN "active" ELSE coupon[c]]
  /\ UNCHANGED <<arrivedFrom, applied>>

\* set_payment_operation_outcome with status resolved, and with its default,
\* open: it writes the status without reading it.
CloseJournal(r) == open' = open \ {r} /\ resolved' = resolved \union {r}
OpenJournal(r)  == open' = open \union {r} /\ resolved' = resolved \ {r}

-----------------------------------------------------------------------------
(* Checkout *)

\* create_order, create_custom_order, create_sample_order: new pending orders
\* of one group; a coupon is applied at most once and must be active.
CreateOrder(g) ==
  /\ \A o \in GroupOrders(g) : status[o] = "none"
  /\ \E use \in [GroupOrders(g) -> Coupons \union {NoCoupon}] :
       LET taken == {use[o] : o \in GroupOrders(g)} \ {NoCoupon} IN
       /\ \A o1, o2 \in GroupOrders(g) :
            use[o1] = use[o2] /\ use[o1] # NoCoupon => o1 = o2
       /\ \A c \in taken : coupon[c] = "active"
       /\ applied' = [o \in Orders |-> IF o \in GroupOrders(g) THEN use[o]
                                                               ELSE applied[o]]
       /\ coupon' = [c \in Coupons |-> IF c \in taken THEN "reserved"
                                                      ELSE coupon[c]]
  /\ status' = SetStatus(GroupOrders(g), "pending")
  /\ UNCHANGED <<arrivedFrom, payKey, paid, prov, reqVars, queueVars, hook,
                 review>>

(* Confirm: first transaction *)

\* The retry of a payment that is already applied: DONE without calling Toss.
ConfirmAgain(r, k) ==
  LET g == KeyGroup[k] IN
  /\ pc[r] = "idle" /\ Created(g)
  /\ AllPaid(g) /\ AllKeyed(g, k)
  /\ pc' = [pc EXCEPT ![r] = "done"]
  /\ reqKey' = [reqKey EXCEPT ![r] = k]
  /\ UNCHANGED <<orderVars, couponVars, prov, wire, queueVars, hook, review>>

\* Mutant: an order that is pending is taken to be unpaid.
PrepareConfirmAgain(r, k) ==
  LET g == KeyGroup[k] IN
  /\ pc[r] = "idle" /\ Created(g)
  /\ ~HasOpenConfirmIncident(g)
  /\ AllIn(g, {"pending"})
  /\ status' = SetStatus(GroupOrders(g), "paying")
  /\ payKey' = [o \in Orders |-> IF o \in GroupOrders(g) THEN k ELSE payKey[o]]
  /\ open' = open \union {r}
  /\ pc' = [pc EXCEPT ![r] = "calling"]
  /\ reqKey' = [reqKey EXCEPT ![r] = k]
  /\ wire' = [wire EXCEPT ![r] = "sent"]
  /\ UNCHANGED <<arrivedFrom, paid, couponVars, prov, resolved, evidence, hook,
                 review>>

\* The lock: pending orders become paying under the key, orders already
\* paying must hold the same key; the journal row commits with the lock.
PrepareConfirm(r, k) ==
  LET g == KeyGroup[k] IN
  /\ pc[r] = "idle" /\ Created(g)
  /\ NonePaid(g)
  /\ ~HasOpenConfirmIncident(g)
  /\ \A o \in GroupOrders(g) :
       \/ status[o] = "pending"
       \/ status[o] = "paying" /\ payKey[o] \in {NoKey, k}
  /\ status' = SetStatus(GroupOrders(g), "paying")
  /\ payKey' = [o \in Orders |-> IF o \in GroupOrders(g) THEN k ELSE payKey[o]]
  /\ open' = open \union {r}
  /\ pc' = [pc EXCEPT ![r] = "calling"]
  /\ reqKey' = [reqKey EXCEPT ![r] = k]
  /\ wire' = [wire EXCEPT ![r] = "sent"]
  /\ UNCHANGED <<arrivedFrom, paid, couponVars, prov, resolved, evidence, hook,
                 review>>

(* Toss *)

\* Toss handles the call, perhaps after the request has given up on it.  A
\* READY payment is captured or not; "uncertain" is any 5xx reply.  An "ok"
\* means that the confirmed amount, the group's total, was captured.
TossHandles(r) ==
  LET k == reqKey[r] IN
  /\ wire[r] = "sent"
  /\ \E reply \in Replies :
       \/ /\ prov[k] = "READY" /\ reply \in {"ok", "uncertain"}
          /\ k \in OddKeys => reply # "ok"
          /\ prov' = [prov EXCEPT ![k] = "DONE"]
          /\ wire' = [wire EXCEPT ![r] = reply]
       \/ /\ \/ prov[k] = "READY" /\ reply \in {"rejected", "uncertain"}
             \/ prov[k] = "DONE"  /\ reply \in {"already", "uncertain"}
             \/ prov[k] \in {"CANCELED", "PARTIAL"} /\ reply # "ok"
          /\ wire' = [wire EXCEPT ![r] = reply]
          /\ UNCHANGED prov
  /\ UNCHANGED <<orderVars, couponVars, pc, reqKey, queueVars, hook, review>>

\* A payment is canceled, in full or in part, in the Toss dashboard.
DashboardCancels(k) ==
  /\ prov[k] \in {"DONE", "PARTIAL"}
  /\ \E new \in {"CANCELED", "PARTIAL"} : prov' = [prov EXCEPT ![k] = new]
  /\ UNCHANGED <<orderVars, couponVars, reqVars, queueVars, hook, review>>

(* Confirm: after the call *)

\* The request ends in an error and its journal row stays, or is put back,
\* in the queue.
EndUnsure(r) ==
  /\ pc' = [pc EXCEPT ![r] = "unsure"]
  /\ OpenJournal(r)
  /\ UNCHANGED <<orderVars, couponVars, prov, wire, reqKey, evidence, hook,
                 review>>

\* Mutant: a timeout releases the orders, as after a refusal.
ConfirmOutcomeReleases(r) ==
  LET S == GroupOrders(KeyGroup[reqKey[r]]) IN
  /\ pc[r] = "calling"
  /\ CloseJournal(r)
  /\ status' = [o \in Orders |-> IF o \in S /\ status[o] = "paying"
                                   THEN "pending" ELSE status[o]]
  /\ RestoreReservedOrderCoupons(S)
  /\ pc' = [pc EXCEPT ![r] = "unsure"]
  /\ UNCHANGED <<arrivedFrom, payKey, paid, applied, prov, wire, reqKey,
                 evidence, hook, review>>

\* toss.confirm raised: a timeout, a lost connection, an unreadable reply.
ConfirmOutcomeUnknown(r) == pc[r] = "calling" /\ EndUnsure(r)

\* Mutant: a 5xx reply is taken for a refusal.
UncertainReleases(r) == wire[r] = "uncertain" /\ ConfirmOutcomeReleases(r)

ProviderResponseUncertain(r) ==
  pc[r] = "calling" /\ wire[r] = "uncertain" /\ EndUnsure(r)

\* Mutant: the journal row is closed, and the release of the orders is lost.
ProviderRejectedKeepsLock(r) ==
  /\ pc[r] = "calling" /\ wire[r] = "rejected"
  /\ CloseJournal(r)
  /\ pc' = [pc EXCEPT ![r] = "rejected"]
  /\ UNCHANGED <<orderVars, couponVars, prov, wire, reqKey, evidence, hook,
                 review>>

\* A definitive refusal: the journal row is closed and _unlock releases the
\* paying orders of the group, in one transaction.
ProviderRejected(r) ==
  LET S == GroupOrders(KeyGroup[reqKey[r]])
      locked == {o \in S : status[o] = "paying"}
  IN
  /\ pc[r] = "calling" /\ wire[r] = "rejected"
  /\ CloseJournal(r)
  /\ status' = SetStatus(locked, "pending")
  /\ payKey' = [o \in Orders |-> IF o \in locked THEN NoKey ELSE payKey[o]]
  /\ RestoreReservedOrderCoupons(S)
  /\ pc' = [pc EXCEPT ![r] = "rejected"]
  /\ UNCHANGED <<arrivedFrom, paid, applied, prov, wire, reqKey, evidence, hook,
                 review>>

\* Mutant: every reply but a refusal is taken for a success.
ProviderNotRejected(r) ==
  /\ pc[r] = "calling" /\ wire[r] \in {"ok", "uncertain"}
  /\ pc' = [pc EXCEPT ![r] = "confirming"]
  /\ UNCHANGED <<orderVars, couponVars, prov, wire, reqKey, queueVars, hook,
                 review>>

ProviderApproved(r) ==
  /\ pc[r] = "calling" /\ wire[r] = "ok"
  /\ pc' = [pc EXCEPT ![r] = "confirming"]
  /\ UNCHANGED <<orderVars, couponVars, prov, wire, reqKey, queueVars, hook,
                 review>>

AlreadyProcessed(r) ==
  /\ pc[r] = "calling" /\ wire[r] = "already"
  /\ pc' = [pc EXCEPT ![r] = "lookup"]
  /\ UNCHANGED <<orderVars, couponVars, prov, wire, reqKey, queueVars, hook,
                 review>>

\* _recover_already_processed reads the payment back before it confirms.
RecoveryVerified(r) ==
  /\ pc[r] = "lookup"
  /\ prov[reqKey[r]] = "DONE" /\ reqKey[r] \notin OddKeys
  /\ pc' = [pc EXCEPT ![r] = "confirming"]
  /\ UNCHANGED <<orderVars, couponVars, prov, wire, reqKey, queueVars, hook,
                 review>>

\* The lookup does not show this payment DONE, or it failed.
RecoveryFailed(r) == pc[r] = "lookup" /\ EndUnsure(r)

\* _confirm finds every order in its post-payment status.
ConfirmAlreadyApplied(r) ==
  /\ pc[r] = "confirming" /\ AllPost(KeyGroup[reqKey[r]])
  /\ CloseJournal(r)
  /\ pc' = [pc EXCEPT ![r] = "done"]
  /\ UNCHANGED <<orderVars, couponVars, prov, wire, reqKey, evidence, hook,
                 review>>

ConfirmApplies(r) ==
  /\ pc[r] = "confirming"
  /\ ApplyConfirmation(KeyGroup[reqKey[r]], reqKey[r])
  /\ CloseJournal(r)
  /\ pc' = [pc EXCEPT ![r] = "done"]
  /\ UNCHANGED <<prov, wire, reqKey, evidence, hook, review>>

\* _apply_confirmation raised not_payable.
ConfirmRefused(r) ==
  LET g == KeyGroup[reqKey[r]] IN
  /\ pc[r] = "confirming" /\ ~AllPost(g) /\ ~AllIn(g, {"paying"})
  /\ EndUnsure(r)

\* Mutant: the row of a failed transaction is closed with it.
ConfirmDbFailedCloses(r) ==
  /\ pc[r] = "confirming"
  /\ CloseJournal(r)
  /\ pc' = [pc EXCEPT ![r] = "unsure"]
  /\ UNCHANGED <<orderVars, couponVars, prov, wire, reqKey, evidence, hook,
                 review>>

\* The database failed the transaction of _confirm, which changed nothing.
ConfirmDbFailed(r) == pc[r] = "confirming" /\ EndUnsure(r)

\* The commit went through, and the reply to it or the notice after it failed:
\* the row that the commit closed is open again.
ConfirmFailedAfterCommit(r) ==
  /\ pc[r] = "confirming"
  /\ ApplyConfirmation(KeyGroup[reqKey[r]], reqKey[r])
  /\ OpenJournal(r)
  /\ pc' = [pc EXCEPT ![r] = "unsure"]
  /\ UNCHANGED <<prov, wire, reqKey, evidence, hook, review>>

\* The process of a request dies.
Crash(r) ==
  /\ pc[r] \in {"calling", "lookup", "confirming"}
  /\ pc' = [pc EXCEPT ![r] = "dead"]
  /\ UNCHANGED <<orderVars, couponVars, prov, wire, reqKey, queueVars, hook,
                 review>>

-----------------------------------------------------------------------------
(* Webhooks: a lookup at Toss, then one transaction on what it showed.     *)
(* Deliveries are duplicated, delayed and reordered.                       *)

HookLookup(h, k) ==
  /\ hook[h] = IdleHook /\ Created(KeyGroup[k])
  /\ hook' = [hook EXCEPT ![h] = [key |-> k, seen |-> prov[k]]]
  /\ UNCHANGED <<orderVars, couponVars, prov, reqVars, queueVars, review>>

Handled(h) == hook' = [hook EXCEPT ![h] = IdleHook]

\* _record_webhook_incident: operation_id is a hash of the evidence, so the
\* same evidence is inserted once, whatever became of its row since; a row
\* with other details is a new row.
RecordWebhookIncident(h, type, reason) ==
  LET x == [type |-> type, reason |-> reason, seen |-> hook[h].seen,
            key |-> hook[h].key]
  IN  /\ \/ /\ x \notin open
            /\ open' = open \union {x}
            /\ resolved' = resolved \ {x}
            /\ evidence' = evidence \ {x}
         \/ x \in open \union resolved /\ UNCHANGED queueVars
      /\ Handled(h)
      /\ UNCHANGED <<orderVars, couponVars, prov, reqVars, review>>

DoneKeyMismatch(g, k) ==
  IF AllPost(g) THEN ~AllKeyed(g, k) ELSE ~KeysFit(g, k)

WebhookDoneMismatch(h) ==
  LET k == hook[h].key
      g == KeyGroup[k]
  IN
  /\ hook[h].seen = "DONE"
  /\ \/ DoneKeyMismatch(g, k) /\ RecordWebhookIncident(h, "mixed_state", "key")
     \/ /\ ~DoneKeyMismatch(g, k)
        /\ ~AllPost(g) /\ ~AllIn(g, {"paying"})
        /\ RecordWebhookIncident(h, "mixed_state", "state")
     \/ /\ ~DoneKeyMismatch(g, k)
        /\ AllPost(g) \/ AllIn(g, {"paying"})
        /\ k \in OddKeys
        /\ RecordWebhookIncident(h, "amount_mismatch", "amount")

\* Mutant: the amount Toss shows is not compared with the orders.
WebhookConfirmsAnyAmount(h) ==
  LET k == hook[h].key
      g == KeyGroup[k]
  IN
  /\ hook[h].seen = "DONE" /\ KeysFit(g, k)
  /\ ApplyConfirmation(g, k)
  /\ Handled(h)
  /\ UNCHANGED <<prov, reqVars, queueVars, review>>

\* Mutant: a payment in the operators' queue is left to them.
WebhookLeavesQueued(h) ==
  LET k == hook[h].key
      g == KeyGroup[k]
  IN
  /\ hook[h].seen = "DONE"
  /\ KeysFit(g, k) /\ k \notin OddKeys
  /\ ~HasOpenConfirmIncident(g)
  /\ ApplyConfirmation(g, k)
  /\ Handled(h)
  /\ UNCHANGED <<prov, reqVars, queueVars, review>>

\* The stuck payment is applied.  No journal row is passed: a request's row
\* stays as it is.
WebhookConfirms(h) ==
  LET k == hook[h].key
      g == KeyGroup[k]
  IN
  /\ hook[h].seen = "DONE"
  /\ KeysFit(g, k) /\ k \notin OddKeys
  /\ ApplyConfirmation(g, k)
  /\ Handled(h)
  /\ UNCHANGED <<prov, reqVars, queueVars, review>>

WebhookPartialCanceled(h) ==
  /\ hook[h].seen = "PARTIAL"
  /\ RecordWebhookIncident(h, "partial_cancel", "partial")

WebhookCancelMismatch(h) ==
  LET k == hook[h].key
      g == KeyGroup[k]
  IN
  /\ hook[h].seen = "CANCELED"
  /\ \/ /\ ~AllKeyed(g, k)
        /\ RecordWebhookIncident(h, "mixed_state", "key")
     \/ /\ AllKeyed(g, k) /\ k \in OddKeys
        /\ RecordWebhookIncident(h, "mixed_state", "amount")

\* Mutant: a partial cancel cancels the orders too.
WebhookCancelsPartial(h) ==
  LET k == hook[h].key
      g == KeyGroup[k]
  IN
  /\ hook[h].seen \in {"CANCELED", "PARTIAL"}
  /\ AllKeyed(g, k) /\ k \notin OddKeys
  /\ status' = SetStatus(GroupOrders(g), "canceled")
  /\ RestoreReservedOrderCoupons(GroupOrders(g))
  /\ Handled(h)
  /\ UNCHANGED <<arrivedFrom, payKey, paid, applied, prov, reqVars, queueVars,
                 review>>

\* The cancellation bypasses the state machine: the money is already back.
WebhookCancels(h) ==
  LET k == hook[h].key
      g == KeyGroup[k]
  IN
  /\ hook[h].seen = "CANCELED"
  /\ AllKeyed(g, k) /\ k \notin OddKeys
  /\ status' = SetStatus(GroupOrders(g), "canceled")
  /\ RestoreReservedOrderCoupons(GroupOrders(g))
  /\ Handled(h)
  /\ UNCHANGED <<arrivedFrom, payKey, paid, applied, prov, reqVars, queueVars,
                 review>>

\* Nothing to correct (already_consistent, unhandled_status), or the handler
\* died or failed and Toss will deliver again.
WebhookEnds(h) ==
  /\ hook[h] # IdleHook
  /\ Handled(h)
  /\ UNCHANGED <<orderVars, couponVars, prov, reqVars, queueVars, review>>

-----------------------------------------------------------------------------
(* Operators and the customer edit order statuses; the batch cancels.      *)

\* admin_update_status, for orders without an active or a completed cancel
\* claim.  It neither touches coupons nor payment_key nor paid_at.
AdminUpdateStatus(o, new, isRollback) ==
  /\ status[o] # "none"
  /\ <<status[o], new>> \in AdminEdges
  /\ ValidTransition(TypeOf[o], status[o], new, isRollback, arrivedFrom[o])
  /\ status' = [status EXCEPT ![o] = new]
  /\ arrivedFrom' = IF new = "received" /\ status[o] \in RepairSendStatuses
                      THEN [arrivedFrom EXCEPT ![o] = status[o]]
                      ELSE arrivedFrom
  /\ UNCHANGED <<payKey, paid, couponVars, prov, reqVars, queueVars, hook,
                 review>>

\* submit_repair_tracking and submit_repair_no_tracking.
SubmitRepair(o) ==
  /\ status[o] = "toSend"
  /\ \E new \in {"sent", "sendCheck"} : status' = [status EXCEPT ![o] = new]
  /\ UNCHANGED <<arrivedFrom, payKey, paid, couponVars, prov, reqVars,
                 queueVars, hook, review>>

\* Mutant: the batch leaves the coupons of the orders reserved.
CancelStaleKeepsCoupons(S) ==
  /\ S # {} /\ \A o \in S : status[o] = "pending"
  /\ status' = SetStatus(S, "canceled")
  /\ UNCHANGED <<arrivedFrom, payKey, paid, couponVars, prov, reqVars, queueVars,
                 hook, review>>

\* cancel_stale_orders: pending orders past the 30 minutes; age is not
\* modelled, and SKIP LOCKED and the batch size leave any of them out.
CancelStaleOrders(S) ==
  /\ S # {} /\ \A o \in S : status[o] = "pending"
  /\ status' = SetStatus(S, "canceled")
  /\ RestoreReservedOrderCoupons(S)
  /\ UNCHANGED <<arrivedFrom, payKey, paid, applied, prov, reqVars, queueVars,
                 hook, review>>

-----------------------------------------------------------------------------
(* The incident queue: look the payment up, correct the orders, record the *)
(* evidence; then, while the evidence is fresh, resolve.                   *)

\* Mutant: a wrong amount need not have been sent back.
ExpectedIfOnlyTaken(x) ==
  IF IsConfirm(x) THEN {"DONE"}
  ELSE CASE x.type = "amount_mismatch" -> {"DONE", "CANCELED"}
         [] x.type = "partial_cancel"  -> {"PARTIAL"}
         [] OTHER                      -> {x.seen}

ExpectedProviderStatuses(x) ==
  IF IsConfirm(x) THEN {"DONE"}
  ELSE CASE x.type = "amount_mismatch" -> {"CANCELED"}
         [] x.type = "partial_cancel"  -> {"PARTIAL"}
         [] OTHER                      -> {x.seen}

\* An amount_mismatch row expects the amount it was recorded with; every
\* other row the group's total.
AmountMatches(x) ==
  (~IsConfirm(x) /\ x.type = "amount_mismatch") \/ KeyOf(x) \notin OddKeys

ReviewLookup(v, x) ==
  /\ review[v] = IdleReview /\ x \in open
  /\ \E seen \in {prov[KeyOf(x)], "error"} :
       review' = [review EXCEPT ![v] =
                    [item |-> x, seen |-> seen, step |-> "looked"]]
  /\ UNCHANGED <<orderVars, couponVars, prov, reqVars, queueVars, hook>>

Reviewed(v, ok) ==
  review' = [review EXCEPT ![v].step = IF ok THEN "ok" ELSE "failed"]

ProviderMatches(v) ==
  /\ review[v].seen \in ExpectedProviderStatuses(review[v].item)
  /\ AmountMatches(review[v].item)

\* reconcile_confirmed_payment: apply the payment to paying orders, or see
\* that it is applied.
ReviewConfirms(v) ==
  LET x == review[v].item
      k == KeyOf(x)
      g == KeyGroup[k]
  IN
  /\ review[v].step = "looked" /\ ProviderMatches(v) /\ IsConfirm(x)
  /\ \/ ApplyConfirmation(g, k) /\ Reviewed(v, TRUE)
     \/ /\ ~AllIn(g, {"paying"})
        /\ Reviewed(v, ConfirmedConsistent(g, k))
        /\ UNCHANGED <<orderVars, couponVars>>
  /\ UNCHANGED <<prov, reqVars, queueVars, hook>>

\* reconcile_canceled_payment: a payment of the wrong amount was canceled.
ReviewCancels(v) ==
  LET x == review[v].item
      k == KeyOf(x)
      g == KeyGroup[k]
      safe == KeysFit(g, k) /\ AllIn(g, {"paying", "canceled"})
  IN
  /\ review[v].step = "looked" /\ ProviderMatches(v)
  /\ ~IsConfirm(x) /\ x.type = "amount_mismatch"
  /\ IF safe
       THEN /\ status' = SetStatus(GroupOrders(g), "canceled")
            /\ payKey' = [o \in Orders |-> IF o \in GroupOrders(g) THEN k
                                                                   ELSE payKey[o]]
            /\ RestoreReservedOrderCoupons(GroupOrders(g))
       ELSE UNCHANGED <<status, payKey, coupon>>
  /\ Reviewed(v, safe)
  /\ UNCHANGED <<arrivedFrom, paid, applied, prov, reqVars, queueVars, hook>>

\* A mixed_state row is only compared with the orders; a partial_cancel row
\* is left to the operator.
ReviewCompares(v) ==
  LET x == review[v].item
      k == KeyOf(x)
      g == KeyGroup[k]
  IN
  /\ review[v].step = "looked" /\ ProviderMatches(v)
  /\ ~IsConfirm(x) /\ x.type # "amount_mismatch"
  /\ Reviewed(v, \/ x.type = "partial_cancel"
                 \/ x.seen = "DONE" /\ ConfirmedConsistent(g, k)
                 \/ x.seen = "CANCELED" /\ CanceledConsistent(g, k))
  /\ UNCHANGED <<orderVars, couponVars, prov, reqVars, queueVars, hook>>

\* The lookup failed or does not match the row.
ReviewMismatch(v) ==
  /\ review[v].step = "looked" /\ ~ProviderMatches(v)
  /\ Reviewed(v, FALSE)
  /\ UNCHANGED <<orderVars, couponVars, prov, reqVars, queueVars, hook>>

\* The evidence replaces the row's earlier evidence.  The row is re-read
\* without populate_existing, so the status test before this write sees the
\* status of the first read, which was open.
ReviewRecords(v) ==
  /\ review[v].step \in {"ok", "failed"}
  /\ evidence' = IF review[v].step = "ok" THEN evidence \union {review[v].item}
                                          ELSE evidence \ {review[v].item}
  /\ review' = [review EXCEPT ![v] = IdleReview]
  /\ UNCHANGED <<orderVars, couponVars, prov, reqVars, open, resolved, hook>>

\* The review dies, or the operator's request fails, between two commits.
ReviewDies(v) ==
  /\ review[v] # IdleReview
  /\ review' = [review EXCEPT ![v] = IdleReview]
  /\ UNCHANGED <<orderVars, couponVars, prov, reqVars, queueVars, hook>>

\* RECONCILIATION_TTL, 15 minutes.
EvidenceExpires(x) ==
  /\ x \in evidence
  /\ evidence' = evidence \ {x}
  /\ UNCHANGED <<orderVars, couponVars, prov, reqVars, open, resolved, hook,
                 review>>

CurrentDomainConsistent(x) ==
  LET g == KeyGroup[KeyOf(x)] IN
  IF IsConfirm(x) THEN ConfirmedConsistent(g, KeyOf(x))
  ELSE \/ x.type = "partial_cancel"
       \/ /\ x.reason # "key"
          /\ IF x.type = "amount_mismatch" \/ x.seen = "CANCELED"
               THEN CanceledConsistent(g, x.key)
               ELSE ConfirmedConsistent(g, x.key)

ResolveIncident(x) ==
  /\ x \in open /\ x \in evidence
  /\ CurrentDomainConsistent(x)
  /\ open' = open \ {x}
  /\ resolved' = resolved \union {x}
  /\ UNCHANGED <<orderVars, couponVars, prov, reqVars, evidence, hook, review>>

-----------------------------------------------------------------------------
ConfirmStep(r) ==
  \/ ConfirmOutcomeUnknown(r)  \/ ProviderResponseUncertain(r)
  \/ ProviderRejected(r)       \/ ProviderApproved(r)
  \/ AlreadyProcessed(r)       \/ RecoveryVerified(r)
  \/ RecoveryFailed(r)         \/ ConfirmAlreadyApplied(r)
  \/ ConfirmApplies(r)         \/ ConfirmRefused(r)
  \/ ConfirmDbFailed(r)        \/ ConfirmFailedAfterCommit(r)

WebhookStep(h) ==
  \/ WebhookDoneMismatch(h)    \/ WebhookConfirms(h)
  \/ WebhookPartialCanceled(h) \/ WebhookCancelMismatch(h)
  \/ WebhookCancels(h)         \/ WebhookEnds(h)

ReviewStep(v) ==
  \/ ReviewConfirms(v) \/ ReviewCancels(v) \/ ReviewCompares(v)
  \/ ReviewMismatch(v) \/ ReviewRecords(v) \/ ReviewDies(v)

OperatorStep ==
  \/ \E o \in Orders, new \in OrderStatuses, isRollback \in BOOLEAN :
       AdminUpdateStatus(o, new, isRollback)
  \/ \E v \in Reviews, x \in open : ReviewLookup(v, x)
  \/ \E v \in Reviews : ReviewStep(v)
  \/ \E x \in evidence : EvidenceExpires(x)
  \/ \E x \in open : ResolveIncident(x)

CustomerStep ==
  \/ \E g \in Groups : CreateOrder(g)
  \/ \E r \in Requests, k \in Keys : ConfirmAgain(r, k) \/ PrepareConfirm(r, k)
  \/ \E o \in Orders : SubmitRepair(o)

Next ==
  \/ CustomerStep
  \/ \E r \in Requests : ConfirmStep(r) \/ Crash(r) \/ TossHandles(r)
  \/ \E k \in Keys : DashboardCancels(k)
  \/ \E h \in Hooks, k \in Keys : HookLookup(h, k)
  \/ \E h \in Hooks : WebhookStep(h)
  \/ \E S \in SUBSET Orders : CancelStaleOrders(S)
  \/ OperatorStep

Spec == Init /\ [][Next]_vars

-----------------------------------------------------------------------------
(* Fairness, for the liveness property only.  A request that is running is  *)
(* served or dies; a webhook is delivered again until a delivery is         *)
(* handled, and a handler that can confirm does not fail every time.        *)

Fairness ==
  /\ \A r \in Requests : WF_vars(ConfirmStep(r) \/ Crash(r))
  /\ \A k \in Keys : SF_vars(\E h \in Hooks : HookLookup(h, k))
  /\ \A h \in Hooks : WF_vars(WebhookStep(h)) /\ SF_vars(WebhookConfirms(h))

FairSpec == Spec /\ Fairness

-----------------------------------------------------------------------------
(* What holds whatever operators do *)

\* A locked (paying) order always has an open confirm journal row of its
\* group, across crashes and timeouts: no payment attempt can vanish from the
\* operators' queue while its orders are locked.
LockHasJournal ==
  \A o \in Orders : status[o] = "paying" =>
    \E r \in open \cap Requests : KeyGroup[reqKey[r]] = GroupOf[o]

\* The orders of a group are paid together and under one key, although they
\* are moved, canceled and released one by one.
GroupPaidTogether ==
  \A o1, o2 \in Orders : GroupOf[o1] = GroupOf[o2] /\ paid[o1] =>
    paid[o2] /\ payKey[o1] = payKey[o2]

\* An order is only marked paid by a payment Toss has really captured: a
\* reply read late, a stale webhook or a review cannot invent one.
PaidImpliesCaptured ==
  \A o \in Orders : paid[o] => payKey[o] \in Keys /\ prov[payKey[o]] # "READY"

\* No order is marked paid by a payment of another amount: the webhook, the
\* recovery of an already processed payment and the queue all compare it.
PaidAmountFits == \A o \in Orders : paid[o] => payKey[o] \notin OddKeys

\* Once paid, an order stays paid under the same key: no unlock, webhook,
\* retry or reconciliation of another attempt rewrites it.
PaidKeyIsFinal ==
  [][\A o \in Orders : paid[o] => paid'[o] /\ payKey'[o] = payKey[o]]_vars

-----------------------------------------------------------------------------
(* What holds when operators leave unpaid and locked orders alone.         *)
(* status_machine.py also lets them release a locked order by hand, roll a  *)
(* paid order back to pending, and move an unpaid order forward; each of    *)
(* those edits breaks properties of this section.                          *)

CarefulEdges ==
  {e \in OrderStatuses \X OrderStatuses :
     /\ e[2] # "pending"
     /\ e[1] \in {"pending", "paying"} => e[2] = "canceled"}

\* A request that may still capture, confirm, release or reopen something.
Active(r) ==
  r \in open \/ wire[r] = "sent" \/ pc[r] \in {"calling", "lookup", "confirming"}

\* At most one confirm attempt of a group is unsettled, through timeouts,
\* crashes, retries with the same key and retries with another key.
OneAttemptAtATime ==
  \A r1, r2 \in Requests :
    Active(r1) /\ Active(r2) /\ KeyGroup[reqKey[r1]] = KeyGroup[reqKey[r2]] => r1 = r2

\* A customer is charged at most once for a payment group.
OneChargePerGroup ==
  \A k1, k2 \in Keys :
    KeyGroup[k1] = KeyGroup[k2] /\ prov[k1] # "READY" /\ prov[k2] # "READY" => k1 = k2

\* Captured money is never lost: its orders are paid with it, or a journal
\* row with its key is open for the operators.
CapturedIsAccountedFor ==
  \A k \in Keys : prov[k] # "READY" =>
    \/ AllPaid(KeyGroup[k]) /\ AllKeyed(KeyGroup[k], k)
    \/ \E r \in open \cap Requests : reqKey[r] = k

\* A confirm journal row is closed only when the payment was applied or Toss
\* refused it (operation_journal.py), and a request that answered DONE left
\* its group paid with its own key.
ClosedMeansSettled ==
  \A r \in Requests :
    r \in resolved \/ pc[r] = "done" =>
      \/ pc[r] = "rejected"
      \/ AllPaid(KeyGroup[reqKey[r]]) /\ AllKeyed(KeyGroup[reqKey[r]], reqKey[r])

\* An amount_mismatch row is closed only after the odd payment went back: it
\* is canceled at Toss, and the group's orders are canceled, unpaid.
OddMoneyReturned ==
  \A x \in resolved \ Requests : x.type = "amount_mismatch" =>
    /\ prov[x.key] = "CANCELED"
    /\ AllIn(KeyGroup[x.key], {"canceled"}) /\ NonePaid(KeyGroup[x.key])

\* An order that left the unpaid statuses, and was not canceled, is paid.
AdvancedMeansPaid ==
  \A o \in Orders :
    status[o] \notin {"none", "pending", "paying", "canceled"} => paid[o]

\* A paid order is canceled only by an operator's edit, or because its whole
\* payment is canceled at Toss: not by the batch, by an unlock, by a partial
\* cancel or by the webhook of another attempt.
PaidCanceledKnowingly ==
  [][\A o \in Orders :
       paid[o] /\ status[o] # "canceled" /\ status'[o] = "canceled" =>
         \/ prov[payKey[o]] = "CANCELED"
         \/ <<status[o], "canceled">> \in AdminEdges]_vars

-----------------------------------------------------------------------------
(* Refinement *)

\* What the orders, the payments at Toss and the open journal rows say of a
\* group's payment.
LedgerOf(g) ==
  LET keysOf(S) == {k \in S : KeyGroup[k] = g}
      taken     == keysOf({k \in Keys : prov[k] # "READY"})
      tried     == keysOf({reqKey[r] : r \in open \cap Requests})
      entry(phase, S) == [phase |-> phase, key |-> CHOOSE k \in S : TRUE]
  IN
  IF AllPaid(g) THEN entry("booked", {payKey[o] : o \in GroupOrders(g)})
  ELSE IF taken # {} THEN entry("captured", taken)
  ELSE IF tried # {} THEN entry("trying", tried)
  ELSE [phase |-> "free", key |-> NoKey]

Ledger == INSTANCE PaymentLedger WITH ledger <- [g \in Groups |-> LedgerOf(g)]

\* The money path implements the ledger: one attempt at a time, no charge
\* outside an attempt, no attempt abandoned after its charge, one booking.
ImplementsLedger == Ledger!LedgerSpec

Life(o) == INSTANCE OrderLife
  WITH type <- TypeOf[o], status <- status[o], arrivedFrom <- arrivedFrom[o]

\* Whatever operators do, each order of the money path goes through OrderLife,
\* which is what the claims see of it (Claims, ImplementsLife).
ImplementsLife ==
  /\ \A o \in Orders : Life(o)!LifeInit
  /\ [][\A o \in Orders : [Life(o)!LifeNext]_<<status[o], arrivedFrom[o]>>]_vars

\* What the browser can tell of a group: paid is what confirm_payment answers DONE
\* for, dead what it refuses as not_payable although nobody paid.
StateOf(g) ==
  LET S == GroupOrders(g) IN
  IF \E o \in S : paid[o] THEN "paid"
  ELSE IF \E o \in S : status[o] = "canceled" THEN "dead"
  ELSE IF \E o \in S : status[o] # "none" THEN "open"
  ELSE "none"

Group(g) == INSTANCE GroupLife WITH state <- StateOf(g)

\* Whatever operators do, a group is paid once and for good; and when one of its
\* orders was canceled unpaid, no reply, webhook or review that comes late pays for
\* the others (_apply_confirmation takes all of the group's orders or none).
ImplementsGroups ==
  /\ \A g \in Groups : Group(g)!GroupInit
  /\ [][\A g \in Groups : [Group(g)!GroupNext]_(StateOf(g))]_vars

\* What the claims and the browser are promised.
KeepsContracts == ImplementsLife /\ ImplementsGroups

-----------------------------------------------------------------------------
(* Coupons *)

\* A used coupon was used by a paid order that applies it, and a reserved one
\* is held by an order that can still be paid: no cancellation, release or
\* webhook leaves a coupon reserved for ever.
ReservedIsHeld ==
  \A c \in Coupons :
    /\ coupon[c] = "used" => \E o \in Orders : applied[o] = c /\ paid[o]
    /\ coupon[c] = "reserved" =>
         \E o \in Orders : applied[o] = c /\ status[o] \in {"pending", "paying"}

\* money.md section 4: a confirmed payment turns the coupons of its orders
\* from reserved to used, so a paid discount is always a spent coupon.  The code
\* does not keep this (a refused payment gives its coupon back and keeps the
\* discount), and no run checks it.
PaidConsumesCoupon ==
  \A o \in Orders :
    paid[o] /\ applied[o] # NoCoupon => coupon[applied[o]] = "used"

\* A used coupon never becomes usable again, through duplicated webhooks,
\* stale cancellations and the refused retry of a later attempt.
UsedIsFinal ==
  [][\A c \in Coupons : coupon[c] = "used" => coupon'[c] = "used"]_vars

-----------------------------------------------------------------------------
(* What the code says of itself and does not do: no run checks it.         *)

\* service.py, confirm_payment: ALREADY_PROCESSED must not become an unlock,
\* or a paid order would be canceled by the stale batch.  An operator's edit
\* back to pending is enough for that.
BatchNeverCancelsPaid ==
  [][\A o \in Orders :
       paid[o] /\ status[o] = "pending" /\ status'[o] = "canceled" =>
         prov[payKey[o]] = "CANCELED"]_vars

-----------------------------------------------------------------------------
(* Liveness *)

\* A captured payment whose request died or timed out does not stay locked:
\* the webhook applies it, unless it is canceled at Toss first.
CapturedEventuallyApplied ==
  \A k \in Keys \ OddKeys :
    (prov[k] = "DONE" /\ AllIn(KeyGroup[k], {"paying"}) /\ AllKeyed(KeyGroup[k], k))
      ~> (prov[k] # "DONE" \/ ~AllIn(KeyGroup[k], {"paying"}))
=============================================================================
