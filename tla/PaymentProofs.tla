---------------------------- MODULE PaymentProofs ----------------------------
(***************************************************************************)
(* Theorems about Payment, for every set of groups, orders, keys, coupons, *)
(* requests, webhooks and reviews.                                         *)
(***************************************************************************)
EXTENDS Payment, TLAPS

\* The journal row of a request is written with the request's key, so every
\* open row names a payment.
RowHasRequest == \A r \in open \cap Requests : pc[r] # "idle"

-----------------------------------------------------------------------------
(* The parts an action leaves alone keep their types *)

\* Orders that a step leaves alone stay well typed.
LEMMA UntouchedOrders  == OrdersTypeOK /\ UNCHANGED orderVars => OrdersTypeOK'
  BY DEF OrdersTypeOK, orderVars

\* Coupons that a step leaves alone stay well typed.
LEMMA UntouchedCoupons == CouponsTypeOK /\ UNCHANGED couponVars => CouponsTypeOK'
  BY DEF CouponsTypeOK, couponVars

\* Payments that a step leaves alone stay well typed.
LEMMA UntouchedToss == TossTypeOK /\ UNCHANGED prov => TossTypeOK'
  BY DEF TossTypeOK

\* Confirm requests that a step leaves alone stay well typed.
LEMMA UntouchedRequests == RequestsTypeOK /\ UNCHANGED reqVars => RequestsTypeOK'
  BY DEF RequestsTypeOK, reqVars

\* Journal rows and incidents that a step leaves alone stay well typed.
LEMMA UntouchedQueue == QueueTypeOK /\ UNCHANGED queueVars => QueueTypeOK'
  BY DEF QueueTypeOK, queueVars

\* Webhook deliveries that a step leaves alone stay well typed.
LEMMA UntouchedHooks == HooksTypeOK /\ UNCHANGED hook => HooksTypeOK'
  BY DEF HooksTypeOK

\* Reviews that a step leaves alone stay well typed.
LEMMA UntouchedReviews == ReviewsTypeOK /\ UNCHANGED review => ReviewsTypeOK'
  BY DEF ReviewsTypeOK

\* The seven facts above together, as the steps below use them.
LEMMA Untouched ==
  /\ OrdersTypeOK /\ UNCHANGED orderVars => OrdersTypeOK'
  /\ CouponsTypeOK /\ UNCHANGED couponVars => CouponsTypeOK'
  /\ TossTypeOK /\ UNCHANGED prov => TossTypeOK'
  /\ RequestsTypeOK /\ UNCHANGED reqVars => RequestsTypeOK'
  /\ QueueTypeOK /\ UNCHANGED queueVars => QueueTypeOK'
  /\ HooksTypeOK /\ UNCHANGED hook => HooksTypeOK'
  /\ ReviewsTypeOK /\ UNCHANGED review => ReviewsTypeOK'
  BY UntouchedOrders, UntouchedCoupons, UntouchedToss, UntouchedRequests,
     UntouchedQueue, UntouchedHooks, UntouchedReviews

-----------------------------------------------------------------------------
(* The helpers that actions share *)

\* The status a confirmed order moves to is neither unpaid nor canceled.
LEMMA PostStatusType ==
  \A type : PostStatus(type) \in OrderStatuses \ {"pending", "paying", "canceled"}
  BY DEF PostStatus, OrderStatuses

\* Moving a set of orders to one status keeps the orders well typed.
LEMMA SetStatusType ==
  ASSUME OrdersTypeOK, NEW S, NEW new \in OrderStatuses, status' = SetStatus(S, new),
         UNCHANGED arrivedFrom, UNCHANGED paid,
         payKey' \in [Orders -> Keys \union {NoKey}]
  PROVE  OrdersTypeOK'
  BY DEF OrdersTypeOK, SetStatus

\* _apply_confirmation keeps orders and coupons well typed.
LEMMA ApplyConfirmationType ==
  ASSUME OrdersTypeOK, CouponsTypeOK, NEW g, NEW k \in Keys \union {NoKey},
         ApplyConfirmation(g, k)
  PROVE  OrdersTypeOK' /\ CouponsTypeOK'
  <1>1. status' \in [Orders -> OrderStatuses \union {"none"}]
    BY PostStatusType DEF ApplyConfirmation, OrdersTypeOK
  <1>2. payKey' \in [Orders -> Keys \union {NoKey}]
    BY DEF ApplyConfirmation, OrdersTypeOK
  <1>3. paid' \in [Orders -> BOOLEAN]
    BY DEF ApplyConfirmation, OrdersTypeOK
  <1>4. coupon' \in [Coupons -> {"none", "active", "reserved", "used"}]
    BY DEF ApplyConfirmation, CouponsTypeOK
  <1> QED
    BY <1>1, <1>2, <1>3, <1>4 DEF ApplyConfirmation, OrdersTypeOK, CouponsTypeOK

\* Releasing the coupons of a set of orders keeps coupons well typed.
LEMMA RestoreCouponsType ==
  ASSUME CouponsTypeOK, NEW S, RestoreReservedOrderCoupons(S), UNCHANGED applied
  PROVE  CouponsTypeOK'
  BY DEF RestoreReservedOrderCoupons, CouponsTypeOK

\* A request moves on, keeping its key and its call.
LEMMA MovePcType ==
  ASSUME RequestsTypeOK, NEW r \in Requests, pc[r] # "idle",
         NEW to \in {"calling", "lookup", "confirming", "done", "rejected",
                     "unsure", "dead"},
         pc' = [pc EXCEPT ![r] = to], UNCHANGED wire, UNCHANGED reqKey
  PROVE  RequestsTypeOK'
  BY DEF RequestsTypeOK

\* Opening or closing a request's journal row keeps the queue well typed.
LEMMA JournalType ==
  ASSUME QueueTypeOK, NEW r \in Requests, CloseJournal(r) \/ OpenJournal(r),
         UNCHANGED evidence
  PROVE  QueueTypeOK'
  BY DEF QueueTypeOK, CloseJournal, OpenJournal, Items

\* A confirm that ends with its outcome unknown keeps the state well typed.
LEMMA EndUnsureType ==
  ASSUME TypeOK, NEW r \in Requests, pc[r] # "idle", EndUnsure(r)
  PROVE  TypeOK'
  <1>1. RequestsTypeOK'
    BY MovePcType DEF EndUnsure, TypeOK
  <1>2. QueueTypeOK'
    BY JournalType DEF EndUnsure, TypeOK
  <1> QED
    BY <1>1, <1>2, Untouched DEF EndUnsure, TypeOK

\* A delivery that has been handled is an idle one again, well typed.
LEMMA HandledType ==
  ASSUME HooksTypeOK, NEW h \in Hooks, Handled(h)
  PROVE  HooksTypeOK'
  BY DEF HooksTypeOK, Handled

\* A delivery that has looked its payment up has a key.
LEMMA HookKey ==
  ASSUME HooksTypeOK, NEW h \in Hooks, hook[h] # IdleHook
  PROVE  hook[h].key \in Keys /\ hook[h].seen \in ProviderStatuses
  BY DEF HooksTypeOK

\* A delivery that has seen a provider status is not idle.
LEMMA HookSeen ==
  ASSUME NEW h \in Hooks, hook[h].seen # "none"
  PROVE  hook[h] # IdleHook
  BY DEF IdleHook

\* A webhook that records an incident keeps the state well typed.
LEMMA RecordWebhookIncidentType ==
  ASSUME TypeOK, NEW h \in Hooks, hook[h].seen \in {"DONE", "CANCELED", "PARTIAL"},
         NEW type \in {"mixed_state", "amount_mismatch", "partial_cancel"},
         NEW reason \in {"key", "state", "amount", "partial"},
         RecordWebhookIncident(h, type, reason)
  PROVE  TypeOK'
  <1> DEFINE x == [type |-> type, reason |-> reason, seen |-> hook[h].seen,
                   key |-> hook[h].key]
  <1>1. x \in Items
    BY HookKey, HookSeen DEF TypeOK, Items, Incident
  <1>2. QueueTypeOK'
    <2>1. CASE UNCHANGED queueVars
      BY <2>1, UntouchedQueue DEF TypeOK
    <2>2. CASE open' = open \union {x} /\ resolved' = resolved \ {x}
               /\ evidence' = evidence \ {x}
      BY <1>1, <2>2 DEF TypeOK, QueueTypeOK
    <2> QED
      BY <2>1, <2>2 DEF RecordWebhookIncident
  <1>3. HooksTypeOK'
    BY HandledType DEF RecordWebhookIncident, TypeOK
  <1> QED
    BY <1>2, <1>3, Untouched DEF RecordWebhookIncident, TypeOK

\* A review that looked its row up moves on to its result.
LEMMA ReviewedType ==
  ASSUME ReviewsTypeOK, NEW v \in Reviews, NEW ok \in BOOLEAN,
         review[v].step = "looked", Reviewed(v, ok)
  PROVE  ReviewsTypeOK'
  BY DEF ReviewsTypeOK, Reviewed, IdleReview

\* A review that looked at an item has a row of the queue in hand.
LEMMA ReviewItem ==
  ASSUME ReviewsTypeOK, NEW v \in Reviews, review[v].step # "idle"
  PROVE  review[v].item \in Items
  BY DEF ReviewsTypeOK, IdleReview

-----------------------------------------------------------------------------
(* Type correctness *)

\* The initial states are well typed.
LEMMA TypeInit == Init => TypeOK
  <1> SUFFICES ASSUME Init PROVE TypeOK
    OBVIOUS
  <1>1. OrdersTypeOK /\ TossTypeOK /\ RequestsTypeOK /\ QueueTypeOK
    BY DEF Init, OrdersTypeOK, TossTypeOK, RequestsTypeOK, QueueTypeOK,
           ProviderStatuses
  <1>2. CouponsTypeOK
    BY DEF Init, CouponsTypeOK
  <1>3. HooksTypeOK /\ ReviewsTypeOK
    BY DEF Init, HooksTypeOK, ReviewsTypeOK
  <1> QED
    BY <1>1, <1>2, <1>3 DEF TypeOK

\* Checkout and the first transaction of a confirm.
LEMMA CheckoutType ==
  ASSUME TypeOK, CustomerStep
  PROVE  TypeOK'
  <1>1. ASSUME NEW g \in Groups, CreateOrder(g) PROVE TypeOK'
    <2>1. OrdersTypeOK'
      BY <1>1, SetStatusType DEF CreateOrder, TypeOK, OrdersTypeOK, OrderStatuses
    <2>2. CouponsTypeOK'
      BY <1>1 DEF CreateOrder, TypeOK, CouponsTypeOK
    <2> QED
      BY <1>1, <2>1, <2>2, Untouched DEF CreateOrder, TypeOK
  <1>2. ASSUME NEW r \in Requests, NEW k \in Keys, ConfirmAgain(r, k)
        PROVE  TypeOK'
    <2>1. RequestsTypeOK'
      BY <1>2 DEF ConfirmAgain, TypeOK, RequestsTypeOK
    <2> QED
      BY <1>2, <2>1, Untouched DEF ConfirmAgain, TypeOK
  <1>3. ASSUME NEW r \in Requests, NEW k \in Keys, PrepareConfirm(r, k)
        PROVE  TypeOK'
    <2>1. OrdersTypeOK'
      <3>1. payKey' \in [Orders -> Keys \union {NoKey}]
        BY <1>3 DEF PrepareConfirm, TypeOK, OrdersTypeOK
      <3> QED
        BY <1>3, <3>1, SetStatusType DEF PrepareConfirm, TypeOK, OrderStatuses
    <2>2. RequestsTypeOK'
      BY <1>3 DEF PrepareConfirm, TypeOK, RequestsTypeOK
    <2>3. QueueTypeOK'
      BY <1>3 DEF PrepareConfirm, TypeOK, QueueTypeOK, Items
    <2> QED
      BY <1>3, <2>1, <2>2, <2>3, Untouched DEF PrepareConfirm, TypeOK
  <1>4. ASSUME NEW o \in Orders, SubmitRepair(o) PROVE TypeOK'
    <2>1. OrdersTypeOK'
      BY <1>4 DEF SubmitRepair, TypeOK, OrdersTypeOK, OrderStatuses
    <2> QED
      BY <1>4, <2>1, Untouched DEF SubmitRepair, TypeOK
  <1> QED
    BY <1>1, <1>2, <1>3, <1>4 DEF CustomerStep

\* What a confirm request does with the answer, and its death.
LEMMA ConfirmStepType ==
  ASSUME TypeOK, NEW r \in Requests, ConfirmStep(r) \/ Crash(r)
  PROVE  TypeOK'
  <1>1. ASSUME \/ ConfirmOutcomeUnknown(r) \/ ProviderResponseUncertain(r)
               \/ RecoveryFailed(r) \/ ConfirmRefused(r) \/ ConfirmDbFailed(r)
        PROVE  TypeOK'
    BY <1>1, EndUnsureType DEF ConfirmOutcomeUnknown, ProviderResponseUncertain,
       RecoveryFailed, ConfirmRefused, ConfirmDbFailed
  <1>2. CASE ProviderRejected(r)
    <2>1. OrdersTypeOK'
      <3>1. payKey' \in [Orders -> Keys \union {NoKey}]
        BY <1>2 DEF ProviderRejected, TypeOK, OrdersTypeOK
      <3> QED
        BY <1>2, <3>1, SetStatusType DEF ProviderRejected, TypeOK, OrderStatuses
    <2>2. CouponsTypeOK'
      BY <1>2, RestoreCouponsType DEF ProviderRejected, TypeOK
    <2>3. RequestsTypeOK'
      BY <1>2, MovePcType DEF ProviderRejected, TypeOK
    <2>4. QueueTypeOK'
      BY <1>2, JournalType DEF ProviderRejected, TypeOK
    <2> QED
      BY <1>2, <2>1, <2>2, <2>3, <2>4, Untouched DEF ProviderRejected, TypeOK
  <1>3. ASSUME \/ ProviderApproved(r) \/ AlreadyProcessed(r)
               \/ RecoveryVerified(r) \/ Crash(r)
        PROVE  TypeOK'
    <2>1. RequestsTypeOK'
      BY <1>3, MovePcType DEF ProviderApproved, AlreadyProcessed,
         RecoveryVerified, Crash, TypeOK
    <2> QED
      BY <1>3, <2>1, Untouched DEF ProviderApproved, AlreadyProcessed,
         RecoveryVerified, Crash, TypeOK
  <1>4. CASE ConfirmAlreadyApplied(r)
    <2>1. RequestsTypeOK' /\ QueueTypeOK'
      BY <1>4, MovePcType, JournalType DEF ConfirmAlreadyApplied, TypeOK
    <2> QED
      BY <1>4, <2>1, Untouched DEF ConfirmAlreadyApplied, TypeOK
  <1>5. CASE ConfirmApplies(r)
    <2>1. RequestsTypeOK' /\ QueueTypeOK'
      BY <1>5, MovePcType, JournalType DEF ConfirmApplies, TypeOK
    <2>2. OrdersTypeOK' /\ CouponsTypeOK'
      BY <1>5, ApplyConfirmationType
         DEF ConfirmApplies, TypeOK, RequestsTypeOK
    <2> QED
      BY <1>5, <2>1, <2>2, Untouched DEF ConfirmApplies, TypeOK
  <1>6. CASE ConfirmFailedAfterCommit(r)
    <2>1. RequestsTypeOK' /\ QueueTypeOK'
      BY <1>6, MovePcType, JournalType DEF ConfirmFailedAfterCommit, TypeOK
    <2>2. OrdersTypeOK' /\ CouponsTypeOK'
      BY <1>6, ApplyConfirmationType
         DEF ConfirmFailedAfterCommit, TypeOK, RequestsTypeOK
    <2> QED
      BY <1>6, <2>1, <2>2, Untouched DEF ConfirmFailedAfterCommit, TypeOK
  <1> QED
    BY <1>1, <1>2, <1>3, <1>4, <1>5, <1>6 DEF ConfirmStep

\* Toss itself.
LEMMA TossType ==
  ASSUME TypeOK,
         \/ \E r \in Requests : TossHandles(r)
         \/ \E k \in Keys : DashboardCancels(k)
  PROVE  TypeOK'
  <1>1. ASSUME NEW r \in Requests, TossHandles(r) PROVE TypeOK'
    <2>1. TossTypeOK'
      BY <1>1 DEF TossHandles, TypeOK, TossTypeOK, ProviderStatuses
    <2>2. RequestsTypeOK'
      BY <1>1, PaymentAssumption DEF TossHandles, TypeOK, RequestsTypeOK
    <2> QED
      BY <1>1, <2>1, <2>2, Untouched DEF TossHandles, TypeOK
  <1>2. ASSUME NEW k \in Keys, DashboardCancels(k) PROVE TypeOK'
    <2>1. TossTypeOK'
      BY <1>2 DEF DashboardCancels, TypeOK, TossTypeOK, ProviderStatuses
    <2> QED
      BY <1>2, <2>1, Untouched DEF DashboardCancels, TypeOK
  <1> QED
    BY <1>1, <1>2

\* Every step of a webhook delivery keeps the state well typed.
LEMMA WebhookType ==
  ASSUME TypeOK, NEW h \in Hooks,
         WebhookStep(h) \/ \E k \in Keys : HookLookup(h, k)
  PROVE  TypeOK'
  <1>1. ASSUME NEW k \in Keys, HookLookup(h, k) PROVE TypeOK'
    <2>1. HooksTypeOK'
      BY <1>1 DEF HookLookup, TypeOK, HooksTypeOK, TossTypeOK
    <2> QED
      BY <1>1, <2>1, Untouched DEF HookLookup, TypeOK
  <1>2. ASSUME \/ WebhookDoneMismatch(h) \/ WebhookPartialCanceled(h)
               \/ WebhookCancelMismatch(h)
        PROVE  TypeOK'
    BY <1>2, RecordWebhookIncidentType DEF WebhookDoneMismatch,
       WebhookPartialCanceled, WebhookCancelMismatch
  <1>3. CASE WebhookConfirms(h)
    <2>1. hook[h].key \in Keys
      BY <1>3, HookKey, HookSeen DEF WebhookConfirms, TypeOK
    <2>2. OrdersTypeOK' /\ CouponsTypeOK'
      BY <1>3, <2>1, ApplyConfirmationType DEF WebhookConfirms, TypeOK
    <2>3. HooksTypeOK'
      BY <1>3, HandledType DEF WebhookConfirms, TypeOK
    <2> QED
      BY <1>3, <2>2, <2>3, Untouched DEF WebhookConfirms, TypeOK
  <1>4. CASE WebhookCancels(h)
    <2>1. OrdersTypeOK'
      BY <1>4, SetStatusType DEF WebhookCancels, TypeOK, OrdersTypeOK, OrderStatuses
    <2>2. CouponsTypeOK'
      BY <1>4, RestoreCouponsType DEF WebhookCancels, TypeOK
    <2>3. HooksTypeOK'
      BY <1>4, HandledType DEF WebhookCancels, TypeOK
    <2> QED
      BY <1>4, <2>1, <2>2, <2>3, Untouched DEF WebhookCancels, TypeOK
  <1>5. CASE WebhookEnds(h)
    <2>1. HooksTypeOK'
      BY <1>5, HandledType DEF WebhookEnds, TypeOK
    <2> QED
      BY <1>5, <2>1, Untouched DEF WebhookEnds, TypeOK
  <1> QED
    BY <1>1, <1>2, <1>3, <1>4, <1>5 DEF WebhookStep

\* Operators' edits and the batch.
LEMMA StatusEditType ==
  ASSUME TypeOK,
         \/ \E o \in Orders, new \in OrderStatuses, isRollback \in BOOLEAN :
              AdminUpdateStatus(o, new, isRollback)
         \/ \E S \in SUBSET Orders : CancelStaleOrders(S)
  PROVE  TypeOK'
  <1>1. ASSUME NEW o \in Orders, NEW new \in OrderStatuses,
               NEW isRollback \in BOOLEAN, AdminUpdateStatus(o, new, isRollback)
        PROVE  TypeOK'
    <2>1. OrdersTypeOK'
      BY <1>1 DEF AdminUpdateStatus, TypeOK, OrdersTypeOK
    <2> QED
      BY <1>1, <2>1, Untouched DEF AdminUpdateStatus, TypeOK
  <1>2. ASSUME NEW S \in SUBSET Orders, CancelStaleOrders(S) PROVE TypeOK'
    <2>1. OrdersTypeOK'
      BY <1>2, SetStatusType DEF CancelStaleOrders, TypeOK, OrdersTypeOK, OrderStatuses
    <2>2. CouponsTypeOK'
      BY <1>2, RestoreCouponsType DEF CancelStaleOrders, TypeOK
    <2> QED
      BY <1>2, <2>1, <2>2, Untouched DEF CancelStaleOrders, TypeOK
  <1> QED
    BY <1>1, <1>2

\* Operators' edits of the queue keep the state well typed.
LEMMA QueueEditType ==
  ASSUME TypeOK,
         \/ \E x \in evidence : EvidenceExpires(x)
         \/ \E x \in open : ResolveIncident(x)
  PROVE  TypeOK'
  <1>1. ASSUME NEW x \in evidence, EvidenceExpires(x) PROVE TypeOK'
    <2>1. QueueTypeOK'
      BY <1>1 DEF EvidenceExpires, TypeOK, QueueTypeOK
    <2> QED
      BY <1>1, <2>1, Untouched DEF EvidenceExpires, TypeOK
  <1>2. ASSUME NEW x \in open, ResolveIncident(x) PROVE TypeOK'
    <2>1. QueueTypeOK'
      BY <1>2 DEF ResolveIncident, TypeOK, QueueTypeOK
    <2> QED
      BY <1>2, <2>1, Untouched DEF ResolveIncident, TypeOK
  <1> QED
    BY <1>1, <1>2

\* Every step of a review keeps the state well typed.
LEMMA ReviewType ==
  ASSUME TypeOK, RowHasRequest, NEW v \in Reviews,
         ReviewStep(v) \/ \E x \in open : ReviewLookup(v, x)
  PROVE  TypeOK'
  <1>1. ASSUME NEW x \in open, ReviewLookup(v, x) PROVE TypeOK'
    <2>1. KeyOf(x) \in Keys
      BY DEF TypeOK, QueueTypeOK, Items, Incident, KeyOf, RequestsTypeOK,
         RowHasRequest
    <2>2. ReviewsTypeOK'
      BY <1>1, <2>1 DEF ReviewLookup, TypeOK, ReviewsTypeOK, QueueTypeOK, TossTypeOK
    <2> QED
      BY <1>1, <2>2, Untouched DEF ReviewLookup, TypeOK
  <1>2. CASE ReviewConfirms(v)
    <2> DEFINE x == review[v].item
    <2>1. x \in Items
      BY <1>2, ReviewItem DEF ReviewConfirms, TypeOK
    <2>2. KeyOf(x) \in Keys \union {NoKey}
      BY <2>1 DEF TypeOK, Items, Incident, KeyOf, RequestsTypeOK
    <2>3. OrdersTypeOK' /\ CouponsTypeOK'
      BY <1>2, <2>2, ApplyConfirmationType, UntouchedOrders, UntouchedCoupons
         DEF ReviewConfirms, TypeOK
    <2>4. ReviewsTypeOK'
      BY <1>2, ReviewedType DEF ReviewConfirms, ConfirmedConsistent, TypeOK
    <2> QED
      BY <1>2, <2>3, <2>4, Untouched DEF ReviewConfirms, TypeOK
  <1>3. CASE ReviewCancels(v)
    <2> DEFINE x == review[v].item
    <2>1. x \in Incident /\ KeyOf(x) \in Keys
      BY <1>3, ReviewItem DEF ReviewCancels, TypeOK, Items, Incident, IsConfirm, KeyOf
    <2>2. OrdersTypeOK'
      BY <1>3, <2>1 DEF ReviewCancels, TypeOK, OrdersTypeOK, SetStatus, OrderStatuses
    <2>3. CouponsTypeOK'
      BY <1>3, RestoreCouponsType, UntouchedCoupons DEF ReviewCancels, TypeOK, couponVars
    <2>4. ReviewsTypeOK'
      BY <1>3, ReviewedType DEF ReviewCancels, KeysFit, AllIn, TypeOK
    <2> QED
      BY <1>3, <2>2, <2>3, <2>4, Untouched DEF ReviewCancels, TypeOK
  <1>4. CASE ReviewCompares(v)
    <2>1. ReviewsTypeOK'
      BY <1>4, ReviewedType DEF ReviewCompares, TypeOK
    <2> QED
      BY <1>4, <2>1, Untouched DEF ReviewCompares, TypeOK
  <1>5. CASE ReviewMismatch(v)
    <2>1. ReviewsTypeOK'
      BY <1>5, ReviewedType DEF ReviewMismatch, TypeOK
    <2> QED
      BY <1>5, <2>1, Untouched DEF ReviewMismatch, TypeOK
  <1>6. CASE ReviewRecords(v)
    <2>1. review[v].item \in Items
      BY <1>6, ReviewItem DEF ReviewRecords, TypeOK
    <2>2. QueueTypeOK'
      BY <1>6, <2>1 DEF ReviewRecords, TypeOK, QueueTypeOK
    <2>3. ReviewsTypeOK'
      BY <1>6 DEF ReviewRecords, TypeOK, ReviewsTypeOK
    <2> QED
      BY <1>6, <2>2, <2>3, Untouched DEF ReviewRecords, TypeOK
  <1>7. CASE ReviewDies(v)
    <2>1. ReviewsTypeOK'
      BY <1>7 DEF ReviewDies, TypeOK, ReviewsTypeOK
    <2> QED
      BY <1>7, <2>1, Untouched DEF ReviewDies, TypeOK
  <1> QED
    BY <1>1, <1>2, <1>3, <1>4, <1>5, <1>6, <1>7 DEF ReviewStep

\* Every step keeps the state well typed.
LEMMA TypeNext == TypeOK /\ RowHasRequest /\ [Next]_vars => TypeOK'
  <1> SUFFICES ASSUME TypeOK, RowHasRequest, [Next]_vars PROVE TypeOK'
    OBVIOUS
  <1>1. CASE CustomerStep
    BY <1>1, CheckoutType
  <1>2. CASE \E r \in Requests : ConfirmStep(r) \/ Crash(r) \/ TossHandles(r)
    BY <1>2, ConfirmStepType, TossType
  <1>3. CASE \E k \in Keys : DashboardCancels(k)
    BY <1>3, TossType
  <1>4. CASE \/ \E h \in Hooks, k \in Keys : HookLookup(h, k)
             \/ \E h \in Hooks : WebhookStep(h)
    BY <1>4, WebhookType
  <1>5. CASE \E S \in SUBSET Orders : CancelStaleOrders(S)
    BY <1>5, StatusEditType
  <1>6. CASE OperatorStep
    BY <1>6, StatusEditType, ReviewType, QueueEditType DEF OperatorStep
  <1>7. CASE UNCHANGED vars
    BY <1>7, Untouched DEF vars, TypeOK
  <1> QED
    BY <1>1, <1>2, <1>3, <1>4, <1>5, <1>6, <1>7 DEF Next

-----------------------------------------------------------------------------
(* No locked order without an open journal row *)

\* At first nothing is locked and no row is open.
LEMMA JournalInit == Init => RowHasRequest /\ LockHasJournal
  BY DEF Init, RowHasRequest, LockHasJournal

\* A step that locks nothing and closes at most the row of r keeps the locks
\* covered, when it leaves no order of r's group locked.
LEMMA LockKept ==
  ASSUME LockHasJournal, NEW r,
         \A o \in Orders : status'[o] = "paying" => status[o] = "paying",
         \A q \in open \cap Requests : reqKey'[q] = reqKey[q] /\ (q \in open' \/ q = r),
         \A o \in Orders : r \in Requests \ open' /\ KeyGroup[reqKey[r]] = GroupOf[o]
                            => status'[o] # "paying"
  PROVE  LockHasJournal'
  BY DEF LockHasJournal

\* The same, for a step that closes no row.
LEMMA LockUntouched ==
  ASSUME LockHasJournal,
         \A o \in Orders : status'[o] = "paying" => status[o] = "paying",
         \A q \in open \cap Requests : reqKey'[q] = reqKey[q] /\ q \in open'
  PROVE  LockHasJournal'
  BY DEF LockHasJournal

\* Open rows keep their requests in a step that makes no request idle again
\* and opens rows only for requests under way.
LEMMA RowKept ==
  ASSUME RowHasRequest,
         \A q \in Requests : pc[q] # "idle" => pc'[q] # "idle",
         \A q \in Requests : q \in open' => q \in open \/ pc'[q] # "idle"
  PROVE  RowHasRequest'
  BY DEF RowHasRequest

\* _apply_confirmation leaves no order of the group locked and locks none.
LEMMA ApplyConfirmationUnlocks ==
  ASSUME NEW g, NEW k, ApplyConfirmation(g, k)
  PROVE  /\ \A o \in Orders : status'[o] = "paying" => status[o] = "paying"
         /\ \A o \in GroupOrders(g) : status'[o] # "paying"
  BY PostStatusType DEF ApplyConfirmation, GroupOrders

\* The state machine has no edge into paying: only the lock leads there.
LEMMA NoEdgeIntoPaying ==
  ASSUME NEW type \in OrderTypes, NEW current, NEW new, NEW isRollback \in BOOLEAN,
         NEW previous \in RepairSendStatuses \union {"none"},
         ValidTransition(type, current, new, isRollback, previous)
  PROVE  new # "paying"
  <1>1. CASE isRollback
    <2>1. \A e \in ROLLBACK[type] : e[2] # "paying"
      BY DEF ROLLBACK, OrderTypes
    <2> QED
      BY <1>1, <2>1 DEF ValidTransition, RepairSendStatuses
  <1>2. CASE ~isRollback
    <2>1. \A e \in FORWARD[type] : e[2] # "paying"
      BY DEF FORWARD, OrderTypes
    <2> QED
      BY <1>2, <2>1 DEF ValidTransition
  <1> QED
    BY <1>1, <1>2

\* A confirm that ends with its outcome unknown keeps its row, and the locks.
LEMMA EndUnsureJournal ==
  ASSUME TypeOK, RowHasRequest, LockHasJournal, NEW r \in Requests, EndUnsure(r)
  PROVE  RowHasRequest' /\ LockHasJournal'
  <1>1. RowHasRequest'
    BY RowKept DEF EndUnsure, OpenJournal, TypeOK, RequestsTypeOK
  <1>2. LockHasJournal'
    BY LockUntouched DEF EndUnsure, OpenJournal, orderVars
  <1> QED
    BY <1>1, <1>2

\* What a confirm request does keeps its lock covered.
LEMMA ConfirmStepJournal ==
  ASSUME TypeOK, RowHasRequest, LockHasJournal, NEW r \in Requests,
         ConfirmStep(r) \/ Crash(r)
  PROVE  RowHasRequest' /\ LockHasJournal'
  <1>1. ASSUME \/ ConfirmOutcomeUnknown(r) \/ ProviderResponseUncertain(r)
               \/ RecoveryFailed(r) \/ ConfirmRefused(r) \/ ConfirmDbFailed(r)
        PROVE  RowHasRequest' /\ LockHasJournal'
    BY <1>1, EndUnsureJournal DEF ConfirmOutcomeUnknown,
       ProviderResponseUncertain, RecoveryFailed, ConfirmRefused, ConfirmDbFailed
  <1>2. ASSUME \/ ProviderApproved(r) \/ AlreadyProcessed(r)
               \/ RecoveryVerified(r) \/ Crash(r)
        PROVE  RowHasRequest' /\ LockHasJournal'
    <2>1. RowHasRequest'
      BY <1>2, RowKept DEF ProviderApproved, AlreadyProcessed, RecoveryVerified,
         Crash, TypeOK, RequestsTypeOK, queueVars
    <2>2. LockHasJournal'
      BY <1>2, LockUntouched DEF ProviderApproved, AlreadyProcessed,
         RecoveryVerified, Crash, orderVars, queueVars
    <2> QED
      BY <2>1, <2>2
  <1>3. CASE ProviderRejected(r)
    <2>1. RowHasRequest'
      BY <1>3, RowKept DEF ProviderRejected, CloseJournal, TypeOK, RequestsTypeOK
    <2>2. \A o \in Orders : status'[o] = "paying" =>
            status[o] = "paying" /\ GroupOf[o] # KeyGroup[reqKey[r]]
      BY <1>3 DEF ProviderRejected, SetStatus, GroupOrders
    <2>3. LockHasJournal'
      BY <1>3, <2>2, LockKept DEF ProviderRejected, CloseJournal
    <2> QED
      BY <2>1, <2>3
  <1>4. CASE ConfirmAlreadyApplied(r)
    <2>1. RowHasRequest'
      BY <1>4, RowKept DEF ConfirmAlreadyApplied, CloseJournal, TypeOK, RequestsTypeOK
    <2>2. \A o \in Orders : KeyGroup[reqKey[r]] = GroupOf[o] => status'[o] # "paying"
      BY <1>4, PostStatusType DEF ConfirmAlreadyApplied, AllPost, GroupOrders, orderVars
    <2>3. LockHasJournal'
      BY <1>4, <2>2, LockKept DEF ConfirmAlreadyApplied, CloseJournal, orderVars
    <2> QED
      BY <2>1, <2>3
  <1>5. CASE ConfirmApplies(r)
    <2>1. RowHasRequest'
      BY <1>5, RowKept DEF ConfirmApplies, CloseJournal, TypeOK, RequestsTypeOK
    <2>2. /\ \A o \in Orders : status'[o] = "paying" => status[o] = "paying"
          /\ \A o \in Orders : KeyGroup[reqKey[r]] = GroupOf[o] => status'[o] # "paying"
      BY <1>5, ApplyConfirmationUnlocks DEF ConfirmApplies, GroupOrders
    <2>3. LockHasJournal'
      BY <1>5, <2>2, LockKept DEF ConfirmApplies, CloseJournal
    <2> QED
      BY <2>1, <2>3
  <1>6. CASE ConfirmFailedAfterCommit(r)
    <2>1. RowHasRequest'
      BY <1>6, RowKept
         DEF ConfirmFailedAfterCommit, OpenJournal, TypeOK, RequestsTypeOK
    <2>2. \A o \in Orders : status'[o] = "paying" => status[o] = "paying"
      BY <1>6, ApplyConfirmationUnlocks DEF ConfirmFailedAfterCommit
    <2>3. LockHasJournal'
      BY <1>6, <2>2, LockUntouched DEF ConfirmFailedAfterCommit, OpenJournal
    <2> QED
      BY <2>1, <2>3
  <1> QED
    BY <1>1, <1>2, <1>3, <1>4, <1>5, <1>6 DEF ConfirmStep

\* The lock commits with its row; nothing else of a customer locks.
LEMMA CheckoutJournal ==
  ASSUME TypeOK, RowHasRequest, LockHasJournal, CustomerStep
  PROVE  RowHasRequest' /\ LockHasJournal'
  <1>1. ASSUME NEW g \in Groups, CreateOrder(g)
        PROVE  RowHasRequest' /\ LockHasJournal'
    <2>1. RowHasRequest'
      BY <1>1, RowKept DEF CreateOrder, reqVars, queueVars
    <2>2. LockHasJournal'
      BY <1>1, LockUntouched DEF CreateOrder, SetStatus, reqVars, queueVars
    <2> QED
      BY <2>1, <2>2
  <1>2. ASSUME NEW r \in Requests, NEW k \in Keys, ConfirmAgain(r, k)
        PROVE  RowHasRequest' /\ LockHasJournal'
    <2>1. r \notin open
      BY <1>2 DEF ConfirmAgain, RowHasRequest
    <2>2. RowHasRequest'
      BY <1>2, RowKept DEF ConfirmAgain, TypeOK, RequestsTypeOK, queueVars
    <2>3. LockHasJournal'
      BY <1>2, <2>1, LockUntouched
         DEF ConfirmAgain, TypeOK, RequestsTypeOK, orderVars, queueVars
    <2> QED
      BY <2>2, <2>3
  <1>3. ASSUME NEW r \in Requests, NEW k \in Keys, PrepareConfirm(r, k)
        PROVE  RowHasRequest' /\ LockHasJournal'
    <2>1. r \notin open
      BY <1>3 DEF PrepareConfirm, RowHasRequest
    <2>2. RowHasRequest'
      BY <1>3, RowKept DEF PrepareConfirm, TypeOK, RequestsTypeOK
    <2>3. ASSUME NEW o \in Orders, status'[o] = "paying"
          PROVE  \E q \in open' \cap Requests : KeyGroup[reqKey'[q]] = GroupOf[o]
      <3>1. CASE o \in GroupOrders(KeyGroup[k])
        BY <1>3, <3>1 DEF PrepareConfirm, GroupOrders, TypeOK, RequestsTypeOK
      <3>2. CASE o \notin GroupOrders(KeyGroup[k])
        <4>1. PICK q \in open \cap Requests : KeyGroup[reqKey[q]] = GroupOf[o]
          BY <1>3, <2>3, <3>2 DEF PrepareConfirm, SetStatus, LockHasJournal
        <4>2. q \in open' /\ reqKey'[q] = reqKey[q]
          BY <1>3, <2>1, <4>1 DEF PrepareConfirm, TypeOK, RequestsTypeOK
        <4> QED
          BY <4>1, <4>2
      <3> QED
        BY <3>1, <3>2
    <2>4. LockHasJournal'
      BY <2>3 DEF LockHasJournal
    <2> QED
      BY <2>2, <2>4
  <1>4. ASSUME NEW o \in Orders, SubmitRepair(o)
        PROVE  RowHasRequest' /\ LockHasJournal'
    <2>1. RowHasRequest'
      BY <1>4, RowKept DEF SubmitRepair, reqVars, queueVars
    <2>2. LockHasJournal'
      BY <1>4, LockUntouched
         DEF SubmitRepair, TypeOK, OrdersTypeOK, reqVars, queueVars
    <2> QED
      BY <2>1, <2>2
  <1> QED
    BY <1>1, <1>2, <1>3, <1>4 DEF CustomerStep

\* Every step of a webhook delivery keeps the locks covered.
LEMMA WebhookJournal ==
  ASSUME TypeOK, RowHasRequest, LockHasJournal, NEW h \in Hooks, WebhookStep(h)
  PROVE  RowHasRequest' /\ LockHasJournal'
  <1>1. ASSUME NEW type, NEW reason, hook[h].seen \in {"DONE", "CANCELED", "PARTIAL"},
               type \in {"mixed_state", "amount_mismatch", "partial_cancel"},
               reason \in {"key", "state", "amount", "partial"},
               RecordWebhookIncident(h, type, reason)
        PROVE  RowHasRequest' /\ LockHasJournal'
    <2> DEFINE x == [type |-> type, reason |-> reason, seen |-> hook[h].seen,
                     key |-> hook[h].key]
    <2>1. x \notin Requests
      BY <1>1, HookKey, HookSeen, RowAssumption DEF TypeOK, Incident
    <2>2. open \subseteq open' /\ open' \subseteq open \union {x}
      BY <1>1 DEF RecordWebhookIncident, queueVars
    <2>3. RowHasRequest'
      BY <1>1, <2>1, <2>2, RowKept DEF RecordWebhookIncident, reqVars
    <2>4. LockHasJournal'
      BY <1>1, <2>2, LockUntouched DEF RecordWebhookIncident, orderVars, reqVars
    <2> QED
      BY <2>3, <2>4
  <1>2. ASSUME \/ WebhookDoneMismatch(h) \/ WebhookPartialCanceled(h)
               \/ WebhookCancelMismatch(h)
        PROVE  RowHasRequest' /\ LockHasJournal'
    BY <1>1, <1>2 DEF WebhookDoneMismatch, WebhookPartialCanceled,
       WebhookCancelMismatch
  <1>3. ASSUME WebhookConfirms(h) \/ WebhookCancels(h) \/ WebhookEnds(h)
        PROVE  RowHasRequest' /\ LockHasJournal'
    <2>1. RowHasRequest'
      BY <1>3, RowKept
         DEF WebhookConfirms, WebhookCancels, WebhookEnds, reqVars, queueVars
    <2>2. \A o \in Orders : status'[o] = "paying" => status[o] = "paying"
      BY <1>3, ApplyConfirmationUnlocks
         DEF WebhookConfirms, WebhookCancels, WebhookEnds, SetStatus, orderVars
    <2>3. LockHasJournal'
      BY <1>3, <2>2, LockUntouched
         DEF WebhookConfirms, WebhookCancels, WebhookEnds, reqVars, queueVars
    <2> QED
      BY <2>1, <2>3
  <1> QED
    BY <1>2, <1>3 DEF WebhookStep

\* Operators' status edits and the batch keep the locks covered.
LEMMA StatusEditJournal ==
  ASSUME TypeOK, RowHasRequest, LockHasJournal,
         \/ \E o \in Orders, new \in OrderStatuses, isRollback \in BOOLEAN :
              AdminUpdateStatus(o, new, isRollback)
         \/ \E S \in SUBSET Orders : CancelStaleOrders(S)
  PROVE  RowHasRequest' /\ LockHasJournal'
  <1>1. ASSUME NEW o \in Orders, NEW new \in OrderStatuses,
               NEW isRollback \in BOOLEAN, AdminUpdateStatus(o, new, isRollback)
        PROVE  RowHasRequest' /\ LockHasJournal'
    <2>1. RowHasRequest'
      BY <1>1, RowKept DEF AdminUpdateStatus, reqVars, queueVars
    <2>2. new # "paying"
      <3>1. TypeOf[o] \in OrderTypes
        BY PaymentAssumption
      <3>2. arrivedFrom[o] \in RepairSendStatuses \union {"none"}
        BY DEF TypeOK, OrdersTypeOK
      <3> QED
        BY <1>1, <3>1, <3>2, NoEdgeIntoPaying DEF AdminUpdateStatus
    <2>3. LockHasJournal'
      BY <1>1, <2>2, LockUntouched
         DEF AdminUpdateStatus, TypeOK, OrdersTypeOK, reqVars, queueVars
    <2> QED
      BY <2>1, <2>3
  <1>2. ASSUME NEW S \in SUBSET Orders, CancelStaleOrders(S)
        PROVE  RowHasRequest' /\ LockHasJournal'
    <2>1. RowHasRequest'
      BY <1>2, RowKept DEF CancelStaleOrders, reqVars, queueVars
    <2>2. LockHasJournal'
      BY <1>2, LockUntouched DEF CancelStaleOrders, SetStatus, reqVars, queueVars
    <2> QED
      BY <2>1, <2>2
  <1> QED
    BY <1>1, <1>2

\* Every step of a review keeps the locks covered.
LEMMA ReviewJournal ==
  ASSUME TypeOK, RowHasRequest, LockHasJournal, NEW v \in Reviews, ReviewStep(v)
  PROVE  RowHasRequest' /\ LockHasJournal'
  <1>1. UNCHANGED <<reqVars, open>>
    BY DEF ReviewStep, ReviewConfirms, ReviewCancels, ReviewCompares,
           ReviewMismatch, ReviewRecords, ReviewDies, queueVars
  <1>2. \A o \in Orders : status'[o] = "paying" => status[o] = "paying"
    <2>1. CASE ReviewConfirms(v)
      BY <2>1, ApplyConfirmationUnlocks DEF ReviewConfirms, orderVars
    <2>2. CASE ReviewCancels(v)
      BY <2>2 DEF ReviewCancels, SetStatus
    <2>3. CASE \/ ReviewCompares(v) \/ ReviewMismatch(v) \/ ReviewRecords(v)
               \/ ReviewDies(v)
      BY <2>3 DEF ReviewCompares, ReviewMismatch, ReviewRecords, ReviewDies, orderVars
    <2> QED
      BY <2>1, <2>2, <2>3 DEF ReviewStep
  <1>3. RowHasRequest'
    BY <1>1, RowKept DEF reqVars
  <1>4. LockHasJournal'
    BY <1>1, <1>2, LockUntouched DEF reqVars
  <1> QED
    BY <1>3, <1>4

\* An operator can close a confirm row only when its group is confirmed.
LEMMA ResolveJournal ==
  ASSUME TypeOK, RowHasRequest, LockHasJournal, NEW x \in open, ResolveIncident(x)
  PROVE  RowHasRequest' /\ LockHasJournal'
  <1>1. RowHasRequest'
    BY RowKept DEF ResolveIncident, reqVars
  <1>2. x \in Requests =>
          \A o \in Orders : KeyGroup[reqKey[x]] = GroupOf[o] => status[o] # "paying"
    BY PostStatusType DEF ResolveIncident, CurrentDomainConsistent, IsConfirm,
       KeyOf, ConfirmedConsistent, AllPost, GroupOrders
  <1>3. LockHasJournal'
    BY <1>2, LockKept DEF ResolveIncident, orderVars, reqVars
  <1> QED
    BY <1>1, <1>3

\* Every step keeps the locks covered.
LEMMA JournalNext ==
  TypeOK /\ RowHasRequest /\ LockHasJournal /\ [Next]_vars
    => RowHasRequest' /\ LockHasJournal'
  <1> SUFFICES ASSUME TypeOK, RowHasRequest, LockHasJournal, [Next]_vars
               PROVE  RowHasRequest' /\ LockHasJournal'
    OBVIOUS
  <1>1. ASSUME UNCHANGED <<orderVars, pc, reqKey, open>>
        PROVE  RowHasRequest' /\ LockHasJournal'
    BY <1>1, RowKept, LockUntouched DEF orderVars
  <1>2. CASE CustomerStep
    BY <1>2, CheckoutJournal
  <1>3. CASE \E r \in Requests : ConfirmStep(r) \/ Crash(r)
    BY <1>3, ConfirmStepJournal
  <1>4. CASE \/ \E r \in Requests : TossHandles(r)
             \/ \E k \in Keys : DashboardCancels(k)
             \/ \E h \in Hooks, k \in Keys : HookLookup(h, k)
    BY <1>1, <1>4 DEF TossHandles, DashboardCancels, HookLookup, reqVars, queueVars
  <1>5. CASE \E h \in Hooks : WebhookStep(h)
    BY <1>5, WebhookJournal
  <1>6. CASE \E S \in SUBSET Orders : CancelStaleOrders(S)
    BY <1>6, StatusEditJournal
  <1>7. CASE OperatorStep
    <2>1. CASE \/ \E v \in Reviews, x \in open : ReviewLookup(v, x)
               \/ \E x \in evidence : EvidenceExpires(x)
      BY <1>1, <2>1 DEF ReviewLookup, EvidenceExpires, reqVars, queueVars
    <2> QED
      BY <1>7, <2>1, StatusEditJournal, ReviewJournal, ResolveJournal DEF OperatorStep
  <1>8. CASE UNCHANGED vars
    BY <1>1, <1>8 DEF vars, reqVars, queueVars
  <1> QED
    BY <1>2, <1>3, <1>4, <1>5, <1>6, <1>7, <1>8 DEF Next

\* Every row, column and request keeps its type: no order gets a status outside
\* the CHECK constraint, and no journal row or webhook names an unknown payment.
THEOREM TypeCorrect == Spec => []TypeOK
  BY TypeInit, JournalInit, TypeNext, JournalNext, PTL DEF Spec

\* A locked order always has an open journal row of its group, whatever Toss
\* answers, whichever processes die and whatever operators edit.
THEOREM LocksAreJournaled == Spec => []LockHasJournal
  BY TypeInit, JournalInit, TypeNext, JournalNext, PTL DEF Spec

-----------------------------------------------------------------------------
(* What is booked stays booked, and was captured *)

\* Money that was taken, of the group's total.
Captured(k) == k \in Keys \ OddKeys /\ prov[k] # "READY"

\* A paid order is not locked any more: whoever locks, releases or applies a
\* payment passes it over.
PaidOK == \A o \in Orders : paid[o] => status[o] \notin {"none", "paying"} /\ Captured(payKey[o])

\* A request that is about to book knows that its payment was captured.
RequestsOK ==
  \A r \in Requests :
    /\ pc[r] = "idle" => wire[r] = "none"
    /\ wire[r] = "ok" \/ pc[r] = "confirming" => Captured(reqKey[r])

\* What a delivery saw taken was taken.
HooksOK == \A h \in Hooks : hook[h].seen = "DONE" => prov[hook[h].key] # "READY"

\* The same of a review; the request whose row it holds keeps its key.
ReviewsOK ==
  \A v \in Reviews : review[v] # IdleReview =>
    /\ review[v].item \in Requests => pc[review[v].item] # "idle"
    /\ review[v].seen = "DONE" => prov[KeyOf(review[v].item)] # "READY"

BookInv == PaidOK /\ GroupPaidTogether /\ RequestsOK /\ HooksOK /\ ReviewsOK

\* Money that was taken was taken, and a request that began keeps its key.
Onward ==
  /\ \A k \in Keys : prov[k] # "READY" => prov'[k] # "READY"
  /\ \A q \in Requests : pc[q] # "idle" => pc'[q] # "idle" /\ reqKey'[q] = reqKey[q]

\* What is paid stays paid, under its key.
Final == \A o \in Orders : paid[o] => paid'[o] /\ payKey'[o] = payKey[o]

\* At first nothing is paid, sent or seen.
LEMMA BookInit == Init => BookInv
  BY DEF Init, BookInv, PaidOK, GroupPaidTogether, RequestsOK, HooksOK, ReviewsOK, IdleHook

\* A step that books nothing keeps the bookings, if it locks no paid order and leaves
\* its key alone.
LEMMA BookedKept ==
  ASSUME TypeOK, PaidOK, GroupPaidTogether, Onward, paid' = paid,
         \A o \in Orders : paid[o] =>
           payKey'[o] = payKey[o] /\ status'[o] \notin {"none", "paying"}
  PROVE  PaidOK' /\ GroupPaidTogether' /\ Final
  <1>1. PaidOK'
    BY DEF PaidOK, Captured, Onward
  <1>2. GroupPaidTogether'
    BY DEF GroupPaidTogether
  <1> QED
    BY <1>1, <1>2 DEF Final

\* _apply_confirmation books a captured payment to a whole group, none of whose
\* orders is paid.
LEMMA BookedApplied ==
  ASSUME TypeOK, PaidOK, GroupPaidTogether, Onward, NEW g, NEW k, Captured(k),
         ApplyConfirmation(g, k)
  PROVE  PaidOK' /\ GroupPaidTogether' /\ Final
  <1>1. \A o \in GroupOrders(g) :
          /\ ~ paid[o] /\ paid'[o] /\ payKey'[o] = k
          /\ status'[o] \notin {"none", "paying"}
    BY PostStatusType DEF ApplyConfirmation, AllIn, GroupOrders, PaidOK, OrderStatuses
  <1>2. \A o \in Orders : o \notin GroupOrders(g) =>
          paid'[o] = paid[o] /\ payKey'[o] = payKey[o] /\ status'[o] = status[o]
    BY DEF ApplyConfirmation, TypeOK, OrdersTypeOK
  <1>3. PaidOK'
    BY <1>1, <1>2 DEF PaidOK, Captured, Onward
  <1>4. GroupPaidTogether'
    BY <1>1, <1>2 DEF GroupPaidTogether, GroupOrders
  <1> QED
    BY <1>1, <1>2, <1>3, <1>4 DEF Final

\* Requests that make no call and come to no success know what they knew.
LEMMA RequestsKept ==
  ASSUME TypeOK, RequestsOK, Onward, wire' = wire,
         \A q \in Requests :
           /\ pc'[q] = "idle" => pc[q] = "idle"
           /\ pc'[q] = "confirming" => pc[q] \in {"confirming"} \/ Captured(reqKey[q]),
         \A q \in Requests : pc[q] = "idle" => pc'[q] # "confirming"
  PROVE  RequestsOK'
  <1> SUFFICES ASSUME NEW q \in Requests
               PROVE  /\ pc'[q] = "idle" => wire'[q] = "none"
                      /\ wire'[q] = "ok" \/ pc'[q] = "confirming" =>
                           reqKey'[q] \in Keys \ OddKeys /\ prov'[reqKey'[q]] # "READY"
    BY DEF RequestsOK, Captured
  <1>1. pc'[q] = "idle" => wire'[q] = "none"
    BY DEF RequestsOK
  <1>2. ASSUME wire'[q] = "ok" \/ pc'[q] = "confirming"
        PROVE  reqKey'[q] \in Keys \ OddKeys /\ prov'[reqKey'[q]] # "READY"
    <2>1. pc[q] # "idle" /\ Captured(reqKey[q])
      BY <1>2 DEF RequestsOK
    <2> QED
      BY <2>1 DEF Onward, Captured
  <1> QED
    BY <1>1, <1>2

\* Deliveries that end, and those that a step leaves alone, saw what they saw.
LEMMA HooksKept ==
  ASSUME TypeOK, HooksOK, Onward, \A h \in Hooks : hook'[h] \in {hook[h], IdleHook}
  PROVE  HooksOK'
  <1> SUFFICES ASSUME NEW h \in Hooks, hook'[h].seen = "DONE"
               PROVE  prov'[hook'[h].key] # "READY"
    BY DEF HooksOK
  <1>1. hook'[h] = hook[h] /\ hook[h] # IdleHook
    BY DEF IdleHook
  <1>2. hook[h].key \in Keys
    BY <1>1, HookKey DEF TypeOK
  <1> QED
    BY <1>1, <1>2 DEF HooksOK, Onward

\* A row in hand names a payment, and goes on naming it.
LEMMA ItemKey ==
  ASSUME TypeOK, NEW x \in Items, x \in Requests => pc[x] # "idle"
  PROVE  /\ KeyOf(x) \in Keys
         /\ Onward => (IF x \in Requests THEN reqKey'[x] ELSE x.key) = KeyOf(x)
  <1>1. CASE x \in Requests
    BY <1>1 DEF KeyOf, TypeOK, RequestsTypeOK, Onward
  <1>2. CASE x \notin Requests
    BY <1>2 DEF KeyOf, Items, Incident
  <1> QED
    BY <1>1, <1>2

\* Reviews that end or go on with what they looked up, and those a step leaves alone.
LEMMA ReviewsKept ==
  ASSUME TypeOK, ReviewsOK, Onward,
         \A v \in Reviews :
           \/ review'[v] \in {review[v], IdleReview}
           \/ /\ review[v] # IdleReview
              /\ review'[v].item = review[v].item /\ review'[v].seen = review[v].seen
  PROVE  ReviewsOK'
  <1> SUFFICES ASSUME NEW v \in Reviews, review'[v] # IdleReview
               PROVE  /\ review'[v].item \in Requests => pc'[review'[v].item] # "idle"
                      /\ review'[v].seen = "DONE" =>
                           prov'[IF review'[v].item \in Requests THEN reqKey'[review'[v].item]
                                                                ELSE review'[v].item.key] # "READY"
    BY DEF ReviewsOK, KeyOf
  <1>1. /\ review[v] # IdleReview
        /\ review'[v].item = review[v].item /\ review'[v].seen = review[v].seen
    OBVIOUS
  <1>2. PICK x : x = review[v].item
    OBVIOUS
  <1>3. x \in Items /\ (x \in Requests => pc[x] # "idle")
        /\ (review[v].seen = "DONE" => prov[KeyOf(x)] # "READY")
    BY <1>1, <1>2 DEF ReviewsOK, TypeOK, ReviewsTypeOK
  <1>4. KeyOf(x) \in Keys /\ (IF x \in Requests THEN reqKey'[x] ELSE x.key) = KeyOf(x)
    BY <1>3, ItemKey
  <1>5. review'[v].seen = "DONE" => prov'[KeyOf(x)] # "READY"
    BY <1>1, <1>3, <1>4 DEF Onward
  <1>6. x \in Requests => pc'[x] # "idle"
    BY <1>3 DEF Onward
  <1> QED
    BY <1>1, <1>2, <1>4, <1>5, <1>6

\* Everything a step has to keep, for the steps that book nothing, make no call and
\* come to no success.
LEMMA NothingBooked ==
  ASSUME TypeOK, BookInv, Onward, paid' = paid, wire' = wire,
         \A o \in Orders : paid[o] =>
           payKey'[o] = payKey[o] /\ status'[o] \notin {"none", "paying"},
         \A q \in Requests :
           /\ pc'[q] = "idle" => pc[q] = "idle"
           /\ pc'[q] = "confirming" => pc[q] = "confirming" \/ Captured(reqKey[q]),
         \A q \in Requests : pc[q] = "idle" => pc'[q] # "confirming",
         \A h \in Hooks : hook'[h] \in {hook[h], IdleHook},
         \A v \in Reviews :
           \/ review'[v] \in {review[v], IdleReview}
           \/ /\ review[v] # IdleReview
              /\ review'[v].item = review[v].item /\ review'[v].seen = review[v].seen
  PROVE  BookInv' /\ Final
  <1>1. PaidOK' /\ GroupPaidTogether' /\ Final
    BY BookedKept DEF BookInv
  <1>2. RequestsOK'
    BY RequestsKept DEF BookInv
  <1>3. HooksOK'
    BY HooksKept DEF BookInv
  <1>4. ReviewsOK'
    BY ReviewsKept DEF BookInv
  <1> QED
    BY <1>1, <1>2, <1>3, <1>4 DEF BookInv

\* The same, for the steps that leave requests, deliveries, reviews and Toss alone.
LEMMA StatusMoved ==
  ASSUME TypeOK, BookInv, UNCHANGED <<paid, prov, reqVars, hook, review>>,
         \A o \in Orders : paid[o] =>
           payKey'[o] = payKey[o] /\ status'[o] \notin {"none", "paying"}
  PROVE  BookInv' /\ Final
  <1>1. Onward
    BY DEF Onward, reqVars
  <1> QED
    BY <1>1, NothingBooked DEF reqVars, BookInv, RequestsOK

\* Checkout and the lock touch unpaid orders only.
LEMMA CheckoutBooks ==
  ASSUME TypeOK, BookInv, CustomerStep
  PROVE  BookInv' /\ Final
  <1>1. ASSUME NEW g \in Groups, CreateOrder(g) PROVE BookInv' /\ Final
    <2>1. \A o \in Orders : paid[o] =>
            payKey'[o] = payKey[o] /\ status'[o] \notin {"none", "paying"}
      BY <1>1 DEF CreateOrder, SetStatus, BookInv, PaidOK
    <2> QED
      BY <1>1, <2>1, StatusMoved DEF CreateOrder
  <1>2. ASSUME NEW r \in Requests, NEW k \in Keys, ConfirmAgain(r, k)
        PROVE  BookInv' /\ Final
    <2>1. Onward
      BY <1>2 DEF ConfirmAgain, Onward, TypeOK, RequestsTypeOK
    <2>2. \A q \in Requests : /\ pc'[q] = "idle" => pc[q] = "idle"
                              /\ pc'[q] = "confirming" => pc[q] = "confirming"
      BY <1>2 DEF ConfirmAgain, TypeOK, RequestsTypeOK
    <2>3. UNCHANGED <<orderVars, wire, hook, review>>
      BY <1>2 DEF ConfirmAgain
    <2> QED
      BY <2>1, <2>2, <2>3, NothingBooked DEF orderVars, BookInv, PaidOK
  <1>3. ASSUME NEW r \in Requests, NEW k \in Keys, PrepareConfirm(r, k)
        PROVE  BookInv' /\ Final
    <2>1. Onward
      BY <1>3 DEF PrepareConfirm, Onward, TypeOK, RequestsTypeOK
    <2>2. \A o \in Orders : paid[o] =>
            payKey'[o] = payKey[o] /\ status'[o] \notin {"none", "paying"}
      BY <1>3 DEF PrepareConfirm, SetStatus, NonePaid, GroupOrders, BookInv, PaidOK
    <2>3. PaidOK' /\ GroupPaidTogether' /\ Final
      BY <1>3, <2>1, <2>2, BookedKept DEF PrepareConfirm, BookInv
    <2>4. RequestsOK'
      <3>1. \A q \in Requests : q # r =>
              pc'[q] = pc[q] /\ wire'[q] = wire[q] /\ reqKey'[q] = reqKey[q]
        BY <1>3 DEF PrepareConfirm, TypeOK, RequestsTypeOK
      <3>2. pc'[r] = "calling" /\ wire'[r] = "sent" /\ prov' = prov
        BY <1>3 DEF PrepareConfirm, TypeOK, RequestsTypeOK
      <3> QED
        BY <3>1, <3>2 DEF RequestsOK, BookInv, Captured
    <2>5. HooksOK' /\ ReviewsOK'
      BY <1>3, <2>1, HooksKept, ReviewsKept DEF PrepareConfirm, BookInv
    <2> QED
      BY <2>3, <2>4, <2>5 DEF BookInv
  <1>4. ASSUME NEW o \in Orders, SubmitRepair(o) PROVE BookInv' /\ Final
    <2>1. \A p \in Orders : paid[p] =>
            payKey'[p] = payKey[p] /\ status'[p] \notin {"none", "paying"}
      BY <1>4 DEF SubmitRepair, TypeOK, OrdersTypeOK, BookInv, PaidOK
    <2> QED
      BY <1>4, <2>1, StatusMoved DEF SubmitRepair
  <1> QED
    BY <1>1, <1>2, <1>3, <1>4 DEF CustomerStep

\* A request that moves on, without booking.
LEMMA RequestMoves ==
  ASSUME TypeOK, BookInv, NEW r \in Requests, pc[r] # "idle",
         NEW to \in {"lookup", "confirming", "done", "rejected", "unsure", "dead"},
         to = "confirming" => Captured(reqKey[r]),
         pc' = [pc EXCEPT ![r] = to],
         UNCHANGED <<paid, prov, wire, reqKey, hook, review>>,
         \A o \in Orders : paid[o] =>
           payKey'[o] = payKey[o] /\ status'[o] \notin {"none", "paying"}
  PROVE  BookInv' /\ Final
  <1>1. \A q \in Requests : q # r => pc'[q] = pc[q]
    BY DEF TypeOK, RequestsTypeOK
  <1>2. pc'[r] = to
    BY DEF TypeOK, RequestsTypeOK
  <1>3. Onward
    BY <1>1, <1>2 DEF Onward
  <1>4. \A q \in Requests :
          /\ pc'[q] = "idle" => pc[q] = "idle"
          /\ pc'[q] = "confirming" => pc[q] = "confirming" \/ Captured(reqKey[q])
    BY <1>1, <1>2
  <1>5. \A q \in Requests : pc[q] = "idle" => pc'[q] # "confirming"
    BY <1>1
  <1> QED
    BY <1>3, <1>4, <1>5, NothingBooked

\* A request that books its own payment.
LEMMA RequestBooks ==
  ASSUME TypeOK, BookInv, NEW r \in Requests, pc[r] = "confirming",
         NEW to \in {"done", "unsure"}, pc' = [pc EXCEPT ![r] = to],
         ApplyConfirmation(KeyGroup[reqKey[r]], reqKey[r]),
         UNCHANGED <<prov, wire, reqKey, hook, review>>
  PROVE  BookInv' /\ Final
  <1>1. \A q \in Requests : q # r => pc'[q] = pc[q]
    BY DEF TypeOK, RequestsTypeOK
  <1>2. pc'[r] = to
    BY DEF TypeOK, RequestsTypeOK
  <1>3. Onward
    BY <1>1, <1>2 DEF Onward
  <1>4. PaidOK' /\ GroupPaidTogether' /\ Final
    BY <1>3, BookedApplied DEF BookInv, RequestsOK
  <1>5. RequestsOK'
    BY <1>1, <1>2, <1>3, RequestsKept DEF BookInv
  <1>6. HooksOK' /\ ReviewsOK'
    BY <1>3, HooksKept, ReviewsKept DEF BookInv
  <1> QED
    BY <1>4, <1>5, <1>6 DEF BookInv

\* What a confirm request does with the answer, and its death.
LEMMA ConfirmBooks ==
  ASSUME TypeOK, BookInv, NEW r \in Requests, ConfirmStep(r) \/ Crash(r)
  PROVE  BookInv' /\ Final
  <1> DEFINE Stays == \A o \in Orders : paid[o] =>
                        payKey'[o] = payKey[o] /\ status'[o] \notin {"none", "paying"}
  <1>1. ASSUME \/ ConfirmOutcomeUnknown(r) \/ ProviderResponseUncertain(r)
               \/ RecoveryFailed(r) \/ ConfirmRefused(r) \/ ConfirmDbFailed(r)
        PROVE  BookInv' /\ Final
    <2>1. EndUnsure(r) /\ pc[r] # "idle"
      BY <1>1 DEF ConfirmOutcomeUnknown, ProviderResponseUncertain, RecoveryFailed,
                  ConfirmRefused, ConfirmDbFailed
    <2>2. Stays
      BY <2>1 DEF EndUnsure, orderVars, BookInv, PaidOK
    <2> QED
      BY <2>1, <2>2, RequestMoves DEF EndUnsure, orderVars
  <1>2. CASE ProviderRejected(r)
    <2>1. Stays
      BY <1>2 DEF ProviderRejected, SetStatus, BookInv, PaidOK
    <2> QED
      BY <1>2, <2>1, RequestMoves DEF ProviderRejected
  <1>3. CASE ProviderApproved(r)
    <2>1. Stays /\ Captured(reqKey[r])
      BY <1>3 DEF ProviderApproved, orderVars, BookInv, PaidOK, RequestsOK
    <2> QED
      BY <1>3, <2>1, RequestMoves DEF ProviderApproved, orderVars
  <1>4. CASE RecoveryVerified(r)
    <2>1. Stays
      BY <1>4 DEF RecoveryVerified, orderVars, BookInv, PaidOK
    <2>2. Captured(reqKey[r])
      BY <1>4 DEF RecoveryVerified, Captured, TypeOK, RequestsTypeOK
    <2> QED
      BY <1>4, <2>1, <2>2, RequestMoves DEF RecoveryVerified, orderVars
  <1>5. CASE AlreadyProcessed(r) \/ Crash(r) \/ ConfirmAlreadyApplied(r)
    <2>1. Stays
      BY <1>5 DEF AlreadyProcessed, Crash, ConfirmAlreadyApplied, orderVars, BookInv, PaidOK
    <2> QED
      BY <1>5, <2>1, RequestMoves DEF AlreadyProcessed, Crash, ConfirmAlreadyApplied, orderVars
  <1>6. CASE ConfirmApplies(r)
    BY <1>6, RequestBooks DEF ConfirmApplies
  <1>7. CASE ConfirmFailedAfterCommit(r)
    BY <1>7, RequestBooks DEF ConfirmFailedAfterCommit
  <1> QED
    BY <1>1, <1>2, <1>3, <1>4, <1>5, <1>6, <1>7 DEF ConfirmStep

\* Toss says ok only after it took the group's total; it never gives a payment back to READY.
LEMMA TossBooks ==
  ASSUME TypeOK, BookInv,
         \/ \E r \in Requests : TossHandles(r)
         \/ \E k \in Keys : DashboardCancels(k)
  PROVE  BookInv' /\ Final
  <1>1. ASSUME Onward, RequestsOK', UNCHANGED <<orderVars, hook, review>>
        PROVE  BookInv' /\ Final
    <2>1. PaidOK' /\ GroupPaidTogether' /\ Final
      BY <1>1, BookedKept DEF orderVars, BookInv, PaidOK
    <2> QED
      BY <1>1, <2>1, HooksKept, ReviewsKept DEF BookInv
  <1>2. ASSUME NEW r \in Requests, TossHandles(r) PROVE BookInv' /\ Final
    <2>1. pc[r] # "idle" /\ reqKey[r] \in Keys
      BY <1>2 DEF TossHandles, BookInv, RequestsOK, TypeOK, RequestsTypeOK
    <2>2. Onward
      BY <1>2 DEF TossHandles, Onward, TypeOK, TossTypeOK
    <2>3. \A q \in Requests : q # r => wire'[q] = wire[q]
      BY <1>2 DEF TossHandles, TypeOK, RequestsTypeOK
    <2>4. wire'[r] = "ok" => reqKey[r] \notin OddKeys /\ prov'[reqKey[r]] # "READY"
      BY <1>2, <2>1 DEF TossHandles, TypeOK, RequestsTypeOK, TossTypeOK
    <2>5. UNCHANGED <<pc, reqKey>>
      BY <1>2 DEF TossHandles
    <2>6. RequestsOK'
      BY <2>1, <2>2, <2>3, <2>4, <2>5 DEF BookInv, RequestsOK, Captured, Onward
    <2> QED
      BY <1>1, <1>2, <2>2, <2>6 DEF TossHandles
  <1>3. ASSUME NEW k \in Keys, DashboardCancels(k) PROVE BookInv' /\ Final
    <2>1. Onward
      BY <1>3 DEF DashboardCancels, Onward, TypeOK, TossTypeOK, reqVars
    <2>2. RequestsOK'
      BY <1>3, <2>1 DEF DashboardCancels, reqVars, BookInv, RequestsOK, Captured, Onward
    <2> QED
      BY <1>1, <1>3, <2>1, <2>2 DEF DashboardCancels
  <1> QED
    BY <1>2, <1>3

\* A delivery books only what it saw taken, and only the group's total.
LEMMA WebhookBooks ==
  ASSUME TypeOK, BookInv, NEW h \in Hooks, WebhookStep(h) \/ \E k \in Keys : HookLookup(h, k)
  PROVE  BookInv' /\ Final
  <1>1. Onward
    BY DEF WebhookStep, WebhookDoneMismatch, WebhookPartialCanceled, WebhookCancelMismatch,
           RecordWebhookIncident, WebhookConfirms, WebhookCancels, WebhookEnds, HookLookup,
           reqVars, Onward
  <1>2. UNCHANGED <<wire, pc, review>>
    BY DEF WebhookStep, WebhookDoneMismatch, WebhookPartialCanceled, WebhookCancelMismatch,
           RecordWebhookIncident, WebhookConfirms, WebhookCancels, WebhookEnds, HookLookup,
           reqVars
  <1>3. RequestsOK' /\ ReviewsOK'
    BY <1>1, <1>2, RequestsKept, ReviewsKept DEF BookInv
  <1>4. ASSUME WebhookStep(h) PROVE HooksOK'
    <2>1. Handled(h)
      BY <1>4 DEF WebhookStep, WebhookDoneMismatch, WebhookPartialCanceled,
                  WebhookCancelMismatch, RecordWebhookIncident, WebhookConfirms,
                  WebhookCancels, WebhookEnds
    <2>2. \A g \in Hooks : hook'[g] \in {hook[g], IdleHook}
      BY <2>1 DEF Handled, TypeOK, HooksTypeOK
    <2> QED
      BY <1>1, <2>2, HooksKept DEF BookInv
  <1>5. ASSUME PaidOK' /\ GroupPaidTogether' /\ Final, WebhookStep(h)
        PROVE  BookInv' /\ Final
    BY <1>3, <1>4, <1>5 DEF BookInv
  <1>6. ASSUME \A o \in Orders : paid[o] =>
                 payKey'[o] = payKey[o] /\ status'[o] \notin {"none", "paying"},
               paid' = paid
        PROVE  PaidOK' /\ GroupPaidTogether' /\ Final
    BY <1>1, <1>6, BookedKept DEF BookInv
  <1>7. ASSUME NEW k \in Keys, HookLookup(h, k) PROVE BookInv' /\ Final
    <2>1. HooksOK'
      <3>1. \A g \in Hooks : hook'[g] = IF g = h THEN [key |-> k, seen |-> prov[k]] ELSE hook[g]
        BY <1>7 DEF HookLookup, TypeOK, HooksTypeOK
      <3> QED
        BY <1>7, <3>1 DEF HookLookup, BookInv, HooksOK
    <2>2. PaidOK' /\ GroupPaidTogether' /\ Final
      BY <1>6, <1>7 DEF HookLookup, orderVars, BookInv, PaidOK
    <2> QED
      BY <1>3, <2>1, <2>2 DEF BookInv
  <1>8. CASE WebhookConfirms(h)
    <2>1. Captured(hook[h].key)
      BY <1>8, HookKey, HookSeen DEF WebhookConfirms, BookInv, HooksOK, Captured, TypeOK
    <2>2. PaidOK' /\ GroupPaidTogether' /\ Final
      BY <1>1, <1>8, <2>1, BookedApplied DEF WebhookConfirms, BookInv
    <2> QED
      BY <1>5, <1>8, <2>2 DEF WebhookStep
  <1>9. CASE WebhookCancels(h)
    BY <1>5, <1>6, <1>9 DEF WebhookStep, WebhookCancels, SetStatus, BookInv, PaidOK
  <1>10. CASE \/ WebhookDoneMismatch(h) \/ WebhookPartialCanceled(h)
              \/ WebhookCancelMismatch(h) \/ WebhookEnds(h)
    <2>1. UNCHANGED orderVars
      BY <1>10 DEF WebhookDoneMismatch, WebhookPartialCanceled, WebhookCancelMismatch,
                   WebhookEnds, RecordWebhookIncident
    <2> QED
      BY <1>5, <1>6, <1>10, <2>1 DEF WebhookStep, orderVars, BookInv, PaidOK
  <1> QED
    BY <1>7, <1>8, <1>9, <1>10 DEF WebhookStep

\* No operator's edit and no batch locks an order, or touches its key.
LEMMA StatusEditBooks ==
  ASSUME TypeOK, BookInv,
         \/ \E o \in Orders, new \in OrderStatuses, isRollback \in BOOLEAN :
              AdminUpdateStatus(o, new, isRollback)
         \/ \E S \in SUBSET Orders : CancelStaleOrders(S)
  PROVE  BookInv' /\ Final
  <1>1. ASSUME NEW o \in Orders, NEW new \in OrderStatuses, NEW isRollback \in BOOLEAN,
               AdminUpdateStatus(o, new, isRollback)
        PROVE  BookInv' /\ Final
    <2>1. new \notin {"none", "paying"}
      <3>1. TypeOf[o] \in OrderTypes /\ arrivedFrom[o] \in RepairSendStatuses \union {"none"}
        BY PaymentAssumption DEF TypeOK, OrdersTypeOK
      <3> QED
        BY <1>1, <3>1, NoEdgeIntoPaying DEF AdminUpdateStatus, OrderStatuses
    <2>2. \A p \in Orders : paid[p] =>
            payKey'[p] = payKey[p] /\ status'[p] \notin {"none", "paying"}
      BY <1>1, <2>1 DEF AdminUpdateStatus, TypeOK, OrdersTypeOK, BookInv, PaidOK
    <2> QED
      BY <1>1, <2>2, StatusMoved DEF AdminUpdateStatus
  <1>2. ASSUME NEW S \in SUBSET Orders, CancelStaleOrders(S) PROVE BookInv' /\ Final
    <2>1. \A p \in Orders : paid[p] =>
            payKey'[p] = payKey[p] /\ status'[p] \notin {"none", "paying"}
      BY <1>2 DEF CancelStaleOrders, SetStatus, BookInv, PaidOK
    <2> QED
      BY <1>2, <2>1, StatusMoved DEF CancelStaleOrders
  <1> QED
    BY <1>1, <1>2

\* A review books what it saw taken; it cancels only under the key the orders hold.
LEMMA ReviewBooks ==
  ASSUME TypeOK, RowHasRequest, BookInv, NEW v \in Reviews,
         ReviewStep(v) \/ \E x \in open : ReviewLookup(v, x)
  PROVE  BookInv' /\ Final
  <1>1. UNCHANGED <<prov, reqVars, hook>>
    BY DEF ReviewStep, ReviewConfirms, ReviewCancels, ReviewCompares, ReviewMismatch,
           ReviewRecords, ReviewDies, ReviewLookup
  <1>2. Onward
    BY <1>1 DEF Onward, reqVars
  <1>3. RequestsOK' /\ HooksOK'
    BY <1>1, <1>2, RequestsKept, HooksKept DEF BookInv, reqVars
  <1>4. ASSUME ReviewStep(v) PROVE ReviewsOK'
    <2>1. review[v] # IdleReview
      <3>1. review[v].step \in {"looked", "ok", "failed"} \/ ReviewDies(v)
        BY <1>4 DEF ReviewStep, ReviewConfirms, ReviewCancels, ReviewCompares,
                    ReviewMismatch, ReviewRecords
      <3> QED
        BY <3>1 DEF ReviewDies, IdleReview
    <2>2. \/ review' = [review EXCEPT ![v] = IdleReview]
          \/ \E ok \in BOOLEAN : Reviewed(v, ok)
      BY <1>4 DEF ReviewStep, ReviewConfirms, ReviewCancels, ReviewCompares,
                  ReviewMismatch, ReviewRecords, ReviewDies, ConfirmedConsistent, KeysFit, AllIn,
                  CanceledConsistent
    <2>3. \A w \in Reviews :
            \/ review'[w] \in {review[w], IdleReview}
            \/ /\ review[w] # IdleReview
               /\ review'[w].item = review[w].item /\ review'[w].seen = review[w].seen
      <3>1. CASE review' = [review EXCEPT ![v] = IdleReview]
        BY <3>1 DEF TypeOK, ReviewsTypeOK
      <3>2. ASSUME NEW ok \in BOOLEAN, Reviewed(v, ok)
            PROVE  /\ review'[v].item = review[v].item /\ review'[v].seen = review[v].seen
                   /\ \A w \in Reviews : w # v => review'[w] = review[w]
        BY <2>1, <3>2 DEF Reviewed, TypeOK, ReviewsTypeOK
      <3> QED
        BY <2>1, <2>2, <3>1, <3>2
    <2> QED
      BY <1>2, <2>3, ReviewsKept DEF BookInv
  <1>5. ASSUME paid' = paid,
               \A o \in Orders : paid[o] =>
                 payKey'[o] = payKey[o] /\ status'[o] \notin {"none", "paying"}
        PROVE  PaidOK' /\ GroupPaidTogether' /\ Final
    BY <1>2, <1>5, BookedKept DEF BookInv
  <1>6. ASSUME NEW x \in open, ReviewLookup(v, x) PROVE BookInv' /\ Final
    <2>1. x \in Items /\ (x \in Requests => pc[x] # "idle")
      BY DEF TypeOK, QueueTypeOK, RowHasRequest
    <2>2. PICK seen \in {prov[KeyOf(x)], "error"} :
            review' = [review EXCEPT ![v] = [item |-> x, seen |-> seen, step |-> "looked"]]
      BY <1>6 DEF ReviewLookup
    <2>3. \A w \in Reviews :
            review'[w] = IF w = v THEN [item |-> x, seen |-> seen, step |-> "looked"]
                                  ELSE review[w]
      BY <2>2 DEF TypeOK, ReviewsTypeOK
    <2>4. ReviewsOK'
      BY <1>1, <2>1, <2>2, <2>3 DEF BookInv, ReviewsOK, KeyOf, reqVars
    <2>5. PaidOK' /\ GroupPaidTogether' /\ Final
      BY <1>5, <1>6 DEF ReviewLookup, orderVars, BookInv, PaidOK
    <2> QED
      BY <1>3, <2>4, <2>5 DEF BookInv
  <1>7. CASE ReviewConfirms(v)
    <2> DEFINE x == review[v].item
               k == KeyOf(review[v].item)
    <2>1. review[v] # IdleReview /\ x \in Requests
      BY <1>7 DEF ReviewConfirms, IdleReview, IsConfirm
    <2>2. k \in Keys
      BY <2>1, ItemKey DEF BookInv, ReviewsOK, Items
    <2>3. Captured(k)
      BY <1>7, <2>1, <2>2 DEF ReviewConfirms, ProviderMatches, ExpectedProviderStatuses,
         AmountMatches, IsConfirm, BookInv, ReviewsOK, Captured
    <2>4. CASE ApplyConfirmation(KeyGroup[k], k)
      BY <1>2, <2>3, <2>4, BookedApplied, <1>3, <1>4, <1>7 DEF BookInv, ReviewStep
    <2>5. CASE UNCHANGED orderVars
      <3>1. PaidOK' /\ GroupPaidTogether' /\ Final
        BY <1>5, <2>5 DEF orderVars, BookInv, PaidOK
      <3> QED
        BY <1>3, <1>4, <1>7, <3>1 DEF BookInv, ReviewStep
    <2> QED
      BY <1>7, <2>4, <2>5 DEF ReviewConfirms
  <1>8. CASE ReviewCancels(v)
    <2>1. \A o \in Orders : paid[o] => payKey[o] # NoKey
      BY PaymentAssumption DEF BookInv, PaidOK, Captured
    <2>2. /\ paid' = paid
          /\ \A o \in Orders : paid[o] =>
               payKey'[o] = payKey[o] /\ status'[o] \notin {"none", "paying"}
      BY <1>8, <2>1 DEF ReviewCancels, SetStatus, KeysFit, GroupOrders, BookInv, PaidOK
    <2>3. PaidOK' /\ GroupPaidTogether' /\ Final
      BY <1>5, <2>2
    <2> QED
      BY <1>3, <1>4, <1>8, <2>3 DEF BookInv, ReviewStep
  <1>9. CASE ReviewCompares(v) \/ ReviewMismatch(v) \/ ReviewRecords(v) \/ ReviewDies(v)
    <2>1. UNCHANGED orderVars
      BY <1>9 DEF ReviewCompares, ReviewMismatch, ReviewRecords, ReviewDies
    <2>2. PaidOK' /\ GroupPaidTogether' /\ Final
      BY <1>5, <2>1 DEF orderVars, BookInv, PaidOK
    <2> QED
      BY <1>3, <1>4, <1>9, <2>2 DEF BookInv, ReviewStep
  <1> QED
    BY <1>6, <1>7, <1>8, <1>9 DEF ReviewStep

\* Every step keeps the bookings.
LEMMA BookNext == TypeOK /\ RowHasRequest /\ BookInv /\ [Next]_vars => BookInv' /\ Final
  <1> SUFFICES ASSUME TypeOK, RowHasRequest, BookInv, [Next]_vars PROVE BookInv' /\ Final
    OBVIOUS
  <1>1. ASSUME UNCHANGED <<orderVars, prov, reqVars, hook, review>> PROVE BookInv' /\ Final
    BY <1>1, StatusMoved DEF orderVars, BookInv, PaidOK
  <1>2. CASE CustomerStep
    BY <1>2, CheckoutBooks
  <1>3. CASE \E r \in Requests : ConfirmStep(r) \/ Crash(r) \/ TossHandles(r)
    BY <1>3, ConfirmBooks, TossBooks
  <1>4. CASE \E k \in Keys : DashboardCancels(k)
    BY <1>4, TossBooks
  <1>5. CASE \/ \E h \in Hooks, k \in Keys : HookLookup(h, k)
             \/ \E h \in Hooks : WebhookStep(h)
    BY <1>5, WebhookBooks
  <1>6. CASE \E S \in SUBSET Orders : CancelStaleOrders(S)
    BY <1>6, StatusEditBooks
  <1>7. CASE OperatorStep
    <2>1. CASE \/ \E x \in evidence : EvidenceExpires(x)
               \/ \E x \in open : ResolveIncident(x)
      BY <1>1, <2>1 DEF EvidenceExpires, ResolveIncident
    <2> QED
      BY <1>7, <2>1, StatusEditBooks, ReviewBooks DEF OperatorStep
  <1>8. CASE UNCHANGED vars
    BY <1>1, <1>8 DEF vars
  <1> QED
    BY <1>2, <1>3, <1>4, <1>5, <1>6, <1>7, <1>8 DEF Next

\* The bookings, under every specification.
LEMMA Booked == Spec => [](TypeOK /\ RowHasRequest /\ LockHasJournal /\ BookInv)
  BY TypeInit, JournalInit, BookInit, TypeNext, JournalNext, BookNext, PTL DEF Spec

\* The orders of a group are paid together, under one key, whatever operators edit.
THEOREM PaidTogether == Spec => []GroupPaidTogether
  <1>1. BookInv => GroupPaidTogether
    BY DEF BookInv
  <1> QED
    BY <1>1, Booked, PTL

\* An order is marked paid only by a payment that Toss captured, ...
THEOREM PaidIsCaptured == Spec => []PaidImpliesCaptured
  <1>1. BookInv => PaidImpliesCaptured
    BY DEF BookInv, PaidOK, Captured, PaidImpliesCaptured
  <1> QED
    BY <1>1, Booked, PTL

\* ... and that Toss holds with the group's total.
THEOREM PaidFits == Spec => []PaidAmountFits
  <1>1. BookInv => PaidAmountFits
    BY DEF BookInv, PaidOK, Captured, PaidAmountFits
  <1> QED
    BY <1>1, Booked, PTL

\* A paid order stays paid under its key: no release, webhook, retry or review of another
\* attempt rewrites it.
THEOREM PaidForGood == Spec => PaidKeyIsFinal
  <1>1. TypeOK /\ RowHasRequest /\ BookInv /\ [Next]_vars
          => [\A o \in Orders : paid[o] => paid'[o] /\ payKey'[o] = payKey[o]]_vars
    BY BookNext DEF Final
  <1> QED
    BY <1>1, Booked, PTL DEF Spec, PaidKeyIsFinal

-----------------------------------------------------------------------------
(* Coupons *)

\* Operators leave unpaid and locked orders to the batch and to the payment: an edit of
\* theirs does not touch coupons.
NoUnpaidEdits == \A e \in AdminEdges : e[1] \notin {"pending", "paying"}

\* Orders of S are moved, and their reserved coupons come back with them.
Release(S) ==
  /\ RestoreReservedOrderCoupons(S) /\ UNCHANGED <<applied, paid>>
  /\ \A o \in Orders \ S : status[o] \in {"pending", "paying"} => status'[o] = status[o]

\* No coupon is touched, and no unpaid order moves on.
CouponsRest ==
  /\ UNCHANGED couponVars /\ UNCHANGED paid
  /\ NoUnpaidEdits =>
       \A o \in Orders : status[o] \in {"pending", "paying"} => status'[o] \in {"pending", "paying"}

\* The four things a step does to coupons.
CouponStep ==
  \/ \E g \in Groups : CreateOrder(g)
  \/ \E g, k : ApplyConfirmation(g, k)
  \/ \E S \in SUBSET Orders : Release(S)
  \/ CouponsRest

\* A request applies, releases or leaves its coupons alone.
LEMMA ConfirmCoupons ==
  ASSUME TypeOK, NEW r \in Requests, ConfirmStep(r) \/ Crash(r)
  PROVE  CouponStep
  <1>1. CASE ConfirmApplies(r) \/ ConfirmFailedAfterCommit(r)
    BY <1>1 DEF ConfirmApplies, ConfirmFailedAfterCommit, CouponStep
  <1>2. CASE ProviderRejected(r)
    <2> DEFINE S == GroupOrders(KeyGroup[reqKey[r]])
    <2>1. Release(S) /\ S \in SUBSET Orders
      BY <1>2 DEF ProviderRejected, Release, SetStatus, GroupOrders
    <2> QED
      BY <2>1 DEF CouponStep
  <1>3. CASE UNCHANGED <<orderVars, couponVars>>
    BY <1>3 DEF CouponStep, CouponsRest, orderVars
  <1> QED
    BY <1>1, <1>2, <1>3 DEF ConfirmStep, Crash, ConfirmOutcomeUnknown,
       ProviderResponseUncertain, RecoveryFailed, ConfirmRefused, ConfirmDbFailed, EndUnsure,
       ProviderApproved, AlreadyProcessed, RecoveryVerified, ConfirmAlreadyApplied

\* So do deliveries, ...
LEMMA WebhookCoupons ==
  ASSUME TypeOK, NEW h \in Hooks, WebhookStep(h)
  PROVE  CouponStep
  <1>1. CASE WebhookConfirms(h)
    BY <1>1 DEF WebhookConfirms, CouponStep
  <1>2. CASE WebhookCancels(h)
    <2> DEFINE S == GroupOrders(KeyGroup[hook[h].key])
    <2>1. Release(S) /\ S \in SUBSET Orders
      BY <1>2 DEF WebhookCancels, Release, SetStatus, GroupOrders
    <2> QED
      BY <2>1 DEF CouponStep
  <1>3. CASE UNCHANGED <<orderVars, couponVars>>
    BY <1>3 DEF CouponStep, CouponsRest, orderVars
  <1> QED
    BY <1>1, <1>2, <1>3 DEF WebhookStep, WebhookDoneMismatch, WebhookPartialCanceled,
       WebhookCancelMismatch, RecordWebhookIncident, WebhookEnds

\* ... reviews, ...
LEMMA ReviewCoupons ==
  ASSUME TypeOK, NEW v \in Reviews, ReviewStep(v)
  PROVE  CouponStep
  <1>1. CASE UNCHANGED <<orderVars, couponVars>>
    BY <1>1 DEF CouponStep, CouponsRest, orderVars
  <1>2. CASE ReviewConfirms(v)
    BY <1>1, <1>2 DEF ReviewConfirms, CouponStep
  <1>3. CASE ReviewCancels(v)
    <2> DEFINE S == GroupOrders(KeyGroup[KeyOf(review[v].item)])
    <2>1. Release(S) \/ UNCHANGED <<orderVars, couponVars>>
      BY <1>3 DEF ReviewCancels, Release, SetStatus, GroupOrders, orderVars, couponVars
    <2>2. S \in SUBSET Orders
      BY DEF GroupOrders
    <2> QED
      BY <1>1, <2>1, <2>2 DEF CouponStep
  <1> QED
    BY <1>1, <1>2, <1>3 DEF ReviewStep, ReviewCompares, ReviewMismatch, ReviewRecords, ReviewDies

\* ... and every step.
LEMMA CouponSteps ==
  ASSUME TypeOK, [Next]_vars
  PROVE  CouponStep
  <1>1. CASE UNCHANGED <<orderVars, couponVars>>
    BY <1>1 DEF CouponStep, CouponsRest, orderVars
  <1>2. CASE CustomerStep
    <2>1. ASSUME NEW o \in Orders, SubmitRepair(o) PROVE CouponStep
      BY <2>1 DEF SubmitRepair, CouponStep, CouponsRest, TypeOK, OrdersTypeOK
    <2>2. ASSUME NEW r \in Requests, NEW k \in Keys, PrepareConfirm(r, k) PROVE CouponStep
      BY <2>2 DEF PrepareConfirm, CouponStep, CouponsRest, SetStatus
    <2> QED
      BY <1>1, <1>2, <2>1, <2>2 DEF CustomerStep, CouponStep, ConfirmAgain
  <1>3. CASE \E S \in SUBSET Orders : CancelStaleOrders(S)
    BY <1>3 DEF CancelStaleOrders, CouponStep, Release, SetStatus
  <1>4. ASSUME NEW o \in Orders, NEW new \in OrderStatuses, NEW isRollback \in BOOLEAN,
               AdminUpdateStatus(o, new, isRollback)
        PROVE  CouponStep
    <2>1. NoUnpaidEdits => status[o] \notin {"pending", "paying"}
      BY <1>4 DEF AdminUpdateStatus, NoUnpaidEdits
    <2>2. \A p \in Orders : p # o => status'[p] = status[p]
      BY <1>4 DEF AdminUpdateStatus, TypeOK, OrdersTypeOK
    <2> QED
      BY <1>4, <2>1, <2>2 DEF AdminUpdateStatus, CouponStep, CouponsRest
  <1> QED
    BY <1>1, <1>2, <1>3, <1>4, ConfirmCoupons, WebhookCoupons, ReviewCoupons
       DEF Next, OperatorStep, TossHandles, DashboardCancels, HookLookup, ReviewLookup,
           EvidenceExpires, ResolveIncident, vars

\* At first no coupon is reserved or used.
LEMMA HeldInit == Init => ReservedIsHeld
  BY DEF Init, ReservedIsHeld

\* Coupons stay with the orders that hold them.
LEMMA HeldNext ==
  ASSUME TypeOK, PaidOK, ReservedIsHeld, NoUnpaidEdits, Final, CouponStep
  PROVE  ReservedIsHeld'
  <1>1. ASSUME NEW g \in Groups, CreateOrder(g) PROVE ReservedIsHeld'
    <2>1. \A o \in Orders : status[o] # "none" =>
            applied'[o] = applied[o] /\ status'[o] = status[o] /\ paid'[o] = paid[o]
      BY <1>1 DEF CreateOrder, SetStatus
    <2>2. \A c \in Coupons : coupon'[c] = coupon[c] \/
            (coupon'[c] = "reserved"
               /\ \E o \in Orders : applied'[o] = c /\ status'[o] = "pending")
      BY <1>1 DEF CreateOrder, SetStatus, GroupOrders
    <2>3. ASSUME NEW c \in Coupons, coupon'[c] = coupon[c]
          PROVE  /\ coupon'[c] = "used" => \E o \in Orders : applied'[o] = c /\ paid'[o]
                 /\ coupon'[c] = "reserved" =>
                      \E o \in Orders : applied'[o] = c /\ status'[o] \in {"pending", "paying"}
      BY <2>1, <2>3 DEF ReservedIsHeld, PaidOK
    <2> QED
      BY <2>2, <2>3 DEF ReservedIsHeld
  <1>2. ASSUME NEW g, NEW k, ApplyConfirmation(g, k) PROVE ReservedIsHeld'
    <2>1. /\ applied' = applied
          /\ \A o \in GroupOrders(g) : o \in Orders /\ paid'[o]
          /\ \A o \in Orders \ GroupOrders(g) : status'[o] = status[o]
      BY <1>2 DEF ApplyConfirmation, GroupOrders
    <2>2. ASSUME NEW c \in Coupons, coupon'[c] = "used"
          PROVE  \E o \in Orders : applied'[o] = c /\ paid'[o]
      <3>1. coupon[c] = "used" \/ \E o \in GroupOrders(g) : applied[o] = c
        BY <1>2, <2>2 DEF ApplyConfirmation, AppliedTo
      <3> QED
        BY <2>1, <3>1 DEF ReservedIsHeld, Final
    <2>3. ASSUME NEW c \in Coupons, coupon'[c] = "reserved"
          PROVE  \E o \in Orders : applied'[o] = c /\ status'[o] \in {"pending", "paying"}
      <3>1. coupon[c] = "reserved" /\ c \notin AppliedTo(GroupOrders(g))
        BY <1>2, <2>3 DEF ApplyConfirmation
      <3>2. c # NoCoupon
        BY PaymentAssumption
      <3>3. \A o \in GroupOrders(g) : applied[o] # c
        BY <3>1, <3>2 DEF AppliedTo
      <3> QED
        BY <2>1, <3>1, <3>3 DEF ReservedIsHeld
    <2> QED
      BY <2>2, <2>3 DEF ReservedIsHeld
  <1>3. ASSUME NEW S \in SUBSET Orders, Release(S) PROVE ReservedIsHeld'
    <2>1. ASSUME NEW c \in Coupons, coupon'[c] = "used"
          PROVE  \E o \in Orders : applied'[o] = c /\ paid'[o]
      BY <1>3, <2>1 DEF Release, RestoreReservedOrderCoupons, ReservedIsHeld
    <2>2. ASSUME NEW c \in Coupons, coupon'[c] = "reserved"
          PROVE  \E o \in Orders : applied'[o] = c /\ status'[o] \in {"pending", "paying"}
      <3>1. coupon[c] = "reserved" /\ c \notin AppliedTo(S)
        BY <1>3, <2>2 DEF Release, RestoreReservedOrderCoupons
      <3>2. c # NoCoupon
        BY PaymentAssumption
      <3>3. \A o \in S : applied[o] # c
        BY <3>1, <3>2 DEF AppliedTo
      <3> QED
        BY <1>3, <3>1, <3>3 DEF Release, ReservedIsHeld
    <2> QED
      BY <2>1, <2>2 DEF ReservedIsHeld
  <1>4. CASE CouponsRest
    BY <1>4 DEF CouponsRest, couponVars, ReservedIsHeld
  <1> QED
    BY <1>1, <1>2, <1>3, <1>4 DEF CouponStep

\* A reserved coupon is held by an order that can still be paid and a used one by a paid
\* order: no refusal, cancellation or webhook leaves a coupon locked up.  Operators who
\* edit an unpaid order by hand do, which is what the assumption excludes.
THEOREM CouponsAreHeld ==
  ASSUME NoUnpaidEdits
  PROVE  Spec => []ReservedIsHeld
  <1>1. TypeOK /\ RowHasRequest /\ BookInv /\ ReservedIsHeld /\ [Next]_vars => ReservedIsHeld'
    BY NoUnpaidEdits, CouponSteps, BookNext, HeldNext DEF BookInv
  <1> QED
    BY <1>1, Booked, HeldInit, PTL DEF Spec

\* A used coupon never becomes usable again, whatever operators edit.
THEOREM UsedForGood == Spec => UsedIsFinal
  <1>1. ASSUME TypeOK, [Next]_vars
        PROVE  \A c \in Coupons : coupon[c] = "used" => coupon'[c] = "used"
    <2>1. CouponStep
      BY <1>1, CouponSteps
    <2> QED
      BY <2>1 DEF CouponStep, CreateOrder, ApplyConfirmation, Release,
         RestoreReservedOrderCoupons, CouponsRest, couponVars
  <1>2. TypeOK /\ [Next]_vars
          => [\A c \in Coupons : coupon[c] = "used" => coupon'[c] = "used"]_vars
    BY <1>1
  <1> QED
    BY <1>2, Booked, PTL DEF Spec, UsedIsFinal

-----------------------------------------------------------------------------
(* One attempt, one charge: when operators leave unpaid and locked orders alone *)

\* What the theorems of this section assume of the operators.
Careful == AdminEdges \subseteq CarefulEdges

\* A paid order is not handed back to the customer.
StatusFits == AdvancedMeansPaid /\ \A o \in Orders : paid[o] => status[o] # "pending"

\* A request that may still do something is known to the operators, unless its group is
\* paid; and nobody else paid its group.
AttemptsKnown ==
  \A r \in Requests : Active(r) =>
    /\ r \in open \/ AllPaid(KeyGroup[reqKey[r]])
    /\ \A o \in GroupOrders(KeyGroup[reqKey[r]]) : paid[o] => payKey[o] = reqKey[r]

\* A call that is under way, or was refused, charges what nobody charged before.
CallsFresh ==
  \A r \in Requests :
    wire[r] = "sent" \/ (pc[r] = "calling" /\ wire[r] = "rejected") => prov[reqKey[r]] = "READY"

ResolvedHasRequest == \A r \in resolved \cap Requests : pc[r] # "idle"

CarefulInv ==
  /\ StatusFits /\ AttemptsKnown /\ CallsFresh /\ ResolvedHasRequest
  /\ OneAttemptAtATime /\ CapturedIsAccountedFor /\ ClosedMeansSettled

Base == TypeOK /\ RowHasRequest /\ BookInv

\* A step that calls nobody, charges nothing and begins no attempt.
Quiet ==
  /\ wire' = wire
  /\ \A k \in Keys : prov'[k] = "READY" <=> prov[k] = "READY"
  /\ \A q \in Requests :
       /\ Active(q)' => Active(q)
       /\ pc[q] # "idle" => pc'[q] # "idle" /\ reqKey'[q] = reqKey[q]
       /\ pc'[q] = "calling" => pc[q] = "calling"
       /\ pc[q] = "rejected" => pc'[q] = "rejected"

\* The step closes the journal row of q, or lets q answer DONE.
Ended(q) ==
  \/ q \in open /\ q \notin open'
  \/ q \in resolved' /\ q \notin resolved
  \/ pc'[q] = "done" /\ pc[q] # "done"

\* A payment is booked, and only its own attempt ends with that.
Books(k) ==
  /\ Captured(k) /\ ApplyConfirmation(KeyGroup[k], k) /\ Quiet
  /\ \A q \in Requests : Ended(q) => pc[q] # "idle" /\ reqKey[q] = k

\* Nothing is booked, and only the attempt that paid its group ends.
Settles ==
  /\ Quiet /\ paid' = paid /\ StatusFits'
  /\ \A q \in Requests : Ended(q) =>
       /\ pc'[q] # "idle"
       /\ AllPaid(KeyGroup[reqKey'[q]]) /\ AllKeyed(KeyGroup[reqKey'[q]], reqKey'[q])

\* An attempt has a payment, and its group has orders.
LEMMA ActiveKey ==
  ASSUME Base, NEW r \in Requests, Active(r)
  PROVE  pc[r] # "idle" /\ reqKey[r] \in Keys
  <1>1. pc[r] # "idle"
    BY DEF Base, Active, RowHasRequest, BookInv, RequestsOK
  <1> QED
    BY <1>1 DEF Base, TypeOK, RequestsTypeOK

\* A key's group has an order.
LEMMA GroupHasOrder ==
  ASSUME NEW k \in Keys
  PROVE  KeyGroup[k] \in Groups /\ \E o \in Orders : o \in GroupOrders(KeyGroup[k])
  BY PaymentAssumption DEF GroupOrders

\* Orders that are paid under one key stay so.
LEMMA PaidStays ==
  ASSUME Final, NEW g, NEW k
  PROVE  /\ AllPaid(g) => \A o \in GroupOrders(g) : paid'[o]
         /\ AllPaid(g) /\ AllKeyed(g, k) => \A o \in GroupOrders(g) : paid'[o] /\ payKey'[o] = k
  BY DEF Final, AllPaid, AllKeyed, GroupOrders

\* The first states.
LEMMA CarefulInit == Init => CarefulInv
  BY DEF Init, CarefulInv, StatusFits, AdvancedMeansPaid, AttemptsKnown, CallsFresh,
         ResolvedHasRequest, OneAttemptAtATime, CapturedIsAccountedFor, ClosedMeansSettled, Active

\* The conditions of the invariant after a step, spelled out in the variables.
LEMMA CarefulPrimed ==
  ASSUME StatusFits',
         \A r \in Requests : Active(r)' =>
           /\ r \in open' \/ \A o \in GroupOrders(KeyGroup[reqKey'[r]]) : paid'[o]
           /\ \A o \in GroupOrders(KeyGroup[reqKey'[r]]) : paid'[o] => payKey'[o] = reqKey'[r],
         \A r \in Requests :
           wire'[r] = "sent" \/ (pc'[r] = "calling" /\ wire'[r] = "rejected")
             => prov'[reqKey'[r]] = "READY",
         \A r \in resolved' \cap Requests : pc'[r] # "idle",
         \A r1, r2 \in Requests :
           Active(r1)' /\ Active(r2)' /\ KeyGroup[reqKey'[r1]] = KeyGroup[reqKey'[r2]] => r1 = r2,
         \A k \in Keys : prov'[k] # "READY" =>
           \/ \A o \in GroupOrders(KeyGroup[k]) : paid'[o] /\ payKey'[o] = k
           \/ \E r \in open' \cap Requests : reqKey'[r] = k,
         \A r \in Requests : r \in resolved' \/ pc'[r] = "done" =>
           \/ pc'[r] = "rejected"
           \/ \A o \in GroupOrders(KeyGroup[reqKey'[r]]) : paid'[o] /\ payKey'[o] = reqKey'[r]
  PROVE  CarefulInv'
  <1>1. AttemptsKnown'
    BY DEF AttemptsKnown, AllPaid, GroupOrders
  <1>2. CallsFresh' /\ ResolvedHasRequest' /\ OneAttemptAtATime'
    BY DEF CallsFresh, ResolvedHasRequest, OneAttemptAtATime
  <1>3. CapturedIsAccountedFor' /\ ClosedMeansSettled'
    BY DEF CapturedIsAccountedFor, ClosedMeansSettled, AllPaid, AllKeyed, GroupOrders
  <1> QED
    BY <1>1, <1>2, <1>3 DEF CarefulInv

\* The lock begins an attempt where there is none, for a payment that nobody charged.
LEMMA PrepareCareful ==
  ASSUME Base, CarefulInv, Final, NEW r \in Requests, NEW k \in Keys, PrepareConfirm(r, k)
  PROVE  CarefulInv'
  <1> DEFINE g == KeyGroup[k]
  <1>1. PICK first \in Orders : first \in GroupOrders(g) /\ ~ paid[first]
    BY GroupHasOrder DEF PrepareConfirm, NonePaid
  <1>2. \A q \in open \cap Requests : KeyGroup[reqKey[q]] # g
    BY DEF PrepareConfirm, HasOpenConfirmIncident, IsConfirm, KeyOf
  <1>3. \A q \in Requests : Active(q) => KeyGroup[reqKey[q]] # g
    BY <1>1, <1>2 DEF CarefulInv, AttemptsKnown, AllPaid
  <1>4. prov[k] = "READY"
    BY <1>1, <1>2 DEF CarefulInv, CapturedIsAccountedFor, AllPaid
  <1>5. /\ pc'[r] = "calling" /\ reqKey'[r] = k /\ wire'[r] = "sent"
        /\ \A q \in Requests : q # r =>
             pc'[q] = pc[q] /\ reqKey'[q] = reqKey[q] /\ wire'[q] = wire[q]
    BY DEF PrepareConfirm, Base, TypeOK, RequestsTypeOK
  <1>6. /\ open' = open \union {r} /\ resolved' = resolved /\ prov' = prov /\ paid' = paid
        /\ pc[r] = "idle"
    BY DEF PrepareConfirm
  <1>7. r \notin open /\ r \notin resolved
    BY <1>6 DEF Base, RowHasRequest, CarefulInv, ResolvedHasRequest
  <1>8. \A q \in Requests : q # r /\ Active(q)' => Active(q)
    BY <1>5, <1>6 DEF Active
  <1>9. \A o \in Orders : paid[o] => payKey'[o] = payKey[o]
    BY DEF Final
  <1>10. StatusFits'
    BY <1>6 DEF PrepareConfirm, SetStatus, NonePaid, GroupOrders, CarefulInv, StatusFits,
                AdvancedMeansPaid
  <1>11. ASSUME NEW q \in Requests, Active(q)'
         PROVE  /\ q \in open' \/ \A o \in GroupOrders(KeyGroup[reqKey'[q]]) : paid'[o]
                /\ \A o \in GroupOrders(KeyGroup[reqKey'[q]]) : paid'[o] => payKey'[o] = reqKey'[q]
    <2>1. CASE q = r
      BY <1>5, <1>6, <2>1 DEF PrepareConfirm, NonePaid
    <2>2. CASE q # r
      BY <1>5, <1>6, <1>8, <1>9, <1>11, <2>2 DEF CarefulInv, AttemptsKnown, AllPaid, GroupOrders
    <2> QED
      BY <2>1, <2>2
  <1>12. ASSUME NEW q \in Requests,
                wire'[q] = "sent" \/ (pc'[q] = "calling" /\ wire'[q] = "rejected")
         PROVE  prov'[reqKey'[q]] = "READY"
    BY <1>4, <1>5, <1>6, <1>12 DEF CarefulInv, CallsFresh
  <1>13. \A q \in resolved' \cap Requests : pc'[q] # "idle"
    BY <1>5, <1>6 DEF CarefulInv, ResolvedHasRequest
  <1>14. ASSUME NEW r1 \in Requests, NEW r2 \in Requests, Active(r1)', Active(r2)',
                KeyGroup[reqKey'[r1]] = KeyGroup[reqKey'[r2]]
         PROVE  r1 = r2
    BY <1>3, <1>5, <1>8, <1>14 DEF CarefulInv, OneAttemptAtATime
  <1>15. ASSUME NEW j \in Keys, prov'[j] # "READY"
         PROVE  \/ \A o \in GroupOrders(KeyGroup[j]) : paid'[o] /\ payKey'[o] = j
                \/ \E q \in open' \cap Requests : reqKey'[q] = j
    <2>1. CASE AllPaid(KeyGroup[j]) /\ AllKeyed(KeyGroup[j], j)
      BY <2>1, PaidStays
    <2>2. ASSUME NEW q \in open \cap Requests, reqKey[q] = j
          PROVE  q \in open' \cap Requests /\ reqKey'[q] = j
      BY <1>5, <1>6, <1>7, <2>2
    <2> QED
      BY <1>6, <1>15, <2>1, <2>2 DEF CarefulInv, CapturedIsAccountedFor
  <1>16. ASSUME NEW q \in Requests, q \in resolved' \/ pc'[q] = "done"
         PROVE  \/ pc'[q] = "rejected"
                \/ \A o \in GroupOrders(KeyGroup[reqKey'[q]]) : paid'[o] /\ payKey'[o] = reqKey'[q]
    <2>1. q # r /\ pc'[q] = pc[q] /\ reqKey'[q] = reqKey[q]
      BY <1>5, <1>6, <1>7, <1>16
    <2> QED
      BY <1>6, <1>16, <2>1, PaidStays DEF CarefulInv, ClosedMeansSettled
  <1> QED
    BY <1>10, <1>11, <1>12, <1>13, <1>14, <1>15, <1>16, CarefulPrimed

\* Toss charges what the attempt has in the journal.
LEMMA TossCareful ==
  ASSUME Base, CarefulInv, Final, NEW r \in Requests, TossHandles(r)
  PROVE  CarefulInv'
  <1> DEFINE k == reqKey[r]
  <1>1. Active(r) /\ k \in Keys /\ prov[k] = "READY"
    BY ActiveKey DEF TossHandles, Active, CarefulInv, CallsFresh
  <1>2. UNCHANGED <<orderVars, pc, reqKey, open, resolved>>
    BY DEF TossHandles, queueVars
  <1>3. /\ \A j \in Keys : j # k => prov'[j] = prov[j]
        /\ \A q \in Requests : q # r => wire'[q] = wire[q]
        /\ wire'[r] # "sent"
        /\ wire'[r] = "rejected" => prov'[k] = "READY"
    BY <1>1, PaymentAssumption DEF TossHandles, Base, TypeOK, TossTypeOK, RequestsTypeOK, TossReplies
  <1>4. \A q \in Requests : Active(q)' => Active(q)
    BY <1>2, <1>3 DEF Active
  <1>5. StatusFits'
    BY <1>2 DEF orderVars, CarefulInv, StatusFits, AdvancedMeansPaid
  <1>6. ASSUME NEW q \in Requests, Active(q)'
        PROVE  /\ q \in open' \/ \A o \in GroupOrders(KeyGroup[reqKey'[q]]) : paid'[o]
               /\ \A o \in GroupOrders(KeyGroup[reqKey'[q]]) : paid'[o] => payKey'[o] = reqKey'[q]
    BY <1>2, <1>4, <1>6 DEF orderVars, CarefulInv, AttemptsKnown, AllPaid
  <1>7. ASSUME NEW q \in Requests,
               wire'[q] = "sent" \/ (pc'[q] = "calling" /\ wire'[q] = "rejected")
        PROVE  prov'[reqKey'[q]] = "READY"
    <2>1. CASE q = r
      BY <1>2, <1>3, <1>7, <2>1
    <2>2. CASE q # r
      <3>1. Active(q) /\ prov[reqKey[q]] = "READY"
        BY <1>2, <1>3, <1>7, <2>2 DEF Active, CarefulInv, CallsFresh
      <3>2. reqKey[q] # k /\ reqKey[q] \in Keys
        BY <1>1, <2>2, <3>1, ActiveKey DEF CarefulInv, OneAttemptAtATime
      <3> QED
        BY <1>2, <1>3, <3>1, <3>2
    <2> QED
      BY <2>1, <2>2
  <1>8. ASSUME NEW j \in Keys, prov'[j] # "READY"
        PROVE  \/ \A o \in GroupOrders(KeyGroup[j]) : paid'[o] /\ payKey'[o] = j
               \/ \E q \in open' \cap Requests : reqKey'[q] = j
    <2>1. CASE j = k
      <3>1. r \notin open => AllPaid(KeyGroup[k])
        BY <1>1 DEF CarefulInv, AttemptsKnown
      <3>2. ASSUME AllPaid(KeyGroup[k]) PROVE FALSE
        <4>1. PICK o \in Orders : o \in GroupOrders(KeyGroup[k])
          BY <1>1, GroupHasOrder
        <4>2. paid[o] /\ payKey[o] = k
          BY <1>1, <3>2, <4>1 DEF AllPaid, CarefulInv, AttemptsKnown
        <4> QED
          BY <1>1, <4>1, <4>2 DEF Base, BookInv, PaidOK, Captured
      <3> QED
        BY <1>2, <2>1, <3>1, <3>2
    <2>2. CASE j # k
      BY <1>2, <1>3, <1>8, <2>2 DEF orderVars, CarefulInv, CapturedIsAccountedFor, AllPaid, AllKeyed
    <2> QED
      BY <2>1, <2>2
  <1>9. /\ \A q \in resolved' \cap Requests : pc'[q] # "idle"
        /\ \A r1, r2 \in Requests :
             Active(r1)' /\ Active(r2)' /\ KeyGroup[reqKey'[r1]] = KeyGroup[reqKey'[r2]] => r1 = r2
        /\ \A q \in Requests : q \in resolved' \/ pc'[q] = "done" =>
             \/ pc'[q] = "rejected"
             \/ \A o \in GroupOrders(KeyGroup[reqKey'[q]]) : paid'[o] /\ payKey'[o] = reqKey'[q]
    BY <1>2, <1>4 DEF orderVars, CarefulInv, ResolvedHasRequest, OneAttemptAtATime,
                      ClosedMeansSettled, AllPaid, AllKeyed
  <1> QED
    BY <1>5, <1>6, <1>7, <1>8, <1>9, CarefulPrimed

\* A refused attempt ends without a charge.
LEMMA RejectCareful ==
  ASSUME Base, CarefulInv, Final, NEW r \in Requests, ProviderRejected(r)
  PROVE  CarefulInv'
  <1>1. /\ open' = open \ {r} /\ resolved' = resolved \union {r}
        /\ UNCHANGED <<paid, prov, wire, reqKey>>
        /\ pc[r] = "calling" /\ wire[r] = "rejected"
    BY DEF ProviderRejected, CloseJournal
  <1>2. pc'[r] = "rejected" /\ \A q \in Requests : q # r => pc'[q] = pc[q]
    BY DEF ProviderRejected, Base, TypeOK, RequestsTypeOK
  <1>3. \A q \in Requests : Active(q)' => Active(q) /\ q # r
    BY <1>1, <1>2 DEF Active
  <1>4. StatusFits'
    <2>1. \A o \in Orders : paid[o] => status'[o] = status[o]
      BY DEF ProviderRejected, SetStatus, Base, BookInv, PaidOK
    <2>2. \A o \in Orders : status'[o] \in {status[o], "pending"}
      BY DEF ProviderRejected, SetStatus
    <2> QED
      BY <1>1, <2>1, <2>2 DEF CarefulInv, StatusFits, AdvancedMeansPaid
  <1>5. \A o \in Orders : paid[o] => payKey'[o] = payKey[o]
    BY DEF Final
  <1>6. ASSUME NEW q \in Requests, Active(q)'
        PROVE  /\ q \in open' \/ \A o \in GroupOrders(KeyGroup[reqKey'[q]]) : paid'[o]
               /\ \A o \in GroupOrders(KeyGroup[reqKey'[q]]) : paid'[o] => payKey'[o] = reqKey'[q]
    BY <1>1, <1>3, <1>5, <1>6 DEF CarefulInv, AttemptsKnown, AllPaid, GroupOrders
  <1>7. ASSUME NEW q \in Requests,
               wire'[q] = "sent" \/ (pc'[q] = "calling" /\ wire'[q] = "rejected")
        PROVE  prov'[reqKey'[q]] = "READY"
    BY <1>1, <1>2, <1>7 DEF CarefulInv, CallsFresh
  <1>8. ASSUME NEW j \in Keys, prov'[j] # "READY"
        PROVE  \/ \A o \in GroupOrders(KeyGroup[j]) : paid'[o] /\ payKey'[o] = j
               \/ \E q \in open' \cap Requests : reqKey'[q] = j
    <2>1. j # reqKey[r]
      BY <1>1, <1>8 DEF CarefulInv, CallsFresh
    <2> QED
      BY <1>1, <1>8, <2>1, PaidStays DEF CarefulInv, CapturedIsAccountedFor
  <1>9. /\ \A q \in resolved' \cap Requests : pc'[q] # "idle"
        /\ \A r1, r2 \in Requests :
             Active(r1)' /\ Active(r2)' /\ KeyGroup[reqKey'[r1]] = KeyGroup[reqKey'[r2]] => r1 = r2
    BY <1>1, <1>2, <1>3 DEF CarefulInv, ResolvedHasRequest, OneAttemptAtATime
  <1>10. ASSUME NEW q \in Requests, q \in resolved' \/ pc'[q] = "done"
         PROVE  \/ pc'[q] = "rejected"
                \/ \A o \in GroupOrders(KeyGroup[reqKey'[q]]) : paid'[o] /\ payKey'[o] = reqKey'[q]
    BY <1>1, <1>2, <1>10, PaidStays DEF CarefulInv, ClosedMeansSettled
  <1> QED
    BY <1>4, <1>6, <1>7, <1>8, <1>9, <1>10, CarefulPrimed

\* What Quiet keeps, whatever is booked.
LEMMA QuietKeeps ==
  ASSUME Base, CarefulInv, Quiet
  PROVE  /\ \A q \in Requests : Active(q)' =>
              Active(q) /\ reqKey'[q] = reqKey[q] /\ reqKey[q] \in Keys
         /\ \A q \in Requests :
              wire'[q] = "sent" \/ (pc'[q] = "calling" /\ wire'[q] = "rejected")
                => prov'[reqKey'[q]] = "READY"
         /\ \A r1, r2 \in Requests :
              Active(r1)' /\ Active(r2)' /\ KeyGroup[reqKey'[r1]] = KeyGroup[reqKey'[r2]] => r1 = r2
  <1>1. \A q \in Requests : Active(q)' => Active(q) /\ reqKey'[q] = reqKey[q] /\ reqKey[q] \in Keys
    BY ActiveKey DEF Quiet
  <1>2. ASSUME NEW q \in Requests,
               wire'[q] = "sent" \/ (pc'[q] = "calling" /\ wire'[q] = "rejected")
        PROVE  prov'[reqKey'[q]] = "READY"
    <2>1. Active(q) /\ prov[reqKey[q]] = "READY"
      BY <1>2 DEF Quiet, Active, CarefulInv, CallsFresh
    <2>2. reqKey'[q] = reqKey[q] /\ reqKey[q] \in Keys
      BY <2>1, ActiveKey DEF Quiet
    <2> QED
      BY <2>1, <2>2 DEF Quiet
  <1>3. ASSUME NEW r1 \in Requests, NEW r2 \in Requests, Active(r1)', Active(r2)',
               KeyGroup[reqKey'[r1]] = KeyGroup[reqKey'[r2]]
        PROVE  r1 = r2
    BY <1>1, <1>3 DEF CarefulInv, OneAttemptAtATime
  <1> QED
    BY <1>1, <1>2, <1>3

\* A booking is that of the one attempt of its group.
LEMMA BooksCareful ==
  ASSUME Base, CarefulInv, Final, NEW k, Books(k)
  PROVE  CarefulInv'
  <1> DEFINE g == KeyGroup[k]
  <1>1. k \in Keys /\ prov[k] # "READY"
    BY DEF Books, Captured
  <1>2. PICK first \in Orders : first \in GroupOrders(g)
    BY <1>1, GroupHasOrder
  <1>3. \A o \in GroupOrders(g) : ~ paid[o]
    BY DEF Books, ApplyConfirmation, AllIn, GroupOrders, Base, BookInv, PaidOK
  <1>4. PICK own \in open \cap Requests : reqKey[own] = k
    BY <1>1, <1>2, <1>3 DEF CarefulInv, CapturedIsAccountedFor, AllPaid
  <1>5. \A q \in Requests : Active(q) /\ KeyGroup[reqKey[q]] = g => reqKey[q] = k
    BY <1>4 DEF CarefulInv, OneAttemptAtATime, Active
  <1>6. /\ \A o \in GroupOrders(g) : paid'[o] /\ payKey'[o] = k
        /\ \A o \in Orders : o \notin GroupOrders(g) =>
             paid'[o] = paid[o] /\ payKey'[o] = payKey[o] /\ status'[o] = status[o]
        /\ \A o \in GroupOrders(g) : status'[o] # "pending"
    BY PostStatusType DEF Books, ApplyConfirmation, GroupOrders, Base, TypeOK, OrdersTypeOK
  <1>7. StatusFits'
    BY <1>6 DEF CarefulInv, StatusFits, AdvancedMeansPaid
  <1>8. Quiet /\ \A q \in Requests : Ended(q) => pc[q] # "idle" /\ reqKey[q] = k
    BY DEF Books
  <1>9. \A q \in Requests : pc[q] # "idle" => pc'[q] # "idle" /\ reqKey'[q] = reqKey[q]
    BY <1>8 DEF Quiet
  <1>10. ASSUME NEW q \in Requests, Active(q)'
         PROVE  /\ q \in open' \/ \A o \in GroupOrders(KeyGroup[reqKey'[q]]) : paid'[o]
                /\ \A o \in GroupOrders(KeyGroup[reqKey'[q]]) : paid'[o] => payKey'[o] = reqKey'[q]
    <2>1. Active(q) /\ reqKey'[q] = reqKey[q] /\ reqKey[q] \in Keys
      BY <1>8, <1>10, QuietKeeps
    <2>2. CASE KeyGroup[reqKey[q]] = g
      BY <1>5, <1>6, <2>1, <2>2
    <2>3. CASE KeyGroup[reqKey[q]] # g
      <3>1. q \in open => q \in open'
        BY <1>8, <2>3 DEF Ended
      <3>2. \A o \in GroupOrders(KeyGroup[reqKey[q]]) : o \in Orders /\ o \notin GroupOrders(g)
        BY <2>3 DEF GroupOrders
      <3> QED
        BY <1>6, <2>1, <3>1, <3>2 DEF CarefulInv, AttemptsKnown, AllPaid
    <2> QED
      BY <2>2, <2>3
  <1>11. \A q \in resolved' \cap Requests : pc'[q] # "idle"
    BY <1>8, <1>9 DEF Ended, CarefulInv, ResolvedHasRequest
  <1>12. ASSUME NEW j \in Keys, prov'[j] # "READY"
         PROVE  \/ \A o \in GroupOrders(KeyGroup[j]) : paid'[o] /\ payKey'[o] = j
                \/ \E q \in open' \cap Requests : reqKey'[q] = j
    <2>1. prov[j] # "READY"
      BY <1>8, <1>12 DEF Quiet
    <2>2. CASE AllPaid(KeyGroup[j]) /\ AllKeyed(KeyGroup[j], j)
      BY <2>2, PaidStays
    <2>3. ASSUME NEW q \in open \cap Requests, reqKey[q] = j
          PROVE  \/ \A o \in GroupOrders(KeyGroup[j]) : paid'[o] /\ payKey'[o] = j
                 \/ q \in open' /\ reqKey'[q] = j
      <3>1. pc[q] # "idle"
        BY <2>3 DEF Base, RowHasRequest
      <3> QED
        BY <1>6, <1>8, <1>9, <2>3, <3>1 DEF Ended
    <2> QED
      BY <2>1, <2>2, <2>3 DEF CarefulInv, CapturedIsAccountedFor
  <1>13. ASSUME NEW q \in Requests, q \in resolved' \/ pc'[q] = "done"
         PROVE  \/ pc'[q] = "rejected"
                \/ \A o \in GroupOrders(KeyGroup[reqKey'[q]]) : paid'[o] /\ payKey'[o] = reqKey'[q]
    <2>1. CASE Ended(q)
      BY <1>6, <1>8, <1>9, <2>1
    <2>2. CASE q \in resolved \/ pc[q] = "done"
      <3>1. reqKey'[q] = reqKey[q] /\ (pc[q] = "rejected" => pc'[q] = "rejected")
        BY <1>8, <1>9, <2>2 DEF Quiet, CarefulInv, ResolvedHasRequest
      <3> QED
        BY <2>2, <3>1, PaidStays DEF CarefulInv, ClosedMeansSettled
    <2> QED
      BY <1>13, <2>1, <2>2 DEF Ended
  <1> QED
    BY <1>7, <1>8, <1>10, <1>11, <1>12, <1>13, QuietKeeps, CarefulPrimed

\* Any other step.
LEMMA SettlesCareful ==
  ASSUME Base, CarefulInv, Final, Settles
  PROVE  CarefulInv'
  <1>1. Quiet /\ paid' = paid /\ StatusFits'
    BY DEF Settles
  <1>2. \A q \in Requests : Ended(q) =>
          /\ pc'[q] # "idle"
          /\ \A o \in GroupOrders(KeyGroup[reqKey'[q]]) : paid'[o] /\ payKey'[o] = reqKey'[q]
    BY PaidStays DEF Settles
  <1>3. \A q \in Requests : pc[q] # "idle" => pc'[q] # "idle" /\ reqKey'[q] = reqKey[q]
    BY <1>1 DEF Quiet
  <1>4. ASSUME NEW q \in Requests, Active(q)'
        PROVE  /\ q \in open' \/ \A o \in GroupOrders(KeyGroup[reqKey'[q]]) : paid'[o]
               /\ \A o \in GroupOrders(KeyGroup[reqKey'[q]]) : paid'[o] => payKey'[o] = reqKey'[q]
    <2>1. Active(q) /\ reqKey'[q] = reqKey[q]
      BY <1>1, <1>4, QuietKeeps
    <2>2. q \in open => q \in open' \/ \A o \in GroupOrders(KeyGroup[reqKey'[q]]) : paid'[o]
      BY <1>2 DEF Ended
    <2> QED
      BY <1>1, <2>1, <2>2 DEF CarefulInv, AttemptsKnown, AllPaid, GroupOrders, Final
  <1>5. \A q \in resolved' \cap Requests : pc'[q] # "idle"
    BY <1>2, <1>3 DEF Ended, CarefulInv, ResolvedHasRequest
  <1>6. ASSUME NEW j \in Keys, prov'[j] # "READY"
        PROVE  \/ \A o \in GroupOrders(KeyGroup[j]) : paid'[o] /\ payKey'[o] = j
               \/ \E q \in open' \cap Requests : reqKey'[q] = j
    <2>1. prov[j] # "READY"
      BY <1>1, <1>6 DEF Quiet
    <2>2. CASE AllPaid(KeyGroup[j]) /\ AllKeyed(KeyGroup[j], j)
      BY <2>2, PaidStays
    <2>3. ASSUME NEW q \in open \cap Requests, reqKey[q] = j
          PROVE  \/ \A o \in GroupOrders(KeyGroup[j]) : paid'[o] /\ payKey'[o] = j
                 \/ q \in open' /\ reqKey'[q] = j
      <3>1. pc[q] # "idle"
        BY <2>3 DEF Base, RowHasRequest
      <3> QED
        BY <1>2, <1>3, <2>3, <3>1 DEF Ended
    <2> QED
      BY <2>1, <2>2, <2>3 DEF CarefulInv, CapturedIsAccountedFor
  <1>7. ASSUME NEW q \in Requests, q \in resolved' \/ pc'[q] = "done"
        PROVE  \/ pc'[q] = "rejected"
               \/ \A o \in GroupOrders(KeyGroup[reqKey'[q]]) : paid'[o] /\ payKey'[o] = reqKey'[q]
    <2>1. CASE Ended(q)
      BY <1>2, <2>1
    <2>2. CASE q \in resolved \/ pc[q] = "done"
      <3>1. reqKey'[q] = reqKey[q] /\ (pc[q] = "rejected" => pc'[q] = "rejected")
        BY <1>1, <1>3, <2>2 DEF Quiet, CarefulInv, ResolvedHasRequest
      <3> QED
        BY <2>2, <3>1, PaidStays DEF CarefulInv, ClosedMeansSettled
    <2> QED
      BY <1>7, <2>1, <2>2 DEF Ended
  <1> QED
    BY <1>1, <1>4, <1>5, <1>6, <1>7, QuietKeeps, CarefulPrimed

\* No order comes back from a cancellation.
LEMMA CanceledStays ==
  ASSUME NEW type \in OrderTypes, NEW new, NEW isRollback \in BOOLEAN, NEW previous
  PROVE  ~ ValidTransition(type, "canceled", new, isRollback, previous)
  <1>1. CASE isRollback
    BY <1>1 DEF ValidTransition, ROLLBACK_FORBIDDEN_CURRENT
  <1>2. CASE ~isRollback
    <2>1. /\ "canceled" \notin CANCELABLE_FROM[type]
          /\ \A e \in FORWARD[type] : e[1] # "canceled"
      BY DEF CANCELABLE_FROM, FORWARD, OrderTypes
    <2> QED
      BY <1>2, <2>1 DEF ValidTransition
  <1> QED
    BY <1>1, <1>2

\* A step that leaves requests and their journal rows alone settles, if the statuses fit.
LEMMA RowsRest ==
  ASSUME Base, UNCHANGED reqVars, paid' = paid, StatusFits',
         \A k \in Keys : prov'[k] = "READY" <=> prov[k] = "READY",
         \A q \in Requests : (q \in open' <=> q \in open) /\ (q \in resolved' <=> q \in resolved)
  PROVE  Settles
  <1>1. Quiet
    BY DEF Quiet, Active, reqVars
  <1>2. \A q \in Requests : ~ Ended(q)
    BY DEF Ended, reqVars
  <1> QED
    BY <1>1, <1>2 DEF Settles

\* So does a running request that moves on, and at most puts its row back.
LEMMA RunsOn ==
  ASSUME Base, NEW r \in Requests, pc[r] \in {"calling", "lookup", "confirming"},
         NEW to \in {"lookup", "confirming", "unsure", "dead"}, pc' = [pc EXCEPT ![r] = to],
         UNCHANGED <<wire, reqKey, prov, paid>>, StatusFits',
         open \subseteq open', open' \subseteq open \union {r}, resolved' \subseteq resolved
  PROVE  Settles
  <1>1. pc'[r] = to /\ \A q \in Requests : q # r => pc'[q] = pc[q]
    BY DEF Base, TypeOK, RequestsTypeOK
  <1>2. Quiet
    BY <1>1 DEF Quiet, Active
  <1>3. \A q \in Requests : ~ Ended(q)
    BY <1>1 DEF Ended
  <1> QED
    BY <1>2, <1>3 DEF Settles

\* Orders that a step leaves alone fit.
LEMMA FitKept == StatusFits /\ UNCHANGED orderVars => StatusFits'
  BY DEF StatusFits, AdvancedMeansPaid, orderVars

\* What a confirm request does with the answer, and its death.
LEMMA ConfirmSettles ==
  ASSUME Base, CarefulInv, NEW r \in Requests, ConfirmStep(r) \/ Crash(r), ~ ProviderRejected(r)
  PROVE  Settles \/ \E k \in Keys : Books(k)
  <1>1. ASSUME UNCHANGED orderVars PROVE StatusFits'
    BY <1>1, FitKept DEF CarefulInv
  <1>2. ASSUME EndUnsure(r), pc[r] \in {"calling", "lookup", "confirming"} PROVE Settles
    BY <1>1, <1>2, RunsOn DEF EndUnsure, OpenJournal, orderVars
  <1>3. CASE \/ ConfirmOutcomeUnknown(r) \/ ProviderResponseUncertain(r)
             \/ RecoveryFailed(r) \/ ConfirmRefused(r) \/ ConfirmDbFailed(r)
    BY <1>2, <1>3 DEF ConfirmOutcomeUnknown, ProviderResponseUncertain, RecoveryFailed,
       ConfirmRefused, ConfirmDbFailed
  <1>4. CASE ProviderApproved(r) \/ AlreadyProcessed(r) \/ RecoveryVerified(r) \/ Crash(r)
    BY <1>1, <1>4, RunsOn DEF ProviderApproved, AlreadyProcessed, RecoveryVerified, Crash,
       orderVars, queueVars
  <1>5. CASE ConfirmAlreadyApplied(r)
    <2> DEFINE k == reqKey[r]
               g == KeyGroup[reqKey[r]]
    <2>1. Active(r) /\ k \in Keys
      BY <1>5, ActiveKey DEF ConfirmAlreadyApplied, Active
    <2>2. AllPaid(g)
      BY <1>5, PostStatusType DEF ConfirmAlreadyApplied, AllPost, AllPaid, GroupOrders,
         CarefulInv, StatusFits, AdvancedMeansPaid, OrderStatuses
    <2>3. AllKeyed(g, k)
      BY <2>1, <2>2 DEF AllKeyed, AllPaid, CarefulInv, AttemptsKnown
    <2>4. pc'[r] = "done" /\ \A q \in Requests : q # r => pc'[q] = pc[q]
      BY <1>5 DEF ConfirmAlreadyApplied, Base, TypeOK, RequestsTypeOK
    <2>5. /\ open' = open \ {r} /\ resolved' = resolved \union {r} /\ pc[r] = "confirming"
          /\ UNCHANGED <<orderVars, prov, wire, reqKey>>
      BY <1>5 DEF ConfirmAlreadyApplied, CloseJournal
    <2>6. Quiet
      BY <2>1, <2>4, <2>5 DEF Quiet, Active
    <2>7. \A q \in Requests : Ended(q) => q = r
      BY <2>4, <2>5 DEF Ended
    <2> QED
      BY <1>1, <2>2, <2>3, <2>4, <2>5, <2>6, <2>7 DEF Settles, orderVars
  <1>6. CASE ConfirmApplies(r) \/ ConfirmFailedAfterCommit(r)
    <2> DEFINE k == reqKey[r]
    <2>1. Captured(k) /\ ApplyConfirmation(KeyGroup[k], k) /\ pc[r] = "confirming"
      BY <1>6 DEF ConfirmApplies, ConfirmFailedAfterCommit, Base, BookInv, RequestsOK
    <2>2. PICK to \in {"done", "unsure"} : pc' = [pc EXCEPT ![r] = to]
      BY <1>6 DEF ConfirmApplies, ConfirmFailedAfterCommit
    <2>3. pc'[r] = to /\ \A q \in Requests : q # r => pc'[q] = pc[q]
      BY <2>2 DEF Base, TypeOK, RequestsTypeOK
    <2>4. /\ \A q \in Requests : q # r => (q \in open' <=> q \in open)
                                          /\ (q \in resolved' <=> q \in resolved)
          /\ UNCHANGED <<prov, wire, reqKey>>
      BY <1>6 DEF ConfirmApplies, ConfirmFailedAfterCommit, CloseJournal, OpenJournal
    <2>5. Quiet
      BY <2>1, <2>3, <2>4 DEF Quiet, Active
    <2>6. \A q \in Requests : Ended(q) => q = r
      BY <2>3, <2>4 DEF Ended
    <2> QED
      BY <2>1, <2>5, <2>6 DEF Books, Captured
  <1> QED
    BY <1>3, <1>4, <1>5, <1>6 DEF ConfirmStep

\* Checkout, the repetition of a paid confirm, and the sending of a repair.
LEMMA CustomerSettles ==
  ASSUME Base, CarefulInv, CustomerStep,
         \A r \in Requests, k \in Keys : ~ PrepareConfirm(r, k)
  PROVE  Settles
  <1>1. ASSUME NEW g \in Groups, CreateOrder(g) PROVE Settles
    <2>1. StatusFits'
      BY <1>1 DEF CreateOrder, SetStatus, GroupOrders, CarefulInv, StatusFits, AdvancedMeansPaid,
                  Base, BookInv, PaidOK
    <2> QED
      BY <1>1, <2>1, RowsRest DEF CreateOrder, queueVars
  <1>2. ASSUME NEW r \in Requests, NEW k \in Keys, ConfirmAgain(r, k) PROVE Settles
    <2>1. /\ pc'[r] = "done" /\ reqKey'[r] = k
          /\ \A q \in Requests : q # r => pc'[q] = pc[q] /\ reqKey'[q] = reqKey[q]
      BY <1>2 DEF ConfirmAgain, Base, TypeOK, RequestsTypeOK
    <2>2. /\ UNCHANGED <<orderVars, open, resolved, wire, prov>> /\ pc[r] = "idle"
          /\ AllPaid(KeyGroup[k]) /\ AllKeyed(KeyGroup[k], k)
      BY <1>2 DEF ConfirmAgain, queueVars
    <2>3. Quiet
      BY <2>1, <2>2 DEF Quiet, Active
    <2>4. \A q \in Requests : Ended(q) => q = r
      BY <2>1, <2>2 DEF Ended
    <2> QED
      BY <2>1, <2>2, <2>3, <2>4, FitKept DEF Settles, orderVars, CarefulInv
  <1>3. ASSUME NEW o \in Orders, SubmitRepair(o) PROVE Settles
    <2>1. StatusFits'
      BY <1>3 DEF SubmitRepair, CarefulInv, StatusFits, AdvancedMeansPaid, Base, TypeOK, OrdersTypeOK
    <2> QED
      BY <1>3, <2>1, RowsRest DEF SubmitRepair, queueVars
  <1> QED
    BY <1>1, <1>2, <1>3 DEF CustomerStep

\* Deliveries.
LEMMA WebhookSettles ==
  ASSUME Base, CarefulInv, NEW h \in Hooks, WebhookStep(h)
  PROVE  Settles \/ \E k \in Keys : Books(k)
  <1>1. ASSUME NEW type \in {"mixed_state", "amount_mismatch", "partial_cancel"},
               NEW reason \in {"key", "state", "amount", "partial"},
               hook[h].seen \in {"DONE", "CANCELED", "PARTIAL"},
               RecordWebhookIncident(h, type, reason)
        PROVE  Settles
    <2> DEFINE x == [type |-> type, reason |-> reason, seen |-> hook[h].seen,
                     key |-> hook[h].key]
    <2>1. x \notin Requests
      BY <1>1, HookKey, HookSeen, RowAssumption DEF Base, TypeOK, Incident
    <2>2. \A q \in Requests : (q \in open' <=> q \in open) /\ (q \in resolved' <=> q \in resolved)
      BY <1>1, <2>1 DEF RecordWebhookIncident, queueVars
    <2>3. UNCHANGED <<orderVars, reqVars, prov>>
      BY <1>1 DEF RecordWebhookIncident
    <2> QED
      BY <2>2, <2>3, FitKept, RowsRest DEF CarefulInv, orderVars
  <1>2. CASE \/ WebhookDoneMismatch(h) \/ WebhookPartialCanceled(h) \/ WebhookCancelMismatch(h)
    BY <1>1, <1>2 DEF WebhookDoneMismatch, WebhookPartialCanceled, WebhookCancelMismatch
  <1>3. CASE WebhookConfirms(h)
    <2> DEFINE k == hook[h].key
    <2>1. Captured(k)
      BY <1>3, HookKey, HookSeen DEF WebhookConfirms, Base, BookInv, HooksOK, Captured, TypeOK
    <2>2. UNCHANGED <<prov, reqVars, queueVars>> /\ ApplyConfirmation(KeyGroup[k], k)
      BY <1>3 DEF WebhookConfirms
    <2>3. Quiet /\ \A q \in Requests : ~ Ended(q)
      BY <2>2 DEF Quiet, Ended, Active, reqVars, queueVars
    <2> QED
      BY <2>1, <2>2, <2>3 DEF Books, Captured
  <1>4. CASE WebhookCancels(h)
    <2>1. StatusFits'
      BY <1>4 DEF WebhookCancels, SetStatus, CarefulInv, StatusFits, AdvancedMeansPaid
    <2> QED
      BY <1>4, <2>1, RowsRest DEF WebhookCancels, queueVars
  <1>5. CASE WebhookEnds(h)
    BY <1>5, FitKept, RowsRest DEF WebhookEnds, CarefulInv, orderVars, queueVars
  <1> QED
    BY <1>2, <1>3, <1>4, <1>5 DEF WebhookStep

\* Reviews.
LEMMA ReviewSettles ==
  ASSUME Base, CarefulInv, NEW v \in Reviews, ReviewStep(v)
  PROVE  Settles \/ \E k \in Keys : Books(k)
  <1>1. UNCHANGED <<prov, reqVars, open, resolved>>
    BY DEF ReviewStep, ReviewConfirms, ReviewCancels, ReviewCompares, ReviewMismatch,
           ReviewRecords, ReviewDies, queueVars
  <1>2. ASSUME UNCHANGED orderVars PROVE Settles
    BY <1>1, <1>2, FitKept, RowsRest DEF CarefulInv, orderVars
  <1>3. CASE ReviewConfirms(v)
    <2> DEFINE k == KeyOf(review[v].item)
    <2>1. review[v] # IdleReview /\ review[v].item \in Requests
      BY <1>3 DEF ReviewConfirms, IdleReview, IsConfirm
    <2>2. k \in Keys
      BY <2>1, ItemKey DEF Base, BookInv, ReviewsOK, Items
    <2>3. Captured(k)
      BY <1>3, <2>1, <2>2 DEF ReviewConfirms, ProviderMatches, ExpectedProviderStatuses,
         AmountMatches, IsConfirm, Base, BookInv, ReviewsOK, Captured
    <2>4. CASE ApplyConfirmation(KeyGroup[k], k)
      <3>1. Quiet /\ \A q \in Requests : ~ Ended(q)
        BY <1>1 DEF Quiet, Ended, Active, reqVars
      <3> QED
        BY <2>2, <2>3, <2>4, <3>1 DEF Books
    <2> QED
      BY <1>2, <1>3, <2>4 DEF ReviewConfirms
  <1>4. CASE ReviewCancels(v)
    <2>1. paid' = paid /\ \A o \in Orders : status'[o] \in {status[o], "canceled"}
      BY <1>4 DEF ReviewCancels, SetStatus
    <2>2. StatusFits'
      BY <2>1 DEF CarefulInv, StatusFits, AdvancedMeansPaid
    <2> QED
      BY <1>1, <2>1, <2>2, RowsRest
  <1>5. CASE ReviewCompares(v) \/ ReviewMismatch(v) \/ ReviewRecords(v) \/ ReviewDies(v)
    BY <1>2, <1>5 DEF ReviewCompares, ReviewMismatch, ReviewRecords, ReviewDies
  <1> QED
    BY <1>3, <1>4, <1>5 DEF ReviewStep

\* Careful operators and the batch.
LEMMA EditSettles ==
  ASSUME Base, CarefulInv, Careful,
         \/ \E o \in Orders, new \in OrderStatuses, isRollback \in BOOLEAN :
              AdminUpdateStatus(o, new, isRollback)
         \/ \E S \in SUBSET Orders : CancelStaleOrders(S)
         \/ \E x \in open : ResolveIncident(x)
  PROVE  Settles
  <1>1. ASSUME NEW o \in Orders, NEW new \in OrderStatuses, NEW isRollback \in BOOLEAN,
               AdminUpdateStatus(o, new, isRollback)
        PROVE  Settles
    <2>1. <<status[o], new>> \in CarefulEdges /\ status[o] # "none"
      BY <1>1 DEF AdminUpdateStatus, Careful
    <2>2. new # "pending" /\ (status[o] \in {"pending", "paying"} => new = "canceled")
      BY <2>1 DEF CarefulEdges
    <2>3. status[o] # "canceled"
      BY <1>1, CanceledStays, PaymentAssumption DEF AdminUpdateStatus
    <2>4. StatusFits'
      BY <1>1, <2>1, <2>2, <2>3 DEF AdminUpdateStatus, CarefulInv, StatusFits, AdvancedMeansPaid,
         Base, TypeOK, OrdersTypeOK
    <2> QED
      BY <1>1, <2>4, RowsRest DEF AdminUpdateStatus, queueVars
  <1>2. ASSUME NEW S \in SUBSET Orders, CancelStaleOrders(S) PROVE Settles
    <2>1. StatusFits'
      BY <1>2 DEF CancelStaleOrders, SetStatus, CarefulInv, StatusFits, AdvancedMeansPaid
    <2> QED
      BY <1>2, <2>1, RowsRest DEF CancelStaleOrders, queueVars
  <1>3. ASSUME NEW x \in open, ResolveIncident(x) PROVE Settles
    <2>1. /\ open' = open \ {x} /\ resolved' = resolved \union {x}
          /\ UNCHANGED <<orderVars, reqVars, prov>> /\ CurrentDomainConsistent(x)
      BY <1>3 DEF ResolveIncident
    <2>2. \A q \in Requests : Ended(q) => q = x
      BY <2>1 DEF Ended, reqVars
    <2>3. Quiet
      BY <2>1 DEF Quiet, Active, reqVars
    <2>4. ASSUME x \in Requests
          PROVE  pc[x] # "idle" /\ AllPaid(KeyGroup[reqKey[x]]) /\ AllKeyed(KeyGroup[reqKey[x]], reqKey[x])
      <3>1. AllPost(KeyGroup[reqKey[x]]) /\ AllKeyed(KeyGroup[reqKey[x]], reqKey[x])
        BY <2>1, <2>4 DEF CurrentDomainConsistent, IsConfirm, KeyOf, ConfirmedConsistent
      <3>2. AllPaid(KeyGroup[reqKey[x]])
        BY <3>1, PostStatusType DEF AllPost, AllPaid, GroupOrders, CarefulInv, StatusFits,
           AdvancedMeansPaid, OrderStatuses
      <3> QED
        BY <1>3, <2>4, <3>1, <3>2 DEF Base, RowHasRequest
    <2> QED
      BY <2>1, <2>2, <2>3, <2>4, FitKept DEF Settles, CarefulInv, orderVars, reqVars
  <1> QED
    BY <1>1, <1>2, <1>3

\* Every step is one of the five kinds.
StepKinds ==
  \/ \E r \in Requests, k \in Keys : PrepareConfirm(r, k)
  \/ \E r \in Requests : TossHandles(r) \/ ProviderRejected(r)
  \/ \E k \in Keys : Books(k)
  \/ Settles

\* Every step is of one of these kinds, if operators are careful.
LEMMA KindOfStep ==
  ASSUME Base, CarefulInv, Careful, [Next]_vars
  PROVE  StepKinds
  <1>1. ASSUME Settles \/ \E k \in Keys : Books(k) PROVE StepKinds
    BY <1>1 DEF StepKinds
  <1>2. ASSUME UNCHANGED <<orderVars, reqVars, open, resolved, prov>> PROVE StepKinds
    BY <1>1, <1>2, FitKept, RowsRest DEF CarefulInv, orderVars
  <1>3. CASE CustomerStep
    BY <1>1, <1>3, CustomerSettles DEF StepKinds
  <1>4. ASSUME NEW r \in Requests, ConfirmStep(r) \/ Crash(r) \/ TossHandles(r) PROVE StepKinds
    BY <1>1, <1>4, ConfirmSettles DEF StepKinds
  <1>5. ASSUME NEW k \in Keys, DashboardCancels(k) PROVE StepKinds
    <2>1. \A j \in Keys : prov'[j] = "READY" <=> prov[j] = "READY"
      BY <1>5 DEF DashboardCancels, Base, TypeOK, TossTypeOK
    <2>2. Settles
      BY <1>5, <2>1, FitKept, RowsRest DEF DashboardCancels, CarefulInv, orderVars, queueVars
    <2> QED
      BY <1>1, <2>2
  <1>6. CASE \E h \in Hooks : WebhookStep(h)
    BY <1>1, <1>6, WebhookSettles
  <1>7. CASE \E h \in Hooks, k \in Keys : HookLookup(h, k)
    BY <1>2, <1>7 DEF HookLookup, queueVars
  <1>8. CASE \E S \in SUBSET Orders : CancelStaleOrders(S)
    BY <1>1, <1>8, EditSettles
  <1>9. CASE OperatorStep
    <2>1. CASE \/ \E v \in Reviews, x \in open : ReviewLookup(v, x)
               \/ \E x \in evidence : EvidenceExpires(x)
      BY <1>2, <2>1 DEF ReviewLookup, EvidenceExpires, queueVars
    <2> QED
      BY <1>1, <1>9, <2>1, EditSettles, ReviewSettles DEF OperatorStep
  <1>10. CASE UNCHANGED vars
    BY <1>2, <1>10 DEF vars, queueVars
  <1> QED
    BY <1>3, <1>4, <1>5, <1>6, <1>7, <1>8, <1>9, <1>10 DEF Next

\* Every step keeps the invariant.
LEMMA CarefulNext ==
  ASSUME Base, CarefulInv, Careful, [Next]_vars, Final
  PROVE  CarefulInv'
  BY KindOfStep, PrepareCareful, TossCareful, RejectCareful, BooksCareful, SettlesCareful
     DEF StepKinds

\* The invariant, when operators are careful.
LEMMA CarefulBooked ==
  ASSUME Careful
  PROVE  Spec => [](Base /\ CarefulInv)
  <1>1. Init => Base /\ CarefulInv
    BY TypeInit, JournalInit, BookInit, CarefulInit DEF Base
  <1>2. Base /\ LockHasJournal /\ CarefulInv /\ [Next]_vars
          => Base' /\ LockHasJournal' /\ CarefulInv'
    BY Careful, TypeNext, JournalNext, BookNext, CarefulNext DEF Base
  <1> QED
    BY <1>1, <1>2, JournalInit, PTL DEF Spec

\* At most one attempt of a group is unsettled, through timeouts, crashes, retries with the
\* same key and retries with another one.
THEOREM OneAttempt ==
  ASSUME Careful
  PROVE  Spec => []OneAttemptAtATime
  <1>1. CarefulInv => OneAttemptAtATime
    BY DEF CarefulInv
  <1> QED
    BY <1>1, CarefulBooked, Careful, PTL

\* A customer is charged at most once for a group.
THEOREM OneCharge ==
  ASSUME Careful
  PROVE  Spec => []OneChargePerGroup
  <1>1. ASSUME Base, CarefulInv, NEW k1 \in Keys, NEW k2 \in Keys,
               KeyGroup[k1] = KeyGroup[k2], prov[k1] # "READY", prov[k2] # "READY"
        PROVE  k1 = k2
    <2> DEFINE g == KeyGroup[k1]
               Booked1(k) == AllPaid(g) /\ AllKeyed(g, k)
    <2>1. PICK o \in Orders : o \in GroupOrders(g)
      BY GroupHasOrder
    <2>2. /\ Booked1(k1) \/ \E r \in open \cap Requests : reqKey[r] = k1
          /\ Booked1(k2) \/ \E r \in open \cap Requests : reqKey[r] = k2
      BY <1>1 DEF CarefulInv, CapturedIsAccountedFor
    <2>3. \A k : Booked1(k) => paid[o] /\ payKey[o] = k
      BY <2>1 DEF AllPaid, AllKeyed
    <2>4. \A r \in open \cap Requests : Active(r)
      BY DEF Active
    <2>5. CASE paid[o]
      <3>1. \A r \in open \cap Requests : KeyGroup[reqKey[r]] = g => payKey[o] = reqKey[r]
        BY <1>1, <2>1, <2>4, <2>5 DEF CarefulInv, AttemptsKnown
      <3> QED
        BY <1>1, <2>2, <2>3, <3>1
    <2>6. CASE ~ paid[o]
      <3>1. PICK r1, r2 \in open \cap Requests : reqKey[r1] = k1 /\ reqKey[r2] = k2
        BY <2>2, <2>3, <2>6
      <3>2. r1 = r2
        BY <1>1, <2>4, <3>1 DEF CarefulInv, OneAttemptAtATime
      <3> QED
        BY <3>1, <3>2
    <2> QED
      BY <2>5, <2>6
  <1>2. Base /\ CarefulInv => OneChargePerGroup
    BY <1>1 DEF OneChargePerGroup
  <1> QED
    BY <1>2, CarefulBooked, Careful, PTL

\* Captured money is never lost: it is booked, or an open journal row names it.
THEOREM NoMoneyLost ==
  ASSUME Careful
  PROVE  Spec => []CapturedIsAccountedFor
  <1>1. CarefulInv => CapturedIsAccountedFor
    BY DEF CarefulInv
  <1> QED
    BY <1>1, CarefulBooked, Careful, PTL

\* A journal row is closed only when its payment was applied or refused, and DONE is answered
\* only for a payment that is applied.
THEOREM RowsCloseSettled ==
  ASSUME Careful
  PROVE  Spec => []ClosedMeansSettled
  <1>1. CarefulInv => ClosedMeansSettled
    BY DEF CarefulInv
  <1> QED
    BY <1>1, CarefulBooked, Careful, PTL

\* An order that left the unpaid statuses without being canceled is paid.
THEOREM AdvancedIsPaid ==
  ASSUME Careful
  PROVE  Spec => []AdvancedMeansPaid
  <1>1. CarefulInv => AdvancedMeansPaid
    BY DEF CarefulInv, StatusFits
  <1> QED
    BY <1>1, CarefulBooked, Careful, PTL

-----------------------------------------------------------------------------
(* The money path implements the ledger *)

\* The parts of LedgerOf.
Bookings(g) == {payKey[o] : o \in GroupOrders(g)}
Taken(g) == {k \in {k \in Keys : prov[k] # "READY"} : KeyGroup[k] = g}
Tried(g) == {k \in {reqKey[r] : r \in open \cap Requests} : KeyGroup[k] = g}

Entry(isPaid, bookings, taken, tried) ==
  IF isPaid THEN [phase |-> "booked", key |-> CHOOSE k \in bookings : TRUE]
  ELSE IF taken # {} THEN [phase |-> "captured", key |-> CHOOSE k \in taken : TRUE]
  ELSE IF tried # {} THEN [phase |-> "trying", key |-> CHOOSE k \in tried : TRUE]
  ELSE [phase |-> "free", key |-> NoKey]

\* The ledger, and the next one, by what it is read from.
LEMMA LedgerEntry ==
  ASSUME NEW g
  PROVE  /\ LedgerOf(g) = Entry(AllPaid(g), Bookings(g), Taken(g), Tried(g))
         /\ LedgerOf(g)' = Entry(AllPaid(g)', Bookings(g)', Taken(g)', Tried(g)')
  BY DEF LedgerOf, Entry, Bookings, Taken, Tried

\* Whether a group is paid is a truth value.
LEMMA PaidIsBoolean == ASSUME NEW g PROVE AllPaid(g) \in BOOLEAN /\ AllPaid(g)' \in BOOLEAN
  BY DEF AllPaid

\* What an entry is when its sets have one member or none, before and after a step.
LEMMA EntryNow ==
  ASSUME NEW g, NEW k
  PROVE  /\ AllPaid(g) /\ Bookings(g) = {k} => LedgerOf(g) = [phase |-> "booked", key |-> k]
         /\ ~ AllPaid(g) /\ Taken(g) = {k} => LedgerOf(g) = [phase |-> "captured", key |-> k]
         /\ ~ AllPaid(g) /\ Taken(g) = {} /\ Tried(g) = {k} =>
              LedgerOf(g) = [phase |-> "trying", key |-> k]
         /\ ~ AllPaid(g) /\ Taken(g) = {} /\ Tried(g) = {} =>
              LedgerOf(g) = [phase |-> "free", key |-> NoKey]
  <1>1. (CHOOSE j \in {k} : TRUE) = k
    OBVIOUS
  <1> DEFINE P == AllPaid(g)
             B == Bookings(g)
             T == Taken(g)
             U == Tried(g)
  <1> DEFINE L == LedgerOf(g)
  <1>2. P \in BOOLEAN /\ L = Entry(P, B, T, U)
    BY LedgerEntry, PaidIsBoolean
  <1> HIDE DEF P, B, T, U, L
  <1>3. /\ P /\ B = {k} => L = [phase |-> "booked", key |-> k]
        /\ ~P /\ T = {k} => L = [phase |-> "captured", key |-> k]
        /\ ~P /\ T = {} /\ U = {k} => L = [phase |-> "trying", key |-> k]
        /\ ~P /\ T = {} /\ U = {} => L = [phase |-> "free", key |-> NoKey]
    BY <1>1, <1>2 DEF Entry
  <1> QED
    BY <1>3 DEF P, B, T, U, L

\* The same of the next state.
LEMMA EntryThen ==
  ASSUME NEW g, NEW k
  PROVE  /\ AllPaid(g)' /\ Bookings(g)' = {k} => LedgerOf(g)' = [phase |-> "booked", key |-> k]
         /\ ~ AllPaid(g)' /\ Taken(g)' = {k} => LedgerOf(g)' = [phase |-> "captured", key |-> k]
         /\ ~ AllPaid(g)' /\ Taken(g)' = {} /\ Tried(g)' = {k} =>
              LedgerOf(g)' = [phase |-> "trying", key |-> k]
         /\ ~ AllPaid(g)' /\ Taken(g)' = {} /\ Tried(g)' = {} =>
              LedgerOf(g)' = [phase |-> "free", key |-> NoKey]
  <1>1. (CHOOSE j \in {k} : TRUE) = k
    OBVIOUS
  <1> DEFINE P == AllPaid(g)'
             B == Bookings(g)'
             T == Taken(g)'
             U == Tried(g)'
  <1> DEFINE L == LedgerOf(g)'
  <1>2. P \in BOOLEAN /\ L = Entry(P, B, T, U)
    BY LedgerEntry, PaidIsBoolean
  <1> HIDE DEF P, B, T, U, L
  <1>3. /\ P /\ B = {k} => L = [phase |-> "booked", key |-> k]
        /\ ~P /\ T = {k} => L = [phase |-> "captured", key |-> k]
        /\ ~P /\ T = {} /\ U = {k} => L = [phase |-> "trying", key |-> k]
        /\ ~P /\ T = {} /\ U = {} => L = [phase |-> "free", key |-> NoKey]
    BY <1>1, <1>2 DEF Entry
  <1> QED
    BY <1>3 DEF P, B, T, U, L

\* The entry of a group that a step does not concern.
LEMMA EntryKept ==
  ASSUME NEW g, AllPaid(g)' = AllPaid(g), AllPaid(g) => Bookings(g)' = Bookings(g),
         Taken(g)' = Taken(g), ~ AllPaid(g) => Tried(g)' = Tried(g)
  PROVE  LedgerOf(g)' = LedgerOf(g)
  <1>1. CASE AllPaid(g)
    BY <1>1, LedgerEntry DEF Entry
  <1>2. CASE ~ AllPaid(g)
    BY <1>2, LedgerEntry DEF Entry
  <1> QED
    BY <1>1, <1>2

\* A step that moves the entry of one group.
LEMMA LedgerMoves ==
  ASSUME NEW g \in Groups, NEW k \in Keys, NEW from, NEW to,
         <<from, to>> \in {<<"free", "trying">>, <<"trying", "free">>,
                           <<"trying", "captured">>, <<"captured", "booked">>},
         KeyGroup[k] = g,
         LedgerOf(g) = [phase |-> from, key |-> IF from = "free" THEN NoKey ELSE k],
         LedgerOf(g)' = [phase |-> to, key |-> IF to = "free" THEN NoKey ELSE k],
         \A h \in Groups : h # g => LedgerOf(h)' = LedgerOf(h)
  PROVE  Ledger!LedgerNext
  <1> DEFINE old == [h \in Groups |-> LedgerOf(h)]
             new == [h \in Groups |-> LedgerOf(h)']
  <1>1. new = [old EXCEPT ![g] = [phase |-> to, key |-> IF to = "free" THEN NoKey ELSE k]]
    OBVIOUS
  <1>2. old[g].phase = from /\ (from # "free" => old[g].key = k)
    OBVIOUS
  <1>3. Ledger!Move(g, from, to, k)
    BY <1>1, <1>2 DEF Ledger!Move
  <1>4. \/ from = "free" /\ to = "trying"
        \/ from = "trying" /\ to = "free"
        \/ from = "trying" /\ to = "captured"
        \/ from = "captured" /\ to = "booked"
    OBVIOUS
  <1> QED
    BY <1>3, <1>4 DEF Ledger!LedgerNext, Ledger!Begin, Ledger!GiveUp, Ledger!Capture, Ledger!Book

\* A lock begins an attempt.
LEMMA PrepareLedger ==
  ASSUME Base, CarefulInv, NEW r \in Requests, NEW k \in Keys, PrepareConfirm(r, k)
  PROVE  Ledger!LedgerNext
  <1> DEFINE g == KeyGroup[k]
  <1>1. g \in Groups /\ ~ AllPaid(g)
    BY GroupHasOrder DEF PrepareConfirm, NonePaid, AllPaid
  <1>2. \A q \in open \cap Requests : KeyGroup[reqKey[q]] # g
    BY DEF PrepareConfirm, HasOpenConfirmIncident, IsConfirm, KeyOf
  <1>3. Tried(g) = {}
    BY <1>2 DEF Tried
  <1>4. Taken(g) = {}
    BY <1>1, <1>2 DEF Taken, CarefulInv, CapturedIsAccountedFor
  <1>5. /\ reqKey'[r] = k /\ \A q \in Requests : q # r => reqKey'[q] = reqKey[q]
        /\ open' = open \union {r} /\ prov' = prov /\ paid' = paid /\ r \notin open
        /\ \A o \in Orders : o \notin GroupOrders(g) => payKey'[o] = payKey[o]
    BY DEF PrepareConfirm, Base, RowHasRequest, TypeOK, RequestsTypeOK
  <1>6. \A h : AllPaid(h)' = AllPaid(h) /\ Taken(h)' = Taken(h)
    BY <1>5 DEF AllPaid, Taken
  <1>7. Tried(g)' = {k}
    BY <1>2, <1>5 DEF Tried
  <1>8. ASSUME NEW h \in Groups, h # g PROVE LedgerOf(h)' = LedgerOf(h)
    <2>1. Tried(h)' = Tried(h)
      BY <1>5, <1>8 DEF Tried
    <2>2. Bookings(h)' = Bookings(h)
      BY <1>5, <1>8 DEF Bookings, GroupOrders
    <2> QED
      BY <1>6, <2>1, <2>2, EntryKept
  <1>9. LedgerOf(g) = [phase |-> "free", key |-> NoKey]
    BY <1>1, <1>3, <1>4, EntryNow
  <1>10. LedgerOf(g)' = [phase |-> "trying", key |-> k]
    BY <1>1, <1>4, <1>6, <1>7, EntryThen
  <1> QED
    BY <1>1, <1>8, <1>9, <1>10, LedgerMoves

\* The state of an attempt before its payment is charged.
LEMMA TryingEntry ==
  ASSUME Base, CarefulInv, NEW r \in Requests, Active(r), prov[reqKey[r]] = "READY"
  PROVE  /\ reqKey[r] \in Keys /\ r \in open /\ ~ AllPaid(KeyGroup[reqKey[r]])
         /\ Taken(KeyGroup[reqKey[r]]) = {} /\ Tried(KeyGroup[reqKey[r]]) = {reqKey[r]}
         /\ \A q \in open \cap Requests : KeyGroup[reqKey[q]] = KeyGroup[reqKey[r]] => q = r
  <1> DEFINE k == reqKey[r]
             g == KeyGroup[reqKey[r]]
  <1>1. k \in Keys
    BY ActiveKey
  <1>2. ~ AllPaid(g)
    <2> SUFFICES ASSUME AllPaid(g) PROVE FALSE
      OBVIOUS
    <2>1. PICK o \in Orders : o \in GroupOrders(g)
      BY <1>1, GroupHasOrder
    <2>2. paid[o] /\ payKey[o] = k
      BY <2>1 DEF AllPaid, CarefulInv, AttemptsKnown
    <2> QED
      BY <2>1, <2>2 DEF Base, BookInv, PaidOK, Captured
  <1>3. r \in open
    BY <1>2 DEF CarefulInv, AttemptsKnown
  <1>4. \A q \in open \cap Requests : KeyGroup[reqKey[q]] = g => q = r
    BY DEF CarefulInv, OneAttemptAtATime, Active
  <1>5. Taken(g) = {}
    BY <1>2, <1>4 DEF Taken, CarefulInv, CapturedIsAccountedFor
  <1>6. Tried(g) = {k}
    BY <1>3, <1>4 DEF Tried
  <1> QED
    BY <1>1, <1>2, <1>3, <1>4, <1>5, <1>6

\* Toss charges an attempt, or does not.
LEMMA TossLedger ==
  ASSUME Base, CarefulInv, NEW r \in Requests, TossHandles(r)
  PROVE  Ledger!LedgerNext \/ UNCHANGED [g \in Groups |-> LedgerOf(g)]
  <1>0. PICK k, g : k = reqKey[r] /\ g = KeyGroup[reqKey[r]]
    OBVIOUS
  <1>1. Active(r) /\ prov[k] = "READY"
    BY <1>0 DEF TossHandles, Active, CarefulInv, CallsFresh
  <1>2. k \in Keys /\ ~ AllPaid(g) /\ Taken(g) = {} /\ Tried(g) = {k}
    BY <1>0, <1>1, TryingEntry
  <1>3. UNCHANGED <<paid, payKey, open, reqKey>>
    BY DEF TossHandles, orderVars, queueVars
  <1>4. \A h : /\ AllPaid(h)' = AllPaid(h) /\ Bookings(h)' = Bookings(h) /\ Tried(h)' = Tried(h)
    BY <1>3 DEF AllPaid, Bookings, Tried
  <1>5. CASE prov' = prov
    <2>1. \A h \in Groups : LedgerOf(h)' = LedgerOf(h)
      BY <1>4, <1>5, EntryKept DEF Taken
    <2> QED
      BY <2>1
  <1>6. CASE prov' = [prov EXCEPT ![k] = "DONE"]
    <2>1. prov'[k] = "DONE" /\ \A j \in Keys : j # k => prov'[j] = prov[j]
      BY <1>2, <1>6 DEF Base, TypeOK, TossTypeOK
    <2>2. Taken(g)' = {k}
      BY <1>0, <1>2, <2>1 DEF Taken
    <2>3. ASSUME NEW h \in Groups, h # g PROVE LedgerOf(h)' = LedgerOf(h)
      <3>1. Taken(h)' = Taken(h)
        BY <1>0, <1>2, <2>1, <2>3 DEF Taken
      <3> QED
        BY <1>4, <3>1, EntryKept
    <2>4. LedgerOf(g) = [phase |-> "trying", key |-> k]
      BY <1>2, EntryNow
    <2>5. LedgerOf(g)' = [phase |-> "captured", key |-> k]
      BY <1>2, <1>4, <2>2, EntryThen
    <2> QED
      BY <1>0, <1>2, <2>3, <2>4, <2>5, GroupHasOrder, LedgerMoves
  <1> QED
    BY <1>0, <1>5, <1>6 DEF TossHandles

\* A refused attempt is given up.
LEMMA RejectLedger ==
  ASSUME Base, CarefulInv, Final, NEW r \in Requests, ProviderRejected(r)
  PROVE  Ledger!LedgerNext
  <1>0. PICK k, g : k = reqKey[r] /\ g = KeyGroup[reqKey[r]]
    OBVIOUS
  <1>1. /\ open' = open \ {r} /\ UNCHANGED <<paid, prov, reqKey>>
        /\ pc[r] = "calling" /\ wire[r] = "rejected"
    BY DEF ProviderRejected, CloseJournal
  <1>2. Active(r) /\ prov[k] = "READY"
    BY <1>0, <1>1 DEF Active, CarefulInv, CallsFresh
  <1>3. /\ k \in Keys /\ ~ AllPaid(g) /\ Taken(g) = {} /\ Tried(g) = {k}
        /\ \A q \in open \cap Requests : KeyGroup[reqKey[q]] = g => q = r
    BY <1>0, <1>2, TryingEntry
  <1>4. \A h : AllPaid(h)' = AllPaid(h) /\ Taken(h)' = Taken(h)
    BY <1>1 DEF AllPaid, Taken
  <1>5. Tried(g)' = {}
    BY <1>0, <1>1, <1>3 DEF Tried
  <1>6. ASSUME NEW h \in Groups, h # g PROVE LedgerOf(h)' = LedgerOf(h)
    <2>1. Tried(h)' = Tried(h)
      BY <1>0, <1>1, <1>6 DEF Tried
    <2>2. AllPaid(h) => Bookings(h)' = Bookings(h)
      BY DEF Bookings, AllPaid, GroupOrders, Final
    <2> QED
      BY <1>4, <2>1, <2>2, EntryKept
  <1>7. LedgerOf(g) = [phase |-> "trying", key |-> k]
    BY <1>3, EntryNow
  <1>8. LedgerOf(g)' = [phase |-> "free", key |-> NoKey]
    BY <1>3, <1>4, <1>5, EntryThen
  <1> QED
    BY <1>0, <1>3, <1>6, <1>7, <1>8, GroupHasOrder, LedgerMoves

\* The journal rows of an unpaid group, in a step that ends none of its attempts.
LEMMA TriedKept ==
  ASSUME Base, CarefulInv, Quiet, NEW g, ~ AllPaid(g),
         \A q \in open \cap Requests : KeyGroup[reqKey[q]] = g => ~ Ended(q)
  PROVE  Tried(g)' = Tried(g)
  <1>1. \A q \in open' \cap Requests : KeyGroup[reqKey'[q]] = g =>
          q \in open /\ reqKey'[q] = reqKey[q]
    <2> SUFFICES ASSUME NEW q \in open' \cap Requests, KeyGroup[reqKey'[q]] = g
                 PROVE  q \in open /\ reqKey'[q] = reqKey[q]
      OBVIOUS
    <2>1. Active(q)'
      BY DEF Active
    <2>2. Active(q) /\ reqKey'[q] = reqKey[q]
      BY <2>1, QuietKeeps
    <2> QED
      BY <2>2 DEF CarefulInv, AttemptsKnown
  <1>2. \A q \in open \cap Requests : KeyGroup[reqKey[q]] = g =>
          q \in open' /\ reqKey'[q] = reqKey[q]
    BY DEF Ended, Quiet, Base, RowHasRequest
  <1> QED
    BY <1>1, <1>2 DEF Tried

\* A captured payment is booked.
LEMMA BooksLedger ==
  ASSUME Base, CarefulInv, Final, NEW k, Books(k)
  PROVE  Ledger!LedgerNext
  <1> DEFINE g == KeyGroup[k]
  <1>1. k \in Keys /\ prov[k] # "READY" /\ g \in Groups /\ Quiet
        /\ \A q \in Requests : Ended(q) => pc[q] # "idle" /\ reqKey[q] = k
    BY GroupHasOrder DEF Books, Captured
  <1>2. PICK first \in Orders : first \in GroupOrders(g)
    BY <1>1, GroupHasOrder
  <1>3. \A o \in GroupOrders(g) : ~ paid[o]
    BY DEF Books, ApplyConfirmation, AllIn, GroupOrders, Base, BookInv, PaidOK
  <1>4. /\ \A o \in GroupOrders(g) : paid'[o] /\ payKey'[o] = k
        /\ \A o \in Orders : o \notin GroupOrders(g) => paid'[o] = paid[o] /\ payKey'[o] = payKey[o]
    BY DEF Books, ApplyConfirmation, GroupOrders, Base, TypeOK, OrdersTypeOK
  <1>5. ~ AllPaid(g) /\ AllPaid(g)' /\ Bookings(g)' = {k}
    BY <1>2, <1>3, <1>4 DEF AllPaid, Bookings, GroupOrders
  <1>6. PICK own \in open \cap Requests : reqKey[own] = k
    BY <1>1, <1>5 DEF CarefulInv, CapturedIsAccountedFor
  <1>7. \A q \in open \cap Requests : KeyGroup[reqKey[q]] = g => q = own
    BY <1>6 DEF CarefulInv, OneAttemptAtATime, Active
  <1>8. Taken(g) = {k}
    <2>1. \A j \in Taken(g) : j = k
      BY <1>5, <1>6, <1>7 DEF Taken, CarefulInv, CapturedIsAccountedFor
    <2>2. k \in Taken(g)
      BY <1>1 DEF Taken
    <2> QED
      BY <2>1, <2>2
  <1>9. ASSUME NEW h \in Groups, h # g PROVE LedgerOf(h)' = LedgerOf(h)
    <2>1. AllPaid(h)' = AllPaid(h) /\ Bookings(h)' = Bookings(h)
      BY <1>4, <1>9 DEF AllPaid, Bookings, GroupOrders
    <2>2. Taken(h)' = Taken(h)
      BY <1>1 DEF Taken, Quiet
    <2>3. ~ AllPaid(h) => Tried(h)' = Tried(h)
      BY <1>1, <1>9, TriedKept
    <2> QED
      BY <2>1, <2>2, <2>3, EntryKept
  <1>10. LedgerOf(g) = [phase |-> "captured", key |-> k]
    BY <1>5, <1>8, EntryNow
  <1>11. LedgerOf(g)' = [phase |-> "booked", key |-> k]
    BY <1>5, EntryThen
  <1> QED
    BY <1>1, <1>9, <1>10, <1>11, LedgerMoves

\* Any other step leaves the ledger alone.
LEMMA SettlesLedger ==
  ASSUME Base, CarefulInv, Final, Settles
  PROVE  UNCHANGED [g \in Groups |-> LedgerOf(g)]
  <1>1. ASSUME NEW g \in Groups PROVE LedgerOf(g)' = LedgerOf(g)
    <2>1. AllPaid(g)' = AllPaid(g)
      BY DEF Settles, AllPaid
    <2>2. AllPaid(g) => Bookings(g)' = Bookings(g)
      BY DEF Bookings, AllPaid, GroupOrders, Final
    <2>3. Taken(g)' = Taken(g)
      BY DEF Taken, Settles, Quiet
    <2>4. ASSUME ~ AllPaid(g) PROVE Tried(g)' = Tried(g)
      <3>1. \A q \in open \cap Requests : KeyGroup[reqKey[q]] = g => ~ Ended(q)
        BY <2>4 DEF Settles, Quiet, Base, RowHasRequest
      <3> QED
        BY <2>4, <3>1, TriedKept DEF Settles
    <2> QED
      BY <2>1, <2>2, <2>3, <2>4, EntryKept
  <1> QED
    BY <1>1

\* At first every group is free.
LEMMA LedgerFirst == Init => Ledger!LedgerInit
  <1> SUFFICES ASSUME Init PROVE Ledger!LedgerInit
    OBVIOUS
  <1>1. ASSUME NEW g \in Groups PROVE LedgerOf(g) = [phase |-> "free", key |-> NoKey]
    <2>1. ~ AllPaid(g)
      BY PaymentAssumption DEF Init, AllPaid, GroupOrders
    <2>2. Taken(g) = {} /\ Tried(g) = {}
      BY DEF Init, Taken, Tried
    <2> QED
      BY <2>1, <2>2, EntryNow
  <1> QED
    BY <1>1 DEF Ledger!LedgerInit

\* Every step is one of the ledger, or leaves it alone.
LEMMA LedgerStep ==
  ASSUME Base, CarefulInv, Careful, Final, [Next]_vars
  PROVE  Ledger!LedgerNext \/ UNCHANGED [g \in Groups |-> LedgerOf(g)]
  BY KindOfStep, PrepareLedger, TossLedger, RejectLedger, BooksLedger, SettlesLedger DEF StepKinds

\* The money path implements the ledger: each group is paid by one attempt at a time, no charge
\* is made outside an attempt, none is given up after its charge, and each is booked once.
THEOREM LedgerImplemented ==
  ASSUME Careful
  PROVE  Spec => ImplementsLedger
  <1>1. Base /\ CarefulInv /\ Base' /\ [Next]_vars
          => [Ledger!LedgerNext]_([g \in Groups |-> LedgerOf(g)])
    <2> SUFFICES ASSUME Base, CarefulInv, [Next]_vars
                 PROVE  Ledger!LedgerNext \/ UNCHANGED [g \in Groups |-> LedgerOf(g)]
      OBVIOUS
    <2>1. Final
      BY BookNext DEF Base
    <2> QED
      BY <2>1, Careful, LedgerStep
  <1>2. Init => Ledger!LedgerInit
    BY LedgerFirst
  <1> QED
    BY <1>1, <1>2, CarefulBooked, Careful, PTL DEF Spec, ImplementsLedger, Ledger!LedgerSpec

-----------------------------------------------------------------------------
(* Cancellations *)

\* What a step does to orders: the ones it cancels are unpaid, or have a payment.
Cancels ==
  /\ paid' = paid /\ arrivedFrom' = arrivedFrom
  /\ \A o \in Orders :
       \/ status'[o] = status[o] /\ payKey'[o] = payKey[o]
       \/ /\ status'[o] = "canceled"
          /\ status[o] \in {"pending", "paying", "canceled"} \/ payKey[o] # NoKey

OrderStep ==
  \/ Cancels
  \/ \E g \in Groups : CreateOrder(g)
  \/ \E r \in Requests, k \in Keys : PrepareConfirm(r, k)
  \/ \E r \in Requests : ProviderRejected(r)
  \/ \E g, k : ApplyConfirmation(g, k)
  \/ \E o \in Orders : SubmitRepair(o)
  \/ \E o \in Orders, new \in OrderStatuses, isRollback \in BOOLEAN :
       AdminUpdateStatus(o, new, isRollback)

\* No step does anything else to orders.
LEMMA OrderSteps ==
  ASSUME TypeOK, [Next]_vars
  PROVE  OrderStep
  <1>1. CASE UNCHANGED orderVars
    BY <1>1 DEF OrderStep, Cancels, orderVars
  <1>2. CASE CustomerStep
    BY <1>1, <1>2 DEF CustomerStep, ConfirmAgain, OrderStep
  <1>3. ASSUME NEW r \in Requests, ConfirmStep(r) \/ Crash(r) PROVE OrderStep
    <2>1. CASE ConfirmApplies(r) \/ ConfirmFailedAfterCommit(r)
      BY <2>1 DEF ConfirmApplies, ConfirmFailedAfterCommit, OrderStep
    <2>2. CASE ProviderRejected(r)
      BY <2>2 DEF OrderStep
    <2> QED
      BY <1>1, <1>3, <2>1, <2>2 DEF ConfirmStep, Crash, ConfirmOutcomeUnknown,
         ProviderResponseUncertain, RecoveryFailed, ConfirmRefused, ConfirmDbFailed, EndUnsure,
         ProviderApproved, AlreadyProcessed, RecoveryVerified, ConfirmAlreadyApplied
  <1>4. ASSUME NEW h \in Hooks, WebhookStep(h) PROVE OrderStep
    <2>1. CASE WebhookConfirms(h)
      BY <2>1 DEF WebhookConfirms, OrderStep
    <2>2. CASE WebhookCancels(h)
      <3>1. hook[h].key # NoKey
        BY <2>2, HookSeen, HookKey, PaymentAssumption DEF WebhookCancels, TypeOK
      <3>2. \A o \in GroupOrders(KeyGroup[hook[h].key]) : payKey[o] # NoKey
        BY <2>2, <3>1 DEF WebhookCancels, AllKeyed
      <3> QED
        BY <2>2, <3>2 DEF WebhookCancels, SetStatus, OrderStep, Cancels
    <2> QED
      BY <1>1, <1>4, <2>1, <2>2 DEF WebhookStep, WebhookDoneMismatch, WebhookPartialCanceled,
         WebhookCancelMismatch, RecordWebhookIncident, WebhookEnds
  <1>5. ASSUME NEW v \in Reviews, ReviewStep(v) PROVE OrderStep
    <2>1. CASE ReviewConfirms(v)
      BY <1>1, <2>1 DEF ReviewConfirms, OrderStep
    <2>2. CASE ReviewCancels(v)
      BY <1>1, <2>2 DEF ReviewCancels, SetStatus, AllIn, OrderStep, Cancels, orderVars
    <2> QED
      BY <1>1, <1>5, <2>1, <2>2 DEF ReviewStep, ReviewCompares, ReviewMismatch, ReviewRecords,
         ReviewDies
  <1>6. CASE \E S \in SUBSET Orders : CancelStaleOrders(S)
    BY <1>6 DEF CancelStaleOrders, SetStatus, OrderStep, Cancels
  <1>7. CASE OperatorStep
    <2>1. CASE \E o \in Orders, new \in OrderStatuses, isRollback \in BOOLEAN :
                 AdminUpdateStatus(o, new, isRollback)
      BY <2>1 DEF OrderStep
    <2> QED
      BY <1>1, <1>5, <1>7, <2>1 DEF OperatorStep, ReviewLookup, EvidenceExpires, ResolveIncident
  <1> QED
    BY <1>1, <1>2, <1>3, <1>4, <1>5, <1>6, <1>7 DEF Next, TossHandles, DashboardCancels,
       HookLookup, vars

\* A canceled order stays canceled, and is not paid afterwards.
LEMMA CanceledIsFinal ==
  ASSUME TypeOK, [Next]_vars, NEW o \in Orders, status[o] = "canceled"
  PROVE  status'[o] = "canceled" /\ (paid'[o] => paid[o])
  <1>1. CASE Cancels
    BY <1>1 DEF Cancels
  <1>2. CASE \E g \in Groups : CreateOrder(g)
    BY <1>2 DEF CreateOrder, SetStatus
  <1>3. CASE \E r \in Requests, k \in Keys : PrepareConfirm(r, k)
    BY <1>3 DEF PrepareConfirm, SetStatus
  <1>4. CASE \E r \in Requests : ProviderRejected(r)
    BY <1>4 DEF ProviderRejected, SetStatus
  <1>5. CASE \E g, k : ApplyConfirmation(g, k)
    BY <1>5 DEF ApplyConfirmation, AllIn, GroupOrders
  <1>6. ASSUME NEW p \in Orders, SubmitRepair(p) PROVE status'[o] = "canceled" /\ paid'[o] = paid[o]
    BY <1>6 DEF SubmitRepair, TypeOK, OrdersTypeOK
  <1>7. ASSUME NEW p \in Orders, NEW new \in OrderStatuses, NEW isRollback \in BOOLEAN,
               AdminUpdateStatus(p, new, isRollback)
        PROVE  status'[o] = "canceled" /\ paid'[o] = paid[o]
    <2>1. p # o
      BY <1>7, CanceledStays, PaymentAssumption DEF AdminUpdateStatus
    <2> QED
      BY <1>7, <2>1 DEF AdminUpdateStatus, TypeOK, OrdersTypeOK
  <1> QED
    BY <1>1, <1>2, <1>3, <1>4, <1>5, <1>6, <1>7, OrderSteps DEF OrderStep

\* So does a canceled payment at Toss.
LEMMA ProvCanceledIsFinal ==
  ASSUME TypeOK, BookInv, [Next]_vars, NEW k \in Keys, prov[k] = "CANCELED"
  PROVE  prov'[k] = "CANCELED"
  <1>1. CASE UNCHANGED prov
    BY <1>1
  <1>2. ASSUME NEW r \in Requests, TossHandles(r) PROVE prov'[k] = "CANCELED"
    BY <1>2 DEF TossHandles, TypeOK, TossTypeOK
  <1>3. ASSUME NEW j \in Keys, DashboardCancels(j) PROVE prov'[k] = "CANCELED"
    BY <1>3 DEF DashboardCancels, TypeOK, TossTypeOK
  <1>4. CASE CustomerStep
    BY <1>1, <1>4 DEF CustomerStep, CreateOrder, ConfirmAgain, PrepareConfirm, SubmitRepair
  <1>5. CASE \E r \in Requests : ConfirmStep(r) \/ Crash(r)
    BY <1>1, <1>5 DEF ConfirmStep, Crash, ConfirmOutcomeUnknown, ProviderResponseUncertain,
       RecoveryFailed, ConfirmRefused, ConfirmDbFailed, EndUnsure, ProviderRejected,
       ProviderApproved, AlreadyProcessed, RecoveryVerified, ConfirmAlreadyApplied,
       ConfirmApplies, ConfirmFailedAfterCommit
  <1>6. CASE \E h \in Hooks : WebhookStep(h)
    BY <1>1, <1>6 DEF WebhookStep, WebhookDoneMismatch, WebhookPartialCanceled,
       WebhookCancelMismatch, RecordWebhookIncident, WebhookConfirms, WebhookCancels, WebhookEnds
  <1>7. CASE OperatorStep
    BY <1>1, <1>7 DEF OperatorStep, AdminUpdateStatus, ReviewLookup, ReviewStep, ReviewConfirms,
       ReviewCancels, ReviewCompares, ReviewMismatch, ReviewRecords, ReviewDies, EvidenceExpires,
       ResolveIncident
  <1> QED
    BY <1>1, <1>2, <1>3, <1>4, <1>5, <1>6, <1>7 DEF Next, HookLookup, CancelStaleOrders, vars

\* A row about a wrong amount.
Mismatch(x) == x \notin Requests /\ x.type = "amount_mismatch"

\* What deliveries and reviews saw canceled is canceled.
OddHooks == \A h \in Hooks : hook[h].seen = "CANCELED" => prov[hook[h].key] = "CANCELED"

OddReviews ==
  \A v \in Reviews : review[v] # IdleReview /\ Mismatch(review[v].item) =>
    /\ review[v].item.key \in Keys
    /\ review[v].seen = "CANCELED" => prov[review[v].item.key] = "CANCELED"
    /\ review[v].step = "ok" => prov[review[v].item.key] = "CANCELED"

\* Rows about a wrong amount are about one, and their evidence is that it went back.
OddRows == \A x \in open \union resolved : Mismatch(x) => x.key \in OddKeys
OddEvidence == \A x \in evidence : Mismatch(x) => prov[x.key] = "CANCELED"

OddInv == OddHooks /\ OddReviews /\ OddRows /\ OddEvidence /\ OddMoneyReturned

\* At first nothing was recorded.
LEMMA OddInit == Init => OddInv
  BY DEF Init, OddInv, OddHooks, OddReviews, OddRows, OddEvidence, OddMoneyReturned, IdleHook,
     IdleReview

\* The parts of a state that a step leaves alone.
HooksRest   == \A h \in Hooks : hook'[h] \in {hook[h], IdleHook}
ReviewsRest == \A v \in Reviews : review'[v] \in {review[v], IdleReview}
QueueRests  == /\ open' \subseteq open \union Requests
               /\ resolved' \subseteq resolved \union Requests

\* A row about a wrong amount has a key.
LEMMA MismatchKey ==
  ASSUME TypeOK, NEW x \in open \union resolved \union evidence, Mismatch(x)
  PROVE  x \in Incident /\ x.key \in Keys
  BY DEF TypeOK, QueueTypeOK, Items, Incident, Mismatch

\* Deliveries that begin nothing keep what they saw.
LEMMA OddHooksKept ==
  ASSUME TypeOK, BookInv, [Next]_vars, OddHooks, HooksRest
  PROVE  OddHooks'
  <1>1. \A h \in Hooks : hook[h].seen = "CANCELED" => hook[h].key \in Keys
    BY HookSeen, HookKey DEF TypeOK
  <1> QED
    BY <1>1, ProvCanceledIsFinal DEF OddHooks, HooksRest, IdleHook

\* So do reviews.
LEMMA OddReviewsKept ==
  ASSUME TypeOK, BookInv, [Next]_vars, OddReviews, ReviewsRest
  PROVE  OddReviews'
  <1> SUFFICES ASSUME NEW v \in Reviews, review'[v] # IdleReview, Mismatch(review'[v].item)
               PROVE  /\ review'[v].item.key \in Keys
                      /\ review'[v].seen = "CANCELED" => prov'[review'[v].item.key] = "CANCELED"
                      /\ review'[v].step = "ok" => prov'[review'[v].item.key] = "CANCELED"
    BY DEF OddReviews, IdleReview, Mismatch
  <1>1. review'[v] = review[v]
    BY DEF ReviewsRest
  <1> QED
    BY <1>1, ProvCanceledIsFinal DEF OddReviews

\* Rows that stay keep what they say, and what went back stays there.
LEMMA OddQueueKept ==
  ASSUME TypeOK, BookInv, [Next]_vars, OddInv, QueueRests
  PROVE  OddRows' /\ OddMoneyReturned'
  <1>1. OddRows'
    BY DEF OddInv, OddRows, QueueRests, Mismatch
  <1>2. ASSUME NEW x \in resolved' \ Requests, x.type = "amount_mismatch"
        PROVE  /\ prov'[x.key] = "CANCELED"
               /\ \A o \in GroupOrders(KeyGroup[x.key]) : status'[o] = "canceled" /\ ~paid'[o]
    <2>1. x \in resolved /\ Mismatch(x) /\ x.key \in Keys
      BY <1>2, MismatchKey DEF QueueRests, Mismatch
    <2>2. prov[x.key] = "CANCELED" /\ AllIn(KeyGroup[x.key], {"canceled"})
          /\ NonePaid(KeyGroup[x.key])
      BY <1>2, <2>1 DEF OddInv, OddMoneyReturned
    <2>3. \A o \in GroupOrders(KeyGroup[x.key]) : status'[o] = "canceled" /\ ~paid'[o]
      BY <2>2, CanceledIsFinal DEF AllIn, NonePaid, GroupOrders
    <2> QED
      BY <2>1, <2>2, <2>3, ProvCanceledIsFinal
  <1>3. OddMoneyReturned'
    BY <1>2 DEF OddMoneyReturned, AllIn, NonePaid, GroupOrders
  <1> QED
    BY <1>1, <1>3

\* Evidence that stays keeps its meaning.
LEMMA OddEvidenceKept ==
  ASSUME TypeOK, BookInv, [Next]_vars, OddEvidence, evidence' \subseteq evidence
  PROVE  OddEvidence'
  BY MismatchKey, ProvCanceledIsFinal DEF OddEvidence, Mismatch

\* A step that touches none of them.
LEMMA OddKept ==
  ASSUME TypeOK, BookInv, [Next]_vars, OddInv, HooksRest, ReviewsRest, QueueRests,
         evidence' \subseteq evidence
  PROVE  OddInv'
  BY OddHooksKept, OddReviewsKept, OddQueueKept, OddEvidenceKept DEF OddInv

\* A webhook's row about a wrong amount is about one.
LEMMA OddRecord ==
  ASSUME TypeOK, BookInv, [Next]_vars, OddInv, NEW h \in Hooks, NEW type, NEW reason,
         RecordWebhookIncident(h, type, reason), type = "amount_mismatch" => hook[h].key \in OddKeys
  PROVE  OddInv'
  <1> DEFINE x == [type |-> type, reason |-> reason, seen |-> hook[h].seen, key |-> hook[h].key]
  <1>1. HooksRest /\ ReviewsRest
    BY DEF RecordWebhookIncident, Handled, HooksRest, ReviewsRest, TypeOK, HooksTypeOK
  <1>2. evidence' \subseteq evidence
    BY DEF RecordWebhookIncident, queueVars
  <1>3. CASE UNCHANGED queueVars
    BY <1>1, <1>2, <1>3, OddKept DEF QueueRests, queueVars
  <1>4. CASE open' = open \union {x} /\ resolved' = resolved \ {x}
    <2>1. Mismatch(x) => x.key \in OddKeys
      BY DEF Mismatch
    <2>2. OddRows'
      BY <1>4, <2>1 DEF OddInv, OddRows, Mismatch
    <2>3. ASSUME NEW y \in resolved' \ Requests, y.type = "amount_mismatch"
          PROVE  /\ prov'[y.key] = "CANCELED"
                 /\ \A o \in GroupOrders(KeyGroup[y.key]) : status'[o] = "canceled" /\ ~paid'[o]
      <3>1. y \in resolved /\ Mismatch(y) /\ y.key \in Keys
        BY <1>4, <2>3, MismatchKey DEF Mismatch
      <3>2. prov[y.key] = "CANCELED" /\ AllIn(KeyGroup[y.key], {"canceled"})
            /\ NonePaid(KeyGroup[y.key])
        BY <2>3, <3>1 DEF OddInv, OddMoneyReturned
      <3>3. \A o \in GroupOrders(KeyGroup[y.key]) : status'[o] = "canceled" /\ ~paid'[o]
        BY <3>2, CanceledIsFinal DEF AllIn, NonePaid, GroupOrders
      <3> QED
        BY <3>1, <3>2, <3>3, ProvCanceledIsFinal
    <2>4. OddMoneyReturned'
      BY <2>3 DEF OddMoneyReturned, AllIn, NonePaid, GroupOrders
    <2> QED
      BY <1>1, <1>2, <2>2, <2>4, OddHooksKept, OddReviewsKept, OddEvidenceKept DEF OddInv
  <1> QED
    BY <1>3, <1>4 DEF RecordWebhookIncident

\* Webhooks keep the invariant.
LEMMA OddWebhook ==
  ASSUME TypeOK, BookInv, [Next]_vars, OddInv, NEW h \in Hooks, WebhookStep(h)
  PROVE  OddInv'
  <1>1. CASE WebhookDoneMismatch(h)
    BY <1>1, OddRecord DEF WebhookDoneMismatch
  <1>2. CASE WebhookPartialCanceled(h)
    BY <1>2, OddRecord DEF WebhookPartialCanceled
  <1>3. CASE WebhookCancelMismatch(h)
    BY <1>3, OddRecord DEF WebhookCancelMismatch
  <1>4. CASE WebhookConfirms(h) \/ WebhookCancels(h) \/ WebhookEnds(h)
    BY <1>4, OddKept DEF WebhookConfirms, WebhookCancels, WebhookEnds, Handled, HooksRest,
       ReviewsRest, QueueRests, queueVars, TypeOK, HooksTypeOK
  <1> QED
    BY <1>1, <1>2, <1>3, <1>4 DEF WebhookStep

\* A step of a review that judges its row: "ok" about a wrong amount needs the answer CANCELED.
LEMMA OddReviewed ==
  ASSUME TypeOK, BookInv, [Next]_vars, OddInv, NEW v \in Reviews, NEW ok, Reviewed(v, ok),
         review[v].step = "looked", ok => ProviderMatches(v), UNCHANGED <<hook, queueVars>>
  PROVE  OddInv'
  <1>1. HooksRest /\ QueueRests /\ evidence' \subseteq evidence
    BY DEF HooksRest, QueueRests, queueVars
  <1>2. review[v] # IdleReview
    BY DEF IdleReview
  <1>3. /\ \A u \in Reviews \ {v} : review'[u] = review[u]
        /\ review'[v].item = review[v].item
        /\ review'[v].seen = review[v].seen
        /\ review'[v].step = "ok" => ok
    BY <1>2 DEF Reviewed, TypeOK, ReviewsTypeOK
  <1>4. Mismatch(review[v].item) /\ ok => review[v].seen = "CANCELED"
    BY DEF ProviderMatches, ExpectedProviderStatuses, IsConfirm, Mismatch
  <1>5. OddReviews'
    <2> SUFFICES ASSUME NEW u \in Reviews, review'[u] # IdleReview, Mismatch(review'[u].item)
                 PROVE  /\ review'[u].item.key \in Keys
                        /\ review'[u].seen = "CANCELED" => prov'[review'[u].item.key] = "CANCELED"
                        /\ review'[u].step = "ok" => prov'[review'[u].item.key] = "CANCELED"
      BY DEF OddReviews, IdleReview, Mismatch
    <2>1. CASE u # v
      BY <1>3, <2>1, ProvCanceledIsFinal DEF OddInv, OddReviews
    <2>2. CASE u = v
      BY <1>2, <1>3, <1>4, <2>2, ProvCanceledIsFinal DEF OddInv, OddReviews
    <2> QED
      BY <2>1, <2>2
  <1> QED
    BY <1>1, <1>5, OddHooksKept, OddQueueKept, OddEvidenceKept DEF OddInv

\* So do the steps of a review.
LEMMA OddReview ==
  ASSUME TypeOK, BookInv, [Next]_vars, OddInv, NEW v \in Reviews, ReviewStep(v)
  PROVE  OddInv'
  <1>1. CASE ReviewConfirms(v)
    BY <1>1, OddReviewed DEF ReviewConfirms
  <1>2. CASE ReviewCancels(v)
    BY <1>2, OddReviewed DEF ReviewCancels
  <1>3. CASE ReviewCompares(v)
    BY <1>3, OddReviewed DEF ReviewCompares
  <1>4. CASE ReviewMismatch(v)
    BY <1>4, OddReviewed DEF ReviewMismatch
  <1>5. CASE ReviewRecords(v)
    <2>1. HooksRest /\ ReviewsRest /\ QueueRests
      BY <1>5 DEF ReviewRecords, HooksRest, ReviewsRest, QueueRests, TypeOK, ReviewsTypeOK
    <2>2. OddEvidence'
      <3>1. review[v] # IdleReview
        BY <1>5 DEF ReviewRecords, IdleReview
      <3>2. ASSUME NEW x \in evidence', Mismatch(x) PROVE prov'[x.key] = "CANCELED"
        <4>1. CASE x \in evidence
          BY <3>2, <4>1, MismatchKey, ProvCanceledIsFinal DEF OddInv, OddEvidence
        <4>2. CASE x = review[v].item /\ review[v].step = "ok"
          BY <3>1, <3>2, <4>2, ProvCanceledIsFinal DEF OddInv, OddReviews
        <4> QED
          BY <1>5, <4>1, <4>2 DEF ReviewRecords
      <3> QED
        BY <3>2 DEF OddEvidence, Mismatch
    <2> QED
      BY <2>1, <2>2, OddHooksKept, OddReviewsKept, OddQueueKept DEF OddInv
  <1>6. CASE ReviewDies(v)
    BY <1>6, OddKept DEF ReviewDies, HooksRest, ReviewsRest, QueueRests, queueVars, TypeOK,
       ReviewsTypeOK
  <1> QED
    BY <1>1, <1>2, <1>3, <1>4, <1>5, <1>6 DEF ReviewStep

\* A lookup saw what the payment is.
LEMMA OddLookup ==
  ASSUME TypeOK, BookInv, [Next]_vars, OddInv, NEW v \in Reviews, NEW x \in open, ReviewLookup(v, x)
  PROVE  OddInv'
  <1>1. HooksRest /\ QueueRests /\ evidence' \subseteq evidence /\ prov' = prov
    BY DEF ReviewLookup, HooksRest, QueueRests, queueVars
  <1>2. /\ \A u \in Reviews \ {v} : review'[u] = review[u]
        /\ review'[v].item = x
        /\ review'[v].seen \in {prov[KeyOf(x)], "error"}
        /\ review'[v].step = "looked"
    BY DEF ReviewLookup, TypeOK, ReviewsTypeOK
  <1>3. OddReviews'
    <2> SUFFICES ASSUME NEW u \in Reviews, review'[u] # IdleReview, Mismatch(review'[u].item)
                 PROVE  /\ review'[u].item.key \in Keys
                        /\ review'[u].seen = "CANCELED" => prov'[review'[u].item.key] = "CANCELED"
                        /\ review'[u].step = "ok" => prov'[review'[u].item.key] = "CANCELED"
      BY DEF OddReviews, IdleReview, Mismatch
    <2>1. CASE u # v
      BY <1>1, <1>2, <2>1 DEF OddInv, OddReviews
    <2>2. CASE u = v
      BY <1>1, <1>2, <2>2, MismatchKey DEF Mismatch, KeyOf
    <2> QED
      BY <2>1, <2>2
  <1> QED
    BY <1>1, <1>3, OddHooksKept, OddQueueKept, OddEvidenceKept DEF OddInv

\* A row is resolved on fresh evidence and canceled orders, which an odd payment never paid.
LEMMA OddResolve ==
  ASSUME TypeOK, BookInv, [Next]_vars, OddInv, NEW x \in open, ResolveIncident(x)
  PROVE  OddInv'
  <1>1. HooksRest /\ ReviewsRest /\ evidence' \subseteq evidence /\ OddRows'
    BY DEF ResolveIncident, HooksRest, ReviewsRest, OddInv, OddRows, Mismatch
  <1>2. ASSUME NEW y \in resolved', Mismatch(y)
        PROVE  /\ prov'[y.key] = "CANCELED"
               /\ \A o \in GroupOrders(KeyGroup[y.key]) : status'[o] = "canceled" /\ ~paid'[o]
    <2>1. y \in Incident /\ y.key \in Keys
      BY <1>2, MismatchKey DEF ResolveIncident
    <2>2. prov[y.key] = "CANCELED"
          /\ \A o \in GroupOrders(KeyGroup[y.key]) : status[o] = "canceled" /\ ~paid[o]
      <3>1. CASE y \in resolved
        BY <1>2, <3>1 DEF OddInv, OddMoneyReturned, AllIn, NonePaid, Mismatch
      <3>2. CASE y = x
        <4>1. y.key \in OddKeys /\ prov[y.key] = "CANCELED"
          BY <1>2, <3>2 DEF OddInv, OddRows, OddEvidence, ResolveIncident
        <4>2. AllIn(KeyGroup[y.key], {"canceled"}) /\ AllKeyed(KeyGroup[y.key], y.key)
          BY <1>2, <3>2 DEF ResolveIncident, CurrentDomainConsistent, CanceledConsistent, IsConfirm,
             KeyOf, Mismatch
        <4>3. \A o \in GroupOrders(KeyGroup[y.key]) : ~paid[o]
          BY <4>1, <4>2 DEF AllKeyed, GroupOrders, BookInv, PaidOK, Captured
        <4> QED
          BY <4>1, <4>2, <4>3 DEF AllIn
      <3> QED
        BY <3>1, <3>2 DEF ResolveIncident
    <2>3. status' = status /\ paid' = paid /\ prov' = prov
      BY DEF ResolveIncident, orderVars
    <2> QED
      BY <2>2, <2>3
  <1>3. OddMoneyReturned'
    BY <1>2 DEF OddMoneyReturned, AllIn, NonePaid, GroupOrders, Mismatch
  <1> QED
    BY <1>1, <1>3, OddHooksKept, OddReviewsKept, OddEvidenceKept DEF OddInv

\* Every step keeps the invariant.
LEMMA OddNext == TypeOK /\ BookInv /\ OddInv /\ [Next]_vars => OddInv'
  <1> SUFFICES ASSUME TypeOK, BookInv, OddInv, [Next]_vars PROVE OddInv'
    OBVIOUS
  <1>0. CASE UNCHANGED <<queueVars, hook, review>>
    BY <1>0, OddKept DEF queueVars, HooksRest, ReviewsRest, QueueRests
  <1>1. CASE CustomerStep
    <2>1. CASE \E r \in Requests, k \in Keys : PrepareConfirm(r, k)
      BY <2>1, OddKept DEF PrepareConfirm, HooksRest, ReviewsRest, QueueRests
    <2> QED
      BY <1>0, <1>1, <2>1 DEF CustomerStep, CreateOrder, ConfirmAgain, SubmitRepair
  <1>2. ASSUME NEW r \in Requests, ConfirmStep(r) \/ Crash(r) \/ TossHandles(r) PROVE OddInv'
    <2>1. CASE UNCHANGED queueVars
      BY <1>0, <1>2, <2>1 DEF ConfirmStep, Crash, TossHandles, EndUnsure, ConfirmOutcomeUnknown,
         ProviderResponseUncertain, RecoveryFailed, ConfirmRefused, ConfirmDbFailed,
         ProviderRejected, ProviderApproved, AlreadyProcessed, RecoveryVerified,
         ConfirmAlreadyApplied, ConfirmApplies, ConfirmFailedAfterCommit
    <2>2. CASE EndUnsure(r)
      BY <2>2, OddKept DEF EndUnsure, OpenJournal, HooksRest, ReviewsRest, QueueRests
    <2>3. CASE ProviderRejected(r) \/ ConfirmAlreadyApplied(r) \/ ConfirmApplies(r)
      BY <2>3, OddKept DEF ProviderRejected, ConfirmAlreadyApplied, ConfirmApplies, CloseJournal,
         HooksRest, ReviewsRest, QueueRests
    <2>4. CASE ConfirmFailedAfterCommit(r)
      BY <2>4, OddKept DEF ConfirmFailedAfterCommit, OpenJournal, HooksRest, ReviewsRest, QueueRests
    <2>5. CASE ProviderApproved(r) \/ AlreadyProcessed(r) \/ RecoveryVerified(r)
      BY <2>1, <2>5 DEF ProviderApproved, AlreadyProcessed, RecoveryVerified
    <2>6. CASE Crash(r) \/ TossHandles(r)
      BY <2>1, <2>6 DEF Crash, TossHandles
    <2> QED
      BY <1>2, <2>2, <2>3, <2>4, <2>5, <2>6 DEF ConfirmStep, ConfirmOutcomeUnknown,
         ProviderResponseUncertain, RecoveryFailed, ConfirmRefused, ConfirmDbFailed
  <1>3. CASE \E k \in Keys : DashboardCancels(k)
    BY <1>0, <1>3 DEF DashboardCancels
  <1>4. ASSUME NEW h \in Hooks, NEW k \in Keys, HookLookup(h, k) PROVE OddInv'
    <2>1. ReviewsRest /\ QueueRests /\ evidence' \subseteq evidence
      BY <1>4 DEF HookLookup, ReviewsRest, QueueRests, queueVars
    <2>2. OddHooks'
      BY <1>4 DEF HookLookup, OddInv, OddHooks, TypeOK, HooksTypeOK
    <2> QED
      BY <2>1, <2>2, OddReviewsKept, OddQueueKept, OddEvidenceKept DEF OddInv
  <1>5. CASE \E h \in Hooks : WebhookStep(h)
    BY <1>5, OddWebhook
  <1>6. CASE \E S \in SUBSET Orders : CancelStaleOrders(S)
    BY <1>0, <1>6 DEF CancelStaleOrders
  <1>7. CASE OperatorStep
    <2>1. CASE \E o \in Orders, new \in OrderStatuses, isRollback \in BOOLEAN :
                 AdminUpdateStatus(o, new, isRollback)
      BY <1>0, <2>1 DEF AdminUpdateStatus
    <2>2. CASE \E x \in evidence : EvidenceExpires(x)
      BY <2>2, OddKept DEF EvidenceExpires, HooksRest, ReviewsRest, QueueRests
    <2> QED
      BY <1>7, <2>1, <2>2, OddLookup, OddReview, OddResolve DEF OperatorStep
  <1>8. CASE UNCHANGED vars
    BY <1>0, <1>8 DEF vars
  <1> QED
    BY <1>1, <1>2, <1>3, <1>4, <1>5, <1>6, <1>7, <1>8 DEF Next

\* An amount_mismatch row is closed only after the odd payment went back: it is canceled at
\* Toss, and its orders are canceled and unpaid.
THEOREM OddReturned == Spec => []OddMoneyReturned
  <1>1. OddInv => OddMoneyReturned
    BY DEF OddInv
  <1> QED
    BY <1>1, Booked, OddInit, OddNext, PTL DEF Spec
-----------------------------------------------------------------------------
(* Paid orders are canceled knowingly *)

\* What a step may do to a paid order: cancel it because of its payment, or by an edit.
PaidCancels ==
  \A o \in Orders : paid[o] /\ status[o] # "canceled" /\ status'[o] = "canceled" =>
    \/ prov[payKey[o]] = "CANCELED"
    \/ <<status[o], "canceled">> \in AdminEdges

\* Every step cancels a paid order for one of these reasons, if operators are careful.
LEMMA PaidCancelsNext ==
  ASSUME Base, CarefulInv, OddInv, [Next]_vars
  PROVE  PaidCancels
  <1> USE DEF Base
  <1>0. ASSUME \A o \in Orders : status'[o] = "canceled" => status[o] = "canceled" PROVE PaidCancels
    BY <1>0 DEF PaidCancels
  <1>1. CASE UNCHANGED status
    BY <1>0, <1>1
  <1>2. CASE CustomerStep
    BY <1>0, <1>2 DEF CustomerStep, CreateOrder, ConfirmAgain, PrepareConfirm, SubmitRepair,
       SetStatus, orderVars, TypeOK, OrdersTypeOK
  <1>3. ASSUME NEW r \in Requests, ConfirmStep(r) \/ Crash(r) PROVE PaidCancels
    <2>1. CASE ConfirmApplies(r) \/ ConfirmFailedAfterCommit(r)
      BY <1>0, <2>1, PostStatusType DEF ConfirmApplies, ConfirmFailedAfterCommit,
         ApplyConfirmation, PostStatus
    <2>2. CASE ProviderRejected(r)
      BY <1>0, <2>2 DEF ProviderRejected, SetStatus
    <2> QED
      BY <1>1, <1>3, <2>1, <2>2 DEF ConfirmStep, Crash, ConfirmOutcomeUnknown,
         ProviderResponseUncertain, RecoveryFailed, ConfirmRefused, ConfirmDbFailed, EndUnsure,
         ProviderApproved, AlreadyProcessed, RecoveryVerified, ConfirmAlreadyApplied, orderVars
  <1>4. ASSUME NEW h \in Hooks, WebhookStep(h) PROVE PaidCancels
    <2>1. CASE WebhookConfirms(h)
      BY <1>0, <2>1 DEF WebhookConfirms, ApplyConfirmation, PostStatus
    <2>2. CASE WebhookCancels(h)
      <3>1. prov[hook[h].key] = "CANCELED"
        BY <2>2 DEF WebhookCancels, OddInv, OddHooks
      <3>2. \A o \in GroupOrders(KeyGroup[hook[h].key]) : payKey[o] = hook[h].key
        BY <2>2 DEF WebhookCancels, AllKeyed
      <3>3. \A o \in Orders \ GroupOrders(KeyGroup[hook[h].key]) : status'[o] = status[o]
        BY <2>2 DEF WebhookCancels, SetStatus
      <3> QED
        BY <3>1, <3>2, <3>3 DEF PaidCancels
    <2> QED
      BY <1>1, <1>4, <2>1, <2>2 DEF WebhookStep, WebhookDoneMismatch, WebhookPartialCanceled,
         WebhookCancelMismatch, RecordWebhookIncident, WebhookEnds, orderVars
  <1>5. ASSUME NEW v \in Reviews, ReviewStep(v) PROVE PaidCancels
    <2>1. CASE ReviewConfirms(v)
      BY <1>0, <1>1, <2>1 DEF ReviewConfirms, ApplyConfirmation, PostStatus, orderVars
    <2>2. CASE ReviewCancels(v)
      <3>1. \A o \in Orders : status'[o] # status[o] => status[o] \in {"paying", "canceled"}
        BY <2>2 DEF ReviewCancels, SetStatus, AllIn
      <3> QED
        BY <3>1 DEF PaidCancels, BookInv, PaidOK
    <2> QED
      BY <1>1, <1>5, <2>1, <2>2 DEF ReviewStep, ReviewCompares, ReviewMismatch, ReviewRecords,
         ReviewDies, orderVars
  <1>6. ASSUME NEW S \in SUBSET Orders, CancelStaleOrders(S) PROVE PaidCancels
    <2>1. \A o \in Orders : status'[o] # status[o] => status[o] = "pending"
      BY <1>6 DEF CancelStaleOrders, SetStatus
    <2> QED
      BY <2>1 DEF PaidCancels, CarefulInv, StatusFits
  <1>7. CASE OperatorStep
    <2>1. ASSUME NEW p \in Orders, NEW new \in OrderStatuses, NEW isRollback \in BOOLEAN,
                 AdminUpdateStatus(p, new, isRollback)
          PROVE  PaidCancels
      <3>1. \A o \in Orders : status'[o] # status[o] => <<status[o], status'[o]>> \in AdminEdges
        BY <2>1 DEF AdminUpdateStatus, TypeOK, OrdersTypeOK
      <3> QED
        BY <3>1 DEF PaidCancels
    <2> QED
      BY <1>1, <1>5, <1>7, <2>1 DEF OperatorStep, ReviewLookup, EvidenceExpires, ResolveIncident,
         orderVars
  <1> QED
    BY <1>1, <1>2, <1>3, <1>4, <1>5, <1>6, <1>7 DEF Next, TossHandles, DashboardCancels,
       HookLookup, vars, orderVars

\* A paid order is canceled only by an operator's edit, or because its whole payment is
\* canceled at Toss: not by the batch, by an unlock or by the webhook of another attempt.
THEOREM PaidIsCanceledKnowingly ==
  ASSUME Careful
  PROVE  Spec => PaidCanceledKnowingly
  <1>1. Base /\ CarefulInv /\ OddInv /\ [Next]_vars => PaidCancels
    BY PaidCancelsNext
  <1>2. Base /\ CarefulInv /\ OddInv /\ [Next]_vars
          => [\A o \in Orders :
                paid[o] /\ status[o] # "canceled" /\ status'[o] = "canceled" =>
                  \/ prov[payKey[o]] = "CANCELED"
                  \/ <<status[o], "canceled">> \in AdminEdges]_vars
    BY <1>1 DEF PaidCancels
  <1>3. TypeOK /\ BookInv /\ OddInv /\ [Next]_vars => OddInv'
    BY OddNext
  <1>4. Base => TypeOK /\ BookInv
    BY DEF Base
  <1> QED
    BY <1>2, <1>3, <1>4, CarefulBooked, Careful, OddInit, PTL DEF Spec, PaidCanceledKnowingly

-----------------------------------------------------------------------------
(* The life of an order *)

\* Only an order that exists has a payment: what the webhook cancels was created.
KeyedExists == \A o \in Orders : payKey[o] # NoKey => status[o] # "none"

\* The contract reads the same tables as the code's edits do.
LEMMA LifeReadsTheTables ==
  ASSUME NEW o, NEW type, NEW from, NEW to, NEW isRollback, NEW previous
  PROVE  Life(o)!ValidTransition(type, from, to, isRollback, previous)
           = ValidTransition(type, from, to, isRollback, previous)
  BY Zenon DEF Life!ValidTransition, ValidTransition, Life!ROLLBACK, ROLLBACK, Life!FORWARD, FORWARD,
         Life!CANCELABLE_FROM, CANCELABLE_FROM,
         Life!ROLLBACK_FORBIDDEN_CURRENT, ROLLBACK_FORBIDDEN_CURRENT

\* Every step moves each order as OrderLife lets it.
LEMMA LifeStep ==
  ASSUME TypeOK, KeyedExists, [Next]_vars
  PROVE  /\ KeyedExists'
         /\ \A o \in Orders : [Life(o)!LifeNext]_<<status[o], arrivedFrom[o]>>
  <1> DEFINE Lives == \A o \in Orders : [Life(o)!LifeNext]_<<status[o], arrivedFrom[o]>>
  <1>0. OrdersTypeOK
    BY DEF TypeOK
  <1>1. CASE Cancels
    <2>1. KeyedExists'
      BY <1>1 DEF Cancels, KeyedExists
    <2>2. ASSUME NEW o \in Orders, status'[o] # status[o] PROVE Life(o)!Canceled
      <3>1. status'[o] = "canceled" /\ status[o] # "none" /\ arrivedFrom' = arrivedFrom
        BY <1>1, <2>2 DEF Cancels, KeyedExists
      <3> QED
        BY <1>0, <3>1 DEF OrdersTypeOK, Life!Canceled, Life!Turns, Life!OrderStatuses, OrderStatuses
    <2> QED
      BY <1>1, <2>1, <2>2 DEF Cancels, Life!LifeNext
  <1>2. ASSUME NEW g \in Groups, CreateOrder(g) PROVE KeyedExists' /\ Lives
    <2>1. ASSUME NEW o \in GroupOrders(g) PROVE Life(o)!Placed
      BY <1>2, <2>1 DEF CreateOrder, SetStatus, GroupOrders, Life!Placed, Life!Turns
    <2>2. \A o \in Orders \ GroupOrders(g) : status'[o] = status[o]
      BY <1>2 DEF CreateOrder, SetStatus
    <2>3. arrivedFrom' = arrivedFrom /\ payKey' = payKey
          /\ \A o \in GroupOrders(g) : status'[o] # "none"
      BY <1>2 DEF CreateOrder, SetStatus, GroupOrders
    <2> QED
      BY <2>1, <2>2, <2>3 DEF KeyedExists, Life!LifeNext
  <1>3. ASSUME NEW r \in Requests, NEW k \in Keys, PrepareConfirm(r, k) PROVE KeyedExists' /\ Lives
    <2> DEFINE S == GroupOrders(KeyGroup[k])
    <2>1. ASSUME NEW o \in S, status[o] # "paying" PROVE Life(o)!Locked
      BY <1>3, <2>1 DEF PrepareConfirm, SetStatus, GroupOrders, Life!Locked, Life!Turns
    <2>2. /\ \A o \in Orders \ S : status'[o] = status[o] /\ payKey'[o] = payKey[o]
          /\ \A o \in S : status'[o] = "paying"
          /\ arrivedFrom' = arrivedFrom
      BY <1>3 DEF PrepareConfirm, SetStatus, GroupOrders
    <2> QED
      BY <2>1, <2>2 DEF KeyedExists, Life!LifeNext
  <1>4. ASSUME NEW r \in Requests, ProviderRejected(r) PROVE KeyedExists' /\ Lives
    <2>1. ASSUME NEW o \in Orders, status'[o] # status[o] PROVE Life(o)!Released
      BY <1>4, <2>1 DEF ProviderRejected, SetStatus, Life!Released, Life!Turns
    <2>2. /\ \A o \in Orders : payKey'[o] # NoKey => payKey[o] # NoKey
          /\ \A o \in Orders : status'[o] \in {status[o], "pending"}
          /\ arrivedFrom' = arrivedFrom
      BY <1>4 DEF ProviderRejected, SetStatus
    <2> QED
      BY <2>1, <2>2 DEF KeyedExists, Life!LifeNext
  <1>5. ASSUME NEW g, NEW k, ApplyConfirmation(g, k) PROVE KeyedExists' /\ Lives
    <2>1. ASSUME NEW o \in GroupOrders(g) PROVE Life(o)!Paid
      BY <1>5, <2>1 DEF ApplyConfirmation, AllIn, GroupOrders, Life!Paid, Life!Turns,
         Life!PostStatus, PostStatus
    <2>2. /\ \A o \in Orders \ GroupOrders(g) : status'[o] = status[o] /\ payKey'[o] = payKey[o]
          /\ \A o \in GroupOrders(g) : status'[o] = PostStatus(TypeOf[o])
          /\ arrivedFrom' = arrivedFrom
      BY <1>5 DEF ApplyConfirmation, GroupOrders
    <2>3. \A o \in GroupOrders(g) : status'[o] # "none"
      BY <2>2 DEF PostStatus
    <2> QED
      BY <2>1, <2>2, <2>3 DEF KeyedExists, Life!LifeNext
  <1>6. ASSUME NEW o \in Orders, SubmitRepair(o) PROVE KeyedExists' /\ Lives
    <2>1. Life(o)!SentIn /\ status'[o] # "none"
      BY <1>0, <1>6 DEF SubmitRepair, OrdersTypeOK, Life!SentIn, Life!Turns
    <2>2. /\ \A p \in Orders : p # o => status'[p] = status[p]
          /\ arrivedFrom' = arrivedFrom /\ payKey' = payKey
      BY <1>0, <1>6 DEF SubmitRepair, OrdersTypeOK
    <2> QED
      BY <2>1, <2>2 DEF KeyedExists, Life!LifeNext
  <1>7. ASSUME NEW o \in Orders, NEW new \in OrderStatuses, NEW isRollback \in BOOLEAN,
               AdminUpdateStatus(o, new, isRollback)
        PROVE  KeyedExists' /\ Lives
    <2>1. /\ status[o] # "none" /\ status'[o] = new /\ new # "none"
          /\ arrivedFrom'[o] = IF new = "received" /\ status[o] \in RepairSendStatuses
                                 THEN status[o] ELSE arrivedFrom[o]
      BY <1>0, <1>7 DEF AdminUpdateStatus, OrdersTypeOK, OrderStatuses
    <2>2. Life(o)!ValidTransition(TypeOf[o], status[o], new, isRollback, arrivedFrom[o])
      BY <1>7, LifeReadsTheTables DEF AdminUpdateStatus
    <2>3. Life(o)!Edited
      BY <2>1, <2>2 DEF Life!Edited, Life!OrderStatuses, OrderStatuses,
         Life!RepairSendStatuses, RepairSendStatuses
    <2>4. /\ \A p \in Orders : p # o => status'[p] = status[p] /\ arrivedFrom'[p] = arrivedFrom[p]
          /\ payKey' = payKey
      BY <1>0, <1>7 DEF AdminUpdateStatus, OrdersTypeOK
    <2> QED
      BY <2>1, <2>3, <2>4 DEF KeyedExists, Life!LifeNext
  <1> QED
    BY <1>1, <1>2, <1>3, <1>4, <1>5, <1>6, <1>7, OrderSteps DEF OrderStep

\* What has a payment was created.
LEMMA OrdersKeyed == Spec => []KeyedExists
  <1>1. Init => KeyedExists
    BY DEF Init, KeyedExists
  <1>2. TypeOK /\ KeyedExists /\ [Next]_vars => KeyedExists'
    BY LifeStep
  <1> QED
    BY <1>1, <1>2, TypeCorrect, PTL DEF Spec

\* Each order of the money path goes through OrderLife, whatever operators edit, Toss
\* answers and processes die: what the claims are checked against is what the payment does.
THEOREM OrdersLive == Spec => ImplementsLife
  <1> DEFINE Lives == \A o \in Orders : [Life(o)!LifeNext]_<<status[o], arrivedFrom[o]>>
             Born  == \A o \in Orders : Life(o)!LifeInit
  <1>1. Init => Born
    BY DEF Init, Life!LifeInit
  <1>2. TypeOK /\ KeyedExists /\ [Next]_vars => [Lives]_vars
    BY LifeStep
  <1> QED
    BY <1>1, <1>2, TypeCorrect, OrdersKeyed, PTL DEF Spec, ImplementsLife

-----------------------------------------------------------------------------
(* The life of a group *)

\* An order gets its paid_at only together with its group, all of it locked.
LEMMA PaidWithItsGroup ==
  ASSUME TypeOK, [Next]_vars, NEW o \in Orders, paid'[o], ~ paid[o]
  PROVE  AllIn(GroupOf[o], {"paying"})
  <1>1. ASSUME NEW g, NEW k, ApplyConfirmation(g, k) PROVE AllIn(GroupOf[o], {"paying"})
    BY <1>1 DEF ApplyConfirmation, GroupOrders
  <1>2. paid' = paid \/ \E g, k : ApplyConfirmation(g, k)
    BY OrderSteps DEF OrderStep, Cancels, CreateOrder, PrepareConfirm, ProviderRejected,
       SubmitRepair, AdminUpdateStatus
  <1> QED
    BY <1>1, <1>2

\* An order begins as a pending one, and does not cease to exist.
LEMMA OrderBegins ==
  ASSUME TypeOK, KeyedExists, [Next]_vars, NEW o \in Orders
  PROVE  /\ status[o] = "none" => status'[o] \in {"none", "pending"}
         /\ status[o] # "none" => status'[o] # "none"
  <1>1. [Life(o)!LifeNext]_<<status[o], arrivedFrom[o]>>
    BY LifeStep
  <1> QED
    BY <1>1 DEF Life!LifeNext, Life!Placed, Life!Locked, Life!Released, Life!Paid, Life!SentIn,
       Life!Completed, Life!Canceled, Life!Edited, Life!Turns, Life!OrderStatuses, Life!PostStatus

\* Every step moves each group as GroupLife lets it.
LEMMA GroupStep ==
  ASSUME TypeOK, RowHasRequest, BookInv, KeyedExists, [Next]_vars, NEW g \in Groups
  PROVE  [Group(g)!GroupNext]_(StateOf(g))
  <1> DEFINE S == GroupOrders(g)
  <1>1. ASSUME NEW o \in S
        PROVE  /\ o \in Orders /\ GroupOf[o] = g
               /\ paid[o] => paid'[o]
               /\ status[o] = "canceled" => status'[o] = "canceled"
               /\ status[o] = "none" => status'[o] \in {"none", "pending"}
               /\ status[o] # "none" => status'[o] # "none"
               /\ paid'[o] /\ ~ paid[o] => \A p \in S : status[p] = "paying"
    BY <1>1, BookNext, CanceledIsFinal, OrderBegins, PaidWithItsGroup
       DEF GroupOrders, AllIn, Final
  <1>2. CASE StateOf(g) = "paid"
    BY <1>1, <1>2 DEF StateOf
  <1>3. CASE StateOf(g) = "dead"
    BY <1>1, <1>3 DEF StateOf
  <1>4. CASE StateOf(g) = "open"
    BY <1>1, <1>4 DEF StateOf, Group!GroupNext, Group!Paid, Group!Died, Group!Turns
  <1>5. CASE StateOf(g) = "none"
    BY <1>1, <1>5 DEF StateOf, Group!GroupNext, Group!Created, Group!Turns
  <1> QED
    BY <1>2, <1>3, <1>4, <1>5 DEF StateOf

\* A group is paid once and for good, or dies unpaid and is not paid by what comes late,
\* whatever operators edit: what the pages of the store may count on.
THEOREM GroupsLive == Spec => ImplementsGroups
  <1> DEFINE Moves == \A g \in Groups : [Group(g)!GroupNext]_(StateOf(g))
             Born  == \A g \in Groups : Group(g)!GroupInit
  <1>1. Init => Born
    BY DEF Init, StateOf, GroupOrders, Group!GroupInit
  <1>2. TypeOK /\ RowHasRequest /\ BookInv /\ KeyedExists /\ [Next]_vars => [Moves]_vars
    BY GroupStep
  <1> QED
    BY <1>1, <1>2, Booked, OrdersKeyed, PTL DEF Spec, ImplementsGroups

\* The money path keeps both contracts.
THEOREM ContractsKept == Spec => KeepsContracts
  BY OrdersLive, GroupsLive DEF KeepsContracts
=============================================================================
