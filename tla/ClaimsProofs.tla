----------------------------- MODULE ClaimsProofs -----------------------------
(***************************************************************************)
(* Theorems about Claims, for every set of orders, items and claims.       *)
(***************************************************************************)
EXTENDS Claims, FiniteSetTheorems, TLAPS

ClaimRows == [item : Items, type : ClaimTypes, status : ClaimStatuses]

\* What a transaction that holds order:<id> is about to write is what its kind writes.
TxnShape ==
  \A o \in Orders :
    /\ txn[o].op = "claim" => /\ txn[o].item \in Items /\ OrderOf[txn[o].item] = o
                              /\ txn[o].what \in ClaimTypes
    /\ txn[o].op \in {"move", "confirm"} => txn[o].what \in OrderStatuses

\* What the two indexes keep, without counting.
ActiveIsAlone ==
  \A c, d \in Rows :
    (Active(c) /\ Active(d) /\ OrderOf[claim[c].item] = OrderOf[claim[d].item]) => c = d

LiveIsAlone ==
  \A c, d \in Rows :
    (/\ claim[c].item = claim[d].item /\ claim[c].type = claim[d].type
     /\ claim[c].status # "rejected" /\ claim[d].status # "rejected") => c = d

IInv == TypeOK /\ TxnShape /\ ActiveIsAlone /\ LiveIsAlone

-----------------------------------------------------------------------------
(* Rows *)

\* A row has the shape of a claim.
LEMMA RowShape == ASSUME TypeOK, NEW c \in Rows PROVE claim[c] \in ClaimRows
  BY DEF TypeOK, Rows, ClaimRows, NoRow

\* A step that leaves the rows alone leaves them unique.
LEMMA RowsUntouched ==
  ASSUME IInv, TypeOK', TxnShape', claim' = claim
  PROVE  IInv'
  BY DEF IInv, ActiveIsAlone, LiveIsAlone, Rows, Active

\* A transaction that ends, or begins with something it may write.
LEMMA EndType ==
  ASSUME TypeOK, TxnShape, NEW o \in Orders, End(o)
  PROVE  TxnShape' /\ txn' \in [Orders -> [op : {"free", "claim", "move", "confirm"},
                       item : Items \union {NoItem},
                       what : OrderStatuses \union ClaimTypes \union {"none"}]]
  <1>1. Free \in [op : {"free", "claim", "move", "confirm"}, item : Items \union {NoItem},
                  what : OrderStatuses \union ClaimTypes \union {"none"}]
    BY DEF Free
  <1>2. \A p \in Orders : txn'[p] = txn[p] \/ txn'[p].op = "free"
    BY DEF End, Free, TypeOK
  <1> QED BY <1>1, <1>2 DEF End, TypeOK, TxnShape

\* A move of an order keeps its status well typed.
LEMMA MoveType ==
  ASSUME TypeOK, NEW o \in Orders, NEW new \in OrderStatuses, MoveTo(o, new)
  PROVE  /\ status' \in [Orders -> OrderStatuses]
         /\ arrivedFrom' \in [Orders -> RepairSendStatuses \union {"none"}]
  BY DEF TypeOK, MoveTo

\* What a payment makes of an order is a status.
LEMMA PostStatusIsStatus == ASSUME NEW o \in Orders PROVE PostStatus(TypeOf[o]) \in OrderStatuses
  BY ClaimsAssumption DEF PostStatus, OrderStatuses

-----------------------------------------------------------------------------
(* The invariant *)

\* At first the invariant holds.
LEMMA InitIInv == Init => IInv
  BY DEF Init, IInv, TypeOK, TxnShape, ActiveIsAlone, LiveIsAlone, Rows, NoRow, Free,
         OrderStatuses

\* Every beginning notes what it is about to write, and writes nothing.
LEMMA BeginIInv ==
  ASSUME IInv,
         \/ \E i \in Items, type \in ClaimTypes : BeginClaim(i, type)
         \/ \E o \in Orders, new \in OrderStatuses : BeginMove(o, new)
         \/ \E o \in Orders : BeginConfirm(o)
  PROVE  IInv'
  <1>1. ASSUME NEW i \in Items, NEW type \in ClaimTypes, BeginClaim(i, type) PROVE IInv'
    <2>1. OrderOf[i] \in Orders
      BY ClaimsAssumption
    <2>2. TypeOK' /\ TxnShape'
      BY <1>1, <2>1 DEF BeginClaim, Begin, IInv, TypeOK, TxnShape
    <2> QED BY <1>1, <2>2, RowsUntouched DEF BeginClaim
  <1>2. ASSUME NEW o \in Orders, NEW new \in OrderStatuses, BeginMove(o, new) PROVE IInv'
    <2>1. TypeOK' /\ TxnShape'
      BY <1>2 DEF BeginMove, Begin, IInv, TypeOK, TxnShape
    <2> QED BY <1>2, <2>1, RowsUntouched DEF BeginMove
  <1>3. ASSUME NEW o \in Orders, BeginConfirm(o) PROVE IInv'
    <2>1. TypeOK' /\ TxnShape'
      BY <1>3 DEF BeginConfirm, Begin, IInv, TypeOK, TxnShape, OrderStatuses
    <2> QED BY <1>3, <2>1, RowsUntouched DEF BeginConfirm
  <1> QED BY <1>1, <1>2, <1>3

\* What moves an order without order:<id>.
JobMoves(o) ==
  \/ JobLocks(o) \/ JobPays(o) \/ JobReleases(o)
  \/ JobWebhookCancels(o) \/ JobCancelsStale(o) \/ JobAutoConfirms(o)

\* A job moves an order whose row nobody holds, and nothing else.
LEMMA JobMovesOne ==
  ASSUME NEW o \in Orders, JobMoves(o)
  PROVE  RowFree(o) /\ UNCHANGED <<claim, txn>> /\ \E new \in OrderStatuses : MoveTo(o, new)
  BY PostStatusIsStatus
     DEF JobMoves, JobLocks, JobPays, JobReleases, JobWebhookCancels, JobCancelsStale,
         JobAutoConfirms, OrderStatuses

\* Orders move, and transactions end, without touching a claim.
LEMMA OrderStepIInv ==
  ASSUME IInv, NEW o \in Orders,
         \/ CommitMove(o) \/ CommitConfirm(o) \/ Abort(o)
         \/ JobMoves(o)
  PROVE  IInv'
  <1>1. CASE CommitMove(o) \/ CommitConfirm(o)
    <2>1. PICK new \in OrderStatuses : MoveTo(o, new)
      BY <1>1 DEF CommitMove, CommitConfirm, IInv, TxnShape, OrderStatuses
    <2>2. End(o) /\ claim' = claim
      BY <1>1 DEF CommitMove, CommitConfirm
    <2>3. TypeOK' /\ TxnShape'
      BY <2>1, <2>2, MoveType, EndType DEF IInv, TypeOK
    <2> QED BY <2>2, <2>3, RowsUntouched
  <1>2. CASE Abort(o)
    <2>1. TypeOK' /\ TxnShape'
      BY <1>2, EndType DEF Abort, IInv, TypeOK
    <2> QED BY <1>2, <2>1, RowsUntouched DEF Abort
  <1>3. CASE JobMoves(o)
    <2>1. PICK new \in OrderStatuses : MoveTo(o, new)
      BY <1>3, JobMovesOne
    <2>2. UNCHANGED <<claim, txn>>
      BY <1>3, JobMovesOne
    <2>3. TypeOK' /\ TxnShape'
      BY <2>1, <2>2, MoveType DEF IInv, TypeOK, TxnShape
    <2> QED BY <2>2, <2>3, RowsUntouched
  <1> QED BY <1>1, <1>2, <1>3

\* One row is written; the others stay.  The indexes look at it against each of them.
LEMMA OneRowWritten ==
  ASSUME IInv, TypeOK', TxnShape', NEW c \in Claims, NEW r \in ClaimRows,
         claim' = [claim EXCEPT ![c] = r],
         IndexesAccept(c, r.item, r.type, r.status)
  PROVE  IInv'
  <1>1. c \in Rows' /\ claim'[c] = r
    BY DEF IInv, TypeOK, Rows, ClaimRows, ClaimStatuses
  <1>2. \A d \in Claims : d # c => claim'[d] = claim[d] /\ (d \in Rows' <=> d \in Rows)
    BY DEF IInv, TypeOK, Rows
  <1>3. ASSUME NEW d \in Rows, d # c, claim[d].status # "rejected", r.status # "rejected"
        PROVE  ~ (claim[d].item = r.item /\ claim[d].type = r.type)
    <2>1. r.status \in ACTIVE_CLAIM_STATUSES \union {"completed"}
      BY <1>3 DEF ClaimRows, ClaimStatuses, ACTIVE_CLAIM_STATUSES
    <2> QED BY <1>3, <2>1 DEF IndexesAccept
  <1>4. ASSUME NEW d \in Rows, d # c, Active(d), r.status \in ACTIVE_CLAIM_STATUSES
        PROVE  OrderOf[claim[d].item] # OrderOf[r.item]
    BY <1>4 DEF IndexesAccept, ClaimsOf
  <1>5. Rows' \subseteq Claims
    BY DEF Rows
  <1>6. ActiveIsAlone'
    BY <1>1, <1>2, <1>4, <1>5 DEF IInv, ActiveIsAlone, Active
  <1>7. LiveIsAlone'
    BY <1>1, <1>2, <1>3, <1>5 DEF IInv, LiveIsAlone
  <1> QED BY <1>6, <1>7 DEF IInv

\* A filed claim keeps the invariant: the unique indexes let it in.
LEMMA CommitClaimIInv == ASSUME IInv, NEW o \in Orders, CommitClaim(o) PROVE IInv'
  <1>1. PICK c \in Claims \ Rows :
          /\ IndexesAccept(c, txn[o].item, txn[o].what, "received")
          /\ claim' = [claim EXCEPT ![c] = [item |-> txn[o].item, type |-> txn[o].what,
                                           status |-> "received"]]
    BY DEF CommitClaim
  <1> DEFINE r == [item |-> txn[o].item, type |-> txn[o].what, status |-> "received"]
  <1>2. r \in ClaimRows
    BY DEF CommitClaim, IInv, TxnShape, ClaimRows, ClaimStatuses
  <1>3. TypeOK' /\ TxnShape'
    BY <1>1, <1>2, EndType DEF CommitClaim, IInv, TypeOK, ClaimRows
  <1>4. r.item = txn[o].item /\ r.type = txn[o].what /\ r.status = "received"
    OBVIOUS
  <1>5. claim' = [claim EXCEPT ![c] = r] /\ IndexesAccept(c, r.item, r.type, r.status)
    BY <1>1, <1>4
  <1> HIDE DEF r
  <1> QED BY <1>2, <1>3, <1>5, OneRowWritten

\* So does an operator's edit of a claim.
LEMMA AdminUpdateClaimIInv ==
  ASSUME IInv, NEW c \in Claims, NEW new \in ClaimStatuses, NEW isRollback \in BOOLEAN,
         AdminUpdateClaim(c, new, isRollback)
  PROVE  IInv'
  <1> DEFINE r == [claim[c] EXCEPT !.status = new]
  <1>1. c \in Rows /\ claim[c] \in ClaimRows
    BY RowShape DEF AdminUpdateClaim, IInv
  <1>2. r \in ClaimRows /\ r.item = claim[c].item /\ r.type = claim[c].type /\ r.status = new
    BY <1>1 DEF ClaimRows
  <1>3. claim' = [claim EXCEPT ![c] = r]
    BY <1>1 DEF AdminUpdateClaim
  <1>4. TypeOK' /\ TxnShape'
    BY <1>2, <1>3 DEF AdminUpdateClaim, IInv, TypeOK, TxnShape, ClaimRows
  <1>5. IndexesAccept(c, r.item, r.type, r.status)
    BY <1>2 DEF AdminUpdateClaim
  <1> HIDE DEF r
  <1> QED BY <1>2, <1>3, <1>4, <1>5, OneRowWritten

\* So does the customer's cancellation of a claim.
LEMMA CancelClaimIInv == ASSUME IInv, NEW c \in Claims, CancelClaim(c) PROVE IInv'
  <1>1. TypeOK' /\ TxnShape'
    BY DEF CancelClaim, IInv, TypeOK, TxnShape
  <1>2. Rows' = Rows \ {c} /\ \A d \in Rows' : claim'[d] = claim[d]
    BY DEF CancelClaim, IInv, TypeOK, Rows, NoRow
  <1>3. ActiveIsAlone' /\ LiveIsAlone'
    BY <1>2 DEF IInv, ActiveIsAlone, LiveIsAlone, Active
  <1> QED BY <1>1, <1>3 DEF IInv

\* Every step keeps the invariant.
LEMMA NextIInv == IInv /\ [Next]_vars => IInv'
  <1> SUFFICES ASSUME IInv, [Next]_vars PROVE IInv'
    OBVIOUS
  <1>1. CASE UNCHANGED vars
    <2>1. TypeOK' /\ TxnShape' /\ claim' = claim
      BY <1>1 DEF vars, IInv, TypeOK, TxnShape
    <2> QED BY <2>1, RowsUntouched
  <1>2. CASE Next
    BY <1>2, BeginIInv, OrderStepIInv, CommitClaimIInv, AdminUpdateClaimIInv, CancelClaimIInv
       DEF Next, JobMoves
  <1> QED BY <1>1, <1>2

\* The invariant holds in every state of every behaviour.
LEMMA Inductive == Spec => []IInv
  BY InitIInv, NextIInv, PTL DEF Spec

-----------------------------------------------------------------------------
(* Theorems *)

\* An order has at most one active claim, and an item one live claim of a type, although
\* create_claim and the revival of a rejected claim take different locks: the two unique
\* indexes suffice, whatever the jobs and the operators do (OneActiveClaim).
THEOREM OneActiveClaimAlways == Spec => []OneActiveClaim
  <1>1. ASSUME IInv PROVE OneActiveClaim
    <2>1. ASSUME NEW o \in Orders PROVE Cardinality({c \in ClaimsOf(o) : Active(c)}) <= 1
      <3> DEFINE S == {c \in ClaimsOf(o) : Active(c)}
      <3>1. \A c, d \in S : c = d
        BY <1>1 DEF IInv, ActiveIsAlone, ClaimsOf
      <3>2. CASE S = {}
        BY <3>2, FS_EmptySet
      <3>3. ASSUME NEW c \in S PROVE Cardinality(S) <= 1
        <4> HIDE DEF S
        <4>1. S = {c}
          BY <3>1, <3>3
        <4> QED BY <4>1, FS_Singleton
      <3> QED BY <3>2, <3>3
    <2> QED BY <1>1, <2>1 DEF OneActiveClaim, IInv, LiveIsAlone
  <1> QED BY <1>1, Inductive, PTL

-----------------------------------------------------------------------------
(* What the order lock keeps.  Both need the order's other writers to stand back:   *)
(* the batches and the webhook do not take order:<id>, and the revival of a         *)
(* rejected claim locks the claim alone.                                            *)

\* The claim a transaction is about to insert fits the order, or is the cancellation
\* of an order that a payment has locked since.
Fits(o, what) ==
  status[o] \in Claimable(TypeOf[o], what) \/ (status[o] = "paying" /\ what = "cancel")

FilingFits ==
  \A o \in Orders : txn[o].op = "claim" => Fits(o, txn[o].what)

\* Only a cancellation is filed on an order that is not paid yet, and it may be filed
\* before and after the payment.
LEMMA UnpaidIsCanceled ==
  ASSUME NEW o \in Orders, NEW type \in ClaimTypes,
         "pending" \in Claimable(TypeOf[o], type) \/ "paying" \in Claimable(TypeOf[o], type)
  PROVE  type = "cancel"
  BY ClaimsAssumption DEF Claimable, CLAIM_CANCEL_ACTION_FROM,
                          CLAIM_RETURN_EXCHANGE_ACTION_FROM, OrderTypes, ClaimTypes

\* Released or paid, an order that was being paid can be canceled by a claim.
LEMMA PaidStaysClaimable ==
  ASSUME NEW o \in Orders
  PROVE  {"pending", PostStatus(TypeOf[o])} \subseteq Claimable(TypeOf[o], "cancel")
  BY ClaimsAssumption DEF PostStatus, Claimable, CLAIM_CANCEL_ACTION_FROM, OrderTypes

\* A filing under way stays one that the order allows, if payment is the only job.
LEMMA FilingFitsNext ==
  ASSUME Jobs \subseteq {"pay"}, IInv, FilingFits, [Next]_vars
  PROVE  FilingFits'
  <1>0. status \in [Orders -> OrderStatuses] /\ TxnShape
    BY DEF IInv, TypeOK
  <1>1. CASE UNCHANGED vars
    BY <1>1 DEF vars, FilingFits, Fits
  <1>2. ASSUME NEW i \in Items, NEW type \in ClaimTypes, BeginClaim(i, type) PROVE FilingFits'
    BY <1>2 DEF BeginClaim, Begin, FilingFits, Fits, IInv, TypeOK
  <1>3. ASSUME NEW o \in Orders, BeginConfirm(o) \/ \E new \in OrderStatuses : BeginMove(o, new)
        PROVE  FilingFits'
    BY <1>3 DEF BeginMove, BeginConfirm, Begin, FilingFits, Fits, IInv, TypeOK
  <1>4. ASSUME NEW o \in Orders, CommitMove(o) \/ CommitConfirm(o) \/ Abort(o) \/ CommitClaim(o)
        PROVE  FilingFits'
    <2>1. \A p \in Orders : p # o => status'[p] = status[p] /\ txn'[p] = txn[p]
      BY <1>4 DEF CommitMove, CommitConfirm, Abort, CommitClaim, MoveTo, End, IInv, TypeOK
    <2>2. txn'[o].op = "free"
      BY <1>4 DEF CommitMove, CommitConfirm, Abort, CommitClaim, End, Free, IInv, TypeOK
    <2> QED BY <2>1, <2>2 DEF FilingFits, Fits
  <1>5. ASSUME NEW o \in Orders, JobLocks(o) \/ JobPays(o) \/ JobReleases(o) PROVE FilingFits'
    <2>1. /\ status[o] \in {"pending", "paying"} /\ txn' = txn
          /\ \E new \in {"pending", "paying", PostStatus(TypeOf[o])} :
               status' = [status EXCEPT ![o] = new]
      BY <1>5 DEF JobLocks, JobPays, JobReleases, MoveTo
    <2>2. ASSUME txn[o].op = "claim" PROVE Fits(o, txn[o].what)'
      <3>1. txn[o].what \in ClaimTypes
        BY <1>0, <2>2 DEF TxnShape
      <3>2. txn[o].what = "cancel"
        BY <2>1, <2>2, <3>1, UnpaidIsCanceled DEF FilingFits, Fits
      <3>3. status'[o] \in {"pending", "paying", PostStatus(TypeOf[o])}
        BY <1>0, <2>1
      <3> QED BY <2>1, <3>2, <3>3, PaidStaysClaimable DEF Fits
    <2>3. \A p \in Orders : (p # o => status'[p] = status[p]) /\ txn'[p] = txn[p]
      BY <1>0, <2>1
    <2> QED BY <2>2, <2>3 DEF FilingFits, Fits
  <1>6. ASSUME NEW o \in Orders, JobWebhookCancels(o) \/ JobCancelsStale(o) \/ JobAutoConfirms(o)
        PROVE  FALSE
    BY <1>6 DEF JobWebhookCancels, JobCancelsStale, JobAutoConfirms
  <1>7. ASSUME NEW c \in Claims, CancelClaim(c) PROVE FilingFits'
    BY <1>7 DEF CancelClaim, FilingFits, Fits
  <1>8. ASSUME NEW c \in Claims, NEW new \in ClaimStatuses, NEW isRollback \in BOOLEAN,
               AdminUpdateClaim(c, new, isRollback)
        PROVE  FilingFits'
    BY <1>8 DEF AdminUpdateClaim, FilingFits, Fits
  <1>9. CASE Next
    BY <1>9, <1>2, <1>3, <1>4, <1>5, <1>6, <1>7, <1>8 DEF Next
  <1> QED BY <1>1, <1>9

\* create_claim reads the status, and when it commits the order still has one that allows
\* the claim, or was locked for a payment meanwhile: nobody else moves it under order:<id>
\* (ClaimFitsStatus).
THEOREM ClaimsFitTheirOrder ==
  ASSUME Jobs \subseteq {"pay"}
  PROVE  Spec => ClaimFitsStatus
  <1> DEFINE A == \A c \in Claims :
        claim[c] = NoRow /\ claim'[c] # NoRow =>
          LET o == OrderOf[claim'[c].item] IN
          \/ status[o] \in Claimable(TypeOf[o], claim'[c].type)
          \/ status[o] = "paying" /\ claim'[c].type = "cancel"
  <1>1. Init => FilingFits
    BY DEF Init, FilingFits, Free
  <1>2. IInv /\ FilingFits /\ [Next]_vars => A
    <2> USE DEF Fits
    <2> SUFFICES ASSUME IInv, FilingFits, [Next]_vars, NEW c \in Claims,
                        claim[c] = NoRow, claim'[c] # NoRow
                 PROVE  Fits(OrderOf[claim'[c].item], claim'[c].type)
      OBVIOUS
    <2>1. PICK o \in Orders : CommitClaim(o)
      <3>1. c \notin Rows
        BY DEF Rows, NoRow
      <3>2. \A d \in Claims : CancelClaim(d) => claim'[c] = NoRow
        BY DEF CancelClaim, IInv, TypeOK
      <3>3. \A d \in Claims, new \in ClaimStatuses, isRollback \in BOOLEAN :
              AdminUpdateClaim(d, new, isRollback) => claim'[c] = claim[c]
        BY <3>1 DEF AdminUpdateClaim, IInv, TypeOK
      <3>4. claim' # claim
        OBVIOUS
      <3> QED BY <3>2, <3>3, <3>4 DEF Next, vars, BeginClaim, Abort, BeginMove, CommitMove,
             BeginConfirm, CommitConfirm, JobLocks, JobPays, JobReleases, JobWebhookCancels,
             JobCancelsStale, JobAutoConfirms
    <2>2. claim'[c].item = txn[o].item /\ claim'[c].type = txn[o].what /\ txn[o].op = "claim"
      BY <2>1 DEF CommitClaim, IInv, TypeOK
    <2>3. OrderOf[txn[o].item] = o
      BY <2>2 DEF IInv, TxnShape
    <2> QED BY <2>2, <2>3 DEF FilingFits
  <1>3. IInv /\ FilingFits /\ [Next]_vars => FilingFits' /\ [A]_vars
    BY <1>2, FilingFitsNext
  <1> QED BY <1>1, <1>3, Inductive, PTL DEF Spec, ClaimFitsStatus

\* Nothing is left to claim while the owner or an operator moves an order.
NothingClaimed ==
  \A o \in Orders :
    txn[o].op \in {"move", "confirm"} => ~ HasActiveClaim(o) /\ ~ HasCompletedCancelClaim(o)

\* Operators never make a claim active again that has ended.
NoRevival == \A e \in ClaimEdges : e[2] \in ACTIVE_CLAIM_STATUSES => e[1] \in ACTIVE_CLAIM_STATUSES

\* A claim is completed only while it is active.
LEMMA CompletedFromActive ==
  ASSUME NEW type \in ClaimTypes, NEW current \in ClaimStatuses, NEW isRollback \in BOOLEAN,
         ValidClaimEdit(type, current, "completed", isRollback)
  PROVE  current \in ACTIVE_CLAIM_STATUSES
  BY DEF ValidClaimEdit, ROLLBACK_CLAIM, FORWARD_CLAIM, ClaimTypes, ACTIVE_CLAIM_STATUSES

\* An order being confirmed stays free of claims, if rejected claims are not revived.
LEMMA NothingClaimedNext ==
  ASSUME NoRevival, IInv, NothingClaimed, [Next]_vars
  PROVE  NothingClaimed'
  <1>0. TypeOK /\ TxnShape
    BY DEF IInv
  <1>1. ASSUME claim' = claim, NEW o \in Orders,
               \A p \in Orders : p # o => txn'[p] = txn[p],
               txn'[o].op \in {"move", "confirm"} =>
                 ~ HasActiveClaim(o) /\ ~ HasCompletedCancelClaim(o)
        PROVE  NothingClaimed'
    <2>1. \A p \in Orders : /\ HasActiveClaim(p)' <=> HasActiveClaim(p)
                            /\ HasCompletedCancelClaim(p)' <=> HasCompletedCancelClaim(p)
      BY <1>1 DEF HasActiveClaim, HasCompletedCancelClaim, ClaimsOf, Rows, Active
    <2> QED BY <1>1, <2>1 DEF NothingClaimed
  <1>2. ASSUME claim' = claim, txn' = txn PROVE NothingClaimed'
    BY <1>2 DEF NothingClaimed, HasActiveClaim, HasCompletedCancelClaim, ClaimsOf, Rows, Active
  <1>3. ASSUME NEW i \in Items, NEW type \in ClaimTypes, BeginClaim(i, type) PROVE NothingClaimed'
    <2>1. OrderOf[i] \in Orders
      BY ClaimsAssumption
    <2> QED BY <1>0, <1>1, <1>3, <2>1 DEF BeginClaim, Begin, TypeOK
  <1>4. ASSUME NEW o \in Orders, BeginConfirm(o) \/ \E new \in OrderStatuses : BeginMove(o, new)
        PROVE  NothingClaimed'
    BY <1>0, <1>1, <1>4 DEF BeginMove, BeginConfirm, Begin, TypeOK
  <1>5. ASSUME NEW o \in Orders, CommitMove(o) \/ CommitConfirm(o) \/ Abort(o) PROVE NothingClaimed'
    BY <1>0, <1>1, <1>5 DEF CommitMove, CommitConfirm, Abort, End, Free, TypeOK
  <1>6. ASSUME NEW o \in Orders, JobMoves(o) PROVE NothingClaimed'
    BY <1>2, <1>6, JobMovesOne
  <1>7. ASSUME NEW o \in Orders, CommitClaim(o) PROVE NothingClaimed'
    <2>1. PICK c \in Claims \ Rows :
            claim' = [claim EXCEPT ![c] = [item |-> txn[o].item, type |-> txn[o].what,
                                           status |-> "received"]]
      BY <1>7 DEF CommitClaim
    <2>2. OrderOf[txn[o].item] = o
      BY <1>0, <1>7 DEF CommitClaim, TxnShape
    <2>3. /\ txn'[o].op = "free" /\ \A p \in Orders : p # o => txn'[p] = txn[p]
      BY <1>0, <1>7 DEF CommitClaim, End, Free, TypeOK
    <2>4. /\ \A d \in Claims : d # c => claim'[d] = claim[d]
          /\ claim'[c].item = txn[o].item
      BY <1>0, <2>1 DEF TypeOK
    <2>5. ASSUME NEW p \in Orders, p # o, txn[p].op \in {"move", "confirm"}
          PROVE  ~ HasActiveClaim(p)' /\ ~ HasCompletedCancelClaim(p)'
      <3>1. ~ HasActiveClaim(p) /\ ~ HasCompletedCancelClaim(p)
        BY <2>5 DEF NothingClaimed
      <3> QED BY <2>2, <2>4, <2>5, <3>1
                 DEF HasActiveClaim, HasCompletedCancelClaim, ClaimsOf, Rows, Active
    <2> QED BY <2>3, <2>5 DEF NothingClaimed
  <1>8. ASSUME NEW c \in Claims, CancelClaim(c) PROVE NothingClaimed'
    <2>1. txn' = txn /\ \A d \in Rows' : d \in Rows /\ claim'[d] = claim[d]
      BY <1>0, <1>8 DEF CancelClaim, TypeOK, Rows, NoRow
    <2> QED BY <2>1 DEF NothingClaimed, HasActiveClaim, HasCompletedCancelClaim, ClaimsOf, Active
  <1>9. ASSUME NEW c \in Claims, NEW new \in ClaimStatuses, NEW isRollback \in BOOLEAN,
               AdminUpdateClaim(c, new, isRollback)
        PROVE  NothingClaimed'
    <2>1. c \in Rows /\ claim[c] \in ClaimRows
      BY <1>0, <1>9, RowShape DEF AdminUpdateClaim
    <2>2. new \in ACTIVE_CLAIM_STATUSES => claim[c].status \in ACTIVE_CLAIM_STATUSES
      BY <1>9 DEF AdminUpdateClaim, NoRevival
    <2>3. new = "completed" => claim[c].status \in ACTIVE_CLAIM_STATUSES
      BY <1>9, <2>1, CompletedFromActive DEF AdminUpdateClaim, ClaimRows
    <2>4. /\ txn' = txn /\ \A d \in Claims : d # c => claim'[d] = claim[d]
          /\ claim'[c].item = claim[c].item /\ claim'[c].type = claim[c].type
          /\ claim'[c].status = new
      BY <1>0, <1>9, <2>1 DEF AdminUpdateClaim, TypeOK, ClaimRows
    <2>5. ASSUME NEW p \in Orders, txn[p].op \in {"move", "confirm"}
          PROVE  ~ HasActiveClaim(p)' /\ ~ HasCompletedCancelClaim(p)'
      <3>1. ~ HasActiveClaim(p) /\ ~ HasCompletedCancelClaim(p)
        BY <2>5 DEF NothingClaimed
      <3>2. \A d \in Rows' : d \in Rows /\ d \in Claims /\ claim'[d].item = claim[d].item
        BY <2>1, <2>4 DEF Rows
      <3>3. ~ HasActiveClaim(p)'
        BY <2>1, <2>2, <2>4, <3>1, <3>2 DEF HasActiveClaim, ClaimsOf, Active
      <3>4. ~ HasCompletedCancelClaim(p)'
        BY <2>1, <2>3, <2>4, <3>1, <3>2 DEF HasActiveClaim, HasCompletedCancelClaim, ClaimsOf, Active
      <3> QED BY <3>3, <3>4
    <2> QED BY <2>4, <2>5 DEF NothingClaimed
  <1>10. CASE UNCHANGED vars
    BY <1>2, <1>10 DEF vars
  <1>11. CASE Next
    BY <1>11, <1>3, <1>4, <1>5, <1>6, <1>7, <1>8, <1>9 DEF Next, JobMoves
  <1> QED BY <1>10, <1>11

\* So it is in every state.
LEMMA NothingClaimedAlways == ASSUME NoRevival PROVE Spec => [](IInv /\ NothingClaimed)
  <1>1. Init => NothingClaimed
    BY DEF Init, NothingClaimed, Free
  <1>2. IInv /\ NothingClaimed /\ [Next]_vars => NothingClaimed'
    BY NothingClaimedNext
  <1> QED BY <1>1, <1>2, Inductive, PTL DEF Spec

\* The owner and the operators do not move an order that has an active claim: what they
\* looked at under order:<id> still holds at their commit (OrderFrozenByClaim).
THEOREM FrozenByClaim == ASSUME NoRevival PROVE Spec => OrderFrozenByClaim
  <1> DEFINE A == \A o \in Orders :
        txn[o].op \in {"move", "confirm"} /\ status'[o] # status[o] => ~ HasActiveClaim(o)
  <1>1. NothingClaimed => A
    BY DEF NothingClaimed
  <1> QED BY <1>1, NothingClaimedAlways, PTL DEF OrderFrozenByClaim

\* An order whose cancel claim was completed is not purchase-confirmed, while the batch,
\* which does not look, is left out (CanceledNeverConfirmed).
THEOREM CanceledIsNotConfirmed ==
  ASSUME NoRevival, Jobs \subseteq {"pay"}
  PROVE  Spec => CanceledNeverConfirmed
  <1> DEFINE A == \A o \in Orders :
        status'[o] = "completed" /\ status[o] # "completed" =>
          ~ \E c \in Claims : /\ claim[c].type = "cancel"
                              /\ claim[c].status = "completed"
                              /\ OrderOf[claim[c].item] = o
  <1>1. IInv /\ NothingClaimed /\ [Next]_vars => A
    <2> SUFFICES ASSUME IInv, NothingClaimed, [Next]_vars, NEW o \in Orders,
                        status'[o] = "completed", status[o] # "completed",
                        NEW c \in Claims, claim[c].type = "cancel",
                        claim[c].status = "completed", OrderOf[claim[c].item] = o
                 PROVE  FALSE
      OBVIOUS
    <2>1. HasCompletedCancelClaim(o)
      BY DEF HasCompletedCancelClaim, ClaimsOf, Rows
    <2>2. txn[o].op \notin {"move", "confirm"}
      BY <2>1 DEF NothingClaimed
    <2>3. PICK p \in Orders : CommitMove(p) \/ CommitConfirm(p) \/ JobLocks(p) \/ JobPays(p) \/ JobReleases(p)
      <3>1. status' # status
        OBVIOUS
      <3> QED BY <3>1 DEF Next, vars, BeginClaim, CommitClaim, Abort, CancelClaim, AdminUpdateClaim,
             BeginMove, BeginConfirm, JobWebhookCancels, JobCancelsStale, JobAutoConfirms
    <2>4. p = o
      BY <2>3 DEF CommitMove, CommitConfirm, JobLocks, JobPays, JobReleases, MoveTo, IInv, TypeOK
    <2>5. CASE CommitMove(p) \/ CommitConfirm(p)
      BY <2>2, <2>4, <2>5 DEF CommitMove, CommitConfirm
    <2>6. CASE JobLocks(p) \/ JobPays(p) \/ JobReleases(p)
      <3>1. status'[o] \in {"pending", "paying", PostStatus(TypeOf[o])}
        BY <2>4, <2>6 DEF JobLocks, JobPays, JobReleases, MoveTo, IInv, TypeOK
      <3> QED BY <3>1 DEF PostStatus
    <2> QED BY <2>3, <2>5, <2>6
  <1> QED BY <1>1, NothingClaimedAlways, PTL DEF Spec, CanceledNeverConfirmed

-----------------------------------------------------------------------------
(* The life of an order *)

\* What a transaction is about to write is still an edit, or a completion, of the status
\* that its order has: the row is held since it was read.
EditStands(o) ==
  /\ txn[o].op = "move" =>
       \/ \E isRollback \in BOOLEAN :
            ValidTransition(TypeOf[o], status[o], txn[o].what, isRollback, arrivedFrom[o])
       \/ status[o] = "toSend" /\ txn[o].what \in {"sent", "sendCheck"}
  /\ txn[o].op = "confirm" => status[o] \in {"shipping", "delivered"}

EditsStand == \A o \in Orders : EditStands(o)

\* A step that leaves an order, and the transaction on it, alone keeps its edit standing;
\* so does one after which no transaction has its row.
LEMMA EditStandsKept ==
  ASSUME EditsStand,
         \A o \in Orders :
           \/ /\ txn'[o] = txn[o] /\ status'[o] = status[o] /\ arrivedFrom'[o] = arrivedFrom[o]
           \/ txn'[o].op \in {"free", "claim"}
           \/ EditStands(o)'
  PROVE  EditsStand'
  <1> SUFFICES ASSUME NEW o \in Orders PROVE EditStands(o)'
    BY DEF EditsStand
  <1>1. EditStands(o)
    BY DEF EditsStand
  <1> QED BY <1>1 DEF EditStands

\* Every step keeps the edits standing.
LEMMA EditsStandNext == ASSUME IInv, EditsStand, [Next]_vars PROVE EditsStand'
  <1>0. /\ status \in [Orders -> OrderStatuses] /\ TypeOK /\ TxnShape
        /\ DOMAIN txn = Orders /\ DOMAIN arrivedFrom = Orders
    BY DEF IInv, TypeOK
  <1>1. CASE UNCHANGED <<status, arrivedFrom, txn>>
    BY <1>1, EditStandsKept
  <1>2. ASSUME NEW i \in Items, NEW type \in ClaimTypes, BeginClaim(i, type) PROVE EditsStand'
    <2>1. OrderOf[i] \in Orders
      BY ClaimsAssumption
    <2>2. \A o \in Orders : txn'[o] = txn[o] \/ txn'[o].op = "claim"
      BY <1>0, <1>2, <2>1 DEF BeginClaim, Begin
    <2> QED BY <1>2, <2>2, EditStandsKept DEF BeginClaim
  <1>3. ASSUME NEW o \in Orders, NEW new \in OrderStatuses, BeginMove(o, new) PROVE EditsStand'
    <2>1. txn'[o] = [op |-> "move", item |-> NoItem, what |-> new]
      BY <1>0, <1>3 DEF BeginMove, Begin
    <2>2. status' = status /\ arrivedFrom' = arrivedFrom
      BY <1>3 DEF BeginMove
    <2>3. EditStands(o)'
      BY <1>3, <2>1, <2>2 DEF BeginMove, EditStands
    <2>4. \A p \in Orders : p # o => txn'[p] = txn[p]
      BY <1>0, <1>3 DEF BeginMove, Begin
    <2> QED BY <2>2, <2>3, <2>4, EditStandsKept
  <1>4. ASSUME NEW o \in Orders, BeginConfirm(o) PROVE EditsStand'
    <2>1. txn'[o] = [op |-> "confirm", item |-> NoItem, what |-> "completed"]
      BY <1>0, <1>4 DEF BeginConfirm, Begin
    <2>2. status' = status /\ arrivedFrom' = arrivedFrom
      BY <1>4 DEF BeginConfirm
    <2>3. EditStands(o)'
      BY <1>4, <2>1, <2>2 DEF BeginConfirm, EditStands
    <2>4. \A p \in Orders : p # o => txn'[p] = txn[p]
      BY <1>0, <1>4 DEF BeginConfirm, Begin
    <2> QED BY <2>2, <2>3, <2>4, EditStandsKept
  <1>5. ASSUME NEW o \in Orders, CommitMove(o) \/ CommitConfirm(o) \/ Abort(o) \/ CommitClaim(o)
        PROVE  EditsStand'
    <2>1. txn'[o].op = "free" /\ \A p \in Orders : p # o => txn'[p] = txn[p]
      BY <1>0, <1>5 DEF CommitMove, CommitConfirm, Abort, CommitClaim, End, Free
    <2>2. \A p \in Orders : p # o => status'[p] = status[p] /\ arrivedFrom'[p] = arrivedFrom[p]
      BY <1>0, <1>5 DEF CommitMove, CommitConfirm, Abort, CommitClaim, MoveTo
    <2> QED BY <2>1, <2>2, EditStandsKept
  <1>6. ASSUME NEW o \in Orders, JobMoves(o) PROVE EditsStand'
    <2>1. PICK new \in OrderStatuses : MoveTo(o, new)
      BY <1>6, JobMovesOne
    <2>2. txn' = txn /\ txn[o].op \in {"free", "claim"}
      BY <1>6, JobMovesOne DEF RowFree
    <2>3. \A p \in Orders : p # o => status'[p] = status[p] /\ arrivedFrom'[p] = arrivedFrom[p]
      BY <1>0, <2>1 DEF MoveTo
    <2> QED BY <2>2, <2>3, EditStandsKept
  <1>7. ASSUME NEW c \in Claims,
               \/ CancelClaim(c)
               \/ \E new \in ClaimStatuses, isRollback \in BOOLEAN : AdminUpdateClaim(c, new, isRollback)
        PROVE  EditsStand'
    BY <1>1, <1>7 DEF CancelClaim, AdminUpdateClaim
  <1>8. CASE UNCHANGED vars
    BY <1>1, <1>8 DEF vars
  <1> QED BY <1>2, <1>3, <1>4, <1>5, <1>6, <1>7, <1>8 DEF Next, JobMoves

\* The contract reads the same tables as the code's edits do.
LEMMA LifeReadsTheTables ==
  ASSUME NEW o, NEW type, NEW from, NEW to, NEW isRollback, NEW previous
  PROVE  Life(o)!ValidTransition(type, from, to, isRollback, previous)
           = ValidTransition(type, from, to, isRollback, previous)
  BY Zenon DEF Life!ValidTransition, ValidTransition, Life!ROLLBACK, ROLLBACK, Life!FORWARD, FORWARD,
         Life!CANCELABLE_FROM, CANCELABLE_FROM,
         Life!ROLLBACK_FORBIDDEN_CURRENT, ROLLBACK_FORBIDDEN_CURRENT

\* One order moves by MoveTo as OrderLife lets it; the others stay.
LEMMA MovesOne ==
  ASSUME IInv, NEW o \in Orders, NEW new \in OrderStatuses, MoveTo(o, new),
         Life(o)!LifeNext
  PROVE  \A p \in Orders : [Life(p)!LifeNext]_<<status[p], arrivedFrom[p]>>
  <1>1. \A p \in Orders : p # o => status'[p] = status[p] /\ arrivedFrom'[p] = arrivedFrom[p]
    BY DEF IInv, TypeOK, MoveTo
  <1> QED BY <1>1

\* Operators, the owner, the payment path, the webhook and the batches move an order as
\* OrderLife says, whatever locks they take: an edit is applied to the status it was
\* checked against (ImplementsLife).
THEOREM OrdersLive == Spec => ImplementsLife
  <1> DEFINE A == \A o \in Orders : [Life(o)!LifeNext]_<<status[o], arrivedFrom[o]>>
             I == \A o \in Orders : Life(o)!LifeInit
  <1>1. Init => EditsStand
    BY DEF Init, EditsStand, EditStands, Free
  <1>2. Init => I
    BY DEF Init, Life!LifeInit
  <1>3. IInv /\ EditsStand /\ [Next]_vars => A
    <2> SUFFICES ASSUME IInv, EditsStand, [Next]_vars PROVE A
      OBVIOUS
    <2>0. TypeOK /\ TxnShape
      BY DEF IInv
    <2>1. ASSUME NEW o \in Orders, CommitMove(o) PROVE A
      <3>1. txn[o].what \in OrderStatuses /\ MoveTo(o, txn[o].what) /\ EditStands(o)
        BY <2>0, <2>1 DEF CommitMove, TxnShape, EditsStand
      <3>2. /\ status'[o] = txn[o].what
            /\ arrivedFrom'[o] = IF txn[o].what = "received" /\ status[o] \in RepairSendStatuses
                                   THEN status[o] ELSE arrivedFrom[o]
        BY <2>0, <3>1 DEF MoveTo, TypeOK
      <3>3. status[o] # "none"
        BY <2>0 DEF TypeOK, OrderStatuses
      <3>4. Life(o)!LifeNext
        <4>1. CASE \E isRollback \in BOOLEAN :
                     ValidTransition(TypeOf[o], status[o], txn[o].what, isRollback, arrivedFrom[o])
          <5>1. PICK isRollback \in BOOLEAN :
                  ValidTransition(TypeOf[o], status[o], txn[o].what, isRollback, arrivedFrom[o])
            BY <4>1
          <5>2. Life(o)!ValidTransition(TypeOf[o], status[o], txn[o].what, isRollback, arrivedFrom[o])
            BY <5>1, LifeReadsTheTables
          <5>3. Life(o)!Edited
            BY <3>1, <3>2, <3>3, <5>2
               DEF Life!Edited, Life!OrderStatuses, OrderStatuses,
                   Life!RepairSendStatuses, RepairSendStatuses
          <5> QED BY <5>3 DEF Life!LifeNext
        <4>2. CASE status[o] = "toSend" /\ txn[o].what \in {"sent", "sendCheck"}
          <5>1. Life(o)!SentIn
            BY <3>2, <4>2 DEF Life!SentIn, Life!Turns
          <5> QED BY <5>1 DEF Life!LifeNext
        <4> QED BY <2>1, <3>1, <4>1, <4>2 DEF CommitMove, EditStands
      <3> QED BY <3>1, <3>4, MovesOne
    <2>2. ASSUME NEW o \in Orders, CommitConfirm(o) PROVE A
      <3>1. MoveTo(o, "completed") /\ status[o] \in {"shipping", "delivered"}
        BY <2>2 DEF CommitConfirm, EditsStand, EditStands
      <3>2. Life(o)!Completed
        BY <2>0, <3>1 DEF MoveTo, TypeOK, Life!Completed, Life!Turns
      <3> QED BY <3>1, <3>2, MovesOne DEF Life!LifeNext, OrderStatuses
    <2>3. ASSUME NEW o \in Orders, JobMoves(o) PROVE A
      <3>1. PICK new \in OrderStatuses : MoveTo(o, new)
        BY <2>3, JobMovesOne
      <3>2. Life(o)!LifeNext
        BY <2>0, <2>3, PostStatusIsStatus
           DEF JobMoves, JobLocks, JobPays, JobReleases, JobWebhookCancels, JobCancelsStale,
               JobAutoConfirms, MoveTo, TypeOK, PostStatus, Life!PostStatus, RepairSendStatuses,
               Life!LifeNext, Life!Locked, Life!Paid, Life!Released, Life!Canceled, Life!Completed,
               Life!Turns, OrderStatuses, Life!OrderStatuses
      <3> QED BY <3>1, <3>2, MovesOne
    <2>4. CASE UNCHANGED <<status, arrivedFrom>>
      BY <2>4
    <2>5. CASE UNCHANGED vars
      BY <2>4, <2>5 DEF vars
    <2> QED BY <2>1, <2>2, <2>3, <2>4, <2>5
               DEF Next, JobMoves, BeginClaim, CommitClaim, Abort, CancelClaim, AdminUpdateClaim,
                   BeginMove, BeginConfirm
  <1>4. IInv /\ EditsStand /\ [Next]_vars => EditsStand' /\ [A]_vars
    BY <1>3, EditsStandNext
  <1> QED BY <1>1, <1>2, <1>4, Inductive, PTL DEF Spec, ImplementsLife
=============================================================================
