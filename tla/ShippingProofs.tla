---------------------------- MODULE ShippingProofs ----------------------------
(***************************************************************************)
(* Theorems about Shipping, for every type of order and any number of      *)
(* tracking edits handled at once.                                         *)
(***************************************************************************)
EXTENDS Shipping, TLAPS

\* An order that is shipping with a complete pair was announced, or an edit that
\* completed the pair is still to announce it.
NoticeDue ==
  status = "shipping" /\ Ready => announced \/ \E e \in Editors : editor[e] = "wasNotReady"

IInv == TypeOK /\ NoticeDue

-----------------------------------------------------------------------------
\* No rollback makes an order shipping.
LEMMA NoRollbackToShipping ==
  ASSUME NEW current, ValidTransition(Type, current, "shipping", TRUE, "none")
  PROVE  FALSE
  BY ShippingAssumption DEF ValidTransition, ROLLBACK, OrderTypes

\* At first the invariant holds.
LEMMA InitIInv == Init => IInv
  BY ShippingAssumption DEF Init, IInv, TypeOK, NoticeDue, Ready, PostStatus, OrderTypes, OrderStatuses

\* A move of the order keeps the invariant.
LEMMA MoveIInv == ASSUME IInv, NEW new \in OrderStatuses, Move(new) PROVE IInv'
  <1>1. TypeOK'
    BY DEF Move, IInv, TypeOK, NotifyIf
  <1>2. NoticeDue'
    <2> SUFFICES ASSUME new = "shipping", Ready PROVE announced'
      BY DEF Move, NoticeDue, Ready, NotifyIf
    <2>1. PICK isRollback \in BOOLEAN :
            /\ ValidTransition(Type, status, new, isRollback, "none")
            /\ NotifyIf(~isRollback /\ new = "shipping" /\ Ready)
      BY DEF Move
    <2>2. ~ isRollback
      BY <2>1, NoRollbackToShipping
    <2> QED BY <2>1, <2>2 DEF NotifyIf
  <1> QED BY <1>1, <1>2 DEF IInv

\* An edit that completes the pair remembers that it was not complete.
LEMMA EditIInv ==
  ASSUME IInv, NEW e \in Editors, NEW withCourier \in BOOLEAN, NEW withNumber \in BOOLEAN,
         EditTracking(e, withCourier, withNumber)
  PROVE  IInv'
  <1>1. TypeOK'
    BY DEF EditTracking, IInv, TypeOK
  <1>2. NoticeDue'
    <2> SUFFICES ASSUME status = "shipping", Ready',
                        \A d \in Editors : editor'[d] # "wasNotReady"
                 PROVE  announced'
      BY DEF EditTracking, NoticeDue
    <2>1. Ready
      BY DEF EditTracking, IInv, TypeOK
    <2>2. withCourier /\ withNumber
      BY DEF EditTracking, Ready
    <2>3. \A d \in Editors : editor[d] # "wasNotReady"
      BY DEF EditTracking, IInv, TypeOK
    <2>4. announced
      BY <2>1, <2>3 DEF IInv, NoticeDue
    <2> QED BY <2>1, <2>4 DEF EditTracking
  <1> QED BY <1>1, <1>2 DEF IInv

\* Whoever ends such an edit announces the pair.
LEMMA NotifiesIInv == ASSUME IInv, NEW e \in Editors, EditTrackingNotifies(e) PROVE IInv'
  <1>1. TypeOK'
    BY DEF EditTrackingNotifies, IInv, TypeOK, NotifyIf
  <1>2. NoticeDue'
    <2> SUFFICES ASSUME status = "shipping", Ready PROVE announced' \/ \E d \in Editors : editor'[d] = "wasNotReady"
      BY DEF EditTrackingNotifies, NoticeDue, Ready
    <2>1. CASE announced \/ editor[e] = "wasNotReady"
      BY <2>1 DEF EditTrackingNotifies, NotifyIf
    <2>2. CASE ~ announced /\ editor[e] # "wasNotReady"
      <3>1. PICK d \in Editors : editor[d] = "wasNotReady"
        BY <2>2 DEF IInv, NoticeDue
      <3>2. d # e
        BY <2>2, <3>1
      <3>3. editor'[d] = "wasNotReady"
        BY <3>1, <3>2 DEF EditTrackingNotifies, IInv, TypeOK
      <3> QED BY <3>3
    <2> QED BY <2>1, <2>2
  <1> QED BY <1>1, <1>2 DEF IInv

\* Every step keeps the invariant.
LEMMA NextIInv == IInv /\ [Next]_vars => IInv'
  <1> SUFFICES ASSUME IInv, [Next]_vars PROVE IInv'
    OBVIOUS
  <1>1. CASE UNCHANGED vars
    BY <1>1 DEF vars, IInv, TypeOK, NoticeDue, Ready
  <1>2. CASE ConfirmPurchase \/ AutoConfirm
    BY <1>2 DEF ConfirmPurchase, AutoConfirm, IInv, TypeOK, NoticeDue, OrderStatuses
  <1>3. CASE SevenDaysPass
    BY <1>3 DEF SevenDaysPass, IInv, TypeOK, NoticeDue, Ready
  <1> QED BY <1>1, <1>2, <1>3, MoveIInv, EditIInv, NotifiesIInv DEF Next

\* The invariant holds in every state of every behaviour.
LEMMA Inductive == Spec => []IInv
  BY InitIInv, NextIInv, PTL DEF Spec

-----------------------------------------------------------------------------
\* The shipping notice is not lost: once the tracking edits under way are through, an
\* order that is shipping with courier and number has been announced, in whatever order
\* admin_update_status and admin_update_tracking committed and read (NoticeNotLost).
THEOREM NoticeIsSent == Spec => []NoticeNotLost
  <1>1. IInv => NoticeNotLost
    BY DEF IInv, NoticeDue, NoticeNotLost
  <1> QED BY <1>1, Inductive, PTL
=============================================================================
