----------------------------- MODULE ClaimStatus -----------------------------
(***************************************************************************)
(* The claim status tables of apps/api/src/api/domains/claims/service.py   *)
(* and orders/status_machine.py.  In English:                              *)
(*                                                                         *)
(*   received 접수    processing 처리중   pickup 수거요청   collected 수거완료 *)
(*   resent 재발송    completed 완료      rejected 거부                     *)
(*                                                                         *)
(* The status 취소 of the CHECK constraint is never written.               *)
(***************************************************************************)
EXTENDS OrderStatus

ClaimTypes == {"cancel", "return", "exchange"}

ClaimStatuses == {"received", "processing", "pickup", "collected", "resent",
                  "completed", "rejected"}

ACTIVE_CLAIM_STATUSES ==
  {"received", "processing", "pickup", "collected", "resent"}

FORWARD_CLAIM ==
  [cancel   |-> {<<"received", "processing">>, <<"processing", "completed">>},
   return   |-> {<<"received", "pickup">>, <<"pickup", "collected">>,
                 <<"collected", "completed">>},
   exchange |-> {<<"received", "pickup">>, <<"pickup", "collected">>,
                 <<"collected", "resent">>, <<"resent", "completed">>}]

REJECTABLE_FROM ==
  [cancel   |-> {"received", "processing"},
   return   |-> {"received", "pickup", "collected"},
   exchange |-> {"received", "pickup", "collected", "resent"}]

ROLLBACK_CLAIM ==
  [cancel   |-> {<<"rejected", "received">>, <<"processing", "received">>},
   return   |-> {<<"rejected", "received">>, <<"pickup", "received">>},
   exchange |-> {<<"rejected", "received">>, <<"pickup", "received">>}]

CLAIM_CANCEL_ACTION_FROM ==
  [sale   |-> {"pending", "processing"},
   custom |-> {"pending", "received"},
   sample |-> {"pending", "received"},
   repair |-> {"pending", "toSend", "sent", "sendCheck"}]

CLAIM_RETURN_EXCHANGE_ACTION_FROM ==
  [sale   |-> {"shipping", "delivered"},
   custom |-> {}, sample |-> {}, repair |-> {}]

\* The order statuses create_claim accepts for a claim of a type.
Claimable(orderType, claimType) ==
  IF claimType = "cancel" THEN CLAIM_CANCEL_ACTION_FROM[orderType]
                          ELSE CLAIM_RETURN_EXCHANGE_ACTION_FROM[orderType]

\* The edits admin_update_status of claims accepts.
ValidClaimEdit(type, current, new, isRollback) ==
  IF isRollback
    THEN <<current, new>> \in ROLLBACK_CLAIM[type]
    ELSE \/ <<current, new>> \in FORWARD_CLAIM[type]
         \/ new = "rejected" /\ current \in REJECTABLE_FROM[type]
=============================================================================
