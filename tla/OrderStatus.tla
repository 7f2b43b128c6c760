----------------------------- MODULE OrderStatus -----------------------------
(***************************************************************************)
(* The order status tables of apps/api/src/api/domains/orders/             *)
(* status_machine.py and the check that admin_update_status makes with     *)
(* them.  Statuses are the Korean strings of the code, written here in     *)
(* English:                                                                *)
(*                                                                         *)
(*   pending 대기중       paying 결제중         processing 진행중          *)
(*   shipping 배송중      delivered 배송완료    completed 완료             *)
(*   canceled 취소        failed 실패           received 접수              *)
(*   making 제작중        made 제작완료         repairing 수선중           *)
(*   repaired 수선완료    toSend 발송대기       sent 발송중                *)
(*   sendCheck 발송확인중 collected 수거완료    resent 재발송              *)
(*                                                                         *)
(* "collected" and "resent" are claim statuses; the order tables only name *)
(* them in ROLLBACK_FORBIDDEN_CURRENT.                                     *)
(***************************************************************************)

OrderTypes == {"sale", "custom", "sample", "repair"}

\* The CHECK constraint on orders.status.
OrderStatuses ==
  {"pending", "paying", "processing", "shipping", "delivered", "completed",
   "canceled", "failed", "received", "making", "made", "repairing",
   "repaired", "toSend", "sent", "sendCheck"}

FORWARD ==
  [sale   |-> {<<"pending", "processing">>, <<"processing", "shipping">>,
               <<"shipping", "delivered">>, <<"delivered", "completed">>},
   custom |-> {<<"pending", "received">>, <<"received", "making">>,
               <<"making", "made">>, <<"made", "shipping">>,
               <<"shipping", "delivered">>, <<"delivered", "completed">>},
   sample |-> {<<"received", "making">>, <<"making", "shipping">>,
               <<"shipping", "delivered">>, <<"delivered", "completed">>},
   repair |-> {<<"toSend", "received">>, <<"sent", "received">>,
               <<"sendCheck", "received">>, <<"received", "repairing">>,
               <<"repairing", "repaired">>, <<"repaired", "shipping">>,
               <<"shipping", "delivered">>, <<"delivered", "completed">>}]

CANCELABLE_FROM ==
  [sale   |-> {"pending", "paying", "processing"},
   custom |-> {"pending", "paying", "received"},
   sample |-> {"pending", "paying", "received"},
   repair |-> {"pending", "paying", "toSend", "sent", "sendCheck"}]

ROLLBACK_FORBIDDEN_CURRENT ==
  {"shipping", "delivered", "completed", "canceled", "collected", "resent"}

ROLLBACK ==
  [sale   |-> {<<"paying", "pending">>, <<"processing", "pending">>},
   custom |-> {<<"paying", "pending">>, <<"received", "pending">>,
               <<"making", "received">>, <<"made", "making">>},
   sample |-> {<<"paying", "pending">>, <<"received", "pending">>,
               <<"making", "received">>},
   repair |-> {<<"repairing", "received">>, <<"repaired", "repairing">>}]

\* The statuses a repair order can be received from: repair_previous_statuses
\* reads the last of them back from order_status_logs.
RepairSendStatuses == {"toSend", "sent", "sendCheck"}

\* validate_transition: it returns, or raises and the request changes nothing.
ValidTransition(type, current, new, isRollback, repairPrevious) ==
  IF isRollback
    THEN /\ current \notin ROLLBACK_FORBIDDEN_CURRENT
         /\ \/ <<current, new>> \in ROLLBACK[type]
            \/ type = "repair" /\ current = "received" /\ new = repairPrevious
    ELSE IF new = "canceled"
      THEN current \in CANCELABLE_FROM[type]
      ELSE <<current, new>> \in FORWARD[type]

\* _post_status: what a confirmed payment makes of an order.
PostStatus(type) ==
  CASE type = "sale"   -> "processing"
    [] type = "repair" -> "toSend"
    [] OTHER           -> "received"
=============================================================================
