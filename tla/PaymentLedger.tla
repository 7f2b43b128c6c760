---------------------------- MODULE PaymentLedger ----------------------------
(***************************************************************************)
(* What the payment path of apps/api promises of one payment group: the    *)
(* customer pays once, by one attempt at a time; an attempt is given up    *)
(* only while no money was taken; money that was taken is booked to the    *)
(* group under the same key, for ever.  Module Payment implements it when  *)
(* operators leave unpaid and locked orders alone.                         *)
(***************************************************************************)
CONSTANTS Groups, Keys, KeyGroup, NoKey

VARIABLE ledger   \* [Groups -> [phase, key]]

Phases == {"free", "trying", "captured", "booked"}

LedgerTypeOK ==
  ledger \in [Groups -> [phase : Phases, key : Keys \union {NoKey}]]

LedgerInit == ledger = [g \in Groups |-> [phase |-> "free", key |-> NoKey]]

Move(g, from, to, k) ==
  /\ ledger[g].phase = from
  /\ from # "free" => ledger[g].key = k
  /\ ledger' = [ledger EXCEPT ![g] =
                  [phase |-> to, key |-> IF to = "free" THEN NoKey ELSE k]]

Begin(g, k)   == KeyGroup[k] = g /\ Move(g, "free", "trying", k)
GiveUp(g, k)  == Move(g, "trying", "free", k)
Capture(g, k) == Move(g, "trying", "captured", k)
Book(g, k)    == Move(g, "captured", "booked", k)

LedgerNext ==
  \E g \in Groups, k \in Keys :
    Begin(g, k) \/ GiveUp(g, k) \/ Capture(g, k) \/ Book(g, k)

LedgerSpec == LedgerInit /\ [][LedgerNext]_ledger
=============================================================================
