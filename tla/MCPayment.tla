------------------------------ MODULE MCPayment ------------------------------
(***************************************************************************)
(* Instances of Payment for TLC.                                           *)
(***************************************************************************)
EXTENDS Payment, TLC

CONSTANTS g1, g2, o1, o2, c1, c2, k1, k2, r1, r2

\* One group of a sale and a repair order, as a checkout of both creates it.
OneGroupOf == [o \in {o1, o2} |-> g1]
SaleAndRepair == (o1 :> "sale") @@ (o2 :> "repair")
OneGroupKeys == [k \in {k1, k2} |-> g1]

\* Two checkouts of one order each.
TwoGroupsOf == (o1 :> g1) @@ (o2 :> g2)
SampleAndSale == (o1 :> "sample") @@ (o2 :> "sale")
TwoGroupKeys == (k1 :> g1) @@ (k2 :> g2)

\* The edits that reach or leave an unpaid, a locked or a just-paid sale order,
\* and one that advances it further.
MoneyEdges ==
  {<<"pending", "processing">>, <<"pending", "canceled">>,
   <<"paying", "pending">>, <<"paying", "canceled">>,
   <<"processing", "pending">>, <<"processing", "canceled">>,
   <<"processing", "shipping">>}

\* Careful edits of a sale and of a repair order.
FewCarefulEdges ==
  {<<"pending", "canceled">>, <<"paying", "canceled">>,
   <<"processing", "shipping">>, <<"processing", "canceled">>,
   <<"sent", "received">>, <<"received", "sent">>}

TwoSales == [o \in {o1, o2} |-> "sale"]

OneGroupSymmetry ==
  Permutations({r1, r2}) \union Permutations({k1, k2}) \union Permutations({o1, o2})
=============================================================================
