------------------------------ MODULE MCImages ------------------------------
(***************************************************************************)
(* Two images of any two kinds, a clean-up that takes one row at a time,   *)
(* and a cart of at most two lines, which may show one photo.              *)
(***************************************************************************)
EXTENDS Images, FiniteSetsExt, TLC

CONSTANTS i1, i2

\* The images differ in nothing else, so one order of the kinds is enough.
Pairs ==
  LET rank == [quote |-> 1, review |-> 2, reform |-> 3, repair |-> 4]
  IN  {k \in [Images -> Kinds] : rank[k[i1]] <= rank[k[i2]]}

TwoLines == {c \in [Images -> 0 .. 2] : MapThenSumSet(LAMBDA i : c[i], Images) <= 2}
=============================================================================
