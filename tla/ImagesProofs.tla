---------------------------- MODULE ImagesProofs ----------------------------
(***************************************************************************)
(* Theorems about Images, for every set of rows and of runs of the clean-up*)
(* and every size of a run.                                                *)
(***************************************************************************)
EXTENDS Images, TLAPS

Rows == [type : {"none", "staged", "linked"}, owned : BOOLEAN, uploaded : BOOLEAN,
         expires : {"none", "ahead", "past"}, claimed : {"none", "fresh", "old"},
         deleted : BOOLEAN]

\* The parts of TypeOK that the proofs need.
RowsTypeOK ==
  /\ image \in [Images -> Rows]
  /\ batch \in [Batches -> [busy : BOOLEAN, todo : SUBSET Images, gone : SUBSET Images]]

\* Rows whose every link is made under the row lock, after another look at them.
Careful(i) == kind[i] \in {"quote", "review"}

\* No run of the clean-up holds the row.
Free(i) == \A b \in Batches : i \notin batch[b].todo /\ i \notin batch[b].gone

\* The clean-up has nothing to do with such a row before it has expired.
LeftAlone(i) ==
  (Careful(i) /\ image[i].expires # "past") =>
    image[i].claimed = "none" /\ ~ image[i].deleted /\ Free(i)

\* Before it has expired its object is there, once the upload was completed, and only
\* a completed upload is linked.
Present(i) ==
  Careful(i) =>
    /\ (image[i].expires # "past" /\ image[i].uploaded) => i \in object
    /\ image[i].type = "linked" => image[i].uploaded

\* Photos of ties and of repair shipments are no other images, and a tie's has no
\* expiry while it is in use, unless it was overlooked.
TieKept(i) ==
  /\ cart[i] > 0 => kind[i] = "reform" /\ image[i].type # "none"
  /\ i \in early => kind[i] = "repair"
  /\ ((kind[i] = "reform" /\ image[i].type = "linked") \/ (cart[i] > 0 /\ i \notin overlooked))
     => image[i].expires = "none"

Sound(i) == LeftAlone(i) /\ Present(i) /\ TieKept(i)

IInv == /\ RowsTypeOK
        /\ cart \in [Images -> Nat] /\ early \subseteq Images
        /\ \A i \in Images : Sound(i)

USE DEF Rows, RowsTypeOK

-----------------------------------------------------------------------------
(* The invariant holds at first and is kept by every step *)

\* No row exists at first.
LEMMA InitIInv == Init => IInv
  <1> SUFFICES ASSUME Init PROVE IInv
    OBVIOUS
  <1>1. RowsTypeOK
    BY DEF Init, NoRow, Idle
  <1>2. ASSUME NEW i \in Images PROVE Sound(i)
    BY DEF Init, NoRow, Idle, Sound, LeftAlone, Present, TieKept, Free, Careful
  <1> QED BY <1>1, <1>2 DEF IInv, Init

\* A step that leaves everything alone keeps the invariant.
LEMMA StutterIInv == IInv /\ UNCHANGED vars => IInv'
  <1> SUFFICES ASSUME IInv, UNCHANGED vars PROVE IInv'
    OBVIOUS
  <1>1. ASSUME NEW i \in Images PROVE Sound(i)'
    <2>1. Sound(i)
      BY DEF IInv
    <2> QED BY <2>1 DEF vars, Sound, LeftAlone, Present, TieKept, Free, Careful
  <1> QED BY <1>1 DEF IInv, vars

\* A step on the row i leaves the others as sound as they were.
LEMMA OneRow ==
  ASSUME IInv, NEW i \in Images, Sound(i)', UNCHANGED <<kind, batch, cart, overlooked>>,
         NEW r \in Rows, image' = [image EXCEPT ![i] = r],
         object' \in {object, object \union {i}},
         early' \in {early, early \union {i}, early \ {i}}
  PROVE  IInv'
  <1>1. RowsTypeOK'
    BY DEF IInv
  <1>2. ASSUME NEW j \in Images, j # i PROVE Sound(j)'
    <2>1. Sound(j)
      BY DEF IInv
    <2>2. /\ image'[j] = image[j] /\ (j \in object' <=> j \in object)
          /\ (j \in early' <=> j \in early)
      BY <1>2 DEF IInv
    <2>3. Free(j)' <=> Free(j)
      BY DEF Free
    <2>4. LeftAlone(j)'
      BY <2>1, <2>2, <2>3 DEF Sound, LeftAlone, Careful
    <2>5. Present(j)'
      <3>1. image'[j] = image[j] /\ (j \in object' <=> j \in object) /\ kind' = kind
        BY <2>2
      <3>2. Present(j)
        BY <2>1 DEF Sound
      <3> QED BY ONLY <3>1, <3>2 DEF Present, Careful
    <2>6. TieKept(j)'
      BY <2>1, <2>2 DEF Sound, TieKept
    <2> QED BY <2>4, <2>5, <2>6 DEF Sound
  <1>3. (cart \in [Images -> Nat] /\ early \subseteq Images)'
    BY DEF IInv
  <1> QED BY <1>1, <1>2, <1>3 DEF IInv

\* Issuing, uploading and completing, and time.
LEMMA UploadIInv ==
  ASSUME IInv, NEW i \in Images,
         (\E owned \in BOOLEAN : Issue(i, owned))
           \/ Put(i)
           \/ Complete(i)
           \/ Expire(i)
           \/ RetryComes(i)
  PROVE  IInv'
  <1>0. image \in [Images -> Rows] /\ image[i] \in Rows /\ Sound(i)
    BY DEF IInv
  <1>1. ASSUME NEW owned \in BOOLEAN, Issue(i, owned) PROVE IInv'
    <2> DEFINE r == [image[i] EXCEPT !.type = "staged", !.owned = owned, !.expires = "ahead"]
    <2>1. r \in Rows /\ image' = [image EXCEPT ![i] = r]
      BY <1>1, <1>0 DEF Issue, NoRow
    <2>2. UNCHANGED <<kind, batch, object, cart, overlooked, early>>
      BY <1>1 DEF Issue, Others
    <2>3. Sound(i)'
      <3>1. /\ image[i].type = "none" /\ image[i].expires = "none" /\ image[i].claimed = "none"
            /\ ~ image[i].deleted /\ ~ image[i].uploaded
        <4>1. image[i] = NoRow
          BY <1>1, Zenon DEF Issue
        <4> QED BY ONLY <4>1 DEF NoRow
      <3>2. /\ image'[i].type = "staged" /\ image'[i].expires = "ahead"
            /\ image'[i].claimed = "none" /\ ~ image'[i].deleted /\ ~ image'[i].uploaded
        BY <2>1, <3>1, <1>0
      <3>3. LeftAlone(i)' /\ Present(i)'
        BY <1>0, <2>2, <3>1, <3>2 DEF Sound, LeftAlone, Present, Free, Careful
      <3>4. TieKept(i)'
        BY <1>0, <2>2, <3>1, <3>2 DEF Sound, TieKept
      <3> QED BY <3>3, <3>4 DEF Sound
    <2> HIDE DEF r
    <2> QED BY <2>1, <2>2, <2>3, OneRow
  <1>2. CASE Put(i)
    <2> DEFINE r == image[i]
    <2>1. r \in Rows /\ image' = [image EXCEPT ![i] = r]
      BY <1>2, <1>0 DEF Put
    <2>2. Sound(i)'
      BY <1>2, <1>0, <2>1 DEF Put, Others, Sound, LeftAlone, Present, TieKept, Free, Careful
    <2>3. UNCHANGED <<kind, batch, cart, overlooked, early>> /\ object' = object \union {i}
      BY <1>2 DEF Put, Others
    <2> HIDE DEF r
    <2> QED BY <2>1, <2>2, <2>3, OneRow
  <1>3. CASE Complete(i)
    <2>0. PICK owned \in {image[i].owned, TRUE} :
            image' = [image EXCEPT ![i].uploaded = TRUE, ![i].owned = owned]
      BY <1>3 DEF Complete
    <2>1. owned \in BOOLEAN
      BY <2>0, <1>0 DEF Rows
    <2> DEFINE r == [image[i] EXCEPT !.uploaded = TRUE, !.owned = owned]
    <2>2. r \in Rows /\ image' = [image EXCEPT ![i] = r]
      BY <2>0, <2>1, <1>0
    <2>3. Sound(i)'
      BY <1>3, <1>0, <2>2 DEF Complete, Others, Sound, LeftAlone, Present, TieKept, Free, Careful
    <2>4. UNCHANGED <<kind, batch, object, cart, overlooked, early>>
      BY <1>3 DEF Complete, Others
    <2> HIDE DEF r
    <2> QED BY <2>2, <2>3, <2>4, OneRow
  <1>4. CASE Expire(i)
    <2> DEFINE r == [image[i] EXCEPT !.expires = "past"]
    <2>1. r \in Rows /\ image' = [image EXCEPT ![i] = r]
      BY <1>4, <1>0 DEF Expire
    <2>2. Sound(i)'
      BY <1>4, <1>0, <2>1 DEF Expire, Others, Sound, LeftAlone, Present, TieKept, Free, Careful
    <2>3. UNCHANGED <<kind, batch, object, cart, overlooked, early>>
      BY <1>4 DEF Expire, Others
    <2> HIDE DEF r
    <2> QED BY <2>1, <2>2, <2>3, OneRow
  <1>5. CASE RetryComes(i)
    <2> DEFINE r == [image[i] EXCEPT !.claimed = "old"]
    <2>1. r \in Rows /\ image' = [image EXCEPT ![i] = r]
      BY <1>5, <1>0 DEF RetryComes
    <2>2. Sound(i)'
      BY <1>5, <1>0, <2>1 DEF RetryComes, Others, Sound, LeftAlone, Present, TieKept, Free, Careful
    <2>3. UNCHANGED <<kind, batch, object, cart, overlooked, early>>
      BY <1>5 DEF RetryComes, Others
    <2> HIDE DEF r
    <2> QED BY <2>1, <2>2, <2>3, OneRow
  <1> QED BY <1>1, <1>2, <1>3, <1>4, <1>5

\* Linking looks at the row again, so what it links was left alone and is there.
LEMMA LinkIInv ==
  ASSUME IInv, NEW i \in Images,
         LinkQuote(i)
           \/ CloseQuote(i)
           \/ LinkReview(i)
           \/ DropReview(i)
  PROVE  IInv'
  <1>0. image \in [Images -> Rows] /\ image[i] \in Rows /\ Sound(i)
    BY DEF IInv
  <1>1. CASE LinkQuote(i)
    <2> DEFINE r == [image[i] EXCEPT !.type = "linked", !.expires = "none", !.claimed = "none"]
    <2>1. r \in Rows /\ image' = [image EXCEPT ![i] = r]
      BY <1>1, <1>0 DEF LinkQuote, Linked
    <2>2. Sound(i)'
      BY <1>1, <1>0, <2>1 DEF LinkQuote, Linked, Others, Sound, LeftAlone, Present, TieKept, Free, Careful
    <2>3. UNCHANGED <<kind, batch, object, cart, overlooked, early>>
      BY <1>1 DEF LinkQuote, Others
    <2> HIDE DEF r
    <2> QED BY <2>1, <2>2, <2>3, OneRow
  <1>2. CASE CloseQuote(i)
    <2> DEFINE r == [image[i] EXCEPT !.expires = "ahead"]
    <2>1. r \in Rows /\ image' = [image EXCEPT ![i] = r]
      BY <1>2, <1>0 DEF CloseQuote
    <2>2. Sound(i)'
      BY <1>2, <1>0, <2>1 DEF CloseQuote, Others, Sound, LeftAlone, Present, TieKept, Free, Careful
    <2>3. UNCHANGED <<kind, batch, object, cart, overlooked, early>>
      BY <1>2 DEF CloseQuote, Others
    <2> HIDE DEF r
    <2> QED BY <2>1, <2>2, <2>3, OneRow
  <1>3. CASE LinkReview(i)
    <2> DEFINE r == [image[i] EXCEPT !.type = "linked", !.expires = "none", !.claimed = "none"]
    <2>1. r \in Rows /\ image' = [image EXCEPT ![i] = r]
      BY <1>3, <1>0 DEF LinkReview, Linked
    <2>2. Sound(i)'
      BY <1>3, <1>0, <2>1 DEF LinkReview, Linked, Others, Sound, LeftAlone, Present, TieKept, Free, Careful
    <2>3. UNCHANGED <<kind, batch, object, cart, overlooked, early>>
      BY <1>3 DEF LinkReview, Others
    <2> HIDE DEF r
    <2> QED BY <2>1, <2>2, <2>3, OneRow
  <1>4. CASE DropReview(i)
    <2> DEFINE r == [image[i] EXCEPT !.expires = "past", !.claimed = "none"]
    <2>1. r \in Rows /\ image' = [image EXCEPT ![i] = r]
      BY <1>4, <1>0 DEF DropReview
    <2>2. Sound(i)'
      BY <1>4, <1>0, <2>1 DEF DropReview, Others, Sound, LeftAlone, Present, TieKept, Free, Careful
    <2>3. UNCHANGED <<kind, batch, object, cart, overlooked, early>>
      BY <1>4 DEF DropReview, Others
    <2> HIDE DEF r
    <2> QED BY <2>1, <2>2, <2>3, OneRow
  <1> QED BY <1>1, <1>2, <1>3, <1>4

\* The cart is replaced or loses lines: what the remaining lines show is claimed, or was
\* and is not touched, or is overlooked.
LEMMA CartIInv ==
  ASSUME IInv, NEW next \in Carts, ReplaceCart(next) \/ RemoveFromCart(next)
  PROVE  IInv'
  <1>1. /\ next \in [Images -> Nat] /\ cart' = next
        /\ UNCHANGED <<kind, batch, object, early>>
    BY ImagesAssumption DEF ReplaceCart, RemoveFromCart, Others
  <1>2. ASSUME NEW i \in Images
        PROVE  \/ image'[i] = image[i]
               \/ ReformClaimable(i) /\ image'[i] = InCart(image[i])
               \/ cart[i] > 0 /\ image'[i] = OutOfCart(image[i])
    <2>1. CASE ReplaceCart(next)
      BY <2>1 DEF ReplaceCart
    <2>2. CASE RemoveFromCart(next)
      <3>1. next[i] < cart[i] => cart[i] > 0
        BY <1>1 DEF IInv
      <3> QED BY <2>2, <3>1 DEF RemoveFromCart
    <2> QED BY <2>1, <2>2
  <1>3. RowsTypeOK'
    <2>1. \A i \in Images : InCart(image[i]) \in Rows /\ OutOfCart(image[i]) \in Rows
      BY DEF IInv, InCart, OutOfCart
    <2>2. \E f : image' = [i \in Images |-> f[i]]
      <3>1. CASE ReplaceCart(next)
        <4> DEFINE f == [i \in Images |-> IF next[i] > 0 THEN InCart(image[i])
                         ELSE IF cart[i] > 0 THEN OutOfCart(image[i]) ELSE image[i]]
        <4>1. image' = f
          BY <3>1 DEF ReplaceCart
        <4>2. f = [i \in Images |-> f[i]]
          OBVIOUS
        <4> QED BY <4>1, <4>2
      <3>2. CASE RemoveFromCart(next)
        <4> DEFINE f == [i \in Images |-> IF i \in {j \in Images : next[j] < cart[j]}
                         THEN OutOfCart(image[i]) ELSE image[i]]
        <4>1. image' = f
          BY <3>2 DEF RemoveFromCart
        <4>2. f = [i \in Images |-> f[i]]
          OBVIOUS
        <4> QED BY <4>1, <4>2
      <3> QED BY <3>1, <3>2
    <2>3. \A i \in Images : image'[i] \in Rows
      BY <1>2, <2>1 DEF IInv
    <2>4. image' \in [Images -> Rows]
      <3> HIDE DEF Rows
      <3> QED BY <2>2, <2>3
    <2> QED BY <1>1, <2>4 DEF IInv
  <1>4. ASSUME NEW i \in Images PROVE Sound(i)'
    <2>1. Sound(i) /\ image[i] \in Rows /\ next[i] \in Nat /\ cart[i] \in Nat
      BY <1>1 DEF IInv
    <2>2. LeftAlone(i)' /\ Present(i)'
      BY <1>1, <1>2, <2>1
      DEF Sound, LeftAlone, Present, TieKept, Free, Careful, ReformClaimable, InCart, OutOfCart
    <2>3. TieKept(i)'
      <3>1. CASE ReplaceCart(next)
        <4>1. CASE next[i] > 0
          <5>1. ReformClaimable(i) /\ image'[i] = InCart(image[i])
            BY <3>1, <4>1 DEF ReplaceCart
          <5>2. /\ kind[i] = "reform" /\ image[i].type # "none"
                /\ image'[i].type = image[i].type /\ image'[i].expires = "none"
            BY <2>1, <5>1 DEF ReformClaimable, InCart
          <5> QED BY <1>1, <2>1, <5>2 DEF Sound, TieKept
        <4>2. CASE next[i] = 0
          <5>1. image'[i] = IF cart[i] > 0 THEN OutOfCart(image[i]) ELSE image[i]
            BY <3>1, <4>2 DEF ReplaceCart
          <5>2. /\ image'[i].type = image[i].type
                /\ image[i].type = "linked" => image'[i].expires = image[i].expires
            BY <2>1, <5>1 DEF OutOfCart
          <5> QED BY <1>1, <2>1, <4>2, <5>2 DEF Sound, TieKept
        <4> QED BY <2>1, <4>1, <4>2
      <3>2. CASE RemoveFromCart(next)
        <4>1. /\ next[i] <= cart[i]
              /\ next[i] < cart[i] => image'[i] = OutOfCart(image[i])
              /\ ~ (next[i] < cart[i]) => image'[i] = image[i]
              /\ (next[i] > 0 /\ i \notin overlooked') => i \notin overlooked /\ ~ (next[i] < cart[i])
          BY <3>2 DEF RemoveFromCart
        <4> QED BY <1>1, <2>1, <4>1 DEF Sound, TieKept, OutOfCart
      <3> QED BY <3>1, <3>2
    <2> QED BY <2>2, <2>3 DEF Sound
  <1> QED BY <1>1, <1>3, <1>4 DEF IInv

\* Photos of ties and of shipments are linked.
LEMMA TieIInv ==
  ASSUME IInv, NEW i \in Images,
         ReformOrdered(i)
           \/ RepairBegins(i)
           \/ RepairLinks(i)
  PROVE  IInv'
  <1>0. image \in [Images -> Rows] /\ image[i] \in Rows /\ Sound(i)
    BY DEF IInv
  <1>1. CASE ReformOrdered(i)
    <2> DEFINE r == [image[i] EXCEPT !.type = "linked", !.expires = "none", !.owned = TRUE]
    <2>1. r \in Rows /\ image' = [image EXCEPT ![i] = r]
      BY <1>1, <1>0 DEF ReformOrdered, ReformClaimable, Linked
    <2>2. Sound(i)'
      BY <1>1, <1>0, <2>1 DEF ReformOrdered, ReformClaimable, Linked, Others, Sound, LeftAlone, Present, TieKept, Free, Careful
    <2>3. UNCHANGED <<kind, batch, object, cart, overlooked, early>>
      BY <1>1 DEF ReformOrdered, Others
    <2> HIDE DEF r
    <2> QED BY <2>1, <2>2, <2>3, OneRow
  <1>2. CASE RepairBegins(i)
    <2> DEFINE r == image[i]
    <2>1. r \in Rows /\ image' = [image EXCEPT ![i] = r]
      BY <1>2, <1>0 DEF RepairBegins
    <2>2. Sound(i)'
      BY <1>2, <1>0, <2>1 DEF RepairBegins, Others, Sound, LeftAlone, Present, TieKept, Free, Careful
    <2>3. UNCHANGED <<kind, batch, object, cart, overlooked>> /\ early' = early \union {i}
      BY <1>2 DEF RepairBegins, Others
    <2> HIDE DEF r
    <2> QED BY <2>1, <2>2, <2>3, OneRow
  <1>3. CASE RepairLinks(i)
    <2> DEFINE r == IF image[i].type = "staged" /\ ~ image[i].deleted
                    THEN [image[i] EXCEPT !.type = "linked", !.expires = "none"] ELSE image[i]
    <2>1. r \in Rows /\ image' = [image EXCEPT ![i] = r]
      BY <1>3, <1>0 DEF RepairLinks, Linked
    <2>2. Sound(i)'
      BY <1>3, <1>0, <2>1 DEF RepairLinks, Linked, Others, Sound, LeftAlone, Present, TieKept, Free, Careful
    <2>3. UNCHANGED <<kind, batch, object, cart, overlooked>> /\ early' = early \ {i}
      BY <1>3 DEF RepairLinks, Others
    <2> HIDE DEF r
    <2> QED BY <2>1, <2>2, <2>3, OneRow
  <1> QED BY <1>1, <1>2, <1>3

\* A run claims only rows that expired, or that it claimed before, so none that are
\* left alone.
LEMMA ClaimIInv ==
  ASSUME IInv, NEW b \in Batches, Claim(b)
  PROVE  IInv'
  <1>1. PICK taken \in SUBSET Images :
          /\ \A i \in taken : Due(image[i])
          /\ image' = [i \in Images |->
               IF i \in taken THEN [image[i] EXCEPT !.claimed = "fresh"] ELSE image[i]]
          /\ batch' = [batch EXCEPT ![b] = [busy |-> TRUE, todo |-> taken, gone |-> {}]]
    <2> DEFINE due == {i \in Images : Due(image[i])}
               taken == {i \in due : Cardinality({j \in due : Before(j, i)}) < Limit}
    <2> SUFFICES /\ image' = [i \in Images |->
                      IF i \in taken THEN [image[i] EXCEPT !.claimed = "fresh"] ELSE image[i]]
                 /\ batch' = [batch EXCEPT
                      ![b] = [busy |-> TRUE, todo |-> taken, gone |-> {}]]
      OBVIOUS
    <2> QED BY Zenon DEF Claim
  <1>2. UNCHANGED <<kind, object, cart, overlooked, early>>
    BY DEF Claim, Others
  <1>3. RowsTypeOK'
    BY ZenonT(60), <1>1 DEF IInv
  <1>4. ASSUME NEW i \in Images PROVE Sound(i)'
    <2>1. Sound(i) /\ image[i] \in Rows
      BY DEF IInv
    <2>2. image'[i].expires = image[i].expires /\ image'[i].type = image[i].type
          /\ image'[i].uploaded = image[i].uploaded /\ image'[i].deleted = image[i].deleted
      BY <1>1, <2>1
    <2>3. Present(i)' /\ TieKept(i)'
      BY <1>2, <2>1, <2>2 DEF Sound, Present, TieKept, Careful
    <2>4. CASE Careful(i) /\ image[i].expires # "past"
      <3>1. i \notin taken
        BY <1>1, <2>1, <2>4 DEF Due, Sound, LeftAlone
      <3>2. Free(i)'
        BY <1>1, <2>1, <2>4, <3>1 DEF Sound, LeftAlone, Free, IInv
      <3> QED BY <1>1, <1>2, <2>1, <2>3, <2>4, <3>1, <3>2 DEF Sound, LeftAlone
    <2>5. CASE ~ (Careful(i) /\ image[i].expires # "past")
      BY <1>2, <2>2, <2>3, <2>5 DEF Sound, LeftAlone, Careful
    <2> QED BY <2>4, <2>5
  <1> QED BY <1>2, <1>3, <1>4 DEF IInv

\* What a run deletes and finalises is what it claimed.
LEMMA RunIInv ==
  ASSUME IInv, NEW b \in Batches,
         Finalise(b) \/ Crash(b) \/ \E i \in Images : Delete(b, i) \/ DeleteFails(b, i)
  PROVE  IInv'
  <1>0. UNCHANGED <<kind, cart, overlooked, early>>
    BY DEF Finalise, Crash, Delete, DeleteFails, Others
  <1>1. /\ RowsTypeOK'
        /\ \A i \in Images : /\ image'[i].type = image[i].type
                             /\ image'[i].expires = image[i].expires
                             /\ image'[i].claimed = image[i].claimed
                             /\ image'[i].uploaded = image[i].uploaded
                             /\ Free(i) => Free(i)'
                             /\ Free(i) => image'[i].deleted = image[i].deleted
                             /\ Free(i) => (i \in object' <=> i \in object)
    <2>1. CASE Finalise(b)
      <3>1. /\ image' = [i \in Images |-> IF i \in batch[b].gone
                           THEN [image[i] EXCEPT !.deleted = TRUE] ELSE image[i]]
            /\ batch' = [batch EXCEPT ![b] = Idle]
            /\ UNCHANGED object
        BY <2>1 DEF Finalise
      <3>2. RowsTypeOK'
        BY ZenonT(60), <3>1 DEF IInv, Idle
      <3>3. ASSUME NEW i \in Images
            PROVE  /\ image'[i].type = image[i].type /\ image'[i].expires = image[i].expires
                   /\ image'[i].claimed = image[i].claimed
                   /\ image'[i].uploaded = image[i].uploaded
                   /\ i \notin batch[b].gone => image'[i].deleted = image[i].deleted
        BY ZenonT(60), <3>1 DEF IInv
      <3>4. ASSUME NEW i \in Images, Free(i) PROVE Free(i)'
        BY <3>1, <3>4 DEF IInv, Free, Idle
      <3> QED BY <3>1, <3>2, <3>3, <3>4 DEF Free
    <2>2. CASE Crash(b)
      BY <2>2 DEF Crash, Idle, IInv, Free
    <2>3. CASE \E i \in Images : Delete(b, i)
      <3>1. PICK i \in Images : Delete(b, i)
        BY <2>3
      <3>2. RowsTypeOK' /\ UNCHANGED image
        BY ZenonT(60), <3>1 DEF Delete, IInv
      <3>3. i \in batch[b].todo /\ object' = object \ {i}
        BY <3>1 DEF Delete
      <3>4. \A j \in Images : Free(j) => Free(j)' /\ j # i
        BY ZenonT(60), <3>1 DEF Delete, IInv, Free
      <3> QED BY <3>2, <3>3, <3>4
    <2>4. CASE \E i \in Images : DeleteFails(b, i)
      <3>1. PICK i \in Images : DeleteFails(b, i)
        BY <2>4
      <3>2. UNCHANGED <<image, object>>
        BY <3>1 DEF DeleteFails
      <3>3. RowsTypeOK'
        BY ZenonT(60), <3>1 DEF DeleteFails, IInv
      <3>4. batch' = [batch EXCEPT ![b].todo = @ \ {i}]
        BY <3>1 DEF DeleteFails
      <3>5. \A c \in Batches : batch'[c].gone = batch[c].gone /\ batch'[c].todo \subseteq batch[c].todo
        BY <3>4 DEF IInv
      <3>6. \A j \in Images : Free(j) => Free(j)'
        BY <3>5 DEF Free
      <3> QED BY <3>2, <3>3, <3>6
    <2> QED BY <2>1, <2>2, <2>3, <2>4
  <1>2. ASSUME NEW i \in Images PROVE Sound(i)'
    <2>1. Sound(i)
      BY DEF IInv
    <2>2. LeftAlone(i)' /\ Present(i)'
      BY <1>0, <1>1, <2>1 DEF Sound, LeftAlone, Present, Careful
    <2>3. TieKept(i)'
      BY <1>0, <1>1, <2>1 DEF Sound, TieKept
    <2> QED BY <2>2, <2>3 DEF Sound
  <1> QED BY <1>0, <1>1, <1>2 DEF IInv

\* Every step keeps the invariant.
LEMMA NextIInv == IInv /\ [Next]_vars => IInv'
  BY StutterIInv, UploadIInv, LinkIInv, CartIInv, TieIInv, ClaimIInv, RunIInv DEF Next, Step

\* The invariant holds in every reachable state.
LEMMA AlwaysIInv == Spec => []IInv
  BY InitIInv, NextIInv, PTL DEF Spec

-----------------------------------------------------------------------------
\* However many images, runs and rows in a run there are, an image that is linked to a
\* quote, an order or a review and has no expiry keeps its object, and no run holds it.
THEOREM LinkedObjectKeptAlways == Spec => []LinkedObjectKept
  <1>1. IInv => LinkedObjectKept
    BY DEF IInv, LinkedObjectKept, Sound, LeftAlone, Present, Careful, Free
  <1> QED BY <1>1, AlwaysIInv, PTL

\* The photo of a tie never expires while a repair order has it or a line of a cart, but
\* for one whose other line POST /cart/remove has taken (InUseNeverExpires).
THEOREM InUseNeverExpiresAlways == Spec => []InUseNeverExpires
  <1>1. IInv => InUseNeverExpires
    BY DEF IInv, InUseNeverExpires, Sound, TieKept
  <1> QED BY <1>1, AlwaysIInv, PTL
=============================================================================
