------------------------------- MODULE Images -------------------------------
(***************************************************************************)
(* Rows of the images table and the objects they name, from the signed     *)
(* upload to the daily clean-up: claim the rows, delete the objects,       *)
(* finalise, each in a transaction of its own or in none.                  *)
(*                                                                         *)
(* Clocks are reduced to what the queries ask of them: an expiry is none,  *)
(* ahead or past, a deletion claim is none, fresh or old enough to retry.  *)
(***************************************************************************)
EXTENDS Naturals, Sequences, FiniteSets

CONSTANTS
  Images,      \* rows
  Mixes,       \* what the images may be for, all together
  Batches,     \* runs of the clean-up that may be under way at once
  Limit,       \* CLEANUP_BATCH_SIZE
  Carts,       \* carts a customer may have: how many lines show each photo
  MaxEvents    \* bound: runs that die, reviews saved once more without a photo

\* quote: reference images of quotes; of custom and sample orders too, which no step
\* closes.  review: photos of reviews.  reform: photos of ties in carts and repair orders.
\* repair: photos a customer sends with a repair shipment.
Kinds == {"quote", "review", "reform", "repair"}

ASSUME ImagesAssumption ==
  /\ IsFiniteSet(Images)
  /\ Limit \in Nat \ {0} /\ MaxEvents \in Nat
  /\ Carts \subseteq [Images -> Nat] /\ Mixes \subseteq [Images -> Kinds]

VARIABLES
  kind,        \* [Images -> Kinds]
  broken,      \* images whose object the storage never manages to delete
  image,       \* [Images -> the row]
  object,      \* images whose object is in the storage
  cart,        \* [Images -> how many lines of the customer's cart show the photo]
  overlooked,  \* photos a removal gave an expiry while other lines show them, and no
               \* replacement of the cart has claimed since (history)
  early,       \* repair images with a transaction under way that began before they expired
  line,        \* the rows by coalesce(deletion_claimed_at, expires_at)
  batch,       \* [Batches -> [todo, gone]]: rows claimed, and those whose object is deleted
  events

vars == <<kind, broken, image, object, cart, overlooked, early, line, batch, events>>

NoRow == [type |-> "none", owned |-> FALSE, uploaded |-> FALSE, expires |-> "none",
          claimed |-> "none", deleted |-> FALSE]
Idle == [busy |-> FALSE, todo |-> {}, gone |-> {}]

Init ==
  /\ kind \in Mixes
  /\ broken \in SUBSET Images
  /\ image = [i \in Images |-> NoRow]
  /\ object = {} /\ early = {}
  /\ cart = [i \in Images |-> 0] /\ overlooked = {}
  /\ line = <<>>
  /\ batch = [b \in Batches |-> Idle]
  /\ events = 0

\* i comes last in line: its expiry, or its claim, is of now.
Last(s, i) == Append(SelectSeq(s, LAMBDA j : j # i), i)

Event == events < MaxEvents /\ events' = events + 1

Others == <<kind, broken, events>>

--------------------------------------------------------------------------
\* Uploads.

\* A signed URL is issued with a staged row that expires in 24 hours; a guest may ask
\* for the photo of a tie.
Issue(i, owned) ==
  /\ image[i] = NoRow
  /\ owned \/ kind[i] = "reform"
  /\ image' = [image EXCEPT ![i].type = "staged", ![i].owned = owned, ![i].expires = "ahead"]
  /\ UNCHANGED <<Others, object, cart, overlooked, early, line, batch>>

\* The browser puts the file, once (create_only), while the URL is good, which is much
\* less than the row's 24 hours.
Put(i) ==
  /\ image[i].type = "staged" /\ ~ image[i].uploaded /\ image[i].expires = "ahead"
  /\ i \notin object
  /\ object' = object \union {i}
  /\ UNCHANGED <<Others, image, cart, overlooked, early, line, batch>>

\* The upload is completed: the row is locked, not expired, and the object is there.  A
\* guest's photo becomes the customer's who completes it.
Complete(i) ==
  /\ image[i].type = "staged" /\ ~ image[i].deleted
  /\ image[i].expires # "past" /\ i \in object
  /\ kind[i] = "review" => image[i].claimed = "none"
  /\ \E owned \in {image[i].owned, TRUE} :
       image' = [image EXCEPT ![i].uploaded = TRUE, ![i].owned = owned]
  /\ UNCHANGED <<Others, object, cart, overlooked, early, line, batch>>

\* Expiries and leases pass.
Expire(i) ==
  /\ image[i].expires = "ahead"
  /\ image' = [image EXCEPT ![i].expires = "past"]
  /\ line' = IF image[i].claimed = "none" THEN Last(line, i) ELSE line
  /\ UNCHANGED <<Others, object, cart, overlooked, early, batch>>

RetryComes(i) ==
  /\ image[i].claimed = "fresh"
  /\ image' = [image EXCEPT ![i].claimed = "old"]
  /\ UNCHANGED <<Others, object, cart, overlooked, early, line, batch>>

--------------------------------------------------------------------------
\* Rows that are linked to what they belong to.

Linked(row) == [row EXCEPT !.type = "linked", !.expires = "none"]

\* Mutant: the expiry that was seen when the upload was completed is trusted.
LinkQuoteUnchecked(i) ==
  /\ kind[i] = "quote"
  /\ image[i].type = "staged" /\ image[i].uploaded /\ ~ image[i].deleted /\ i \in object
  /\ image' = [image EXCEPT ![i] = [Linked(@) EXCEPT !.claimed = "none"]]
  /\ UNCHANGED <<Others, object, cart, overlooked, early, line, batch>>

\* A quote or an order is filed with the image: locked, looked at again, its object too.
LinkQuote(i) ==
  /\ kind[i] = "quote"
  /\ image[i].type = "staged" /\ image[i].uploaded /\ ~ image[i].deleted
  /\ image[i].expires # "past" /\ i \in object
  /\ image' = [image EXCEPT ![i] = [Linked(@) EXCEPT !.claimed = "none"]]
  /\ UNCHANGED <<Others, object, cart, overlooked, early, line, batch>>

\* A quote is confirmed or closed: its images have 90 days left.
CloseQuote(i) ==
  /\ kind[i] = "quote"
  /\ image[i].type = "linked" /\ image[i].expires = "none"
  /\ image' = [image EXCEPT ![i].expires = "ahead"]
  /\ UNCHANGED <<Others, object, cart, overlooked, early, line, batch>>

\* A review is saved with the photo, staged or its own already.
LinkReview(i) ==
  /\ kind[i] = "review"
  /\ image[i].type \in {"staged", "linked"} /\ image[i].uploaded /\ ~ image[i].deleted
  /\ image[i].claimed = "none" /\ image[i].expires # "past"
  /\ image' = [image EXCEPT ![i] = [Linked(@) EXCEPT !.claimed = "none"]]
  /\ UNCHANGED <<Others, object, cart, overlooked, early, line, batch>>

\* It is saved without the photo, or deleted: the photo expires at once, again if it
\* had expired so before.
DropReview(i) ==
  /\ kind[i] = "review"
  /\ image[i].type = "linked" /\ ~ image[i].deleted
  /\ \/ image[i].expires = "none" /\ UNCHANGED events
     \/ image[i].expires = "past" /\ Event
  /\ image' = [image EXCEPT ![i].expires = "past", ![i].claimed = "none"]
  /\ line' = Last(line, i)
  /\ UNCHANGED <<kind, broken, object, cart, overlooked, early, batch>>

\* claim_reform_image: only the first claim of a guest's photo looks at the expiry.
ReformClaimable(i) ==
  /\ kind[i] = "reform"
  /\ image[i].type = "staged" /\ image[i].uploaded /\ ~ image[i].deleted
  /\ image[i].owned \/ image[i].expires # "past"

InCart(row) == [row EXCEPT !.owned = TRUE, !.expires = "none"]

\* _expire_removed_images: 24 hours, unless an order took the photo.
OutOfCart(row) == IF row.type = "staged" THEN [row EXCEPT !.expires = "ahead"] ELSE row

\* Mutant: the photos of all the lines that go expire, other lines or not.
ReplaceCartAll(next) ==
  /\ \A i \in Images : next[i] > 0 => ReformClaimable(i)
  /\ image' = [i \in Images |->
       IF next[i] < cart[i] THEN OutOfCart(image[i])
       ELSE IF next[i] > 0 THEN InCart(image[i])
       ELSE image[i]]
  /\ cart' = next /\ overlooked' = {}
  /\ UNCHANGED <<Others, object, early, line, batch>>

\* PUT /cart: every photo of the new cart is claimed, or all is refused; those that no
\* line shows any more expire.
ReplaceCart(next) ==
  /\ \A i \in Images : next[i] > 0 => ReformClaimable(i)
  /\ image' = [i \in Images |->
       IF next[i] > 0 THEN InCart(image[i])
       ELSE IF cart[i] > 0 THEN OutOfCart(image[i])
       ELSE image[i]]
  /\ cart' = next /\ overlooked' = {}
  /\ UNCHANGED <<Others, object, early, line, batch>>

\* POST /cart/remove: the photos of the lines that go expire.  It does not ask whether
\* other lines show them.
RemoveFromCart(next) ==
  LET removed == {i \in Images : next[i] < cart[i]} IN
  /\ removed # {} /\ \A i \in Images : next[i] <= cart[i]
  /\ image' = [i \in Images |-> IF i \in removed THEN OutOfCart(image[i]) ELSE image[i]]
  /\ cart' = next
  /\ overlooked' = {i \in overlooked \union removed : next[i] > 0}
  /\ UNCHANGED <<Others, object, early, line, batch>>

\* create_order claims the photo and relinks it to the repair order; the cart keeps its line.
ReformOrdered(i) ==
  /\ ReformClaimable(i)
  /\ image' = [image EXCEPT ![i] = [Linked(@) EXCEPT !.owned = TRUE]]
  /\ UNCHANGED <<Others, object, cart, overlooked, early, line, batch>>

\* The shipment's UPDATE compares the expiry with func.now(), the time its
\* transaction began.
RepairBegins(i) ==
  /\ kind[i] = "repair" /\ i \notin early
  /\ image[i].type = "staged" /\ image[i].uploaded /\ image[i].expires = "ahead"
  /\ early' = early \union {i}
  /\ UNCHANGED <<Others, image, object, cart, overlooked, line, batch>>

RepairLinks(i) ==
  /\ i \in early /\ early' = early \ {i}
  /\ image' = IF image[i].type = "staged" /\ ~ image[i].deleted
              THEN [image EXCEPT ![i] = Linked(@)] ELSE image
  /\ UNCHANGED <<Others, object, cart, overlooked, line, batch>>

--------------------------------------------------------------------------
\* cleanup_images

\* Mutant: a claim is never taken up again.
DueOnce(row) == /\ row.type # "none" /\ ~ row.deleted
                /\ row.expires = "past" /\ row.claimed = "none"

Due(row) == /\ row.type # "none" /\ ~ row.deleted
            /\ \/ row.expires = "past" /\ row.claimed = "none"
               \/ row.claimed = "old"

\* Mutant: rows are taken by their expiry alone.
NoCursor(s, taken) == s

\* The claimed rows, in their order, go behind every other.
Behind(s, taken) ==
  LET in(i) == i \in taken
      out(i) == i \notin taken
  IN  SelectSeq(s, out) \o SelectSeq(s, in)

\* i stands before j in line.
Before(i, j) == \E m, n \in DOMAIN line : m < n /\ line[m] = i /\ line[n] = j

\* The rows that are due are claimed, the first Limit of them.
Claim(b) ==
  /\ ~ batch[b].busy
  /\ LET due == {i \in Images : Due(image[i])}
         taken == {i \in due : Cardinality({j \in due : Before(j, i)}) < Limit}
     IN /\ taken # {}
        /\ image' = [i \in Images |->
             IF i \in taken THEN [image[i] EXCEPT !.claimed = "fresh"] ELSE image[i]]
        /\ line' = Behind(line, taken)
        /\ batch' = [batch EXCEPT ![b] = [busy |-> TRUE, todo |-> taken, gone |-> {}]]
  /\ UNCHANGED <<Others, object, cart, overlooked, early>>

\* One object is deleted, or found gone; an error is logged and the next one taken.
Delete(b, i) ==
  /\ i \in batch[b].todo \ broken
  /\ object' = object \ {i}
  /\ batch' = [batch EXCEPT ![b].todo = @ \ {i}, ![b].gone = @ \union {i}]
  /\ UNCHANGED <<Others, image, cart, overlooked, early, line>>

DeleteFails(b, i) ==
  /\ i \in batch[b].todo
  /\ batch' = [batch EXCEPT ![b].todo = @ \ {i}]
  /\ UNCHANGED <<Others, image, object, cart, overlooked, early, line>>

\* deleted_at of those that are gone, as the session remembers them.
Finalise(b) ==
  /\ batch[b].busy /\ batch[b].todo = {}
  /\ image' = [i \in Images |->
       IF i \in batch[b].gone THEN [image[i] EXCEPT !.deleted = TRUE] ELSE image[i]]
  /\ batch' = [batch EXCEPT ![b] = Idle]
  /\ UNCHANGED <<Others, object, cart, overlooked, early, line>>

\* The run dies: what it claimed stays claimed, what it deleted is not finalised.
Crash(b) ==
  /\ batch[b].busy /\ Event
  /\ batch' = [batch EXCEPT ![b] = Idle]
  /\ UNCHANGED <<kind, broken, image, object, cart, overlooked, early, line>>

--------------------------------------------------------------------------
Step(i) ==
  \/ \E owned \in BOOLEAN : Issue(i, owned)
  \/ Put(i) \/ Complete(i) \/ Expire(i) \/ RetryComes(i)
  \/ LinkQuote(i) \/ CloseQuote(i) \/ LinkReview(i) \/ DropReview(i)
  \/ ReformOrdered(i)
  \/ RepairBegins(i) \/ RepairLinks(i)

Next ==
  \/ \E i \in Images : Step(i)
  \/ \E next \in Carts : ReplaceCart(next) \/ RemoveFromCart(next)
  \/ \E b \in Batches :
       \/ Claim(b) \/ Finalise(b) \/ Crash(b)
       \/ \E i \in Images : Delete(b, i) \/ DeleteFails(b, i)

Spec == Init /\ [][Next]_vars

\* The scheduler runs the clean-up every day; a run that is not killed ends; a lease
\* passes; and a delete that is tried again and again succeeds, but for broken objects.
FairSpec ==
  /\ Spec
  /\ \A b \in Batches :
       /\ WF_vars(Claim(b)) /\ WF_vars(Finalise(b))
       /\ \A i \in Images : WF_vars(Delete(b, i) \/ DeleteFails(b, i))
  /\ \A i \in Images : WF_vars(RetryComes(i)) /\ SF_vars(\E b \in Batches : Delete(b, i))

--------------------------------------------------------------------------
TypeOK ==
  /\ kind \in [Images -> Kinds] /\ broken \subseteq Images
  /\ image \in [Images ->
       [type : {"none", "staged", "linked"}, owned : BOOLEAN, uploaded : BOOLEAN,
        expires : {"none", "ahead", "past"}, claimed : {"none", "fresh", "old"},
        deleted : BOOLEAN]]
  /\ object \subseteq Images /\ early \subseteq Images
  /\ cart \in [Images -> Nat] /\ overlooked \subseteq Images
  /\ line \in Seq(Images)
  /\ batch \in [Batches -> [busy : BOOLEAN, todo : SUBSET Images, gone : SUBSET Images]]
  /\ events \in 0 .. MaxEvents

\* A reference image of a quote or an order, or a photo of a review, keeps its object
\* for as long as it is linked without an expiry, and no run of the clean-up holds it
\* for deletion: the run takes rows, and deletes objects, at different moments, so
\* nothing but the look under the row lock, when it is linked, can see to it.
LinkedObjectKept ==
  \A i \in Images :
    (kind[i] \in {"quote", "review"} /\ image[i].type = "linked" /\ image[i].expires = "none")
    => /\ i \in object /\ ~ image[i].deleted
       /\ \A b \in Batches : i \notin batch[b].todo \union batch[b].gone

\* The photo of a tie does not expire while a repair order has it, or a line of a
\* customer's cart, although orders and several lines may share the row and a line goes
\* after the order was made (docs/api-spec/domains.md, section 8).  The one exception is
\* a photo whose other line was removed by POST /cart/remove: it has an expiry until the
\* cart is replaced.
InUseNeverExpires ==
  \A i \in Images :
    ((kind[i] = "reform" /\ image[i].type = "linked") \/ (cart[i] > 0 /\ i \notin overlooked))
    => image[i].expires = "none"

\* What expired is deleted in the end and its row finalised, unless it is put to use
\* again: after failed deletes, after runs that died, and whatever other object can
\* never be deleted, though a run takes no more than Limit rows.
CleanedUp ==
  \A i \in Images :
    (i \notin broken /\ image[i].expires = "past")
    ~> (image[i].deleted \/ image[i].expires # "past")

--------------------------------------------------------------------------
(* What domains.md says of photos in carts: no run checks it. *)

\* A photo that the cart of a customer shows has no expiry.  It does not hold: two lines
\* may show one photo, and POST /cart/remove takes one of them.
CartPhotosNeverExpire == \A i \in Images : cart[i] > 0 => image[i].expires = "none"
=============================================================================
