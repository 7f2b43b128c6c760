---------------------------- MODULE StoreCheckout ----------------------------
(***************************************************************************)
(* A checkout in one tab: the order form, the Toss window, the page Toss   *)
(* returns to, and the pending order the tab keeps in sessionStorage.      *)
(*                                                                         *)
(* The pages belong to the account that is signed in, and the account may  *)
(* change while a page waits: a page is taken down while the session loads,*)
(* and what it awaited goes on without it.  The session does what          *)
(* TabSession says, and no profile is saved meanwhile; groups live as      *)
(* GroupLife says.                                                         *)
(***************************************************************************)
EXTENDS Naturals, FiniteSets

CONSTANTS
  Users,       \* accounts that sign in in the tab
  NoUser,      \* nobody
  Lines,       \* cart lines; their ids are the same for every account
  Groups,      \* bound: payment groups that are created
  NoGroup,     \* none
  Calls,       \* bound: calls of pay, and of the confirmation, under way at once
  MaxEvents    \* bound: sessions that change, pages left, lost requests

ASSUME CheckoutAssumption ==
  /\ Users # {} /\ NoUser \notin Users /\ NoGroup \notin Groups
  /\ MaxEvents \in Nat

VARIABLES
  status, user,  \* the session store; the user stays while the next one loads
  path,          \* which of the pages the tab is at
  toss,          \* the group the Toss window takes money for
  url,           \* the group in the URL that Toss returned to
  pending,       \* [Users -> Groups or NoGroup]: checkout:pending:user:<id>
  cart,          \* [Users -> lines of the account's cart]
  group,         \* [Groups -> the orders at the API]
  pays,          \* [Calls -> a call of pay]
  confirms,      \* [Calls -> a confirmation and what follows it]
  events

session == <<status, user>>
vars == <<status, user, path, toss, url, pending, cart, group, pays, confirms, events>>

NoOrders == [owner |-> NoUser, lines |-> {}, state |-> "none"]

\* A call of pay: how far it is, for whom, the lines of the form, the group it pays,
\* and whether the page that made it is still there.
NoPay == [at |-> "idle", owner |-> NoUser, lines |-> {}, group |-> NoGroup,
          mounted |-> FALSE]

\* A confirmation: its owner and its pending group are those of the moment the page
\* was mounted (confirmationContext); cartOf is the session removeItems captured.
NoConfirm == [at |-> "idle", owner |-> NoUser, group |-> NoGroup, pending |-> NoGroup,
              mounted |-> FALSE, cartOf |-> NoUser]

TypeOK ==
  /\ status \in {"loading", "authenticated", "anonymous"}
  /\ user \in Users \union {NoUser}
  /\ path \in {"cart", "form", "toss", "success"}
  /\ toss \in Groups \union {NoGroup} /\ url \in Groups \union {NoGroup}
  /\ pending \in [Users -> Groups \union {NoGroup}]
  /\ cart \in [Users -> SUBSET Lines]
  /\ group \in [Groups -> [owner : Users \union {NoUser}, lines : SUBSET Lines,
                           state : {"none", "open", "paid", "dead"}]]
  /\ pays \in [Calls -> [at : {"idle", "creating", "amount"},
                         owner : Users \union {NoUser}, lines : SUBSET Lines,
                         group : Groups \union {NoGroup}, mounted : BOOLEAN]]
  /\ confirms \in [Calls ->
       [at : {"idle", "sent", "failed", "refused", "confirmed", "shipped", "removing"},
        owner : Users \union {NoUser}, group : Groups \union {NoGroup},
        pending : Groups \union {NoGroup}, mounted : BOOLEAN,
        cartOf : Users \union {NoUser}]]
  /\ events \in 0 .. MaxEvents

\* Every account has a cart; the first of them is signed in.
Init ==
  /\ status = "authenticated"
  /\ user = CHOOSE u \in Users : TRUE
  /\ path = "form"
  /\ toss = NoGroup /\ url = NoGroup
  /\ pending = [u \in Users |-> NoGroup]
  /\ cart = [u \in Users |-> Lines]
  /\ group = [g \in Groups |-> NoOrders]
  /\ pays = [c \in Calls |-> NoPay]
  /\ confirms = [c \in Calls |-> NoConfirm]
  /\ events = 0

Event == events < MaxEvents /\ events' = events + 1

Tab == INSTANCE TabSession WITH saves <- FALSE

--------------------------------------------------------------------------
\* Pages.

\* The page is taken down: calls of pay learn it, and a failed confirmation has
\* nothing left to offer.  What is awaited goes on.
Unmount ==
  /\ pays' = [c \in Calls |-> [pays[c] EXCEPT !.mounted = FALSE]]
  /\ confirms' = [c \in Calls |->
       IF confirms[c].at = "failed" THEN NoConfirm
       ELSE [confirms[c] EXCEPT !.mounted = FALSE]]

\* A page load ends everything that runs in the tab.
Unload == pays' = [c \in Calls |-> NoPay] /\ confirms' = [c \in Calls |-> NoConfirm]

\* A token is installed: ProtectedRoute shows no page until its user is known.
TokenInstalled ==
  /\ Event
  /\ Tab!Installed
  /\ Unmount
  /\ UNCHANGED <<path, toss, url, pending, cart, group>>

SessionCleared ==
  /\ Event
  /\ Tab!Cleared
  /\ Unmount
  /\ UNCHANGED <<path, toss, url, pending, cart, group>>

\* The session is known.  The page Toss returned to is mounted, notes the account
\* and its pending order, and confirms at once.
Settles(u) ==
  /\ Tab!Verified(u)
  /\ \/ path # "success" /\ UNCHANGED confirms
     \/ /\ path = "success"
        /\ \E c \in Calls :
             /\ confirms[c].at = "idle"
             /\ confirms' = [confirms EXCEPT ![c] =
                  [NoConfirm EXCEPT !.at = "sent", !.owner = u, !.group = url,
                                    !.pending = pending[u], !.mounted = TRUE]]
  /\ UNCHANGED <<path, toss, url, pending, cart, group, pays, events>>

\* The customer leaves a page for the cart, or for the order form.
Goes(to) ==
  /\ Event
  /\ status = "authenticated" /\ path \in {"cart", "form", "success"} \ {to}
  /\ path' = to /\ url' = NoGroup
  /\ Unmount
  /\ UNCHANGED <<session, toss, pending, cart, group>>

\* Half an hour passes: the tab forgets a pending order (CHECKOUT_PENDING_TTL_MS)
\* and the batch cancels orders that were not paid.
TimePasses ==
  /\ Event
  /\ pending' = [u \in Users |-> NoGroup]
  /\ group' = [g \in Groups |->
       IF group[g].state = "open" THEN [group[g] EXCEPT !.state = "dead"] ELSE group[g]]
  /\ UNCHANGED <<session, path, toss, url, cart, pays, confirms>>

\* An order that was not paid is canceled elsewhere: another tab, an operator.
OrderCanceled(g) ==
  /\ Event
  /\ group[g].state = "open"
  /\ group' = [group EXCEPT ![g].state = "dead"]
  /\ UNCHANGED <<session, path, toss, url, pending, cart, pays, confirms>>

\* A group is paid elsewhere: by a webhook that applies what a request of this tab
\* left behind, in another tab, by a review of the queue.
GroupPaid(g) ==
  /\ Event
  /\ group[g].state = "open"
  /\ group' = [group EXCEPT ![g].state = "paid"]
  /\ UNCHANGED <<session, path, toss, url, pending, cart, pays, confirms>>

--------------------------------------------------------------------------
\* useCheckoutPayment().pay

\* The account that pays is still the one signed in, and the page still shown.
StillHere(p) == p.mounted /\ status = "authenticated" /\ user = p.owner

\* A second press on the same page is ignored (submitting); a page that was taken
\* down and shown again does not know of the call its predecessor made.
Pay(c, lines) ==
  /\ status = "authenticated" /\ path = "form" /\ toss = NoGroup
  /\ \A d \in Calls : ~ pays[d].mounted
  /\ pays[c].at = "idle"
  /\ lines # {} /\ lines \subseteq cart[user]
  /\ LET cached == pending[user]
         reusable == cached # NoGroup /\ group[cached].lines = lines
     IN  pays' = [pays EXCEPT ![c] =
           [at |-> IF reusable THEN "amount" ELSE "creating", owner |-> user,
            lines |-> lines, group |-> IF reusable THEN cached ELSE NoGroup,
            mounted |-> TRUE]]
  /\ UNCHANGED <<session, path, toss, url, pending, cart, group, confirms, events>>

\* createOrder answers: the group is remembered for the account that asked, whoever
\* is here now.  The call goes no further without that account, nor at a price
\* other than the one shown.
OrderCreated(c, g) ==
  /\ pays[c].at = "creating" /\ group[g].state = "none"
  /\ LET owner == pays[c].owner IN
     /\ group' = [group EXCEPT ![g] =
          [owner |-> owner, lines |-> pays[c].lines, state |-> "open"]]
     /\ pending' = [pending EXCEPT ![owner] = g]
  /\ \/ /\ StillHere(pays[c])
        /\ pays' = [pays EXCEPT ![c].at = "amount", ![c].group = g]
        /\ UNCHANGED events
     \/ ~ StillHere(pays[c]) /\ pays' = [pays EXCEPT ![c] = NoPay] /\ UNCHANGED events
     \/ Event /\ pays' = [pays EXCEPT ![c] = NoPay]
  /\ UNCHANGED <<session, path, toss, url, cart, confirms>>

\* createOrder is refused, or its answer lost with the group created or not.
CreateFails(c) ==
  /\ Event
  /\ pays[c].at = "creating"
  /\ pays' = [pays EXCEPT ![c] = NoPay]
  /\ \/ UNCHANGED group
     \/ \E g \in Groups :
          /\ group[g].state = "none"
          /\ group' = [group EXCEPT ![g] = [owner |-> pays[c].owner,
                                           lines |-> pays[c].lines, state |-> "open"]]
  /\ UNCHANGED <<session, path, toss, url, pending, cart, confirms>>

\* Mutant: the Toss window opens without a look at who is here by then.
AmountSetUnchecked(c) ==
  /\ pays[c].at = "amount"
  /\ pays' = [pays EXCEPT ![c] = NoPay]
  /\ toss' = pays[c].group /\ path' = "toss"
  /\ UNCHANGED <<session, url, pending, cart, group, confirms, events>>

\* widget.setAmount is done, and the owner is checked again before the Toss window.
AmountSet(c) ==
  /\ pays[c].at = "amount"
  /\ pays' = [pays EXCEPT ![c] = NoPay]
  /\ \/ StillHere(pays[c]) /\ toss' = pays[c].group /\ path' = "toss"
     \/ ~ StillHere(pays[c]) /\ UNCHANGED <<toss, path>>
  /\ UNCHANGED <<session, url, pending, cart, group, confirms, events>>

\* Toss loads successUrl, a page load; or failUrl, from which the customer goes back
\* to the form.
TossSucceeds ==
  /\ toss # NoGroup
  /\ Tab!Loaded
  /\ path' = "success" /\ url' = toss /\ toss' = NoGroup
  /\ Unload
  /\ UNCHANGED <<pending, cart, group, events>>

TossCancels ==
  /\ Event
  /\ toss # NoGroup
  /\ Tab!Loaded
  /\ path' = "form" /\ toss' = NoGroup
  /\ Unload
  /\ UNCHANGED <<url, pending, cart, group>>

\* The customer closes the window on the page itself: requestPayment is rejected and
\* the form, where nothing was loaded, may be paid from again.
TossClosed ==
  /\ Event
  /\ toss # NoGroup
  /\ path' = "form" /\ toss' = NoGroup
  /\ UNCHANGED <<session, url, pending, cart, group, pays, confirms>>

Reload ==
  /\ Event
  /\ toss = NoGroup
  /\ Tab!Loaded
  /\ Unload
  /\ UNCHANGED <<path, toss, url, pending, cart, group>>

--------------------------------------------------------------------------
\* usePaymentConfirm, and what the success page does with the answer.

Became(c, at) == confirms' = [confirms EXCEPT ![c].at = at]

Finished(c) == confirms' = [confirms EXCEPT ![c] = NoConfirm]

\* An error leaves a button to try again, on a page that is still shown.
Fails(c) == IF confirms[c].mounted THEN Became(c, "failed") ELSE Finished(c)

\* POST /payments/confirm answers.  A decline, a lost answer or a payment the API
\* holds for reconciliation can be tried again; what the API did with the money is
\* PaymentLedger's subject.
ConfirmAnswered(c) ==
  /\ confirms[c].at = "sent"
  /\ LET g == confirms[c].group
         mine == confirms[c].owner = group[g].owner
     IN \/ /\ mine /\ group[g].state \in {"open", "paid"}
           /\ group' = [group EXCEPT ![g].state = "paid"]
           /\ Became(c, "confirmed") /\ UNCHANGED events
        \/ /\ ~ mine \/ group[g].state = "dead"
           /\ Became(c, "refused") /\ UNCHANGED <<group, events>>
        \/ /\ Event
           /\ Fails(c)
           /\ \/ UNCHANGED group
              \/ /\ mine /\ group[g].state = "open"
                 /\ group' = [group EXCEPT ![g].state = "paid"]
  /\ UNCHANGED <<session, path, toss, url, pending, cart, pays>>

Retry(c) ==
  /\ confirms[c].at = "failed"
  /\ Became(c, "sent")
  /\ UNCHANGED <<session, path, toss, url, pending, cart, group, pays, events>>

\* waitForSettledPaymentOwner
Settled == status # "loading"
IsCurrent(c) == status = "authenticated" /\ user = confirms[c].owner

\* The pending order the page was mounted with is the one that was confirmed.
HasPending(c) == confirms[c].pending # NoGroup /\ confirms[c].pending = confirms[c].group

Forgets(c) == pending' = [pending EXCEPT ![confirms[c].owner] = NoGroup]

\* A refusal that is final: the owner's pending order goes, if it is that one.
RefusalHandled(c) ==
  /\ confirms[c].at = "refused" /\ Settled
  /\ IF IsCurrent(c) /\ HasPending(c) THEN Forgets(c) ELSE UNCHANGED pending
  /\ IF confirms[c].mounted THEN Became(c, "failed") ELSE Finished(c)
  /\ UNCHANGED <<session, path, toss, url, cart, group, pays, events>>

\* The account that paid is gone: its pending order is forgotten, nothing else done.
OwnerLeft(c) ==
  /\ confirms[c].at \in {"confirmed", "shipped"} /\ Settled /\ ~ IsCurrent(c)
  /\ IF HasPending(c) THEN Forgets(c) ELSE UNCHANGED pending
  /\ Finished(c)
  /\ UNCHANGED <<session, path, toss, url, cart, group, pays, events>>

\* The first wait: the repair shipment is submitted, which takes a request.
Ships(c) ==
  /\ confirms[c].at = "confirmed" /\ Settled /\ IsCurrent(c)
  /\ Became(c, "shipped")
  /\ UNCHANGED <<session, path, toss, url, pending, cart, group, pays, events>>

\* Mutant: after the repair shipment the owner is not waited for again.
RemovesForAnyone(c) ==
  /\ confirms[c].at = "shipped" /\ status = "authenticated"
  /\ \/ /\ HasPending(c)
        /\ confirms' = [confirms EXCEPT ![c].at = "removing", ![c].cartOf = user]
     \/ ~ HasPending(c) /\ Finished(c)
  /\ UNCHANGED <<session, path, toss, url, pending, cart, group, pays, events>>

\* The second wait: removeItems takes the session of now; with no pending order there
\* is nothing to remove.
Removes(c) ==
  /\ confirms[c].at = "shipped" /\ Settled /\ IsCurrent(c)
  /\ \/ /\ HasPending(c)
        /\ confirms' = [confirms EXCEPT ![c].at = "removing", ![c].cartOf = user]
     \/ ~ HasPending(c) /\ Finished(c)
  /\ UNCHANGED <<session, path, toss, url, pending, cart, group, pays, events>>

\* Mutant: a cart that could not be cleaned ends the handling.
RemovedOrStops(c) ==
  /\ confirms[c].at = "removing"
  /\ \/ LET c0 == confirms[c] IN
           /\ cart' = [cart EXCEPT ![c0.cartOf] = @ \ group[c0.pending].lines]
           /\ Forgets(c)
     \/ UNCHANGED <<cart, pending>>
  /\ Finished(c)
  /\ UNCHANGED <<session, path, toss, url, group, pays, events>>

\* The lines are removed from the cart, or they are not: the cart drops an edit whose
\* session is over, and a request may fail.  The pending order goes either way.
Removed(c) ==
  /\ confirms[c].at = "removing"
  /\ \/ LET c0 == confirms[c] IN
           cart' = [cart EXCEPT ![c0.cartOf] = @ \ group[c0.pending].lines]
     \/ UNCHANGED cart
  /\ Forgets(c) /\ Finished(c)
  /\ UNCHANGED <<session, path, toss, url, group, pays, events>>

--------------------------------------------------------------------------
Next ==
  \/ TokenInstalled \/ SessionCleared \/ TossSucceeds \/ TossCancels \/ TossClosed
  \/ Reload \/ TimePasses
  \/ \E u \in Users : Settles(u)
  \/ \E to \in {"cart", "form"} : Goes(to)
  \/ \E g \in Groups : OrderCanceled(g) \/ GroupPaid(g)
  \/ \E c \in Calls :
       \/ \E lines \in SUBSET Lines : Pay(c, lines)
       \/ \E g \in Groups : OrderCreated(c, g)
       \/ CreateFails(c) \/ AmountSet(c) \/ ConfirmAnswered(c) \/ Retry(c)
       \/ RefusalHandled(c) \/ OwnerLeft(c) \/ Ships(c) \/ Removes(c) \/ Removed(c)

Spec == Init /\ [][Next]_vars

--------------------------------------------------------------------------
\* Nobody loses what somebody else paid for: a line leaves an account's cart only
\* when a group of that account that contains it is paid, however the account
\* changed while the confirmation and the repair shipment were awaited
\* (payment-success.tsx looks at the owner after each).
LinesLeavePaidBy ==
  [][\A u \in Users : \A l \in cart[u] \ cart'[u] :
       \E g \in Groups :
         group[g].owner = u /\ group[g].state = "paid" /\ l \in group[g].lines]_vars

\* The Toss window opens only for the account that is signed in, on its own group,
\* although creating the order and setting the amount are awaited
\* (use-checkout-payment.ts looks at the owner after each).
TossByOwner ==
  [][toss' \notin {toss, NoGroup} =>
       status = "authenticated" /\ group[toss'].owner = user]_vars

\* A confirmation that is handled to its end leaves nothing behind that the next
\* payment would reuse: the tab no longer remembers the group as pending, whether or
\* not the cart was cleaned and whoever is signed in by then.  A page load, which is an event, cuts it short.
PaidIsForgotten ==
  [][\A c \in Calls :
       /\ confirms[c].at \in {"confirmed", "shipped", "removing"}
       /\ confirms'[c].at = "idle" /\ UNCHANGED <<events, path>>
       => pending'[confirms[c].owner] # confirms[c].group]_vars

Life(g) == INSTANCE GroupLife WITH state <- group[g].state

\* The pages ask for nothing of a group that GroupLife does not allow: whatever is
\* retried, answered late or to a page that is gone, a group is made once, and paid
\* only while it can be.
UsesGroups ==
  /\ \A g \in Groups : Life(g)!GroupInit
  /\ [][\A g \in Groups : [Life(g)!GroupNext]_(group[g].state)]_vars
=============================================================================
