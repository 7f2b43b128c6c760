------------------------- MODULE StoreCheckoutProofs -------------------------
(***************************************************************************)
(* Theorems about StoreCheckout, for every set of accounts and cart lines, *)
(* any number of groups and of calls under way at once.                    *)
(***************************************************************************)
EXTENDS StoreCheckout, TLAPS

PayRows == [at : {"idle", "creating", "amount"}, owner : Users \union {NoUser},
            lines : SUBSET Lines, group : Groups \union {NoGroup}, mounted : BOOLEAN]

ConfirmRows ==
  [at : {"idle", "sent", "failed", "refused", "confirmed", "shipped", "removing"},
   owner : Users \union {NoUser}, group : Groups \union {NoGroup},
   pending : Groups \union {NoGroup}, mounted : BOOLEAN, cartOf : Users \union {NoUser}]

GroupRows == [owner : Users \union {NoUser}, lines : SUBSET Lines,
              state : {"none", "open", "paid", "dead"}]

Paying == {"confirmed", "shipped", "removing"}

\* The group was created, and by u.
Made(g) == g \in Groups /\ group[g].state # "none"
OwnedBy(g, u) == Made(g) /\ group[g].owner = u

\* Who pays, pays for a group of their own.
PayOK(p) ==
  /\ p.at # "idle" => p.owner \in Users
  /\ p.at = "amount" => OwnedBy(p.group, p.owner)

\* What a confirmation noted when its page was mounted is still enough to tell whether
\* the owner's pending order is the one it confirms; what it goes on with is paid, and
\* its owner's; and the cart it cleans is the owner's.
ConfirmOK(c) ==
  /\ c.at # "idle" =>
       /\ c.owner \in Users /\ Made(c.group)
       /\ c.pending # NoGroup => OwnedBy(c.pending, c.owner)
       /\ pending[c.owner] = c.group => c.pending = c.group
  /\ c.at \in Paying => OwnedBy(c.group, c.owner) /\ group[c.group].state = "paid"
  /\ c.at = "removing" => c.cartOf = c.owner /\ c.pending = c.group

SessionOK == status = "authenticated" => user \in Users

\* Toss takes money, and returns, for a group that exists.
Place ==
  /\ toss # NoGroup => path = "toss" /\ Made(toss)
  /\ path = "success" => Made(url)

PendingOK == \A u \in Users : pending[u] # NoGroup => OwnedBy(pending[u], u)

IInv ==
  /\ TypeOK /\ SessionOK /\ Place /\ PendingOK
  /\ \A c \in Calls : PayOK(pays[c]) /\ ConfirmOK(confirms[c])

\* A group keeps its owner and lines, and a paid one is paid for ever.
Grows ==
  \A g \in Groups : group[g].state # "none" =>
    /\ group'[g].state # "none" /\ group'[g].owner = group[g].owner
    /\ group'[g].lines = group[g].lines
    /\ group[g].state = "paid" => group'[g].state = "paid"

\* An account's pending order stays, goes, or is a new one.
PendingMoves ==
  \A u \in Users :
    \/ pending'[u] \in {pending[u], NoGroup}
    \/ ~ Made(pending'[u]) /\ OwnedBy(pending[u], u)'

\* A group that changes does what GroupLife lets it.
Lives == \A g \in Groups : group'[g].state # group[g].state => Life(g)!GroupNext

\* What every step does.
Kept ==
  /\ Lives
  /\ \A u \in Users : \A l \in cart[u] \ cart'[u] :
       \E g \in Groups : group[g].owner = u /\ group[g].state = "paid" /\ l \in group[g].lines
  /\ toss' \notin {toss, NoGroup} => status = "authenticated" /\ group[toss'].owner = user
  /\ \A c \in Calls :
       /\ confirms[c].at \in {"confirmed", "shipped", "removing"}
       /\ confirms'[c].at = "idle" /\ UNCHANGED <<events, path>>
       => pending'[confirms[c].owner] # confirms[c].group

-----------------------------------------------------------------------------
\* The calls that a step leaves as they are stay right.
LEMMA Frame ==
  ASSUME IInv, TypeOK', SessionOK', Place', Grows, PendingMoves,
         \A c \in Calls : PayOK(pays'[c]) \/ PayOK(pays[c])',
         \A c \in Calls : ConfirmOK(confirms'[c]) \/ ConfirmOK(confirms[c])'
  PROVE  IInv'
  <1>1. ASSUME NEW g, NEW u, OwnedBy(g, u)
        PROVE  g \in Groups /\ group'[g].state # "none" /\ group'[g].owner = u
    BY <1>1 DEF OwnedBy, Made, Grows
  <1>2. PendingOK'
    <2> SUFFICES ASSUME NEW u \in Users, pending'[u] # NoGroup PROVE OwnedBy(pending[u], u)'
      BY DEF PendingOK
    <2>1. CASE pending'[u] = pending[u]
      <3>1. OwnedBy(pending[u], u)
        BY <2>1 DEF IInv, PendingOK
      <3> QED BY <1>1, <2>1, <3>1 DEF OwnedBy, Made
    <2> QED BY <2>1 DEF PendingMoves
  <1>3. ASSUME NEW c \in Calls, PayOK(pays'[c]) PROVE PayOK(pays[c])'
    BY <1>1, <1>3 DEF PayOK, OwnedBy, Made
  <1>4. ASSUME NEW c \in Calls, ConfirmOK(confirms'[c]) PROVE ConfirmOK(confirms[c])'
    <2> DEFINE d == confirms'[c]
    <2>1. ASSUME d.at # "idle"
          PROVE  /\ d.owner \in Users /\ Made(d.group)
                 /\ d.group \in Groups /\ group'[d.group].state # "none"
                 /\ d.pending # NoGroup =>
                      d.pending \in Groups /\ group'[d.pending].state # "none"
                        /\ group'[d.pending].owner = d.owner
      BY <1>1, <1>4, <2>1 DEF ConfirmOK, Made, Grows
    <2>2. ASSUME d.at # "idle", pending'[d.owner] = d.group PROVE d.pending = d.group
      <3>1. d.group # NoGroup
        BY <2>1, <2>2, CheckoutAssumption
      <3>2. pending'[d.owner] = pending[d.owner]
        BY <2>1, <2>2, <3>1 DEF PendingMoves
      <3> QED BY <1>4, <2>2, <3>2 DEF ConfirmOK
    <2>3. ASSUME d.at \in Paying
          PROVE  /\ d.group \in Groups /\ group'[d.group].state = "paid"
                 /\ group'[d.group].owner = d.owner
      BY <1>1, <1>4, <2>3 DEF ConfirmOK, Grows, OwnedBy, Made
    <2>4. d.at = "removing" => d.cartOf = d.owner /\ d.pending = d.group
      BY <1>4 DEF ConfirmOK
    <2> QED BY <2>1, <2>2, <2>3, <2>4 DEF ConfirmOK, OwnedBy, Made
  <1> QED BY <1>2, <1>3, <1>4 DEF IInv

\* The same, for a step that leaves the orders and what is pending alone.
LEMMA FrameAlone ==
  ASSUME IInv, TypeOK', SessionOK', Place', UNCHANGED <<group, pending>>,
         \A c \in Calls : PayOK(pays'[c]), \A c \in Calls : ConfirmOK(confirms'[c])
  PROVE  IInv'
  <1>1. Grows /\ PendingMoves
    BY DEF Grows, PendingMoves
  <1> QED BY <1>1, Frame

\* A group that was made, or paid, still is.
LEMMA MadeStays == ASSUME Grows, NEW g, Made(g) PROVE g \in Groups /\ group'[g].state # "none"
  BY DEF Grows, Made

\* At first the invariant holds.
LEMMA InitIInv == Init => IInv
  <1> SUFFICES ASSUME Init PROVE IInv
    OBVIOUS
  <1>1. user \in Users
    BY CheckoutAssumption DEF Init
  <1>2. TypeOK
    BY <1>1, CheckoutAssumption DEF Init, TypeOK, NoOrders, NoPay, NoConfirm
  <1> QED BY <1>1, <1>2
    DEF Init, IInv, SessionOK, Place, PendingOK, PayOK, ConfirmOK, NoPay, NoConfirm, Paying

-----------------------------------------------------------------------------
(* Pages *)

\* What is taken down with a page.
LEMMA UnmountKeeps ==
  ASSUME IInv, Unmount \/ Unload
  PROVE  /\ pays' \in [Calls -> PayRows] /\ confirms' \in [Calls -> ConfirmRows]
         /\ \A c \in Calls : PayOK(pays'[c]) /\ ConfirmOK(confirms'[c])
  <1>1. ASSUME NEW c \in Calls
        PROVE  pays[c] \in PayRows /\ confirms[c] \in ConfirmRows
               /\ PayOK(pays[c]) /\ ConfirmOK(confirms[c])
    BY DEF IInv, TypeOK, PayRows, ConfirmRows
  <1>2. NoPay \in PayRows /\ NoConfirm \in ConfirmRows /\ PayOK(NoPay) /\ ConfirmOK(NoConfirm)
    BY DEF NoPay, NoConfirm, PayRows, ConfirmRows, PayOK, ConfirmOK, Paying
  <1>3. CASE Unload
    BY <1>2, <1>3 DEF Unload
  <1>4. CASE Unmount
    <2>1. ASSUME NEW c \in Calls
          PROVE  /\ [pays[c] EXCEPT !.mounted = FALSE] \in PayRows
                 /\ PayOK([pays[c] EXCEPT !.mounted = FALSE])
                 /\ [confirms[c] EXCEPT !.mounted = FALSE] \in ConfirmRows
                 /\ ConfirmOK([confirms[c] EXCEPT !.mounted = FALSE])
      BY ZenonT(60), <1>1 DEF PayRows, ConfirmRows, PayOK, ConfirmOK
    <2> QED BY <1>1, <1>2, <1>4, <2>1 DEF Unmount
  <1> QED BY <1>3, <1>4

\* A page that goes takes no confirmation along that was answered.
LEMMA UnmountWaits ==
  ASSUME IInv, Unmount
  PROVE  \A c \in Calls : confirms[c].at \in Paying => confirms'[c].at # "idle"
  <1> SUFFICES ASSUME NEW c \in Calls, confirms[c].at \in Paying PROVE confirms'[c].at # "idle"
    OBVIOUS
  <1>1. confirms'[c] = [confirms[c] EXCEPT !.mounted = FALSE]
    BY DEF Unmount, Paying
  <1>2. confirms'[c].at = confirms[c].at
    BY <1>1 DEF IInv, TypeOK
  <1> QED BY <1>2 DEF Paying

\* The session changes, or the customer goes elsewhere.
LEMMA PageStep ==
  ASSUME IInv,
         TokenInstalled \/ SessionCleared \/ Reload \/ \E to \in {"cart", "form"} : Goes(to)
  PROVE  IInv' /\ Kept
  <1>1. /\ Unmount \/ Unload
        /\ UNCHANGED <<toss, pending, cart, group>>
        /\ Unmount \/ events' # events
    BY CheckoutAssumption DEF TokenInstalled, SessionCleared, Reload, Goes, Event, IInv, TypeOK
  <1>2. status' \in {"loading", "anonymous"} \/ (status' = status /\ user' = user)
    BY DEF TokenInstalled, SessionCleared, Reload, Goes, Tab!Installed, Tab!Cleared, Tab!Loaded, session
  <1>3. user' \in {user, NoUser} /\ status' \in {"loading", "authenticated", "anonymous"}
    BY DEF TokenInstalled, SessionCleared, Reload, Goes, Tab!Installed, Tab!Cleared, Tab!Loaded, session, IInv, TypeOK
  <1>4. \/ path' = path /\ url' = url
        \/ path' \in {"cart", "form"} /\ url' = NoGroup /\ path # "toss"
    BY DEF TokenInstalled, SessionCleared, Reload, Goes, Tab!Installed, Tab!Cleared, Tab!Loaded
  <1>5. events' \in 0 .. MaxEvents
    BY CheckoutAssumption DEF TokenInstalled, SessionCleared, Reload, Goes, Tab!Installed, Tab!Cleared, Tab!Loaded, Event, IInv, TypeOK
  <1>6. TypeOK'
    BY <1>1, <1>3, <1>4, <1>5, UnmountKeeps DEF IInv, TypeOK, PayRows, ConfirmRows
  <1>7. SessionOK' /\ Place'
    BY <1>1, <1>2, <1>4 DEF IInv, SessionOK, Place, Made
  <1>8. IInv'
    BY <1>1, <1>6, <1>7, UnmountKeeps, FrameAlone
  <1>9. Kept
    BY <1>1, UnmountWaits DEF Kept, Lives, Paying
  <1> QED BY <1>8, <1>9

\* Toss returns.
LEMMA TossStep == ASSUME IInv, TossSucceeds \/ TossCancels PROVE IInv' /\ Kept
  <1>1. Unload /\ UNCHANGED <<pending, cart, group>> /\ toss # NoGroup /\ toss' = NoGroup
    BY DEF TossSucceeds, TossCancels
  <1>2. path = "toss" /\ Made(toss)
    BY <1>1 DEF IInv, Place
  <1>3. status' = "loading" /\ user' = NoUser
    BY DEF TossSucceeds, TossCancels, Tab!Loaded
  <1>4. \/ path' = "success" /\ url' = toss
        \/ path' = "form" /\ url' = url
    BY DEF TossSucceeds, TossCancels
  <1>5. events' \in 0 .. MaxEvents
    BY CheckoutAssumption DEF TossSucceeds, TossCancels, Event, IInv, TypeOK
  <1>6. TypeOK'
    BY <1>1, <1>3, <1>4, <1>5, UnmountKeeps DEF IInv, TypeOK, PayRows, ConfirmRows
  <1>7. SessionOK' /\ Place'
    BY <1>1, <1>2, <1>3, <1>4 DEF SessionOK, Place, Made
  <1>8. IInv'
    BY <1>1, <1>6, <1>7, UnmountKeeps, FrameAlone
  <1>9. Kept
    BY <1>1, <1>2, <1>4 DEF Kept, Lives
  <1> QED BY <1>8, <1>9

\* The window is closed on the form.
LEMMA ClosedStep == ASSUME IInv, TossClosed PROVE IInv' /\ Kept
  <1>1. /\ UNCHANGED <<status, user, url, pending, cart, group, pays, confirms>>
        /\ path' = "form" /\ toss' = NoGroup /\ events' \in 0 .. MaxEvents
    BY CheckoutAssumption DEF TossClosed, session, Event, IInv, TypeOK
  <1>2. TypeOK'
    BY <1>1 DEF IInv, TypeOK
  <1>3. SessionOK' /\ Place' /\ \A c \in Calls : PayOK(pays'[c]) /\ ConfirmOK(confirms'[c])
    BY <1>1 DEF IInv, SessionOK, Place
  <1>4. IInv'
    BY <1>1, <1>2, <1>3, FrameAlone
  <1> QED BY <1>1, <1>4 DEF Kept, Lives

\* The session is known, and the page Toss returned to is mounted.
LEMMA SettlesStep == ASSUME IInv, NEW u \in Users, Settles(u) PROVE IInv' /\ Kept
  <1>1. /\ status = "loading" /\ status' = "authenticated" /\ user' = u
        /\ UNCHANGED <<path, toss, url, pending, cart, group, pays, events>>
    BY DEF Settles, Tab!Verified
  <1>2. confirms' \in [Calls -> ConfirmRows] /\ \A c \in Calls : ConfirmOK(confirms'[c])
    <2>1. CASE confirms' = confirms
      BY <2>1 DEF IInv, TypeOK, ConfirmRows
    <2>2. ASSUME NEW c \in Calls, path = "success",
                 confirms' = [confirms EXCEPT ![c] =
                  [NoConfirm EXCEPT !.at = "sent", !.owner = u, !.group = url,
                                    !.pending = pending[u], !.mounted = TRUE]]
          PROVE  confirms' \in [Calls -> ConfirmRows] /\ \A d \in Calls : ConfirmOK(confirms'[d])
      <3> DEFINE r == [NoConfirm EXCEPT !.at = "sent", !.owner = u, !.group = url,
                                        !.pending = pending[u], !.mounted = TRUE]
      <3>1. /\ r.at = "sent" /\ r.owner = u /\ r.group = url /\ r.pending = pending[u]
        BY DEF NoConfirm
      <3>2. r \in ConfirmRows
        BY DEF NoConfirm, ConfirmRows, IInv, TypeOK
      <3>3. ConfirmOK(r)
        <4> HIDE DEF r
        <4> QED BY <2>2, <3>1 DEF ConfirmOK, IInv, Place, PendingOK, Paying
      <3> HIDE DEF r
      <3>4. confirms' = [confirms EXCEPT ![c] = r]
        BY <2>2 DEF r
      <3> QED BY <3>2, <3>3, <3>4 DEF IInv, TypeOK, ConfirmRows
    <2> QED BY <2>1, <2>2 DEF Settles
  <1>3. TypeOK'
    BY <1>1, <1>2 DEF IInv, TypeOK, ConfirmRows
  <1>4. SessionOK' /\ Place' /\ \A c \in Calls : PayOK(pays'[c])
    BY <1>1 DEF IInv, SessionOK, Place, Made
  <1>5. IInv'
    BY <1>1, <1>2, <1>3, <1>4, FrameAlone
  <1>6. ASSUME NEW c \in Calls, confirms[c].at \in {"confirmed", "shipped", "removing"}
        PROVE  confirms'[c].at = confirms[c].at
    BY <1>6 DEF Settles, IInv, TypeOK
  <1> QED BY <1>1, <1>5, <1>6 DEF Kept, Lives

\* Orders that nobody paid are canceled, by a clock or by somebody else, or paid elsewhere.
LEMMA ElsewhereStep ==
  ASSUME IInv, TimePasses \/ \E g \in Groups : OrderCanceled(g) \/ GroupPaid(g)
  PROVE  IInv' /\ Kept
  <1> DEFINE Ends(g, new) == [group[g] EXCEPT !.state = new]
  <1>1. /\ UNCHANGED <<status, user, path, toss, url, cart, pays, confirms>>
        /\ events' \in 0 .. MaxEvents
    BY CheckoutAssumption DEF TimePasses, OrderCanceled, GroupPaid, Event, IInv, TypeOK, session
  <1>2. Grows /\ Lives /\ group' \in [Groups -> GroupRows]
    <2>1. group \in [Groups -> GroupRows]
      BY DEF IInv, TypeOK, GroupRows
    <2>2. ASSUME NEW g \in Groups, NEW new \in {"dead", "paid"}
          PROVE  /\ Ends(g, new) \in GroupRows /\ Ends(g, new).state = new
                 /\ Ends(g, new).owner = group[g].owner /\ Ends(g, new).lines = group[g].lines
      BY <2>1 DEF GroupRows
    <2>3. \A g \in Groups :
            \/ group'[g] = group[g]
            \/ /\ group[g].state = "open"
               /\ \E new \in {"dead", "paid"} : group'[g] = Ends(g, new)
      BY <2>1 DEF TimePasses, OrderCanceled, GroupPaid
    <2>4. \E f \in [Groups -> GroupRows] : group' = f
      <3>1. CASE TimePasses
        BY <2>1, <2>2, <3>1 DEF TimePasses
      <3>2. ASSUME NEW g \in Groups, NEW new \in {"dead", "paid"},
                   group' = [group EXCEPT ![g].state = new]
            PROVE  group' \in [Groups -> GroupRows]
        BY <2>1, <2>2, <3>2
      <3> QED BY <3>1, <3>2 DEF OrderCanceled, GroupPaid
    <2> HIDE DEF Ends
    <2> QED BY <2>2, <2>3, <2>4 DEF Grows, Lives, Life!GroupNext, Life!Paid, Life!Died, Life!Turns
  <1>3. PendingMoves /\ pending' \in [Users -> Groups \union {NoGroup}]
    BY DEF TimePasses, OrderCanceled, GroupPaid, PendingMoves, IInv, TypeOK
  <1>4. TypeOK'
    BY <1>1, <1>2, <1>3 DEF IInv, TypeOK, GroupRows
  <1>5. SessionOK' /\ Place'
    BY <1>1, <1>2, MadeStays DEF IInv, SessionOK, Place, Made
  <1>6. IInv'
    BY <1>1, <1>2, <1>3, <1>4, <1>5, Frame DEF IInv
  <1> QED BY <1>1, <1>2, <1>6 DEF Kept

-----------------------------------------------------------------------------
(* Paying *)

\* The payment button keeps the invariant.
LEMMA PayStep == ASSUME IInv, NEW c \in Calls, NEW lines \in SUBSET Lines, Pay(c, lines) PROVE IInv' /\ Kept
  <1>1. UNCHANGED <<status, user, path, toss, url, pending, cart, group, confirms, events>>
    BY DEF Pay, session
  <1>2. PICK r \in PayRows : pays' = [pays EXCEPT ![c] = r] /\ PayOK(r)
    <2> DEFINE cached == pending[user]
               reusable == cached # NoGroup /\ group[cached].lines = lines
               r == [at |-> IF reusable THEN "amount" ELSE "creating", owner |-> user,
                     lines |-> lines, group |-> IF reusable THEN cached ELSE NoGroup,
                     mounted |-> TRUE]
    <2>1. user \in Users /\ cached \in Groups \union {NoGroup}
      BY DEF Pay, IInv, SessionOK, TypeOK
    <2>2. r \in PayRows
      BY <2>1 DEF PayRows
    <2>3. reusable => OwnedBy(cached, user)
      BY <2>1 DEF IInv, PendingOK
    <2>4. PayOK(r)
      BY <2>1, <2>3 DEF PayOK
    <2>5. pays' = [pays EXCEPT ![c] = r]
      BY DEF Pay
    <2> QED BY <2>2, <2>4, <2>5
  <1>3. TypeOK' /\ \A d \in Calls : PayOK(pays'[d]) /\ ConfirmOK(confirms'[d])
    BY <1>1, <1>2 DEF IInv, TypeOK, PayRows
  <1>4. SessionOK' /\ Place'
    BY <1>1 DEF IInv, SessionOK, Place, Made
  <1>5. IInv'
    BY <1>1, <1>3, <1>4, FrameAlone
  <1> QED BY <1>1, <1>5 DEF Kept, Lives

\* A group is created, and its answer comes or is lost.
LEMMA CreateStep ==
  ASSUME IInv, NEW c \in Calls, CreateFails(c) \/ \E g \in Groups : OrderCreated(c, g)
  PROVE  IInv' /\ Kept
  <1>1. /\ UNCHANGED <<status, user, path, toss, url, cart, confirms>>
        /\ events' \in 0 .. MaxEvents
    BY CheckoutAssumption DEF CreateFails, OrderCreated, session, Event, IInv, TypeOK
  <1>2. pays[c] \in PayRows /\ pays[c].owner \in Users /\ pays[c].at = "creating"
    BY DEF CreateFails, OrderCreated, IInv, TypeOK, PayRows, PayOK
  <1>3. NoPay \in PayRows /\ PayOK(NoPay)
    BY DEF NoPay, PayRows, PayOK
  <1>4. CASE CreateFails(c)
    <2>1. pays' = [pays EXCEPT ![c] = NoPay] /\ pending' = pending
      BY <1>4 DEF CreateFails
    <2>2. Grows /\ group' \in [Groups -> GroupRows]
      BY SMTT(60), <1>2, <1>4 DEF CreateFails, Grows, IInv, TypeOK, GroupRows, PayRows
    <2>7. Lives
      BY <1>4 DEF CreateFails, IInv, TypeOK, Lives, Life!GroupNext, Life!Created, Life!Turns
    <2>3. PendingMoves /\ \A d \in Calls : PayOK(pays'[d]) /\ ConfirmOK(confirms'[d])
      BY <1>1, <1>3, <2>1 DEF PendingMoves, IInv, TypeOK
    <2>4. TypeOK'
      BY <1>1, <1>3, <2>1, <2>2 DEF IInv, TypeOK, GroupRows, PayRows
    <2>5. SessionOK' /\ Place'
      BY <1>1, <2>2, MadeStays DEF IInv, SessionOK, Place, Made
    <2>6. IInv'
      BY <2>2, <2>3, <2>4, <2>5, Frame
    <2> QED BY <1>1, <2>6, <2>7 DEF Kept
  <1>5. ASSUME NEW g \in Groups, OrderCreated(c, g) PROVE IInv' /\ Kept
    <2> DEFINE owner == pays[c].owner
               row == [owner |-> owner, lines |-> pays[c].lines, state |-> "open"]
    <2>1. /\ group[g].state = "none" /\ group' = [group EXCEPT ![g] = row]
          /\ pending' = [pending EXCEPT ![owner] = g]
      BY <1>5 DEF OrderCreated
    <2>2. row \in GroupRows
      BY <1>2 DEF GroupRows, PayRows
    <2>3. Grows /\ group' \in [Groups -> GroupRows] /\ group'[g].owner = owner /\ group'[g].state = "open"
      BY <2>1, <2>2 DEF Grows, IInv, TypeOK, GroupRows
    <2>4. PendingMoves /\ pending' \in [Users -> Groups \union {NoGroup}]
      BY <1>2, <2>1, <2>3 DEF PendingMoves, IInv, TypeOK, OwnedBy, Made
    <2>5. PICK r \in PayRows : pays' = [pays EXCEPT ![c] = r]
               /\ r \in {NoPay, [pays[c] EXCEPT !.at = "amount", !.group = g]}
      <3>1. [pays[c] EXCEPT !.at = "amount", !.group = g] \in PayRows
        BY <1>2 DEF PayRows
      <3>2. \/ pays' = [pays EXCEPT ![c] = NoPay]
            \/ pays' = [pays EXCEPT ![c] = [pays[c] EXCEPT !.at = "amount", !.group = g]]
        BY <1>5 DEF OrderCreated
      <3> QED BY <1>3, <3>1, <3>2
    <2>6. \A d \in Calls : PayOK(pays'[d]) \/ PayOK(pays[d])'
      <3>1. pays'[c] = r /\ \A d \in Calls : d # c => pays'[d] = pays[d]
        BY <2>5 DEF IInv, TypeOK
      <3>2. PayOK(pays'[c]) \/ PayOK(pays[c])'
        <4>1. CASE r = NoPay
          BY <1>3, <3>1, <4>1
        <4>2. CASE r = [pays[c] EXCEPT !.at = "amount", !.group = g]
          <5>1. r.owner = owner /\ r.group = g
            BY <1>2, <4>2 DEF PayRows
          <5> QED BY <1>2, <2>3, <3>1, <5>1 DEF PayOK, OwnedBy, Made
        <4> QED BY <2>5, <4>1, <4>2
      <3> QED BY <3>1, <3>2 DEF IInv
    <2>7. TypeOK'
      BY <1>1, <2>3, <2>4, <2>5 DEF IInv, TypeOK, GroupRows, PayRows
    <2>8. SessionOK' /\ Place'
      BY <1>1, <2>3, MadeStays DEF IInv, SessionOK, Place, Made
    <2>9. IInv'
      BY <1>1, <2>3, <2>4, <2>6, <2>7, <2>8, Frame DEF IInv
    <2>10. Lives
      BY <2>1, <2>3 DEF IInv, TypeOK, Lives, Life!GroupNext, Life!Created, Life!Turns
    <2> QED BY <1>1, <2>9, <2>10 DEF Kept
  <1> QED BY <1>4, <1>5

\* The Toss window opens, or it does not.
LEMMA AmountSetStep == ASSUME IInv, NEW c \in Calls, AmountSet(c) PROVE IInv' /\ Kept
  <1>1. /\ UNCHANGED <<status, user, url, pending, cart, group, confirms, events>>
        /\ pays' = [pays EXCEPT ![c] = NoPay]
    BY DEF AmountSet, session
  <1>2. NoPay \in PayRows /\ PayOK(NoPay)
    BY DEF NoPay, PayRows, PayOK
  <1>3. pays[c].at = "amount" /\ OwnedBy(pays[c].group, pays[c].owner)
    BY DEF AmountSet, IInv, PayOK
  <1>4. \/ StillHere(pays[c]) /\ toss' = pays[c].group /\ path' = "toss"
        \/ UNCHANGED <<toss, path>>
    BY DEF AmountSet
  <1>5. TypeOK' /\ \A d \in Calls : PayOK(pays'[d]) /\ ConfirmOK(confirms'[d])
    BY <1>1, <1>2, <1>3, <1>4 DEF IInv, TypeOK, PayRows, OwnedBy, Made
  <1>6. SessionOK' /\ Place'
    BY <1>1, <1>3, <1>4 DEF IInv, SessionOK, Place, OwnedBy, Made
  <1>7. IInv'
    BY <1>1, <1>5, <1>6, FrameAlone
  <1> QED BY <1>1, <1>3, <1>4, <1>7 DEF Kept, Lives, StillHere, OwnedBy

-----------------------------------------------------------------------------
(* The confirmation *)

\* A call's row changes and the orders do not: what the row must keep to.
LEMMA RowStep ==
  ASSUME IInv, NEW c \in Calls, NEW r, r \in ConfirmRows, confirms' = [confirms EXCEPT ![c] = r],
         ConfirmOK(r), UNCHANGED <<status, user, path, toss, url, group, pays>>,
         cart' \in [Users -> SUBSET Lines], events' \in 0 .. MaxEvents,
         pending' \in [Users -> Groups \union {NoGroup}], PendingMoves
  PROVE  IInv'
  <1>1. TypeOK'
    BY DEF IInv, TypeOK, ConfirmRows
  <1>2. SessionOK' /\ Place' /\ Grows
    BY DEF IInv, SessionOK, Place, Made, Grows
  <1>3. \A d \in Calls : ConfirmOK(confirms'[d])
    BY DEF IInv, TypeOK
  <1>4. \A d \in Calls : PayOK(pays'[d])
    BY DEF IInv
  <1> QED BY <1>1, <1>2, <1>3, <1>4, Frame

\* What a confirmation's row is before its step.
LEMMA RowBefore ==
  ASSUME IInv, NEW c \in Calls
  PROVE  confirms[c] \in ConfirmRows /\ ConfirmOK(confirms[c])
         /\ NoConfirm \in ConfirmRows /\ ConfirmOK(NoConfirm)
  BY DEF IInv, TypeOK, ConfirmRows, ConfirmOK, NoConfirm, Paying

\* A row that only moves on.
LEMMA Moved ==
  ASSUME NEW r \in ConfirmRows, NEW at \in {"sent", "failed", "refused", "confirmed", "shipped"}
  PROVE  LET n == [r EXCEPT !.at = at]
         IN  /\ n \in ConfirmRows /\ n.at = at
             /\ n.owner = r.owner /\ n.group = r.group /\ n.pending = r.pending
  BY DEF ConfirmRows

\* A forgotten pending order is not the group that was confirmed, and one that is not
\* forgotten is another.
LEMMA Forgotten ==
  ASSUME IInv, NEW c \in Calls, confirms[c].at # "idle",
         \/ Forgets(c)
         \/ pending' = pending /\ ~ HasPending(c)
  PROVE  pending'[confirms[c].owner] # confirms[c].group
  <1>1. /\ confirms[c].owner \in Users /\ confirms[c].group \in Groups
        /\ pending[confirms[c].owner] = confirms[c].group => confirms[c].pending = confirms[c].group
    BY DEF IInv, ConfirmOK, Made
  <1> QED BY <1>1, CheckoutAssumption DEF Forgets, HasPending, IInv, TypeOK

\* Forgetting a pending order takes it away and brings none.
LEMMA ForgetsMoves ==
  ASSUME IInv, NEW c \in Calls, Forgets(c) \/ pending' = pending
  PROVE  PendingMoves /\ pending' \in [Users -> Groups \union {NoGroup}]
  BY DEF Forgets, PendingMoves, IInv, TypeOK

\* The answer to a confirmation keeps the invariant.
LEMMA ConfirmAnsweredStep == ASSUME IInv, NEW c \in Calls, ConfirmAnswered(c) PROVE IInv' /\ Kept
  <1> DEFINE r == confirms'[c]
             g == confirms[c].group
             paid == [group[g] EXCEPT !.state = "paid"]
  <1>1. /\ UNCHANGED <<status, user, path, toss, url, pending, cart, pays>>
        /\ events' \in 0 .. MaxEvents /\ confirms[c].at = "sent"
    BY CheckoutAssumption DEF ConfirmAnswered, session, Event, IInv, TypeOK
  <1>2. confirms[c] \in ConfirmRows /\ confirms[c].owner \in Users /\ Made(g)
    BY <1>1, RowBefore DEF ConfirmOK
  <1>3. /\ confirms' = [confirms EXCEPT ![c] = r] /\ r \in ConfirmRows
        /\ \/ r = NoConfirm
           \/ /\ r.at \in {"failed", "refused", "confirmed"}
              /\ r.owner = confirms[c].owner /\ r.group = g /\ r.pending = confirms[c].pending
    <2>1. \/ confirms' = [confirms EXCEPT ![c] = NoConfirm]
          \/ \E at \in {"failed", "refused", "confirmed"} :
               confirms' = [confirms EXCEPT ![c] = [confirms[c] EXCEPT !.at = at]]
      BY DEF ConfirmAnswered, Became, Fails, Finished
    <2>2. NoConfirm \in ConfirmRows
      BY RowBefore
    <2>3. \/ r = NoConfirm
          \/ \E at \in {"failed", "refused", "confirmed"} : r = [confirms[c] EXCEPT !.at = at]
      BY <2>1 DEF IInv, TypeOK
    <2>4. confirms' = [confirms EXCEPT ![c] = r]
      BY <2>1 DEF IInv, TypeOK
    <2>5. ASSUME NEW at \in {"failed", "refused", "confirmed"}
          PROVE  LET n == [confirms[c] EXCEPT !.at = at]
                 IN  /\ n \in ConfirmRows /\ n.at = at
                     /\ n.owner = confirms[c].owner /\ n.group = g
                     /\ n.pending = confirms[c].pending
      BY <1>2 DEF ConfirmRows
    <2> QED BY ZenonT(60), <2>2, <2>3, <2>4, <2>5
  <1>4. /\ paid \in GroupRows /\ paid.state = "paid"
        /\ paid.owner = group[g].owner /\ paid.lines = group[g].lines
    BY SMTT(60), <1>2 DEF Made, IInv, TypeOK, GroupRows
  <1>5. \/ group' = group
        \/ group[g].state \in {"open", "paid"} /\ group' = [group EXCEPT ![g] = paid]
    BY DEF ConfirmAnswered
  <1>6. Grows /\ group' \in [Groups -> GroupRows]
    <2>1. group \in [Groups -> GroupRows]
      BY DEF IInv, TypeOK, GroupRows
    <2> HIDE DEF paid
    <2> QED BY <1>4, <1>5, <2>1 DEF Grows
  <1>7. r.at = "confirmed" => group'[g].owner = confirms[c].owner /\ group'[g].state = "paid"
    <2>1. r.at = "confirmed" =>
            /\ confirms[c].owner = group[g].owner
            /\ group' = [group EXCEPT ![g] = paid]
      <3>1. confirms \in [Calls -> ConfirmRows]
        BY DEF IInv, TypeOK, ConfirmRows
      <3>2. /\ Became(c, "refused") => confirms'[c].at = "refused"
            /\ Fails(c) => confirms'[c].at \in {"failed", "idle"}
        BY <3>1 DEF Became, Fails, Finished, NoConfirm, ConfirmRows
      <3> QED BY <3>2 DEF ConfirmAnswered
    <2> HIDE DEF paid
    <2> QED BY <1>2, <1>4, <2>1 DEF Made, IInv, TypeOK
  <1>8. ConfirmOK(confirms[c])'
    <2>1. CASE r = NoConfirm
      BY <2>1 DEF ConfirmOK, NoConfirm, Paying
    <2>2. CASE r # NoConfirm
      <3>1. /\ r.at \in {"failed", "refused", "confirmed"}
            /\ r.owner = confirms[c].owner /\ r.group = g /\ r.pending = confirms[c].pending
        BY <1>3, <2>2
      <3>2. /\ confirms[c].pending # NoGroup => OwnedBy(confirms[c].pending, confirms[c].owner)
            /\ pending[confirms[c].owner] = g => confirms[c].pending = g
        BY <1>1, RowBefore DEF ConfirmOK
      <3>3. confirms[c].pending # NoGroup =>
              /\ confirms[c].pending \in Groups /\ group'[confirms[c].pending].state # "none"
              /\ group'[confirms[c].pending].owner = confirms[c].owner
        BY <1>6, <3>2 DEF OwnedBy, Made, Grows
      <3>4. g \in Groups /\ group'[g].state # "none" /\ pending' = pending
        BY <1>1, <1>2, <1>6 DEF Made, Grows
      <3> QED BY <1>2, <1>7, <3>1, <3>2, <3>3, <3>4 DEF ConfirmOK, Paying, OwnedBy, Made
    <2> QED BY <2>1, <2>2
  <1>9. \A d \in Calls : ConfirmOK(confirms'[d]) \/ ConfirmOK(confirms[d])'
    <2>1. \A d \in Calls : d # c => confirms'[d] = confirms[d]
      BY <1>3 DEF IInv, TypeOK
    <2> QED BY <1>8, <2>1 DEF IInv
  <1>10. TypeOK'
    BY SMTT(60), <1>1, <1>3, <1>6 DEF IInv, TypeOK, ConfirmRows, GroupRows
  <1>11. SessionOK' /\ Place' /\ PendingMoves /\ \A d \in Calls : PayOK(pays'[d])
    BY <1>1, <1>6, MadeStays DEF IInv, SessionOK, Place, Made, PendingMoves
  <1>12. IInv'
    BY <1>6, <1>9, <1>10, <1>11, Frame
  <1>13. Kept
    <2>1. \A d \in Calls : confirms[d].at \in {"confirmed", "shipped", "removing"}
                             => confirms'[d].at = confirms[d].at
      BY <1>1, <1>3 DEF IInv, TypeOK
    <2>2. Lives
      <3> HIDE DEF paid
      <3> QED BY <1>4, <1>5 DEF IInv, TypeOK, Lives, Life!GroupNext, Life!Paid, Life!Turns
    <2> QED BY <1>1, <2>1, <2>2 DEF Kept
  <1> QED BY <1>12, <1>13

\* The customer tries again; the shipment is submitted.
LEMMA MovesOnStep == ASSUME IInv, NEW c \in Calls, Retry(c) \/ Ships(c) PROVE IInv' /\ Kept
  <1>1. UNCHANGED <<status, user, path, toss, url, pending, cart, group, pays, events>>
    BY DEF Retry, Ships, session
  <1>2. PICK at \in {"sent", "shipped"} :
          /\ confirms' = [confirms EXCEPT ![c] = [confirms[c] EXCEPT !.at = at]]
          /\ confirms[c].at = (IF at = "sent" THEN "failed" ELSE "confirmed")
    BY DEF Retry, Ships, Became
  <1> DEFINE r == [confirms[c] EXCEPT !.at = at]
  <1>3. /\ r \in ConfirmRows /\ r.at = at
        /\ r.owner = confirms[c].owner /\ r.group = confirms[c].group
        /\ r.pending = confirms[c].pending
    BY RowBefore DEF ConfirmRows
  <1> HIDE DEF r
  <1>4. ConfirmOK(r)
    BY <1>2, <1>3, RowBefore DEF ConfirmOK, Paying
  <1>5. confirms' = [confirms EXCEPT ![c] = r]
    BY <1>2 DEF r
  <1>6. /\ cart' \in [Users -> SUBSET Lines] /\ events' \in 0 .. MaxEvents
        /\ pending' \in [Users -> Groups \union {NoGroup}] /\ PendingMoves
    BY <1>1 DEF IInv, TypeOK, PendingMoves
  <1>7. IInv'
    BY <1>1, <1>3, <1>4, <1>5, <1>6, RowStep
  <1>8. \A d \in Calls : confirms[d].at \in {"confirmed", "shipped", "removing"}
                           => confirms'[d].at # "idle"
    BY <1>3, <1>5 DEF IInv, TypeOK
  <1> QED BY <1>1, <1>7, <1>8 DEF Kept, Lives

\* A refusal is told; the account that paid is gone.
LEMMA EndsStep == ASSUME IInv, NEW c \in Calls, RefusalHandled(c) \/ OwnerLeft(c) PROVE IInv' /\ Kept
  <1>1. /\ UNCHANGED <<status, user, path, toss, url, cart, group, pays, events>>
        /\ confirms[c].at # "idle" /\ (Forgets(c) \/ pending' = pending)
    BY DEF RefusalHandled, OwnerLeft, session
  <1>2. /\ \/ confirms' = [confirms EXCEPT ![c] = NoConfirm]
           \/ confirms' = [confirms EXCEPT ![c] = [confirms[c] EXCEPT !.at = "failed"]]
        /\ OwnerLeft(c) \/ confirms[c].at = "refused"
    BY DEF RefusalHandled, OwnerLeft, Became, Finished
  <1>3. PICK r \in ConfirmRows : confirms' = [confirms EXCEPT ![c] = r] /\ ConfirmOK(r)
    <2> DEFINE n == [confirms[c] EXCEPT !.at = "failed"]
    <2>1. /\ n \in ConfirmRows /\ n.at = "failed"
          /\ n.owner = confirms[c].owner /\ n.group = confirms[c].group
          /\ n.pending = confirms[c].pending
      BY RowBefore, Moved
    <2>2. confirms' = [confirms EXCEPT ![c] = NoConfirm] \/ confirms' = [confirms EXCEPT ![c] = n]
      BY <1>2
    <2> HIDE DEF n
    <2>3. ConfirmOK(n)
      BY <1>1, <2>1, RowBefore DEF ConfirmOK, Paying
    <2> QED BY <2>1, <2>2, <2>3, RowBefore
  <1>4. /\ cart' \in [Users -> SUBSET Lines] /\ events' \in 0 .. MaxEvents
        /\ pending' \in [Users -> Groups \union {NoGroup}] /\ PendingMoves
    BY <1>1, ForgetsMoves DEF IInv, TypeOK
  <1>5. IInv'
    BY <1>1, <1>3, <1>4, RowStep
  <1>6. ASSUME NEW d \in Calls, confirms[d].at \in {"confirmed", "shipped", "removing"},
               confirms'[d].at = "idle"
        PROVE  pending'[confirms[d].owner] # confirms[d].group
    <2>1. d = c
      BY <1>3, <1>6 DEF IInv, TypeOK
    <2>2. Forgets(c) \/ (pending' = pending /\ ~ HasPending(c))
      BY <1>2, <1>6, <2>1 DEF OwnerLeft
    <2> QED BY <1>1, <2>1, <2>2, Forgotten
  <1> QED BY <1>1, <1>5, <1>6 DEF Kept, Lives

\* The owner's cart is about to be cleaned.
LEMMA RemovesStep == ASSUME IInv, NEW c \in Calls, Removes(c) PROVE IInv' /\ Kept
  <1>1. /\ UNCHANGED <<status, user, path, toss, url, pending, cart, group, pays, events>>
        /\ confirms[c].at = "shipped" /\ user = confirms[c].owner
    BY DEF Removes, IsCurrent, session
  <1> DEFINE n == [confirms[c] EXCEPT !.at = "removing", !.cartOf = user]
  <1>2. \/ HasPending(c) /\ confirms' = [confirms EXCEPT ![c] = n]
        \/ ~ HasPending(c) /\ confirms' = [confirms EXCEPT ![c] = NoConfirm]
    BY DEF Removes, Finished
  <1>3. /\ n \in ConfirmRows /\ n.at = "removing" /\ n.cartOf = user
        /\ n.owner = confirms[c].owner /\ n.group = confirms[c].group
        /\ n.pending = confirms[c].pending
    BY ZenonT(60), RowBefore DEF ConfirmRows, IInv, TypeOK
  <1> HIDE DEF n
  <1>4. HasPending(c) => ConfirmOK(n)
    BY <1>1, <1>3, RowBefore DEF ConfirmOK, Paying, HasPending
  <1>5. PICK r \in ConfirmRows : confirms' = [confirms EXCEPT ![c] = r] /\ ConfirmOK(r)
    BY <1>2, <1>3, <1>4, RowBefore
  <1>6. /\ cart' \in [Users -> SUBSET Lines] /\ events' \in 0 .. MaxEvents
        /\ pending' \in [Users -> Groups \union {NoGroup}] /\ PendingMoves
    BY <1>1 DEF IInv, TypeOK, PendingMoves
  <1>7. IInv'
    BY <1>1, <1>5, <1>6, RowStep
  <1>8. ASSUME NEW d \in Calls, confirms[d].at \in {"confirmed", "shipped", "removing"},
               confirms'[d].at = "idle"
        PROVE  pending'[confirms[d].owner] # confirms[d].group
    <2>1. d = c
      BY <1>5, <1>8 DEF IInv, TypeOK
    <2>2. confirms'[c] = n \/ ~ HasPending(c)
      BY <1>2 DEF IInv, TypeOK
    <2>3. ~ HasPending(c)
      BY <1>3, <1>8, <2>1, <2>2
    <2> QED BY <1>1, <2>1, <2>3, Forgotten
  <1> QED BY <1>1, <1>7, <1>8 DEF Kept, Lives

\* The paid lines leave the cart, or stay.
LEMMA RemovedStep == ASSUME IInv, NEW c \in Calls, Removed(c) PROVE IInv' /\ Kept
  <1>1. /\ UNCHANGED <<status, user, path, toss, url, group, pays, events>>
        /\ confirms[c].at = "removing" /\ Forgets(c)
        /\ confirms' = [confirms EXCEPT ![c] = NoConfirm]
    BY DEF Removed, Finished, session
  <1>2. /\ confirms[c].owner \in Users /\ confirms[c].cartOf = confirms[c].owner
        /\ confirms[c].pending = confirms[c].group
        /\ OwnedBy(confirms[c].group, confirms[c].owner)
        /\ group[confirms[c].group].state = "paid"
    BY <1>1, RowBefore DEF ConfirmOK, Paying
  <1>3. \/ cart' = cart
        \/ cart' = [cart EXCEPT ![confirms[c].owner] = @ \ group[confirms[c].group].lines]
    BY <1>2 DEF Removed
  <1>4. cart' \in [Users -> SUBSET Lines]
    BY <1>2, <1>3 DEF IInv, TypeOK
  <1>5. /\ events' \in 0 .. MaxEvents
        /\ pending' \in [Users -> Groups \union {NoGroup}] /\ PendingMoves
    BY <1>1, ForgetsMoves DEF IInv, TypeOK
  <1>6. NoConfirm \in ConfirmRows /\ ConfirmOK(NoConfirm)
    BY RowBefore
  <1>7. IInv'
    BY <1>1, <1>4, <1>5, <1>6, RowStep
  <1>8. \A u \in Users : \A l \in cart[u] \ cart'[u] :
          \E g \in Groups : group[g].owner = u /\ group[g].state = "paid" /\ l \in group[g].lines
    BY <1>2, <1>3 DEF IInv, TypeOK, OwnedBy, Made
  <1>9. ASSUME NEW d \in Calls, confirms[d].at \in {"confirmed", "shipped", "removing"},
               confirms'[d].at = "idle"
        PROVE  pending'[confirms[d].owner] # confirms[d].group
    <2>1. d = c
      BY <1>1, <1>9 DEF IInv, TypeOK
    <2> QED BY <1>1, <2>1, Forgotten
  <1> QED BY <1>1, <1>7, <1>8, <1>9 DEF Kept, Lives

-----------------------------------------------------------------------------
\* Every step keeps the invariant.
LEMMA NextStep == ASSUME IInv, Next PROVE IInv' /\ Kept
  <1>1. CASE TokenInstalled \/ SessionCleared \/ Reload \/ \E to \in {"cart", "form"} : Goes(to)
    BY <1>1, PageStep
  <1>2. CASE TossSucceeds \/ TossCancels
    BY <1>2, TossStep
  <1>6. CASE TossClosed
    BY <1>6, ClosedStep
  <1>3. CASE TimePasses \/ \E g \in Groups : OrderCanceled(g) \/ GroupPaid(g)
    BY <1>3, ElsewhereStep
  <1>4. CASE \E u \in Users : Settles(u)
    BY <1>4, SettlesStep
  <1>5. ASSUME NEW c \in Calls,
               \/ \E lines \in SUBSET Lines : Pay(c, lines)
               \/ \E g \in Groups : OrderCreated(c, g)
               \/ CreateFails(c) \/ AmountSet(c) \/ ConfirmAnswered(c) \/ Retry(c)
               \/ RefusalHandled(c) \/ OwnerLeft(c) \/ Ships(c) \/ Removes(c) \/ Removed(c)
        PROVE  IInv' /\ Kept
    BY <1>5, PayStep, CreateStep, AmountSetStep, ConfirmAnsweredStep, MovesOnStep, EndsStep,
       RemovesStep, RemovedStep
  <1> QED BY <1>1, <1>2, <1>3, <1>4, <1>5, <1>6 DEF Next

\* So does a step that changes nothing.
LEMMA StutterStep == ASSUME IInv, UNCHANGED vars PROVE IInv' /\ Kept
  <1>1. TypeOK' /\ SessionOK' /\ Place'
    BY DEF vars, IInv, TypeOK, SessionOK, Place, Made
  <1>2. \A c \in Calls : PayOK(pays'[c]) /\ ConfirmOK(confirms'[c])
    BY DEF vars, IInv
  <1>3. IInv'
    BY <1>1, <1>2, FrameAlone DEF vars
  <1> QED BY <1>3 DEF Kept, Lives, vars

\* IInv holds in every state of every behaviour.
THEOREM CheckoutInvariant == Spec => []IInv
  <1>1. IInv /\ [Next]_vars => IInv'
    BY NextStep, StutterStep
  <1> QED BY <1>1, InitIInv, PTL DEF Spec

\* Lines leave an account's cart only for a group of that account that is paid
\* (payment-success.tsx waits for the owner before it cleans the cart).
THEOREM CartsAreOwners == Spec => LinesLeavePaidBy
  <1>1. IInv /\ [Next]_vars =>
          [\A u \in Users : \A l \in cart[u] \ cart'[u] :
             \E g \in Groups :
               group[g].owner = u /\ group[g].state = "paid" /\ l \in group[g].lines]_vars
    BY NextStep DEF Kept, Lives
  <1> QED BY <1>1, CheckoutInvariant, PTL DEF Spec, LinesLeavePaidBy

\* The Toss window opens only for the account that is signed in, on a group of its own
\* (use-checkout-payment.ts looks at the owner after each wait).
THEOREM WindowIsOwners == Spec => TossByOwner
  <1>1. IInv /\ [Next]_vars =>
          [toss' \notin {toss, NoGroup} =>
             status = "authenticated" /\ group[toss'].owner = user]_vars
    BY NextStep DEF Kept, Lives
  <1> QED BY <1>1, CheckoutInvariant, PTL DEF Spec, TossByOwner

\* A confirmation that is handled to its end leaves the paid group pending for nobody to
\* pay again (payment-success.tsx, handleConfirmed).
THEOREM PaidLeavesNothing == Spec => PaidIsForgotten
  <1>1. IInv /\ [Next]_vars =>
          [\A c \in Calls :
             /\ confirms[c].at \in {"confirmed", "shipped", "removing"}
             /\ confirms'[c].at = "idle" /\ UNCHANGED <<events, path>>
             => pending'[confirms[c].owner] # confirms[c].group]_vars
    BY NextStep DEF Kept, Lives
  <1> QED BY <1>1, CheckoutInvariant, PTL DEF Spec, PaidIsForgotten

\* Whatever the pages ask of a group, GroupLife allows it: it is made once, and paid only
\* while it can be (use-checkout-payment.ts, use-payment-confirm.ts).
THEOREM GroupsAreUsed == Spec => UsesGroups
  <1> DEFINE Moves == \A g \in Groups : [Life(g)!GroupNext]_(group[g].state)
             Born  == \A g \in Groups : Life(g)!GroupInit
  <1>1. Init => Born
    BY DEF Init, NoOrders, Life!GroupInit
  <1>2. IInv /\ [Next]_vars => [Moves]_vars
    BY NextStep DEF Kept, Lives
  <1> QED BY <1>1, <1>2, CheckoutInvariant, PTL DEF Spec, UsesGroups
=============================================================================
