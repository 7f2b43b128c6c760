------------------------------ MODULE StoreCart ------------------------------
(***************************************************************************)
(* The cart of the store as one tab edits it: a guest's in localStorage, a *)
(* customer's at the API, which only replaces carts whole.                 *)
(*                                                                         *)
(* Edits and the sync that follows a login run one after the other in a    *)
(* queue.  Each is tied to the session it was asked in (captureCartSession)*)
(* and gives up when the tab has another by the time it runs.  A PUT that  *)
(* the tab gave up may reach the API long after, whatever was read and     *)
(* written in between.                                                     *)
(***************************************************************************)
EXTENDS Naturals, Sequences, FiniteSets

CONSTANTS
  Users,       \* accounts that sign in in the tab
  NoUser,      \* nobody: the session of a guest
  Items,       \* lines that may be put in a cart
  MaxEvents,   \* bound: sessions that change, loads of the page, lost requests
  MaxEdits     \* bound: edits of the customers, each of them asked once

ASSUME CartAssumption == NoUser \notin Users /\ MaxEvents \in Nat /\ MaxEdits \in Nat

VARIABLES
  session,   \* status and user of the session store, tokenRevision
  previous,  \* previousUserId of useCartAuthSync
  guest,     \* lines in localStorage
  account,   \* [Users -> lines at the API]
  queue,     \* cartUpdateTail: the tasks not finished
  at,        \* how far the first of them is
  late,      \* PUTs the tab gave up before the API carried them out
  asked,     \* edits asked for: <<"add" or "remove", line, user>>
  events

vars == <<session, previous, guest, account, queue, at, late, asked, events>>

Statuses == {"loading", "authenticated", "anonymous"}
Sessions == [status : Statuses, user : Users \union {NoUser}, revision : Nat]

\* A task: an edit of a line, or a sync of the guest's cart.
Tasks == [kind : {"add", "remove", "sync"}, items : SUBSET Items, as : Sessions]

\* A PUT that was given up, told apart by the event that made the tab do so.
Puts == [user : Users, items : SUBSET Items, id : 0 .. MaxEvents]

\* waiting; GET /cart sent; PUT /cart sent, with the lines it carries; PUT done.
\* crossed: PUTs given up that the API carried out for the same account since it
\* answered the GET, or did the PUT (history).
Progress == [step : {"waiting", "reading", "putting", "put"}, items : SUBSET Items,
             crossed : SUBSET Puts]
Waiting == [step |-> "waiting", items |-> {}, crossed |-> {}]

TypeOK ==
  /\ session \in Sessions
  /\ previous \in Users \union {NoUser}
  /\ guest \in SUBSET Items
  /\ account \in [Users -> SUBSET Items]
  /\ queue \in Seq(Tasks)
  /\ at \in Progress
  /\ late \subseteq Puts
  /\ asked \subseteq {"add", "remove"} \X Items \X (Users \union {NoUser})
  /\ events \in 0 .. MaxEvents

Init ==
  /\ session = [status |-> "anonymous", user |-> NoUser, revision |-> 0]
  /\ previous = NoUser
  /\ guest = {}
  /\ account = [u \in Users |-> {}]
  /\ queue = << >>
  /\ at = Waiting
  /\ late = {}
  /\ asked = {}
  /\ events = 0

Event == events < MaxEvents /\ events' = events + 1

\* isCurrentCartSession.
IsCurrent(as) == session = as

Finish == queue' = Tail(queue) /\ at' = Waiting

\* The tab no longer waits for what it sent.
GiveUp ==
  late' = IF at.step = "putting"
          THEN late \union {[user |-> Head(queue).as.user, items |-> at.items, id |-> events]}
          ELSE late

--------------------------------------------------------------------------
\* The session of the tab, as StoreSession changes it.

\* A token arrives: it is installed at once and its user shown later.
TokenInstalled ==
  /\ Event
  /\ session' = [session EXCEPT !.status = "loading", !.revision = @ + 1]
  /\ UNCHANGED <<previous, guest, account, queue, at, late, asked>>

\* Its user is known.  useCartAuthSync queues a sync unless the last one that
\* succeeded was this user's.
Verified(u) ==
  /\ session.status = "loading"
  /\ session' = [session EXCEPT !.status = "authenticated", !.user = u]
  /\ queue' = IF previous = u THEN queue
              ELSE Append(queue, [kind |-> "sync", items |-> {}, as |-> session'])
  /\ UNCHANGED <<previous, guest, account, at, late, asked, events>>

SessionCleared ==
  /\ Event
  /\ session' = [status |-> "anonymous", user |-> NoUser, revision |-> session.revision + 1]
  /\ previous' = NoUser
  /\ UNCHANGED <<guest, account, queue, at, late, asked>>

\* The page is loaded anew: the queue is gone, and nobody waits for a PUT.
Reload ==
  /\ Event
  /\ session' = [status |-> "loading", user |-> NoUser, revision |-> session.revision + 1]
  /\ previous' = NoUser
  /\ queue' = << >> /\ at' = Waiting /\ GiveUp
  /\ UNCHANGED <<guest, account, asked>>

--------------------------------------------------------------------------
\* The queue.

\* updateInputs: an edit is queued for the session of this moment; while the
\* session is loading it is dropped.
Edit(kind, i) ==
  /\ Cardinality(asked) < MaxEdits
  /\ <<kind, i, session.user>> \notin asked
  /\ asked' = asked \union {<<kind, i, session.user>>}
  /\ queue' = IF session.status = "loading" THEN queue
              ELSE Append(queue, [kind |-> kind, items |-> {i}, as |-> session])
  /\ UNCHANGED <<session, previous, guest, account, at, late, events>>

\* The updaters of items.ts, as far as lines come and go.
Updated(task, lines) ==
  IF task.kind = "add" THEN lines \union task.items ELSE lines \ task.items

\* Mutant: the task runs in the session of the moment, not in the one it was asked in.
BeginAsAnyone ==
  /\ queue # << >> /\ at.step = "waiting"
  /\ IF session.status = "authenticated"
     THEN /\ queue' = [queue EXCEPT ![1].as = session]
          /\ at' = [at EXCEPT !.step = "reading"]
     ELSE Finish
  /\ UNCHANGED <<session, previous, guest, account, late, asked, events>>

\* The first task runs: it is dropped, edits localStorage, or asks for the cart.
Begin ==
  LET task == Head(queue) IN
  /\ queue # << >> /\ at.step = "waiting"
  /\ IF ~IsCurrent(task.as) THEN Finish /\ UNCHANGED guest
     ELSE IF task.as.status = "anonymous"
     THEN Finish /\ guest' = Updated(task, guest)
     ELSE at' = [at EXCEPT !.step = "reading"] /\ UNCHANGED <<queue, guest>>
  /\ UNCHANGED <<session, previous, account, late, asked, events>>

\* Mutant: a sync sends the guest's lines also when there are none.
CartReadSyncsNothing ==
  LET task == Head(queue) IN
  /\ at.step = "reading"
  /\ IF IsCurrent(task.as)
     THEN /\ at' = [step |-> "putting", crossed |-> {},
                    items |-> IF task.kind = "sync" THEN guest
                              ELSE Updated(task, account[task.as.user])]
          /\ UNCHANGED queue
     ELSE Finish
  /\ UNCHANGED <<session, previous, guest, account, late, asked, events>>

\* The cart comes.  If the tab's session is still the one that asked, the task sends
\* the edited lines, or the guest's in their place; a sync of nothing is done.
CartRead ==
  LET task == Head(queue)
      current == IsCurrent(task.as)
      nothing == task.kind = "sync" /\ guest = {}
  IN /\ at.step = "reading"
     /\ \/ /\ current /\ ~nothing
           /\ at' = [step |-> "putting", crossed |-> {},
                     items |-> IF task.kind = "sync" THEN guest
                               ELSE Updated(task, account[task.as.user])]
           /\ UNCHANGED <<queue, previous>>
        \/ /\ ~current \/ nothing
           /\ Finish
           /\ previous' = IF current THEN task.as.user ELSE previous
     /\ UNCHANGED <<session, guest, account, late, asked, events>>

\* replace_cart, for the user whose token the task was tied to.
Replaced ==
  /\ at.step = "putting"
  /\ account' = [account EXCEPT ![Head(queue).as.user] = at.items]
  /\ at' = [at EXCEPT !.step = "put", !.crossed = {}]
  /\ UNCHANGED <<session, previous, guest, queue, late, asked, events>>

\* replace_cart for a PUT that was given up: nothing tells the API, which carries it out
\* when it gets to it, in its turn but whatever the tab has read or sent since.
LateReplaced(put) ==
  /\ account' = [account EXCEPT ![put.user] = put.items]
  /\ late' = late \ {put}
  /\ at' = IF at.step \in {"putting", "put"} /\ Head(queue).as.user = put.user
           THEN [at EXCEPT !.crossed = @ \union {put}] ELSE at
  /\ UNCHANGED <<session, previous, guest, queue, asked, events>>

\* Mutant: an answer without data is taken for the replaced cart.
PutAnsweredUnchecked ==
  LET task == Head(queue)
      synced == task.kind = "sync" /\ IsCurrent(task.as)
  IN /\ at.step \in {"putting", "put"}
     /\ guest' = IF synced THEN {} ELSE guest
     /\ previous' = IF synced THEN task.as.user ELSE previous
     /\ Finish
     /\ UNCHANGED <<session, account, late, asked, events>>

\* The answer: a sync forgets the guest's lines, if the session is still its own.
PutAnswered ==
  LET task == Head(queue)
      synced == task.kind = "sync" /\ IsCurrent(task.as)
  IN /\ at.step = "put"
     /\ guest' = IF synced THEN {} ELSE guest
     /\ previous' = IF synced THEN task.as.user ELSE previous
     /\ Finish
     /\ UNCHANGED <<session, account, late, asked, events>>

\* A request or its answer is lost or the API refuses it, as far as the tab can tell:
\* the task ends there.
RequestFails ==
  /\ Event
  /\ at.step \in {"reading", "putting", "put"}
  /\ Finish /\ GiveUp
  /\ UNCHANGED <<session, previous, guest, account, asked>>

Next ==
  \/ TokenInstalled \/ SessionCleared \/ Reload
  \/ \E u \in Users : Verified(u)
  \/ \E i \in Items : Edit("add", i) \/ Edit("remove", i)
  \/ Begin \/ CartRead \/ Replaced \/ PutAnswered \/ RequestFails
  \/ \E put \in late : LateReplaced(put)

Spec == Init /\ [][Next]_vars

--------------------------------------------------------------------------
\* Whatever sessions come and go while an edit or a sync waits for its turn or for
\* an answer, a cart only holds what its own customer or a guest of the browser
\* put there, and the guest's cart nothing of a customer's.
CartOfOwner ==
  \A i \in Items :
    /\ i \in guest => <<"add", i, NoUser>> \in asked
    /\ \A u \in Users : i \in account[u] =>
         <<"add", i, u>> \in asked \/ <<"add", i, NoUser>> \in asked

\* A line leaves the browser only when the guest removed it, or when it is in an
\* account: failed, repeated and abandoned syncs keep it.  The account may have lost it
\* again to a PUT given up before, if that came between the sync's PUT and its answer.
GuestLinesKept ==
  [][\A i \in guest \ guest' :
       \/ <<"remove", i, NoUser>> \in asked
       \/ \E u \in Users : i \in account'[u]
       \/ at.crossed # {}]_vars

\* A line leaves an account's cart only when its customer removed it, when a guest's
\* cart that is not empty takes the place of the account's, or through a PUT that the
\* tab gave up and the API carried out late: that one writes the cart of its own reading,
\* and what it brought is lost to a task that had read the cart before.  Edits that
\* follow each other lose nothing else, whatever sessions and pages come in between.
AccountLinesKept ==
  [][\A u \in Users : \A i \in account[u] \ account'[u] :
       \/ <<"remove", i, u>> \in asked
       \/ guest # {}
       \/ \E put \in late \ late' : put.user = u
       \/ \E put \in at.crossed : i \in put.items]_vars

--------------------------------------------------------------------------
(* What an edit that seems to fail may still do: no run checks it. *)

\* A line leaves an account's cart only when its customer removed it or for a guest's
\* cart.  It does not hold: a PUT whose request failed in the tab undoes, when the API
\* gets to it, what was edited since, or is undone by an edit that had read the cart.
NoEditUndone ==
  [][\A u \in Users : \A i \in account[u] \ account'[u] :
       <<"remove", i, u>> \in asked \/ guest # {}]_vars
=============================================================================
