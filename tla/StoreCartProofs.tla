--------------------------- MODULE StoreCartProofs ---------------------------
(***************************************************************************)
(* Theorems about StoreCart, for every set of customers and lines and any  *)
(* number of edits and of sessions that change.                            *)
(***************************************************************************)
EXTENDS StoreCart, SequenceTheorems, TLAPS

\* The customer, or the guest, put the line in a cart.
Added(u, i) == <<"add", i, u>> \in asked \/ <<"add", i, NoUser>> \in asked

\* A status says whether there is a user.
SessionOK ==
  /\ session \in Sessions
  /\ session.status = "anonymous" => session.user = NoUser
  /\ session.status = "authenticated" => session.user \in Users

\* A task was asked for by the session it is tied to, and only a customer's syncs.
Good(t) ==
  /\ \/ t.as.status = "authenticated" /\ t.as.user \in Users
     \/ t.as.status = "anonymous" /\ t.as.user = NoUser /\ t.kind # "sync"
  /\ t.kind # "sync" => \A i \in t.items : <<t.kind, i, t.as.user>> \in asked

GoodTasks == {t \in Tasks : Good(t)}

\* What the task under way has read is still so when it writes, and what it wrote is
\* there when the answer comes, but for the PUTs given up that crossed it: nobody else
\* writes the account's cart or the guest's.
Sent ==
  LET task == Head(queue)
      u    == task.as.user
  IN /\ queue # << >> /\ task.as.status = "authenticated"
     /\ at.step = "putting" =>
          /\ \A i \in at.items : Added(u, i)
          /\ task.kind = "sync" => at.items = guest /\ guest # {}
          /\ task.kind # "sync" => \A i \in account[u] \ at.items :
               <<"remove", i, u>> \in asked \/ \E put \in at.crossed : i \in put.items
     /\ at.step = "put" =>
          (task.kind = "sync" => guest \subseteq account[u] \/ at.crossed # {})

\* What may arrive late belongs to the customer it was sent for.
LateIsOwned == \A put \in late : \A i \in put.items : Added(put.user, i)

IInv ==
  /\ guest \in SUBSET Items /\ account \in [Users -> SUBSET Items]
  /\ at \in Progress /\ late \subseteq Puts /\ events \in 0 .. MaxEvents
  /\ SessionOK
  /\ queue \in Seq(GoodTasks)
  /\ at.step # "waiting" => Sent
  /\ LateIsOwned
  /\ CartOfOwner

\* What a step does to the lines.
LinesKept ==
  /\ \A i \in guest \ guest' :
       \/ <<"remove", i, NoUser>> \in asked
       \/ \E u \in Users : i \in account'[u]
       \/ at.crossed # {}
  /\ \A u \in Users : \A i \in account[u] \ account'[u] :
       \/ <<"remove", i, u>> \in asked
       \/ guest # {}
       \/ \E put \in late \ late' : put.user = u
       \/ \E put \in at.crossed : i \in put.items

\* Events are counted, at most once a step.
Counted == events' = events \/ (events < MaxEvents /\ events' = events + 1)

-----------------------------------------------------------------------------
\* A good task stays good while more is asked for.
LEMMA GoodGrows ==
  ASSUME asked \subseteq asked', queue \in Seq(GoodTasks)
  PROVE  queue \in Seq(GoodTasks')
  <1>1. GoodTasks \subseteq GoodTasks'
    BY DEF GoodTasks, Good
  <1> QED BY <1>1, SeqMonotonic

\* The first task of a queue, and the rest of it.
LEMMA FirstTask ==
  ASSUME queue \in Seq(GoodTasks), queue # << >>
  PROVE  Head(queue) \in GoodTasks /\ Tail(queue) \in Seq(GoodTasks)
  BY HeadTailProperties

\* A task that is queued leaves the first in place.
LEMMA QueuedLast ==
  ASSUME queue \in Seq(GoodTasks), NEW t \in GoodTasks
  PROVE  /\ Append(queue, t) \in Seq(GoodTasks)
         /\ queue # << >> => Append(queue, t) # << >> /\ Head(Append(queue, t)) = Head(queue)
  OBVIOUS

\* The count stays in its range.
LEMMA CountedInRange == ASSUME events \in 0 .. MaxEvents, Counted PROVE events' \in 0 .. MaxEvents
  BY CartAssumption DEF Counted

\* What a task would send belongs to its customer.
LEMMA SentIsOwned ==
  ASSUME IInv, queue # << >>, Head(queue).as.status = "authenticated"
  PROVE  LET task == Head(queue)
             u == task.as.user
         IN /\ u \in Users /\ task.items \subseteq Items
            /\ \A i \in guest : Added(u, i)
            /\ task.kind # "sync" => \A i \in Updated(task, account[u]) : Added(u, i)
            /\ task.kind # "sync" => \A i \in account[u] \ Updated(task, account[u]) :
                                      <<"remove", i, u>> \in asked
  <1> DEFINE task == Head(queue)
             u == task.as.user
  <1>1. task \in GoodTasks
    BY FirstTask DEF IInv
  <1>2. /\ u \in Users /\ task.items \subseteq Items /\ task.kind \in {"add", "remove", "sync"}
        /\ task.kind # "sync" => \A i \in task.items : <<task.kind, i, u>> \in asked
    BY <1>1 DEF GoodTasks, Good, Tasks
  <1>3. (\A i \in guest : Added(u, i)) /\ \A i \in account[u] : Added(u, i)
    BY <1>2 DEF IInv, CartOfOwner, Added
  <1> HIDE DEF task, u
  <1>4. task.kind # "sync" => \A i \in Updated(task, account[u]) : Added(u, i)
    BY <1>2, <1>3 DEF Updated, Added
  <1>5. task.kind # "sync" => \A i \in account[u] \ Updated(task, account[u]) :
                                <<"remove", i, u>> \in asked
    BY <1>2 DEF Updated
  <1> QED BY <1>2, <1>3, <1>4, <1>5 DEF task, u

\* A PUT that is given up is kept for later.
LEMMA GivenUp ==
  ASSUME IInv, GiveUp, UNCHANGED asked
  PROVE  late' \subseteq Puts /\ LateIsOwned' /\ late \subseteq late'
  <1> DEFINE put == [user |-> Head(queue).as.user, items |-> at.items, id |-> events]
  <1>1. CASE at.step = "putting"
    <2>1. Sent /\ at.items \subseteq Items /\ events \in 0 .. MaxEvents
      BY <1>1 DEF IInv, Progress
    <2>2. put.user \in Users
      BY <2>1, SentIsOwned DEF Sent
    <2>3. put \in Puts
      BY <2>1, <2>2 DEF Puts
    <2>4. \A i \in put.items : Added(put.user, i)
      BY <1>1, <2>1 DEF Sent
    <2>5. late' = late \union {put}
      BY <1>1 DEF GiveUp
    <2> HIDE DEF put
    <2> QED BY <2>3, <2>4, <2>5 DEF IInv, LateIsOwned, Added
  <1>2. CASE at.step # "putting"
    BY <1>2 DEF GiveUp, IInv, LateIsOwned, Added
  <1> QED BY <1>1, <1>2

\* At first the invariant holds.
LEMMA InitIInv == Init => IInv
  BY EmptySeq, CartAssumption
     DEF Init, IInv, SessionOK, Sessions, CartOfOwner, LateIsOwned, Waiting, Progress, Statuses

-----------------------------------------------------------------------------
\* Sessions change; the queue stays, or a sync joins it.
LEMMA SessionStep ==
  ASSUME IInv, TokenInstalled \/ SessionCleared \/ \E u \in Users : Verified(u)
  PROVE  IInv' /\ LinesKept
  <1>1. CASE TokenInstalled \/ SessionCleared
    <2>1. UNCHANGED <<guest, account, queue, at, late, asked>> /\ events' \in 0 .. MaxEvents
      BY <1>1, CountedInRange DEF TokenInstalled, SessionCleared, Event, Counted, IInv
    <2>2. SessionOK'
      <3>1. session \in Sessions
        BY DEF IInv, SessionOK
      <3>2. CASE TokenInstalled
        <4> DEFINE n == session.revision + 1
        <4>0. n \in Nat
          BY <3>1 DEF Sessions
        <4>1. session' = [session EXCEPT !.status = "loading", !.revision = n]
          BY <3>2 DEF TokenInstalled
        <4> HIDE DEF n
        <4>2. session'.status = "loading" /\ session' \in Sessions
          BY <3>1, <4>0, <4>1 DEF Sessions, Statuses
        <4> QED BY <4>2 DEF SessionOK
      <3>3. CASE SessionCleared
        <4>1. session' = [status |-> "anonymous", user |-> NoUser, revision |-> session.revision + 1]
          BY <3>3 DEF SessionCleared
        <4>2. session' \in Sessions /\ session'.status = "anonymous" /\ session'.user = NoUser
          BY <3>1, <4>1 DEF Sessions, Statuses
        <4> QED BY <4>2 DEF SessionOK
      <3> QED BY <1>1, <3>2, <3>3
    <2>3. GoodTasks' = GoodTasks
      BY <2>1 DEF GoodTasks, Good
    <2>4. (at'.step # "waiting" => Sent') /\ LateIsOwned' /\ CartOfOwner'
      BY <2>1 DEF IInv, Sent, LateIsOwned, CartOfOwner, Added
    <2> QED BY <2>1, <2>2, <2>3, <2>4 DEF IInv, LinesKept
  <1>2. ASSUME NEW u \in Users, Verified(u) PROVE IInv' /\ LinesKept
    <2> DEFINE t == [kind |-> "sync", items |-> {}, as |-> session']
    <2>1. SessionOK' /\ session'.status = "authenticated" /\ session'.user = u
      BY <1>2 DEF Verified, IInv, SessionOK, Sessions, Statuses
    <2>2. t \in GoodTasks
      BY <2>1 DEF GoodTasks, Good, Tasks, SessionOK
    <2>3. UNCHANGED <<guest, account, at, late, asked, events>> /\ queue' \in {queue, Append(queue, t)}
      BY <1>2 DEF Verified
    <2>4. GoodTasks' = GoodTasks
      BY <2>3 DEF GoodTasks, Good
    <2> HIDE DEF t
    <2>5. queue' \in Seq(GoodTasks)' /\ (queue # << >> => queue' # << >> /\ Head(queue') = Head(queue))
      BY <2>2, <2>3, <2>4, QueuedLast DEF IInv
    <2>6. at'.step # "waiting" => Sent'
      BY <2>3, <2>5 DEF IInv, Sent, Added
    <2> QED BY <2>1, <2>3, <2>5, <2>6 DEF IInv, LateIsOwned, Added, CartOfOwner, LinesKept
  <1> QED BY <1>1, <1>2

\* A cart that is replaced by lines of its owner keeps every cart its owner's.
LEMMA CartReplaced ==
  ASSUME IInv, NEW u \in Users, NEW lines \in SUBSET Items, \A i \in lines : Added(u, i),
         account' = [account EXCEPT ![u] = lines], UNCHANGED <<guest, asked>>
  PROVE  /\ account' \in [Users -> SUBSET Items] /\ account'[u] = lines
         /\ \A v \in Users : v # u => account'[v] = account[v]
         /\ CartOfOwner'
  <1>1. /\ account' \in [Users -> SUBSET Items] /\ account'[u] = lines
        /\ \A v \in Users : v # u => account'[v] = account[v]
    BY DEF IInv
  <1> QED BY <1>1 DEF IInv, CartOfOwner, Added

\* A page that loads keeps the invariant.
LEMMA ReloadStep == ASSUME IInv, Reload PROVE IInv' /\ LinesKept
  <1>1. SessionOK'
    BY DEF Reload, IInv, SessionOK, Sessions, Statuses
  <1>2. queue' \in Seq(GoodTasks)' /\ at' = Waiting /\ UNCHANGED <<guest, account, asked>>
    BY EmptySeq DEF Reload
  <1>3. late' \subseteq Puts /\ LateIsOwned' /\ late \subseteq late'
    BY GivenUp DEF Reload
  <1>4. events' \in 0 .. MaxEvents
    BY CountedInRange DEF Reload, Event, Counted, IInv
  <1>5. Waiting \in Progress /\ Waiting.step = "waiting"
    BY DEF Waiting, Progress
  <1> QED BY <1>1, <1>2, <1>3, <1>4, <1>5 DEF IInv, CartOfOwner, LinesKept

\* An edit of the customer keeps it.
LEMMA EditStep ==
  ASSUME IInv, NEW kind \in {"add", "remove"}, NEW i \in Items, Edit(kind, i)
  PROVE  IInv' /\ LinesKept
  <1> DEFINE t == [kind |-> kind, items |-> {i}, as |-> session]
  <1>1. /\ UNCHANGED <<session, guest, account, at, late, events>>
        /\ asked' = asked \union {<<kind, i, session.user>>}
    BY DEF Edit
  <1>2. queue \in Seq(GoodTasks')
    BY <1>1, GoodGrows DEF IInv
  <1>3. session.status # "loading" => t \in GoodTasks'
    BY <1>1 DEF IInv, SessionOK, Sessions, Statuses, GoodTasks, Tasks, Good
  <1>4. queue' = queue \/ (session.status # "loading" /\ queue' = Append(queue, t))
    BY DEF Edit
  <1> HIDE DEF t
  <1>5. queue' \in Seq(GoodTasks') /\ (queue # << >> => queue' # << >> /\ Head(queue') = Head(queue))
    BY <1>2, <1>3, <1>4
  <1>6. asked \subseteq asked'
    BY <1>1
  <1>7. at'.step # "waiting" => Sent'
    BY <1>1, <1>5, <1>6 DEF IInv, Sent, Added
  <1>8. SessionOK' /\ CartOfOwner' /\ LateIsOwned' /\ LinesKept
    BY <1>1, <1>6 DEF IInv, SessionOK, CartOfOwner, LateIsOwned, Added, LinesKept
  <1> QED BY <1>1, <1>5, <1>7, <1>8 DEF IInv

\* A task ends, and with it what it had sent; the guest's lines may have changed.
LEMMA FinishStep ==
  ASSUME IInv, queue # << >>, Finish, UNCHANGED <<session, account, asked>>,
         late' \subseteq Puts, LateIsOwned', events' \in 0 .. MaxEvents,
         guest' \in SUBSET Items, CartOfOwner'
  PROVE  IInv'
  <1>1. GoodTasks' = GoodTasks
    BY DEF GoodTasks, Good
  <1>2. queue' \in Seq(GoodTasks)'
    BY <1>1, FirstTask DEF IInv, Finish
  <1>3. at' \in Progress /\ at'.step = "waiting"
    BY DEF Finish, Waiting, Progress
  <1> QED BY <1>2, <1>3 DEF IInv, SessionOK

\* Nothing changes in what was given up when late and asked do not.
LEMMA LateStays == ASSUME IInv, UNCHANGED <<late, asked>> PROVE late' \subseteq Puts /\ LateIsOwned'
  BY DEF IInv, LateIsOwned, Added

\* A task begins.
LEMMA BeginStep == ASSUME IInv, Begin PROVE IInv' /\ LinesKept
  <1> DEFINE task == Head(queue)
  <1>1. queue # << >> /\ task \in GoodTasks /\ UNCHANGED <<session, account, late, asked, events>>
    BY FirstTask DEF Begin, IInv
  <1>2. CASE Finish /\ guest' = guest
    BY <1>1, <1>2, FinishStep, LateStays DEF IInv, CartOfOwner, LinesKept
  <1>3. CASE Finish /\ task.as.status = "anonymous" /\ guest' = Updated(task, guest)
    <2>1. /\ task.kind \in {"add", "remove"} /\ task.items \subseteq Items
          /\ \A i \in task.items : <<task.kind, i, NoUser>> \in asked
      BY <1>1, <1>3 DEF GoodTasks, Tasks, Good
    <2> HIDE DEF task
    <2>2. guest' \in SUBSET Items /\ CartOfOwner' /\ LinesKept
      BY <1>1, <1>3, <2>1 DEF IInv, CartOfOwner, LinesKept, Updated
    <2> QED BY <1>1, <1>3, <2>2, FinishStep, LateStays DEF IInv
  <1>4. CASE /\ IsCurrent(task.as) /\ task.as.status # "anonymous"
             /\ at' = [at EXCEPT !.step = "reading"] /\ UNCHANGED <<queue, guest>>
    <2>1. task.as.status = "authenticated"
      BY <1>1, <1>4 DEF GoodTasks, Good
    <2>2. at' \in Progress /\ at'.step = "reading"
      BY <1>4 DEF IInv, Progress
    <2>3. Sent'
      BY <1>1, <1>4, <2>1, <2>2 DEF Sent
    <2>4. GoodTasks' = GoodTasks
      BY <1>1 DEF GoodTasks, Good
    <2> QED BY <1>1, <1>4, <2>2, <2>3, <2>4, LateStays DEF IInv, SessionOK, CartOfOwner, LinesKept
  <1> QED BY <1>2, <1>3, <1>4 DEF Begin

\* GET /cart answers.
LEMMA CartReadStep == ASSUME IInv, CartRead PROVE IInv' /\ LinesKept
  <1> DEFINE task == Head(queue)
             u == task.as.user
             lines == IF task.kind = "sync" THEN guest ELSE Updated(task, account[u])
  <1>1. /\ at.step = "reading" /\ Sent /\ queue # << >>
        /\ UNCHANGED <<session, guest, account, late, asked, events>>
    BY DEF CartRead, IInv, Sent
  <1>2. CASE Finish
    BY <1>1, <1>2, FinishStep, LateStays DEF IInv, CartOfOwner, LinesKept
  <1>3. CASE /\ at' = [step |-> "putting", crossed |-> {}, items |-> lines]
             /\ queue' = queue /\ ~ (task.kind = "sync" /\ guest = {})
    <2>1. /\ u \in Users /\ task.items \subseteq Items /\ task.as.status = "authenticated"
          /\ \A i \in guest : Added(u, i)
          /\ task.kind # "sync" => \A i \in Updated(task, account[u]) : Added(u, i)
          /\ task.kind # "sync" => \A i \in account[u] \ Updated(task, account[u]) :
                                    <<"remove", i, u>> \in asked
      BY <1>1, SentIsOwned DEF Sent
    <2>2. account[u] \subseteq Items /\ guest \subseteq Items
      BY <2>1 DEF IInv
    <2>3. Updated(task, account[u]) \subseteq Items
      BY <2>1, <2>2 DEF Updated
    <2>4. /\ at' \in Progress /\ at'.step = "putting" /\ at'.items = lines
          /\ \A i \in lines : Added(u, i)
      BY <1>3, <2>1, <2>2, <2>3 DEF Progress
    <2>5. Sent'
      <3>1. /\ Head(queue)' = task /\ queue' # << >>
            /\ \A i \in at'.items : Added(u, i)'
        BY <1>1, <1>3, <2>4 DEF Added
      <3>2. task.kind = "sync" => at'.items = guest' /\ guest' # {}
        BY <1>1, <1>3, <2>4
      <3>3. task.kind # "sync" => \A i \in account'[u] \ at'.items : <<"remove", i, u>> \in asked'
        BY <1>1, <2>1, <2>4
      <3> QED BY <2>1, <2>4, <3>1, <3>2, <3>3 DEF Sent
    <2>6. GoodTasks' = GoodTasks
      BY <1>1 DEF GoodTasks, Good
    <2> QED BY <1>1, <1>3, <2>4, <2>5, <2>6, LateStays DEF IInv, SessionOK, CartOfOwner, LinesKept
  <1> QED BY <1>2, <1>3 DEF CartRead

\* PUT /cart is done.
LEMMA ReplacedStep == ASSUME IInv, Replaced PROVE IInv' /\ LinesKept
  <1> DEFINE task == Head(queue)
             u == task.as.user
  <1>1. /\ at.step = "putting" /\ Sent /\ UNCHANGED <<session, guest, queue, late, asked, events>>
        /\ account' = [account EXCEPT ![u] = at.items] /\ u \in Users /\ at.items \subseteq Items
        /\ at' = [at EXCEPT !.step = "put", !.crossed = {}]
    BY SentIsOwned DEF Replaced, IInv, Sent, Progress
  <1>2. \A i \in at.items : Added(u, i)
    BY <1>1 DEF Sent
  <1> HIDE DEF u
  <1>3. /\ account' \in [Users -> SUBSET Items] /\ account'[u] = at.items
        /\ \A v \in Users : v # u => account'[v] = account[v]
        /\ CartOfOwner'
    BY <1>1, <1>2, CartReplaced
  <1>4. LinesKept
    <2>1. \A i \in account[u] \ account'[u] :
             <<"remove", i, u>> \in asked \/ guest # {} \/ \E put \in at.crossed : i \in put.items
      BY <1>1, <1>3 DEF Sent, u
    <2> QED BY <1>1, <1>3, <2>1 DEF LinesKept
  <1>5. at' \in Progress /\ at'.step = "put"
    BY <1>1 DEF IInv, Progress
  <1>6. Sent'
    BY <1>1, <1>3, <1>5 DEF Sent, u
  <1>7. GoodTasks' = GoodTasks
    BY <1>1 DEF GoodTasks, Good
  <1> QED BY <1>1, <1>3, <1>4, <1>5, <1>6, <1>7, LateStays DEF IInv, SessionOK

\* A PUT that was given up is done, before or after what the tab has sent since.
LEMMA LateReplacedStep ==
  ASSUME IInv, NEW put \in late, LateReplaced(put)
  PROVE  IInv' /\ LinesKept
  <1> DEFINE task == Head(queue)
             u == task.as.user
             meets == at.step \in {"putting", "put"} /\ u = put.user
  <1>1. /\ put \in Puts /\ put.user \in Users /\ put.items \in SUBSET Items
        /\ \A i \in put.items : Added(put.user, i)
    BY DEF IInv, Puts, LateIsOwned
  <1>2. /\ account' = [account EXCEPT ![put.user] = put.items] /\ late' = late \ {put}
        /\ at' = IF meets THEN [at EXCEPT !.crossed = @ \union {put}] ELSE at
        /\ UNCHANGED <<session, guest, queue, asked, events>>
    BY DEF LateReplaced
  <1>3. /\ account' \in [Users -> SUBSET Items] /\ account'[put.user] = put.items
        /\ \A v \in Users : v # put.user => account'[v] = account[v]
        /\ CartOfOwner'
    BY <1>1, <1>2, CartReplaced
  <1>4. LinesKept
    BY <1>2, <1>3 DEF LinesKept
  <1>5. /\ at' \in Progress /\ at'.step = at.step /\ at'.items = at.items
        /\ at.crossed \subseteq at'.crossed /\ (meets => put \in at'.crossed)
    BY <1>1, <1>2 DEF IInv, Progress
  <1>6. ASSUME at.step # "waiting" PROVE Sent'
    <2>1. Sent /\ UNCHANGED <<task, u>> /\ u \in Users
      BY <1>2, <1>6, SentIsOwned DEF IInv, Sent
    <2>2. ASSUME at.step = "putting", task.kind # "sync"
          PROVE  \A i \in account'[u] \ at.items :
                    <<"remove", i, u>> \in asked \/ \E p \in at'.crossed : i \in p.items
      <3>1. CASE u = put.user
        BY <1>3, <1>5, <2>2, <3>1
      <3>2. CASE u # put.user
        BY <1>3, <1>5, <2>1, <2>2, <3>2 DEF Sent
      <3> QED BY <3>1, <3>2
    <2>3. at.step = "put" => (task.kind = "sync" => guest \subseteq account'[u] \/ at'.crossed # {})
      <3>1. CASE u = put.user
        BY <1>5, <3>1
      <3>2. CASE u # put.user
        BY <1>3, <1>5, <2>1, <3>2 DEF Sent
      <3> QED BY <3>1, <3>2
    <2> HIDE DEF task, meets
    <2> QED BY <1>2, <1>5, <2>1, <2>2, <2>3 DEF Sent, Added, task
  <1>7. late' \subseteq Puts /\ LateIsOwned'
    BY <1>2 DEF IInv, LateIsOwned, Added
  <1>8. GoodTasks' = GoodTasks
    BY <1>2 DEF GoodTasks, Good
  <1> QED BY <1>2, <1>3, <1>4, <1>5, <1>6, <1>7, <1>8 DEF IInv, SessionOK

\* Its answer comes.
LEMMA PutAnsweredStep == ASSUME IInv, PutAnswered PROVE IInv' /\ LinesKept
  <1> DEFINE task == Head(queue)
             u == task.as.user
  <1>1. /\ at.step = "put" /\ Sent /\ Finish
        /\ UNCHANGED <<session, account, late, asked, events>>
        /\ guest' \in {guest, {}} /\ (guest' # guest => task.kind = "sync")
    BY DEF PutAnswered, IInv, Sent
  <1>2. u \in Users /\ (task.kind = "sync" => guest \subseteq account[u] \/ at.crossed # {})
    BY <1>1, SentIsOwned DEF Sent
  <1>3. guest' \in SUBSET Items /\ CartOfOwner' /\ LinesKept
    BY <1>1, <1>2 DEF IInv, CartOfOwner, LinesKept
  <1> QED BY <1>1, <1>3, FinishStep, LateStays DEF Sent, IInv

\* So does a request that fails.
LEMMA RequestFailsStep == ASSUME IInv, RequestFails PROVE IInv' /\ LinesKept
  <1>1. /\ queue # << >> /\ Finish /\ UNCHANGED <<session, guest, account, asked>>
    BY DEF RequestFails, IInv, Sent
  <1>2. late' \subseteq Puts /\ LateIsOwned' /\ events' \in 0 .. MaxEvents
    BY GivenUp, CountedInRange DEF RequestFails, Event, Counted, IInv
  <1> QED BY <1>1, <1>2, FinishStep DEF IInv, CartOfOwner, LinesKept

\* Every step keeps the invariant.
LEMMA NextStep == IInv /\ [Next]_vars => IInv' /\ (LinesKept \/ UNCHANGED vars)
  <1> SUFFICES ASSUME IInv, [Next]_vars PROVE IInv' /\ (LinesKept \/ UNCHANGED vars)
    OBVIOUS
  <1>1. CASE UNCHANGED vars
    <2>1. GoodTasks' = GoodTasks
      BY <1>1 DEF GoodTasks, Good, vars
    <2>2. SessionOK' /\ CartOfOwner' /\ LateIsOwned' /\ (at'.step # "waiting" => Sent')
      BY <1>1 DEF IInv, SessionOK, Sent, CartOfOwner, LateIsOwned, Added, vars
    <2> QED BY <1>1, <2>1, <2>2 DEF IInv, vars
  <1>2. CASE Next
    BY <1>2, SessionStep, ReloadStep, EditStep, BeginStep, CartReadStep, ReplacedStep,
       LateReplacedStep, PutAnsweredStep, RequestFailsStep DEF Next
  <1> QED BY <1>1, <1>2

\* The invariant holds in every state of every behaviour.
LEMMA Inductive == Spec => []IInv
  BY InitIInv, NextStep, PTL DEF Spec

-----------------------------------------------------------------------------
(* Theorems *)

\* Whatever sessions come and go, a cart holds what its own customer or a guest of the
\* browser put there: use-cart.ts ties every task to the session it was asked in
\* (CartOfOwner).
THEOREM CartIsOwners == Spec => []CartOfOwner
  <1>1. IInv => CartOfOwner
    BY DEF IInv
  <1> QED BY <1>1, Inductive, PTL

\* A line leaves the browser only when the guest removed it or an account has it, however
\* a sync fails, is repeated or abandoned, unless a PUT given up before came between the
\* sync's PUT and its answer (GuestLinesKept).
THEOREM GuestLinesAreKept == Spec => GuestLinesKept
  <1> DEFINE A == \A i \in guest \ guest' :
                    \/ <<"remove", i, NoUser>> \in asked
                    \/ \E u \in Users : i \in account'[u]
                    \/ at.crossed # {}
  <1>1. IInv /\ [Next]_vars => [A]_vars
    BY NextStep DEF LinesKept
  <1> QED BY <1>1, Inductive, PTL DEF Spec, GuestLinesKept

\* A line leaves an account only when its customer removed it, for a guest's cart that
\* takes its place, or through a PUT that was given up and done late: with it, or because
\* it was brought by it to a cart that a task had read (AccountLinesKept).
THEOREM AccountLinesAreKept == Spec => AccountLinesKept
  <1> DEFINE A == \A u \in Users : \A i \in account[u] \ account'[u] :
                    \/ <<"remove", i, u>> \in asked
                    \/ guest # {}
                    \/ \E put \in late \ late' : put.user = u
                    \/ \E put \in at.crossed : i \in put.items
  <1>1. IInv /\ [Next]_vars => [A]_vars
    BY NextStep DEF LinesKept
  <1> QED BY <1>1, Inductive, PTL DEF Spec, AccountLinesKept
=============================================================================
