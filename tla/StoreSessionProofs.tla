------------------------- MODULE StoreSessionProofs -------------------------
(***************************************************************************)
(* Theorems about StoreSession, for any number of tabs, accounts, tokens   *)
(* and events.                                                             *)
(***************************************************************************)
EXTENDS StoreSession, TLAPS

\* The tokens that were issued, and none, as the owners `own` tell.
Known(own) == {n \in Tokens : own[n] # NoUser} \union {None}

\* A task that carries and looks at tokens of K; a check is of some token.
TaskOf(K) ==
  {m \in TaskType : m.arg \in K /\ m.seen \in K /\ (m.at = "me" => m.seen # None)}

TasksOf(K) == [Tabs -> [Kinds -> TaskOf(K)]]

\* Nothing that a tab holds, waits for or is told is a token nobody was given: the
\* owner of such a token would still change.
IInv ==
  /\ TypeOK
  /\ cookie \in Known(owner)
  /\ token \in [Tabs -> Known(owner)]
  /\ task \in TasksOf(Known(owner))
  /\ inbox \in [Tabs -> Seq(Known(owner))]
  /\ ShowsTokenOwner

\* Whom a token was issued to is for ever.
Grown ==
  /\ owner' \in [Tokens -> Users \union {NoUser}]
  /\ \A n \in Tokens : owner[n] # NoUser => owner'[n] = owner[n]

\* The tabs that show a user showed it before, with the same token, or show the
\* token's owner; a save may have replaced the user.
Shown ==
  \A t \in Tabs : status'[t] = "authenticated" =>
    \/ /\ status[t] = "authenticated" /\ token'[t] = token[t]
       /\ t \notin Savers => user'[t] = user[t]
    \/ token'[t] # None /\ user'[t] = owner'[token'[t]]

-----------------------------------------------------------------------------
\* A larger set has more sequences.
LEMMA SeqGrows == ASSUME NEW S, NEW T, S \subseteq T PROVE Seq(S) \subseteq Seq(T)
  <1> SUFFICES ASSUME NEW s \in Seq(S) PROVE s \in Seq(T)
    OBVIOUS
  <1>1. s \in [1 .. Len(s) -> T] /\ Len(s) \in Nat
    OBVIOUS
  <1> QED BY <1>1

\* And allows more tasks.
LEMMA TasksGrow ==
  ASSUME NEW S, NEW T, S \subseteq T PROVE TaskOf(S) \subseteq TaskOf(T) /\ TasksOf(S) \subseteq TasksOf(T)
  BY DEF TaskOf, TasksOf

\* A token that is issued leaves the known ones known.
LEMMA KnownGrows ==
  ASSUME IInv, Grown
  PROVE  /\ Known(owner) \subseteq Known(owner')
         /\ task \in TasksOf(Known(owner')) /\ token \in [Tabs -> Known(owner')]
         /\ inbox \in [Tabs -> Seq(Known(owner'))] /\ cookie \in Known(owner')
  <1>1. Known(owner) \subseteq Known(owner')
    BY DEF Grown, Known
  <1>2. Seq(Known(owner)) \subseteq Seq(Known(owner'))
    BY <1>1, SeqGrows
  <1>3. TasksOf(Known(owner)) \subseteq TasksOf(Known(owner'))
    BY <1>1, TasksGrow
  <1> QED BY <1>1, <1>2, <1>3 DEF IInv

\* What a step has to give.
LEMMA Combine ==
  ASSUME IInv, Grown, Shown,
         live' \subseteq Tokens, cause' \in [Tokens -> {"none", "rotated", "logout", "alarm"}],
         cookie' \in Known(owner'), token' \in [Tabs -> Known(owner')],
         user' \in [Tabs -> Users \union {NoUser}],
         status' \in [Tabs -> {"loading", "authenticated", "anonymous"}],
         task' \in TasksOf(Known(owner')), inbox' \in [Tabs -> Seq(Known(owner'))],
         lock' \in (Tabs \X Refreshers) \union {Nobody},
         lost' \in BOOLEAN, events' \in 0 .. MaxEvents
  PROVE  IInv'
  <1>1. Known(owner') \subseteq Tokens \union {None}
    BY DEF Known
  <1>2. Seq(Known(owner')) \subseteq Seq(Tokens \union {None})
    BY <1>1, SeqGrows
  <1>3. task' \in [Tabs -> [Kinds -> TaskType]]
    BY DEF TasksOf, TaskOf
  <1>4. TypeOK'
    BY <1>1, <1>2, <1>3 DEF TypeOK, Grown
  <1>5. ShowsTokenOwner'
    <2> SUFFICES ASSUME NEW t \in Tabs, status'[t] = "authenticated"
                 PROVE  token'[t] # None /\ (t \notin Savers => user'[t] = owner'[token'[t]])
      BY DEF ShowsTokenOwner
    <2>1. CASE status[t] = "authenticated" /\ token'[t] = token[t]
               /\ (t \notin Savers => user'[t] = user[t])
      <3>1. /\ token[t] # None /\ token[t] \in Known(owner)
            /\ t \notin Savers => user[t] = owner[token[t]]
        BY <2>1 DEF IInv, ShowsTokenOwner
      <3>2. owner'[token[t]] = owner[token[t]]
        BY <3>1 DEF Known, Grown
      <3> QED BY <2>1, <3>1, <3>2
    <2> QED BY <2>1 DEF Shown
  <1> QED BY <1>4, <1>5 DEF IInv

\* The same for a step of a tab, which issues no token.
LEMMA TabStep ==
  ASSUME IInv, Shown, UNCHANGED server, cookie' \in Known(owner),
         token' \in [Tabs -> Known(owner)], user' \in [Tabs -> Users \union {NoUser}],
         status' \in [Tabs -> {"loading", "authenticated", "anonymous"}],
         task' \in TasksOf(Known(owner)), inbox' \in [Tabs -> Seq(Known(owner))],
         lock' \in (Tabs \X Refreshers) \union {Nobody},
         lost' \in BOOLEAN, events' \in 0 .. MaxEvents
  PROVE  IInv'
  <1>1. Grown /\ owner' = owner /\ live' = live /\ cause' = cause
    BY DEF Grown, IInv, TypeOK, server
  <1> QED BY <1>1, Combine DEF IInv, TypeOK

-----------------------------------------------------------------------------
(* What a step does to its tab *)

\* What a task of known tokens can go on as.
LEMMA TaskFields ==
  ASSUME NEW K, None \in K, NEW m \in TaskOf(K)
  PROVE  /\ m.arg \in K /\ m.seen \in K /\ m.at = "me" => m.seen # None
         /\ m.at \in Points /\ m.boot \in BOOLEAN /\ m.moved \in BOOLEAN
         /\ \A b \in BOOLEAN : [m EXCEPT !.moved = b] \in TaskOf(K)
         /\ \A at \in Points \ {"me"} : \A n \in K : n \in Tokens \union {None} =>
              /\ [m EXCEPT !.at = at, !.arg = n] \in TaskOf(K)
              /\ [m EXCEPT !.at = at, !.arg = n, !.moved = FALSE] \in TaskOf(K)
              /\ [m EXCEPT !.at = at] \in TaskOf(K)
         /\ \A n \in K \ {None} : n \in Tokens =>
              [m EXCEPT !.seen = n, !.moved = FALSE] \in TaskOf(K)
  <1>1. m \in TaskType /\ m.arg \in K /\ m.seen \in K /\ (m.at = "me" => m.seen # None)
    BY DEF TaskOf
  <1>2. /\ m.at \in Points /\ m.boot \in BOOLEAN /\ m.moved \in BOOLEAN
    BY <1>1 DEF TaskType
  <1>3. ASSUME NEW b \in BOOLEAN PROVE [m EXCEPT !.moved = b] \in TaskOf(K)
    BY <1>1 DEF TaskOf, TaskType
  <1>4. ASSUME NEW at \in Points \ {"me"}, NEW n \in K, n \in Tokens \union {None}
        PROVE  /\ [m EXCEPT !.at = at, !.arg = n] \in TaskOf(K)
               /\ [m EXCEPT !.at = at, !.arg = n, !.moved = FALSE] \in TaskOf(K)
               /\ [m EXCEPT !.at = at] \in TaskOf(K)
    BY <1>1, <1>4 DEF TaskOf, TaskType
  <1>5. ASSUME NEW n \in K \ {None}, n \in Tokens
        PROVE  [m EXCEPT !.seen = n, !.moved = FALSE] \in TaskOf(K)
    BY <1>1, <1>5 DEF TaskOf, TaskType
  <1> QED BY <1>1, <1>2, <1>3, <1>4, <1>5

\* The tasks a step may start.
LEMMA NewTasks ==
  ASSUME NEW K, None \in K, NEW n \in K, n \in Tokens \union {None}, NEW boot \in BOOLEAN
  PROVE  /\ Idle \in TaskOf(K) /\ Queued(n, boot) \in TaskOf(K)
         /\ \A at \in Points \ {"me"} : [Idle EXCEPT !.at = at, !.arg = n] \in TaskOf(K)
         /\ \A m \in TaskOf(K) : Over(m, n) \in TaskOf(K) /\ Then(m, n) \in TaskOf(K)
         /\ n # None => \A for \in {"rotated", "reused", "booted", "form", "ear"} :
              Checking(n, for, None, boot) \in TaskOf(K) /\ Checking(n, for, n, boot) \in TaskOf(K)
  <1>1. Idle \in TaskOf(K) /\ Queued(n, boot) \in TaskOf(K)
    BY DEF Idle, Queued, TaskOf, TaskType, Points
  <1>2. ASSUME NEW at \in Points \ {"me"}, NEW a \in K, a \in Tokens \union {None}
        PROVE  [Idle EXCEPT !.at = at, !.arg = a] \in TaskOf(K)
    BY <1>2 DEF Idle, TaskOf, TaskType
  <1>3. ASSUME NEW m \in TaskOf(K) PROVE Over(m, n) \in TaskOf(K) /\ Then(m, n) \in TaskOf(K)
    <2>1. "resolved" \in Points \ {"me"} /\ m.arg \in K /\ m.arg \in Tokens \union {None}
      BY DEF TaskOf, TaskType, Points
    <2> QED BY <1>1, <1>2, <2>1 DEF Over, Then
  <1>4. ASSUME n # None, NEW for \in {"rotated", "reused", "booted", "form", "ear"}
        PROVE  Checking(n, for, None, boot) \in TaskOf(K) /\ Checking(n, for, n, boot) \in TaskOf(K)
    BY <1>4 DEF Checking, TaskOf, TaskType, Points
  <1> QED BY <1>1, <1>2, <1>3, <1>4

\* Touching a tab changes no token of its tasks.
LEMMA TouchKeeps ==
  ASSUME NEW K, None \in K, NEW ts \in [Kinds -> TaskOf(K)]
  PROVE  Touch(ts) \in [Kinds -> TaskOf(K)]
  <1> SUFFICES ASSUME NEW k \in Kinds
               PROVE  [ts[k] EXCEPT !.moved = (ts[k].at \in {"queued", "me"})] \in TaskOf(K)
    BY DEF Touch
  <1>1. ts[k] \in TaskType /\ ts[k].arg \in K /\ ts[k].seen \in K
        /\ (ts[k].at = "me" => ts[k].seen # None)
    BY DEF TaskOf
  <1>2. (ts[k].at \in {"queued", "me"}) \in BOOLEAN
    OBVIOUS
  <1> DEFINE b == ts[k].at \in {"queued", "me"}
  <1> HIDE DEF b
  <1>3. b \in BOOLEAN => [ts[k] EXCEPT !.moved = b] \in TaskOf(K)
    BY <1>1 DEF TaskOf, TaskType
  <1> QED BY <1>2, <1>3 DEF b

\* One task goes on with known tokens.
LEMMA GoesKeeps ==
  ASSUME NEW K, task \in TasksOf(K), NEW t \in Tabs, NEW k \in Kinds, NEW next \in TaskOf(K),
         Goes(t, k, next)
  PROVE  task' \in TasksOf(K)
  BY DEF Goes, TasksOf

\* A known token is installed.
LEMMA InstallKeeps ==
  ASSUME IInv, NEW K, None \in K, task \in TasksOf(K), token \in [Tabs -> K],
         NEW t \in Tabs, NEW k \in Kinds, NEW n \in K, NEW next \in TaskOf(K),
         Install(t, n, k, next)
  PROVE  /\ token' \in [Tabs -> K] /\ task' \in TasksOf(K)
         /\ user' \in [Tabs -> Users \union {NoUser}]
         /\ status' \in [Tabs -> {"loading", "authenticated", "anonymous"}]
         /\ Shown
  <1>1. Touch(task[t]) \in [Kinds -> TaskOf(K)] /\ task[t] \in [Kinds -> TaskOf(K)]
    BY TouchKeeps DEF TasksOf
  <1>2. task' \in TasksOf(K)
    BY <1>1 DEF Install, TasksOf
  <1> QED BY <1>2 DEF Install, IInv, TypeOK, Shown

\* A tab is cleared.
LEMMA ClearKeeps ==
  ASSUME IInv, NEW K, None \in K, task \in TasksOf(K), token \in [Tabs -> K],
         NEW t \in Tabs, NEW k \in Kinds, NEW next \in TaskOf(K), ClearSession(t, k, next)
  PROVE  /\ token' \in [Tabs -> K] /\ task' \in TasksOf(K)
         /\ user' \in [Tabs -> Users \union {NoUser}]
         /\ status' \in [Tabs -> {"loading", "authenticated", "anonymous"}]
         /\ Shown
  <1>1. Touch(task[t]) \in [Kinds -> TaskOf(K)] /\ task[t] \in [Kinds -> TaskOf(K)]
    BY TouchKeeps DEF TasksOf
  <1>2. task' \in TasksOf(K)
    BY <1>1 DEF ClearSession, TasksOf
  <1> QED BY <1>2 DEF ClearSession, IInv, TypeOK, Shown

\* A known token is announced.
LEMMA PublishKeeps ==
  ASSUME NEW K, NEW n \in K, NEW t \in Tabs, inbox \in [Tabs -> Seq(K)], Publish(t, n)
  PROVE  inbox' \in [Tabs -> Seq(K)]
  BY DEF Publish

\* The lock is given back or kept.
LEMMA ReleaseKeeps ==
  ASSUME IInv, NEW t, NEW k, Release(t, k) \/ lock' = lock
  PROVE  lock' \in (Tabs \X Refreshers) \union {Nobody}
  BY DEF Release, IInv, TypeOK

\* The set of known tokens as it is, and the facts of a task of one tab.
LEMMA Here ==
  ASSUME IInv, NEW t \in Tabs, NEW k \in Kinds
  PROVE  /\ None \in Known(owner) /\ Known(owner) \subseteq Tokens \union {None}
         /\ task[t][k] \in TaskOf(Known(owner)) /\ token[t] \in Known(owner)
         /\ task[t] \in [Kinds -> TaskOf(Known(owner))]
         /\ task \in TasksOf(Known(owner)) /\ token \in [Tabs -> Known(owner)]
         /\ inbox \in [Tabs -> Seq(Known(owner))]
  BY DEF IInv, TasksOf, Known

\* A step that leaves the tabs as they are.
LEMMA Kept ==
  ASSUME IInv, UNCHANGED tabs
  PROVE  /\ Shown /\ token' \in [Tabs -> Known(owner)]
         /\ user' \in [Tabs -> Users \union {NoUser}]
         /\ status' \in [Tabs -> {"loading", "authenticated", "anonymous"}]
  BY DEF Shown, tabs, IInv, TypeOK

\* The kinds of tasks.
LEMMA KindsAre == "boot" \in Kinds /\ "page" \in Kinds /\ "form" \in Kinds /\ "ear" \in Kinds
                  /\ "save" \in Kinds
                  /\ Refreshers \subseteq Kinds
  BY DEF Kinds, Refreshers

\* The next token is one that nobody has.
LEMMA FreshIs == Unissued # {} => Fresh \in Tokens /\ owner[Fresh] = NoUser
  BY DEF Fresh, Unissued

-----------------------------------------------------------------------------
(* The server *)

\* A token is issued: who owned one still does.
LEMMA Issue ==
  ASSUME IInv, Unissued # {}, NEW u \in Users, owner' = [owner EXCEPT ![Fresh] = u]
  PROVE  Grown /\ Fresh \in Known(owner') /\ Fresh \in Tokens /\ Fresh # None
  BY FreshIs, SessionAssumption DEF Grown, Known, IInv, TypeOK

\* A rotation keeps the invariant.
LEMMA RotateStep ==
  ASSUME IInv, NEW t \in Tabs, NEW k \in Refreshers, Rotate(t, k) PROVE IInv'
  <1> DEFINE me == task[t][k]
             c == me.arg
  <1>1. UNCHANGED <<cookie, token, user, status, lock, inbox, lost, events>>
    BY DEF Rotate, tabs
  <1>2. me \in TaskOf(Known(owner)) /\ c \in Known(owner) /\ k \in Kinds
    BY Here, KindsAre DEF TaskOf
  <1>3. Shown
    BY <1>1 DEF Shown
  <1>4. CASE /\ c \in live /\ Unissued # {}
             /\ live' = (live \ {c}) \union {Fresh}
             /\ cause' = [cause EXCEPT ![c] = "rotated"]
             /\ owner' = [owner EXCEPT ![Fresh] = owner[c]]
             /\ Goes(t, k, [me EXCEPT !.at = "answered", !.arg = Fresh])
    <2>1. c \in Tokens /\ owner[c] \in Users
      BY <1>2, <1>4, SessionAssumption DEF IInv, TypeOK, Known
    <2>2. Grown /\ Fresh \in Known(owner') /\ Fresh \in Tokens
      BY <1>4, <2>1, Issue
    <2>3. /\ Known(owner) \subseteq Known(owner') /\ None \in Known(owner')
          /\ task \in TasksOf(Known(owner')) /\ token \in [Tabs -> Known(owner')]
          /\ inbox \in [Tabs -> Seq(Known(owner'))] /\ cookie \in Known(owner')
      BY <2>2, KnownGrows DEF Known
    <2>4. me \in TaskOf(Known(owner'))
      BY <1>2, <2>3 DEF TasksOf
    <2>5. [me EXCEPT !.at = "answered", !.arg = Fresh] \in TaskOf(Known(owner'))
      BY <2>2, <2>4 DEF TaskOf, TaskType, Points
    <2>6. task' \in TasksOf(Known(owner'))
      BY <1>2, <1>4, <2>3, <2>5, GoesKeeps
    <2>7. live' \subseteq Tokens /\ cause' \in [Tokens -> {"none", "rotated", "logout", "alarm"}]
      BY <1>4, <2>2 DEF IInv, TypeOK
    <2> QED BY <1>1, <1>3, <2>2, <2>3, <2>6, <2>7, Combine DEF IInv, TypeOK
  <1>5. CASE /\ IF c = None THEN UNCHANGED <<live, cause>>
                ELSE Revoke({n \in live : owner[n] = owner[c]}, "alarm")
             /\ Goes(t, k, [me EXCEPT !.at = "answered", !.arg = None])
             /\ UNCHANGED owner
    <2>1. live' \subseteq Tokens /\ cause' \in [Tokens -> {"none", "rotated", "logout", "alarm"}]
      BY <1>5 DEF Revoke, IInv, TypeOK
    <2>2. Grown
      BY <1>5 DEF Grown, IInv, TypeOK
    <2>3. [me EXCEPT !.at = "answered", !.arg = None] \in TaskOf(Known(owner))
      BY <1>2 DEF TaskOf, TaskType, Points, Known
    <2>4. task' \in TasksOf(Known(owner'))
      BY <1>2, <1>5, <2>3, GoesKeeps, Here
    <2> QED BY <1>1, <1>3, <1>5, <2>1, <2>2, <2>4, Combine DEF IInv, TypeOK
  <1> QED BY <1>4, <1>5 DEF Rotate

\* The revocation of a logout keeps it.
LEMMA RevokeAtLogoutStep == ASSUME IInv, NEW t \in Tabs, RevokeAtLogout(t) PROVE IInv'
  <1>1. /\ UNCHANGED <<owner, cookie, token, user, status, lock, inbox, lost, events>>
        /\ Goes(t, "form", [task[t]["form"] EXCEPT !.at = "left"])
    BY DEF RevokeAtLogout, tabs
  <1>2. live' \subseteq Tokens /\ cause' \in [Tokens -> {"none", "rotated", "logout", "alarm"}]
    BY DEF RevokeAtLogout, Revoke, IInv, TypeOK
  <1>3. [task[t]["form"] EXCEPT !.at = "left"] \in TaskOf(Known(owner))
    <2>1. task[t]["form"] \in TaskOf(Known(owner))
      BY Here, KindsAre
    <2> QED BY <2>1 DEF TaskOf, TaskType, Points
  <1>4. task' \in TasksOf(Known(owner'))
    BY <1>1, <1>3, GoesKeeps, Here, KindsAre
  <1>5. Grown /\ Shown
    BY <1>1 DEF Grown, Shown, IInv, TypeOK
  <1> QED BY <1>1, <1>2, <1>4, <1>5, Combine DEF IInv, TypeOK

-----------------------------------------------------------------------------
(* Refreshing in a tab *)

\* A refresh that gets the lock keeps it.
LEMMA AcquireStep ==
  ASSUME IInv, NEW t \in Tabs, NEW k \in Refreshers, Acquire(t, k) PROVE IInv'
  <1> DEFINE me == task[t][k]
             check == Checking(token[t], "reused", None, me.boot)
  <1>1. UNCHANGED server /\ UNCHANGED tabs /\ UNCHANGED <<cookie, inbox, lost, events>>
    BY DEF Acquire
  <1>2. /\ me \in TaskOf(Known(owner)) /\ k \in Kinds /\ token[t] \in Known(owner)
        /\ None \in Known(owner) /\ Known(owner) \subseteq Tokens \union {None}
        /\ task \in TasksOf(Known(owner))
    BY Here, KindsAre
  <1>3. [me EXCEPT !.at = "sent", !.arg = cookie, !.moved = FALSE] \in TaskOf(Known(owner))
    BY <1>2 DEF IInv, TypeOK, TaskOf, TaskType, Points
  <1>4. token[t] # None =>
          check \in TaskOf(Known(owner)) /\ Then(check, token[t]) \in TaskOf(Known(owner))
    <2>1. me.boot \in BOOLEAN
      BY <1>2 DEF TaskOf, TaskType
    <2>2. token[t] # None => check \in TaskOf(Known(owner))
      BY <1>2, <2>1, NewTasks
    <2> QED BY <1>2, <2>1, <2>2, NewTasks
  <1> HIDE DEF me, check
  <1>5. \/ Goes(t, k, [me EXCEPT !.at = "sent", !.arg = cookie, !.moved = FALSE])
        \/ token[t] # None /\ Goes(t, k, check)
        \/ token[t] # None /\ Goes(t, k, Then(check, token[t]))
    BY DEF Acquire, me, check
  <1>6. task' \in TasksOf(Known(owner))
    BY <1>2, <1>3, <1>4, <1>5, GoesKeeps
  <1>7. lock' \in (Tabs \X Refreshers) \union {Nobody}
    BY DEF Acquire, IInv, TypeOK
  <1> QED BY <1>1, <1>6, <1>7, Kept, TabStep DEF IInv, TypeOK

\* A refresh that is answered keeps it.
LEMMA RefreshAnsweredStep ==
  ASSUME IInv, NEW t \in Tabs, NEW k \in Refreshers, RefreshAnswered(t, k) PROVE IInv'
  <1> DEFINE me == task[t][k]
             next == Checking(me.arg, "rotated", me.arg, me.boot)
  <1>1. /\ UNCHANGED server /\ UNCHANGED <<lock, lost, events>>
        /\ me.arg # None /\ cookie' = me.arg /\ Install(t, me.arg, k, next) /\ Publish(t, me.arg)
    BY DEF RefreshAnswered
  <1>2. /\ me \in TaskOf(Known(owner)) /\ k \in Kinds
        /\ None \in Known(owner) /\ Known(owner) \subseteq Tokens \union {None}
        /\ task \in TasksOf(Known(owner)) /\ token \in [Tabs -> Known(owner)]
        /\ inbox \in [Tabs -> Seq(Known(owner))]
    BY Here, KindsAre
  <1>3. me.arg \in Known(owner) /\ me.boot \in BOOLEAN
    BY <1>2 DEF TaskOf, TaskType
  <1>4. next \in TaskOf(Known(owner))
    BY <1>1, <1>2, <1>3, NewTasks
  <1> HIDE DEF me, next
  <1>5. /\ token' \in [Tabs -> Known(owner)] /\ task' \in TasksOf(Known(owner))
        /\ user' \in [Tabs -> Users \union {NoUser}]
        /\ status' \in [Tabs -> {"loading", "authenticated", "anonymous"}]
        /\ Shown
    BY <1>1, <1>2, <1>3, <1>4, InstallKeeps
  <1>6. inbox' \in [Tabs -> Seq(Known(owner))]
    BY <1>1, <1>2, <1>3, PublishKeeps
  <1> QED BY <1>1, <1>3, <1>5, <1>6, TabStep DEF IInv, TypeOK

\* A refresh that is refused keeps it.
LEMMA RefreshRefusedStep ==
  ASSUME IInv, NEW t \in Tabs, NEW k \in Refreshers, RefreshRefused(t, k) PROVE IInv'
  <1>1. /\ UNCHANGED server /\ UNCHANGED <<cookie, lost, events>>
        /\ ClearSession(t, k, Over(task[t][k], None)) /\ Publish(t, None) /\ Release(t, k)
    BY DEF RefreshRefused
  <1>2. /\ task[t][k] \in TaskOf(Known(owner)) /\ k \in Kinds
        /\ None \in Known(owner) /\ Known(owner) \subseteq Tokens \union {None}
        /\ task \in TasksOf(Known(owner)) /\ token \in [Tabs -> Known(owner)]
        /\ inbox \in [Tabs -> Seq(Known(owner))]
    BY Here, KindsAre
  <1>3. Over(task[t][k], None) \in TaskOf(Known(owner))
    BY <1>2, NewTasks
  <1>4. /\ token' \in [Tabs -> Known(owner)] /\ task' \in TasksOf(Known(owner))
        /\ user' \in [Tabs -> Users \union {NoUser}]
        /\ status' \in [Tabs -> {"loading", "authenticated", "anonymous"}]
        /\ Shown
    BY <1>1, <1>2, <1>3, ClearKeeps
  <1>5. inbox' \in [Tabs -> Seq(Known(owner))]
    BY <1>1, <1>2, PublishKeeps
  <1> QED BY <1>1, <1>4, <1>5, ReleaseKeeps, TabStep DEF IInv, TypeOK

\* A refresh that fails keeps it.
LEMMA RefreshFailsStep ==
  ASSUME IInv, NEW t \in Tabs, NEW k \in Refreshers, RefreshFails(t, k) PROVE IInv'
  <1>1. /\ UNCHANGED server /\ UNCHANGED tabs /\ UNCHANGED <<cookie, inbox>>
        /\ Goes(t, k, Over(task[t][k], None)) /\ Release(t, k)
        /\ events' \in 0 .. MaxEvents /\ lost' \in BOOLEAN
    BY SessionAssumption DEF RefreshFails, IInv, TypeOK
  <1>2. Over(task[t][k], None) \in TaskOf(Known(owner)) /\ k \in Kinds
    BY Here, KindsAre, NewTasks
  <1>3. task' \in TasksOf(Known(owner))
    BY <1>1, <1>2, Here, GoesKeeps
  <1> QED BY <1>1, <1>3, Kept, ReleaseKeeps, TabStep DEF IInv, TypeOK

\* A bootstrap that ends keeps it.
LEMMA BootedStep ==
  ASSUME IInv, NEW t \in Tabs, NEW k \in Refreshers, Booted(t, k) PROVE IInv'
  <1> DEFINE n == task[t][k].arg
  <1>1. UNCHANGED server /\ UNCHANGED <<cookie, lock, inbox, lost, events>>
    BY DEF Booted
  <1>2. /\ task[t][k] \in TaskOf(Known(owner)) /\ k \in Kinds
        /\ None \in Known(owner) /\ Known(owner) \subseteq Tokens \union {None}
        /\ task \in TasksOf(Known(owner)) /\ token \in [Tabs -> Known(owner)]
    BY Here, KindsAre
  <1>3. n \in Known(owner)
    BY <1>2 DEF TaskOf
  <1>4. Idle \in TaskOf(Known(owner))
        /\ (n # None => Checking(n, "booted", None, TRUE) \in TaskOf(Known(owner)))
    BY <1>2, <1>3, NewTasks
  <1> HIDE DEF n
  <1>5. \/ ClearSession(t, k, Idle)
        \/ \E next \in {Idle, Checking(n, "booted", None, TRUE)} :
             n # None /\ Install(t, n, k, next)
    BY DEF Booted, n
  <1>6. /\ token' \in [Tabs -> Known(owner)] /\ task' \in TasksOf(Known(owner))
        /\ user' \in [Tabs -> Users \union {NoUser}]
        /\ status' \in [Tabs -> {"loading", "authenticated", "anonymous"}]
        /\ Shown
    BY <1>2, <1>3, <1>4, <1>5, InstallKeeps, ClearKeeps
  <1> QED BY <1>1, <1>6, TabStep DEF IInv, TypeOK

-----------------------------------------------------------------------------
(* Verifying a token *)

\* A check that ends badly keeps the tabs well formed.
LEMMA UnverifiedKeeps ==
  ASSUME IInv, NEW t \in Tabs, NEW k \in Kinds, Unverified(t, k)
  PROVE  /\ token' \in [Tabs -> Known(owner)] /\ task' \in TasksOf(Known(owner))
         /\ user' \in [Tabs -> Users \union {NoUser}]
         /\ status' \in [Tabs -> {"loading", "authenticated", "anonymous"}]
         /\ inbox' \in [Tabs -> Seq(Known(owner))] /\ Shown
  <1>1. /\ task[t][k] \in TaskOf(Known(owner))
        /\ None \in Known(owner) /\ Known(owner) \subseteq Tokens \union {None}
        /\ task \in TasksOf(Known(owner)) /\ token \in [Tabs -> Known(owner)]
        /\ inbox \in [Tabs -> Seq(Known(owner))]
    BY Here
  <1>2. Over(task[t][k], None) \in TaskOf(Known(owner))
    BY <1>1, NewTasks
  <1>3. /\ ClearSession(t, k, Over(task[t][k], None))
        /\ Publish(t, None) \/ inbox' = inbox
    BY DEF Unverified
  <1>4. inbox' \in [Tabs -> Seq(Known(owner))]
    BY <1>1, <1>3, PublishKeeps
  <1> QED BY <1>1, <1>2, <1>3, <1>4, ClearKeeps

\* A check that looks again keeps it.
LEMMA LookAgainStep ==
  ASSUME IInv, NEW t \in Tabs, NEW k \in Kinds, LookAgain(t, k) PROVE IInv'
  <1> DEFINE me == task[t][k]
             again == [me EXCEPT !.seen = token[t], !.moved = FALSE]
  <1>1. UNCHANGED server /\ UNCHANGED <<cookie, lost, events>>
    BY DEF LookAgain
  <1>2. /\ me \in TaskOf(Known(owner)) /\ token[t] \in Known(owner)
        /\ None \in Known(owner) /\ Known(owner) \subseteq Tokens \union {None}
        /\ task \in TasksOf(Known(owner))
    BY Here
  <1>3. Then(me, token[t]) \in TaskOf(Known(owner))
    BY <1>2, NewTasks
  <1>4. token[t] # None => again \in TaskOf(Known(owner))
    BY <1>2 DEF TaskOf, TaskType
  <1> HIDE DEF me, again
  <1>5. CASE Unverified(t, k) /\ Release(t, k)
    BY <1>1, <1>5, UnverifiedKeeps, ReleaseKeeps, TabStep DEF IInv, TypeOK
  <1>6. CASE /\ Goes(t, k, Then(me, token[t])) \/ (token[t] # None /\ Goes(t, k, again))
             /\ Release(t, k) \/ lock' = lock
             /\ UNCHANGED tabs /\ UNCHANGED inbox
    <2>1. task' \in TasksOf(Known(owner))
      BY <1>2, <1>3, <1>4, <1>6, GoesKeeps
    <2> QED BY <1>1, <1>6, <2>1, Kept, ReleaseKeeps, TabStep DEF IInv, TypeOK
  <1> QED BY <1>5, <1>6 DEF LookAgain, me, again

\* A check that is answered keeps it.
LEMMA MeAnsweredStep ==
  ASSUME IInv, NEW t \in Tabs, NEW k \in Kinds, MeAnswered(t, k) PROVE IInv'
  <1> DEFINE me == task[t][k]
  <1>1. UNCHANGED server /\ UNCHANGED <<cookie, lost, events>> /\ Release(t, k)
    BY DEF MeAnswered
  <1>2. /\ me \in TaskOf(Known(owner)) /\ token[t] \in Known(owner)
        /\ None \in Known(owner) /\ Known(owner) \subseteq Tokens \union {None}
        /\ task \in TasksOf(Known(owner))
    BY Here
  <1>3. CASE Unverified(t, k)
    BY <1>1, <1>3, UnverifiedKeeps, ReleaseKeeps, TabStep DEF IInv, TypeOK
  <1>4. CASE /\ token[t] = me.seen
             /\ user' = [user EXCEPT ![t] = owner[me.seen]]
             /\ status' = [status EXCEPT ![t] = "authenticated"]
             /\ Goes(t, k, Then(me, token[t]))
             /\ UNCHANGED <<token, inbox>>
    <2>1. me.seen \in Known(owner) \ {None}
      BY <1>2 DEF TaskOf, MeAnswered
    <2>2. me.seen \in Tokens /\ owner[me.seen] \in Users
      BY <2>1 DEF Known, IInv, TypeOK
    <2>3. Then(me, token[t]) \in TaskOf(Known(owner))
      BY <1>2, NewTasks
    <2> HIDE DEF me
    <2>4. task' \in TasksOf(Known(owner))
      BY <1>2, <1>4, <2>3, GoesKeeps
    <2>5. owner' = owner
      BY <1>1 DEF server
    <2>6. Shown
      BY <1>4, <2>1, <2>5 DEF Shown, IInv, TypeOK
    <2> QED BY <1>1, <1>4, <2>2, <2>4, <2>6, ReleaseKeeps, TabStep DEF IInv, TypeOK
  <1> QED BY <1>3, <1>4 DEF MeAnswered

\* A check that fails keeps it.
LEMMA MeFailsStep ==
  ASSUME IInv, NEW t \in Tabs, NEW k \in Kinds, MeFails(t, k) PROVE IInv'
  <1>1. /\ UNCHANGED server /\ UNCHANGED <<cookie, lost>> /\ Release(t, k) /\ Unverified(t, k)
        /\ events' \in 0 .. MaxEvents
    BY SessionAssumption DEF MeFails, IInv, TypeOK
  <1> QED BY <1>1, UnverifiedKeeps, ReleaseKeeps, TabStep DEF IInv, TypeOK

\* An announcement keeps it.
LEMMA HearStep == ASSUME IInv, NEW t \in Tabs, Hear(t) PROVE IInv'
  <1> DEFINE n == Head(inbox[t])
             m == task[t]["ear"]
             cleared == Touch(task[t])["ear"]
             check == Checking(n, "ear", None, FALSE)
             later == [m EXCEPT !.moved = (token[t] # n \/ @)]
  <1>1. UNCHANGED server /\ UNCHANGED <<cookie, lock, lost, events>>
        /\ inbox[t] # << >> /\ inbox' = [inbox EXCEPT ![t] = Tail(@)]
    BY DEF Hear
  <1>2. /\ m \in TaskOf(Known(owner)) /\ task[t] \in [Kinds -> TaskOf(Known(owner))]
        /\ None \in Known(owner) /\ Known(owner) \subseteq Tokens \union {None}
        /\ task \in TasksOf(Known(owner)) /\ token \in [Tabs -> Known(owner)]
        /\ inbox \in [Tabs -> Seq(Known(owner))] /\ "ear" \in Kinds
    BY Here, KindsAre
  <1>3. n \in Known(owner) /\ inbox' \in [Tabs -> Seq(Known(owner))]
    <2>1. inbox[t] \in Seq(Known(owner))
      BY <1>2
    <2>2. n \in Known(owner) /\ Tail(inbox[t]) \in Seq(Known(owner))
      BY <1>1, <2>1
    <2> QED BY <1>1, <1>2, <2>2
  <1>4. cleared \in TaskOf(Known(owner))
    BY <1>2, TouchKeeps
  <1>5. n # None => check \in TaskOf(Known(owner))
    BY <1>2, <1>3, NewTasks
  <1>6. later \in TaskOf(Known(owner))
    <2>1. m \in TaskType /\ m.arg \in Known(owner) /\ m.seen \in Known(owner)
          /\ (m.at = "me" => m.seen # None)
      BY <1>2 DEF TaskOf
    <2> DEFINE b == token[t] # n \/ m.moved
    <2>2. b \in BOOLEAN
      OBVIOUS
    <2> HIDE DEF b, m
    <2>3. [m EXCEPT !.moved = b] \in TaskOf(Known(owner))
      BY <2>1, <2>2 DEF TaskOf, TaskType
    <2> QED BY <2>3 DEF b, m
  <1>7. \/ n = None /\ ClearSession(t, "ear", cleared)
        \/ n # None /\ Install(t, n, "ear", check)
        \/ n # None /\ Install(t, n, "ear", later)
    BY DEF Hear
  <1> HIDE DEF n, m, cleared, check, later
  <1>8. /\ token' \in [Tabs -> Known(owner)] /\ task' \in TasksOf(Known(owner))
        /\ user' \in [Tabs -> Users \union {NoUser}]
        /\ status' \in [Tabs -> {"loading", "authenticated", "anonymous"}]
        /\ Shown
    BY <1>2, <1>3, <1>4, <1>5, <1>6, <1>7, InstallKeeps, ClearKeeps
  <1> QED BY <1>1, <1>3, <1>8, TabStep DEF IInv, TypeOK

-----------------------------------------------------------------------------
(* What customers do *)

\* Events stay within their bound.
LEMMA EventBound == ASSUME IInv, Event PROVE events' \in 0 .. MaxEvents
  BY SessionAssumption DEF Event, IInv, TypeOK

\* An expired token and a logout keep it.
LEMMA AskStep == ASSUME IInv, NEW t \in Tabs, Unauthorized(t) \/ Logout(t) PROVE IInv'
  <1>1. /\ UNCHANGED server /\ UNCHANGED tabs /\ UNCHANGED <<cookie, lock, inbox, lost>> /\ Event
    BY DEF Unauthorized, Logout
  <1>2. \/ \E stale \in {token[t], None} : Goes(t, "page", Queued(stale, FALSE))
        \/ Goes(t, "form", [Idle EXCEPT !.at = "leaving", !.arg = cookie])
    BY DEF Unauthorized, Logout
  <1>3. /\ token[t] \in Known(owner) /\ cookie \in Known(owner)
        /\ None \in Known(owner) /\ Known(owner) \subseteq Tokens \union {None}
        /\ task \in TasksOf(Known(owner))
    BY Here, KindsAre DEF IInv
  <1>4. \A stale \in {token[t], None} : Queued(stale, FALSE) \in TaskOf(Known(owner))
    BY <1>3, NewTasks
  <1>5. [Idle EXCEPT !.at = "leaving", !.arg = cookie] \in TaskOf(Known(owner))
    BY <1>3 DEF Idle, TaskOf, TaskType, Points
  <1>6. task' \in TasksOf(Known(owner))
    BY <1>2, <1>3, <1>4, <1>5, GoesKeeps, KindsAre
  <1> QED BY <1>1, <1>6, Kept, EventBound, TabStep DEF IInv, TypeOK

\* A save of the profile keeps it: what it shows is nobody that may not be shown.
LEMMA SaveStep == ASSUME IInv, NEW t \in Tabs, SaveProfile(t) \/ ProfileSaved(t) PROVE IInv'
  <1>1. UNCHANGED server /\ UNCHANGED <<cookie, token, status, lock, inbox, lost, events>>
    BY DEF SaveProfile, ProfileSaved, tabs
  <1>2. \/ Goes(t, "save", [Idle EXCEPT !.at = "saving", !.arg = token[t]])
        \/ Goes(t, "save", Idle)
    BY DEF SaveProfile, ProfileSaved
  <1>3. /\ token[t] \in Known(owner) /\ None \in Known(owner)
        /\ Known(owner) \subseteq Tokens \union {None} /\ task \in TasksOf(Known(owner))
        /\ "save" \in Kinds
    BY Here, KindsAre DEF IInv
  <1>4. [Idle EXCEPT !.at = "saving", !.arg = token[t]] \in TaskOf(Known(owner))
    BY <1>3 DEF Idle, TaskOf, TaskType, Points
  <1>5. task' \in TasksOf(Known(owner))
    BY <1>2, <1>3, <1>4, NewTasks, GoesKeeps
  <1>6. Shown /\ user' \in [Tabs -> Users \union {NoUser}]
    <2>1. CASE user' = user
      BY <1>1, <2>1 DEF Shown, IInv, TypeOK
    <2>2. CASE ProfileSaved(t) /\ user' # user
      <3> DEFINE n == task[t]["save"].arg
      <3>1. task[t]["save"].at = "saving" /\ n \in Known(owner) /\ n # None
            /\ user' = [user EXCEPT ![t] = owner[n]]
        BY <1>3, <2>2, Here DEF ProfileSaved, TaskOf
      <3>2. owner[n] \in Users
        BY <3>1 DEF Known, IInv, TypeOK
      <3>3. t \in Savers
        BY <2>2 DEF ProfileSaved
      <3> HIDE DEF n
      <3> QED
        BY <1>1, <3>1, <3>2, <3>3 DEF Shown, IInv, TypeOK
    <2> QED
      BY <2>1, <2>2 DEF SaveProfile, tabs
  <1> QED
    BY <1>1, <1>5, <1>6, TabStep DEF IInv, TypeOK

\* A logout that ends keeps it.
LEMMA LoggedOutStep == ASSUME IInv, NEW t \in Tabs, LoggedOut(t) PROVE IInv'
  <1>1. /\ UNCHANGED server /\ UNCHANGED <<lock, lost, events>>
        /\ ClearSession(t, "form", Idle) /\ Publish(t, None) /\ cookie' \in {None, cookie}
    BY DEF LoggedOut
  <1>2. /\ None \in Known(owner) /\ Known(owner) \subseteq Tokens \union {None}
        /\ task \in TasksOf(Known(owner)) /\ token \in [Tabs -> Known(owner)]
        /\ inbox \in [Tabs -> Seq(Known(owner))] /\ "form" \in Kinds
    BY Here, KindsAre
  <1>3. Idle \in TaskOf(Known(owner))
    BY <1>2, NewTasks
  <1>4. inbox' \in [Tabs -> Seq(Known(owner))]
    BY <1>1, <1>2, PublishKeeps
  <1> QED BY <1>1, <1>2, <1>3, <1>4, ClearKeeps, TabStep DEF IInv, TypeOK

\* A login keeps it.
LEMMA LoginStep == ASSUME IInv, NEW t \in Tabs, NEW u \in Users, Login(t, u) PROVE IInv'
  <1> DEFINE next == Checking(Fresh, "form", None, FALSE)
  <1>1. /\ Unissued # {} /\ owner' = [owner EXCEPT ![Fresh] = u]
        /\ live' = live \union {Fresh} /\ cookie' = Fresh
        /\ Install(t, Fresh, "form", next) /\ UNCHANGED <<cause, lock, inbox, lost>> /\ Event
    BY DEF Login
  <1>2. Grown /\ Fresh \in Known(owner') /\ Fresh \in Tokens /\ Fresh # None
    BY <1>1, Issue
  <1>3. /\ task \in TasksOf(Known(owner')) /\ token \in [Tabs -> Known(owner')]
        /\ inbox \in [Tabs -> Seq(Known(owner'))] /\ None \in Known(owner')
    BY <1>2, KnownGrows DEF Known
  <1>4. next \in TaskOf(Known(owner'))
    BY <1>2, <1>3, NewTasks
  <1> HIDE DEF next
  <1>5. /\ token' \in [Tabs -> Known(owner')] /\ task' \in TasksOf(Known(owner'))
        /\ user' \in [Tabs -> Users \union {NoUser}]
        /\ status' \in [Tabs -> {"loading", "authenticated", "anonymous"}]
        /\ Shown
    BY <1>1, <1>2, <1>3, <1>4, InstallKeeps, KindsAre
  <1> QED BY <1>1, <1>2, <1>3, <1>5, EventBound, Combine DEF IInv, TypeOK

\* A page that loads keeps the tabs well formed.
LEMMA LoadKeeps ==
  ASSUME IInv, NEW K, None \in K, token \in [Tabs -> K], task \in TasksOf(K),
         inbox \in [Tabs -> Seq(K)], NEW t \in Tabs, NEW page \in TaskOf(K), Load(t, page)
  PROVE  /\ token' \in [Tabs -> K] /\ task' \in TasksOf(K) /\ inbox' \in [Tabs -> Seq(K)]
         /\ user' \in [Tabs -> Users \union {NoUser}]
         /\ status' \in [Tabs -> {"loading", "authenticated", "anonymous"}]
         /\ Shown
  <1>1. Idle \in TaskOf(K) /\ Queued(None, TRUE) \in TaskOf(K)
    BY NewTasks
  <1> DEFINE fresh == [k \in Kinds |->
       CASE k = "boot" -> Queued(None, TRUE) [] k = "page" -> page [] OTHER -> Idle]
  <1>2. fresh \in [Kinds -> TaskOf(K)]
    BY <1>1
  <1> HIDE DEF fresh
  <1>3. task' = [task EXCEPT ![t] = fresh]
    BY DEF Load, fresh
  <1>4. task' \in TasksOf(K)
    BY <1>2, <1>3 DEF TasksOf
  <1>5. inbox' \in [Tabs -> Seq(K)]
    BY DEF Load
  <1> QED BY <1>4, <1>5 DEF Load, IInv, TypeOK, Shown

\* A page that loads keeps the invariant.
LEMMA ReloadStep == ASSUME IInv, NEW t \in Tabs, Reload(t) PROVE IInv'
  <1> DEFINE stored == {task[t][r].arg : r \in {q \in Refreshers :
                          task[t][q].at = "answered" /\ task[t][q].arg # None}}
  <1>1. UNCHANGED server /\ Event /\ Load(t, Idle)
    BY DEF Reload
  <1>2. /\ None \in Known(owner) /\ task[t] \in [Kinds -> TaskOf(Known(owner))]
        /\ task \in TasksOf(Known(owner)) /\ token \in [Tabs -> Known(owner)]
        /\ inbox \in [Tabs -> Seq(Known(owner))] /\ Refreshers \subseteq Kinds
        /\ Known(owner) \subseteq Tokens \union {None}
    BY Here, KindsAre
  <1>3. stored \subseteq Known(owner)
    BY <1>2 DEF TaskOf
  <1>4. cookie' \in Known(owner) /\ lost' \in BOOLEAN
    BY <1>3 DEF Reload, IInv, TypeOK
  <1>5. lock' \in (Tabs \X Refreshers) \union {Nobody}
    BY DEF Reload, IInv, TypeOK
  <1>6. Idle \in TaskOf(Known(owner))
    BY <1>2, NewTasks
  <1> HIDE DEF stored
  <1> QED BY <1>1, <1>2, <1>4, <1>5, <1>6, LoadKeeps, EventBound, TabStep

\* The return from an OAuth provider keeps it.
LEMMA OAuthReturnStep == ASSUME IInv, NEW t \in Tabs, NEW u \in Users, OAuthReturn(t, u) PROVE IInv'
  <1>1. /\ Unissued # {} /\ owner' = [owner EXCEPT ![Fresh] = u]
        /\ live' = live \union {Fresh} /\ cookie' = Fresh
        /\ Load(t, Queued(None, TRUE)) /\ UNCHANGED <<cause, lock, lost>> /\ Event
    BY DEF OAuthReturn
  <1>2. Grown /\ Fresh \in Known(owner') /\ Fresh \in Tokens
    BY <1>1, Issue
  <1>3. /\ task \in TasksOf(Known(owner')) /\ token \in [Tabs -> Known(owner')]
        /\ inbox \in [Tabs -> Seq(Known(owner'))] /\ None \in Known(owner')
    BY <1>2, KnownGrows DEF Known
  <1>4. Queued(None, TRUE) \in TaskOf(Known(owner'))
    BY <1>3, NewTasks
  <1>5. /\ token' \in [Tabs -> Known(owner')] /\ task' \in TasksOf(Known(owner'))
        /\ inbox' \in [Tabs -> Seq(Known(owner'))]
        /\ user' \in [Tabs -> Users \union {NoUser}]
        /\ status' \in [Tabs -> {"loading", "authenticated", "anonymous"}]
        /\ Shown
    BY <1>1, <1>3, <1>4, LoadKeeps
  <1> QED BY <1>1, <1>2, <1>5, EventBound, Combine DEF IInv, TypeOK

-----------------------------------------------------------------------------
\* At first the invariant holds.
LEMMA InitIInv == Init => IInv
  <1> SUFFICES ASSUME Init PROVE IInv
    OBVIOUS
  <1> DEFINE u == CHOOSE v \in Users : TRUE
             t == CHOOSE v \in Tabs : TRUE
             n == CHOOSE m \in Tokens : TRUE
  <1>1. u \in Users /\ t \in Tabs /\ n \in Tokens
    BY SessionAssumption
  <1> HIDE DEF u, t, n
  <1>2. /\ owner = [m \in Tokens |-> IF m = n THEN u ELSE NoUser]
        /\ token = [s \in Tabs |-> IF s = t THEN n ELSE None]
        /\ user = [s \in Tabs |-> IF s = t THEN u ELSE NoUser]
        /\ status = [s \in Tabs |-> IF s = t THEN "authenticated" ELSE "anonymous"]
        /\ live = {n} /\ cookie = n
        /\ cause = [m \in Tokens |-> "none"]
        /\ task = [s \in Tabs |-> [k \in Kinds |-> Idle]]
        /\ lock = Nobody /\ inbox = [s \in Tabs |-> << >>] /\ lost = FALSE /\ events = 0
    BY DEF Init, u, t, n
  <1>3. n \in Known(owner) /\ None \in Known(owner) /\ n # None /\ Known(owner) \subseteq Tokens \union {None}
    BY <1>1, <1>2, SessionAssumption DEF Known
  <1>4. Idle \in TaskOf(Known(owner)) /\ Idle \in TaskType
    BY <1>3 DEF Idle, TaskOf, TaskType, Points
  <1>5. TypeOK
    <2>1. << >> \in Seq(Tokens \union {None})
      OBVIOUS
    <2>2. /\ owner \in [Tokens -> Users \union {NoUser}]
          /\ token \in [Tabs -> Tokens \union {None}] /\ user \in [Tabs -> Users \union {NoUser}]
          /\ status \in [Tabs -> {"loading", "authenticated", "anonymous"}]
          /\ cause \in [Tokens -> {"none", "rotated", "logout", "alarm"}]
      BY <1>1, <1>2
    <2>3. task \in [Tabs -> [Kinds -> TaskType]] /\ inbox \in [Tabs -> Seq(Tokens \union {None})]
      BY <1>2, <1>4, <2>1
    <2>4. live \subseteq Tokens /\ cookie \in Tokens \union {None} /\ lost \in BOOLEAN
          /\ events \in 0 .. MaxEvents /\ lock \in (Tabs \X Refreshers) \union {Nobody}
      <3>1. 0 \in 0 .. MaxEvents
        BY SessionAssumption
      <3> QED BY <1>1, <1>2, <3>1
    <2> QED BY <2>2, <2>3, <2>4 DEF TypeOK
  <1>6. task \in TasksOf(Known(owner)) /\ token \in [Tabs -> Known(owner)]
        /\ inbox \in [Tabs -> Seq(Known(owner))]
    BY <1>2, <1>3, <1>4 DEF TasksOf
  <1>7. ShowsTokenOwner
    BY <1>1, <1>2, <1>3 DEF ShowsTokenOwner
  <1> QED BY <1>2, <1>3, <1>5, <1>6, <1>7 DEF IInv

\* Every step keeps the invariant.
LEMMA NextStep == ASSUME IInv, Next PROVE IInv'
  <1> PICK t \in Tabs :
        \/ Step(t)
        \/ \E k \in Refreshers : RefreshFails(t, k)
        \/ \E k \in Kinds : MeFails(t, k)
        \/ Unauthorized(t) \/ Logout(t) \/ Reload(t)
        \/ SaveProfile(t) \/ ProfileSaved(t)
        \/ \E u \in Users : Login(t, u) \/ OAuthReturn(t, u)
    BY DEF Next
  <1>1. CASE Step(t)
    BY <1>1, AcquireStep, RotateStep, BootedStep, RefreshAnsweredStep, RefreshRefusedStep,
       LookAgainStep, MeAnsweredStep, RevokeAtLogoutStep, LoggedOutStep, HearStep DEF Step
  <1> QED BY <1>1, RefreshFailsStep, MeFailsStep, AskStep, SaveStep, ReloadStep, LoginStep, OAuthReturnStep

\* So does a step that changes nothing.
LEMMA StutterStep == ASSUME IInv, UNCHANGED vars PROVE IInv'
  <1>1. UNCHANGED server /\ UNCHANGED tabs
        /\ UNCHANGED <<cookie, task, lock, inbox, lost, events>>
    BY DEF vars, server, tabs
  <1> QED BY <1>1, Kept, TabStep DEF IInv, TypeOK

\* IInv holds in every state of every behaviour.
THEOREM SessionInvariant == Spec => []IInv
  <1>1. IInv /\ [Next]_vars => IInv'
    BY NextStep, StutterStep
  <1> QED BY <1>1, InitIInv, PTL DEF Spec

\* Every reachable state of the browser and its sessions is well typed
\* (api-client.ts, session-store.ts, auth/service.py).
THEOREM TypeCorrect == Spec => []TypeOK
  <1>1. IInv => TypeOK
    BY DEF IInv
  <1> QED BY <1>1, SessionInvariant, PTL

\* A tab that shows a customer shows the owner of the token it sends, in any number of
\* tabs (authenticateCurrentToken of api-client.ts).
THEOREM TabShowsTokenOwner == Spec => []ShowsTokenOwner
  <1>1. IInv => ShowsTokenOwner
    BY DEF IInv
  <1> QED BY <1>1, SessionInvariant, PTL

-----------------------------------------------------------------------------
(* No tab looks like a thief *)

\* A refresh that has the Web Lock and needs it.
Holding(m) ==
  \/ m.at \in {"sent", "answered"}
  \/ m.at = "me" /\ m.for \in {"rotated", "reused"}

\* A token on its way to the server or back.
Carries(m) == m.at \in {"sent", "answered"} /\ m.arg # None

\* The lock excludes; and unless an answer was lost, what is sent and answered is not
\* rotated yet, and the cookie is rotated only while the new one is on its way.
LockInv ==
  /\ \A t \in Tabs, k \in Refreshers : Holding(task[t][k]) => lock = <<t, k>>
  /\ \A n \in Tokens : owner[n] = NoUser => cause[n] # "rotated"
  /\ ~lost =>
       /\ \A t \in Tabs, k \in Refreshers :
            Carries(task[t][k]) => cause[task[t][k].arg] # "rotated"
       /\ cookie # None /\ cause[cookie] = "rotated" =>
            \E t \in Tabs, k \in Refreshers : task[t][k].at = "answered" /\ Carries(task[t][k])

\* At first no token is rotated.
LEMMA LockInit == Init => LockInv
  BY SessionAssumption DEF Init, LockInv, Holding, Carries, Idle, Refreshers, Kinds

\* A task of which only `moved` changes.
Same(s, j) ==
  /\ task'[s][j].at = task[s][j].at
  /\ task'[s][j].arg = task[s][j].arg
  /\ task'[s][j].for = task[s][j].for

Others(t, k) == \A s \in Tabs, j \in Refreshers : <<s, j>> # <<t, k>> => Same(s, j)

\* A task that goes on leaves the others alone.
LEMMA OthersGo ==
  ASSUME IInv, NEW t \in Tabs, NEW k \in Kinds, NEW next, Goes(t, k, next)
  PROVE  Others(t, k) /\ task'[t][k] = next
  BY KindsAre DEF Goes, Others, Same, IInv, TypeOK, Refreshers

\* So does one that touches the tab.
LEMMA OthersTouched ==
  ASSUME IInv, NEW t \in Tabs, NEW k \in Kinds, NEW next,
         \/ task' = [task EXCEPT ![t] = [task[t] EXCEPT ![k] = next]]
         \/ task' = [task EXCEPT ![t] = [Touch(task[t]) EXCEPT ![k] = next]]
  PROVE  Others(t, k) /\ task'[t][k] = next
  <1>1. task \in [Tabs -> [Kinds -> TaskType]] /\ Refreshers \subseteq Kinds
    BY KindsAre DEF IInv, TypeOK, Refreshers
  <1>2. \A j \in Kinds : /\ Touch(task[t])[j].at = task[t][j].at
                         /\ Touch(task[t])[j].arg = task[t][j].arg
                         /\ Touch(task[t])[j].for = task[t][j].for
    BY <1>1 DEF Touch, TaskType
  <1>3. DOMAIN Touch(task[t]) = Kinds
    BY DEF Touch
  <1>4. /\ \A s \in Tabs \ {t} : task'[s] = task[s]
        /\ \A j \in Kinds \ {k} : task'[t][j] \in {task[t][j], Touch(task[t])[j]}
        /\ task'[t][k] = next
    BY <1>1, <1>3
  <1> QED
    BY <1>1, <1>2, <1>4 DEF Others, Same

\* A step of one task that rotates nothing and brings no cookie.
LEMMA LockKept ==
  ASSUME IInv, LockInv, NEW t \in Tabs, NEW k \in Kinds, Others(t, k),
         \/ ~Holding(task'[t][k]) /\ (Release(t, k) \/ lock' = lock)
         \/ Holding(task[t][k]) /\ lock' = lock,
         k \in Refreshers => ~Carries(task'[t][k]),
         owner' = owner, cookie' \in {None, cookie},
         \A n \in Tokens : cause'[n] = "rotated" => cause[n] = "rotated",
         lost => lost',
         ~lost' => ~(k \in Refreshers /\ task[t][k].at = "answered" /\ Carries(task[t][k]))
  PROVE  LockInv'
  <1>1. \A s \in Tabs, j \in Refreshers : task[s][j] \in TaskType
    BY KindsAre DEF IInv, TypeOK, Refreshers
  <1>2. \A s \in Tabs, j \in Refreshers : Carries(task[s][j]) => task[s][j].arg \in Tokens
    BY <1>1 DEF TaskType, Carries
  <1>3. ASSUME NEW s \in Tabs, NEW j \in Refreshers, Holding(task'[s][j]) PROVE lock' = <<s, j>>
    <2>1. CASE <<s, j>> = <<t, k>>
      BY <1>3, <2>1 DEF LockInv
    <2>2. CASE <<s, j>> # <<t, k>>
      <3>1. lock = <<s, j>>
        BY <1>3, <2>2 DEF Others, Same, Holding, LockInv
      <3> QED
        BY <2>2, <3>1 DEF Release
    <2> QED
      BY <2>1, <2>2
  <1>4. ASSUME ~lost', NEW s \in Tabs, NEW j \in Refreshers, Carries(task'[s][j])
        PROVE  cause'[task'[s][j].arg] # "rotated"
    <2>1. <<s, j>> # <<t, k>>
      BY <1>4
    <2> QED
      BY <1>2, <1>4, <2>1 DEF Others, Same, Carries, LockInv
  <1>5. ASSUME ~lost', cookie' # None, cause'[cookie'] = "rotated"
        PROVE  \E s \in Tabs, j \in Refreshers : task'[s][j].at = "answered" /\ Carries(task'[s][j])
    <2>1. cookie \in Tokens /\ cookie' = cookie
      BY <1>5 DEF IInv, TypeOK
    <2>2. PICK s \in Tabs, j \in Refreshers : task[s][j].at = "answered" /\ Carries(task[s][j])
      BY <1>5, <2>1 DEF LockInv
    <2>3. <<s, j>> # <<t, k>>
      BY <1>5, <2>2
    <2> QED
      BY <2>2, <2>3 DEF Others, Same, Carries
  <1> QED
    BY <1>3, <1>4, <1>5 DEF LockInv, Holding, Carries

\* A task that clears the tab leaves the others alone.
LEMMA OthersCleared ==
  ASSUME IInv, NEW t \in Tabs, NEW k \in Kinds, NEW next, ClearSession(t, k, next)
  PROVE  Others(t, k) /\ task'[t][k] = next
  <1>1. task' = [task EXCEPT ![t] = [Touch(task[t]) EXCEPT ![k] = next]]
    BY DEF ClearSession
  <1> QED
    BY <1>1, OthersTouched

\* So does one that installs a token.
LEMMA OthersInstalled ==
  ASSUME IInv, NEW t \in Tabs, NEW k \in Kinds, NEW n, NEW next, Install(t, n, k, next)
  PROVE  Others(t, k) /\ task'[t][k] = next
  <1>1. task' = [task EXCEPT ![t] =
                   [(IF token[t] = n THEN task[t] ELSE Touch(task[t])) EXCEPT ![k] = next]]
    BY DEF Install
  <1>2. \/ task' = [task EXCEPT ![t] = [task[t] EXCEPT ![k] = next]]
        \/ task' = [task EXCEPT ![t] = [Touch(task[t]) EXCEPT ![k] = next]]
    BY <1>1
  <1> QED
    BY <1>2, OthersTouched

\* What a task carries to its end is nothing that needs the lock.
LEMMA OverRests ==
  ASSUME NEW m, NEW n
  PROVE  ~Holding(Over(m, n)) /\ ~Carries(Over(m, n)) /\ ~Holding(Then(m, n)) /\ ~Carries(Then(m, n))
  BY DEF Over, Then, Idle, Holding, Carries

\* Nor is an idle task.
LEMMA IdleRests == ~Holding(Idle) /\ ~Carries(Idle)
  BY DEF Idle, Holding, Carries

\* A check that waits for getMe carries no token that may be rotated.
LEMMA CheckRests ==
  ASSUME NEW n, NEW for, NEW arg, NEW boot
  PROVE  /\ ~Carries(Checking(n, for, arg, boot))
         /\ for \notin {"rotated", "reused"} => ~Holding(Checking(n, for, arg, boot))
  BY DEF Checking, Carries, Holding

\* The server rotates a token that was live: the new one is on its way.
LEMMA RotateLock ==
  ASSUME IInv, LockInv, NEW t \in Tabs, NEW k \in Refreshers, Rotate(t, k) PROVE LockInv'
  <1> DEFINE me == task[t][k]
             c == me.arg
  <1>0. k \in Kinds /\ me \in TaskType /\ c \in Known(owner)
    BY Here, KindsAre DEF TaskOf, Refreshers
  <1>1. PICK next : /\ next \in {[me EXCEPT !.at = "answered", !.arg = Fresh],
                                 [me EXCEPT !.at = "answered", !.arg = None]}
                    /\ Goes(t, k, next)
    BY DEF Rotate
  <1>2. Others(t, k) /\ task'[t][k] = next /\ next.at = "answered" /\ next.arg \in {Fresh, None}
    <2>1. Others(t, k) /\ task'[t][k] = next
      BY <1>0, <1>1, OthersGo
    <2>2. next.at = "answered" /\ next.arg \in {Fresh, None}
      BY <1>0, <1>1 DEF TaskType
    <2> QED
      BY <2>1, <2>2
  <1>3. Holding(task[t][k]) /\ lock = <<t, k>> /\ lock' = lock /\ lost' = lost /\ cookie' = cookie
    BY DEF Rotate, Holding, LockInv
  <1>4. \A s \in Tabs, j \in Refreshers : Holding(task'[s][j]) => <<s, j>> = <<t, k>>
    BY <1>2, <1>3 DEF Others, Same, Holding, LockInv
  <1>5. CASE /\ c \in live /\ Unissued # {}
             /\ cause' = [cause EXCEPT ![c] = "rotated"]
             /\ owner' = [owner EXCEPT ![Fresh] = owner[c]]
             /\ task'[t][k].arg = Fresh
    <2>1. c \in Tokens /\ owner[c] \in Users /\ owner[c] # NoUser
      BY <1>0, <1>5, SessionAssumption DEF IInv, TypeOK, Known
    <2>2. Fresh \in Tokens /\ owner[Fresh] = NoUser /\ Fresh # c /\ Fresh # None
      BY <1>5, <2>1, FreshIs, SessionAssumption
    <2>3. cause[Fresh] # "rotated" /\ cause'[Fresh] # "rotated"
      BY <1>5, <2>1, <2>2 DEF LockInv, IInv, TypeOK
    <2>4. \A n \in Tokens : owner'[n] = NoUser => cause'[n] # "rotated"
      BY <1>5, <2>1, <2>2 DEF LockInv, IInv, TypeOK
    <2>5. task'[t][k].at = "answered" /\ Carries(task'[t][k])
      BY <1>2, <1>5, <2>2 DEF Carries
    <2>6. \A s \in Tabs, j \in Refreshers :
            Carries(task'[s][j]) => cause'[task'[s][j].arg] # "rotated"
      BY <1>4, <1>5, <2>3 DEF Carries, Holding
    <2> QED
      BY <1>3, <1>4, <2>4, <2>5, <2>6 DEF LockInv
  <1>6. CASE /\ c \notin live /\ task'[t][k].arg = None /\ owner' = owner
             /\ \/ cause' = cause
                \/ Revoke({n \in live : owner[n] = owner[c]}, "alarm")
    <2>1. \A n \in Tokens : cause'[n] = "rotated" => cause[n] = "rotated"
      BY <1>6 DEF Revoke, IInv, TypeOK
    <2>2. ~Carries(task'[t][k]) /\ ~(me.at = "answered")
      BY <1>6 DEF Carries, Rotate
    <2> QED
      BY <1>0, <1>2, <1>3, <1>6, <2>1, <2>2, LockKept
  <1>7. ASSUME Goes(t, k, [me EXCEPT !.at = "answered", !.arg = Fresh]) PROVE task'[t][k].arg = Fresh
    <2>1. task'[t][k] = [me EXCEPT !.at = "answered", !.arg = Fresh]
      BY <1>0, <1>7, OthersGo
    <2> QED
      BY <1>0, <2>1 DEF TaskType
  <1>8. ASSUME Goes(t, k, [me EXCEPT !.at = "answered", !.arg = None]) PROVE task'[t][k].arg = None
    <2>1. task'[t][k] = [me EXCEPT !.at = "answered", !.arg = None]
      BY <1>0, <1>8, OthersGo
    <2> QED
      BY <1>0, <2>1 DEF TaskType
  <1> QED
    BY <1>5, <1>6, <1>7, <1>8 DEF Rotate

\* A refresh sends the cookie only when no other holds the lock.
LEMMA AcquireLock ==
  ASSUME IInv, LockInv, NEW t \in Tabs, NEW k \in Refreshers, Acquire(t, k) PROVE LockInv'
  <1> DEFINE me == task[t][k]
             check == Checking(token[t], "reused", None, me.boot)
  <1>0. k \in Kinds /\ me \in TaskType
    BY Here, KindsAre DEF TaskOf, Refreshers
  <1>1. /\ lock = Nobody
        /\ owner' = owner /\ cause' = cause /\ cookie' = cookie /\ lost' = lost
    BY DEF Acquire, server
  <1>2. \A s \in Tabs, j \in Refreshers : ~Holding(task[s][j])
    BY <1>1, SessionAssumption DEF LockInv, Refreshers
  <1>3. \A s \in Tabs, j \in Refreshers : ~Carries(task[s][j])
    BY <1>2 DEF Carries, Holding
  <1>4. ~lost => cookie = None \/ cause[cookie] # "rotated"
    BY <1>3 DEF LockInv
  <1>5. CASE lock' = lock /\ Goes(t, k, Then(check, token[t]))
    <2>1. ~Holding(task'[t][k]) /\ ~Carries(task'[t][k]) /\ Others(t, k)
      BY <1>0, <1>5, OthersGo, OverRests
    <2> QED
      BY <1>0, <1>1, <1>3, <1>5, <2>1, LockKept
  <1>6. ASSUME lock' = <<t, k>>, NEW next, Goes(t, k, next),
               Carries(next) => next.arg = cookie
        PROVE  LockInv'
    <2>1. Others(t, k) /\ task'[t][k] = next
      BY <1>0, <1>6, OthersGo
    <2>2. \A s \in Tabs, j \in Refreshers : Holding(task'[s][j]) => lock' = <<s, j>>
      BY <1>2, <1>6, <2>1 DEF Others, Same, Holding
    <2>3. \A s \in Tabs, j \in Refreshers :
            Carries(task'[s][j]) => <<s, j>> = <<t, k>> /\ task'[s][j].arg = cookie
      BY <1>3, <1>6, <2>1 DEF Others, Same, Carries
    <2>4. \A s \in Tabs, j \in Refreshers : Carries(task'[s][j]) => cookie # None
      BY <2>3 DEF Carries
    <2> QED
      BY <1>1, <1>4, <2>2, <2>3, <2>4 DEF LockInv
  <1>7. CASE Goes(t, k, [me EXCEPT !.at = "sent", !.arg = cookie, !.moved = FALSE])
             /\ lock' = <<t, k>>
    <2>1. [me EXCEPT !.at = "sent", !.arg = cookie, !.moved = FALSE].arg = cookie
      BY <1>0 DEF TaskType
    <2> QED
      BY <1>6, <1>7, <2>1
  <1>8. CASE Goes(t, k, check) /\ lock' = <<t, k>>
    BY <1>6, <1>8, CheckRests
  <1> QED
    BY <1>5, <1>7, <1>8 DEF Acquire

\* The new cookie arrives: it is not rotated.
LEMMA RefreshAnsweredLock ==
  ASSUME IInv, LockInv, NEW t \in Tabs, NEW k \in Refreshers, RefreshAnswered(t, k) PROVE LockInv'
  <1> DEFINE me == task[t][k]
             next == Checking(me.arg, "rotated", me.arg, me.boot)
  <1>0. k \in Kinds
    BY KindsAre DEF Refreshers
  <1>1. /\ owner' = owner /\ cause' = cause /\ cookie' = me.arg /\ lock' = lock /\ lost' = lost
        /\ me.at = "answered" /\ me.arg # None
    BY DEF RefreshAnswered, server
  <1>2. Others(t, k) /\ task'[t][k] = next
    BY <1>0, OthersInstalled DEF RefreshAnswered
  <1>3. lock = <<t, k>> /\ Carries(me) /\ ~Carries(task'[t][k])
    BY <1>1, <1>2, CheckRests DEF LockInv, Holding, Carries
  <1>4. \A s \in Tabs, j \in Refreshers : Holding(task'[s][j]) => <<s, j>> = <<t, k>>
    BY <1>2, <1>3 DEF Others, Same, Holding, LockInv
  <1>5. \A s \in Tabs, j \in Refreshers : ~Carries(task'[s][j])
    BY <1>3, <1>4 DEF Carries, Holding
  <1>6. ~lost => cause[me.arg] # "rotated"
    BY <1>3 DEF LockInv
  <1> QED
    BY <1>1, <1>3, <1>4, <1>5, <1>6 DEF LockInv

\* A step that ends a task or checks a token.
LEMMA CheckLock ==
  ASSUME IInv, LockInv, NEW t \in Tabs, NEW k \in Kinds,
         \/ LookAgain(t, k) \/ MeAnswered(t, k) \/ MeFails(t, k)
  PROVE  LockInv'
  <1> DEFINE me == task[t][k]
  <1>0. me \in TaskType /\ me.at = "me"
    BY Here DEF TaskOf, LookAgain, MeAnswered, MeFails
  <1>1. owner' = owner /\ cause' = cause /\ cookie' = cookie /\ lost' = lost
    BY DEF LookAgain, MeAnswered, MeFails, server
  <1>2. ASSUME NEW next, Others(t, k), task'[t][k] = next, ~Holding(next), ~Carries(next),
               Release(t, k)
        PROVE  LockInv'
    BY <1>0, <1>1, <1>2, LockKept DEF Carries
  <1>3. CASE Unverified(t, k) /\ Release(t, k)
    <2>1. Others(t, k) /\ task'[t][k] = Over(me, None)
      BY <1>3, OthersCleared DEF Unverified
    <2> QED
      BY <1>2, <1>3, <2>1, OverRests
  <1>4. CASE Goes(t, k, Then(me, token[t])) /\ Release(t, k)
    BY <1>2, <1>4, OthersGo, OverRests
  <1>5. CASE Goes(t, k, [me EXCEPT !.seen = token[t], !.moved = FALSE]) /\ lock' = lock
    <2>1. Others(t, k) /\ task'[t][k] = [me EXCEPT !.seen = token[t], !.moved = FALSE]
      BY <1>5, OthersGo
    <2>2. task'[t][k].at = "me" /\ task'[t][k].for = me.for
      BY <1>0, <2>1 DEF TaskType
    <2>3. (Holding(task'[t][k]) <=> Holding(me)) /\ ~Carries(task'[t][k])
      BY <1>0, <2>2 DEF Holding, Carries
    <2> QED
      BY <1>0, <1>1, <1>5, <2>1, <2>3, LockKept
  <1> QED
    BY <1>3, <1>4, <1>5 DEF LookAgain, MeAnswered, MeFails

\* A refresh that is refused or fails, or whose promise settles, gives the lock back.
LEMMA EndLock ==
  ASSUME IInv, LockInv, NEW t \in Tabs, NEW k \in Refreshers,
         RefreshRefused(t, k) \/ RefreshFails(t, k) \/ Booted(t, k)
  PROVE  LockInv'
  <1>0. k \in Kinds
    BY KindsAre DEF Refreshers
  <1>1. CASE RefreshRefused(t, k)
    <2>1. Others(t, k) /\ task'[t][k] = Over(task[t][k], None)
      BY <1>0, <1>1, OthersCleared DEF RefreshRefused
    <2> QED
      BY <1>0, <1>1, <2>1, OverRests, LockKept DEF RefreshRefused, server, Carries
  <1>2. CASE RefreshFails(t, k)
    <2>1. Others(t, k) /\ task'[t][k] = Over(task[t][k], None)
      BY <1>0, <1>2, OthersGo DEF RefreshFails
    <2>2. /\ lost => lost'
          /\ ~lost' => ~(task[t][k].at = "answered" /\ Carries(task[t][k]))
      BY <1>2 DEF RefreshFails, Carries
    <2> QED
      BY <1>0, <1>2, <2>1, <2>2, OverRests, LockKept DEF RefreshFails, server
  <1>3. CASE Booted(t, k)
    <2>1. Others(t, k) /\ ~Holding(task'[t][k]) /\ ~Carries(task'[t][k])
      <3>1. CASE ClearSession(t, k, Idle)
        BY <1>0, <3>1, OthersCleared, IdleRests
      <3>2. ASSUME NEW n, NEW next, Install(t, n, k, next), ~Holding(next), ~Carries(next)
            PROVE  Others(t, k) /\ ~Holding(task'[t][k]) /\ ~Carries(task'[t][k])
        BY <1>0, <3>2, OthersInstalled
      <3> QED
        BY <1>3, <3>1, <3>2, IdleRests, CheckRests DEF Booted
    <2> QED
      BY <1>0, <1>3, <2>1, LockKept DEF Booted, server, Carries
  <1> QED
    BY <1>1, <1>2, <1>3

\* The listener, logouts and refreshes that begin: tasks without the lock.
LEMMA RestLock ==
  ASSUME IInv, LockInv, NEW t \in Tabs,
         \/ RevokeAtLogout(t) \/ LoggedOut(t) \/ Hear(t) \/ Unauthorized(t) \/ Logout(t)
         \/ SaveProfile(t) \/ ProfileSaved(t)
  PROVE  LockInv'
  <1>0. /\ "form" \in Kinds \ Refreshers /\ "ear" \in Kinds \ Refreshers
        /\ "page" \in Kinds /\ "page" \in Refreshers /\ "save" \in Kinds \ Refreshers
    BY DEF Kinds, Refreshers
  <1>1. ASSUME NEW k \in Kinds \ Refreshers, Others(t, k), lock' = lock, lost' = lost,
               owner' = owner, cookie' \in {None, cookie},
               \A n \in Tokens : cause'[n] = "rotated" => cause[n] = "rotated"
        PROVE  LockInv'
    <2>1. \A s \in Tabs, j \in Refreshers : Same(s, j)
      BY <1>1 DEF Others
    <2>2. \A s \in Tabs, j \in Refreshers :
            /\ Holding(task'[s][j]) <=> Holding(task[s][j])
            /\ Carries(task'[s][j]) <=> Carries(task[s][j])
      BY <2>1 DEF Same, Holding, Carries
    <2>3. \A s \in Tabs, j \in Refreshers : Carries(task[s][j]) => task[s][j].arg \in Tokens
      BY Here, KindsAre DEF TaskOf, TaskType, Carries, Refreshers
    <2>4. \A s \in Tabs, j \in Refreshers : Holding(task'[s][j]) => lock' = <<s, j>>
      BY <1>1, <2>2 DEF LockInv
    <2>5. \A n \in Tokens : owner'[n] = NoUser => cause'[n] # "rotated"
      BY <1>1 DEF LockInv
    <2>6. ASSUME ~lost', NEW s \in Tabs, NEW j \in Refreshers, Carries(task'[s][j])
          PROVE  cause'[task'[s][j].arg] # "rotated"
      BY <1>1, <2>1, <2>2, <2>3, <2>6 DEF LockInv, Same
    <2>7. ASSUME ~lost', cookie' # None, cause'[cookie'] = "rotated"
          PROVE  \E s \in Tabs, j \in Refreshers : task'[s][j].at = "answered" /\ Carries(task'[s][j])
      <3>1. cookie' = cookie /\ cause[cookie] = "rotated"
        BY <1>1, <2>7 DEF IInv, TypeOK
      <3>2. PICK s \in Tabs, j \in Refreshers : task[s][j].at = "answered" /\ Carries(task[s][j])
        BY <1>1, <2>7, <3>1 DEF LockInv
      <3> QED
        BY <2>1, <2>2, <3>2 DEF Same
    <2> QED
      BY <2>4, <2>5, <2>6, <2>7 DEF LockInv
  <1>2. CASE RevokeAtLogout(t)
    <2>1. \A n \in Tokens : cause'[n] = "rotated" => cause[n] = "rotated"
      BY <1>2 DEF RevokeAtLogout, Revoke, IInv, TypeOK
    <2> QED
      BY <1>0, <1>1, <1>2, <2>1, OthersGo DEF RevokeAtLogout
  <1>3. CASE LoggedOut(t)
    <2>1. Others(t, "form")
      BY <1>0, <1>3, OthersCleared DEF LoggedOut
    <2> QED
      BY <1>0, <1>1, <1>3, <2>1 DEF LoggedOut, server
  <1>4. CASE Hear(t)
    <2>1. Others(t, "ear")
      BY <1>0, <1>4, OthersCleared, OthersInstalled DEF Hear
    <2> QED
      BY <1>0, <1>1, <1>4, <2>1 DEF Hear, server
  <1>5. CASE Logout(t)
    BY <1>0, <1>1, <1>5, OthersGo DEF Logout, server
  <1>7. CASE SaveProfile(t) \/ ProfileSaved(t)
    BY <1>0, <1>1, <1>7, OthersGo DEF SaveProfile, ProfileSaved, server
  <1>6. CASE Unauthorized(t)
    <2>1. PICK stale : Goes(t, "page", Queued(stale, FALSE))
      BY <1>6 DEF Unauthorized
    <2>2. Others(t, "page") /\ task'[t]["page"] = Queued(stale, FALSE)
      BY <1>0, <2>1, OthersGo
    <2>3. ~Holding(task'[t]["page"]) /\ ~Carries(task'[t]["page"])
      BY <2>2 DEF Queued, Idle, Holding, Carries
    <2> QED
      BY <1>0, <1>6, <2>2, <2>3, LockKept DEF Unauthorized, server, Carries
  <1> QED
    BY <1>2, <1>3, <1>4, <1>5, <1>6, <1>7

\* A login brings a token that was never used.
LEMMA LoginLock ==
  ASSUME IInv, LockInv, NEW t \in Tabs, NEW u \in Users, Login(t, u) PROVE LockInv'
  <1>1. "form" \in Kinds \ Refreshers
    BY DEF Kinds, Refreshers
  <1>2. Others(t, "form")
    BY <1>1, OthersInstalled DEF Login
  <1>3. \A s \in Tabs, j \in Refreshers :
          /\ Same(s, j)
          /\ Holding(task'[s][j]) <=> Holding(task[s][j])
          /\ Carries(task'[s][j]) <=> Carries(task[s][j])
    BY <1>1, <1>2 DEF Others, Same, Holding, Carries
  <1>4. Fresh \in Tokens /\ cause[Fresh] # "rotated"
    BY FreshIs DEF Login, LockInv
  <1>5. \A n \in Tokens : owner'[n] = NoUser => owner[n] = NoUser
    BY <1>4, SessionAssumption DEF Login, IInv, TypeOK
  <1> QED
    BY <1>3, <1>4, <1>5 DEF Login, LockInv, Same

\* A page that loads holds nothing.
LEMMA LoadRests ==
  ASSUME IInv, NEW t \in Tabs, NEW page, Load(t, page), page \in {Idle, Queued(None, TRUE)}
  PROVE  /\ \A k \in Refreshers : ~Holding(task'[t][k]) /\ ~Carries(task'[t][k])
         /\ \A s \in Tabs \ {t}, j \in Refreshers : task'[s][j] = task[s][j]
  <1>1. \A k \in Refreshers : task'[t][k] \in {Idle, Queued(None, TRUE)}
    BY DEF Load, Refreshers, Kinds, IInv, TypeOK
  <1>2. ~Holding(Queued(None, TRUE)) /\ ~Carries(Queued(None, TRUE))
    BY DEF Queued, Idle, Holding, Carries
  <1> QED
    BY <1>1, <1>2, IdleRests DEF Load, IInv, TypeOK

\* A page that loads keeps the lock invariant.
LEMMA ReloadLock ==
  ASSUME IInv, LockInv, NEW t \in Tabs, Reload(t) PROVE LockInv'
  <1> DEFINE stored == {task[t][r].arg : r \in {q \in Refreshers :
                          task[t][q].at = "answered" /\ task[t][q].arg # None}}
  <1>1. /\ owner' = owner /\ cause' = cause
        /\ \/ cookie' \in stored /\ lost' = lost
           \/ cookie' = cookie /\ lost' = (lost \/ stored # {})
        /\ lock' = IF lock # Nobody /\ lock[1] = t THEN Nobody ELSE lock
    BY DEF Reload, server
  <1>2. /\ \A k \in Refreshers : ~Holding(task'[t][k]) /\ ~Carries(task'[t][k])
        /\ \A s \in Tabs \ {t}, j \in Refreshers : task'[s][j] = task[s][j]
    BY LoadRests DEF Reload
  <1>3. ASSUME NEW s \in Tabs, NEW j \in Refreshers, Holding(task'[s][j]) PROVE lock' = <<s, j>>
    <2>1. s # t /\ lock = <<s, j>>
      BY <1>2, <1>3 DEF LockInv
    <2> QED
      BY <1>1, <2>1
  <1>4. \A n \in stored : ~lost => cause[n] # "rotated"
    BY DEF LockInv, Carries
  <1>5. ASSUME ~lost', NEW s \in Tabs, NEW j \in Refreshers, Carries(task'[s][j])
        PROVE  cause'[task'[s][j].arg] # "rotated"
    <2>1. s # t /\ Carries(task[s][j]) /\ task'[s][j] = task[s][j]
      BY <1>2, <1>5
    <2>2. ~lost
      BY <1>1, <1>5
    <2> QED
      BY <1>1, <2>1, <2>2 DEF LockInv
  <1>6. ASSUME ~lost', cookie' # None, cause'[cookie'] = "rotated"
        PROVE  \E s \in Tabs, j \in Refreshers : task'[s][j].at = "answered" /\ Carries(task'[s][j])
    <2>1. ~lost
      BY <1>1, <1>6
    <2>2. cookie' \notin stored
      BY <1>1, <1>4, <1>6, <2>1
    <2>3. stored = {} /\ cookie' = cookie
      <3> HIDE DEF stored
      <3> QED
        BY <1>1, <1>6, <2>2
    <2>4. PICK s \in Tabs, j \in Refreshers : task[s][j].at = "answered" /\ Carries(task[s][j])
      BY <1>1, <1>6, <2>1, <2>3 DEF LockInv
    <2>5. s # t
      BY <2>3, <2>4 DEF Carries
    <2> QED
      BY <1>2, <2>4, <2>5
  <1> QED
    BY <1>1, <1>3, <1>5, <1>6 DEF LockInv

\* So does the return from an OAuth provider.
LEMMA OAuthReturnLock ==
  ASSUME IInv, LockInv, NEW t \in Tabs, NEW u \in Users, OAuthReturn(t, u) PROVE LockInv'
  <1>1. /\ \A k \in Refreshers : ~Holding(task'[t][k]) /\ ~Carries(task'[t][k])
        /\ \A s \in Tabs \ {t}, j \in Refreshers : task'[s][j] = task[s][j]
    BY LoadRests DEF OAuthReturn
  <1>2. Fresh \in Tokens /\ cause[Fresh] # "rotated"
    BY FreshIs DEF OAuthReturn, LockInv
  <1>3. \A n \in Tokens : owner'[n] = NoUser => owner[n] = NoUser
    BY <1>2, SessionAssumption DEF OAuthReturn, IInv, TypeOK
  <1> QED
    BY <1>1, <1>2, <1>3 DEF OAuthReturn, LockInv

\* LockInv is inductive, on top of IInv.
LEMMA LockNext == ASSUME IInv, LockInv, Next PROVE LockInv'
  <1> PICK t \in Tabs :
        \/ Step(t)
        \/ \E k \in Refreshers : RefreshFails(t, k)
        \/ \E k \in Kinds : MeFails(t, k)
        \/ Unauthorized(t) \/ Logout(t) \/ Reload(t)
        \/ SaveProfile(t) \/ ProfileSaved(t)
        \/ \E u \in Users : Login(t, u) \/ OAuthReturn(t, u)
    BY DEF Next
  <1>1. CASE Step(t)
    BY <1>1, AcquireLock, RotateLock, RefreshAnsweredLock, EndLock, CheckLock, RestLock DEF Step
  <1> QED
    BY <1>1, EndLock, CheckLock, RestLock, ReloadLock, LoginLock, OAuthReturnLock

\* The tabs of a browser never send a cookie that was rotated already, as long as no answer
\* to a rotation was lost: the Web Lock is held from the request to the new cookie
\* (refreshStoreAccessToken of api-client.ts, rotate_refresh_token of auth/service.py).
THEOREM NeverLooksLikeTheft == Spec => []NeverReusesRotated
  <1>1. IInv /\ LockInv /\ [Next]_vars => LockInv'
    <2>1. ASSUME UNCHANGED vars, LockInv PROVE LockInv'
      BY <2>1 DEF vars, LockInv
    <2> QED
      BY <2>1, LockNext
  <1>2. LockInv => NeverReusesRotated
    BY DEF LockInv, NeverReusesRotated, Carries
  <1> QED
    BY <1>1, <1>2, LockInit, SessionInvariant, PTL DEF Spec

-----------------------------------------------------------------------------
(* What the pages of a tab see *)

\* A tab that has a token does not say that nobody is signed in.
TokenIsShown == \A t \in Tabs : token[t] # None => status[t] # "anonymous"

\* What a step does to tab t.
Stays(t) == token'[t] = token[t] /\ status'[t] = status[t] /\ user'[t] = user[t]
Turns(t, n, now, u) == token'[t] = n /\ status'[t] = now /\ user'[t] = u
Shows(t) == token[t] # None /\ Turns(t, token[t], "authenticated", owner[token[t]])
Saves(t) == t \in Savers /\ \E u \in Users : Turns(t, token[t], status[t], u)

Moves(t) ==
  \/ Stays(t)
  \/ \E n \in Tokens : Turns(t, n, IF token[t] = n THEN status[t] ELSE "loading", user[t])
  \/ Turns(t, None, "anonymous", NoUser)
  \/ Turns(t, None, "loading", NoUser)
  \/ Shows(t)
  \/ Saves(t)

\* A token that is installed in one tab leaves the others as they are.
LEMMA InstallMoves ==
  ASSUME IInv, NEW t \in Tabs, NEW n \in Tokens, NEW k, NEW next, Install(t, n, k, next)
  PROVE  \A s \in Tabs : Moves(s)
  BY DEF Install, Moves, Stays, Turns, IInv, TypeOK

\* The same of a session that is cleared, ...
LEMMA ClearMoves ==
  ASSUME IInv, NEW t \in Tabs, NEW k, NEW next, ClearSession(t, k, next)
  PROVE  \A s \in Tabs : Moves(s)
  BY DEF ClearSession, Moves, Stays, Turns, IInv, TypeOK

\* ... of a page that is loaded, ...
LEMMA LoadMoves ==
  ASSUME IInv, NEW t \in Tabs, NEW page, Load(t, page)
  PROVE  \A s \in Tabs : Moves(s)
  BY DEF Load, Moves, Stays, Turns, IInv, TypeOK

\* ... and of tabs that nothing is done to.
LEMMA TabsStay == ASSUME UNCHANGED tabs PROVE \A s \in Tabs : Moves(s)
  BY DEF tabs, Moves, Stays

\* Every step does one of these to each tab.
LEMMA StepMoves == ASSUME IInv, [Next]_vars PROVE \A s \in Tabs : Moves(s)
  <1>1. CASE UNCHANGED vars
    BY <1>1, TabsStay DEF vars, tabs
  <1>2. ASSUME NEW t \in Tabs, NEW k \in Refreshers,
               Acquire(t, k) \/ Rotate(t, k) \/ RefreshFails(t, k)
        PROVE  \A s \in Tabs : Moves(s)
    BY <1>2, TabsStay DEF Acquire, Rotate, RefreshFails
  <1>3. ASSUME NEW t \in Tabs, NEW k \in Refreshers,
               Booted(t, k) \/ RefreshAnswered(t, k) \/ RefreshRefused(t, k)
        PROVE  \A s \in Tabs : Moves(s)
    <2> DEFINE n == task[t][k].arg
    <2>1. n \in Tokens \union {None} /\ k \in Kinds
      BY Here, KindsAre DEF TaskOf
    <2>2. \/ \E next : ClearSession(t, k, next)
          \/ n # None /\ \E next : Install(t, n, k, next)
      BY <1>3 DEF Booted, RefreshAnswered, RefreshRefused
    <2> HIDE DEF n
    <2> QED
      BY <2>1, <2>2, InstallMoves, ClearMoves
  <1>4. ASSUME NEW t \in Tabs, NEW k \in Kinds,
               LookAgain(t, k) \/ MeAnswered(t, k) \/ MeFails(t, k)
        PROVE  \A s \in Tabs : Moves(s)
    <2>1. CASE Unverified(t, k)
      BY <2>1, ClearMoves DEF Unverified
    <2>2. CASE UNCHANGED tabs
      BY <2>2, TabsStay
    <2>3. CASE MeAnswered(t, k) /\ ~Unverified(t, k)
      <3>1. /\ token[t] = task[t][k].seen /\ task[t][k].at = "me"
            /\ user' = [user EXCEPT ![t] = owner[task[t][k].seen]]
            /\ status' = [status EXCEPT ![t] = "authenticated"] /\ token' = token
        BY <2>3 DEF MeAnswered
      <3>2. token[t] # None
        BY <3>1, Here DEF TaskOf
      <3> QED
        BY <3>1, <3>2 DEF Moves, Shows, Stays, Turns, IInv, TypeOK
    <2> QED
      BY <1>4, <2>1, <2>2, <2>3 DEF LookAgain, MeFails
  <1>5. ASSUME NEW t \in Tabs, Hear(t) PROVE \A s \in Tabs : Moves(s)
    <2> DEFINE n == Head(inbox[t])
    <2>1. n \in Tokens \union {None}
      BY <1>5 DEF Hear, IInv, TypeOK
    <2>2. \/ \E next : ClearSession(t, "ear", next)
          \/ n # None /\ \E next : Install(t, n, "ear", next)
      BY <1>5 DEF Hear
    <2> HIDE DEF n
    <2> QED
      BY <2>1, <2>2, InstallMoves, ClearMoves
  <1>6. ASSUME NEW t \in Tabs, LoggedOut(t) PROVE \A s \in Tabs : Moves(s)
    BY <1>6, ClearMoves DEF LoggedOut
  <1>7. ASSUME NEW t \in Tabs, NEW u \in Users, Login(t, u) \/ OAuthReturn(t, u)
        PROVE  \A s \in Tabs : Moves(s)
    BY <1>7, FreshIs, InstallMoves, LoadMoves DEF Login, OAuthReturn
  <1>8. ASSUME NEW t \in Tabs, Reload(t) PROVE \A s \in Tabs : Moves(s)
    BY <1>8, LoadMoves DEF Reload
  <1>9. ASSUME NEW t \in Tabs, ProfileSaved(t) PROVE \A s \in Tabs : Moves(s)
    <2>1. CASE user' = user
      BY <1>9, <2>1, TabsStay DEF ProfileSaved, tabs
    <2>2. CASE user' # user
      <3>1. /\ user' = [user EXCEPT ![t] = owner[task[t]["save"].arg]] /\ t \in Savers
            /\ task[t]["save"].arg # None /\ task[t]["save"].arg \in Known(owner)
            /\ token' = token /\ status' = status
        BY <1>9, <2>2, Here, KindsAre DEF ProfileSaved, TaskOf
      <3>2. owner[task[t]["save"].arg] \in Users
        BY <3>1 DEF Known, IInv, TypeOK
      <3> QED
        BY <3>1, <3>2 DEF Moves, Saves, Stays, Turns, IInv, TypeOK
    <2> QED
      BY <2>1, <2>2
  <1>10. ASSUME NEW t \in Tabs,
                RevokeAtLogout(t) \/ Unauthorized(t) \/ Logout(t) \/ SaveProfile(t)
         PROVE  \A s \in Tabs : Moves(s)
    BY <1>10, TabsStay DEF RevokeAtLogout, Unauthorized, Logout, SaveProfile
  <1> QED
    BY <1>1, <1>2, <1>3, <1>4, <1>5, <1>6, <1>7, <1>8, <1>9, <1>10 DEF Next, Step

\* What is done to a tab is what TabSession allows: a tab that shows a customer shows
\* the same one when a check of its token ends.
LEMMA MovesAsTab ==
  ASSUME IInv, TokenIsShown, NEW t \in Tabs, Moves(t)
  PROVE  /\ token'[t] # None => status'[t] # "anonymous"
         /\ [Tab(t)!TabNext]_<<status[t], user[t]>>
  <1>1. CASE Stays(t) \/ Turns(t, None, "anonymous", NoUser) \/ Turns(t, None, "loading", NoUser)
    BY <1>1 DEF Stays, Turns, TokenIsShown, Tab!TabNext, Tab!Cleared, Tab!Loaded
  <1>2. ASSUME NEW n \in Tokens,
               Turns(t, n, IF token[t] = n THEN status[t] ELSE "loading", user[t])
        PROVE  /\ token'[t] # None => status'[t] # "anonymous"
               /\ [Tab(t)!TabNext]_<<status[t], user[t]>>
    BY <1>2 DEF Turns, TokenIsShown, Tab!TabNext, Tab!Installed
  <1>3. CASE Shows(t)
    <2>1. owner[token[t]] \in Users
      BY <1>3, Here DEF Shows, Known, IInv, TypeOK
    <2>2. status[t] \in {"loading", "authenticated"}
      BY <1>3 DEF Shows, TokenIsShown, IInv, TypeOK
    <2>3. CASE status[t] = "loading"
      <3>1. Tab(t)!Verified(owner[token[t]])
        BY <1>3, <2>3 DEF Shows, Turns, Tab!Verified
      <3> QED
        BY <1>3, <2>1, <3>1 DEF Shows, Turns, Tab!TabNext
    <2>4. CASE status[t] = "authenticated" /\ t \notin Savers
      BY <1>3, <2>4 DEF Shows, Turns, IInv, ShowsTokenOwner
    <2>5. CASE status[t] = "authenticated" /\ t \in Savers
      <3>1. Tab(t)!ProfileSaved(owner[token[t]])
        BY <1>3, <2>5 DEF Shows, Turns, Tab!ProfileSaved
      <3> QED
        BY <1>3, <2>1, <3>1 DEF Shows, Turns, Tab!TabNext
    <2> QED
      BY <2>2, <2>3, <2>4, <2>5
  <1>4. ASSUME t \in Savers, NEW u \in Users, Turns(t, token[t], status[t], u)
        PROVE  /\ token'[t] # None => status'[t] # "anonymous"
               /\ [Tab(t)!TabNext]_<<status[t], user[t]>>
    <2>1. Tab(t)!ProfileSaved(u)
      BY <1>4 DEF Turns, Tab!ProfileSaved
    <2> QED
      BY <1>4, <2>1 DEF Turns, TokenIsShown, Tab!TabNext
  <1> QED
    BY <1>1, <1>2, <1>3, <1>4 DEF Moves, Saves

\* In any number of tabs, the session that the pages of each see moves as TabSession says:
\* no refresh, announcement, login or late answer turns one account into another but
\* through loading, where no profile is saved.
THEOREM TabsKeepTheContract == Spec => ImplementsTab
  <1> DEFINE Moving == \A t \in Tabs : [Tab(t)!TabNext]_<<status[t], user[t]>>
             Born  == \A t \in Tabs : Tab(t)!TabInit
  <1>1. Init => TokenIsShown /\ Born
    <2> SUFFICES ASSUME Init PROVE TokenIsShown /\ Born
      OBVIOUS
    <2>1. (CHOOSE v \in Users : TRUE) \in Users
      BY SessionAssumption
    <2> QED
      BY <2>1 DEF Init, TokenIsShown, Tab!TabInit
  <1>2. IInv /\ TokenIsShown /\ [Next]_vars => TokenIsShown' /\ [Moving]_vars
    <2> SUFFICES ASSUME IInv, TokenIsShown, [Next]_vars PROVE TokenIsShown' /\ Moving
      OBVIOUS
    <2>1. \A t \in Tabs : Moves(t)
      BY StepMoves
    <2> QED
      BY <2>1, MovesAsTab DEF TokenIsShown
  <1> QED
    BY <1>1, <1>2, SessionInvariant, PTL DEF Spec, ImplementsTab
=============================================================================
