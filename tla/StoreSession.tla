---------------------------- MODULE StoreSession ----------------------------
(***************************************************************************)
(* One browser of a customer: its tabs, the refresh cookie they share, and *)
(* the refresh tokens of the server.                                       *)
(*                                                                         *)
(* A tab keeps its access token in memory and shows a user only after      *)
(* GET /auth/me answered for that token.  Tokens are renewed by rotating   *)
(* the cookie, under a Web Lock that all tabs share, and are broadcast to  *)
(* the other tabs.  The server answers a token that was rotated before as  *)
(* a theft, and revokes every session of its user.                         *)
(***************************************************************************)
EXTENDS Naturals, Sequences

CONSTANTS
  Tabs,        \* the tabs of the store in one browser
  Users,       \* accounts that sign in from it
  NoUser,      \* no account
  Savers,      \* the tabs in which a customer saves the profile
  Tokens,      \* bound: refresh tokens, each with the access token issued with it
  None,        \* no token
  Nobody,      \* the Web Lock is free
  MaxEvents    \* bound: logins, logouts, expired tokens and page loads

ASSUME SessionAssumption ==
  /\ Tabs # {} /\ Users # {} /\ Tokens # {}
  /\ Savers \subseteq Tabs
  /\ MaxEvents \in Nat
  /\ NoUser \notin Users
  /\ None \notin Tokens
  /\ Nobody \notin Tabs \X {"boot", "page"}

\* What runs in a tab: the bootstrap of the provider, a second refresh (of the
\* OAuth callback page or of a request answered 401), a login or a logout, the
\* check of a token another tab announced, and the saving of the profile.
Kinds == {"boot", "page", "form", "ear", "save"}
Refreshers == {"boot", "page"}

Points == {"idle", "queued", "sent", "answered", "me", "resolved", "leaving", "left",
           "saving"}

\* A task: where it is, what it carries, the token it looked at, whether the
\* tab's token changed since (tokenRevision), what the check is for, and whether
\* it is a bootstrap.
Idle == [at |-> "idle", arg |-> None, seen |-> None, moved |-> FALSE,
         for |-> "none", boot |-> FALSE]
Queued(stale, boot) == [Idle EXCEPT !.at = "queued", !.arg = stale, !.boot = boot]

VARIABLES
  owner,     \* [Tokens -> Users or NoUser]: who a token was issued to
  live,      \* refresh tokens that are not revoked
  cause,     \* [Tokens -> why a token was revoked]
  cookie,    \* the refresh cookie of the browser
  token,     \* [Tabs -> Tokens or None]: accessToken of api-client.ts
  user,      \* [Tabs -> user of the session store]
  status,    \* [Tabs -> status of the session store]
  task,      \* [Tabs -> [Kinds -> task]]
  lock,      \* who holds the Web Lock
  inbox,     \* [Tabs -> announcements not yet heard]
  lost,      \* did the answer to a rotation get lost?
  events     \* events so far

server == <<owner, live, cause>>
tabs == <<token, user, status>>
vars == <<owner, live, cause, cookie, token, user, status, task, lock, inbox,
          lost, events>>

TaskType ==
  [at : Points, arg : Tokens \union {None} , seen : Tokens \union {None},
   moved : BOOLEAN, for : {"none", "rotated", "reused", "booted", "form", "ear"},
   boot : BOOLEAN]

TypeOK ==
  /\ owner \in [Tokens -> Users \union {NoUser}]
  /\ live \subseteq Tokens
  /\ cause \in [Tokens -> {"none", "rotated", "logout", "alarm"}]
  /\ cookie \in Tokens \union {None}
  /\ token \in [Tabs -> Tokens \union {None}]
  /\ user \in [Tabs -> Users \union {NoUser}]
  /\ status \in [Tabs -> {"loading", "authenticated", "anonymous"}]
  /\ task \in [Tabs -> [Kinds -> TaskType]]
  /\ lock \in (Tabs \X Refreshers) \union {Nobody}
  /\ inbox \in [Tabs -> Seq(Tokens \union {None})]
  /\ lost \in BOOLEAN
  /\ events \in 0 .. MaxEvents

Loading(boot) == [k \in Kinds |-> IF k = "boot" THEN boot ELSE Idle]

\* A customer has signed in in one tab; the others were loaded before, when nobody
\* was, and a login is not announced.
Init ==
  LET u == CHOOSE v \in Users : TRUE
      t == CHOOSE v \in Tabs : TRUE
      n == CHOOSE m \in Tokens : TRUE
  IN /\ owner = [m \in Tokens |-> IF m = n THEN u ELSE NoUser]
     /\ token = [s \in Tabs |-> IF s = t THEN n ELSE None]
     /\ user = [s \in Tabs |-> IF s = t THEN u ELSE NoUser]
     /\ status = [s \in Tabs |-> IF s = t THEN "authenticated" ELSE "anonymous"]
     /\ live = {n}
     /\ cookie = n
     /\ cause = [m \in Tokens |-> "none"]
     /\ task = [s \in Tabs |-> [k \in Kinds |-> Idle]]
     /\ lock = Nobody
     /\ inbox = [s \in Tabs |-> << >>]
     /\ lost = FALSE
     /\ events = 0

--------------------------------------------------------------------------
\* What a step does to its tab.

\* tokenRevision + 1: whatever compares it later in the tab can tell.
Touch(ts) ==
  [k \in Kinds |-> [ts[k] EXCEPT !.moved = (ts[k].at \in {"queued", "me"})]]

\* postMessage: the other tabs get n, or None for a logout.
Publish(t, n) ==
  inbox' = [s \in Tabs |-> IF s = t THEN inbox[s] ELSE Append(inbox[s], n)]

\* Mutant: the user of the last token is shown while the next one is verified.
InstallStaysShown(t, n, k, next) ==
  /\ token' = [token EXCEPT ![t] = n]
  /\ status' = [status EXCEPT ![t] = IF @ = "authenticated" THEN @ ELSE "loading"]
  /\ user' = user
  /\ task' = [task EXCEPT ![t] =
       [(IF token[t] = n THEN @ ELSE Touch(@)) EXCEPT ![k] = next]]

\* setStoreAccessToken in task k, which goes on as `next`.
Install(t, n, k, next) ==
  /\ token' = [token EXCEPT ![t] = n]
  /\ status' = [status EXCEPT ![t] = IF token[t] = n THEN @ ELSE "loading"]
  /\ user' = user
  /\ task' = [task EXCEPT ![t] =
       [(IF token[t] = n THEN @ ELSE Touch(@)) EXCEPT ![k] = next]]

\* clearStoreSession in task k, which goes on as `next`.
ClearSession(t, k, next) ==
  /\ token' = [token EXCEPT ![t] = None]
  /\ status' = [status EXCEPT ![t] = "anonymous"]
  /\ user' = [user EXCEPT ![t] = NoUser]
  /\ task' = [task EXCEPT ![t] = [Touch(@) EXCEPT ![k] = next]]

\* Task k of tab t goes on, and the tab stays as it is.
Goes(t, k, next) == task' = [task EXCEPT ![t][k] = next]

Release(t, k) == lock' = IF lock = <<t, k>> THEN Nobody ELSE lock

\* A check of token n that waits for getMe.
Checking(n, for, arg, boot) ==
  [at |-> "me", arg |-> arg, seen |-> n, moved |-> FALSE, for |-> for, boot |-> boot]

\* Task me is over: a refresh resolves with a token, or with none, to the bootstrap
\* that waits for it; anything else is done.
Over(me, n) ==
  IF me.boot /\ me.for # "booted" THEN [Idle EXCEPT !.at = "resolved", !.arg = n] ELSE Idle

\* The tab's token is verified: a refresh that rotated answers with its own token.
Then(me, current) == Over(me, IF me.for = "rotated" THEN me.arg ELSE current)
--------------------------------------------------------------------------
\* The server.

\* The tokens not issued yet, and the next one.
Unissued == {n \in Tokens : owner[n] = NoUser}
Fresh == CHOOSE n \in Unissued : TRUE

Revoke(S, why) ==
  /\ live' = live \ S
  /\ cause' = [n \in Tokens |-> IF n \in S THEN why ELSE cause[n]]

\* rotate_refresh_token: the atomic update revokes a live token and a new one is
\* issued; a token that was revoked before revokes every session of its owner.
Rotate(t, k) ==
  LET c == task[t][k].arg IN
  /\ task[t][k].at = "sent"
  /\ \/ /\ c \in live
        /\ Unissued # {}
        /\ live' = (live \ {c}) \union {Fresh}
        /\ cause' = [cause EXCEPT ![c] = "rotated"]
        /\ owner' = [owner EXCEPT ![Fresh] = owner[c]]
        /\ Goes(t, k, [task[t][k] EXCEPT !.at = "answered", !.arg = Fresh])
     \/ /\ c \notin live
        /\ IF c = None THEN UNCHANGED <<live, cause>>
           ELSE Revoke({n \in live : owner[n] = owner[c]}, "alarm")
        /\ Goes(t, k, [task[t][k] EXCEPT !.at = "answered", !.arg = None])
        /\ UNCHANGED owner
  /\ UNCHANGED <<cookie, tabs, lock, inbox, lost, events>>

\* revoke_refresh_token, for the cookie the logout was sent with.
RevokeAtLogout(t) ==
  /\ task[t]["form"].at = "leaving"
  /\ Revoke({task[t]["form"].arg} \ {None}, "logout")
  /\ Goes(t, "form", [task[t]["form"] EXCEPT !.at = "left"])
  /\ UNCHANGED <<owner, cookie, tabs, lock, inbox, lost, events>>

--------------------------------------------------------------------------
\* Refreshing in a tab.

\* Mutant: every refresh is sent at once, without the Web Lock.
AcquireAlways(t, k) ==
  /\ task[t][k].at = "queued"
  /\ Goes(t, k, [task[t][k] EXCEPT !.at = "sent", !.arg = cookie, !.moved = FALSE])
  /\ UNCHANGED <<server, cookie, tabs, lock, inbox, lost, events>>

\* refreshStoreAccessToken gets the Web Lock.  A token that is not the stale one,
\* or that changed while it waited, is verified and used again.
Acquire(t, k) ==
  LET me == task[t][k] IN
  /\ me.at = "queued"
  /\ lock = Nobody
  /\ LET again == token[t] # None /\ (token[t] # me.arg \/ me.moved)
         check == Checking(token[t], "reused", None, me.boot)
     IN \/ /\ ~again
           /\ Goes(t, k, [me EXCEPT !.at = "sent", !.arg = cookie, !.moved = FALSE])
           /\ lock' = <<t, k>>
        \/ /\ again /\ status[t] # "authenticated"
           /\ Goes(t, k, check)
           /\ lock' = <<t, k>>
        \/ /\ again /\ status[t] = "authenticated"
           /\ Goes(t, k, Then(check, token[t]))
           /\ lock' = lock
  /\ UNCHANGED <<server, cookie, tabs, inbox, lost, events>>

\* requestRefresh gets a token: the browser keeps the new cookie, the tab installs
\* and announces the token, and verifies it before it gives the lock back.
RefreshAnswered(t, k) ==
  LET me == task[t][k] IN
  /\ me.at = "answered" /\ me.arg # None
  /\ cookie' = me.arg
  /\ Install(t, me.arg, k, Checking(me.arg, "rotated", me.arg, me.boot))
  /\ Publish(t, me.arg)
  /\ UNCHANGED <<server, lock, lost, events>>

\* 401: every tab is told to forget its session.
RefreshRefused(t, k) ==
  /\ task[t][k].at = "answered" /\ task[t][k].arg = None
  /\ ClearSession(t, k, Over(task[t][k], None))
  /\ Publish(t, None)
  /\ Release(t, k)
  /\ UNCHANGED <<server, cookie, lost, events>>

\* The request or its answer is lost, or the server is down: the refresh throws.
RefreshFails(t, k) ==
  /\ task[t][k].at \in {"sent", "answered"}
  /\ events < MaxEvents
  /\ events' = events + 1
  /\ Goes(t, k, Over(task[t][k], None))
  /\ lost' = (lost \/ (task[t][k].at = "answered" /\ task[t][k].arg # None))
  /\ Release(t, k)
  /\ UNCHANGED <<server, tabs, cookie, inbox>>

\* The lock's promise settles: bootstrapSession clears the tab, or installs the
\* token it was given, whatever happened to the tab in between, and verifies it.
Booted(t, k) ==
  LET n == task[t][k].arg IN
  /\ task[t][k].at = "resolved"
  /\ \/ n = None /\ ClearSession(t, k, Idle)
     \/ n # None /\ Install(t, n, k,
          IF token[t] = n /\ status[t] = "authenticated" THEN Idle
          ELSE Checking(n, "booted", None, TRUE))
  /\ UNCHANGED <<server, cookie, lock, inbox, lost, events>>

--------------------------------------------------------------------------
\* authenticateCurrentToken, in any task.

\* It ended badly: the tab's session is cleared, and announced as cleared by the
\* tab that rotated.
Unverified(t, k) ==
  /\ ClearSession(t, k, Over(task[t][k], None))
  /\ IF task[t][k].for = "rotated" THEN Publish(t, None) ELSE inbox' = inbox

\* The answer of getMe is for a token that was replaced meanwhile: the loop looks
\* at the tab again.
LookAgain(t, k) ==
  LET me == task[t][k] IN
  /\ me.at = "me" /\ me.moved
  /\ \/ token[t] = None /\ Unverified(t, k) /\ Release(t, k)
     \/ /\ token[t] # None /\ status[t] = "authenticated"
        /\ Goes(t, k, Then(me, token[t]))
        /\ Release(t, k)
        /\ UNCHANGED <<tabs, inbox>>
     \/ /\ token[t] # None /\ status[t] # "authenticated"
        /\ Goes(t, k, [me EXCEPT !.seen = token[t], !.moved = FALSE])
        /\ UNCHANGED <<tabs, lock, inbox>>
  /\ UNCHANGED <<server, cookie, lost, events>>

\* Mutant: whatever token the tab has by now, the answer is shown.
MeAnsweredLate(t, k) ==
  LET me == task[t][k] IN
  /\ me.at = "me" /\ token[t] # None
  /\ user' = [user EXCEPT ![t] = owner[me.seen]]
  /\ status' = [status EXCEPT ![t] = "authenticated"]
  /\ Goes(t, k, Then(me, token[t]))
  /\ Release(t, k)
  /\ UNCHANGED <<server, cookie, token, inbox, lost, events>>

\* It is for the tab's token: completeAuthentication shows the user.
MeAnswered(t, k) ==
  LET me == task[t][k] IN
  /\ me.at = "me" /\ ~me.moved
  /\ IF token[t] = me.seen
     THEN /\ user' = [user EXCEPT ![t] = owner[me.seen]]
          /\ status' = [status EXCEPT ![t] = "authenticated"]
          /\ Goes(t, k, Then(me, token[t]))
          /\ UNCHANGED <<token, inbox>>
     ELSE Unverified(t, k)
  /\ Release(t, k)
  /\ UNCHANGED <<server, cookie, lost, events>>

\* getMe is refused, or the server is down: there is no user to show.
MeFails(t, k) ==
  /\ task[t][k].at = "me" /\ ~task[t][k].moved
  /\ events < MaxEvents
  /\ events' = events + 1
  /\ Unverified(t, k)
  /\ Release(t, k)
  /\ UNCHANGED <<server, cookie, lost>>

\* Mutant: the token is installed and nobody verifies it.
HearOnly(t) ==
  /\ inbox[t] # << >>
  /\ inbox' = [inbox EXCEPT ![t] = Tail(@)]
  /\ IF Head(inbox[t]) = None THEN ClearSession(t, "ear", task[t]["ear"])
     ELSE Install(t, Head(inbox[t]), "ear", task[t]["ear"])
  /\ UNCHANGED <<server, cookie, lock, lost, events>>

\* The channel's listener.  A second announcement that comes while the first is
\* being verified is taken up by the loop that runs: two loops of a tab look at
\* the same token.
Hear(t) ==
  LET n == Head(inbox[t]) IN
  /\ inbox[t] # << >>
  /\ inbox' = [inbox EXCEPT ![t] = Tail(@)]
  /\ IF n = None THEN ClearSession(t, "ear", Touch(task[t])["ear"])
     ELSE Install(t, n, "ear",
            IF token[t] # n /\ task[t]["ear"].at = "idle"
            THEN Checking(n, "ear", None, FALSE)
            ELSE [task[t]["ear"] EXCEPT !.moved = (token[t] # n \/ @)])
  /\ UNCHANGED <<server, cookie, lock, lost, events>>

--------------------------------------------------------------------------
\* What customers do.

Event == events < MaxEvents /\ events' = events + 1

\* A request is answered 401: with the tab's token, or with one it had before.
Unauthorized(t) ==
  /\ Event
  /\ task[t]["page"].at = "idle"
  /\ \E stale \in {token[t], None} : Goes(t, "page", Queued(stale, FALSE))
  /\ UNCHANGED <<server, cookie, tabs, lock, inbox, lost>>

\* The password login: the server issues a token, which is installed in this tab
\* and announced to none.
Login(t, u) ==
  /\ Event
  /\ task[t]["form"].at = "idle"
  /\ status[t] # "authenticated"
  /\ Unissued # {}
  /\ owner' = [owner EXCEPT ![Fresh] = u]
  /\ live' = live \union {Fresh}
  /\ cookie' = Fresh
  /\ Install(t, Fresh, "form", Checking(Fresh, "form", None, FALSE))
  /\ UNCHANGED <<cause, lock, inbox, lost>>

\* The logout button, and the deletion of the account.
Logout(t) ==
  /\ Event
  /\ status[t] = "authenticated"
  /\ task[t]["form"].at = "idle"
  /\ Goes(t, "form", [Idle EXCEPT !.at = "leaving", !.arg = cookie])
  /\ UNCHANGED <<server, cookie, tabs, lock, inbox, lost>>

\* Its answer comes, or the request failed before or after the server saw it:
\* onSettled clears all tabs.
LoggedOut(t) ==
  /\ task[t]["form"].at \in {"leaving", "left"}
  /\ IF task[t]["form"].at = "left" THEN cookie' \in {None, cookie} ELSE UNCHANGED cookie
  /\ ClearSession(t, "form", Idle)
  /\ Publish(t, None)
  /\ UNCHANGED <<server, lock, lost, events>>

\* The profile, a consent or a verified phone number is saved, for the tab's token.
SaveProfile(t) ==
  /\ t \in Savers /\ status[t] = "authenticated"
  /\ task[t]["save"].at = "idle"
  /\ Goes(t, "save", [Idle EXCEPT !.at = "saving", !.arg = token[t]])
  /\ UNCHANGED <<server, cookie, tabs, lock, inbox, lost, events>>

\* Its answer is the account as saved: setUser shows it, whatever token the tab has
\* by now.  Or the request failed.
ProfileSaved(t) ==
  LET me == task[t]["save"] IN
  /\ t \in Savers /\ me.at = "saving"
  /\ \/ me.arg # None /\ user' = [user EXCEPT ![t] = owner[me.arg]]
     \/ user' = user
  /\ Goes(t, "save", Idle)
  /\ UNCHANGED <<server, cookie, token, status, lock, inbox, lost, events>>

\* The tab is loaded anew, by the customer or by the redirect of an OAuth provider.
Load(t, page) ==
  /\ token' = [token EXCEPT ![t] = None]
  /\ user' = [user EXCEPT ![t] = NoUser]
  /\ status' = [status EXCEPT ![t] = "loading"]
  /\ inbox' = [inbox EXCEPT ![t] = << >>]
  /\ task' = [task EXCEPT ![t] = [k \in Kinds |->
       CASE k = "boot" -> Queued(None, TRUE) [] k = "page" -> page [] OTHER -> Idle]]

\* In mid-flight: its tasks and its lock are gone, and a rotation's answer with
\* them, unless the browser had stored the cookie.
Reload(t) ==
  LET stored == {task[t][r].arg : r \in {q \in Refreshers :
                   task[t][q].at = "answered" /\ task[t][q].arg # None}}
  IN /\ Event
     /\ \/ cookie' \in stored /\ lost' = lost
        \/ cookie' = cookie /\ lost' = (lost \/ stored # {})
     /\ lock' = IF lock # Nobody /\ lock[1] = t THEN Nobody ELSE lock
     /\ Load(t, Idle)
     /\ UNCHANGED server

\* The callback page after an OAuth login: the redirect set a cookie, and the
\* provider and the page bootstrap at the same time.
OAuthReturn(t, u) ==
  /\ Event
  /\ status[t] = "anonymous"
  /\ \A k \in Kinds : task[t][k].at = "idle"
  /\ Unissued # {}
  /\ owner' = [owner EXCEPT ![Fresh] = u]
  /\ live' = live \union {Fresh}
  /\ cookie' = Fresh
  /\ Load(t, Queued(None, TRUE))
  /\ UNCHANGED <<cause, lock, lost>>

--------------------------------------------------------------------------
Step(t) ==
  \/ \E k \in Refreshers :
       \/ Acquire(t, k) \/ Rotate(t, k) \/ Booted(t, k)
       \/ RefreshAnswered(t, k) \/ RefreshRefused(t, k)
  \/ \E k \in Kinds : LookAgain(t, k) \/ MeAnswered(t, k)
  \/ RevokeAtLogout(t) \/ LoggedOut(t) \/ Hear(t)

Next ==
  \E t \in Tabs :
    \/ Step(t)
    \/ \E k \in Refreshers : RefreshFails(t, k)
    \/ \E k \in Kinds : MeFails(t, k)
    \/ Unauthorized(t) \/ Logout(t) \/ Reload(t)
    \/ SaveProfile(t) \/ ProfileSaved(t)
    \/ \E u \in Users : Login(t, u) \/ OAuthReturn(t, u)

Spec == Init /\ [][Next]_vars

\* Requests are answered, the Web Lock is given to a tab that waits, announcements
\* arrive.  No customer has to do anything.
FairSpec == Spec /\ \A t \in Tabs : WF_vars(Step(t))

--------------------------------------------------------------------------
\* A tab that says somebody is signed in has a token, and says whose it is, however
\* the logins, rotations and announcements of the other tabs fall between its
\* requests.  A tab that saves a profile may be wrong about whose.
ShowsTokenOwner ==
  \A t \in Tabs :
    status[t] = "authenticated" =>
      token[t] # None /\ (t \notin Savers => user[t] = owner[token[t]])

\* docs/reviews/repo-refactor-2026-07.md: a tab changes from one account to another
\* at the boundary of loading.  In no configuration: a tab that saves a profile may
\* change accounts without it.
SwitchesAtLoading ==
  [][\A t \in Tabs :
       status[t] = "authenticated" /\ status'[t] = "authenticated"
         => user'[t] = user[t]]_vars

Tab(t) == INSTANCE TabSession
  WITH saves <- (t \in Savers), status <- status[t], user <- user[t]

\* Whatever the tabs do to each other, the pages of each see a session that moves as
\* TabSession says, which is what the cart and the checkout are checked against: a
\* token is verified before a user is shown, and an account gives way to another
\* only through loading.
ImplementsTab ==
  /\ \A t \in Tabs : Tab(t)!TabInit
  /\ [][\A t \in Tabs : [Tab(t)!TabNext]_<<status[t], user[t]>>]_vars

\* The tabs of a browser never look like a thief to the server: no refresh is sent
\* with a cookie that was rotated already, as long as no answer to a rotation was
\* lost.
NeverReusesRotated ==
  \A t \in Tabs, k \in Refreshers :
    (task[t][k].at = "sent" /\ task[t][k].arg # None /\ ~lost)
      => cause[task[t][k].arg] # "rotated"

\* No tab stays at the loading screen, whatever was lost or announced meanwhile.
LoadingEnds == \A t \in Tabs : status[t] = "loading" ~> status[t] # "loading"
=============================================================================
