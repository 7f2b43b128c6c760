----------------------------- MODULE TabSession -----------------------------
(***************************************************************************)
(* The session store of one tab as its pages see it: the contract between  *)
(* the refreshing, announcing and verifying of tokens (StoreSession, which *)
(* implements it) and the cart and the checkout, which run beside it       *)
(* (StoreCart, StoreCheckout).                                             *)
(*                                                                         *)
(* While a token is loading the user of the one before is still in the     *)
(* store.                                                                  *)
(***************************************************************************)
CONSTANTS
  Users,   \* accounts that sign in in the tab
  NoUser,  \* nobody
  saves    \* does a customer save the profile in this tab?

VARIABLES status, user

session == <<status, user>>

TabInit ==
  \/ status = "loading" /\ user = NoUser
  \/ status = "anonymous" /\ user = NoUser
  \/ status = "authenticated" /\ user \in Users

\* A token that is not the tab's.
Installed == status' = "loading" /\ user' = user

\* getMe answered for the token of the tab.
Verified(u) ==
  /\ status = "loading"
  /\ status' = "authenticated" /\ user' = u

\* Nobody is signed in, or no longer.
Cleared == status' = "anonymous" /\ user' = NoUser

\* The page is loaded anew.
Loaded == status' = "loading" /\ user' = NoUser

\* setUser, which compares no token.
ProfileSaved(u) == saves /\ status' = status /\ user' = u

TabNext ==
  \/ Installed \/ Cleared \/ Loaded
  \/ \E u \in Users : Verified(u) \/ ProfileSaved(u)

TabSpec == TabInit /\ [][TabNext]_session
=============================================================================
