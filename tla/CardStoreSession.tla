-------------------------- MODULE CardStoreSession ---------------------------
(* The session actions of CardStore implement Session.                     *)
EXTENDS CardStore

SignIn == INSTANCE Session WITH
    flag <- loggedIn,
    home <- IF screen \in HomeScreens THEN "open" ELSE "closed",
    pending <- away \/ screen = "signing"

\* Whatever happens to cards, lists and pictures, the saved user, isLoggedIn and
\* Home change only as signing in and out allow: the part of the login code
\* CardStore abstracts keeps the promise that Login, its full model, keeps.
SessionKept == SignIn!Spec
=============================================================================
