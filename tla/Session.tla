------------------------------- MODULE Session -------------------------------
(***************************************************************************)
(* What signing in promises, without screens and services: the saved user  *)
(* changes only through a sign-in begun in this run of the app, the flag   *)
(* isLoggedIn is set only by beginning one and cleared only by one that    *)
(* fails or by logging out, and Home opens only on the flag or at the end  *)
(* of a sign-in.  Login implements it, and so do the session actions of    *)
(* CardStore, which abstract the same code (CardStoreSession).             *)
(***************************************************************************)
CONSTANTS Accounts, None

VARIABLES
    user,      \* the saved user
    flag,      \* isLoggedIn
    home,      \* "closed", "opening" or "open"
    pending    \* a sign-in is running

vars == <<user, flag, home, pending>>

Init == user = None /\ flag = FALSE /\ home = "closed" /\ pending = FALSE

\* The root is chosen: Home, perhaps behind a screen of its own, or the login.
Show ==
    /\ home' \in IF flag THEN {"opening", "open"} ELSE {"closed"}
    /\ UNCHANGED <<user, flag, pending>>

\* The screen before Home is passed.
Open ==
    /\ home = "opening"
    /\ home' = "open"
    /\ UNCHANGED <<user, flag, pending>>

Begin ==
    /\ home = "closed"
    /\ flag' = TRUE
    /\ pending' = TRUE
    /\ UNCHANGED <<user, home>>

\* A sign-in succeeds and leads to Home, or succeeds too late for that.
Succeed(a) ==
    /\ pending
    /\ user' = a
    /\ \/ home = "closed" /\ home' = "open"
       \/ UNCHANGED home
    /\ pending' \in BOOLEAN
    /\ UNCHANGED flag

Fail ==
    /\ pending
    /\ flag' = FALSE
    /\ pending' \in BOOLEAN
    /\ UNCHANGED <<user, home>>

\* A sign-in ends and nobody is told.
Vanish ==
    /\ pending
    /\ pending' = FALSE
    /\ UNCHANGED <<user, flag, home>>

LogOut ==
    /\ home = "open"
    /\ flag' = FALSE
    /\ home' = "closed"
    /\ UNCHANGED <<user, pending>>

\* The app ends, and every sign-in with it.
Quit ==
    /\ home' = "closed"
    /\ pending' = FALSE
    /\ UNCHANGED <<user, flag>>

Next ==
    \/ Show \/ Open \/ Begin \/ Fail \/ Vanish \/ LogOut \/ Quit
    \/ \E a \in Accounts : Succeed(a)

Spec == Init /\ [][Next]_vars
=============================================================================
