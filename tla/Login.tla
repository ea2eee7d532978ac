-------------------------------- MODULE Login --------------------------------
(***************************************************************************)
(* Signing in to CardGuru: the two login services, LoginViewController,    *)
(* the Touch ID gate, what UserDefaults keeps across launches, and the     *)
(* root view controllers AppDelegate chooses from it.                      *)
(*                                                                         *)
(* A sign-in is a chain of completions that nothing cancels: not a second  *)
(* sign-in, not a failure of another one, not a new root.  Each service    *)
(* looks up its one completion when it needs it, so an old sign-in calls   *)
(* the completion of a newer one; the completion holds its login screen    *)
(* weakly, the service may hold it strongly as its presenter.              *)
(***************************************************************************)
EXTENDS Naturals

CONSTANTS
    Accounts,   \* the users there are
    Logins,     \* the login screens: objects, used again when nobody has them
    Attempts,   \* sign-ins: used again when they have ended
    None        \* nil

ASSUME LoginNone == None \notin Accounts \cup Logins
ASSUME LoginOver == Attempts \cap {"nothing", "alert", "home"} = {}

VARIABLES
    user,        \* UserDefaults: the User saved, or None
    loggedIn,    \* UserDefaults: isLoggedIn
    touchID,     \* UserDefaults: isTouchIDEnabled
    root,        \* the root view controller of the window
    login,       \* the login screen that is the root, or None
    over,        \* what the root presents; a sign-in stands for its sheet
    opened,      \* the user Home was opened for, or None
    gate,        \* "asking": Touch ID is being evaluated
    target,      \* the login screen each service's completion is for
    presenter,   \* the login screen each service holds
    attempts,    \* the sign-ins, by service and stage
    overlapped,  \* history: since the root was chosen, sign-ins overlapped
    orphaned     \* history: a sign-in ended and its user was told nothing

defaults == <<user, loggedIn, touchID>>
window == <<root, login, over, opened, gate>>
services == <<target, presenter, attempts>>
history == <<overlapped, orphaned>>
vars == <<defaults, window, services, history>>

Google == "Google"
Facebook == "Facebook"
Services == {Google, Facebook}
Stages == {"none", "asking", "sheet", "closed", "fetching"}
Attempt == [by : Services, stage : Stages]
Idle == [by |-> Google, stage |-> "none"]

Runs(r) == attempts[r].stage # "none"
Running == \E r \in Attempts : Runs(r)

\* The login screen i exists: it is the root, or a service holds it.
Held(i) == i = login \/ \E s \in Services : presenter[s] = i

\* The login screens a new one can be: nobody refers to them any more.
Fresh == {i \in Logins : \A s \in Services : i \notin {target[s], presenter[s]}}

At(r, stage) == attempts' = [attempts EXCEPT ![r].stage = stage]

Init ==
    /\ user = None /\ loggedIn = FALSE /\ touchID = FALSE
    /\ root = "off" /\ login = None /\ over = "nothing" /\ opened = None
    /\ gate = "idle"
    /\ target = [s \in Services |-> None]
    /\ presenter = [s \in Services |-> None]
    /\ attempts = [r \in Attempts |-> Idle]
    /\ overlapped = FALSE /\ orphaned = FALSE

-----------------------------------------------------------------------------
(* The root of the window.                                                 *)

\* The window shows nothing but the root r, and the login screen i if that is it.
Root(r, i) ==
    /\ root' = r /\ login' = i
    /\ over' = "nothing" /\ opened' = None
    /\ overlapped' = Running

ShowLogin == \E i \in Fresh : Root("login", i) /\ gate' = "idle"

\* loggingWithTouchId: without a policy to evaluate nothing is ever answered.
loggingWithTouchId == gate' \in {"asking", "idle"}

presentCurrentUserUI ==
    IF loggedIn
    THEN IF touchID THEN Root("touch", None) /\ loggingWithTouchId
                    ELSE Root("start", None) /\ gate' = "idle"
    ELSE ShowLogin

Launch ==
    /\ root = "off"
    /\ presentCurrentUserUI
    /\ UNCHANGED <<defaults, services, orphaned>>

\* The shortcut "Search card" at any time makes a new window.
OpenSearch ==
    /\ root # "off"
    /\ presentCurrentUserUI
    /\ UNCHANGED <<defaults, services, orphaned>>

\* The process is gone; UserDefaults stay.
End ==
    /\ root' = "off" /\ login' = None /\ over' = "nothing" /\ opened' = None
    /\ gate' = "idle"
    /\ target' = [s \in Services |-> None]
    /\ presenter' = [s \in Services |-> None]
    /\ attempts' = [r \in Attempts |-> Idle]
    /\ overlapped' = FALSE
    /\ orphaned' = (orphaned \/ Running)
    /\ UNCHANGED defaults

Kill == root # "off" /\ End

\* The shortcuts "Add card" and "last card", and cardguru://: for a user who is
\* logged in, the storyboard is asked for a controller it does not have, which
\* ends the app.
OpenCard ==
    /\ root # "off"
    /\ \/ loggedIn /\ End
       \/ ~loggedIn /\ ShowLogin /\ UNCHANGED <<defaults, services, orphaned>>

-----------------------------------------------------------------------------
(* The screens before Home.                                                *)

\* Home is presented over the root; its viewDidLoad reads the user u.
Home(u) == over' = "home" /\ opened' = u

\* The start screen goes on by itself.
GoNext ==
    /\ root = "start" /\ over = "nothing"
    /\ Home(user)
    /\ UNCHANGED <<defaults, root, login, gate, services, history>>

TouchSucceeded ==
    /\ root = "touch" /\ over = "nothing" /\ gate = "asking"
    /\ Home(user)
    /\ gate' = "idle"
    /\ UNCHANGED <<defaults, root, login, services, history>>

\* The reply of evaluatePolicy is not on the main queue: the alert it presents
\* may or may not appear.
TouchFailed ==
    /\ root = "touch" /\ over = "nothing" /\ gate = "asking"
    /\ gate' = "idle"
    /\ over' \in {"alert", "nothing"}
    /\ UNCHANGED <<defaults, root, login, opened, services, history>>

AlertOk ==
    /\ over = "alert"
    /\ over' = "nothing"
    /\ IF root = "touch" THEN loggingWithTouchId ELSE UNCHANGED gate
    /\ UNCHANGED <<defaults, root, login, opened, services, history>>

-----------------------------------------------------------------------------
(* Signing in.                                                             *)

\* The buttons can be pressed while nothing covers the login screen, whatever
\* is still running.  isLoggedIn is saved before there is an outcome.
signIn(s, r) ==
    /\ root = "login" /\ over = "nothing"
    /\ ~Runs(r)
    /\ target' = [target EXCEPT ![s] = login]
    /\ presenter' = [presenter EXCEPT ![s] = login]
    /\ attempts' = [attempts EXCEPT ![r] = [by |-> s, stage |-> "asking"]]
    /\ loggedIn' = TRUE
    /\ overlapped' = (overlapped \/ Running)
    /\ UNCHANGED <<user, touchID, window, orphaned>>

\* Google's sheet is presented if its presenter is on display and uncovered.
PresentSheet(r) ==
    /\ attempts[r] = [by |-> Google, stage |-> "asking"]
    /\ root = "login" /\ over = "nothing" /\ presenter[Google] = login
    /\ over' = r
    /\ At(r, "sheet")
    /\ UNCHANGED <<defaults, root, login, opened, gate, target, presenter,
                   history>>

DismissSheet(r) ==
    /\ attempts[r].stage = "sheet"
    /\ presenter' = [presenter EXCEPT ![Google] = None]
    /\ over' = IF over = r THEN "nothing" ELSE over
    /\ At(r, "closed")
    /\ UNCHANGED <<defaults, root, login, opened, gate, target, history>>

\* Mutants: the flag stays; the saved user is forgotten with the flag.
FailedKeepingFlag(s) ==
    /\ over' = IF target[s] = login /\ login # None /\ over = "nothing"
               THEN "alert" ELSE over
    /\ orphaned' = FALSE
    /\ UNCHANGED <<user, loggedIn>>
FailedForgetting(s) ==
    /\ over' = IF target[s] = login /\ login # None /\ over = "nothing"
               THEN "alert" ELSE over
    /\ loggedIn' = FALSE
    /\ user' = None
    /\ orphaned' = FALSE

\* The completion of service s is called with an error: the flag is cleared
\* even when the login screen is gone, the alert needs it uncovered.
Failed(s) ==
    /\ over' = IF target[s] = login /\ login # None /\ over = "nothing"
               THEN "alert" ELSE over
    /\ loggedIn' = FALSE
    /\ orphaned' = FALSE
    /\ UNCHANGED user

\* Mutant: the segue is performed before the user is saved.
SucceededSegueFirst(s, a) ==
    /\ user' = IF target[s] # None /\ Held(target[s]) THEN a ELSE user
    /\ orphaned' = (orphaned \/ target[s] = None \/ ~Held(target[s]))
    /\ IF target[s] = login /\ login # None /\ over = "nothing"
       THEN Home(user)
       ELSE UNCHANGED <<over, opened>>

\* The completion of service s is called with the user a: nothing happens when
\* the login screen is gone, and no segue when it is covered or replaced.
Succeeded(s, a) ==
    /\ user' = IF target[s] # None /\ Held(target[s]) THEN a ELSE user
    /\ orphaned' = (orphaned \/ target[s] = None \/ ~Held(target[s]))
    /\ IF target[s] = login /\ login # None /\ over = "nothing"
       THEN Home(a)
       ELSE UNCHANGED <<over, opened>>

\* The service itself answers: an error, or nothing was granted.
Refused(r) ==
    /\ attempts[r].stage \in {"asking", "closed"}
    /\ At(r, "none")
    /\ Failed(attempts[r].by)
    /\ UNCHANGED <<touchID, root, login, opened, gate, target, presenter,
                   overlapped>>

\* The service has signed the user in; now Firebase, or Facebook's graph, is
\* asked who it is.
Granted(r) ==
    /\ attempts[r].stage \in {"asking", "closed"}
    /\ At(r, "fetching")
    /\ UNCHANGED <<defaults, window, target, presenter, history>>

\* Only Facebook's request hands its error on.
FetchFailed(r) ==
    /\ attempts[r] = [by |-> Facebook, stage |-> "fetching"]
    /\ At(r, "none")
    /\ Failed(Facebook)
    /\ UNCHANGED <<touchID, root, login, opened, gate, target, presenter,
                   overlapped>>

\* No name, no e-mail address, or Firebase's error: no completion is called.
FetchSilent(r) ==
    /\ attempts[r].stage = "fetching"
    /\ At(r, "none")
    /\ orphaned' = TRUE
    /\ UNCHANGED <<defaults, window, target, presenter, overlapped>>

FetchDone(r, a) ==
    /\ attempts[r].stage = "fetching"
    /\ At(r, "none")
    /\ Succeeded(attempts[r].by, a)
    /\ UNCHANGED <<loggedIn, touchID, root, login, gate, target, presenter,
                   overlapped>>

-----------------------------------------------------------------------------
(* The settings.                                                           *)

\* Both services sign out; sign-ins still running are not cancelled.
LogOut ==
    /\ over = "home"
    /\ loggedIn' = FALSE
    /\ orphaned' = FALSE
    /\ ShowLogin
    /\ UNCHANGED <<user, touchID, services>>

touchIdSwitched ==
    /\ over = "home"
    /\ touchID' = ~touchID
    /\ UNCHANGED <<user, loggedIn, window, services, history>>

-----------------------------------------------------------------------------
Screens ==
    \/ Launch \/ OpenSearch \/ Kill \/ OpenCard
    \/ GoNext \/ TouchSucceeded \/ TouchFailed \/ AlertOk
    \/ LogOut \/ touchIdSwitched

SigningIn ==
    \E r \in Attempts :
        \/ \E s \in Services : signIn(s, r)
        \/ PresentSheet(r) \/ DismissSheet(r)
        \/ Refused(r) \/ Granted(r)
        \/ FetchFailed(r) \/ FetchSilent(r)
        \/ \E a \in Accounts : FetchDone(r, a)

Next == Screens \/ SigningIn

Spec == Init /\ [][Next]_vars

-----------------------------------------------------------------------------
(* Properties.                                                             *)

\* The types of the defaults, the window, the two services and the sign-ins.
TypeOK ==
    /\ user \in Accounts \cup {None}
    /\ loggedIn \in BOOLEAN /\ touchID \in BOOLEAN
    /\ root \in {"off", "start", "touch", "login"}
    /\ login \in Logins \cup {None}
    /\ over \in {"nothing", "alert", "home"} \cup Attempts
    /\ opened \in Accounts \cup {None}
    /\ gate \in {"idle", "asking"}
    /\ target \in [Services -> Logins \cup {None}]
    /\ presenter \in [Services -> Logins \cup {None}]
    /\ attempts \in [Attempts -> Attempt]
    /\ overlapped \in BOOLEAN /\ orphaned \in BOOLEAN

\* As long as sign-ins are made one at a time, the user whose cards Home shows
\* is the one the database calls will write for, and the app will know next
\* time that somebody is logged in.
OneSignInAtATime ==
    over = "home" /\ ~overlapped => opened = user /\ loggedIn

\* isLoggedIn stands without any user ever saved only during a sign-in, or
\* after one that ended without telling anybody.
FlagHasOwner ==
    loggedIn /\ user = None => Running \/ orphaned

\* The defaults and the screens are what they should be, the flag included.
LoginTrue == TypeOK /\ FlagHasOwner

SignIn == INSTANCE Session WITH
    flag <- loggedIn,
    home <- IF over = "home" THEN "open"
            ELSE IF root \in {"start", "touch"} THEN "opening" ELSE "closed",
    pending <- Running

\* Overlapping sign-ins, vanished login screens, alerts and kills included, the
\* saved user, isLoggedIn and Home change only as Session allows.
SessionKept == SignIn!Spec
=============================================================================
