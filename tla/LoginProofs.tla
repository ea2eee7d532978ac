----------------------------- MODULE LoginProofs -----------------------------
(***************************************************************************)
(* Theorems about Login, for any accounts, login screens and number of     *)
(* sign-ins at once.                                                       *)
(***************************************************************************)
EXTENDS Login, TLAPS

-----------------------------------------------------------------------------
(* Type correctness.                                                       *)

(* Every step keeps the types.                                             *)
LEMMA TypeStep ==
    ASSUME TypeOK, [Next]_vars
    PROVE  TypeOK'
<1> USE DEF TypeOK, defaults, window, services, history
<1>1. CASE UNCHANGED vars
  BY <1>1 DEF vars
<1>2. CASE Screens
  <2> USE DEF Idle, Attempt, Stages, Services, loggingWithTouchId
  <2>1. ASSUME presentCurrentUserUI,
               UNCHANGED <<defaults, services, orphaned>>
        PROVE  TypeOK'
    BY <2>1 DEF presentCurrentUserUI, Root, ShowLogin, Fresh, Running
  <2>2. ASSUME End
        PROVE  TypeOK'
    BY <2>2 DEF End, Running
  <2>3. ASSUME ShowLogin, UNCHANGED <<user, touchID, services>>,
               loggedIn' \in BOOLEAN, orphaned' \in BOOLEAN
        PROVE  TypeOK'
    BY <2>3 DEF ShowLogin, Root, Fresh, Running
  <2>4. CASE Launch
    BY <2>1, <2>4 DEF Launch
  <2>5. CASE OpenSearch
    BY <2>1, <2>5 DEF OpenSearch
  <2>6. CASE Kill
    BY <2>2, <2>6 DEF Kill
  <2>7. CASE OpenCard
    BY <2>2, <2>3, <2>7 DEF OpenCard
  <2>8. CASE GoNext
    BY <2>8 DEF GoNext, Home
  <2>9. CASE TouchSucceeded
    BY <2>9 DEF TouchSucceeded, Home
  <2>10. CASE TouchFailed
    BY <2>10 DEF TouchFailed
  <2>11. CASE AlertOk
    BY <2>11 DEF AlertOk
  <2>12. CASE LogOut
    BY <2>3, <2>12 DEF LogOut
  <2>13. CASE touchIdSwitched
    BY <2>13 DEF touchIdSwitched
  <2> QED
    BY <1>2, <2>4, <2>5, <2>6, <2>7, <2>8, <2>9, <2>10, <2>11, <2>12, <2>13
    DEF Screens
<1>3. CASE SigningIn
  <2> PICK r \in Attempts :
        \/ \E s \in Services : signIn(s, r)
        \/ PresentSheet(r) \/ DismissSheet(r)
        \/ Refused(r) \/ Granted(r)
        \/ FetchFailed(r) \/ FetchSilent(r)
        \/ \E a \in Accounts : FetchDone(r, a)
    BY <1>3 DEF SigningIn
  <2>1. \A stage \in Stages : At(r, stage) => attempts' \in [Attempts -> Attempt]
    BY DEF At, Attempt
  <2>2. /\ {"none", "asking", "sheet", "closed", "fetching"} \subseteq Stages
        /\ Google \in Services /\ Facebook \in Services
        /\ attempts[r].by \in Services
    BY DEF Stages, Services, Attempt
  <2>3. CASE \E s \in Services : signIn(s, r)
    BY <2>2, <2>3 DEF signIn, Attempt, Running
  <2>4. CASE PresentSheet(r)
    BY <2>1, <2>2, <2>4 DEF PresentSheet
  <2>5. CASE DismissSheet(r)
    BY <2>1, <2>2, <2>5 DEF DismissSheet
  <2>6. CASE Refused(r)
    BY <2>1, <2>2, <2>6 DEF Refused, Failed
  <2>7. CASE Granted(r)
    BY <2>1, <2>2, <2>7 DEF Granted
  <2>8. CASE FetchFailed(r)
    BY <2>1, <2>2, <2>8 DEF FetchFailed, Failed
  <2>9. CASE FetchSilent(r)
    BY <2>1, <2>2, <2>9 DEF FetchSilent
  <2>10. CASE \E a \in Accounts : FetchDone(r, a)
    BY <2>1, <2>2, <2>10 DEF FetchDone, Succeeded, Home
  <2> QED
    BY <2>3, <2>4, <2>5, <2>6, <2>7, <2>8, <2>9, <2>10
<1> QED
  BY <1>1, <1>2, <1>3 DEF Next

\* Every variable keeps its type.
THEOREM LoginTypeCorrect == Spec => []TypeOK
<1>1. ASSUME Init
      PROVE  TypeOK
  <2>1. Idle \in Attempt
    BY DEF Idle, Attempt, Stages, Services
  <2> QED
    BY <1>1, <2>1 DEF Init, TypeOK
<1> QED
  BY <1>1, TypeStep, PTL DEF Spec

-----------------------------------------------------------------------------
(* One sign-in at a time.                                                  *)

\* The root and its login screen go together.
LoginRoot == login # None <=> root = "login"

\* While sign-ins do not overlap there is one at most, isLoggedIn is set as
\* long as it runs, and neither Home nor a screen before it is open then.
Alone ==
    ~overlapped =>
        /\ \A q, r \in Attempts : Runs(q) /\ Runs(r) => q = r
        /\ Running => root = "login" /\ loggedIn /\ over # "home"
        /\ root \in {"start", "touch"} => loggedIn
        /\ over = "home" => opened = user /\ loggedIn

LoginInv == TypeOK /\ LoginRoot /\ Alone

\* A new root: sign-ins under way count as overlapping from now on.
LEMMA RootStep ==
    ASSUME TypeOK, UNCHANGED attempts,
           \/ presentCurrentUserUI /\ UNCHANGED loggedIn
           \/ ShowLogin
    PROVE  LoginRoot' /\ Alone'
<1>1. Running' = Running /\ over' = "nothing" /\ overlapped' = Running
  BY DEF presentCurrentUserUI, ShowLogin, Root, Running, Runs
<1>2. LoginRoot'
  BY LoginNone
  DEF presentCurrentUserUI, ShowLogin, Root, LoginRoot, Fresh
<1>3. root' \in {"start", "touch"} => loggedIn'
  BY DEF presentCurrentUserUI, ShowLogin, Root
<1>4. ~Running' => \A r \in Attempts : ~Runs(r)'
  BY DEF Running
<1> QED
  BY <1>1, <1>2, <1>3, <1>4 DEF Alone

\* Ending sign-in r, which is alone unless sign-ins overlap.
LEMMA EndStep ==
    ASSUME TypeOK, Alone, NEW r \in Attempts, Runs(r), At(r, "none"),
           UNCHANGED overlapped
    PROVE  ~overlapped' => /\ ~Running'
                           /\ \A q \in Attempts : ~Runs(q)'
                           /\ root = "login" /\ loggedIn /\ over # "home"
<1> SUFFICES ASSUME ~overlapped
             PROVE  /\ \A q \in Attempts : ~Runs(q)'
                    /\ root = "login" /\ loggedIn /\ over # "home"
  BY DEF Running
<1>1. Running
  BY DEF Running
<1>2. ASSUME NEW q \in Attempts
      PROVE  ~Runs(q)'
  <2>1. CASE q = r
    BY <2>1 DEF At, Runs, TypeOK
  <2>2. CASE q # r
    BY <2>2 DEF At, Runs, TypeOK, Alone
  <2> QED
    BY <2>1, <2>2
<1> QED
  BY <1>1, <1>2 DEF Alone

(* A sign-in under way has the login screen to itself.                     *)
LEMMA AloneStep ==
    ASSUME LoginInv, [Next]_vars
    PROVE  LoginRoot' /\ Alone'
<1> USE DEF LoginInv
<1>1. CASE UNCHANGED vars
  BY <1>1 DEF vars, defaults, window, services, history, LoginRoot, Alone,
              Running, Runs
<1>2. CASE Screens
  <2>1. ASSUME End
        PROVE  LoginRoot' /\ Alone'
    <3>1. \A r \in Attempts : ~Runs(r)'
      BY <2>1 DEF End, Idle, Runs
    <3> QED
      BY <2>1, <3>1 DEF End, LoginRoot, Alone, Running
  <2>2. ASSUME UNCHANGED <<attempts, overlapped, loggedIn, user, root, login>>,
               \/ Home(user) /\ root \in {"start", "touch"}
               \/ over' # "home"
               \/ UNCHANGED <<over, opened>>
        PROVE  LoginRoot' /\ Alone'
    BY <2>2 DEF LoginRoot, Alone, Running, Runs, Home
  <2>3. CASE Launch
    BY <2>3, RootStep DEF Launch, defaults, services
  <2>4. CASE OpenSearch
    BY <2>4, RootStep DEF OpenSearch, defaults, services
  <2>5. CASE Kill
    BY <2>1, <2>5 DEF Kill
  <2>6. CASE OpenCard
    BY <2>1, <2>6, RootStep DEF OpenCard, services
  <2>7. CASE GoNext
    BY <2>2, <2>7 DEF GoNext, defaults, services, history
  <2>8. CASE TouchSucceeded
    BY <2>2, <2>8 DEF TouchSucceeded, defaults, services, history
  <2>9. CASE TouchFailed
    BY <2>2, <2>9 DEF TouchFailed, defaults, services, history
  <2>10. CASE AlertOk
    BY <2>2, <2>10 DEF AlertOk, defaults, services, history
  <2>11. CASE LogOut
    BY <2>11, RootStep DEF LogOut, services
  <2>12. CASE touchIdSwitched
    BY <2>2, <2>12 DEF touchIdSwitched, window, services, history
  <2> QED
    BY <1>2, <2>3, <2>4, <2>5, <2>6, <2>7, <2>8, <2>9, <2>10, <2>11, <2>12
    DEF Screens
<1>3. CASE SigningIn
  <2> PICK r \in Attempts :
        \/ \E s \in Services : signIn(s, r)
        \/ PresentSheet(r) \/ DismissSheet(r)
        \/ Refused(r) \/ Granted(r)
        \/ FetchFailed(r) \/ FetchSilent(r)
        \/ \E a \in Accounts : FetchDone(r, a)
    BY <1>3 DEF SigningIn
  <2>1. CASE \E s \in Services : signIn(s, r)
    <3> PICK s \in Services : signIn(s, r)
      BY <2>1
    <3>1. ~Running => \A q \in Attempts : q # r => ~Runs(q)'
      BY DEF signIn, Running, Runs, TypeOK
    <3>2. UNCHANGED <<root, login, over, opened, user>> /\ loggedIn'
      BY DEF signIn, window
    <3>3. root = "login" /\ over = "nothing" /\ overlapped' = (overlapped \/ Running)
      BY DEF signIn
    <3> QED
      BY <3>1, <3>2, <3>3 DEF LoginRoot, Alone
  <2>2. ASSUME NEW stage, At(r, stage), Runs(r), stage # "none",
               UNCHANGED <<defaults, root, login, overlapped>>,
               over' # "home" \/ UNCHANGED <<over, opened>>
        PROVE  LoginRoot' /\ Alone'
    <3>1. \A q \in Attempts : Runs(q)' <=> Runs(q)
      BY <2>2 DEF At, Runs, TypeOK
    <3>2. Running' = Running
      BY <3>1 DEF Running
    <3> QED
      BY <2>2, <3>1, <3>2 DEF LoginRoot, Alone, defaults
  <2>3. ASSUME At(r, "none"), Runs(r), UNCHANGED <<root, login, overlapped>>,
               \/ over' # "home"
               \/ UNCHANGED over
               \/ loggedIn' = loggedIn /\ opened' = user'
        PROVE  LoginRoot' /\ Alone'
    BY <2>3, EndStep DEF LoginRoot, Alone
  <2>4. CASE PresentSheet(r)
    <3>1. over' = r /\ over' # "home" /\ Runs(r)
      BY <2>4, LoginOver DEF PresentSheet, Runs
    <3> QED
      BY <2>2, <2>4, <3>1 DEF PresentSheet, history
  <2>5. CASE DismissSheet(r)
    BY <2>2, <2>5 DEF DismissSheet, history, Runs
  <2>6. CASE Refused(r)
    BY <2>3, <2>6 DEF Refused, Failed, Runs
  <2>7. CASE Granted(r)
    BY <2>2, <2>7 DEF Granted, window, history, Runs
  <2>8. CASE FetchFailed(r)
    BY <2>3, <2>8 DEF FetchFailed, Failed, Runs
  <2>9. CASE FetchSilent(r)
    BY <2>3, <2>9 DEF FetchSilent, window, Runs
  <2>10. ASSUME NEW a \in Accounts, FetchDone(r, a)
         PROVE  LoginRoot' /\ Alone'
    <3>1. UNCHANGED over \/ (opened' = user' /\ loggedIn' = loggedIn)
      BY <2>10 DEF FetchDone, Succeeded, Home, Held
    <3> QED
      BY <2>3, <2>10, <3>1 DEF FetchDone, Runs
  <2> QED
    BY <2>1, <2>4, <2>5, <2>6, <2>7, <2>8, <2>9, <2>10
<1> QED
  BY <1>1, <1>2, <1>3 DEF Next

\* The strengthening of OneSignInAtATime holds at every moment.
LEMMA LoginInvariant == Spec => []LoginInv
<1>1. ASSUME Init
      PROVE  LoginRoot /\ Alone
  BY <1>1 DEF Init, LoginRoot, Alone, Running, Runs, Idle
<1>2. LoginInv /\ [Next]_vars => LoginRoot' /\ Alone'
  BY AloneStep
<1> QED
  BY <1>1, <1>2, LoginTypeCorrect, PTL DEF Spec, LoginInv

\* As long as sign-ins are made one at a time, Home shows the saved user's cards
\* and the app knows that somebody is logged in.
THEOREM OneAtATime == Spec => []OneSignInAtATime
<1>1. LoginInv => OneSignInAtATime
  BY DEF LoginInv, Alone, OneSignInAtATime
<1> QED
  BY <1>1, LoginInvariant, PTL

-----------------------------------------------------------------------------
(* The flag without a user.                                                *)

(* isLoggedIn is set for a user or for a sign-in under way.                *)
LEMMA FlagStep ==
    ASSUME TypeOK, FlagHasOwner, [Next]_vars
    PROVE  FlagHasOwner'
<1>1. ASSUME UNCHANGED <<user, attempts>>, loggedIn' => loggedIn,
             orphaned' = orphaned \/ ~loggedIn'
      PROVE  FlagHasOwner'
  BY <1>1 DEF FlagHasOwner, Running, Runs
<1>2. CASE UNCHANGED vars
  BY <1>1, <1>2 DEF vars, defaults, services, history
<1>3. CASE Screens
  <2>1. ASSUME End
        PROVE  FlagHasOwner'
    BY <2>1 DEF End, defaults, FlagHasOwner
  <2> QED
    BY <1>1, <1>3, <2>1
    DEF Screens, Launch, OpenSearch, Kill, OpenCard, GoNext, TouchSucceeded,
        TouchFailed, AlertOk, LogOut, touchIdSwitched, defaults, services,
        history
<1>4. CASE SigningIn
  <2> PICK r \in Attempts :
        \/ \E s \in Services : signIn(s, r)
        \/ PresentSheet(r) \/ DismissSheet(r)
        \/ Refused(r) \/ Granted(r)
        \/ FetchFailed(r) \/ FetchSilent(r)
        \/ \E a \in Accounts : FetchDone(r, a)
    BY <1>4 DEF SigningIn
  <2>1. ASSUME NEW s, NEW stage, stage # "none",
               \/ At(r, stage)
               \/ attempts' = [attempts EXCEPT ![r] = [by |-> s, stage |-> stage]]
        PROVE  FlagHasOwner'
    <3>1. attempts'[r].stage = stage
      BY <2>1 DEF At, TypeOK, Attempt
    <3> QED
      BY <2>1, <3>1 DEF FlagHasOwner, Running, Runs
  <2>2. CASE Refused(r) \/ FetchFailed(r)
    BY <2>2 DEF Refused, FetchFailed, Failed, FlagHasOwner
  <2>3. CASE FetchSilent(r)
    BY <2>3 DEF FetchSilent, FlagHasOwner
  <2>4. CASE \E a \in Accounts : FetchDone(r, a)
    BY <2>4, LoginNone DEF FetchDone, Succeeded, FlagHasOwner
  <2> QED
    BY <2>1, <2>2, <2>3, <2>4
    DEF signIn, PresentSheet, DismissSheet, Granted
<1> QED
  BY <1>2, <1>3, <1>4 DEF Next

\* isLoggedIn stands without any user ever saved only during a sign-in, or after
\* one that ended without telling anybody.
THEOREM FlagOwned == Spec => []LoginTrue
<1>1. Init => FlagHasOwner
  BY DEF Init, FlagHasOwner
<1>2. TypeOK /\ FlagHasOwner => LoginTrue
  BY DEF LoginTrue
<1> QED
  BY <1>1, <1>2, FlagStep, LoginTypeCorrect, PTL DEF Spec

-----------------------------------------------------------------------------
(* Login implements Session.                                               *)

(* Every step is one that Session allows, or none.                         *)
LEMMA SessionStep ==
    ASSUME LoginInv, [Next]_vars
    PROVE  [SignIn!Next]_SignIn!vars
<1> DEFINE home == IF over = "home" THEN "open"
                   ELSE IF root \in {"start", "touch"} THEN "opening"
                   ELSE "closed"
<1>1. ASSUME UNCHANGED <<user, loggedIn>>, home' = home, Running' = Running
      PROVE  UNCHANGED SignIn!vars
  BY <1>1 DEF SignIn!vars
<1>2. ASSUME UNCHANGED attempts
      PROVE  Running' = Running
  BY <1>2 DEF Running, Runs
<1>3. CASE UNCHANGED vars
  BY <1>1, <1>2, <1>3 DEF vars, defaults, window, services
<1>4. CASE Screens
  <2>1. ASSUME presentCurrentUserUI, UNCHANGED <<user, loggedIn, attempts>>
        PROVE  SignIn!Show
    BY <1>2, <2>1
    DEF presentCurrentUserUI, ShowLogin, Root, SignIn!Show
  <2>2. ASSUME End
        PROVE  SignIn!Quit
    <3>1. ~Running'
      BY <2>2 DEF End, Running, Runs, Idle
    <3> QED
      BY <2>2, <3>1 DEF End, SignIn!Quit, defaults
  <2>3. CASE Launch \/ OpenSearch
    BY <2>1, <2>3 DEF Launch, OpenSearch, defaults, services, SignIn!Next
  <2>4. CASE Kill
    BY <2>2, <2>4 DEF Kill, SignIn!Next
  <2>5. CASE OpenCard
    <3>1. CASE ~loggedIn /\ ShowLogin /\ UNCHANGED <<defaults, services>>
      BY <2>1, <3>1 DEF presentCurrentUserUI, defaults, services, SignIn!Next
    <3> QED
      BY <2>2, <2>5, <3>1 DEF OpenCard, SignIn!Next
  <2>6. CASE GoNext \/ TouchSucceeded
    <3>1. home = "opening" /\ home' = "open"
      BY <2>6 DEF GoNext, TouchSucceeded, Home
    <3> QED
      BY <1>2, <2>6, <3>1
      DEF GoNext, TouchSucceeded, defaults, services, SignIn!Open, SignIn!Next
  <2>7. CASE TouchFailed \/ AlertOk \/ touchIdSwitched
    BY <1>1, <1>2, <2>7
    DEF TouchFailed, AlertOk, touchIdSwitched, defaults, window, services
  <2>8. CASE LogOut
    BY <1>2, <2>8
    DEF LogOut, ShowLogin, Root, services, SignIn!LogOut, SignIn!Next
  <2> QED
    BY <1>4, <2>3, <2>4, <2>5, <2>6, <2>7, <2>8 DEF Screens
<1>5. CASE SigningIn
  <2> PICK r \in Attempts :
        \/ \E s \in Services : signIn(s, r)
        \/ PresentSheet(r) \/ DismissSheet(r)
        \/ Refused(r) \/ Granted(r)
        \/ FetchFailed(r) \/ FetchSilent(r)
        \/ \E a \in Accounts : FetchDone(r, a)
    BY <1>5 DEF SigningIn
  <2>1. attempts \in [Attempts -> Attempt] /\ r # "home"
    BY LoginOver DEF LoginInv, TypeOK
  <2>2. ASSUME NEW stage, stage # "none", Runs(r), At(r, stage)
        PROVE  Running' = Running
    BY <2>1, <2>2 DEF At, Running, Runs
  <2>3. Running' \in BOOLEAN
    BY DEF Running
  <2>4. CASE \E s \in Services : signIn(s, r)
    <3>1. Running'
      BY <2>1, <2>4 DEF signIn, Running, Runs
    <3>2. home = "closed" /\ home' = home /\ loggedIn' = TRUE /\ user' = user
      BY <2>4 DEF signIn, window
    <3> QED
      BY <3>1, <3>2 DEF SignIn!Begin, SignIn!Next
  <2>5. CASE PresentSheet(r)
    <3>1. home' = home
      BY <2>1, <2>5 DEF PresentSheet
    <3> QED
      BY <1>1, <2>2, <2>5, <3>1 DEF PresentSheet, defaults, Runs
  <2>6. CASE DismissSheet(r)
    <3>1. home' = home
      BY <2>1, <2>6 DEF DismissSheet
    <3> QED
      BY <1>1, <2>2, <2>6, <3>1 DEF DismissSheet, defaults, Runs
  <2>7. CASE Granted(r)
    BY <1>1, <2>2, <2>7 DEF Granted, defaults, window, Runs
  <2>8. CASE Refused(r) \/ FetchFailed(r)
    <3>1. Running /\ home' = home /\ loggedIn' = FALSE /\ user' = user
      BY <2>8 DEF Refused, FetchFailed, Failed, Running, Runs
    <3> QED
      BY <2>3, <3>1 DEF SignIn!Fail, SignIn!Next
  <2>9. ASSUME Running, UNCHANGED <<user, loggedIn>>, home' = home
        PROVE  [SignIn!Next]_SignIn!vars
    <3>1. CASE Running'
      BY <1>1, <2>9, <3>1 DEF Running
    <3>2. CASE ~Running'
      BY <2>9, <3>2 DEF SignIn!Vanish, SignIn!Next, Running
    <3> QED
      BY <3>1, <3>2
  <2>10. CASE FetchSilent(r)
    BY <2>9, <2>10 DEF FetchSilent, defaults, window, Running, Runs
  <2>11. ASSUME NEW a \in Accounts, FetchDone(r, a)
         PROVE  [SignIn!Next]_SignIn!vars
    <3> DEFINE i == target[attempts[r].by]
    <3>1. Running /\ loggedIn' = loggedIn /\ root' = root
      BY <2>11 DEF FetchDone, Running, Runs
    <3>2. CASE i # None /\ Held(i)
      <4>1. user' = a
        BY <2>11, <3>2 DEF FetchDone, Succeeded
      <4>2. home' = home \/ (home = "closed" /\ home' = "open")
        BY <2>11, <3>1 DEF FetchDone, Succeeded, Home, LoginInv, LoginRoot
      <4> QED
        BY <2>3, <3>1, <4>1, <4>2 DEF SignIn!Succeed, SignIn!Next
    <3>3. CASE ~(i # None /\ Held(i))
      <4>1. user' = user /\ home' = home
        BY <2>11, <3>1, <3>3 DEF FetchDone, Succeeded, Held
      <4> QED
        BY <2>9, <3>1, <4>1
    <3> QED
      BY <3>2, <3>3
  <2> QED
    BY <2>4, <2>5, <2>6, <2>7, <2>8, <2>10, <2>11
<1> QED
  BY <1>3, <1>4, <1>5 DEF Next

\* The saved user, isLoggedIn and Home change only as Session allows, for any
\* number of overlapping sign-ins.
THEOREM LoginKeepsSession == Spec => SessionKept
<1>1. ASSUME Init
      PROVE  SignIn!Init
  <2>1. ~Running
    BY <1>1 DEF Init, Running, Runs, Idle
  <2> QED
    BY <1>1, <2>1 DEF Init, SignIn!Init
<1> QED
  BY <1>1, SessionStep, LoginInvariant, PTL DEF Spec, SessionKept, SignIn!Spec

=============================================================================
