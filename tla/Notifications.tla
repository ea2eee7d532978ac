--------------------------- MODULE Notifications ---------------------------
(***************************************************************************)
(* The reminder of CardGuru: LocalNotifications.swift, with the switch of  *)
(* PreferencesTableViewController that turns it on and off.                *)
(*                                                                         *)
(* The switch asks iOS for the permission, saves its state and sends a     *)
(* reminder, without waiting for the answer; the answer comes on a queue   *)
(* of its own and, if the switch is on by then, sends it again.  Every     *)
(* request has the same identifier, so that one replaces the other.        *)
(***************************************************************************)
EXTENDS Integers, FiniteSets

CONSTANTS
    Asks,      \* the calls of requestAuthorization that may be open at once
    Below      \* bound: how far below zero the badge is counted

NotificationsAssumption == Below \in Nat \ {0}

VARIABLES
    app,         \* "front", "back" (running, not on display) or "off"
    switch,      \* notificationSwitched: "idle", "registered", "saved"
    turnedOn,    \* isNotificationsTurnedOn, in UserDefaults
    delegate,    \* center.delegate is set
    permission,  \* "undetermined", "granted", "denied"
    badges,      \* the user lets the app set a badge
    ask,         \* ask[a]: "none", "asked", "on" (its completion has read the switch)
    pending,     \* the request waits for its trigger
    delivered,   \* the notification is on display or in the notification centre
    response,    \* an action the user chose, on its way: "none", "snooze", "dismiss"
    badge,       \* applicationIconBadgeNumber
    (* history *)
    accepted,    \* iOS took a request since the switch was last turned on
    excused,     \* the app ended, or Settings were changed, since then
    crossed      \* a reminder came without its badge, or the badge was set while an
                 \* action was on its way

vars == <<app, switch, turnedOn, delegate, permission, badges, ask, pending,
          delivered, response, badge, accepted, excused, crossed>>

\* The types of the switch, the request, the badge and the history.
TypeOK ==
    /\ app \in {"front", "back", "off"}
    /\ switch \in {"idle", "registered", "saved"}
    /\ permission \in {"undetermined", "granted", "denied"}
    /\ ask \in [Asks -> {"none", "asked", "on"}]
    /\ response \in {"none", "snooze", "dismiss"}
    /\ badge \in -Below .. 1
    /\ {turnedOn, delegate, badges, pending, delivered, accepted, excused, crossed}
          \subseteq BOOLEAN

Init ==
    /\ app = "off" /\ switch = "idle" /\ response = "none"
    /\ turnedOn = FALSE /\ delegate = FALSE /\ pending = FALSE /\ delivered = FALSE
    /\ permission = "undetermined" /\ badges = TRUE
    /\ ask = [a \in Asks |-> "none"]
    /\ badge = 0
    /\ accepted = FALSE /\ excused = FALSE /\ crossed = FALSE

-----------------------------------------------------------------------------
(* The app.                                                                *)

\* center.add: the request replaces the one that waits under its identifier.
\* Without the permission iOS may refuse it.
sendNotification ==
    \/ pending' = TRUE /\ accepted' = TRUE
    \/ permission # "granted" /\ UNCHANGED <<pending, accepted>>

\* Resetting the badge takes what was delivered off the notification centre.
resetBadge ==
    /\ badge' = 0
    /\ delivered' = FALSE
    /\ crossed' = (crossed \/ response # "none")

\* notificationSwitched, on: it registers, saves and sends, while the completion of the
\* request for the permission may run on another queue.
registerLocalNotifications(a) ==
    /\ app = "front" /\ switch = "idle" /\ ~turnedOn
    /\ ask[a] = "none"
    /\ switch' = "registered"
    /\ delegate' = TRUE
    /\ resetBadge
    /\ ask' = [ask EXCEPT ![a] = "asked"]
    /\ accepted' = FALSE /\ excused' = FALSE
    /\ UNCHANGED <<app, turnedOn, permission, badges, pending, response>>

SaveOn ==
    /\ switch = "registered"
    /\ switch' = "saved"
    /\ turnedOn' = TRUE
    /\ UNCHANGED <<app, delegate, permission, badges, ask, pending, delivered, response,
                   badge, accepted, excused, crossed>>

SwitchSends ==
    /\ switch = "saved"
    /\ switch' = "idle"
    /\ sendNotification
    /\ UNCHANGED <<app, turnedOn, delegate, permission, badges, ask, delivered, response,
                   badge, excused, crossed>>

\* notificationSwitched, off: what was sent is left alone.
SwitchOff ==
    /\ app = "front" /\ switch = "idle" /\ turnedOn
    /\ turnedOn' = FALSE
    /\ UNCHANGED <<app, switch, delegate, permission, badges, ask, pending, delivered,
                   response, badge, accepted, excused, crossed>>

\* Mutant: the completion does not look at the switch.
AnswerAlwaysSends(a) ==
    /\ ask[a] = "asked"
    /\ permission' \in IF permission = "undetermined" THEN {"granted", "denied"}
                                                      ELSE {permission}
    /\ ask' = [ask EXCEPT ![a] = IF permission' = "granted" THEN "on" ELSE "none"]
    /\ UNCHANGED <<app, switch, turnedOn, delegate, badges, pending, delivered, response,
                   badge, accepted, excused, crossed>>

\* Mutant: the completion leaves the sending to the switch.
AnswerNeverSends(a) ==
    /\ ask[a] = "asked"
    /\ permission' \in IF permission = "undetermined" THEN {"granted", "denied"}
                                                      ELSE {permission}
    /\ ask' = [ask EXCEPT ![a] = "none"]
    /\ UNCHANGED <<app, switch, turnedOn, delegate, badges, pending, delivered, response,
                   badge, accepted, excused, crossed>>

\* The completion of requestAuthorization; the user is asked the first time only.
Answer(a) ==
    /\ ask[a] = "asked"
    /\ permission' \in IF permission = "undetermined" THEN {"granted", "denied"}
                                                      ELSE {permission}
    /\ ask' = [ask EXCEPT ![a] = IF permission' = "granted" /\ turnedOn
                                 THEN "on" ELSE "none"]
    /\ UNCHANGED <<app, switch, turnedOn, delegate, badges, pending, delivered, response,
                   badge, accepted, excused, crossed>>

AnswerSends(a) ==
    /\ ask[a] = "on"
    /\ ask' = [ask EXCEPT ![a] = "none"]
    /\ sendNotification
    /\ UNCHANGED <<app, switch, turnedOn, delegate, permission, badges, delivered,
                   response, badge, excused, crossed>>

\* didReceive: both buttons count the badge down, "snooze" sends the reminder again.
didReceive ==
    /\ app # "off" /\ switch = "idle" /\ response # "none"
    /\ badge' = badge - 1
    /\ IF response = "snooze" THEN sendNotification ELSE UNCHANGED <<pending, accepted>>
    /\ response' = "none"
    /\ UNCHANGED <<app, switch, turnedOn, delegate, permission, badges, ask, delivered,
                   excused, crossed>>

-----------------------------------------------------------------------------
(* iOS and the user.                                                       *)

\* The trigger fires.  On display, the app's delegate lets the notification be shown;
\* without one it is not shown.  The content's badge is a number, not an increment.
Deliver ==
    /\ pending
    /\ pending' = FALSE
    /\ IF permission = "granted" /\ (app # "front" \/ delegate)
       THEN /\ delivered' = TRUE
            /\ badge' = IF badges THEN 1 ELSE badge
            /\ crossed' = (crossed \/ ~badges \/ response # "none")
       ELSE UNCHANGED <<delivered, badge, crossed>>
    /\ UNCHANGED <<app, switch, turnedOn, delegate, permission, badges, ask, response,
                   accepted, excused>>

\* A button of the notification.  An app that was not running is launched for it, and has
\* no delegate to be told.
Press(button) ==
    /\ delivered /\ response = "none" /\ badge > -Below
    /\ delivered' = FALSE
    /\ response' = IF delegate THEN button ELSE "none"
    /\ app' = IF app = "off" THEN "back" ELSE app
    /\ UNCHANGED <<switch, turnedOn, delegate, permission, badges, ask, pending, badge,
                   accepted, excused, crossed>>

\* Tapped, which opens the app and reports an action that didReceive ignores, or cleared.
Discard(front) ==
    /\ delivered
    /\ delivered' = FALSE
    /\ app' = IF front THEN "front" ELSE app
    /\ UNCHANGED <<switch, turnedOn, delegate, permission, badges, ask, pending,
                   response, badge, accepted, excused, crossed>>

\* The app is opened (no handler of a launch touches the reminder), or left.
Show(to) ==
    /\ app # to /\ switch = "idle"
    /\ to = "front" \/ app = "front"
    /\ app' = to
    /\ UNCHANGED <<switch, turnedOn, delegate, permission, badges, ask, pending,
                   delivered, response, badge, accepted, excused, crossed>>

\* iOS ends the app, or the user does: completions and actions on their way are lost.
Kill ==
    /\ app # "off"
    /\ app' = "off" /\ switch' = "idle" /\ delegate' = FALSE /\ response' = "none"
    /\ ask' = [a \in Asks |-> "none"]
    /\ excused' = TRUE
    /\ UNCHANGED <<turnedOn, permission, badges, pending, delivered, badge, accepted,
                   crossed>>

\* The Settings app, while CardGuru is not on display.
Settings ==
    /\ app # "front" /\ permission # "undetermined"
    /\ permission' \in {"granted", "denied"}
    /\ badges' \in BOOLEAN
    /\ <<permission', badges'>> # <<permission, badges>>
    /\ excused' = TRUE
    /\ UNCHANGED <<app, switch, turnedOn, delegate, ask, pending, delivered, response,
                   badge, accepted, crossed>>

Next ==
    \/ \E a \in Asks : registerLocalNotifications(a) \/ Answer(a) \/ AnswerSends(a)
    \/ SaveOn \/ SwitchSends \/ SwitchOff \/ didReceive
    \/ Deliver
    \/ \E b \in {"snooze", "dismiss"} : Press(b)
    \/ \E front \in BOOLEAN : Discard(front)
    \/ \E to \in {"front", "back"} : Show(to)
    \/ Kill \/ Settings

Spec == Init /\ [][Next]_vars

-----------------------------------------------------------------------------
(* Properties.                                                             *)

\* A reminder on display has its badge, and so has an action on its way; the badge is
\* counted below zero (didReceive subtracts without looking) only after a reminder came
\* without a badge, or the badge was set while an action was on its way.
BadgeTells ==
    crossed \/ /\ badge >= 0
               /\ delivered \/ response # "none" => badge = 1

\* With the switch on, the permission granted and nothing under way, iOS took a request
\* since the switch was turned on: of the switch's own reminder, sent before the user
\* could answer, and the one of the answer, which looks at a switch that may not be saved
\* yet, one arrives.  Not so if the app ended in between or the Settings were changed.
OnMeansReminded ==
    /\ turnedOn /\ permission = "granted" /\ switch = "idle" /\ ~excused
    /\ \A a \in Asks : ask[a] = "none"
    => accepted

Quiet ==
    /\ ~turnedOn /\ ~pending /\ ~delivered
    /\ switch = "idle" /\ response = "none"
    /\ \A a \in Asks : ask[a] # "on"

\* Once the reminder is off and the last one is gone, no answer that comes late brings one
\* back: only the switch does.
OffStaysQuiet == [][Quiet => Quiet' \/ switch' = "registered"]_vars
=============================================================================
