------------------------------- MODULE Device -------------------------------
(***************************************************************************)
(* What the app does with the device: the camera of the scanner, and what  *)
(* it leaves with iOS, the copies of the last card and the reminder.  They *)
(* share nothing, so in each behaviour one of them moves while the others  *)
(* are as they were installed.                                             *)
(***************************************************************************)
EXTENDS Scanner

CONSTANTS Cards, Blank,   \* LastCard's
          Asks, Below     \* Notifications'

VARIABLES app, shown, title, plist, groupName, groupImage, widget, label, picture, cut,
          failed, raced

copyVars == <<app, shown, title, plist, groupName, groupImage, widget, label, picture, cut,
              failed, raced>>
Copies == INSTANCE LastCard

ASSUME CopiesAssumption == Copies!LastCardAssumption

VARIABLES process, switch, turnedOn, center, permitted, badges, ask, pending, delivered,
          response, badge, accepted, excused, crossed

reminderVars == <<process, switch, turnedOn, center, permitted, badges, ask, pending,
                  delivered, response, badge, accepted, excused, crossed>>
Reminder == INSTANCE Notifications WITH
    app <- process, delegate <- center, permission <- permitted

ASSUME ReminderAssumption == Reminder!NotificationsAssumption

AllInit == Init /\ Copies!Init /\ Reminder!Init

AllNext ==
    \/ Copies!Init /\ Reminder!Init /\ Next /\ UNCHANGED <<copyVars, reminderVars>>
    \/ Init /\ Reminder!Init /\ Copies!Next /\ UNCHANGED <<vars, reminderVars>>
    \/ Init /\ Copies!Init /\ Reminder!Next /\ UNCHANGED <<vars, copyVars>>

AllSpec == AllInit /\ [][AllNext]_<<vars, copyVars, reminderVars>>

-----------------------------------------------------------------------------
(* Properties.                                                             *)

\* The copies of the last card: title, file and widget agree (LastCard).
CopiesTrue ==
    Copies!TypeOK /\ Copies!CopiesAgree /\ Copies!WidgetTrue /\ Copies!FileReadable

\* The badge and the reminder of a switch that is on (Notifications).
ReminderTrue == Reminder!TypeOK /\ Reminder!BadgeTells /\ Reminder!OnMeansReminded

\* A reminder that is off stays off (Notifications).
OffStaysQuiet == Reminder!OffStaysQuiet
=============================================================================
