------------------------------ MODULE LastCard ------------------------------
(***************************************************************************)
(* The card shown last, which DetailedViewController writes down in three  *)
(* places when it has loaded: the shortcut item of the app's icon, the     *)
(* file ShortcutItem.plist, and the defaults of the app group, where the   *)
(* widget, a process of its own, reads it.                                 *)
(*                                                                         *)
(* Each place is written, and each default is read, in a step of its own:  *)
(* iOS may end the app between any two, and the widget may read meanwhile. *)
(***************************************************************************)
CONSTANTS
    Cards,    \* what a detail screen may show: a name, a barcode, a picture
    Blank,    \* those whose picture has no data (pngData() is nil)
    None      \* nothing written yet

Broken == "broken"     \* a file that does not decode

LastCardAssumption ==
    Blank \subseteq Cards /\ None \notin Cards /\ Broken \notin Cards \cup {None}

VARIABLES
    app,        \* "off", "list", or how far viewDidLoad of a detail screen has come:
                \* "loaded", "titled", "emptied", "filed", "named"; "detail" when done
    shown,      \* the card of the detail screen
    title,      \* UIApplication.shared.shortcutItems
    plist,      \* ShortcutItem.plist
    groupName, groupImage,   \* the defaults of the app group
    widget,     \* "idle", "half": the label is set, the picture is not
    label, picture,          \* what the widget shows
    (* history *)
    cut,        \* the app ended before the last card was written everywhere
    failed,     \* the file could not be written, of which nobody is told
    raced       \* the widget read while the app wrote, or what an ended app left

vars == <<app, shown, title, plist, groupName, groupImage, widget, label, picture, cut,
          failed, raced>>

Stored == Cards \cup {None}

\* The types of the three copies and of what the widget has read.
TypeOK ==
    /\ app \in {"off", "list", "loaded", "titled", "emptied", "filed", "named", "detail"}
    /\ {shown, title, groupName, groupImage, label, picture} \subseteq Stored
    /\ plist \in Stored \cup {Broken}
    /\ widget \in {"idle", "half"}
    /\ {cut, failed, raced} \subseteq BOOLEAN

Init ==
    /\ app = "off" /\ widget = "idle"
    /\ shown = None /\ title = None /\ plist = None
    /\ groupName = None /\ groupImage = None
    /\ label = None /\ picture = None
    /\ cut = FALSE /\ failed = FALSE /\ raced = FALSE

Open ==
    /\ app = "off" /\ app' = "list"
    /\ UNCHANGED <<shown, title, plist, groupName, groupImage, widget, label, picture,
                   cut, failed, raced>>

\* A card of Home is chosen, or the card of the detail screen is edited, after which the
\* copies keep what was there before: the screen's viewDidLoad does not run again.
Detail(c) ==
    /\ app \in {"list", "detail"} /\ shown' = c
    /\ app' = IF app = "list" THEN "loaded" ELSE "detail"
    /\ UNCHANGED <<title, plist, groupName, groupImage, widget, label, picture, cut,
                   failed, raced>>

Back ==
    /\ app = "detail" /\ app' = "list"
    /\ UNCHANGED <<shown, title, plist, groupName, groupImage, widget, label, picture,
                   cut, failed, raced>>

Writing == app \in {"titled", "emptied", "filed", "named"}

\* setupShortcutItem
SetShortcutItem ==
    /\ app = "loaded" /\ app' = "titled"
    /\ title' = shown
    /\ UNCHANGED <<shown, plist, groupName, groupImage, widget, label, picture, cut,
                   failed, raced>>

\* writeDataToPlist: the file is emptied, then filled.
EmptyPlist ==
    /\ app = "titled" /\ app' = "emptied"
    /\ plist' = Broken
    /\ UNCHANGED <<shown, title, groupName, groupImage, widget, label, picture, cut,
                   failed, raced>>

FillPlist ==
    /\ app = "emptied" /\ app' = "filed"
    /\ plist' = shown
    /\ failed' = FALSE
    /\ UNCHANGED <<shown, title, groupName, groupImage, widget, label, picture, cut, raced>>

\* saveLastCardToFile ignores an error.
PlistFails ==
    /\ app \in {"titled", "emptied"} /\ app' = "filed"
    /\ failed' = TRUE
    /\ UNCHANGED <<shown, title, plist, groupName, groupImage, widget, label, picture, cut,
                   raced>>

\* Mutant: the screen counts as done before the picture is written.
SetNameLast ==
    /\ app = "filed" /\ app' = "detail"
    /\ groupName' = shown
    /\ cut' = FALSE
    /\ UNCHANGED <<shown, title, plist, groupImage, widget, label, picture, failed, raced>>

\* setupWidget
SetName ==
    /\ app = "filed" /\ app' = "named"
    /\ groupName' = shown
    /\ UNCHANGED <<shown, title, plist, groupImage, widget, label, picture, cut,
                   failed, raced>>

SetImage ==
    /\ app = "named" /\ app' = "detail"
    /\ groupImage' = IF shown \in Blank THEN groupImage ELSE shown
    /\ cut' = FALSE
    /\ raced' = (raced \/ widget = "half")
    /\ UNCHANGED <<shown, title, plist, groupName, widget, label, picture, failed>>

Kill ==
    /\ app # "off" /\ app' = "off"
    /\ cut' = (cut \/ Writing)
    /\ UNCHANGED <<shown, title, plist, groupName, groupImage, widget, label, picture, failed,
                   raced>>

\* TodayViewController.viewWillAppear
WidgetName ==
    /\ widget = "idle" /\ widget' = "half"
    /\ label' = IF groupName = None THEN label ELSE groupName
    /\ raced' = (app = "named" \/ cut)
    /\ UNCHANGED <<app, shown, title, plist, groupName, groupImage, picture, cut,
                   failed>>

WidgetImage ==
    /\ widget = "half" /\ widget' = "idle"
    /\ picture' = IF groupImage = None THEN picture ELSE groupImage
    /\ raced' = (raced \/ app = "named" \/ cut)
    /\ UNCHANGED <<app, shown, title, plist, groupName, groupImage, label, cut,
                   failed>>

Next ==
    \/ Open \/ Back \/ Kill
    \/ \E c \in Cards : Detail(c)
    \/ SetShortcutItem \/ EmptyPlist \/ FillPlist \/ PlistFails \/ SetName \/ SetImage
    \/ WidgetName \/ WidgetImage

Spec == Init /\ [][Next]_vars

-----------------------------------------------------------------------------
(* Properties.                                                             *)

\* When a detail screen has loaded, the three copies are of one card, whatever kills came
\* before, but for a file that could not be written, and a card without picture data: the
\* widget's picture is then an earlier one.
CopiesAgree ==
    ~Writing /\ ~cut =>
        /\ title = groupName
        /\ plist # groupName => failed
        /\ groupImage # groupName => groupName \in Blank

\* The widget never shows one card's name with another's picture, but for a name without
\* picture data, or if it read while the app was writing or what an ended app left.
WidgetTrue ==
    widget = "idle" /\ ~raced /\ label # picture => label \in Blank

\* A file that does not decode is left only by an app that ended, or failed, as it wrote it.
FileReadable == plist = Broken => cut \/ failed \/ app = "emptied"
=============================================================================
