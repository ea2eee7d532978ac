------------------------------- MODULE Scanner -------------------------------
(***************************************************************************)
(* ScannerViewController and ScannerService: the camera's permission, the  *)
(* capture session, the barcodes it reads, the alerts and the form for a   *)
(* card without a barcode to scan.                                         *)
(*                                                                         *)
(* The service is one object for all scanners.  Its session is made on the *)
(* main thread or by the answer to the permission request, started on a    *)
(* global queue, stopped by the main thread or by the queue that delivers  *)
(* barcodes; the block that starts it belongs to no scanner.  The search   *)
(* shortcut, which replaces the scanner's window, is CardStore's.          *)
(***************************************************************************)
EXTENDS Naturals

CONSTANTS
    Scanners,     \* screens: objects, used again when nobody has them
    Sessions,     \* capture sessions: likewise
    None,         \* nil
    MaxStarts,    \* bound of the model: starts waiting at once
    MaxBarcodes   \* bound of the model: barcodes of a scanner not yet shown

ASSUME ScannerNone == None \notin Scanners \cup Sessions
ASSUME ScannerSome == Scanners # {}
ASSUME ScannerBounds == MaxStarts \in Nat /\ MaxBarcodes \in Nat

VARIABLES
    access,      \* the camera's authorizationStatus
    asking,      \* requestAccess: "no", "prompt", "reply"
    asker,       \* the scanner that asked
    session,     \* ScannerService.session
    delegate,    \* ScannerService.delegate, weak
    layer,       \* the session of ScannerService.videoPreviewLayer
    shows,       \* the session whose preview a scanner's view shows
    running,     \* the sessions started and not stopped
    starts,      \* how many startRunning blocks wait on the global queue
    frames,      \* how many barcodes wait on the service's own queue
    stopping,    \* that queue is between get and stopRunning
    got,         \* the scanner whose get it called, or None
    gets,        \* how many blocks of get(barcode:) of a scanner wait on main
    current,     \* the scanner on display, or None
    alert,       \* what it presents: "nothing", "name", "access", "error"
    form,        \* how many ManualCardViews are in its view
    segment,     \* sourceIndicatorControl: "scan" or "manual"
    cancelling,  \* the scanner whose cancelActionHandler block waits on main
    saved,       \* history: cards saved since the scanner was opened
    asked,       \* history: meanwhile, the permission was asked or answered
    missed,      \* history: meanwhile, a barcode stopped the camera in vain
    late         \* history: sessions started, or replaced, too late to be stopped

permission == <<access, asking, asker>>
service == <<session, delegate, layer, shows, running>>
queues == <<starts, frames, stopping, got, gets>>
manual == <<form, segment, cancelling>>
history == <<saved, asked, missed, late>>
vars == <<permission, service, queues, current, alert, manual, history>>

Held(v) ==
    \/ v = current \/ v = cancelling \/ gets[v] > 0
    \/ v = asker \/ v = got

\* A session lives while the service, its layer or some view has it.
Alive(s) ==
    s \in {session, layer} \/ \E v \in Scanners : Held(v) /\ shows[v] = s

On == {s \in running : Alive(s)}

Blocks(g) == [v \in Scanners |-> IF v = g THEN gets[v] + 1 ELSE gets[v]]

\* The user can touch the scanner on display.
Touchable == current # None /\ alert = "nothing" /\ asking # "prompt"

\* What alert may be when a, which needs the main thread and a view in the
\* window, is presented without making sure of them.
Perhaps(a) == alert' \in {alert} \cup (IF alert = "nothing" THEN {a} ELSE {})

Init ==
    /\ access \in {"unknown", "granted", "denied"}
    /\ asking = "no" /\ asker = None
    /\ session = None /\ delegate = None /\ layer = None
    /\ shows = [v \in Scanners |-> None] /\ running = {}
    /\ starts = 0 /\ frames = 0 /\ stopping = FALSE /\ got = None
    /\ gets = [v \in Scanners |-> 0]
    /\ current = None /\ alert = "nothing"
    /\ form = 0 /\ segment = "scan" /\ cancelling = None
    /\ saved = 0 /\ asked = FALSE /\ missed = FALSE /\ late = {}

-----------------------------------------------------------------------------
(* The screen.                                                             *)

\* setupCaptureSession: the session is new.
setupCaptureSession ==
    \E s \in Sessions :
        ~Alive(s) /\ session' = s /\ running' = running \ {s}

\* viewDidLoad: the session, its preview, the delegate, and a start to come.
setupSession(v) ==
    \/ /\ access = "granted"
       /\ setupCaptureSession
       /\ late' = late \ {session'}
       /\ asked' = FALSE
       /\ UNCHANGED <<permission, alert>>
    \/ /\ access = "unknown"
       /\ asking' = "prompt" /\ asker' = v
       /\ asked' = TRUE
       /\ UNCHANGED <<access, session, running, alert, late>>
    \/ /\ access = "denied"
       /\ Perhaps("access")
       /\ asked' = FALSE
       /\ UNCHANGED <<permission, session, running, late>>

\* Mutant: a service that has a layer keeps it.
setupVideoLayerOnce(v) ==
    /\ shows' = [shows EXCEPT ![v] = IF layer = None THEN session' ELSE layer]
    /\ layer' = IF layer = None THEN session' ELSE layer

\* The layer goes into the scanner's view.
setupVideoLayer(v) ==
    /\ shows' = [shows EXCEPT ![v] = session']
    /\ layer' = IF session' # None THEN session' ELSE layer

Open(v) ==
    /\ current = None /\ asking # "prompt" /\ ~Held(v)
    /\ starts < MaxStarts
    /\ setupSession(v)
    /\ setupVideoLayer(v)
    /\ delegate' = v
    /\ starts' = starts + 1
    /\ current' = v
    /\ form' = 0 /\ segment' = "scan"
    /\ saved' = 0 /\ missed' = FALSE
    /\ UNCHANGED <<frames, stopping, got, gets, cancelling>>

\* Mutant: the camera is left to the next scanner.
viewWillDisappearRunning == UNCHANGED running

viewWillDisappear == running' = running \ {session}

\* The scanner is popped, and its alert has been dismissed.
Leave ==
    /\ viewWillDisappear
    /\ current' = None /\ alert' = "nothing"
    /\ UNCHANGED <<permission, session, delegate, layer, shows, queues, manual,
                   asked, missed, late>>

Back ==
    /\ Touchable
    /\ Leave
    /\ UNCHANGED saved

-----------------------------------------------------------------------------
(* The permission.                                                         *)

Answer(a) ==
    /\ asking = "prompt"
    /\ asking' = "reply" /\ access' = a
    /\ UNCHANGED <<asker, service, queues, current, alert, manual, history>>

\* setupCaptureSession, whatever has become of the scanner that asked.
Granted ==
    /\ setupCaptureSession
    /\ late' = (late \ {session'}) \cup ({session} \ {None})
    /\ asked' = TRUE
    /\ UNCHANGED alert

\* The handler of requestAccess, on a queue of its own.
Reply ==
    /\ asking = "reply"
    /\ asking' = "no" /\ asker' = None
    /\ \/ access = "granted" /\ Granted
       \/ /\ access = "denied" /\ asker = current
          /\ Perhaps("access")
          /\ UNCHANGED <<session, running, asked, late>>
    /\ UNCHANGED <<access, delegate, layer, shows, queues, current, manual, saved,
                   missed>>

\* The handler sets the colour of animatedView, which viewWillDisappear has
\* removed and nobody holds: the app ends.
ReplyGone ==
    /\ asking = "reply" /\ access = "denied" /\ asker # current
    /\ asking' = "no" /\ asker' = None
    /\ session' = None /\ delegate' = None /\ layer' = None
    /\ shows' = [v \in Scanners |-> None] /\ running' = {}
    /\ starts' = 0 /\ frames' = 0 /\ stopping' = FALSE /\ got' = None
    /\ gets' = [v \in Scanners |-> 0]
    /\ current' = None /\ alert' = "nothing"
    /\ form' = 0 /\ segment' = "scan" /\ cancelling' = None
    /\ saved' = 0 /\ asked' = FALSE /\ missed' = FALSE /\ late' = {}
    /\ UNCHANGED access

SettingsClicked ==
    /\ alert = "access"
    /\ alert' = "nothing"
    /\ UNCHANGED <<permission, service, queues, current, manual, history>>

CancelClicked ==
    /\ alert = "access"
    /\ alert' = "nothing"
    /\ cancelling' = current
    /\ UNCHANGED <<permission, service, queues, current, form, segment, history>>

-----------------------------------------------------------------------------
(* The form.                                                               *)

addManualCardView == form' = form + 1 /\ segment' = "manual"

\* cancelActionHandler: the view is added, be there one or not.
Cancelled ==
    /\ cancelling # None
    /\ cancelling' = None
    /\ IF cancelling = current THEN addManualCardView
                               ELSE UNCHANGED <<form, segment>>
    /\ UNCHANGED <<permission, service, queues, current, alert, history>>

\* Mutant: back to scanning, the form stays.
ScanKeepingForm ==
    /\ segment' = "scan"
    /\ UNCHANGED form

\* Only the view added last is removed.
Scan ==
    /\ segment' = "scan"
    /\ form' = IF form > 0 THEN form - 1 ELSE 0

indexChangeClicked ==
    /\ Touchable
    /\ IF segment = "scan" THEN addManualCardView ELSE Scan
    /\ UNCHANGED <<permission, service, queues, current, alert, cancelling,
                   history>>

\* saveToDbAndNotify and navigateToRoot.
Save ==
    /\ saved' = saved + 1
    /\ Leave

\* addNewCard, with both fields filled in or not.
SaveForm == Touchable /\ form > 0 /\ Save

SaveFormEmpty ==
    /\ Touchable /\ form > 0
    /\ alert' = "error"
    /\ UNCHANGED <<permission, service, queues, current, manual, history>>

ErrorOk ==
    /\ alert = "error"
    /\ alert' = "nothing"
    /\ UNCHANGED <<permission, service, queues, current, manual, history>>

-----------------------------------------------------------------------------
(* The camera.                                                             *)

\* The block takes the session there is by now; there may be none.
startRunning ==
    /\ starts > 0
    /\ starts' = starts - 1
    /\ running' = running \cup ({session} \ {None})
    /\ late' = late \cup (IF current = None THEN {session} \ {None} ELSE {})
    /\ UNCHANGED <<permission, session, delegate, layer, shows, frames, stopping,
                   got, gets, current, alert, manual, saved, asked, missed>>

\* A barcode is read: its callback is enqueued, and runs even if the session
\* is stopped before.
Frame ==
    /\ On # {}
    /\ \A v \in Scanners : frames + gets[v] < MaxBarcodes
    /\ frames' = frames + 1
    /\ UNCHANGED <<permission, service, starts, stopping, got, gets, current,
                   alert, manual, history>>

\* metadataOutput, first half: the delegate's get.
metadataOutput ==
    /\ frames > 0 /\ ~stopping
    /\ frames' = frames - 1
    /\ stopping' = TRUE
    /\ got' = IF delegate # None /\ Held(delegate) THEN delegate ELSE None
    /\ gets' = Blocks(got')
    /\ UNCHANGED <<permission, service, starts, current, alert, manual, history>>

\* Second half: stopRunning, of the session there is by now.
stopRunning ==
    /\ stopping
    /\ stopping' = FALSE /\ got' = None
    /\ running' = running \ {session}
    /\ missed' = (missed \/ got # current)
    /\ UNCHANGED <<permission, session, delegate, layer, shows, starts, frames,
                   gets, current, alert, manual, saved, asked, late>>

\* Mutant: the alert is presented by whatever is on display.
PresentAnywhere(v) == alert' = "name" /\ UNCHANGED missed

\* A scanner that is not on display, or presents something, presents no alert.
presentName(v) ==
    IF v = current /\ alert = "nothing"
    THEN alert' = "name" /\ UNCHANGED missed
    ELSE missed' = (missed \/ v = current) /\ UNCHANGED alert

\* The block of get(barcode:) on the main queue.
get(v) ==
    /\ gets[v] > 0
    /\ gets' = [gets EXCEPT ![v] = @ - 1]
    /\ presentName(v)
    /\ UNCHANGED <<permission, service, starts, frames, stopping, got, current,
                   manual, saved, asked, late>>

\* The alert has one button only, and a name if the field is empty.
NameOk == alert = "name" /\ Save

-----------------------------------------------------------------------------
Next ==
    \/ \E v \in Scanners : Open(v) \/ get(v)
    \/ Back \/ \E a \in {"granted", "denied"} : Answer(a)
    \/ Reply \/ ReplyGone \/ SettingsClicked \/ CancelClicked
    \/ Cancelled \/ indexChangeClicked \/ SaveForm \/ SaveFormEmpty \/ ErrorOk
    \/ startRunning \/ Frame \/ metadataOutput \/ stopRunning \/ NameOk

Spec == Init /\ [][Next]_vars

-----------------------------------------------------------------------------
(* Properties.                                                             *)

\* The types of the permission, the sessions, the queues and the screen.
TypeOK ==
    /\ access \in {"unknown", "granted", "denied"}
    /\ asking \in {"no", "prompt", "reply"}
    /\ asker \in Scanners \cup {None}
    /\ session \in Sessions \cup {None} /\ layer \in Sessions \cup {None}
    /\ delegate \in Scanners \cup {None}
    /\ shows \in [Scanners -> Sessions \cup {None}]
    /\ running \subseteq Sessions /\ late \subseteq Sessions
    /\ starts \in 0..MaxStarts /\ frames \in 0..MaxBarcodes
    /\ stopping \in BOOLEAN /\ got \in Scanners \cup {None}
    /\ gets \in [Scanners -> Nat]
    /\ current \in Scanners \cup {None} /\ cancelling \in Scanners \cup {None}
    /\ alert \in {"nothing", "name", "access", "error"}
    /\ form \in 0..2 /\ segment \in {"scan", "manual"}
    /\ saved \in Nat /\ asked \in BOOLEAN /\ missed \in BOOLEAN

\* Away from the scanner the camera is off, but for a session whose start came
\* after the scanner had gone, or which the answer to the permission request
\* replaced in the service while a scanner was using it: stopRunning of
\* viewWillDisappear reaches neither.
CameraOff == current = None => On \subseteq late

\* However many barcodes are read, in whatever order their callbacks, the
\* form and the screens follow each other, a visit of the scanner saves one
\* card at most.
OneCardPerVisit == saved <= 1 /\ (current # None => saved = 0)

\* Nothing that was started is under way any more.
Quiet ==
    /\ starts = 0 /\ frames = 0 /\ ~stopping /\ asking = "no"
    /\ \A v \in Scanners : gets[v] = 0

\* The scanner reads barcodes and shows what the camera sees, once nothing is
\* under way any more, unless it has no permission, asked for it or got the
\* answer during this visit, or a barcode stopped the camera whose alert was not
\* presented: because another one was, or because it was read for a scanner
\* that had gone.  (The last is a race over a session that is not the one the
\* barcode came from.)
ScannerReads ==
    current # None /\ Quiet /\ alert = "nothing" /\ access = "granted"
        => asked \/ missed \/ (session \in On /\ shows[current] = session)

\* The form is there when the segment says so, and covers the camera's picture
\* otherwise only where there is no permission to use the camera.
FormShown ==
    current # None =>
        /\ segment = "manual" => form > 0
        /\ segment = "scan" => form = 0 \/ access = "denied"

\* The screen is in one of its states, with the form where the segment wants it.
ScannerConsistent == TypeOK /\ FormShown
=============================================================================
