---------------------------- MODULE DeviceProofs ----------------------------
(***************************************************************************)
(* Theorems about the scanner, the copies of the last card and the         *)
(* reminder, for any scanners, sessions and cards and for any bounds.      *)
(***************************************************************************)
EXTENDS Device, Integers, TLAPS

-----------------------------------------------------------------------------
(* The scanner.                                                            *)

\* What OneCardPerVisit needs: no alert outlives its scanner, and the answer to
\* the permission request, which presents one, is owed to a scanner.
Visit ==
    /\ OneCardPerVisit
    /\ alert # "nothing" => current # None
    /\ asking # "no" => asker # None

(* A visit that has had its card gets no second one.                       *)
LEMMA VisitStep ==
    ASSUME Visit, [Next]_vars
    PROVE  Visit'
<1> USE DEF Visit, OneCardPerVisit
<1>1. ASSUME UNCHANGED <<current, saved>>,
             alert' # "nothing" => current # None,
             asking' # "no" => asker' # None
      PROVE  Visit'
  BY <1>1
<1>2. CASE UNCHANGED vars
  BY <1>1, <1>2 DEF vars, permission, history
<1>3. ASSUME NEW v \in Scanners, Open(v)
      PROVE  Visit'
  <2>1. current' = v /\ v # None /\ saved' = 0
    BY <1>3, ScannerNone DEF Open
  <2>2. asking' # "no" => asker' # None
    BY <1>3, <2>1 DEF Open, setupSession, permission
  <2> QED
    BY <2>1, <2>2
<1>4. ASSUME NEW v \in Scanners, get(v)
      PROVE  Visit'
  <2>1. alert' = alert \/ v = current
    BY <1>4 DEF get, presentName
  <2> QED
    BY <1>1, <1>4, <2>1, ScannerNone DEF get, permission
<1>5. ASSUME NEW a, Answer(a)
      PROVE  Visit'
  BY <1>1, <1>5 DEF Answer, history
<1>6. ASSUME Leave, saved' \in {saved, saved + 1}, current # None
      PROVE  Visit'
  BY <1>6 DEF Leave, permission
<1>7. CASE Back
  BY <1>6, <1>7 DEF Back, Touchable
<1>8. CASE SaveForm \/ NameOk
  BY <1>6, <1>8 DEF SaveForm, NameOk, Touchable, Save
<1>9. CASE Reply
  <2>1. asking' = "no" /\ (alert' = alert \/ asker = current)
    BY <1>9 DEF Reply, Granted
  <2>2. asker # None /\ UNCHANGED <<current, saved>>
    BY <1>9 DEF Reply
  <2> QED
    BY <1>1, <2>1, <2>2
<1>10. CASE ReplyGone
  BY <1>10 DEF ReplyGone
<1>11. CASE SaveFormEmpty
  BY <1>1, <1>11 DEF SaveFormEmpty, Touchable, permission, history
<1>12. CASE SettingsClicked \/ CancelClicked \/ ErrorOk
  BY <1>1, <1>12
     DEF SettingsClicked, CancelClicked, ErrorOk, permission, history
<1>13. CASE Cancelled \/ indexChangeClicked
  BY <1>1, <1>13 DEF Cancelled, indexChangeClicked, permission, history
<1>14. CASE startRunning \/ Frame \/ metadataOutput \/ stopRunning
  BY <1>1, <1>14
     DEF startRunning, Frame, metadataOutput, stopRunning, permission, history
<1> QED
  BY <1>2, <1>3, <1>4, <1>5, <1>7, <1>8, <1>9, <1>10, <1>11, <1>12, <1>13, <1>14
     DEF Next

\* Barcodes whose callbacks come late, several at once, or for a scanner that
\* has gone, the form, and alerts in each other's way: a visit of the scanner
\* saves one card at most (saveToDbAndNotify, then navigateToRoot).
THEOREM OneCard == Spec => []OneCardPerVisit
<1>1. Init => Visit
  BY DEF Init, Visit, OneCardPerVisit
<1>2. Visit => OneCardPerVisit
  BY DEF Visit
<1> QED
  BY <1>1, <1>2, VisitStep, PTL DEF Spec

-----------------------------------------------------------------------------
(* Its permission, and its form.                                           *)

\* The permission is unknown while the user is asked, in a visit that asked.
Asked ==
    /\ asking = "prompt" => access = "unknown" /\ asked
    /\ asking = "reply" => access # "unknown"

(* Answers come to the question that was asked.                            *)
LEMMA AskedStep ==
    ASSUME Asked, [Next]_vars
    PROVE  Asked'
<1> USE DEF Asked
<1>1. ASSUME UNCHANGED <<access, asking, asked>>
      PROVE  Asked'
  BY <1>1
<1>2. CASE UNCHANGED vars
  BY <1>1, <1>2 DEF vars, permission, history
<1>3. ASSUME NEW v \in Scanners, Open(v)
      PROVE  Asked'
  <2>1. asking # "prompt"
    BY <1>3 DEF Open
  <2>2. \/ access' = access /\ asking' = asking
        \/ asking' = "prompt" /\ access' = "unknown" /\ asked'
    BY <1>3 DEF Open, setupSession, permission
  <2> QED
    BY <2>1, <2>2
<1>4. ASSUME NEW a \in {"granted", "denied"}, Answer(a)
      PROVE  Asked'
  BY <1>4 DEF Answer
<1>5. CASE Reply \/ ReplyGone
  BY <1>5 DEF Reply, ReplyGone
<1>6. CASE Back \/ SaveForm \/ NameOk
  BY <1>1, <1>6 DEF Back, SaveForm, NameOk, Save, Leave, permission
<1>7. CASE \/ SettingsClicked \/ CancelClicked \/ ErrorOk \/ SaveFormEmpty
           \/ Cancelled \/ indexChangeClicked
  BY <1>1, <1>7 DEF SettingsClicked, CancelClicked, ErrorOk, SaveFormEmpty,
     Cancelled, indexChangeClicked, permission, history
<1>8. CASE \/ startRunning \/ Frame \/ metadataOutput \/ stopRunning
           \/ \E v \in Scanners : get(v)
  BY <1>1, <1>8 DEF startRunning, Frame, metadataOutput, stopRunning, get,
     permission, history
<1> QED
  BY <1>2, <1>3, <1>4, <1>5, <1>6, <1>7, <1>8 DEF Next

\* The forms that the segment accounts for.
OwnForm == IF segment = "manual" THEN 1 ELSE 0

\* The answer to the permission request is owed to the scanner on display.
Owed == asking # "no" /\ asker = current

\* One form more than that comes from cancelling the access alert, which a
\* visit presents once: on opening, or when the answer it is owed arrives.
FormOnce ==
    current # None =>
        /\ form \in {OwnForm, OwnForm + 1}
        /\ form = OwnForm + 1
             => access = "denied" /\ ~Owed /\ alert # "access" /\ cancelling # current
        /\ alert = "access" => access = "denied" /\ ~Owed /\ cancelling # current
        /\ cancelling = current => access = "denied" /\ ~Owed

(* No step shows a form too many.                                          *)
LEMMA FormOnceStep ==
    ASSUME TypeOK, Asked, Visit, FormOnce, [Next]_vars
    PROVE  FormOnce'
<1>1. ASSUME UNCHANGED <<access, asking, asker, form, segment, cancelling>>,
             current' = current, alert' = alert \/ alert' # "access"
      PROVE  FormOnce'
  BY <1>1 DEF FormOnce, OwnForm, Owed
<1>2. CASE UNCHANGED vars
  BY <1>1, <1>2 DEF vars, permission, manual
<1>3. ASSUME NEW v \in Scanners, Open(v)
      PROVE  FormOnce'
  <2>1. /\ current' = v /\ form' = 0 /\ segment' = "scan" /\ cancelling' = cancelling
        /\ current = None /\ v # asker /\ v # cancelling /\ alert = "nothing"
    BY <1>3 DEF Open, Held, Visit
  <2>2. OwnForm' = 0
    BY <2>1 DEF OwnForm
  <2>3. \/ alert' = "nothing"
        \/ alert' = "access" /\ access' = "denied" /\ asker' = asker
    BY <1>3, <2>1 DEF Open, setupSession, Perhaps, permission
  <2> QED
    BY <2>1, <2>2, <2>3 DEF FormOnce, Owed
<1>4. ASSUME NEW a \in {"granted", "denied"}, Answer(a)
      PROVE  FormOnce'
  <2>1. /\ UNCHANGED <<form, segment, cancelling, current, alert, asker>>
        /\ access = "unknown" /\ asking # "no" /\ asking' # "no"
    BY <1>4 DEF Answer, manual, Asked
  <2> QED
    BY <2>1 DEF FormOnce, OwnForm, Owed
<1>5. CASE Reply
  <2>1. /\ UNCHANGED <<form, segment, cancelling, current, access>>
        /\ asking # "no" /\ asking' = "no"
        /\ \/ alert' = alert
           \/ access = "denied" /\ asker = current
    BY <1>5 DEF Reply, Granted, manual
  <2> QED
    BY <2>1 DEF FormOnce, OwnForm, Owed
<1>6. CASE ReplyGone \/ Back \/ SaveForm \/ NameOk
  <2>1. current' = None
    BY <1>6 DEF ReplyGone, Back, SaveForm, NameOk, Save, Leave
  <2> QED
    BY <2>1 DEF FormOnce
<1>7. CASE SettingsClicked \/ ErrorOk \/ SaveFormEmpty
  BY <1>1, <1>7 DEF SettingsClicked, ErrorOk, SaveFormEmpty, permission, manual
<1>8. CASE CancelClicked
  <2>1. /\ UNCHANGED <<access, asking, asker, form, segment, current>>
        /\ alert = "access" /\ alert' = "nothing" /\ cancelling' = current
    BY <1>8 DEF CancelClicked, permission
  <2> QED
    BY <2>1 DEF FormOnce, OwnForm, Owed
<1>9. CASE Cancelled
  <2>1. /\ UNCHANGED <<access, asking, asker, current, alert>>
        /\ cancelling # None /\ cancelling' = None
    BY <1>9 DEF Cancelled, permission
  <2>2. CASE cancelling = current
    <3>1. form' = form + 1 /\ OwnForm' = 1 /\ form = OwnForm /\ OwnForm \in {0, 1}
      BY <1>9, <2>1, <2>2 DEF Cancelled, addManualCardView, FormOnce, OwnForm
    <3> QED
      BY <2>1, <2>2, <3>1 DEF FormOnce, Owed
  <2>3. CASE cancelling # current
    BY <1>9, <2>1, <2>3 DEF Cancelled, FormOnce, OwnForm, Owed
  <2> QED
    BY <2>2, <2>3
<1>10. CASE indexChangeClicked
  <2>1. /\ UNCHANGED <<access, asking, asker, current, alert, cancelling>>
        /\ current # None
    BY <1>10 DEF indexChangeClicked, Touchable, permission
  <2>2. \/ OwnForm = 0 /\ OwnForm' = 1 /\ form' = form + 1
        \/ OwnForm = 1 /\ OwnForm' = 0 /\ form > 0 /\ form' = form - 1
    <3>1. CASE segment = "scan"
      BY <1>10, <3>1 DEF indexChangeClicked, addManualCardView, OwnForm
    <3>2. CASE segment = "manual"
      BY <1>10, <2>1, <3>2 DEF indexChangeClicked, Scan, OwnForm, FormOnce
    <3> QED
      BY <3>1, <3>2 DEF TypeOK
  <2> QED
    BY <2>1, <2>2 DEF FormOnce, Owed
<1>11. CASE startRunning \/ Frame \/ metadataOutput \/ stopRunning
  BY <1>1, <1>11
     DEF startRunning, Frame, metadataOutput, stopRunning, permission, manual
<1>12. ASSUME NEW v \in Scanners, get(v)
       PROVE  FormOnce'
  BY <1>1, <1>12 DEF get, presentName, permission, manual
<1> QED
  BY <1>2, <1>3, <1>4, <1>5, <1>6, <1>7, <1>8, <1>9, <1>10, <1>11, <1>12 DEF Next

-----------------------------------------------------------------------------
(* Its types.                                                              *)

(* Every step keeps the types.                                             *)
LEMMA TypeStep ==
    ASSUME TypeOK, Visit, FormOnce, [Next]_vars
    PROVE  TypeOK'
<1> USE ScannerNone, ScannerBounds
<1>a. TypeOK
  OBVIOUS
\* What the steps of the camera leave alone, and those of the screen.
<1> DEFINE ScreenTypes ==
               /\ access \in {"unknown", "granted", "denied"}
               /\ asking \in {"no", "prompt", "reply"}
               /\ asker \in Scanners \cup {None}
               /\ current \in Scanners \cup {None} /\ cancelling \in Scanners \cup {None}
               /\ alert \in {"nothing", "name", "access", "error"}
               /\ form \in 0..2 /\ segment \in {"scan", "manual"}
               /\ saved \in Nat /\ asked \in BOOLEAN
           CameraTypes ==
               /\ session \in Sessions \cup {None} /\ layer \in Sessions \cup {None}
               /\ delegate \in Scanners \cup {None}
               /\ shows \in [Scanners -> Sessions \cup {None}]
               /\ running \subseteq Sessions /\ late \subseteq Sessions
               /\ missed \in BOOLEAN
           QueueTypes ==
               /\ starts \in 0..MaxStarts /\ frames \in 0..MaxBarcodes
               /\ stopping \in BOOLEAN /\ got \in Scanners \cup {None}
               /\ gets \in [Scanners -> Nat]
<1>b. ScreenTypes /\ CameraTypes /\ QueueTypes
  BY DEF TypeOK
<1>c. ASSUME ScreenTypes', CameraTypes', QueueTypes'
      PROVE  TypeOK'
  BY <1>c DEF TypeOK
<1>d. UNCHANGED queues => QueueTypes'
  BY <1>b DEF queues
<1>e. UNCHANGED service /\ late' = late /\ missed' = missed => CameraTypes'
  BY <1>b DEF service
<1>f. ASSUME UNCHANGED <<permission, manual>>, current' = current, asked' = asked,
             alert' \in {"nothing", "name", "access", "error"}, saved' \in Nat
      PROVE  ScreenTypes'
  BY <1>b, <1>f DEF permission, manual
<1> HIDE DEF ScreenTypes, CameraTypes, QueueTypes
<1>2. CASE UNCHANGED vars
  <2>1. UNCHANGED <<permission, service, queues, manual, current, alert, saved, asked,
                    missed, late>>
    BY <1>2 DEF vars, history
  <2> QED
    BY <1>a, <1>b, <1>c, <1>d, <1>e, <1>f, <2>1 DEF TypeOK
<1>3. ASSUME NEW v \in Scanners, Open(v)
      PROVE  TypeOK'
  <2>1. /\ session' \in Sessions \cup {None} /\ running' \subseteq Sessions
        /\ late' \subseteq Sessions
    BY <1>3, <1>b DEF Open, setupSession, setupCaptureSession, CameraTypes
  <2>2. /\ shows' \in [Scanners -> Sessions \cup {None}]
        /\ layer' \in Sessions \cup {None} /\ delegate' = v /\ missed' = FALSE
    BY <1>3, <1>b, <2>1 DEF Open, setupVideoLayer, CameraTypes
  <2>3. CameraTypes'
    BY <2>1, <2>2 DEF CameraTypes
  <2>4. starts' \in 0..MaxStarts /\ UNCHANGED <<frames, stopping, got, gets>>
    BY <1>3, <1>b DEF Open, QueueTypes
  <2>5. QueueTypes'
    BY <1>b, <2>4 DEF QueueTypes
  <2>6. /\ access' = access /\ asking' \in {asking, "prompt"} /\ asker' \in {asker, v}
        /\ asked' \in BOOLEAN /\ alert' \in {alert, "access"}
    BY <1>3 DEF Open, setupSession, Perhaps, permission
  <2>7. /\ current' = v /\ form' = 0 /\ segment' = "scan" /\ saved' = 0
        /\ cancelling' = cancelling
    BY <1>3 DEF Open
  <2>8. ScreenTypes'
    BY <1>b, <2>6, <2>7 DEF ScreenTypes
  <2> QED
    BY <1>c, <2>3, <2>5, <2>8
<1>4. ASSUME NEW a \in {"granted", "denied"}, Answer(a)
      PROVE  TypeOK'
  <2>1. /\ asking' = "reply" /\ access' = a
        /\ UNCHANGED <<asker, service, queues, current, alert, manual, history>>
    BY <1>4 DEF Answer
  <2>2. ScreenTypes'
    BY <1>b, <2>1 DEF ScreenTypes, manual, history
  <2> QED
    BY <1>c, <1>d, <1>e, <2>1, <2>2 DEF history
<1>5. CASE Reply
  <2>1. /\ asking' = "no" /\ asker' = None
        /\ UNCHANGED <<access, delegate, layer, shows, queues, current, manual, saved,
                       missed>>
    BY <1>5 DEF Reply
  <2>2. /\ session' \in Sessions \cup {None} /\ running' \subseteq Sessions
        /\ late' \subseteq Sessions /\ asked' \in BOOLEAN /\ alert' \in {alert, "access"}
    BY <1>5, <1>b DEF Reply, Granted, setupCaptureSession, Perhaps, CameraTypes,
       ScreenTypes
  <2>3. ScreenTypes' /\ CameraTypes'
    BY <1>b, <2>1, <2>2 DEF ScreenTypes, CameraTypes, manual
  <2> QED
    BY <1>c, <1>d, <2>1, <2>3
<1>6. CASE ReplyGone
  <2>1. ScreenTypes'
    <3>1. /\ access' = access /\ asking' = "no" /\ asker' = None /\ current' = None
          /\ alert' = "nothing" /\ form' = 0 /\ segment' = "scan" /\ cancelling' = None
          /\ saved' = 0
      BY <1>6 DEF ReplyGone
    <3>2. asked' \in BOOLEAN
      BY <1>6 DEF ReplyGone
    <3> QED
      BY <1>b, <3>1, <3>2 DEF ScreenTypes
  <2>2. CameraTypes'
    BY <1>6 DEF ReplyGone, CameraTypes
  <2>3. QueueTypes'
    <3>1. starts' = 0 /\ frames' = 0 /\ got' = None /\ gets' = [v \in Scanners |-> 0]
      BY <1>6 DEF ReplyGone
    <3>2. stopping' \in BOOLEAN
      BY <1>6 DEF ReplyGone
    <3> QED
      BY <3>1, <3>2 DEF QueueTypes
  <2> QED
    BY <1>c, <2>1, <2>2, <2>3
<1>7. CASE Back \/ SaveForm \/ NameOk
  <2>1. /\ Leave /\ saved' \in {saved, saved + 1}
    BY <1>7 DEF Back, SaveForm, NameOk, Save
  <2>2. CameraTypes'
    BY <1>b, <2>1 DEF Leave, viewWillDisappear, CameraTypes
  <2>3. ScreenTypes'
    BY <1>b, <2>1 DEF Leave, ScreenTypes, permission, manual
  <2> QED
    BY <1>c, <1>d, <2>1, <2>2, <2>3 DEF Leave
<1>8. CASE SettingsClicked \/ ErrorOk \/ SaveFormEmpty
  <2>1. /\ UNCHANGED <<permission, service, queues, current, manual, history>>
        /\ alert' \in {"nothing", "error"}
    BY <1>8 DEF SettingsClicked, ErrorOk, SaveFormEmpty
  <2>2. saved' \in Nat
    BY <1>b, <2>1 DEF history, ScreenTypes
  <2> QED
    BY <1>c, <1>d, <1>e, <1>f, <2>1, <2>2 DEF history
<1>9. CASE CancelClicked
  <2>1. /\ UNCHANGED <<permission, service, queues, current, form, segment, history>>
        /\ alert' = "nothing" /\ cancelling' = current
    BY <1>9 DEF CancelClicked
  <2>2. ScreenTypes'
    BY <1>b, <2>1 DEF ScreenTypes, permission, history
  <2> QED
    BY <1>c, <1>d, <1>e, <2>1, <2>2 DEF history
<1>10. CASE Cancelled
  <2>1. /\ UNCHANGED <<permission, service, queues, current, alert, history>>
        /\ cancelling' = None
    BY <1>10 DEF Cancelled
  <2>2. form' \in 0..2 /\ segment' \in {"scan", "manual"}
    <3>1. CASE cancelling = current
      <4>1. form = OwnForm /\ OwnForm \in {0, 1}
        BY <1>10, <3>1 DEF Cancelled, FormOnce, OwnForm
      <4> QED
        BY <1>10, <3>1, <4>1 DEF Cancelled, addManualCardView
    <3>2. CASE cancelling # current
      BY <1>10, <1>b, <3>2 DEF Cancelled, ScreenTypes
    <3> QED
      BY <3>1, <3>2
  <2>3. ScreenTypes'
    BY <1>b, <2>1, <2>2 DEF ScreenTypes, permission, history
  <2> QED
    BY <1>c, <1>d, <1>e, <2>1, <2>3 DEF history
<1>11. CASE indexChangeClicked
  <2>1. /\ UNCHANGED <<permission, service, queues, current, alert, cancelling, history>>
        /\ current # None
    BY <1>11 DEF indexChangeClicked, Touchable
  <2>2. form' \in 0..2 /\ segment' \in {"scan", "manual"}
    <3>1. CASE segment = "scan"
      <4>1. form \in {0, 1}
        BY <2>1, <3>1 DEF FormOnce, OwnForm
      <4> QED
        BY <1>11, <3>1, <4>1 DEF indexChangeClicked, addManualCardView
    <3>2. CASE segment # "scan"
      BY <1>11, <1>b, <3>2 DEF indexChangeClicked, Scan, ScreenTypes
    <3> QED
      BY <3>1, <3>2
  <2>3. ScreenTypes'
    BY <1>b, <2>1, <2>2 DEF ScreenTypes, permission, history
  <2> QED
    BY <1>c, <1>d, <1>e, <2>1, <2>3 DEF history
<1>12. CASE startRunning
  <2>1. CameraTypes' /\ QueueTypes'
    BY <1>12, <1>b DEF startRunning, CameraTypes, QueueTypes
  <2>2. ScreenTypes'
    BY <1>12, <1>b DEF startRunning, ScreenTypes, permission, manual
  <2> QED
    BY <1>c, <2>1, <2>2
<1>13. CASE Frame
  <2>1. UNCHANGED <<permission, service, current, alert, manual, history>>
    BY <1>13 DEF Frame
  <2>2. frames' \in 0..MaxBarcodes
    <3>1. PICK v \in Scanners : frames + gets[v] < MaxBarcodes
      BY <1>13, ScannerSome DEF Frame
    <3>2. gets[v] \in Nat /\ frames \in Nat /\ frames' = frames + 1
      BY <1>13, <1>b DEF Frame, QueueTypes
    <3> QED
      BY <3>1, <3>2
  <2>3. QueueTypes'
    BY <1>13, <1>b, <2>2 DEF Frame, QueueTypes
  <2> QED
    BY <1>b, <1>c, <1>e, <1>f, <2>1, <2>3 DEF ScreenTypes, history
<1>14. CASE metadataOutput
  <2>1. UNCHANGED <<permission, service, current, alert, manual, history>>
    BY <1>14 DEF metadataOutput
  <2>2. QueueTypes'
    BY <1>14, <1>b DEF metadataOutput, Blocks, QueueTypes, CameraTypes
  <2> QED
    BY <1>b, <1>c, <1>e, <1>f, <2>1, <2>2 DEF ScreenTypes, history
<1>15. CASE stopRunning
  <2>1. CameraTypes' /\ QueueTypes'
    BY <1>15, <1>b DEF stopRunning, CameraTypes, QueueTypes
  <2>2. ScreenTypes'
    BY <1>15, <1>b DEF stopRunning, ScreenTypes, permission, manual
  <2> QED
    BY <1>c, <2>1, <2>2
<1>16. ASSUME NEW v \in Scanners, get(v)
       PROVE  TypeOK'
  <2>1. QueueTypes'
    BY <1>16, <1>b DEF get, QueueTypes
  <2>2. UNCHANGED service /\ late' = late /\ missed' \in BOOLEAN
    BY <1>16, <1>b DEF get, presentName, CameraTypes
  <2>3. CameraTypes'
    BY <1>b, <2>2 DEF CameraTypes, service
  <2>4. ScreenTypes'
    BY <1>16, <1>b DEF get, presentName, ScreenTypes, permission, manual
  <2> QED
    BY <1>c, <2>1, <2>3, <2>4
<1> QED
  BY <1>2, <1>3, <1>4, <1>5, <1>6, <1>7, <1>8, <1>9, <1>10, <1>11, <1>12, <1>13,
     <1>14, <1>15, <1>16 DEF Next

-----------------------------------------------------------------------------
(* Its camera.                                                             *)

\* What is on is late, or in the service while a scanner is on display.
Camera == On \subseteq late \cup (IF current = None THEN {} ELSE {session})

\* Nobody gets hold of anything: no session comes back to life.
LEMMA OnShrinks ==
    ASSUME \A v \in Scanners : Held(v)' => Held(v), UNCHANGED <<session, layer, shows>>,
           running' \subseteq running
    PROVE  On' \subseteq On
BY DEF On, Alive

(* No step leaves a camera on that is not late.                            *)
LEMMA CameraStep ==
    ASSUME TypeOK, Visit, Camera, [Next]_vars
    PROVE  Camera'
<1>1. ASSUME On' \subseteq On, UNCHANGED <<session, current, late>>
      PROVE  Camera'
  BY <1>1 DEF Camera
<1>2. ASSUME UNCHANGED service, \A v \in Scanners : Held(v)' => Held(v),
             current' = current, late' = late
      PROVE  Camera'
  BY <1>1, <1>2, OnShrinks DEF service
<1>3. ASSUME UNCHANGED <<service, asker, got, gets, current, cancelling, late>>
      PROVE  Camera'
  BY <1>2, <1>3 DEF Held
<1>4. CASE UNCHANGED vars
  BY <1>3, <1>4 DEF vars, permission, queues, manual, history
<1>5. ASSUME NEW v \in Scanners, Open(v)
      PROVE  Camera'
  <2>1. /\ current = None /\ current' = v /\ v # None /\ v \in Scanners
        /\ UNCHANGED <<got, gets, cancelling>> /\ asker' \in {asker, v}
        /\ shows' = [shows EXCEPT ![v] = session'] /\ layer' \in {layer, session'}
        /\ shows \in [Scanners -> Sessions \cup {None}]
    BY <1>5, ScannerNone DEF Open, setupSession, setupVideoLayer, permission, TypeOK
  <2>2. ASSUME NEW t \in Sessions, t # session', Alive(t)'
        PROVE  Alive(t)
    <3>1. CASE t = layer'
      BY <2>1, <2>2, <3>1 DEF Alive
    <3>2. CASE t # layer'
      <4>1. PICK w \in Scanners : Held(w)' /\ shows'[w] = t
        BY <2>2, <3>2 DEF Alive
      <4>2. w # v /\ shows[w] = t
        BY <2>1, <2>2, <4>1
      <4>3. Held(w)
        BY <2>1, <4>1, <4>2 DEF Held
      <4> QED
        BY <4>2, <4>3 DEF Alive
    <3> QED
      BY <3>1, <3>2
  <2>3. /\ running' \subseteq running /\ running \subseteq Sessions
        /\ late \ {session'} \subseteq late'
        /\ session' = session \/ session' \notin running'
    BY <1>5 DEF Open, setupSession, setupCaptureSession, TypeOK
  <2>4. On' \subseteq late' \cup {session'}
    <3> SUFFICES ASSUME NEW t \in running', Alive(t)', t # session' PROVE t \in late'
      BY DEF On
    <3>1. t \in On
      BY <2>2, <2>3 DEF On
    <3> QED
      BY <2>1, <2>3, <3>1 DEF Camera
  <2> QED
    BY <2>1, <2>4 DEF Camera
<1>6. ASSUME NEW a, Answer(a)
      PROVE  Camera'
  BY <1>3, <1>6 DEF Answer, queues, manual, history
<1>7. CASE Reply
  <2>1. UNCHANGED <<layer, shows, current>> /\ \A v \in Scanners : Held(v)' => Held(v)
    BY <1>7, ScannerNone DEF Reply, Held, queues, manual
  <2>2. CASE Granted
    <3>1. /\ running' \subseteq running /\ session' \notin running'
          /\ session' \in Sessions /\ running \subseteq Sessions
          /\ late \ {session'} \subseteq late'
          /\ session = None \/ session = session' \/ session \in late'
      BY <2>2 DEF Granted, setupCaptureSession, TypeOK
    <3>2. ASSUME NEW t \in On' PROVE t \in On /\ t # session'
      <4>1. t \in running' /\ t \in running /\ t # session' /\ Alive(t)'
        BY <3>1, <3>2 DEF On
      <4>2. Alive(t)
        BY <2>1, <4>1 DEF Alive
      <4> QED
        BY <4>1, <4>2 DEF On
    <3>3. None \notin On
      BY <3>1, ScannerNone DEF On
    <3> QED
      BY <2>1, <3>1, <3>2, <3>3 DEF Camera
  <2>3. CASE UNCHANGED <<session, running, late>>
    BY <1>2, <2>1, <2>3, <1>1, OnShrinks
  <2> QED
    BY <1>7, <2>2, <2>3 DEF Reply
<1>8. CASE ReplyGone
  <2>1. running' = {}
    BY <1>8 DEF ReplyGone
  <2> QED
    BY <2>1 DEF Camera, On
<1>9. CASE Back \/ SaveForm \/ NameOk
  <2>1. /\ Leave
        /\ UNCHANGED <<asker, session, layer, shows, got, gets, cancelling, late>>
    BY <1>9 DEF Back, SaveForm, NameOk, Save, Leave, permission, queues, manual
  <2>2. /\ running' = running \ {session} /\ current' = None
        /\ \A v \in Scanners : Held(v)' => Held(v)
    BY <2>1, ScannerNone DEF Leave, viewWillDisappear, Held
  <2>3. On' \subseteq On /\ session \notin On'
    BY <2>1, <2>2, OnShrinks DEF On
  <2> QED
    BY <2>1, <2>2, <2>3 DEF Camera
<1>10. CASE CancelClicked
  <2>1. /\ UNCHANGED <<service, asker, got, gets, current, late>>
        /\ cancelling' = current
    BY <1>10 DEF CancelClicked, permission, queues, history
  <2>2. \A v \in Scanners : Held(v)' => Held(v)
    BY <2>1 DEF Held
  <2> QED
    BY <1>2, <2>1, <2>2
<1>11. CASE Cancelled
  <2>1. /\ UNCHANGED <<service, asker, got, gets, current, late>>
        /\ cancelling' = None
    BY <1>11 DEF Cancelled, permission, queues, history
  <2>2. \A v \in Scanners : Held(v)' => Held(v)
    BY <2>1, ScannerNone DEF Held
  <2> QED
    BY <1>2, <2>1, <2>2
<1>12. CASE SettingsClicked \/ ErrorOk \/ SaveFormEmpty \/ indexChangeClicked
  BY <1>3, <1>12 DEF SettingsClicked, ErrorOk, SaveFormEmpty, indexChangeClicked,
     permission, queues, manual, history
<1>13. CASE startRunning
  <2>1. /\ UNCHANGED <<session, layer, shows, asker, got, gets, current, cancelling>>
        /\ running' = running \cup ({session} \ {None})
        /\ late' = late \cup (IF current = None THEN {session} \ {None} ELSE {})
    BY <1>13 DEF startRunning, permission, manual
  <2>2. \A t : Alive(t)' => Alive(t)
    BY <2>1 DEF Alive, Held
  <2>3. On' \subseteq On \cup ({session} \ {None})
    BY <2>1, <2>2 DEF On
  <2> QED
    BY <2>1, <2>3 DEF Camera
<1>14. CASE Frame
  BY <1>3, <1>14 DEF Frame, permission, manual, history
<1>15. CASE metadataOutput
  <2>1. /\ UNCHANGED <<service, asker, current, cancelling, late>>
        /\ got' = None \/ (got' = delegate /\ Held(delegate))
    BY <1>15 DEF metadataOutput, permission, manual, history
  <2>2. gets' = [w \in Scanners |-> IF w = got' THEN gets[w] + 1 ELSE gets[w]]
    BY <1>15 DEF metadataOutput, Blocks
  <2>3. ASSUME NEW v \in Scanners, Held(v)'
        PROVE  Held(v)
    <3>1. CASE v = got'
      BY <2>1, <3>1, ScannerNone
    <3>2. CASE v # got'
      <4>1. gets'[v] = gets[v]
        BY <2>2, <3>2
      <4> QED
        BY <2>1, <2>3, <3>2, <4>1 DEF Held
    <3> QED
      BY <3>1, <3>2
  <2> QED
    BY <1>2, <2>1, <2>3
<1>16. CASE stopRunning
  <2>1. /\ UNCHANGED <<session, layer, shows, asker, gets, current, cancelling, late>>
        /\ got' = None /\ running' \subseteq running
    BY <1>16 DEF stopRunning, permission, manual
  <2>2. \A v \in Scanners : Held(v)' => Held(v)
    BY <2>1, ScannerNone DEF Held
  <2> QED
    BY <1>1, <2>1, <2>2, OnShrinks
<1>17. ASSUME NEW v \in Scanners, get(v)
       PROVE  Camera'
  <2>1. /\ UNCHANGED <<service, asker, got, current, cancelling, late>>
        /\ gets' = [gets EXCEPT ![v] = @ - 1]
    BY <1>17 DEF get, permission, manual
  <2>2. \A w \in Scanners : gets'[w] > 0 => gets[w] > 0
    BY <2>1, <1>17 DEF get, TypeOK
  <2>3. \A w \in Scanners : Held(w)' => Held(w)
    BY <2>1, <2>2 DEF Held
  <2> QED
    BY <1>2, <2>1, <2>3
<1> QED
  BY <1>4, <1>5, <1>6, <1>7, <1>8, <1>9, <1>10, <1>11, <1>12, <1>13, <1>14, <1>15,
     <1>16, <1>17 DEF Next

\* The scanner opened with the permission has the session in its view, which runs
\* or will, unless a barcode has stopped it, whose alert is there or will be.
Reads ==
    current # None /\ access = "granted" /\ ~asked =>
        /\ session # None /\ shows[current] = session
        /\ missed \/ session \in running \/ starts > 0 \/ gets[current] > 0
             \/ alert = "name"
        /\ stopping /\ got = current => missed \/ gets[current] > 0 \/ alert = "name"

(* No step takes the session from a scanner that still has to read.        *)
LEMMA ReadsStep ==
    ASSUME TypeOK, Visit, Asked, Reads, [Next]_vars
    PROVE  Reads'
<1>1. ASSUME UNCHANGED <<access, current, asked, session, shows, running, starts, gets,
                         stopping, got, missed>>,
             alert = "name" => alert' = "name"
      PROVE  Reads'
  BY <1>1 DEF Reads
<1>2. CASE UNCHANGED vars
  BY <1>1, <1>2 DEF vars, permission, service, queues, history
<1>3. ASSUME NEW v \in Scanners, Open(v)
      PROVE  Reads'
  <2>1. /\ current' = v /\ got' = got /\ got # v /\ starts' = starts + 1
        /\ shows' = [shows EXCEPT ![v] = session']
    BY <1>3 DEF Open, setupVideoLayer, Held
  <2>2. access' = "granted" /\ ~asked' => session' \in Sessions
    BY <1>3 DEF Open, setupSession, setupCaptureSession, permission
  <2>3. starts' > 0 /\ shows'[v] = session'
    BY <2>1 DEF TypeOK
  <2> QED
    BY <2>1, <2>2, <2>3, ScannerNone DEF Reads
<1>4. ASSUME NEW a, Answer(a)
      PROVE  Reads'
  <2>1. asked'
    BY <1>4 DEF Answer, Asked, history
  <2> QED
    BY <2>1 DEF Reads
<1>5. CASE Reply
  <2>1. CASE Granted
    BY <2>1 DEF Granted, Reads
  <2>2. CASE access = "denied"
    <3>1. access' = "denied"
      BY <1>5, <2>2 DEF Reply
    <3> QED
      BY <3>1 DEF Reads
  <2> QED
    BY <1>5, <2>1, <2>2 DEF Reply
<1>6. CASE ReplyGone \/ Back \/ SaveForm \/ NameOk
  <2>1. current' = None
    BY <1>6 DEF ReplyGone, Back, SaveForm, NameOk, Save, Leave
  <2> QED
    BY <2>1 DEF Reads
<1>7. CASE SettingsClicked \/ CancelClicked \/ ErrorOk \/ SaveFormEmpty
  <2>1. alert # "name"
    BY <1>7 DEF SettingsClicked, CancelClicked, ErrorOk, SaveFormEmpty, Touchable
  <2> QED
    BY <1>1, <1>7, <2>1 DEF SettingsClicked, CancelClicked, ErrorOk, SaveFormEmpty,
       permission, service, queues, history
<1>8. CASE Cancelled \/ indexChangeClicked
  BY <1>1, <1>8 DEF Cancelled, indexChangeClicked, permission, service, queues, history
<1>9. CASE startRunning
  <2>1. /\ UNCHANGED <<access, current, asked, session, shows, gets, stopping, got, missed,
                       alert>>
        /\ session # None => session \in running'
    BY <1>9 DEF startRunning, permission
  <2> QED
    BY <2>1 DEF Reads
<1>10. CASE Frame
  BY <1>1, <1>10 DEF Frame, permission, service, history
<1>11. CASE metadataOutput
  <2>1. /\ UNCHANGED <<access, current, asked, session, shows, running, starts, missed,
                       alert>>
        /\ gets' = Blocks(got')
    BY <1>11 DEF metadataOutput, permission, service, history
  <2>2. \A v \in Scanners : /\ gets[v] > 0 => gets'[v] > 0
                            /\ got' = v => gets'[v] > 0
    BY <2>1 DEF Blocks, TypeOK
  <2>3. current # None => current \in Scanners
    BY DEF TypeOK
  <2> QED
    BY <2>1, <2>2, <2>3 DEF Reads
<1>12. CASE stopRunning
  <2>1. /\ UNCHANGED <<access, current, asked, session, shows, starts, gets, alert>>
        /\ stopping /\ stopping' = FALSE
        /\ missed' <=> missed \/ got # current
    BY <1>12 DEF stopRunning, permission
  <2> QED
    BY <2>1 DEF Reads
<1>13. ASSUME NEW v \in Scanners, get(v)
       PROVE  Reads'
  <2>1. /\ UNCHANGED <<access, current, asked, session, shows, running, starts, stopping,
                       got>>
        /\ gets' = [gets EXCEPT ![v] = @ - 1]
    BY <1>13 DEF get, permission, service
  <2>2. CASE v = current
    <3>1. missed' \/ alert' = "name"
      BY <1>13, <2>2 DEF get, presentName
    <3> QED
      BY <2>1, <3>1 DEF Reads
  <2>3. CASE v # current
    <3>1. missed' = missed /\ alert' = alert
      BY <1>13, <2>3 DEF get, presentName, TypeOK
    <3>2. current # None => gets'[current] = gets[current]
      BY <2>1, <2>3 DEF TypeOK
    <3> QED
      BY <2>1, <3>1, <3>2 DEF Reads
  <2> QED
    BY <2>2, <2>3
<1> QED
  BY <1>2, <1>3, <1>4, <1>5, <1>6, <1>7, <1>8, <1>9, <1>10, <1>11, <1>12, <1>13 DEF Next

-----------------------------------------------------------------------------
(* The theorems of the scanner.                                            *)

\* The inductive invariant: its parts are kept one by one, each with the help of others.
ScannerInv == TypeOK /\ Visit /\ Asked /\ FormOnce /\ Camera /\ Reads

(* The strengthening of the properties of the scanner holds always.        *)
LEMMA ScannerInvariant == Spec => []ScannerInv
<1>1. Init => ScannerInv
  <2> SUFFICES ASSUME Init PROVE ScannerInv
    OBVIOUS
  <2>1. /\ 0 \in 0..MaxStarts /\ 0 \in 0..MaxBarcodes /\ 0 \in 0..2
        /\ [v \in Scanners |-> 0] \in [Scanners -> Nat]
        /\ [v \in Scanners |-> None] \in [Scanners -> Sessions \cup {None}]
    BY ScannerBounds
  <2>2. stopping \in BOOLEAN /\ asked \in BOOLEAN /\ missed \in BOOLEAN
    BY DEF Init
  <2>3. TypeOK
    BY <2>1, <2>2 DEF Init, TypeOK
  <2>4. Visit /\ Asked /\ FormOnce
    BY DEF Init, Visit, OneCardPerVisit, Asked, FormOnce
  <2>5. Camera /\ Reads
    BY DEF Init, Camera, Reads, On
  <2> QED
    BY <2>3, <2>4, <2>5 DEF ScannerInv
<1>2. ScannerInv /\ [Next]_vars => ScannerInv'
  BY TypeStep, VisitStep, AskedStep, FormOnceStep, CameraStep, ReadsStep DEF ScannerInv
<1> QED
  BY <1>1, <1>2, PTL DEF Spec

\* Away from the scanner the camera is off, whatever the queues still hold, but
\* for the sessions started or replaced too late (viewWillDisappear).
THEOREM CameraGoesOff == Spec => []CameraOff
<1>1. ScannerInv => CameraOff
  BY DEF ScannerInv, Camera, CameraOff
<1> QED
  BY <1>1, ScannerInvariant, PTL

\* A scanner opened with the permission reads barcodes and shows what it reads,
\* unless one of them stopped the camera in vain.
THEOREM ReadsAgain == Spec => []ScannerReads
<1>1. ScannerInv => ScannerReads
  <2> SUFFICES ASSUME ScannerInv, current # None, Quiet, alert = "nothing",
                      access = "granted", ~asked, ~missed
               PROVE  session \in On /\ shows[current] = session
    BY DEF ScannerReads
  <2>1. current \in Scanners
    BY DEF ScannerInv, TypeOK
  <2>2. ~(starts > 0) /\ ~(gets[current] > 0)
    BY <2>1 DEF Quiet
  <2>3. session \in running /\ shows[current] = session
    BY <2>2 DEF ScannerInv, Reads
  <2> QED
    BY <2>3 DEF On, Alive
<1> QED
  BY <1>1, ScannerInvariant, PTL

\* The form is on display when the segment says so, although it is added by two
\* ways and only the one added last is removed (indexChangeClicked,
\* cancelActionHandler).
THEOREM FormFollowsSegment == Spec => []ScannerConsistent
<1>1. ScannerInv => ScannerConsistent
  <2> SUFFICES ASSUME ScannerInv PROVE FormShown
    BY DEF ScannerInv, ScannerConsistent
  <2>1. CASE segment = "manual"
    BY <2>1 DEF ScannerInv, FormOnce, OwnForm, FormShown
  <2>2. CASE segment = "scan"
    BY <2>2 DEF ScannerInv, FormOnce, OwnForm, FormShown
  <2> QED
    BY <2>1, <2>2 DEF ScannerInv, TypeOK
<1> QED
  BY <1>1, ScannerInvariant, PTL

-----------------------------------------------------------------------------
(* The copies of the last card.                                            *)

CopyTypes ==
    /\ app \in {"off", "list", "loaded", "titled", "emptied", "filed", "named", "detail"}
    /\ shown \in Cards \cup {None} /\ title \in Cards \cup {None}
    /\ groupName \in Cards \cup {None} /\ groupImage \in Cards \cup {None}
    /\ label \in Cards \cup {None} /\ picture \in Cards \cup {None}
    /\ plist \in Cards \cup {None, Copies!Broken}
    /\ widget \in {"idle", "half"}
    /\ cut \in BOOLEAN /\ failed \in BOOLEAN /\ raced \in BOOLEAN

\* What a detail screen has written so far is of the card it shows.
Written ==
    /\ app \notin {"off", "list"} => shown \in Cards
    /\ app \in {"titled", "emptied", "filed", "named"} => title = shown
    /\ app = "emptied" => plist = Copies!Broken
    /\ app \in {"filed", "named"} => plist = shown \/ failed
    /\ app = "named" => groupName = shown

\* The defaults of the group are of one card but while the app is between the two of them,
\* or ended there; and before the first card there is nothing in them, nor in the widget.
Grouped ==
    /\ app # "named" /\ ~cut /\ groupImage # groupName => groupName \in Blank
    /\ groupName = None => groupImage = None /\ label = None /\ picture = None

\* The widget has read the name that is still there.
HalfRead ==
    widget = "half" /\ ~raced =>
        cut \/ app = "named" \/ groupName = None \/ label = groupName

CopyInv ==
    /\ CopyTypes /\ Written /\ Grouped /\ HalfRead
    /\ Copies!CopiesAgree /\ Copies!WidgetTrue /\ Copies!FileReadable

\* A card is not nil, nor a broken file.
LEMMA CardFacts ==
    /\ Blank \subseteq Cards /\ None \notin Cards
    /\ Copies!Broken \notin Cards /\ Copies!Broken # None
BY CopiesAssumption DEF Copies!LastCardAssumption

\* Every step keeps the types of the copies.
LEMMA CopyTypesStep ==
    ASSUME CopyTypes, Copies!Next
    PROVE  CopyTypes'
<1> USE DEF CopyTypes
<1>1. CASE Copies!Open
  BY <1>1 DEF Copies!Open
<1>2. CASE Copies!Back
  BY <1>2 DEF Copies!Back
<1>3. CASE Copies!Kill
  BY <1>3 DEF Copies!Kill
<1>4. ASSUME NEW c \in Cards, Copies!Detail(c)
      PROVE  CopyTypes'
  BY <1>4 DEF Copies!Detail
<1>5. CASE Copies!SetShortcutItem
  BY <1>5 DEF Copies!SetShortcutItem
<1>6. CASE Copies!EmptyPlist
  BY <1>6 DEF Copies!EmptyPlist
<1>7. CASE Copies!FillPlist
  BY <1>7 DEF Copies!FillPlist
<1>8. CASE Copies!PlistFails
  BY <1>8 DEF Copies!PlistFails
<1>9. CASE Copies!SetName
  BY <1>9 DEF Copies!SetName
<1>10. CASE Copies!SetImage
  BY <1>10 DEF Copies!SetImage
<1>11. CASE Copies!WidgetName
  BY <1>11 DEF Copies!WidgetName
<1>12. CASE Copies!WidgetImage
  BY <1>12 DEF Copies!WidgetImage
<1> QED
  BY <1>1, <1>2, <1>3, <1>4, <1>5, <1>6, <1>7, <1>8, <1>9, <1>10, <1>11, <1>12
     DEF Copies!Next

\* And the rest.
LEMMA CopyStep ==
    ASSUME CopyInv, Copies!Next
    PROVE  CopyInv'
<1> DEFINE Rest == /\ Written /\ Grouped /\ HalfRead
                   /\ Copies!CopiesAgree /\ Copies!WidgetTrue /\ Copies!FileReadable
<1>0. CopyTypes'
  BY CopyTypesStep DEF CopyInv
<1> USE CardFacts DEF CopyInv, CopyTypes, Written, Grouped, HalfRead, Copies!CopiesAgree,
        Copies!WidgetTrue, Copies!FileReadable, Copies!Writing
<1>1. CASE Copies!Open
  BY <1>0, <1>1 DEF Copies!Open
<1>2. CASE Copies!Back
  BY <1>0, <1>2 DEF Copies!Back
<1>3. CASE Copies!Kill
  BY <1>0, <1>3 DEF Copies!Kill
<1>4. ASSUME NEW c \in Cards, Copies!Detail(c)
      PROVE  Rest'
  BY <1>0, <1>4 DEF Copies!Detail
<1>5. CASE Copies!SetShortcutItem
  BY <1>0, <1>5 DEF Copies!SetShortcutItem
<1>6. CASE Copies!EmptyPlist
  BY <1>0, <1>6 DEF Copies!EmptyPlist
<1>7. CASE Copies!FillPlist
  BY <1>0, <1>7 DEF Copies!FillPlist
<1>8. CASE Copies!PlistFails
  BY <1>0, <1>8 DEF Copies!PlistFails
<1>9. CASE Copies!SetName
  BY <1>0, <1>9 DEF Copies!SetName
<1>10. CASE Copies!SetImage
  BY <1>0, <1>10 DEF Copies!SetImage
<1>11. CASE Copies!WidgetName
  <2>1. /\ UNCHANGED <<app, shown, title, plist, groupName, groupImage, picture, cut, failed>>
        /\ label' = (IF groupName = None THEN label ELSE groupName)
        /\ widget' = "half" /\ raced' = (app = "named" \/ cut)
    BY <1>11 DEF Copies!WidgetName
  <2>2. Written' /\ Copies!CopiesAgree' /\ Copies!FileReadable'
    BY <2>1
  <2>3. Grouped' /\ HalfRead' /\ Copies!WidgetTrue'
    BY <2>1
  <2> QED
    BY <1>0, <2>2, <2>3
<1>12. CASE Copies!WidgetImage
  <2>1. /\ UNCHANGED <<app, shown, title, plist, groupName, groupImage, label, cut, failed>>
        /\ picture' = (IF groupImage = None THEN picture ELSE groupImage)
        /\ widget = "half" /\ widget' = "idle" /\ raced' = (raced \/ app = "named" \/ cut)
    BY <1>12 DEF Copies!WidgetImage
  <2>2. Written' /\ Copies!CopiesAgree' /\ Copies!FileReadable'
    BY <2>1
  <2>3. Grouped' /\ HalfRead'
    BY <2>1
  <2>4. Copies!WidgetTrue'
    BY <2>1
  <2> QED
    BY <1>0, <2>2, <2>3, <2>4
<1> QED
  BY <1>0, <1>1, <1>2, <1>3, <1>4, <1>5, <1>6, <1>7, <1>8, <1>9, <1>10, <1>11, <1>12
     DEF Copies!Next

\* However the app ends and the widget looks, the three copies of a card that has loaded
\* agree, and the widget shows one card's name with its picture, but for what could not be
\* written or was read too early.
THEOREM CopiesStayTrue == Copies!Spec => []CopiesTrue
<1>1. Copies!Init => CopyInv
  BY CardFacts DEF Copies!Init, CopyInv, CopyTypes, Written, Grouped, HalfRead,
     Copies!CopiesAgree, Copies!WidgetTrue, Copies!FileReadable, Copies!Writing
<1>2. CopyInv /\ [Copies!Next]_(Copies!vars) => CopyInv'
  <2>1. CopyInv /\ UNCHANGED Copies!vars => CopyInv'
    BY DEF Copies!vars, CopyInv, CopyTypes, Written, Grouped, HalfRead,
       Copies!CopiesAgree, Copies!WidgetTrue, Copies!FileReadable, Copies!Writing
  <2> QED
    BY <2>1, CopyStep
<1>3. CopyInv => CopiesTrue
  <2> SUFFICES ASSUME CopyInv
               PROVE  CopiesTrue
    OBVIOUS
  <2>1. {cut, failed, raced} \subseteq BOOLEAN
    BY DEF CopyInv, CopyTypes
  <2> QED
    BY <2>1 DEF CopyInv, CopyTypes, CopiesTrue, Copies!TypeOK, Copies!Stored
<1> QED
  BY <1>1, <1>2, <1>3, PTL DEF Copies!Spec

-----------------------------------------------------------------------------
(* The reminder.                                                           *)

ReminderTypes ==
    /\ process \in {"front", "back", "off"}
    /\ switch \in {"idle", "registered", "saved"}
    /\ permitted \in {"undetermined", "granted", "denied"}
    /\ ask \in [Asks -> {"none", "asked", "on"}]
    /\ response \in {"none", "snooze", "dismiss"}
    /\ turnedOn \in BOOLEAN /\ center \in BOOLEAN /\ badges \in BOOLEAN
    /\ pending \in BOOLEAN /\ delivered \in BOOLEAN
    /\ accepted \in BOOLEAN /\ excused \in BOOLEAN /\ crossed \in BOOLEAN

\* An action on its way counts the badge down within its bound, and was chosen when its
\* notification was the only one.
Counted ==
    /\ badge \in -Below .. 1
    /\ response # "none" => badge > -Below
    /\ crossed \/ ~(delivered /\ response # "none")

\* Of a switch that is on and whose reminder iOS has not taken, the reminder or an answer is
\* still to come, or the permission is missing.  A switch that registers is off.
ReminderOwed ==
    /\ switch = "registered" => ~turnedOn
    /\ turnedOn /\ ~excused /\ ~accepted =>
          \/ switch = "saved"
          \/ \E a \in Asks : ask[a] # "none"
          \/ permitted # "granted"

ReminderInv == ReminderTypes /\ Counted /\ ReminderOwed /\ Reminder!BadgeTells

\* Every step keeps the types.
LEMMA ReminderTypesStep ==
    ASSUME ReminderTypes, Reminder!Next
    PROVE  ReminderTypes'
<1> USE DEF ReminderTypes
<1>1. ASSUME NEW a \in Asks, Reminder!registerLocalNotifications(a)
      PROVE  ReminderTypes'
  <2>1. /\ delivered' \in BOOLEAN /\ crossed' \in BOOLEAN /\ center' \in BOOLEAN
        /\ accepted' \in BOOLEAN /\ excused' \in BOOLEAN
    BY <1>1 DEF Reminder!registerLocalNotifications, Reminder!resetBadge
  <2>2. ask' \in [Asks -> {"none", "asked", "on"}]
    BY <1>1 DEF Reminder!registerLocalNotifications
  <2> QED
    BY <1>1, <2>1, <2>2 DEF Reminder!registerLocalNotifications
<1>2. ASSUME NEW a \in Asks, Reminder!Answer(a)
      PROVE  ReminderTypes'
  BY <1>2 DEF Reminder!Answer
<1>3. ASSUME NEW a \in Asks, Reminder!AnswerSends(a)
      PROVE  ReminderTypes'
  <2>1. pending' \in BOOLEAN /\ accepted' \in BOOLEAN
    BY <1>3 DEF Reminder!AnswerSends, Reminder!sendNotification
  <2>2. ask' \in [Asks -> {"none", "asked", "on"}]
    BY <1>3 DEF Reminder!AnswerSends
  <2> QED
    BY <1>3, <2>1, <2>2 DEF Reminder!AnswerSends
<1>4. CASE Reminder!SaveOn
  BY <1>4 DEF Reminder!SaveOn
<1>5. CASE Reminder!SwitchSends
  <2>1. pending' \in BOOLEAN /\ accepted' \in BOOLEAN
    BY <1>5 DEF Reminder!SwitchSends, Reminder!sendNotification
  <2> QED
    BY <1>5, <2>1 DEF Reminder!SwitchSends
<1>6. CASE Reminder!SwitchOff
  BY <1>6 DEF Reminder!SwitchOff
<1>7. CASE Reminder!didReceive
  <2>1. pending' \in BOOLEAN /\ accepted' \in BOOLEAN
    BY <1>7 DEF Reminder!didReceive, Reminder!sendNotification
  <2> QED
    BY <1>7, <2>1 DEF Reminder!didReceive
<1>8. CASE Reminder!Deliver
  <2>1. delivered' \in BOOLEAN /\ crossed' \in BOOLEAN /\ pending' \in BOOLEAN
    BY <1>8 DEF Reminder!Deliver
  <2> QED
    BY <1>8, <2>1 DEF Reminder!Deliver
<1>9. ASSUME NEW b \in {"snooze", "dismiss"}, Reminder!Press(b)
      PROVE  ReminderTypes'
  <2>1. /\ response' \in {b, "none"} /\ process' \in {"back", process}
        /\ UNCHANGED <<switch, permitted, ask>>
    BY <1>9 DEF Reminder!Press
  <2>2. /\ delivered' \in BOOLEAN
        /\ UNCHANGED <<turnedOn, center, badges, pending, accepted, excused, crossed>>
    BY <1>9 DEF Reminder!Press
  <2>3. /\ process' \in {"front", "back", "off"}
        /\ response' \in {"none", "snooze", "dismiss"}
    BY <2>1
  <2> QED
    BY <2>1, <2>2, <2>3
<1>10. ASSUME NEW front \in BOOLEAN, Reminder!Discard(front)
       PROVE  ReminderTypes'
  <2>1. /\ process' \in {"front", process}
        /\ UNCHANGED <<switch, permitted, ask, response>>
    BY <1>10 DEF Reminder!Discard
  <2>2. /\ delivered' \in BOOLEAN
        /\ UNCHANGED <<turnedOn, center, badges, pending, accepted, excused, crossed>>
    BY <1>10 DEF Reminder!Discard
  <2>3. process' \in {"front", "back", "off"}
    BY <2>1
  <2> QED
    BY <2>1, <2>2, <2>3
<1>11. ASSUME NEW to \in {"front", "back"}, Reminder!Show(to)
       PROVE  ReminderTypes'
  BY <1>11 DEF Reminder!Show
<1>12. CASE Reminder!Kill
  BY <1>12 DEF Reminder!Kill
<1>13. CASE Reminder!Settings
  BY <1>13 DEF Reminder!Settings
<1> QED
  BY <1>1, <1>2, <1>3, <1>4, <1>5, <1>6, <1>7, <1>8, <1>9, <1>10, <1>11, <1>12, <1>13
     DEF Reminder!Next

\* Every step keeps the badge.
LEMMA BadgeStep ==
    ASSUME ReminderTypes, Counted, Reminder!BadgeTells, Reminder!Next
    PROVE  Counted' /\ Reminder!BadgeTells'
<1>0. Below \in Nat \ {0}
  BY ReminderAssumption DEF Reminder!NotificationsAssumption
<1> USE DEF Counted, Reminder!BadgeTells
<1>1. ASSUME NEW a \in Asks, Reminder!registerLocalNotifications(a)
      PROVE  Counted' /\ Reminder!BadgeTells'
  <2>1. /\ badge' = 0 /\ ~delivered' /\ response' = response
        /\ response # "none" \/ crossed => crossed'
    BY <1>1 DEF Reminder!registerLocalNotifications, Reminder!resetBadge
  <2> QED
    BY <1>0, <2>1
<1>2. ASSUME NEW a \in Asks, Reminder!Answer(a)
      PROVE  Counted' /\ Reminder!BadgeTells'
  BY <1>2 DEF Reminder!Answer
<1>3. ASSUME NEW a \in Asks, Reminder!AnswerSends(a)
      PROVE  Counted' /\ Reminder!BadgeTells'
  BY <1>3 DEF Reminder!AnswerSends, Reminder!sendNotification
<1>4. CASE Reminder!SaveOn
  BY <1>4 DEF Reminder!SaveOn
<1>5. CASE Reminder!SwitchSends
  BY <1>5 DEF Reminder!SwitchSends, Reminder!sendNotification
<1>6. CASE Reminder!SwitchOff
  BY <1>6 DEF Reminder!SwitchOff
<1>7. CASE Reminder!didReceive
  <2>1. /\ response # "none" /\ badge' = badge - 1 /\ response' = "none"
        /\ UNCHANGED <<delivered, crossed>>
    BY <1>7 DEF Reminder!didReceive
  <2>2. badge' \in -Below .. 1 /\ (badge = 1 => badge' >= 0)
    BY <1>0, <2>1
  <2> QED
    BY <2>1, <2>2
<1>8. CASE Reminder!Deliver
  <2>1. response' = response
    BY <1>8 DEF Reminder!Deliver
  <2>2. \/ UNCHANGED <<delivered, badge, crossed>>
        \/ badge' \in {1, badge} /\ crossed'
        \/ badge' = 1 /\ response = "none"
    BY <1>8 DEF Reminder!Deliver
  <2>3. badge' \in -Below .. 1 /\ (response # "none" => badge' > -Below)
    BY <1>0, <2>2
  <2>4. CASE UNCHANGED <<delivered, badge, crossed>>
    BY <2>1, <2>4
  <2>5. CASE crossed'
    BY <2>1, <2>3, <2>5
  <2>6. CASE badge' = 1 /\ response = "none"
    BY <2>1, <2>3, <2>6
  <2> QED
    BY <2>2, <2>4, <2>5, <2>6
<1>9. ASSUME NEW b \in {"snooze", "dismiss"}, Reminder!Press(b)
      PROVE  Counted' /\ Reminder!BadgeTells'
  <2>1. /\ delivered /\ ~delivered' /\ badge > -Below
        /\ UNCHANGED <<badge, crossed>>
    BY <1>9 DEF Reminder!Press
  <2> QED
    BY <2>1
<1>10. ASSUME NEW front \in BOOLEAN, Reminder!Discard(front)
       PROVE  Counted' /\ Reminder!BadgeTells'
  BY <1>10 DEF Reminder!Discard
<1>11. ASSUME NEW to \in {"front", "back"}, Reminder!Show(to)
       PROVE  Counted' /\ Reminder!BadgeTells'
  BY <1>11 DEF Reminder!Show
<1>12. CASE Reminder!Kill
  BY <1>12 DEF Reminder!Kill
<1>13. CASE Reminder!Settings
  BY <1>13 DEF Reminder!Settings
<1> QED
  BY <1>1, <1>2, <1>3, <1>4, <1>5, <1>6, <1>7, <1>8, <1>9, <1>10, <1>11, <1>12, <1>13
     DEF Reminder!Next

\* Every step keeps what is owed.
LEMMA OwedStep ==
    ASSUME ReminderTypes, ReminderOwed, Reminder!Next
    PROVE  ReminderOwed'
<1> USE DEF ReminderTypes, ReminderOwed
<1>1. ASSUME NEW a \in Asks, Reminder!registerLocalNotifications(a)
      PROVE  ReminderOwed'
  BY <1>1 DEF Reminder!registerLocalNotifications, Reminder!resetBadge
<1>2. ASSUME NEW a \in Asks, Reminder!Answer(a)
      PROVE  ReminderOwed'
  BY <1>2 DEF Reminder!Answer
<1>3. ASSUME NEW a \in Asks, Reminder!AnswerSends(a)
      PROVE  ReminderOwed'
  BY <1>3 DEF Reminder!AnswerSends, Reminder!sendNotification
<1>4. CASE Reminder!SaveOn
  BY <1>4 DEF Reminder!SaveOn
<1>5. CASE Reminder!SwitchSends
  BY <1>5 DEF Reminder!SwitchSends, Reminder!sendNotification
<1>6. CASE Reminder!SwitchOff
  BY <1>6 DEF Reminder!SwitchOff
<1>7. CASE Reminder!didReceive
  BY <1>7 DEF Reminder!didReceive, Reminder!sendNotification
<1>8. CASE Reminder!Deliver
  BY <1>8 DEF Reminder!Deliver
<1>9. ASSUME NEW b \in {"snooze", "dismiss"}, Reminder!Press(b)
      PROVE  ReminderOwed'
  BY <1>9 DEF Reminder!Press
<1>10. ASSUME NEW front \in BOOLEAN, Reminder!Discard(front)
       PROVE  ReminderOwed'
  BY <1>10 DEF Reminder!Discard
<1>11. ASSUME NEW to \in {"front", "back"}, Reminder!Show(to)
       PROVE  ReminderOwed'
  BY <1>11 DEF Reminder!Show
<1>12. CASE Reminder!Kill
  BY <1>12 DEF Reminder!Kill
<1>13. CASE Reminder!Settings
  BY <1>13 DEF Reminder!Settings
<1> QED
  BY <1>1, <1>2, <1>3, <1>4, <1>5, <1>6, <1>7, <1>8, <1>9, <1>10, <1>11, <1>12, <1>13
     DEF Reminder!Next

\* So every step keeps the invariant.
LEMMA ReminderStep ==
    ASSUME ReminderInv, Reminder!Next
    PROVE  ReminderInv'
BY ReminderTypesStep, BadgeStep, OwedStep DEF ReminderInv

\* It holds from the start, and whatever happens.
LEMMA ReminderInvariant == Reminder!Spec => []ReminderInv
<1>1. Reminder!Init => ReminderInv
  <2> SUFFICES ASSUME Reminder!Init
               PROVE  ReminderInv
    OBVIOUS
  <2>1. Below \in Nat \ {0}
    BY ReminderAssumption DEF Reminder!NotificationsAssumption
  <2>2. ReminderTypes
    BY DEF Reminder!Init, ReminderTypes
  <2>3. Counted
    BY <2>1 DEF Reminder!Init, Counted
  <2>4. ReminderOwed /\ Reminder!BadgeTells
    BY DEF Reminder!Init, ReminderOwed, Reminder!BadgeTells
  <2> QED
    BY <2>2, <2>3, <2>4 DEF ReminderInv
<1>2. ReminderInv /\ [Reminder!Next]_(Reminder!vars) => ReminderInv'
  <2>1. ReminderInv /\ UNCHANGED Reminder!vars => ReminderInv'
    BY DEF Reminder!vars, ReminderInv, ReminderTypes, Counted, ReminderOwed, Reminder!BadgeTells
  <2> QED
    BY <2>1, ReminderStep
<1> QED
  BY <1>1, <1>2, PTL DEF Reminder!Spec

\* The badge tells what is on display, and a switch that is on has its reminder, however
\* late and in whatever order the answers, deliveries and actions come.
THEOREM ReminderStaysTrue == Reminder!Spec => []ReminderTrue
<1>1. ReminderInv => ReminderTrue
  <2> SUFFICES ASSUME ReminderInv
               PROVE  ReminderTrue
    OBVIOUS
  <2>1. {turnedOn, center, badges, pending, delivered, accepted, excused, crossed}
            \subseteq BOOLEAN
    BY DEF ReminderInv, ReminderTypes
  <2>2. Reminder!TypeOK
    BY <2>1 DEF ReminderInv, ReminderTypes, Counted, Reminder!TypeOK
  <2>3. Reminder!OnMeansReminded
    BY DEF ReminderInv, ReminderTypes, ReminderOwed, Reminder!OnMeansReminded
  <2> QED
    BY <2>2, <2>3 DEF ReminderInv, ReminderTrue
<1> QED
  BY <1>1, ReminderInvariant, PTL

\* Once the reminder is off and the last one is gone, no answer that comes late brings one
\* back: only the switch does.
THEOREM OffStaysOff == Reminder!Spec => OffStaysQuiet
<1>1. ReminderInv /\ [Reminder!Next]_(Reminder!vars)
         => [Reminder!Quiet => Reminder!Quiet' \/ switch' = "registered"]_(Reminder!vars)
  <2> SUFFICES ASSUME ReminderTypes, Reminder!Next, Reminder!Quiet, switch' # "registered"
               PROVE  Reminder!Quiet'
    BY DEF ReminderInv
  <2> USE DEF ReminderTypes, Reminder!Quiet
  <2>1. ASSUME NEW a \in Asks, Reminder!Answer(a)
        PROVE  Reminder!Quiet'
    BY <2>1 DEF Reminder!Answer
  <2>2. ASSUME NEW front \in BOOLEAN, Reminder!Discard(front)
        PROVE  Reminder!Quiet'
    BY <2>2 DEF Reminder!Discard
  <2>3. ASSUME NEW to \in {"front", "back"}, Reminder!Show(to)
        PROVE  Reminder!Quiet'
    BY <2>3 DEF Reminder!Show
  <2>4. CASE Reminder!Kill
    BY <2>4 DEF Reminder!Kill
  <2>5. CASE Reminder!Settings
    BY <2>5 DEF Reminder!Settings
  \* The others need something that a quiet reminder does not have.
  <2>6. ASSUME NEW a \in Asks
        PROVE  ~Reminder!registerLocalNotifications(a) /\ ~Reminder!AnswerSends(a)
    BY DEF Reminder!registerLocalNotifications, Reminder!AnswerSends
  <2>7. /\ ~Reminder!SaveOn /\ ~Reminder!SwitchSends /\ ~Reminder!SwitchOff
        /\ ~Reminder!didReceive /\ ~Reminder!Deliver
        /\ \A b \in {"snooze", "dismiss"} : ~Reminder!Press(b)
    BY DEF Reminder!SaveOn, Reminder!SwitchSends, Reminder!SwitchOff, Reminder!didReceive,
           Reminder!Deliver, Reminder!Press
  <2> QED
    BY <2>1, <2>2, <2>3, <2>4, <2>5, <2>6, <2>7 DEF Reminder!Next
<1> QED
  BY <1>1, ReminderInvariant, PTL DEF Reminder!Spec, OffStaysQuiet, Reminder!OffStaysQuiet

-----------------------------------------------------------------------------
(* The parts together.                                                     *)

\* Each part of the device behaves as it does alone.
THEOREM PartsApart == AllSpec => Spec /\ Copies!Spec /\ Reminder!Spec
<1>1. AllInit => Init /\ Copies!Init /\ Reminder!Init
  BY DEF AllInit
<1>2. [AllNext]_<<vars, copyVars, reminderVars>> =>
          [Next]_vars /\ [Copies!Next]_(Copies!vars) /\ [Reminder!Next]_(Reminder!vars)
  <2>1. UNCHANGED copyVars => UNCHANGED Copies!vars
    BY DEF copyVars, Copies!vars
  <2>2. UNCHANGED reminderVars => UNCHANGED Reminder!vars
    BY DEF reminderVars, Reminder!vars
  <2> QED
    BY <2>1, <2>2 DEF AllNext
<1> QED
  BY <1>1, <1>2, PTL DEF AllSpec, Spec, Copies!Spec, Reminder!Spec
=============================================================================
