--------------------------- MODULE CardStoreProofs ---------------------------
(***************************************************************************)
(* Theorems about CardStore, for any accounts, keys, contents, notes and   *)
(* URLs: the types; no record mixes the contents of one edit with the      *)
(* picture of another, and a record loses its picture only to an edit of   *)
(* the same card; the database keeps the promise of CardLedger and signing *)
(* in that of Session; a record in the wrong account or without contents   *)
(* has the origin the code leaves open; Home's list agrees with the        *)
(* database; and a removed card stays away.                                *)
(***************************************************************************)
EXTENDS CardStore, CardStoreLedger, CardStoreSession, SequenceTheorems, TLAPS

-----------------------------------------------------------------------------
(* Types of the data.                                                      *)

(* The empty values have the types of their variables.                     *)
LEMMA EmptyTypes ==
    /\ Absent \in Record
    /\ NoCards \in [Ids -> Record]
    /\ NoDetail \in Detail
    /\ Unused \in Upload
BY DEF Record, Absent, NoCards, NoDetail, Detail, Unused, Upload, UploadStates,
       Ids, Users

(* What the code writes and reads are records.                             *)
LEMMA RecordTypes ==
    /\ \A d \in Contents : NewCard(d) \in Record
    /\ \A r \in Record : Card(r) \in Record
    /\ \A r \in Record, d \in Contents \cup {None}, x \in Urls \cup {None} :
            Updated(r, d, x) \in Record
    /\ \A r \in Record, n \in Notes : Annotated(r, n) \in Record
    /\ \A a \in Accounts : Request(a) \in Load
BY EmptyTypes DEF Record, NewCard, Card, Updated, Annotated, Request, Load

(* A snapshot is a list.                                                   *)
LEMMA SnapshotType ==
    ASSUME db \in [Accounts -> [Uids -> Record]], NEW a \in Accounts
    PROVE  Snapshot(a) \in [Ids -> Record]
BY EmptyTypes, RecordTypes DEF Snapshot, Ids

(* An answered request is a load.                                          *)
LEMMA AnsweredType ==
    ASSUME db \in [Accounts -> [Uids -> Record]], NEW q \in Load
    PROVE  Answered(q) \in Load
BY SnapshotType DEF Answered, Load

(* A list that is touched stays a list.                                    *)
LEMMA TouchType ==
    ASSUME NEW list \in [Ids -> Record], NEW u \in Ids, NEW r \in Record
    PROVE  Touch(list, u, r) \in [Ids -> Record]
BY DEF Touch

(* Types of the state.  Each part of TypeOK is named for the actions that
   change it.                                                              *)

TypeApp ==
    /\ user \in Users /\ loggedIn \in BOOLEAN /\ screen \in Screens
    /\ away \in BOOLEAN /\ strayed \in BOOLEAN

TypeCloud ==
    /\ db \in [Accounts -> [Uids -> Record]]
    /\ storage \subseteq Urls /\ deleting \subseteq Urls
    /\ uploads \in [Urls -> Upload]

TypeHome ==
    /\ loaded \in BOOLEAN
    /\ cards \in [Ids -> Record] /\ found \in [Ids -> Record]
    /\ search \in {"off", "fresh", "stale"}
    /\ loads \in Seq(Load) /\ Len(loads) <= MaxLoads
    /\ delegate \in BOOLEAN
    /\ detail \in Detail

TypeHistory ==
    /\ creator \in [Uids -> Users]
    /\ removed \subseteq Uids /\ raced \subseteq Ids

(* TypeOK, part by part.                                                   *)
LEMMA TypeParts == TypeOK <=> TypeApp /\ TypeCloud /\ TypeHome /\ TypeHistory
BY DEF TypeOK, TypeApp, TypeCloud, TypeHome, TypeHistory

(* A new window has the types of Home.                                     *)
LEMMA RootType ==
    ASSUME NEW s, NEW reqs \in Seq(Load), Len(reqs) <= MaxLoads, Root(s, reqs)
    PROVE  TypeHome' /\ raced' \subseteq Ids
BY EmptyTypes DEF Root, TypeHome

(* The first request of a window is within the bound of loads.             *)
LEMMA RequestsType ==
    ASSUME NEW a \in Users
    PROVE  Requests(a) \in Seq(Load) /\ Len(Requests(a)) <= MaxLoads
<1>1. CASE a = None
  <2>1. Requests(a) = <<>>
    BY <1>1 DEF Requests
  <2> QED
    BY <2>1, MaxLoadsAssumption
<1>2. CASE a # None
  <2>1. Request(a) \in Load
    BY <1>2, RecordTypes DEF Users
  <2>2. Requests(a) = <<Request(a)>>
    BY <1>2 DEF Requests
  <2> QED
    BY <2>1, <2>2, MaxLoadsAssumption
<1> QED
  BY <1>1, <1>2

(* Starting Home keeps its types.                                          *)
LEMMA StartHomeType ==
    ASSUME NEW a \in Users, StartHome(a)
    PROVE  TypeHome' /\ raced' \subseteq Ids
BY RootType, RequestsType DEF StartHome

(* A window without Home keeps its types.                                  *)
LEMMA StartLoginType ==
    ASSUME NEW s, Root(s, <<>>)
    PROVE  TypeHome' /\ raced' \subseteq Ids
<1>1. <<>> \in Seq(Load) /\ Len(<<>>) <= MaxLoads
  BY MaxLoadsAssumption
<1> QED
  BY <1>1, RootType

(* Whatever the window starts with, the types are kept.                    *)
LEMMA PresentType ==
    ASSUME TypeApp, presentCurrentUserUI
    PROVE  TypeHome' /\ raced' \subseteq Ids /\ screen' \in {"home", "login"}
<1>1. CASE loggedIn
  <2>1. StartHome(user) /\ user \in Users
    BY <1>1 DEF presentCurrentUserUI, TypeApp
  <2>2. screen' = "home"
    BY <2>1 DEF StartHome, Root
  <2> QED
    BY <2>1, <2>2, StartHomeType
<1>2. CASE ~loggedIn
  <2>1. Root("login", <<>>)
    BY <1>2 DEF presentCurrentUserUI
  <2>2. screen' = "login"
    BY <2>1 DEF Root
  <2> QED
    BY <2>1, <2>2, StartLoginType
<1> QED
  BY <1>1, <1>2

-----------------------------------------------------------------------------
(* Type correctness.                                                       *)

Types == TypeApp /\ TypeCloud /\ TypeHome /\ TypeHistory

\* A list, a load and a shown card all belong to a saved user; the user is
\* never forgotten.
SignedIn ==
    loaded \/ loads # <<>> \/ screen \in {"detail", "edit"} => user \in Accounts

\* No list, snapshot, screen or upload is about the empty uid.
Named ==
    /\ NamedChildren
    /\ ~Listed(cards[EmptyUid]) /\ ~Listed(found[EmptyUid])
    /\ \A i \in 1..Len(loads) : ~Listed(loads[i].cards[EmptyUid])

(* The steps of the window's root and of signing in keep the types.        *)
LEMMA SessionTypes ==
    ASSUME Types, Session
    PROVE  Types'
<1> USE DEF Types
<1>1. CASE Launch
  <2>1. TypeHome' /\ raced' \subseteq Ids /\ screen' \in {"home", "login"}
    BY <1>1, PresentType DEF Launch
  <2> QED
    BY <1>1, <2>1 DEF Launch, cloud, TypeApp, TypeCloud, TypeHistory, Screens
<1>2. CASE OpenSearch
  <2>1. TypeHome' /\ raced' \subseteq Ids /\ screen' \in {"home", "login"}
    BY <1>2, PresentType DEF OpenSearch
  <2> QED
    BY <1>2, <2>1 DEF OpenSearch, cloud, TypeApp, TypeCloud, TypeHistory, Screens
<1>3. CASE Kill
  <2>1. TypeHome' /\ raced' \subseteq Ids
    BY <1>3, StartLoginType DEF Kill
  <2>2. screen' = "off"
    BY <1>3 DEF Kill, Root
  <2>3. uploads' \in [Urls -> Upload]
    BY <1>3 DEF Kill, TypeCloud, Upload, UploadStates
  <2> QED
    BY <1>3, <2>1, <2>2, <2>3
       DEF Kill, TypeApp, TypeCloud, TypeHistory, Screens
<1>4. CASE BeginSignIn
  BY <1>4 DEF BeginSignIn, cloud, home, history, TypeApp, TypeCloud, TypeHome,
              TypeHistory, Screens
<1>5. CASE SignInFailed
  BY <1>5 DEF SignInFailed, cloud, home, history, TypeApp, TypeCloud, TypeHome,
              TypeHistory, Screens
<1>6. CASE SignInAwayFailed
  BY <1>6 DEF SignInAwayFailed, cloud, home, history, TypeApp, TypeCloud,
              TypeHome, TypeHistory
<1>7. CASE LogOut
  <2>1. TypeHome' /\ raced' \subseteq Ids
    BY <1>7, StartLoginType DEF LogOut
  <2>2. screen' = "login"
    BY <1>7 DEF LogOut, Root
  <2> QED
    BY <1>7, <2>1, <2>2
       DEF LogOut, cloud, TypeApp, TypeCloud, TypeHistory, Screens
<1>8. ASSUME NEW a \in Accounts, SignInDone(a)
      PROVE  Types'
  <2>1. TypeHome' /\ raced' \subseteq Ids
    BY <1>8, StartHomeType DEF SignInDone, Users
  <2>2. screen' = "home"
    BY <1>8 DEF SignInDone, StartHome, Root
  <2> QED
    BY <1>8, <2>1, <2>2
       DEF SignInDone, cloud, TypeApp, TypeCloud, TypeHistory, Screens, Users
<1>9. ASSUME NEW a \in Accounts, SignInAwayDone(a)
      PROVE  Types'
  BY <1>9 DEF SignInAwayDone, cloud, home, history, TypeApp, TypeCloud,
              TypeHome, TypeHistory, Users
<1> QED
  BY <1>1, <1>2, <1>3, <1>4, <1>5, <1>6, <1>7, <1>8, <1>9 DEF Session

(* The steps of loading and searching the list keep the types.             *)
LEMMA ListTypes ==
    ASSUME Types, List
    PROVE  Types'
<1> USE DEF Types
<1>1. CASE LoadSnapshot
  <2>1. PICK i \in 1..Len(loads) : loads' = [loads EXCEPT ![i] = Answered(loads[i])]
    BY <1>1 DEF LoadSnapshot
  <2>2. Answered(loads[i]) \in Load
    BY ElementOfSeq, AnsweredType DEF TypeHome, TypeCloud
  <2>3. loads' \in Seq(Load) /\ Len(loads') = Len(loads)
    BY <2>1, <2>2, ExceptSeq DEF TypeHome
  <2> QED
    BY <1>1, <2>3 DEF LoadSnapshot, app, cloud, history, TypeApp, TypeCloud,
                      TypeHome, TypeHistory
<1>2. CASE LoadDeliver
  <2>1. Head(loads) \in Load /\ Tail(loads) \in Seq(Load)
        /\ Len(Tail(loads)) <= MaxLoads
    <3>1. loads # <<>> /\ loads \in Seq(Load)
      BY <1>2 DEF LoadDeliver, TypeHome
    <3>2. Len(loads) \in Nat /\ Len(Tail(loads)) = Len(loads) - 1
      BY <3>1, HeadTailProperties, LenProperties
    <3> QED
      BY <3>1, <3>2, HeadTailProperties, MaxLoadsAssumption DEF TypeHome
  <2>2. Head(loads).cards \in [Ids -> Record]
    BY <2>1 DEF Load
  <2> QED
    BY <1>2, <2>1, <2>2 DEF LoadDeliver, app, cloud, history, TypeApp, TypeCloud,
                            TypeHome, TypeHistory
<1>3. ASSUME NEW D \in SUBSET Contents, Search(D)
      PROVE  Types'
  <2>1. found' \in [Ids -> Record]
    BY <1>3, EmptyTypes DEF Search, TypeHome
  <2> QED
    BY <1>3, <2>1 DEF Search, app, cloud, history, TypeApp, TypeCloud, TypeHome,
                      TypeHistory
<1>4. CASE EndSearch
  BY <1>4, EmptyTypes DEF EndSearch, app, cloud, history, TypeApp, TypeCloud,
                          TypeHome, TypeHistory
<1> QED
  BY <1>1, <1>2, <1>3, <1>4 DEF List

(* The steps of adding, annotating, editing and deleting a card keep the
   types.                                                                  *)
LEMMA EditingTypes ==
    ASSUME Types, SignedIn, Named, Editing
    PROVE  Types'
<1> USE DEF Types
<1>1. CASE OpenScanner
  BY <1>1 DEF OpenScanner, cloud, history, TypeApp, TypeCloud, TypeHome,
              TypeHistory, Screens
<1>2. CASE CloseScanner
  BY <1>2 DEF CloseScanner, cloud, history, TypeApp, TypeCloud, TypeHome,
              TypeHistory, Screens
<1>3. ASSUME NEW d \in Contents, SaveCard(d)
      PROVE  Types'
  <2>1. PICK id \in NewIds :
          /\ IF id = EmptyUid
             THEN UNCHANGED <<db, creator>>
             ELSE /\ db' = [db EXCEPT ![user][id] = NewCard(d)]
                  /\ creator' = [creator EXCEPT ![id] = user]
          /\ IF delegate THEN userDidEnterCard(id, d) ELSE UNCHANGED cards
          /\ raced' = IF SnapshotOut \/ (loaded /\ ~delegate)
                      THEN raced \cup {id} ELSE raced
    BY <1>3 DEF SaveCard, userDidEnterCard
  <2>2. id \in Ids /\ NewCard(d) \in Record
    BY RecordTypes DEF NewIds, Ids
  <2>3. db' \in [Accounts -> [Uids -> Record]] /\ creator' \in [Uids -> Users]
    BY <2>1, <2>2 DEF TypeCloud, TypeHistory, TypeApp
  <2>4. cards' \in [Ids -> Record] /\ raced' \subseteq Ids
    BY <2>1, <2>2 DEF userDidEnterCard, TypeHome, TypeHistory
  <2> QED
    BY <1>3, <2>3, <2>4 DEF SaveCard, userDidEnterCard, TypeApp, TypeCloud,
       TypeHome, TypeHistory,
                            Screens
<1>4. ASSUME NEW u \in Ids, OpenDetail(u)
      PROVE  Types'
  <2>1. detail' \in Detail
    BY <1>4 DEF OpenDetail, Detail, Shown, TypeHome, Record
  <2> QED
    BY <1>4, <2>1 DEF OpenDetail, cloud, history, TypeApp, TypeCloud, TypeHome,
                      TypeHistory, Screens
<1>5. CASE CloseDetail
  BY <1>5, EmptyTypes DEF CloseDetail, cloud, history, TypeApp, TypeCloud,
                          TypeHome, TypeHistory, Screens
<1>6. ASSUME NEW n \in Notes, SaveNotes(n)
      PROVE  Types'
  <2>1. detail.uid \in Ids /\ cards[detail.uid] \in Record
    BY DEF TypeHome, Detail
  <2>2. cards' \in [Ids -> Record] /\ found' \in [Ids -> Record]
    BY <1>6, <2>1, RecordTypes, TouchType DEF SaveNotes, TouchBoth, TypeHome
  <2>3. db' \in [Accounts -> [Uids -> Record]]
    BY <1>6, RecordTypes DEF SaveNotes, TypeCloud
  <2> QED
    BY <1>6, <2>1, <2>2, <2>3
       DEF SaveNotes, app, TypeApp, TypeCloud, TypeHome, TypeHistory
<1>7. CASE OpenEdit
  BY <1>7 DEF OpenEdit, cloud, home, history, TypeApp, TypeCloud, TypeHome,
              TypeHistory, Screens
<1>8. CASE CancelEdit
  BY <1>8 DEF CancelEdit, cloud, home, history, TypeApp, TypeCloud, TypeHome,
              TypeHistory, Screens
<1>9. ASSUME NEW d \in Contents, NEW x \in Urls, SaveEdit(d, x)
      PROVE  Types'
  <2>1. /\ detail.uid \in Ids /\ cards[detail.uid] \in Record
        /\ detail.url \in Urls \cup {None}
    BY DEF TypeHome, Detail
  <2>2. cards' \in [Ids -> Record] /\ found' \in [Ids -> Record]
    <3>1. Updated(cards[detail.uid], d, None) \in Record
      BY <2>1, RecordTypes
    <3> QED
      BY <1>9, <2>1, <3>1, TouchType DEF SaveEdit, updateCardInDbAndNotify,
         userDidUpdateData, TouchBoth, TypeHome
  <2>3. uploads' \in [Urls -> Upload]
    <3>1. [st |-> "putting", uid |-> detail.uid, data |-> d, old |-> detail.url,
           from |-> user, to |-> None] \in Upload
      BY <2>1 DEF Upload, UploadStates, Users, TypeApp
    <3> QED
      BY <1>9, <3>1 DEF SaveEdit, updateCardInDbAndNotify, userDidUpdateData,
         TypeCloud
  <2>4. detail' \in Detail /\ deleting' \subseteq Urls
    BY <1>9, <2>1 DEF SaveEdit, updateCardInDbAndNotify, userDidUpdateData,
       OldImage, Detail, TypeHome, TypeCloud
  <2> QED
    BY <1>9, <2>2, <2>3, <2>4 DEF SaveEdit, updateCardInDbAndNotify,
       userDidUpdateData, history, TypeApp, TypeCloud,
                                  TypeHome, TypeHistory, Screens
<1>10. CASE DeleteCard
  <2>1. user \in Accounts
    BY <1>10 DEF DeleteCard, SignedIn
  <2>2. Request(user) \in Load
    BY <2>1, RecordTypes
  <2>3. loads' \in Seq(Load) /\ Len(loads') <= MaxLoads
    <3>1. loads' = Append(loads, Request(user)) /\ loads \in Seq(Load)
          /\ Len(loads) < MaxLoads
      BY <1>10 DEF DeleteCard, TypeHome
    <3>2. loads' \in Seq(Load) /\ Len(loads') = Len(loads) + 1
      BY <2>2, <3>1, AppendProperties
    <3> QED
      BY <3>1, <3>2, LenProperties, MaxLoadsAssumption
  <2>4. db' \in [Accounts -> [Uids -> Record]]
    BY <1>10, EmptyTypes DEF DeleteCard, TypeCloud
  <2>5. deleting' \subseteq Urls
    BY <1>10 DEF DeleteCard, OldImage, TypeCloud, TypeHome, Detail
  <2>6. removed' \subseteq Uids
    BY <1>10 DEF DeleteCard, TypeHistory, Named, NamedChildren
  <2> QED
    BY <1>10, <2>3, <2>4, <2>5, <2>6, EmptyTypes
       DEF DeleteCard, TypeApp, TypeCloud, TypeHome, TypeHistory, Screens
<1> QED
  BY <1>1, <1>2, <1>3, <1>4, <1>5, <1>6, <1>7, <1>8, <1>9, <1>10 DEF Editing

(* The completions of Storage keep the types.                              *)
LEMMA PicturesTypes ==
    ASSUME Types, Pictures
    PROVE  Types'
<1> USE DEF Types
<1>1. ASSUME NEW x \in Urls, UploadStored(x)
      PROVE  Types'
  BY <1>1 DEF UploadStored, app, home, history, TypeApp, TypeCloud, TypeHome,
              TypeHistory, Upload, UploadStates
<1>2. ASSUME NEW x \in Urls, UploadDone(x)
      PROVE  Types'
  <2>1. uploads[x] \in Upload
    BY DEF TypeCloud
  <2>2. uploads' \in [Urls -> Upload]
    BY <1>2, <2>1 DEF UploadDone, TypeCloud, TypeApp, Upload, UploadStates
  <2>3. db' \in [Accounts -> [Uids -> Record]]
    <3>1. uploads[x].data \in Contents \cup {None}
      BY <2>1 DEF Upload
    <3>2. \A r \in Record : Updated(r, uploads[x].data, x) \in Record
      BY <3>1, RecordTypes
    <3> QED
      BY <1>2, <3>2 DEF UploadDone, TypeCloud
  <2> QED
    BY <1>2, <2>2, <2>3 DEF UploadDone, app, home, history, TypeApp, TypeCloud,
                            TypeHome, TypeHistory
<1>3. ASSUME NEW x \in Urls, UploadLost(x)
      PROVE  Types'
  BY <1>3 DEF UploadLost, app, home, history, TypeApp, TypeCloud, TypeHome,
              TypeHistory, Upload, UploadStates
<1>4. ASSUME NEW x \in Urls, ImageDeleted(x)
      PROVE  Types'
  BY <1>4 DEF ImageDeleted, app, home, history, TypeApp, TypeCloud, TypeHome,
              TypeHistory
<1> QED
  BY <1>1, <1>2, <1>3, <1>4 DEF Pictures

(* The user that lists, loads and card screens need is not forgotten.      *)
LEMMA SignedInStep ==
    ASSUME Types, SignedIn, Next
    PROVE  SignedIn'
<1> USE DEF SignedIn
<1>1. ASSUME NEW a \in Users, StartHome(a), user' = a
      PROVE  SignedIn'
  BY <1>1 DEF StartHome, Root, Requests, Users
<1>2. ASSUME NEW s \in {"login", "off"}, Root(s, <<>>)
      PROVE  SignedIn'
  BY <1>2 DEF Root
<1>3. ASSUME presentCurrentUserUI, user' = user
      PROVE  SignedIn'
  BY <1>1, <1>2, <1>3 DEF presentCurrentUserUI, Types, TypeApp
<1>4. CASE Session
  BY <1>4, <1>1, <1>2, <1>3
     DEF Session, Launch, OpenSearch, Kill, BeginSignIn, SignInFailed,
         SignInAwayFailed, LogOut, SignInDone, SignInAwayDone, home, Users
<1>5. CASE List
  <2>1. LoadSnapshot => loads # <<>>
    BY DEF LoadSnapshot, Types, TypeHome
  <2> QED
    BY <1>5, <2>1 DEF List, LoadSnapshot, LoadDeliver, Search, EndSearch, app
<1>6. CASE Editing
  BY <1>6 DEF Editing, OpenScanner, CloseScanner, SaveCard, OpenDetail,
              CloseDetail, SaveNotes, OpenEdit, CancelEdit, SaveEdit,
              updateCardInDbAndNotify,
              userDidUpdateData,
              DeleteCard, app, home
<1>7. CASE Pictures
  BY <1>7 DEF Pictures, UploadStored, UploadDone, UploadLost, ImageDeleted,
              app, home
<1> QED
  BY <1>4, <1>5, <1>6, <1>7 DEF Next

-----------------------------------------------------------------------------
(* The empty uid never gets onto a screen or into an upload.               *)

(* A new window knows nothing of the empty uid.                            *)
LEMMA RootNamed ==
    ASSUME NEW s \in {"home", "login", "off"}, NEW a \in Users,
           Root(s, <<>>) \/ Root(s, Requests(a)),
           \A x \in Urls : uploads'[x].st # "unused" => uploads'[x].uid \in Uids
    PROVE  Named'
<1>1. /\ screen' = s /\ cards' = NoCards /\ found' = NoCards
      /\ loads' = <<>> \/ loads' = Requests(a)
  BY DEF Root
<1>2. ~Listed(NoCards[EmptyUid])
  BY DEF NoCards, Listed, Absent, Ids
<1>3. \A i \in 1..Len(loads') : loads'[i].cards = NoCards
  <2>1. CASE a = None
    BY <1>1, <2>1 DEF Requests
  <2>2. CASE a # None
    BY <1>1, <2>2 DEF Requests, Request
  <2> QED
    BY <2>1, <2>2
<1> QED
  BY <1>1, <1>2, <1>3 DEF Named, NamedChildren

(* Whatever the window starts with, the empty uid is not shown.            *)
LEMMA PresentNamed ==
    ASSUME Types, Named, presentCurrentUserUI, uploads' = uploads
    PROVE  Named'
<1>1. \A x \in Urls : uploads'[x].st # "unused" => uploads'[x].uid \in Uids
  BY DEF Named, NamedChildren
<1> QED
  BY <1>1, RootNamed DEF presentCurrentUserUI, StartHome, Types, TypeApp

(* The card saved with nobody signed in gets onto no list and no screen.   *)
LEMMA NamedStep ==
    ASSUME Types, SignedIn, Named, Next
    PROVE  Named'
<1>0. EmptyUid \in Ids /\ EmptyUid \notin Uids
  BY NoneAssumption DEF Ids
<1> USE DEF Named
<1>1. CASE Launch \/ OpenSearch
  BY <1>1, PresentNamed DEF Launch, OpenSearch, cloud
<1>2. CASE LogOut
  <2>1. \A x \in Urls : uploads'[x].st # "unused" => uploads'[x].uid \in Uids
    BY <1>2 DEF LogOut, cloud, NamedChildren
  <2> QED
    BY <1>2, <2>1, RootNamed DEF LogOut, Users
<1>3. CASE Kill
  <2>1. \A x \in Urls : uploads'[x].st # "unused" => uploads'[x].uid \in Uids
    BY <1>3 DEF Kill, NamedChildren, InFlight, Types, TypeCloud, Upload
  <2> QED
    BY <1>3, <2>1, RootNamed DEF Kill, Users
<1>4. ASSUME NEW a \in Accounts, SignInDone(a)
      PROVE  Named'
  <2>1. \A x \in Urls : uploads'[x].st # "unused" => uploads'[x].uid \in Uids
    BY <1>4 DEF SignInDone, cloud, NamedChildren
  <2> QED
    BY <1>4, <2>1, RootNamed DEF SignInDone, StartHome, Users
<1>5. CASE BeginSignIn \/ SignInFailed \/ SignInAwayFailed
           \/ \E a \in Accounts : SignInAwayDone(a)
  BY <1>5 DEF BeginSignIn, SignInFailed, SignInAwayFailed, SignInAwayDone,
              cloud, home, NamedChildren
<1>6. CASE LoadSnapshot
  <2>1. PICK i \in 1..Len(loads) : loads' = [loads EXCEPT ![i] = Answered(loads[i])]
    BY <1>6 DEF LoadSnapshot
  <2>2. Answered(loads[i]) \in Load /\ ~Listed(Answered(loads[i]).cards[EmptyUid])
    <3>1. loads[i] \in Load
      BY ElementOfSeq DEF Types, TypeHome
    <3>2. Answered(loads[i]).cards = Snapshot(loads[i].of)
      BY <3>1 DEF Answered, Load
    <3>3. ~Listed(Snapshot(loads[i].of)[EmptyUid])
      BY <1>0 DEF Snapshot, Listed, Absent
    <3> QED
      BY <3>1, <3>2, <3>3, AnsweredType DEF Types, TypeCloud
  <2>3. /\ Len(loads') = Len(loads)
        /\ \A j \in 1..Len(loads) :
              loads'[j] = IF j = i THEN Answered(loads[i]) ELSE loads[j]
    BY <2>1, <2>2, ExceptSeq DEF Types, TypeHome
  <2> QED
    BY <1>6, <2>2, <2>3 DEF LoadSnapshot, app, cloud, NamedChildren
<1>7. CASE LoadDeliver
  <2>1. loads # <<>> /\ loads \in Seq(Load) /\ Len(loads) \in Nat \ {0}
    BY <1>7, EmptySeq DEF LoadDeliver, Types, TypeHome
  <2>2. Head(loads) = loads[1]
    BY <2>1
  <2>3. /\ Len(Tail(loads)) = Len(loads) - 1
        /\ \A i \in 1..Len(Tail(loads)) : Tail(loads)[i] = loads[i + 1]
    BY <2>1, HeadTailProperties
  <2>4. ~Listed(cards'[EmptyUid])
    BY <1>7, <2>1, <2>2 DEF LoadDeliver
  <2>5. \A i \in 1..Len(loads') : ~Listed(loads'[i].cards[EmptyUid])
    BY <1>7, <2>1, <2>3 DEF LoadDeliver
  <2> QED
    BY <1>7, <2>4, <2>5 DEF LoadDeliver, app, cloud, NamedChildren
<1>8. ASSUME NEW D \in SUBSET Contents, Search(D)
      PROVE  Named'
  <2>1. ~Listed(found'[EmptyUid])
    BY <1>0, <1>8 DEF Search, Listed, Absent
  <2> QED
    BY <1>8, <2>1 DEF Search, app, cloud, NamedChildren
<1>9. CASE EndSearch
  <2>1. ~Listed(found'[EmptyUid])
    BY <1>0, <1>9 DEF EndSearch, NoCards, Listed, Absent
  <2> QED
    BY <1>9, <2>1 DEF EndSearch, app, cloud, NamedChildren
<1>10. CASE OpenScanner \/ CloseScanner \/ CloseDetail \/ OpenEdit \/ CancelEdit
  BY <1>10 DEF OpenScanner, CloseScanner, CloseDetail, OpenEdit, CancelEdit,
               cloud, home, NamedChildren
<1>11. ASSUME NEW d \in Contents, SaveCard(d)
       PROVE  Named'
  <2>1. CASE delegate /\ loaded
    <3>1. user \in Accounts
      BY <2>1 DEF SignedIn
    <3>2. NewIds \subseteq Uids
      BY <3>1, NoneAssumption DEF NewIds
    <3>3. cards'[EmptyUid] = cards[EmptyUid]
      BY <1>0, <1>11, <2>1, <3>2 DEF SaveCard, userDidEnterCard, Types, TypeHome
    <3> QED
      BY <1>11, <3>3 DEF SaveCard, userDidEnterCard, NamedChildren
  <2>2. CASE ~(delegate /\ loaded)
    BY <1>11, <2>2 DEF SaveCard, userDidEnterCard, NamedChildren
  <2> QED
    BY <2>1, <2>2
<1>12. ASSUME NEW u \in Ids, OpenDetail(u)
       PROVE  Named'
  <2>1. u \in Uids
    BY <1>12 DEF OpenDetail, Shown, Ids
  <2> QED
    BY <1>12, <2>1 DEF OpenDetail, cloud, NamedChildren
<1>13. ASSUME NEW n \in Notes, SaveNotes(n)
       PROVE  Named'
  <2>1. ~Listed(cards'[EmptyUid]) /\ ~Listed(found'[EmptyUid])
    BY <1>0, <1>13 DEF SaveNotes, TouchBoth, Touch, Types, TypeHome
  <2> QED
    BY <1>13, <2>1 DEF SaveNotes, app, NamedChildren
<1>14. ASSUME NEW d \in Contents, NEW x \in Urls, SaveEdit(d, x)
       PROVE  Named'
  <2>1. ~Listed(cards'[EmptyUid]) /\ ~Listed(found'[EmptyUid])
    BY <1>0, <1>14 DEF SaveEdit, updateCardInDbAndNotify, userDidUpdateData,
       TouchBoth, Touch, Types, TypeHome
  <2>2. detail.uid \in Uids /\ detail'.uid = detail.uid
    BY <1>14 DEF SaveEdit, updateCardInDbAndNotify, userDidUpdateData,
       NamedChildren, Types, TypeHome, Detail
  <2>3. \A y \in Urls : uploads'[y].st # "unused" => uploads'[y].uid \in Uids
    BY <1>14, <2>2 DEF SaveEdit, updateCardInDbAndNotify, userDidUpdateData,
       NamedChildren, Types, TypeCloud
  <2> QED
    BY <1>14, <2>1, <2>2, <2>3 DEF SaveEdit, updateCardInDbAndNotify,
       userDidUpdateData, NamedChildren
<1>15. CASE DeleteCard
  <2>1. user \in Accounts
    BY <1>15 DEF DeleteCard, SignedIn
  <2>2. Request(user) \in Load /\ loads \in Seq(Load)
    BY <2>1, RecordTypes DEF Types, TypeHome
  <2>3. loads' = Append(loads, Request(user))
    BY <1>15 DEF DeleteCard
  <2>4. ~Listed(Request(user).cards[EmptyUid])
    BY <1>0 DEF Request, NoCards, Listed, Absent
  <2>5. \A i \in 1..Len(loads') : ~Listed(loads'[i].cards[EmptyUid])
    BY <2>2, <2>3, <2>4, AppendProperties, LenProperties
  <2> QED
    BY <1>15, <2>5 DEF DeleteCard, NamedChildren
<1>16. CASE Pictures
  <2>1. uploads \in [Urls -> Upload]
    BY DEF Types, TypeCloud
  <2>2. \A x \in Urls : /\ uploads'[x].uid = uploads[x].uid
                        /\ uploads'[x].st # "unused" => uploads[x].st # "unused"
    <3>1. ASSUME NEW y \in Urls,
                 UploadStored(y) \/ UploadDone(y) \/ UploadLost(y)
          PROVE  \A x \in Urls :
                    /\ uploads'[x].uid = uploads[x].uid
                    /\ uploads'[x].st # "unused" => uploads[x].st # "unused"
      <4>1. uploads[y].st # "unused"
        BY <3>1 DEF UploadStored, UploadDone, UploadLost, InFlight
      <4>2. \A x \in Urls : x # y => uploads'[x] = uploads[x]
        BY <2>1, <3>1 DEF UploadStored, UploadDone, UploadLost
      <4>3. uploads'[y].uid = uploads[y].uid
        BY <2>1, <3>1 DEF UploadStored, UploadDone, UploadLost, Upload
      <4> QED
        BY <4>1, <4>2, <4>3
    <3>2. ASSUME NEW y \in Urls, ImageDeleted(y)
          PROVE  uploads' = uploads
      BY <3>2 DEF ImageDeleted
    <3> QED
      BY <1>16, <3>1, <3>2 DEF Pictures
  <2>3. \A x \in Urls : uploads'[x].st # "unused" => uploads'[x].uid \in Uids
    BY <2>2 DEF NamedChildren
  <2> QED
    BY <1>16, <2>3 DEF Pictures, UploadStored, UploadDone, UploadLost,
                       ImageDeleted, app, home, NamedChildren
<1> QED
  BY <1>1, <1>2, <1>3, <1>4, <1>5, <1>6, <1>7, <1>8, <1>9, <1>10, <1>11, <1>12,
     <1>13, <1>14, <1>15, <1>16 DEF Next, Session, List, Editing

-----------------------------------------------------------------------------
(* The first theorems.                                                     *)

(* The invariant holds when the app is installed.                          *)
LEMMA InitInvariant == Init => Types /\ SignedIn /\ Named
<1> SUFFICES ASSUME Init
             PROVE  Types /\ SignedIn /\ Named
  OBVIOUS
<1>1. <<>> \in Seq(Load) /\ Len(<<>>) <= MaxLoads
  BY MaxLoadsAssumption
<1>2. Types
  BY <1>1, EmptyTypes DEF Init, Types, TypeApp, TypeCloud, TypeHome, TypeHistory,
                          Users, Screens
<1>3. SignedIn
  BY DEF Init, SignedIn
<1>4. Named
  <2>1. \A x \in Urls : uploads[x].st = "unused"
    BY DEF Init, Unused
  <2>2. ~Listed(NoCards[EmptyUid])
    BY DEF NoCards, Listed, Absent, Ids
  <2> QED
    BY <2>1, <2>2 DEF Init, Named, NamedChildren
<1> QED
  BY <1>2, <1>3, <1>4

(* The invariant is inductive.                                             *)
LEMMA NextInvariant ==
    Types /\ SignedIn /\ Named /\ [Next]_vars => (Types /\ SignedIn /\ Named)'
<1> SUFFICES ASSUME Types, SignedIn, Named, [Next]_vars
             PROVE  (Types /\ SignedIn /\ Named)'
  OBVIOUS
<1>1. CASE Next
  BY <1>1, SessionTypes, ListTypes, EditingTypes, PicturesTypes, SignedInStep,
     NamedStep DEF Next
<1>2. CASE UNCHANGED vars
  BY <1>2 DEF vars, app, cloud, home, history, Types, TypeApp, TypeCloud,
              TypeHome, TypeHistory, SignedIn, Named, NamedChildren
<1> QED
  BY <1>1, <1>2

\* The types need that a card screen is open for a saved user only, and that no key is empty.
THEOREM Invariant == Spec => [](Types /\ SignedIn /\ Named)
<1>1. Init => Types /\ SignedIn /\ Named
  BY InitInvariant
<1>2. Types /\ SignedIn /\ Named /\ [Next]_vars => (Types /\ SignedIn /\ Named)'
  BY NextInvariant
<1> QED
  BY <1>1, <1>2, PTL DEF Spec

(* Every state of CardStore has the types of TypeOK.                       *)
THEOREM TypeCorrect == Spec => []TypeOK
<1>1. Types => TypeOK
  BY TypeParts DEF Types
<1> QED
  BY <1>1, Invariant, PTL

(* No card screen and no edit is ever about the empty uid saveCard returns when
   nobody is signed in, for which child(withUID) would throw.              *)
THEOREM NoEmptyUid == Spec => []NamedChildren
<1>1. Named => NamedChildren
  BY DEF Named
<1> QED
  BY <1>1, Invariant, PTL

-----------------------------------------------------------------------------
(* Which steps change the database, Storage and the uploads.               *)

(* Kill, the four writes and the completions of Storage change the cloud.  *)
LEMMA CloudSteps ==
    ASSUME Next
    PROVE  \/ UNCHANGED cloud
           \/ Kill \/ DeleteCard
           \/ \E d \in Contents : SaveCard(d)
           \/ \E n \in Notes : SaveNotes(n)
           \/ \E d \in Contents, x \in Urls : SaveEdit(d, x)
           \/ \E x \in Urls : \/ UploadStored(x) \/ UploadDone(x)
                              \/ UploadLost(x) \/ ImageDeleted(x)
<1>1. CASE Session
  BY <1>1 DEF Session, Launch, OpenSearch, BeginSignIn, SignInFailed,
              SignInAwayFailed, LogOut, SignInDone, SignInAwayDone
<1>2. CASE List
  BY <1>2 DEF List, LoadSnapshot, LoadDeliver, Search, EndSearch
<1>3. CASE Editing
  BY <1>3 DEF Editing, OpenScanner, CloseScanner, OpenDetail, CloseDetail,
              OpenEdit, CancelEdit
<1>4. CASE Pictures
  BY <1>4 DEF Pictures
<1> QED
  BY <1>1, <1>2, <1>3, <1>4 DEF Next

(* An upload that is done stays as it is.                                  *)
LEMMA DoneStays ==
    ASSUME Types, Next, NEW x \in Urls, uploads[x].st = "done"
    PROVE  uploads'[x] = uploads[x]
<1>1. uploads \in [Urls -> Upload]
  BY DEF Types, TypeCloud
<1>2. CASE Kill
  BY <1>1, <1>2 DEF Kill, InFlight
<1>3. ASSUME NEW d \in Contents, NEW y \in Urls, SaveEdit(d, y)
      PROVE  uploads'[x] = uploads[x]
  BY <1>1, <1>3 DEF SaveEdit, updateCardInDbAndNotify, userDidUpdateData
<1>4. ASSUME NEW y \in Urls, UploadStored(y) \/ UploadDone(y) \/ UploadLost(y)
      PROVE  uploads'[x] = uploads[x]
  BY <1>1, <1>4 DEF UploadStored, UploadDone, UploadLost, InFlight
<1>5. CASE \/ UNCHANGED cloud \/ DeleteCard
           \/ \E d \in Contents : SaveCard(d)
           \/ \E n \in Notes : SaveNotes(n)
           \/ \E y \in Urls : ImageDeleted(y)
  BY <1>5 DEF cloud, DeleteCard, SaveCard, SaveNotes, ImageDeleted
<1> QED
  BY CloudSteps, <1>2, <1>3, <1>4, <1>5

-----------------------------------------------------------------------------
(* A record's picture and contents come from the same edit.                *)

(* A record gets the contents of the edit that brings its picture.         *)
LEMMA TornStep ==
    ASSUME Types, NoTornEdit, Next
    PROVE  NoTornEdit'
<1> SUFFICES ASSUME NEW a \in Accounts, NEW u \in Uids, db'[a][u].url # None
             PROVE  LET x == db'[a][u].url IN
                    /\ uploads'[x].st = "done"
                    /\ uploads'[x].uid = u
                    /\ uploads'[x].to = a
                    /\ uploads'[x].data = db'[a][u].data
  BY DEF NoTornEdit
<1>1. /\ db \in [Accounts -> [Uids -> Record]]
      /\ uploads \in [Urls -> Upload]
  BY DEF Types, TypeCloud
<1>2. CASE /\ db'[a][u].url = db[a][u].url
           /\ db'[a][u].data = db[a][u].data
  <2>1. db[a][u].url \in Urls /\ uploads[db[a][u].url].st = "done"
    BY <1>1, <1>2 DEF NoTornEdit, Record
  <2>2. uploads'[db[a][u].url] = uploads[db[a][u].url]
    BY <2>1, DoneStays
  <2> QED
    BY <1>2, <2>2 DEF NoTornEdit
<1>3. CASE UNCHANGED db
  BY <1>2, <1>3
<1>4. ASSUME NEW d \in Contents, SaveCard(d)
      PROVE  db'[a][u] = db[a][u] \/ db'[a][u].url = None
  <2>1. PICK id \in NewIds : \/ db' = db
                             \/ db' = [db EXCEPT ![user][id] = NewCard(d)]
    BY <1>4 DEF SaveCard, userDidEnterCard
  <2> QED
    BY <1>1, <2>1 DEF NewCard
<1>5. ASSUME NEW n \in Notes, SaveNotes(n)
      PROVE  /\ db'[a][u].url = db[a][u].url
             /\ db'[a][u].data = db[a][u].data
  <2>1. db' = [db EXCEPT ![user][detail.uid] = Annotated(@, n)]
    BY <1>5 DEF SaveNotes
  <2>2. db'[a][u] = db[a][u] \/ db'[a][u] = Annotated(db[a][u], n)
    BY <1>1, <2>1
  <2>3. db[a][u] \in Record
    BY <1>1
  <2> QED
    BY <2>2, <2>3 DEF Annotated, Record
<1>6. ASSUME DeleteCard
      PROVE  db'[a][u] = db[a][u] \/ db'[a][u].url = None
  BY <1>1, <1>6 DEF DeleteCard, Absent
<1>7. ASSUME NEW y \in Urls, UploadDone(y)
      PROVE  \/ db'[a][u] = db[a][u]
             \/ /\ a = user /\ u = uploads[y].uid
                /\ db'[a][u] = Updated(db[a][u], uploads[y].data, y)
  BY <1>1, <1>7 DEF UploadDone
<1>8. ASSUME NEW y \in Urls, UploadDone(y), a = user, u = uploads[y].uid,
             db'[a][u] = Updated(db[a][u], uploads[y].data, y)
      PROVE  LET x == db'[a][u].url IN
             /\ uploads'[x].st = "done"
             /\ uploads'[x].uid = u
             /\ uploads'[x].to = a
             /\ uploads'[x].data = db'[a][u].data
  <2>1. db'[a][u].url = y /\ db'[a][u].data = uploads[y].data
    <3>1. db[a][u] \in Record
      BY <1>1
    <3> QED
      BY <1>8, <3>1 DEF Updated, Record
  <2>2. /\ uploads'[y].st = "done" /\ uploads'[y].to = user
        /\ uploads'[y].uid = uploads[y].uid
        /\ uploads'[y].data = uploads[y].data
    BY <1>1, <1>8 DEF UploadDone, Upload
  <2> QED
    BY <1>8, <2>1, <2>2
<1>9. CASE \/ UNCHANGED cloud \/ Kill
           \/ \E d \in Contents, y \in Urls : SaveEdit(d, y)
           \/ \E y \in Urls : UploadStored(y) \/ UploadLost(y) \/ ImageDeleted(y)
  BY <1>3, <1>9 DEF cloud, Kill, SaveEdit, updateCardInDbAndNotify,
      userDidUpdateData, UploadStored, UploadLost, ImageDeleted
<1>10. CASE (\E d \in Contents : SaveCard(d)) \/ DeleteCard
  BY <1>2, <1>4, <1>6, <1>10
<1>11. CASE \E n \in Notes : SaveNotes(n)
  BY <1>2, <1>5, <1>11
<1>12. CASE \E y \in Urls : UploadDone(y)
  BY <1>2, <1>7, <1>8, <1>12
<1> QED
  BY CloudSteps, <1>9, <1>10, <1>11, <1>12

(* Whatever the order of uploads, edits, removals, sign-ins and kills, a record
   that has a picture has the contents it was uploaded with.               *)
THEOREM EditsAreWhole == Spec => []NoTornEdit
<1>1. Init => NoTornEdit
  BY DEF Init, NoTornEdit, Absent
<1>2. Types /\ NoTornEdit /\ [Next]_vars => NoTornEdit'
  <2>1. UNCHANGED vars /\ NoTornEdit => NoTornEdit'
    BY DEF vars, cloud, NoTornEdit
  <2> QED
    BY <2>1, TornStep
<1> QED
  BY <1>1, <1>2, Invariant, PTL DEF Spec

-----------------------------------------------------------------------------
(* What the screens know of pictures.                                      *)

\* x is the picture an edit of u put into the current user's database.
PictureOf(x, u) ==
    /\ uploads[x].st = "done"
    /\ uploads[x].uid = u
    /\ strayed \/ uploads[x].to = user

CopiesOf(list) ==
    \A u \in Ids : list[u].url # None => PictureOf(list[u].url, u)

\* Every picture a list, a snapshot or a screen shows was in the database of
\* the user whose Home is open.
Copies ==
    /\ CopiesOf(cards) /\ CopiesOf(found)
    /\ \A i \in 1..Len(loads) : /\ CopiesOf(loads[i].cards)
                                /\ strayed \/ loads[i].of = user
    /\ detail.url # None => PictureOf(detail.url, detail.uid)

\* Outside Home there are no copies at all.
Blank ==
    screen \notin HomeScreens =>
        cards = NoCards /\ found = NoCards /\ loads = <<>> /\ detail = NoDetail

(* A window without Home holds no copies.                                  *)
LEMMA BlankStep ==
    ASSUME Types, Blank, Next
    PROVE  Blank'
<1> USE DEF Blank
<1>1. ASSUME NEW a, StartHome(a)
      PROVE  Blank'
  BY <1>1 DEF StartHome, Root, HomeScreens
<1>2. ASSUME NEW s, Root(s, <<>>)
      PROVE  Blank'
  BY <1>2 DEF Root
<1>3. CASE Session
  BY <1>1, <1>2, <1>3
     DEF Session, Launch, OpenSearch, presentCurrentUserUI, Kill, BeginSignIn,
         SignInFailed, SignInAwayFailed, LogOut, SignInDone, SignInAwayDone,
         home, HomeScreens
<1>4. CASE List
  <2>1. LoadSnapshot => loads # <<>>
    BY DEF LoadSnapshot, Types, TypeHome
  <2> QED
    BY <1>4, <2>1 DEF List, LoadSnapshot, LoadDeliver, Search, EndSearch, app,
                      HomeScreens
<1>5. CASE Editing
  BY <1>5 DEF Editing, OpenScanner, CloseScanner, SaveCard, OpenDetail,
              CloseDetail, SaveNotes, OpenEdit, CancelEdit, SaveEdit,
              updateCardInDbAndNotify,
              userDidUpdateData,
              DeleteCard, app, HomeScreens
<1>6. CASE Pictures
  BY <1>6 DEF Pictures, UploadStored, UploadDone, UploadLost, ImageDeleted,
              app, home
<1> QED
  BY <1>3, <1>4, <1>5, <1>6 DEF Next

(* A user who changes under an open Home strays.                           *)
LEMMA UserSteps ==
    ASSUME Next
    PROVE  /\ strayed => strayed'
           /\ \/ user' = user \/ strayed'
              \/ screen \notin HomeScreens /\ UNCHANGED home
              \/ \E a \in Accounts : StartHome(a) /\ user' = a
<1>1. CASE Session
  <2>1. CASE \E a \in Accounts : SignInAwayDone(a)
    <3>1. PICK a \in Accounts : SignInAwayDone(a)
      BY <2>1
    <3>2. strayed' <=> (strayed \/ (user' # user /\ screen \in HomeScreens))
      BY <3>1 DEF SignInAwayDone
    <3>3. UNCHANGED home
      BY <3>1 DEF SignInAwayDone
    <3> QED
      BY <3>2, <3>3
  <2>2. CASE \E a \in Accounts : SignInDone(a)
    BY <2>2 DEF SignInDone
  <2>3. CASE \/ Launch \/ OpenSearch \/ Kill \/ BeginSignIn \/ SignInFailed
             \/ SignInAwayFailed \/ LogOut
    BY <2>3 DEF Launch, OpenSearch, Kill, BeginSignIn, SignInFailed,
                SignInAwayFailed, LogOut
  <2> QED
    BY <1>1, <2>1, <2>2, <2>3 DEF Session
<1>2. CASE List
  BY <1>2 DEF List, LoadSnapshot, LoadDeliver, Search, EndSearch, app
<1>3. CASE Editing
  BY <1>3 DEF Editing, OpenScanner, CloseScanner, SaveCard, OpenDetail,
              CloseDetail, SaveNotes, OpenEdit, CancelEdit, SaveEdit,
              updateCardInDbAndNotify,
              userDidUpdateData,
              DeleteCard, app
<1>4. CASE Pictures
  <2>1. UNCHANGED app
    BY <1>4 DEF Pictures, UploadStored, UploadDone, UploadLost, ImageDeleted
  <2> QED
    BY <2>1 DEF app
<1> QED
  BY <1>1, <1>2, <1>3, <1>4 DEF Next

\* PictureOf in the next state, of an x and a u of this one.
PictureNext(x, u) ==
    /\ uploads'[x].st = "done"
    /\ uploads'[x].uid = u
    /\ strayed' \/ uploads'[x].to = user'

(* A picture that is the user's stays it while the user stays.             *)
LEMMA PictureStays ==
    ASSUME Types, Next, user' = user \/ strayed',
           NEW x \in Urls, NEW u, PictureOf(x, u)
    PROVE  PictureNext(x, u)
BY DoneStays, UserSteps DEF PictureOf, PictureNext

\* Every picture of a list is one in the next state.
PicturesNext(list) ==
    \A u \in Ids : list[u].url # None => PictureNext(list[u].url, u)

\* The pictures of the requests and their answers, in the next state.
LoadsNext(list) ==
    \A i \in 1..Len(list) : /\ PicturesNext(list[i].cards)
                            /\ strayed' \/ list[i].of = user'

(* The pictures of a list stay the user's while the user stays.            *)
LEMMA CopiesStay ==
    ASSUME Types, Next, user' = user \/ strayed',
           NEW list \in [Ids -> Record], CopiesOf(list),
           NEW u \in Ids, list[u].url # None
    PROVE  PictureNext(list[u].url, u)
<1>1. list[u].url \in Urls
  BY DEF Record
<1> QED
  BY <1>1, PictureStays DEF CopiesOf

\* The copies of the next state, list by list.
LEMMA CopiesNext ==
    ASSUME PicturesNext(cards'), PicturesNext(found'), LoadsNext(loads'),
           detail'.url # None => PictureNext(detail'.url, detail'.uid)
    PROVE  Copies'
<1>1. \A x, u : PictureNext(x, u) => PictureOf(x, u)'
  BY DEF PictureNext, PictureOf
<1>2. CopiesOf(cards)' /\ CopiesOf(found)'
  BY <1>1 DEF PicturesNext, CopiesOf
<1>3. \A i \in 1..Len(loads') : CopiesOf(loads[i].cards)'
  BY <1>1 DEF LoadsNext, PicturesNext, CopiesOf
<1>4. \A i \in 1..Len(loads') : strayed' \/ loads'[i].of = user'
  BY DEF LoadsNext
<1>5. (detail.url # None => PictureOf(detail.url, detail.uid))'
  BY <1>1
<1> QED
  BY <1>2, <1>3, <1>4, <1>5 DEF Copies

(* A new window has no picture and asks for its own user.                  *)
LEMMA RootCopies ==
    ASSUME NEW s, NEW a \in Users,
           Root(s, <<>>) \/ (Root(s, Requests(a)) /\ user' = a)
    PROVE  Copies'
<1>1. /\ cards' = NoCards /\ found' = NoCards /\ detail' = NoDetail
      /\ loads' = <<>> \/ (loads' = Requests(a) /\ user' = a)
  BY DEF Root
<1>2. \A u \in Ids : NoCards[u].url = None
  BY DEF NoCards, Absent
<1>3. \A i \in 1..Len(loads') : loads'[i].cards = NoCards /\ loads'[i].of = user'
  <2>1. CASE a = None
    BY <1>1, <2>1 DEF Requests
  <2>2. CASE a # None
    BY <1>1, <2>2 DEF Requests, Request
  <2> QED
    BY <2>1, <2>2
<1>4. detail'.url = None
  BY <1>1 DEF NoDetail
<1> QED
  BY <1>1, <1>2, <1>3, <1>4 DEF Copies, CopiesOf

(* What a snapshot of the user's database shows.                           *)
LEMMA SnapshotCopies ==
    ASSUME Types, NoTornEdit, NEW a \in Accounts, strayed \/ a = user
    PROVE  CopiesOf(Snapshot(a))
<1> SUFFICES ASSUME NEW u \in Ids, Snapshot(a)[u].url # None
             PROVE  PictureOf(Snapshot(a)[u].url, u)
  BY DEF CopiesOf
<1>1. u \in Uids /\ Snapshot(a)[u] = db[a][u]
  BY DEF Snapshot, Card, Absent
<1> QED
  BY <1>1 DEF NoTornEdit, PictureOf

(* Copies are of the database of the user whose Home is open.              *)
LEMMA CopiesStep ==
    ASSUME Types, SignedIn, NoTornEdit, Blank, Copies, Next
    PROVE  Copies'
<1> USE DEF Types
<1>1. CASE \E a \in Accounts : StartHome(a) /\ user' = a
  BY <1>1, RootCopies DEF StartHome, Users
<1>2. CASE screen \notin HomeScreens /\ UNCHANGED home
  <2>1. /\ cards' = NoCards /\ found' = NoCards
        /\ loads' = <<>> /\ detail' = NoDetail
    BY <1>2 DEF Blank, home
  <2>2. NoDetail.url = None /\ \A u \in Ids : NoCards[u].url = None
    BY DEF NoCards, Absent, NoDetail
  <2> QED
    BY <2>1, <2>2 DEF Copies, CopiesOf
<1>3. CASE user' = user \/ strayed'
  <2>c. PicturesNext(cards)
    BY <1>3, CopiesStay DEF Copies, TypeHome, PicturesNext
  <2>f. PicturesNext(found)
    BY <1>3, CopiesStay DEF Copies, TypeHome, PicturesNext
  <2>l. LoadsNext(loads)
    <3> SUFFICES ASSUME NEW i \in 1..Len(loads)
                 PROVE  PicturesNext(loads[i].cards) /\ (strayed' \/ loads[i].of = user')
      BY DEF LoadsNext
    <3>1. loads[i] \in Load
      BY ElementOfSeq DEF TypeHome
    <3>2. loads[i].cards \in [Ids -> Record] /\ CopiesOf(loads[i].cards)
      BY <3>1 DEF Load, Copies
    <3>3. strayed' \/ loads[i].of = user'
      BY <1>3, UserSteps DEF Copies
    <3> QED
      BY <1>3, <3>2, <3>3, CopiesStay DEF PicturesNext
  <2>d. detail.url # None => PictureNext(detail.url, detail.uid)
    BY <1>3, PictureStays DEF Copies, TypeHome, Detail
  <2>u. CASE UNCHANGED home
    <3>1. UNCHANGED <<cards, found, loads, detail>>
      BY <2>u DEF home
    <3> QED
      BY <2>c, <2>f, <2>l, <2>d, <3>1, CopiesNext
  <2>1. CASE Launch \/ OpenSearch \/ Kill \/ LogOut
    <3>1. user' = user /\ user \in Users
      BY <2>1 DEF Launch, OpenSearch, Kill, LogOut, TypeApp
    <3>2. \E s \in {"home", "login", "off"} :
             Root(s, <<>>) \/ Root(s, Requests(user))
      BY <2>1 DEF Launch, OpenSearch, Kill, LogOut, presentCurrentUserUI,
                  StartHome
    <3> QED
      BY <3>1, <3>2, RootCopies
  <2>2. CASE LoadSnapshot
    <3>1. PICK i \in 1..Len(loads) : loads' = [loads EXCEPT ![i] = Answered(loads[i])]
      BY <2>2 DEF LoadSnapshot
    <3>2. loads[i] \in Load
      BY ElementOfSeq DEF TypeHome
    <3>3. /\ Answered(loads[i]) \in Load
          /\ Answered(loads[i]).cards = Snapshot(loads[i].of)
          /\ Answered(loads[i]).of = loads[i].of
      BY <3>2, AnsweredType DEF TypeCloud, Answered, Load
    <3>4. /\ Len(loads') = Len(loads)
          /\ \A j \in 1..Len(loads) :
                loads'[j] = IF j = i THEN Answered(loads[i]) ELSE loads[j]
      BY <3>1, <3>3, ExceptSeq DEF TypeHome
    <3>5. CopiesOf(Snapshot(loads[i].of)) /\ Snapshot(loads[i].of) \in [Ids -> Record]
      BY <3>2, SnapshotCopies, SnapshotType DEF Copies, Load, TypeCloud
    <3>6. PicturesNext(Snapshot(loads[i].of))
      BY <1>3, <3>5, CopiesStay DEF PicturesNext
    <3>7. LoadsNext(loads')
      BY <2>l, <3>3, <3>4, <3>6 DEF LoadsNext
    <3>8. UNCHANGED <<cards, found, detail>>
      BY <2>2 DEF LoadSnapshot
    <3> QED
      BY <2>c, <2>f, <2>d, <3>7, <3>8, CopiesNext
  <2>3. CASE LoadDeliver
    <3>1. loads # <<>> /\ loads \in Seq(Load) /\ Len(loads) \in Nat \ {0}
      BY <2>3, EmptySeq DEF LoadDeliver, TypeHome
    <3>2. cards' = loads[1].cards /\ 1 \in 1..Len(loads)
      BY <2>3, <3>1 DEF LoadDeliver
    <3>3. \A i \in 1..Len(loads') : i + 1 \in 1..Len(loads)
                                     /\ loads'[i] = loads[i + 1]
      BY <2>3, <3>1, HeadTailProperties DEF LoadDeliver
    <3>4. UNCHANGED <<found, detail>>
      BY <2>3 DEF LoadDeliver
    <3>5. PicturesNext(cards') /\ LoadsNext(loads')
      BY <2>l, <3>2, <3>3 DEF LoadsNext
    <3> QED
      BY <2>f, <2>d, <3>4, <3>5, CopiesNext
  <2>4. ASSUME NEW D \in SUBSET Contents, Search(D)
        PROVE  Copies'
    <3>1. \A u \in Ids : found'[u] = cards[u] \/ found'[u].url = None
      BY <2>4 DEF Search, Absent
    <3>2. UNCHANGED <<cards, loads, detail>>
      BY <2>4 DEF Search
    <3>3. PicturesNext(found')
      BY <2>c, <3>1 DEF PicturesNext
    <3> QED
      BY <2>c, <2>l, <2>d, <3>2, <3>3, CopiesNext
  <2>5. CASE EndSearch
    <3>1. \A u \in Ids : found'[u].url = None
      BY <2>5 DEF EndSearch, NoCards, Absent
    <3>2. UNCHANGED <<cards, loads, detail>>
      BY <2>5 DEF EndSearch
    <3>3. PicturesNext(found')
      BY <3>1 DEF PicturesNext
    <3> QED
      BY <2>c, <2>l, <2>d, <3>2, <3>3, CopiesNext
  <2>6. CASE OpenScanner \/ CloseScanner
    <3>1. UNCHANGED <<cards, found, loads, detail>>
      BY <2>6 DEF OpenScanner, CloseScanner
    <3> QED
      BY <2>c, <2>f, <2>l, <2>d, <3>1, CopiesNext
  <2>7. ASSUME NEW d \in Contents, SaveCard(d)
        PROVE  Copies'
    <3>1. \A u \in Ids : cards'[u] = cards[u] \/ cards'[u].url = None
      <4>1. PICK id \in NewIds : \/ cards' = cards
                                 \/ cards' = [cards EXCEPT ![id] = NewCard(d)]
        BY <2>7 DEF SaveCard, userDidEnterCard
      <4> QED
        BY <4>1 DEF NewCard, TypeHome
    <3>2. UNCHANGED <<found, loads, detail>>
      BY <2>7 DEF SaveCard, userDidEnterCard
    <3>3. PicturesNext(cards')
      BY <2>c, <3>1 DEF PicturesNext
    <3> QED
      BY <2>f, <2>l, <2>d, <3>2, <3>3, CopiesNext
  <2>8. ASSUME NEW v \in Ids, OpenDetail(v)
        PROVE  Copies'
    <3>1. detail'.uid = v /\ (detail'.url = cards[v].url \/ detail'.url = found[v].url)
      BY <2>8 DEF OpenDetail, Shown
    <3>2. UNCHANGED <<cards, found, loads>>
      BY <2>8 DEF OpenDetail
    <3>3. detail'.url # None => PictureNext(detail'.url, detail'.uid)
      BY <2>c, <2>f, <3>1 DEF PicturesNext
    <3> QED
      BY <2>c, <2>f, <2>l, <3>2, <3>3, CopiesNext
  <2>9. CASE CloseDetail
    <3>1. detail'.url = None
      BY <2>9 DEF CloseDetail, NoDetail
    <3>2. UNCHANGED <<cards, found, loads>>
      BY <2>9 DEF CloseDetail
    <3> QED
      BY <2>c, <2>f, <2>l, <3>1, <3>2, CopiesNext
  <2>10. ASSUME NEW n \in Notes, SaveNotes(n)
         PROVE  Copies'
    <3>1. detail.uid \in Ids /\ cards[detail.uid] \in Record
      BY DEF TypeHome, Detail
    <3>2. Annotated(cards[detail.uid], n).url = cards[detail.uid].url
      BY <3>1 DEF Annotated, Record
    <3>3. \A u \in Ids : /\ cards'[u].url = cards[u].url
                         /\ \/ found'[u].url = found[u].url
                            \/ found'[u].url = cards[u].url
      BY <2>10, <3>1, <3>2 DEF SaveNotes, TouchBoth, Touch, TypeHome
    <3>4. UNCHANGED <<loads, detail>>
      BY <2>10 DEF SaveNotes
    <3>5. PicturesNext(cards') /\ PicturesNext(found')
      BY <2>c, <2>f, <3>3 DEF PicturesNext
    <3> QED
      BY <2>l, <2>d, <3>4, <3>5, CopiesNext
  <2>11. ASSUME NEW d \in Contents, NEW x \in Urls, SaveEdit(d, x)
         PROVE  Copies'
    <3>1. detail.uid \in Ids /\ cards[detail.uid] \in Record
      BY DEF TypeHome, Detail
    <3>2. Updated(cards[detail.uid], d, None).url = None
      BY <3>1 DEF Updated, Record
    <3>3. \A u \in Ids : /\ cards'[u] = cards[u] \/ cards'[u].url = None
                         /\ found'[u] = found[u] \/ found'[u].url = None
      BY <2>11, <3>1, <3>2 DEF SaveEdit, updateCardInDbAndNotify,
         userDidUpdateData, TouchBoth, Touch, TypeHome
    <3>4. UNCHANGED loads /\ detail'.url = detail.url /\ detail'.uid = detail.uid
      BY <2>11 DEF SaveEdit, updateCardInDbAndNotify, userDidUpdateData,
         TypeHome, Detail
    <3>5. PicturesNext(cards') /\ PicturesNext(found')
      BY <2>c, <2>f, <3>3 DEF PicturesNext
    <3> QED
      BY <2>l, <2>d, <3>4, <3>5, CopiesNext
  <2>12. CASE DeleteCard
    <3>1. user \in Accounts /\ user' = user
      BY <2>12 DEF DeleteCard, SignedIn
    <3>2. Request(user) \in Load /\ loads \in Seq(Load)
          /\ loads' = Append(loads, Request(user))
      BY <2>12, <3>1, RecordTypes DEF DeleteCard, TypeHome
    <3>3. \A i \in 1..Len(loads') :
             \/ i \in 1..Len(loads) /\ loads'[i] = loads[i]
             \/ loads'[i] = Request(user)
      BY <3>2, AppendProperties, LenProperties
    <3>4. /\ Request(user).of = user'
          /\ \A u \in Ids : Request(user).cards[u].url = None
      BY <3>1 DEF Request, NoCards, Absent
    <3>5. LoadsNext(loads')
      BY <2>l, <3>3, <3>4 DEF LoadsNext, PicturesNext
    <3>6. UNCHANGED <<cards, found>> /\ detail'.url = None
      BY <2>12 DEF DeleteCard, NoDetail
    <3> QED
      BY <2>c, <2>f, <3>5, <3>6, CopiesNext
  <2>13. CASE \/ BeginSignIn \/ SignInFailed \/ SignInAwayFailed
              \/ \E a \in Accounts : SignInAwayDone(a)
              \/ OpenEdit \/ CancelEdit \/ Pictures
    BY <2>u, <2>13
       DEF BeginSignIn, SignInFailed, SignInAwayFailed, SignInAwayDone, OpenEdit,
           CancelEdit, Pictures, UploadStored, UploadDone, UploadLost,
           ImageDeleted
  <2>14. CASE \E a \in Accounts : SignInDone(a)
    BY <1>1, <2>14 DEF SignInDone
  <2> QED
    BY <2>1, <2>2, <2>3, <2>4, <2>5, <2>6, <2>7, <2>8, <2>9, <2>10, <2>11,
       <2>12, <2>13, <2>14 DEF Next, Session, List, Editing
<1> QED
  BY UserSteps, <1>1, <1>2, <1>3

-----------------------------------------------------------------------------
(* What a deleted picture was for.                                         *)

\* An upload whose URL is still to come has its picture in Storage, and only
\* pictures that reached the database are ever asked to be deleted.
Stored ==
    /\ \A x \in Urls : uploads[x].st = "stored" => x \in storage
    /\ \A x \in deleting : uploads[x].st = "done"

\* Some record points at x.
Pointed(x) == \E a \in Accounts, u \in Uids : db[a][u].url = x

\* An edit replaces the picture x and is not written to the account that has x.
Replaced(x) ==
    \E y \in Urls : /\ uploads[y].uid = uploads[x].uid
                   /\ uploads[y].old = x
                   /\ uploads[y].st # "unused"
                   /\ ~(uploads[y].st = "done" /\ uploads[y].to = uploads[x].to)

\* x is deleted, or about to be.
Doomed(x) == x \in deleting \/ (uploads[x].st = "done" /\ x \notin storage)

\* A doomed picture is one that no record needs, or that an edit replaces.
Deletions ==
    ~strayed => \A x \in Urls : Doomed(x) => ~Pointed(x) \/ Replaced(x)

(* An upload waiting for its URL is in Storage, and not to be deleted.     *)
LEMMA StoredStep ==
    ASSUME Types, Copies, Stored, Next
    PROVE  Stored'
<1> USE DEF Types
<1>1. detail.url # None => uploads[detail.url].st = "done"
  BY DEF Copies, PictureOf
<1>2. uploads \in [Urls -> Upload] /\ deleting \subseteq Urls
  BY DEF TypeCloud
<1>3. CASE UNCHANGED cloud
  BY <1>3 DEF cloud, Stored
<1>4. CASE Kill
  BY <1>2, <1>4 DEF Kill, InFlight, Stored
<1>5. CASE DeleteCard
  BY <1>1, <1>5 DEF DeleteCard, OldImage, Stored
<1>6. CASE (\E d \in Contents : SaveCard(d)) \/ (\E n \in Notes : SaveNotes(n))
  BY <1>6 DEF SaveCard, userDidEnterCard, SaveNotes, Stored
<1>7. ASSUME NEW d \in Contents, NEW y \in Urls, SaveEdit(d, y)
      PROVE  Stored'
  <2>1. uploads'[y].st = "putting" /\ \A x \in Urls : x # y => uploads'[x] = uploads[x]
    BY <1>2, <1>7 DEF SaveEdit, updateCardInDbAndNotify, userDidUpdateData
  <2>2. \A x \in deleting' : x \in Urls /\ uploads[x].st = "done"
    BY <1>1, <1>2, <1>7 DEF SaveEdit, updateCardInDbAndNotify,
       userDidUpdateData, OldImage, Stored, TypeHome, Detail
  <2>3. uploads[y].st = "unused" /\ storage' = storage
    BY <1>7 DEF SaveEdit, updateCardInDbAndNotify, userDidUpdateData
  <2> QED
    BY <2>1, <2>2, <2>3 DEF Stored
<1>8. ASSUME NEW y \in Urls, UploadStored(y) \/ UploadDone(y) \/ UploadLost(y)
      PROVE  Stored'
  <2>1. /\ uploads[y].st # "done"
        /\ \A x \in Urls : x # y => uploads'[x] = uploads[x]
        /\ uploads'[y].st = "stored" => y \in storage'
    BY <1>2, <1>8 DEF UploadStored, UploadDone, UploadLost, InFlight, Upload
  <2>2. deleting' = deleting /\ storage \subseteq storage'
    BY <1>8 DEF UploadStored, UploadDone, UploadLost
  <2> QED
    BY <1>2, <2>1, <2>2 DEF Stored
<1>9. ASSUME NEW y \in Urls, ImageDeleted(y)
      PROVE  Stored'
  BY <1>9 DEF ImageDeleted, Stored
<1> QED
  BY CloudSteps, <1>3, <1>4, <1>5, <1>6, <1>7, <1>8, <1>9

(* A deletion the user asks for from the screen that shows x.              *)
LEMMA DeletionsStep ==
    ASSUME Types, SignedIn, Named, NoTornEdit, Copies, Stored, Deletions, Next
    PROVE  Deletions'
<1> SUFFICES ASSUME ~strayed', NEW x \in Urls, Doomed(x)', Pointed(x)'
             PROVE  Replaced(x)'
  BY DEF Deletions
<1> USE DEF Types
<1>1. /\ uploads \in [Urls -> Upload] /\ deleting \subseteq Urls
      /\ db \in [Accounts -> [Uids -> Record]]
  BY DEF TypeCloud
<1>2. ~strayed
  BY UserSteps
<1>3. PICK a \in Accounts, u \in Uids : db'[a][u].url = x
  BY DEF Pointed
<1>4. /\ uploads'[x].st = "done" /\ uploads'[x].uid = u /\ uploads'[x].to = a
  BY <1>3, TornStep, NoneAssumption DEF NoTornEdit
\* A witness of Replaced(x) stays one.
<1>5. ASSUME Doomed(x), Pointed(x), uploads[x].st = "done"
      PROVE  Replaced(x)'
  <2>1. PICK y \in Urls :
            /\ uploads[y].uid = uploads[x].uid
            /\ uploads[y].old = x
            /\ uploads[y].st # "unused"
            /\ ~(uploads[y].st = "done" /\ uploads[y].to = uploads[x].to)
    BY <1>2, <1>5 DEF Deletions, Replaced
  <2>2. uploads'[x] = uploads[x]
    BY <1>5, DoneStays
  <2>3. CASE uploads'[y] = uploads[y]
    BY <2>1, <2>2, <2>3 DEF Replaced
  <2>4. CASE Kill \/ UploadStored(y) \/ UploadLost(y)
    <3>1. /\ uploads'[y].uid = uploads[y].uid /\ uploads'[y].old = x
          /\ uploads'[y].st \in {"stored", "lost"} \/ uploads'[y] = uploads[y]
      BY <1>1, <2>1, <2>4 DEF Kill, UploadStored, UploadLost, Upload
    <3> QED
      BY <2>1, <2>2, <3>1 DEF Replaced
  <2>5. CASE UploadDone(y)
    <3>1. /\ uploads'[y].uid = uploads[y].uid /\ uploads'[y].old = x
          /\ uploads'[y].st = "done" /\ uploads'[y].to = user
      BY <1>1, <2>1, <2>5 DEF UploadDone, Upload
    <3>2. user # a
      <4>1. SUFFICES ASSUME user = a
                     PROVE  FALSE
        OBVIOUS
      <4>2. uploads[y].uid = u
        BY <1>4, <2>1, <2>2
      <4>3. db'[a][u] = Updated(db[a][u], uploads[y].data, y)
        BY <1>1, <2>5, <4>1, <4>2 DEF UploadDone
      <4>4. db'[a][u].url = y
        BY <1>1, <4>3 DEF Updated, Record
      <4>5. uploads[y].st = "stored"
        BY <2>5 DEF UploadDone
      <4> QED
        BY <1>3, <1>5, <4>4, <4>5
    <3> QED
      BY <1>4, <2>1, <2>2, <3>1, <3>2 DEF Replaced
  <2>6. CASE \E d \in Contents, z \in Urls : SaveEdit(d, z)
    <3>1. uploads'[y] = uploads[y]
      BY <1>1, <2>1, <2>6 DEF SaveEdit, updateCardInDbAndNotify, userDidUpdateData
    <3> QED
      BY <2>3, <3>1
  <2>7. CASE \E z \in Urls : z # y /\ (UploadStored(z) \/ UploadDone(z) \/ UploadLost(z))
    <3>1. uploads'[y] = uploads[y]
      BY <1>1, <2>7 DEF UploadStored, UploadDone, UploadLost
    <3> QED
      BY <2>3, <3>1
  <2>8. CASE \/ UNCHANGED cloud \/ DeleteCard
             \/ \E d \in Contents : SaveCard(d)
             \/ \E n \in Notes : SaveNotes(n)
             \/ \E z \in Urls : ImageDeleted(z)
    <3>1. uploads' = uploads
      BY <2>8 DEF cloud, DeleteCard, SaveCard, SaveNotes, ImageDeleted
    <3> QED
      BY <2>3, <3>1
  <2> QED
    BY CloudSteps, <2>4, <2>5, <2>6, <2>7, <2>8
\* Who points at x did so before, unless x is the upload just done.
<1>6. uploads[x].st = "done" => Pointed(x)
  <2>1. SUFFICES ASSUME uploads[x].st = "done", db[a][u].url # x
                 PROVE  FALSE
    BY DEF Pointed
  <2>2. db' # db
    BY <1>3, <2>1
  <2>3. ASSUME NEW d \in Contents, SaveCard(d)
        PROVE  FALSE
    <3>1. PICK id \in NewIds : \/ db' = db
                               \/ db' = [db EXCEPT ![user][id] = NewCard(d)]
      BY <2>3 DEF SaveCard, userDidEnterCard
    <3>2. db'[a][u] = db[a][u] \/ db'[a][u].url = None
      BY <1>1, <3>1 DEF NewCard
    <3> QED
      BY <1>3, <2>1, <3>2, NoneAssumption
  <2>4. ASSUME NEW n \in Notes, SaveNotes(n)
        PROVE  FALSE
    <3>1. db'[a][u] = db[a][u] \/ db'[a][u] = Annotated(db[a][u], n)
      BY <1>1, <2>4 DEF SaveNotes
    <3>2. Annotated(db[a][u], n).url = db[a][u].url
      BY <1>1 DEF Annotated, Record
    <3> QED
      BY <1>3, <2>1, <3>1, <3>2
  <2>5. ~DeleteCard
    BY <1>1, <1>3, <2>1, NoneAssumption DEF DeleteCard, Absent
  <2>6. ASSUME NEW y \in Urls, UploadDone(y)
        PROVE  FALSE
    <3>1. \/ db'[a][u] = db[a][u]
          \/ db'[a][u] = Updated(db[a][u], uploads[y].data, y)
      BY <1>1, <2>6 DEF UploadDone
    <3>2. Updated(db[a][u], uploads[y].data, y).url = y
      BY <1>1 DEF Updated, Record
    <3>3. y # x
      BY <2>1, <2>6 DEF UploadDone
    <3> QED
      BY <1>3, <2>1, <3>1, <3>2, <3>3
  <2>7. ~(\/ UNCHANGED cloud \/ Kill
          \/ \E d \in Contents, y \in Urls : SaveEdit(d, y)
          \/ \E y \in Urls : UploadStored(y) \/ UploadLost(y) \/ ImageDeleted(y))
    BY <2>2 DEF cloud, Kill, SaveEdit, updateCardInDbAndNotify,
      userDidUpdateData, UploadStored, UploadLost, ImageDeleted
  <2> QED
    BY CloudSteps, <2>3, <2>4, <2>5, <2>6, <2>7
\* The picture just put into the database is in Storage.
<1>7. CASE uploads[x].st # "done"
  <2>1. UploadDone(x)
    <3>1. ASSUME NEW y \in Urls, y # x,
                 UploadStored(y) \/ UploadDone(y) \/ UploadLost(y)
          PROVE  uploads'[x] = uploads[x]
      BY <1>1, <3>1 DEF UploadStored, UploadDone, UploadLost
    <3>2. ~UploadStored(x) /\ ~UploadLost(x)
      <4>1. UploadStored(x) \/ UploadLost(x) => uploads'[x].st \in {"stored", "lost"}
        BY <1>1 DEF UploadStored, UploadLost, Upload
      <4> QED
        BY <1>4, <4>1
    <3>3. ~Kill
      <4>1. Kill => uploads'[x].st = "lost" \/ uploads'[x] = uploads[x]
        BY <1>1 DEF Kill, Upload
      <4> QED
        BY <1>4, <1>7, <4>1
    <3>4. ASSUME NEW d \in Contents, NEW y \in Urls, SaveEdit(d, y)
          PROVE  FALSE
      <4>1. uploads'[x].st = "putting" \/ uploads'[x] = uploads[x]
        BY <1>1, <3>4 DEF SaveEdit, updateCardInDbAndNotify, userDidUpdateData
      <4> QED
        BY <1>4, <1>7, <4>1
    <3>5. ~(\/ UNCHANGED cloud \/ DeleteCard
            \/ \E d \in Contents : SaveCard(d)
            \/ \E n \in Notes : SaveNotes(n)
            \/ \E z \in Urls : ImageDeleted(z))
      BY <1>4, <1>7 DEF cloud, DeleteCard, SaveCard, SaveNotes, ImageDeleted
    <3> QED
      BY CloudSteps, <1>4, <1>7, <3>1, <3>2, <3>3, <3>4, <3>5
  <2>2. x \in storage /\ x \notin deleting
    BY <1>7, <2>1 DEF UploadDone, Stored
  <2>3. x \in storage' /\ x \notin deleting'
    BY <2>1, <2>2 DEF UploadDone
  <2> QED
    BY <2>3 DEF Doomed
\* A picture newly doomed is the one the screen shows.
<1>8. CASE uploads[x].st = "done" /\ ~Doomed(x)
  <2>1. x \in storage /\ x \notin deleting
    BY <1>8 DEF Doomed
  <2>2. x \in deleting' \/ x \notin storage'
    BY DEF Doomed
  <2>3. ASSUME DeleteCard
        PROVE  FALSE
    <3>1. detail.url = x
      BY <2>1, <2>2, <2>3 DEF DeleteCard, OldImage
    <3>2. uploads[x].uid = detail.uid /\ uploads[x].to = user
      BY <1>2, <3>1, NoneAssumption DEF Copies, PictureOf
    <3>3. uploads' = uploads
      BY <2>3 DEF DeleteCard
    <3>4. a = user /\ u = detail.uid
      BY <1>4, <3>2, <3>3
    <3>5. db'[a][u] = Absent
      BY <1>1, <2>3, <3>4 DEF DeleteCard
    <3> QED
      BY <1>3, <3>5, NoneAssumption DEF Absent
  <2>4. ASSUME NEW d \in Contents, NEW y \in Urls, SaveEdit(d, y)
        PROVE  Replaced(x)'
    <3>1. detail.url = x
      BY <2>1, <2>2, <2>4 DEF SaveEdit, updateCardInDbAndNotify,
         userDidUpdateData, OldImage
    <3>2. uploads[x].uid = detail.uid
      BY <3>1, NoneAssumption DEF Copies, PictureOf
    <3>3. y # x /\ uploads'[x] = uploads[x]
      BY <1>1, <1>8, <2>4 DEF SaveEdit, updateCardInDbAndNotify, userDidUpdateData
    <3>4. /\ uploads'[y].uid = detail.uid /\ uploads'[y].old = x
          /\ uploads'[y].st = "putting"
      BY <1>1, <2>4, <3>1 DEF SaveEdit, updateCardInDbAndNotify, userDidUpdateData
    <3> QED
      BY <3>2, <3>3, <3>4 DEF Replaced
  <2>5. ~(\/ UNCHANGED cloud \/ Kill
          \/ \E d \in Contents : SaveCard(d)
          \/ \E n \in Notes : SaveNotes(n)
          \/ \E y \in Urls : UploadStored(y) \/ UploadDone(y) \/ UploadLost(y))
    BY <2>1, <2>2 DEF cloud, Kill, SaveCard, SaveNotes, UploadStored, UploadDone,
                      UploadLost
  <2>6. ASSUME NEW y \in Urls, ImageDeleted(y)
        PROVE  FALSE
    BY <2>1, <2>2, <2>6 DEF ImageDeleted
  <2> QED
    BY CloudSteps, <2>3, <2>4, <2>5, <2>6
<1> QED
  BY <1>5, <1>6, <1>7, <1>8

PictureInv ==
    /\ Types /\ SignedIn /\ Named
    /\ NoTornEdit /\ Blank /\ Copies /\ Stored /\ Deletions

\* The strengthening of ReplacedImageOnly holds at every moment.
LEMMA PictureInvariant == Spec => []PictureInv
<1>1. Init => PictureInv
  <2> SUFFICES ASSUME Init
               PROVE  PictureInv
    OBVIOUS
  <2>1. NoTornEdit
    BY DEF Init, NoTornEdit, Absent
  <2>2. Blank
    BY DEF Init, Blank
  <2>3. Copies
    BY DEF Init, Copies, CopiesOf, NoCards, Absent, NoDetail
  <2>4. Stored /\ Deletions
    BY DEF Init, Stored, Deletions, Doomed, Unused
  <2> QED
    BY <2>1, <2>2, <2>3, <2>4, InitInvariant DEF PictureInv
<1>2. PictureInv /\ [Next]_vars => PictureInv'
  <2> SUFFICES ASSUME PictureInv, [Next]_vars
               PROVE  PictureInv'
    OBVIOUS
  <2>1. CASE Next
    BY <2>1, NextInvariant, TornStep, BlankStep, CopiesStep, StoredStep,
       DeletionsStep DEF PictureInv
  <2>2. CASE UNCHANGED vars
    <3>1. (Types /\ SignedIn /\ Named)'
      BY <2>2, NextInvariant DEF PictureInv
    <3>2. NoTornEdit' /\ Blank'
      BY <2>2 DEF PictureInv, vars, app, cloud, home, NoTornEdit, Blank
    <3>4. Copies'
      <4>1. UNCHANGED <<uploads, strayed, user, cards, found, loads, detail>>
        BY <2>2 DEF vars, app, cloud, home
      <4>2. PicturesNext(cards) /\ PicturesNext(found)
        BY <4>1 DEF PictureInv, Copies, CopiesOf, PictureOf, PicturesNext, PictureNext
      <4>3. LoadsNext(loads)
        BY <4>1 DEF PictureInv, Copies, CopiesOf, PictureOf, LoadsNext, PicturesNext,
                    PictureNext
      <4>4. detail.url # None => PictureNext(detail.url, detail.uid)
        BY <4>1 DEF PictureInv, Copies, PictureOf, PictureNext
      <4> QED
        BY <4>1, <4>2, <4>3, <4>4, CopiesNext
    <3>3. Stored' /\ Deletions'
      BY <2>2 DEF PictureInv, vars, app, cloud, Stored, Deletions, Doomed,
                  Pointed, Replaced
    <3> QED
      BY <3>1, <3>2, <3>3, <3>4 DEF PictureInv
  <2> QED
    BY <2>1, <2>2
<1> QED
  BY <1>1, <1>2, PTL DEF Spec

(* A record whose picture is gone from Storage belongs to a card an edit has
   taken the picture from, and that edit is not written to the same account:
   removeOldCard is the only thing that costs a live card its picture.     *)
THEOREM PicturesLostToEdits == Spec => []ReplacedImageOnly
<1>1. PictureInv => ReplacedImageOnly
  <2> SUFFICES ASSUME PictureInv, ~strayed, NEW a \in Accounts, NEW u \in Uids,
                      db[a][u].url \notin storage \cup {None}
               PROVE  \E y \in Urls :
                         /\ uploads[y].uid = u
                         /\ uploads[y].old = db[a][u].url
                         /\ ~(uploads[y].st = "done" /\ uploads[y].to = a)
    BY DEF ReplacedImageOnly
  <2>1. db[a][u].url \in Urls
    BY DEF PictureInv, Types, TypeCloud, Record
  <2>2. /\ uploads[db[a][u].url].st = "done"
        /\ uploads[db[a][u].url].uid = u
        /\ uploads[db[a][u].url].to = a
    BY DEF PictureInv, NoTornEdit
  <2>3. Replaced(db[a][u].url)
    BY <2>1, <2>2 DEF PictureInv, Deletions, Doomed, Pointed
  <2> QED
    BY <2>2, <2>3 DEF Replaced
<1> QED
  BY <1>1, PictureInvariant, PTL

-----------------------------------------------------------------------------
(* Where a key comes from.                                                 *)

\* An edit of u that was begun in another account ended in a.
Straddled(u, a) ==
    \E x \in Urls : /\ uploads[x].uid = u
                    /\ uploads[x].st = "done"
                    /\ uploads[x].to = a
                    /\ uploads[x].from # a

\* The key u was given to a card, that card came to the account a in one of the
\* ways the code has, and it is still there unless it was removed.  Once true
\* it stays true, whatever copies of the card are around.
Known(u, a) ==
    /\ a \in Accounts /\ u \in Uids /\ creator[u] # None
    /\ strayed \/ creator[u] = a \/ Straddled(u, a)
    /\ strayed \/ Listed(db[a][u]) \/ u \in removed

KnownIn(list, a) == \A u \in Ids : Listed(list[u]) => Known(u, a)

\* Every record, copy, request, screen and upload is of a known key.
RecordsKnown == \A a \in Accounts, u \in Uids : db[a][u] # Absent => Known(u, a)

CopiesKnown ==
    /\ KnownIn(cards, user) /\ KnownIn(found, user)
    /\ \A i \in 1..Len(loads) : KnownIn(loads[i].cards, loads[i].of)
    /\ screen \in {"detail", "edit"} => Known(detail.uid, user)

EditKnown(x) ==
    IF uploads[x].st = "unused" THEN uploads[x] = Unused
    ELSE /\ Known(uploads[x].uid, uploads[x].from)
         /\ uploads[x].data \in Contents
         /\ user \in Accounts

EditsKnown == \A x \in Urls : EditKnown(x)

RemovedKnown == \A u \in removed : creator[u] # None

-----------------------------------------------------------------------------
(* What Home knows of the database.                                        *)

\* The list that Home has, or the last one it will have of the snapshots taken,
\* is right about u.
Mirrored(u) ==
    IF loads = <<>> THEN loaded => cards[u] = Card(db[user][u])
    ELSE loads[Len(loads)].taken =>
            loads[Len(loads)].cards[u] = Card(db[user][u])

Mirrors ==
    screen \in HomeScreens /\ ~strayed =>
        \A u \in Uids : Settled(u) => Mirrored(u)

LedgerInv ==
    /\ PictureInv
    /\ RecordsKnown /\ CopiesKnown /\ EditsKnown /\ RemovedKnown
    /\ Mirrors
-----------------------------------------------------------------------------
(* Signing in.                                                             *)

(* Nothing but the session actions changes the user, isLoggedIn, the running
   sign-in or whether Home is open.                                        *)
LEMMA OtherSteps ==
    ASSUME List \/ Editing \/ Pictures
    PROVE  /\ UNCHANGED <<user, loggedIn, away, strayed>>
           /\ screen' = screen \/ (screen \in HomeScreens /\ screen' \in HomeScreens)
<1>1. CASE List
  BY <1>1 DEF List, LoadSnapshot, LoadDeliver, Search, EndSearch, app
<1>2. CASE Editing
  BY <1>2 DEF Editing, OpenScanner, CloseScanner, SaveCard, OpenDetail,
              CloseDetail, SaveNotes, OpenEdit, CancelEdit, SaveEdit,
              updateCardInDbAndNotify, userDidUpdateData, DeleteCard, app,
              HomeScreens
<1>3. CASE Pictures
  BY <1>3 DEF Pictures, UploadStored, UploadDone, UploadLost, ImageDeleted, app
<1> QED
  BY <1>1, <1>2, <1>3

(* Session's view of an action: Home open or not, a sign-in running or not. *)
LEMMA SignInStep ==
    ASSUME TypeApp, Next
    PROVE  [SignIn!Next]_(SignIn!vars)
<1> DEFINE h == IF screen \in HomeScreens THEN "open" ELSE "closed"
           p == away \/ screen = "signing"
<1> USE DEF SignIn!Next
<1>0. \A s : s \in {"off", "login", "signing"} => s \notin HomeScreens
  BY DEF HomeScreens
<1>1. CASE Launch \/ OpenSearch
  <2>1. /\ UNCHANGED <<user, loggedIn>>
        /\ IF loggedIn THEN screen' = "home" ELSE screen' = "login"
    BY <1>1 DEF Launch, OpenSearch, presentCurrentUserUI, StartHome, Root
  <2>2. p' <=> p
    <3>1. screen' # "signing"
      BY <2>1
    <3>2. CASE Launch
      <4>1. away' = away /\ screen # "signing"
        BY <3>2 DEF Launch
      <4> QED
        BY <3>1, <4>1
    <3>3. CASE OpenSearch
      <4>1. away' = p
        BY <3>3 DEF OpenSearch
      <4> QED
        BY <3>1, <4>1
    <3> QED
      BY <1>1, <3>2, <3>3
  <2>3. h' \in IF loggedIn THEN {"opening", "open"} ELSE {"closed"}
    BY <2>1, <1>0 DEF HomeScreens
  <2>4. SignIn!Show
    BY <2>1, <2>2, <2>3 DEF SignIn!Show
  <2> QED
    BY <2>4
<1>2. CASE Kill
  <2>1. screen' = "off" /\ away' = FALSE /\ UNCHANGED <<user, loggedIn>>
    BY <1>2 DEF Kill, Root
  <2>2. SignIn!Quit
    BY <2>1, <1>0 DEF SignIn!Quit
  <2> QED
    BY <2>2
<1>3. CASE BeginSignIn
  <2>1. SignIn!Begin
    BY <1>3, <1>0 DEF BeginSignIn, SignIn!Begin
  <2> QED
    BY <2>1
<1>4. CASE SignInFailed
  <2>1. SignIn!Fail
    BY <1>4, <1>0 DEF SignInFailed, SignIn!Fail, TypeApp
  <2> QED
    BY <2>1
<1>5. CASE SignInAwayFailed
  <2>1. SignIn!Fail
    BY <1>5 DEF SignInAwayFailed, SignIn!Fail, TypeApp
  <2> QED
    BY <2>1
<1>6. CASE LogOut
  <2>1. screen = "home" /\ screen' = "login" /\ loggedIn' = FALSE
        /\ UNCHANGED <<user, away>>
    BY <1>6 DEF LogOut, Root
  <2>2. SignIn!LogOut
    BY <2>1, <1>0 DEF SignIn!LogOut, HomeScreens
  <2> QED
    BY <2>2
<1>7. ASSUME NEW a \in Accounts, SignInDone(a)
      PROVE  SignIn!Next
  <2>1. screen = "signing" /\ screen' = "home" /\ user' = a
        /\ UNCHANGED <<loggedIn, away>>
    BY <1>7 DEF SignInDone, StartHome, Root
  <2>2. SignIn!Succeed(a)
    BY <2>1, <1>0 DEF SignIn!Succeed, HomeScreens, TypeApp
  <2> QED
    BY <2>2
<1>8. ASSUME NEW a \in Accounts, SignInAwayDone(a)
      PROVE  [SignIn!Next]_(SignIn!vars)
  <2>1. /\ away /\ away' = FALSE /\ user' \in {user, a}
        /\ UNCHANGED <<loggedIn, screen>>
    BY <1>8 DEF SignInAwayDone
  <2>2. CASE user' = a
    BY <2>1, <2>2 DEF SignIn!Succeed, TypeApp
  <2>3. CASE user' = user /\ screen = "signing"
    BY <2>1, <2>3 DEF SignIn!vars
  <2>4. CASE user' = user /\ screen # "signing"
    BY <2>1, <2>4 DEF SignIn!Vanish
  <2> QED
    BY <2>1, <2>2, <2>3, <2>4
<1>9. CASE List \/ Editing \/ Pictures
  <2>1. /\ UNCHANGED <<user, loggedIn, away>>
        /\ screen' = screen \/ (screen \in HomeScreens /\ screen' \in HomeScreens)
    BY <1>9, OtherSteps
  <2>2. h' = h /\ (p' <=> p)
    BY <2>1, <1>0
  <2> QED
    BY <2>1, <2>2 DEF SignIn!vars
<1> QED
  BY <1>1, <1>2, <1>3, <1>4, <1>5, <1>6, <1>7, <1>8, <1>9 DEF Next, Session

(* The session of CardStore, whatever else happens in it, is a session as
   Session promises it: a user is saved by a sign-in begun in this run of the
   app only, and Home opens on the flag or at the end of a sign-in.        *)
THEOREM CardsKeepSession == Spec => SessionKept
<1>1. Init => SignIn!Init
  BY DEF Init, SignIn!Init, HomeScreens
<1>2. UNCHANGED vars => UNCHANGED SignIn!vars
  BY DEF vars, app, SignIn!vars
<1>3. Types /\ [Next]_vars => [SignIn!Next]_(SignIn!vars)
  BY <1>2, SignInStep DEF Types
<1> QED
  BY <1>1, <1>3, Invariant, PTL DEF Spec, SessionKept, SignIn!Spec

-----------------------------------------------------------------------------
(* Known keys stay known.                                                  *)

(* A saved user is replaced, never forgotten.                              *)
LEMMA UserKept ==
    ASSUME Next, user \in Accounts
    PROVE  user' \in Accounts
<1>1. CASE List \/ Editing \/ Pictures
  BY <1>1, OtherSteps
<1>2. CASE Session
  BY <1>2 DEF Session, Launch, OpenSearch, Kill, BeginSignIn, SignInFailed,
              SignInAwayFailed, LogOut, SignInDone, SignInAwayDone
<1> QED
  BY <1>1, <1>2 DEF Next

(* The key of a card is for good, and a removal is remembered.             *)
LEMMA CreatorKept ==
    ASSUME Types, Next
    PROVE  /\ \A u \in Uids : creator[u] # None => creator'[u] = creator[u]
           /\ removed \subseteq removed'
<1>1. CASE UNCHANGED <<creator, removed>>
  BY <1>1
<1>2. ASSUME NEW d \in Contents, SaveCard(d)
      PROVE  /\ \A u \in Uids : creator[u] # None => creator'[u] = creator[u]
             /\ removed' = removed
  <2>1. PICK id \in NewIds : \/ UNCHANGED creator
                             \/ /\ id # EmptyUid
                                /\ creator' = [creator EXCEPT ![id] = user]
    BY <1>2 DEF SaveCard
  <2>2. id # EmptyUid => creator[id] = None
    BY DEF NewIds
  <2> QED
    BY <1>2, <2>1, <2>2 DEF SaveCard, Types, TypeHistory
<1>3. CASE DeleteCard
  BY <1>3 DEF DeleteCard
<1>4. CASE Session
  BY <1>1, <1>4 DEF Session, Launch, OpenSearch, Kill, BeginSignIn, SignInFailed,
              SignInAwayFailed, LogOut, SignInDone, SignInAwayDone, history
<1>5. CASE List
  BY <1>1, <1>5 DEF List, LoadSnapshot, LoadDeliver, Search, EndSearch, history
<1>6. CASE Pictures
  BY <1>1, <1>6 DEF Pictures, UploadStored, UploadDone, UploadLost, ImageDeleted,
                    history
<1>7. CASE Editing
  BY <1>1, <1>2, <1>3, <1>7
     DEF Editing, OpenScanner, CloseScanner, OpenDetail, CloseDetail, SaveNotes,
         OpenEdit, CancelEdit, SaveEdit, updateCardInDbAndNotify,
         userDidUpdateData, history
<1> QED
  BY <1>4, <1>5, <1>6, <1>7 DEF Next

(* What a step does to a record.                                           *)
LEMMA RecordStep ==
    ASSUME Types, Next, NEW a \in Accounts, NEW u \in Uids
    PROVE  \/ db'[a][u] = db[a][u]
           \/ \E d \in Contents : /\ SaveCard(d) /\ a = user /\ creator'[u] = user
                                 /\ db'[a][u] = NewCard(d)
           \/ \E n \in Notes : /\ SaveNotes(n) /\ a = user /\ u = detail.uid
                              /\ db'[a][u] = Annotated(db[a][u], n)
           \/ /\ DeleteCard /\ a = user /\ u = detail.uid
              /\ db'[a][u] = Absent
           \/ \E y \in Urls : /\ UploadDone(y) /\ a = user /\ u = uploads[y].uid
                             /\ db'[a][u] = Updated(db[a][u], uploads[y].data, y)
<1>1. /\ db \in [Accounts -> [Uids -> Record]]
      /\ creator \in [Uids -> Users]
  BY DEF Types, TypeCloud, TypeHistory
<1>2. ASSUME NEW d \in Contents, SaveCard(d)
      PROVE  \/ db'[a][u] = db[a][u]
             \/ /\ a = user /\ creator'[u] = user
                /\ db'[a][u] = NewCard(d)
  <2>1. PICK id \in NewIds : \/ UNCHANGED db
                             \/ /\ db' = [db EXCEPT ![user][id] = NewCard(d)]
                                /\ creator' = [creator EXCEPT ![id] = user]
    BY <1>2 DEF SaveCard
  <2> QED
    BY <1>1, <2>1
<1>3. ASSUME NEW n \in Notes, SaveNotes(n)
      PROVE  \/ db'[a][u] = db[a][u]
             \/ /\ a = user /\ u = detail.uid
                /\ db'[a][u] = Annotated(db[a][u], n)
  BY <1>1, <1>3 DEF SaveNotes
<1>4. ASSUME DeleteCard
      PROVE  \/ db'[a][u] = db[a][u]
             \/ /\ a = user /\ u = detail.uid
                /\ db'[a][u] = Absent
  BY <1>1, <1>4 DEF DeleteCard
<1>5. ASSUME NEW y \in Urls, UploadDone(y)
      PROVE  \/ db'[a][u] = db[a][u]
             \/ /\ a = user /\ u = uploads[y].uid
                /\ db'[a][u] = Updated(db[a][u], uploads[y].data, y)
  BY <1>1, <1>5 DEF UploadDone
<1>6. CASE \/ UNCHANGED cloud \/ Kill
           \/ \E d \in Contents, y \in Urls : SaveEdit(d, y)
           \/ \E y \in Urls : UploadStored(y) \/ UploadLost(y) \/ ImageDeleted(y)
  BY <1>6 DEF cloud, Kill, SaveEdit, updateCardInDbAndNotify,
              userDidUpdateData, UploadStored, UploadLost, ImageDeleted
<1> QED
  BY CloudSteps, <1>2, <1>3, <1>4, <1>5, <1>6

(* What is made of a record's contents, as Listed sees it.                 *)
LEMMA ListedWrites ==
    /\ \A d \in Contents : NewCard(d) \in Record /\ Listed(NewCard(d))
    /\ \A r \in Record, n \in Notes : Listed(Annotated(r, n)) <=> Listed(r)
    /\ \A r \in Record, d \in Contents, x \in Urls \cup {None} :
            Listed(Updated(r, d, x))
    /\ ~Listed(Absent)
BY NoneAssumption, RecordTypes
   DEF NewCard, Annotated, Updated, Listed, Absent, Record

\* Known in the next state, of a u and an a of this one.
KnownNext(u, a) ==
    /\ a \in Accounts /\ u \in Uids /\ creator'[u] # None
    /\ \/ strayed' \/ creator'[u] = a
       \/ \E x \in Urls : /\ uploads'[x].uid = u
                          /\ uploads'[x].st = "done"
                          /\ uploads'[x].to = a
                          /\ uploads'[x].from # a
    /\ strayed' \/ Listed(db'[a][u]) \/ u \in removed'

(* What is known of a card stays known through every step.                 *)
LEMMA KnownStays ==
    ASSUME Types, EditsKnown, Next, NEW u, NEW a, Known(u, a)
    PROVE  KnownNext(u, a)
<1>1. a \in Accounts /\ u \in Uids /\ creator'[u] = creator[u] /\ creator[u] # None
  BY CreatorKept DEF Known
<1>2. strayed => strayed'
  BY UserSteps
<1>3. ASSUME Straddled(u, a)
      PROVE  \E x \in Urls : /\ uploads'[x].uid = u
                            /\ uploads'[x].st = "done"
                            /\ uploads'[x].to = a
                            /\ uploads'[x].from # a
  BY <1>3, DoneStays DEF Straddled
<1>4. ASSUME Listed(db[a][u])
      PROVE  Listed(db'[a][u]) \/ u \in removed'
  <2>1. db[a][u] \in Record
    BY <1>1 DEF Types, TypeCloud
  <2>2. DeleteCard => detail.uid \in removed'
    BY DEF DeleteCard
  <2>3. \A y \in Urls : UploadDone(y) => uploads[y].data \in Contents
    BY DEF UploadDone, EditsKnown, EditKnown
  <2> QED
    BY <1>1, <1>4, <2>1, <2>2, <2>3, RecordStep, ListedWrites
<1>5. u \in removed => u \in removed'
  BY CreatorKept
<1> QED
  BY <1>1, <1>2, <1>3, <1>4, <1>5 DEF Known, KnownNext

(* What is known of the user's card stays known of the next user's, unless
   Home is closed or started anew.                                         *)
LEMMA KnownMoves ==
    ASSUME Types, EditsKnown, Next, user' = user \/ strayed',
           NEW u, Known(u, user)
    PROVE  KnownNext(u, user')
<1>1. KnownNext(u, user)
  BY KnownStays
<1>2. user' \in Accounts
  BY UserKept DEF Known
<1> QED
  BY <1>1, <1>2 DEF KnownNext

-----------------------------------------------------------------------------
(* Records, edits and removals are of known keys.                          *)

(* A record is written for a key that is known in its account.             *)
LEMMA RecordsStep ==
    ASSUME Types, SignedIn, RecordsKnown, CopiesKnown, EditsKnown, Next
    PROVE  RecordsKnown'
<1> SUFFICES ASSUME NEW a \in Accounts, NEW u \in Uids, db'[a][u] # Absent
             PROVE  Known(u, a)'
  BY DEF RecordsKnown
<1> SUFFICES KnownNext(u, a)
  BY DEF Known, Straddled, KnownNext
<1>1. CASE db'[a][u] = db[a][u]
  BY <1>1, KnownStays DEF RecordsKnown
<1>2. ASSUME NEW d \in Contents, a = user, creator'[u] = user,
             db'[a][u] = NewCard(d)
      PROVE  KnownNext(u, a)
  BY <1>2, ListedWrites, NoneAssumption DEF KnownNext
<1>3. ASSUME NEW n \in Notes, SaveNotes(n), a = user, u = detail.uid
      PROVE  KnownNext(u, a)
  <2>1. Known(u, a)
    BY <1>3 DEF SaveNotes, CopiesKnown
  <2> QED
    BY <2>1, KnownStays
<1>4. ASSUME NEW y \in Urls, UploadDone(y), a = user, u = uploads[y].uid,
             db'[a][u] = Updated(db[a][u], uploads[y].data, y)
      PROVE  KnownNext(u, a)
  <2>1. Known(u, uploads[y].from) /\ uploads[y].data \in Contents
    BY <1>4 DEF UploadDone, EditsKnown, EditKnown
  <2>2. CASE uploads[y].from = a
    BY <2>1, <2>2, KnownStays
  <2>3. CASE uploads[y].from # a
    <3>1. /\ uploads'[y].uid = u /\ uploads'[y].st = "done"
          /\ uploads'[y].to = a /\ uploads'[y].from # a
      BY <1>4, <2>3 DEF UploadDone, Types, TypeCloud, Upload
    <3>2. Listed(db'[a][u])
      BY <1>4, <2>1, ListedWrites DEF Types, TypeCloud
    <3>3. creator'[u] # None
      BY <2>1, CreatorKept DEF Known
    <3> QED
      BY <3>1, <3>2, <3>3 DEF KnownNext
  <2> QED
    BY <2>2, <2>3
<1> QED
  BY RecordStep, <1>1, <1>2, <1>3, <1>4

(* What a step does to an edit.                                            *)
LEMMA EditStep ==
    ASSUME Types, Next, NEW x \in Urls
    PROVE  \/ uploads'[x] = uploads[x]
           \/ \E d \in Contents :
                 /\ SaveEdit(d, x)
                 /\ uploads[x].st = "unused"
                 /\ uploads'[x] = [st |-> "putting", uid |-> detail.uid,
                                   data |-> d, old |-> detail.url,
                                   from |-> user, to |-> None]
           \/ /\ InFlight(x) /\ uploads'[x].st # "unused"
              /\ uploads'[x].uid = uploads[x].uid
              /\ uploads'[x].data = uploads[x].data
              /\ uploads'[x].from = uploads[x].from
<1>1. uploads \in [Urls -> Upload] /\ uploads[x] \in Upload
  BY DEF Types, TypeCloud
<1>2. CASE Kill
  BY <1>1, <1>2 DEF Kill, InFlight, Upload
<1>3. ASSUME NEW d \in Contents, NEW y \in Urls, SaveEdit(d, y)
      PROVE  \/ uploads'[x] = uploads[x]
             \/ /\ x = y /\ uploads[x].st = "unused"
                /\ uploads'[x] = [st |-> "putting", uid |-> detail.uid,
                                  data |-> d, old |-> detail.url,
                                  from |-> user, to |-> None]
  BY <1>1, <1>3 DEF SaveEdit, updateCardInDbAndNotify, userDidUpdateData
<1>4. ASSUME NEW y \in Urls, UploadStored(y) \/ UploadDone(y) \/ UploadLost(y)
      PROVE  \/ uploads'[x] = uploads[x]
             \/ /\ InFlight(x) /\ uploads'[x].st # "unused"
                /\ uploads'[x].uid = uploads[x].uid
                /\ uploads'[x].data = uploads[x].data
                /\ uploads'[x].from = uploads[x].from
  BY <1>1, <1>4 DEF UploadStored, UploadDone, UploadLost, InFlight, Upload
<1>5. CASE \/ UNCHANGED cloud \/ DeleteCard
           \/ \E d \in Contents : SaveCard(d)
           \/ \E n \in Notes : SaveNotes(n)
           \/ \E y \in Urls : ImageDeleted(y)
  BY <1>5 DEF cloud, DeleteCard, SaveCard, SaveNotes, ImageDeleted
<1> QED
  BY CloudSteps, <1>2, <1>3, <1>4, <1>5

(* An edit is of a key known in the account it was begun in.               *)
LEMMA EditsStep ==
    ASSUME Types, SignedIn, CopiesKnown, EditsKnown, Next
    PROVE  EditsKnown'
<1> SUFFICES ASSUME NEW x \in Urls
             PROVE  EditKnown(x)'
  BY DEF EditsKnown
<1>1. \A u, a : KnownNext(u, a) => Known(u, a)'
  BY DEF Known, Straddled, KnownNext
<1>2. EditKnown(x)
  BY DEF EditsKnown
<1>3. CASE uploads'[x] = uploads[x]
  <2>1. CASE uploads[x].st = "unused"
    BY <1>2, <1>3, <2>1 DEF EditKnown
  <2>2. CASE uploads[x].st # "unused"
    <3>1. KnownNext(uploads[x].uid, uploads[x].from)
      BY <1>2, <2>2, KnownStays DEF EditKnown
    <3>2. user' \in Accounts
      BY <1>2, <2>2, UserKept DEF EditKnown
    <3> QED
      BY <1>1, <1>2, <1>3, <2>2, <3>1, <3>2 DEF EditKnown
  <2> QED
    BY <2>1, <2>2
<1>4. ASSUME NEW d \in Contents, SaveEdit(d, x),
             uploads'[x] = [st |-> "putting", uid |-> detail.uid,
                            data |-> d, old |-> detail.url,
                            from |-> user, to |-> None]
      PROVE  EditKnown(x)'
  <2>1. Known(detail.uid, user)
    BY <1>4 DEF SaveEdit, CopiesKnown
  <2>2. KnownNext(detail.uid, user) /\ user' \in Accounts
    BY <2>1, KnownStays, UserKept DEF Known
  <2> QED
    BY <1>1, <1>4, <2>2 DEF EditKnown
<1>5. CASE /\ InFlight(x) /\ uploads'[x].st # "unused"
           /\ uploads'[x].uid = uploads[x].uid
           /\ uploads'[x].data = uploads[x].data
           /\ uploads'[x].from = uploads[x].from
  <2> uploads[x].st # "unused"
    BY <1>5 DEF InFlight
  <2>1. KnownNext(uploads[x].uid, uploads[x].from)
    BY <1>2, <1>5, KnownStays DEF EditKnown
  <2>2. user' \in Accounts
    BY <1>2, <1>5, UserKept DEF EditKnown
  <2> QED
    BY <1>1, <1>2, <1>5, <2>1, <2>2 DEF EditKnown
<1> QED
  BY EditStep, <1>3, <1>4, <1>5

(* Only a card that was made can be removed.                               *)
LEMMA RemovedStep ==
    ASSUME Types, CopiesKnown, RemovedKnown, Next
    PROVE  RemovedKnown'
<1>1. removed' = removed \/ (DeleteCard /\ removed' = removed \cup {detail.uid})
  <2>1. CASE Session
    BY <2>1 DEF Session, Launch, OpenSearch, Kill, BeginSignIn, SignInFailed,
                SignInAwayFailed, LogOut, SignInDone, SignInAwayDone, history
  <2>2. CASE List
    BY <2>2 DEF List, LoadSnapshot, LoadDeliver, Search, EndSearch, history
  <2>3. CASE Editing
    BY <2>3 DEF Editing, OpenScanner, CloseScanner, SaveCard, OpenDetail,
                CloseDetail, SaveNotes, OpenEdit, CancelEdit, SaveEdit,
                DeleteCard, history
  <2>4. CASE Pictures
    BY <2>4 DEF Pictures, UploadStored, UploadDone, UploadLost, ImageDeleted,
                history
  <2> QED
    BY <2>1, <2>2, <2>3, <2>4 DEF Next
<1>2. DeleteCard => creator[detail.uid] # None /\ detail.uid \in Uids
  BY DEF DeleteCard, CopiesKnown, Known
<1>3. removed \subseteq Uids
  BY DEF Types, TypeHistory
<1> QED
  BY <1>1, <1>2, <1>3, CreatorKept DEF RemovedKnown

-----------------------------------------------------------------------------
(* Where a card that a list or a screen shows comes from.                  *)

(* A card of the next list was in the list, is just made, or was in a snapshot
   that is delivered.                                                      *)
LEMMA CardsOrigin ==
    ASSUME Types, SignedIn, Next, NEW u \in Ids, Listed(cards'[u])
    PROVE  \/ Listed(cards[u])
           \/ /\ user \in Accounts /\ u \in Uids /\ user' = user
              /\ creator[u] = None /\ creator'[u] = user
              /\ Listed(db'[user][u])
           \/ \E i \in 1..Len(loads) : Listed(loads[i].cards[u])
<1> USE DEF Types
<1>1. CASE UNCHANGED cards
  BY <1>1
<1>2. ASSUME NEW s, NEW q, Root(s, q)
      PROVE  FALSE
  BY <1>2, ListedWrites DEF Root, NoCards
<1>3. CASE Session
  BY <1>1, <1>2, <1>3
     DEF Session, Launch, OpenSearch, presentCurrentUserUI, StartHome, Kill,
         BeginSignIn, SignInFailed, SignInAwayFailed, LogOut, SignInDone,
         SignInAwayDone, home
<1>4. CASE LoadDeliver
  <2>1. loads # <<>> /\ loads \in Seq(Load) /\ Len(loads) \in Nat \ {0}
    BY <1>4, EmptySeq DEF LoadDeliver, TypeHome
  <2>2. cards' = loads[1].cards /\ 1 \in 1..Len(loads)
    BY <1>4, <2>1 DEF LoadDeliver
  <2> QED
    BY <2>2
<1>5. ASSUME NEW d \in Contents, SaveCard(d)
      PROVE  \/ Listed(cards[u])
             \/ /\ user \in Accounts /\ u \in Uids /\ user' = user
                /\ creator[u] = None /\ creator'[u] = user
                /\ Listed(db'[user][u])
  <2>1. PICK id \in NewIds :
          /\ IF id = EmptyUid
             THEN UNCHANGED <<db, creator>>
             ELSE /\ db' = [db EXCEPT ![user][id] = NewCard(d)]
                  /\ creator' = [creator EXCEPT ![id] = user]
          /\ IF delegate THEN userDidEnterCard(id, d) ELSE UNCHANGED cards
    BY <1>5 DEF SaveCard
  <2>2. CASE cards'[u] = cards[u]
    BY <2>2
  <2>3. CASE cards'[u] # cards[u]
    <3>1. loaded /\ u = id
      BY <2>1, <2>3 DEF userDidEnterCard, TypeHome
    <3>2. user \in Accounts
      BY <3>1 DEF SignedIn
    <3>3. id \in Uids /\ id # EmptyUid /\ creator[id] = None
      BY <3>2, NoneAssumption DEF NewIds
    <3>4. db' = [db EXCEPT ![user][id] = NewCard(d)]
          /\ creator' = [creator EXCEPT ![id] = user]
      BY <2>1, <3>3
    <3>5. db'[user][u] = NewCard(d) /\ creator'[u] = user
      BY <3>1, <3>2, <3>3, <3>4 DEF TypeCloud, TypeHistory
    <3> QED
      BY <1>5, <3>1, <3>2, <3>3, <3>5, ListedWrites DEF SaveCard
  <2> QED
    BY <2>2, <2>3
<1>6. ASSUME NEW n \in Notes, SaveNotes(n)
      PROVE  Listed(cards[u])
  BY <1>6 DEF SaveNotes, TouchBoth, Touch, TypeHome
<1>7. ASSUME NEW d \in Contents, NEW x \in Urls, SaveEdit(d, x)
      PROVE  Listed(cards[u])
  BY <1>7 DEF SaveEdit, updateCardInDbAndNotify, userDidUpdateData, TouchBoth,
              Touch, TypeHome
<1>8. CASE \/ LoadSnapshot \/ EndSearch \/ \E D \in SUBSET Contents : Search(D)
           \/ Pictures
  BY <1>1, <1>8 DEF LoadSnapshot, EndSearch, Search, Pictures, UploadStored,
                    UploadDone, UploadLost, ImageDeleted, home
<1>9. CASE \/ OpenScanner \/ CloseScanner \/ CloseDetail \/ OpenEdit \/ CancelEdit
           \/ DeleteCard \/ \E v \in Ids : OpenDetail(v)
  BY <1>1, <1>9 DEF OpenScanner, CloseScanner, CloseDetail, OpenEdit, CancelEdit,
                    DeleteCard, OpenDetail, home
<1> QED
  BY <1>3, <1>4, <1>5, <1>6, <1>7, <1>8, <1>9 DEF Next, List, Editing

(* A card that the search finds next was found or was in the list.         *)
LEMMA FoundOrigin ==
    ASSUME Types, Next, NEW u \in Ids, Listed(found'[u])
    PROVE  Listed(found[u]) \/ Listed(cards[u])
<1> USE DEF Types
<1>1. CASE UNCHANGED found
  BY <1>1
<1>2. ASSUME NEW s, NEW q, Root(s, q)
      PROVE  FALSE
  BY <1>2, ListedWrites DEF Root, NoCards
<1>3. CASE Session
  BY <1>1, <1>2, <1>3
     DEF Session, Launch, OpenSearch, presentCurrentUserUI, StartHome, Kill,
         BeginSignIn, SignInFailed, SignInAwayFailed, LogOut, SignInDone,
         SignInAwayDone, home
<1>4. ASSUME NEW D \in SUBSET Contents, Search(D)
      PROVE  Listed(cards[u])
  BY <1>4, ListedWrites DEF Search
<1>5. ~EndSearch
  BY ListedWrites DEF EndSearch, NoCards
<1>6. ASSUME NEW n \in Notes, SaveNotes(n)
      PROVE  Listed(found[u])
  BY <1>6 DEF SaveNotes, TouchBoth, Touch, TypeHome
<1>7. ASSUME NEW d \in Contents, NEW x \in Urls, SaveEdit(d, x)
      PROVE  Listed(found[u])
  BY <1>7 DEF SaveEdit, updateCardInDbAndNotify, userDidUpdateData, TouchBoth,
              Touch, TypeHome
<1>8. CASE LoadSnapshot \/ LoadDeliver \/ Pictures
  BY <1>1, <1>8 DEF LoadSnapshot, LoadDeliver, Pictures, UploadStored, UploadDone,
                    UploadLost, ImageDeleted, home
<1>9. CASE \/ OpenScanner \/ CloseScanner \/ CloseDetail \/ OpenEdit \/ CancelEdit
           \/ DeleteCard \/ (\E v \in Ids : OpenDetail(v))
           \/ (\E d \in Contents : SaveCard(d))
  BY <1>1, <1>9 DEF OpenScanner, CloseScanner, CloseDetail, OpenEdit, CancelEdit,
                    DeleteCard, OpenDetail, SaveCard, home
<1> QED
  BY <1>3, <1>4, <1>5, <1>6, <1>7, <1>8, <1>9 DEF Next, List, Editing

(* A card of the next snapshot was in one, or is in the database that was
   asked for it.                                                           *)
LEMMA LoadsOrigin ==
    ASSUME Types, SignedIn, Next, NEW i \in 1..Len(loads'), NEW u \in Ids,
           Listed(loads'[i].cards[u])
    PROVE  \/ \E j \in 1..Len(loads) : /\ loads[j].of = loads'[i].of
                                      /\ Listed(loads[j].cards[u])
           \/ /\ loads'[i].of \in Accounts /\ u \in Uids
              /\ Listed(db[loads'[i].of][u])
<1> USE DEF Types
<1>1. CASE UNCHANGED loads
  BY <1>1
<1>2. ASSUME NEW q, ~Listed(Request(q).cards[u])
      PROVE  Requests(q) # loads'
  <2>1. CASE q = None
    BY <2>1 DEF Requests
  <2>2. CASE q # None
    BY <1>2, <2>2 DEF Requests
  <2> QED
    BY <2>1, <2>2
<1>3. \A q : ~Listed(Request(q).cards[u])
  BY ListedWrites DEF Request, NoCards
<1>4. ASSUME NEW s, NEW q, Root(s, <<>>) \/ Root(s, Requests(q))
      PROVE  FALSE
  BY <1>2, <1>3, <1>4 DEF Root
<1>5. CASE Session
  BY <1>1, <1>4, <1>5
     DEF Session, Launch, OpenSearch, presentCurrentUserUI, StartHome, Kill,
         BeginSignIn, SignInFailed, SignInAwayFailed, LogOut, SignInDone,
         SignInAwayDone, home
<1>6. CASE LoadSnapshot
  <2>1. PICK k \in 1..Len(loads) : loads' = [loads EXCEPT ![k] = Answered(loads[k])]
    BY <1>6 DEF LoadSnapshot
  <2>2. loads[k] \in Load
    BY ElementOfSeq DEF TypeHome
  <2>3. /\ Answered(loads[k]) \in Load
        /\ Answered(loads[k]).cards = Snapshot(loads[k].of)
        /\ Answered(loads[k]).of = loads[k].of
    BY <2>2, AnsweredType DEF TypeCloud, Answered, Load
  <2>4. /\ Len(loads') = Len(loads)
        /\ \A j \in 1..Len(loads) :
              loads'[j] = IF j = k THEN Answered(loads[k]) ELSE loads[j]
    BY <2>1, <2>3, ExceptSeq DEF TypeHome
  <2>5. CASE i # k
    BY <2>4, <2>5
  <2>6. CASE i = k
    <3>1. loads'[i].of = loads[k].of /\ Listed(Snapshot(loads[k].of)[u])
      BY <2>3, <2>4, <2>6
    <3>2. u \in Uids /\ Listed(db[loads[k].of][u])
      BY <3>1, ListedWrites DEF Snapshot, Card
    <3> QED
      BY <2>2, <3>1, <3>2 DEF Load
  <2> QED
    BY <2>5, <2>6
<1>7. CASE LoadDeliver
  <2>1. loads # <<>> /\ loads \in Seq(Load) /\ Len(loads) \in Nat \ {0}
    BY <1>7, EmptySeq DEF LoadDeliver, TypeHome
  <2>2. i + 1 \in 1..Len(loads) /\ loads'[i] = loads[i + 1]
    BY <1>7, <2>1, HeadTailProperties DEF LoadDeliver
  <2> QED
    BY <2>2
<1>8. CASE DeleteCard
  <2>1. user \in Accounts
    BY <1>8 DEF DeleteCard, SignedIn
  <2>2. Request(user) \in Load /\ loads \in Seq(Load)
        /\ loads' = Append(loads, Request(user))
    BY <1>8, <2>1, RecordTypes DEF DeleteCard, TypeHome
  <2>3. \/ i \in 1..Len(loads) /\ loads'[i] = loads[i]
        \/ loads'[i] = Request(user)
    BY <2>2, AppendProperties, LenProperties
  <2> QED
    BY <1>3, <2>3
<1>9. CASE \/ EndSearch \/ Pictures \/ \E D \in SUBSET Contents : Search(D)
  BY <1>1, <1>9 DEF EndSearch, Search, Pictures, UploadStored, UploadDone,
                    UploadLost, ImageDeleted, home
<1>10. CASE \/ OpenScanner \/ CloseScanner \/ CloseDetail \/ OpenEdit \/ CancelEdit
            \/ (\E v \in Ids : OpenDetail(v))
            \/ (\E d \in Contents : SaveCard(d))
            \/ (\E n \in Notes : SaveNotes(n))
            \/ (\E d \in Contents, x \in Urls : SaveEdit(d, x))
  BY <1>1, <1>10 DEF OpenScanner, CloseScanner, CloseDetail, OpenEdit, CancelEdit,
                     OpenDetail, SaveCard, SaveNotes, SaveEdit, home
<1> QED
  BY <1>5, <1>6, <1>7, <1>8, <1>9, <1>10 DEF Next, List, Editing

(* A card screen shows the card it showed, or one that Home showed.        *)
LEMMA DetailOrigin ==
    ASSUME Types, Next
    PROVE  /\ \/ detail'.uid = detail.uid \/ detail'.uid = EmptyUid
              \/ detail'.uid \in Ids /\ Listed(Shown[detail'.uid])
           /\ screen' \in {"detail", "edit"} =>
                \/ screen \in {"detail", "edit"} /\ detail'.uid = detail.uid
                \/ detail'.uid \in Ids /\ Listed(Shown[detail'.uid])
<1> USE DEF Types
<1>1. ASSUME NEW s, NEW q, Root(s, q)
      PROVE  detail'.uid = EmptyUid /\ screen' = s
  BY <1>1 DEF Root, NoDetail
<1>2. CASE Session
  BY <1>1, <1>2
     DEF Session, Launch, OpenSearch, presentCurrentUserUI, StartHome, Kill,
         BeginSignIn, SignInFailed, SignInAwayFailed, LogOut, SignInDone,
         SignInAwayDone, home
<1>3. ASSUME NEW v \in Ids, OpenDetail(v)
      PROVE  detail'.uid = v /\ Listed(Shown[v])
  BY <1>3 DEF OpenDetail
<1>4. ASSUME NEW d \in Contents, NEW x \in Urls, SaveEdit(d, x)
      PROVE  screen = "edit" /\ detail'.uid = detail.uid
  BY <1>4 DEF SaveEdit, updateCardInDbAndNotify, userDidUpdateData, TypeHome,
              Detail
<1>5. CASE CloseDetail \/ DeleteCard
  BY <1>5 DEF CloseDetail, DeleteCard, NoDetail
<1>6. CASE \/ OpenScanner \/ CloseScanner \/ OpenEdit \/ CancelEdit
           \/ (\E d \in Contents : SaveCard(d))
           \/ (\E n \in Notes : SaveNotes(n))
  BY <1>6 DEF OpenScanner, CloseScanner, OpenEdit, CancelEdit, SaveCard,
              SaveNotes, app, home
<1>7. CASE List \/ Pictures
  BY <1>7 DEF List, LoadSnapshot, LoadDeliver, Search, EndSearch, Pictures,
              UploadStored, UploadDone, UploadLost, ImageDeleted, app, home
<1> QED
  BY <1>2, <1>3, <1>4, <1>5, <1>6, <1>7 DEF Next, Editing

-----------------------------------------------------------------------------
(* Copies are of known keys.                                               *)

(* A card that is shown or loaded next is known next, as a card of the user
   there is then.                                                          *)
LEMMA KnownCards ==
    ASSUME Types, SignedIn, Blank, Copies, CopiesKnown, EditsKnown, Next,
           user' = user \/ strayed', NEW u \in Ids, Listed(cards'[u])
    PROVE  KnownNext(u, user')
<1>1. CASE Listed(cards[u])
  BY <1>1, KnownMoves DEF CopiesKnown, KnownIn
<1>2. CASE /\ user \in Accounts /\ u \in Uids /\ user' = user
           /\ creator'[u] = user /\ Listed(db'[user][u])
  BY <1>2, NoneAssumption DEF KnownNext
<1>3. ASSUME NEW i \in 1..Len(loads), Listed(loads[i].cards[u])
      PROVE  KnownNext(u, user')
  <2>1. Known(u, loads[i].of) /\ (strayed \/ loads[i].of = user)
    BY <1>3 DEF CopiesKnown, KnownIn, Copies
  <2>2. user \in Accounts
    BY DEF SignedIn, Types, TypeHome
  <2>3. Known(u, user)
    BY <2>1, <2>2 DEF Known
  <2> QED
    BY <2>3, KnownMoves
<1> QED
  BY CardsOrigin, <1>1, <1>2, <1>3

(* Lists, snapshots and screens get known keys only.                       *)
LEMMA CopiesKnownStep ==
    ASSUME Types, SignedIn, Blank, Copies, RecordsKnown, CopiesKnown, EditsKnown,
           Next
    PROVE  CopiesKnown'
<1>0. \A u, a : KnownNext(u, a) => Known(u, a)'
  BY DEF Known, Straddled, KnownNext
\* A user who changes unnoticed finds nothing shown.
<1>1. \/ user' = user \/ strayed'
      \/ /\ \A u \in Ids : ~Listed(cards'[u]) /\ ~Listed(found'[u])
         /\ screen' \notin {"detail", "edit"}
  <2>1. \A u \in Ids : ~Listed(NoCards[u])
    BY ListedWrites DEF NoCards
  <2>2. CASE screen \notin HomeScreens /\ UNCHANGED home
    <3>1. cards' = NoCards /\ found' = NoCards
      BY <2>2 DEF Blank, home
    <3>2. screen' \notin {"detail", "edit"}
      <4>1. ~Listed(Shown[detail'.uid]) \/ detail'.uid \notin Ids
        BY <2>1, <2>2 DEF Shown, Blank
      <4>2. screen \notin {"detail", "edit"}
        BY <2>2 DEF HomeScreens
      <4> QED
        BY <4>1, <4>2, DetailOrigin
    <3> QED
      BY <2>1, <3>1, <3>2
  <2>3. CASE \E a \in Accounts : StartHome(a) /\ user' = a
    BY <2>1, <2>3 DEF StartHome, Root
  <2> QED
    BY <2>2, <2>3, UserSteps
<1>2. ASSUME user' = user \/ strayed', NEW u \in Ids, Listed(Shown[u])
      PROVE  KnownNext(u, user')
  <2>1. Known(u, user)
    BY <1>2 DEF Shown, CopiesKnown, KnownIn
  <2> QED
    BY <1>2, <2>1, KnownMoves
<1>3. KnownIn(cards, user)'
  BY <1>0, <1>1, KnownCards DEF KnownIn
<1>4. KnownIn(found, user)'
  <2>1. ASSUME user' = user \/ strayed', NEW u \in Ids, Listed(found'[u])
        PROVE  KnownNext(u, user')
    <3>1. Known(u, user)
      BY <2>1, FoundOrigin DEF CopiesKnown, KnownIn
    <3> QED
      BY <2>1, <3>1, KnownMoves
  <2> QED
    BY <1>0, <1>1, <2>1 DEF KnownIn
<1>5. ASSUME NEW i \in 1..Len(loads'), NEW u \in Ids, Listed(loads'[i].cards[u])
      PROVE  KnownNext(u, loads'[i].of)
  <2>1. ASSUME NEW j \in 1..Len(loads), Listed(loads[j].cards[u])
        PROVE  KnownNext(u, loads[j].of)
    BY <2>1, KnownStays DEF CopiesKnown, KnownIn
  <2>2. ASSUME NEW a \in Accounts, u \in Uids, Listed(db[a][u])
        PROVE  KnownNext(u, a)
    <3>1. Known(u, a)
      BY <2>2, ListedWrites DEF RecordsKnown
    <3> QED
      BY <3>1, KnownStays
  <2> QED
    BY <1>5, <2>1, <2>2, LoadsOrigin
<1>6. (\A i \in 1..Len(loads) : KnownIn(loads[i].cards, loads[i].of))'
  BY <1>0, <1>5 DEF KnownIn
<1>7. (screen \in {"detail", "edit"} => Known(detail.uid, user))'
  <2> SUFFICES ASSUME screen' \in {"detail", "edit"}
               PROVE  KnownNext(detail'.uid, user')
    BY <1>0
  <2>1. user' = user \/ strayed'
    BY <1>1
  <2>2. CASE screen \in {"detail", "edit"} /\ detail'.uid = detail.uid
    BY <2>1, <2>2, KnownMoves DEF CopiesKnown
  <2>3. CASE detail'.uid \in Ids /\ Listed(Shown[detail'.uid])
    BY <1>2, <2>1, <2>3
  <2> QED
    BY <2>2, <2>3, DetailOrigin
<1> QED
  BY <1>3, <1>4, <1>6, <1>7 DEF CopiesKnown

-----------------------------------------------------------------------------
(* What a removed card needs to come back.                                 *)

(* A removed card that nothing shows and no upload carries stays away.     *)
LEMMA GoneStep ==
    ASSUME Types, SignedIn, CopiesKnown, RemovedKnown, Next,
           NEW u \in Uids, Gone(u)
    PROVE  Gone(u)'
<1>1. u \in removed' /\ creator[u] # None /\ u \in Ids /\ u # EmptyUid
  BY CreatorKept, NoneAssumption DEF Gone, RemovedKnown, Ids
<1>2. \A a \in Accounts : ~Listed(db'[a][u])
  <2> SUFFICES ASSUME NEW a \in Accounts, Listed(db'[a][u])
               PROVE  FALSE
    OBVIOUS
  <2>1. ~Listed(db[a][u]) /\ db[a][u] \in Record
    BY DEF Gone, Types, TypeCloud
  <2>2. ASSUME NEW d \in Contents, SaveCard(d), creator'[u] = user,
               db'[a][u] = NewCard(d), db'[a][u] # db[a][u]
        PROVE  FALSE
    <3>1. PICK id \in NewIds : db' = db \/ (/\ db' = [db EXCEPT ![user][id] = NewCard(d)]
                                           /\ id # EmptyUid)
      BY <2>2 DEF SaveCard
    <3>2. id = u /\ id # EmptyUid
      BY <2>2, <3>1 DEF Types, TypeCloud
    <3> QED
      BY <1>1, <3>2 DEF NewIds
  <2>3. ASSUME NEW y \in Urls, UploadDone(y), u = uploads[y].uid
        PROVE  FALSE
    BY <2>3 DEF UploadDone, Gone, InFlight
  <2> QED
    BY <2>1, <2>2, <2>3, RecordStep, ListedWrites
<1>3. ~Listed(cards'[u])
  BY <1>1, CardsOrigin DEF Gone
<1>4. ~Listed(found'[u])
  BY <1>1, FoundOrigin DEF Gone
<1>5. detail'.uid # u
  <2>1. ~Listed(Shown[u])
    BY DEF Gone, Shown
  <2> QED
    BY <1>1, <2>1, DetailOrigin DEF Gone
<1>6. \A i \in 1..Len(loads') : ~Listed(loads'[i].cards[u])
  BY <1>1, LoadsOrigin DEF Gone
<1>7. ASSUME NEW x \in Urls, uploads'[x].uid = u
      PROVE  ~InFlight(x)'
  <2>1. CASE uploads'[x] = uploads[x]
    BY <1>7, <2>1 DEF Gone, InFlight
  <2>2. ASSUME NEW d,
               uploads'[x] = [st |-> "putting", uid |-> detail.uid, data |-> d,
                              old |-> detail.url, from |-> user, to |-> None]
        PROVE  FALSE
    BY <1>7, <2>2 DEF Gone
  <2>3. CASE InFlight(x) /\ uploads'[x].uid = uploads[x].uid
    BY <1>7, <2>3 DEF Gone
  <2> QED
    BY EditStep, <2>1, <2>2, <2>3
<1> QED
  BY <1>1, <1>2, <1>3, <1>4, <1>5, <1>6, <1>7 DEF Gone

-----------------------------------------------------------------------------
(* The ledger.                                                             *)

(* Keys are given out by SaveCard only, and users change behind its back.  *)
LEMMA QuietSteps ==
    ASSUME Next
    PROVE  /\ UNCHANGED creator \/ \E d \in Contents : SaveCard(d)
           /\ user' = user \/ (user' \in Accounts /\ UNCHANGED <<cloud, creator>>)
<1>1. CASE Session
  BY <1>1 DEF Session, Launch, OpenSearch, Kill, BeginSignIn, SignInFailed,
              SignInAwayFailed, LogOut, SignInDone, SignInAwayDone, history
<1>2. CASE List
  BY <1>2 DEF List, LoadSnapshot, LoadDeliver, Search, EndSearch, app, history
<1>3. CASE Pictures
  BY <1>3 DEF Pictures, UploadStored, UploadDone, UploadLost, ImageDeleted, app,
              history
<1>4. CASE Editing
  BY <1>4 DEF Editing, OpenScanner, CloseScanner, SaveCard, OpenDetail,
              CloseDetail, SaveNotes, OpenEdit, CancelEdit, SaveEdit, DeleteCard,
              app, history
<1> QED
  BY <1>1, <1>2, <1>3, <1>4 DEF Next

(* The entries of what the code writes.                                    *)
LEMMA Entries ==
    /\ Entry(Absent) = Promise!NoEntry
    /\ \A d \in Contents :
          Entry(NewCard(d)) = [data |-> d, image |-> None, notes |-> None]
    /\ \A r \in Record, n \in Notes :
          Entry(Annotated(r, n)) = [Entry(r) EXCEPT !.notes = n]
    /\ \A r \in Record : \A d, x :
          Entry(Updated(r, d, x)) = [data |-> d, image |-> x,
                                     notes |-> Entry(r).notes]
BY DEF Entry, Absent, Promise!NoEntry, NewCard, Annotated, Updated, Record

(* The states of an upload, as the ledger calls them.                      *)
LEMMA EditStates ==
    /\ EditState["unused"] = "free"
    /\ EditState["putting"] = "pending" /\ EditState["stored"] = "pending"
    /\ EditState["done"] = "applied" /\ EditState["lost"] = "dropped"
BY DEF EditState

(* A write of the code to one record is an entry of the user's ledger.     *)
LEMMA EnterStep ==
    ASSUME Types, user \in Accounts, user' = user, NEW v \in Uids, NEW r,
           db' = [db EXCEPT ![user][v] = r]
    PROVE  Promise!Enter(v, Entry(r))
BY DEF Types, TypeCloud, Promise!Enter

(* Edits that are the same one by one are the same.                        *)
LEMMA EditsSame ==
    ASSUME \A x \in Urls : Edit(x)' = Edit(x)
    PROVE  [x \in Urls |-> Edit(x)]' = [x \in Urls |-> Edit(x)]
OBVIOUS

(* Edits whose uploads are lost are dropped.                               *)
LEMMA DropStep ==
    ASSUME Types, NEW S \in SUBSET Urls, \A x \in S : InFlight(x),
           uploads' = [x \in Urls |-> IF x \in S THEN [uploads[x] EXCEPT !.st = "lost"]
                                     ELSE uploads[x]],
           UNCHANGED <<db, creator, user>>
    PROVE  Promise!Next
<1> DEFINE edits == [x \in Urls |-> Edit(x)]
<1>1. \A x \in S : edits[x].state = "pending"
  BY EditStates DEF Edit, InFlight
<1>2. ASSUME NEW x \in Urls
      PROVE  Edit(x)' = IF x \in S THEN [Edit(x) EXCEPT !.state = "dropped"] ELSE Edit(x)
  <2>1. CASE x \in S
    <3>1. /\ uploads'[x].st = "lost" /\ uploads[x].st # "unused"
          /\ uploads'[x].uid = uploads[x].uid
          /\ uploads'[x].data = uploads[x].data
      BY <2>1 DEF InFlight, Types, TypeCloud, Upload
    <3> QED
      BY <2>1, <3>1, EditStates DEF Edit
  <2>2. CASE x \notin S
    BY <2>2 DEF Edit
  <2> QED
    BY <2>1, <2>2
<1>3. edits' = [x \in Urls |-> IF x \in S THEN [edits[x] EXCEPT !.state = "dropped"]
                              ELSE edits[x]]
  BY <1>2
<1>4. Promise!Drop(S)
  BY <1>1, <1>3 DEF Promise!Drop
<1> QED
  BY <1>4 DEF Promise!Next

(* Every step of the store is one of the ledger, or none.                  *)
LEMMA LedgerStep ==
    ASSUME Types, SignedIn, CopiesKnown, EditsKnown, Next
    PROVE  [Promise!Next]_(Promise!vars)
<1> DEFINE ledger == [a \in Accounts |-> [u \in Uids |-> Entry(db[a][u])]]
           edits == [x \in Urls |-> Edit(x)]
           issued == {u \in Uids : creator[u] # None}
<1>0. /\ db \in [Accounts -> [Uids -> Record]]
      /\ uploads \in [Urls -> Upload]
      /\ creator \in [Uids -> Users]
  BY DEF Types, TypeCloud, TypeHistory
<1>1. ASSUME UNCHANGED <<db, creator>>, user' = user, \A x \in Urls : Edit(x)' = Edit(x)
      PROVE  UNCHANGED Promise!vars
  BY <1>1, EditsSame DEF Promise!vars
<1>2. ASSUME uploads' = uploads
      PROVE  (\A x \in Urls : Edit(x)' = Edit(x)) /\ edits' = edits
  BY <1>2 DEF Edit
<1>3. ASSUME NEW d \in Contents, SaveCard(d)
      PROVE  [Promise!Next]_(Promise!vars)
  <2>1. PICK id \in NewIds :
          IF id = EmptyUid THEN UNCHANGED <<db, creator>>
          ELSE /\ db' = [db EXCEPT ![user][id] = NewCard(d)]
               /\ creator' = [creator EXCEPT ![id] = user]
    BY <1>3 DEF SaveCard
  <2>2. uploads' = uploads /\ user' = user
    BY <1>3 DEF SaveCard
  <2>3. CASE id = EmptyUid
    BY <1>1, <1>2, <2>1, <2>2, <2>3
  <2>4. CASE id # EmptyUid
    <3>1. user \in Accounts /\ id \in Uids /\ creator[id] = None
      BY <2>4 DEF NewIds, Types, TypeApp, Users
    <3>2. Promise!Enter(id, Entry(NewCard(d)))
      BY <2>1, <2>2, <2>4, <3>1, EnterStep
    <3>3. id \notin issued /\ issued' = issued \cup {id}
      BY <1>0, <2>1, <2>4, <3>1, NoneAssumption
    <3>4. edits' = edits
      BY <1>2, <2>2
    <3>5. Promise!Create(id, d)
      BY <3>2, <3>3, <3>4, Entries DEF Promise!Create
    <3> QED
      BY <3>1, <3>5 DEF Promise!Next
  <2> QED
    BY <2>3, <2>4
<1>4. CASE UNCHANGED <<cloud, creator>>
  <2>1. UNCHANGED <<db, uploads>>
    BY <1>4 DEF cloud
  <2>2. CASE user' = user
    BY <1>1, <1>2, <1>4, <2>1, <2>2
  <2>3. CASE user' \in Accounts
    <3>1. ledger' = ledger /\ edits' = edits /\ issued' = issued
      BY <1>2, <1>4, <2>1
    <3>2. Promise!SignIn(user')
      BY <3>1 DEF Promise!SignIn
    <3> QED
      BY <2>3, <3>2 DEF Promise!Next
  <2> QED
    BY <2>2, <2>3, QuietSteps
<1>6. CASE Kill
  <2> DEFINE S == {x \in Urls : InFlight(x)}
  <2>1. uploads' = [x \in Urls |-> IF x \in S THEN [uploads[x] EXCEPT !.st = "lost"]
                                  ELSE uploads[x]]
    BY <1>6 DEF Kill
  <2>2. UNCHANGED <<db, creator, user>>
    BY <1>6 DEF Kill
  <2>3. S \in SUBSET Urls /\ \A x \in S : InFlight(x)
    OBVIOUS
  <2> QED
    BY <2>1, <2>2, <2>3, DropStep
<1>7. ASSUME NEW y \in Urls, UploadLost(y)
      PROVE  [Promise!Next]_(Promise!vars)
  <2>1. uploads' = [x \in Urls |-> IF x \in {y} THEN [uploads[x] EXCEPT !.st = "lost"]
                                  ELSE uploads[x]]
    BY <1>0, <1>7 DEF UploadLost
  <2>2. UNCHANGED <<db, creator, user>> /\ InFlight(y)
    BY <1>7 DEF UploadLost, app, history
  <2>3. {y} \in SUBSET Urls /\ \A x \in {y} : InFlight(x)
    BY <2>2
  <2> QED
    BY <2>1, <2>2, <2>3, DropStep
<1>8. CASE DeleteCard
  <2>1. detail.uid \in Uids /\ user \in Accounts /\ creator[detail.uid] # None
    BY <1>8 DEF DeleteCard, CopiesKnown, Known
  <2>2. /\ db' = [db EXCEPT ![user][detail.uid] = Absent]
        /\ UNCHANGED <<user, uploads, creator>>
    BY <1>8 DEF DeleteCard
  <2>3. Promise!Enter(detail.uid, Entry(Absent))
    BY <2>1, <2>2, EnterStep
  <2>4. edits' = edits /\ issued' = issued
    BY <1>2, <2>2
  <2>5. Promise!Remove(detail.uid)
    BY <2>1, <2>3, <2>4, Entries DEF Promise!Remove
  <2> QED
    BY <2>1, <2>5 DEF Promise!Next
<1>9. ASSUME NEW n \in Notes, SaveNotes(n)
      PROVE  [Promise!Next]_(Promise!vars)
  <2>1. detail.uid \in Uids /\ user \in Accounts /\ creator[detail.uid] # None
    BY <1>9 DEF SaveNotes, CopiesKnown, Known
  <2>2. /\ db' = [db EXCEPT ![user][detail.uid] = Annotated(db[user][detail.uid], n)]
        /\ UNCHANGED <<user, uploads, creator>>
    BY <1>0, <1>9, <2>1 DEF SaveNotes, app
  <2>3. Promise!Enter(detail.uid, Entry(Annotated(db[user][detail.uid], n)))
    BY <2>1, <2>2, EnterStep
  <2>4. Entry(Annotated(db[user][detail.uid], n)) =
            [ledger[user][detail.uid] EXCEPT !.notes = n]
    <3>1. db[user][detail.uid] \in Record
      BY <1>0, <2>1
    <3>2. ledger[user][detail.uid] = Entry(db[user][detail.uid])
      BY <2>1
    <3> HIDE DEF ledger
    <3> QED
      BY <3>1, <3>2, Entries
  <2>5. edits' = edits /\ issued' = issued
    BY <1>2, <2>2
  <2>6. Promise!Annotate(detail.uid, n)
    BY <2>1, <2>3, <2>4, <2>5 DEF Promise!Annotate
  <2> QED
    BY <2>1, <2>6 DEF Promise!Next
<1>10. ASSUME NEW d \in Contents, NEW x \in Urls, SaveEdit(d, x)
       PROVE  [Promise!Next]_(Promise!vars)
  <2>1. detail.uid \in Uids /\ user \in Accounts /\ creator[detail.uid] # None
    BY <1>10 DEF SaveEdit, CopiesKnown, Known
  <2>2. /\ uploads' = [uploads EXCEPT ![x] =
                          [st |-> "putting", uid |-> detail.uid, data |-> d,
                           old |-> detail.url, from |-> user, to |-> None]]
        /\ uploads[x].st = "unused"
        /\ UNCHANGED <<user, db, creator>>
    BY <1>10 DEF SaveEdit, updateCardInDbAndNotify, userDidUpdateData, history
  <2>3. Edit(x)' = [state |-> "pending", uid |-> detail.uid, data |-> d]
    BY <1>0, <2>2, EditStates DEF Edit
  <2>4. \A y \in Urls : y # x => Edit(y)' = Edit(y)
    BY <1>0, <2>2 DEF Edit
  <2>5. edits' = [edits EXCEPT ![x] = [state |-> "pending", uid |-> detail.uid,
                                       data |-> d]]
    BY <2>3, <2>4
  <2>6. edits[x].state = "free"
    BY <2>2, EditStates DEF Edit
  <2>7. ledger' = ledger /\ issued' = issued
    BY <2>2
  <2>8. Promise!Propose(x, detail.uid, d)
    BY <2>1, <2>2, <2>5, <2>6, <2>7 DEF Promise!Propose
  <2> QED
    BY <2>1, <2>8 DEF Promise!Next
<1>11. ASSUME NEW x \in Urls, UploadDone(x)
       PROVE  [Promise!Next]_(Promise!vars)
  <2> DEFINE u == uploads[x].uid
  <2>1. /\ u \in Uids /\ user \in Accounts
        /\ uploads[x].st = "stored"
    BY <1>11 DEF UploadDone, EditsKnown, EditKnown, Known
  <2>2. /\ db' = [db EXCEPT ![user][u] = Updated(db[user][u], uploads[x].data, x)]
        /\ UNCHANGED <<user, creator>>
    BY <1>0, <1>11, <2>1 DEF UploadDone, app, history
  <2>3. Promise!Enter(u, Entry(Updated(db[user][u], uploads[x].data, x)))
    BY <2>1, <2>2, EnterStep
  <2>4. /\ uploads'[x].st = "done" /\ uploads'[x].uid = u
        /\ uploads'[x].data = uploads[x].data
    BY <1>0, <1>11 DEF UploadDone, Upload
  <2>5. Edit(x)' = [Edit(x) EXCEPT !.state = "applied"]
    BY <2>1, <2>4, EditStates DEF Edit
  <2>6. \A y \in Urls : y # x => Edit(y)' = Edit(y)
    BY <1>0, <1>11 DEF UploadDone, Edit
  <2>7. edits' = [edits EXCEPT ![x].state = "applied"]
    BY <2>5, <2>6
  <2>8. /\ edits[x].state = "pending" /\ edits[x].uid = u
        /\ edits[x].data = uploads[x].data
    BY <2>1, EditStates DEF Edit
  <2>9. Entry(Updated(db[user][u], uploads[x].data, x)) =
            [data |-> edits[x].data, image |-> x, notes |-> ledger[user][u].notes]
    BY <1>0, <2>1, <2>8, Entries
  <2>10. issued' = issued
    BY <2>2
  <2>11. Promise!Apply(x)
    BY <2>3, <2>7, <2>8, <2>9, <2>10 DEF Promise!Apply
  <2> QED
    BY <2>11 DEF Promise!Next
<1>12. ASSUME NEW y \in Urls, UploadStored(y)
       PROVE  UNCHANGED Promise!vars
  <2>1. UNCHANGED <<user, db, creator>>
    BY <1>12 DEF UploadStored, app, history
  <2>2. /\ uploads[y].st = "putting" /\ uploads'[y].st = "stored"
        /\ uploads'[y].uid = uploads[y].uid /\ uploads'[y].data = uploads[y].data
    BY <1>0, <1>12 DEF UploadStored, Upload
  <2>3. Edit(y)' = Edit(y)
    BY <2>2, EditStates DEF Edit
  <2>4. \A x \in Urls : x # y => Edit(x)' = Edit(x)
    BY <1>0, <1>12 DEF UploadStored, Edit
  <2> QED
    BY <1>1, <2>1, <2>3, <2>4
<1>13. ASSUME NEW y \in Urls, ImageDeleted(y)
       PROVE  UNCHANGED Promise!vars
  BY <1>1, <1>2, <1>13 DEF ImageDeleted, app, history
<1> QED
  BY CloudSteps, QuietSteps, <1>3, <1>4, <1>6, <1>7, <1>8, <1>9, <1>10, <1>11,
     <1>12, <1>13

-----------------------------------------------------------------------------
(* Home's list.                                                            *)

(* A Home that stays open keeps its user and what it has not heard of.     *)
LEMMA HomeStays ==
    ASSUME Next, screen' \in HomeScreens, ~strayed'
    PROVE  \/ \E a : StartHome(a)
           \/ /\ screen \in HomeScreens /\ ~strayed
              /\ user' = user /\ raced \subseteq raced'
<1>1. ~strayed
  BY UserSteps
<1>2. \A s : s \in {"off", "login", "signing"} => screen' # s
  BY DEF HomeScreens
<1>3. CASE Session
  <2>1. CASE Launch \/ OpenSearch \/ Kill \/ LogOut \/ \E a \in Accounts : SignInDone(a)
    BY <1>2, <2>1 DEF Launch, OpenSearch, Kill, LogOut, SignInDone,
                      presentCurrentUserUI, Root
  <2>2. CASE BeginSignIn \/ SignInFailed
    BY <1>2, <2>2 DEF BeginSignIn, SignInFailed
  <2>3. CASE SignInAwayFailed
    BY <1>1, <2>3 DEF SignInAwayFailed, history
  <2>4. ASSUME NEW a \in Accounts, SignInAwayDone(a)
        PROVE  screen \in HomeScreens /\ user' = user /\ raced \subseteq raced'
    <3>1. screen' = screen /\ raced' = raced
      BY <2>4 DEF SignInAwayDone, history
    <3>2. user' = user
      BY <2>4, <3>1 DEF SignInAwayDone
    <3> QED
      BY <3>1, <3>2
  <2> QED
    BY <1>1, <1>3, <2>1, <2>2, <2>3, <2>4 DEF Session
<1>4. CASE List
  BY <1>1, <1>4 DEF List, LoadSnapshot, LoadDeliver, Search, EndSearch, app, history
<1>5. CASE Pictures
  BY <1>1, <1>5 DEF Pictures, UploadStored, UploadDone, UploadLost, ImageDeleted,
                    app, history
<1>6. CASE Editing
  <2>1. user' = user /\ screen \in HomeScreens
    BY <1>6, OtherSteps
  <2>2. raced \subseteq raced'
    BY <1>6 DEF Editing, OpenScanner, CloseScanner, SaveCard, OpenDetail,
                CloseDetail, SaveNotes, OpenEdit, CancelEdit, SaveEdit,
                DeleteCard, history
  <2> QED
    BY <1>1, <2>1, <2>2
<1> QED
  BY <1>3, <1>4, <1>5, <1>6 DEF Next

(* An edit that Home has not heard of stays one.                           *)
LEMMA SettledBefore ==
    ASSUME Types, EditsKnown, Next, raced \subseteq raced',
           NEW u \in Uids, Settled(u)'
    PROVE  Settled(u)
<1> SUFFICES ASSUME NEW x \in Urls, uploads[x].uid = u
             PROVE  FALSE
  BY DEF Settled
<1>1. uploads'[x].uid # u
  BY DEF Settled
<1>2. uploads[x].st = "unused"
  BY <1>1, EditStep DEF InFlight
<1>3. uploads[x].uid = EmptyUid
  BY <1>2 DEF EditsKnown, EditKnown, Unused
<1> QED
  BY <1>3, NoneAssumption

(* What a list shows of what is written.                                   *)
LEMMA CardWrites ==
    /\ \A d \in Contents : Card(NewCard(d)) = NewCard(d)
    /\ \A r : Listed(r) => Card(r) = r
    /\ \A r : ~Listed(r) => Card(r) = Absent
BY ListedWrites DEF Card

(* A step that touches neither the list nor what it should show.           *)
LEMMA MirrorSame ==
    ASSUME NEW u \in Uids, Mirrored(u), UNCHANGED <<loaded, loads>>,
           cards'[u] = cards[u], db'[user'][u] = db[user][u]
    PROVE  Mirrored(u)'
BY DEF Mirrored, Card

(* The record that HomeViewController has for u when it appends or annotates
   one without a load under way.                                           *)
LEMMA MirrorWrites ==
    ASSUME Types, SignedIn, NEW u \in Uids, Mirrored(u), u \notin raced',
           (\E d \in Contents : SaveCard(d)) \/ (\E n \in Notes : SaveNotes(n))
    PROVE  Mirrored(u)'
<1>1. /\ db \in [Accounts -> [Uids -> Record]]
      /\ cards \in [Ids -> Record] /\ u \in Ids /\ loads \in Seq(Load)
  BY DEF Types, TypeCloud, TypeHome, Ids
<1>2. UNCHANGED <<user, loaded, loads>>
  BY DEF SaveCard, SaveNotes, app
<1>3. CASE SnapshotOut
  <2>1. ASSUME NEW d \in Contents, SaveCard(d)
        PROVE  cards'[u] = cards[u] /\ db'[user][u] = db[user][u]
    <3>1. PICK id \in NewIds :
            /\ id # u
            /\ db' = db \/ db' = [db EXCEPT ![user][id] = NewCard(d)]
            /\ cards' = cards \/ cards' = [cards EXCEPT ![id] = NewCard(d)]
      BY <1>3, <2>1 DEF SaveCard, userDidEnterCard
    <3> QED
      BY <1>1, <3>1
  <2>2. ASSUME NEW n \in Notes, SaveNotes(n)
        PROVE  cards'[u] = cards[u] /\ db'[user][u] = db[user][u]
    <3>1. u # detail.uid
      BY <1>3, <2>2 DEF SaveNotes
    <3> QED
      BY <1>1, <2>2, <3>1 DEF SaveNotes, TouchBoth, Touch
  <2> QED
    BY <1>2, <2>1, <2>2, MirrorSame
<1>4. CASE ~SnapshotOut /\ loads # <<>>
  <2>1. Len(loads) \in 1..Len(loads)
    BY <1>1, <1>4, EmptySeq, LenProperties
  <2>2. ~loads[Len(loads)].taken
    BY <1>4, <2>1 DEF SnapshotOut
  <2> QED
    BY <1>2, <1>4, <2>2 DEF Mirrored
<1>5. CASE loads = <<>> /\ loaded
  <2>1. user \in Accounts /\ cards[u] = Card(db[user][u]) /\ db[user][u] \in Record
    BY <1>1, <1>5 DEF SignedIn, Mirrored
  <2>2. ASSUME NEW d \in Contents, SaveCard(d)
        PROVE  cards'[u] = Card(db'[user][u])
    <3>1. PICK id \in NewIds :
            /\ IF id = EmptyUid
               THEN UNCHANGED <<db, creator>>
               ELSE /\ db' = [db EXCEPT ![user][id] = NewCard(d)]
                    /\ creator' = [creator EXCEPT ![id] = user]
            /\ IF delegate THEN userDidEnterCard(id, d) ELSE UNCHANGED cards
            /\ raced' = IF SnapshotOut \/ (loaded /\ ~delegate)
                        THEN raced \cup {id} ELSE raced
      BY <2>2 DEF SaveCard
    <3>2. id \in Ids /\ id # EmptyUid
      BY <2>1, NoneAssumption DEF NewIds, Ids
    <3>3. CASE id = u
      <4>1. delegate
        BY <1>5, <3>1, <3>3
      <4>2. cards'[u] = NewCard(d)
        BY <1>1, <1>5, <3>1, <3>3, <4>1 DEF userDidEnterCard
      <4>3. db'[user][u] = NewCard(d)
        BY <1>1, <2>1, <3>1, <3>2, <3>3
      <4> QED
        BY <4>2, <4>3, CardWrites
    <3>4. CASE id # u
      <4>1. db'[user][u] = db[user][u]
        BY <1>1, <3>1, <3>4
      <4>2. cards'[u] = cards[u]
        BY <1>1, <3>1, <3>4 DEF userDidEnterCard
      <4> QED
        BY <2>1, <4>1, <4>2
    <3> QED
      BY <3>3, <3>4
  <2>3. ASSUME NEW n \in Notes, SaveNotes(n)
        PROVE  cards'[u] = Card(db'[user][u])
    <3>1. CASE u # detail.uid
      <4>1. db'[user][u] = db[user][u]
        BY <1>1, <2>3, <3>1 DEF SaveNotes
      <4>2. cards'[u] = cards[u]
        BY <1>1, <2>3, <3>1 DEF SaveNotes, TouchBoth, Touch
      <4> QED
        BY <2>1, <4>1, <4>2
    <3>2. CASE u = detail.uid
      <4>1. db'[user][u] = Annotated(db[user][u], n)
        BY <1>1, <2>1, <2>3, <3>2 DEF SaveNotes
      <4>2. cards' = Touch(cards, u, Annotated(cards[u], n))
        BY <2>3, <3>2 DEF SaveNotes, TouchBoth
      <4>3. CASE Listed(db[user][u])
        <5>1. cards[u] = db[user][u]
          BY <2>1, <4>3, CardWrites
        <5>2. cards'[u] = Annotated(db[user][u], n)
          BY <1>1, <4>2, <4>3, <5>1 DEF Touch
        <5>3. Listed(Annotated(db[user][u], n))
          BY <2>1, <4>3, ListedWrites
        <5> QED
          BY <4>1, <5>2, <5>3, CardWrites
      <4>4. CASE ~Listed(db[user][u])
        <5>1. cards[u] = Absent
          BY <2>1, <4>4, CardWrites
        <5>2. cards'[u] = Absent
          BY <4>2, <5>1, ListedWrites DEF Touch
        <5>3. ~Listed(Annotated(db[user][u], n))
          BY <2>1, <4>4, ListedWrites
        <5> QED
          BY <4>1, <5>2, <5>3, CardWrites
      <4> QED
        BY <4>3, <4>4
    <3> QED
      BY <3>1, <3>2
  <2> QED
    BY <1>2, <1>5, <2>2, <2>3 DEF Mirrored
<1>6. CASE loads = <<>> /\ ~loaded
  BY <1>2, <1>6 DEF Mirrored
<1> QED
  BY <1>3, <1>4, <1>5, <1>6

(* Home asks, is answered, and replaces its list.                          *)
LEMMA MirrorLoads ==
    ASSUME Types, Copies, ~strayed, NEW u \in Uids, Mirrored(u), user' = user,
           LoadSnapshot \/ LoadDeliver
    PROVE  Mirrored(u)'
<1>1. loads \in Seq(Load) /\ u \in Ids
  BY DEF Types, TypeHome, Ids
<1>2. db' = db
  BY DEF LoadSnapshot, LoadDeliver, cloud
<1>3. CASE LoadSnapshot
  <2>1. PICK k \in 1..Len(loads) :
           /\ ~loads[k].taken /\ \A j \in 1..(k - 1) : loads[j].taken
           /\ loads' = [loads EXCEPT ![k] = Answered(loads[k])]
    BY <1>3 DEF LoadSnapshot
  <2>2. loads[k] \in Load /\ loads[k].of = user
    BY <1>1, ElementOfSeq DEF Copies
  <2>3. /\ Answered(loads[k]) \in Load
        /\ Answered(loads[k]).cards = Snapshot(user)
    BY <2>2, AnsweredType DEF Types, TypeCloud, Answered, Load
  <2>4. Snapshot(user)[u] = Card(db[user][u])
    BY <1>1 DEF Snapshot
  <2>5. /\ Len(loads') = Len(loads) /\ loads' \in Seq(Load)
        /\ \A j \in 1..Len(loads) :
              loads'[j] = IF j = k THEN Answered(loads[k]) ELSE loads[j]
    BY <1>1, <2>1, <2>3, ExceptSeq
  <2>6. loads # <<>> /\ loads' # <<>> /\ Len(loads) \in 1..Len(loads)
    BY <1>1, <2>1, <2>5, EmptySeq, LenProperties
  <2>7. CASE k = Len(loads)
    <3>1. loads'[Len(loads')].cards[u] = Card(db[user][u])
      BY <2>3, <2>4, <2>5, <2>6, <2>7
    <3> QED
      BY <1>2, <2>6, <3>1 DEF Mirrored
  <2>8. CASE k # Len(loads)
    <3>1. loads'[Len(loads')] = loads[Len(loads)]
      BY <2>5, <2>6, <2>8
    <3> QED
      BY <1>2, <2>6, <3>1 DEF Mirrored
  <2> QED
    BY <2>7, <2>8
<1>4. CASE LoadDeliver
  <2>1. /\ loads # <<>> /\ Len(loads) \in Nat \ {0}
        /\ Head(loads) = loads[1] /\ loads[1].taken
    BY <1>1, <1>4, EmptySeq DEF LoadDeliver
  <2>2. /\ loads' = Tail(loads) /\ loads' \in Seq(Load)
        /\ Len(loads') = Len(loads) - 1
        /\ \A i \in 1..Len(loads') : loads'[i] = loads[i + 1]
    BY <1>1, <1>4, <2>1, HeadTailProperties DEF LoadDeliver
  <2>3. CASE Len(loads) = 1
    <3>1. loads' = <<>>
      BY <2>2, <2>3, EmptySeq
    <3>2. cards'[u] = Card(db[user][u])
      BY <1>4, <2>1, <2>3 DEF LoadDeliver, Mirrored
    <3> QED
      BY <1>2, <3>1, <3>2 DEF Mirrored
  <2>4. CASE Len(loads) # 1
    <3>1. loads' # <<>> /\ Len(loads') \in 1..Len(loads')
      <4>1. Len(loads') \in Nat \ {0}
        BY <2>1, <2>2, <2>4
      <4>2. Len(<<>>) = 0
        OBVIOUS
      <4>3. loads' # <<>>
        BY <4>1, <4>2
      <4> QED
        BY <4>1, <4>3
    <3>2. loads'[Len(loads')] = loads[Len(loads)]
      BY <2>1, <2>2, <3>1
    <3> QED
      BY <1>2, <2>1, <3>1, <3>2 DEF Mirrored
  <2> QED
    BY <2>3, <2>4
<1> QED
  BY <1>3, <1>4

(* Home keeps mirroring the database, whatever it does.                    *)
LEMMA MirrorsStep ==
    ASSUME Types, SignedIn, Copies, EditsKnown, Mirrors, Next
    PROVE  Mirrors'
<1> SUFFICES ASSUME screen' \in HomeScreens, ~strayed', NEW u \in Uids, Settled(u)'
             PROVE  Mirrored(u)'
  BY DEF Mirrors
<1>1. CASE \E a : StartHome(a)
  <2>1. PICK a : StartHome(a)
    BY <1>1
  <2>2. loaded' = FALSE /\ (loads' = <<>> \/ loads' = <<Request(a)>>)
    BY <2>1 DEF StartHome, Root, Requests
  <2>3. ~Request(a).taken
    BY DEF Request
  <2>4. CASE loads' = <<>>
    BY <2>2, <2>4 DEF Mirrored
  <2>5. CASE loads' = <<Request(a)>>
    <3>1. loads' # <<>> /\ loads'[Len(loads')] = Request(a)
      BY <2>5
    <3> QED
      BY <2>3, <3>1 DEF Mirrored
  <2> QED
    BY <2>2, <2>4, <2>5
<1>2. CASE ~\E a : StartHome(a)
  <2>1. screen \in HomeScreens /\ ~strayed /\ user' = user /\ raced \subseteq raced'
    BY <1>2, HomeStays
  <2>2. Mirrored(u)
    BY <2>1, SettledBefore DEF Mirrors
  <2>3. u \notin raced' /\ \A x \in Urls : uploads[x].uid # u /\ uploads'[x].uid # u
    BY <2>1, SettledBefore DEF Settled
  <2>4. CASE LoadSnapshot \/ LoadDeliver
    BY <2>1, <2>2, <2>4, MirrorLoads
  <2>5. CASE (\E d \in Contents : SaveCard(d)) \/ (\E n \in Notes : SaveNotes(n))
    BY <2>2, <2>3, <2>5, MirrorWrites
  <2>6. CASE DeleteCard
    <3>1. Request(user) \in Load /\ loads \in Seq(Load)
          /\ loads' = Append(loads, Request(user))
      BY <2>6, RecordTypes DEF DeleteCard, SignedIn, Types, TypeHome
    <3>2. loads' # <<>> /\ loads'[Len(loads')] = Request(user)
      BY <3>1, AppendProperties, LenProperties, EmptySeq
    <3>3. ~Request(user).taken
      BY DEF Request
    <3> QED
      BY <3>2, <3>3 DEF Mirrored
  <2>7. ASSUME NEW d \in Contents, NEW x \in Urls, SaveEdit(d, x)
        PROVE  Mirrored(u)'
    <3>1. uploads'[x].uid = detail.uid
      BY <2>7 DEF SaveEdit, updateCardInDbAndNotify, userDidUpdateData, Types,
                  TypeCloud
    <3>2. u # detail.uid
      BY <2>3, <3>1
    <3>3. cards'[u] = cards[u] /\ db' = db /\ UNCHANGED <<loaded, loads>>
      BY <2>7, <3>2 DEF SaveEdit, updateCardInDbAndNotify, userDidUpdateData,
                        TouchBoth, Touch, Types, TypeHome
    <3> QED
      BY <2>1, <2>2, <3>3, MirrorSame
  <2>8. CASE Pictures
    <3>1. cards' = cards /\ UNCHANGED <<loaded, loads>>
      BY <2>8 DEF Pictures, UploadStored, UploadDone, UploadLost, ImageDeleted,
                  home
    <3>2. db'[user][u] = db[user][u]
      <4>1. ASSUME NEW y \in Urls, UploadDone(y)
            PROVE  db'[user][u] = db[user][u]
        <5>1. user \in Accounts /\ uploads[y].uid # u
          BY <2>3, <4>1 DEF UploadDone, EditsKnown, EditKnown
        <5> QED
          BY <4>1, <5>1 DEF UploadDone, Types, TypeCloud
      <4> QED
        BY <2>8, <4>1 DEF Pictures, UploadStored, UploadLost, ImageDeleted
    <3> QED
      BY <2>1, <2>2, <3>1, <3>2, MirrorSame
  <2>9. CASE Session
    <3>1. SignInAwayFailed \/ \E a \in Accounts : SignInAwayDone(a)
      BY <1>2, <2>1, <2>9 DEF Session, Launch, OpenSearch, Kill, LogOut, SignInDone,
                         BeginSignIn, SignInFailed, presentCurrentUserUI, Root,
                         HomeScreens
    <3>2. UNCHANGED <<cards, loaded, loads, db>>
      BY <3>1 DEF SignInAwayFailed, SignInAwayDone, cloud, home
    <3> QED
      BY <2>1, <2>2, <3>2, MirrorSame
  <2>10. CASE EndSearch \/ \E D \in SUBSET Contents : Search(D)
    <3>1. UNCHANGED <<cards, loaded, loads, db>>
      BY <2>10 DEF EndSearch, Search, cloud
    <3> QED
      BY <2>1, <2>2, <3>1, MirrorSame
  <2>11. CASE \/ OpenScanner \/ CloseScanner \/ CloseDetail \/ OpenEdit
              \/ CancelEdit \/ \E v \in Ids : OpenDetail(v)
    <3>1. UNCHANGED <<cards, loaded, loads, db>>
      BY <2>11 DEF OpenScanner, CloseScanner, CloseDetail, OpenEdit, CancelEdit,
                   OpenDetail, cloud, home
    <3> QED
      BY <2>1, <2>2, <3>1, MirrorSame
  <2> QED
    BY <2>4, <2>5, <2>6, <2>7, <2>8, <2>9, <2>10, <2>11
       DEF Next, List, Editing
<1> QED
  BY <1>1, <1>2

-----------------------------------------------------------------------------
(* The theorems.                                                           *)

\* The strengthening of the properties of keys, lists and edits holds always.
LEMMA LedgerInvariant == Spec => []LedgerInv
<1>1. Init => RecordsKnown /\ CopiesKnown /\ EditsKnown /\ RemovedKnown /\ Mirrors
  <2> SUFFICES ASSUME Init
               PROVE  RecordsKnown /\ CopiesKnown /\ EditsKnown /\ RemovedKnown
                      /\ Mirrors
    OBVIOUS
  <2>1. RecordsKnown
    BY DEF Init, RecordsKnown
  <2>2. \A u \in Ids : ~Listed(NoCards[u])
    BY ListedWrites DEF NoCards
  <2>3. CopiesKnown
    BY <2>2 DEF Init, CopiesKnown, KnownIn
  <2>4. EditsKnown /\ RemovedKnown
    BY DEF Init, EditsKnown, EditKnown, Unused, RemovedKnown
  <2>5. Mirrors
    BY DEF Init, Mirrors, HomeScreens
  <2> QED
    BY <2>1, <2>3, <2>4, <2>5
<1>2. /\ PictureInv
      /\ RecordsKnown /\ CopiesKnown /\ EditsKnown /\ RemovedKnown /\ Mirrors
      /\ [Next]_vars
      => (RecordsKnown /\ CopiesKnown /\ EditsKnown /\ RemovedKnown /\ Mirrors)'
  <2> SUFFICES ASSUME PictureInv, RecordsKnown, CopiesKnown, EditsKnown,
                      RemovedKnown, Mirrors, [Next]_vars
               PROVE  (RecordsKnown /\ CopiesKnown /\ EditsKnown /\ RemovedKnown
                       /\ Mirrors)'
    OBVIOUS
  <2>1. CASE Next
    BY <2>1, RecordsStep, CopiesKnownStep, EditsStep, RemovedStep, MirrorsStep
       DEF PictureInv
  <2>2. CASE UNCHANGED vars
    <3>1. UNCHANGED <<user, screen, strayed, db, uploads, loaded, cards, found,
                      loads, detail, creator, removed, raced>>
      BY <2>2 DEF vars, app, cloud, home, history
    <3>2. \A u, a : Known(u, a)' <=> Known(u, a)
      BY <3>1 DEF Known, Straddled
    <3>3. RecordsKnown' /\ EditsKnown' /\ RemovedKnown'
      BY <3>1, <3>2 DEF RecordsKnown, EditsKnown, EditKnown, RemovedKnown
    <3>4. CopiesKnown'
      BY <3>1, <3>2 DEF CopiesKnown, KnownIn
    <3>5. Mirrors'
      BY <3>1 DEF Mirrors, Settled, Mirrored, Card
    <3> QED
      BY <3>3, <3>4, <3>5
  <2> QED
    BY <2>1, <2>2
<1> QED
  BY <1>1, <1>2, PictureInvariant, PTL DEF Spec, LedgerInv

(* The database of CardStore changes as the ledger of CardLedger may: one entry
   of the signed-in user at a time, an edit whole and at most once, and no key
   for two cards.                                                          *)
THEOREM StoreKeepsLedger == Spec => Ledger
<1>1. Init => Promise!Init
  <2>1. Init => /\ user = None
                /\ \A a \in Accounts, u \in Uids : Entry(db[a][u]) = Promise!NoEntry
                /\ {u \in Uids : creator[u] # None} = {}
    BY Entries DEF Init
  <2>2. Init => \A x \in Urls : Edit(x) = Promise!NoEdit
    BY EditStates DEF Init, Edit, Unused, Promise!NoEdit
  <2> QED
    BY <2>1, <2>2 DEF Promise!Init
<1>2. UNCHANGED vars => UNCHANGED Promise!vars
  <2> SUFFICES ASSUME UNCHANGED vars
               PROVE  UNCHANGED Promise!vars
    OBVIOUS
  <2>1. UNCHANGED <<user, db, uploads, creator>>
    BY DEF vars, app, cloud, history
  <2>2. \A x \in Urls : Edit(x)' = Edit(x)
    BY <2>1 DEF Edit
  <2> QED
    BY <2>1, <2>2, EditsSame DEF Promise!vars
<1>3. LedgerInv /\ [Next]_vars => [Promise!Next]_(Promise!vars)
  BY <1>2, LedgerStep DEF LedgerInv, PictureInv
<1> QED
  BY <1>1, <1>3, LedgerInvariant, PTL DEF Spec, Ledger, Promise!Spec

(* A record without contents is left where a card was removed, by notes that
   are saved from a screen that still shows it.                            *)
THEOREM PartialAfterRemoval == Spec => []PartialOnlyAfterRemoval
<1>1. LedgerInv => PartialOnlyAfterRemoval
  BY DEF LedgerInv, RecordsKnown, Known, PartialOnlyAfterRemoval
<1> QED
  BY <1>1, LedgerInvariant, PTL

(* A card is in an account that did not make it because an edit was begun in
   one account and its upload ended in this one.                           *)
THEOREM ForeignByStraddle == Spec => []ForeignOnlyByStraddle
<1>1. LedgerInv => ForeignOnlyByStraddle
  BY ListedWrites DEF LedgerInv, RecordsKnown, Known, Straddled, ForeignOnlyByStraddle
<1> QED
  BY <1>1, LedgerInvariant, PTL

(* When its loads are answered Home shows the database, but for the cards that
   an edit or a write behind its back concerns.                            *)
THEOREM HomeShowsDatabase == Spec => []HomeMirrors
<1>1. LedgerInv => HomeMirrors
  BY DEF LedgerInv, Mirrors, Mirrored, HomeMirrors
<1> QED
  BY <1>1, LedgerInvariant, PTL

(* A removed card that nothing shows and no upload carries never comes back,
   because a key is given out once.                                        *)
THEOREM RemovedStaysRemoved == Spec => DeletedStaysDeleted
<1>1. LedgerInv /\ [Next]_vars => [\A u \in Uids : Gone(u) => Gone(u)']_vars
  BY GoneStep DEF LedgerInv, PictureInv
<1> QED
  BY <1>1, LedgerInvariant, PTL DEF Spec, DeletedStaysDeleted
=============================================================================
