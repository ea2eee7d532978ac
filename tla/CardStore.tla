------------------------------ MODULE CardStore ------------------------------
(***************************************************************************)
(* The card store of CardGuru: the cards of each account in the Firebase   *)
(* database, their pictures in Firebase Storage, and the copies of both    *)
(* that HomeViewController, DetailedViewController and                     *)
(* EditCardTableViewController hold while the user adds, annotates, edits  *)
(* and deletes cards.                                                      *)
(*                                                                         *)
(* All of the app's own code runs on the main thread, so an action is one  *)
(* handler.  What interleaves with the handlers are the completions of     *)
(* Firebase: a picture is uploaded, its URL arrives, a picture is deleted, *)
(* the list is read and later delivered.  iOS may kill the app at any      *)
(* point.                                                                  *)
(*                                                                         *)
(* getCurrentUserRef writes "_" for every "." of the e-mail address: users *)
(* whose addresses differ in that only are one account here, as they are   *)
(* for the database.                                                       *)
(*                                                                         *)
(* Name and barcode are written together by every write of the code, so    *)
(* one value of Contents stands for the pair.  The database is what the    *)
(* device sees of it: with persistence on, a write is applied locally in   *)
(* the order of the calls and survives a restart.                          *)
(***************************************************************************)
EXTENDS Naturals, Sequences

CONSTANTS
    Accounts,   \* the branches of Users/, see getCurrentUserRef
    Uids,       \* the keys childByAutoId hands out
    EmptyUid,   \* String(), what saveCard returns when nobody is signed in
    Contents,   \* the name and barcode of a card
    Notes,      \* the texts a user can save as notes
    Urls,       \* the download URLs of uploaded pictures, one per upload
    None,       \* nil
    MaxLoads    \* bound of the model: reloads outstanding at once

ASSUME NoneAssumption ==
    /\ None \notin Accounts \cup Contents \cup Notes \cup Urls
    /\ EmptyUid \notin Uids

ASSUME MaxLoadsAssumption == MaxLoads \in Nat \ {0}

VARIABLES
    user,       \* the User saved in UserDefaults, or None
    loggedIn,   \* isLoggedIn in UserDefaults
    screen,     \* the view controller the user is looking at
    away,       \* a sign-in is still running for a login screen that is gone
    db,         \* Users/<account>/Cards/<uid> in the database
    storage,    \* the pictures in Storage
    deleting,   \* the pictures whose deletion has been requested
    uploads,    \* every picture upload, with the edit it belongs to
    loaded,     \* HomeViewController.cards is not nil
    cards,      \* HomeViewController.cards
    found,      \* HomeViewController.filteredCards
    search,     \* "off"; "fresh": found holds objects of cards; "stale"
    loads,      \* the calls of loadDataFromDb that have not completed
    delegate,   \* ScannerViewController.delegate is set
    detail,     \* the card DetailedViewController and its edit screen show
    creator,    \* history: the account a uid was made for
    removed,    \* history: the uids some deleteCard removed
    raced,      \* history: uids written behind this Home's list
    strayed     \* history: another user was saved while a Home was open

app == <<user, loggedIn, screen, away, strayed>>
cloud == <<db, storage, deleting, uploads>>
home == <<loaded, cards, found, search, loads, delegate, detail>>
history == <<creator, removed, raced>>
vars == <<app, cloud, home, history>>

Ids == Uids \cup {EmptyUid}
Users == Accounts \cup {None}

Record == [data : Contents \cup {None},
           url : Urls \cup {None},
           notes : Notes \cup {None}]

Detail == [uid : Ids, data : Contents \cup {None}, url : Urls \cup {None}]

UploadStates == {"unused", "putting", "stored", "done", "lost"}

Upload == [st : UploadStates, uid : Ids, data : Contents \cup {None},
           old : Urls \cup {None}, from : Users, to : Users]

Load == [of : Accounts, taken : BOOLEAN, cards : [Ids -> Record]]

Absent == [data |-> None, url |-> None, notes |-> None]
NoCards == [u \in Ids |-> Absent]
NoDetail == [uid |-> EmptyUid, data |-> None, url |-> None]
Unused == [st |-> "unused", uid |-> EmptyUid, data |-> None,
           old |-> None, from |-> None, to |-> None]

Screens == {"off", "login", "signing", "home", "scanner", "detail", "edit"}
HomeScreens == {"home", "scanner", "detail", "edit"}

\* A call of loadDataFromDb for account a whose snapshot is not yet taken.
Request(a) == [of |-> a, taken |-> FALSE, cards |-> NoCards]

InFlight(x) == uploads[x].st \in {"putting", "stored"}

-----------------------------------------------------------------------------
(* The data: what a record is read as, and what each call writes.          *)

\* Mutant: the empty string instead of nil for a card without a picture.
NewCardEmptyUrl(d) == [data |-> d, url |-> EmptyUid, notes |-> None]

\* The card with the contents a user typed in: no picture and no notes.
NewCard(d) == [data |-> d, url |-> None, notes |-> None]

Listed(r) == r.data # None

\* Card.init?(snapshot:) is nil when name or barcode is missing.
Card(r) == IF Listed(r) THEN r ELSE Absent

\* The cards of account a as loadDataFromDb reads them.
Snapshot(a) == [u \in Ids |-> IF u \in Uids THEN Card(db[a][u]) ELSE Absent]

\* Mutants: only the picture is written; the record is replaced by setValue.
UpdatedImageOnly(r, d, x) == [r EXCEPT !.url = x]
UpdatedDroppingNotes(r, d, x) == [data |-> d, url |-> x, notes |-> None]

\* updateDataInDb writes name, barcode and absoluteURL and keeps the notes.
Updated(r, d, x) == [r EXCEPT !.data = d, !.url = x]

\* addNotesToDb writes the notes, whether or not the record exists.
Annotated(r, n) == [r EXCEPT !.notes = n]

\* Mutants: a key is free when no record has it; the reference of the current
\* user is guarded by isLoggedIn.
NewIdsByRecord == IF user = None THEN {EmptyUid}
                  ELSE {u \in Uids : db[user][u] = Absent}
NewIdsIfLoggedIn == IF ~loggedIn \/ user = None THEN {EmptyUid}
                    ELSE {u \in Uids : creator[u] = None}

\* childByAutoId never repeats a key; with no user there is no key at all.
NewIds == IF user = None THEN {EmptyUid}
          ELSE {u \in Uids : creator[u] = None}

\* What HomeViewController does to each of its objects with uid u.
Touch(list, u, r) == IF Listed(list[u]) THEN [list EXCEPT ![u] = r] ELSE list

\* Mutant: only the list on display is told.
TouchShown(u, r) ==
    /\ cards' = IF search = "off" THEN Touch(cards, u, r) ELSE cards
    /\ found' = Touch(found, u, r)

\* filteredCards holds the objects of cards until cards is replaced.
TouchBoth(u, r) ==
    /\ cards' = Touch(cards, u, r)
    /\ found' = IF search = "fresh" THEN Touch(found, u, r) ELSE found

-----------------------------------------------------------------------------
Init ==
    /\ user = None /\ loggedIn = FALSE /\ screen = "off"
    /\ away = FALSE /\ strayed = FALSE
    /\ db = [a \in Accounts |-> [u \in Uids |-> Absent]]
    /\ storage = {} /\ deleting = {}
    /\ uploads = [x \in Urls |-> Unused]
    /\ loaded = FALSE /\ cards = NoCards /\ found = NoCards /\ search = "off"
    /\ loads = <<>> /\ delegate = FALSE /\ detail = NoDetail
    /\ creator = [u \in Uids |-> None] /\ removed = {} /\ raced = {}

-----------------------------------------------------------------------------
(* The root of the window.                                                 *)

\* No view controller of the main storyboard is left but those of s.
Root(s, requests) ==
    /\ screen' = s
    /\ loaded' = FALSE /\ cards' = NoCards /\ found' = NoCards
    /\ search' = "off" /\ loads' = requests
    /\ delegate' = FALSE /\ detail' = NoDetail
    /\ raced' = {}

\* viewDidLoad asks for the cards; with no user the request never completes.
Requests(a) == IF a = None THEN <<>> ELSE <<Request(a)>>

\* Mutant: Home waits for someone else to load the list.
StartHomeIdle(a) == Root("home", <<>>)

StartHome(a) == Root("home", Requests(a))

\* Mutant: isLoggedIn is not asked.
PresentHomeAlways == StartHome(user)

presentCurrentUserUI == IF loggedIn THEN StartHome(user) ELSE Root("login", <<>>)

Launch ==
    /\ screen = "off"
    /\ presentCurrentUserUI
    /\ UNCHANGED <<user, loggedIn, away, strayed, cloud, creator, removed>>

\* The home-screen shortcut "Search card" replaces the window.  A login screen
\* that was waiting for its sign-in is gone, the sign-in is not.
OpenSearch ==
    /\ screen # "off"
    /\ presentCurrentUserUI
    /\ away' = (away \/ screen = "signing")
    /\ UNCHANGED <<user, loggedIn, strayed, cloud, creator, removed>>

\* iOS kills the app: uploads and deletions under way are over.
Kill ==
    /\ screen # "off"
    /\ Root("off", <<>>)
    /\ away' = FALSE
    /\ uploads' = [x \in Urls |-> IF InFlight(x)
                                  THEN [uploads[x] EXCEPT !.st = "lost"]
                                  ELSE uploads[x]]
    /\ deleting' = {}
    /\ UNCHANGED <<user, loggedIn, strayed, db, storage, creator, removed>>

\* isLoggedIn is saved before the sign-in has an outcome.
BeginSignIn ==
    /\ screen = "login"
    /\ screen' = "signing"
    /\ loggedIn' = TRUE
    /\ UNCHANGED <<user, away, strayed, cloud, home, history>>

\* Mutant: the segue is performed before the user is saved.
SignInSegueFirst(a) ==
    /\ screen = "signing"
    /\ StartHome(user)
    /\ user' = a
    /\ UNCHANGED <<loggedIn, away, strayed, cloud, creator, removed>>

SignInDone(a) ==
    /\ screen = "signing"
    /\ user' = a
    /\ StartHome(a)
    /\ UNCHANGED <<loggedIn, away, strayed, cloud, creator, removed>>

SignInFailed ==
    /\ screen = "signing"
    /\ screen' = "login"
    /\ loggedIn' = FALSE
    /\ UNCHANGED <<user, away, strayed, cloud, home, history>>

\* The sign-in of a login screen that is gone: its segue leads nowhere, but the
\* user is saved if the login service still holds that screen as presenter.
SignInAwayDone(a) ==
    /\ away
    /\ away' = FALSE
    /\ user' \in {user, a}
    /\ strayed' = (strayed \/ (user' # user /\ screen \in HomeScreens))
    /\ UNCHANGED <<loggedIn, screen, cloud, home, history>>

SignInAwayFailed ==
    /\ away
    /\ away' = FALSE
    /\ loggedIn' = FALSE
    /\ UNCHANGED <<user, screen, strayed, cloud, home, history>>

\* Preferences is a tab beside Home.  The saved user stays.
LogOut ==
    /\ screen = "home"
    /\ loggedIn' = FALSE
    /\ Root("login", <<>>)
    /\ UNCHANGED <<user, away, strayed, cloud, creator, removed>>

-----------------------------------------------------------------------------
(* Reading the list.                                                       *)

\* The call q with the snapshot the database takes for it.
Answered(q) == [q EXCEPT !.taken = TRUE, !.cards = Snapshot(q.of)]

\* The database takes the snapshot of the first load that has none.
LoadSnapshot ==
    /\ \E i \in 1..Len(loads) :
        /\ ~loads[i].taken
        /\ \A j \in 1..(i - 1) : loads[j].taken
        /\ loads' = [loads EXCEPT ![i] = Answered(loads[i])]
    /\ UNCHANGED <<app, cloud, loaded, cards, found, search, delegate, detail,
                   history>>

\* Mutant: the cards read are added to the list instead of replacing it.
LoadMerge ==
    /\ loads # <<>>
    /\ Head(loads).taken
    /\ loaded' = TRUE
    /\ cards' = [u \in Ids |-> IF Listed(Head(loads).cards[u])
                              THEN Head(loads).cards[u] ELSE cards[u]]
    /\ search' = IF search = "off" THEN "off" ELSE "stale"
    /\ loads' = Tail(loads)
    /\ UNCHANGED <<app, cloud, found, delegate, detail, history>>

\* The completion replaces the list; filteredCards keeps the old objects.
LoadDeliver ==
    /\ loads # <<>>
    /\ Head(loads).taken
    /\ loaded' = TRUE
    /\ cards' = Head(loads).cards
    /\ search' = IF search = "off" THEN "off" ELSE "stale"
    /\ loads' = Tail(loads)
    /\ UNCHANGED <<app, cloud, found, delegate, detail, history>>

\* The search term selects the cards whose contents are in D; a term typed
\* before the list is loaded selects nothing, and is not applied to it later.
Search(D) ==
    /\ screen = "home"
    /\ found' = [u \in Ids |-> IF cards[u].data \in D THEN cards[u] ELSE Absent]
    /\ search' = "fresh"
    /\ UNCHANGED <<app, cloud, loaded, cards, loads, delegate, detail, history>>

EndSearch ==
    /\ screen = "home" /\ search # "off"
    /\ found' = NoCards
    /\ search' = "off"
    /\ UNCHANGED <<app, cloud, loaded, cards, loads, delegate, detail, history>>

-----------------------------------------------------------------------------
(* Adding a card.                                                          *)

\* prepare(for:) returns before it sets the delegate when cards is nil.
OpenScanner ==
    /\ screen = "home"
    /\ screen' = "scanner"
    /\ delegate' = loaded
    /\ UNCHANGED <<user, loggedIn, away, strayed, cloud, loaded, cards, found,
                   search, loads, detail, history>>

CloseScanner ==
    /\ screen = "scanner"
    /\ screen' = "home"
    /\ delegate' = FALSE
    /\ UNCHANGED <<user, loggedIn, away, strayed, cloud, loaded, cards, found,
                   search, loads, detail, history>>

\* A snapshot is taken and its list not yet delivered.
SnapshotOut == \E i \in 1..Len(loads) : loads[i].taken

\* cards?.append: nothing happens while the list is nil.
userDidEnterCard(id, d) ==
    cards' = IF loaded THEN [cards EXCEPT ![id] = NewCard(d)] ELSE cards

\* saveToDbAndNotify and navigateToRoot.
SaveCard(d) ==
    /\ screen = "scanner"
    /\ \E id \in NewIds :
        /\ IF id = EmptyUid
           THEN UNCHANGED <<db, creator>>
           ELSE /\ db' = [db EXCEPT ![user][id] = NewCard(d)]
                /\ creator' = [creator EXCEPT ![id] = user]
        /\ IF delegate THEN userDidEnterCard(id, d) ELSE UNCHANGED cards
        /\ raced' = IF SnapshotOut \/ (loaded /\ ~delegate)
                    THEN raced \cup {id} ELSE raced
    /\ screen' = "home"
    /\ delegate' = FALSE
    /\ UNCHANGED <<user, loggedIn, away, strayed, storage, deleting, uploads,
                   loaded, found, search, loads, detail, removed>>

-----------------------------------------------------------------------------
(* Looking at a card, its notes, and editing it.                           *)

Shown == IF search = "off" THEN cards ELSE found

OpenDetail(u) ==
    /\ screen = "home" /\ loaded
    /\ Listed(Shown[u])
    /\ screen' = "detail"
    /\ detail' = [uid |-> u, data |-> Shown[u].data, url |-> Shown[u].url]
    /\ UNCHANGED <<user, loggedIn, away, strayed, cloud, loaded, cards, found,
                   search, loads, delegate, history>>

CloseDetail ==
    /\ screen = "detail"
    /\ screen' = "home"
    /\ detail' = NoDetail
    /\ UNCHANGED <<user, loggedIn, away, strayed, cloud, loaded, cards, found,
                   search, loads, delegate, history>>

SaveNotes(n) ==
    /\ screen = "detail"
    /\ TouchBoth(detail.uid, Annotated(cards[detail.uid], n))
    /\ db' = [db EXCEPT ![user][detail.uid] = Annotated(@, n)]
    /\ raced' = IF SnapshotOut THEN raced \cup {detail.uid} ELSE raced
    /\ UNCHANGED <<app, storage, deleting, uploads, loaded, search, loads,
                   delegate, detail, creator, removed>>

\* Mutant: the old picture is removed when editing starts, not when it is saved.
OpenEditRemoving ==
    /\ screen = "detail"
    /\ screen' = "edit"
    /\ deleting' = deleting \cup ({detail.url} \ {None})
    /\ UNCHANGED <<user, loggedIn, away, strayed, db, storage, uploads, home,
                   history>>

\* The edit screen gets copies of the detail's fields, which nothing changes
\* while it is on top: detail stands for both.
OpenEdit ==
    /\ screen = "detail"
    /\ screen' = "edit"
    /\ UNCHANGED <<user, loggedIn, away, strayed, cloud, home, history>>

CancelEdit ==
    /\ screen = "edit"
    /\ screen' = "detail"
    /\ UNCHANGED <<user, loggedIn, away, strayed, cloud, home, history>>

\* removeOldCard: the picture the screen knows of, if any.
OldImage == {detail.url} \ {None}

\* The screens below show the new contents at once.  The detail keeps the old
\* URL, Home's object loses its URL.
userDidUpdateData(d) ==
    /\ detail' = [detail EXCEPT !.data = d]
    /\ TouchBoth(detail.uid, Updated(cards[detail.uid], d, None))

\* The old picture is deleted, the new one goes up as x, the database waits for
\* the upload.
updateCardInDbAndNotify(d, x) ==
    /\ deleting' = deleting \cup OldImage
    /\ uploads' = [uploads EXCEPT ![x] =
                     [st |-> "putting", uid |-> detail.uid, data |-> d,
                      old |-> detail.url, from |-> user, to |-> None]]
    /\ userDidUpdateData(d)

\* saveCard of the edit screen; only a name and a barcode that are not empty
\* get this far.
SaveEdit(d, x) ==
    /\ screen = "edit"
    /\ uploads[x].st = "unused"
    /\ updateCardInDbAndNotify(d, x)
    /\ screen' = "detail"
    /\ UNCHANGED <<user, loggedIn, away, strayed, db, storage, loaded, search,
                   loads, delegate, history>>

\* deleteCard: the list is only corrected by the reload it asks for.
DeleteCard ==
    /\ screen = "edit"
    /\ Len(loads) < MaxLoads
    /\ deleting' = deleting \cup OldImage
    /\ db' = [db EXCEPT ![user][detail.uid] = Absent]
    /\ loads' = Append(loads, Request(user))
    /\ removed' = removed \cup {detail.uid}
    /\ screen' = "home"
    /\ detail' = NoDetail
    /\ UNCHANGED <<user, loggedIn, away, strayed, storage, uploads, loaded,
                   cards, found, search, delegate, creator, raced>>

-----------------------------------------------------------------------------
(* The completions of Firebase Storage.                                    *)

UploadStored(x) ==
    /\ uploads[x].st = "putting"
    /\ uploads' = [uploads EXCEPT ![x].st = "stored"]
    /\ storage' = storage \cup {x}
    /\ UNCHANGED <<app, db, deleting, home, history>>

\* The URL arrives and updateDataInDb runs for whoever is the user by now.
UploadDone(x) ==
    /\ uploads[x].st = "stored"
    /\ uploads' = [uploads EXCEPT ![x].st = "done", ![x].to = user]
    /\ db' = [db EXCEPT ![user][uploads[x].uid] =
                Updated(@, uploads[x].data, x)]
    /\ UNCHANGED <<app, storage, deleting, home, history>>

\* No URL: the completion does nothing, the edit never reaches the database.
UploadLost(x) ==
    /\ InFlight(x)
    /\ uploads' = [uploads EXCEPT ![x].st = "lost"]
    /\ UNCHANGED <<app, db, storage, deleting, home, history>>

\* delete() has no completion: success and failure look the same.
ImageDeleted(x) ==
    /\ x \in deleting
    /\ deleting' = deleting \ {x}
    /\ storage' \in {storage, storage \ {x}}
    /\ UNCHANGED <<app, db, uploads, home, history>>

-----------------------------------------------------------------------------
Session ==
    \/ Launch \/ OpenSearch \/ Kill
    \/ BeginSignIn \/ SignInFailed \/ SignInAwayFailed \/ LogOut
    \/ \E a \in Accounts : SignInDone(a)
    \/ \E a \in Accounts : SignInAwayDone(a)

List ==
    \/ LoadSnapshot \/ LoadDeliver
    \/ \E D \in SUBSET Contents : Search(D)
    \/ EndSearch

Editing ==
    \/ OpenScanner \/ CloseScanner
    \/ \E d \in Contents : SaveCard(d)
    \/ \E u \in Ids : OpenDetail(u)
    \/ CloseDetail
    \/ \E n \in Notes : SaveNotes(n)
    \/ OpenEdit \/ CancelEdit
    \/ \E d \in Contents, x \in Urls : SaveEdit(d, x)
    \/ DeleteCard

Pictures ==
    \/ \E x \in Urls : UploadStored(x)
    \/ \E x \in Urls : UploadDone(x)
    \/ \E x \in Urls : UploadLost(x)
    \/ \E x \in Urls : ImageDeleted(x)

Next == Session \/ List \/ Editing \/ Pictures

Spec == Init /\ [][Next]_vars

\* The database answers every read it was asked for, and the main queue runs
\* the completion.  Nothing else is fair: users, networks and iOS owe nothing.
Fairness == WF_vars(LoadSnapshot) /\ WF_vars(LoadDeliver)

FairSpec == Spec /\ Fairness

-----------------------------------------------------------------------------
(* Properties.                                                             *)

\* The types of the app's variables, the database, Storage and the history.
TypeOK ==
    /\ user \in Users /\ loggedIn \in BOOLEAN /\ screen \in Screens
    /\ away \in BOOLEAN /\ strayed \in BOOLEAN
    /\ db \in [Accounts -> [Uids -> Record]]
    /\ storage \subseteq Urls /\ deleting \subseteq Urls
    /\ uploads \in [Urls -> Upload]
    /\ loaded \in BOOLEAN
    /\ cards \in [Ids -> Record] /\ found \in [Ids -> Record]
    /\ search \in {"off", "fresh", "stale"}
    /\ loads \in Seq(Load)
    /\ Len(loads) <= MaxLoads
    /\ delegate \in BOOLEAN
    /\ detail \in Detail
    /\ creator \in [Uids -> Users]
    /\ removed \subseteq Uids /\ raced \subseteq Ids

\* A record that points at a picture holds the contents of the very edit that
\* uploaded it: whatever the order in which uploads end, whoever is signed in
\* by then and whatever was deleted meanwhile, the database never mixes the
\* picture of one edit with the contents of another.
NoTornEdit ==
    \A a \in Accounts, u \in Uids :
        LET x == db[a][u].url IN
        x # None => /\ uploads[x].st = "done"
                    /\ uploads[x].uid = u
                    /\ uploads[x].to = a
                    /\ uploads[x].data = db[a][u].data

\* An account's record points at a picture that is gone only because an edit
\* of that card threw the picture away and has not been written to the same
\* account: it is still on its way, was lost, or went to another account.
ReplacedImageOnly ==
    ~strayed =>
    \A a \in Accounts, u \in Uids :
        LET x == db[a][u].url IN
        x \notin storage \cup {None} =>
            \E y \in Urls : /\ uploads[y].uid = u
                           /\ uploads[y].old = x
                           /\ ~(uploads[y].st = "done" /\ uploads[y].to = a)

\* A record without name and barcode, which no list will ever show, is left
\* behind only where a card was removed: by notes saved from a screen that
\* still showed it.
PartialOnlyAfterRemoval ==
    ~strayed =>
    \A a \in Accounts, u \in Uids :
        db[a][u] # Absent /\ ~Listed(db[a][u]) => u \in removed

\* A card reaches an account it was not made in only through an edit that was
\* begun in one account and whose upload ended in another.
ForeignOnlyByStraddle ==
    ~strayed =>
    \A a \in Accounts, u \in Uids :
        Listed(db[a][u]) /\ creator[u] # a =>
            \E x \in Urls : /\ uploads[x].uid = u
                           /\ uploads[x].st = "done"
                           /\ uploads[x].to = a
                           /\ uploads[x].from # a

\* No screen shows the card saved with nobody signed in, whose empty uid would
\* make child(withUID) of the next call throw.
NamedChildren ==
    /\ screen \in {"detail", "edit"} => detail.uid \in Uids
    /\ \A x \in Urls : uploads[x].st # "unused" => uploads[x].uid \in Uids

\* Nothing was written to u that this Home's list may not know of.
Settled(u) == u \notin raced /\ \A x \in Urls : uploads[x].uid # u

\* Once its loads are answered, Home's list agrees with the database on every
\* card but those of an edit (whose upload ends later or never) and those
\* written while a snapshot was under way or the scanner had no delegate.
HomeMirrors ==
    screen \in HomeScreens /\ loaded /\ loads = <<>> /\ ~strayed =>
        \A u \in Uids : Settled(u) => cards[u] = Card(db[user][u])

\* A card that was removed, that no screen, list or snapshot shows any more and
\* that no upload is under way for.
Gone(u) ==
    /\ u \in removed
    /\ \A a \in Accounts : ~Listed(db[a][u])
    /\ ~Listed(cards[u]) /\ ~Listed(found[u])
    /\ detail.uid # u
    /\ \A i \in 1..Len(loads) : ~Listed(loads[i].cards[u])
    /\ \A x \in Urls : uploads[x].uid = u => ~InFlight(x)

\* Such a card never comes back, in any account.
DeletedStaysDeleted == [][\A u \in Uids : Gone(u) => Gone(u)']_vars

\* A removed card leaves the list: userDidRemoveData asks for a list that does
\* not have it, unless an upload has brought it back to the database.
RemovedLeavesList ==
    \A u \in Uids :
        u \in removed /\ Listed(cards[u]) ~>
            \/ ~Listed(cards[u])
            \/ \E a \in Accounts : Listed(db[a][u])

\* A Home whose user was signed in when it appeared gets its list, unless the
\* search shortcut keeps replacing the window.
ListLoads ==
    \/ []<>(loaded \/ screen \notin HomeScreens \/ user = None \/ strayed)
    \/ []<><<OpenSearch>>_vars
=============================================================================
