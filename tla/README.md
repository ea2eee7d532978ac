# CardGuru in TLA+

CardGuru is an iOS app that keeps loyalty cards: the name and barcode of a card, a
picture of it and some notes. The cards live in a Firebase database, one branch per
e-mail address, and the pictures in Firebase Storage. Firebase keeps a copy of that
database on the device in LevelDB, whose source is part of the repository
(`src/CardGuru/Pods/leveldb-library`), as is the storage engine on top of it
(`FLevelDBStorageEngine.m`, `APLevelDB.mm`).

This directory models the app's state and its handlers, and the store they rest on, in
TLA+; it checks small instances with TLC, and proves with TLAPS the properties that
matter most for every set of accounts, keys, contents, URLs and readers.

The short paths below are relative to `src/CardGuru/CardGuru/`, or for LevelDB to
`src/CardGuru/Pods/leveldb-library/`.

## 1. The system

Nearly all of the app's own code runs on the main thread, with no locks and no awaits,
so a handler is atomic (the scanner, which also uses two queues, is split accordingly).
What makes the app hard is everything it starts and does not wait for: uploads,
deletions and reads answered by Firebase in their own time, sign-ins that outlive the
screen that began them, a shortcut that replaces the whole window, and iOS, which may
kill the process between any two callbacks. No call is retried, no completion handles an
error, and several screens hold copies of the same card.

The store below is the opposite: threads that share everything under one mutex and give
it up while they write, a background thread, readers without any lock, and files that
must make sense wherever the process or the machine stops.

| Component | State it keeps | Operations | Talks to |
|---|---|---|---|
| **Card store** (`Services/Database/FirebaseDatabaseService.swift`, `Model/Card.swift`, `Controller/Cards/DetailedViewController.swift`, `Controller/Cards/EditCardViewController.swift`) | the records of each account, the pictures, the uploads and deletions under way; the fields of the card on the detail and edit screens | `saveCard`, `loadDataFromDb`, `updateDataInDb`, `addNotesToDb`, `removeDataFromDb`, `saveImage`, `removeOldCard`, `updateCardInDbAndNotify`, `deleteCard`, `saveNotes` | Firebase by calls and completions; Home by three delegates; the saved user, read afresh by each call |
| **Home list** (`Controller/Cards/HomeViewController.swift`) | `cards` (nil until loaded), `filteredCards`, the search field, the placeholder view, the cells | load, reload after a removal, filter, append, patch a card's fields, download pictures into rows | card store, scanner and detail screens as their delegate |
| **Session** (`Controller/Login/LoginViewController.swift`, `Services/Login/*`, `Services/Database/FirebaseLoginService.swift`, `Controller/Preferences/AccountViewController.swift`) | `User` and `isLoggedIn` in `UserDefaults` | Google and Facebook sign-in, sign-out | every database call reads the user it saved |
| **Root navigation** (`AppDelegate.swift`, `Services/Navigation/NavigationControllerService.swift`) | the root view controller of the window | launch, shortcuts, URL scheme, `presentCurrentUserUI` | session |
| **Touch ID gate** (`Controller/Login/TouchLoginViewController.swift`, `Services/Authentication/Authenticator.swift`) | `isTouchIDEnabled` | authenticate before Home | root navigation |
| **Scanner** (`Controller/Cards/ScannerViewController.swift`, `Services/Scanner/ScannerService.swift`, `View/SubViews/ManualCardView.swift`) | the capture session, its permission, the alert on screen, the delegate | start, stop, barcode found, manual entry, save | card store, Home |
| **Notifications** (`Services/LocalNotifications/LocalNotifications.swift`, `Controller/Preferences/PreferencesTableViewController.swift`) | the authorization, the pending request, the badge | register, send, dismiss | the preferences' switch |
| **Last card, widget, shortcut item** (`Services/FileHandler/FileHandler.swift`, `Model/LastCard.swift`, `../CardGuruWidget/TodayViewController.swift`) | three copies of the card shown last | written one after the other when a detail appears | root navigation |
| **Local store** (LevelDB: `db/`, `table/`, `util/`; `FLevelDBStorageEngine.m`, `APLevelDB.mm`) | memtables, logs, tables in levels, manifests and `CURRENT`; the queue of writers; the caches | `Put`, `Delete`, batches, iterators, opening, compaction | Firebase Database, which puts what the app writes into it before it answers |
| Image picker, downloader, connectivity, licence and web pages, drawing | none that outlives a call | | |
| the other Pods | | vendored libraries | |

What makes each of them correct, and what threatens it:

* **Card store.** A record shows one edit and never a mixture of two; a picture is lost
  only to an edit; a removed card stays removed; nothing reaches another account.
  Uploads end in any order, late, after the card was removed, after the user changed, or
  never; the old picture is deleted before the new one is known to be there.
* **Home list.** The list on display agrees with the database once its reads are
  answered. Reads race with writes, the search list keeps old objects, and downloads
  write into rows by index.
* **Session.** The saved user is the one who signed in, a failed sign-in leaves the app
  signed out. `isLoggedIn` is saved before there is an outcome, the two services run
  side by side and several outcomes call nobody.
* **Root navigation.** Home is only ever open for the saved user. Shortcuts replace the
  window while a sign-in is running.
* **Scanner.** One scan saves one card, and the camera is off when the scanner is gone.
  `startRunning` runs on another queue than `stopRunning`, barcodes keep arriving.
* **Notifications.** One reminder, a badge that is not negative. Authorization is
  answered after the first send.
* **Last card.** The three copies agree. The app may die between two writes.
* **Local store.** To its user it is a map with snapshots that survives a restart.
  Merges run while snapshots come and go and memtables are put among their files; one
  thread writes for others; errors come in the middle of jobs; readers follow links that
  are being stored, over blocks that may not be readable.

`CardStore` takes it that a write is applied locally at once, in the order of the calls,
and survives a restart. That is what the modules of the local store are about.
`APLevelDB` opens the store with default options but for `create_if_missing`, writes
without sync, and never takes a snapshot or compacts a range; the modules cover those
too, as LevelDB's own promises.

`PROJECT.json` lists the hazards one by one, each at its line, with the properties that
cover it.

## 2. The modules

| Module | What it is |
|---|---|
| `CardStore` | the card store with the screens that write to it: state, one action per handler or completion, properties |
| `CardLedger` | the abstract specification: ledgers of cards, and edits applied whole, at most once |
| `CardStoreLedger` | the refinement mapping from `CardStore` to `CardLedger` |
| `Session` | the abstract specification of signing in: what may change the saved user, `isLoggedIn` and Home |
| `CardStoreSession` | the mapping from `CardStore` to `Session` |
| `MCCardStore` | the small instances for TLC, with the four `.cfg` files |
| `CardStoreProofs` | the inductive invariants of `CardStore`; type correctness, edits and pictures; the refinements of `CardLedger` and `Session`; where records come from, Home's list and removed cards |
| `Login`, `MCLogin`, `LoginProofs` | signing in in full: two services, login screens as objects, the Touch ID gate, `UserDefaults`, the shortcuts; also implements `Session` |
| `HomeList`, `MCHomeList`, `HomeListProofs` | rows, cells, picture downloads and the placeholder view of Home |
| `Scanner` | the camera's permission and session, barcodes, alerts, the manual form |
| `LastCard` | the last card's shortcut item, file and defaults, and the widget |
| `Notifications` | the reminder: its switch, the authorization, the request, the badge |
| `Device`, `MCDevice`, `DeviceProofs` | `Scanner`, `LastCard` and `Notifications` beside each other, for TLC, and the theorems on all three |
| `WriteQueue`, `WriteQueueProofs` | LevelDB's writers, groups, logs and memtables, the background thread, `CompactRange`'s callers, closing |
| `AtomicWrites` | abstract: a batch is applied whole, between call and return, when the call succeeds |
| `LevelTree`, `LevelTreeProofs` | memtables, levels, snapshots, flushes, merges and moves; lookups and scans |
| `SnapshotMap` | abstract: a map that each write changes at one key, and of which copies can be taken |
| `DurableStore`, `DurableStoreProofs` | the files: logs, tables, manifests, `CURRENT`; recovery, deletion of obsolete files, failures |
| `DurableMap` | abstract: what stays when processes and machines stop |
| `LogFormat` | the log's fragments and blocks, writer and reader |
| `MCDisk` | `DurableStore` on four disks and `LogFormat`, whole and damaged, for TLC |
| `SkipList` | the memtable: one writer, readers without a lock |
| `Cursor` | `DBIter` on a `MergingIterator` over a growing memtable |
| `Reads`, `ReadsProofs` | these two beside each other (`L` is the list); the theorems on them and on `TableCache` |
| `Block`, `TableFile` | prefix-compressed blocks; tables with shortened index keys, read through unreadable blocks |
| `TableCache` | the cache of open tables on the LRU cache |
| `MCReads` | `Reads`, `TableFile` and `TableCache` for TLC |

`CardStore` knows the whole life of a card and little of each screen; `Login`, `HomeList`
and `Scanner` know one screen in full and nothing of the database. They meet where the
code meets. `Session` is implemented by both `CardStore` and `Login`, so what `CardStore`
assumes of signing in is what the full model promises. `HomeList` takes any answer of the
database, of which `CardStore`'s are some; `Scanner` ends with the save that is
`SaveCard` in the other two.

The store is cut where its state is: `WriteQueue` knows when a batch is logged, seen and
acknowledged, and counts the files of level 0 only; `LevelTree` knows what the levels
hold and takes writes one at a time; `DurableStore` knows which file holds which batch
and not at which level. What one leaves to a choice (which level is merged next, how
large a group gets, when a memtable is full) another one fixes, or the sizes do, which no
module has.

### CardStore: state

| Variable | In the code |
|---|---|
| `user`, `loggedIn` | `fetchUser()` and `isLoggedIn` of `UserDefaults` |
| `screen` | the view controller on display; `"signing"` is the login screen with a sign-in running, `"off"` the app not running |
| `away` | a sign-in is running whose login screen was replaced by the search shortcut |
| `db` | `Users/<account>/Cards/<uid>`: `data` stands for name and barcode, `url` for `absoluteURL`, `notes` for `notes` |
| `storage`, `deleting` | the pictures in Storage; those `delete()` was called for |
| `uploads` | one record per picture upload with what its completion has captured: `putting` (`putData`), `stored` (`downloadURL`), `done` (`updateDataInDb` has run), `lost` |
| `loaded`, `cards` | `HomeViewController.cards`, nil or not |
| `found`, `search` | `filteredCards`; `"fresh"` while it shares its objects with `cards`, `"stale"` after `cards` was replaced |
| `loads` | the calls of `loadDataFromDb` not yet completed, each with the snapshot the database took for it |
| `delegate` | whether `prepare(for:)` set the scanner's delegate |
| `detail` | the fields of the detail screen; the edit screen holds copies that nothing changes while it is on top |
| `creator`, `removed`, `raced`, `strayed` | history only: who a key was made for, what `deleteCard` removed, what was written behind this Home's list, whether another user was saved while a Home was open |

### CardStore: actions

| Actions | Handlers |
|---|---|
| `Launch`, `OpenSearch`, `Kill` | `didFinishLaunching`, the search shortcut, iOS |
| `BeginSignIn`, `SignInDone`, `SignInFailed`, `SignInAwayDone`, `SignInAwayFailed`, `LogOut` | `signIn` of the login services, its completion with the login screen there or gone, `logoutPressed` |
| `LoadSnapshot`, `LoadDeliver` | `observeSingleEvent` of `loadDataFromDb`, the completion of `viewDidLoad` or `userDidRemoveData` |
| `Search`, `EndSearch` | `updateSearchResults` |
| `OpenScanner`, `CloseScanner`, `SaveCard` | `prepare(for:)`, back, `saveToDbAndNotify` with `navigateToRoot` |
| `OpenDetail`, `CloseDetail`, `SaveNotes` | `prepare(for:)`, back, the note editor's save |
| `OpenEdit`, `CancelEdit`, `SaveEdit`, `DeleteCard` | the edit screen's buttons, each with the delegates it calls |
| `UploadStored`, `UploadDone`, `UploadLost`, `ImageDeleted` | the completions of Storage |

Read `SaveEdit` as the place where most of the difficulty comes from: it deletes the old
picture, starts the upload of the new one, tells the screens below at once, and leaves
the database to the completion of the upload. That completion (`UploadDone`) writes for
whoever is the saved user by then.

### Login, HomeList, Scanner

| Module | State | Actions |
|---|---|---|
| `Login` | `user`, `loggedIn`, `touchID` of `UserDefaults`; the window's `root`, what it presents (`over`: a sheet, an alert, Home), the user Home was opened for; per service the login screen its completion is for (`target`, held weakly) and the one it holds (`presenter`); the stage of every running sign-in | `signIn`, `PresentSheet`, `DismissSheet`, then `Refused`, `Granted`, `FetchFailed`, `FetchSilent` (no completion called), `FetchDone`; `GoNext`, `TouchSucceeded`, `TouchFailed`, `AlertOk`; `LogOut`, `touchIdSwitched`; `Launch`, `OpenSearch`, `OpenCard` (ends the app for a user who is logged in), `Kill` |
| `HomeList` | `cards`, `filteredCards` as rows of uids, with the generation (the load) of their objects; the `absoluteURL` and image of each object; the cells as last laid out; the downloads, each with the row and the object it captured; the placeholder views | `FirstLoad`, `Reload`, `Search`, `EndSearch`, `ImageLoaded`, `ImageFailed`, `OpenScanner`, `SaveCard`, `OpenDetail`, `SaveEdit`, `SaveNotes`, `DeleteCard`, `Back` |
| `Scanner` | the permission and its request; the service's session, delegate and preview layer; which sessions run; the blocks waiting on the global, the service's and the main queue; the alert and the form on display | `Open`, `Back`, `Answer`, `Reply`, `ReplyGone` (the app ends), `startRunning`, `Frame`, `metadataOutput` and `stopRunning` (the two halves of one callback), `get`, `NameOk`, the form's and the alerts' buttons |

### LastCard and Notifications

| Module | State | Actions |
|---|---|---|
| `LastCard` | the detail screen and how far its `viewDidLoad` has come; `shortcutItems`, `ShortcutItem.plist`, the two defaults of the app group; what the widget shows | `SetShortcutItem`, `EmptyPlist` and `FillPlist` (the two halves of writing the file) or `PlistFails`, `SetName`, `SetImage`; `WidgetName` and `WidgetImage` in the other process; `Detail`, `Back`, `Kill`, `Open` |
| `Notifications` | the switch and its default, the center's delegate, the permission, the calls of `requestAuthorization` under way, the one pending request, what was delivered, the action on its way, the badge | `registerLocalNotifications`, `SaveOn`, `SwitchSends`, `SwitchOff`; `Answer` and `AnswerSends` on their own queue; `Deliver`, `Press`, `Discard`, `didReceive`; `Show`, `Settings`, `Kill` |

The file's only reader, `openLast` behind the shortcut and the URL scheme, ends the app
for a user who is logged in (the storyboard has no such controller; `OpenCard` in
`Login`). The widget's tap opens a file URL, which opens nothing.

### The local store

| Module | State | Actions |
|---|---|---|
| `WriteQueue` | `writers_`, what each thread is doing, who is asleep on which condition variable, the group, its log and memtable; `imm_`, level 0's files; the background thread, `bg_error_`, `manual_compaction_`, `shutting_down_` | `Write`, the branches of `MakeRoomForWrite` (`RoomError`, `RoomSlow`, `RoomThere`, `RoomWait`, `RoomSwitch`, `RoomFails`), `AddRecord`, `SyncLog`, `InsertInto` entry by entry without the lock, `WriteDone`; `BackgroundCall`, `CompactMemTable`, `Merge` and their failures; `CompactRange`, `Close` |
| `LevelTree` | memtables and files as sets of entries, `snapshots_`, the merge under way with the version it began with | `Write`, `SwitchMemTable`, `GetSnapshot`, `ReleaseSnapshot`, `CompactMemTable` (also in the middle of a merge), `PickCompaction`, `CompactRange`, `TrivialMove`, `InstallCompactionResults`, `Reopen` |
| `DurableStore` | per file what was written and what an fsync made safe; the directory and what a power failure may turn it into; `DBImpl` and `VersionSet` | `NewDB`, `Recover`, `RecoverLogFile`, `NewManifest`, `SyncManifest`, `SetCurrentFile`, `PurgeDatabase`; `AddRecord`, `InsertInto`, `SwitchMemTable`; `BeginFlush`, `WriteLevel0Table`, `BeginMerge`, `FinishMerge`, `AddEdit`, `LogAndApply`, `EditFails`; `NewIterator`, `CleanupIteratorState`; `ProcessStops`, `MachineStops` |
| `LogFormat` | the bytes of the file, each known by its fragment; the record being added | `AddRecord`, `Emit`, `EmitFails`, `Damage`; the reader is an operator, `Read` |
| `SkipList` | the links per level, `max_height_` and what it has been; the places of the writer and of each reader | every load and store of a shared link is a step: `SearchOn`, `SearchDown`, `SetHeight`, `Link`; `GoOn`, `GoDown`, `Return`, `SeekToFirst`, `NextNode` |
| `Cursor` | the children's entries and positions, `DBIter`'s direction, saved key and value | `Seek`, `SeekToFirst`, `SeekToLast`, `NextKey`, `Prev`, one round each of `FindNextUserEntry` and `FindPrevUserEntry`, `Insert` by a writer |
| `Block`, `TableFile` | the entries of a block with their shared lengths and restarts; the builder, its pending index entry, the two-level iterator | `AddKey`, the end of the table, the iterator's moves; `InternalGet` is an operator |
| `TableCache` | hash table, the two lists, references, `usage_`; what each thread opens and holds | `FindTable`, `InsertTable`, `OpenFails`, `Release`, `Evict`, `PruneAll` |

Objects that come and go (login screens, sign-ins, card objects, scanners, capture
sessions) are members of small sets, used again once nothing refers to them; the
definitions `Fresh`, `Used`, `Held` and `Alive` are the reference counts. What UIKit does
is modelled as the app meets it: nothing is presented by a screen that presents something
already or is not in the window, and what is presented from another queue than the main
one, or from `viewDidLoad`, may or may not appear. The progress indicator of the login
screen is not modelled.

### Abstractions

* Name and barcode are always written together: one value of `Contents` is the pair. An
  upload has its own URL, so the set `Urls` is both the URLs and the identities of
  edits. The token a fresh upload gets is chosen when it starts and used when it ends.
* `db` is the database as this device sees it. The app turns persistence on, so a write
  is applied locally at once, in the order of the calls, and survives a restart. Other
  devices of the same account are not modelled.
* An account is a branch of the database. `getCurrentUserRef` replaces every dot of the
  e-mail address, so two addresses that differ in a dot and an underscore share a branch;
  they are one account here.
* In `CardStore` a list of cards is a function from keys to records; rows are HomeList's.
  One sign-in at a time is running; two at once are Login's. The splash and Touch ID
  screens are skipped by `StartHome`, and are in Login.
* In `HomeList`, `reloadData` lays the cells out at once, all of them: UIKit does it
  before the screen is drawn next. A card has the picture of one of its `Versions`.
* In `Scanner` the device has a camera, and a barcode that counts as read has a type the
  service supports. A scanner ends by going back, by a save or with the app. The search
  shortcut (`AppDelegate.swift:62-66`), which replaces the window with the scanner, its alert
  or the permission prompt's answer still to come, is an action of `CardStore` and `Login`
  and not of `Scanner`: whether UIKit calls `viewWillDisappear` on the screens of a window
  that nobody holds any more decides if the camera goes on, and the sources do not say.
  `CameraOff` and `ScannerReads` are claims about visits without it.
* Logging out goes through the Settings tab, beside Home; the screens pushed over Home
  hide the tab bar.
* In `SkipList` loads and stores are interleaved, which is what the acquire and release
  of the links give; `max_height_` is read and written without a barrier, so a reader may
  see any value it has had (`heights`). `Contains` is not used by the memtable.
* In `DurableStore` a power failure takes the directory back to any state since it was
  last made safe; on a *journaled* disk every fsync makes it safe and a prefix of the
  other data may have been written, on an *unordered* one only the sync of a manifest
  makes names safe. A tail that was not synced is lost as a prefix of records.
* A key of LevelDB is a number, but in `Block` and `TableFile`, where it is a sequence of
  bytes, since prefixes and shortened keys are what those are about. Compression,
  checksums and block handles are not modelled; a block is readable or not.
* In `LevelTree` a file of level 0 has its file number, and a new one is beyond those of
  level 0: of all the numbers `NewFileNumber` gives out only their order matters here.
* In `TableCache` the loop that evicts from `lru_` is given by its result: the shortest
  prefix of the list whose charges bring `usage_` down to the capacity. `EachRound` (below)
  proves that one round of the loop takes one entry of this prefix.
* `reuse_logs` is off, as it is by default; there is no filter policy.
* A mutant operator (comment "Mutant:") stands before the definition it would replace;
  it is a plausible mistake in that handler and part of no specification.

## 3. What is checked

`TypeOK` of a module is an invariant of a run by itself or as a conjunct of the property
named after the module's state (`LoginTrue`, `HomeConsistent`, `ScannerConsistent`, `ListsTrue`,
`LevelsTrue`, `QueueTrue`, `FilesTrue`, `LogTrue`, `TablesTrue`, `CacheTrue`,
`CursorTrue`, `CopiesTrue`, `ReminderTrue`).

| Property | Says |
|---|---|
| `NoTornEdit` | a record with a picture has the contents of the very edit that uploaded the picture |
| `ReplacedImageOnly` | a record's picture is missing from Storage only when an edit threw it away and has not been written to that account |
| `PartialOnlyAfterRemoval` | a record without name and barcode is left only where a card was removed |
| `ForeignOnlyByStraddle` | a card reaches another account only through an edit begun in one account that ended in the other |
| `NamedChildren` | the empty key `saveCard` returns without a user reaches no screen and no upload (`child("")` throws) |
| `HomeMirrors` | with no read under way, Home's list agrees with the database on every card that was not written behind it |
| `DeletedStaysDeleted` | a removed card that no screen, list, snapshot or upload holds any more never comes back |
| `RemovedLeavesList` | a removed card leaves the list in the end, unless an upload brought it back |
| `ListLoads` | a Home with a user gets its list in the end |
| `Ledger` | every behaviour of `CardStore` is one of `CardLedger` |
| `SessionKept` | every behaviour of `CardStore`, and of `Login`, is one of `Session` |
| `OneSignInAtATime` | while sign-ins do not overlap, Home shows the cards of the user its calls write for, who is logged in |
| `LoginTrue` | `FlagHasOwner`: `isLoggedIn` with no user ever saved means a sign-in is running, or one ended without telling anybody |
| `OwnPicture` | no object, cell or detail screen ever has another card's picture |
| `CellsTrue` | the cells show the list on display until a download ends in a row that is no longer its card's |
| `HomeConsistent` | `PlaceholderShown`: on Home, one placeholder exactly when the list has come and is empty |
| `CameraOff` | away from the scanner the camera is off, but for a session started, or replaced, too late to be stopped |
| `OneCardPerVisit` | a visit of the scanner saves one card at most |
| `ScannerReads` | with nothing under way the scanner shows a picture and reads, but after the named races |
| `ScannerConsistent` | `FormShown`: the manual form covers the camera only when chosen, or without a permission for the camera |
| `CopiesTrue` | `CopiesAgree`: once a detail screen has loaded, title, file and widget are of one card, but for a file that could not be written and a picture without data; `WidgetTrue`: the widget mixes two cards only if it read while they were written, or what an ended app left; `FileReadable`: the file does not decode only while it is written, or after the app ended or failed as it wrote it |
| `ReminderTrue` | `OnMeansReminded`: with the switch on, the permission granted and nothing under way, iOS took a request since the switch was turned on; `BadgeTells`: a reminder on display, or an action on its way, has its badge, which goes below zero only after a reminder without one or a reset under an action |
| `OffStaysQuiet` | once the reminder is off and the last one is gone, no late answer brings one back: only the switch does |
| `QueueTrue` | `OneLogger`: only the first of the queue writes log and memtable; `WholeBatches`: readers see whole batches; `LogCovers`: what is in memory can be rebuilt from the log of its memtable, and memtables and tables are in the order of the writes; `SyncKept`: a write that asked for a sync and succeeded was synced, whoever wrote it |
| `ImplementsAtomicWrites` | groups, failures and all, `Write` is the abstract atomic write |
| `CallsReturn` | every call of `Write` and `CompactRange` returns, and so does the destructor |
| `LevelsTrue` | `ScansTrue`: no merge drops what a snapshot sees or a deletion that still hides something; `NewerAbove`: of one key, what `Get` meets first is newer; `LevelsDisjoint`: the files of a deeper level never overlap |
| `ImplementsMap` | lookups at the newest sequence number and at every snapshot are those of `SnapshotMap`: they change with a write only, at its key, to its value or to none |
| `StoreOpens` | a store that has once been open opens again, wherever it stopped; where writes tear, unless the manifest itself is torn |
| `FilesTrue` | `NumbersAhead`: no file or sequence number is given out twice; `FilesInUseExist`: no table or log in use is deleted; `AckedKept`: acknowledged batches outlive the process, synced ones the machine |
| `ImplementsDurableMap` | the store keeps what `DurableMap` promises, through recovery, flushes, merges and failures: a batch is lost when the machine stops (`MachineStops`) and at no other step, synced or not, and one that was synced never |
| `LogTrue` | `NothingMadeUp`: fragments of two records are never put together; `DamageIsLocal`: a spoilt byte costs the records of its block only; `CutTailIsQuiet`: cut anywhere, the log gives back every whole record and reports nothing |
| `ListsTrue` | `Sorted`: every level is a sorted list and part of the one below, also between two links; `LinksStored`: no reader follows a link that was not stored |
| `SeesInserted` | a reader misses no key inserted before it began |
| `CursorTrue` | `ShowsSnapshot`: after any moves in both directions the iterator is where its snapshot has it; `BeforeItsKey`: moving backwards, the children are before the key shown |
| `TablesTrue` | `ReadsInOrder`: wherever an iterator over a table is sent, it is at the next key it can read; `SkipsAreTold`: it passes over no key in silence; `LookupsFind`: a lookup finds the newest entry of its key as of its number, or says that it could not read |
| `CacheTrue` | `HeldIsOpen`: a table in use is open and is the one asked for; `ListsAgree`, `UsageCounts`: the two lists, the hash table, the references and `usage_` agree; `OpenBounded`: no more is open than the capacity and the users allow for |
| `ReadsEnd` | a search in the memtable ends however busy the writer is, and so does every call of an iterator |

Several of them say "only": they bound what is a real weakness of the code. The code
does lose a picture when an upload fails (the old one is already deleted), does bring a
removed card back when an upload ends late, and does write an edit into the wrong
account when the user changes meanwhile. The properties say that nothing else than the
named cause does so, and a change of the code that opens another way breaks them.

| Run | Instance | Shows |
|---|---|---|
| `one_card` | one account, one key, two contents, two uploads, two reads at once | edits are whole, pictures are lost to edits only, removed cards stay removed, in every order of two uploads, searching, stale lists, kills and shortcuts |
| `two_cards` | one account, two keys, one edit | lists agree with the database, the empty key stays inside the scanner |
| `two_accounts` | two accounts, one key, two uploads, one read at once, no searching | what can reach the wrong account or be left without contents, and how; `CardStore` implements `CardLedger` and `Session` |
| `lists_converge` | one account, one key, one edit, with fairness, no symmetry | removed cards leave lists, lists arrive |
| `sign_ins` | two accounts, three login screens, two sign-ins at once | who is signed in after overlapping sign-ins, lost screens, alerts and kills; `Login` implements `Session` |
| `home_list` | two cards with one picture each, two generations of objects, one load and three downloads at once | pictures stay with their card, cells with the list, the placeholder with the empty list |
| `device` | two scanners, three sessions, two starts and two barcodes waiting; three cards, one without picture data; two requests for the permission | one card per visit and when the camera runs; the last card's copies; the reminder |
| `write_queue` | three writers of two entries each, two with sync, one caller of `CompactRange`, memtables of two entries, failures | groups, logs and memtables stay right and every call returns |
| `level_tree` | two keys, three writes or deletions, levels 0 to 2, two files of level 0 at most, snapshots, ranges | the levels implement a map with snapshots |
| `disk` | four disks: the process stops (three batches, failures without torn records); power fails, twice (two batches); an unordered disk; torn records. Logs of up to four records of one to three fragments, cut anywhere; of three with a failed write and a spoilt byte | what opens again, and what is still there |
| `reads` | a skip list of three keys and three levels with a reader; an iterator over two keys and two children, three visible entries and a later one; tables of up to four of six internal keys with both restart intervals; two threads and three tables, one of them large, in a cache for two | reads find what is there, in order, and end; the cache keeps what is used and no more than it may |
| `torn_key` | one key, three writes, levels 0 to 3, output files cut anywhere | the finding below |

**Bounds, and why they are enough.** `Uids` and `Urls` bound how many cards and edits a
behaviour has. Two uploads are what it takes for an older edit to end after a newer one
and for an edit to replace another edit's picture; a card interacts with another only
through lists and snapshots, for which two keys suffice; an edit has one account where
it began and one where it ended. One note is enough because every property only asks
whether a record has one. `MaxLoads` (in the guard of `DeleteCard` alone) bounds how
many reads are outstanding; with two of them, the older read can be delivered over a
newer removal. `NoSearch` keeps the search field unused in the two-account run, where it
would multiply the states without touching accounts. Symmetry is used in safety runs
only, over sets whose members the specification never tells apart.

In `sign_ins`, two services may each owe their completion to an older login screen while
a third is on display, hence three screens; a third sign-in at once would be a second one
of some service, which two cover. In `home_list`, a row changes its card with two cards
already; the list and the objects of an older search or download are two generations.
`MaxDownloads` bounds different downloads at once; a search or load that would start more
waits for one to end. Its `VIEW` leaves out `filteredCards` while nobody searches, when
nothing reads it. In the scanner, one is on display while a block still holds another; a
session may be the service's, the layer's or new. `MaxStarts` and `MaxBarcodes` bound the
queued starts and callbacks, and `Below` how far the badge is counted below zero.

In `write_queue`, a group needs a leader, a follower and one who must not ride along; a
memtable of two entries fills with one batch, and level 0 stops writers at two files. In
`level_tree`, three sequence numbers are a value, a deletion that hides it and a write
above a snapshot; two levels below level 0 are what a deletion must look past. In `disk`,
a behaviour is about one kind of disk (`Disks`, a record of what it promises and how
writes fail), which gives its own bounds: `maxBatches` of the batches, at most
`MaxSequence`, and `maxStops` of how often everything stops, besides `MaxFile` of the file
numbers given out; with two stops the second one falls into the recovery from the first.
In `reads`, `MaxSequence` of `Cursor` is one beyond what the snapshot shows; a table of
four entries has up to four blocks, of which one is skipped between two others.

Every run checks that no state is a deadlock, but for `write_queue` and `disk`, whose
systems stop: a store that is closed, or one whose bounds are used up.

Components that share no variable share a run: in each behaviour of `device`, `disk` and
`reads` one of them moves while the others stay in their initial state. The states are
the sum of theirs and not the product, and the properties of one are checked in its own
behaviours; nothing is composed that the code does not compose.

**Fairness.** `FairSpec` of `CardStore` assumes weak fairness of `LoadSnapshot` and
`LoadDeliver` and nothing else: with persistence on, the database answers a read, if need
be from its local copy, and the main queue runs what is enqueued. Users owe nothing,
uploads may never end, and iOS may kill the app. `ListLoads` therefore excludes a user who
opens the search shortcut over and over, each time with a fresh Home; and a Home without a
saved user, for which `loadDataFromDb` never calls its completion.

`FairSpec` of `WriteQueue` assumes that a thread that is awake, and the background
thread, are scheduled; callers need not call. In `reads`, a reader inside a call is
scheduled; the writer is not assumed to stop, or to go on: keys are finite, and a search
that has passed a place never goes back.

**A disagreement of the code with its comments** (`torn_key`, `NewerAbove`).
`DoCompactionWork` closes an output file when it is big enough, also between two entries
of one user key that a held snapshot keeps apart. `SetupOtherInputs` then takes one of the
two files without the other, and the newer entry goes a level deeper than the older one:
`Version::Get` answers with the older. `version_set.cc:346-348` says that entries never
hop across levels. It takes a held snapshot, and the app takes none.

**Behaviours the properties exclude, because the code does nothing about them.**
* `strayed`: the search shortcut during a sign-in opens Home for the *previous* user
  (`isLoggedIn` is saved before the outcome); the sign-in then succeeds and replaces the
  user under that Home. From then on Home's cards are of one account and its writes go
  to another. `NoTornEdit`, `NamedChildren`, `DeletedStaysDeleted` and `Ledger` hold
  even so; the others are stated for behaviours without it.
* `Settled`: a card saved while the scanner had no delegate, or written while a snapshot
  was under way, or edited, is not compared by `HomeMirrors`. Home's list really is
  wrong about it, until a reload.

**Weaknesses of the code seen on the way**, which no property states. In the app: a picture whose
upload ended without its URL being written (failure or kill) stays in Storage for good;
after an edit the detail screen keeps the old URL, so a second edit deletes the wrong
picture and leaves the first edit's picture behind; a removed card stays in the search
results for as long as the search lasts, and notes saved from there leave a record that
no list shows; a first sign-in that is interrupted leaves the app in a Home without a
user; the shortcuts "add card" and "last card" name storyboard controllers that do not
exist; the notification's delegate is set by the switch only, so that an app launched
again reacts to none of its actions; every action counts the badge down, also below zero
(iOS shows none); a card edited before its picture has come uploads the placeholder and
deletes the picture.

In the store, each seen in a model and outside what the app does, or beyond what the
properties promise:
* `CompactRange` leaves gaps between its inputs. With three keys or more, a memtable may
  be put into a gap in the middle of the merge, and the output then covers it:
  `LevelsDisjoint` fails ("Must not overlap", `version_set.cc:765`).
* A call without a batch (`TEST_CompactMemTable`) that rides in another's group returns
  without the memtable having been written out.
* An error wakes `TEST_CompactRange`, which clears `manual_compaction_` under a merge of
  its range; the merge then uses a NULL pointer (`db_impl.cc:757`). `bg` is `"crashed"`
  from then on, which `CallsReturn` excuses.
* After a torn record of the log later batches are acknowledged and written behind it,
  where recovery skips the rest of the block. `AckedKept` is checked without torn
  records.
* A merge under way when a manifest's record was torn adds its edit behind it; such a
  store does not open (`StoreOpens` excuses a garbled manifest), and
  `FLevelDBStorageEngine` removes a store that does not open, for whatever reason. A
  purged store has nothing left to promise.
* `NewDB` sets `CURRENT` before its manifest is synced: a power failure during creation
  may leave a store that does not open. `Openable` is about a store that was once open.
* On an unordered disk a synced batch in a log that is new is safe only when a manifest
  has been synced after it; `FilesTrue` and `ImplementsDurableMap` are about orderly disks.
* `APLevelDB` never looks at an iterator's status: what `SkipsAreTold` says is there to be
  looked at, nobody looks at.

## 4. What is proved

The theorems hold for every value of the constants. The assumptions are
`NoneAssumption` (nil is no account, content, note or URL, and the empty string is no
key of `childByAutoId`) and `MaxLoadsAssumption` (one read at least may be outstanding)
for `CardStore`, and those named below for the other modules. Nothing is assumed of what
a step does. The bounds (`MaxLoads`, `MaxDownloads`, `MaxStarts`, `MaxBarcodes`) are
numbers of any size: the theorems do not rest on their being small.

`CardStoreProofs` proves `Invariant`: `Types /\ SignedIn /\ Named` is inductive.
`TypeOK` alone is not, because the writes index the database by the saved user and the
key on display; it takes `SignedIn` (a list, a read and a card screen belong to a saved
user, and the user is never forgotten) to know there is such a branch, and `Named` (no
list, snapshot, screen or upload holds the empty key) to know there is such a child.
* `TypeCorrect`: `Spec => []TypeOK`.
* `NoEmptyUid`: `Spec => []NamedChildren`.

It also proves the two statements about pictures.
* `EditsAreWhole`: `Spec => []NoTornEdit`. With the types it is inductive; the step that
  matters is that an upload which is done is never touched again (`DoneStays`), since a
  URL is used for one upload only.
* `PicturesLostToEdits`: `Spec => []ReplacedImageOnly`, from `PictureInv`, which adds
  - `Copies`: every URL in a list, a snapshot or the detail is of an upload that was
    written for that card and, unless strayed, in this user's account. It is why the
    picture an edit deletes belongs to the card being edited;
  - `Blank`: outside Home there are no copies, so a change of user leaves none behind;
  - `Stored`: only pictures of finished uploads are asked to be deleted, and an upload
    that is about to be written has its picture;
  - `Deletions`: a picture that is gone, or going, is pointed at by no record, or an
    edit replaces it that is not written to its account. This is the statement itself,
    moved ahead to the moment the deletion is requested.

Its second part proves what is left of `CardStore`, from one more invariant,
`LedgerInv`: `PictureInv` and two ideas.

*Every key has an origin.* `Known(u, a)` says that the key `u` was given to a card, that
this card came to account `a` by being made there or by an edit begun elsewhere whose
upload ended in `a`, and that it is still there or was removed. Once true, it stays true
(`KnownStays`): a key is given out once, an upload that is done stays as it is, and a
record loses its contents by `deleteCard` only. So it is enough to see that every copy of
a card is taken from a known one. `RecordsKnown`, `CopiesKnown` and `EditsKnown` say this
of the database, of the lists, snapshots and screens, and of the uploads; the lemmas
`CardsOrigin`, `FoundOrigin`, `LoadsOrigin` and `DetailOrigin` say of each kind of copy
where a step may have it from. None of the parts is inductive alone: a record is written
from a screen, a screen is filled from a list, a list from a snapshot, a snapshot from
the records.
* `PartialAfterRemoval`: `Spec => []PartialOnlyAfterRemoval`.
* `ForeignByStraddle`: `Spec => []ForeignOnlyByStraddle`.
* `RemovedStaysRemoved`: `Spec => DeletedStaysDeleted`; the step is `GoneStep`, with
  `RemovedKnown`: a removed key was given out, so no new card gets it.
* `StoreKeepsLedger`: `Spec => Ledger`. The step lemma `LedgerStep` names for every action
  of `CardStore` the action of `CardLedger` it is, or shows that it changes nothing the
  ledger can see; it needs `CopiesKnown` and `EditsKnown`, because the ledger lets
  a card be annotated, removed or edited only by a key that was issued.

*Home knows what it will know.* `HomeMirrors` is about a Home whose reads have been
answered, and says nothing while one is outstanding, so it is not inductive. `Mirrors`
is, for every settled card: without outstanding reads the list has the card as the database
has it; otherwise the *last* read, once its snapshot is taken, does. The answers come in
order, so this read decides what the list will be. A card written while a snapshot
is out is `raced` and not settled, and stays so for as long as this Home (`HomeStays`,
`SettledBefore`).
* `HomeShowsDatabase`: `Spec => []HomeMirrors`.

Independently of all this, `SignInStep` shows of every step of `CardStore` which step of
`Session` it is:
* `CardsKeepSession`: `Spec => SessionKept`. With `LoginKeepsSession` below, both models
  of signing in are proved to keep one promise, which is what joins them.

`LoginProofs` assumes `LoginNone` and `LoginOver` (nil is no account and no login screen;
what the window presents is not confused with a sign-in).
* `LoginTypeCorrect`: `Spec => []TypeOK`.
* `OneAtATime`: `Spec => []OneSignInAtATime`, from `LoginInv`. Its part `Alone` says what
  a sign-in that runs alone excludes: it is the only one, the login screen is still the
  root, the flag is set and Home is not open. Without it a sign-in could end under a Home
  that is open for somebody else.
* `FlagOwned`: `Spec => []LoginTrue`; `FlagHasOwner` is inductive with the types.
* `LoginKeepsSession`: `Spec => SessionKept`. The initial states are Session's, and every
  step is a step of Session or leaves its variables alone. `LoginRoot`, the other part of
  `LoginInv`, says when a login screen is the root and Home is presented.

`DeviceProofs` is about `Device` and its three parts. Of the scanner it assumes
`ScannerNone` (nil is no scanner and no session), `ScannerSome` (there is a scanner) and
`ScannerBounds`.
* `OneCard`: `Spec => []OneCardPerVisit`, from `Visit`: an alert never outlives its
  scanner. A block of `get(barcode:)` that comes late, or second, finds its scanner gone
  or busy.
* `CameraGoesOff`: `Spec => []CameraOff`, from `Camera`: at *every* moment what is on is
  late or is the session the service has for the scanner on display. Only for this
  session does `stopRunning` of `viewWillDisappear` turn the camera off.
* `ReadsAgain`: `Spec => []ScannerReads`, from `Reads`, which follows the scanner through
  the states in between: its session runs, or a start is queued, or a barcode was read and
  the block that presents its alert is queued, or the alert is there.
* `FormFollowsSegment`: `Spec => []ScannerConsistent` (types and `FormShown`), from
  `FormOnce`: a form more than the segment asks for comes from cancelling the access
  alert, which a visit presents once, because the answer is owed to it (`Owed`) once;
  `Asked` says that an answer belongs to a question.

Of the last card and the reminder it assumes `CopiesAssumption` (nil and a broken file are
no cards) and `ReminderAssumption` (the badge may be counted once below zero).
* `CopiesStayTrue`: `Copies!Spec => []CopiesTrue`, from `CopyInv`. `Written` follows
  `viewDidLoad`: what it has written so far is of the card on display. `Grouped` says that
  the two defaults are of one card but between their two writes and after an app that
  ended there. `HalfRead` says that the name the widget has read is still the one there,
  but then; it is what the widget's second read relies on.
* `ReminderStaysTrue`: `Reminder!Spec => []ReminderTrue`, from `ReminderInv`. `ReminderOwed` is
  `OnMeansReminded` at every moment: a reminder iOS has not taken is still to come from
  the switch or from an answer, or there is no permission. `Counted` says that an action
  on its way was chosen when there was no other notification, so `didReceive` takes the
  badge from one to zero.
* `OffStaysOff`: `Reminder!Spec => OffStaysQuiet`.
* `PartsApart`: `AllSpec => Spec /\ Copies!Spec /\ Reminder!Spec`, which carries these and
  the theorems of the scanner to the composition.

`HomeListProofs` assumes `HomeNone` (nil is no picture and no cell) and `HomeBounds`
(finitely many cards). The parts of `HomeInv` are the types with the lists being without
duplicates (`ListType`), the pictures of the objects, of the cells with the downloads, and
of the detail screen being of their own cards (`ObjectsOwn`, `DisplayOwn`, `PushedOwn`),
the placeholder (`Proposed`), what cannot be before the first load (`Unloaded`) and
`CellsTrue`.
* `PicturesStayWithCards`: `Spec => []OwnPicture`. A download writes into a row by index,
  but captured its object; the URL it asked for is of the object's own card, whatever row
  the answer ends in.
* `CellsShowRows`: `Spec => []CellsTrue`. It needs that a card has one row at most
  (`IsInjective`): otherwise a picture that comes late would reach one of two cells of its object.
* `HomeStaysConsistent`: `Spec => []HomeConsistent` (types and `PlaceholderShown`). It needs
  `Unloaded`: a scanner opened before the list has come has no delegate, so no card is
  appended under a placeholder that was never shown.

`ReadsProofs` is about `Reads` and `TableCache`. Of `Reads` it assumes `ReadsAssumption`.
Of the list this is that there are keys and levels, for any set of readers. The inductive
invariant `SkipListInv` is `TypeOK`, `Sorted`, `LinksStored`, `SeesInserted` and two parts
of their own:
* `WriterInv`: the levels above the highest are empty, and what the writer remembers is
  what `Link` relies on. While it searches, it is before its key, which is on no list, and
  each `prev[l]` it has recorded is the place for it on level `l`; while it links, the
  levels below `wlevel` have the key, and in the others its places are still right, as it
  is the only writer. `Sorted` alone is not preserved by `Link`, which trusts `prev`.
* `ReaderInv`: a reader on its way is before its target, and what was in the list when it
  began still is.
The theorems:
* `ListsStayTrue`: `L!Spec => []ListsTrue`, that is, `Types`, `ListsSorted` and
  `ReadersFindLinks` in one.
* `ReadersMissNothing`: `L!Spec => []SeesInserted`.
The lemmas follow the steps: the writer's (`InsertInv`, `SearchInv`, `SetHeightInv`,
`LinkInv`) keep `ListInv`, the part without readers; `Linked` and `LinkedOn` say what a
link does to the lists, whence `WriteKeeps`: a list only gains nodes, so no reader loses
its place; the readers' (`SearchKeeps`, `WalkKeeps`, `GoKeeps`, `ReturnKeeps`) leave the
lists alone (`ListUnchanged`).

Of the iterator it assumes that the snapshot is not beyond the last entry ever written,
for any keys, children and number of writes. The inductive invariant `Inv` says of an
iterator in the middle of a call what it relies on. `Data`: entries are numbered in the
order of their writing, so that a writer who goes on adds none that the snapshot shows.
`NextInv`, `TurnInv` and `PrevInv` follow `FindNextUserEntry`, the turn in `Next` and
`FindPrevUserEntry`: where the children are, and that what they have gone past is not to
be shown (`Rising`, `Falling`, `FallingBefore`) or is what was saved on the way (`Taken`).
`IdleInv` is `CursorTrue` between two calls.
* `CursorIsTrue`: `Spec => []CursorTrue`.

`WriteQueueProofs` assumes `WriteQueueAssumption`: a process has finitely many threads
that write, which are not those that call `CompactRange`; a batch has an entry at least;
the thresholds of level 0 are in order. Batches, buffers and failures are arbitrary. The
inductive invariant `QueueInv` has four layers.
* `LineInv`, the queue: who is in it has no status yet, and only its head is further than
  waiting (`Lined`); there is a group exactly while the head writes, and a write that
  wants a sync is in the group of one that does only (`Grouped`). `OneLogger` is a part of
  `Lined`, which needs the rest: a thread that leaves the queue must have been its head.
* `FlagTypes`, `Memtables`, `Compacting`: while there is an old memtable, level 0 has room
  for it, because `MakeRoomForWrite` makes one below the limit only, and a merge takes
  files away.
* `Counted` and `Logged`, the numbers and logs: a batch takes its numbers once, so
  `last_sequence_` stays below those of all writers; everything stored is numbered up to
  where the insertion has got, hence the order of the memtables; what a group has logged
  and synced by when (`GroupLogged`), from which `LogCovers` and `SyncKept` follow when it
  gets its status.
* `Applied`, `InProgress`, `Refused`: a batch that succeeded is stored with `BatchSize`
  consecutive numbers that are visible; one of the group has got as far as `InsertInto`
  has, with numbers that are not; any other has nothing stored. This is why a failed
  group may skip its numbers: nothing was inserted when the log or its sync fails.
`Times`, `Share` and `NewNumbers` are the arithmetic of the numbers of a group, and
`StepCases` sorts the steps by what they do to it: a group is formed (`FormGroup`),
decided (`FinishGroup`), the head leaves alone (`FinishFirst`), an entry is inserted, or
none of these (`Beside`). Each kind has one lemma for the queue and one for the data.
* `QueueStaysTrue`: `Spec => []QueueTrue`.
* `WritesAreAtomic`: `Spec => ImplementsAtomicWrites`. From the invariant, a reader sees
  the batches that have succeeded and no others (`SeenOk`), so a call is `Call`, the end of
  a group is one `Decide` (`Decides`), and nothing else is noticed by anyone (`Unnoticed`).

`LevelTreeProofs` assumes `LevelTreeAssumption` (keys are numbers, there is a level below
level 0, a memtable is never pushed to the last one). Its theorems have a hypothesis,
`WholeMerges`: with `CompactRange` there are two keys at most, and output files end between
two entries of a key only where nobody takes snapshots. Both exceptions are known to be
wrong: the first is the gap described in section 3, the second the finding `torn_key`. The
app calls no `CompactRange` and takes no snapshot, so for it the hypothesis holds whatever
the keys and wherever files end. The inductive invariant `TreeInv` adds to `LevelsDisjoint`
and `ScansTrue`:
* `Formed`, `Numbered`: files are not empty, everything stored was written, under a number
  of its own;
* `Ordered`, which is `NewerAbove` said of memtables, files and levels;
* `MergeInv`, of a merge under way, since it runs without the lock. `Above`: what is left on
  its level is newer than what it took. `Beneath`: nothing that is, or meanwhile gets, on
  the next level overlaps its inputs, or lies between them. `Deeper`: the levels it looks
  past for `IsBaseLevelForKey` have gained only files beside the inputs. `Oldest`: its
  smallest snapshot is not after any held one.
`ScansTrue` alone is not inductive, because a merge drops a deletion by looking at levels
that change, and `Ordered` is not, because a memtable is put as deep as nothing overlaps.
`Gapless` is the idea that connects them: the inputs of a picked merge cover their range
without a gap (`LeastClosed`: `GetOverlappingInputs` of level 0 is the least closed range;
`WidenedGapless` for `SetupOtherInputs`), so a file that overlaps none of them is on one side
of all of them (`SameSide`), and the outputs, which lie in the same range, meet nothing
either. `NothingHidden`, `StoredAfter` and `ScansInstalled` then show of
`InstallCompactionResults` that what was dropped is hidden from every snapshot by what was
kept, and that a dropped deletion hid nothing.
* `LevelsStayTrue`: `Spec => []LevelsTrue`.
* `MapIsKept`: `Spec => ImplementsMap`. `GetFinds`: `Get`, which stops at the first place that
  has something, and looks into one file of a level (`CandidateFinds`), finds the newest
  entry there is, so by `ScansTrue` it reads the history of the writes (`ReadsKnown`). A
  write, which takes the next sequence number, is then one step of the map (`WriteShows`),
  taking a snapshot copies it, and nothing else is noticed (`MapStep`): a flush or a merge
  that changed what a lookup finds would be no step of `SnapshotMap`, since no number was
  given out.

Of the table cache it assumes `TableCacheAssumption`, for any threads, tables, charges and
capacity. The inductive invariant `CacheInv` has what a thread that holds an entry, or opens
a table, knows of it, and `Sound`: lists without duplicates (`Formed`), whose entries are
exactly those referred to once, or more than once (`Listed`), the hash table having one for
each key (`Tabled`), the references being the cache's own and one per holder (`Counted`),
`usage_` the sum of the charges of the entries in the cache (`Charged`). `Sound` has two more
arguments, for the middle of an operation, when an entry has a reference too many or is out of
the table: so each operation of `LRUCache` has its lemma (`RefKeeps`, `UnrefKeeps`,
`FinishEraseKeeps`, `EraseKeeps`, `EvictOldestKeeps`, `ShrinkKeeps`, `InsertKeeps`), and each
handler is a composition of them.
* `CacheIsTrue`: `CacheSpec => []CacheTrue`.
* `EachRound`: a round of the loop that evicts takes the first entry of the prefix by which
  the model gives the whole loop, and leaves the rest of it to the next round.

`DurableStoreProofs` assumes `DurableStoreAssumption` (what kinds of disk there may be) and
`DurableStoreNone` (a torn record is no batch and no edit, and the constant for "none" is no
writer, merge or job). It is about any set of disks, so about disks that lose power, or names,
or tear records in any combination, and about any number of stops. What makes it long is that
the files are read after a stop only, when it is too late to look after them. So the invariant
speaks of every state to which a power failure may still take the directory (`Dirs`), and for
each of everything that may be left of the manifest it names: `Views(d)` has what is read of
every prefix that may survive. The inductive invariant `StoreInv` is

* `FileTypes`, `StoreTypes`: files are what their names say, in every directory that may come
  back, and the fields of the store mean something in its phase only;
* `Named`: for every such directory and every view of its manifest, the tables are there
  and the view's numbers are below those that will be given out (`Fits`). This is `Openable`,
  said ahead of the stop. A manifest beyond the current one, which a stop may leave behind,
  is older than some log that is there, which is why `NewManifest` does not meet it;
* `Opening`, `Made`: how far a recovery has got, and that its new manifest is whole and synced
  before `CURRENT` names it;
* `Open`, `Working`, `Editing`: an open store is ahead of all numbers in its directory, the
  tables of jobs under way are in no view, and an edit that is not written yet fits behind
  every view, so that it may be added to whatever is left of the manifest;
* `Exact`: unless an operation failed, the manifest describes the version. This is what allows
  `DeleteObsoleteFiles`, which looks at the version only, and why it must not run after an error.

`CutIs` and `ViewsCut` show what a power failure makes of one file, `Carried`, `LogWritten`,
`NewTableCarries` and `InstalledFiles` what a step leaves of the views.
* `StoreStaysOpenable`: `Spec => []StoreOpens`.

Which batches the files hold is a second invariant, `ContentInv`, for disks that are
`Orderly`:

* `Lasting`: of every directory that may come back, every view leads to all batches that were
  promised, in what was synced (`SafeIn`), and to none that could not be recovered now
  (`HeldIn`); it has no log that is gone from the present directory, unless the log is not needed;
* `Recovered`: during a recovery, tables made so far and logs that are left make up everything;
* `Logged`: the log in use holds the memtable and the batch being written, older ones the
  immutable memtable. After a log write that could not be synced it may hold one batch more, which
  nobody was promised, and then there is no other write;
* `Built`: the table of a job holds what it replaces;
* `Covered`: the manifest is at the version, or one flush ahead of it, between the write of
  its record and `Apply`;
* `Acked`: what was acknowledged is among what can be recovered.

`Acked` is not inductive, because a flush takes batches from a log to a table, and the log is
deleted while some earlier state of the directory, with an earlier prefix of the manifest, may
still come back: it takes `Lasting` to know that such a state has the log that it needs.
* `StoreKeepsFiles`: `Spec => []FilesTrue`. The types and numbers follow from `StoreInv`, on
  every disk; `FilesInUseExist` and `AckedKept` from `ContentInv` (`ContentIsTrue`).
* `StoreIsDurable`: `Spec => ImplementsDurableMap`. `Content` is what is seen, or would be if
  the store were opened now; one that does not open would be emptied. On an orderly disk it is
  what the files hold whenever they can be read (`ContentIsHeld`), and a store that cannot be
  opened has lost only what the last power failure took, and owes nobody anything (`Doomed`).
  So every action but three leaves `Content` as it is (`ContentKept`), `PurgeDatabase` among
  them. `InsertInto` is `Add` or, for a batch that is there already, `Promise`. A process that
  stops may add the batch that was in the log and not in the memtable yet (`OneMore`); when
  the machine stops (`MachineStopsTakes`) that is a `PowerFailure`, and nothing else is one.

Model-checked only:
* the liveness properties (`RemovedLeavesList`, `ListLoads`, `CallsReturn`, `ReadsEnd`),
  which are out of the prover's reach;
* `TablesTrue` and `LogTrue`: what `Block`, `TableFile` and `LogFormat` compute is recursion over a
  sequence of entries or bytes, and the library's induction theorems take an operator as a
  parameter, which the installed provers cannot instantiate. (Where a least element is
  enough, as for the sums of charges in `TableCache`, the proofs use well-foundedness of
  the numbers instead.)

## 5. What is not modelled, and the plan

Not modelled, and not planned: drawing, animation, layouts, the licence and web pages,
the image picker, the network wrappers (no state between calls), other devices signed in
to the same account, and the Pods but for LevelDB (Firebase appears as the app uses it).
Of what the shortcuts ask for, only that they end the app or lead to Home: the
controllers they name are not in the storyboard.

Of LevelDB: repair, filters, compression, checksums, reused logs, the arena, `DumpFile`
and the C bindings; and the size rules that choose the next merge, in whose place every
choice is possible.

Every part of the plan is built: the card store, signing in, Home, the scanner, the last
card, the reminder and the local store, each with its runs and its theorems, but for what
section 4 lists as model-checked only. A change of the code that touches a definition of
`map` in `PROJECT.json` asks for its module, the runs that use it and the proof lemma named
after the action.
