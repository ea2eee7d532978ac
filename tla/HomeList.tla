------------------------------- MODULE HomeList ------------------------------
(***************************************************************************)
(* The collection view of HomeViewController: its rows, the cells on       *)
(* display, the pictures downloaded into them, and the view that proposes  *)
(* to add a first card.                                                    *)
(*                                                                         *)
(* Card is a class: cards and filteredCards share its objects until a load *)
(* replaces cards.  A load makes an object per record, so the pair of a    *)
(* uid and the load (a generation) names an object.  A download captures   *)
(* the object and its row, and writes to both when it ends, whatever the   *)
(* rows are by then.  What the database answers is any list of records:    *)
(* CardStore says which it can be.                                         *)
(***************************************************************************)
EXTENDS Naturals, Sequences, FiniteSets, SequencesExt

CONSTANTS
    Uids,       \* the cards
    Versions,   \* the pictures a card can have had
    Gens,       \* the loads whose objects still exist
    None,       \* nil, and the picture "shop" of a card that has no other
    MaxLoads,     \* bound of the model: loads outstanding at once
    MaxDownloads  \* bound of the model: different downloads under way at once

VARIABLES
    loaded,       \* cards is not nil
    cards,        \* the rows of cards, by uid
    gen,          \* the generation of their objects
    filtered,     \* the rows of filteredCards
    fgen,         \* the generation of their objects
    searching,    \* the search field is active and not empty
    url,          \* absoluteURL of each object
    image,        \* image of each object
    cells,        \* the cells on display: the card whose name, and the picture
    downloads,    \* the downloads under way
    loads,        \* the loads under way
    screen,       \* "home" or what is pushed over it
    delegate,     \* the scanner has its delegate
    detail,       \* the card of DetailedViewController: uid and picture
    placeholders, \* how many ProposeAddCardViews are in the view
    held,         \* cardPlaceholderView is one of them
    shifted       \* history: a download ended in the row of another card

list == <<loaded, cards, gen, filtered, fgen, searching>>
objects == <<url, image>>
display == <<cells, downloads, shifted>>
pushed == <<screen, delegate, detail>>
proposal == <<placeholders, held>>
vars == <<list, objects, display, loads, pushed, proposal>>

Picture == [card : Uids, version : Versions]
Of(u) == [card : {u}, version : Versions] \cup {None}
Cell == [card : Uids, image : Picture \cup {None}]
Download == [row : Nat \ {0}, card : Uids, gen : Gens, url : Picture]

ASSUME HomeNone == None \notin Picture \cup Cell
ASSUME HomeBounds == IsFiniteSet(Uids) /\ MaxLoads \in Nat \ {0} /\ MaxDownloads \in Nat

\* The rows on display, and the generation of their objects.
Rows == IF ~loaded THEN <<>> ELSE IF searching THEN filtered ELSE cards
RowsGen == IF searching THEN fgen ELSE gen

\* The generations of the objects that something may still read.
Used ==
    {d.gen : d \in downloads}
        \cup (IF loaded THEN {gen} ELSE {})
        \cup (IF searching /\ filtered # <<>> THEN {fgen} ELSE {})

\* The rows of the cards of D, in the order of the list.
Selected(rows, D) ==
    {s \in SetToSeqs(ToSet(rows) \cap D) :
        \A i, j \in 1..Len(s) :
            i < j => \E k, l \in 1..Len(rows) : k < l /\ rows[k] = s[i] /\ rows[l] = s[j]}

\* One cell per row of rows, and the downloads each of them asks for: of every
\* picture of the list.
Configured(rows, g, im) ==
    [i \in 1..Len(rows) |-> [card |-> rows[i], image |-> im[rows[i]][g]]]
loadCardImages(rows, g, ur) ==
    {[row |-> i, card |-> rows[i], gen |-> g, url |-> ur[rows[i]][g]] :
        i \in {j \in 1..Len(rows) : ur[rows[j]][g] # None}}

\* Mutant: the cells wait for the next reload.
reloadLater == UNCHANGED display

\* reloadData, with the new rows and objects.  It lays the cells out at once.
reloadData ==
    /\ cells' = Configured(Rows', RowsGen', image')
    /\ downloads' = downloads \cup loadCardImages(Rows', RowsGen', url')
    /\ Cardinality(downloads') <= MaxDownloads
    /\ shifted' = FALSE

Init ==
    /\ loaded = FALSE /\ cards = <<>> /\ filtered = <<>> /\ searching = FALSE
    /\ gen \in Gens /\ fgen = gen
    /\ url = [u \in Uids |-> [g \in Gens |-> None]]
    /\ image = [u \in Uids |-> [g \in Gens |-> None]]
    /\ cells = <<>> /\ downloads = {} /\ shifted = FALSE
    /\ loads = 1
    /\ screen = "home" /\ delegate = FALSE /\ detail = None
    /\ placeholders = 0 /\ held = FALSE

-----------------------------------------------------------------------------
(* The placeholder.                                                        *)

addCardPlaceholderView ==
    /\ placeholders' = placeholders + 1
    /\ held' = TRUE

\* Mutant: the view is added whether or not it is there.
AddWhenEmpty ==
    IF loaded' /\ cards' = <<>>
    THEN addCardPlaceholderView
    ELSE IF held THEN placeholders' = placeholders - 1 /\ held' = FALSE
                 ELSE UNCHANGED proposal

\* With nil for cards, the count is not 0 either.
checkIfPlaceholderViewNeeded ==
    IF loaded' /\ cards' = <<>> /\ ~held
    THEN addCardPlaceholderView
    ELSE IF held /\ ~(loaded' /\ cards' = <<>>)
         THEN placeholders' = placeholders - 1 /\ held' = FALSE
         ELSE UNCHANGED proposal

viewWillAppear ==
    IF loaded' THEN checkIfPlaceholderViewNeeded ELSE UNCHANGED proposal

-----------------------------------------------------------------------------
(* The list.                                                               *)

\* The records rows with pictures ur become the objects of generation g.
Replace(rows, g, ur) ==
    /\ loads > 0
    /\ loads' = loads - 1
    /\ loaded' = TRUE
    /\ cards' = rows
    /\ gen' = g
    /\ url' = [u \in Uids |-> [h \in Gens |->
                 IF h = g THEN ur[u] ELSE IF h \in Used THEN url[u][h] ELSE None]]
    /\ image' = [u \in Uids |-> [h \in Gens |->
                   IF h \in Used THEN image[u][h] ELSE None]]
    /\ UNCHANGED <<filtered, fgen, searching, pushed>>

\* The completion of viewDidLoad: an empty list is not laid out.
FirstLoad(rows, g, ur) ==
    /\ ~loaded
    /\ Replace(rows, g, ur)
    /\ IF rows = <<>>
       THEN addCardPlaceholderView /\ UNCHANGED display
       ELSE reloadData /\ UNCHANGED proposal

\* The completion of userDidRemoveData.
Reload(rows, g, ur) ==
    /\ loaded
    /\ Replace(rows, g, ur)
    /\ checkIfPlaceholderViewNeeded
    /\ reloadData

\* updateSearchResults: the term selects the cards of D, once there are cards.
Search(D) ==
    /\ screen = "home"
    /\ searching' = TRUE
    /\ IF loaded
       THEN /\ filtered' \in Selected(cards, D)
            /\ fgen' = gen
            /\ UNCHANGED <<loaded, cards, gen, objects>>
            /\ reloadData
       ELSE UNCHANGED <<loaded, cards, gen, filtered, fgen, objects, display>>
    /\ UNCHANGED <<loads, pushed, proposal>>

\* The empty term selects every card; the rows are those of cards again.
EndSearch ==
    /\ screen = "home" /\ searching
    /\ searching' = FALSE
    /\ IF loaded
       THEN /\ filtered' = cards
            /\ fgen' = gen
            /\ UNCHANGED <<loaded, cards, gen, objects>>
            /\ reloadData
       ELSE UNCHANGED <<loaded, cards, gen, filtered, fgen, objects, display>>
    /\ UNCHANGED <<loads, pushed, proposal>>

-----------------------------------------------------------------------------
(* Pictures.                                                               *)

\* Mutant: the row of the list on display is written, not the one captured.
EndsInRow(d) ==
    /\ image' = IF d.row <= Len(Rows)
                THEN [image EXCEPT ![Rows[d.row]][RowsGen] = d.url]
                ELSE image
    /\ cells' = IF d.row <= Len(cells)
                THEN [cells EXCEPT ![d.row] = [card |-> d.card, image |-> d.url]]
                ELSE cells

\* The object gets the picture; so does the cell now in that row, if any, with
\* the name of the object.
Ends(d) ==
    /\ image' = [image EXCEPT ![d.card][d.gen] = d.url]
    /\ cells' = IF d.row <= Len(cells)
                THEN [cells EXCEPT ![d.row] = [card |-> d.card, image |-> d.url]]
                ELSE cells

\* The row the download d was asked for is still the row of its object.
InPlace(d) ==
    d.row <= Len(Rows) /\ Rows[d.row] = d.card /\ RowsGen = d.gen

\* Each cell asks for every picture, so the same one may arrive again.
ImageLoaded(d) ==
    /\ d \in downloads
    /\ downloads' \in {downloads, downloads \ {d}}
    /\ Ends(d)
    /\ shifted' = (shifted \/ ~InPlace(d))
    /\ UNCHANGED <<list, url, loads, pushed, proposal>>

\* A response without a picture: no completion is called.
ImageFailed(d) ==
    /\ d \in downloads
    /\ downloads' = downloads \ {d}
    /\ UNCHANGED <<list, objects, cells, shifted, loads, pushed, proposal>>

-----------------------------------------------------------------------------
(* The screens pushed over Home.                                           *)

OpenScanner ==
    /\ screen = "home"
    /\ screen' = "scanner"
    /\ delegate' = loaded
    /\ UNCHANGED <<list, objects, display, loads, detail, proposal>>

Return ==
    /\ screen' = "home"
    /\ delegate' = FALSE
    /\ detail' = None
    /\ viewWillAppear

\* No list and no download knows the card u.
New(u) ==
    /\ u \notin ToSet(cards) \cup ToSet(filtered)
    /\ \A d \in downloads : d.card # u

\* userDidEnterCard and navigateToRoot: the new card has no picture.
SaveCard(u) ==
    /\ screen = "scanner"
    /\ New(u)
    /\ IF delegate
       THEN /\ cards' = Append(cards, u)
            /\ url' = [url EXCEPT ![u][gen] = None]
            /\ image' = [image EXCEPT ![u][gen] = None]
            /\ UNCHANGED <<loaded, gen, filtered, fgen, searching>>
            /\ reloadData
       ELSE UNCHANGED <<list, objects, display>>
    /\ Return
    /\ UNCHANGED loads

\* The row that was tapped decides, not what its cell shows.
OpenDetail(i) ==
    /\ screen = "home" /\ i <= Len(Rows)
    /\ screen' = "detail"
    /\ detail' = [card |-> Rows[i], image |-> image[Rows[i]][RowsGen]]
    /\ UNCHANGED <<list, objects, display, loads, delegate, proposal>>

\* Back, from the scanner or from a card.
Back ==
    /\ screen # "home"
    /\ UNCHANGED <<list, objects, display, loads>>
    /\ Return

\* userDidUpdateData: the object of cards has the picture of the edit screen,
\* the one it had or one the user chose, and no URL any more.
SaveEdit(p) ==
    /\ screen = "detail"
    /\ p \in {detail.image} \cup [card : {detail.card}, version : Versions]
    /\ detail' = [detail EXCEPT !.image = p]
    /\ IF detail.card \in ToSet(cards)
       THEN /\ image' = [image EXCEPT ![detail.card][gen] = p]
            /\ url' = [url EXCEPT ![detail.card][gen] = None]
       ELSE UNCHANGED objects
    /\ UNCHANGED list
    /\ reloadData
    /\ UNCHANGED <<loads, screen, delegate, proposal>>

\* userDidAddNotes.
SaveNotes ==
    /\ screen = "detail"
    /\ UNCHANGED <<list, objects>>
    /\ reloadData
    /\ UNCHANGED <<loads, pushed, proposal>>

\* userDidRemoveData and popToRootViewController.
DeleteCard ==
    /\ screen = "detail"
    /\ loads < MaxLoads
    /\ loads' = loads + 1
    /\ UNCHANGED <<list, objects, display>>
    /\ Return

-----------------------------------------------------------------------------
Next ==
    \/ \E S \in SUBSET Uids, g \in Gens \ Used :
        \E rows \in SetToSeqs(S), ur \in [Uids -> Picture \cup {None}] :
            /\ \A u \in Uids : ur[u] \in IF u \in S THEN Of(u) ELSE {None}
            /\ FirstLoad(rows, g, ur) \/ Reload(rows, g, ur)
    \/ \E D \in SUBSET Uids : Search(D)
    \/ EndSearch
    \/ \E d \in downloads : ImageLoaded(d) \/ ImageFailed(d)
    \/ OpenScanner
    \/ \E u \in Uids : SaveCard(u)
    \/ \E i \in 1..Len(cells) : OpenDetail(i)
    \/ \E p \in Picture \cup {None} : SaveEdit(p)
    \/ SaveNotes \/ Back \/ DeleteCard

Spec == Init /\ [][Next]_vars

-----------------------------------------------------------------------------
(* Properties.                                                             *)

\* The types of the lists, the objects, the cells and the downloads.
TypeOK ==
    /\ loaded \in BOOLEAN /\ searching \in BOOLEAN /\ shifted \in BOOLEAN
    /\ cards \in Seq(Uids) /\ filtered \in Seq(Uids)
    /\ IsInjective(cards) /\ IsInjective(filtered)
    /\ gen \in Gens /\ fgen \in Gens
    /\ url \in [Uids -> [Gens -> Picture \cup {None}]]
    /\ image \in [Uids -> [Gens -> Picture \cup {None}]]
    /\ cells \in Seq(Cell)
    /\ downloads \subseteq Download
    /\ loads \in 0..MaxLoads
    /\ screen \in {"home", "scanner", "detail"}
    /\ delegate \in BOOLEAN
    /\ detail \in Cell \cup {None}
    /\ (screen = "detail") = (detail # None)
    /\ placeholders \in Nat /\ held \in BOOLEAN

\* No order of reloads, searches, edits and downloads brings the picture of a
\* card to another card: not to an object, nor to a cell, nor to a detail
\* screen, from where an edit would upload it for that card.  (A download
\* writes to a row and to an index, loadCardImages, H:65.)
OwnPicture ==
    /\ \A u \in Uids, g \in Gens : image[u][g] \in Of(u)
    /\ \A i \in 1..Len(cells) : cells[i].image \in Of(cells[i].card)
    /\ detail # None => detail.image \in Of(detail.card)

\* The cells show the rows of the list on display, cards or filteredCards, each
\* with the name and picture of its own object, whoever changed the object or
\* the list: until a download ends in a row that is not its card's any more,
\* and again from the next reloadData on.  The exception is real: the name in
\* such a cell is not that of the card that a tap on it opens.
CellsTrue ==
    shifted \/ cells = Configured(Rows, RowsGen, image)

\* Home proposes to add a first card exactly when its list has come and is
\* empty, and only once, although the view is added by a load, by a reload and
\* by each return, and taken away by two of them only.
PlaceholderShown ==
    /\ placeholders = IF held THEN 1 ELSE 0
    /\ screen = "home" => (held <=> loaded /\ cards = <<>>)

\* The list and what it proposes when it is empty.
HomeConsistent == TypeOK /\ PlaceholderShown
=============================================================================
