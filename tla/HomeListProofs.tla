--------------------------- MODULE HomeListProofs ---------------------------
(***************************************************************************)
(* Theorems about HomeList, for any cards, pictures, generations and       *)
(* bounds.                                                                 *)
(***************************************************************************)
EXTENDS HomeList, SequenceTheorems, FiniteSetTheorems, TLAPS

-----------------------------------------------------------------------------
(* Rows, cells and downloads.                                              *)

\* A function on 1 .. n is a sequence.
LEMMA FunctionIsSeq ==
    ASSUME NEW S, NEW n \in Nat, NEW f \in [1..n -> S]
    PROVE  f \in Seq(S) /\ Len(f) = n /\ DOMAIN f = 1..n
OBVIOUS

\* The lists of distinct cards that a load can bring.
LEMMA DistinctRows ==
    ASSUME NEW S \in SUBSET Uids, NEW rows \in SetToSeqs(S)
    PROVE  rows \in Seq(Uids) /\ IsInjective(rows)
<1>1. Cardinality(S) \in Nat
  <2>1. IsFiniteSet(S)
    BY HomeBounds, FS_Subset
  <2> QED
    BY <2>1, FS_CardinalityType
<1>2. /\ rows \in [1..Cardinality(S) -> S]
      /\ \A i, j \in 1..Cardinality(S) : i # j => rows[i] # rows[j]
  BY DEF SetToSeqs
<1>3. rows \in Seq(S) /\ DOMAIN rows = 1..Cardinality(S)
  BY <1>1, <1>2, FunctionIsSeq
<1>4. rows \in Seq(Uids)
  BY <1>3, SeqMonotonic
<1> QED
  BY <1>2, <1>3, <1>4 DEF IsInjective

\* The rows of a search are rows of the list.
LEMMA SelectedRows ==
    ASSUME NEW rows \in Seq(Uids), NEW D, NEW s \in Selected(rows, D)
    PROVE  s \in Seq(Uids) /\ IsInjective(s)
<1>1. ToSet(rows) \cap D \in SUBSET Uids
  BY ElementOfSeq, LenProperties DEF ToSet
<1> QED
  BY <1>1, DistinctRows DEF Selected

\* The list with a card that was not in it.
LEMMA AppendedRows ==
    ASSUME NEW rows \in Seq(Uids), IsInjective(rows), NEW u \in Uids, u \notin ToSet(rows)
    PROVE  Append(rows, u) \in Seq(Uids) /\ IsInjective(Append(rows, u))
<1>1. /\ Append(rows, u) \in Seq(Uids)
      /\ Len(Append(rows, u)) = Len(rows) + 1 /\ Len(rows) \in Nat
      /\ \A i \in 1..Len(rows) : Append(rows, u)[i] = rows[i]
      /\ Append(rows, u)[Len(rows) + 1] = u
  BY AppendProperties, LenProperties
<1>2. DOMAIN rows = 1..Len(rows) /\ DOMAIN Append(rows, u) = 1..(Len(rows) + 1)
  BY <1>1, LenProperties
<1>3. \A i \in 1..Len(rows) : rows[i] # u
  BY <1>2 DEF ToSet
<1>4. ASSUME NEW i \in 1..(Len(rows) + 1), NEW j \in 1..(Len(rows) + 1),
             Append(rows, u)[i] = Append(rows, u)[j]
      PROVE  i = j
  <2>1. CASE i \in 1..Len(rows) /\ j \in 1..Len(rows)
    BY <1>1, <1>2, <1>4, <2>1 DEF IsInjective
  <2>2. CASE i = Len(rows) + 1 \/ j = Len(rows) + 1
    BY <1>1, <1>3, <1>4, <2>2
  <2> QED
    BY <1>1, <2>1, <2>2
<1> QED
  BY <1>1, <1>2, <1>4 DEF IsInjective

\* A cell for each row.
LEMMA ConfiguredCells ==
    ASSUME NEW rows \in Seq(Uids), NEW g \in Gens,
           NEW im \in [Uids -> [Gens -> Picture \cup {None}]]
    PROVE  /\ Configured(rows, g, im) \in Seq(Cell)
           /\ Len(Configured(rows, g, im)) = Len(rows)
           /\ \A i \in 1..Len(rows) :
                /\ rows[i] \in Uids
                /\ Configured(rows, g, im)[i] = [card |-> rows[i], image |-> im[rows[i]][g]]
<1>1. Len(rows) \in Nat /\ \A i \in 1..Len(rows) : rows[i] \in Uids
  BY LenProperties, ElementOfSeq
<1>2. \A i \in 1..Len(rows) : [card |-> rows[i], image |-> im[rows[i]][g]] \in Cell
  BY <1>1 DEF Cell
<1>3. Configured(rows, g, im) \in [1..Len(rows) -> Cell]
  BY <1>2 DEF Configured
<1> QED
  BY <1>1, <1>3, FunctionIsSeq DEF Configured

\* Each download fetches what its object's URL says.
LEMMA AskedDownloads ==
    ASSUME NEW rows \in Seq(Uids), NEW g \in Gens,
           NEW ur \in [Uids -> [Gens -> Picture \cup {None}]]
    PROVE  /\ loadCardImages(rows, g, ur) \subseteq Download
           /\ \A d \in loadCardImages(rows, g, ur) : d.url = ur[d.card][g]
<1>1. Len(rows) \in Nat /\ \A i \in 1..Len(rows) : rows[i] \in Uids
  BY LenProperties, ElementOfSeq
<1> SUFFICES ASSUME NEW d \in loadCardImages(rows, g, ur)
             PROVE  d \in Download /\ d.url = ur[d.card][g]
  OBVIOUS
<1>2. PICK i \in 1..Len(rows) :
          /\ ur[rows[i]][g] # None
          /\ d = [row |-> i, card |-> rows[i], gen |-> g, url |-> ur[rows[i]][g]]
  BY DEF loadCardImages
<1>3. i \in Nat \ {0} /\ rows[i] \in Uids /\ ur[rows[i]][g] \in Picture
  BY <1>1, <1>2
<1> QED
  BY <1>2, <1>3 DEF Download

-----------------------------------------------------------------------------
(* The invariant, part by part.                                            *)

\* The lists.
ListType ==
    /\ loaded \in BOOLEAN /\ searching \in BOOLEAN
    /\ cards \in Seq(Uids) /\ filtered \in Seq(Uids)
    /\ IsInjective(cards) /\ IsInjective(filtered)
    /\ gen \in Gens /\ fgen \in Gens

\* The objects have pictures and URLs of their own cards.
ObjectsOwn ==
    /\ url \in [Uids -> [Gens -> Picture \cup {None}]]
    /\ image \in [Uids -> [Gens -> Picture \cup {None}]]
    /\ \A u \in Uids, g \in Gens : url[u][g] \in Of(u) /\ image[u][g] \in Of(u)

\* So have the cells and the downloads.
DisplayOwn ==
    /\ shifted \in BOOLEAN /\ cells \in Seq(Cell) /\ downloads \subseteq Download
    /\ \A i \in 1..Len(cells) : cells[i].image \in Of(cells[i].card)
    /\ \A d \in downloads : d.url \in Of(d.card)

\* So has the detail screen.
PushedOwn ==
    /\ screen \in {"home", "scanner", "detail"} /\ delegate \in BOOLEAN
    /\ detail \in Cell \cup {None}
    /\ (screen = "detail") = (detail # None)
    /\ detail # None => detail.image \in Of(detail.card)

\* There is one placeholder at most, on Home where the list is empty.
Proposed ==
    /\ placeholders \in Nat /\ held \in BOOLEAN
    /\ PlaceholderShown

\* Before the first load there is nothing to search, nothing to propose and no list for
\* the scanner to tell of a new card.
Unloaded == ~loaded => cards = <<>> /\ filtered = <<>> /\ ~held /\ ~delegate

HomeInv ==
    /\ ListType /\ ObjectsOwn /\ DisplayOwn /\ PushedOwn /\ Proposed /\ Unloaded
    /\ CellsTrue /\ loads \in 0..MaxLoads

\* The rows on display are distinct cards.
LEMMA RowsOnDisplay ==
    ASSUME ListType
    PROVE  Rows \in Seq(Uids) /\ IsInjective(Rows) /\ RowsGen \in Gens
<1>1. IsInjective(<<>>) /\ <<>> \in Seq(Uids)
  BY EmptySeq, LenProperties DEF IsInjective
<1> QED
  BY <1>1 DEF ListType, Rows, RowsGen

\* The cells of reloadData are those of the rows.
LEMMA ReloadedDisplay ==
    ASSUME ListType', ObjectsOwn', DisplayOwn, reloadData
    PROVE  DisplayOwn' /\ CellsTrue'
<1>1. (Rows \in Seq(Uids) /\ RowsGen \in Gens)'
  <2>1. <<>> \in Seq(Uids)
    BY EmptySeq
  <2> QED
    BY <2>1 DEF ListType, Rows, RowsGen
<1>2. /\ cells' = Configured(Rows', RowsGen', image')
      /\ downloads' = downloads \cup loadCardImages(Rows', RowsGen', url')
      /\ shifted' = FALSE
  BY DEF reloadData
<1>3. /\ image' \in [Uids -> [Gens -> Picture \cup {None}]]
      /\ url' \in [Uids -> [Gens -> Picture \cup {None}]]
      /\ \A u \in Uids, g \in Gens : url'[u][g] \in Of(u) /\ image'[u][g] \in Of(u)
  BY DEF ObjectsOwn, Of
<1>4. /\ cells' \in Seq(Cell) /\ Len(cells') = Len(Rows')
      /\ \A i \in 1..Len(Rows') :
            /\ Rows'[i] \in Uids
            /\ cells'[i] = [card |-> Rows'[i], image |-> image'[Rows'[i]][RowsGen']]
  BY <1>1, <1>2, <1>3, ConfiguredCells
<1>5. /\ loadCardImages(Rows', RowsGen', url') \subseteq Download
      /\ \A d \in loadCardImages(Rows', RowsGen', url') : d.url = url'[d.card][RowsGen']
  BY <1>1, <1>3, AskedDownloads
<1>6. ASSUME NEW i \in 1..Len(cells')
      PROVE  cells'[i].image \in Of(cells'[i].card)
  <2>1. i \in 1..Len(Rows')
    BY <1>4
  <2> DEFINE c == cells'[i]
             u == Rows'[i]
  <2>2. u \in Uids /\ c = [card |-> u, image |-> image'[u][RowsGen']]
    BY <1>4, <2>1
  <2>3. image'[u][RowsGen'] \in Of(u)
    BY <1>1, <1>3, <2>2
  <2> HIDE DEF c, u
  <2>4. c.image \in Of(c.card)
    BY <2>2, <2>3
  <2> QED
    BY <2>4 DEF c
<1>7. \A d \in downloads' : d \in Download /\ d.url \in Of(d.card)
  <2> SUFFICES ASSUME NEW d \in downloads' PROVE d \in Download /\ d.url \in Of(d.card)
    OBVIOUS
  <2>1. CASE d \in downloads
    BY <2>1 DEF DisplayOwn
  <2>2. CASE d \in loadCardImages(Rows', RowsGen', url')
    <3>1. d \in Download /\ d.url = url'[d.card][RowsGen']
      BY <1>5, <2>2
    <3>2. d.card \in Uids
      BY <3>1 DEF Download
    <3> QED
      BY <1>1, <1>3, <3>1, <3>2
  <2> QED
    BY <1>2, <2>1, <2>2
<1>8. DisplayOwn'
  BY <1>2, <1>4, <1>6, <1>7 DEF DisplayOwn
<1> QED
  BY <1>2, <1>8 DEF CellsTrue

\* Nothing on display changes.
LEMMA SameDisplay ==
    ASSUME DisplayOwn, CellsTrue, UNCHANGED display, UNCHANGED image,
           Rows' = Rows, RowsGen' = RowsGen
    PROVE  DisplayOwn' /\ CellsTrue'
BY DEF DisplayOwn, CellsTrue, display

\* The placeholder is there exactly if the list is empty.
LEMMA PlaceholderChecked ==
    ASSUME Proposed, checkIfPlaceholderViewNeeded
    PROVE  Proposed' /\ (held' <=> loaded' /\ cards' = <<>>)
<1>1. placeholders \in Nat /\ placeholders = IF held THEN 1 ELSE 0
  BY DEF Proposed, PlaceholderShown
<1>2. CASE loaded' /\ cards' = <<>> /\ ~held
  <2>1. placeholders' = 1 /\ held' = TRUE
    BY <1>1, <1>2 DEF checkIfPlaceholderViewNeeded, addCardPlaceholderView
  <2> QED
    BY <1>2, <2>1 DEF Proposed, PlaceholderShown
<1>3. CASE held /\ ~(loaded' /\ cards' = <<>>)
  <2>1. placeholders' = 0 /\ held' = FALSE
    BY <1>1, <1>3 DEF checkIfPlaceholderViewNeeded
  <2> QED
    BY <1>3, <2>1 DEF Proposed, PlaceholderShown
<1>4. CASE held <=> loaded' /\ cards' = <<>>
  <2>1. UNCHANGED <<placeholders, held>>
    BY <1>4 DEF checkIfPlaceholderViewNeeded, proposal
  <2> QED
    BY <1>4, <2>1 DEF Proposed, PlaceholderShown
<1> QED
  BY <1>2, <1>3, <1>4

\* Whoever returns to Home finds it so.
LEMMA Returned ==
    ASSUME Proposed, PushedOwn, Unloaded, Return, UNCHANGED loaded, loaded \in BOOLEAN
    PROVE  PushedOwn' /\ Proposed' /\ (~loaded' => ~held' /\ ~delegate')
<1>1. PushedOwn'
  BY DEF PushedOwn, Return
<1>2. CASE loaded
  BY <1>1, <1>2, PlaceholderChecked DEF Return, viewWillAppear
<1>3. CASE ~loaded
  <2>1. UNCHANGED <<placeholders, held>> /\ ~held /\ ~loaded' /\ ~delegate'
    BY <1>3 DEF Return, viewWillAppear, proposal, Unloaded
  <2>2. Proposed'
    BY <1>3, <2>1 DEF Proposed, PlaceholderShown
  <2> QED
    BY <1>1, <2>1, <2>2
<1> QED
  BY <1>2, <1>3

\* The placeholder stays as it is where no list is emptied or filled.
LEMMA SameProposal ==
    ASSUME Proposed, UNCHANGED proposal,
           (screen' = "home" => screen = "home" /\ UNCHANGED <<loaded, cards>>)
    PROVE  Proposed'
BY DEF Proposed, PlaceholderShown, proposal

-----------------------------------------------------------------------------
(* The steps.                                                              *)

\* A load replaces the rows, and gives each object the URL of its own card.
LEMMA ReplaceKeeps ==
    ASSUME HomeInv, NEW S \in SUBSET Uids, NEW g \in Gens, NEW rows \in SetToSeqs(S),
           NEW ur \in [Uids -> Picture \cup {None}],
           \A u \in Uids : ur[u] \in IF u \in S THEN Of(u) ELSE {None},
           Replace(rows, g, ur)
    PROVE  /\ ListType' /\ ObjectsOwn' /\ PushedOwn' /\ loads' \in 0..MaxLoads
           /\ loaded' = TRUE /\ cards' = rows /\ screen' = screen
<1>1. /\ loads > 0 /\ loads' = loads - 1 /\ loaded' = TRUE /\ cards' = rows /\ gen' = g
      /\ UNCHANGED <<filtered, fgen, searching, screen, delegate, detail>>
  BY DEF Replace, pushed
<1>2. /\ url' = [u \in Uids |-> [h \in Gens |->
                   IF h = g THEN ur[u] ELSE IF h \in Used THEN url[u][h] ELSE None]]
      /\ image' = [u \in Uids |-> [h \in Gens |->
                     IF h \in Used THEN image[u][h] ELSE None]]
  BY DEF Replace
<1>3. rows \in Seq(Uids) /\ IsInjective(rows)
  BY DistinctRows
<1>4. loaded' \in BOOLEAN
  BY DEF Replace
<1>5. ListType'
  BY <1>1, <1>3, <1>4 DEF HomeInv, ListType
<1>6. \A u \in Uids : ur[u] \in Of(u) /\ None \in Of(u)
  BY DEF Of
<1>7. /\ \A u \in Uids, h \in Gens : url[u][h] \in Of(u) /\ image[u][h] \in Of(u)
      /\ \A u \in Uids : Of(u) \subseteq Picture \cup {None}
  BY DEF HomeInv, ObjectsOwn, Of, Picture
<1>8. \A u \in Uids, h \in Gens : url'[u][h] \in Of(u) /\ image'[u][h] \in Of(u)
  BY <1>2, <1>6, <1>7
<1>9. /\ \A u \in Uids, h \in Gens :
            /\ (IF h = g THEN ur[u] ELSE IF h \in Used THEN url[u][h] ELSE None)
                  \in Picture \cup {None}
            /\ (IF h \in Used THEN image[u][h] ELSE None) \in Picture \cup {None}
  BY <1>6, <1>7
<1>10. ObjectsOwn'
  BY <1>2, <1>8, <1>9 DEF ObjectsOwn, Of
<1>11. PushedOwn'
  BY <1>1 DEF HomeInv, PushedOwn
<1>12. loads' \in 0..MaxLoads
  BY <1>1, HomeBounds DEF HomeInv
<1> QED
  BY <1>1, <1>5, <1>10, <1>11, <1>12

\* The first load, with an empty list or not.
LEMMA FirstLoadKeeps ==
    ASSUME HomeInv, NEW S \in SUBSET Uids, NEW g \in Gens, NEW rows \in SetToSeqs(S),
           NEW ur \in [Uids -> Picture \cup {None}],
           \A u \in Uids : ur[u] \in IF u \in S THEN Of(u) ELSE {None},
           FirstLoad(rows, g, ur)
    PROVE  HomeInv'
<1>1. /\ ListType' /\ ObjectsOwn' /\ PushedOwn' /\ loads' \in 0..MaxLoads
      /\ loaded' = TRUE /\ cards' = rows /\ ~loaded
  BY ReplaceKeeps DEF FirstLoad
<1>2. Unloaded'
  BY <1>1 DEF Unloaded
<1>3. placeholders = 0 /\ ~held /\ filtered = <<>>
  BY <1>1 DEF HomeInv, Unloaded, Proposed, PlaceholderShown
<1>4. CASE rows = <<>>
  <2>1. placeholders' = 1 /\ held' = TRUE
    BY <1>3, <1>4 DEF FirstLoad, addCardPlaceholderView
  <2>2. Proposed'
    BY <1>1, <1>4, <2>1 DEF Proposed, PlaceholderShown
  <2>3. UNCHANGED display /\ filtered' = <<>>
    BY <1>3, <1>4 DEF FirstLoad, Replace
  <2>4. Rows = <<>> /\ Rows' = <<>>
    BY <1>1, <1>4, <2>3 DEF Rows
  <2>5. Configured(Rows, RowsGen, image) = Configured(Rows', RowsGen', image')
    BY <2>4 DEF Configured
  <2>6. DisplayOwn' /\ CellsTrue'
    BY <2>3, <2>5 DEF HomeInv, DisplayOwn, CellsTrue, display
  <2> QED
    BY <1>1, <1>2, <2>2, <2>6 DEF HomeInv
<1>5. CASE rows # <<>>
  <2>1. reloadData /\ UNCHANGED proposal
    BY <1>5 DEF FirstLoad
  <2>2. DisplayOwn' /\ CellsTrue'
    BY <1>1, <2>1, ReloadedDisplay DEF HomeInv
  <2>3. Proposed'
    BY <1>1, <1>3, <1>5, <2>1 DEF HomeInv, Proposed, PlaceholderShown, proposal
  <2> QED
    BY <1>1, <1>2, <2>2, <2>3 DEF HomeInv
<1> QED
  BY <1>4, <1>5

\* A reload.
LEMMA ReloadKeeps ==
    ASSUME HomeInv, NEW S \in SUBSET Uids, NEW g \in Gens, NEW rows \in SetToSeqs(S),
           NEW ur \in [Uids -> Picture \cup {None}],
           \A u \in Uids : ur[u] \in IF u \in S THEN Of(u) ELSE {None},
           Reload(rows, g, ur)
    PROVE  HomeInv'
<1>1. /\ ListType' /\ ObjectsOwn' /\ PushedOwn' /\ loads' \in 0..MaxLoads
      /\ loaded' = TRUE /\ cards' = rows
  BY ReplaceKeeps DEF Reload
<1>2. Unloaded'
  BY <1>1 DEF Unloaded
<1>3. Proposed'
  BY PlaceholderChecked DEF HomeInv, Reload
<1>4. DisplayOwn' /\ CellsTrue'
  BY <1>1, ReloadedDisplay DEF HomeInv, Reload
<1> QED
  BY <1>1, <1>2, <1>3, <1>4 DEF HomeInv

\* A search and its end.
LEMMA SearchKeeps ==
    ASSUME HomeInv, (\E D : Search(D)) \/ EndSearch
    PROVE  HomeInv'
<1>1. /\ screen = "home" /\ searching' \in BOOLEAN
      /\ UNCHANGED <<loads, pushed, proposal>>
      /\ UNCHANGED <<loaded, cards, gen, objects>>
  BY DEF Search, EndSearch
<1>2. PushedOwn' /\ loads' \in 0..MaxLoads
  BY <1>1 DEF HomeInv, PushedOwn, pushed
<1>3. Proposed'
  BY <1>1, SameProposal DEF HomeInv
<1>4. ObjectsOwn'
  BY <1>1 DEF HomeInv, ObjectsOwn, objects
<1>5. CASE loaded
  <2>1. fgen' = gen /\ filtered' \in Seq(Uids) /\ IsInjective(filtered') /\ reloadData
    <3>1. CASE EndSearch
      BY <1>5, <3>1 DEF EndSearch, HomeInv, ListType
    <3>2. ASSUME NEW D, Search(D)
          PROVE  fgen' = gen /\ filtered' \in Seq(Uids) /\ IsInjective(filtered')
                 /\ reloadData
      <4>1. filtered' \in Selected(cards, D) /\ fgen' = gen /\ reloadData
        BY <1>5, <3>2 DEF Search
      <4> QED
        BY <4>1, SelectedRows DEF HomeInv, ListType
    <3> QED
      BY <3>1, <3>2
  <2>2. ListType'
    BY <1>1, <2>1 DEF HomeInv, ListType
  <2>3. DisplayOwn' /\ CellsTrue'
    BY <1>4, <2>1, <2>2, ReloadedDisplay DEF HomeInv
  <2>4. Unloaded'
    BY <1>1, <1>5 DEF Unloaded
  <2> QED
    BY <1>2, <1>3, <1>4, <2>2, <2>3, <2>4 DEF HomeInv
<1>6. CASE ~loaded
  <2>1. UNCHANGED <<filtered, fgen, display>>
    BY <1>6 DEF Search, EndSearch
  <2>2. ListType'
    BY <1>1, <2>1 DEF HomeInv, ListType
  <2>3. Rows = <<>> /\ Rows' = <<>>
    BY <1>1, <1>6 DEF Rows
  <2>4. Configured(Rows, RowsGen, image) = Configured(Rows', RowsGen', image')
    BY <2>3 DEF Configured
  <2>5. DisplayOwn' /\ CellsTrue'
    BY <2>1, <2>4 DEF HomeInv, DisplayOwn, CellsTrue, display
  <2>6. Unloaded'
    BY <1>1, <2>1 DEF HomeInv, Unloaded, proposal, pushed
  <2> QED
    BY <1>2, <1>3, <1>4, <2>2, <2>5, <2>6 DEF HomeInv
<1> QED
  BY <1>5, <1>6

\* A download that ends in the row of its object changes its cell alone.
LEMMA DownloadKeeps ==
    ASSUME HomeInv, NEW d \in downloads, ImageLoaded(d) \/ ImageFailed(d)
    PROVE  HomeInv'
<1>1. /\ UNCHANGED <<list, url, loads, pushed, proposal>> /\ downloads' \subseteq downloads
  BY DEF ImageLoaded, ImageFailed, objects
<1>2. /\ ListType' /\ PushedOwn' /\ Unloaded' /\ loads' \in 0..MaxLoads
      /\ Rows' = Rows /\ RowsGen' = RowsGen
  BY <1>1 DEF HomeInv, ListType, PushedOwn, Unloaded, list, pushed, proposal, Rows, RowsGen
<1>3. Proposed'
  BY <1>1, SameProposal DEF HomeInv, list, pushed
<1>4. /\ d \in Download /\ d.row \in Nat \ {0} /\ d.card \in Uids /\ d.gen \in Gens
      /\ d.url \in Picture /\ d.url \in Of(d.card)
  BY DEF HomeInv, DisplayOwn, Download
<1>5. CASE ImageFailed(d)
  <2>1. UNCHANGED <<objects, cells, shifted>>
    BY <1>5 DEF ImageFailed
  <2>2. ObjectsOwn'
    BY <2>1 DEF HomeInv, ObjectsOwn, objects
  <2>3. DisplayOwn' /\ CellsTrue'
    BY <1>1, <1>2, <2>1 DEF HomeInv, DisplayOwn, CellsTrue, objects
  <2> QED
    BY <1>2, <1>3, <2>2, <2>3 DEF HomeInv
<1>6. CASE ImageLoaded(d)
  <2>1. /\ image' = [image EXCEPT ![d.card][d.gen] = d.url]
        /\ cells' = IF d.row <= Len(cells)
                    THEN [cells EXCEPT ![d.row] = [card |-> d.card, image |-> d.url]]
                    ELSE cells
        /\ shifted' = (shifted \/ ~InPlace(d))
    BY <1>6 DEF ImageLoaded, Ends
  <2>2. image \in [Uids -> [Gens -> Picture \cup {None}]]
    BY DEF HomeInv, ObjectsOwn
  <2>3. /\ image' \in [Uids -> [Gens -> Picture \cup {None}]]
        /\ \A u \in Uids, g \in Gens :
              image'[u][g] = IF u = d.card /\ g = d.gen THEN d.url ELSE image[u][g]
    BY <1>4, <2>1, <2>2
  <2>4. ObjectsOwn'
    BY <1>1, <1>4, <2>3 DEF HomeInv, ObjectsOwn, Of
  <2>5. cells \in Seq(Cell) /\ Len(cells) \in Nat
    BY LenProperties DEF HomeInv, DisplayOwn
  <2>6. [card |-> d.card, image |-> d.url] \in Cell
    BY <1>4 DEF Cell
  <2>7. /\ cells' \in Seq(Cell) /\ Len(cells') = Len(cells)
        /\ \A i \in 1..Len(cells) : cells'[i] = IF i = d.row
                                                THEN [card |-> d.card, image |-> d.url]
                                                ELSE cells[i]
    <3>1. CASE d.row <= Len(cells)
      <4>1. d.row \in 1..Len(cells)
        BY <1>4, <2>5, <3>1
      <4> QED
        BY <2>1, <2>5, <2>6, <3>1, <4>1, ExceptSeq
    <3>2. CASE ~(d.row <= Len(cells))
      BY <1>4, <2>1, <2>5, <3>2
    <3> QED
      BY <3>1, <3>2
  <2>8. DisplayOwn'
    <3>1. shifted' \in BOOLEAN
      BY <2>1 DEF HomeInv, DisplayOwn, InPlace
    <3>2. ASSUME NEW i \in 1..Len(cells')
          PROVE  cells'[i].image \in Of(cells'[i].card)
      <4>1. CASE i = d.row
        BY <1>4, <2>7, <3>2, <4>1
      <4>2. CASE i # d.row
        BY <2>7, <3>2, <4>2 DEF HomeInv, DisplayOwn
      <4> QED
        BY <4>1, <4>2
    <3> QED
      BY <1>1, <2>7, <3>1, <3>2 DEF HomeInv, DisplayOwn
  <2>9. CellsTrue'
    <3> SUFFICES ASSUME ~shifted' PROVE cells' = Configured(Rows', RowsGen', image')
      BY DEF CellsTrue
    <3>1. InPlace(d) /\ cells = Configured(Rows, RowsGen, image)
      BY <2>1 DEF HomeInv, CellsTrue
    <3>2. Rows \in Seq(Uids) /\ IsInjective(Rows) /\ RowsGen \in Gens
      BY RowsOnDisplay DEF HomeInv
    <3>3. /\ Len(cells) = Len(Rows)
          /\ \A i \in 1..Len(Rows) :
                /\ Rows[i] \in Uids
                /\ cells[i] = [card |-> Rows[i], image |-> image[Rows[i]][RowsGen]]
      BY <2>2, <3>1, <3>2, ConfiguredCells
    <3>4. /\ Configured(Rows, RowsGen, image') \in Seq(Cell)
          /\ Len(Configured(Rows, RowsGen, image')) = Len(Rows)
          /\ \A i \in 1..Len(Rows) :
                Configured(Rows, RowsGen, image')[i]
                  = [card |-> Rows[i], image |-> image'[Rows[i]][RowsGen]]
      BY <2>3, <3>2, ConfiguredCells
    <3>5. /\ d.row \in 1..Len(Rows) /\ Rows[d.row] = d.card /\ RowsGen = d.gen
          /\ \A i \in 1..Len(Rows) : Rows[i] = d.card => i = d.row
      <4>1. d.row \in 1..Len(Rows) /\ Rows[d.row] = d.card /\ RowsGen = d.gen
        BY <1>4, <2>5, <3>1, <3>3 DEF InPlace
      <4>2. DOMAIN Rows = 1..Len(Rows)
        BY <3>2, LenProperties
      <4> QED
        BY <3>2, <4>1, <4>2 DEF IsInjective
    <3>6. ASSUME NEW i \in 1..Len(Rows)
          PROVE  cells'[i] = Configured(Rows, RowsGen, image')[i]
      <4>1. CASE i = d.row
        <5>1. image'[Rows[i]][RowsGen] = d.url /\ Rows[i] = d.card
          BY <1>4, <2>3, <3>5, <4>1
        <5>2. cells'[i] = [card |-> d.card, image |-> d.url]
          BY <2>7, <3>3, <4>1
        <5> QED
          BY <3>4, <5>1, <5>2
      <4>2. CASE i # d.row
        <5>1. image'[Rows[i]][RowsGen] = image[Rows[i]][RowsGen]
          BY <2>3, <3>2, <3>3, <3>5, <4>2
        <5>2. cells'[i] = cells[i]
          BY <2>7, <3>3, <4>2
        <5> QED
          BY <3>3, <3>4, <5>1, <5>2
      <4> QED
        BY <4>1, <4>2
    <3> QED
      BY <1>2, <2>7, <3>3, <3>4, <3>6, SeqEqual
  <2> QED
    BY <1>2, <1>3, <2>4, <2>8, <2>9 DEF HomeInv
<1> QED
  BY <1>5, <1>6

\* The scanner and the detail screen are pushed over Home.
LEMMA PushKeeps ==
    ASSUME HomeInv, OpenScanner \/ \E i \in 1..Len(cells) : OpenDetail(i)
    PROVE  HomeInv'
<1>1. /\ UNCHANGED <<list, objects, display, loads, proposal>>
      /\ screen' # "home" /\ screen = "home"
  BY DEF OpenScanner, OpenDetail
<1>2. /\ ListType' /\ ObjectsOwn' /\ loads' \in 0..MaxLoads
      /\ Rows' = Rows /\ RowsGen' = RowsGen /\ image' = image
  BY <1>1 DEF HomeInv, ListType, ObjectsOwn, list, objects, Rows, RowsGen
<1>3. Proposed'
  BY <1>1, SameProposal DEF HomeInv
<1>4. DisplayOwn' /\ CellsTrue'
  BY <1>1, <1>2, SameDisplay DEF HomeInv
<1>5. PushedOwn'
  <2>1. CASE OpenScanner
    <3>1. screen' = "scanner" /\ detail' = detail /\ delegate' \in BOOLEAN
      BY <2>1 DEF OpenScanner, HomeInv, ListType
    <3> QED
      BY <1>1, <3>1 DEF HomeInv, PushedOwn
  <2>2. ASSUME NEW i \in 1..Len(cells), OpenDetail(i)
        PROVE  PushedOwn'
    <3>1. /\ screen' = "detail" /\ delegate' = delegate /\ i <= Len(Rows)
          /\ detail' = [card |-> Rows[i], image |-> image[Rows[i]][RowsGen]]
      BY <2>2 DEF OpenDetail
    <3>2. Rows \in Seq(Uids) /\ RowsGen \in Gens
      BY RowsOnDisplay DEF HomeInv
    <3>3. i \in 1..Len(Rows)
      BY <3>1, <3>2, LenProperties DEF HomeInv, DisplayOwn
    <3>4. Rows[i] \in Uids
      BY <3>2, <3>3, ElementOfSeq
    <3>5. /\ image[Rows[i]][RowsGen] \in Of(Rows[i])
          /\ image[Rows[i]][RowsGen] \in Picture \cup {None}
      BY <3>2, <3>4 DEF HomeInv, ObjectsOwn
    <3>6. detail' \in Cell /\ detail'.image \in Of(detail'.card)
      BY <3>1, <3>4, <3>5 DEF Cell
    <3>7. detail' # None
      BY <3>6, HomeNone
    <3> QED
      BY <3>1, <3>6, <3>7 DEF HomeInv, PushedOwn
  <2> QED
    BY <2>1, <2>2
<1>6. Unloaded'
  <2>1. ~loaded => ~delegate'
    BY DEF OpenScanner, OpenDetail, HomeInv, Unloaded
  <2> QED
    BY <1>1, <2>1 DEF HomeInv, Unloaded, list, proposal
<1> QED
  BY <1>1, <1>2, <1>3, <1>4, <1>5, <1>6 DEF HomeInv

\* Back from them, and the removal, which is a load to come.
LEMMA ReturnKeeps ==
    ASSUME HomeInv, Back \/ DeleteCard
    PROVE  HomeInv'
<1>1. UNCHANGED <<list, objects, display>> /\ Return /\ loads' \in 0..MaxLoads
  BY HomeBounds DEF Back, DeleteCard, HomeInv
<1>2. /\ ListType' /\ ObjectsOwn' /\ UNCHANGED loaded /\ loaded \in BOOLEAN
      /\ Rows' = Rows /\ RowsGen' = RowsGen /\ image' = image
  BY <1>1 DEF HomeInv, ListType, ObjectsOwn, list, objects, Rows, RowsGen
<1>3. PushedOwn' /\ Proposed' /\ (~loaded' => ~held' /\ ~delegate')
  BY <1>1, <1>2, Returned DEF HomeInv
<1>4. DisplayOwn' /\ CellsTrue'
  BY <1>1, <1>2, SameDisplay DEF HomeInv
<1>5. Unloaded'
  BY <1>1, <1>3 DEF HomeInv, Unloaded, list
<1> QED
  BY <1>1, <1>2, <1>3, <1>4, <1>5 DEF HomeInv

\* The new card has no picture yet.
LEMMA SaveCardKeeps ==
    ASSUME HomeInv, NEW u \in Uids, SaveCard(u)
    PROVE  HomeInv'
<1>1. Return /\ loads' = loads /\ New(u)
  BY DEF SaveCard
<1>2. UNCHANGED <<loaded, gen, filtered, fgen, searching>> /\ loaded \in BOOLEAN
  BY DEF SaveCard, HomeInv, ListType, list
<1>3. PushedOwn' /\ Proposed' /\ (~loaded' => ~held' /\ ~delegate')
  BY <1>1, <1>2, Returned DEF HomeInv
<1>4. CASE delegate
  <2>1. /\ cards' = Append(cards, u) /\ reloadData
        /\ url' = [url EXCEPT ![u][gen] = None] /\ image' = [image EXCEPT ![u][gen] = None]
    BY <1>4 DEF SaveCard
  <2>2. cards' \in Seq(Uids) /\ IsInjective(cards')
    BY <1>1, <2>1, AppendedRows DEF New, HomeInv, ListType
  <2>3. ListType'
    BY <1>2, <2>2 DEF HomeInv, ListType
  <2>4. ObjectsOwn'
    BY <2>1 DEF HomeInv, ObjectsOwn, Of
  <2>5. DisplayOwn' /\ CellsTrue'
    BY <2>1, <2>3, <2>4, ReloadedDisplay DEF HomeInv
  <2>6. Unloaded'
    BY <1>2, <1>4 DEF HomeInv, Unloaded
  <2> QED
    BY <1>1, <1>3, <2>3, <2>4, <2>5, <2>6 DEF HomeInv
<1>5. CASE ~delegate
  <2>1. UNCHANGED <<list, objects, display>>
    BY <1>5 DEF SaveCard
  <2>2. /\ ListType' /\ ObjectsOwn'
        /\ Rows' = Rows /\ RowsGen' = RowsGen /\ image' = image
    BY <2>1 DEF HomeInv, ListType, ObjectsOwn, list, objects, Rows, RowsGen
  <2>3. DisplayOwn' /\ CellsTrue'
    BY <2>1, <2>2, SameDisplay DEF HomeInv
  <2>4. Unloaded'
    BY <1>3, <2>1 DEF HomeInv, Unloaded, list
  <2> QED
    BY <1>1, <1>3, <2>2, <2>3, <2>4 DEF HomeInv
<1> QED
  BY <1>4, <1>5

\* An edit writes to the object of cards, if there is one.
LEMMA EditKeeps ==
    ASSUME HomeInv, SaveNotes \/ \E p \in Picture \cup {None} : SaveEdit(p)
    PROVE  HomeInv'
<1>1. /\ UNCHANGED <<list, loads, screen, delegate, proposal>> /\ reloadData
      /\ screen = "detail"
  BY DEF SaveNotes, SaveEdit, pushed
<1>2. ListType' /\ Unloaded' /\ loads' \in 0..MaxLoads
  BY <1>1 DEF HomeInv, ListType, Unloaded, list, proposal
<1>3. Proposed'
  BY <1>1, SameProposal DEF HomeInv
<1>4. ObjectsOwn' /\ PushedOwn'
  <2>1. CASE SaveNotes
    BY <2>1 DEF SaveNotes, HomeInv, ObjectsOwn, PushedOwn, objects, pushed
  <2>2. ASSUME NEW p \in Picture \cup {None}, SaveEdit(p)
        PROVE  ObjectsOwn' /\ PushedOwn'
    <3>1. /\ detail \in Cell /\ detail.card \in Uids /\ detail.image \in Of(detail.card)
          /\ detail # None
      BY <1>1 DEF HomeInv, PushedOwn, Cell
    <3>2. p \in Of(detail.card) /\ detail' = [detail EXCEPT !.image = p]
      BY <2>2, <3>1 DEF SaveEdit, Of
    <3>3. /\ detail' \in Cell /\ detail'.card = detail.card /\ detail'.image = p
      BY <3>1, <3>2 DEF Cell
    <3>4. detail' # None
      BY <3>3, HomeNone
    <3>5. PushedOwn'
      BY <1>1, <3>1, <3>2, <3>3, <3>4 DEF HomeInv, PushedOwn
    <3>6. /\ gen \in Gens /\ image \in [Uids -> [Gens -> Picture \cup {None}]]
          /\ url \in [Uids -> [Gens -> Picture \cup {None}]]
      BY DEF HomeInv, ListType, ObjectsOwn
    <3>7. ObjectsOwn'
      <4>1. CASE detail.card \in ToSet(cards)
        <5>1. /\ image' = [image EXCEPT ![detail.card][gen] = p]
              /\ url' = [url EXCEPT ![detail.card][gen] = None]
          BY <2>2, <4>1 DEF SaveEdit
        <5>2. \A u \in Uids, g \in Gens :
                 /\ image'[u][g] = IF u = detail.card /\ g = gen THEN p ELSE image[u][g]
                 /\ url'[u][g] = IF u = detail.card /\ g = gen THEN None ELSE url[u][g]
          BY <3>1, <3>6, <5>1
        <5>3. /\ image' \in [Uids -> [Gens -> Picture \cup {None}]]
              /\ url' \in [Uids -> [Gens -> Picture \cup {None}]]
          BY <3>1, <3>6, <5>1
        <5>4. \A u \in Uids : None \in Of(u)
          BY DEF Of
        <5>5. \A u \in Uids, g \in Gens : url'[u][g] \in Of(u) /\ image'[u][g] \in Of(u)
          BY <3>1, <3>2, <5>2, <5>4 DEF HomeInv, ObjectsOwn
        <5> QED
          BY <5>3, <5>5 DEF ObjectsOwn
      <4>2. CASE detail.card \notin ToSet(cards)
        BY <2>2, <4>2 DEF SaveEdit, HomeInv, ObjectsOwn, objects
      <4> QED
        BY <4>1, <4>2
    <3> QED
      BY <3>5, <3>7
  <2> QED
    BY <2>1, <2>2
<1>5. DisplayOwn' /\ CellsTrue'
  BY <1>1, <1>2, <1>4, ReloadedDisplay DEF HomeInv
<1> QED
  BY <1>2, <1>3, <1>4, <1>5 DEF HomeInv

-----------------------------------------------------------------------------
(* The theorems.                                                           *)

(* The strengthening of the properties of Home's list holds always.        *)
LEMMA HomeInvariant == Spec => []HomeInv
<1>1. Init => HomeInv
  <2> SUFFICES ASSUME Init PROVE HomeInv
    OBVIOUS
  <2>1. <<>> \in Seq(Uids) /\ IsInjective(<<>>) /\ <<>> \in Seq(Cell) /\ Len(<<>>) = 0
    BY EmptySeq, LenProperties DEF IsInjective
  <2>2. loaded \in BOOLEAN /\ searching \in BOOLEAN /\ shifted \in BOOLEAN
        /\ delegate \in BOOLEAN /\ held \in BOOLEAN /\ ~loaded /\ ~held /\ ~delegate
    BY DEF Init
  <2>3. ListType
    BY <2>1, <2>2 DEF Init, ListType
  <2>4. ObjectsOwn
    BY DEF Init, ObjectsOwn, Of
  <2>5. DisplayOwn
    BY <2>1, <2>2 DEF Init, DisplayOwn
  <2>6. PushedOwn
    BY <2>2 DEF Init, PushedOwn
  <2>7. Proposed
    BY <2>2 DEF Init, Proposed, PlaceholderShown
  <2>8. Unloaded /\ loads \in 0..MaxLoads
    BY <2>2, HomeBounds DEF Init, Unloaded
  <2>9. CellsTrue
    <3>1. cells = <<>> /\ Rows = <<>>
      BY DEF Init, Rows
    <3>2. Configured(Rows, RowsGen, image) = [i \in {} |-> 0]
      BY <2>1, <3>1 DEF Configured
    <3>3. <<>> = [i \in {} |-> 0]
      OBVIOUS
    <3> QED
      BY <3>1, <3>2, <3>3 DEF CellsTrue
  <2> QED
    BY <2>3, <2>4, <2>5, <2>6, <2>7, <2>8, <2>9 DEF HomeInv
<1>2. HomeInv /\ [Next]_vars => HomeInv'
  <2> SUFFICES ASSUME HomeInv, [Next]_vars PROVE HomeInv'
    OBVIOUS
  <2>1. CASE UNCHANGED vars
    <3>1. UNCHANGED <<list, objects, display, loads, pushed, proposal>>
      BY <2>1 DEF vars
    <3>2. ListType' /\ Unloaded' /\ loads' \in 0..MaxLoads
      BY <3>1 DEF HomeInv, ListType, Unloaded, list, proposal, pushed
    <3>3. ObjectsOwn' /\ PushedOwn'
      BY <3>1 DEF HomeInv, ObjectsOwn, PushedOwn, objects, pushed
    <3>4. Proposed'
      BY <3>1, SameProposal DEF HomeInv, list, pushed
    <3>5. DisplayOwn' /\ CellsTrue'
      BY <3>1, SameDisplay DEF HomeInv, list, objects, Rows, RowsGen
    <3> QED
      BY <3>2, <3>3, <3>4, <3>5 DEF HomeInv
  <2>2. ASSUME NEW S \in SUBSET Uids, NEW g \in Gens \ Used, NEW rows \in SetToSeqs(S),
               NEW ur \in [Uids -> Picture \cup {None}],
               \A u \in Uids : ur[u] \in IF u \in S THEN Of(u) ELSE {None},
               FirstLoad(rows, g, ur) \/ Reload(rows, g, ur)
        PROVE  HomeInv'
    BY <2>2, FirstLoadKeeps, ReloadKeeps
  <2>3. ASSUME NEW u \in Uids, SaveCard(u) PROVE HomeInv'
    BY <2>3, SaveCardKeeps
  <2>4. ASSUME NEW d \in downloads, ImageLoaded(d) \/ ImageFailed(d) PROVE HomeInv'
    BY <2>4, DownloadKeeps
  <2> QED
    BY <2>1, <2>2, <2>3, <2>4, SearchKeeps, PushKeeps, ReturnKeeps, EditKeeps DEF Next
<1> QED
  BY <1>1, <1>2, PTL DEF Spec

\* No reload, search, edit or late download brings a card's picture to the object, the
\* cell or the detail screen of another card.
THEOREM PicturesStayWithCards == Spec => []OwnPicture
<1>1. HomeInv => OwnPicture
  BY DEF HomeInv, ObjectsOwn, DisplayOwn, PushedOwn, OwnPicture
<1> QED
  BY <1>1, HomeInvariant, PTL

\* The cells are those of the rows on display, except between a download that ended in a
\* row that was not its card's any more and the next reloadData.
THEOREM CellsShowRows == Spec => []CellsTrue
<1>1. HomeInv => CellsTrue
  BY DEF HomeInv
<1> QED
  BY <1>1, HomeInvariant, PTL

\* The types, and the placeholder: on Home it is there exactly when the list has come and
\* is empty, and only once.
THEOREM HomeStaysConsistent == Spec => []HomeConsistent
<1>1. HomeInv => HomeConsistent
  BY DEF HomeInv, ListType, ObjectsOwn, DisplayOwn, PushedOwn, Proposed, HomeConsistent,
         TypeOK
<1> QED
  BY <1>1, HomeInvariant, PTL
=============================================================================
