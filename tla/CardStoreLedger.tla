--------------------------- MODULE CardStoreLedger ---------------------------
(* CardStore implements CardLedger: the mapping of its state.              *)
EXTENDS CardStore

\* The entry an account's record stands for.
Entry(r) == [data |-> r.data, image |-> r.url, notes |-> r.notes]

\* What became of an edit, by the state of its upload.
EditState ==
    [unused |-> "free", putting |-> "pending", stored |-> "pending",
     done |-> "applied", lost |-> "dropped"]

\* The edit the upload x belongs to.
Edit(x) ==
    [state |-> EditState[uploads[x].st],
     uid |-> IF uploads[x].st = "unused" THEN None ELSE uploads[x].uid,
     data |-> uploads[x].data]

Promise == INSTANCE CardLedger WITH
    Edits <- Urls,
    ledger <- [a \in Accounts |-> [u \in Uids |-> Entry(db[a][u])]],
    edits <- [x \in Urls |-> Edit(x)],
    issued <- {u \in Uids : creator[u] # None}

\* Whatever the screens, lists, pictures, kills and sign-ins do, the database
\* only changes as the ledger may: one entry of the signed-in user at a time,
\* each edit whole and at most once, no key for two cards.
Ledger == Promise!Spec
=============================================================================
