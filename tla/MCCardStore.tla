----------------------------- MODULE MCCardStore -----------------------------
(* Constants of the model-checked instances of CardStore.                  *)
EXTENDS CardStoreLedger, CardStoreSession, TLC

CONSTANTS alice, bob, u1, u2, d1, d2, note, x1, x2

Alice == {alice}
AliceAndBob == {alice, bob}
OneUid == {u1}
TwoUids == {u1, u2}
OneContent == {d1}
TwoContents == {d1, d2}
OneNote == {note}
OneUrl == {x1}
TwoUrls == {x1, x2}

\* Bound of the two-account run: nobody uses the search field.
NoSearch == search = "off"

Symmetry == Permutations(Accounts) \cup Permutations(Uids) \cup
            Permutations(Urls) \cup Permutations(Contents)
=============================================================================
