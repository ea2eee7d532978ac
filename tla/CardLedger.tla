----------------------------- MODULE CardLedger -----------------------------
(***************************************************************************)
(* What the card store of CardGuru promises, without screens, lists,       *)
(* pictures or loads: one ledger of cards per account, of which only the   *)
(* signed-in user's ever changes; a key is given to one card only; and an  *)
(* edit is taken on at once, applied later, whole and at most once, or     *)
(* dropped.  CardStore implements it (see Ledger in CardStoreLedger).      *)
(***************************************************************************)
CONSTANTS Accounts, Uids, Contents, Notes, Edits, None

VARIABLES
    user,     \* the signed-in user
    ledger,   \* the cards of each account
    edits,    \* what became of each edit
    issued    \* the keys given to cards

vars == <<user, ledger, edits, issued>>

NoEntry == [data |-> None, image |-> None, notes |-> None]
NoEdit == [state |-> "free", uid |-> None, data |-> None]

Init ==
    /\ user = None
    /\ ledger = [a \in Accounts |-> [u \in Uids |-> NoEntry]]
    /\ edits = [e \in Edits |-> NoEdit]
    /\ issued = {}

SignIn(a) ==
    /\ user' = a
    /\ UNCHANGED <<ledger, edits, issued>>

\* The signed-in user's entry for u becomes r.
Enter(u, r) ==
    /\ user \in Accounts
    /\ ledger' = [ledger EXCEPT ![user][u] = r]
    /\ UNCHANGED user

Create(u, d) ==
    /\ u \notin issued
    /\ issued' = issued \cup {u}
    /\ Enter(u, [data |-> d, image |-> None, notes |-> None])
    /\ UNCHANGED edits

Annotate(u, n) ==
    /\ u \in issued
    /\ Enter(u, [ledger[user][u] EXCEPT !.notes = n])
    /\ UNCHANGED <<edits, issued>>

Remove(u) ==
    /\ u \in issued
    /\ Enter(u, NoEntry)
    /\ UNCHANGED <<edits, issued>>

Propose(e, u, d) ==
    /\ u \in issued
    /\ edits[e].state = "free"
    /\ edits' = [edits EXCEPT ![e] = [state |-> "pending", uid |-> u, data |-> d]]
    /\ UNCHANGED <<user, ledger, issued>>

\* Contents and picture of the edit are entered together, the notes stay.
Apply(e) ==
    /\ edits[e].state = "pending"
    /\ edits' = [edits EXCEPT ![e].state = "applied"]
    /\ Enter(edits[e].uid, [data |-> edits[e].data, image |-> e,
                            notes |-> ledger[user][edits[e].uid].notes])
    /\ UNCHANGED issued

\* Some edits are given up, all of those under way when the app is killed.
Drop(S) ==
    /\ \A e \in S : edits[e].state = "pending"
    /\ edits' = [e \in Edits |-> IF e \in S THEN [edits[e] EXCEPT !.state = "dropped"]
                                 ELSE edits[e]]
    /\ UNCHANGED <<user, ledger, issued>>

Next ==
    \/ \E a \in Accounts : SignIn(a)
    \/ \E u \in Uids, d \in Contents : Create(u, d)
    \/ \E u \in Uids, n \in Notes : Annotate(u, n)
    \/ \E u \in Uids : Remove(u)
    \/ \E e \in Edits, u \in Uids, d \in Contents : Propose(e, u, d)
    \/ \E e \in Edits : Apply(e)
    \/ \E S \in SUBSET Edits : Drop(S)

Spec == Init /\ [][Next]_vars
=============================================================================
