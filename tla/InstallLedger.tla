--------------------------- MODULE InstallLedger ---------------------------
(***************************************************************************)
(* What fox-install promises about its state manifest, whatever number of  *)
(* invocations there are: a ledger of completed work that one installer at *)
(* a time may write, that never claims more than was done and that only    *)
(* outside damage sets back.  InstallRun implements it.                    *)
(***************************************************************************)
EXTENDS Naturals

CONSTANTS
    Installer,   \* the invocations
    Nobody,      \* no installer is at work; not one of them
    Item         \* what can be completed

VARIABLES
    holder,      \* the installer at work, or Nobody
    ledger,      \* per item, the time of the completion on record (0: none)
    completed    \* per item, when it was last completed (0: never)

lvars == <<holder, ledger, completed>>

Blank == [i \in Item |-> 0]

LInit == holder = Nobody /\ ledger = Blank /\ completed = Blank

Take(p) ==
    /\ holder = Nobody
    /\ holder' = p
    /\ UNCHANGED <<ledger, completed>>

Complete(p, i) ==
    /\ holder = p
    /\ completed' = [completed EXCEPT ![i] = completed'[i]]
    /\ completed'[i] \in Nat /\ completed[i] <= completed'[i]
    /\ UNCHANGED <<holder, ledger>>

Commit(p) ==
    /\ holder = p
    /\ ledger' \in [Item -> Nat]
    /\ \A i \in Item : ledger[i] <= ledger'[i] /\ ledger'[i] <= completed[i]
    /\ UNCHANGED <<holder, completed>>

Release(p) ==
    /\ holder = p
    /\ holder' = Nobody
    /\ UNCHANGED <<ledger, completed>>

Damage ==
    /\ ledger' = Blank
    /\ UNCHANGED <<holder, completed>>

LNext ==
    \/ \E p \in Installer : Take(p) \/ Commit(p) \/ Release(p)
    \/ \E p \in Installer, i \in Item : Complete(p, i)
    \/ Damage

LSpec == LInit /\ [][LNext]_lvars
=============================================================================
