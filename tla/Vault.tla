-------------------------------- MODULE Vault --------------------------------
(***************************************************************************)
(* What the keystore promises: a set of wallets that one master password   *)
(* opens.  The first import fixes it; from then on wallets come and go one *)
(* at a time, and the password changes for all of them at once.            *)
(***************************************************************************)
CONSTANTS
    Wallet,
    Password,
    None       \* no master password yet

VARIABLES
    opens,     \* each wallet's password
    master     \* the one that is asked for, or None

vars == <<opens, master>>

Init == opens = [w \in {} |-> None] /\ master = None

Found ==
    /\ master = None
    /\ opens = [w \in {} |-> None]
    /\ master' \in Password
    /\ UNCHANGED opens

Import(w) ==
    /\ master # None
    /\ w \notin DOMAIN opens
    /\ opens' = [x \in DOMAIN opens \cup {w} |-> IF x = w THEN master ELSE opens[x]]
    /\ UNCHANGED master

Delete(w) ==
    /\ w \in DOMAIN opens
    /\ opens' = [x \in DOMAIN opens \ {w} |-> opens[x]]
    /\ UNCHANGED master

Change(new) ==
    /\ DOMAIN opens # {}
    /\ opens' = [w \in DOMAIN opens |-> new]
    /\ master' = new

Next ==
    \/ Found
    \/ \E w \in Wallet : Import(w) \/ Delete(w)
    \/ \E new \in Password : Change(new)

Spec == Init /\ [][Next]_vars

-----------------------------------------------------------------------------
\* The master password opens every wallet.
MasterOpens == \A w \in DOMAIN opens : opens[w] = master /\ master # None
=============================================================================
