----------------------------- MODULE WalletIndex -----------------------------
(***************************************************************************)
(* The wallet index (wallets.json): its wallets, their accounts, labels    *)
(* and the active account, and the commands that change it.  A mutation    *)
(* reads, changes and writes the index under one lock, which is one step;  *)
(* derive and delete first read it outside the lock, and other commands    *)
(* run in between.                                                         *)
(*                                                                         *)
(* Bounds: MaxBorn wallets are ever registered (spent); account indexes    *)
(* wrap after MaxIndex (2^31 - 1 in the code); one command at a time is    *)
(* between its reads and its change.                                       *)
(***************************************************************************)
EXTENDS LocalStore, FiniteSetsExt, SequencesExt, Functions

CONSTANTS
    MaxBorn,
    MaxIndex,
    Given,      \* labels a user types
    LooseRefs   \* TRUE: a user may type any well-formed account id

ASSUME IndexAssumption == MaxBorn \in Nat /\ MaxIndex \in Nat \ {0} /\ LooseRefs \in BOOLEAN

Software == {"seed", "privateKey"}    \* SOURCE_KINDS: hasSecret

\* The secrets and devices a user may register; the private key S is the one
\* of account 0 of the seed S.
Sources ==
    [type : {"seed", "privateKey"}, key : {"S"}] \cup [type : {"privateKey"}, key : {"K"}]
        \cup [type : {"ledger"}, key : {"L"}] \cup [type : {"watch"}, key : {"S"}]

-----------------------------------------------------------------------------
(* Wallets, accounts and references. *)

IsHD(w) == w.type = "seed"
Indices(w) == DOMAIN w.slots

\* Account 0 is the same under both derivation templates; ledger and watch
\* accounts have one family.
Address(w, family, i) ==
    [key |-> w.key, index |-> i, family |-> family,
     template |-> IF family = "tron" /\ i > 0 THEN w.slots[i] ELSE "current"]

AddressesOf(w, i) ==
    {Address(w, f, i) : f \in IF w.type \in Software THEN Families ELSE {"tron"}}

\* A wallet of one account is referred to by its id alone.
Whole == -1
RefOf(w, i) == <<w.id, IF IsHD(w) THEN i ELSE Whole>>
RefsOf(w) == {RefOf(w, i) : i \in Indices(w)}
NoAccount == <<0, Whole>>

Wallets(f) == ToSet(f.wallets)
Accounts(f) == UNION {RefsOf(w) : w \in Wallets(f)}
Known(f, id) == \E w \in Wallets(f) : w.id = id
WalletOf(f, id) == CHOOSE w \in Wallets(f) : w.id = id

FirstIndex(w) == Min(Indices(w))
FirstAccount(f) ==
    IF f.wallets = <<>> THEN NoAccount ELSE RefOf(f.wallets[1], FirstIndex(f.wallets[1]))

\* What a user may type, and the references it can stand for: an id is taken
\* as it is; an address or a label must match exactly one account.
AddressHits(f, a) ==
    {r \in Accounts(f) : \E w \in Wallets(f), i \in 0 .. MaxIndex :
        i \in Indices(w) /\ r = RefOf(w, i) /\ a \in AddressesOf(w, i)}
LabelHits(f, label) == {r \in DOMAIN f.labels : f.labels[r] = label}
ToRef(f, input) ==
    CASE input.by = "id" -> {input.ref}
      [] input.by = "address" ->
            IF Cardinality(AddressHits(f, input.address)) = 1 THEN AddressHits(f, input.address) ELSE {}
      [] input.by = "label" ->
            IF Cardinality(LabelHits(f, input.label)) = 1 THEN LabelHits(f, input.label) ELSE {}

\* resolveAccount: <<wallet, index>>; an HD wallet named as a whole stands for
\* its only account.  Whether there is such an index it does not ask.
Resolve(f, input) ==
    {<<WalletOf(f, r[1]),
       IF ~IsHD(WalletOf(f, r[1])) THEN 0
       ELSE IF r[2] = Whole THEN FirstIndex(WalletOf(f, r[1])) ELSE r[2]>> :
        r \in {r \in ToRef(f, input) :
            /\ Known(f, r[1])
            /\ IsHD(WalletOf(f, r[1])) /\ r[2] = Whole => Cardinality(Indices(WalletOf(f, r[1]))) = 1}}

\* The ids a user types are those the list shows, unless LooseRefs.
Inputs ==
    LET ids == IF LooseRefs THEN (1 .. MaxBorn) \X (Whole .. MaxIndex) ELSE Accounts(disk)
    IN  [by : {"id"}, ref : ids]
        \cup [by : {"label"}, label : Range(disk.labels)]
        \cup [by : {"address"}, address : {[key |-> "S", index |-> 0, family |-> "evm", template |-> "current"]}]

-----------------------------------------------------------------------------
(* Labels. *)

\* With as many labels in use, one of these is free.
DefaultLabel(f) ==
    LET candidates == Len(f.wallets) .. (Len(f.wallets) + Cardinality(DOMAIN f.labels))
    IN  <<"wallet", Min({n \in candidates : <<"wallet", n>> \notin Range(f.labels)})>>

DerivedLabel(base, i) == <<"derived", base, i>>

\* assignLabel: unique, ignoring case; ASCII case is not told apart here.
LabelFree(f, ref, label) == \A r \in DOMAIN f.labels : f.labels[r] = label => r = ref

Labelled(f, ref, label) == [f EXCEPT !.labels = With(@, ref, label)]

LabelChoices == Given \cup {<<"default">>}
LabelGiven(choice) == choice # <<"default">>
LabelFor(f, choice) == IF LabelGiven(choice) THEN choice ELSE DefaultLabel(f)

-----------------------------------------------------------------------------
(* Registering a wallet. *)

\* Secrets are compared with those of the same type, hardware and watch
\* accounts with their own kind.
Duplicates(f, source) ==
    IF source.type \in Software
    THEN {r \in Accounts(f) : \E w \in Wallets(f), i \in 0 .. MaxIndex :
            /\ w.type = source.type
            /\ i \in Indices(w)
            /\ r = RefOf(w, i)
            /\ w.key = source.key /\ i = 0}
    ELSE {r \in Accounts(f) : \E w \in Wallets(f) :
            w.type = source.type /\ w.key = source.key /\ r = RefOf(w, 0)}

FirstSlot == [i \in {0} |-> "current"]

\* A watch account is not selected by its import.
Selects(source) == source.type # "watch"

Registered(f, source, choice) ==
    LET w == [id |-> spent + 1, type |-> source.type, key |-> source.key, slots |-> FirstSlot]
        g == [f EXCEPT !.wallets = Append(@, w), !.active = IF Selects(source) THEN RefOf(w, 0) ELSE @]
    IN  Labelled(g, RefOf(w, 0), LabelFor(g, choice))

Register ==
    /\ spent < MaxBorn
    /\ \E source \in Sources, choice \in LabelChoices :
        /\ Duplicates(disk, source) = {}
        /\ LabelGiven(choice) => LabelFree(disk, NoAccount, choice)
        /\ disk' = Registered(disk, source, choice)
    /\ spent' = spent + 1
    /\ UNCHANGED task

\* What is registered already is selected.
Reimport ==
    /\ \E source \in Sources, r \in Accounts(disk) :
        /\ Selects(source)
        /\ r \in Duplicates(disk, source)
        /\ disk' = [disk EXCEPT !.active = r]
    /\ UNCHANGED <<spent, task>>

-----------------------------------------------------------------------------
(* Derive: the wallet is chosen outside the lock, extended under it. *)

DeriveChoose ==
    /\ task = Free
    /\ \E w \in Wallets(disk) : IsHD(w) /\ task' = [op |-> "derive", id |-> w.id]
    /\ UNCHANGED <<disk, spent>>

\* nextAccountIndex: after the highest; 2^31 wraps to a negative number.
NextIndex(w) == LET n == Max(Indices(w)) + 1 IN IF n > MaxIndex THEN -1 - MaxIndex ELSE n

\* Defect: new accounts are derived next to those of the older template.
DerivableAnyway(w) == TRUE

\* assertDerivable: the two templates are not mixed in one wallet.
Derivable(w) == \A i \in Indices(w) \ {0} : w.slots[i] # "legacy"

Slotted(w, slots) == [w EXCEPT !.slots = slots]
WithSlot(f, id, i) ==
    [f EXCEPT !.wallets = [k \in DOMAIN @ |->
        IF @[k].id = id THEN Slotted(@[k], With(@[k].slots, i, "current")) ELSE @[k]]]

BaseLabel(w) == IF RefOf(w, 0) \in DOMAIN disk.labels THEN disk.labels[RefOf(w, 0)] ELSE <<"hd">>

DeriveNew(w, i, choice) ==
    LET label == IF LabelGiven(choice) THEN choice ELSE DerivedLabel(BaseLabel(w), i)
    IN  /\ i \in 0 .. MaxIndex \ Indices(w)
        /\ Derivable(w)
        /\ LabelFree(disk, RefOf(w, i), label)
        /\ disk' = [Labelled(WithSlot(disk, w.id, i), RefOf(w, i), label) EXCEPT !.active = RefOf(w, i)]

\* An account that exists is selected; its label is left to rename.
DeriveExisting(w, i, choice) ==
    /\ i \in Indices(w)
    /\ LabelGiven(choice) => LabelHits(disk, choice) = {RefOf(w, i)}
    /\ disk' = [disk EXCEPT !.active = RefOf(w, i)]

DeriveCommit ==
    /\ task.op = "derive"
    /\ Known(disk, task.id)
    /\ LET w == WalletOf(disk, task.id) IN
        \E i \in Indices(w) \cup {NextIndex(w), 1}, choice \in LabelChoices :
            DeriveNew(w, i, choice) \/ DeriveExisting(w, i, choice)
    /\ task' = Free
    /\ UNCHANGED spent

-----------------------------------------------------------------------------
(* Use and rename: one step each. *)

Use ==
    /\ \E input \in Inputs : \E r \in ToRef(disk, input) : disk' = [disk EXCEPT !.active = r]
    /\ UNCHANGED <<spent, task>>

Rename ==
    /\ \E input \in Inputs, label \in Given : \E r \in ToRef(disk, input) :
        /\ LabelFree(disk, r, label)
        /\ disk' = Labelled(disk, r, label)
    /\ UNCHANGED <<spent, task>>

-----------------------------------------------------------------------------
(* Delete: confirmed at a prompt, resolved again under the lock. *)

WithoutWallet(f, id) ==
    [f EXCEPT !.wallets = RemoveFirst(@, WalletOf(f, id)),
              !.labels = RestrictDomain(@, LAMBDA r : r[1] # id)]

WithoutSlot(f, r) ==
    [f EXCEPT !.wallets = [k \in DOMAIN @ |->
                IF @[k].id = r[1] THEN Slotted(@[k], Restrict(@[k].slots, Indices(@[k]) \ {r[2]})) ELSE @[k]],
              !.labels = RestrictDomain(@, LAMBDA q : q # r)]

\* Removing one account of several; account 0 cannot be the one, so the wallet
\* keeps an account.
RemovedAccount(f, r) ==
    LET g == WithoutSlot(f, r) IN [g EXCEPT !.active = IF @ = r THEN FirstAccount(g) ELSE @]

\* Defect: the selection is passed on only when it is the account that was named.
RemovedWalletOnly(f, r) ==
    LET g == WithoutWallet(f, r[1]) IN [g EXCEPT !.active = IF @ = r THEN FirstAccount(g) ELSE @]

RemovedWallet(f, r) ==
    LET g == WithoutWallet(f, r[1]) IN [g EXCEPT !.active = IF @[1] = r[1] THEN FirstAccount(g) ELSE @]

\* removeAccount: account 0 of an HD wallet, and any other kind of account,
\* take the wallet with them.
Removed(f, r) ==
    IF IsHD(WalletOf(f, r[1])) /\ r[2] > 0 THEN RemovedAccount(f, r) ELSE RemovedWallet(f, r)

DeleteConfirm ==
    /\ task = Free
    /\ \E input \in Inputs : Resolve(disk, input) # {} /\ task' = [op |-> "delete", input |-> input]
    /\ UNCHANGED <<disk, spent>>

DeleteCommit ==
    /\ task.op = "delete"
    /\ \E r \in ToRef(disk, task.input) :
        /\ Known(disk, r[1])
        /\ IsHD(WalletOf(disk, r[1])) /\ r[2] > 0 => r[2] \in Indices(WalletOf(disk, r[1]))
        /\ disk' = Removed(disk, r)
    /\ task' = Free
    /\ UNCHANGED spent

\* A command that is refused, cancelled or killed between its reads and its
\* change leaves the index as it is.
GiveUp ==
    /\ task # Free
    /\ task' = Free
    /\ UNCHANGED <<disk, spent>>

-----------------------------------------------------------------------------
\* An index written by this version, or migrated from one whose seed accounts
\* used the older template.
IndexInit ==
    /\ \E slots \in {FirstSlot, With(FirstSlot, 1, "legacy")} :
        disk = [kind |-> "index",
                wallets |-> <<[id |-> 1, type |-> "seed", key |-> "S", slots |-> slots]>>,
                labels |-> [r \in {<<1, i>> : i \in DOMAIN slots} |->
                              IF r[2] = 0 THEN <<"wallet", 1>> ELSE <<"derived", <<"wallet", 1>>, 1>>],
                active |-> <<1, 0>>]
    /\ spent = 1
    /\ task = Free

InIndex == disk.kind = "index"

IndexNext ==
    /\ InIndex
    /\ \/ Register \/ Reimport \/ DeriveChoose \/ DeriveCommit \/ Use \/ Rename
       \/ DeleteConfirm \/ DeleteCommit \/ GiveUp

-----------------------------------------------------------------------------
(* Properties. *)

\* The account that commands act on by default is resolved to one of the index, whatever
\* was registered, derived, selected and deleted since it was chosen.
ActiveExists == InIndex /\ disk.active # NoAccount =>
    \E r \in Resolve(disk, [by |-> "id", ref |-> disk.active]) : r[2] \in Indices(r[1])

\* "A committed index never references missing data": the wallet of the active account
\* is in it.
ActiveIsKnown == InIndex /\ disk.active # NoAccount => Known(disk, disk.active[1])

\* parseWalletsFile accepts what every command wrote: ids and labels are unique;
\* and every account, and nothing else, has a label.
IndexLoads == InIndex =>
    /\ IsInjective(disk.labels)
    /\ DOMAIN disk.labels = Accounts(disk)
    /\ \A j, k \in DOMAIN disk.wallets : disk.wallets[j].id = disk.wallets[k].id => j = k

\* The accounts of a seed are of one template: the recovery phrase alone, in
\* this version or in the older one, brings them all back.
OneTemplate == InIndex =>
    \A w \in Wallets(disk) :
        ~\E i, j \in Indices(w) \ {0} : w.slots[i] = "legacy" /\ w.slots[j] = "current"
=============================================================================
