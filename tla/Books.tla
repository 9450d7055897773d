-------------------------------- MODULE Books --------------------------------
(***************************************************************************)
(* The contact book (contacts.json) and the settings of the networks       *)
(* (config.yaml): what commands write, and what the next command that      *)
(* loads the file makes of it.  A change is read, validated and written    *)
(* under the lock of its file, which is one step; contact remove chooses   *)
(* the family, and config set resolves its network, outside the lock, with *)
(* other commands in between.                                              *)
(*                                                                         *)
(* Bounds: MaxContacts a family (10 000 in the code); the 4 MiB a reader   *)
(* of contacts.json accepts are not reached; one command at a time is      *)
(* between its reads and its change; nobody edits config.yaml by hand      *)
(* while a command runs.                                                   *)
(***************************************************************************)
EXTENDS LocalStore, FiniteSetsExt, SequencesExt, Functions, TLC

CONSTANTS
    ContactNames,
    ContactAddresses,
    MaxContacts,
    AliasNames       \* the aliases a user defines in config.yaml, in its order

ASSUME BooksAssumption == MaxContacts \in Nat /\ IsFiniteSet(ContactNames)

-----------------------------------------------------------------------------
(* Contacts. *)

InContacts == disk.kind = "contacts"
AllContacts(book) == UNION {book[f] : f \in Families}

\* The family's contacts are validated against the family; names are unique
\* across families, an address may appear twice.
UniqueNames(book) ==
    \A f, g \in Families : \A a \in book[f], b \in book[g] :
        a.name = b.name => f = g /\ a = b

Readable(book) ==
    /\ \A f \in Families : Cardinality(book[f]) <= MaxContacts
    /\ UniqueNames(book)

Addable(book, entry) == \A e \in AllContacts(book) : e.name # entry.name /\ e.address # entry.address

ContactAdd ==
    /\ Readable(disk.book)
    /\ \E family \in Families, name \in ContactNames, number \in ContactAddresses :
        LET entry == [family |-> family, name |-> name, address |-> <<family, number>>] IN
        /\ Addable(disk.book, entry)
        /\ Cardinality(disk.book[family]) < MaxContacts
        /\ disk' = [disk EXCEPT !.book[family] = @ \cup {entry}]
    /\ UNCHANGED <<task, spent>>

Holds(family, name) == \E e \in disk.book[family] : e.name = name

\* The family is found first, without the lock; names are unique, so there is one.
ContactRemoveChoose ==
    /\ task = Free
    /\ Readable(disk.book)
    /\ \E family \in Families, name \in ContactNames :
        Holds(family, name) /\ task' = [op |-> "remove", family |-> family, name |-> name]
    /\ UNCHANGED <<disk, spent>>

\* The contact may have gone, or moved to the other family: contact_not_found.
ContactRemove ==
    /\ task.op = "remove"
    /\ IF Readable(disk.book) /\ Holds(task.family, task.name)
       THEN disk' = [disk EXCEPT !.book[task.family] = {e \in @ : e.name # task.name}]
       ELSE UNCHANGED disk
    /\ task' = Free
    /\ UNCHANGED spent

\* A book of this version, or of an earlier one, which let an address in twice.
ContactsInit ==
    /\ \E old \in {names \in SUBSET ContactNames : Cardinality(names) <= MaxContacts} :
        disk = [kind |-> "contacts",
                book |-> [f \in Families |->
                    IF f = "tron" THEN [family : {f}, name : old, address : {<<f, 1>>}] ELSE {}]]
    /\ task = Free
    /\ spent = 0

ContactsNext == InContacts /\ (ContactAdd \/ ContactRemoveChoose \/ ContactRemove)

-----------------------------------------------------------------------------
(* Networks in config.yaml. *)

InConfig == disk.kind = "config"

BuiltinIds == {"main", "nile"}
BuiltinAliases == [a \in {"n"} |-> "nile"]
Fields == {"httpEndpoint", "apiKey"}

\* A document: the user's aliases, and the entries of networks by the key they
\* are written under.  An entry may define a network ("chain": its family,
\* chain id and symbol).
Custom == "own"
Keys == BuiltinIds \cup {"n", Custom} \cup ToSet(AliasNames)

\* The user's aliases override the built-in ones.  An alias of an alias stands
\* for what that one names; what is a built-in id is not looked up again.
Aliases(user) ==
    LET Forward(names, a) ==
            LET target == names[a] IN
            IF target \notin BuiltinIds /\ target \in DOMAIN names
            THEN [names EXCEPT ![a] = names[target]] ELSE names
        all == user @@ BuiltinAliases
        order == SelectSeq(<<"n">> \o AliasNames, LAMBDA a : a \in DOMAIN all)
    IN  IF DOMAIN user = {} THEN all ELSE FoldLeft(Forward, all, order)

\* The network that an entry under each key is for.
IdOf(user) ==
    LET names == Aliases(user) IN
    [k \in Keys |-> IF k \in DOMAIN names THEN names[k] ELSE k]

\* load: no network is configured twice, and each is built in or defined.
Loads(doc) ==
    LET id == IdOf(doc.aliases) IN
    /\ \A j, k \in DOMAIN doc.networks : id[j] = id[k] => j = k
    /\ \A k \in DOMAIN doc.networks : id[k] \in BuiltinIds \/ "chain" \in doc.networks[k]

EffectiveSettings(doc) ==
    LET id == IdOf(doc.aliases) IN UNION {{id[k]} \X doc.networks[k] : k \in DOMAIN doc.networks}

\* NetworkRegistry.resolve: ids before aliases.
KnownIds(doc) == LET id == IdOf(doc.aliases) IN BuiltinIds \cup {id[k] : k \in DOMAIN doc.networks}
ResolveNetwork(doc) ==
    LET names == Aliases(doc.aliases)
        known == KnownIds(doc)
    IN  [ref \in Keys |->
            IF ref \in known THEN {ref}
            ELSE {id \in known : ref \in DOMAIN names /\ names[ref] = id}]

\* Defect: entries under another key of the network are left where they are.
WithFieldOnly(networks, id, same, field) ==
    With(networks, id, {field} \cup IF id \in DOMAIN networks THEN networks[id] ELSE {})

\* withNetworkField: the entries that name the same network are folded into one.
WithNetworkField(networks, id, same, field) ==
    With(Restrict(networks, (DOMAIN networks) \ same), id, {field} \cup UNION {networks[k] : k \in same})

\* setNetworkField with the configuration the command was started with.
ConfigSet(loaded) ==
    LET resolve == ResolveNetwork(loaded) IN
    \E ref \in Keys, field \in Fields : \E id \in resolve[ref] :
        LET same == {k \in DOMAIN disk.networks : resolve[k] = {id}} IN
        disk' = [disk EXCEPT !.networks = WithNetworkField(@, id, same, field),
                             !.told = @ \cup {<<id, field>>}]

Document == [aliases |-> disk.aliases, networks |-> disk.networks]

\* Every command loads the configuration first, and cannot run if that fails.
ConfigStart ==
    /\ task = Free
    /\ Loads(Document)
    /\ task' = [op |-> "set", loaded |-> Document]
    /\ UNCHANGED <<disk, spent>>

ConfigCommit == task.op = "set" /\ ConfigSet(task.loaded) /\ task' = Free /\ UNCHANGED spent

ConfigSetMeanwhile == Loads(Document) /\ ConfigSet(Document) /\ UNCHANGED <<task, spent>>

\* After the fold no alias stands for an alias, and none has the name of a built-in
\* network.  The fold goes through the aliases once: of a chain of three in its order
\* (n for x, x for y, y for main) it makes n stand for y, and of those in a circle none
\* stands for a network.
FoldsOut(user) ==
    LET id == IdOf(user) IN
    /\ \A k \in Keys : id[k] \in Keys /\ id[id[k]] = id[k]
    /\ \A k \in BuiltinIds : id[k] = k

\* Any document that loads, as a user may have written it, with aliases that fold out.
AliasMaps ==
    UNION {[names -> BuiltinIds \cup {"n", Custom} \cup ToSet(AliasNames)] :
             names \in SUBSET ({"n"} \cup ToSet(AliasNames))}
NetworkMaps ==
    UNION {[keys -> {{"httpEndpoint"}, {"apiKey", "chain"}}] : keys \in {K \in SUBSET Keys : Cardinality(K) <= 2}}

ConfigInit ==
    /\ \E aliases \in AliasMaps, networks \in NetworkMaps :
        LET doc == [aliases |-> aliases, networks |-> networks] IN
        /\ FoldsOut(aliases)
        /\ Loads(doc)
        /\ disk = [kind |-> "config", aliases |-> aliases, networks |-> networks,
                   told |-> EffectiveSettings(doc)]
    /\ task = Free
    /\ spent = 0

ConfigNext == InConfig /\ (ConfigStart \/ ConfigCommit \/ ConfigSetMeanwhile)

-----------------------------------------------------------------------------
(* Properties. *)

\* Whatever was added, removed or set, in any order and at the same time, the
\* book and the configuration load; and every setting that was in effect or
\* acknowledged is in effect.
BooksLoad ==
    /\ InContacts => Readable(disk.book)
    /\ InConfig => Loads(Document) /\ disk.told \subseteq EffectiveSettings(Document)
=============================================================================
