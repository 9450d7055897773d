------------------------------- MODULE MCLocal -------------------------------
(***************************************************************************)
(* Model checking of the files under the wallet's root: the wallet index,  *)
(* the schema migration, the books and the exports, each from its own      *)
(* initial states.                                                         *)
(***************************************************************************)
EXTENDS WalletIndex, Migration, Books, Exports

MCGiven == {<<"a">>}
MCAliases == <<"x">>

LocalInit == IndexInit \/ MigrationInit \/ ContactsInit \/ ConfigInit \/ ExportsInit
LocalNext == IndexNext \/ MigrationNext \/ ContactsNext \/ ConfigNext \/ ExportsNext
LocalSpec == LocalInit /\ [][LocalNext]_localVars

\* Loading never refuses what commands have written - wallets.json, contacts.json,
\* config.yaml - and drops nothing they acknowledged.
StoredLoads == IndexLoads /\ BooksLoad
=============================================================================
