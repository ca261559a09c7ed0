------------------------------- MODULE DBInv -------------------------------
(***************************************************************************)
(* The inductive invariant behind DB's properties, proved in DBProofs.     *)
(***************************************************************************)
EXTENDS DB

IsStore(s) == s = [next |-> s.next, defs |-> s.defs, kv |-> s.kv]

IsTx(t) ==
    /\ t = [on |-> t.on, store |-> t.store, created_table |-> t.created_table,
            thrown |-> t.thrown, ok |-> t.ok]
    /\ {t.on, t.created_table, t.thrown, t.ok} \subseteq BOOLEAN
    /\ IsStore(t.store)

\* The records of the state have their fields.
ShapeInv ==
    /\ IsTx(tx)
    /\ readers = [r \in Readers |-> [on |-> readers[r].on, store |-> readers[r].store,
                                     tables |-> readers[r].tables]]

\* The cache holds definitions of the store that is in use. Until the running
\* transaction creates a table these are the latest version's, so an abort
\* leaves them true.
CacheInv ==
    /\ CacheTrue
    /\ tx.on /\ ~tx.created_table => tx.store.defs = committed.defs

\* A definition that Catalog::table_new has stored: its prefixes follow each
\* other, and each index names all the primary key's columns.
DefOK(def) ==
    /\ def.cols \in Seq(STRING)
    /\ def.pkeys \in 1 .. Len(def.cols)
    /\ def.prefix \in Nat
    /\ def.indexes \in Seq(Seq(STRING))
    /\ def.index_prefixes = [i \in DOMAIN def.indexes |-> def.prefix + i]
    /\ \A i \in DOMAIN def.indexes : \A c \in 1 .. def.pkeys : Contains(def.indexes[i], def.cols[c])

\* A row is found under its own primary key.
RowsInPlace(store) ==
    \A name \in DOMAIN store.defs : \A k \in KeysOf(store, store.defs[name].prefix) :
        k = row_key(store.defs[name], store.kv[k])

StoreOK(store) ==
    /\ IsStore(store)
    /\ store.next \in Nat
    /\ \A name \in DOMAIN store.defs : DefOK(store.defs[name])
    /\ OwnPrefixes(store)
    /\ RowsInPlace(store)
    /\ IndexesFollow(store)

DbInv ==
    /\ ShapeInv
    /\ CacheInv
    /\ \A store \in Stores : StoreOK(store)
    /\ IndexOpsDone
    /\ ReaderDefs
=============================================================================
