--------------------------------- MODULE DB ---------------------------------
(***************************************************************************)
(* Tables and indexes on the store: db.cpp, catalog.cpp, table_access.cpp  *)
(* and index_ops.cpp. A row is one key of the store and each index of its  *)
(* table one more; table definitions are in the store too, and cached in   *)
(* memory by the write transactions.                                       *)
(*                                                                         *)
(* A store is [next, defs, kv]: the next free key prefix (@meta), the      *)
(* table definitions (@table), and the keys of rows and index entries. A   *)
(* key is [prefix, vals]; a record maps columns to values. The store's own *)
(* steps (KV.tla) are one here: a commit keeps all of a transaction or,    *)
(* when it fails in phase 1, nothing.                                      *)
(***************************************************************************)
EXTENDS Integers, SequencesExt

CONSTANTS
    NewDef,     \* for each table name, the definition table_new is called with
                \* (long: its encoding is over the tree's limit; spaced: one of
                \* its column names holds white space)
    Recs,       \* for each table name, the records written to it
    Long,       \* a value that makes an index key too long for the tree
    Readers,    \* DBReader objects
    MaxUnsynced \* bound: stores that a crash may leave

ASSUME DefsAssumption ==
    \A name \in DOMAIN NewDef :
        /\ NewDef[name].cols \in Seq(STRING)
        /\ NewDef[name].indexes \in Seq(Seq(STRING))

VARIABLES
    committed,  \* the latest version's store
    disk,       \* the stores a crash may leave
    tx,         \* the running DBTX
    cache,      \* Catalog::cache_
    readers     \* the DBReaders

vars == <<committed, disk, tx, cache, readers>>

Names == DOMAIN NewDef
Nothing == <<>>     \* a function with no argument

EmptyStore == [next |-> 3, defs |-> Nothing, kv |-> Nothing]

NoTx == [on |-> FALSE, store |-> EmptyStore, created_table |-> FALSE, thrown |-> FALSE, ok |-> TRUE]

NoReader == [on |-> FALSE, store |-> EmptyStore, tables |-> Nothing]

\* f with x mapped to y, and f without x.
Put(f, x, y) == [z \in DOMAIN f \cup {x} |-> IF z = x THEN y ELSE f[z]]
Without(f, x) == Restrict(f, DOMAIN f \ {x})

-----------------------------------------------------------------------------
(* The catalog *)

Pk(def) == SubSeq(def.cols, 1, def.pkeys)

\* check_index_keys: an index ends with the primary key columns it lacks.
check_index_keys(def, index) ==
    LET out[i \in 0 .. def.pkeys] ==
            IF i = 0 THEN index
            ELSE IF Contains(out[i - 1], def.cols[i]) THEN out[i - 1]
            ELSE Append(out[i - 1], def.cols[i])
    IN  out[def.pkeys]

\* table_def_check: the primary key and the indexes are made of known columns,
\* and no index covers them all.
table_def_check(def) ==
    /\ def.pkeys \in 1 .. Len(def.cols)
    /\ \A i \in DOMAIN def.indexes :
          LET index == def.indexes[i]
          IN  /\ index # <<>>
              /\ ToSet(index) \subseteq ToSet(def.cols)
              /\ IsInjective(index)
              /\ Len(check_index_keys(def, index)) < Len(def.cols)

\* Faulty: the prefixes of the indexes are forgotten.
alloc_prefix_one(store, n) == [store EXCEPT !.next = store.next + 1]

\* Catalog::alloc_prefix, which returns the old next.
alloc_prefix(store, n) == [store EXCEPT !.next = store.next + n]

\* Catalog::table_new, for a name that is not defined.
catalog_table_new(store, name) ==
    LET new == NewDef[name]
        n == Len(new.indexes)
        def == [cols |-> new.cols, pkeys |-> new.pkeys, spaced |-> new.spaced, prefix |-> store.next,
                indexes |-> [i \in 1 .. n |-> check_index_keys(new, new.indexes[i])],
                index_prefixes |-> [i \in 1 .. n |-> store.next + i]]
        next == alloc_prefix(store, 1 + n)
    IN  [next EXCEPT !.defs = Put(next.defs, name, def)]

\* Catalog::get_table_def_from_kv finds the definitions that decode_table_def
\* can read: encode_table_def writes names as they are, with a space after each.
Readable(store) == {name \in DOMAIN store.defs : ~store.defs[name].spaced}

\* Catalog::get_table_def: from the cache, else from the store and into the cache.
get_table_def(name) == IF name \in DOMAIN cache THEN cache[name] ELSE tx.store.defs[name]

Known(name) == name \in DOMAIN cache \cup Readable(tx.store)

Cached(name) == Put(cache, name, get_table_def(name))

-----------------------------------------------------------------------------
(* Rows and index entries: an operation works on r, [kv, thrown, ok], the    *)
(* keys, whether an exception was thrown and whether its assertions held.    *)

Values(rec, cols) == [i \in DOMAIN cols |-> rec[cols[i]]]

encode_key(prefix, vals) == [prefix |-> prefix, vals |-> vals]

row_key(def, rec) == encode_key(def.prefix, Values(rec, Pk(def)))

index_key(def, i, rec) == encode_key(def.index_prefixes[i], Values(rec, def.indexes[i]))

\* One index's step of index_op. A key over the tree's limit throws.
index_step(r, key, op) ==
    IF r.thrown \/ Contains(key.vals, Long) THEN [r EXCEPT !.thrown = TRUE]
    ELSE IF op = "INDEX_ADD"
    THEN IF key \in DOMAIN r.kv THEN [r EXCEPT !.ok = FALSE]
         ELSE [r EXCEPT !.kv = Put(r.kv, key, Nothing)]
    ELSE [r EXCEPT !.kv = Without(r.kv, key), !.ok = r.ok /\ key \in DOMAIN r.kv]

index_op(r, def, rec, op) ==
    LET upto[i \in 0 .. Len(def.indexes)] ==
            IF i = 0 THEN r ELSE index_step(upto[i - 1], index_key(def, i, rec), op)
    IN  upto[Len(def.indexes)]

Start == [kv |-> tx.store.kv, thrown |-> FALSE, ok |-> TRUE]

\* KVTX::update's condition on the row.
mode_met(mode, exists) ==
    /\ mode = "INSERT_ONLY" => ~exists
    /\ mode = "UPDATE_ONLY" => exists

\* Faulty: the new entries are added before the old ones are deleted.
db_update_add_first(def, rec, mode) ==
    LET key == row_key(def, rec)
        set == [Start EXCEPT !.kv = Put(Start.kv, key, rec)]
    IN  IF ~mode_met(mode, key \in DOMAIN Start.kv) THEN Start
        ELSE IF key \notin DOMAIN Start.kv THEN index_op(set, def, rec, "INDEX_ADD")
        ELSE index_op(index_op(set, def, rec, "INDEX_ADD"), def, Start.kv[key], "INDEX_DEL")

\* db_update: the row, then the entries of the old row, then the new ones. A
\* row's value is the record, which decode_row gives back.
db_update(def, rec, mode) ==
    LET key == row_key(def, rec)
        set == [Start EXCEPT !.kv = Put(Start.kv, key, rec)]
        cleared == IF key \in DOMAIN Start.kv THEN index_op(set, def, Start.kv[key], "INDEX_DEL")
                   ELSE set
    IN  IF ~mode_met(mode, key \in DOMAIN Start.kv) THEN Start
        ELSE index_op(cleared, def, rec, "INDEX_ADD")

\* Faulty: the index entries stay.
db_delete_row_only(def, rec) == [Start EXCEPT !.kv = Without(Start.kv, row_key(def, rec))]

\* db_delete
db_delete(def, rec) ==
    LET key == row_key(def, rec)
    IN  IF key \notin DOMAIN Start.kv THEN Start
        ELSE index_op([Start EXCEPT !.kv = Without(Start.kv, key)], def, Start.kv[key], "INDEX_DEL")

-----------------------------------------------------------------------------
Init ==
    /\ committed = EmptyStore
    /\ disk = {EmptyStore}
    /\ tx = NoTx
    /\ cache = Nothing
    /\ readers = [r \in Readers |-> NoReader]

\* DB::begin
begin ==
    /\ ~tx.on
    /\ tx' = [NoTx EXCEPT !.on = TRUE, !.store = committed]
    /\ UNCHANGED <<committed, disk, cache, readers>>

\* After an exception the caller must abort (db.h).
Running == tx.on /\ ~tx.thrown

\* DBTX::table_new
table_new(name) ==
    /\ Running
    /\ table_def_check(NewDef[name])
    /\ name \notin DOMAIN tx.store.defs
    /\ ~NewDef[name].long
    /\ tx' = [tx EXCEPT !.store = catalog_table_new(tx.store, name), !.created_table = TRUE]
    /\ UNCHANGED <<committed, disk, cache, readers>>

\* DBTX::table_new throws: the encoded definition is too long for the tree, when
\* the prefixes are already taken.
table_new_throws(name) ==
    /\ Running
    /\ table_def_check(NewDef[name])
    /\ NewDef[name].long
    /\ tx' = [tx EXCEPT !.store = alloc_prefix(tx.store, 1 + Len(NewDef[name].indexes)),
                        !.thrown = TRUE]
    /\ UNCHANGED <<committed, disk, cache, readers>>

Apply(r) ==
    tx' = [tx EXCEPT !.store.kv = r.kv, !.thrown = r.thrown, !.ok = tx.ok /\ r.ok]

\* DBTX::get, scan and table_def leave nothing but the definition in the cache.
\* What they return is the matter of Scanner.
read(name) ==
    /\ Running
    /\ Known(name)
    /\ cache' = Cached(name)
    /\ UNCHANGED <<committed, disk, tx, readers>>

\* DBTX::insert, update and upsert
write(name, rec, mode) ==
    /\ Running
    /\ Known(name)
    /\ Apply(db_update(get_table_def(name), rec, mode))
    /\ cache' = Cached(name)
    /\ UNCHANGED <<committed, disk, readers>>

\* DBTX::del
del(name, rec) ==
    /\ Running
    /\ Known(name)
    /\ Apply(db_delete(get_table_def(name), rec))
    /\ cache' = Cached(name)
    /\ UNCHANGED <<committed, disk, readers>>

\* DB::commit and DB::abort drop what this transaction may have cached.
DropCache == cache' = IF tx.created_table THEN Nothing ELSE cache

\* KV::commit succeeds; or fails in phase 2, and the version stays; or fails in
\* phase 1, and nothing stays.
commit ==
    /\ Running
    /\ DropCache
    /\ \/ committed' = tx.store /\ disk' = {tx.store}
       \/ /\ committed' = tx.store /\ disk' = disk \cup {tx.store}
          /\ Cardinality(disk') <= MaxUnsynced
       \/ UNCHANGED <<committed, disk>>
    /\ tx' = NoTx
    /\ UNCHANGED readers

\* Faulty: the cache is kept.
abort_keeps_cache ==
    /\ tx.on
    /\ tx' = NoTx
    /\ UNCHANGED <<committed, disk, readers, cache>>

\* DB::abort
abort ==
    /\ tx.on
    /\ DropCache
    /\ tx' = NoTx
    /\ UNCHANGED <<committed, disk, readers>>

\* DB::begin_read
begin_read(r) ==
    /\ ~readers[r].on
    /\ readers' = [readers EXCEPT ![r] = [on |-> TRUE, store |-> committed, tables |-> Nothing]]
    /\ UNCHANGED <<committed, disk, tx, cache>>

\* Faulty: a reader asks the catalog cache first.
find_table_cached(r, name) ==
    /\ readers[r].on
    /\ name \in (DOMAIN cache \cup Readable(readers[r].store)) \ DOMAIN readers[r].tables
    /\ readers' = [readers EXCEPT ![r].tables = Put(readers[r].tables, name,
           IF name \in DOMAIN cache THEN cache[name] ELSE readers[r].store.defs[name])]
    /\ UNCHANGED <<committed, disk, tx, cache>>

\* DBReader::find_table, called by get, scan and table_def.
find_table(r, name) ==
    /\ readers[r].on
    /\ name \in Readable(readers[r].store) \ DOMAIN readers[r].tables
    /\ readers' = [readers EXCEPT ![r].tables =
           Put(readers[r].tables, name, readers[r].store.defs[name])]
    /\ UNCHANGED <<committed, disk, tx, cache>>

\* DB::end_read. The object keeps its definitions.
end_read(r) ==
    /\ readers[r].on
    /\ readers' = [readers EXCEPT ![r].on = FALSE, ![r].store = EmptyStore]
    /\ UNCHANGED <<committed, disk, tx, cache>>

\* The process or the machine stops, and the file is opened again.
crash ==
    /\ \E d \in disk : committed' = d /\ disk' = {d}
    /\ tx' = NoTx
    /\ cache' = Nothing
    /\ readers' = [r \in Readers |-> NoReader]

Next ==
    \/ begin \/ commit \/ abort \/ crash
    \/ \E name \in Names :
          \/ table_new(name) \/ table_new_throws(name) \/ read(name)
          \/ \E rec \in Recs[name] :
                \/ del(name, rec)
                \/ \E mode \in {"INSERT_ONLY", "UPDATE_ONLY", "UPSERT"} : write(name, rec, mode)
    \/ \E r \in Readers :
          \/ begin_read(r) \/ end_read(r)
          \/ \E name \in Names : find_table(r, name)

Spec == Init /\ [][Next]_vars

-----------------------------------------------------------------------------
(* Properties *)

\* The stores somebody sees, or may see after a crash.
Stores ==
    {committed} \cup disk \cup {readers[r].store : r \in Readers}
        \cup (IF Running THEN {tx.store} ELSE {})

KeysOf(store, prefix) == {k \in DOMAIN store.kv : k.prefix = prefix}

IndexesFollow(store) ==
    \A name \in DOMAIN store.defs :
        LET def == store.defs[name]
        IN  \A i \in DOMAIN def.indexes :
                KeysOf(store, def.index_prefixes[i])
                    = {index_key(def, i, store.kv[k]) : k \in KeysOf(store, def.prefix)}

\* An index has an entry for each row of its table and no other: what
\* Scanner::deref asserts ("index key without a matching row").
IndexesFollowRows == \A store \in Stores : IndexesFollow(store)

\* index_op's assertion holds: an entry to add is not there, one to delete is.
IndexOpsDone == tx.ok

\* "The catalog cache must only hold committed defs" (db.cpp), or those of the
\* running transaction: a cached definition is the store's.
CacheTrue ==
    LET store == IF tx.on THEN tx.store ELSE committed
    IN  \A name \in DOMAIN cache : name \in DOMAIN store.defs /\ cache[name] = store.defs[name]

TablePrefixes(def) == {def.prefix} \cup ToSet(def.index_prefixes)

OwnPrefixes(store) ==
    LET defs == store.defs
    IN  /\ \A n, m \in DOMAIN defs : n # m => TablePrefixes(defs[n]) \cap TablePrefixes(defs[m]) = {}
        /\ \A n \in DOMAIN defs : \A p \in TablePrefixes(defs[n]) : p < store.next
        /\ \A k \in DOMAIN store.kv : \E n \in DOMAIN defs : k.prefix \in TablePrefixes(defs[n])

\* Each table and each index has a key prefix of its own, and every key belongs
\* to one of them: no table reads the rows of another, or of one that was
\* rolled back.
PrefixesOwned == \A store \in Stores : OwnPrefixes(store)

\* A reader decodes the rows of its snapshot with the snapshot's definitions.
ReaderDefs ==
    \A r \in Readers : readers[r].on =>
        \A name \in DOMAIN readers[r].tables :
            /\ name \in DOMAIN readers[r].store.defs
            /\ readers[r].tables[name] = readers[r].store.defs[name]
=============================================================================
