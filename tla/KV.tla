--------------------------------- MODULE KV ---------------------------------
(***************************************************************************)
(* The page-level protocol of the store of src/storage/kv.cpp: snapshot    *)
(* readers, one copy-on-write transaction at a time, the two-phase commit, *)
(* I/O errors at each of its steps, power loss, process crash and reopen.  *)
(*                                                                         *)
(* A tree is abstracted to the set of pages reachable from its root; what  *)
(* the B+tree writes in them is modelled in BTree.tla. A version is a      *)
(* record [root, tree, version, space]: what the meta page points at, plus *)
(* the pages its tree has.                                                 *)
(***************************************************************************)
EXTENDS FreeQueue

CONSTANTS
    Readers,        \* reader handles (KVReader objects)
    MaxVersion,     \* bound: no transaction begins at this version
    MaxPage,        \* bound: pages of the file
    UnsyncedReopen  \* may the file be reopened in the same boot while its
                    \* meta page has not reached the disk?

ASSUME BoundsAssumption ==
    MaxVersion \in Nat /\ MaxPage \in Nat /\ UnsyncedReopen \in BOOLEAN

VARIABLES
    pc,         \* the state of fd_ and of the writer_ lock's holder
    kv,         \* root_, version_, flushed_ and free_: the latest version
    durable,    \* durable_version_
    mapped,     \* mmap_total_, in pages
    readers,    \* the KVReaders, and which of them are in readers_
    tx,         \* the running KVTX
    cache,      \* page 0 as pread() returns it
    disk        \* the page 0s a power loss may leave

vars == <<pc, kv, durable, mapped, readers, tx, cache, disk>>

\* An empty file: what read_root initializes for it.
Fresh ==
    [root |-> 0, tree |-> {}, version |-> 0,
     space |-> [items |-> <<>>, nodes |-> <<1>>, head |-> 0, tail |-> 0,
                top |-> 2, updates |-> {}]]

\* Zeroes: members of a KV that is not open, or a page 0 nobody has written.
Blank ==
    [root |-> 0, tree |-> {}, version |-> 0,
     space |-> [items |-> <<>>, nodes |-> <<>>, head |-> 0, tail |-> 0,
                top |-> 0, updates |-> {}]]

NoTx == [root |-> 0, tree |-> {}, space |-> Blank.space, min_reader |-> 0,
         mapped |-> 0, busy |-> FALSE, fresh |-> {}]

NoReader == [open |-> FALSE, version |-> 0, tree |-> {}, mapped |-> 0]

\* Faulty: off by one.
extend_mmap_short(size) == IF size <= mapped + 1 THEN mapped ELSE size

\* extend_mmap: the mapping only grows.
extend_mmap(size) == IF size <= mapped THEN mapped ELSE size

Init ==
    /\ pc = "closed"
    /\ kv = Blank
    /\ durable = 0
    /\ mapped = 0
    /\ readers = [r \in Readers |-> NoReader]
    /\ tx = NoTx
    /\ cache = Fresh
    /\ disk = {Fresh}

-----------------------------------------------------------------------------
(* Opening and closing the file *)

\* Faulty: a root in the last page is out of range.
valid_root_short(meta) ==
    /\ meta # Blank
    /\ meta.version # 0
    /\ meta.space.top >= 2
    /\ meta.root + 1 < meta.space.top

\* read_root's checks of a meta page that carries the signature.
valid(meta) ==
    /\ meta # Blank
    /\ meta.version # 0
    /\ meta.space.top >= 2
    /\ meta.root < meta.space.top
    /\ meta.space.nodes # <<>>
    /\ Head(meta.space.nodes) < meta.space.top
    /\ Last(meta.space.nodes) < meta.space.top

\* KV::open with read_root of an empty file or of a meta page.
open ==
    /\ pc \in {"closed", "refused"}
    /\ cache = Fresh \/ valid(cache)
    /\ kv' = cache
    /\ durable' = cache.version
    /\ mapped' = IF cache.version = 0 THEN mapped ELSE extend_mmap(cache.space.top)
    /\ pc' = "idle"
    /\ UNCHANGED <<readers, tx, cache, disk>>

\* KV::open throws: the file is not empty and page 0 has no signature, or
\* fails a check.
open_throws ==
    /\ pc \in {"closed", "refused"}
    /\ ~(cache = Fresh \/ valid(cache))
    /\ pc' = "refused"
    /\ UNCHANGED <<kv, durable, mapped, readers, tx, cache, disk>>

\* The members of KV and the handles of its process go away.
Forget ==
    /\ pc' = "closed"
    /\ kv' = Blank
    /\ durable' = 0
    /\ mapped' = 0
    /\ readers' = [r \in Readers |-> NoReader]
    /\ tx' = NoTx

\* KV::close. Every reader must have ended; the result of fsync is ignored.
close ==
    /\ pc = "idle"
    /\ \A r \in Readers : ~readers[r].open
    /\ \/ disk' = {cache}
       \/ UnsyncedReopen /\ disk' = disk
    /\ Forget
    /\ UNCHANGED cache

\* The machine stops: the disk keeps one of the page 0s it may hold.
PowerLoss ==
    /\ Forget
    /\ \E d \in disk : cache' = d /\ disk' = {d}

\* The process stops: what it wrote is still in the page cache.
ProcessCrash ==
    /\ pc \notin {"closed", "refused"}
    /\ UnsyncedReopen \/ disk = {cache}
    /\ Forget
    /\ UNCHANGED <<cache, disk>>

-----------------------------------------------------------------------------
(* Readers *)

\* KV::begin_read, under mu_.
begin_read(r) ==
    /\ pc \notin {"closed", "refused"}
    /\ ~readers[r].open
    /\ readers' = [readers EXCEPT ![r] =
           [open |-> TRUE, version |-> kv.version, tree |-> kv.tree, mapped |-> mapped]]
    /\ UNCHANGED <<pc, kv, durable, mapped, tx, cache, disk>>

\* KV::end_read, under mu_.
end_read(r) ==
    /\ readers[r].open
    /\ readers' = [readers EXCEPT ![r] = NoReader]
    /\ UNCHANGED <<pc, kv, durable, mapped, tx, cache, disk>>

-----------------------------------------------------------------------------
(* The write transaction *)

\* Faulty: the latest version is taken for a durable one.
Held_latest ==
    {kv.version} \cup {readers[r].version : r \in {q \in Readers : readers[q].open}}

\* The versions whose pages must be kept: the last durable one and the readers'.
Held == {durable} \cup {readers[r].version : r \in {q \in Readers : readers[q].open}}

\* KV::begin, once writer_ is free. A new file's first list node, page 1, is
\* buffered.
begin ==
    /\ pc = "idle"
    /\ kv.version < MaxVersion
    /\ \E oldest \in Held :
          /\ \A w \in Held : oldest <= w
          /\ tx' = [root |-> kv.root, tree |-> kv.tree,
                    space |-> [kv.space EXCEPT
                                  !.updates = IF kv.version = 0 THEN {1} ELSE {}],
                    min_reader |-> oldest, mapped |-> mapped,
                    busy |-> FALSE, fresh |-> {}]
    /\ pc' = "tx"
    /\ UNCHANGED <<kv, durable, mapped, readers, cache, disk>>

\* The tree allocates a page for a node it has copied (KVTX::page_new).
TreeNew ==
    /\ pc = "tx"
    /\ LET got == page_new(tx.space, kv.version, tx.min_reader)
       IN  /\ got.space.top <= MaxPage
           /\ tx' = [tx EXCEPT !.space = got.space,
                               !.tree = tx.tree \cup {got.ptr},
                               !.fresh = tx.fresh \cup {got.ptr},
                               !.busy = TRUE]
    /\ UNCHANGED <<pc, kv, durable, mapped, readers, cache, disk>>

\* Faulty: the page is marked with the oldest reader's version.
page_del_at_min_reader(v, ptr) == push_tail(v, ptr, tx.min_reader, tx.min_reader)

\* KVTX::page_del
page_del(v, ptr) == push_tail(v, ptr, kv.version, tx.min_reader)

\* The tree drops a node it has replaced.
TreeDel(p) ==
    /\ pc = "tx"
    /\ p \in tx.tree \ tx.fresh
    /\ LET space == page_del(tx.space, p)
       IN  /\ space.top <= MaxPage
           /\ tx' = [tx EXCEPT !.space = space, !.tree = tx.tree \ {p}, !.busy = TRUE]
    /\ UNCHANGED <<pc, kv, durable, mapped, readers, cache, disk>>

\* KVTX::set or del returns: the old root is dropped and the new one is a page
\* this call allocated.
TreeDone(root) ==
    /\ pc = "tx"
    /\ tx.busy
    /\ root \in tx.fresh
    /\ tx.root \notin tx.tree
    /\ tx' = [tx EXCEPT !.root = root, !.fresh = {}, !.busy = FALSE]
    /\ UNCHANGED <<pc, kv, durable, mapped, readers, cache, disk>>

\* The transaction ends, whatever its outcome: writer_ is released.
EndTx == pc' = "idle" /\ tx' = NoTx

\* KV::abort
abort ==
    /\ pc = "tx"
    /\ ~tx.busy
    /\ EndTx
    /\ UNCHANGED <<kv, durable, mapped, readers, cache, disk>>

-----------------------------------------------------------------------------
(* KV::commit *)

\* commit returns early when the root has not moved.
commit_no_writes ==
    /\ pc = "tx"
    /\ ~tx.busy
    /\ tx.root = kv.root
    /\ EndTx
    /\ UNCHANGED <<kv, durable, mapped, readers, cache, disk>>

\* Page 0 after a write past it: an empty file gets a hole of zeroes there.
Holed(meta) == IF meta = Fresh THEN Blank ELSE meta

\* KV::write_pages succeeds.
write_pages ==
    /\ pc = "tx"
    /\ ~tx.busy
    /\ tx.root # kv.root
    /\ mapped' = extend_mmap(tx.space.top)
    /\ cache' = Holed(cache)
    /\ disk' = disk \cup {Holed(cache)}
    /\ pc' = "wrote"
    /\ UNCHANGED <<kv, durable, readers, tx>>

\* KV::write_pages throws: from mmap, or from pwritev after none or some of
\* the pages were written.
write_pages_fails ==
    /\ pc = "tx"
    /\ ~tx.busy
    /\ tx.root # kv.root
    /\ \/ UNCHANGED <<mapped, cache, disk>>
       \/ /\ mapped' = extend_mmap(tx.space.top)
          /\ cache' \in {cache, Holed(cache)}
          /\ disk' = disk \cup {cache'}
    /\ EndTx
    /\ UNCHANGED <<kv, durable, readers>>

\* The fsync of phase 1 succeeds and the new version is published. A page 0
\* whose own fsync failed before may be on disk now, or still not: the kernel
\* may have marked it clean when that fsync failed.
publish ==
    /\ pc = "wrote"
    /\ kv' = [root |-> tx.root, tree |-> tx.tree, version |-> kv.version + 1,
              space |-> [tx.space EXCEPT !.updates = {}]]
    /\ disk' \in {disk, {cache}}
    /\ pc' = "published"
    /\ tx' = NoTx
    /\ UNCHANGED <<durable, mapped, readers, cache>>

\* The fsync of phase 1 fails.
publish_fails ==
    /\ pc = "wrote"
    /\ EndTx
    /\ UNCHANGED <<kv, durable, mapped, readers, cache, disk>>

\* KV::update_root succeeds.
update_root ==
    /\ pc = "published"
    /\ cache' = kv
    /\ disk' = disk \cup {kv}
    /\ pc' = "rooted"
    /\ UNCHANGED <<kv, durable, mapped, readers, tx>>

\* KV::update_root throws: page 0 is the old or the new one.
update_root_fails ==
    /\ pc = "published"
    /\ cache' \in {cache, kv}
    /\ disk' = disk \cup {cache'}
    /\ EndTx
    /\ UNCHANGED <<kv, durable, mapped, readers>>

\* The fsync of phase 2 succeeds: the version is durable.
sync_root ==
    /\ pc = "rooted"
    /\ disk' = {cache}
    /\ durable' = kv.version
    /\ EndTx
    /\ UNCHANGED <<kv, mapped, readers, cache>>

\* Faulty: the failure is ignored.
sync_root_fails_unseen ==
    /\ pc = "rooted"
    /\ durable' = kv.version
    /\ EndTx
    /\ UNCHANGED <<kv, mapped, readers, cache, disk>>

\* Faulty: the meta page is written again until it works.
sync_root_fails_retries ==
    /\ pc = "rooted"
    /\ pc' = "published"
    /\ UNCHANGED <<kv, durable, mapped, readers, tx, cache, disk>>

\* The fsync of phase 2 fails: the version stays, as not known to be durable.
sync_root_fails ==
    /\ pc = "rooted"
    /\ EndTx
    /\ UNCHANGED <<kv, durable, mapped, readers, cache, disk>>

CommitStep ==
    \/ publish \/ publish_fails
    \/ update_root \/ update_root_fails
    \/ sync_root \/ sync_root_fails

-----------------------------------------------------------------------------
Next ==
    \/ open \/ open_throws \/ close \/ PowerLoss \/ ProcessCrash
    \/ \E r \in Readers : begin_read(r) \/ end_read(r)
    \/ begin \/ TreeNew \/ abort
    \/ \E p \in tx.tree : TreeDel(p)
    \/ \E p \in tx.fresh : TreeDone(p)
    \/ commit_no_writes \/ write_pages \/ write_pages_fails
    \/ CommitStep

Spec == Init /\ [][Next]_vars

\* A commit runs to its end on the thread that called it: its steps do not
\* wait for anything but the system calls they make.
FairSpec == Spec /\ WF_vars(CommitStep)

-----------------------------------------------------------------------------
(* Types *)

Version == [root : Nat, tree : SUBSET Page, version : Nat, space : Space]

TypeOK ==
    /\ pc \in {"closed", "refused", "idle", "tx", "wrote", "published", "rooted"}
    /\ kv \in Version
    /\ durable \in Nat
    /\ mapped \in Nat
    /\ readers \in [Readers -> [open : BOOLEAN, version : Nat,
                                tree : SUBSET Page, mapped : Nat]]
    /\ tx \in [root : Nat, tree : SUBSET Page, space : Space, min_reader : Nat,
              mapped : Nat, busy : BOOLEAN, fresh : SUBSET Page]
    /\ cache \in Version
    /\ disk \in SUBSET Version

-----------------------------------------------------------------------------
(* Safety *)

InTx == pc \in {"tx", "wrote"}

\* The versions a reopen, or the next transaction, may start from.
Metas == disk \cup (IF pc \in {"closed", "refused"} THEN {} ELSE {kv})

\* What the comment above KV::commit promises of phase 1: it writes no page of
\* a tree that an open reader, the latest version or a meta page that may be on
\* disk reaches, and of their free lists only the tail node.
NoOverwrite ==
    InTx =>
        /\ \A r \in Readers : tx.space.updates \cap readers[r].tree = {}
        /\ \A m \in Metas :
              /\ tx.space.updates \cap m.tree = {}
              /\ \A n \in tx.space.updates \cap Nodes(m.space) :
                    n = Last(m.space.nodes)

\* No page is lost or used twice (KVTX::page_new, page_del and FreeList), in
\* the running transaction, in the latest version and in whatever meta page a
\* power loss leaves, except for a file that was never formatted.
PagesAccounted ==
    /\ InTx => Partitioned(tx.tree, tx.space)
    /\ \A m \in Metas \ {Blank} : Partitioned(m.tree, m.space)

\* The early return of KV::commit loses no write: a transaction whose root is
\* the latest version's has its tree.
SkipOnlyIfClean ==
    pc = "tx" /\ ~tx.busy /\ tx.root = kv.root => tx.tree = kv.tree

\* A commit that returned survives a power loss (kv.h: durable_version_ is
\* "version_ as of the last meta page known to be durable").
AckedSurvives == \A d \in disk : durable <= d.version

\* KVReader::page_get_mapped finds page p in the chunks copied at the start.
page_get_mapped(limit, p) == p < limit

\* KVTX::page_read finds p: a buffered page shadows the mapped one.
page_read(p) == p \in tx.space.updates \/ page_get_mapped(tx.mapped, p)

\* Every read finds its page mapped: a reader's through the chunks copied at
\* begin_read, a transaction's through those or its own buffered writes.
MappedReads ==
    /\ \A r \in Readers : \A p \in readers[r].tree : page_get_mapped(readers[r].mapped, p)
    /\ InTx => \A p \in tx.tree \cup Nodes(tx.space) : page_read(p)

\* "Versions never decrease, so the list is in version order and pop only has
\* to check the head" (freelist.h), across failed commits and crashes.
ItemsInVersionOrder ==
    \A m \in Metas : \A i, j \in DOMAIN m.space.items :
        i <= j => m.space.items[i].ver <= m.space.items[j].ver

\* The file can be opened, as long as nobody else writes it.
NeverRefused == pc # "refused"

\* open refuses nothing but a file whose page 0 was never written.
RefusesOnlyUnformatted == pc = "refused" => cache = Blank

-----------------------------------------------------------------------------
(* Liveness *)

\* However a commit ends, it ends, and the writer_ lock is free again.
CommitEnds == pc \in {"wrote", "published", "rooted"} ~> pc \in {"idle", "closed"}
=============================================================================
