------------------------------- MODULE KVInv -------------------------------
(***************************************************************************)
(* The inductive invariant behind KV's safety properties, proved in        *)
(* KVProofs.                                                               *)
(***************************************************************************)
EXTENDS KV

Opened == pc \notin {"closed", "refused"}

\* Every free list in use is well formed, page 0 is one the disk may hold, and
\* the update's version is not before min_reader (the assertion in push_tail).
ShapeInv ==
    /\ cache \in disk
    /\ \A d \in disk : d # Blank => Filled(d.space)
    /\ Opened => Filled(kv.space) /\ durable <= kv.version
    /\ InTx => Filled(tx.space) /\ tx.min_reader <= kv.version

TypeInv == TypeOK /\ ShapeInv

\* What some reader or some meta page still reaches: a tree, the nodes of a
\* free list, and the version they belong to.
View(tree, nodes, version) == [tree |-> tree, nodes |-> nodes, version |-> version]

Views ==
    {View(readers[r].tree, <<>>, readers[r].version) : r \in {q \in Readers : readers[q].open}}
        \cup {View(m.tree, m.space.nodes, m.version) : m \in Metas}

ViewNodes(s) == ToSet(s.nodes)

\* A page the view reaches is free only since the view's version or later, so
\* it is not handed out while min_reader is at most that version.
Guards(v, s) ==
    \A x \in ItemSet(v) : x.ptr \in s.tree \cup ViewNodes(s) => s.version <= x.ver

\* The page n may be written in place: it is no page of the view, or the tail
\* of its free list.
MayWrite(n, s) ==
    n \notin s.tree /\ (n \in ViewNodes(s) => n = Last(s.nodes))

Within(s, top) == \A p \in s.tree \cup ViewNodes(s) : p < top

\* The latest version's free list, against a view.
KvSafe(s) ==
    /\ Guards(kv.space, s)
    /\ MayWrite(Last(kv.space.nodes), s)
    /\ Within(s, kv.space.top)
    /\ s.version <= kv.version

\* The running transaction, against a view.
TxSafe(s) ==
    /\ Guards(tx.space, s)
    /\ MayWrite(Last(tx.space.nodes), s)
    /\ \A p \in tx.space.updates : MayWrite(p, s)
    /\ tx.min_reader <= s.version

KvInv == Opened => (kv.version = 0 => kv = Fresh) /\ \A s \in Views : KvSafe(s)

TxInv == InTx => tx.space.top >= kv.space.top /\ \A s \in Views : TxSafe(s)

\* What may be on disk.
DiskInv ==
    /\ \A d \in disk :
          /\ durable <= d.version
          /\ d.version = 0 => d \in {Fresh, Blank}
          /\ d # Blank => Partitioned(d.tree, d.space)
    /\ ~Opened => disk = {cache}
    /\ pc = "rooted" => cache = kv

ReaderInv ==
    \A r \in Readers :
        /\ ~readers[r].open => readers[r] = NoReader
        /\ readers[r].open => Opened
        /\ readers[r].version = 0 => readers[r].tree = {}

PartitionInv ==
    /\ Opened => Partitioned(kv.tree, kv.space)
    /\ InTx => Partitioned(tx.tree, tx.space)

\* Pages are reused only once no view reaches them.
SafeInv == TypeInv /\ KvInv /\ TxInv /\ DiskInv /\ ReaderInv /\ PartitionInv

-----------------------------------------------------------------------------
(* What holds of each version by itself, even when a file is reopened in the *)
(* boot that left its meta page unsynced.                                    *)

\* A version that can be opened.
Sound(m) ==
    /\ m.version = 0 => m = Fresh
    /\ m.root = 0 \/ m.root \in m.tree
    /\ Partitioned(m.tree, m.space)
    /\ Ordered(m.space.items, m.version)

VersionsInv ==
    /\ \A d \in disk : d = Blank \/ Sound(d)
    /\ Opened => Sound(kv)
    /\ pc = "refused" => cache = Blank

\* The running transaction and the version it started from: it hands out no
\* page of that version's tree, and unless it is in the middle of an operation
\* its root is a page of its own tree.
RunInv ==
    InTx =>
        /\ Partitioned(tx.tree, tx.space)
        /\ Ordered(tx.space.items, kv.version)
        /\ kv.space.top <= tx.space.top
        /\ TxSafe(View(kv.tree, kv.space.nodes, kv.version))
        /\ tx.fresh \subseteq tx.tree \cap tx.space.updates
        /\ ~tx.busy => tx.root = 0 \/ tx.root \in tx.tree
        /\ ~tx.busy /\ tx.root = kv.root => tx.tree = kv.tree
        /\ pc = "wrote" => ~tx.busy

\* What is mapped covers what can be read, except for a file that is still empty.
MapInv ==
    /\ Opened => kv.version = 0 \/ kv.space.top <= mapped
    /\ \A r \in Readers : \A p \in readers[r].tree : page_get_mapped(readers[r].mapped, p)
    /\ InTx => \A p \in 1 .. tx.space.top - 1 : page_read(p)
    /\ pc = "wrote" => tx.space.top <= mapped

SoundInv == TypeInv /\ VersionsInv /\ RunInv /\ MapInv
=============================================================================
