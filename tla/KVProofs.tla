------------------------------ MODULE KVProofs ------------------------------
(***************************************************************************)
(* Proofs about KV for every capacity, every set of readers and every      *)
(* bound: types, that no page is overwritten while it can be reached, and  *)
(* that each version by itself is sound.                                   *)
(***************************************************************************)
EXTENDS KVInv, FreeQueueProofs

-----------------------------------------------------------------------------
(* Type correctness *)

\* The initial version and the all-zero one are versions.
LEMMA Constants ==
    /\ Fresh \in Version /\ Filled(Fresh.space) /\ Fresh # Blank
    /\ Blank \in Version
<1> USE CapAssumption
<1>1. <<>> \in Seq(Item) /\ <<>> \in Seq(Page) /\ <<1>> \in Seq(Page) /\ 0 \in 0 .. CAP - 1
    BY DEF Page
<1>2. Fresh \in Version /\ Blank \in Version
    BY <1>1 DEF Fresh, Blank, Version, Space, Page
<1>3. Fits(Len(<<>>), 0, Len(<<1>>), 0)
    <2>1. Len(<<>>) = 0 /\ Len(<<1>>) = 1
        OBVIOUS
    <2>2. Fits(0, 0, 1, 0)
        BY DEF Fits
    <2> QED  BY <2>1, <2>2
<1>4. Filled(Fresh.space)
    <2>1. /\ Fresh.space.items = <<>> /\ Fresh.space.nodes = <<1>> /\ Fresh.space.top = 2
          /\ Fresh.space.head = 0 /\ Fresh.space.tail = 0 /\ <<1>> # <<>>
        BY DEF Fresh
    <2>2. Fresh.space.top # 0
        BY <2>1
    <2> QED  BY <1>3, <2>1, <2>2, Zenon DEF Filled
<1>5. Fresh # Blank
    BY DEF Fresh, Blank
<1> QED  BY <1>2, <1>4, <1>5

\* The types of a reader and of a transaction, as TypeOK has them.
ReaderRecord == [open : BOOLEAN, version : Nat, tree : SUBSET Page, mapped : Nat]

TxRecord == [root : Nat, tree : SUBSET Page, space : Space, min_reader : Nat,
             mapped : Nat, busy : BOOLEAN, fresh : SUBSET Page]

\* No reader and no transaction are of these types.
LEMMA Defaults == NoTx \in TxRecord /\ NoReader \in ReaderRecord
<1>1. Blank.space \in Space
    BY Constants DEF Version
<1> QED  BY <1>1 DEF NoTx, NoReader, TxRecord, ReaderRecord

\* A KV that is not open, on an empty file, is well typed.
LEMMA TypeInit == Init => TypeInv
<1> SUFFICES ASSUME Init  PROVE TypeInv
    OBVIOUS
<1>1. TypeOK
    BY Constants, Defaults DEF Init, TypeOK, TxRecord, ReaderRecord
<1>2. ShapeInv
    BY Constants DEF Init, ShapeInv, Opened, InTx
<1> QED  BY <1>1, <1>2 DEF TypeInv

\* Whatever drops the members of KV leaves them well typed.
LEMMA TypeForget ==
    ASSUME TypeInv, Forget, cache' \in disk, disk' \in {disk, {cache'}}
    PROVE  TypeInv'
<1>1. TypeOK'
    BY Constants, Defaults DEF Forget, TypeInv, TypeOK, TxRecord, ReaderRecord
<1>2. ShapeInv'
    BY DEF Forget, TypeInv, ShapeInv, Opened, InTx
<1> QED  BY <1>1, <1>2 DEF TypeInv

\* A transaction's step on its space.
LEMMA TypeTx ==
    ASSUME TypeInv, InTx, UNCHANGED <<pc, kv, durable, mapped, readers, cache, disk>>,
           tx' \in TxRecord, Filled(tx'.space), tx'.min_reader = tx.min_reader
    PROVE  TypeInv'
<1>1. TypeOK'
    BY DEF TypeInv, TypeOK, TxRecord
<1>2. ShapeInv'
    BY DEF TypeInv, ShapeInv, Opened, InTx
<1> QED  BY <1>1, <1>2 DEF TypeInv

\* Every step keeps the state typed and the free lists well formed.
LEMMA TypeNext == TypeInv /\ [Next]_vars => TypeInv'
<1> SUFFICES ASSUME TypeInv, [Next]_vars  PROVE TypeInv'
    OBVIOUS
<1>t. /\ kv \in Version /\ durable \in Nat /\ mapped \in Nat
      /\ readers \in [Readers -> ReaderRecord] /\ tx \in TxRecord
      /\ cache \in Version /\ disk \in SUBSET Version
      /\ pc \in {"closed", "refused", "idle", "tx", "wrote", "published", "rooted"}
    BY DEF TypeInv, TypeOK, ReaderRecord, TxRecord
<1>s. /\ cache \in disk
      /\ \A d \in disk : d # Blank => Filled(d.space)
      /\ Opened => Filled(kv.space) /\ durable <= kv.version
      /\ InTx => Filled(tx.space) /\ tx.min_reader <= kv.version
    BY DEF TypeInv, ShapeInv
<1>0. /\ kv.root \in Nat /\ kv.tree \in SUBSET Page /\ kv.version \in Nat
      /\ kv.space \in Space /\ kv.space.top \in Nat
      /\ tx.root \in Nat /\ tx.tree \in SUBSET Page /\ tx.fresh \in SUBSET Page
      /\ tx.space \in Space /\ tx.space.top \in Nat /\ tx.min_reader \in Nat
      /\ tx.mapped \in Nat
      /\ cache.version \in Nat /\ cache.space.top \in Nat
    BY <1>t DEF Version, TxRecord, Space
<1>m. \A n \in Nat : extend_mmap(n) \in Nat
    BY <1>t DEF extend_mmap
<1>1. CASE open
    <2>1. TypeOK'
        BY <1>t, <1>0, <1>1, <1>m DEF open, TypeInv, TypeOK
    <2>2. cache # Blank
        BY <1>1, Constants DEF open, valid
    <2>3. ShapeInv'
        BY <1>s, <1>0, <1>1, <2>2 DEF open, ShapeInv, Opened, InTx
    <2> QED  BY <2>1, <2>3 DEF TypeInv
<1>2. CASE open_throws
    BY <1>2, <1>s DEF open_throws, TypeInv, TypeOK, ShapeInv, Opened, InTx
<1>3. CASE close
    BY <1>3, <1>s, TypeForget DEF close
<1>4. CASE PowerLoss
    BY <1>4, <1>s, TypeForget DEF PowerLoss
<1>5. CASE ProcessCrash
    BY <1>5, <1>s, TypeForget DEF ProcessCrash
<1>6. ASSUME NEW r \in Readers, begin_read(r) \/ end_read(r)  PROVE TypeInv'
    <2>3. [open |-> TRUE, version |-> kv.version, tree |-> kv.tree, mapped |-> mapped]
              \in ReaderRecord
        BY <1>t, <1>0 DEF ReaderRecord
    <2>4. PICK new \in ReaderRecord : readers' = [readers EXCEPT ![r] = new]
        BY <1>6, <2>3, Defaults DEF begin_read, end_read
    <2>1. readers' \in [Readers -> ReaderRecord]
        BY <1>t, <2>4
    <2>2. UNCHANGED <<pc, kv, durable, mapped, tx, cache, disk>>
        BY <1>6 DEF begin_read, end_read
    <2> QED  BY <1>s, <2>1, <2>2 DEF TypeInv, TypeOK, ShapeInv, Opened, InTx, ReaderRecord
<1>7. CASE begin
    <2>1. PICK oldest \in Held :
             /\ \A w \in Held : oldest <= w
             /\ tx' = [root |-> kv.root, tree |-> kv.tree,
                       space |-> [kv.space EXCEPT
                                     !.updates = IF kv.version = 0 THEN {1} ELSE {}],
                       min_reader |-> oldest, mapped |-> mapped,
                       busy |-> FALSE, fresh |-> {}]
        BY <1>7 DEF begin
    <2>2. Held \subseteq Nat /\ durable \in Held
        BY <1>t DEF Held, ReaderRecord
    <2>3. oldest \in Nat /\ oldest <= durable
        BY <2>1, <2>2
    <2>4. pc = "idle" /\ pc' = "tx" /\ UNCHANGED <<kv, durable, mapped, readers, cache, disk>>
        BY <1>7 DEF begin
    <2>5. (IF kv.version = 0 THEN {1} ELSE {}) \in SUBSET Page
        BY DEF Page
    <2>6. /\ tx'.space \in Space /\ tx'.space.items = kv.space.items
          /\ tx'.space.nodes = kv.space.nodes /\ tx'.space.top = kv.space.top
          /\ tx'.space.head = kv.space.head /\ tx'.space.tail = kv.space.tail
        BY <1>0, <2>1, <2>5 DEF Space
    <2>7. tx' \in TxRecord /\ tx'.min_reader = oldest
        BY <1>t, <1>0, <2>1, <2>3, <2>6 DEF TxRecord
    <2>8. Filled(tx'.space)
        BY <1>s, <2>4, <2>6 DEF Filled, Opened
    <2>9. oldest <= kv.version
        BY <1>s, <1>t, <1>0, <2>3, <2>4 DEF Opened
    <2>10. TypeOK'
        BY <2>4, <2>7 DEF TypeInv, TypeOK, TxRecord
    <2>11. ShapeInv'
        BY <1>s, <2>4, <2>7, <2>8, <2>9 DEF ShapeInv, Opened, InTx
    <2> QED  BY <2>10, <2>11 DEF TypeInv
<1>8. CASE TreeNew
    <2> DEFINE got == page_new(tx.space, kv.version, tx.min_reader)
    <2>1. InTx /\ UNCHANGED <<pc, kv, durable, mapped, readers, cache, disk>>
        BY <1>8 DEF TreeNew, InTx
    <2>2. kv.version >= tx.min_reader
        BY <1>s, <1>0, <2>1
    <2>3. got.space \in Space /\ Filled(got.space) /\ got.ptr \in Page
        BY <1>s, <1>0, <2>1, <2>2, PageNewStep
    <2>4. tx' = [tx EXCEPT !.space = got.space, !.tree = tx.tree \cup {got.ptr},
                           !.fresh = tx.fresh \cup {got.ptr}, !.busy = TRUE]
        BY <1>8 DEF TreeNew
    <2> HIDE DEF got
    <2>5. tx' \in TxRecord /\ tx'.space = got.space /\ tx'.min_reader = tx.min_reader
        BY <1>t, <1>0, <2>3, <2>4 DEF TxRecord
    <2> QED  BY <2>1, <2>3, <2>5, TypeTx
<1>9. ASSUME NEW p \in tx.tree, TreeDel(p)  PROVE TypeInv'
    <2> DEFINE space == push_tail(tx.space, p, kv.version, tx.min_reader)
    <2>1. InTx /\ UNCHANGED <<pc, kv, durable, mapped, readers, cache, disk>>
        BY <1>9 DEF TreeDel, InTx
    <2>2. kv.version >= tx.min_reader /\ p \in Page
        BY <1>s, <1>0, <2>1
    <2>3. space \in Space /\ Filled(space)
        BY <1>s, <1>0, <2>1, <2>2, PushStep
    <2>4. tx' = [tx EXCEPT !.space = space, !.tree = tx.tree \ {p}, !.busy = TRUE]
        BY <1>9 DEF TreeDel, page_del
    <2> HIDE DEF space
    <2>5. tx' \in TxRecord /\ tx'.space = space /\ tx'.min_reader = tx.min_reader
        BY <1>t, <1>0, <2>3, <2>4 DEF TxRecord
    <2> QED  BY <2>1, <2>3, <2>5, TypeTx
<1>10. ASSUME NEW p \in tx.fresh, TreeDone(p)  PROVE TypeInv'
    <2>1. InTx /\ UNCHANGED <<pc, kv, durable, mapped, readers, cache, disk>>
        BY <1>10 DEF TreeDone, InTx
    <2>2. p \in Nat
        BY <1>0 DEF Page
    <2>3. tx' \in TxRecord /\ tx'.space = tx.space /\ tx'.min_reader = tx.min_reader
        BY <1>t, <1>0, <1>10, <2>2 DEF TreeDone, TxRecord
    <2> QED  BY <1>s, <2>1, <2>3, TypeTx
<1>11. CASE abort \/ commit_no_writes
    <2>1. pc = "tx" /\ pc' = "idle" /\ tx' = NoTx
          /\ UNCHANGED <<kv, durable, mapped, readers, cache, disk>>
        BY <1>11 DEF abort, commit_no_writes, EndTx
    <2> QED  BY <1>s, <2>1, Defaults DEF TypeInv, TypeOK, ShapeInv, Opened, InTx, TxRecord
<1>h. Holed(cache) \in Version /\ (Holed(cache) # Blank => Filled(Holed(cache).space))
    BY <1>t, <1>s, Constants DEF Holed
<1>12. CASE write_pages
    <2>1. /\ pc = "tx" /\ pc' = "wrote" /\ mapped' \in Nat /\ cache' = Holed(cache)
          /\ disk' = disk \cup {Holed(cache)} /\ UNCHANGED <<kv, durable, readers, tx>>
        BY <1>0, <1>12, <1>m DEF write_pages
    <2>2. TypeOK'
        BY <1>t, <1>h, <2>1 DEF TypeInv, TypeOK
    <2>3. ShapeInv'
        BY <1>s, <1>h, <2>1 DEF ShapeInv, Opened, InTx
    <2> QED  BY <2>2, <2>3 DEF TypeInv
<1>13. CASE write_pages_fails
    <2>1. /\ pc = "tx" /\ pc' = "idle" /\ tx' = NoTx /\ mapped' \in Nat
          /\ cache' \in {cache, Holed(cache)} /\ disk' \in {disk, disk \cup {cache'}}
          /\ cache' \in disk' /\ UNCHANGED <<kv, durable, readers>>
        BY <1>t, <1>s, <1>0, <1>13, <1>m DEF write_pages_fails, EndTx
    <2>2. TypeOK'
        BY <1>t, <1>h, <2>1, Defaults DEF TypeInv, TypeOK, TxRecord
    <2>3. ShapeInv'
        BY <1>s, <1>h, <2>1 DEF ShapeInv, Opened, InTx
    <2> QED  BY <2>2, <2>3 DEF TypeInv
<1>14. CASE publish
    <2>1. /\ pc = "wrote" /\ pc' = "published" /\ tx' = NoTx
          /\ kv' = [root |-> tx.root, tree |-> tx.tree, version |-> kv.version + 1,
                    space |-> [tx.space EXCEPT !.updates = {}]]
          /\ disk' \in {disk, {cache}} /\ UNCHANGED <<durable, mapped, readers, cache>>
        BY <1>14 DEF publish
    <2>2. /\ kv'.space \in Space /\ kv'.space.items = tx.space.items
          /\ kv'.space.nodes = tx.space.nodes /\ kv'.space.top = tx.space.top
          /\ kv'.space.head = tx.space.head /\ kv'.space.tail = tx.space.tail
        BY <1>0, <2>1 DEF Space
    <2>3. kv.version + 1 \in Nat /\ durable <= kv.version + 1
        BY <1>t, <1>s, <1>0, <2>1 DEF Opened
    <2>4. kv' \in Version /\ kv'.version = kv.version + 1
        BY <1>0, <2>1, <2>2, <2>3 DEF Version
    <2>5. Filled(kv'.space)
        BY <1>s, <2>1, <2>2 DEF Filled, InTx
    <2>6. TypeOK'
        BY <1>t, <2>1, <2>4, Defaults DEF TypeInv, TypeOK, TxRecord
    <2>7. ShapeInv'
        BY <1>s, <2>1, <2>3, <2>4, <2>5 DEF ShapeInv, Opened, InTx
    <2> QED  BY <2>6, <2>7 DEF TypeInv
<1>15. CASE publish_fails \/ sync_root_fails
    <2>1. /\ pc \in {"wrote", "rooted"} /\ pc' = "idle" /\ tx' = NoTx
          /\ UNCHANGED <<kv, durable, mapped, readers, cache, disk>>
        BY <1>15 DEF publish_fails, sync_root_fails, EndTx
    <2> QED  BY <1>s, <2>1, Defaults DEF TypeInv, TypeOK, ShapeInv, Opened, InTx, TxRecord
<1>16. CASE update_root
    <2>1. pc = "published" /\ pc' = "rooted"
        BY <1>16 DEF update_root
    <2>2. TypeOK'
        BY <1>t, <1>16 DEF update_root, TypeInv, TypeOK
    <2>3. ShapeInv'
        BY <1>s, <1>16, <2>1 DEF update_root, ShapeInv, Opened, InTx
    <2> QED  BY <2>2, <2>3 DEF TypeInv
<1>17. CASE update_root_fails
    <2>1. pc = "published" /\ pc' = "idle" /\ tx' = NoTx
        BY <1>17 DEF update_root_fails, EndTx
    <2>2. TypeOK'
        BY <1>t, <1>17, <2>1, Defaults DEF update_root_fails, TypeInv, TypeOK, TxRecord
    <2>3. ShapeInv'
        BY <1>s, <1>17, <2>1 DEF update_root_fails, ShapeInv, Opened, InTx
    <2> QED  BY <2>2, <2>3 DEF TypeInv
<1>18. CASE sync_root
    <2>1. pc = "rooted" /\ pc' = "idle" /\ tx' = NoTx /\ durable' = kv.version
          /\ disk' = {cache} /\ UNCHANGED <<kv, mapped, readers, cache>>
        BY <1>18 DEF sync_root, EndTx
    <2>2. kv.version <= kv.version
        BY <1>0
    <2>3. TypeOK'
        BY <1>t, <1>0, <2>1, Defaults DEF TypeInv, TypeOK, TxRecord
    <2>4. ShapeInv'
        BY <1>s, <2>1, <2>2 DEF ShapeInv, Opened, InTx
    <2> QED  BY <2>3, <2>4 DEF TypeInv
<1>19. CASE UNCHANGED vars
    BY <1>19 DEF vars, TypeInv, TypeOK, ShapeInv, Opened, InTx
<1> QED
    BY <1>1, <1>2, <1>3, <1>4, <1>5, <1>6, <1>7, <1>8, <1>9, <1>10, <1>11, <1>12,
       <1>13, <1>14, <1>15, <1>16, <1>17, <1>18, <1>19
    DEF Next, CommitStep

\* TypeOK holds in every reachable state, whatever fails and whenever the
\* machine or the process stops.
THEOREM TypeCorrect == Spec => []TypeOK
<1>1. TypeInv => TypeOK
    BY DEF TypeInv
<1> QED  BY <1>1, TypeInit, TypeNext, PTL DEF Spec

-----------------------------------------------------------------------------
(* No page is overwritten while it can be reached *)

\* The view of a meta page.
MetaView(m) == View(m.tree, m.space.nodes, m.version)

\* Which views there are.
LEMMA ViewCases ==
    \A s : s \in Views <=>
        \/ \E r \in Readers : readers[r].open /\ s = View(readers[r].tree, <<>>, readers[r].version)
        \/ \E m \in Metas : s = MetaView(m)
BY DEF Views, MetaView

\* Views are well typed.
LEMMA ViewTypes ==
    ASSUME TypeInv, NEW s \in Views
    PROVE  s.version \in Nat /\ s.tree \in SUBSET Page /\ s.nodes \in Seq(Page)
<1>1. \A m \in Metas : m \in Version
    BY DEF TypeInv, TypeOK, Metas
<1>2. \A m \in Metas : m.version \in Nat /\ m.tree \in SUBSET Page /\ m.space.nodes \in Seq(Page)
    BY <1>1 DEF Version, Space
<1>3. \A r \in Readers : readers[r].version \in Nat /\ readers[r].tree \in SUBSET Page
    BY DEF TypeInv, TypeOK
<1>4. <<>> \in Seq(Page)
    OBVIOUS
<1>5. CASE \E r \in Readers : s = View(readers[r].tree, <<>>, readers[r].version)
    BY <1>3, <1>4, <1>5 DEF View
<1>6. CASE \E m \in Metas : s = MetaView(m)
    BY <1>2, <1>6 DEF MetaView, View
<1> QED  BY <1>5, <1>6, ViewCases

\* A version whose pages are accounted for may be updated as far as its own
\* tree and list are concerned.
LEMMA SelfView ==
    ASSUME NEW m \in Version, Filled(m.space), Partitioned(m.tree, m.space)
    PROVE  LET s == MetaView(m)
           IN  /\ Guards(m.space, s) /\ MayWrite(Last(m.space.nodes), s)
               /\ Within(s, m.space.top) /\ s.version <= m.version
<1> DEFINE s == MetaView(m)
<1>1. /\ s.tree = m.tree /\ s.nodes = m.space.nodes /\ s.version = m.version
      /\ ViewNodes(s) = Nodes(m.space)
    BY DEF MetaView, View, ViewNodes, Nodes
<1>2. /\ m.tree \cap Nodes(m.space) = {} /\ m.tree \cap Ptrs(m.space) = {}
      /\ Nodes(m.space) \cap Ptrs(m.space) = {}
      /\ m.tree \cup Nodes(m.space) \cup Ptrs(m.space) = 1 .. m.space.top - 1
    BY DEF Partitioned, Unshared
<1>3. m.space.nodes \in Seq(Page) /\ m.space.nodes # <<>> /\ m.space.top \in Nat /\ m.version \in Nat
    BY DEF Version, Space, Filled
<1>4. Last(m.space.nodes) \in Nodes(m.space)
    BY <1>3, LastIn DEF Nodes
<1>5. \A x \in ItemSet(m.space) : x.ptr \in Ptrs(m.space)
    BY DEF Ptrs, PtrSet, ItemSet
<1> HIDE DEF s
<1>6. Guards(m.space, s)
    BY <1>1, <1>2, <1>5 DEF Guards
<1>7. MayWrite(Last(m.space.nodes), s)
    BY <1>1, <1>2, <1>4 DEF MayWrite
<1>8. Within(s, m.space.top)
    <2>1. \A p \in 1 .. m.space.top - 1 : p < m.space.top
        BY <1>3
    <2> QED  BY <1>1, <1>2, <2>1 DEF Within
<1>9. s.version <= m.version
    BY <1>1, <1>3
<1> QED  BY <1>6, <1>7, <1>8, <1>9 DEF s

\* A view without its list's nodes asks for less: what begin_read adds.
LEMMA LesserView ==
    ASSUME NEW tree, NEW nodes, NEW version, NEW v, NEW n, NEW top
    PROVE  LET s == View(tree, nodes, version)
               t == View(tree, <<>>, version)
           IN  /\ Guards(v, s) => Guards(v, t)
               /\ MayWrite(n, s) => MayWrite(n, t)
               /\ Within(s, top) => Within(t, top)
               /\ t.version = s.version
<1> DEFINE s == View(tree, nodes, version)
           t == View(tree, <<>>, version)
<1>1. /\ s.tree = tree /\ t.tree = tree /\ s.version = version /\ t.version = version
      /\ ViewNodes(t) = {}
    BY DEF View, ViewNodes, ToSet
<1> HIDE DEF s, t
<1>2. Guards(v, s) => Guards(v, t)
    BY <1>1 DEF Guards
<1>3. MayWrite(n, s) => MayWrite(n, t)
    BY <1>1 DEF MayWrite
<1>4. Within(s, top) => Within(t, top)
    BY <1>1 DEF Within
<1> QED  BY <1>1, <1>2, <1>3, <1>4 DEF s, t

\* The all-zero version reaches nothing.
LEMMA BlankView ==
    LET s == MetaView(Blank)
    IN  /\ s.version = 0
        /\ \A v : Guards(v, s)
        /\ \A n : MayWrite(n, s)
        /\ \A top : Within(s, top)
<1> DEFINE s == MetaView(Blank)
<1>1. s.tree = {} /\ s.nodes = <<>> /\ s.version = 0
    BY DEF MetaView, View, Blank
<1>2. ViewNodes(s) = {}
    BY <1>1 DEF ViewNodes, ToSet
<1> HIDE DEF s
<1> QED  BY <1>1, <1>2 DEF Guards, MayWrite, Within, s

\* A page that may be taken from v is none the view reaches.
LEMMA TakenSafe ==
    ASSUME NEW v \in Space, NEW s, s.version \in Nat, NEW m \in Nat, m <= s.version,
           Guards(v, s), Within(s, v.top), NEW p \in Nat, Taken(p, v, m)
    PROVE  MayWrite(p, s)
<1>1. v.top \in Nat /\ \A x \in ItemSet(v) : x.ver \in Nat
    <2>1. v.top \in Nat /\ v.items \in Seq(Item)
        BY DEF Space
    <2>2. \A x \in ItemSet(v) : x \in Item
        BY <2>1 DEF ItemSet, ToSet
    <2> QED  BY <2>1, <2>2 DEF Item
<1>2. p \notin s.tree \cup ViewNodes(s)
    <2>1. CASE p >= v.top
        BY <1>1, <2>1 DEF Within
    <2>2. CASE \E x \in ItemSet(v) : x.ptr = p /\ x.ver < m
        BY <1>1, <2>2 DEF Guards
    <2> QED  BY <2>1, <2>2 DEF Taken
<1> QED  BY <1>2 DEF MayWrite

\* What an update may do to its space keeps it safe against a view.
LEMMA EvolvesSafe ==
    ASSUME NEW v \in Space, NEW w \in Space, w.nodes # <<>>, NEW s, s.version \in Nat,
           NEW m \in Nat, m <= s.version, NEW version \in Nat, s.version <= version,
           Guards(v, s), Within(s, v.top), MayWrite(Last(v.nodes), s),
           \A p \in v.updates : MayWrite(p, s), Evolves(v, w, version, m)
    PROVE  /\ Guards(w, s) /\ MayWrite(Last(w.nodes), s)
           /\ \A p \in w.updates : MayWrite(p, s)
<1>1. \A p \in Nat : Taken(p, v, m) => MayWrite(p, s)
    BY TakenSafe
<1>2. Last(w.nodes) \in Nat /\ w.updates \subseteq Nat
    BY LastIn DEF Space, Page
<1>3. Guards(w, s)
    BY DEF Guards, Evolves
<1>4. MayWrite(Last(w.nodes), s)
    BY <1>1, <1>2 DEF Evolves
<1>5. ASSUME NEW p \in w.updates  PROVE MayWrite(p, s)
    BY <1>1, <1>2, <1>5 DEF Evolves
<1> QED  BY <1>3, <1>4, <1>5

\* The facts SafeInv states, for later steps.
LEMMA SafeFacts ==
    ASSUME SafeInv
    PROVE  /\ kv \in Version /\ kv.version \in Nat /\ kv.space \in Space /\ kv.space.top \in Nat
           /\ tx \in TxRecord /\ tx.space \in Space /\ tx.space.top \in Nat /\ tx.min_reader \in Nat
           /\ durable \in Nat /\ cache \in Version /\ cache \in disk /\ disk \subseteq Version
           /\ readers \in [Readers -> ReaderRecord]
BY DEF SafeInv, TypeInv, TypeOK, ShapeInv, Version, TxRecord, ReaderRecord, Space

\* Nothing but the fields of the transaction changes.
LEMMA SafeTx ==
    ASSUME SafeInv, TypeInv', InTx, UNCHANGED <<pc, kv, durable, readers, cache, disk>>,
           tx'.space.top >= kv.space.top, Partitioned(tx'.tree, tx'.space),
           \A s \in Views : TxSafe(s)'
    PROVE  SafeInv'
<1>1. Opened' = Opened /\ InTx' = InTx /\ Views' = Views
    BY DEF Opened, InTx, Views, Metas
<1>2. KvInv'
    BY <1>1 DEF SafeInv, KvInv, KvSafe
<1>3. TxInv'
    BY <1>1 DEF SafeInv, TxInv
<1>4. DiskInv' /\ ReaderInv'
    BY <1>1 DEF SafeInv, DiskInv, ReaderInv
<1>5. PartitionInv'
    BY <1>1 DEF SafeInv, PartitionInv
<1> QED  BY <1>2, <1>3, <1>4, <1>5 DEF SafeInv

\* A new file has one page, its first list node.
LEMMA FreshPartitioned == Partitioned(Fresh.tree, Fresh.space)
<1>1. /\ Fresh.tree = {} /\ Fresh.space.items = <<>> /\ Fresh.space.nodes = <<1>>
      /\ Fresh.space.top = 2
    BY DEF Fresh
<1>2. Nodes(Fresh.space) = {1} /\ Ptrs(Fresh.space) = {}
    BY <1>1 DEF Nodes, Ptrs, PtrSet, ToSet
<1>3. Distinct(<<>>) /\ IsInjective(<<1>>)
    BY DEF Distinct, IsInjective
<1>4. 1 .. Fresh.space.top - 1 = {1}
    BY <1>1
<1> QED  BY <1>1, <1>2, <1>3, <1>4 DEF Partitioned, Unshared

\* Init satisfies the invariant.
LEMMA SafeInit == Init => SafeInv
<1> SUFFICES ASSUME Init  PROVE SafeInv
    OBVIOUS
<1>1. TypeInv /\ ~Opened /\ ~InTx /\ disk = {cache} /\ cache = Fresh /\ durable = 0 /\ pc = "closed"
    BY TypeInit DEF Init, Opened, InTx
<1>2. Fresh.version = 0 /\ Partitioned(Fresh.tree, Fresh.space)
    BY FreshPartitioned DEF Fresh
<1>3. DiskInv
    BY <1>1, <1>2 DEF DiskInv
<1>4. ReaderInv
    BY DEF Init, ReaderInv, NoReader
<1> QED  BY <1>1, <1>3, <1>4 DEF SafeInv, KvInv, TxInv, PartitionInv

\* The process or the machine stops and leaves one meta page.
LEMMA SafeForget ==
    ASSUME SafeInv, TypeInv', Forget, cache' \in disk, disk' = {cache'}
    PROVE  SafeInv'
<1>1. ~Opened' /\ ~InTx' /\ pc' = "closed" /\ durable' = 0
    BY DEF Forget, Opened, InTx
<1>2. cache' \in Version /\ cache'.version \in Nat
    BY SafeFacts DEF Version
<1>3. DiskInv'
    BY <1>1, <1>2 DEF SafeInv, DiskInv
<1>4. ReaderInv'
    BY <1>1 DEF Forget, ReaderInv, NoReader
<1> QED  BY <1>1, <1>3, <1>4 DEF SafeInv, KvInv, TxInv, PartitionInv

\* open starts from the only meta page there is, with no reader.
LEMMA SafeOpen ==
    ASSUME SafeInv, TypeInv', open
    PROVE  SafeInv'
<1>1. /\ ~Opened /\ Opened' /\ ~InTx' /\ pc' = "idle" /\ kv' = cache /\ durable' = cache.version
      /\ UNCHANGED <<readers, cache, disk>>
    BY DEF open, Opened, InTx
<1>2. /\ cache # Blank /\ disk = {cache} /\ cache \in Version /\ cache.version \in Nat
      /\ Filled(cache.space) /\ Partitioned(cache.tree, cache.space)
      /\ cache.version = 0 => cache = Fresh
    <2>1. cache # Blank
        BY Constants DEF open, valid
    <2>2. cache \in Version /\ cache.version \in Nat /\ cache \in disk
        BY SafeFacts DEF Version
    <2> QED  BY <1>1, <2>1, <2>2 DEF SafeInv, DiskInv, TypeInv, ShapeInv
<1>3. \A r \in Readers : ~readers[r].open
    BY <1>1 DEF SafeInv, ReaderInv
<1>4. Views' = {MetaView(cache)}
    BY <1>1, <1>2, <1>3 DEF Views, MetaView, Metas, Opened
<1>5. \A s \in Views' : KvSafe(s)'
    BY <1>1, <1>2, <1>4, SelfView DEF KvSafe
<1>6. KvInv'
    BY <1>1, <1>2, <1>5 DEF KvInv
<1>7. DiskInv'
    BY <1>1, <1>2 DEF DiskInv
<1>8. ReaderInv'
    BY <1>1 DEF SafeInv, ReaderInv
<1> QED  BY <1>1, <1>2, <1>6, <1>7, <1>8 DEF SafeInv, TxInv, PartitionInv

\* begin_read adds a view of the latest version's tree.
LEMMA SafeBeginRead ==
    ASSUME SafeInv, TypeInv', NEW r \in Readers, begin_read(r)
    PROVE  SafeInv'
<1> DEFINE t == View(kv.tree, <<>>, kv.version)
<1>1. /\ Opened /\ Opened' /\ InTx' = InTx /\ UNCHANGED <<pc, kv, durable, tx, cache, disk>>
      /\ Metas' = Metas /\ kv \in Metas
    BY DEF begin_read, Opened, InTx, Metas
<1>2. /\ \A q \in Readers \ {r} : readers'[q] = readers[q]
      /\ readers'[r].open /\ readers'[r].tree = kv.tree /\ readers'[r].version = kv.version
    BY SafeFacts DEF begin_read
<1>3. \A s \in Views' : s \in Views \/ s = t
    BY <1>1, <1>2 DEF Views
<1>4. MetaView(kv) \in Views
    BY <1>1, ViewCases
<1>5. \A v : Guards(v, MetaView(kv)) => Guards(v, t)
    BY LesserView DEF MetaView
<1>6. \A n : MayWrite(n, MetaView(kv)) => MayWrite(n, t)
    BY LesserView DEF MetaView
<1>7. \A top : Within(MetaView(kv), top) => Within(t, top)
    BY LesserView DEF MetaView
<1>8. t.version = MetaView(kv).version
    BY DEF MetaView, View
<1> HIDE DEF t
<1>9. \A s \in Views' : KvSafe(s)
    <2>1. \A s \in Views : KvSafe(s)
        BY <1>1 DEF SafeInv, KvInv
    <2>2. KvSafe(t)
        BY <1>4, <1>5, <1>6, <1>7, <1>8, <2>1 DEF KvSafe
    <2> QED  BY <1>3, <2>1, <2>2
<1>10. KvInv'
    BY <1>1, <1>9 DEF SafeInv, KvInv, KvSafe
<1>11. ASSUME InTx  PROVE \A s \in Views' : TxSafe(s)
    <2>1. \A s \in Views : TxSafe(s)
        BY <1>11 DEF SafeInv, TxInv
    <2>2. TxSafe(t)
        BY <1>4, <1>5, <1>6, <1>8, <2>1 DEF TxSafe
    <2> QED  BY <1>3, <2>1, <2>2
<1>12. TxInv'
    BY <1>1, <1>11 DEF SafeInv, TxInv, TxSafe
<1>13. DiskInv' /\ PartitionInv'
    BY <1>1 DEF SafeInv, DiskInv, PartitionInv
<1>14. ReaderInv'
    <2>1. kv.version = 0 => kv.tree = {}
        BY <1>1 DEF SafeInv, KvInv, Fresh
    <2> QED  BY <1>1, <1>2, <2>1 DEF SafeInv, ReaderInv
<1> QED  BY <1>10, <1>12, <1>13, <1>14 DEF SafeInv

\* end_read only takes a view away.
LEMMA SafeEndRead ==
    ASSUME SafeInv, TypeInv', NEW r \in Readers, end_read(r)
    PROVE  SafeInv'
<1>1. /\ Opened' = Opened /\ InTx' = InTx /\ UNCHANGED <<pc, kv, durable, tx, cache, disk>>
      /\ Metas' = Metas
    BY DEF end_read, Opened, InTx, Metas
<1>2. /\ \A q \in Readers \ {r} : readers'[q] = readers[q]
      /\ readers'[r] = NoReader
    BY SafeFacts DEF end_read
<1>3. Views' \subseteq Views
    BY <1>1, <1>2 DEF Views, NoReader
<1>4. KvInv'
    BY <1>1, <1>3 DEF SafeInv, KvInv, KvSafe
<1>5. TxInv'
    BY <1>1, <1>3 DEF SafeInv, TxInv, TxSafe
<1>6. DiskInv' /\ PartitionInv'
    BY <1>1 DEF SafeInv, DiskInv, PartitionInv
<1>7. ReaderInv'
    BY <1>1, <1>2 DEF SafeInv, ReaderInv, NoReader
<1> QED  BY <1>4, <1>5, <1>6, <1>7 DEF SafeInv

\* begin takes the oldest version anybody holds, and buffers at most page 1.
LEMMA SafeBegin ==
    ASSUME SafeInv, TypeInv', begin
    PROVE  SafeInv'
<1>1. /\ Opened /\ Opened' /\ InTx' /\ pc' = "tx" /\ UNCHANGED <<kv, durable, readers, cache, disk>>
      /\ Metas' = Metas /\ Views' = Views
    BY DEF begin, Opened, InTx, Metas, Views
<1>2. PICK oldest \in Held :
         /\ \A w \in Held : oldest <= w
         /\ tx' = [root |-> kv.root, tree |-> kv.tree,
                   space |-> [kv.space EXCEPT
                                 !.updates = IF kv.version = 0 THEN {1} ELSE {}],
                   min_reader |-> oldest, mapped |-> mapped,
                   busy |-> FALSE, fresh |-> {}]
    BY DEF begin
<1>3. /\ tx'.space.items = kv.space.items /\ tx'.space.nodes = kv.space.nodes
      /\ tx'.space.top = kv.space.top /\ tx'.tree = kv.tree /\ tx'.min_reader = oldest
      /\ tx'.space.updates = IF kv.version = 0 THEN {1} ELSE {}
    BY <1>2, SafeFacts DEF Space
<1>4. \A p \in tx'.space.updates : p = Last(kv.space.nodes)
    <2>1. kv.version = 0 => kv.space.nodes = <<1>>
        BY <1>1 DEF SafeInv, KvInv, Fresh
    <2>2. Last(<<1>>) = 1
        BY DEF Last
    <2> QED  BY <1>3, <2>1, <2>2
<1>5. Held \subseteq Nat /\ durable \in Held
    BY SafeFacts DEF Held, ReaderRecord
<1>6. \A s \in Views : oldest <= s.version
    <2>1. \A r \in Readers : readers[r].open => readers[r].version \in Held
        BY DEF Held
    <2>2. \A m \in Metas : m.version \in Nat /\ durable <= m.version
        BY <1>1, SafeFacts DEF Metas, SafeInv, DiskInv, TypeInv, ShapeInv, Version
    <2>3. \A m \in Metas : oldest <= m.version
        BY <1>2, <1>5, <2>2
    <2>4. ASSUME NEW s \in Views  PROVE oldest <= s.version
        <3>1. CASE \E r \in Readers : readers[r].open /\ s = View(readers[r].tree, <<>>, readers[r].version)
            BY <1>2, <2>1, <3>1 DEF View
        <3>2. CASE \E m \in Metas : s = MetaView(m)
            BY <2>3, <3>2 DEF MetaView, View
        <3> QED  BY <3>1, <3>2, ViewCases
    <2> QED  BY <2>4
<1>7. \A s \in Views : KvSafe(s)
    BY <1>1 DEF SafeInv, KvInv
<1>8. \A s \in Views : TxSafe(s)'
    <2>1. ItemSet(tx'.space) = ItemSet(kv.space)
        BY <1>3 DEF ItemSet
    <2> QED  BY <1>3, <1>4, <1>6, <1>7, <2>1 DEF KvSafe, TxSafe, Guards
<1>9. TxInv'
    <2>1. tx'.space.top >= kv.space.top
        BY <1>3, SafeFacts
    <2> QED  BY <1>1, <1>8, <2>1 DEF TxInv
<1>10. KvInv'
    BY <1>1 DEF SafeInv, KvInv, KvSafe
<1>11. DiskInv' /\ ReaderInv'
    BY <1>1 DEF SafeInv, DiskInv, ReaderInv
<1>12. PartitionInv'
    <2>1. Partitioned(kv.tree, kv.space)
        BY <1>1 DEF SafeInv, PartitionInv
    <2>2. Partitioned(tx'.tree, tx'.space)
        BY <1>3, <2>1 DEF Partitioned, Unshared, Nodes, Ptrs
    <2> QED  BY <1>1, <2>1, <2>2 DEF PartitionInv
<1> QED  BY <1>9, <1>10, <1>11, <1>12 DEF SafeInv

\* An update of the space, by page_new or page_del.
LEMMA SafeUpdate ==
    ASSUME SafeInv, TypeInv', InTx, UNCHANGED <<pc, kv, durable, readers, cache, disk>>,
           tx'.space \in Space, Filled(tx'.space), tx'.min_reader = tx.min_reader,
           Evolves(tx.space, tx'.space, kv.version, tx.min_reader),
           Partitioned(tx'.tree, tx'.space)
    PROVE  SafeInv'
<1>1. Opened
    BY DEF Opened, InTx
<1>2. tx'.space.top >= kv.space.top
    <2>1. tx'.space.top \in Nat /\ tx'.space.top >= tx.space.top
        BY SafeFacts DEF Evolves, Space
    <2> QED  BY <2>1, SafeFacts DEF SafeInv, TxInv
<1>3. ASSUME NEW s \in Views  PROVE TxSafe(s)'
    <2>1. s.version \in Nat
        BY ViewTypes DEF SafeInv
    <2>2. TxSafe(s) /\ KvSafe(s) /\ tx.space.top >= kv.space.top
        BY <1>1 DEF SafeInv, TxInv, KvInv
    <2>3. Within(s, tx.space.top)
        <3>1. \A p \in s.tree \cup ViewNodes(s) : p \in Nat /\ p < kv.space.top
            <4>1. s.nodes \in Seq(Page) /\ s.tree \in SUBSET Page
                BY ViewTypes DEF SafeInv
            <4>2. ViewNodes(s) \subseteq Page
                BY <4>1 DEF ViewNodes, ToSet
            <4> QED  BY <2>2, <4>1, <4>2 DEF KvSafe, Within, Page
        <3>2. tx.space.top \in Nat /\ kv.space.top \in Nat
            BY SafeFacts
        <3> QED  BY <2>2, <3>1, <3>2 DEF Within
    <2>4. /\ Guards(tx'.space, s) /\ MayWrite(Last(tx'.space.nodes), s)
          /\ \A p \in tx'.space.updates : MayWrite(p, s)
        <3>1. tx'.space.nodes # <<>>
            BY DEF Filled
        <3>2. /\ tx.space \in Space /\ tx.min_reader \in Nat /\ kv.version \in Nat
            BY SafeFacts
        <3> QED  BY <2>1, <2>2, <2>3, <3>1, <3>2, EvolvesSafe DEF TxSafe, KvSafe
    <2> QED  BY <2>2, <2>4 DEF TxSafe
<1> QED  BY <1>2, <1>3, SafeTx

\* The tree allocates a page.
LEMMA SafeTreeNew ==
    ASSUME SafeInv, TypeInv', TreeNew
    PROVE  SafeInv'
<1> DEFINE got == page_new(tx.space, kv.version, tx.min_reader)
<1>1. InTx /\ UNCHANGED <<pc, kv, durable, readers, cache, disk>>
    BY DEF TreeNew, InTx
<1>2. /\ tx.space \in Space /\ Filled(tx.space) /\ kv.version \in Nat /\ tx.min_reader \in Nat
      /\ kv.version >= tx.min_reader /\ tx.space.top \in Nat /\ 1 <= tx.space.top
      /\ Partitioned(tx.tree, tx.space)
    <2>1. Filled(tx.space) /\ tx.min_reader <= kv.version /\ Partitioned(tx.tree, tx.space)
        BY <1>1 DEF SafeInv, TypeInv, ShapeInv, PartitionInv
    <2> QED  BY <2>1, SafeFacts DEF Filled
<1>3. /\ got.space \in Space /\ Filled(got.space) /\ got.ptr \in Page
      /\ Evolves(tx.space, got.space, kv.version, tx.min_reader)
    BY <1>2, PageNewStep
<1>4. Unshared(tx.space) /\ Below(tx.space)
    BY <1>2, PartitionedBelow
<1>5. /\ Unshared(got.space) /\ got.ptr \notin Owned(got.space)
      /\ Owned(got.space) \cup {got.ptr} = Owned(tx.space) \cup (tx.space.top .. got.space.top - 1)
    BY <1>2, <1>4, PageNewKeeps
<1>6. tx' = [tx EXCEPT !.space = got.space, !.tree = tx.tree \cup {got.ptr},
                       !.fresh = tx.fresh \cup {got.ptr}, !.busy = TRUE]
    BY DEF TreeNew
<1> HIDE DEF got
<1>7. tx'.space = got.space /\ tx'.tree = tx.tree \cup {got.ptr} /\ tx'.min_reader = tx.min_reader
    BY <1>6, SafeFacts DEF TxRecord
<1>8. got.space.top \in Nat /\ tx.space.top <= got.space.top
    BY <1>3 DEF Space, Evolves
<1>9. Partitioned(tx.tree \cup {got.ptr}, got.space)
    BY <1>2, <1>5, <1>8, NewPartitioned
<1> QED  BY <1>1, <1>3, <1>7, <1>9, SafeUpdate

\* The tree drops a page.
LEMMA SafeTreeDel ==
    ASSUME SafeInv, TypeInv', NEW p \in tx.tree, TreeDel(p)
    PROVE  SafeInv'
<1> DEFINE space == push_tail(tx.space, p, kv.version, tx.min_reader)
<1>1. InTx /\ UNCHANGED <<pc, kv, durable, readers, cache, disk>>
    BY DEF TreeDel, InTx
<1>2. /\ tx.space \in Space /\ Filled(tx.space) /\ kv.version \in Nat /\ tx.min_reader \in Nat
      /\ kv.version >= tx.min_reader /\ tx.space.top \in Nat /\ 1 <= tx.space.top
      /\ Partitioned(tx.tree, tx.space) /\ p \in Page
    <2>1. Filled(tx.space) /\ tx.min_reader <= kv.version /\ Partitioned(tx.tree, tx.space)
        BY <1>1 DEF SafeInv, TypeInv, ShapeInv, PartitionInv
    <2>2. p \in Page
        BY SafeFacts DEF TxRecord
    <2> QED  BY <2>1, <2>2, SafeFacts DEF Filled
<1>3. /\ space \in Space /\ Filled(space)
      /\ Evolves(tx.space, space, kv.version, tx.min_reader)
    BY <1>2, PushStep
<1>4. Unshared(tx.space) /\ Below(tx.space) /\ p \notin Owned(tx.space) /\ p < tx.space.top
    BY <1>2, PartitionedBelow
<1>5. /\ Unshared(space)
      /\ Owned(space) = (Owned(tx.space) \cup {p}) \cup (tx.space.top .. space.top - 1)
    BY <1>2, <1>4, PushKeeps
<1>6. tx' = [tx EXCEPT !.space = space, !.tree = tx.tree \ {p}, !.busy = TRUE]
    BY DEF TreeDel, page_del
<1> HIDE DEF space
<1>7. tx'.space = space /\ tx'.tree = tx.tree \ {p} /\ tx'.min_reader = tx.min_reader
    BY <1>6, SafeFacts DEF TxRecord
<1>8. space.top \in Nat /\ tx.space.top <= space.top
    BY <1>3 DEF Space, Evolves
<1>9. Partitioned(tx.tree \ {p}, space)
    BY <1>2, <1>5, <1>8, DelPartitioned
<1> QED  BY <1>1, <1>3, <1>7, <1>9, SafeUpdate

\* The tree's call returns.
LEMMA SafeTreeDone ==
    ASSUME SafeInv, TypeInv', NEW p, TreeDone(p)
    PROVE  SafeInv'
<1>1. /\ InTx /\ UNCHANGED <<pc, kv, durable, readers, cache, disk>>
      /\ tx'.space = tx.space /\ tx'.tree = tx.tree /\ tx'.min_reader = tx.min_reader
    BY SafeFacts DEF TreeDone, InTx, TxRecord
<1>2. \A s \in Views : TxSafe(s)'
    BY <1>1 DEF SafeInv, TxInv, TxSafe
<1> QED  BY <1>1, <1>2, SafeTx DEF SafeInv, TxInv, PartitionInv

\* A transaction ends without publishing anything.
LEMMA SafeEnd ==
    ASSUME SafeInv, TypeInv', Opened, pc' = "idle",
           UNCHANGED <<kv, durable, readers, cache, disk>>
    PROVE  SafeInv'
<1>1. Opened' /\ ~InTx' /\ Views' = Views
    BY DEF Opened, InTx, Views, Metas
<1>2. KvInv' /\ TxInv'
    BY <1>1 DEF SafeInv, KvInv, KvSafe, TxInv
<1>3. DiskInv' /\ ReaderInv' /\ PartitionInv'
    BY <1>1 DEF SafeInv, DiskInv, ReaderInv, PartitionInv
<1> QED  BY <1>2, <1>3 DEF SafeInv

\* Phase 1 turns an empty file's page 0 into a hole, and no other.
LEMMA SafeWritePages ==
    ASSUME SafeInv, TypeInv', pc = "tx", UNCHANGED <<kv, durable, readers>>,
           disk' \in {disk, disk \cup {Holed(cache)}},
           \/ pc' = "wrote" /\ tx' = tx
           \/ pc' = "idle"
    PROVE  SafeInv'
<1>1. Opened /\ Opened' /\ InTx /\ (InTx' => tx' = tx) /\ kv \in Metas
    BY DEF Opened, InTx, Metas
<1>2. \A s \in Views : KvSafe(s) /\ TxSafe(s)
    BY <1>1 DEF SafeInv, KvInv, TxInv
<1>3. \A d \in disk' : d \in disk \/ (d = Blank /\ Fresh \in disk)
    BY SafeFacts DEF Holed
<1>4. \A s \in Views' : s \in Views \/ (s = MetaView(Blank) /\ Fresh \in disk)
    BY <1>1, <1>3 DEF Views, MetaView, Metas, Opened
<1>5. Fresh \in disk => tx.min_reader <= 0 /\ durable <= 0
    <2>1. ASSUME Fresh \in disk  PROVE MetaView(Fresh) \in Views /\ MetaView(Fresh).version = 0
        BY <2>1, ViewCases DEF Metas, MetaView, View, Fresh
    <2>2. Fresh \in disk => durable <= Fresh.version
        BY DEF SafeInv, DiskInv
    <2>3. Fresh.version = 0
        BY DEF Fresh
    <2> QED  BY <1>2, <2>1, <2>2, <2>3 DEF TxSafe
<1>6. KvSafe(MetaView(Blank))
    BY BlankView, SafeFacts DEF KvSafe
<1>7. Fresh \in disk => TxSafe(MetaView(Blank))
    BY <1>5, BlankView DEF TxSafe
<1>8. KvInv'
    BY <1>1, <1>2, <1>4, <1>6 DEF SafeInv, KvInv, KvSafe
<1>9. TxInv'
    <2>1. ASSUME InTx'  PROVE \A s \in Views' : TxSafe(s)'
        BY <1>1, <1>2, <1>4, <1>7, <2>1 DEF TxSafe
    <2> QED  BY <1>1, <2>1 DEF SafeInv, TxInv
<1>10. DiskInv'
    <2>1. Blank.version = 0
        BY DEF Blank
    <2> QED  BY <1>1, <1>3, <1>5, <2>1 DEF SafeInv, DiskInv
<1>11. ReaderInv' /\ PartitionInv'
    BY <1>1 DEF SafeInv, ReaderInv, PartitionInv
<1> QED  BY <1>8, <1>9, <1>10, <1>11 DEF SafeInv

\* publish makes the transaction's version the latest one.
LEMMA SafePublish ==
    ASSUME SafeInv, TypeInv', publish
    PROVE  SafeInv'
<1>1. /\ pc = "wrote" /\ pc' = "published" /\ Opened /\ Opened' /\ InTx /\ ~InTx'
      /\ disk' \in {disk, {cache}} /\ UNCHANGED <<durable, readers, cache>>
      /\ kv' = [root |-> tx.root, tree |-> tx.tree, version |-> kv.version + 1,
                space |-> [tx.space EXCEPT !.updates = {}]]
    BY DEF publish, Opened, InTx
<1>2. /\ kv'.space.items = tx.space.items /\ kv'.space.nodes = tx.space.nodes
      /\ kv'.space.top = tx.space.top /\ kv'.tree = tx.tree /\ kv'.version = kv.version + 1
    BY <1>1, SafeFacts DEF Space
<1>3. kv' \in Version /\ Filled(kv'.space)
    BY <1>1 DEF TypeInv, TypeOK, ShapeInv
<1>4. Partitioned(kv'.tree, kv'.space)
    BY <1>1, <1>2 DEF SafeInv, PartitionInv, Partitioned, Unshared, Nodes, Ptrs
<1>5. disk' \subseteq disk
    BY <1>1, SafeFacts
<1>6. \A s \in Views' : s \in Views \/ s = MetaView(kv')
    BY <1>1, <1>5 DEF Views, MetaView, Metas, Opened
<1>7. ASSUME NEW s, s = MetaView(kv')  PROVE KvSafe(s)'
    BY <1>3, <1>4, <1>7, SelfView DEF KvSafe
<1>8. ASSUME NEW s \in Views  PROVE KvSafe(s)'
    <2>1. KvSafe(s) /\ TxSafe(s) /\ tx.space.top >= kv.space.top
        BY <1>1 DEF SafeInv, KvInv, TxInv
    <2>2. s.version \in Nat /\ s.tree \in SUBSET Page /\ s.nodes \in Seq(Page)
        BY ViewTypes DEF SafeInv
    <2>3. ViewNodes(s) \subseteq Page
        BY <2>2 DEF ViewNodes, ToSet
    <2>4. tx.space.top \in Nat /\ kv.space.top \in Nat /\ kv.version \in Nat
        BY SafeFacts
    <2>5. Within(s, kv'.space.top)
        <3>1. \A p \in s.tree \cup ViewNodes(s) : p \in Nat /\ p < kv.space.top
            BY <2>1, <2>2, <2>3 DEF KvSafe, Within, Page
        <3> QED  BY <1>2, <2>1, <2>4, <3>1 DEF Within
    <2>6. s.version <= kv'.version
        BY <1>2, <2>1, <2>2, <2>4 DEF KvSafe
    <2>7. Guards(kv'.space, s) /\ MayWrite(Last(kv'.space.nodes), s)
        BY <1>2, <2>1 DEF TxSafe, Guards, ItemSet
    <2> QED  BY <2>5, <2>6, <2>7 DEF KvSafe
<1>9. kv'.version # 0
    BY <1>2, SafeFacts
<1>10. KvInv' /\ TxInv'
    BY <1>1, <1>6, <1>7, <1>8, <1>9 DEF KvInv, TxInv
<1>11. DiskInv' /\ ReaderInv' /\ PartitionInv'
    BY <1>1, <1>4, <1>5 DEF SafeInv, DiskInv, ReaderInv, PartitionInv
<1> QED  BY <1>10, <1>11 DEF SafeInv

\* update_root puts the latest version, reached already, in page 0.
LEMMA SafeUpdateRoot ==
    ASSUME SafeInv, TypeInv', pc = "published", UNCHANGED <<kv, durable, readers>>,
           cache' \in {cache, kv}, disk' = disk \cup {cache'},
           \/ pc' = "idle"
           \/ pc' = "rooted" /\ cache' = kv
    PROVE  SafeInv'
<1>1. Opened /\ Opened' /\ ~InTx'
    BY DEF Opened, InTx
<1>2. disk' \subseteq disk \cup {kv} /\ disk \subseteq disk'
    BY SafeFacts
<1>3. Metas' = Metas
    BY <1>1, <1>2 DEF Metas, Opened
<1>4. Views' = Views
    BY <1>3 DEF Views
<1>5. KvInv' /\ TxInv'
    BY <1>1, <1>4 DEF SafeInv, KvInv, KvSafe, TxInv
<1>6. DiskInv'
    <2>1. /\ durable <= kv.version /\ Partitioned(kv.tree, kv.space)
          /\ kv.version = 0 => kv = Fresh
        BY <1>1 DEF SafeInv, TypeInv, ShapeInv, KvInv, PartitionInv
    <2> QED  BY <1>1, <1>2, <2>1 DEF SafeInv, DiskInv
<1>7. ReaderInv' /\ PartitionInv'
    BY <1>1 DEF SafeInv, ReaderInv, PartitionInv
<1> QED  BY <1>5, <1>6, <1>7 DEF SafeInv

\* The last fsync leaves the new meta page only.
LEMMA SafeSyncRoot ==
    ASSUME SafeInv, TypeInv', sync_root
    PROVE  SafeInv'
<1>1. /\ Opened /\ Opened' /\ ~InTx' /\ pc' = "idle" /\ disk' = {cache} /\ durable' = kv.version
      /\ cache = kv /\ UNCHANGED <<kv, readers, cache>>
    BY DEF sync_root, EndTx, Opened, InTx, SafeInv, DiskInv
<1>2. Views' \subseteq Views
    BY <1>1 DEF Views, Metas, Opened
<1>3. KvInv' /\ TxInv'
    BY <1>1, <1>2 DEF SafeInv, KvInv, KvSafe, TxInv
<1>4. DiskInv'
    <2>1. kv.version <= kv.version /\ cache \in disk
        BY SafeFacts
    <2> QED  BY <1>1, <2>1 DEF SafeInv, DiskInv
<1>5. ReaderInv' /\ PartitionInv'
    BY <1>1 DEF SafeInv, ReaderInv, PartitionInv
<1> QED  BY <1>3, <1>4, <1>5 DEF SafeInv

\* Every step keeps the invariant, unless a file is reopened in the boot that
\* left its meta page unsynced.
LEMMA SafeNext ==
    ASSUME ~UnsyncedReopen
    PROVE  SafeInv /\ [Next]_vars => SafeInv'
<1> SUFFICES ASSUME SafeInv, [Next]_vars  PROVE SafeInv'
    OBVIOUS
<1>t. TypeInv'
    BY TypeNext DEF SafeInv
<1>c. cache \in disk
    BY SafeFacts
<1>1. CASE open
    BY <1>1, <1>t, SafeOpen
<1>2. CASE open_throws
    <2>1. /\ ~Opened /\ ~Opened' /\ ~InTx' /\ pc' = "refused"
          /\ UNCHANGED <<kv, durable, readers, cache, disk>>
        BY <1>2 DEF open_throws, Opened, InTx
    <2>2. DiskInv' /\ ReaderInv'
        BY <2>1 DEF SafeInv, DiskInv, ReaderInv
    <2> QED  BY <1>t, <2>1, <2>2 DEF SafeInv, KvInv, TxInv, PartitionInv
<1>3. CASE close
    BY <1>3, <1>t, <1>c, SafeForget DEF close
<1>4. CASE PowerLoss
    BY <1>4, <1>t, SafeForget DEF PowerLoss
<1>5. CASE ProcessCrash
    BY <1>5, <1>t, <1>c, SafeForget DEF ProcessCrash
<1>6. ASSUME NEW r \in Readers, begin_read(r) \/ end_read(r)  PROVE SafeInv'
    BY <1>6, <1>t, SafeBeginRead, SafeEndRead
<1>7. CASE begin
    BY <1>7, <1>t, SafeBegin
<1>8. CASE TreeNew
    BY <1>8, <1>t, SafeTreeNew
<1>9. ASSUME NEW p \in tx.tree, TreeDel(p)  PROVE SafeInv'
    BY <1>9, <1>t, SafeTreeDel
<1>10. ASSUME NEW p \in tx.fresh, TreeDone(p)  PROVE SafeInv'
    BY <1>10, <1>t, SafeTreeDone
<1>11. CASE abort \/ commit_no_writes \/ publish_fails \/ sync_root_fails
    BY <1>11, <1>t, SafeEnd
    DEF abort, commit_no_writes, publish_fails, sync_root_fails, EndTx, Opened
<1>12. CASE write_pages
    BY <1>12, <1>t, SafeWritePages DEF write_pages
<1>13. CASE write_pages_fails
    <2>1. disk' \in {disk, disk \cup {Holed(cache)}}
        BY <1>13, <1>c DEF write_pages_fails
    <2> QED  BY <1>13, <1>t, <2>1, SafeWritePages DEF write_pages_fails, EndTx
<1>14. CASE publish
    BY <1>14, <1>t, SafePublish
<1>15. CASE update_root
    BY <1>15, <1>t, SafeUpdateRoot DEF update_root
<1>16. CASE update_root_fails
    BY <1>16, <1>t, SafeUpdateRoot DEF update_root_fails, EndTx
<1>17. CASE sync_root
    BY <1>17, <1>t, SafeSyncRoot
<1>18. CASE UNCHANGED vars
    <2>1. Opened' = Opened /\ InTx' = InTx /\ Views' = Views
        BY <1>18 DEF vars, Opened, InTx, Views, Metas
    <2>2. KvInv' /\ TxInv'
        BY <1>18, <2>1 DEF vars, SafeInv, KvInv, KvSafe, TxInv, TxSafe
    <2>3. DiskInv' /\ ReaderInv' /\ PartitionInv'
        BY <1>18, <2>1 DEF vars, SafeInv, DiskInv, ReaderInv, PartitionInv
    <2> QED  BY <1>t, <2>2, <2>3 DEF SafeInv
<1> QED
    BY <1>1, <1>2, <1>3, <1>4, <1>5, <1>6, <1>7, <1>8, <1>9, <1>10, <1>11, <1>12,
       <1>13, <1>14, <1>15, <1>16, <1>17, <1>18
    DEF Next, CommitStep

\* The invariant says that what is written now is reached from nowhere.
LEMMA SafeNoOverwrite == SafeInv => NoOverwrite
<1> SUFFICES ASSUME SafeInv, InTx  PROVE
       /\ \A r \in Readers : tx.space.updates \cap readers[r].tree = {}
       /\ \A m \in Metas :
             /\ tx.space.updates \cap m.tree = {}
             /\ \A n \in tx.space.updates \cap Nodes(m.space) : n = Last(m.space.nodes)
    BY DEF NoOverwrite
<1>1. \A s \in Views : \A p \in tx.space.updates : MayWrite(p, s)
    BY DEF SafeInv, TxInv, TxSafe
<1>2. ASSUME NEW r \in Readers  PROVE tx.space.updates \cap readers[r].tree = {}
    <2>1. CASE readers[r].open
        <3> DEFINE s == View(readers[r].tree, <<>>, readers[r].version)
        <3>1. s \in Views /\ s.tree = readers[r].tree
            BY <2>1, ViewCases DEF View
        <3> QED  BY <1>1, <3>1 DEF MayWrite
    <2>2. CASE ~readers[r].open
        BY <2>2 DEF SafeInv, ReaderInv, NoReader
    <2> QED  BY <2>1, <2>2
<1>3. ASSUME NEW m \in Metas
      PROVE  /\ tx.space.updates \cap m.tree = {}
             /\ \A n \in tx.space.updates \cap Nodes(m.space) : n = Last(m.space.nodes)
    <2>1. MetaView(m) \in Views
        BY ViewCases
    <2>2. /\ MetaView(m).tree = m.tree /\ MetaView(m).nodes = m.space.nodes
          /\ ViewNodes(MetaView(m)) = Nodes(m.space)
        BY DEF MetaView, View, ViewNodes, Nodes
    <2> QED  BY <1>1, <2>1, <2>2 DEF MayWrite
<1> QED  BY <1>2, <1>3

\* Phase 1 of a commit never writes a page that an open reader, the latest
\* version or a meta page a power loss may leave can reach, whatever fails.
THEOREM PagesKept ==
    ASSUME ~UnsyncedReopen
    PROVE  Spec => []NoOverwrite
<1> QED  BY SafeInit, SafeNext, SafeNoOverwrite, PTL DEF Spec

\* Once KV::commit has returned, a power loss leaves that version or a later
\* one, even if commits after it failed at any of their steps.
THEOREM DurableSurvives ==
    ASSUME ~UnsyncedReopen
    PROVE  Spec => []AckedSurvives
<1>1. SafeInv => AckedSurvives
    BY DEF SafeInv, AckedSurvives, DiskInv
<1> QED  BY <1>1, SafeInit, SafeNext, PTL DEF Spec

-----------------------------------------------------------------------------
(* What does not depend on what reopens a file: each version by itself has   *)
(* all its pages, a root in its tree and its free list in version order, is  *)
(* mapped while it is read, and can be opened again.                         *)

\* The view that a transaction has of the version it started from.
OwnView == View(kv.tree, kv.space.nodes, kv.version)

\* The facts SoundInv states of the types.
LEMMA SoundFacts ==
    ASSUME TypeInv
    PROVE  /\ kv \in Version /\ kv.version \in Nat /\ kv.space \in Space /\ kv.space.top \in Nat
           /\ kv.root \in Nat /\ kv.tree \in SUBSET Page
           /\ tx \in TxRecord /\ tx.space \in Space /\ tx.space.top \in Nat /\ tx.min_reader \in Nat
           /\ tx.root \in Nat /\ tx.tree \in SUBSET Page /\ tx.fresh \in SUBSET Page
           /\ tx.mapped \in Nat /\ mapped \in Nat
           /\ cache \in Version /\ cache.version \in Nat /\ cache.space.top \in Nat
           /\ cache \in disk /\ disk \subseteq Version
           /\ readers \in [Readers -> ReaderRecord]
           /\ Opened => Filled(kv.space)
           /\ InTx => Filled(tx.space) /\ tx.min_reader <= kv.version
BY DEF TypeInv, TypeOK, ShapeInv, Version, TxRecord, ReaderRecord, Space

\* An empty file is sound.
LEMMA FreshSound == Sound(Fresh) /\ Fresh.version = 0 /\ Fresh.space.top = 2
<1>1. Fresh.root = 0 /\ Fresh.space.items = <<>> /\ Fresh.version = 0 /\ Fresh.space.top = 2
    BY DEF Fresh
<1>2. Ordered(<<>>, 0)
    BY DEF Ordered
<1> QED  BY <1>1, <1>2, FreshPartitioned DEF Sound

\* A sound version passes the checks of read_root, unless it is an empty file's.
LEMMA SoundValid ==
    ASSUME NEW m \in Version, Filled(m.space), Sound(m), m # Fresh, m # Blank
    PROVE  valid(m)
<1>1. /\ m.version # 0 /\ (m.root = 0 \/ m.root \in m.tree)
      /\ m.tree \cup Nodes(m.space) \cup Ptrs(m.space) = 1 .. m.space.top - 1
    BY DEF Sound, Partitioned
<1>2. m.space.nodes \in Seq(Page) /\ m.space.nodes # <<>> /\ m.space.top \in Nat /\ m.root \in Nat
    BY DEF Version, Space, Filled
<1>3. Head(m.space.nodes) \in Nodes(m.space) /\ Last(m.space.nodes) \in Nodes(m.space)
    BY <1>2, TailSet, LastIn DEF Nodes
<1>4. \A p \in 1 .. m.space.top - 1 : p < m.space.top /\ m.space.top >= 2
    BY <1>2
<1>5. m.space.top >= 2 /\ 0 < m.space.top
    BY <1>1, <1>2, <1>3, <1>4
<1> QED  BY <1>1, <1>2, <1>3, <1>4, <1>5 DEF valid

-----------------------------------------------------------------------------
(* The steps *)

\* Init
LEMMA SoundInit == Init => SoundInv
<1> SUFFICES ASSUME Init  PROVE SoundInv
    OBVIOUS
<1>1. TypeInv /\ ~Opened /\ ~InTx /\ pc = "closed" /\ disk = {Fresh}
    BY TypeInit DEF Init, Opened, InTx
<1>2. \A r \in Readers : readers[r].tree = {}
    BY DEF Init, NoReader
<1>3. VersionsInv
    BY <1>1, FreshSound DEF VersionsInv
<1>4. RunInv /\ MapInv
    BY <1>1, <1>2 DEF RunInv, MapInv
<1> QED  BY <1>1, <1>3, <1>4 DEF SoundInv

\* The process or the machine stops.
LEMMA SoundForget ==
    ASSUME SoundInv, TypeInv', Forget, disk' \subseteq disk
    PROVE  SoundInv'
<1>1. ~Opened' /\ ~InTx' /\ pc' = "closed"
    BY DEF Forget, Opened, InTx
<1>2. \A r \in Readers : readers'[r].tree = {}
    BY DEF Forget, NoReader
<1>3. VersionsInv'
    BY <1>1 DEF SoundInv, VersionsInv
<1>4. RunInv' /\ MapInv'
    BY <1>1, <1>2 DEF RunInv, MapInv
<1> QED  BY <1>3, <1>4 DEF SoundInv

\* extend_mmap covers what it is asked to, and never shrinks.
LEMMA MmapGrows ==
    ASSUME TypeInv, NEW n \in Nat
    PROVE  extend_mmap(n) \in Nat /\ n <= extend_mmap(n) /\ mapped <= extend_mmap(n)
BY SoundFacts DEF extend_mmap

\* KV::open
LEMMA SoundOpen ==
    ASSUME SoundInv, TypeInv', open
    PROVE  SoundInv'
<1>1. /\ Opened' /\ ~InTx' /\ pc' = "idle" /\ kv' = cache /\ UNCHANGED <<readers, cache, disk>>
      /\ mapped' = IF cache.version = 0 THEN mapped ELSE extend_mmap(cache.space.top)
    BY DEF open, Opened, InTx
<1>2. cache # Blank /\ cache \in disk
    BY Constants, SoundFacts DEF open, valid, SoundInv
<1>3. VersionsInv'
    BY <1>1, <1>2 DEF SoundInv, VersionsInv
<1>4. kv'.version = 0 \/ kv'.space.top <= mapped'
    BY <1>1, MmapGrows, SoundFacts DEF SoundInv
<1>5. RunInv' /\ MapInv'
    BY <1>1, <1>4 DEF RunInv, MapInv, SoundInv
<1> QED  BY <1>3, <1>5 DEF SoundInv

\* KV::open throws: only on a file whose page 0 is a hole.
LEMMA SoundOpenThrows ==
    ASSUME SoundInv, TypeInv', open_throws
    PROVE  SoundInv'
<1>1. /\ ~Opened' /\ ~InTx' /\ pc' = "refused" /\ ~(cache = Fresh \/ valid(cache))
      /\ UNCHANGED <<readers, cache, disk>>
    BY DEF open_throws, Opened, InTx
<1>2. cache = Blank
    <2>1. cache \in Version /\ (cache # Blank => Filled(cache.space) /\ Sound(cache))
        BY DEF SoundInv, TypeInv, TypeOK, ShapeInv, VersionsInv
    <2> QED  BY <1>1, <2>1, SoundValid
<1>3. VersionsInv'
    BY <1>1, <1>2 DEF SoundInv, VersionsInv
<1>4. RunInv' /\ MapInv'
    BY <1>1 DEF RunInv, MapInv, SoundInv
<1> QED  BY <1>3, <1>4 DEF SoundInv

\* The pages of a sound version are the ones before its top.
LEMMA SoundPages ==
    ASSUME NEW tree, NEW v, v.top \in Nat, Partitioned(tree, v)
    PROVE  tree \cup Nodes(v) \subseteq 1 .. v.top - 1 /\ \A p \in 1 .. v.top - 1 : p < v.top
BY DEF Partitioned

\* KV::begin_read and end_read
LEMMA SoundReader ==
    ASSUME SoundInv, TypeInv', NEW r \in Readers, begin_read(r) \/ end_read(r)
    PROVE  SoundInv'
<1>1. /\ UNCHANGED <<pc, kv, durable, mapped, tx, cache, disk>>
      /\ Opened' = Opened /\ InTx' = InTx
    BY DEF begin_read, end_read, Opened, InTx
<1>2. VersionsInv' /\ RunInv'
    BY <1>1 DEF SoundInv, VersionsInv, RunInv, TxSafe
<1>3. PICK new \in ReaderRecord :
          /\ readers' = [readers EXCEPT ![r] = new]
          /\ \A p \in new.tree : page_get_mapped(new.mapped, p)
    <2>1. CASE begin_read(r)
        <3> DEFINE new == [open |-> TRUE, version |-> kv.version, tree |-> kv.tree, mapped |-> mapped]
        <3>1. readers' = [readers EXCEPT ![r] = new] /\ Opened
            BY <2>1 DEF begin_read, Opened
        <3>2. new \in ReaderRecord
            BY SoundFacts DEF ReaderRecord, SoundInv
        <3>3. Sound(kv) /\ (kv.version = 0 \/ kv.space.top <= mapped)
            BY <3>1 DEF SoundInv, VersionsInv, MapInv
        <3>4. \A p \in kv.tree : p < mapped
            <4>1. CASE kv.version = 0
                BY <3>3, <4>1 DEF Sound, Fresh
            <4>2. CASE kv.space.top <= mapped
                <5>1. \A p \in kv.tree : p \in Nat /\ p < kv.space.top
                    BY <3>3, SoundPages, SoundFacts DEF Sound, SoundInv, Page
                <5> QED  BY <4>2, <5>1, SoundFacts DEF SoundInv
            <4> QED  BY <3>3, <4>1, <4>2
        <3> QED  BY <3>1, <3>2, <3>4 DEF page_get_mapped
    <2>2. CASE end_read(r)
        BY <2>2, Defaults DEF end_read, NoReader
    <2> QED  BY <2>1, <2>2
<1>4. \A q \in Readers : \A p \in readers'[q].tree : page_get_mapped(readers'[q].mapped, p)
    BY <1>3, SoundFacts DEF SoundInv, MapInv
<1>5. MapInv'
    BY <1>1, <1>4 DEF SoundInv, MapInv, page_read, page_get_mapped
<1> QED  BY <1>2, <1>5 DEF SoundInv

\* KV::begin: the transaction is the latest version's copy.
LEMMA SoundBegin ==
    ASSUME SoundInv, TypeInv', begin
    PROVE  SoundInv'
<1>1. /\ Opened /\ Opened' /\ InTx' /\ pc' = "tx" /\ UNCHANGED <<kv, mapped, readers, cache, disk>>
    BY DEF begin, Opened, InTx
<1>2. PICK oldest \in Held :
          tx' = [root |-> kv.root, tree |-> kv.tree,
                 space |-> [kv.space EXCEPT !.updates = IF kv.version = 0 THEN {1} ELSE {}],
                 min_reader |-> oldest, mapped |-> mapped, busy |-> FALSE, fresh |-> {}]
    BY DEF begin
<1>3. /\ tx'.space.items = kv.space.items /\ tx'.space.nodes = kv.space.nodes
      /\ tx'.space.top = kv.space.top /\ tx'.tree = kv.tree /\ tx'.root = kv.root
      /\ tx'.space.updates = (IF kv.version = 0 THEN {1} ELSE {})
      /\ tx'.mapped = mapped /\ tx'.busy = FALSE /\ tx'.fresh = {}
    BY <1>2, SoundFacts DEF Space, SoundInv
<1>4. Sound(kv) /\ Filled(kv.space) /\ kv \in Version /\ kv.space.top \in Nat /\ mapped \in Nat
    BY <1>1, SoundFacts DEF SoundInv, VersionsInv
<1>5. VersionsInv'
    BY <1>1 DEF SoundInv, VersionsInv
<1>6. Partitioned(tx'.tree, tx'.space)
    BY <1>3, <1>4 DEF Sound, Partitioned, Unshared, Nodes, Ptrs
<1>7. TxSafe(OwnView)'
    <2>1. MetaView(kv) = OwnView /\ OwnView' = OwnView /\ OwnView.version = kv.version
        BY <1>1 DEF MetaView, OwnView, View
    <2>2. Guards(kv.space, OwnView) /\ MayWrite(Last(kv.space.nodes), OwnView)
        BY <1>4, <2>1, SelfView DEF Sound
    <2>3. Guards(tx'.space, OwnView) /\ MayWrite(Last(tx'.space.nodes), OwnView)
        BY <1>3, <2>2 DEF Guards, ItemSet
    <2>4. \A p \in tx'.space.updates : p = Last(kv.space.nodes)
        <3>1. kv.version = 0 => kv.space.nodes = <<1>>
            BY <1>4 DEF Sound, Fresh
        <3>2. Last(<<1>>) = 1
            BY DEF Last
        <3> QED  BY <1>3, <3>1, <3>2
    <2>5. tx'.min_reader <= kv.version
        BY <1>1 DEF TypeInv, ShapeInv
    <2> QED  BY <2>1, <2>2, <2>3, <2>4, <2>5 DEF TxSafe
<1>8. RunInv'
    <2>1. Ordered(tx'.space.items, kv'.version) /\ kv'.space.top <= tx'.space.top
        BY <1>1, <1>3, <1>4 DEF Sound
    <2> QED  BY <1>1, <1>3, <1>4, <1>6, <1>7, <2>1 DEF RunInv, OwnView, Sound
<1>9. ASSUME NEW p \in 1 .. tx'.space.top - 1  PROVE page_read(p)'
    <2>1. p \in 1 .. kv.space.top - 1 /\ p < kv.space.top
        BY <1>3, <1>4, <1>9
    <2>2. CASE kv.version = 0
        <3>1. kv.space.top = 2
            BY <1>4, <2>2, FreshSound DEF Sound
        <3> QED  BY <1>3, <2>1, <2>2, <3>1 DEF page_read
    <2>3. CASE kv.space.top <= mapped
        BY <1>3, <1>4, <2>1, <2>3 DEF page_read, page_get_mapped
    <2> QED  BY <1>1, <2>2, <2>3 DEF SoundInv, MapInv
<1>10. MapInv'
    BY <1>1, <1>9 DEF SoundInv, MapInv
<1> QED  BY <1>5, <1>8, <1>10 DEF SoundInv

\* The tree allocates or drops a page.
LEMMA SoundUpdate ==
    ASSUME SoundInv, TypeInv', pc = "tx",
           UNCHANGED <<pc, kv, durable, mapped, readers, cache, disk>>,
           tx'.space \in Space, Filled(tx'.space), tx'.min_reader = tx.min_reader,
           tx'.mapped = tx.mapped, tx'.busy = TRUE,
           Evolves(tx.space, tx'.space, kv.version, tx.min_reader),
           Grows(tx.space, tx'.space, kv.version),
           Partitioned(tx'.tree, tx'.space),
           tx'.fresh \subseteq tx'.tree \cap tx'.space.updates
    PROVE  SoundInv'
<1>1. InTx /\ InTx' /\ Opened /\ Opened' /\ OwnView' = OwnView
    BY DEF InTx, Opened, OwnView
<1>2. /\ tx.space \in Space /\ tx.space.top \in Nat /\ tx'.space.top \in Nat /\ tx.min_reader \in Nat
      /\ kv \in Version /\ kv.version \in Nat /\ kv.space.top \in Nat
    BY SoundFacts DEF SoundInv, Space
<1>3. VersionsInv'
    BY <1>1 DEF SoundInv, VersionsInv
<1>4. /\ Ordered(tx.space.items, kv.version) /\ kv.space.top <= tx.space.top /\ TxSafe(OwnView)
      /\ Sound(kv) /\ Filled(kv.space)
    BY <1>1, SoundFacts DEF SoundInv, RunInv, VersionsInv, OwnView
<1>5. kv.space.top <= tx'.space.top
    BY <1>2, <1>4 DEF Grows
<1>6. TxSafe(OwnView)'
    <2>1. /\ OwnView.version = kv.version /\ OwnView.tree = kv.tree
          /\ ViewNodes(OwnView) = Nodes(kv.space)
        BY DEF OwnView, View, ViewNodes, Nodes
    <2>2. Within(OwnView, tx.space.top)
        <3>1. \A p \in 1 .. kv.space.top - 1 : p < tx.space.top
            BY <1>2, <1>4
        <3>2. kv.tree \cup Nodes(kv.space) \subseteq 1 .. kv.space.top - 1
            BY <1>2, <1>4, SoundPages DEF Sound
        <3> QED  BY <2>1, <3>1, <3>2 DEF Within
    <2>3. /\ Guards(tx'.space, OwnView) /\ MayWrite(Last(tx'.space.nodes), OwnView)
          /\ \A p \in tx'.space.updates : MayWrite(p, OwnView)
        <3>1. tx'.space.nodes # <<>> /\ OwnView.version \in Nat /\ OwnView.version <= kv.version
            BY <1>2, <2>1 DEF Filled
        <3> QED  BY <1>2, <1>4, <2>2, <3>1, EvolvesSafe DEF TxSafe
    <2> QED  BY <1>1, <1>4, <2>3 DEF TxSafe
<1>7. RunInv'
    <2>1. Ordered(tx'.space.items, kv.version)
        BY <1>4 DEF Grows
    <2> QED  BY <1>1, <1>5, <1>6, <2>1 DEF RunInv, OwnView
<1>8. ASSUME NEW p \in 1 .. tx'.space.top - 1  PROVE page_read(p)'
    <2>1. p \in 1 .. tx.space.top - 1 \/ p \in tx.space.top .. tx'.space.top - 1
        BY <1>2, <1>8
    <2> QED  BY <1>1, <2>1 DEF SoundInv, MapInv, Grows, page_read, page_get_mapped
<1>9. MapInv'
    BY <1>1, <1>8 DEF SoundInv, MapInv
<1> QED  BY <1>3, <1>7, <1>9 DEF SoundInv

\* What the next two lemmas know of the transaction.
LEMMA RunFacts ==
    ASSUME SoundInv, pc = "tx"
    PROVE  /\ tx.space \in Space /\ Filled(tx.space) /\ kv.version \in Nat /\ tx.min_reader \in Nat
           /\ kv.version >= tx.min_reader /\ tx.space.top \in Nat /\ 1 <= tx.space.top
           /\ Partitioned(tx.tree, tx.space) /\ Unshared(tx.space) /\ Below(tx.space)
           /\ \A p \in tx.tree : p \in Page /\ p \notin Owned(tx.space) /\ p < tx.space.top
           /\ tx.fresh \subseteq tx.tree \cap tx.space.updates
<1>1. InTx
    BY DEF InTx
<1>2. /\ tx.space \in Space /\ Filled(tx.space) /\ kv.version \in Nat /\ tx.min_reader \in Nat
      /\ kv.version >= tx.min_reader /\ tx.space.top \in Nat /\ 1 <= tx.space.top
      /\ tx.tree \in SUBSET Page
    BY <1>1, SoundFacts DEF SoundInv, Filled
<1>3. Partitioned(tx.tree, tx.space) /\ tx.fresh \subseteq tx.tree \cap tx.space.updates
    BY <1>1 DEF SoundInv, RunInv
<1> QED  BY <1>2, <1>3, PartitionedBelow

\* TreeNew
LEMMA SoundTreeNew ==
    ASSUME SoundInv, TypeInv', TreeNew
    PROVE  SoundInv'
<1> DEFINE got == page_new(tx.space, kv.version, tx.min_reader)
<1>1. /\ pc = "tx" /\ UNCHANGED <<pc, kv, durable, mapped, readers, cache, disk>>
      /\ tx' = [tx EXCEPT !.space = got.space, !.tree = tx.tree \cup {got.ptr},
                          !.fresh = tx.fresh \cup {got.ptr}, !.busy = TRUE]
    BY DEF TreeNew
<1>2. /\ got.space \in Space /\ Filled(got.space) /\ got.ptr \in Page
      /\ Evolves(tx.space, got.space, kv.version, tx.min_reader)
    BY <1>1, RunFacts, PageNewStep
<1>3. /\ Unshared(got.space) /\ got.ptr \notin Owned(got.space)
      /\ Owned(got.space) \cup {got.ptr} = Owned(tx.space) \cup (tx.space.top .. got.space.top - 1)
    BY <1>1, RunFacts, PageNewKeeps
<1>4. Grows(tx.space, got.space, kv.version) /\ got.ptr \in got.space.updates
    BY <1>1, RunFacts, PageNewGrows
<1> HIDE DEF got
<1>5. /\ tx'.space = got.space /\ tx'.tree = tx.tree \cup {got.ptr} /\ tx'.min_reader = tx.min_reader
      /\ tx'.mapped = tx.mapped /\ tx'.busy = TRUE /\ tx'.fresh = tx.fresh \cup {got.ptr}
    BY <1>1, SoundFacts DEF TxRecord, SoundInv
<1>6. got.space.top \in Nat /\ tx.space.top <= got.space.top
    BY <1>2 DEF Space, Evolves
<1>7. Partitioned(tx'.tree, tx'.space)
    BY <1>1, <1>3, <1>5, <1>6, RunFacts, NewPartitioned
<1>8. tx'.fresh \subseteq tx'.tree \cap tx'.space.updates
    BY <1>1, <1>4, <1>5, RunFacts DEF Grows
<1> QED  BY <1>1, <1>2, <1>4, <1>5, <1>7, <1>8, SoundUpdate

\* TreeDel
LEMMA SoundTreeDel ==
    ASSUME SoundInv, TypeInv', NEW p \in tx.tree, TreeDel(p)
    PROVE  SoundInv'
<1> DEFINE space == push_tail(tx.space, p, kv.version, tx.min_reader)
<1>1. /\ pc = "tx" /\ p \notin tx.fresh /\ UNCHANGED <<pc, kv, durable, mapped, readers, cache, disk>>
      /\ tx' = [tx EXCEPT !.space = space, !.tree = tx.tree \ {p}, !.busy = TRUE]
    BY DEF TreeDel, page_del
<1>2. space \in Space /\ Filled(space) /\ Evolves(tx.space, space, kv.version, tx.min_reader)
    BY <1>1, RunFacts, PushStep
<1>3. /\ Unshared(space)
      /\ Owned(space) = (Owned(tx.space) \cup {p}) \cup (tx.space.top .. space.top - 1)
    BY <1>1, RunFacts, PushKeeps
<1>4. Grows(tx.space, space, kv.version)
    BY <1>1, RunFacts, PushGrows
<1> HIDE DEF space
<1>5. /\ tx'.space = space /\ tx'.tree = tx.tree \ {p} /\ tx'.min_reader = tx.min_reader
      /\ tx'.mapped = tx.mapped /\ tx'.busy = TRUE /\ tx'.fresh = tx.fresh
    BY <1>1, SoundFacts DEF TxRecord, SoundInv
<1>6. space.top \in Nat /\ tx.space.top <= space.top
    BY <1>2 DEF Space, Evolves
<1>7. Partitioned(tx'.tree, tx'.space)
    BY <1>1, <1>3, <1>5, <1>6, RunFacts, DelPartitioned
<1>8. tx'.fresh \subseteq tx'.tree \cap tx'.space.updates
    BY <1>1, <1>4, <1>5, RunFacts DEF Grows
<1> QED  BY <1>1, <1>2, <1>4, <1>5, <1>7, <1>8, SoundUpdate

\* The tree's call returns with a root that the latest version's tree lacks.
LEMMA SoundTreeDone ==
    ASSUME SoundInv, TypeInv', NEW p \in tx.fresh, TreeDone(p)
    PROVE  SoundInv'
<1>1. /\ pc = "tx" /\ UNCHANGED <<pc, kv, durable, mapped, readers, cache, disk>>
      /\ tx' = [tx EXCEPT !.root = p, !.fresh = {}, !.busy = FALSE]
    BY DEF TreeDone
<1>2. InTx /\ InTx' /\ Opened /\ Opened'
    BY <1>1 DEF InTx, Opened
<1>3. /\ tx'.space = tx.space /\ tx'.tree = tx.tree /\ tx'.min_reader = tx.min_reader
      /\ tx'.mapped = tx.mapped /\ tx'.busy = FALSE /\ tx'.fresh = {} /\ tx'.root = p
    BY <1>1, SoundFacts DEF TxRecord, SoundInv
<1>4. p \in tx.tree /\ p \in tx.space.updates /\ p \in Page
    BY <1>1, RunFacts
<1>5. p # kv.root
    <2>1. p \notin kv.tree
        <3>1. TxSafe(OwnView)
            BY <1>2 DEF SoundInv, RunInv, OwnView
        <3> QED  BY <1>4, <3>1 DEF TxSafe, MayWrite, OwnView, View
    <2>2. kv.root = 0 \/ kv.root \in kv.tree
        BY <1>2 DEF SoundInv, VersionsInv, Sound
    <2> QED  BY <1>4, <2>1, <2>2 DEF Page
<1>6. VersionsInv'
    BY <1>1, <1>2 DEF SoundInv, VersionsInv
<1>7. RunInv'
    BY <1>1, <1>2, <1>3, <1>4, <1>5 DEF SoundInv, RunInv, TxSafe
<1>8. MapInv'
    BY <1>1, <1>2, <1>3 DEF SoundInv, MapInv, page_read, page_get_mapped
<1> QED  BY <1>6, <1>7, <1>8 DEF SoundInv

\* A step outside a transaction, or the end of one, that leaves the latest
\* version and puts nothing but it, or a hole, in page 0.
LEMMA SoundEnd ==
    ASSUME SoundInv, TypeInv', Opened, pc' \in {"idle", "rooted"}, UNCHANGED <<kv, readers>>,
           mapped <= mapped', \A d \in disk' : d \in disk \cup {kv, Blank}
    PROVE  SoundInv'
<1>1. Opened' /\ ~InTx' /\ pc' # "refused" /\ pc' # "wrote"
    BY DEF Opened, InTx
<1>2. VersionsInv'
    BY <1>1 DEF SoundInv, VersionsInv
<1>3. kv.space.top \in Nat /\ mapped \in Nat /\ mapped' \in Nat
    BY SoundFacts DEF SoundInv, TypeInv, TypeOK
<1>4. RunInv' /\ MapInv'
    BY <1>1, <1>3 DEF SoundInv, RunInv, MapInv
<1> QED  BY <1>2, <1>4 DEF SoundInv

\* KV::write_pages
LEMMA SoundWritePages ==
    ASSUME SoundInv, TypeInv', write_pages
    PROVE  SoundInv'
<1>1. /\ pc = "tx" /\ ~tx.busy /\ pc' = "wrote" /\ mapped' = extend_mmap(tx.space.top)
      /\ disk' = disk \cup {Holed(cache)} /\ UNCHANGED <<kv, readers, tx>>
    BY DEF write_pages
<1>2. InTx /\ InTx' /\ Opened /\ Opened'
    BY <1>1 DEF InTx, Opened
<1>3. VersionsInv'
    <2>1. Holed(cache) \in disk \cup {Blank}
        BY SoundFacts DEF Holed, SoundInv
    <2> QED  BY <1>1, <1>2, <2>1 DEF SoundInv, VersionsInv
<1>4. RunInv'
    BY <1>1, <1>2 DEF SoundInv, RunInv, TxSafe
<1>5. MapInv'
    <2>1. tx.space.top <= mapped' /\ mapped <= mapped' /\ mapped' \in Nat
        BY <1>1, SoundFacts, MmapGrows DEF SoundInv
    <2>2. kv.version = 0 \/ kv.space.top <= mapped'
        BY <1>2, <2>1, SoundFacts DEF SoundInv, MapInv
    <2> QED  BY <1>1, <1>2, <2>1, <2>2 DEF SoundInv, MapInv, page_read, page_get_mapped
<1> QED  BY <1>3, <1>4, <1>5 DEF SoundInv

\* The transaction's version becomes the latest one.
LEMMA SoundPublish ==
    ASSUME SoundInv, TypeInv', publish
    PROVE  SoundInv'
<1>1. /\ pc = "wrote" /\ pc' = "published" /\ disk' \in {disk, {cache}} /\ UNCHANGED <<mapped, readers>>
      /\ kv' = [root |-> tx.root, tree |-> tx.tree, version |-> kv.version + 1,
                space |-> [tx.space EXCEPT !.updates = {}]]
    BY DEF publish
<1>2. InTx /\ ~InTx' /\ Opened /\ Opened'
    BY <1>1 DEF InTx, Opened
<1>3. /\ kv'.space.items = tx.space.items /\ kv'.space.nodes = tx.space.nodes /\ kv'.root = tx.root
      /\ kv'.space.top = tx.space.top /\ kv'.tree = tx.tree /\ kv'.version = kv.version + 1
      /\ tx.space \in Space /\ kv.version \in Nat /\ cache \in disk
    BY <1>1, SoundFacts DEF Space, SoundInv
<1>4. /\ Partitioned(tx.tree, tx.space) /\ Ordered(tx.space.items, kv.version)
      /\ (tx.root = 0 \/ tx.root \in tx.tree)
    BY <1>1, <1>2 DEF SoundInv, RunInv
<1>5. Ordered(kv'.space.items, kv'.version)
    <2>1. \A i \in DOMAIN tx.space.items : tx.space.items[i].ver \in Nat
        <3>1. tx.space.items \in Seq(Item)
            BY <1>3 DEF Space
        <3>2. \A i \in DOMAIN tx.space.items : tx.space.items[i] \in Item
            BY <3>1, ElementOfSeq, LenProperties
        <3> QED  BY <3>2 DEF Item
    <2>2. \A i \in DOMAIN tx.space.items : tx.space.items[i].ver <= kv.version + 1
        BY <1>3, <1>4, <2>1 DEF Ordered
    <2> QED  BY <1>3, <1>4, <2>2 DEF Ordered
<1>6. Sound(kv')
    <2>1. Partitioned(kv'.tree, kv'.space)
        BY <1>3, <1>4 DEF Partitioned, Unshared, Nodes, Ptrs
    <2>2. kv'.version # 0
        BY <1>3
    <2> QED  BY <1>3, <1>4, <1>5, <2>1, <2>2 DEF Sound
<1>7. VersionsInv'
    BY <1>1, <1>2, <1>3, <1>6 DEF SoundInv, VersionsInv
<1>8. RunInv' /\ MapInv'
    BY <1>1, <1>2, <1>3 DEF SoundInv, RunInv, MapInv
<1> QED  BY <1>7, <1>8 DEF SoundInv

\* Every step keeps the invariant.
LEMMA SoundNext == SoundInv /\ [Next]_vars => SoundInv'
<1> SUFFICES ASSUME SoundInv, [Next]_vars  PROVE SoundInv'
    OBVIOUS
<1>t. TypeInv'
    BY TypeNext DEF SoundInv
<1>c. cache \in disk /\ mapped \in Nat /\ tx.space.top \in Nat
    BY SoundFacts DEF SoundInv
<1>m. mapped <= mapped
    BY <1>c
<1>1. CASE open
    BY <1>1, <1>t, SoundOpen
<1>2. CASE open_throws
    BY <1>2, <1>t, SoundOpenThrows
<1>3. CASE close \/ PowerLoss \/ ProcessCrash
    BY <1>3, <1>t, <1>c, SoundForget DEF close, PowerLoss, ProcessCrash
<1>4. ASSUME NEW r \in Readers, begin_read(r) \/ end_read(r)  PROVE SoundInv'
    BY <1>4, <1>t, SoundReader
<1>5. CASE begin
    BY <1>5, <1>t, SoundBegin
<1>6. CASE TreeNew
    BY <1>6, <1>t, SoundTreeNew
<1>7. ASSUME NEW p \in tx.tree, TreeDel(p)  PROVE SoundInv'
    BY <1>7, <1>t, SoundTreeDel
<1>8. ASSUME NEW p \in tx.fresh, TreeDone(p)  PROVE SoundInv'
    BY <1>8, <1>t, SoundTreeDone
<1>9. CASE abort \/ commit_no_writes \/ publish_fails \/ sync_root_fails
    <2>1. Opened /\ pc' = "idle" /\ UNCHANGED <<kv, readers, mapped, disk>>
        BY <1>9 DEF abort, commit_no_writes, publish_fails, sync_root_fails, EndTx, Opened
    <2> QED  BY <1>t, <1>m, <2>1, SoundEnd
<1>10. CASE write_pages
    BY <1>10, <1>t, SoundWritePages
<1>11. CASE write_pages_fails
    <2>1. Opened /\ pc' = "idle" /\ UNCHANGED <<kv, readers>> /\ mapped' \in {mapped, extend_mmap(tx.space.top)}
        BY <1>11 DEF write_pages_fails, EndTx, Opened
    <2>2. \A d \in disk' : d \in disk \cup {kv, Blank}
        BY <1>11, <1>c DEF write_pages_fails, Holed
    <2>3. mapped <= mapped'
        BY <1>c, <1>m, <2>1, MmapGrows DEF SoundInv
    <2> QED  BY <1>t, <2>1, <2>2, <2>3, SoundEnd
<1>12. CASE publish
    BY <1>12, <1>t, SoundPublish
<1>13. CASE update_root \/ update_root_fails \/ sync_root
    <2>1. /\ Opened /\ pc' \in {"idle", "rooted"} /\ UNCHANGED <<kv, readers, mapped>>
          /\ \A d \in disk' : d \in disk \cup {kv, Blank}
        BY <1>13, <1>c DEF update_root, update_root_fails, sync_root, EndTx, Opened
    <2> QED  BY <1>t, <1>m, <2>1, SoundEnd
<1>14. CASE UNCHANGED vars
    <2>1. Opened' = Opened /\ InTx' = InTx
        BY <1>14 DEF vars, Opened, InTx
    <2>2. VersionsInv' /\ RunInv' /\ MapInv'
        BY <1>14, <2>1 DEF vars, SoundInv, VersionsInv, RunInv, MapInv, TxSafe, page_read, page_get_mapped
    <2> QED  BY <1>t, <2>2 DEF SoundInv
<1> QED
    BY <1>1, <1>2, <1>3, <1>4, <1>5, <1>6, <1>7, <1>8, <1>9, <1>10, <1>11, <1>12, <1>13, <1>14
    DEF Next, CommitStep

-----------------------------------------------------------------------------
(* The theorems *)

\* Every page of the file is in the tree, holds free list items or is one,
\* exactly once, in every version the file may hold: KVTX::page_new and
\* page_del lose no page and hand none out twice, however files are reopened.
THEOREM NoPageLost == Spec => []PagesAccounted
<1>1. SoundInv => PagesAccounted
    BY DEF SoundInv, VersionsInv, RunInv, PagesAccounted, Sound, Metas, Opened
<1> QED  BY <1>1, SoundInit, SoundNext, PTL DEF Spec

\* "Versions never decrease, so the list is in version order" (freelist.h),
\* across failed commits, crashes and reopens: FreeList::pop may stop at the
\* first item that is too new.
THEOREM ListInOrder == Spec => []ItemsInVersionOrder
<1>1. Blank.space.items = <<>>
    BY DEF Blank
<1>2. SoundInv => ItemsInVersionOrder
    BY <1>1 DEF SoundInv, VersionsInv, ItemsInVersionOrder, Sound, Ordered, Metas, Opened
<1> QED  BY <1>2, SoundInit, SoundNext, PTL DEF Spec

\* KVReader::page_get_mapped and KVTX::page_read find every page of the trees
\* and lists they may follow, although the file grows while they run.
THEOREM ReadsFindPages == Spec => []MappedReads
<1>1. ASSUME SoundInv, InTx  PROVE \A p \in tx.tree \cup Nodes(tx.space) : page_read(p)
    <2>1. tx.tree \cup Nodes(tx.space) \subseteq 1 .. tx.space.top - 1
        BY <1>1, SoundFacts, SoundPages DEF SoundInv, RunInv
    <2> QED  BY <1>1, <2>1 DEF SoundInv, MapInv
<1>2. SoundInv => MappedReads
    BY <1>1 DEF SoundInv, MapInv, MappedReads
<1> QED  BY <1>2, SoundInit, SoundNext, PTL DEF Spec

\* The early return of KV::commit loses no write: an operation that changed the
\* tree left a root that is not the latest version's.
THEOREM NoWriteSkipped == Spec => []SkipOnlyIfClean
<1>1. SoundInv => SkipOnlyIfClean
    BY DEF SoundInv, RunInv, SkipOnlyIfClean, InTx
<1> QED  BY <1>1, SoundInit, SoundNext, PTL DEF Spec

\* KV::open refuses no file but one whose first commit was interrupted before
\* page 0 was written: whatever else update_root left passes read_root's checks.
THEOREM OnlyHolesRefused == Spec => []RefusesOnlyUnformatted
<1>1. SoundInv => RefusesOnlyUnformatted
    BY DEF SoundInv, VersionsInv, RefusesOnlyUnformatted
<1> QED  BY <1>1, SoundInit, SoundNext, PTL DEF Spec
=============================================================================
