# A TLA+ model of the database

The repository is an embedded database: a key-value store in one file (a
copy-on-write B+tree, snapshot readers, one writer, a two-phase commit, a free
list), tables and secondary indexes on top of it, and a small SQL dialect. This
directory models it from the pages of the file up to the statements, checks it
with TLC on small instances and proves with TLAPS, for every instance, the safety
properties of the store, its free list, the reader heap, the B+tree,
the tables, the encoding, the scans and the planner.

`PROJECT.json` lists the components, the runs with their properties, the faulty
variants that show each property can fail, the source lines behind every
definition, the findings and the hazards. To repeat a run:

    tlc -config kv_commit.cfg MCKV      # module and cfg as listed in PROJECT.json
    tlapm KVProofs.tla                  # and the other modules of section 5

## 1. Inventory

| Component | State | Operations | Used by | What must hold |
|---|---|---|---|---|
| KV store (`storage/kv.cpp`, `kv_reader.cpp`) | `root_`, `version_`, `flushed_`, `free_`, `durable_version_`, mapped chunks, the file | `open`, `close`, `begin_read`, `end_read`, `begin`, `set`/`del`, `commit`, `abort` | DB | readers keep their snapshot; a commit is atomic and durable; a failure at any step, or a crash, leaves a file that can go on; no page is lost |
| Free list (`storage/freelist.cpp`) | `FreeListState`; nodes in pages of the file | `pop_head`, `push_tail`, `revert` | KV transactions | FIFO queue; hands out no page somebody reaches; in-place updates never damage a committed list; recycles its own nodes |
| Reader heap (`storage/reader_heap.cpp`) | `items_`, each reader's `heap_index` | `push`, `remove`, `min` | KV, under `mu_` | `min` is the oldest open reader |
| B+tree (`storage/btree.cpp`) | the root; nodes in pages | `insert`, `remove`, `get` | KV transactions and readers | it is a map; nodes fit pages; gives back exactly the pages it replaces |
| Iterator (`storage/btree_iter.cpp`) | path and positions | `seek`, `next`, `prev` | Scanner | moves over the keys in order, with two ends |
| Catalog (`catalog/catalog.cpp`) | `@meta`, `@table`, the definition cache | `table_new`, `get_table_def`, `clear_cache` | DB | prefixes are unique; the cache never holds what was rolled back |
| Table access (`access/table_access.cpp`, `index_ops.cpp`) | rows and index entries as keys | `db_update`, `db_delete`, `db_get`, `find_index` | DB | each index has exactly the entries of the rows |
| DB API (`db.cpp`) | running `DBTX`, `DBReader`s | `begin`, `commit`, `abort`, row operations | applications, QL | rows and index entries commit or roll back together |
| Scanner and row codec (`access/scanner.cpp`, `row_codec.cpp`) | a range over encoded keys | `db_scan`, `next`, `deref`, `db_get`, `encode_key_partial` | DB, QL | gives the rows of the range, each once and in order; a point query is exact |
| Encoding (`encoding/order_preserving.cpp`) | none | `encode_*`, `decode_*` | row codec, index maintenance | bytes sort as the values do; decoding gives back what was encoded |
| Records, values, definitions (`catalog/record.cpp`, `value.cpp`, `tabledef.cpp`) | plain data | `get`, builders, `encode_table_def`, `decode_table_def` | everyone | a definition that is accepted can be read back |
| Query planner (`ql/ql_range.cpp`) | none | `ql_range` | executor | the range contains every row the filter accepts, and fits the index that is scanned |
| Query executor (`ql/ql_exec.cpp`) | none; works in the caller's transaction | `ql_eval`, `ql_exec` of five statements | applications | SELECT is exact; UPDATE and DELETE change each selected row once and count it; what fails, fails for a cause |
| Lexer and parser (`ql/lexer.l`, `parser.y`, `ql_ast.cpp`) | none | parsing | executor | out of scope |

Hard behaviours: readers that come and go during a write transaction; failures
of `mmap`, `pwritev`, `pwrite` and `fsync` at each step of a commit; power loss
with several possible meta pages; a free list that stores itself in the pages it
frees and updates them in place; splits, merges and dropped levels of a tree
with entries of different sizes; exceptions half way through a row and its
index entries; a cache of definitions across rollbacks; bounds that name part of
an index's columns, at the bytes that the encoding escapes; two choices of an
index, by the planner and by the scan; statements that fail between two rows,
and updates that move rows in the index they scan.

## 2. Modules

| Module | Models | Rests on |
|---|---|---|
| `FreeQueue` | the free list as a queue of pages, and `page_new` | |
| `FreeQueueSpec` | abstract specification: updates of that queue are atomic | `FreeQueue` |
| `FreeList` | the list node by node, word by word, in the file | implements `FreeQueueSpec` |
| `ReaderHeap` | the heap of readers | |
| `KV` | readers, transaction, commit, crash, reopen, on the queue | `FreeQueue` |
| `KVInv` | inductive invariants of `KV` | `KV` |
| `FreeQueueProofs`, `KVProofs` | proofs about the queue and the store | `KVInv` |
| `LeastNumber` | two lemmas for claims about the steps of a loop | |
| `FreeListProofs` | proofs about the list in the file | `FreeList`, `FreeQueueProofs`, `LeastNumber` |
| `ReaderHeapProofs` | proofs about the heap | `ReaderHeap`, `LeastNumber` |
| `KeyMap` | abstract specification of the tree: a map | |
| `BTreeNode` | the tree's nodes: sizes, lookup, splits, merges, new links | |
| `BTree` | the tree | `BTreeNode`; steps with `KeyMap` |
| `BTreeProofs` | proofs about the nodes and the tree | `BTree`, `LeastNumber` |
| `KeyCursor` | abstract specification of the iterator: a position in the keys | |
| `BTreeIter` | the iterator | `BTree`, steps with `KeyCursor` |
| `DB` | DB API, catalog, table access, index maintenance | |
| `DBInv`, `DBProofs` | its inductive invariant and proofs | `DB`, `LeastNumber` |
| `Rows` | values, records, the choice of an index, which requests are refused, and the rows of a range | |
| `RangeScan` | abstract specification of a table and a scan: rows of a range, one after the other | `Rows` |
| `Encoding` | the order-preserving encoding, both ways | `Rows` |
| `Scanner` | rows and index entries as bytes, `db_scan`, `next`, `deref`, `db_get` | `Encoding`; implements `RangeScan` |
| `ScannerProofs` | proofs about the encoding, the keys, the scans and the planner | `Scanner`, `QLRange`, `LeastNumber` |
| `QLRange` | the planner: bounds, the best index, the range | `Rows` |
| `QL` | expressions, the collection of comparisons, the five statements | `QLRange` |
| `MCKV`, `MCBTree`, `MCBTreeIter`, `MCDB`, `MCScanner`, `MCQL` | constants of the instances | |

Operators named `X_y` marked *Faulty* are variants of `X` with a plausible
mistake; no specification uses them. PROJECT.json pairs each property with one
that breaks it.

How the layers meet. `KV` sees a tree as the set of its pages; what it assumes
of a tree operation (it drops only pages it did not take in the same call,
drops the old root, and ends on a root it took) is `PagesReplaced` of `BTree`.
`KV` uses the free list through the operators of `FreeQueue`; `FreeList`
implements them. `KV` takes the oldest open version; `MinIsOldest` of
`ReaderHeap` says `min()` is it. `DB` takes a commit of the store as one step
that keeps everything, keeps everything without being known to be durable, or
keeps nothing: the outcomes that `KV` has. `Scanner` walks keys in order with the
`seek` and the steps that `FollowsKeys` of `BTreeIter` is about. `QL` scans
ranges of rows (`RangeRows`, `Accepted`), which is what `ScansRange` says of
`Scanner`, and writes rows as `DB` does when nothing throws.

### KV

`kv` is the latest version: `root_`, `version_`, and the page space (`free_`
with `flushed_` as `top`). `cache` is page 0 as a read returns it and `disk` the
set of page 0s that a power loss may leave; `disk = {cache}` means it is synced.
`tx` is the write transaction with its own page space and buffered pages
(`updates`), `readers` the snapshots. `pc` is the holder of `writer_`:
`idle`, `tx`, and in `commit` `wrote` (pages written), `published` (version
published), `rooted` (meta page written); `closed` and `refused` when there is
no open file.

The transaction's tree calls are `TreeNew`, `TreeDel` and `TreeDone`, in any
order and number that the assumption above allows. `commit` is one action per
step between which another thread can run or the machine can stop, each with its
failing twin. After a failed `fsync`, a later successful one may or may not have
written the page, since the kernel may have marked it clean.

The meta page is written atomically (one `pwrite` of 72 bytes at offset 0, all in
one sector) and tree pages written in part do not matter, because no
meta page reaches them: `NoOverwrite` is the reason. The mapping is abstracted
from "doubles until it covers size" to "covers size", the least it may map. A
system call that fails in `open` before anything changes is left out.

`UnsyncedReopen` says whether a process may exit and open the file again in the
same boot while its meta page is not on disk. With TRUE the store is not safe
(finding 2), so all other runs are for FALSE, and so are two of the theorems.

### FreeQueue and FreeList

`FreeQueue` has the code's operations on `[items, nodes, head, tail, top,
updates]`, head and tail being slots. `FreeList` has `FreeListState` and the
pages: a page is `CAP` slots and a next pointer, a tree page holds bytes that
would pass for a link and reusable items, so that a stale read is noticed. A
dropped update may have written all its pages or none (`drop`); pages written
in part are covered by `LiveWordsKept`, which speaks of single words.

An update frees any page in use (`PageDel`, in the list and in `FreeQueueSpec`), as
`KVTX::page_del` does: from its second `set` or `del` on, a transaction frees nodes
that it took itself, perhaps from the list. The list does not know where a call of
the tree ends, so `PageDel` also has the pages of the current call, which the tree
never frees; it allows all that `TreeDel` of `KV` does.

### BTree and BTreeIter

A page of the tree is never changed while it is used, so a child pointer is the
child itself. Sizes are counted as in the code with a smaller page, and
`EntryAssumption` is the code's `static_assert` that two largest entries fit a
page, for a page that holds the sentinel twice. `ok` is FALSE once an `assert` of
the code would have failed. The abstract map takes each step with the tree and the
invariants compare them.

The code recurses from the root to a leaf and builds nodes on its way back. In the
model `Visited(tree, key, i)` is the node `i` calls deep and `Depth` the number of
calls below the first; `tree_insert` and `tree_delete` give the results of these
calls from the last one to the first. The invariants go down all links at once:
`Nodes(tree, i)` are the nodes `i` links below the root, and `Ranges` gives with
each of them the keys for which lookup gets there, so that `WellFormed` says of
every node that it holds no key that lookup would not find.

### DB

A store is the next prefix, the definitions and the keys. Row and index keys are
`[prefix, vals]`; the order of their encodings does not matter here and is left
to the scanner's module. `Long` is a column value that makes an index key
exceed `BTREE_MAX_KEY_SIZE`, so that `index_op` throws after the row was
written; a table may have a definition too long to be stored, one that
`table_def_check` refuses, or one that is stored but cannot be read back
(`Readable`). After an exception the transaction can only be aborted, which is
what `db.h` asks of the caller. `get`, `scan` and `table_def` of a transaction
appear as `read`, which caches the definition; their results are `Scanner`'s.

### Encoding and Scanner

A byte is a number up to `Top`, so that 0x00, 0x01, 0x02, an ordinary byte, 0xfe
and 0xff are 0 to 5, and an `INT_64` has `IntBytes` bytes with the sign bit's
wrap-around. Everything else is as in the code: escapes, the 0xfe mark, the
terminator, the padding of partial keys with 0xff, and the errors that decoding
throws. The store starts with keys of the tables before and after. `table`, the
rows written, is a history variable that no guard or result uses; the refinement
mapping takes it for `RangeScan`'s rows. A Scanner is used as `scanner.h` says: no
write while it is in use, and a refused scan is not stepped.

The assumptions on the constants are what other code makes sure of before it
calls: `DefAssumption` what `table_def_check` and `check_index_keys` accept and
`alloc_prefix` gives (`PrefixesOwned` of `DB` says that prefixes are apart),
`RecsAssumption` what `check_record` accepts, `RequestsAssumption` that a `Record`
has as many values as columns. A request need not fit the table: `db_scan` refuses
those.

### QLRange and QL

A node is `[type, val]` or `[type, kids]`, as `ql_ast.cpp` builds it.
`collect` turns a filter into the list of comparisons that it ANDs, in order,
and `QLRange` folds them into bounds: `add_bound` on a `ColBound` whose optional
values are sequences of at most one. `ql_eval` evaluates both sides of AND and OR,
as the code does, and `arith` refuses what does not fit `IntMin .. IntMax`. The
statements work row after row on `[ok, rows, count]`; a row that fails leaves the
earlier rows changed, since the caller decides between commit and abort. `last`
is the result until the caller reads it. Column names of the result are left
out; the order of rows is not.

## 3. Runs

| Run | States | Shows |
|---|---|---|
| `kv_commit` | 500 600 | two readers, five versions, six pages, all failures and crashes: no page in use is overwritten (`NoOverwrite`), every page is accounted for (`PagesAccounted`), the early return of `commit` loses nothing (`SkipOnlyIfClean`), acknowledged commits survive (`AckedSurvives`), every page is mapped where it is read (`MappedReads`), the free list stays in version order (`ItemsInVersionOrder`), `open` refuses only a file never formatted (`RefusesOnlyUnformatted`), a commit ends and frees `writer_` (`CommitEnds`) |
| `kv_refused` | violation | finding 1 |
| `kv_unsynced` | violation | finding 2 |
| `freelist` | 465 000 | refinement `ImplementsQueue`; `LiveWordsKept` |
| `reader_heap` | 36 000 | `IndexesMatch`, `MinIsOldest` |
| `btree` | 13 000 | uneven splits and merges of non-empty nodes |
| `btree_uneven` | violation | finding 3 |
| `btree_iter` | 19 400 | four levels, one-child nodes, emptied parents, dropped levels, and every position of the iterator (`FollowsKeys`) |
| `db` | 56 000 | `IndexOpsDone`, `IndexesFollowRows`, `CacheTrue`, `PrefixesOwned`, and `ReaderDefs` of a reader beside the writer |
| `scanner` | 98 500 | what the writes leave in the store (`StoreHolds`); point queries (`GetExact`); refinement `ScansRange` |
| `ql` | 78 500 | `SelectsExact`, `CountsChanges`, `FailsForCause` |
| `ql_index` | violation | finding 4 |

Bounds. `CAP = 2` is the smallest capacity that the list allows and makes nodes
fill, drain and recycle within three versions. `freelist` has four versions and
pages 1 to 5, which is enough for a transaction that takes a page from the list
and puts it back, one that links such a page as a node, and one that puts back a
drained head, also in one transaction. In `kv_commit`, five versions and six pages let
a page be freed, outlive a reader, be reused and freed again, with an unsynced
version in between. Seven readers give the heap three full levels, the least in which
the reader that fills a hole has to go up. Six keys reach four levels with the
small pages of `btree_iter`, where two entries fill a leaf. `MaxUnsynced` bounds the stores a crash may bring back in `DB`.
`db` has one table with two indexes, whose rows share index values, and one more
definition for each way a definition can fail.
`scanner` has strings that are empty, prefixes of each other, or start with each
special byte, integers at both ends and at -1, indexes whose missing columns
start with an integer or a string, and all bounds on up to all columns of each
index, in four combinations of directions and open ends; `MaxRows = 3` leaves a row
before, in and after a range. `ql` has all filters that AND two of thirty
comparisons, and others with each operator and each way to fail; `IntMax = 2` lets
small sums overflow, and two rows are enough for a first row that is changed and
a second that fails, or for one that moves past the other in an index.
`MaxVersion` and `MaxPage` are guards of the model only; the theorems hold for
every value.

Fairness. `FairSpec` assumes weak fairness of `CommitStep` only: the thread in
`KV::commit` waits for nothing but its system calls, each of which returns or
fails. Nothing is assumed of callers: a transaction may stay open for ever, and a
reader too.

## 4. Findings

1. *First commit* (`kv_refused`). A new file has no meta page until the first
   commit's phase 2. When that commit fails or is interrupted in phase 1, page 0
   is a hole and `open` refuses the file from then on, although nothing was
   committed.
2. *Unsynced meta page* (`kv_unsynced`). `read_root` sets `durable_version_`
   from a page that may only be in the page cache, after a failed or missing
   `fsync` (`close` ignores its result). Pages that the version on disk still
   uses are then reused.
3. *Longer link key* (`btree_uneven`). `node_delete` rebuilds the parent in one
   page; if a leaf's first key is removed and its next key is longer, a full
   parent does not fit, and the assertion in `node_append_kv` fails. A program
   that inserts and removes keys of random lengths on the real tree shows the
   same.
4. *Two choices of an index* (`ql_index`). `ql_range` picks the index with the best
   score, and returns the range only. `db_scan` finds the index again from the
   columns of `key1`, and prefers the shortest. With indexes (b) and (b, c),
   `b = 1 AND c < 5` is a range of the second and is refused on the first: the
   statement fails, though it is legal and works without the second index. The
   compiled code does the same. `SelectsExact` shows that no SELECT gives a
   wrong result for it, and `FailsForCause` that there is no other such cause.

Two more disagreements have no run of their own:

- `ql_exec.h:23` says rows come "in primary-key order, applying WHERE and then
  LIMIT". A filter on the first column of an index makes `scan_rows` follow that
  index, so its rows come in the index's order, as `ql_exec_test.cpp:506` expects, and
  with a LIMIT or an OFFSET they are other rows: with an index on (b, a),
  `b >= 1 LIMIT 1` gives the row of the least b and not the one of the least a. The
  comment is wrong and the test right, so `SelectsExact` states what the test does:
  the rows that match are in the order of the index that `db_scan` takes, and
  OFFSET and LIMIT count in that order. It fails where the header's order is
  asked for in its place (`Pk(tdef)` for `Scanned`), on that statement.
- `encode_table_def` separates words by white space and does not quote names, so
  that `table_new` accepts a column named "my col" and `decode_table_def` cannot
  read the definition: the table is "not found" although creating it again says
  it "already exists". The compiled code does the same. `DB` has such a table, and
  its invariants hold around it.

## 5. Proofs

Every theorem below is for all values of the constants that meet the named
assumptions (`CapAssumption` and `BoundsAssumption` of the store and the list,
`DefsAssumption` of `DB`, `EntryAssumption` of the B+tree, `EncodingConstants` and the assumptions of `Scanner`
described in section 2), which TLC evaluates in the runs.

| Module | Theorem | States | From |
|---|---|---|---|
| `KVProofs` | `TypeCorrect` | `Spec => []TypeOK` | `TypeInv` |
| | `PagesKept` | `Spec => []NoOverwrite`, assuming `~UnsyncedReopen` | `SafeInv` |
| | `DurableSurvives` | `Spec => []AckedSurvives`, assuming `~UnsyncedReopen` | `SafeInv` |
| | `NoPageLost` | `Spec => []PagesAccounted` | `SoundInv` |
| | `ListInOrder` | `Spec => []ItemsInVersionOrder` | `SoundInv` |
| | `ReadsFindPages` | `Spec => []MappedReads` | `SoundInv` |
| | `NoWriteSkipped` | `Spec => []SkipOnlyIfClean` | `SoundInv` |
| | `OnlyHolesRefused` | `Spec => []RefusesOnlyUnformatted` | `SoundInv` |
| `FreeListProofs` | `ListsSound` | `Spec => []Inv`: every list that can be reached from a meta page is well formed | `Inv` |
| | `ListWordsKept` | `Spec => []LiveWordsKept` | `Inv` |
| | `ListImplementsQueue` | `Spec => ImplementsQueue` | `Inv` |
| `ReaderHeapProofs` | `SlotsFollowReaders` | `Spec => []IndexesMatch` | `HeapInv` |
| | `MinOldest` | `Spec => []MinIsOldest` | `HeapInv` |
| `DBProofs` | `EntriesFollowRows` | `Spec => []IndexesFollowRows` | `DbInv` |
| | `IndexAssertsHold` | `Spec => []IndexOpsDone` | `DbInv` |
| | `CacheHoldsStored` | `Spec => []CacheTrue` | `DbInv` |
| | `TablesApart` | `Spec => []PrefixesOwned` | `DbInv` |
| | `ReadersDecode` | `Spec => []ReaderDefs` | `DbInv` |
| `ScannerProofs` | `OrderPreserved` | encoded tuples compare as the tuples do, and are equal only if these are | |
| | `BoundExact` | a key satisfies an encoded bound iff the row's values satisfy it, whichever columns it leaves out | |
| | `DecodesBack` | decoding gives the values that were encoded and reads all bytes | |
| | `StoreExact` | `Spec => []StoreHolds` | `Inv` |
| | `GetsExactly` | `Spec => []GetExact` | `Inv` |
| | `ScansExactly` | `Spec => ScansRange` | `Inv`, `ScanState` |
| | `NeverNarrower` | a row that meets all comparisons is in the range `ql_range` makes of them, if `db_scan` takes it | |
| | `PlanTaken` | `db_scan` refuses a planned range only for the columns of its upper bound | |
| `BTreeProofs` | `SplitFits` | a node too big by at most one entry passes the assertions of `node_split`; its halves fit and are the node together | |
| | `InsertSplits` | what an insertion makes of a node that fits can be split in two that fit | |
| | `RemoveFits` | what a removal makes of nodes that fit, fits, if no link key gets longer | |
| | `LookupExact` | `node_lookup_le` finds the last key that is at most its key | |
| | `LeafSetExact`, `LeafDeleteExact` | an insertion or removal in a leaf changes the entry of its key only, and keeps the order | |
| | `LinksOrdered` | an inner node with new links to what a child became stays in order | |
| | `TreeKept` | `Spec => []Kept`: until an assertion fails, the tree is well formed and holds the map | `Kept` |
| | `TreeWellFormed` | `Spec => []WellFormed` | `Kept` |
| | `TreeHoldsMap` | `Spec => []HoldsMap` | `Kept` |
| | `TreeGetFinds` | `Spec => []GetFinds` | `Kept` |
| | `EvenTreeNeverFails` | `Spec => []NoAssertFails`, assuming `EvenSizes` | `Kept` |

`FreeQueueProofs` has the lemmas on the queue's operators: types, the balance
between items and slots (`Filled`), what each operator does to the items, nodes
and buffered pages, that no page is in two places (`Unshared`), and that the
items stay in version order (`Ordered`).

*Pages in use.* `NoOverwrite` speaks of the buffered pages only and is not
inductive: that a page may be written depends on why it was handed out. The
invariant `SafeInv` (module `KVInv`) collects everything that somebody may still
read as *views* (an open reader's tree; the tree and list nodes of the latest
version and of each meta page that may be on disk, each with its version) and
says of each view: a free item that is one of its pages carries a version not
before the view's (`Guards`), the tail node of the list is none of its pages, or
its own tail (`MayWrite`), and its pages are below the end of the file
(`Within`). A transaction's `min_reader` is at most every view's version, so
`pop` hands out none of its pages. `TypeInv` adds that list slots and items
balance, `DiskInv` what page 0 may be, and `PartitionInv` that the pages of each
version are partitioned, which makes a page that is appended or popped a new one.

*Each version by itself.* Reopening a file with an unsynced meta page breaks
`SafeInv` (finding 2), but only between versions. `SoundInv` says what
stays true of each version on its own, and the five theorems that rest on it
need no assumption on `UnsyncedReopen`: a version that can be opened is
partitioned and in version order (`VersionsInv`); the transaction hands out no
page of the version it started from (`RunInv`, one view of `TxSafe`), so a root
equal to that version's is that version's root, and nothing was written; and what
is mapped or buffered covers what can be read (`MapInv`).

*The list in the pages.* `List(m, f)` reads the queue that a meta page m points
at out of the words of a file f. `Inv` of `FreeListProofs` says of each version
that a crash may bring back, and of the running update, that the list read for it
is filled, unshared and accounts for every page, and that the update has changed
none of the words that a version's list consists of: an update writes only slots
past every version's tail, and nodes that no version has. Reading the running
list back after a word is written then gives what the queue's operator gives, and
reading a version's list what it gave before; that is the step simulation.
`LiveWordsKept` and the refinement both follow from `Inv`.

*Rows and entries.* `IndexesFollowRows` is not inductive: `update` removes the
old row's entry and adds the new one's, and whether these are entries of other
rows too depends on keys being what they are. `DbInv` adds that each row is
under its own primary key (`RowsInPlace`), that each index names every column of
the primary key (`DefOK`), so that an entry determines its row (`EntryNamesRow` of
`DBProofs`), and that prefixes are apart (`OwnPrefixes`), so that no write to one
table or index is seen by another. The same facts give the assertion of
`index_op`. The cache is true after an abort because, until the transaction
creates a table, its definitions are those of the latest version (`CacheInv`).

*Heap order.* `HeapInv` adds the heap's order to `IndexesMatch`. `up` keeps that
only its slot may be older than its parent (`UpInv`), `down` that only its slot
may be younger than its children, with the slot it started from perhaps older
than its parent (`DownInv`): if `down` moves nothing, that is what `up` repairs,
which is why `remove` tries both. `RootIsLeast` then gives `min()`.

*The order of bytes.* One encoding is below another if they differ at a byte that
both have and the first difference is in that direction (`Below`). This is
shown for integers (digits of the shifted number), for strings (a terminator is
below every escaped byte, an escape is ordered as what it stands for, and the mark
puts strings that start with 0xfe or 0xff above those that do not), and so for
the first two values that differ in a tuple; what is after them does not
matter. That no encoding is a proper prefix of another is what lets tuples be
compared value by value. A bound that leaves columns out is the encoding of the
columns it names, with a padding that no encoding of the missing ones is above
(`PaddingAbove`), or with nothing, which none is below.

*The store.* `StoreHolds` and `table \subseteq Recs` are inductive together. Keys of
different prefixes are apart because the prefix has a fixed length, keys of one
prefix because tuples are determined by their encodings; an index contains the
columns of the primary key, so that rows with different keys share no entry; and
by `DecodesBack` the entries that are removed for an old row are the ones that
were added for it.

*Scans.* Between two keys of one prefix there is no key of another prefix
(`PrefixBetween`), so by `BoundExact` the keys of the store between the two bounds
are the entries of the rows in the range (`KeysInRange`). `InOrder` puts the row
with n rows before it at n + 1; that every position is taken once is a
pigeonhole argument on finite sets (`Sorted`). `seek` gives the nearest key of
a finite set (`FirstOfStrings`), so a scan that has given n rows stands at the
entry of row n + 1, or outside the range if there is none (`Placed`), which is the
part of `ScanState` that `open` establishes and `step` keeps. `deref` gives the row
of that entry, through `db_get` for an index. Each action is then the action of
`RangeScan` with the same name (`ScanSteps`).

*The planner.* A value that meets every comparison on a column stays within the
bounds that `add_bound` builds from them, whatever their order, so a row that meets
all comparisons is inside each end of the range, on however many columns. The
proof needs nothing of the score, only that the columns of a bound start an index;
it holds for the index that `db_scan` finds, which may be another than the one
planned for (finding 4). `PlanTaken` says exactly when that one refuses the range.

*Nodes of the tree.* `SplitFits` is the argument behind "A 3rd node is never
needed". An entry is at most half a page without the header (`EntryHalf`). The
node is at most a page and an entry; the left loop stops with at least one
entry, since one fits; where the right loop moves on, the rest is more than a
page, so the left half is less than an entry and takes one more. `InsertSplits`
shows that each node an insertion builds is of that size, two links for one
included. `RemoveFits` needs that the new link's key is not longer than those it
replaces, which the code does not make sure of (finding 3).

*The tree.* `Kept` says that the root is `Sound`, a tree of some height for all
keys, and that its leaves hold the entries of the map. It is inductive because
`IsTree` gives every node the range of keys that lead to it. `InsertTree` and
`DeleteTree` show for a tree of any height and range what a call returns: a node
that is again a tree for the range, except that it may have to be split or may be
empty (`Inside`, without `Whole`), and that holds the old entries with the one of
the key set or taken out (`Inserted`, `Deleted`). They go up the path from the
leaf, `InsertNode` and `DeleteNode` being the step from a child to its parent:
subtrees off the path stay as they are, and the key is in none of them. An insertion
cannot change a first key, a removal can only raise it, and `should_merge` keeps the
neighbours' ranges adjacent; so new links are in order and cut the range as the old
ones did. An empty child is linked by no one: either it is merged, or its parent
becomes empty too (`node_delete`'s special case), or an assertion fails. The root
never becomes empty, since the sentinel is never removed.

Insertions never fail an assertion in a tree that is `Sound` (`SetKeeps`),
whatever the sizes of the keys. Removals may (finding 3), so `TreeKept` speaks of the
states before one fails, and `EvenTreeNeverFails` assumes `EvenSizes`: all keys have
one size, and a page has room for four headers. A new link is then no longer
than the old one, and an empty node, which is only a header, is small enough to be
merged and finds room in any neighbour it has (`JoinFits`, `EmptyMerges`).

*Loops.* A loop is modelled by a recursive function of the number of its passes.
The library's induction theorems take an operator as a parameter, which the
provers cannot instantiate; a claim about every pass is proved instead from
`FirstFailure`: the passes at which it fails are a set of numbers, and a
set of numbers that is not empty has a least one. The existence of the function is
proved the same way (`UpLoops`, `DownLoops`; `IndexLoops` and `KeyLoops` of
`DBProofs`; `PowLoops` of `ScannerProofs`).

Only model-checked:

- `CommitEnds`: liveness is out of reach of the prover.
- `PagesReplaced`: that no page is in a tree twice, which it needs, follows from the
  ranges, but the pages of a call are not followed up the path in the proofs.
- `FollowsKeys`: a path of the iterator is a sequence of positions, one per level,
  that `next` and `prev` change from the end; nothing is proved about it.
- `SelectsExact` and the other properties of `QL`: its expressions are evaluated by
  `RECURSIVE` operators, and a module that reaches one has no SMT backend.

## 6. Not modelled

The lexer and the parser (pure parsing); `to_string` of a node (for tests);
`main.cpp` (a demo); the builders of records and definitions; the text of a
definition, but for whether it can be read; the byte layout of nodes and meta
page; names and error messages in results; INDEX BY, which `scan_rows` refuses
before it reads and the grammar cannot write; the reader's form of `ql_exec`, which
refuses all but SELECT and runs the same code; definitions with prefixes set by
the caller, without a name or with fewer types than columns, which are refused
before anything changes; the data races that a caller would cause by sharing one
reader or transaction between threads, which the headers rule out.

## 7. Plan

What would come next:

1. `PagesReplaced`, with the pages taken and given back as one more part of
   `Inserted` and `Deleted`, and `FollowsKeys`, from `HeldOnWay`.
2. A larger instance of `scanner` with three columns in the primary key, and of
   `ql` with three rows, when a run may take longer.
