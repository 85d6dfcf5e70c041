------------------------------ MODULE Catalog -------------------------------
(***************************************************************************)
(* CatalogManager: the maps it keeps in memory, the pages they are stored  *)
(* in, and how one is rebuilt from the other.  The operators take and      *)
(* return a database                                                       *)
(*   table_names       table name -> table id                              *)
(*   tables            table id -> [name, heap]           (TableInfo)      *)
(*   index_names       table name -> (index name -> index id)              *)
(*   indexes           index id -> [name, table, root]    (IndexInfo)      *)
(*   table_meta_pages, index_meta_pages    id -> page     (CatalogMeta)    *)
(*   pages             page id -> content, for the allocated pages as the  *)
(*                     buffer pool shows them                              *)
(* so that a statement of the executor can be composed from them.  A tree  *)
(* of this size is one leaf; a heap is one page.                           *)
(***************************************************************************)
EXTENDS Integers, Sequences, Functions, FiniteSets, FiniteSetsExt, TLC

CATALOG_META_PAGE_ID == 0
INDEX_ROOTS_PAGE_ID == 1
INVALID_PAGE_ID == -1

(* std::map and std::unordered_map: insert keeps an entry that exists. *)
NoEntries == [x \in {} |-> x]
Assign(f, k, v) == [x \in DOMAIN f \cup {k} |-> IF x = k THEN v ELSE f[x]]
InsertPair(f, k, v) == IF k \in DOMAIN f THEN f ELSE Assign(f, k, v)
Erase(f, k) == Restrict(f, DOMAIN f \ {k})

-----------------------------------------------------------------------------
(* Pages *)

\* AllocatePage gives out the lowest free page id, within the first extent
\* and while its count has not wrapped; who calls it sees to that.
FreePageId(pages) == Min((0 .. Cardinality(DOMAIN pages)) \ DOMAIN pages)

CatalogPage(tables, indexes) ==
    [kind |-> "catalog", tables |-> tables, indexes |-> indexes]
RootsPage(roots) == [kind |-> "roots", roots |-> roots]
TableMeta(id, name, heap) ==
    [kind |-> "table", id |-> id, name |-> name, heap |-> heap]
IndexMeta(id, name, table) ==
    [kind |-> "index", id |-> id, name |-> name, table |-> table]
HeapPage(rows) == [kind |-> "heap", rows |-> rows]
TreePage(entries) == [kind |-> "tree", entries |-> entries]

Roots(pages) == pages[INDEX_ROOTS_PAGE_ID].roots

\* The catalog page takes the two maps of CatalogMeta.
FlushCatalogMetaPage(d) ==
    [d EXCEPT !.pages[CATALOG_META_PAGE_ID] =
        CatalogPage(d.table_meta_pages, d.index_meta_pages)]

-----------------------------------------------------------------------------
(* The B+ tree of an index *)

\* The constructor takes the root recorded for the index id, whoever
\* recorded it.
OpenedRoot(pages, id) ==
    IF id \in DOMAIN Roots(pages) THEN Roots(pages)[id] ELSE INVALID_PAGE_ID

Entries(d, id) ==
    IF d.indexes[id].root = INVALID_PAGE_ID THEN NoEntries
    ELSE d.pages[d.indexes[id].root].entries

\* Insert: StartNewTree allocates a page and inserts the root's record.
InsertEntry(d, id, key, rid) ==
    IF d.indexes[id].root = INVALID_PAGE_ID
    THEN LET p == FreePageId(d.pages) IN
         [d EXCEPT !.indexes[id].root = p,
                   !.pages = [Assign(d.pages, p, TreePage(Assign(NoEntries, key, rid)))
                              EXCEPT ![INDEX_ROOTS_PAGE_ID].roots =
                                        InsertPair(@, id, p)]]
    ELSE [d EXCEPT !.pages[d.indexes[id].root].entries =
                        InsertPair(@, key, rid)]

\* Remove: a tree that gets empty gives its page back and records no root.
RemoveEntry(d, id, key) ==
    LET root == d.indexes[id].root
        left == Erase(Entries(d, id), key)
    IN  IF left = NoEntries
        THEN [d EXCEPT !.indexes[id].root = INVALID_PAGE_ID,
                       !.pages = [Erase(d.pages, root)
                                  EXCEPT ![INDEX_ROOTS_PAGE_ID].roots[id] =
                                            INVALID_PAGE_ID]]
        ELSE [d EXCEPT !.pages[root].entries = left]

-----------------------------------------------------------------------------
(* Operations.  Each is used where its early returns do not apply. *)

\* GetNextTableId and GetNextIndexId: one more than the largest id in use.
NextId(map) == IF DOMAIN map = {} THEN 0 ELSE Max(DOMAIN map) + 1

CreateTable(d, t) ==
    LET id == NextId(d.table_meta_pages)
        heap == FreePageId(d.pages)
        withHeap == Assign(d.pages, heap, HeapPage(<<>>))
        meta == FreePageId(withHeap)
    IN  FlushCatalogMetaPage(
            [d EXCEPT !.pages = Assign(withHeap, meta, TableMeta(id, t, heap)),
                      !.table_meta_pages = InsertPair(@, id, meta),
                      !.table_names = InsertPair(@, t, id),
                      !.tables = InsertPair(@, id, [name |-> t, heap |-> heap])])

NamedIndex(names, t, i, id) ==
    IF t \in DOMAIN names THEN [names EXCEPT ![t] = InsertPair(@, i, id)]
    ELSE InsertPair(names, t, InsertPair(NoEntries, i, id))

CreateIndex(d, t, i) ==
    LET id == NextId(d.index_meta_pages)
        table == d.table_names[t]
        meta == FreePageId(d.pages)
        info == [name |-> i, table |-> table, root |-> OpenedRoot(d.pages, id)]
    IN  FlushCatalogMetaPage(
            [d EXCEPT !.pages = Assign(@, meta, IndexMeta(id, i, table)),
                      !.index_meta_pages = InsertPair(@, id, meta),
                      !.index_names = NamedIndex(@, t, i, id),
                      !.indexes = InsertPair(@, id, info)])

DropTableNotFlushed(d, t) ==
    LET id == d.table_names[t] IN
    [d EXCEPT !.pages = Erase(@, d.table_meta_pages[id]),
              !.table_meta_pages = Erase(@, id),
              !.table_names = Erase(@, t),
              !.tables = Erase(@, id)]
\* DropTable: the heap is not freed, and the table's indexes stay.
DropTable(d, t) ==
    LET id == d.table_names[t] IN
    FlushCatalogMetaPage(
        [d EXCEPT !.pages = Erase(@, d.table_meta_pages[id]),
                  !.table_meta_pages = Erase(@, id),
                  !.table_names = Erase(@, t),
                  !.tables = Erase(@, id)])

\* DropIndex: Destroy() is empty, so the tree and its root's record stay;
\* every index name of the table is erased.
DropIndex(d, t, i) ==
    LET id == d.index_names[t][i] IN
    FlushCatalogMetaPage(
        [d EXCEPT !.pages = Erase(@, d.index_meta_pages[id]),
                  !.index_meta_pages = Erase(@, id),
                  !.index_names = Erase(@, t),
                  !.indexes = Erase(@, id)])

IndexesOf(d, t) ==
    IF t \in DOMAIN d.index_names THEN DOMAIN d.index_names[t] ELSE {}

-----------------------------------------------------------------------------
(* Opening a database *)

\* DBStorageEngine with init: a catalog without tables, an empty roots page.
NewDatabase ==
    [table_names |-> NoEntries, tables |-> NoEntries,
     index_names |-> NoEntries, indexes |-> NoEntries,
     table_meta_pages |-> NoEntries, index_meta_pages |-> NoEntries,
     pages |-> [p \in {CATALOG_META_PAGE_ID, INDEX_ROOTS_PAGE_ID} |->
                    IF p = CATALOG_META_PAGE_ID
                    THEN CatalogPage(NoEntries, NoEntries)
                    ELSE RootsPage(NoEntries)]]

\* LoadIndex uses the TableInfo of the stored table id, null when there is
\* no such table.
Loadable(pages) ==
    LET c == pages[CATALOG_META_PAGE_ID] IN
    \A id \in DOMAIN c.indexes : pages[c.indexes[id]].table \in DOMAIN c.tables

\* LoadTable and LoadIndex for the ids of the catalog page, in order: the
\* lowest id keeps a name that occurs twice.
LoadedTables(pages, c) ==
    [id \in DOMAIN c.tables |->
        [name |-> pages[c.tables[id]].name, heap |-> pages[c.tables[id]].heap]]

LoadedIndexesNoRoot(pages, c) ==
    [id \in DOMAIN c.indexes |->
        [name |-> pages[c.indexes[id]].name,
         table |-> pages[c.indexes[id]].table,
         root |-> INVALID_PAGE_ID]]
LoadedIndexes(pages, c) ==
    [id \in DOMAIN c.indexes |->
        [name |-> pages[c.indexes[id]].name,
         table |-> pages[c.indexes[id]].table,
         root |-> OpenedRoot(pages, id)]]

Load(pages) ==
    LET c == pages[CATALOG_META_PAGE_ID]
        tables == LoadedTables(pages, c)
        indexes == LoadedIndexes(pages, c)
        TableName(id) == tables[indexes[id].table].name
        Of(t) == {id \in DOMAIN indexes : TableName(id) = t}
    IN  [table_names |->
            [t \in {tables[id].name : id \in DOMAIN tables} |->
                Min({id \in DOMAIN tables : tables[id].name = t})],
         tables |-> tables,
         index_names |->
            [t \in {TableName(id) : id \in DOMAIN indexes} |->
                [i \in {indexes[id].name : id \in Of(t)} |->
                    Min({id \in Of(t) : indexes[id].name = i})]],
         indexes |-> indexes,
         table_meta_pages |-> c.tables,
         index_meta_pages |-> c.indexes,
         pages |-> pages]
=============================================================================
