--------------------------- MODULE Executor_proof ---------------------------
(***************************************************************************)
(* For every set of tables, indexes and column values, and whatever the    *)
(* bounds: the catalog page, the meta pages and the maps in memory         *)
(* describe the same objects, no page belongs to two of them, and for      *)
(* careful users a restart changes nothing and indexes agree with tables.  *)
(***************************************************************************)
EXTENDS Executor, WellFoundedInduction, FiniteSetTheorems, TLAPS

IsFun(f) == f = [x \in DOMAIN f |-> f[x]]

Shape(d) ==
  /\ IsFun(d)
  /\ DOMAIN d = {"table_names", "tables", "index_names", "indexes",
                 "table_meta_pages", "index_meta_pages", "pages"}

RowType == [key : Keys, live : BOOLEAN]

(* The rows of heap pages, and the entries of trees. *)
PageOK(page) ==
  /\ page.kind = "heap" => page = HeapPage(page.rows) /\ page.rows \in Seq(RowType)
  /\ page.kind = "tree" => page = TreePage(page.entries) /\ IsFun(page.entries)

(* The pages: the catalog page is never behind the maps of CatalogMeta.    *)
PagesInv(d) ==
  /\ IsFun(d.pages) /\ DOMAIN d.pages \subseteq Nat /\ IsFiniteSet(DOMAIN d.pages)
  /\ {0, 1} \subseteq DOMAIN d.pages
  /\ d.pages[0] = CatalogPage(d.table_meta_pages, d.index_meta_pages)
  /\ d.pages[1] = RootsPage(Roots(d.pages)) /\ IsFun(Roots(d.pages))
  /\ \A p \in DOMAIN d.pages : PageOK(d.pages[p])

(* Tables: their names, meta pages and heaps. *)
TablesInv(d) ==
  /\ IsFun(d.table_names) /\ IsFun(d.tables) /\ IsFun(d.table_meta_pages)
  /\ DOMAIN d.table_names \subseteq Tables
  /\ \A t \in DOMAIN d.table_names :
       d.table_names[t] \in DOMAIN d.tables /\ d.tables[d.table_names[t]].name = t
  /\ DOMAIN d.tables \subseteq 0 .. MaxId /\ DOMAIN d.table_meta_pages = DOMAIN d.tables
  /\ \A id \in DOMAIN d.tables :
       LET info == d.tables[id] IN
       /\ info \in [name : Tables, heap : Nat]
       /\ info.name \in DOMAIN d.table_names /\ d.table_names[info.name] = id
       /\ info.heap \in DOMAIN d.pages /\ d.pages[info.heap].kind = "heap"
       /\ d.table_meta_pages[id] \in DOMAIN d.pages
       /\ d.pages[d.table_meta_pages[id]] = TableMeta(id, info.name, info.heap)
  /\ \A a, b \in DOMAIN d.tables : d.tables[a].heap = d.tables[b].heap => a = b

(* Indexes: their names and meta pages.  Names may be missing, since       *)
(* DropIndex erases all names of a table, but none names two indexes.      *)
IndexesInv(d) ==
  /\ IsFun(d.index_names) /\ IsFun(d.indexes) /\ IsFun(d.index_meta_pages)
  /\ DOMAIN d.index_names \subseteq Tables
  /\ \A t \in DOMAIN d.index_names :
       /\ IsFun(d.index_names[t]) /\ DOMAIN d.index_names[t] \subseteq Indexes
       /\ \A i \in DOMAIN d.index_names[t] : d.index_names[t][i] \in DOMAIN d.indexes
  /\ \A t, u \in DOMAIN d.index_names :
       \A i \in DOMAIN d.index_names[t], j \in DOMAIN d.index_names[u] :
         d.index_names[t][i] = d.index_names[u][j] => t = u /\ i = j
  /\ DOMAIN d.indexes \subseteq 0 .. MaxId /\ DOMAIN d.index_meta_pages = DOMAIN d.indexes
  /\ \A id \in DOMAIN d.indexes :
       LET info == d.indexes[id] IN
       /\ info \in [name : Indexes, table : Nat, root : Int]
       /\ d.index_meta_pages[id] \in DOMAIN d.pages
       /\ d.pages[d.index_meta_pages[id]] = IndexMeta(id, info.name, info.table)

TreePages(d) == {p \in DOMAIN d.pages : d.pages[p].kind = "tree"}

(* Page p is the root of the index, in memory or by its record: an index   *)
(* that was dropped keeps its record, and one that was refilled is         *)
(* recorded without a root.                                                *)
RootOf(d, id, p) ==
  \/ id \in DOMAIN d.indexes /\ d.indexes[id].root = p
  \/ id \in DOMAIN Roots(d.pages) /\ Roots(d.pages)[id] = p

TreesInv(d) ==
  /\ \A id \in DOMAIN d.indexes :
       d.indexes[id].root \in TreePages(d) \cup {INVALID_PAGE_ID}
  /\ \A id \in DOMAIN Roots(d.pages) :
       Roots(d.pages)[id] \in TreePages(d) \cup {INVALID_PAGE_ID}
  /\ \A p \in TreePages(d) : \A a, b \in DOMAIN d.indexes \cup DOMAIN Roots(d.pages) :
       RootOf(d, a, p) /\ RootOf(d, b, p) => a = b
  /\ \A id \in DOMAIN d.indexes :
       /\ d.indexes[id].root # INVALID_PAGE_ID => id \in DOMAIN Roots(d.pages)
       /\ id \in DOMAIN Roots(d.pages) =>
            Roots(d.pages)[id] \in {d.indexes[id].root, INVALID_PAGE_ID}

Good(d) == Shape(d) /\ PagesInv(d) /\ TablesInv(d) /\ IndexesInv(d) /\ TreesInv(d)

(* For careful users, what is known of an index in memory is on disk, and  *)
(* every index has its name.                                               *)
NamesInv(d) ==
  /\ \A id \in DOMAIN d.indexes :
       /\ d.indexes[id].table \in DOMAIN d.tables
       /\ d.indexes[id].root = OpenedRoot(d.pages, id)
       /\ LET t == d.tables[d.indexes[id].table].name IN
          /\ t \in DOMAIN d.index_names
          /\ d.indexes[id].name \in DOMAIN d.index_names[t]
          /\ d.index_names[t][d.indexes[id].name] = id
  /\ \A t \in DOMAIN d.index_names :
       /\ DOMAIN d.index_names[t] # {}
       /\ \A i \in DOMAIN d.index_names[t] :
            LET info == d.indexes[d.index_names[t][i]] IN
            d.tables[info.table].name = t /\ info.name = i

(* Live rows of a table differ in the column that indexes are on, and an   *)
(* index has exactly their entries.                                        *)
UniqueRows(rows) ==
  \A r, s \in DOMAIN rows :
    rows[r].live /\ rows[s].live /\ rows[r].key = rows[s].key => r = s

UniqueInv(d) == \A id \in DOMAIN d.tables : UniqueRows(d.pages[d.tables[id].heap].rows)

EntriesAre(entries, rows, heap, S) ==
  /\ DOMAIN entries = {rows[s].key : s \in {r \in S : rows[r].live}}
  /\ \A s \in S : rows[s].live => entries[rows[s].key] = <<heap, s>>

HeapOf(d, id) == d.tables[d.indexes[id].table].heap
RowsOf(d, id) == d.pages[HeapOf(d, id)].rows

EntriesInv(d) ==
  \A id \in DOMAIN d.indexes :
    EntriesAre(Entries(d, id), RowsOf(d, id), HeapOf(d, id), DOMAIN RowsOf(d, id))

CarefulInv(d) == NamesInv(d) /\ UniqueInv(d) /\ EntriesInv(d)

(* The inductive invariant. *)
IInv ==
  /\ num_allocated_pages_ \in Int /\ careful \in BOOLEAN
  /\ Good(db) /\ DOMAIN db.pages \subseteq 0 .. MaxPageId
  /\ careful => CarefulInv(db)
-----------------------------------------------------------------------------
(* A set of naturals that is not empty has a least element. *)
LEMMA LeastNat ==
  ASSUME NEW T, T \subseteq Nat, T # {}
  PROVE  \E x \in T : \A y \in T : x <= y
<1>1. PICK x \in T : \A y \in T : ~(<<y, x>> \in OpToRel(<, Nat))
  BY WFMin, NatLessThanWellFounded, Zenon
<1>2. ASSUME NEW y \in T
      PROVE  x <= y
  <2>1. x \in Nat /\ y \in Nat
    BY Zenon
  <2>2. ~(y < x)
    BY <1>1, <2>1, Zenon DEF OpToRel
  <2> QED
    BY <2>1, <2>2
<1> QED
  BY <1>2, Zenon

(* Min and Max find the least and the greatest element. *)
LEMMA MinFacts ==
  ASSUME NEW T, T \subseteq Nat, T # {}
  PROVE  Min(T) \in T /\ \A y \in T : Min(T) <= y
BY LeastNat DEF Min

(* See above. *)
LEMMA MaxFacts ==
  ASSUME NEW n \in Nat, NEW T, T \subseteq 0 .. n, T # {}
  PROVE  Max(T) \in T /\ \A y \in T : y <= Max(T)
<1> DEFINE U == {n - x : x \in T}
<1>1. U \subseteq Nat /\ U # {}
  <2>1. ASSUME NEW x \in T
        PROVE  n - x \in Nat
    <3>1. x \in 0 .. n
      OBVIOUS
    <3> QED
      BY <3>1
  <2>2. PICK x \in T : TRUE
    OBVIOUS
  <2>3. n - x \in U
    OBVIOUS
  <2> QED
    BY <2>1, <2>3
<1>2. PICK u \in U : \A y \in U : u <= y
  BY <1>1, LeastNat
<1>3. PICK x \in T : u = n - x
  OBVIOUS
<1>4. \A y \in T : x >= y
  <2> SUFFICES ASSUME NEW y \in T
               PROVE  x >= y
    OBVIOUS
  <2>1. n - y \in U
    OBVIOUS
  <2>2. u <= n - y
    BY <1>2, <2>1
  <2> QED
    BY <1>3, <2>2
<1>5. \E m \in T : \A y \in T : m >= y
  BY <1>4
<1>6. Max(T) \in T /\ \A y \in T : Max(T) >= y
  BY <1>5 DEF Max
<1> QED
  BY <1>6

(* AllocatePage finds a page that is not in use. *)
LEMMA FreePageFacts ==
  ASSUME NEW f, DOMAIN f \subseteq Nat, IsFiniteSet(DOMAIN f)
  PROVE  FreePageId(f) \in Nat /\ FreePageId(f) \notin DOMAIN f
<1> DEFINE n == Cardinality(DOMAIN f)
           T == (0 .. n) \ DOMAIN f
<1>1. n \in Nat
  BY FS_CardinalityType
<1>2. T # {}
  <2> SUFFICES ASSUME T = {}
               PROVE  FALSE
    OBVIOUS
  <2>1. 0 .. n \in SUBSET DOMAIN f
    OBVIOUS
  <2>2. Cardinality(0 .. n) <= n
    BY <2>1, FS_Subset
  <2>3. Cardinality(0 .. n) = n + 1
    <3>1. 0 \in Int /\ n \in Int
      BY <1>1
    <3>2. Cardinality(0 .. n) = IF 0 > n THEN 0 ELSE n - 0 + 1
      BY <3>1, FS_Interval, Zenon
    <3> QED
      BY <1>1, <3>2
  <2> QED
    BY <1>1, <2>2, <2>3
<1>3. T \subseteq Nat
  OBVIOUS
<1>4. Min(T) \in T
  BY <1>2, <1>3, MinFacts
<1> QED
  BY <1>4 DEF FreePageId

(* A new id is not in use. *)
LEMMA NextIdFacts ==
  ASSUME NEW f, DOMAIN f \subseteq 0 .. MaxId
  PROVE  NextId(f) \in Nat /\ NextId(f) \notin DOMAIN f
<1>1. MaxId \in Nat
  BY ConstantsAssumption
<1>2. CASE DOMAIN f = {}
  BY <1>2 DEF NextId
<1>3. CASE DOMAIN f # {}
  <2>1. Max(DOMAIN f) \in DOMAIN f /\ \A y \in DOMAIN f : y <= Max(DOMAIN f)
    BY <1>1, <1>3, MaxFacts
  <2> QED
    BY <1>1, <1>3, <2>1 DEF NextId
<1> QED
  BY <1>2, <1>3

(* What the kinds of pages tell apart. *)
LEMMA PageKinds ==
  /\ \A a, b : CatalogPage(a, b).kind = "catalog" /\ CatalogPage(a, b).tables = a
               /\ CatalogPage(a, b).indexes = b
  /\ \A a : RootsPage(a).kind = "roots" /\ RootsPage(a).roots = a
  /\ \A a, b, c : /\ TableMeta(a, b, c).kind = "table" /\ TableMeta(a, b, c).id = a
                  /\ TableMeta(a, b, c).name = b /\ TableMeta(a, b, c).heap = c
  /\ \A a, b, c : /\ IndexMeta(a, b, c).kind = "index" /\ IndexMeta(a, b, c).id = a
                  /\ IndexMeta(a, b, c).name = b /\ IndexMeta(a, b, c).table = c
  /\ \A a : HeapPage(a).kind = "heap" /\ HeapPage(a).rows = a
  /\ \A a : TreePage(a).kind = "tree" /\ TreePage(a).entries = a
BY DEF CatalogPage, RootsPage, TableMeta, IndexMeta, HeapPage, TreePage

(* The operations on maps. *)
LEMMA MapFacts ==
  /\ IsFun(NoEntries) /\ DOMAIN NoEntries = {}
  /\ \A f, k, v : /\ IsFun(Assign(f, k, v)) /\ DOMAIN Assign(f, k, v) = DOMAIN f \cup {k}
                  /\ Assign(f, k, v)[k] = v
                  /\ \A x \in DOMAIN f : x # k => Assign(f, k, v)[x] = f[x]
  /\ \A f, k, v : k \notin DOMAIN f => InsertPair(f, k, v) = Assign(f, k, v)
  /\ \A f, k, v : k \in DOMAIN f => InsertPair(f, k, v) = f
  /\ \A f, k : /\ IsFun(Erase(f, k)) /\ DOMAIN Erase(f, k) = DOMAIN f \ {k}
               /\ \A x \in DOMAIN f : x # k => Erase(f, k)[x] = f[x]
BY DEF NoEntries, IsFun, Assign, InsertPair, Erase, Restrict

(* Frames: tables, indexes and trees stay consistent when the pages and    *)
(* maps they are about are kept.                                           *)
LEMMA TablesFrame ==
  ASSUME NEW d, NEW e, TablesInv(d),
         e.table_names = d.table_names, e.tables = d.tables,
         e.table_meta_pages = d.table_meta_pages,
         \A p \in DOMAIN d.pages :
           /\ d.pages[p].kind = "heap" => p \in DOMAIN e.pages /\ e.pages[p].kind = "heap"
           /\ d.pages[p].kind = "table" => p \in DOMAIN e.pages /\ e.pages[p] = d.pages[p]
  PROVE  TablesInv(e)
<1>1. ASSUME NEW id \in DOMAIN d.tables
      PROVE  d.pages[d.table_meta_pages[id]].kind = "table"
  <2>1. d.pages[d.table_meta_pages[id]] = TableMeta(id, d.tables[id].name, d.tables[id].heap)
    BY DEF TablesInv
  <2> QED
    BY <2>1, PageKinds
<1> QED
  BY <1>1 DEF TablesInv

(* See above. *)
LEMMA IndexesFrame ==
  ASSUME NEW d, NEW e, IndexesInv(d),
         e.index_names = d.index_names, e.index_meta_pages = d.index_meta_pages,
         IsFun(e.indexes), DOMAIN e.indexes = DOMAIN d.indexes,
         \A id \in DOMAIN d.indexes :
           /\ e.indexes[id] \in [name : Indexes, table : Nat, root : Int]
           /\ e.indexes[id].name = d.indexes[id].name
           /\ e.indexes[id].table = d.indexes[id].table,
         \A p \in DOMAIN d.pages :
           d.pages[p].kind = "index" => p \in DOMAIN e.pages /\ e.pages[p] = d.pages[p]
  PROVE  IndexesInv(e)
<1>1. ASSUME NEW id \in DOMAIN d.indexes
      PROVE  d.pages[d.index_meta_pages[id]].kind = "index"
  <2>1. d.pages[d.index_meta_pages[id]] = IndexMeta(id, d.indexes[id].name, d.indexes[id].table)
    BY DEF IndexesInv
  <2> QED
    BY <2>1, PageKinds
<1> QED
  BY <1>1 DEF IndexesInv

(* See above. *)
LEMMA TreesFrame ==
  ASSUME NEW d, NEW e, TreesInv(d),
         e.indexes = d.indexes, Roots(e.pages) = Roots(d.pages), TreePages(e) = TreePages(d)
  PROVE  TreesInv(e)
<1>1. \A id, p : RootOf(e, id, p) <=> RootOf(d, id, p)
  BY DEF RootOf
<1> QED
  BY <1>1 DEF TreesInv

(* CatalogPage(...) is the only change FlushCatalogMetaPage makes. *)
LEMMA FlushFacts ==
  ASSUME NEW d, Shape(d), IsFun(d.pages), 0 \in DOMAIN d.pages
  PROVE  LET e == FlushCatalogMetaPage(d) IN
         /\ Shape(e) /\ IsFun(e.pages) /\ DOMAIN e.pages = DOMAIN d.pages
         /\ e.table_names = d.table_names /\ e.tables = d.tables
         /\ e.index_names = d.index_names /\ e.indexes = d.indexes
         /\ e.table_meta_pages = d.table_meta_pages
         /\ e.index_meta_pages = d.index_meta_pages
         /\ e.pages[0] = CatalogPage(d.table_meta_pages, d.index_meta_pages)
         /\ \A p \in DOMAIN d.pages : p # 0 => e.pages[p] = d.pages[p]
<1> DEFINE c == CatalogPage(d.table_meta_pages, d.index_meta_pages)
<1>1. FlushCatalogMetaPage(d) = [d EXCEPT !.pages = [d.pages EXCEPT ![0] = c]]
  BY DEF FlushCatalogMetaPage, CATALOG_META_PAGE_ID, Shape, IsFun
<1> HIDE DEF c
<1>2. LET e == [d EXCEPT !.pages = [d.pages EXCEPT ![0] = c]] IN
         /\ Shape(e) /\ IsFun(e.pages) /\ DOMAIN e.pages = DOMAIN d.pages
         /\ e.table_names = d.table_names /\ e.tables = d.tables
         /\ e.index_names = d.index_names /\ e.indexes = d.indexes
         /\ e.table_meta_pages = d.table_meta_pages
         /\ e.index_meta_pages = d.index_meta_pages
         /\ e.pages[0] = c
         /\ \A p \in DOMAIN d.pages : p # 0 => e.pages[p] = d.pages[p]
  BY DEF Shape, IsFun
<1> QED
  BY <1>1, <1>2 DEF c

(* Pages that are written have their form. *)
LEMMA PageForms ==
  /\ \A a, b : PageOK(CatalogPage(a, b))
  /\ \A a : PageOK(RootsPage(a))
  /\ \A a, b, c : PageOK(TableMeta(a, b, c))
  /\ \A a, b, c : PageOK(IndexMeta(a, b, c))
  /\ \A a \in Seq(RowType) : PageOK(HeapPage(a))
  /\ \A a : IsFun(a) => PageOK(TreePage(a))
BY PageKinds DEF PageOK

(* What the invariant says of the two fixed pages and of meta pages. *)
LEMMA GoodFacts ==
  ASSUME NEW d, Good(d)
  PROVE  /\ {0, 1} \subseteq DOMAIN d.pages /\ DOMAIN d.pages \subseteq Nat
         /\ d.pages[0].kind = "catalog" /\ d.pages[1].kind = "roots"
         /\ \A id \in DOMAIN d.tables :
              /\ d.table_meta_pages[id] \in DOMAIN d.pages
              /\ d.pages[d.table_meta_pages[id]].kind = "table"
              /\ d.pages[d.table_meta_pages[id]].id = id
              /\ d.tables[id].heap \in DOMAIN d.pages
              /\ d.pages[d.tables[id].heap].kind = "heap"
         /\ \A id \in DOMAIN d.indexes :
              /\ d.index_meta_pages[id] \in DOMAIN d.pages
              /\ d.pages[d.index_meta_pages[id]].kind = "index"
              /\ d.pages[d.index_meta_pages[id]].id = id
<1>1. /\ {0, 1} \subseteq DOMAIN d.pages /\ DOMAIN d.pages \subseteq Nat
      /\ d.pages[0] = CatalogPage(d.table_meta_pages, d.index_meta_pages)
      /\ d.pages[1] = RootsPage(Roots(d.pages))
  BY DEF Good, PagesInv
<1>2. ASSUME NEW id \in DOMAIN d.tables
      PROVE  /\ d.table_meta_pages[id] \in DOMAIN d.pages
             /\ d.pages[d.table_meta_pages[id]] =
                  TableMeta(id, d.tables[id].name, d.tables[id].heap)
             /\ d.tables[id].heap \in DOMAIN d.pages
             /\ d.pages[d.tables[id].heap].kind = "heap"
  BY DEF Good, TablesInv
<1>3. ASSUME NEW id \in DOMAIN d.indexes
      PROVE  /\ d.index_meta_pages[id] \in DOMAIN d.pages
             /\ d.pages[d.index_meta_pages[id]] =
                  IndexMeta(id, d.indexes[id].name, d.indexes[id].table)
  BY DEF Good, IndexesInv
<1> QED
  BY <1>1, <1>2, <1>3, PageKinds

(* The new database. *)
LEMMA InitGood == Good(NewDatabase) /\ CarefulInv(NewDatabase)
<1> DEFINE d == NewDatabase
<1>1. /\ Shape(d) /\ d.table_names = NoEntries /\ d.tables = NoEntries
      /\ d.index_names = NoEntries /\ d.indexes = NoEntries
      /\ d.table_meta_pages = NoEntries /\ d.index_meta_pages = NoEntries
      /\ IsFun(d.pages) /\ DOMAIN d.pages = {0, 1}
      /\ d.pages[0] = CatalogPage(NoEntries, NoEntries)
      /\ d.pages[1] = RootsPage(NoEntries)
  BY DEF NewDatabase, Shape, IsFun, CATALOG_META_PAGE_ID, INDEX_ROOTS_PAGE_ID
<1> HIDE DEF d
<1>2. Roots(d.pages) = NoEntries
  BY <1>1, PageKinds DEF Roots, INDEX_ROOTS_PAGE_ID
<1>3. IsFiniteSet({0, 1})
  <2>1. IsFiniteSet({0})
    BY FS_Singleton
  <2>2. {0, 1} = {0} \cup {1}
    OBVIOUS
  <2> QED
    BY <2>1, <2>2, FS_AddElement
<1>4. PagesInv(d)
  BY <1>1, <1>2, <1>3, MapFacts, PageForms DEF PagesInv
<1>5. TablesInv(d)
  BY <1>1, MapFacts DEF TablesInv
<1>6. IndexesInv(d)
  BY <1>1, MapFacts DEF IndexesInv
<1>7. TreesInv(d)
  BY <1>1, <1>2, MapFacts, PageKinds DEF TreesInv, TreePages
<1>8. CarefulInv(d)
  BY <1>1, MapFacts DEF CarefulInv, NamesInv, UniqueInv, EntriesInv
<1> QED
  BY <1>1, <1>4, <1>5, <1>6, <1>7, <1>8 DEF d, Good

(* What CreateTable changes: a heap, a meta page, the catalog page and the *)
(* maps of tables.                                                         *)
LEMMA CreateTableFacts ==
  ASSUME NEW d, Good(d), NEW t, t \notin DOMAIN d.table_names
  PROVE  LET e == CreateTable(d, t)
             id == NextId(d.table_meta_pages) IN
         \E heap, meta \in Nat :
           /\ heap \notin DOMAIN d.pages /\ meta \notin DOMAIN d.pages /\ heap # meta
           /\ Shape(e) /\ e.index_names = d.index_names /\ e.indexes = d.indexes
           /\ e.index_meta_pages = d.index_meta_pages
           /\ id \in Nat /\ id \notin DOMAIN d.tables
           /\ e.table_names = Assign(d.table_names, t, id)
           /\ e.tables = Assign(d.tables, id, [name |-> t, heap |-> heap])
           /\ e.table_meta_pages = Assign(d.table_meta_pages, id, meta)
           /\ IsFun(e.pages) /\ DOMAIN e.pages = DOMAIN d.pages \cup {heap, meta}
           /\ IsFiniteSet(DOMAIN e.pages)
           /\ e.pages[0] = CatalogPage(e.table_meta_pages, e.index_meta_pages)
           /\ e.pages[heap] = HeapPage(<<>>) /\ e.pages[meta] = TableMeta(id, t, heap)
           /\ \A p \in DOMAIN d.pages : p # 0 => e.pages[p] = d.pages[p]
<1> DEFINE id == NextId(d.table_meta_pages)
           heap == FreePageId(d.pages)
           withHeap == Assign(d.pages, heap, HeapPage(<<>>))
           meta == FreePageId(withHeap)
           pages == Assign(withHeap, meta, TableMeta(id, t, heap))
           c == [d EXCEPT !.pages = pages,
                      !.table_meta_pages = InsertPair(@, id, meta),
                      !.table_names = InsertPair(@, t, id),
                      !.tables = InsertPair(@, id, [name |-> t, heap |-> heap])]
           e == FlushCatalogMetaPage(c)
<1>1. e = CreateTable(d, t)
  BY DEF CreateTable
<1>2. /\ Shape(d) /\ IsFun(d.pages) /\ DOMAIN d.pages \subseteq Nat /\ IsFiniteSet(DOMAIN d.pages)
      /\ 0 \in DOMAIN d.pages /\ DOMAIN d.tables \subseteq 0 .. MaxId
      /\ DOMAIN d.table_meta_pages = DOMAIN d.tables
  BY DEF Good, PagesInv, TablesInv
<1>3. id \in Nat /\ id \notin DOMAIN d.tables /\ id \notin DOMAIN d.table_meta_pages
  BY <1>2, NextIdFacts
<1>4. heap \in Nat /\ heap \notin DOMAIN d.pages
  BY <1>2, FreePageFacts
<1> HIDE DEF id, heap
<1>5. /\ DOMAIN withHeap = DOMAIN d.pages \cup {heap} /\ withHeap[heap] = HeapPage(<<>>)
      /\ \A p \in DOMAIN d.pages : withHeap[p] = d.pages[p]
  BY <1>4 DEF Assign
<1>6. IsFiniteSet(DOMAIN withHeap) /\ DOMAIN withHeap \subseteq Nat
  BY <1>2, <1>4, <1>5, FS_AddElement
<1> HIDE DEF withHeap
<1>7. meta \in Nat /\ meta \notin DOMAIN withHeap
  BY <1>6, FreePageFacts
<1> HIDE DEF meta
<1>8. /\ IsFun(pages) /\ DOMAIN pages = DOMAIN d.pages \cup {heap, meta}
      /\ pages[heap] = HeapPage(<<>>) /\ pages[meta] = TableMeta(id, t, heap)
      /\ \A p \in DOMAIN d.pages : pages[p] = d.pages[p]
  BY <1>5, <1>7 DEF Assign, IsFun
<1>9. IsFiniteSet(DOMAIN pages)
  BY <1>5, <1>6, <1>7, <1>8, FS_AddElement, MapFacts
<1> HIDE DEF pages
<1>10. /\ Shape(c) /\ c.pages = pages /\ c.index_names = d.index_names /\ c.indexes = d.indexes
       /\ c.index_meta_pages = d.index_meta_pages
       /\ c.table_names = InsertPair(d.table_names, t, id)
       /\ c.tables = InsertPair(d.tables, id, [name |-> t, heap |-> heap])
       /\ c.table_meta_pages = InsertPair(d.table_meta_pages, id, meta)
  BY <1>2 DEF Shape, IsFun
<1> HIDE DEF c
<1>11. /\ c.table_names = Assign(d.table_names, t, id)
       /\ c.tables = Assign(d.tables, id, [name |-> t, heap |-> heap])
       /\ c.table_meta_pages = Assign(d.table_meta_pages, id, meta)
  BY <1>3, <1>10, MapFacts
<1>12. IsFun(c.pages) /\ 0 \in DOMAIN c.pages
  BY <1>2, <1>8, <1>10
<1>13. /\ Shape(e) /\ IsFun(e.pages) /\ DOMAIN e.pages = DOMAIN c.pages
       /\ e.table_names = c.table_names /\ e.tables = c.tables
       /\ e.index_names = c.index_names /\ e.indexes = c.indexes
       /\ e.table_meta_pages = c.table_meta_pages
       /\ e.index_meta_pages = c.index_meta_pages
       /\ e.pages[0] = CatalogPage(c.table_meta_pages, c.index_meta_pages)
       /\ \A p \in DOMAIN c.pages : p # 0 => e.pages[p] = c.pages[p]
  BY <1>10, <1>12, FlushFacts
<1> HIDE DEF e
<1>14. heap # meta /\ meta \notin DOMAIN d.pages
  BY <1>5, <1>7
<1>15. e.pages[heap] = HeapPage(<<>>) /\ e.pages[meta] = TableMeta(id, t, heap)
  BY <1>2, <1>4, <1>8, <1>10, <1>13, <1>14
<1>16. \A p \in DOMAIN d.pages : p # 0 => e.pages[p] = d.pages[p]
  BY <1>8, <1>10, <1>13
<1>17. DOMAIN e.pages = DOMAIN d.pages \cup {heap, meta} /\ IsFiniteSet(DOMAIN e.pages)
  BY <1>8, <1>9, <1>10, <1>13
<1>18. /\ heap \in Nat /\ meta \in Nat
       /\ heap \notin DOMAIN d.pages /\ meta \notin DOMAIN d.pages /\ heap # meta
       /\ Shape(e) /\ e.index_names = d.index_names /\ e.indexes = d.indexes
       /\ e.index_meta_pages = d.index_meta_pages
       /\ id \in Nat /\ id \notin DOMAIN d.tables
       /\ e.table_names = Assign(d.table_names, t, id)
       /\ e.tables = Assign(d.tables, id, [name |-> t, heap |-> heap])
       /\ e.table_meta_pages = Assign(d.table_meta_pages, id, meta)
       /\ IsFun(e.pages) /\ DOMAIN e.pages = DOMAIN d.pages \cup {heap, meta}
       /\ IsFiniteSet(DOMAIN e.pages)
       /\ e.pages[0] = CatalogPage(e.table_meta_pages, e.index_meta_pages)
  BY <1>3, <1>4, <1>7, <1>10, <1>11, <1>13, <1>14, <1>17
<1> QED
  BY <1>1, <1>15, <1>16, <1>18, Zenon DEF id

(* CREATE TABLE keeps the database consistent. *)
LEMMA CreateTableGood ==
  ASSUME NEW d, Good(d), NEW t \in Tables, t \notin DOMAIN d.table_names,
         NextId(d.table_meta_pages) <= MaxId
  PROVE  Good(CreateTable(d, t))
<1> DEFINE e == CreateTable(d, t)
           id == NextId(d.table_meta_pages)
<1>1. PICK heap, meta \in Nat :
           /\ heap \notin DOMAIN d.pages /\ meta \notin DOMAIN d.pages /\ heap # meta
           /\ Shape(e) /\ e.index_names = d.index_names /\ e.indexes = d.indexes
           /\ e.index_meta_pages = d.index_meta_pages
           /\ id \in Nat /\ id \notin DOMAIN d.tables
           /\ e.table_names = Assign(d.table_names, t, id)
           /\ e.tables = Assign(d.tables, id, [name |-> t, heap |-> heap])
           /\ e.table_meta_pages = Assign(d.table_meta_pages, id, meta)
           /\ IsFun(e.pages) /\ DOMAIN e.pages = DOMAIN d.pages \cup {heap, meta}
           /\ IsFiniteSet(DOMAIN e.pages)
           /\ e.pages[0] = CatalogPage(e.table_meta_pages, e.index_meta_pages)
           /\ e.pages[heap] = HeapPage(<<>>) /\ e.pages[meta] = TableMeta(id, t, heap)
           /\ \A p \in DOMAIN d.pages : p # 0 => e.pages[p] = d.pages[p]
  BY CreateTableFacts
<1>2. id <= MaxId
  OBVIOUS
<1> HIDE DEF e, id
<1>3. /\ 0 \in DOMAIN d.pages /\ 1 \in DOMAIN d.pages /\ DOMAIN d.pages \subseteq Nat
      /\ d.pages[0].kind = "catalog" /\ d.pages[1].kind = "roots"
  BY GoodFacts
<1>4. e.pages[1] = d.pages[1] /\ Roots(e.pages) = Roots(d.pages)
  BY <1>1, <1>3 DEF Roots, INDEX_ROOTS_PAGE_ID
<1>5. PagesInv(e)
  <2>1. IsFun(Roots(d.pages)) /\ d.pages[1] = RootsPage(Roots(d.pages))
    BY DEF Good, PagesInv
  <2>2. ASSUME NEW p \in DOMAIN e.pages
        PROVE  PageOK(e.pages[p])
    <3>1. CASE p \in DOMAIN d.pages /\ p # 0
      BY <1>1, <3>1 DEF Good, PagesInv
    <3>2. PageOK(e.pages[0])
      BY <1>1, PageForms
    <3>3. <<>> \in Seq(RowType)
      OBVIOUS
    <3>4. PageOK(HeapPage(<<>>)) /\ PageOK(TableMeta(id, t, heap))
      BY <3>3, PageForms, Zenon
    <3> QED
      BY <1>1, <3>1, <3>2, <3>4
  <2> QED
    BY <1>1, <1>3, <1>4, <2>1, <2>2 DEF PagesInv
<1>6. TablesInv(e)
  <2>1. /\ IsFun(e.table_names) /\ IsFun(e.tables) /\ IsFun(e.table_meta_pages)
        /\ DOMAIN e.table_names = DOMAIN d.table_names \cup {t}
        /\ DOMAIN e.tables = DOMAIN d.tables \cup {id}
        /\ DOMAIN e.table_meta_pages = DOMAIN d.table_meta_pages \cup {id}
        /\ e.table_names[t] = id /\ e.table_meta_pages[id] = meta
        /\ \A u \in DOMAIN d.table_names : u # t => e.table_names[u] = d.table_names[u]
        /\ e.tables[id] = [name |-> t, heap |-> heap]
        /\ \A a \in DOMAIN d.tables : a # id => e.tables[a] = d.tables[a]
        /\ \A a \in DOMAIN d.table_meta_pages :
             a # id => e.table_meta_pages[a] = d.table_meta_pages[a]
    BY <1>1 DEF Assign, IsFun
  <2>2. e.tables[id].name = t /\ e.tables[id].heap = heap /\ e.tables[id] \in [name : Tables, heap : Nat]
    BY <2>1
  <2>3. DOMAIN d.table_meta_pages = DOMAIN d.tables /\ DOMAIN d.tables \subseteq 0 .. MaxId
        /\ DOMAIN d.table_names \subseteq Tables
    BY DEF Good, TablesInv
  <2>4. \A a \in DOMAIN d.tables : /\ e.tables[a] = d.tables[a]
                                   /\ e.table_meta_pages[a] = d.table_meta_pages[a]
    BY <1>1, <2>1, <2>3
  <2>5. \A u \in DOMAIN d.table_names : e.table_names[u] = d.table_names[u]
    BY <2>1
  <2>6. e.pages[heap].kind = "heap"
    BY <1>1, PageKinds
  <2>7. ASSUME NEW a \in DOMAIN d.tables
        PROVE  /\ e.tables[a] \in [name : Tables, heap : Nat]
               /\ e.tables[a].name \in DOMAIN e.table_names /\ e.table_names[e.tables[a].name] = a
               /\ e.tables[a].heap \in DOMAIN e.pages /\ e.pages[e.tables[a].heap].kind = "heap"
               /\ e.table_meta_pages[a] \in DOMAIN e.pages
               /\ e.pages[e.table_meta_pages[a]] = TableMeta(a, e.tables[a].name, e.tables[a].heap)
    <3>1. /\ d.tables[a] \in [name : Tables, heap : Nat]
          /\ d.tables[a].name \in DOMAIN d.table_names /\ d.table_names[d.tables[a].name] = a
          /\ d.tables[a].heap \in DOMAIN d.pages /\ d.pages[d.tables[a].heap].kind = "heap"
          /\ d.table_meta_pages[a] \in DOMAIN d.pages
          /\ d.pages[d.table_meta_pages[a]] = TableMeta(a, d.tables[a].name, d.tables[a].heap)
          /\ d.pages[d.table_meta_pages[a]].kind = "table"
      BY GoodFacts DEF Good, TablesInv
    <3>2. d.tables[a].heap # 0 /\ d.table_meta_pages[a] # 0
      BY <1>3, <3>1
    <3> QED
      BY <1>1, <2>1, <2>4, <2>5, <3>1, <3>2
  <2>8. \A u \in DOMAIN d.table_names :
          d.table_names[u] \in DOMAIN d.tables /\ d.tables[d.table_names[u]].name = u
    BY DEF Good, TablesInv
  <2>9. \A a, b \in DOMAIN d.tables : d.tables[a].heap = d.tables[b].heap => a = b
    BY DEF Good, TablesInv
  <2>10. \A a \in DOMAIN d.tables : d.tables[a].heap # heap
    BY <1>1, GoodFacts
  <2>11. \A a, b \in DOMAIN e.tables : e.tables[a].heap = e.tables[b].heap => a = b
    BY <2>1, <2>2, <2>4, <2>9, <2>10
  <2>12. \A u \in DOMAIN e.table_names :
          e.table_names[u] \in DOMAIN e.tables /\ e.tables[e.table_names[u]].name = u
    BY <2>1, <2>2, <2>4, <2>5, <2>8
  <2>13. /\ e.tables[id].name \in DOMAIN e.table_names /\ e.table_names[e.tables[id].name] = id
         /\ e.tables[id].heap \in DOMAIN e.pages /\ e.pages[e.tables[id].heap].kind = "heap"
         /\ e.table_meta_pages[id] \in DOMAIN e.pages
         /\ e.pages[e.table_meta_pages[id]] = TableMeta(id, e.tables[id].name, e.tables[id].heap)
    BY <1>1, <2>1, <2>2, <2>6
  <2>14. DOMAIN e.tables \subseteq 0 .. MaxId
    BY <1>1, <1>2, <2>1, <2>3, ConstantsAssumption
  <2>15. DOMAIN e.table_meta_pages = DOMAIN e.tables /\ DOMAIN e.table_names \subseteq Tables
    BY <2>1, <2>3
  <2>16. \A a \in DOMAIN e.tables : a = id \/ a \in DOMAIN d.tables
    BY <2>1
  <2> QED
    BY <2>1, <2>2, <2>7, <2>11, <2>12, <2>13, <2>14, <2>15, <2>16 DEF TablesInv
<1>7. IndexesInv(e)
  <2>1. IndexesInv(d)
    BY DEF Good
  <2>2. IsFun(e.indexes) /\ \A a \in DOMAIN d.indexes : e.indexes[a] \in [name : Indexes, table : Nat, root : Int]
    BY <1>1, <2>1 DEF IndexesInv
  <2> QED
    BY <1>1, <1>3, <2>1, <2>2, IndexesFrame
<1>8. TreesInv(e)
  <2>1. TreePages(e) = TreePages(d)
    BY <1>1, <1>3, PageKinds DEF TreePages
  <2> QED
    BY <1>1, <1>4, <2>1, TreesFrame DEF Good
<1> QED
  BY <1>1, <1>5, <1>6, <1>7, <1>8 DEF Good, e

(* What DropTable changes: its meta page goes, and its entries in maps. *)
LEMMA DropTableFacts ==
  ASSUME NEW d, Good(d), NEW t \in DOMAIN d.table_names
  PROVE  LET e == DropTable(d, t)
             id == d.table_names[t]
             meta == d.table_meta_pages[id] IN
         /\ Shape(e) /\ e.index_names = d.index_names /\ e.indexes = d.indexes
         /\ e.index_meta_pages = d.index_meta_pages
         /\ id \in DOMAIN d.tables
         /\ meta \in DOMAIN d.pages /\ d.pages[meta].kind = "table"
         /\ e.table_names = Erase(d.table_names, t)
         /\ e.tables = Erase(d.tables, id)
         /\ e.table_meta_pages = Erase(d.table_meta_pages, id)
         /\ IsFun(e.pages) /\ DOMAIN e.pages = DOMAIN d.pages \ {meta}
         /\ IsFiniteSet(DOMAIN e.pages)
         /\ e.pages[0] = CatalogPage(e.table_meta_pages, e.index_meta_pages)
         /\ \A p \in DOMAIN d.pages : p \notin {0, meta} => e.pages[p] = d.pages[p]
<1> DEFINE id == d.table_names[t]
           meta == d.table_meta_pages[id]
           pages == Erase(d.pages, meta)
           c == [d EXCEPT !.pages = pages,
                  !.table_meta_pages = Erase(@, id),
                  !.table_names = Erase(@, t),
                  !.tables = Erase(@, id)]
           e == FlushCatalogMetaPage(c)
<1>1. e = DropTable(d, t)
  BY DEF DropTable
<1>2. /\ Shape(d) /\ DOMAIN d.pages \subseteq Nat /\ IsFiniteSet(DOMAIN d.pages)
      /\ 0 \in DOMAIN d.pages /\ d.pages[0].kind = "catalog" /\ id \in DOMAIN d.tables
      /\ meta \in DOMAIN d.pages /\ d.pages[meta].kind = "table"
  <2>1. id \in DOMAIN d.tables /\ Shape(d) /\ IsFiniteSet(DOMAIN d.pages)
    BY DEF Good, TablesInv, PagesInv
  <2> QED
    BY <2>1, GoodFacts
<1> HIDE DEF id, meta
<1>3. /\ IsFun(pages) /\ DOMAIN pages = DOMAIN d.pages \ {meta}
      /\ \A p \in DOMAIN d.pages : p # meta => pages[p] = d.pages[p]
  BY DEF Erase, Restrict, IsFun
<1>4. IsFiniteSet(DOMAIN pages)
  BY <1>2, <1>3, FS_RemoveElement
<1> HIDE DEF pages
<1>5. /\ Shape(c) /\ c.pages = pages /\ c.index_names = d.index_names /\ c.indexes = d.indexes
      /\ c.index_meta_pages = d.index_meta_pages
      /\ c.table_names = Erase(d.table_names, t)
      /\ c.tables = Erase(d.tables, id)
      /\ c.table_meta_pages = Erase(d.table_meta_pages, id)
  BY <1>2 DEF Shape, IsFun
<1> HIDE DEF c
<1>6. IsFun(c.pages) /\ 0 \in DOMAIN c.pages
  BY <1>2, <1>3, <1>5
<1>7. /\ Shape(e) /\ IsFun(e.pages) /\ DOMAIN e.pages = DOMAIN c.pages
      /\ e.table_names = c.table_names /\ e.tables = c.tables
      /\ e.index_names = c.index_names /\ e.indexes = c.indexes
      /\ e.table_meta_pages = c.table_meta_pages
      /\ e.index_meta_pages = c.index_meta_pages
      /\ e.pages[0] = CatalogPage(c.table_meta_pages, c.index_meta_pages)
      /\ \A p \in DOMAIN c.pages : p # 0 => e.pages[p] = c.pages[p]
  BY <1>5, <1>6, FlushFacts
<1> HIDE DEF e
<1>8. /\ Shape(e) /\ e.index_names = d.index_names /\ e.indexes = d.indexes
      /\ e.index_meta_pages = d.index_meta_pages
      /\ e.table_names = Erase(d.table_names, t)
      /\ e.tables = Erase(d.tables, id)
      /\ e.table_meta_pages = Erase(d.table_meta_pages, id)
      /\ IsFun(e.pages) /\ DOMAIN e.pages = DOMAIN d.pages \ {meta}
      /\ IsFiniteSet(DOMAIN e.pages)
      /\ e.pages[0] = CatalogPage(e.table_meta_pages, e.index_meta_pages)
  BY <1>3, <1>4, <1>5, <1>7
<1>9. \A p \in DOMAIN d.pages : p \notin {0, meta} => e.pages[p] = d.pages[p]
  BY <1>3, <1>5, <1>7
<1> QED
  BY <1>1, <1>2, <1>8, <1>9, Zenon DEF id, meta

(* DROP TABLE keeps the database consistent. *)
LEMMA DropTableGood ==
  ASSUME NEW d, Good(d), NEW t \in DOMAIN d.table_names
  PROVE  Good(DropTable(d, t))
<1> DEFINE e == DropTable(d, t)
           id == d.table_names[t]
           meta == d.table_meta_pages[id]
<1>1. /\ Shape(e) /\ e.index_names = d.index_names /\ e.indexes = d.indexes
      /\ e.index_meta_pages = d.index_meta_pages
      /\ id \in DOMAIN d.tables
      /\ meta \in DOMAIN d.pages /\ d.pages[meta].kind = "table"
      /\ e.table_names = Erase(d.table_names, t)
      /\ e.tables = Erase(d.tables, id)
      /\ e.table_meta_pages = Erase(d.table_meta_pages, id)
      /\ IsFun(e.pages) /\ DOMAIN e.pages = DOMAIN d.pages \ {meta}
      /\ IsFiniteSet(DOMAIN e.pages)
      /\ e.pages[0] = CatalogPage(e.table_meta_pages, e.index_meta_pages)
      /\ \A p \in DOMAIN d.pages : p \notin {0, meta} => e.pages[p] = d.pages[p]
  BY DropTableFacts
<1>2. d.tables[id].name = t /\ d.pages[meta].id = id
  BY <1>1, GoodFacts DEF Good, TablesInv
<1> HIDE DEF e, id
<1>3. /\ 0 \in DOMAIN d.pages /\ 1 \in DOMAIN d.pages /\ DOMAIN d.pages \subseteq Nat
      /\ d.pages[0].kind = "catalog" /\ d.pages[1].kind = "roots"
  BY GoodFacts
<1>4. e.pages[1] = d.pages[1] /\ Roots(e.pages) = Roots(d.pages) /\ {0, 1} \subseteq DOMAIN e.pages
  BY <1>1, <1>3 DEF Roots, INDEX_ROOTS_PAGE_ID
<1>5. PagesInv(e)
  <2>1. IsFun(Roots(d.pages)) /\ d.pages[1] = RootsPage(Roots(d.pages))
    BY DEF Good, PagesInv
  <2>2. ASSUME NEW p \in DOMAIN e.pages
        PROVE  PageOK(e.pages[p])
    <3>1. CASE p # 0
      BY <1>1, <3>1 DEF Good, PagesInv
    <3>2. PageOK(e.pages[0])
      BY <1>1, PageForms
    <3> QED
      BY <3>1, <3>2
  <2> QED
    BY <1>1, <1>3, <1>4, <2>1, <2>2 DEF PagesInv
<1>6. TablesInv(e)
  <2>1. /\ IsFun(e.table_names) /\ IsFun(e.tables) /\ IsFun(e.table_meta_pages)
        /\ DOMAIN e.table_names = DOMAIN d.table_names \ {t}
        /\ DOMAIN e.tables = DOMAIN d.tables \ {id}
        /\ DOMAIN e.table_meta_pages = DOMAIN d.table_meta_pages \ {id}
        /\ \A u \in DOMAIN e.table_names : e.table_names[u] = d.table_names[u]
        /\ \A a \in DOMAIN e.tables : e.tables[a] = d.tables[a]
        /\ \A a \in DOMAIN e.table_meta_pages : e.table_meta_pages[a] = d.table_meta_pages[a]
    BY <1>1 DEF Erase, Restrict, IsFun
  <2>2. DOMAIN d.table_meta_pages = DOMAIN d.tables /\ DOMAIN d.tables \subseteq 0 .. MaxId
        /\ DOMAIN d.table_names \subseteq Tables
    BY DEF Good, TablesInv
  <2>3. ASSUME NEW a \in DOMAIN e.tables
        PROVE  /\ e.tables[a] \in [name : Tables, heap : Nat]
               /\ e.tables[a].name \in DOMAIN e.table_names /\ e.table_names[e.tables[a].name] = a
               /\ e.tables[a].heap \in DOMAIN e.pages /\ e.pages[e.tables[a].heap].kind = "heap"
               /\ e.table_meta_pages[a] \in DOMAIN e.pages
               /\ e.pages[e.table_meta_pages[a]] = TableMeta(a, e.tables[a].name, e.tables[a].heap)
    <3>0. a \in DOMAIN d.tables /\ a # id /\ e.tables[a] = d.tables[a]
          /\ e.table_meta_pages[a] = d.table_meta_pages[a]
      BY <2>1, <2>2
    <3>1. /\ d.tables[a] \in [name : Tables, heap : Nat]
          /\ d.tables[a].name \in DOMAIN d.table_names /\ d.table_names[d.tables[a].name] = a
          /\ d.tables[a].heap \in DOMAIN d.pages /\ d.pages[d.tables[a].heap].kind = "heap"
          /\ d.table_meta_pages[a] \in DOMAIN d.pages
          /\ d.pages[d.table_meta_pages[a]] = TableMeta(a, d.tables[a].name, d.tables[a].heap)
          /\ d.pages[d.table_meta_pages[a]].kind = "table" /\ d.pages[d.table_meta_pages[a]].id = a
      BY <3>0, GoodFacts DEF Good, TablesInv
    <3>2. d.tables[a].heap \notin {0, meta} /\ d.table_meta_pages[a] \notin {0, meta}
      BY <1>1, <1>2, <1>3, <3>0, <3>1
    <3>3. d.tables[a].name # t
      BY <3>0, <3>1 DEF id
    <3> QED
      BY <1>1, <2>1, <3>0, <3>1, <3>2, <3>3
  <2>4. \A u \in DOMAIN d.table_names :
          d.table_names[u] \in DOMAIN d.tables /\ d.tables[d.table_names[u]].name = u
    BY DEF Good, TablesInv
  <2>5. \A a, b \in DOMAIN e.tables : e.tables[a].heap = e.tables[b].heap => a = b
    BY <2>1 DEF Good, TablesInv
  <2>6. \A u \in DOMAIN e.table_names :
          e.table_names[u] \in DOMAIN e.tables /\ e.tables[e.table_names[u]].name = u
    BY <1>2, <2>1, <2>4
  <2>7. DOMAIN e.tables \subseteq 0 .. MaxId /\ DOMAIN e.table_meta_pages = DOMAIN e.tables
        /\ DOMAIN e.table_names \subseteq Tables
    BY <2>1, <2>2
  <2> QED
    BY <2>1, <2>3, <2>5, <2>6, <2>7 DEF TablesInv
<1>7. IndexesInv(e)
  <2>1. IndexesInv(d)
    BY DEF Good
  <2>2. IsFun(e.indexes) /\ \A a \in DOMAIN d.indexes : e.indexes[a] \in [name : Indexes, table : Nat, root : Int]
    BY <1>1, <2>1 DEF IndexesInv
  <2>3. \A p \in DOMAIN d.pages :
           d.pages[p].kind = "index" => p \in DOMAIN e.pages /\ e.pages[p] = d.pages[p]
    BY <1>1, <1>3
  <2> QED
    BY <1>1, <2>1, <2>2, <2>3, IndexesFrame
<1>8. TreesInv(e)
  <2>1. TreePages(e) = TreePages(d)
    BY <1>1, <1>3, PageKinds DEF TreePages
  <2> QED
    BY <1>1, <1>4, <2>1, TreesFrame DEF Good
<1> QED
  BY <1>1, <1>5, <1>6, <1>7, <1>8 DEF Good, e

(* n is the map of index names with one name more. *)
NamesWith(d, t, i, id, n) ==
  /\ IsFun(n) /\ DOMAIN n = DOMAIN d.index_names \cup {t}
  /\ IsFun(n[t]) /\ DOMAIN n[t] = IndexesOf(d, t) \cup {i} /\ n[t][i] = id
  /\ \A j \in IndexesOf(d, t) : n[t][j] = d.index_names[t][j]
  /\ \A u \in DOMAIN d.index_names : u # t => n[u] = d.index_names[u]

(* The new index gets its name, and the other names stay. *)
LEMMA NamedIndexFacts ==
  ASSUME NEW d, IsFun(d.index_names), NEW t, NEW i, NEW id, i \notin IndexesOf(d, t)
  PROVE  NamesWith(d, t, i, id, NamedIndex(d.index_names, t, i, id))
<1> DEFINE names == d.index_names
           n == NamedIndex(names, t, i, id)
<1>1. CASE t \in DOMAIN names
  <2>1. IndexesOf(d, t) = DOMAIN names[t] /\ i \notin DOMAIN names[t]
    BY <1>1 DEF IndexesOf
  <2>2. n = [names EXCEPT ![t] = Assign(names[t], i, id)]
    BY <1>1, <2>1 DEF NamedIndex, InsertPair
  <2>3. n[t] = Assign(names[t], i, id)
    BY <1>1, <2>2
  <2>4. IsFun(n) /\ DOMAIN n = DOMAIN names \cup {t} /\ \A u \in DOMAIN names : u # t => n[u] = names[u]
    BY <1>1, <2>2 DEF IsFun
  <2>5. /\ IsFun(n[t]) /\ DOMAIN n[t] = DOMAIN names[t] \cup {i} /\ n[t][i] = id
        /\ \A j \in DOMAIN names[t] : n[t][j] = names[t][j]
    BY <2>1, <2>3 DEF Assign, IsFun
  <2> QED
    BY <2>1, <2>4, <2>5 DEF NamesWith
<1>2. CASE t \notin DOMAIN names
  <2>1. IndexesOf(d, t) = {}
    BY <1>2 DEF IndexesOf
  <2>2. n = Assign(names, t, Assign(NoEntries, i, id))
    BY <1>2, MapFacts DEF NamedIndex, InsertPair
  <2>3. n[t] = Assign(NoEntries, i, id) /\ IsFun(n) /\ DOMAIN n = DOMAIN names \cup {t}
        /\ \A u \in DOMAIN names : u # t => n[u] = names[u]
    <3> DEFINE v == Assign(NoEntries, i, id)
    <3> HIDE DEF v
    <3>1. n = Assign(names, t, v)
      BY <2>2 DEF v
    <3> HIDE DEF n
    <3>2. n[t] = v /\ IsFun(n) /\ DOMAIN n = DOMAIN names \cup {t}
          /\ \A u \in DOMAIN names : u # t => n[u] = names[u]
      BY <3>1 DEF Assign, IsFun
    <3> QED
      BY <3>2 DEF v
  <2>4. IsFun(n[t]) /\ DOMAIN n[t] = {i} /\ n[t][i] = id
    BY <2>3 DEF Assign, IsFun, NoEntries
  <2> QED
    BY <2>1, <2>3, <2>4 DEF NamesWith
<1> QED
  BY <1>1, <1>2

(* What CreateIndex changes: a meta page, the catalog page, the maps. *)
LEMMA CreateIndexFacts ==
  ASSUME NEW d, Good(d), NEW t \in DOMAIN d.table_names, NEW i, i \notin IndexesOf(d, t)
  PROVE  LET e == CreateIndex(d, t, i)
             id == NextId(d.index_meta_pages)
             info == [name |-> i, table |-> d.table_names[t], root |-> OpenedRoot(d.pages, id)] IN
         \E meta \in Nat :
           /\ meta \notin DOMAIN d.pages
           /\ Shape(e) /\ e.table_names = d.table_names /\ e.tables = d.tables
           /\ e.table_meta_pages = d.table_meta_pages
           /\ id \in Nat /\ id \notin DOMAIN d.indexes
           /\ e.index_names = NamedIndex(d.index_names, t, i, id)
           /\ e.indexes = Assign(d.indexes, id, info)
           /\ e.index_meta_pages = Assign(d.index_meta_pages, id, meta)
           /\ IsFun(e.pages) /\ DOMAIN e.pages = DOMAIN d.pages \cup {meta}
           /\ IsFiniteSet(DOMAIN e.pages)
           /\ e.pages[0] = CatalogPage(e.table_meta_pages, e.index_meta_pages)
           /\ e.pages[meta] = IndexMeta(id, i, d.table_names[t])
           /\ \A p \in DOMAIN d.pages : p # 0 => e.pages[p] = d.pages[p]
<1> DEFINE id == NextId(d.index_meta_pages)
           table == d.table_names[t]
           meta == FreePageId(d.pages)
           info == [name |-> i, table |-> table, root |-> OpenedRoot(d.pages, id)]
           pages == Assign(d.pages, meta, IndexMeta(id, i, table))
           c == [d EXCEPT !.pages = pages,
                      !.index_meta_pages = InsertPair(@, id, meta),
                      !.index_names = NamedIndex(@, t, i, id),
                      !.indexes = InsertPair(@, id, info)]
           e == FlushCatalogMetaPage(c)
<1>1. /\ Shape(d) /\ IsFun(d.pages) /\ DOMAIN d.pages \subseteq Nat /\ IsFiniteSet(DOMAIN d.pages)
      /\ 0 \in DOMAIN d.pages /\ DOMAIN d.indexes \subseteq 0 .. MaxId
      /\ DOMAIN d.index_meta_pages = DOMAIN d.indexes
  BY DEF Good, PagesInv, IndexesInv
<1>2. e = CreateIndex(d, t, i)
  <2>1. c.pages = pages
    BY <1>1 DEF Shape, IsFun
  <2>2. [d EXCEPT !.pages = Assign(@, meta, IndexMeta(id, i, table)),
                      !.index_meta_pages = InsertPair(@, id, meta),
                      !.index_names = NamedIndex(@, t, i, id),
                      !.indexes = InsertPair(@, id, info)] = c
    BY <1>1 DEF Shape, IsFun
  <2> QED
    BY <2>2 DEF CreateIndex
<1>3. id \in Nat /\ id \notin DOMAIN d.indexes /\ id \notin DOMAIN d.index_meta_pages
  BY <1>1, NextIdFacts
<1>4. meta \in Nat /\ meta \notin DOMAIN d.pages
  BY <1>1, FreePageFacts
<1> HIDE DEF id, meta, info, table
<1>5. /\ IsFun(pages) /\ DOMAIN pages = DOMAIN d.pages \cup {meta}
      /\ pages[meta] = IndexMeta(id, i, table)
      /\ \A p \in DOMAIN d.pages : pages[p] = d.pages[p]
  BY <1>4 DEF Assign, IsFun
<1>6. IsFiniteSet(DOMAIN pages)
  BY <1>1, <1>4, <1>5, FS_AddElement
<1> HIDE DEF pages
<1>7. /\ Shape(c) /\ c.pages = pages /\ c.table_names = d.table_names /\ c.tables = d.tables
      /\ c.table_meta_pages = d.table_meta_pages
      /\ c.index_names = NamedIndex(d.index_names, t, i, id)
      /\ c.indexes = InsertPair(d.indexes, id, info)
      /\ c.index_meta_pages = InsertPair(d.index_meta_pages, id, meta)
  BY <1>1 DEF Shape, IsFun
<1> HIDE DEF c
<1>8. /\ c.indexes = Assign(d.indexes, id, info)
      /\ c.index_meta_pages = Assign(d.index_meta_pages, id, meta)
  BY <1>3, <1>7 DEF InsertPair
<1>9. IsFun(c.pages) /\ 0 \in DOMAIN c.pages
  BY <1>1, <1>5, <1>7
<1>10. /\ Shape(e) /\ IsFun(e.pages) /\ DOMAIN e.pages = DOMAIN c.pages
       /\ e.table_names = c.table_names /\ e.tables = c.tables
       /\ e.index_names = c.index_names /\ e.indexes = c.indexes
       /\ e.table_meta_pages = c.table_meta_pages
       /\ e.index_meta_pages = c.index_meta_pages
       /\ e.pages[0] = CatalogPage(c.table_meta_pages, c.index_meta_pages)
       /\ \A p \in DOMAIN c.pages : p # 0 => e.pages[p] = c.pages[p]
  BY <1>7, <1>9, FlushFacts
<1> HIDE DEF e
<1>11. e.pages[meta] = IndexMeta(id, i, table)
  BY <1>1, <1>4, <1>5, <1>7, <1>10
<1>12. \A p \in DOMAIN d.pages : p # 0 => e.pages[p] = d.pages[p]
  BY <1>5, <1>7, <1>10
<1>13. /\ meta \in Nat /\ meta \notin DOMAIN d.pages
       /\ Shape(e) /\ e.table_names = d.table_names /\ e.tables = d.tables
       /\ e.table_meta_pages = d.table_meta_pages
       /\ id \in Nat /\ id \notin DOMAIN d.indexes
       /\ e.index_names = NamedIndex(d.index_names, t, i, id)
       /\ e.indexes = Assign(d.indexes, id, info)
       /\ e.index_meta_pages = Assign(d.index_meta_pages, id, meta)
       /\ IsFun(e.pages) /\ DOMAIN e.pages = DOMAIN d.pages \cup {meta}
       /\ IsFiniteSet(DOMAIN e.pages)
       /\ e.pages[0] = CatalogPage(e.table_meta_pages, e.index_meta_pages)
  BY <1>3, <1>4, <1>5, <1>6, <1>7, <1>8, <1>10
<1> QED
  BY <1>2, <1>11, <1>12, <1>13, Zenon DEF id, info, table

(* A root that the constructor finds is a tree of that id, or none. *)
LEMMA OpenedRootFacts ==
  ASSUME NEW d, Good(d), NEW id
  PROVE  /\ OpenedRoot(d.pages, id) \in TreePages(d) \cup {INVALID_PAGE_ID}
         /\ OpenedRoot(d.pages, id) \in Int
         /\ OpenedRoot(d.pages, id) # INVALID_PAGE_ID =>
              id \in DOMAIN Roots(d.pages) /\ Roots(d.pages)[id] = OpenedRoot(d.pages, id)
         /\ id \in DOMAIN Roots(d.pages) => Roots(d.pages)[id] = OpenedRoot(d.pages, id)
<1>1. \A a \in DOMAIN Roots(d.pages) : Roots(d.pages)[a] \in TreePages(d) \cup {INVALID_PAGE_ID}
  BY DEF Good, TreesInv
<1>2. TreePages(d) \subseteq Nat
  BY DEF Good, PagesInv, TreePages
<1> QED
  BY <1>1, <1>2 DEF OpenedRoot, INVALID_PAGE_ID

(* CREATE INDEX keeps the database consistent before the scan. *)
LEMMA CreateIndexGood ==
  ASSUME NEW d, Good(d), NEW t \in DOMAIN d.table_names, NEW i \in Indexes,
         i \notin IndexesOf(d, t), NextId(d.index_meta_pages) <= MaxId
  PROVE  Good(CreateIndex(d, t, i))
<1> DEFINE e == CreateIndex(d, t, i)
           id == NextId(d.index_meta_pages)
           table == d.table_names[t]
           root == OpenedRoot(d.pages, id)
           info == [name |-> i, table |-> table, root |-> root]
<1>1. PICK meta \in Nat :
           /\ meta \notin DOMAIN d.pages
           /\ Shape(e) /\ e.table_names = d.table_names /\ e.tables = d.tables
           /\ e.table_meta_pages = d.table_meta_pages
           /\ id \in Nat /\ id \notin DOMAIN d.indexes
           /\ e.index_names = NamedIndex(d.index_names, t, i, id)
           /\ e.indexes = Assign(d.indexes, id, info)
           /\ e.index_meta_pages = Assign(d.index_meta_pages, id, meta)
           /\ IsFun(e.pages) /\ DOMAIN e.pages = DOMAIN d.pages \cup {meta}
           /\ IsFiniteSet(DOMAIN e.pages)
           /\ e.pages[0] = CatalogPage(e.table_meta_pages, e.index_meta_pages)
           /\ e.pages[meta] = IndexMeta(id, i, table)
           /\ \A p \in DOMAIN d.pages : p # 0 => e.pages[p] = d.pages[p]
  BY CreateIndexFacts
<1>2. id <= MaxId
  OBVIOUS
<1>3. /\ 0 \in DOMAIN d.pages /\ 1 \in DOMAIN d.pages /\ DOMAIN d.pages \subseteq Nat
      /\ d.pages[0].kind = "catalog" /\ d.pages[1].kind = "roots"
  BY GoodFacts
<1>4. /\ root \in TreePages(d) \cup {INVALID_PAGE_ID} /\ root \in Int
      /\ root # INVALID_PAGE_ID => id \in DOMAIN Roots(d.pages) /\ Roots(d.pages)[id] = root
      /\ id \in DOMAIN Roots(d.pages) => Roots(d.pages)[id] = root
  BY OpenedRootFacts
<1>5. table \in Nat
  BY ConstantsAssumption DEF Good, TablesInv
<1> HIDE DEF e, id, root, table
<1>6. e.pages[1] = d.pages[1] /\ Roots(e.pages) = Roots(d.pages) /\ {0, 1} \subseteq DOMAIN e.pages
  BY <1>1, <1>3 DEF Roots, INDEX_ROOTS_PAGE_ID
<1>7. PagesInv(e)
  <2>1. IsFun(Roots(d.pages)) /\ d.pages[1] = RootsPage(Roots(d.pages))
    BY DEF Good, PagesInv
  <2>2. ASSUME NEW p \in DOMAIN e.pages
        PROVE  PageOK(e.pages[p])
    <3>1. CASE p # 0 /\ p # meta
      BY <1>1, <3>1 DEF Good, PagesInv
    <3>2. PageOK(e.pages[0]) /\ PageOK(e.pages[meta])
      BY <1>1, PageForms
    <3> QED
      BY <3>1, <3>2
  <2> QED
    BY <1>1, <1>3, <1>6, <2>1, <2>2 DEF PagesInv
<1>8. TablesInv(e)
  <2>1. TablesInv(d)
    BY DEF Good
  <2>2. \A p \in DOMAIN d.pages :
           /\ d.pages[p].kind = "heap" => p \in DOMAIN e.pages /\ e.pages[p].kind = "heap"
           /\ d.pages[p].kind = "table" => p \in DOMAIN e.pages /\ e.pages[p] = d.pages[p]
    BY <1>1, <1>3
  <2> QED
    BY <1>1, <2>1, <2>2, TablesFrame
<1>9. /\ IsFun(e.indexes) /\ IsFun(e.index_meta_pages)
      /\ DOMAIN e.indexes = DOMAIN d.indexes \cup {id}
      /\ DOMAIN e.index_meta_pages = DOMAIN d.index_meta_pages \cup {id}
      /\ e.indexes[id] = info /\ e.index_meta_pages[id] = meta
      /\ \A a \in DOMAIN d.indexes : a # id => e.indexes[a] = d.indexes[a]
      /\ \A a \in DOMAIN d.index_meta_pages : a # id => e.index_meta_pages[a] = d.index_meta_pages[a]
  BY <1>1 DEF Assign, IsFun
<1>10. \A a \in DOMAIN d.indexes : e.indexes[a] = d.indexes[a]
  BY <1>1, <1>9
<1>11. /\ e.indexes[id].name = i /\ e.indexes[id].table = table /\ e.indexes[id].root = root
       /\ e.indexes[id] \in [name : Indexes, table : Nat, root : Int]
  BY <1>4, <1>5, <1>9
<1>12. IndexesInv(e)
  <2> DEFINE n == NamedIndex(d.index_names, t, i, id)
  <2>0. n = NamedIndex(d.index_names, t, i, id)
    OBVIOUS
  <2> HIDE DEF n
  <2>1. IsFun(d.index_names)
    BY DEF Good, IndexesInv
  <2>2. /\ IsFun(n) /\ DOMAIN n = DOMAIN d.index_names \cup {t}
        /\ IsFun(n[t]) /\ DOMAIN n[t] = IndexesOf(d, t) \cup {i} /\ n[t][i] = id
        /\ \A j \in IndexesOf(d, t) : n[t][j] = d.index_names[t][j]
        /\ \A u \in DOMAIN d.index_names : u # t => n[u] = d.index_names[u]
    <3>1. NamesWith(d, t, i, id, n)
      BY <2>0, <2>1, NamedIndexFacts
    <3> QED
      BY <3>1 DEF NamesWith
  <2>3. e.index_names = n
    BY <1>1 DEF n
  <2>4. /\ DOMAIN d.index_names \subseteq Tables
        /\ \A u \in DOMAIN d.index_names :
             /\ IsFun(d.index_names[u]) /\ DOMAIN d.index_names[u] \subseteq Indexes
             /\ \A j \in DOMAIN d.index_names[u] : d.index_names[u][j] \in DOMAIN d.indexes
    BY DEF Good, IndexesInv
  <2>5. \A u, v \in DOMAIN d.index_names :
          \A j \in DOMAIN d.index_names[u], k \in DOMAIN d.index_names[v] :
            d.index_names[u][j] = d.index_names[v][k] => u = v /\ j = k
    BY DEF Good, IndexesInv
  <2>6. ASSUME NEW u \in DOMAIN n, NEW j \in DOMAIN n[u], ~(u = t /\ j = i)
        PROVE  u \in DOMAIN d.index_names /\ j \in DOMAIN d.index_names[u]
               /\ n[u][j] = d.index_names[u][j]
    BY <2>2, <2>6 DEF IndexesOf
  <2>7. ASSUME NEW u \in DOMAIN n, NEW j \in DOMAIN n[u]
        PROVE  n[u][j] \in DOMAIN d.indexes \/ (u = t /\ j = i)
    BY <2>4, <2>6
  <2>8. ASSUME NEW u \in DOMAIN n, NEW v \in DOMAIN n,
               NEW j \in DOMAIN n[u], NEW k \in DOMAIN n[v], n[u][j] = n[v][k]
        PROVE  u = v /\ j = k
    <3>1. CASE (u = t /\ j = i) /\ (v = t /\ k = i)
      BY <3>1
    <3>2. CASE (u = t /\ j = i) /\ ~(v = t /\ k = i)
      BY <1>1, <2>2, <2>7, <2>8, <3>2
    <3>3. CASE ~(u = t /\ j = i) /\ (v = t /\ k = i)
      BY <1>1, <2>2, <2>7, <2>8, <3>3
    <3>4. CASE ~(u = t /\ j = i) /\ ~(v = t /\ k = i)
      BY <2>5, <2>6, <2>8, <3>4
    <3> QED
      BY <3>1, <3>2, <3>3, <3>4
  <2>9. t \in Tables
    BY DEF Good, TablesInv
  <2>10. ASSUME NEW u \in DOMAIN n
         PROVE  /\ IsFun(n[u]) /\ DOMAIN n[u] \subseteq Indexes
                /\ \A j \in DOMAIN n[u] : n[u][j] \in DOMAIN e.indexes
    <3>1. IsFun(n[u])
      BY <2>2, <2>4
    <3>2. DOMAIN n[u] \subseteq Indexes
      BY <2>2, <2>4, <2>6
    <3>3. \A j \in DOMAIN n[u] : n[u][j] \in DOMAIN e.indexes
      BY <1>9, <2>2, <2>7
    <3> QED
      BY <3>1, <3>2, <3>3
  <2>11. DOMAIN d.index_meta_pages = DOMAIN d.indexes /\ DOMAIN d.indexes \subseteq 0 .. MaxId
    BY DEF Good, IndexesInv
  <2>12. DOMAIN e.indexes \subseteq 0 .. MaxId /\ DOMAIN e.index_meta_pages = DOMAIN e.indexes
    BY <1>1, <1>2, <1>9, <2>11, ConstantsAssumption
  <2>13. ASSUME NEW a \in DOMAIN d.indexes
         PROVE  /\ e.indexes[a] \in [name : Indexes, table : Nat, root : Int]
                /\ e.index_meta_pages[a] \in DOMAIN e.pages
                /\ e.pages[e.index_meta_pages[a]] = IndexMeta(a, e.indexes[a].name, e.indexes[a].table)
    <3>1. /\ d.indexes[a] \in [name : Indexes, table : Nat, root : Int]
          /\ d.index_meta_pages[a] \in DOMAIN d.pages
          /\ d.pages[d.index_meta_pages[a]] = IndexMeta(a, d.indexes[a].name, d.indexes[a].table)
          /\ d.pages[d.index_meta_pages[a]].kind = "index"
      BY GoodFacts DEF Good, IndexesInv
    <3>2. d.index_meta_pages[a] # 0 /\ e.index_meta_pages[a] = d.index_meta_pages[a]
      BY <1>1, <1>3, <1>9, <2>11, <3>1
    <3> QED
      BY <1>1, <1>10, <3>1, <3>2
  <2>14. /\ e.index_meta_pages[id] \in DOMAIN e.pages
         /\ e.pages[e.index_meta_pages[id]] = IndexMeta(id, e.indexes[id].name, e.indexes[id].table)
    BY <1>1, <1>9, <1>11
  <2>15. ASSUME NEW a \in DOMAIN e.indexes
         PROVE  /\ e.indexes[a] \in [name : Indexes, table : Nat, root : Int]
                /\ e.index_meta_pages[a] \in DOMAIN e.pages
                /\ e.pages[e.index_meta_pages[a]] = IndexMeta(a, e.indexes[a].name, e.indexes[a].table)
    BY <1>9, <1>11, <2>13, <2>14
  <2>16. DOMAIN n \subseteq Tables
    BY <2>2, <2>4, <2>9
  <2> QED
    BY <1>9, <2>2, <2>3, <2>8, <2>10, <2>12, <2>15, <2>16 DEF IndexesInv
<1>13. TreesInv(e)
  <2>1. TreePages(e) = TreePages(d) /\ TreePages(d) \subseteq Nat
    BY <1>1, <1>3, PageKinds DEF TreePages
  <2>2. TreesInv(d)
    BY DEF Good
  <2>3. ASSUME NEW p \in TreePages(d), NEW a, RootOf(e, a, p)
        PROVE  RootOf(d, a, p)
    <3>1. CASE a = id /\ e.indexes[id].root = p
      BY <1>4, <1>11, <2>1, <3>1 DEF RootOf, INVALID_PAGE_ID
    <3> QED
      BY <1>6, <1>9, <1>10, <2>3, <3>1 DEF RootOf
  <2>4. ASSUME NEW p \in TreePages(d), NEW a, RootOf(e, a, p)
        PROVE  a \in DOMAIN d.indexes \cup DOMAIN Roots(d.pages)
    BY <2>3, <2>4 DEF RootOf
  <2>5. \A p \in TreePages(e) : \A a, b \in DOMAIN e.indexes \cup DOMAIN Roots(e.pages) :
          RootOf(e, a, p) /\ RootOf(e, b, p) => a = b
    BY <2>1, <2>2, <2>3, <2>4 DEF TreesInv
  <2>6. \A a \in DOMAIN e.indexes : e.indexes[a].root \in TreePages(e) \cup {INVALID_PAGE_ID}
    BY <1>4, <1>9, <1>10, <1>11, <2>1, <2>2 DEF TreesInv
  <2>7. \A a \in DOMAIN Roots(e.pages) : Roots(e.pages)[a] \in TreePages(e) \cup {INVALID_PAGE_ID}
    BY <1>6, <2>1, <2>2 DEF TreesInv
  <2>8. \A a \in DOMAIN e.indexes :
       /\ e.indexes[a].root # INVALID_PAGE_ID => a \in DOMAIN Roots(e.pages)
       /\ a \in DOMAIN Roots(e.pages) =>
            Roots(e.pages)[a] \in {e.indexes[a].root, INVALID_PAGE_ID}
    BY <1>4, <1>6, <1>9, <1>10, <1>11, <2>2 DEF TreesInv
  <2> QED
    BY <2>5, <2>6, <2>7, <2>8 DEF TreesInv
<1> QED
  BY <1>1, <1>7, <1>8, <1>12, <1>13 DEF Good, e

(* What DropIndex changes: its meta page goes, and its entries in maps;    *)
(* the names of the table's other indexes go with it.                      *)
LEMMA DropIndexFacts ==
  ASSUME NEW d, Good(d), NEW t \in DOMAIN d.index_names, NEW i \in DOMAIN d.index_names[t]
  PROVE  LET e == DropIndex(d, t, i)
             id == d.index_names[t][i]
             meta == d.index_meta_pages[id] IN
         /\ Shape(e) /\ e.table_names = d.table_names /\ e.tables = d.tables
         /\ e.table_meta_pages = d.table_meta_pages
         /\ id \in DOMAIN d.indexes
         /\ meta \in DOMAIN d.pages /\ d.pages[meta].kind = "index"
         /\ e.index_names = Erase(d.index_names, t)
         /\ e.indexes = Erase(d.indexes, id)
         /\ e.index_meta_pages = Erase(d.index_meta_pages, id)
         /\ IsFun(e.pages) /\ DOMAIN e.pages = DOMAIN d.pages \ {meta}
         /\ IsFiniteSet(DOMAIN e.pages)
         /\ e.pages[0] = CatalogPage(e.table_meta_pages, e.index_meta_pages)
         /\ \A p \in DOMAIN d.pages : p \notin {0, meta} => e.pages[p] = d.pages[p]
<1> DEFINE id == d.index_names[t][i]
           meta == d.index_meta_pages[id]
           pages == Erase(d.pages, meta)
           c == [d EXCEPT !.pages = pages,
                  !.index_meta_pages = Erase(@, id),
                  !.index_names = Erase(@, t),
                  !.indexes = Erase(@, id)]
           e == FlushCatalogMetaPage(c)
<1>1. e = DropIndex(d, t, i)
  BY DEF DropIndex
<1>2. /\ Shape(d) /\ DOMAIN d.pages \subseteq Nat /\ IsFiniteSet(DOMAIN d.pages)
      /\ 0 \in DOMAIN d.pages /\ d.pages[0].kind = "catalog" /\ id \in DOMAIN d.indexes
      /\ meta \in DOMAIN d.pages /\ d.pages[meta].kind = "index"
  <2>1. id \in DOMAIN d.indexes /\ Shape(d) /\ IsFiniteSet(DOMAIN d.pages)
    BY DEF Good, IndexesInv, PagesInv
  <2> QED
    BY <2>1, GoodFacts
<1> HIDE DEF id, meta
<1>3. /\ IsFun(pages) /\ DOMAIN pages = DOMAIN d.pages \ {meta}
      /\ \A p \in DOMAIN d.pages : p # meta => pages[p] = d.pages[p]
  BY DEF Erase, Restrict, IsFun
<1>4. IsFiniteSet(DOMAIN pages)
  BY <1>2, <1>3, FS_RemoveElement
<1> HIDE DEF pages
<1>5. /\ Shape(c) /\ c.pages = pages /\ c.table_names = d.table_names /\ c.tables = d.tables
      /\ c.table_meta_pages = d.table_meta_pages
      /\ c.index_names = Erase(d.index_names, t)
      /\ c.indexes = Erase(d.indexes, id)
      /\ c.index_meta_pages = Erase(d.index_meta_pages, id)
  BY <1>2 DEF Shape, IsFun
<1> HIDE DEF c
<1>6. IsFun(c.pages) /\ 0 \in DOMAIN c.pages
  BY <1>2, <1>3, <1>5
<1>7. /\ Shape(e) /\ IsFun(e.pages) /\ DOMAIN e.pages = DOMAIN c.pages
      /\ e.table_names = c.table_names /\ e.tables = c.tables
      /\ e.index_names = c.index_names /\ e.indexes = c.indexes
      /\ e.table_meta_pages = c.table_meta_pages
      /\ e.index_meta_pages = c.index_meta_pages
      /\ e.pages[0] = CatalogPage(c.table_meta_pages, c.index_meta_pages)
      /\ \A p \in DOMAIN c.pages : p # 0 => e.pages[p] = c.pages[p]
  BY <1>5, <1>6, FlushFacts
<1> HIDE DEF e
<1>8. /\ Shape(e) /\ e.table_names = d.table_names /\ e.tables = d.tables
      /\ e.table_meta_pages = d.table_meta_pages
      /\ e.index_names = Erase(d.index_names, t)
      /\ e.indexes = Erase(d.indexes, id)
      /\ e.index_meta_pages = Erase(d.index_meta_pages, id)
      /\ IsFun(e.pages) /\ DOMAIN e.pages = DOMAIN d.pages \ {meta}
      /\ IsFiniteSet(DOMAIN e.pages)
      /\ e.pages[0] = CatalogPage(e.table_meta_pages, e.index_meta_pages)
  BY <1>3, <1>4, <1>5, <1>7
<1>9. \A p \in DOMAIN d.pages : p \notin {0, meta} => e.pages[p] = d.pages[p]
  BY <1>3, <1>5, <1>7
<1> QED
  BY <1>1, <1>2, <1>8, <1>9, Zenon DEF id, meta

(* DROP INDEX keeps the database consistent. *)
LEMMA DropIndexGood ==
  ASSUME NEW d, Good(d), NEW t \in DOMAIN d.index_names, NEW i \in DOMAIN d.index_names[t]
  PROVE  Good(DropIndex(d, t, i))
<1> DEFINE e == DropIndex(d, t, i)
           id == d.index_names[t][i]
           meta == d.index_meta_pages[id]
<1>1. /\ Shape(e) /\ e.table_names = d.table_names /\ e.tables = d.tables
      /\ e.table_meta_pages = d.table_meta_pages
      /\ id \in DOMAIN d.indexes
      /\ meta \in DOMAIN d.pages /\ d.pages[meta].kind = "index"
      /\ e.index_names = Erase(d.index_names, t)
      /\ e.indexes = Erase(d.indexes, id)
      /\ e.index_meta_pages = Erase(d.index_meta_pages, id)
      /\ IsFun(e.pages) /\ DOMAIN e.pages = DOMAIN d.pages \ {meta}
      /\ IsFiniteSet(DOMAIN e.pages)
      /\ e.pages[0] = CatalogPage(e.table_meta_pages, e.index_meta_pages)
      /\ \A p \in DOMAIN d.pages : p \notin {0, meta} => e.pages[p] = d.pages[p]
  BY DropIndexFacts
<1>2. d.pages[meta].id = id
  BY <1>1, GoodFacts
<1> HIDE DEF e, id
<1>3. /\ 0 \in DOMAIN d.pages /\ 1 \in DOMAIN d.pages /\ DOMAIN d.pages \subseteq Nat
      /\ d.pages[0].kind = "catalog" /\ d.pages[1].kind = "roots"
  BY GoodFacts
<1>4. e.pages[1] = d.pages[1] /\ Roots(e.pages) = Roots(d.pages) /\ {0, 1} \subseteq DOMAIN e.pages
  BY <1>1, <1>3 DEF Roots, INDEX_ROOTS_PAGE_ID
<1>5. PagesInv(e)
  <2>1. IsFun(Roots(d.pages)) /\ d.pages[1] = RootsPage(Roots(d.pages))
    BY DEF Good, PagesInv
  <2>2. ASSUME NEW p \in DOMAIN e.pages
        PROVE  PageOK(e.pages[p])
    <3>1. CASE p # 0
      BY <1>1, <3>1 DEF Good, PagesInv
    <3>2. PageOK(e.pages[0])
      BY <1>1, PageForms
    <3> QED
      BY <3>1, <3>2
  <2> QED
    BY <1>1, <1>3, <1>4, <2>1, <2>2 DEF PagesInv
<1>6. TablesInv(e)
  <2>1. TablesInv(d)
    BY DEF Good
  <2>2. \A p \in DOMAIN d.pages :
           /\ d.pages[p].kind = "heap" => p \in DOMAIN e.pages /\ e.pages[p].kind = "heap"
           /\ d.pages[p].kind = "table" => p \in DOMAIN e.pages /\ e.pages[p] = d.pages[p]
    BY <1>1, <1>3
  <2> QED
    BY <1>1, <2>1, <2>2, TablesFrame
<1>7. /\ IsFun(e.index_names) /\ IsFun(e.indexes) /\ IsFun(e.index_meta_pages)
      /\ DOMAIN e.index_names = DOMAIN d.index_names \ {t}
      /\ DOMAIN e.indexes = DOMAIN d.indexes \ {id}
      /\ DOMAIN e.index_meta_pages = DOMAIN d.index_meta_pages \ {id}
      /\ \A u \in DOMAIN e.index_names : e.index_names[u] = d.index_names[u]
      /\ \A a \in DOMAIN e.indexes : e.indexes[a] = d.indexes[a]
      /\ \A a \in DOMAIN e.index_meta_pages : e.index_meta_pages[a] = d.index_meta_pages[a]
  BY <1>1 DEF Erase, Restrict, IsFun
<1>8. IndexesInv(e)
  <2>1. /\ DOMAIN d.index_names \subseteq Tables
        /\ DOMAIN d.indexes \subseteq 0 .. MaxId /\ DOMAIN d.index_meta_pages = DOMAIN d.indexes
    BY DEF Good, IndexesInv
  <2>2. \A u, v \in DOMAIN d.index_names :
          \A j \in DOMAIN d.index_names[u], k \in DOMAIN d.index_names[v] :
            d.index_names[u][j] = d.index_names[v][k] => u = v /\ j = k
    BY DEF Good, IndexesInv
  <2>3. ASSUME NEW u \in DOMAIN e.index_names
        PROVE  /\ IsFun(e.index_names[u]) /\ DOMAIN e.index_names[u] \subseteq Indexes
               /\ \A j \in DOMAIN e.index_names[u] : e.index_names[u][j] \in DOMAIN e.indexes
    <3>1. /\ IsFun(d.index_names[u]) /\ DOMAIN d.index_names[u] \subseteq Indexes
          /\ \A j \in DOMAIN d.index_names[u] : d.index_names[u][j] \in DOMAIN d.indexes
      BY <1>7 DEF Good, IndexesInv
    <3>2. \A j \in DOMAIN d.index_names[u] : d.index_names[u][j] # id
      BY <1>7, <2>2 DEF id
    <3> QED
      BY <1>7, <3>1, <3>2
  <2>4. ASSUME NEW a \in DOMAIN e.indexes
        PROVE  /\ e.indexes[a] \in [name : Indexes, table : Nat, root : Int]
               /\ e.index_meta_pages[a] \in DOMAIN e.pages
               /\ e.pages[e.index_meta_pages[a]] = IndexMeta(a, e.indexes[a].name, e.indexes[a].table)
    <3>0. a \in DOMAIN d.indexes /\ a # id /\ e.indexes[a] = d.indexes[a]
          /\ e.index_meta_pages[a] = d.index_meta_pages[a]
      BY <1>7, <2>1
    <3>1. /\ d.indexes[a] \in [name : Indexes, table : Nat, root : Int]
          /\ d.index_meta_pages[a] \in DOMAIN d.pages
          /\ d.pages[d.index_meta_pages[a]] = IndexMeta(a, d.indexes[a].name, d.indexes[a].table)
          /\ d.pages[d.index_meta_pages[a]].kind = "index" /\ d.pages[d.index_meta_pages[a]].id = a
      BY <3>0, GoodFacts DEF Good, IndexesInv
    <3>2. d.index_meta_pages[a] \notin {0, meta}
      BY <1>2, <1>3, <3>0, <3>1
    <3> QED
      BY <1>1, <3>0, <3>1, <3>2
  <2>5. \A u, v \in DOMAIN e.index_names :
          \A j \in DOMAIN e.index_names[u], k \in DOMAIN e.index_names[v] :
            e.index_names[u][j] = e.index_names[v][k] => u = v /\ j = k
    BY <1>7, <2>2
  <2>6. DOMAIN e.index_names \subseteq Tables
        /\ DOMAIN e.indexes \subseteq 0 .. MaxId /\ DOMAIN e.index_meta_pages = DOMAIN e.indexes
    BY <1>7, <2>1
  <2> QED
    BY <1>7, <2>3, <2>4, <2>5, <2>6 DEF IndexesInv
<1>9. TreesInv(e)
  <2>1. TreePages(e) = TreePages(d)
    BY <1>1, <1>3, PageKinds DEF TreePages
  <2>2. TreesInv(d)
    BY DEF Good
  <2>3. \A a, p : RootOf(e, a, p) => RootOf(d, a, p)
    BY <1>4, <1>7 DEF RootOf
  <2> QED
    BY <1>4, <1>7, <2>1, <2>2, <2>3 DEF TreesInv
<1> QED
  BY <1>1, <1>5, <1>6, <1>8, <1>9 DEF Good, e

(* Only the rows of heap pages differ. *)
OnlyRows(d, e) ==
  /\ Shape(e) /\ e.table_names = d.table_names /\ e.tables = d.tables
  /\ e.index_names = d.index_names /\ e.indexes = d.indexes
  /\ e.table_meta_pages = d.table_meta_pages /\ e.index_meta_pages = d.index_meta_pages
  /\ IsFun(e.pages) /\ DOMAIN e.pages = DOMAIN d.pages
  /\ \A p \in DOMAIN d.pages : d.pages[p].kind # "heap" => e.pages[p] = d.pages[p]
  /\ \A p \in DOMAIN d.pages : d.pages[p].kind = "heap" =>
       e.pages[p].rows \in Seq(RowType) /\ e.pages[p] = HeapPage(e.pages[p].rows)

(* Changes of rows keep the database consistent. *)
LEMMA OnlyRowsGood ==
  ASSUME NEW d, NEW e, Good(d), OnlyRows(d, e)
  PROVE  Good(e)
<1>1. /\ Shape(e) /\ e.table_names = d.table_names /\ e.tables = d.tables
      /\ e.index_names = d.index_names /\ e.indexes = d.indexes
      /\ e.table_meta_pages = d.table_meta_pages /\ e.index_meta_pages = d.index_meta_pages
      /\ IsFun(e.pages) /\ DOMAIN e.pages = DOMAIN d.pages
      /\ \A p \in DOMAIN d.pages : d.pages[p].kind # "heap" => e.pages[p] = d.pages[p]
  BY DEF OnlyRows
<1>2. \A p \in DOMAIN d.pages : d.pages[p].kind = "heap" =>
        e.pages[p].kind = "heap" /\ PageOK(e.pages[p])
  BY PageKinds DEF OnlyRows, PageOK
<1>3. /\ 0 \in DOMAIN d.pages /\ 1 \in DOMAIN d.pages /\ DOMAIN d.pages \subseteq Nat
      /\ d.pages[0].kind = "catalog" /\ d.pages[1].kind = "roots"
  BY GoodFacts
<1>4. e.pages[0] = d.pages[0] /\ e.pages[1] = d.pages[1] /\ Roots(e.pages) = Roots(d.pages)
  BY <1>1, <1>3 DEF Roots, INDEX_ROOTS_PAGE_ID
<1>5. PagesInv(e)
  <2>1. /\ IsFun(Roots(d.pages)) /\ d.pages[1] = RootsPage(Roots(d.pages))
        /\ d.pages[0] = CatalogPage(d.table_meta_pages, d.index_meta_pages)
        /\ IsFiniteSet(DOMAIN d.pages) /\ \A p \in DOMAIN d.pages : PageOK(d.pages[p])
    BY DEF Good, PagesInv
  <2>2. \A p \in DOMAIN e.pages : PageOK(e.pages[p])
    BY <1>1, <1>2, <2>1
  <2>3. {0, 1} \subseteq DOMAIN e.pages
    BY <1>1, <1>3
  <2> QED
    BY <1>1, <1>3, <1>4, <2>1, <2>2, <2>3 DEF PagesInv
<1>6. TablesInv(e)
  <2>1. TablesInv(d)
    BY DEF Good
  <2>2. \A p \in DOMAIN d.pages :
           /\ d.pages[p].kind = "heap" => p \in DOMAIN e.pages /\ e.pages[p].kind = "heap"
           /\ d.pages[p].kind = "table" => p \in DOMAIN e.pages /\ e.pages[p] = d.pages[p]
    BY <1>1, <1>2
  <2> QED
    BY <1>1, <2>1, <2>2, TablesFrame
<1>7. IndexesInv(e)
  <2>1. IndexesInv(d)
    BY DEF Good
  <2>2. IsFun(e.indexes) /\ \A a \in DOMAIN d.indexes : e.indexes[a] \in [name : Indexes, table : Nat, root : Int]
    BY <1>1, <2>1 DEF IndexesInv
  <2>3. \A p \in DOMAIN d.pages :
           d.pages[p].kind = "index" => p \in DOMAIN e.pages /\ e.pages[p] = d.pages[p]
    BY <1>1
  <2> QED
    BY <1>1, <2>1, <2>2, <2>3, IndexesFrame
<1>8. TreesInv(e)
  <2>1. TreePages(e) = TreePages(d)
    BY <1>1, <1>2 DEF TreePages
  <2> QED
    BY <1>1, <1>4, <2>1, TreesFrame DEF Good
<1> QED
  BY <1>1, <1>5, <1>6, <1>7, <1>8 DEF Good

(* MarkDelete: the rows that are named are no longer live. *)
MarkedRows(d, e, rids) ==
  \A p \in DOMAIN d.pages : d.pages[p].kind = "heap" =>
    /\ DOMAIN e.pages[p].rows = DOMAIN d.pages[p].rows
    /\ \A s \in DOMAIN d.pages[p].rows :
         /\ e.pages[p].rows[s].key = d.pages[p].rows[s].key
         /\ e.pages[p].rows[s].live <=> d.pages[p].rows[s].live /\ <<p, s>> \notin rids

(* See above. *)
LEMMA MarkDeleteFacts ==
  ASSUME NEW d, Good(d), NEW rids
  PROVE  OnlyRows(d, MarkDelete(d, rids)) /\ MarkedRows(d, MarkDelete(d, rids), rids)
<1> DEFINE Marked(p) == [s \in DOMAIN d.pages[p].rows |->
                [d.pages[p].rows[s] EXCEPT !.live = @ /\ <<p, s>> \notin rids]]
           pages == [p \in DOMAIN d.pages |->
                IF d.pages[p].kind # "heap" THEN d.pages[p] ELSE HeapPage(Marked(p))]
           e == [d EXCEPT !.pages = pages]
<1>1. Shape(d)
  BY DEF Good
<1>2. e = MarkDelete(d, rids)
  BY Zenon DEF MarkDelete
<1>3. ASSUME NEW p \in DOMAIN d.pages, d.pages[p].kind = "heap"
      PROVE  /\ Marked(p) \in Seq(RowType) /\ DOMAIN Marked(p) = DOMAIN d.pages[p].rows
             /\ \A s \in DOMAIN d.pages[p].rows :
                /\ Marked(p)[s].key = d.pages[p].rows[s].key
                /\ Marked(p)[s].live <=> d.pages[p].rows[s].live /\ <<p, s>> \notin rids
  <2> DEFINE rows == d.pages[p].rows
             del(s) == <<p, s>> \in rids
  <2>1. rows \in Seq(RowType)
    BY <1>3 DEF Good, PagesInv, PageOK
  <2>2. ASSUME NEW s \in DOMAIN rows
        PROVE  /\ Marked(p)[s] \in RowType /\ Marked(p)[s].key = rows[s].key
               /\ Marked(p)[s].live <=> rows[s].live /\ <<p, s>> \notin rids
    <3>1. rows[s] \in RowType
      BY <2>1
    <3>2. Marked(p)[s] = [rows[s] EXCEPT !.live = rows[s].live /\ <<p, s>> \notin rids]
      BY <3>1 DEF RowType
    <3> HIDE DEF rows, Marked
    <3> QED
      BY <3>1, <3>2 DEF RowType
  <2>3. DOMAIN Marked(p) = DOMAIN rows
    OBVIOUS
  <2>4. Marked(p) \in Seq(RowType)
    <3>1. Marked(p) = [s \in 1 .. Len(rows) |-> Marked(p)[s]]
      BY <2>1
    <3>2. \A s \in 1 .. Len(rows) : Marked(p)[s] \in RowType
      BY <2>1, <2>2
    <3>3. Len(rows) \in Nat
      BY <2>1
    <3> HIDE DEF rows, Marked
    <3> QED
      BY <3>1, <3>2, <3>3
  <2> QED
    BY <2>2, <2>3, <2>4
<1> HIDE DEF Marked
<1>4. /\ IsFun(pages) /\ DOMAIN pages = DOMAIN d.pages
      /\ \A p \in DOMAIN d.pages : d.pages[p].kind # "heap" => pages[p] = d.pages[p]
      /\ \A p \in DOMAIN d.pages : d.pages[p].kind = "heap" => pages[p] = HeapPage(Marked(p))
  BY DEF IsFun
<1>5. ASSUME NEW p \in DOMAIN d.pages, d.pages[p].kind = "heap"
      PROVE  pages[p].rows = Marked(p) /\ pages[p] = HeapPage(pages[p].rows)
  BY <1>4, <1>5, PageKinds
<1> HIDE DEF pages
<1>6. /\ Shape(e) /\ e.table_names = d.table_names /\ e.tables = d.tables
      /\ e.index_names = d.index_names /\ e.indexes = d.indexes
      /\ e.table_meta_pages = d.table_meta_pages /\ e.index_meta_pages = d.index_meta_pages
      /\ e.pages = pages
  BY <1>1 DEF Shape, IsFun
<1> HIDE DEF e
<1>7. OnlyRows(d, e)
  BY <1>3, <1>4, <1>5, <1>6 DEF OnlyRows
<1>8. MarkedRows(d, e, rids)
  BY <1>3, <1>5, <1>6 DEF MarkedRows
<1> QED
  BY <1>2, <1>7, <1>8

(* INSERT: a live row more in one heap. *)
InsertedRow(d, e, heap, k) ==
  /\ \A p \in DOMAIN d.pages : p # heap => e.pages[p] = d.pages[p]
  /\ e.pages[heap].rows = Append(d.pages[heap].rows, [key |-> k, live |-> TRUE])

(* See above. *)
LEMMA InsertFacts ==
  ASSUME NEW d, Good(d), NEW heap \in DOMAIN d.pages, d.pages[heap].kind = "heap", NEW k \in Keys,
         NEW e, e = [d EXCEPT !.pages[heap].rows = Append(@, [key |-> k, live |-> TRUE])]
  PROVE  OnlyRows(d, e) /\ InsertedRow(d, e, heap, k)
<1> DEFINE rows == d.pages[heap].rows
           row == [key |-> k, live |-> TRUE]
           page == [d.pages[heap] EXCEPT !.rows = Append(rows, row)]
<1>1. /\ Shape(d) /\ IsFun(d.pages) /\ rows \in Seq(RowType) /\ d.pages[heap] = HeapPage(rows)
  BY DEF Good, PagesInv, PageOK
<1>2. row \in RowType
  BY DEF RowType
<1> HIDE DEF row
<1>3. page = HeapPage(Append(rows, row)) /\ page.rows = Append(rows, row)
  <2> DEFINE new == Append(rows, row)
  <2> HIDE DEF new
  <2>1. [d.pages[heap] EXCEPT !.rows = new] = HeapPage(new)
    BY <1>1 DEF HeapPage
  <2> QED
    BY <2>1, PageKinds DEF new
<1>4. Append(rows, row) \in Seq(RowType)
  BY <1>1, <1>2
<1>5. e = [d EXCEPT !.pages = [d.pages EXCEPT ![heap] = page]]
  BY <1>1 DEF Shape, IsFun, row
<1> HIDE DEF page
<1>6. /\ Shape(e) /\ e.table_names = d.table_names /\ e.tables = d.tables
      /\ e.index_names = d.index_names /\ e.indexes = d.indexes
      /\ e.table_meta_pages = d.table_meta_pages /\ e.index_meta_pages = d.index_meta_pages
      /\ e.pages = [d.pages EXCEPT ![heap] = page]
  BY <1>1, <1>5 DEF Shape, IsFun
<1>7. /\ IsFun(e.pages) /\ DOMAIN e.pages = DOMAIN d.pages /\ e.pages[heap] = page
      /\ \A p \in DOMAIN d.pages : p # heap => e.pages[p] = d.pages[p]
  <2> DEFINE f == d.pages
             g == e.pages
  <2>1. IsFun(f) /\ heap \in DOMAIN f /\ g = [f EXCEPT ![heap] = page]
    BY <1>1, <1>6
  <2> HIDE DEF f, g
  <2>2. /\ IsFun(g) /\ DOMAIN g = DOMAIN f /\ g[heap] = page
        /\ \A p \in DOMAIN f : p # heap => g[p] = f[p]
    BY <2>1 DEF IsFun
  <2> QED
    BY <2>2 DEF f, g
<1>8. \A p \in DOMAIN d.pages : d.pages[p].kind = "heap" =>
        d.pages[p].rows \in Seq(RowType) /\ d.pages[p] = HeapPage(d.pages[p].rows)
  BY DEF Good, PagesInv, PageOK
<1>9. OnlyRows(d, e)
  BY <1>3, <1>4, <1>6, <1>7, <1>8 DEF OnlyRows
<1>10. InsertedRow(d, e, heap, k)
  BY <1>3, <1>7 DEF InsertedRow, row
<1> QED
  BY <1>9, <1>10

(* The maps and the pages 0 that an index's entries do not touch. *)
SameButTrees(d, e) ==
  /\ Shape(e) /\ e.table_names = d.table_names /\ e.tables = d.tables
  /\ e.index_names = d.index_names
  /\ e.table_meta_pages = d.table_meta_pages /\ e.index_meta_pages = d.index_meta_pages
  /\ IsFun(e.indexes) /\ DOMAIN e.indexes = DOMAIN d.indexes
  /\ IsFun(e.pages) /\ IsFiniteSet(DOMAIN e.pages) /\ DOMAIN e.pages \subseteq Nat
  /\ \A a \in DOMAIN d.indexes :
       /\ e.indexes[a] \in [name : Indexes, table : Nat, root : Int]
       /\ e.indexes[a].name = d.indexes[a].name /\ e.indexes[a].table = d.indexes[a].table
  /\ \A p \in DOMAIN d.pages : d.pages[p].kind \notin {"tree", "roots"} =>
       p \in DOMAIN e.pages /\ e.pages[p] = d.pages[p]
  /\ 1 \in DOMAIN e.pages /\ e.pages[1] = RootsPage(Roots(e.pages)) /\ IsFun(Roots(e.pages))
  /\ \A p \in DOMAIN e.pages : PageOK(e.pages[p])

(* Only the trees are left to be looked at then. *)
LEMMA SameButTreesGood ==
  ASSUME NEW d, NEW e, Good(d), SameButTrees(d, e), TreesInv(e)
  PROVE  Good(e)
<1>1. /\ Shape(e) /\ e.table_names = d.table_names /\ e.tables = d.tables
      /\ e.index_names = d.index_names
      /\ e.table_meta_pages = d.table_meta_pages /\ e.index_meta_pages = d.index_meta_pages
      /\ IsFun(e.indexes) /\ DOMAIN e.indexes = DOMAIN d.indexes
      /\ IsFun(e.pages) /\ IsFiniteSet(DOMAIN e.pages) /\ DOMAIN e.pages \subseteq Nat
      /\ 1 \in DOMAIN e.pages /\ e.pages[1] = RootsPage(Roots(e.pages)) /\ IsFun(Roots(e.pages))
      /\ \A p \in DOMAIN e.pages : PageOK(e.pages[p])
  BY DEF SameButTrees
<1>2. \A a \in DOMAIN d.indexes :
       /\ e.indexes[a] \in [name : Indexes, table : Nat, root : Int]
       /\ e.indexes[a].name = d.indexes[a].name /\ e.indexes[a].table = d.indexes[a].table
  BY DEF SameButTrees
<1>3. \A p \in DOMAIN d.pages : d.pages[p].kind \notin {"tree", "roots"} =>
       p \in DOMAIN e.pages /\ e.pages[p] = d.pages[p]
  BY DEF SameButTrees
<1>4. /\ 0 \in DOMAIN d.pages /\ d.pages[0].kind = "catalog"
      /\ d.pages[0] = CatalogPage(d.table_meta_pages, d.index_meta_pages)
  BY GoodFacts DEF Good, PagesInv
<1>5. 0 \in DOMAIN e.pages /\ e.pages[0] = d.pages[0]
  BY <1>3, <1>4
<1>6. PagesInv(e)
  BY <1>1, <1>4, <1>5 DEF PagesInv
<1>7. TablesInv(e)
  <2>1. TablesInv(d)
    BY DEF Good
  <2>2. \A p \in DOMAIN d.pages :
           /\ d.pages[p].kind = "heap" => p \in DOMAIN e.pages /\ e.pages[p].kind = "heap"
           /\ d.pages[p].kind = "table" => p \in DOMAIN e.pages /\ e.pages[p] = d.pages[p]
    BY <1>3
  <2> QED
    BY <1>1, <2>1, <2>2, TablesFrame
<1>8. IndexesInv(e)
  <2>1. IndexesInv(d)
    BY DEF Good
  <2>2. \A p \in DOMAIN d.pages :
           d.pages[p].kind = "index" => p \in DOMAIN e.pages /\ e.pages[p] = d.pages[p]
    BY <1>3
  <2> QED
    BY <1>1, <1>2, <2>1, <2>2, IndexesFrame
<1> QED
  BY <1>1, <1>6, <1>7, <1>8 DEF Good

(* The root of an index in memory is a tree page. *)
LEMMA RootFacts ==
  ASSUME NEW d, Good(d), NEW id \in DOMAIN d.indexes, d.indexes[id].root # INVALID_PAGE_ID
  PROVE  LET root == d.indexes[id].root IN
         /\ root \in DOMAIN d.pages /\ d.pages[root].kind = "tree"
         /\ d.pages[root] = TreePage(d.pages[root].entries) /\ IsFun(d.pages[root].entries)
         /\ Entries(d, id) = d.pages[root].entries
         /\ id \in DOMAIN Roots(d.pages) /\ Roots(d.pages)[id] \in {root, INVALID_PAGE_ID}
<1> DEFINE root == d.indexes[id].root
<1>1. root \in TreePages(d) /\ id \in DOMAIN Roots(d.pages)
      /\ Roots(d.pages)[id] \in {root, INVALID_PAGE_ID}
  BY DEF Good, TreesInv
<1>2. root \in DOMAIN d.pages /\ d.pages[root].kind = "tree"
  BY <1>1 DEF TreePages
<1>3. PageOK(d.pages[root])
  BY <1>2 DEF Good, PagesInv
<1> QED
  BY <1>1, <1>2, <1>3 DEF PageOK, Entries

(* The entries of one tree are others, and nothing else changes. *)
TreeWith(d, e, root, entries) ==
  /\ SameButTrees(d, e) /\ e.indexes = d.indexes
  /\ DOMAIN e.pages = DOMAIN d.pages
  /\ e.pages[root] = TreePage(entries)
  /\ \A p \in DOMAIN d.pages : p # root => e.pages[p] = d.pages[p]

(* See above. *)
LEMMA TreeWithFacts ==
  ASSUME NEW d, Good(d), NEW root \in DOMAIN d.pages, d.pages[root].kind = "tree",
         NEW entries, IsFun(entries), NEW e, e = [d EXCEPT !.pages[root].entries = entries]
  PROVE  TreeWith(d, e, root, entries) /\ Good(e)
<1> DEFINE page == [d.pages[root] EXCEPT !.entries = entries]
<1>1. /\ Shape(d) /\ IsFun(d.pages) /\ d.pages[root] = TreePage(d.pages[root].entries)
      /\ IsFiniteSet(DOMAIN d.pages) /\ DOMAIN d.pages \subseteq Nat
      /\ \A p \in DOMAIN d.pages : PageOK(d.pages[p])
  BY DEF Good, PagesInv, PageOK
<1>2. page = TreePage(entries)
  BY <1>1 DEF TreePage
<1>3. e = [d EXCEPT !.pages = [d.pages EXCEPT ![root] = page]]
  BY <1>1 DEF Shape, IsFun
<1> HIDE DEF page
<1>4. /\ Shape(e) /\ e.table_names = d.table_names /\ e.tables = d.tables
      /\ e.index_names = d.index_names /\ e.indexes = d.indexes
      /\ e.table_meta_pages = d.table_meta_pages /\ e.index_meta_pages = d.index_meta_pages
      /\ e.pages = [d.pages EXCEPT ![root] = page]
  BY <1>1, <1>3 DEF Shape, IsFun
<1>5. /\ IsFun(e.pages) /\ DOMAIN e.pages = DOMAIN d.pages /\ e.pages[root] = page
      /\ \A p \in DOMAIN d.pages : p # root => e.pages[p] = d.pages[p]
  <2> DEFINE f == d.pages
             g == e.pages
  <2>1. IsFun(f) /\ root \in DOMAIN f /\ g = [f EXCEPT ![root] = page]
    BY <1>1, <1>4
  <2> HIDE DEF f, g
  <2>2. /\ IsFun(g) /\ DOMAIN g = DOMAIN f /\ g[root] = page
        /\ \A p \in DOMAIN f : p # root => g[p] = f[p]
    BY <2>1 DEF IsFun
  <2> QED
    BY <2>2 DEF f, g
<1>6. PageOK(page) /\ page.kind = "tree"
  BY <1>2, PageForms, PageKinds
<1>7. \A p \in DOMAIN e.pages : PageOK(e.pages[p])
  BY <1>1, <1>5, <1>6
<1>8. /\ 1 \in DOMAIN d.pages /\ d.pages[1].kind = "roots" /\ d.pages[1] = RootsPage(Roots(d.pages))
      /\ IsFun(Roots(d.pages))
  BY GoodFacts DEF Good, PagesInv
<1>9. e.pages[1] = d.pages[1] /\ Roots(e.pages) = Roots(d.pages)
  BY <1>5, <1>8 DEF Roots, INDEX_ROOTS_PAGE_ID
<1>10. IsFun(d.indexes) /\ \A a \in DOMAIN d.indexes :
         d.indexes[a] \in [name : Indexes, table : Nat, root : Int]
  BY DEF Good, IndexesInv
<1>11. SameButTrees(d, e)
  BY <1>1, <1>4, <1>5, <1>7, <1>8, <1>9, <1>10 DEF SameButTrees
<1>12. TreesInv(e)
  <2>1. TreePages(e) = TreePages(d)
    BY <1>5, <1>6 DEF TreePages
  <2> QED
    BY <1>4, <1>9, <2>1, TreesFrame DEF Good
<1> QED
  BY <1>2, <1>4, <1>5, <1>11, <1>12, SameButTreesGood DEF TreeWith

(* An index without a root gets a tree of one entry, recorded unless the   *)
(* id has a record already.                                                *)
NewTree(d, e, id, key, rid, p) ==
  /\ p \in Nat /\ p \notin DOMAIN d.pages /\ SameButTrees(d, e)
  /\ e.indexes[id].root = p
  /\ \A a \in DOMAIN d.indexes : a # id => e.indexes[a] = d.indexes[a]
  /\ DOMAIN e.pages = DOMAIN d.pages \cup {p}
  /\ e.pages[p] = TreePage(Assign(NoEntries, key, rid))
  /\ Roots(e.pages) = InsertPair(Roots(d.pages), id, p)
  /\ \A q \in DOMAIN d.pages : q # 1 => e.pages[q] = d.pages[q]

(* See above. *)
LEMMA NewTreeFacts ==
  ASSUME NEW d, Good(d), NEW id \in DOMAIN d.indexes, d.indexes[id].root = INVALID_PAGE_ID,
         NEW key, NEW rid
  PROVE  NewTree(d, InsertEntry(d, id, key, rid), id, key, rid, FreePageId(d.pages))
<1> DEFINE p == FreePageId(d.pages)
           tree == TreePage(Assign(NoEntries, key, rid))
           f == Assign(d.pages, p, tree)
           g == [f EXCEPT ![1] = [f[1] EXCEPT !.roots = InsertPair(f[1].roots, id, p)]]
           info == [d.indexes[id] EXCEPT !.root = p]
           e == InsertEntry(d, id, key, rid)
<1>1. /\ Shape(d) /\ IsFun(d.pages) /\ DOMAIN d.pages \subseteq Nat /\ IsFiniteSet(DOMAIN d.pages)
      /\ 1 \in DOMAIN d.pages /\ d.pages[1] = RootsPage(Roots(d.pages)) /\ IsFun(Roots(d.pages))
      /\ \A q \in DOMAIN d.pages : PageOK(d.pages[q])
  BY DEF Good, PagesInv
<1>2. IsFun(d.indexes) /\ \A a \in DOMAIN d.indexes :
        d.indexes[a] \in [name : Indexes, table : Nat, root : Int]
  BY DEF Good, IndexesInv
<1>3. p \in Nat /\ p \notin DOMAIN d.pages
  BY <1>1, FreePageFacts
<1>4. e = [d EXCEPT !.indexes[id].root = p,
                    !.pages = [Assign(d.pages, p, tree) EXCEPT ![1].roots = InsertPair(@, id, p)]]
  BY Zenon DEF InsertEntry, INDEX_ROOTS_PAGE_ID
<1> HIDE DEF p, tree
<1>5. e = [d EXCEPT !.indexes = [d.indexes EXCEPT ![id] = info], !.pages = g]
  <2>1. [Assign(d.pages, p, tree) EXCEPT ![1].roots = InsertPair(@, id, p)] = g
    <3> HIDE DEF f
    <3>1. [f EXCEPT ![1].roots = InsertPair(@, id, p)] = g
      OBVIOUS
    <3> QED
      BY <3>1, Zenon DEF f
  <2>2. e = [d EXCEPT !.indexes[id].root = p, !.pages = g]
    BY <1>4, <2>1, Zenon
  <2> HIDE DEF g, e
  <2> QED
    BY <1>1, <2>2 DEF Shape, IsFun
<1>6. /\ IsFun(f) /\ DOMAIN f = DOMAIN d.pages \cup {p} /\ f[p] = tree
      /\ \A q \in DOMAIN d.pages : f[q] = d.pages[q]
  BY <1>3 DEF Assign, IsFun
<1>7. IsFiniteSet(DOMAIN f) /\ DOMAIN f \subseteq Nat
  BY <1>1, <1>3, <1>6, FS_AddElement
<1> HIDE DEF f
<1> DEFINE roots == InsertPair(Roots(d.pages), id, p)
<1>8. f[1] = RootsPage(Roots(d.pages)) /\ f[1].roots = Roots(d.pages)
  BY <1>1, <1>6, PageKinds
<1> HIDE DEF roots
<1>9. [f[1] EXCEPT !.roots = InsertPair(f[1].roots, id, p)] = RootsPage(roots)
  <2>1. InsertPair(f[1].roots, id, p) = roots
    BY <1>8 DEF roots
  <2>2. [f[1] EXCEPT !.roots = roots] = RootsPage(roots)
    BY <1>8 DEF RootsPage
  <2> QED
    BY <2>1, <2>2, Zenon
<1>10. g = [f EXCEPT ![1] = RootsPage(roots)]
  BY <1>9, Zenon
<1>11. /\ IsFun(g) /\ DOMAIN g = DOMAIN f /\ g[1] = RootsPage(roots)
       /\ \A q \in DOMAIN f : q # 1 => g[q] = f[q]
  <2>1. 1 \in DOMAIN f /\ IsFun(f)
    BY <1>1, <1>6
  <2> DEFINE v == RootsPage(roots)
  <2> HIDE DEF g, v
  <2>2. g = [f EXCEPT ![1] = v]
    BY <1>10 DEF v
  <2>3. /\ IsFun(g) /\ DOMAIN g = DOMAIN f /\ g[1] = v
        /\ \A q \in DOMAIN f : q # 1 => g[q] = f[q]
    BY <2>1, <2>2 DEF IsFun
  <2> QED
    BY <2>3 DEF v
<1> HIDE DEF g
<1>12. /\ info \in [name : Indexes, table : Nat, root : Int] /\ info.root = p
       /\ info.name = d.indexes[id].name /\ info.table = d.indexes[id].table
  BY <1>2, <1>3
<1> HIDE DEF info
<1>13. /\ Shape(e) /\ e.table_names = d.table_names /\ e.tables = d.tables
       /\ e.index_names = d.index_names /\ e.indexes = [d.indexes EXCEPT ![id] = info]
       /\ e.table_meta_pages = d.table_meta_pages /\ e.index_meta_pages = d.index_meta_pages
       /\ e.pages = g
  BY <1>1, <1>5 DEF Shape, IsFun
<1> HIDE DEF e
<1>14. /\ IsFun(e.indexes) /\ DOMAIN e.indexes = DOMAIN d.indexes /\ e.indexes[id] = info
       /\ \A a \in DOMAIN d.indexes : a # id => e.indexes[a] = d.indexes[a]
  BY <1>2, <1>13 DEF IsFun
<1>15. Roots(e.pages) = roots /\ e.pages[1] = RootsPage(roots) /\ IsFun(roots)
  <2>1. Roots(e.pages) = roots
    BY <1>11, <1>13, PageKinds DEF Roots, INDEX_ROOTS_PAGE_ID
  <2>2. IsFun(roots)
    BY <1>1, MapFacts DEF roots, InsertPair
  <2> QED
    BY <1>11, <1>13, <2>1, <2>2
<1>16. PageOK(tree)
  <2>1. IsFun(Assign(NoEntries, key, rid))
    BY DEF Assign, IsFun
  <2> QED
    BY <2>1, PageForms, Zenon DEF tree
<1>17. \A q \in DOMAIN e.pages : PageOK(e.pages[q])
  <2>1. PageOK(RootsPage(roots))
    BY PageForms
  <2> QED
    BY <1>1, <1>6, <1>11, <1>13, <1>16, <2>1
<1>18. p # 1
  BY <1>1, <1>3
<1>19. /\ e.pages[p] = tree /\ DOMAIN e.pages = DOMAIN d.pages \cup {p}
       /\ \A q \in DOMAIN d.pages : q # 1 => e.pages[q] = d.pages[q]
  BY <1>6, <1>11, <1>13, <1>18
<1>20. \A a \in DOMAIN d.indexes :
         /\ e.indexes[a] \in [name : Indexes, table : Nat, root : Int]
         /\ e.indexes[a].name = d.indexes[a].name /\ e.indexes[a].table = d.indexes[a].table
  BY <1>2, <1>12, <1>14
<1>21. d.pages[1].kind = "roots"
  BY GoodFacts
<1>22. SameButTrees(d, e)
  <2>1. \A q \in DOMAIN d.pages : d.pages[q].kind \notin {"tree", "roots"} =>
          q \in DOMAIN e.pages /\ e.pages[q] = d.pages[q]
    BY <1>19, <1>21
  <2>2. 1 \in DOMAIN e.pages /\ IsFiniteSet(DOMAIN e.pages) /\ DOMAIN e.pages \subseteq Nat
        /\ IsFun(e.pages)
    BY <1>1, <1>6, <1>7, <1>11, <1>13
  <2> QED
    BY <1>13, <1>14, <1>15, <1>17, <1>20, <2>1, <2>2 DEF SameButTrees
<1>23. e.indexes[id].root = p
  BY <1>12, <1>14
<1> QED
  BY <1>3, <1>14, <1>15, <1>19, <1>22, <1>23 DEF NewTree, e, p, tree, roots

(* The database stays consistent. *)
LEMMA NewTreeGood ==
  ASSUME NEW d, Good(d), NEW id \in DOMAIN d.indexes, d.indexes[id].root = INVALID_PAGE_ID,
         NEW key, NEW rid, NEW e, NEW p, NewTree(d, e, id, key, rid, p)
  PROVE  Good(e)
<1>1. /\ p \in Nat /\ p \notin DOMAIN d.pages /\ SameButTrees(d, e)
      /\ e.indexes[id].root = p /\ DOMAIN e.indexes = DOMAIN d.indexes
      /\ \A a \in DOMAIN d.indexes : a # id => e.indexes[a] = d.indexes[a]
      /\ DOMAIN e.pages = DOMAIN d.pages \cup {p}
      /\ e.pages[p] = TreePage(Assign(NoEntries, key, rid))
      /\ Roots(e.pages) = InsertPair(Roots(d.pages), id, p)
      /\ \A q \in DOMAIN d.pages : q # 1 => e.pages[q] = d.pages[q]
      /\ e.pages[1] = RootsPage(Roots(e.pages))
  BY DEF NewTree, SameButTrees
<1>2. 1 \in DOMAIN d.pages /\ d.pages[1].kind = "roots" /\ DOMAIN d.pages \subseteq Nat
  BY GoodFacts
<1>3. TreePages(e) = TreePages(d) \cup {p} /\ TreePages(d) \subseteq Nat /\ p \notin TreePages(d)
  <2>1. e.pages[p].kind = "tree" /\ e.pages[1].kind = "roots"
    BY <1>1, PageKinds
  <2> QED
    BY <1>1, <1>2, <2>1 DEF TreePages
<1>4. TreesInv(d)
  BY DEF Good
<1>5. /\ DOMAIN Roots(e.pages) = DOMAIN Roots(d.pages) \cup {id}
      /\ \A a \in DOMAIN Roots(d.pages) : Roots(e.pages)[a] = Roots(d.pages)[a]
      /\ id \notin DOMAIN Roots(d.pages) => Roots(e.pages)[id] = p
      /\ id \in DOMAIN Roots(d.pages) => Roots(e.pages)[id] = INVALID_PAGE_ID
  <2>1. id \in DOMAIN Roots(d.pages) => Roots(d.pages)[id] = INVALID_PAGE_ID
    BY <1>4 DEF TreesInv
  <2> DEFINE r == Roots(d.pages)
             s == Roots(e.pages)
  <2>2. s = InsertPair(r, id, p)
    BY <1>1
  <2> HIDE DEF r, s
  <2>3. /\ DOMAIN s = DOMAIN r \cup {id} /\ \A a \in DOMAIN r : s[a] = r[a]
        /\ id \notin DOMAIN r => s[id] = p
    BY <2>2 DEF InsertPair, Assign
  <2> QED
    BY <2>1, <2>3 DEF r, s
<1>6. ASSUME NEW q \in TreePages(d), NEW a, RootOf(e, a, q)
      PROVE  RootOf(d, a, q)
  <2>1. q # p /\ q # INVALID_PAGE_ID
    BY <1>3 DEF INVALID_PAGE_ID
  <2> QED
    BY <1>1, <1>5, <1>6, <2>1 DEF RootOf
<1>7. ASSUME NEW a, RootOf(e, a, p)
      PROVE  a = id
  <2>1. p # INVALID_PAGE_ID
    BY <1>1 DEF INVALID_PAGE_ID
  <2> SUFFICES ASSUME a # id
               PROVE  FALSE
    OBVIOUS
  <2>2. RootOf(d, a, p)
    BY <1>1, <1>5, <1>7 DEF RootOf
  <2> QED
    BY <1>3, <1>4, <2>1, <2>2 DEF RootOf, TreesInv
<1>8. \A q \in TreePages(e) : \A a, b \in DOMAIN e.indexes \cup DOMAIN Roots(e.pages) :
        RootOf(e, a, q) /\ RootOf(e, b, q) => a = b
  <2>1. \A q, a : RootOf(d, a, q) => a \in DOMAIN d.indexes \cup DOMAIN Roots(d.pages)
    BY DEF RootOf
  <2> QED
    BY <1>3, <1>4, <1>6, <1>7, <2>1 DEF TreesInv
<1>9. \A a \in DOMAIN e.indexes : e.indexes[a].root \in TreePages(e) \cup {INVALID_PAGE_ID}
  BY <1>1, <1>3, <1>4 DEF TreesInv
<1>10. \A a \in DOMAIN Roots(e.pages) : Roots(e.pages)[a] \in TreePages(e) \cup {INVALID_PAGE_ID}
  BY <1>3, <1>4, <1>5 DEF TreesInv
<1>11. \A a \in DOMAIN e.indexes :
         /\ e.indexes[a].root # INVALID_PAGE_ID => a \in DOMAIN Roots(e.pages)
         /\ a \in DOMAIN Roots(e.pages) =>
              Roots(e.pages)[a] \in {e.indexes[a].root, INVALID_PAGE_ID}
  BY <1>1, <1>4, <1>5 DEF TreesInv
<1>12. TreesInv(e)
  BY <1>8, <1>9, <1>10, <1>11 DEF TreesInv
<1> QED
  BY <1>1, <1>12, SameButTreesGood

(* InsertEntry into a tree that exists. *)
LEMMA InsertEntryFacts ==
  ASSUME NEW d, Good(d), NEW id \in DOMAIN d.indexes, d.indexes[id].root # INVALID_PAGE_ID,
         NEW key, NEW rid
  PROVE  LET e == InsertEntry(d, id, key, rid)
             root == d.indexes[id].root IN
         TreeWith(d, e, root, InsertPair(d.pages[root].entries, key, rid)) /\ Good(e)
<1> DEFINE e == InsertEntry(d, id, key, rid)
           root == d.indexes[id].root
           entries == InsertPair(d.pages[root].entries, key, rid)
<1>1. /\ root \in DOMAIN d.pages /\ d.pages[root].kind = "tree" /\ IsFun(d.pages[root].entries)
      /\ d.pages[root] = TreePage(d.pages[root].entries)
  BY RootFacts
<1>2. IsFun(entries)
  BY <1>1, MapFacts DEF InsertPair
<1>3. e = [d EXCEPT !.pages[root].entries = InsertPair(@, key, rid)]
  BY DEF InsertEntry
<1>4. Shape(d) /\ IsFun(d.pages)
  BY DEF Good, PagesInv
<1> HIDE DEF root, e
<1>5. e = [d EXCEPT !.pages[root].entries = entries]
  BY <1>1, <1>3, <1>4 DEF Shape, IsFun, TreePage
<1> HIDE DEF entries
<1>6. TreeWith(d, e, root, entries) /\ Good(e)
  BY <1>1, <1>2, <1>5, TreeWithFacts
<1> QED
  BY <1>6 DEF root, e, entries

(* InsertEntry keeps the database consistent. *)
LEMMA InsertEntryGood ==
  ASSUME NEW d, Good(d), NEW id \in DOMAIN d.indexes, NEW key, NEW rid
  PROVE  LET e == InsertEntry(d, id, key, rid) IN
         Good(e) /\ DOMAIN e.indexes = DOMAIN d.indexes
<1> DEFINE e == InsertEntry(d, id, key, rid)
<1>1. CASE d.indexes[id].root = INVALID_PAGE_ID
  <2>1. NewTree(d, e, id, key, rid, FreePageId(d.pages))
    BY <1>1, NewTreeFacts
  <2>2. Good(e)
    BY <1>1, <2>1, NewTreeGood
  <2> HIDE DEF e
  <2> QED
    BY <2>1, <2>2 DEF NewTree, SameButTrees, e
<1>2. CASE d.indexes[id].root # INVALID_PAGE_ID
  <2> DEFINE root == d.indexes[id].root
             entries == InsertPair(d.pages[root].entries, key, rid)
  <2>1. TreeWith(d, e, root, entries) /\ Good(e)
    BY <1>2, InsertEntryFacts
  <2> HIDE DEF e, entries
  <2> QED
    BY <2>1 DEF TreeWith, e
<1> QED
  BY <1>1, <1>2

(* A tree that got empty gives its page back, and no root is recorded. *)
TreeGone(d, e, id, root) ==
  /\ SameButTrees(d, e) /\ e.indexes[id].root = INVALID_PAGE_ID
  /\ \A a \in DOMAIN d.indexes : a # id => e.indexes[a] = d.indexes[a]
  /\ DOMAIN e.pages = DOMAIN d.pages \ {root}
  /\ DOMAIN Roots(e.pages) = DOMAIN Roots(d.pages)
  /\ Roots(e.pages)[id] = INVALID_PAGE_ID
  /\ \A a \in DOMAIN Roots(d.pages) : a # id => Roots(e.pages)[a] = Roots(d.pages)[a]
  /\ \A q \in DOMAIN d.pages : q \notin {1, root} => e.pages[q] = d.pages[q]

(* See above. *)
LEMMA TreeGoneFacts ==
  ASSUME NEW d, Good(d), NEW id \in DOMAIN d.indexes, d.indexes[id].root # INVALID_PAGE_ID,
         NEW key, Erase(Entries(d, id), key) = NoEntries
  PROVE  TreeGone(d, RemoveEntry(d, id, key), id, d.indexes[id].root)
<1> DEFINE root == d.indexes[id].root
           f == Erase(d.pages, root)
           roots == [f[1].roots EXCEPT ![id] = INVALID_PAGE_ID]
           g == [f EXCEPT ![1] = [f[1] EXCEPT !.roots = roots]]
           info == [d.indexes[id] EXCEPT !.root = INVALID_PAGE_ID]
           e == RemoveEntry(d, id, key)
<1>1. /\ Shape(d) /\ IsFun(d.pages) /\ DOMAIN d.pages \subseteq Nat /\ IsFiniteSet(DOMAIN d.pages)
      /\ 1 \in DOMAIN d.pages /\ d.pages[1] = RootsPage(Roots(d.pages)) /\ IsFun(Roots(d.pages))
      /\ \A q \in DOMAIN d.pages : PageOK(d.pages[q])
  BY DEF Good, PagesInv
<1>2. IsFun(d.indexes) /\ \A a \in DOMAIN d.indexes :
        d.indexes[a] \in [name : Indexes, table : Nat, root : Int]
  BY DEF Good, IndexesInv
<1>3. /\ root \in DOMAIN d.pages /\ d.pages[root].kind = "tree"
      /\ id \in DOMAIN Roots(d.pages) /\ d.pages[1].kind = "roots" /\ root # 1
  BY RootFacts, GoodFacts
<1>4. e = [d EXCEPT !.indexes[id].root = INVALID_PAGE_ID,
                    !.pages = [f EXCEPT ![1].roots[id] = INVALID_PAGE_ID]]
  BY Zenon DEF RemoveEntry, INDEX_ROOTS_PAGE_ID
<1> HIDE DEF root, INVALID_PAGE_ID
<1>5. e = [d EXCEPT !.indexes = [d.indexes EXCEPT ![id] = info], !.pages = g]
  <2>1. [f EXCEPT ![1].roots[id] = INVALID_PAGE_ID] = g
    <3> HIDE DEF f
    <3> QED
      OBVIOUS
  <2>2. e = [d EXCEPT !.indexes[id].root = INVALID_PAGE_ID, !.pages = g]
    BY <1>4, <2>1, Zenon
  <2> HIDE DEF g, e
  <2> QED
    BY <1>1, <2>2 DEF Shape, IsFun
<1>6. /\ IsFun(f) /\ DOMAIN f = DOMAIN d.pages \ {root}
      /\ \A q \in DOMAIN d.pages : q # root => f[q] = d.pages[q]
  BY DEF Erase, Restrict, IsFun
<1>7. IsFiniteSet(DOMAIN f) /\ DOMAIN f \subseteq Nat
  BY <1>1, <1>6, FS_RemoveElement
<1> HIDE DEF f
<1>8. f[1] = RootsPage(Roots(d.pages)) /\ f[1].roots = Roots(d.pages) /\ 1 \in DOMAIN f
  BY <1>1, <1>3, <1>6, PageKinds
<1>9. /\ IsFun(roots) /\ DOMAIN roots = DOMAIN Roots(d.pages) /\ roots[id] = INVALID_PAGE_ID
      /\ \A a \in DOMAIN Roots(d.pages) : a # id => roots[a] = Roots(d.pages)[a]
  <2> DEFINE r == Roots(d.pages)
  <2> HIDE DEF r, roots
  <2>1. roots = [r EXCEPT ![id] = INVALID_PAGE_ID] /\ id \in DOMAIN r
    BY <1>3, <1>8 DEF roots, r
  <2>2. /\ IsFun(roots) /\ DOMAIN roots = DOMAIN r /\ roots[id] = INVALID_PAGE_ID
        /\ \A a \in DOMAIN r : a # id => roots[a] = r[a]
    BY <2>1 DEF IsFun
  <2> QED
    BY <2>2 DEF r
<1> HIDE DEF roots
<1>10. [f[1] EXCEPT !.roots = roots] = RootsPage(roots)
  BY <1>8 DEF RootsPage
<1>11. /\ IsFun(g) /\ DOMAIN g = DOMAIN f /\ g[1] = RootsPage(roots)
       /\ \A q \in DOMAIN f : q # 1 => g[q] = f[q]
  <2>1. 1 \in DOMAIN f /\ IsFun(f)
    BY <1>6, <1>8
  <2> DEFINE v == RootsPage(roots)
  <2>2. g = [f EXCEPT ![1] = v]
    BY <1>10, Zenon
  <2> HIDE DEF g, v
  <2>3. /\ IsFun(g) /\ DOMAIN g = DOMAIN f /\ g[1] = v
        /\ \A q \in DOMAIN f : q # 1 => g[q] = f[q]
    BY <2>1, <2>2 DEF IsFun
  <2> QED
    BY <2>3 DEF v
<1> HIDE DEF g
<1>12. /\ info \in [name : Indexes, table : Nat, root : Int] /\ info.root = INVALID_PAGE_ID
       /\ info.name = d.indexes[id].name /\ info.table = d.indexes[id].table
  BY <1>2 DEF INVALID_PAGE_ID
<1> HIDE DEF info
<1>13. /\ Shape(e) /\ e.table_names = d.table_names /\ e.tables = d.tables
       /\ e.index_names = d.index_names /\ e.indexes = [d.indexes EXCEPT ![id] = info]
       /\ e.table_meta_pages = d.table_meta_pages /\ e.index_meta_pages = d.index_meta_pages
       /\ e.pages = g
  BY <1>1, <1>5 DEF Shape, IsFun
<1> HIDE DEF e
<1>14. /\ IsFun(e.indexes) /\ DOMAIN e.indexes = DOMAIN d.indexes /\ e.indexes[id] = info
       /\ \A a \in DOMAIN d.indexes : a # id => e.indexes[a] = d.indexes[a]
  BY <1>2, <1>13 DEF IsFun
<1>15. Roots(e.pages) = roots /\ e.pages[1] = RootsPage(roots)
  BY <1>11, <1>13, PageKinds DEF Roots, INDEX_ROOTS_PAGE_ID
<1>16. \A q \in DOMAIN e.pages : PageOK(e.pages[q])
  <2>1. PageOK(RootsPage(roots))
    BY PageForms
  <2> QED
    BY <1>1, <1>6, <1>11, <1>13, <2>1
<1>17. /\ DOMAIN e.pages = DOMAIN d.pages \ {root}
       /\ \A q \in DOMAIN d.pages : q \notin {1, root} => e.pages[q] = d.pages[q]
  BY <1>6, <1>11, <1>13
<1>18. \A a \in DOMAIN d.indexes :
         /\ e.indexes[a] \in [name : Indexes, table : Nat, root : Int]
         /\ e.indexes[a].name = d.indexes[a].name /\ e.indexes[a].table = d.indexes[a].table
  BY <1>2, <1>12, <1>14
<1>19. SameButTrees(d, e)
  <2>1. \A q \in DOMAIN d.pages : d.pages[q].kind \notin {"tree", "roots"} =>
          q \in DOMAIN e.pages /\ e.pages[q] = d.pages[q]
    BY <1>3, <1>17
  <2>2. 1 \in DOMAIN e.pages /\ IsFiniteSet(DOMAIN e.pages) /\ DOMAIN e.pages \subseteq Nat
        /\ IsFun(e.pages)
    BY <1>7, <1>8, <1>11, <1>13
  <2> QED
    BY <1>9, <1>13, <1>14, <1>15, <1>16, <1>18, <2>1, <2>2 DEF SameButTrees
<1>20. e.indexes[id].root = INVALID_PAGE_ID
  BY <1>12, <1>14
<1> QED
  BY <1>9, <1>14, <1>15, <1>17, <1>19, <1>20 DEF TreeGone, e, root

(* The database stays consistent. *)
LEMMA TreeGoneGood ==
  ASSUME NEW d, Good(d), NEW id \in DOMAIN d.indexes, d.indexes[id].root # INVALID_PAGE_ID,
         NEW e, TreeGone(d, e, id, d.indexes[id].root)
  PROVE  Good(e)
<1> DEFINE root == d.indexes[id].root
<1>1. /\ SameButTrees(d, e)
      /\ e.indexes[id].root = INVALID_PAGE_ID /\ DOMAIN e.indexes = DOMAIN d.indexes
      /\ \A a \in DOMAIN d.indexes : a # id => e.indexes[a] = d.indexes[a]
      /\ DOMAIN e.pages = DOMAIN d.pages \ {root}
      /\ DOMAIN Roots(e.pages) = DOMAIN Roots(d.pages)
      /\ Roots(e.pages)[id] = INVALID_PAGE_ID
      /\ \A a \in DOMAIN Roots(d.pages) : a # id => Roots(e.pages)[a] = Roots(d.pages)[a]
      /\ \A q \in DOMAIN d.pages : q \notin {1, root} => e.pages[q] = d.pages[q]
      /\ e.pages[1] = RootsPage(Roots(e.pages))
  BY DEF TreeGone, SameButTrees
<1>2. 1 \in DOMAIN d.pages /\ d.pages[1].kind = "roots" /\ DOMAIN d.pages \subseteq Nat
  BY GoodFacts
<1>3. root \in TreePages(d) /\ RootOf(d, id, root)
  BY RootFacts DEF TreePages, RootOf
<1>4. TreesInv(d)
  BY DEF Good
<1>5. \A a : RootOf(d, a, root) => a = id
  BY <1>3, <1>4 DEF TreesInv, RootOf
<1>6. \A a \in DOMAIN d.indexes : a # id => d.indexes[a].root # root
  BY <1>5 DEF RootOf
<1>7. \A a \in DOMAIN Roots(d.pages) : a # id => Roots(d.pages)[a] # root
  BY <1>5 DEF RootOf
<1> HIDE DEF root
<1>8. TreePages(e) = TreePages(d) \ {root} /\ TreePages(d) \subseteq Nat
  <2>1. e.pages[1].kind = "roots"
    BY <1>1, PageKinds
  <2> QED
    BY <1>1, <1>2, <2>1 DEF TreePages
<1>9. ASSUME NEW q \in TreePages(e), NEW a, RootOf(e, a, q)
      PROVE  RootOf(d, a, q)
  <2>1. q # INVALID_PAGE_ID
    BY <1>8 DEF INVALID_PAGE_ID
  <2> QED
    BY <1>1, <1>9, <2>1 DEF RootOf
<1>10. \A q \in TreePages(e) : \A a, b \in DOMAIN e.indexes \cup DOMAIN Roots(e.pages) :
         RootOf(e, a, q) /\ RootOf(e, b, q) => a = b
  BY <1>1, <1>4, <1>8, <1>9 DEF TreesInv
<1>11. \A a \in DOMAIN e.indexes : e.indexes[a].root \in TreePages(e) \cup {INVALID_PAGE_ID}
  BY <1>1, <1>4, <1>6, <1>8 DEF TreesInv
<1>12. \A a \in DOMAIN Roots(e.pages) : Roots(e.pages)[a] \in TreePages(e) \cup {INVALID_PAGE_ID}
  BY <1>1, <1>4, <1>7, <1>8 DEF TreesInv
<1>13. \A a \in DOMAIN e.indexes :
         /\ e.indexes[a].root # INVALID_PAGE_ID => a \in DOMAIN Roots(e.pages)
         /\ a \in DOMAIN Roots(e.pages) =>
              Roots(e.pages)[a] \in {e.indexes[a].root, INVALID_PAGE_ID}
  BY <1>1, <1>4 DEF TreesInv
<1>14. TreesInv(e)
  BY <1>10, <1>11, <1>12, <1>13 DEF TreesInv
<1> QED
  BY <1>1, <1>14, SameButTreesGood

(* Remove of a key that leaves others. *)
LEMMA RemoveEntryFacts ==
  ASSUME NEW d, Good(d), NEW id \in DOMAIN d.indexes, d.indexes[id].root # INVALID_PAGE_ID,
         NEW key, Erase(Entries(d, id), key) # NoEntries
  PROVE  LET e == RemoveEntry(d, id, key) IN
         TreeWith(d, e, d.indexes[id].root, Erase(Entries(d, id), key)) /\ Good(e)
<1> DEFINE e == RemoveEntry(d, id, key)
           root == d.indexes[id].root
           left == Erase(Entries(d, id), key)
<1>1. root \in DOMAIN d.pages /\ d.pages[root].kind = "tree"
  BY RootFacts
<1>2. IsFun(left)
  BY MapFacts
<1>3. e = [d EXCEPT !.pages[root].entries = left]
  BY Zenon DEF RemoveEntry
<1> HIDE DEF root, e, left
<1>4. TreeWith(d, e, root, left) /\ Good(e)
  BY <1>1, <1>2, <1>3, TreeWithFacts
<1> QED
  BY <1>4 DEF root, e, left

(* Remove keeps the database consistent. *)
LEMMA RemoveEntryGood ==
  ASSUME NEW d, Good(d), NEW id \in DOMAIN d.indexes, NEW key \in DOMAIN Entries(d, id)
  PROVE  d.indexes[id].root # INVALID_PAGE_ID /\ Good(RemoveEntry(d, id, key))
<1>1. d.indexes[id].root # INVALID_PAGE_ID
  BY MapFacts DEF Entries
<1>2. CASE Erase(Entries(d, id), key) = NoEntries
  BY <1>1, <1>2, TreeGoneFacts, TreeGoneGood
<1>3. CASE Erase(Entries(d, id), key) # NoEntries
  BY <1>1, <1>3, RemoveEntryFacts
<1> QED
  BY <1>1, <1>2, <1>3

(* The name of the table of an index. *)
TableOf(d, id) == d.tables[d.indexes[id].table].name

(* Opening the database: tables and pages as they were, each index with    *)
(* its recorded root, and a name for at least one index of that name.      *)
Loaded(d, e) ==
  /\ Shape(e) /\ e.table_names = d.table_names /\ e.tables = d.tables
  /\ e.table_meta_pages = d.table_meta_pages /\ e.index_meta_pages = d.index_meta_pages
  /\ e.pages = d.pages
  /\ IsFun(e.indexes) /\ DOMAIN e.indexes = DOMAIN d.indexes
  /\ \A id \in DOMAIN d.indexes :
       /\ d.indexes[id].table \in DOMAIN d.tables
       /\ e.indexes[id] = [name |-> d.indexes[id].name, table |-> d.indexes[id].table,
                           root |-> OpenedRoot(d.pages, id)]
  /\ IsFun(e.index_names) /\ DOMAIN e.index_names = {TableOf(d, id) : id \in DOMAIN d.indexes}
  /\ \A t \in DOMAIN e.index_names :
       /\ IsFun(e.index_names[t])
       /\ DOMAIN e.index_names[t] =
            {d.indexes[id].name : id \in {a \in DOMAIN d.indexes : TableOf(d, a) = t}}
       /\ \A i \in DOMAIN e.index_names[t] :
            LET id == e.index_names[t][i] IN
            id \in DOMAIN d.indexes /\ TableOf(d, id) = t /\ d.indexes[id].name = i

(* See above. *)
LEMMA LoadFacts ==
  ASSUME NEW d, Good(d), Loadable(d.pages)
  PROVE  Loaded(d, Load(d.pages))
<1> DEFINE c == d.pages[0]
           tables == LoadedTables(d.pages, c)
           indexes == LoadedIndexes(d.pages, c)
           TableName(id) == tables[indexes[id].table].name
           Of(t) == {id \in DOMAIN indexes : TableName(id) = t}
           names == [t \in {tables[id].name : id \in DOMAIN tables} |->
                       Min({id \in DOMAIN tables : tables[id].name = t})]
           inames == [t \in {TableName(id) : id \in DOMAIN indexes} |->
                        [i \in {indexes[id].name : id \in Of(t)} |->
                           Min({id \in Of(t) : indexes[id].name = i})]]
           e == Load(d.pages)
<1>1. /\ Shape(e) /\ e.table_names = names /\ e.tables = tables /\ e.index_names = inames
      /\ e.indexes = indexes /\ e.table_meta_pages = c.tables /\ e.index_meta_pages = c.indexes
      /\ e.pages = d.pages
  <2>1. e = [table_names |-> names, tables |-> tables, index_names |-> inames,
             indexes |-> indexes, table_meta_pages |-> c.tables,
             index_meta_pages |-> c.indexes, pages |-> d.pages]
    BY Zenon DEF Load, CATALOG_META_PAGE_ID
  <2> HIDE DEF names, tables, inames, indexes, c, e
  <2> QED
    BY <2>1 DEF Shape, IsFun
<1>2. c.tables = d.table_meta_pages /\ c.indexes = d.index_meta_pages
  BY PageKinds DEF Good, PagesInv
<1>3. /\ DOMAIN d.table_meta_pages = DOMAIN d.tables /\ DOMAIN d.index_meta_pages = DOMAIN d.indexes
      /\ IsFun(d.tables) /\ IsFun(d.table_names)
      /\ DOMAIN d.tables \subseteq Nat /\ DOMAIN d.indexes \subseteq Nat
  BY ConstantsAssumption DEF Good, TablesInv, IndexesInv
<1>4. ASSUME NEW id \in DOMAIN d.tables
      PROVE  /\ d.pages[d.table_meta_pages[id]].name = d.tables[id].name
             /\ d.pages[d.table_meta_pages[id]].heap = d.tables[id].heap
             /\ d.tables[id] \in [name : Tables, heap : Nat]
             /\ d.tables[id].name \in DOMAIN d.table_names /\ d.table_names[d.tables[id].name] = id
  <2>1. /\ d.pages[d.table_meta_pages[id]] = TableMeta(id, d.tables[id].name, d.tables[id].heap)
        /\ d.tables[id] \in [name : Tables, heap : Nat]
        /\ d.tables[id].name \in DOMAIN d.table_names /\ d.table_names[d.tables[id].name] = id
    BY DEF Good, TablesInv
  <2> QED
    BY <2>1, PageKinds
<1>5. ASSUME NEW id \in DOMAIN d.indexes
      PROVE  /\ d.pages[d.index_meta_pages[id]].name = d.indexes[id].name
             /\ d.pages[d.index_meta_pages[id]].table = d.indexes[id].table
  <2>1. d.pages[d.index_meta_pages[id]] = IndexMeta(id, d.indexes[id].name, d.indexes[id].table)
    BY DEF Good, IndexesInv
  <2> QED
    BY <2>1, PageKinds
<1>6. tables = d.tables
  <2>1. tables = [id \in DOMAIN d.tables |-> [name |-> d.tables[id].name, heap |-> d.tables[id].heap]]
    BY <1>2, <1>3, <1>4 DEF LoadedTables
  <2>2. \A id \in DOMAIN d.tables :
          d.tables[id] = [name |-> d.tables[id].name, heap |-> d.tables[id].heap]
    BY <1>4
  <2> QED
    BY <1>3, <2>1, <2>2 DEF IsFun
<1>7. /\ IsFun(indexes) /\ DOMAIN indexes = DOMAIN d.indexes
      /\ \A id \in DOMAIN d.indexes : indexes[id] =
           [name |-> d.indexes[id].name, table |-> d.indexes[id].table,
            root |-> OpenedRoot(d.pages, id)]
  BY <1>2, <1>3, <1>5 DEF LoadedIndexes, IsFun
<1>8. \A id \in DOMAIN d.indexes : d.indexes[id].table \in DOMAIN d.tables
  BY <1>2, <1>3, <1>5 DEF Loadable, CATALOG_META_PAGE_ID
<1> HIDE DEF tables, indexes, e, c
<1>9. ASSUME NEW id \in DOMAIN d.indexes
      PROVE  indexes[id].name = d.indexes[id].name /\ TableName(id) = TableOf(d, id)
  <2> DEFINE a == d.indexes[id].name
             b == d.indexes[id].table
             r == OpenedRoot(d.pages, id)
  <2>1. indexes[id] = [name |-> a, table |-> b, root |-> r]
    BY <1>7
  <2> HIDE DEF a, b, r
  <2>2. indexes[id].name = a /\ indexes[id].table = b
    BY <2>1
  <2> QED
    BY <1>6, <2>2 DEF TableOf, a, b
<1>10. names = d.table_names
  <2>1. DOMAIN names = DOMAIN d.table_names
    <3>1. \A t \in DOMAIN d.table_names :
            d.table_names[t] \in DOMAIN d.tables /\ d.tables[d.table_names[t]].name = t
      BY DEF Good, TablesInv
    <3> QED
      BY <1>4, <1>6, <3>1
  <2>2. ASSUME NEW t \in DOMAIN d.table_names
        PROVE  names[t] = d.table_names[t]
    <3> DEFINE T == {id \in DOMAIN tables : tables[id].name = t}
    <3>1. d.table_names[t] \in DOMAIN d.tables /\ d.tables[d.table_names[t]].name = t
      BY DEF Good, TablesInv
    <3>2. T = {d.table_names[t]} /\ T \subseteq Nat
      BY <1>3, <1>4, <1>6, <3>1
    <3>3. Min(T) \in T
      BY <3>2, MinFacts
    <3>4. names[t] = Min(T)
      BY <2>1
    <3> QED
      BY <3>2, <3>3, <3>4
  <2> HIDE DEF names
  <2>3. IsFun(names)
    BY DEF IsFun, names
  <2> QED
    BY <1>3, <2>1, <2>2, <2>3 DEF IsFun
<1> HIDE DEF names
<1>11. ASSUME NEW t
       PROVE  Of(t) = {a \in DOMAIN d.indexes : TableOf(d, a) = t}
  BY <1>7, <1>9
<1>12. {TableName(id) : id \in DOMAIN indexes} = {TableOf(d, id) : id \in DOMAIN d.indexes}
  BY <1>7, <1>9
<1>13. IsFun(inames) /\ DOMAIN inames = {TableOf(d, id) : id \in DOMAIN d.indexes}
  BY <1>12 DEF IsFun
<1>14. ASSUME NEW t \in DOMAIN inames
       PROVE  /\ IsFun(inames[t])
              /\ DOMAIN inames[t] =
                   {d.indexes[id].name : id \in {a \in DOMAIN d.indexes : TableOf(d, a) = t}}
              /\ \A i \in DOMAIN inames[t] :
                   LET id == inames[t][i] IN
                   id \in DOMAIN d.indexes /\ TableOf(d, id) = t /\ d.indexes[id].name = i
  <2> DEFINE O == Of(t)
             n == inames[t]
             Y(i) == {id \in O : indexes[id].name = i}
  <2>1. O = {a \in DOMAIN d.indexes : TableOf(d, a) = t}
    BY <1>11
  <2>2. n = [i \in {indexes[id].name : id \in O} |-> Min(Y(i))]
    BY Zenon
  <2> HIDE DEF O, n
  <2>3. {indexes[id].name : id \in O} =
           {d.indexes[id].name : id \in {a \in DOMAIN d.indexes : TableOf(d, a) = t}}
    BY <1>9, <2>1
  <2>4. IsFun(n) /\ DOMAIN n = {indexes[id].name : id \in O}
    BY <2>2 DEF IsFun
  <2>5. ASSUME NEW i \in DOMAIN n
        PROVE  n[i] \in DOMAIN d.indexes /\ TableOf(d, n[i]) = t /\ d.indexes[n[i]].name = i
    <3>1. n[i] = Min(Y(i))
      BY <2>2, <2>4
    <3>2. Y(i) # {} /\ Y(i) \subseteq Nat
      BY <1>3, <2>1, <2>4
    <3>3. Min(Y(i)) \in Y(i)
      BY <3>2, MinFacts
    <3>4. n[i] \in O /\ indexes[n[i]].name = i
      BY <3>1, <3>3
    <3> QED
      BY <1>9, <2>1, <3>4
  <2> QED
    BY <2>3, <2>4, <2>5 DEF n
<1> HIDE DEF inames
<1> QED
  BY <1>1, <1>2, <1>6, <1>7, <1>8, <1>10, <1>13, <1>14 DEF Loaded, e

(* A database that was opened is consistent. *)
LEMMA LoadGood ==
  ASSUME NEW d, NEW e, Good(d), Loaded(d, e)
  PROVE  Good(e)
<1>1. /\ Shape(e) /\ e.table_names = d.table_names /\ e.tables = d.tables
      /\ e.table_meta_pages = d.table_meta_pages /\ e.index_meta_pages = d.index_meta_pages
      /\ e.pages = d.pages /\ IsFun(e.indexes) /\ DOMAIN e.indexes = DOMAIN d.indexes
      /\ IsFun(e.index_names)
  BY DEF Loaded
<1>2. ASSUME NEW id \in DOMAIN d.indexes
      PROVE  /\ d.indexes[id].table \in DOMAIN d.tables
             /\ e.indexes[id] \in [name : Indexes, table : Nat, root : Int]
             /\ e.indexes[id].name = d.indexes[id].name /\ e.indexes[id].table = d.indexes[id].table
             /\ e.indexes[id].root = OpenedRoot(d.pages, id)
             /\ TableOf(d, id) \in Tables /\ d.indexes[id].name \in Indexes
  <2> DEFINE a == d.indexes[id].name
             b == d.indexes[id].table
             r == OpenedRoot(d.pages, id)
  <2>1. /\ e.indexes[id] = [name |-> a, table |-> b, root |-> r] /\ b \in DOMAIN d.tables
    BY DEF Loaded
  <2>2. d.indexes[id] \in [name : Indexes, table : Nat, root : Int]
    BY DEF Good, IndexesInv
  <2>3. a \in Indexes /\ b \in Nat /\ r \in Int
    BY <2>2, OpenedRootFacts
  <2>4. d.tables[b] \in [name : Tables, heap : Nat]
    BY <2>1 DEF Good, TablesInv
  <2>5. d.tables[b].name \in Tables
    BY <2>4
  <2> HIDE DEF a, b, r
  <2>6. /\ e.indexes[id] \in [name : Indexes, table : Nat, root : Int]
        /\ e.indexes[id].name = a /\ e.indexes[id].table = b /\ e.indexes[id].root = r
    BY <2>1, <2>3
  <2> QED
    BY <2>1, <2>3, <2>5, <2>6 DEF a, b, r, TableOf
<1>3. PagesInv(e)
  BY <1>1 DEF Good, PagesInv
<1>4. TablesInv(e)
  BY <1>1 DEF Good, TablesInv
<1>5. IndexesInv(e)
  <2>1. DOMAIN e.index_names = {TableOf(d, id) : id \in DOMAIN d.indexes}
    BY DEF Loaded
  <2>2. ASSUME NEW t \in DOMAIN e.index_names
        PROVE  /\ IsFun(e.index_names[t])
               /\ DOMAIN e.index_names[t] =
                    {d.indexes[id].name : id \in {a \in DOMAIN d.indexes : TableOf(d, a) = t}}
               /\ \A i \in DOMAIN e.index_names[t] :
                    LET id == e.index_names[t][i] IN
                    id \in DOMAIN d.indexes /\ TableOf(d, id) = t /\ d.indexes[id].name = i
    BY DEF Loaded
  <2>3. DOMAIN e.index_names \subseteq Tables
    BY <1>2, <2>1
  <2>4. \A t \in DOMAIN e.index_names :
          /\ IsFun(e.index_names[t]) /\ DOMAIN e.index_names[t] \subseteq Indexes
          /\ \A i \in DOMAIN e.index_names[t] : e.index_names[t][i] \in DOMAIN e.indexes
    BY <1>1, <1>2, <2>2
  <2>5. \A t, u \in DOMAIN e.index_names :
          \A i \in DOMAIN e.index_names[t], j \in DOMAIN e.index_names[u] :
            e.index_names[t][i] = e.index_names[u][j] => t = u /\ i = j
    BY <2>2
  <2>6. DOMAIN e.indexes \subseteq 0 .. MaxId /\ DOMAIN e.index_meta_pages = DOMAIN e.indexes
        /\ IsFun(e.index_meta_pages)
    BY <1>1 DEF Good, IndexesInv
  <2>7. ASSUME NEW id \in DOMAIN e.indexes
        PROVE  /\ e.indexes[id] \in [name : Indexes, table : Nat, root : Int]
               /\ e.index_meta_pages[id] \in DOMAIN e.pages
               /\ e.pages[e.index_meta_pages[id]] = IndexMeta(id, e.indexes[id].name, e.indexes[id].table)
    BY <1>1, <1>2 DEF Good, IndexesInv
  <2> QED
    BY <1>1, <2>3, <2>4, <2>5, <2>6, <2>7 DEF IndexesInv
<1>6. TreesInv(e)
  <2>1. TreePages(e) = TreePages(d) /\ TreePages(d) \subseteq Nat
    BY <1>1, GoodFacts DEF TreePages
  <2>2. TreesInv(d)
    BY DEF Good
  <2>3. ASSUME NEW id \in DOMAIN d.indexes
        PROVE  /\ e.indexes[id].root \in TreePages(d) \cup {INVALID_PAGE_ID}
               /\ e.indexes[id].root # INVALID_PAGE_ID =>
                    id \in DOMAIN Roots(d.pages) /\ Roots(d.pages)[id] = e.indexes[id].root
               /\ id \in DOMAIN Roots(d.pages) => Roots(d.pages)[id] = e.indexes[id].root
    <3>1. e.indexes[id].root = OpenedRoot(d.pages, id)
      BY <1>2
    <3> QED
      BY <3>1, OpenedRootFacts
  <2>4. ASSUME NEW p \in TreePages(d), NEW a, RootOf(e, a, p)
        PROVE  RootOf(d, a, p)
    <3>1. p # INVALID_PAGE_ID
      BY <2>1 DEF INVALID_PAGE_ID
    <3> QED
      BY <1>1, <2>3, <2>4, <3>1 DEF RootOf
  <2>5. \A p \in TreePages(e) : \A a, b \in DOMAIN e.indexes \cup DOMAIN Roots(e.pages) :
          RootOf(e, a, p) /\ RootOf(e, b, p) => a = b
    BY <1>1, <2>1, <2>2, <2>4 DEF TreesInv
  <2>6. \A id \in DOMAIN Roots(e.pages) :
          Roots(e.pages)[id] \in TreePages(e) \cup {INVALID_PAGE_ID}
    BY <1>1, <2>1, <2>2 DEF TreesInv
  <2>7. \A id \in DOMAIN e.indexes :
          /\ e.indexes[id].root \in TreePages(e) \cup {INVALID_PAGE_ID}
          /\ e.indexes[id].root # INVALID_PAGE_ID => id \in DOMAIN Roots(e.pages)
          /\ id \in DOMAIN Roots(e.pages) =>
               Roots(e.pages)[id] \in {e.indexes[id].root, INVALID_PAGE_ID}
    BY <1>1, <2>1, <2>3
  <2> QED
    BY <2>5, <2>6, <2>7 DEF TreesInv
<1> QED
  BY <1>1, <1>3, <1>4, <1>5, <1>6 DEF Good

(* For careful users nothing is known in memory only. *)
LEMMA LoadSame ==
  ASSUME NEW d, Good(d), NamesInv(d)
  PROVE  Loadable(d.pages) /\ Load(d.pages) = d
<1> DEFINE e == Load(d.pages)
<1>1. Loadable(d.pages)
  <2>1. ASSUME NEW id \in DOMAIN d.indexes
        PROVE  d.pages[d.index_meta_pages[id]].table \in DOMAIN d.tables
    <3>1. d.pages[d.index_meta_pages[id]] = IndexMeta(id, d.indexes[id].name, d.indexes[id].table)
          /\ d.indexes[id].table \in DOMAIN d.tables
      BY DEF Good, IndexesInv, NamesInv
    <3> QED
      BY <3>1, PageKinds
  <2>2. /\ d.pages[0] = CatalogPage(d.table_meta_pages, d.index_meta_pages)
        /\ DOMAIN d.table_meta_pages = DOMAIN d.tables
        /\ DOMAIN d.index_meta_pages = DOMAIN d.indexes
    BY DEF Good, PagesInv, TablesInv, IndexesInv
  <2>3. d.pages[0].tables = d.table_meta_pages /\ d.pages[0].indexes = d.index_meta_pages
    BY <2>2, PageKinds
  <2> QED
    BY <2>1, <2>2, <2>3 DEF Loadable, CATALOG_META_PAGE_ID
<1>2. Loaded(d, e)
  BY <1>1, LoadFacts
<1> HIDE DEF e
<1>3. /\ Shape(e) /\ e.table_names = d.table_names /\ e.tables = d.tables
      /\ e.table_meta_pages = d.table_meta_pages /\ e.index_meta_pages = d.index_meta_pages
      /\ e.pages = d.pages /\ IsFun(e.indexes) /\ DOMAIN e.indexes = DOMAIN d.indexes
      /\ IsFun(e.index_names)
      /\ DOMAIN e.index_names = {TableOf(d, id) : id \in DOMAIN d.indexes}
  BY <1>2 DEF Loaded
<1>4. e.indexes = d.indexes
  <2>1. ASSUME NEW id \in DOMAIN d.indexes
        PROVE  e.indexes[id] = d.indexes[id]
    <3> DEFINE info == d.indexes[id]
    <3>1. info \in [name : Indexes, table : Nat, root : Int]
      BY DEF Good, IndexesInv
    <3>2. info.root = OpenedRoot(d.pages, id)
      BY DEF NamesInv
    <3>3. e.indexes[id] = [name |-> info.name, table |-> info.table, root |-> info.root]
      BY <1>2, <3>2 DEF Loaded
    <3> HIDE DEF info
    <3>4. info = [name |-> info.name, table |-> info.table, root |-> info.root]
      BY <3>1
    <3> QED
      BY <3>3, <3>4 DEF info
  <2>2. IsFun(d.indexes)
    BY DEF Good, IndexesInv
  <2> QED
    BY <1>3, <2>1, <2>2 DEF IsFun
<1>5. e.index_names = d.index_names
  <2>1. ASSUME NEW id \in DOMAIN d.indexes
        PROVE  /\ TableOf(d, id) \in DOMAIN d.index_names
               /\ d.indexes[id].name \in DOMAIN d.index_names[TableOf(d, id)]
               /\ d.index_names[TableOf(d, id)][d.indexes[id].name] = id
    BY DEF NamesInv, TableOf
  <2>2. ASSUME NEW t \in DOMAIN d.index_names, NEW i \in DOMAIN d.index_names[t]
        PROVE  /\ d.index_names[t][i] \in DOMAIN d.indexes
               /\ TableOf(d, d.index_names[t][i]) = t
               /\ d.indexes[d.index_names[t][i]].name = i
    <3>1. d.index_names[t][i] \in DOMAIN d.indexes
      BY DEF Good, IndexesInv
    <3>2. /\ d.tables[d.indexes[d.index_names[t][i]].table].name = t
          /\ d.indexes[d.index_names[t][i]].name = i
      BY DEF NamesInv
    <3> QED
      BY <3>1, <3>2 DEF TableOf
  <2>3. \A t \in DOMAIN d.index_names : DOMAIN d.index_names[t] # {}
    BY DEF NamesInv
  <2>4. DOMAIN e.index_names = DOMAIN d.index_names
    BY <1>3, <2>1, <2>2, <2>3
  <2>5. ASSUME NEW t \in DOMAIN d.index_names
        PROVE  e.index_names[t] = d.index_names[t]
    <3>1. /\ IsFun(e.index_names[t])
          /\ DOMAIN e.index_names[t] =
               {d.indexes[id].name : id \in {a \in DOMAIN d.indexes : TableOf(d, a) = t}}
      BY <1>2, <2>4 DEF Loaded
    <3>2. \A i \in DOMAIN e.index_names[t] :
            /\ e.index_names[t][i] \in DOMAIN d.indexes
            /\ TableOf(d, e.index_names[t][i]) = t /\ d.indexes[e.index_names[t][i]].name = i
      BY <1>2, <2>4 DEF Loaded
    <3>3. DOMAIN e.index_names[t] = DOMAIN d.index_names[t]
      BY <2>1, <2>2, <3>1
    <3>4. \A i \in DOMAIN d.index_names[t] : e.index_names[t][i] = d.index_names[t][i]
      BY <2>1, <3>2, <3>3
    <3>5. IsFun(d.index_names[t])
      BY DEF Good, IndexesInv
    <3> QED
      BY <3>1, <3>3, <3>4, <3>5 DEF IsFun
  <2>6. IsFun(d.index_names)
    BY DEF Good, IndexesInv
  <2> QED
    BY <1>3, <2>4, <2>5, <2>6 DEF IsFun
<1>6. Shape(d)
  BY DEF Good
<1>7. e = d
  BY <1>3, <1>4, <1>5, <1>6 DEF Shape, IsFun
<1> QED
  BY <1>1, <1>7 DEF e

(* One row of the scan of CREATE INDEX. *)
FillStep(d, t, id, acc, s) ==
  IF Rows(d, t)[s].live
  THEN InsertEntry(acc, id, Rows(d, t)[s].key, <<Heap(d, t), s>>)
  ELSE acc

(* The scan goes through the rows one by one. *)
LEMMA FillSteps ==
  ASSUME NEW d, NEW t, NEW id, NEW n \in Nat, DOMAIN Rows(d, t) = 1 .. n
  PROVE  \E F : /\ F[0] = d /\ F[n] = FillIndex(d, t, id)
                /\ \A k \in 1 .. n : F[k] = FillStep(d, t, id, F[k - 1], k)
<1> DEFINE seq == [s \in DOMAIN Rows(d, t) |-> s]
           D == DOMAIN seq
           Body(it, s) == IF s = {} THEN d
                          ELSE FillStep(d, t, id, it[s \ {Max(s)}], seq[Max(s)])
           Rec(it) == [s \in SUBSET D |-> Body(it, s)]
           fold == CHOOSE it : it = Rec(it)
<1>1. FillIndex(d, t, id) = fold[D]
  BY DEF FillIndex, FoldLeft, MapThenFoldSet, FillStep
<1>2. D = 1 .. n /\ IsFiniteSet(D) /\ Cardinality(D) = n
  <2>1. D = 1 .. n
    OBVIOUS
  <2>2. 1 \in Int /\ n \in Int
    OBVIOUS
  <2>3. IsFiniteSet(1 .. n) /\ Cardinality(1 .. n) = IF 1 > n THEN 0 ELSE n - 1 + 1
    BY <2>2, FS_Interval, Zenon
  <2> QED
    BY <2>1, <2>3
<1>3. \A s \in D : seq[s] = s
  OBVIOUS
<1> HIDE DEF seq, D
<1>4. ASSUME NEW s \in SUBSET D, s # {}
      PROVE  /\ Max(s) \in s /\ \A y \in s : y <= Max(s)
             /\ s \ {Max(s)} \in SUBSET D /\ IsFiniteSet(s)
             /\ Cardinality(s \ {Max(s)}) = Cardinality(s) - 1
             /\ Cardinality(s) \in Nat
  <2>1. s \subseteq 0 .. n
    BY <1>2
  <2>2. Max(s) \in s /\ \A y \in s : y <= Max(s)
    BY <1>4, <2>1, MaxFacts
  <2>3. IsFiniteSet(s)
    BY <1>2, FS_Subset
  <2>4. Cardinality(s \ {Max(s)}) = Cardinality(s) - 1
    BY <2>2, <2>3, FS_RemoveElement
  <2> QED
    BY <2>2, <2>3, <2>4, FS_CardinalityType
<1> DEFINE Sub(m) == {s \in SUBSET D : Cardinality(s) <= m}
           P(m) == \E f : f = [s \in Sub(m) |-> Body(f, s)]
<1>5. P(0)
  <2> DEFINE f == [s \in Sub(0) |-> d]
  <2>1. ASSUME NEW s \in Sub(0)
        PROVE  s = {}
    <3> SUFFICES ASSUME s # {}
                 PROVE  FALSE
      OBVIOUS
    <3>1. s \in SUBSET D /\ Cardinality(s) <= 0
      OBVIOUS
    <3>2. Cardinality(s \ {Max(s)}) = Cardinality(s) - 1 /\ Cardinality(s) \in Nat
          /\ IsFiniteSet(s \ {Max(s)})
      BY <1>2, <1>4, <3>1, FS_Subset
    <3>3. Cardinality(s \ {Max(s)}) \in Nat
      BY <3>2, FS_CardinalityType
    <3> QED
      BY <3>1, <3>2, <3>3
  <2>2. f = [s \in Sub(0) |-> Body(f, s)]
    BY <2>1
  <2> QED
    BY <2>2
<1>6. ASSUME NEW m \in Nat, P(m)
      PROVE  P(m + 1)
  <2>1. PICK f : f = [s \in Sub(m) |-> Body(f, s)]
    BY <1>6
  <2> DEFINE g == [s \in Sub(m + 1) |-> Body(f, s)]
  <2>2. ASSUME NEW s \in Sub(m + 1)
        PROVE  Body(f, s) = Body(g, s)
    <3>1. CASE s = {}
      BY <3>1
    <3>2. CASE s # {}
      <4> DEFINE u == s \ {Max(s)}
      <4>1. s \in SUBSET D /\ Cardinality(s) <= m + 1
        OBVIOUS
      <4>2. u \in SUBSET D /\ Cardinality(u) = Cardinality(s) - 1 /\ Cardinality(s) \in Nat
        BY <1>4, <3>2, <4>1
      <4>3. u \in Sub(m) /\ u \in Sub(m + 1)
        BY <4>1, <4>2
      <4> HIDE DEF u, Body, Sub
      <4>4. f[u] = Body(f, u)
        BY <2>1, <4>3
      <4>5. g[u] = Body(f, u)
        BY <4>3
      <4>6. f[u] = g[u]
        BY <4>4, <4>5, Zenon
      <4> HIDE DEF g
      <4> QED
        BY <3>2, <4>6, Zenon DEF Body, u
    <3> QED
      BY <3>1, <3>2
  <2> HIDE DEF Body, Sub
  <2>3. g = [s \in Sub(m + 1) |-> Body(g, s)]
    <3>1. g = [s \in Sub(m + 1) |-> Body(f, s)]
      OBVIOUS
    <3> HIDE DEF g
    <3> QED
      BY <2>2, <3>1
  <2> QED
    BY <2>3
<1> HIDE DEF P
<1>7. P(n)
  <2> SUFFICES ASSUME ~P(n)
               PROVE  FALSE
    OBVIOUS
  <2> DEFINE T == {m \in Nat : ~P(m)}
  <2>1. PICK m \in T : \A y \in T : m <= y
    <3>1. T # {} /\ T \subseteq Nat
      OBVIOUS
    <3> QED
      BY <3>1, LeastNat
  <2>2. m # 0 /\ m \in Nat /\ ~P(m)
    BY <1>5
  <2>3. m - 1 \in Nat /\ m - 1 \notin T
    BY <2>1, <2>2
  <2>4. P(m - 1)
    BY <2>3
  <2>5. P((m - 1) + 1)
    BY <1>6, <2>3, <2>4
  <2>6. (m - 1) + 1 = m
    BY <2>2
  <2> QED
    BY <2>2, <2>5, <2>6
<1>8. fold = Rec(fold)
  <2>1. Sub(n) = SUBSET D
    <3>1. ASSUME NEW s \in SUBSET D
          PROVE  Cardinality(s) <= n
      <4>1. Cardinality(s) <= Cardinality(D)
        BY <1>2, FS_Subset
      <4> QED
        BY <1>2, <4>1
    <3> QED
      BY <3>1
  <2>2. PICK f : f = [s \in Sub(n) |-> Body(f, s)]
    BY <1>7 DEF P
  <2>3. f = Rec(f)
    <3> HIDE DEF Body, Sub
    <3> QED
      BY <2>1, <2>2
  <2> HIDE DEF Rec
  <2> QED
    BY <2>3
<1> HIDE DEF fold
<1>9. \A s \in SUBSET D : fold[s] = Body(fold, s)
  <2> HIDE DEF Body
  <2> QED
    BY <1>8
<1> DEFINE F == [k \in 0 .. n |-> fold[1 .. k]]
<1>10. F[0] = d
  <2>1. 1 .. 0 = {} /\ {} \in SUBSET D
    OBVIOUS
  <2>2. fold[{}] = d
    BY <1>9, <2>1
  <2> QED
    BY <2>1, <2>2
<1>11. ASSUME NEW k \in 1 .. n
       PROVE  F[k] = FillStep(d, t, id, F[k - 1], k)
  <2>1. 1 .. k \in SUBSET D /\ 1 .. k # {} /\ k \in D
    <3>1. 1 .. k \subseteq 1 .. n /\ k \in 1 .. k
      OBVIOUS
    <3> QED
      BY <1>2, <3>1
  <2>2. Max(1 .. k) = k
    <3>1. Max(1 .. k) \in 1 .. k /\ \A y \in 1 .. k : y <= Max(1 .. k)
      BY <1>4, <2>1
    <3>2. k \in 1 .. k
      OBVIOUS
    <3> QED
      BY <3>1, <3>2
  <2>3. (1 .. k) \ {k} = 1 .. (k - 1)
    OBVIOUS
  <2>4. fold[1 .. k] = FillStep(d, t, id, fold[1 .. (k - 1)], seq[k])
    BY <1>9, <2>1, <2>2, <2>3
  <2>5. F[k] = fold[1 .. k] /\ F[k - 1] = fold[1 .. (k - 1)]
    OBVIOUS
  <2> QED
    BY <1>3, <2>1, <2>4, <2>5
<1>12. F[n] = FillIndex(d, t, id)
  BY <1>1, <1>2
<1> HIDE DEF F
<1> QED
  BY <1>10, <1>11, <1>12

(* The entries of the rows scanned so far, and of one row more. *)
LEMMA EntriesGrow ==
  ASSUME NEW entries, NEW rows, NEW heap, NEW S, NEW k, S \cup {k} \subseteq DOMAIN rows, k \notin S,
         EntriesAre(entries, rows, heap, S), UniqueRows(rows)
  PROVE  /\ ~rows[k].live => EntriesAre(entries, rows, heap, S \cup {k})
         /\ rows[k].live =>
              /\ rows[k].key \notin DOMAIN entries
              /\ EntriesAre(Assign(entries, rows[k].key, <<heap, k>>), rows, heap, S \cup {k})
<1>1. CASE ~rows[k].live
  BY <1>1 DEF EntriesAre
<1>2. CASE rows[k].live
  <2> DEFINE new == Assign(entries, rows[k].key, <<heap, k>>)
             key == rows[k].key
  <2>1. key \notin DOMAIN entries
    BY <1>2 DEF EntriesAre, UniqueRows
  <2>2. /\ DOMAIN new = DOMAIN entries \cup {key} /\ new[key] = <<heap, k>>
        /\ \A x \in DOMAIN entries : new[x] = entries[x]
    BY <2>1 DEF Assign
  <2> HIDE DEF new
  <2>3. DOMAIN new = {rows[s].key : s \in {r \in S \cup {k} : rows[r].live}}
    BY <1>2, <2>2 DEF EntriesAre
  <2>4. ASSUME NEW s \in S \cup {k}, rows[s].live
        PROVE  new[rows[s].key] = <<heap, s>>
    <3>1. CASE s = k
      BY <2>2, <3>1
    <3>2. CASE s \in S
      <4>1. rows[s].key \in DOMAIN entries /\ entries[rows[s].key] = <<heap, s>>
        BY <2>4, <3>2 DEF EntriesAre
      <4> QED
        BY <2>2, <4>1
    <3> QED
      BY <3>1, <3>2
  <2>5. EntriesAre(new, rows, heap, S \cup {k})
    BY <2>3, <2>4 DEF EntriesAre
  <2> QED
    BY <1>2, <2>1, <2>5 DEF new
<1> QED
  BY <1>1, <1>2

(* Between c and e one index grows, in a tree of its own. *)
Grown(c, e, id) ==
  /\ e.table_names = c.table_names /\ e.tables = c.tables /\ e.index_names = c.index_names
  /\ DOMAIN e.indexes = DOMAIN c.indexes
  /\ \A a \in DOMAIN c.indexes :
       /\ e.indexes[a].name = c.indexes[a].name /\ e.indexes[a].table = c.indexes[a].table
       /\ a # id => e.indexes[a] = c.indexes[a]
  /\ \A p \in DOMAIN c.pages : p # 1 => p \in DOMAIN e.pages /\ e.pages[p] = c.pages[p]
  /\ \A a \in DOMAIN c.indexes : a # id => OpenedRoot(e.pages, a) = OpenedRoot(c.pages, a)
  /\ e.indexes[id].root = OpenedRoot(e.pages, id)
  /\ e.indexes[id].root = INVALID_PAGE_ID => id \notin DOMAIN Roots(e.pages)
  /\ e.indexes[id].root \notin DOMAIN c.pages

(* InsertEntry of a new key lets it grow. *)
LEMMA InsertEntryGrows ==
  ASSUME NEW c, NEW acc, NEW id \in DOMAIN acc.indexes, Good(acc), Grown(c, acc, id),
         1 \in DOMAIN c.pages, NEW key, key \notin DOMAIN Entries(acc, id), NEW rid
  PROVE  LET e == InsertEntry(acc, id, key, rid) IN
         Grown(c, e, id) /\ Entries(e, id) = Assign(Entries(acc, id), key, rid)
<1> DEFINE e == InsertEntry(acc, id, key, rid)
           root == acc.indexes[id].root
<1>1. 1 \in DOMAIN acc.pages /\ acc.pages[1].kind = "roots" /\ DOMAIN acc.pages \subseteq Nat
  BY GoodFacts
<1>2. /\ acc.table_names = c.table_names /\ acc.tables = c.tables /\ acc.index_names = c.index_names
      /\ DOMAIN acc.indexes = DOMAIN c.indexes
      /\ \A a \in DOMAIN c.indexes :
           /\ acc.indexes[a].name = c.indexes[a].name /\ acc.indexes[a].table = c.indexes[a].table
           /\ a # id => acc.indexes[a] = c.indexes[a]
      /\ \A p \in DOMAIN c.pages : p # 1 => p \in DOMAIN acc.pages /\ acc.pages[p] = c.pages[p]
      /\ \A a \in DOMAIN c.indexes : a # id => OpenedRoot(acc.pages, a) = OpenedRoot(c.pages, a)
      /\ root = OpenedRoot(acc.pages, id)
      /\ root = INVALID_PAGE_ID => id \notin DOMAIN Roots(acc.pages)
      /\ root \notin DOMAIN c.pages
  BY DEF Grown
<1>3. CASE root = INVALID_PAGE_ID
  <2> DEFINE p == FreePageId(acc.pages)
  <2>1. NewTree(acc, e, id, key, rid, p)
    BY <1>3, NewTreeFacts
  <2> HIDE DEF p, e
  <2>2. /\ p \in Nat /\ p \notin DOMAIN acc.pages
        /\ e.indexes[id].root = p /\ DOMAIN e.indexes = DOMAIN acc.indexes
        /\ \A a \in DOMAIN acc.indexes : a # id => e.indexes[a] = acc.indexes[a]
        /\ e.table_names = acc.table_names /\ e.tables = acc.tables /\ e.index_names = acc.index_names
        /\ \A a \in DOMAIN acc.indexes :
             e.indexes[a].name = acc.indexes[a].name /\ e.indexes[a].table = acc.indexes[a].table
        /\ DOMAIN e.pages = DOMAIN acc.pages \cup {p}
        /\ e.pages[p] = TreePage(Assign(NoEntries, key, rid))
        /\ Roots(e.pages) = InsertPair(Roots(acc.pages), id, p)
        /\ \A q \in DOMAIN acc.pages : q # 1 => e.pages[q] = acc.pages[q]
    BY <2>1 DEF NewTree, SameButTrees
  <2>3. p # INVALID_PAGE_ID /\ p \notin DOMAIN c.pages
    BY <1>1, <1>2, <2>2 DEF INVALID_PAGE_ID
  <2>4. Entries(e, id) = Assign(Entries(acc, id), key, rid)
    BY <1>3, <2>2, <2>3, PageKinds DEF Entries
  <2>5. /\ DOMAIN Roots(e.pages) = DOMAIN Roots(acc.pages) \cup {id} /\ Roots(e.pages)[id] = p
        /\ \A a \in DOMAIN Roots(acc.pages) : a # id => Roots(e.pages)[a] = Roots(acc.pages)[a]
    <3> DEFINE r == Roots(acc.pages)
               s == Roots(e.pages)
    <3>1. s = InsertPair(r, id, p) /\ id \notin DOMAIN r
      BY <1>2, <1>3, <2>2
    <3> HIDE DEF r, s
    <3>2. /\ DOMAIN s = DOMAIN r \cup {id} /\ s[id] = p
          /\ \A a \in DOMAIN r : a # id => s[a] = r[a]
      BY <3>1 DEF InsertPair, Assign
    <3> QED
      BY <3>2 DEF r, s
  <2>6. /\ OpenedRoot(e.pages, id) = p
        /\ \A a : a # id => OpenedRoot(e.pages, a) = OpenedRoot(acc.pages, a)
    BY <2>5 DEF OpenedRoot
  <2>7. \A q \in DOMAIN c.pages : q # 1 => q \in DOMAIN e.pages /\ e.pages[q] = c.pages[q]
    BY <1>2, <2>2
  <2>8. Grown(c, e, id)
    BY <1>2, <2>2, <2>3, <2>6, <2>7 DEF Grown
  <2> QED
    BY <2>4, <2>8 DEF e
<1>4. CASE root # INVALID_PAGE_ID
  <2> DEFINE old == acc.pages[root].entries
  <2>1. /\ root \in DOMAIN acc.pages /\ acc.pages[root].kind = "tree"
        /\ Entries(acc, id) = old /\ root # 1
    BY <1>1, <1>4, RootFacts
  <2>2. TreeWith(acc, e, root, InsertPair(old, key, rid))
    BY <1>4, InsertEntryFacts
  <2> HIDE DEF e
  <2>3. InsertPair(old, key, rid) = Assign(old, key, rid)
    BY <2>1 DEF InsertPair
  <2>4. /\ e.indexes = acc.indexes /\ DOMAIN e.pages = DOMAIN acc.pages
        /\ e.table_names = acc.table_names /\ e.tables = acc.tables /\ e.index_names = acc.index_names
        /\ e.pages[root] = TreePage(Assign(old, key, rid))
        /\ \A q \in DOMAIN acc.pages : q # root => e.pages[q] = acc.pages[q]
    BY <2>2, <2>3 DEF TreeWith, SameButTrees
  <2>5. Entries(e, id) = Assign(Entries(acc, id), key, rid)
    <3>1. e.pages[root].entries = Assign(old, key, rid)
      BY <2>4, PageKinds
    <3> QED
      BY <1>4, <2>1, <2>4, <3>1 DEF Entries
  <2>6. Roots(e.pages) = Roots(acc.pages)
    BY <1>1, <2>1, <2>4 DEF Roots, INDEX_ROOTS_PAGE_ID
  <2>7. \A a : OpenedRoot(e.pages, a) = OpenedRoot(acc.pages, a)
    BY <2>6 DEF OpenedRoot
  <2>8. \A q \in DOMAIN c.pages : q # 1 => q \in DOMAIN e.pages /\ e.pages[q] = c.pages[q]
    BY <1>2, <2>4
  <2>9. Grown(c, e, id)
    BY <1>2, <1>4, <2>4, <2>6, <2>7, <2>8 DEF Grown
  <2> QED
    BY <2>5, <2>9 DEF e
<1> QED
  BY <1>3, <1>4

(* The scan of CREATE INDEX: the database stays consistent, and an index   *)
(* without an earlier tree gets exactly the entries of the live rows.      *)
LEMMA FillIndexFacts ==
  ASSUME NEW c, Good(c), NEW t \in DOMAIN c.table_names, NEW id \in DOMAIN c.indexes
  PROVE  LET e == FillIndex(c, t, id) IN
         /\ Good(e)
         /\ /\ c.indexes[id].root = INVALID_PAGE_ID /\ id \notin DOMAIN Roots(c.pages)
            /\ UniqueRows(Rows(c, t))
            => /\ Grown(c, e, id)
               /\ EntriesAre(Entries(e, id), Rows(c, t), Heap(c, t), DOMAIN Rows(c, t))
<1> DEFINE rows == Rows(c, t)
           heap == Heap(c, t)
           n == Len(rows)
           Fresh == /\ c.indexes[id].root = INVALID_PAGE_ID /\ id \notin DOMAIN Roots(c.pages)
                    /\ UniqueRows(rows)
<1>1. rows \in Seq(RowType) /\ n \in Nat /\ DOMAIN rows = 1 .. n
  <2>1. c.table_names[t] \in DOMAIN c.tables
    BY DEF Good, TablesInv
  <2>2. heap \in DOMAIN c.pages /\ c.pages[heap].kind = "heap"
    BY <2>1, GoodFacts DEF Heap
  <2>3. PageOK(c.pages[heap])
    BY <2>2 DEF Good, PagesInv
  <2>4. rows \in Seq(RowType)
    BY <2>2, <2>3 DEF PageOK, Rows
  <2> HIDE DEF rows
  <2> QED
    BY <2>4
<1>2. PICK F : /\ F[0] = c /\ F[n] = FillIndex(c, t, id)
               /\ \A k \in 1 .. n : F[k] = FillStep(c, t, id, F[k - 1], k)
  BY <1>1, FillSteps
<1> HIDE DEF n, Fresh
<1> DEFINE Q(k) == /\ Good(F[k]) /\ id \in DOMAIN F[k].indexes
                   /\ Fresh => /\ Grown(c, F[k], id)
                               /\ EntriesAre(Entries(F[k], id), rows, heap, 1 .. k)
<1>3. 1 \in DOMAIN c.pages /\ DOMAIN c.pages \subseteq Nat
  BY GoodFacts
<1>4. Q(0)
  <2> SUFFICES ASSUME Fresh
               PROVE  Grown(c, c, id) /\ EntriesAre(Entries(c, id), rows, heap, 1 .. 0)
    BY <1>2
  <2>1. c.indexes[id].root = INVALID_PAGE_ID /\ id \notin DOMAIN Roots(c.pages)
    BY DEF Fresh
  <2>2. Grown(c, c, id)
    BY <1>3, <2>1 DEF Grown, OpenedRoot, INVALID_PAGE_ID
  <2>3. Entries(c, id) = NoEntries
    BY <2>1 DEF Entries
  <2>4. 1 .. 0 = {}
    OBVIOUS
  <2>5. EntriesAre(NoEntries, rows, heap, {})
    BY DEF EntriesAre, NoEntries
  <2> QED
    BY <2>2, <2>3, <2>4, <2>5
<1>5. ASSUME NEW k \in 1 .. n, Q(k - 1)
      PROVE  Q(k)
  <2> DEFINE acc == F[k - 1]
             key == rows[k].key
             rid == <<heap, k>>
  <2>1. F[k] = IF rows[k].live THEN InsertEntry(acc, id, key, rid) ELSE acc
    BY <1>2 DEF FillStep
  <2>2. 1 .. k = (1 .. (k - 1)) \cup {k} /\ k \notin 1 .. (k - 1) /\ 1 .. k \subseteq DOMAIN rows
    BY <1>1
  <2> HIDE DEF rows, heap
  <2>3. ASSUME Fresh
        PROVE  /\ Grown(c, acc, id) /\ EntriesAre(Entries(acc, id), rows, heap, 1 .. (k - 1))
               /\ ~rows[k].live => EntriesAre(Entries(acc, id), rows, heap, 1 .. k)
               /\ rows[k].live =>
                    /\ key \notin DOMAIN Entries(acc, id)
                    /\ EntriesAre(Assign(Entries(acc, id), key, rid), rows, heap, 1 .. k)
    <3>1. Grown(c, acc, id) /\ EntriesAre(Entries(acc, id), rows, heap, 1 .. (k - 1))
          /\ UniqueRows(rows)
      BY <1>5, <2>3 DEF Fresh, rows, heap
    <3> DEFINE S == 1 .. (k - 1)
               entries == Entries(acc, id)
    <3>2. 1 .. k = S \cup {k} /\ k \notin S /\ S \cup {k} \subseteq DOMAIN rows
          /\ EntriesAre(entries, rows, heap, S)
      BY <2>2, <3>1
    <3> HIDE DEF S, entries
    <3>3. /\ ~rows[k].live => EntriesAre(entries, rows, heap, S \cup {k})
          /\ rows[k].live =>
               /\ key \notin DOMAIN entries
               /\ EntriesAre(Assign(entries, key, rid), rows, heap, S \cup {k})
      BY <3>1, <3>2, EntriesGrow
    <3> QED
      BY <3>1, <3>2, <3>3 DEF entries
  <2>4. Good(acc) /\ id \in DOMAIN acc.indexes
    BY <1>5
  <2> HIDE DEF acc
  <2>5. CASE ~rows[k].live
    BY <2>1, <2>3, <2>4, <2>5 DEF rows, heap
  <2>6. CASE rows[k].live
    <3> DEFINE e == InsertEntry(acc, id, key, rid)
    <3>1. F[k] = e
      BY <2>1, <2>6
    <3>2. Good(e) /\ DOMAIN e.indexes = DOMAIN acc.indexes
      BY <2>4, InsertEntryGood
    <3>3. ASSUME Fresh
          PROVE  Grown(c, e, id) /\ EntriesAre(Entries(e, id), rows, heap, 1 .. k)
      <4>1. Grown(c, acc, id) /\ key \notin DOMAIN Entries(acc, id)
            /\ EntriesAre(Assign(Entries(acc, id), key, rid), rows, heap, 1 .. k)
        BY <2>3, <2>6, <3>3
      <4> HIDE DEF key, rid
      <4>2. Grown(c, e, id) /\ Entries(e, id) = Assign(Entries(acc, id), key, rid)
        BY <1>3, <2>4, <4>1, InsertEntryGrows
      <4> HIDE DEF e
      <4> QED
        BY <4>1, <4>2
    <3> HIDE DEF e
    <3> QED
      BY <2>4, <3>1, <3>2, <3>3 DEF rows, heap
  <2> QED
    BY <2>5, <2>6
<1> HIDE DEF Q
<1>6. Q(n)
  <2> SUFFICES ASSUME ~Q(n)
               PROVE  FALSE
    OBVIOUS
  <2> DEFINE T == {k \in 0 .. n : ~Q(k)}
  <2>1. PICK k \in T : \A y \in T : k <= y
    <3>1. T # {} /\ T \subseteq Nat
      BY <1>1
    <3> QED
      BY <3>1, LeastNat
  <2>2. k # 0 /\ k \in 0 .. n /\ ~Q(k)
    BY <1>4
  <2>3. k - 1 \in 0 .. n /\ k \in 1 .. n
    BY <1>1, <2>2
  <2>4. k - 1 \notin T
    BY <1>1, <2>1, <2>2
  <2>5. Q(k - 1)
    BY <2>3, <2>4
  <2> QED
    BY <1>5, <2>2, <2>3, <2>5
<1> QED
  BY <1>1, <1>2, <1>6 DEF Q, Fresh

(* Fewer live rows are still unique. *)
LEMMA UniqueFewer ==
  ASSUME NEW rows, NEW new, UniqueRows(rows), DOMAIN new = DOMAIN rows,
         \A s \in DOMAIN rows : new[s].key = rows[s].key /\ (new[s].live => rows[s].live)
  PROVE  UniqueRows(new)
BY DEF UniqueRows

(* Entries stay right when the rows do. *)
LEMMA EntriesSame ==
  ASSUME NEW entries, NEW rows, NEW new, NEW heap, EntriesAre(entries, rows, heap, DOMAIN rows),
         DOMAIN new = DOMAIN rows,
         \A s \in DOMAIN rows : new[s].key = rows[s].key /\ (new[s].live <=> rows[s].live)
  PROVE  EntriesAre(entries, new, heap, DOMAIN new)
<1>1. {new[s].key : s \in {r \in DOMAIN new : new[r].live}} =
        {rows[s].key : s \in {r \in DOMAIN rows : rows[r].live}}
  OBVIOUS
<1> QED
  BY <1>1 DEF EntriesAre

(* An index has the entries it had when its root and that page are kept. *)
LEMMA EntriesKept ==
  ASSUME NEW d, NEW e, Good(d), NEW id \in DOMAIN d.indexes,
         e.indexes[id].root = d.indexes[id].root,
         \A p \in DOMAIN d.pages : d.pages[p].kind = "tree" => e.pages[p] = d.pages[p]
  PROVE  Entries(e, id) = Entries(d, id)
<1>1. CASE d.indexes[id].root = INVALID_PAGE_ID
  BY <1>1 DEF Entries
<1>2. CASE d.indexes[id].root # INVALID_PAGE_ID
  <2>1. d.indexes[id].root \in DOMAIN d.pages /\ d.pages[d.indexes[id].root].kind = "tree"
    BY <1>2, RootFacts
  <2> QED
    BY <1>2, <2>1 DEF Entries
<1> QED
  BY <1>1, <1>2

(* What careful users keep, index by index and name by name. *)
LEMMA CarefulFacts ==
  ASSUME NEW d, Good(d), CarefulInv(d)
  PROVE  /\ \A id \in DOMAIN d.indexes :
              /\ d.indexes[id].table \in DOMAIN d.tables
              /\ d.indexes[id].root = OpenedRoot(d.pages, id)
              /\ TableOf(d, id) \in DOMAIN d.index_names
              /\ d.indexes[id].name \in DOMAIN d.index_names[TableOf(d, id)]
              /\ d.index_names[TableOf(d, id)][d.indexes[id].name] = id
              /\ HeapOf(d, id) \in DOMAIN d.pages /\ d.pages[HeapOf(d, id)].kind = "heap"
              /\ EntriesAre(Entries(d, id), RowsOf(d, id), HeapOf(d, id), DOMAIN RowsOf(d, id))
         /\ \A t \in DOMAIN d.index_names :
              /\ DOMAIN d.index_names[t] # {}
              /\ \A i \in DOMAIN d.index_names[t] :
                   /\ d.index_names[t][i] \in DOMAIN d.indexes
                   /\ TableOf(d, d.index_names[t][i]) = t
                   /\ d.indexes[d.index_names[t][i]].name = i
         /\ \A t \in DOMAIN d.table_names :
              /\ d.table_names[t] \in DOMAIN d.tables
              /\ \A id \in DOMAIN d.indexes :
                   TableOf(d, id) = t <=> d.indexes[id].table = d.table_names[t]
<1>1. ASSUME NEW id \in DOMAIN d.indexes
      PROVE  /\ d.indexes[id].table \in DOMAIN d.tables
             /\ d.indexes[id].root = OpenedRoot(d.pages, id)
             /\ TableOf(d, id) \in DOMAIN d.index_names
             /\ d.indexes[id].name \in DOMAIN d.index_names[TableOf(d, id)]
             /\ d.index_names[TableOf(d, id)][d.indexes[id].name] = id
  BY DEF CarefulInv, NamesInv, TableOf
<1>2. ASSUME NEW id \in DOMAIN d.indexes
      PROVE  /\ HeapOf(d, id) \in DOMAIN d.pages /\ d.pages[HeapOf(d, id)].kind = "heap"
             /\ EntriesAre(Entries(d, id), RowsOf(d, id), HeapOf(d, id), DOMAIN RowsOf(d, id))
  <2>1. EntriesAre(Entries(d, id), RowsOf(d, id), HeapOf(d, id), DOMAIN RowsOf(d, id))
    BY DEF CarefulInv, EntriesInv
  <2> QED
    BY <1>1, <2>1, GoodFacts DEF HeapOf
<1>3. ASSUME NEW t \in DOMAIN d.index_names
      PROVE  /\ DOMAIN d.index_names[t] # {}
             /\ \A i \in DOMAIN d.index_names[t] :
                  /\ d.index_names[t][i] \in DOMAIN d.indexes
                  /\ TableOf(d, d.index_names[t][i]) = t
                  /\ d.indexes[d.index_names[t][i]].name = i
  BY DEF CarefulInv, NamesInv, TableOf, Good, IndexesInv
<1>4. ASSUME NEW t \in DOMAIN d.table_names
      PROVE  /\ d.table_names[t] \in DOMAIN d.tables
             /\ \A id \in DOMAIN d.indexes :
                  TableOf(d, id) = t <=> d.indexes[id].table = d.table_names[t]
  <2>1. d.table_names[t] \in DOMAIN d.tables /\ d.tables[d.table_names[t]].name = t
    BY DEF Good, TablesInv
  <2>2. \A a \in DOMAIN d.tables : d.table_names[d.tables[a].name] = a
    BY DEF Good, TablesInv
  <2> QED
    BY <1>1, <2>1, <2>2 DEF TableOf
<1> QED
  BY <1>1, <1>2, <1>3, <1>4

(* The names stay right when the indexes and their tables do. *)
LEMMA NamesFrame ==
  ASSUME NEW d, NEW e, Good(d), CarefulInv(d),
         e.index_names = d.index_names, DOMAIN e.indexes = DOMAIN d.indexes,
         \A id \in DOMAIN d.indexes :
           /\ e.indexes[id].table \in DOMAIN e.tables
           /\ e.indexes[id].root = OpenedRoot(e.pages, id)
           /\ e.indexes[id].name = d.indexes[id].name
           /\ TableOf(e, id) = TableOf(d, id)
  PROVE  NamesInv(e)
<1>1. \A id \in DOMAIN e.indexes :
        /\ e.indexes[id].table \in DOMAIN e.tables
        /\ e.indexes[id].root = OpenedRoot(e.pages, id)
        /\ TableOf(e, id) \in DOMAIN e.index_names
        /\ e.indexes[id].name \in DOMAIN e.index_names[TableOf(e, id)]
        /\ e.index_names[TableOf(e, id)][e.indexes[id].name] = id
  BY CarefulFacts
<1>2. ASSUME NEW t \in DOMAIN e.index_names
      PROVE  /\ DOMAIN e.index_names[t] # {}
             /\ \A i \in DOMAIN e.index_names[t] :
                  /\ TableOf(e, e.index_names[t][i]) = t
                  /\ e.indexes[e.index_names[t][i]].name = i
  <2>1. /\ DOMAIN d.index_names[t] # {}
        /\ \A i \in DOMAIN d.index_names[t] :
             /\ d.index_names[t][i] \in DOMAIN d.indexes
             /\ TableOf(d, d.index_names[t][i]) = t
             /\ d.indexes[d.index_names[t][i]].name = i
    BY CarefulFacts
  <2> QED
    BY <2>1
<1> QED
  BY <1>1, <1>2 DEF NamesInv, TableOf

(* CREATE TABLE of a careful user. *)
LEMMA CreateTableCareful ==
  ASSUME NEW d, Good(d), CarefulInv(d), NEW t, t \notin DOMAIN d.table_names
  PROVE  CarefulInv(CreateTable(d, t))
<1> DEFINE e == CreateTable(d, t)
           id == NextId(d.table_meta_pages)
<1>1. PICK heap, meta \in Nat :
           /\ heap \notin DOMAIN d.pages /\ meta \notin DOMAIN d.pages /\ heap # meta
           /\ Shape(e) /\ e.index_names = d.index_names /\ e.indexes = d.indexes
           /\ e.index_meta_pages = d.index_meta_pages
           /\ id \in Nat /\ id \notin DOMAIN d.tables
           /\ e.table_names = Assign(d.table_names, t, id)
           /\ e.tables = Assign(d.tables, id, [name |-> t, heap |-> heap])
           /\ e.table_meta_pages = Assign(d.table_meta_pages, id, meta)
           /\ IsFun(e.pages) /\ DOMAIN e.pages = DOMAIN d.pages \cup {heap, meta}
           /\ IsFiniteSet(DOMAIN e.pages)
           /\ e.pages[0] = CatalogPage(e.table_meta_pages, e.index_meta_pages)
           /\ e.pages[heap] = HeapPage(<<>>) /\ e.pages[meta] = TableMeta(id, t, heap)
           /\ \A p \in DOMAIN d.pages : p # 0 => e.pages[p] = d.pages[p]
  BY CreateTableFacts
<1> HIDE DEF e, id
<1>2. /\ 0 \in DOMAIN d.pages /\ 1 \in DOMAIN d.pages
      /\ d.pages[0].kind = "catalog" /\ d.pages[1].kind = "roots"
      /\ \A a \in DOMAIN d.tables : d.tables[a].heap \in DOMAIN d.pages
                                    /\ d.pages[d.tables[a].heap].kind = "heap"
  BY GoodFacts
<1>3. Roots(e.pages) = Roots(d.pages) /\ \A a : OpenedRoot(e.pages, a) = OpenedRoot(d.pages, a)
  BY <1>1, <1>2 DEF Roots, INDEX_ROOTS_PAGE_ID, OpenedRoot
<1>4. /\ DOMAIN e.tables = DOMAIN d.tables \cup {id} /\ e.tables[id] = [name |-> t, heap |-> heap]
      /\ \A a \in DOMAIN d.tables : e.tables[a] = d.tables[a]
  <2>1. /\ DOMAIN e.tables = DOMAIN d.tables \cup {id} /\ e.tables[id] = [name |-> t, heap |-> heap]
        /\ \A a \in DOMAIN d.tables : a # id => e.tables[a] = d.tables[a]
    BY <1>1 DEF Assign
  <2> QED
    BY <1>1, <2>1
<1>5. NamesInv(e)
  <2>1. ASSUME NEW a \in DOMAIN d.indexes
        PROVE  TableOf(e, a) = TableOf(d, a) /\ d.indexes[a].table \in DOMAIN e.tables
    <3>1. d.indexes[a].table \in DOMAIN d.tables
      BY CarefulFacts
    <3> QED
      BY <1>1, <1>4, <3>1 DEF TableOf
  <2> QED
    BY <1>1, <1>3, <2>1, CarefulFacts, NamesFrame
<1>6. UniqueInv(e)
  <2>1. ASSUME NEW a \in DOMAIN e.tables
        PROVE  UniqueRows(e.pages[e.tables[a].heap].rows)
    <3>1. CASE a = id
      <4>1. e.tables[a].heap = heap /\ e.pages[heap].rows = <<>>
        BY <1>1, <1>4, <3>1, PageKinds
      <4> QED
        BY <4>1 DEF UniqueRows
    <3>2. CASE a # id
      <4>1. a \in DOMAIN d.tables /\ e.tables[a] = d.tables[a]
        BY <1>4, <3>2
      <4>2. e.pages[d.tables[a].heap] = d.pages[d.tables[a].heap]
        BY <1>1, <1>2, <4>1
      <4> QED
        BY <4>1, <4>2 DEF CarefulInv, UniqueInv
    <3> QED
      BY <3>1, <3>2
  <2> QED
    BY <2>1 DEF UniqueInv
<1>7. EntriesInv(e)
  <2>1. ASSUME NEW a \in DOMAIN e.indexes
        PROVE  EntriesAre(Entries(e, a), RowsOf(e, a), HeapOf(e, a), DOMAIN RowsOf(e, a))
    <3>1. a \in DOMAIN d.indexes /\ e.indexes[a] = d.indexes[a]
      BY <1>1
    <3>2. Entries(e, a) = Entries(d, a)
      <4>1. e.indexes[a].root = d.indexes[a].root
        BY <1>1
      <4>2. \A p \in DOMAIN d.pages : d.pages[p].kind = "tree" => e.pages[p] = d.pages[p]
        BY <1>1, <1>2
      <4> QED
        BY <3>1, <4>1, <4>2, EntriesKept
    <3>3. HeapOf(e, a) = HeapOf(d, a) /\ HeapOf(d, a) \in DOMAIN d.pages
          /\ d.pages[HeapOf(d, a)].kind = "heap"
      BY <1>4, <3>1, CarefulFacts DEF HeapOf
    <3>4. RowsOf(e, a) = RowsOf(d, a)
      BY <1>1, <1>2, <3>3 DEF RowsOf
    <3> QED
      BY <3>1, <3>2, <3>3, <3>4, CarefulFacts
  <2> QED
    BY <2>1 DEF EntriesInv
<1> QED
  BY <1>5, <1>6, <1>7 DEF CarefulInv, e

(* A table without index names has no indexes. *)
LEMMA NoIndexes ==
  ASSUME NEW d, Good(d), CarefulInv(d), NEW t \in DOMAIN d.table_names, IndexesOf(d, t) = {}
  PROVE  \A id \in DOMAIN d.indexes :
           /\ d.indexes[id].table # d.table_names[t]
           /\ HeapOf(d, id) # Heap(d, t)
<1> SUFFICES ASSUME NEW id \in DOMAIN d.indexes
             PROVE  d.indexes[id].table # d.table_names[t] /\ HeapOf(d, id) # Heap(d, t)
  OBVIOUS
<1>1. /\ TableOf(d, id) \in DOMAIN d.index_names
      /\ d.indexes[id].name \in DOMAIN d.index_names[TableOf(d, id)]
      /\ d.indexes[id].table \in DOMAIN d.tables
      /\ d.table_names[t] \in DOMAIN d.tables
      /\ TableOf(d, id) = t <=> d.indexes[id].table = d.table_names[t]
  BY CarefulFacts
<1>2. d.indexes[id].table # d.table_names[t]
  BY <1>1 DEF IndexesOf
<1>3. \A a, b \in DOMAIN d.tables : d.tables[a].heap = d.tables[b].heap => a = b
  BY DEF Good, TablesInv
<1> QED
  BY <1>1, <1>2, <1>3 DEF HeapOf, Heap

(* DROP TABLE of a careful user. *)
LEMMA DropTableCareful ==
  ASSUME NEW d, Good(d), CarefulInv(d), NEW t \in DOMAIN d.table_names, IndexesOf(d, t) = {}
  PROVE  CarefulInv(DropTable(d, t))
<1> DEFINE e == DropTable(d, t)
           id == d.table_names[t]
           meta == d.table_meta_pages[id]
<1>1. /\ Shape(e) /\ e.index_names = d.index_names /\ e.indexes = d.indexes
      /\ e.index_meta_pages = d.index_meta_pages
      /\ id \in DOMAIN d.tables
      /\ meta \in DOMAIN d.pages /\ d.pages[meta].kind = "table"
      /\ e.table_names = Erase(d.table_names, t)
      /\ e.tables = Erase(d.tables, id)
      /\ e.table_meta_pages = Erase(d.table_meta_pages, id)
      /\ IsFun(e.pages) /\ DOMAIN e.pages = DOMAIN d.pages \ {meta}
      /\ IsFiniteSet(DOMAIN e.pages)
      /\ e.pages[0] = CatalogPage(e.table_meta_pages, e.index_meta_pages)
      /\ \A p \in DOMAIN d.pages : p \notin {0, meta} => e.pages[p] = d.pages[p]
  BY DropTableFacts
<1>2. \A a \in DOMAIN d.indexes : d.indexes[a].table # id
  BY NoIndexes
<1> HIDE DEF e, id, meta
<1>3. /\ 0 \in DOMAIN d.pages /\ 1 \in DOMAIN d.pages
      /\ d.pages[0].kind = "catalog" /\ d.pages[1].kind = "roots"
      /\ \A a \in DOMAIN d.tables : d.tables[a].heap \in DOMAIN d.pages
                                    /\ d.pages[d.tables[a].heap].kind = "heap"
  BY GoodFacts
<1>4. \A p \in DOMAIN d.pages : d.pages[p].kind \in {"heap", "tree", "roots"} => e.pages[p] = d.pages[p]
  BY <1>1, <1>3
<1>5. \A a : OpenedRoot(e.pages, a) = OpenedRoot(d.pages, a)
  BY <1>3, <1>4 DEF Roots, INDEX_ROOTS_PAGE_ID, OpenedRoot
<1>6. /\ DOMAIN e.tables = DOMAIN d.tables \ {id}
      /\ \A a \in DOMAIN e.tables : e.tables[a] = d.tables[a]
  BY <1>1 DEF Erase, Restrict
<1>7. ASSUME NEW a \in DOMAIN d.indexes
      PROVE  /\ d.indexes[a].table \in DOMAIN e.tables /\ TableOf(e, a) = TableOf(d, a)
             /\ HeapOf(e, a) = HeapOf(d, a)
  <2>1. d.indexes[a].table \in DOMAIN d.tables
    BY CarefulFacts
  <2> QED
    BY <1>1, <1>2, <1>6, <2>1 DEF TableOf, HeapOf
<1>8. NamesInv(e)
  BY <1>1, <1>5, <1>7, CarefulFacts, NamesFrame
<1>9. UniqueInv(e)
  BY <1>3, <1>4, <1>6 DEF CarefulInv, UniqueInv
<1>10. EntriesInv(e)
  <2>1. ASSUME NEW a \in DOMAIN e.indexes
        PROVE  EntriesAre(Entries(e, a), RowsOf(e, a), HeapOf(e, a), DOMAIN RowsOf(e, a))
    <3>1. a \in DOMAIN d.indexes /\ e.indexes[a].root = d.indexes[a].root
      BY <1>1
    <3>2. \A p \in DOMAIN d.pages : d.pages[p].kind = "tree" => e.pages[p] = d.pages[p]
      BY <1>4
    <3>3. Entries(e, a) = Entries(d, a)
      BY <3>1, <3>2, EntriesKept
    <3>4. /\ HeapOf(d, a) \in DOMAIN d.pages /\ d.pages[HeapOf(d, a)].kind = "heap"
          /\ EntriesAre(Entries(d, a), RowsOf(d, a), HeapOf(d, a), DOMAIN RowsOf(d, a))
      BY <3>1, CarefulFacts
    <3>5. RowsOf(e, a) = RowsOf(d, a)
      BY <1>4, <1>7, <3>1, <3>4 DEF RowsOf
    <3> QED
      BY <1>7, <3>1, <3>3, <3>4, <3>5
  <2> QED
    BY <2>1 DEF EntriesInv
<1> QED
  BY <1>8, <1>9, <1>10 DEF CarefulInv, e

(* DROP INDEX of a careful user: the table's only index. *)
LEMMA DropIndexCareful ==
  ASSUME NEW d, Good(d), CarefulInv(d), NEW t \in DOMAIN d.index_names, NEW i,
         DOMAIN d.index_names[t] = {i}
  PROVE  CarefulInv(DropIndex(d, t, i))
<1> DEFINE e == DropIndex(d, t, i)
           id == d.index_names[t][i]
           meta == d.index_meta_pages[id]
<1>1. /\ Shape(e) /\ e.table_names = d.table_names /\ e.tables = d.tables
      /\ e.table_meta_pages = d.table_meta_pages
      /\ id \in DOMAIN d.indexes
      /\ meta \in DOMAIN d.pages /\ d.pages[meta].kind = "index"
      /\ e.index_names = Erase(d.index_names, t)
      /\ e.indexes = Erase(d.indexes, id)
      /\ e.index_meta_pages = Erase(d.index_meta_pages, id)
      /\ IsFun(e.pages) /\ DOMAIN e.pages = DOMAIN d.pages \ {meta}
      /\ IsFiniteSet(DOMAIN e.pages)
      /\ e.pages[0] = CatalogPage(e.table_meta_pages, e.index_meta_pages)
      /\ \A p \in DOMAIN d.pages : p \notin {0, meta} => e.pages[p] = d.pages[p]
  <2>1. i \in DOMAIN d.index_names[t]
    OBVIOUS
  <2> QED
    BY <2>1, DropIndexFacts
<1>2. ASSUME NEW a \in DOMAIN d.indexes, a # id
      PROVE  TableOf(d, a) # t
  BY <1>2, CarefulFacts
<1>3. ASSUME NEW u \in DOMAIN d.index_names, u # t, NEW j \in DOMAIN d.index_names[u]
      PROVE  d.index_names[u][j] # id
  BY <1>3 DEF Good, IndexesInv
<1> HIDE DEF e, id, meta
<1>4. /\ 0 \in DOMAIN d.pages /\ 1 \in DOMAIN d.pages
      /\ d.pages[0].kind = "catalog" /\ d.pages[1].kind = "roots"
      /\ \A a \in DOMAIN d.tables : d.tables[a].heap \in DOMAIN d.pages
                                    /\ d.pages[d.tables[a].heap].kind = "heap"
  BY GoodFacts
<1>5. \A p \in DOMAIN d.pages : d.pages[p].kind \in {"heap", "tree", "roots"} => e.pages[p] = d.pages[p]
  BY <1>1, <1>4
<1>6. \A a : OpenedRoot(e.pages, a) = OpenedRoot(d.pages, a)
  BY <1>4, <1>5 DEF Roots, INDEX_ROOTS_PAGE_ID, OpenedRoot
<1>7. /\ DOMAIN e.indexes = DOMAIN d.indexes \ {id}
      /\ \A a \in DOMAIN e.indexes : e.indexes[a] = d.indexes[a]
      /\ DOMAIN e.index_names = DOMAIN d.index_names \ {t}
      /\ \A u \in DOMAIN e.index_names : e.index_names[u] = d.index_names[u]
  BY <1>1 DEF Erase, Restrict
<1>8. \A a \in DOMAIN e.indexes : TableOf(e, a) = TableOf(d, a) /\ HeapOf(e, a) = HeapOf(d, a)
  BY <1>1, <1>7 DEF TableOf, HeapOf
<1>9. NamesInv(e)
  <2>1. ASSUME NEW a \in DOMAIN e.indexes
        PROVE  /\ e.indexes[a].table \in DOMAIN e.tables
               /\ e.indexes[a].root = OpenedRoot(e.pages, a)
               /\ TableOf(e, a) \in DOMAIN e.index_names
               /\ e.indexes[a].name \in DOMAIN e.index_names[TableOf(e, a)]
               /\ e.index_names[TableOf(e, a)][e.indexes[a].name] = a
    <3>1. a \in DOMAIN d.indexes /\ a # id /\ e.indexes[a] = d.indexes[a]
      BY <1>7
    <3>2. /\ d.indexes[a].table \in DOMAIN d.tables
          /\ d.indexes[a].root = OpenedRoot(d.pages, a)
          /\ TableOf(d, a) \in DOMAIN d.index_names
          /\ d.indexes[a].name \in DOMAIN d.index_names[TableOf(d, a)]
          /\ d.index_names[TableOf(d, a)][d.indexes[a].name] = a
      BY <3>1, CarefulFacts
    <3>3. TableOf(d, a) # t
      BY <1>2, <3>1
    <3> QED
      BY <1>1, <1>6, <1>7, <1>8, <3>1, <3>2, <3>3
  <2>2. ASSUME NEW u \in DOMAIN e.index_names
        PROVE  /\ DOMAIN e.index_names[u] # {}
               /\ \A j \in DOMAIN e.index_names[u] :
                    /\ TableOf(e, e.index_names[u][j]) = u
                    /\ e.indexes[e.index_names[u][j]].name = j
    <3>1. /\ DOMAIN d.index_names[u] # {}
          /\ \A j \in DOMAIN d.index_names[u] :
               /\ d.index_names[u][j] \in DOMAIN d.indexes
               /\ TableOf(d, d.index_names[u][j]) = u
               /\ d.indexes[d.index_names[u][j]].name = j
      BY <1>7, CarefulFacts
    <3>2. \A j \in DOMAIN d.index_names[u] : d.index_names[u][j] \in DOMAIN e.indexes
      BY <1>3, <1>7, <3>1
    <3> QED
      BY <1>7, <1>8, <3>1, <3>2
  <2> QED
    BY <2>1, <2>2 DEF NamesInv, TableOf
<1>10. UniqueInv(e)
  BY <1>1, <1>4, <1>5 DEF CarefulInv, UniqueInv
<1>11. EntriesInv(e)
  <2>1. ASSUME NEW a \in DOMAIN e.indexes
        PROVE  EntriesAre(Entries(e, a), RowsOf(e, a), HeapOf(e, a), DOMAIN RowsOf(e, a))
    <3>1. a \in DOMAIN d.indexes /\ e.indexes[a].root = d.indexes[a].root
      BY <1>7
    <3>2. \A p \in DOMAIN d.pages : d.pages[p].kind = "tree" => e.pages[p] = d.pages[p]
      BY <1>5
    <3>3. Entries(e, a) = Entries(d, a)
      BY <3>1, <3>2, EntriesKept
    <3>4. /\ HeapOf(d, a) \in DOMAIN d.pages /\ d.pages[HeapOf(d, a)].kind = "heap"
          /\ EntriesAre(Entries(d, a), RowsOf(d, a), HeapOf(d, a), DOMAIN RowsOf(d, a))
      BY <3>1, CarefulFacts
    <3>5. RowsOf(e, a) = RowsOf(d, a)
      BY <1>5, <1>8, <3>1, <3>4 DEF RowsOf
    <3> QED
      BY <1>8, <3>1, <3>3, <3>4, <3>5
  <2> QED
    BY <2>1 DEF EntriesInv
<1> QED
  BY <1>9, <1>10, <1>11 DEF CarefulInv, e

(* When only rows change, uniqueness and entries are what is left to see. *)
LEMMA OnlyRowsCareful ==
  ASSUME NEW d, NEW e, Good(d), CarefulInv(d), OnlyRows(d, e),
         \A a \in DOMAIN d.tables : UniqueRows(e.pages[d.tables[a].heap].rows),
         \A a \in DOMAIN d.indexes :
           EntriesAre(Entries(d, a), e.pages[HeapOf(d, a)].rows, HeapOf(d, a),
                      DOMAIN e.pages[HeapOf(d, a)].rows)
  PROVE  CarefulInv(e)
<1>1. /\ e.tables = d.tables /\ e.index_names = d.index_names /\ e.indexes = d.indexes
      /\ \A p \in DOMAIN d.pages : d.pages[p].kind # "heap" => e.pages[p] = d.pages[p]
  BY DEF OnlyRows
<1>2. 1 \in DOMAIN d.pages /\ d.pages[1].kind = "roots"
  BY GoodFacts
<1>3. \A a : OpenedRoot(e.pages, a) = OpenedRoot(d.pages, a)
  BY <1>1, <1>2 DEF Roots, INDEX_ROOTS_PAGE_ID, OpenedRoot
<1>4. \A a : TableOf(e, a) = TableOf(d, a) /\ HeapOf(e, a) = HeapOf(d, a)
  BY <1>1 DEF TableOf, HeapOf
<1>5. NamesInv(e)
  BY <1>1, <1>3, <1>4, CarefulFacts, NamesFrame
<1>6. UniqueInv(e)
  BY <1>1 DEF UniqueInv
<1>7. EntriesInv(e)
  <2>1. ASSUME NEW a \in DOMAIN e.indexes
        PROVE  EntriesAre(Entries(e, a), RowsOf(e, a), HeapOf(e, a), DOMAIN RowsOf(e, a))
    <3>1. a \in DOMAIN d.indexes /\ e.indexes[a].root = d.indexes[a].root
      BY <1>1
    <3>2. \A p \in DOMAIN d.pages : d.pages[p].kind = "tree" => e.pages[p] = d.pages[p]
      BY <1>1
    <3>3. Entries(e, a) = Entries(d, a)
      BY <3>1, <3>2, EntriesKept
    <3> QED
      BY <1>4, <3>1, <3>3 DEF RowsOf
  <2> QED
    BY <2>1 DEF EntriesInv
<1> QED
  BY <1>5, <1>6, <1>7 DEF CarefulInv

(* INSERT of a careful user: no index, and no live row with that key. *)
LEMMA InsertCareful ==
  ASSUME NEW d, Good(d), CarefulInv(d), NEW t \in DOMAIN d.table_names, IndexesOf(d, t) = {},
         NEW k, LiveWith(d, t, k) = {}, NEW e, OnlyRows(d, e), InsertedRow(d, e, Heap(d, t), k)
  PROVE  CarefulInv(e)
<1> DEFINE heap == Heap(d, t)
           rows == d.pages[heap].rows
           new == e.pages[heap].rows
           row == [key |-> k, live |-> TRUE]
<1>1. d.table_names[t] \in DOMAIN d.tables /\ heap = d.tables[d.table_names[t]].heap
  BY CarefulFacts DEF Heap
<1>2. heap \in DOMAIN d.pages /\ d.pages[heap].kind = "heap"
  BY <1>1, GoodFacts
<1>3. rows \in Seq(RowType)
  BY <1>2 DEF Good, PagesInv, PageOK
<1>4. /\ \A p \in DOMAIN d.pages : p # heap => e.pages[p] = d.pages[p]
      /\ new = Append(rows, row)
  BY DEF InsertedRow
<1>5. \A s \in DOMAIN rows : rows[s].live => rows[s].key # k
  <2> SUFFICES ASSUME NEW s \in DOMAIN rows, rows[s].live, rows[s].key = k
               PROVE  FALSE
    OBVIOUS
  <2>1. <<heap, s>> \in LiveIds(d, t)
    BY DEF LiveIds, Rows
  <2>2. KeyOf(d, <<heap, s>>) = k
    BY DEF KeyOf
  <2>3. <<heap, s>> \in LiveWith(d, t, k)
    BY <2>1, <2>2 DEF LiveWith
  <2> QED
    BY <2>3
<1>6. UniqueRows(rows)
  BY <1>1 DEF CarefulInv, UniqueInv
<1> HIDE DEF heap, rows, new
<1>7. UniqueRows(new)
  <2> DEFINE n == Len(rows)
  <2>1. n \in Nat /\ DOMAIN rows = 1 .. n /\ DOMAIN new = 1 .. (n + 1)
        /\ \A s \in 1 .. n : new[s] = rows[s]
    BY <1>3, <1>4
  <2>2. new[n + 1] = row
    BY <1>3, <1>4
  <2>3. new[n + 1].key = k
    BY <2>2
  <2> HIDE DEF n, row
  <2>4. ASSUME NEW r \in DOMAIN new, NEW s \in DOMAIN new, new[r].live, new[s].live,
               new[r].key = new[s].key
        PROVE  r = s
    <3>1. \A x \in DOMAIN new : x = n + 1 \/ x \in DOMAIN rows
      BY <2>1
    <3>2. CASE r = n + 1 /\ s \in DOMAIN rows
      BY <1>5, <2>1, <2>3, <2>4, <3>2
    <3>3. CASE s = n + 1 /\ r \in DOMAIN rows
      BY <1>5, <2>1, <2>3, <2>4, <3>3
    <3>4. CASE r \in DOMAIN rows /\ s \in DOMAIN rows
      BY <1>6, <2>1, <2>4, <3>4 DEF UniqueRows
    <3> QED
      BY <3>1, <3>2, <3>3, <3>4
  <2> QED
    BY <2>4 DEF UniqueRows
<1>8. \A a \in DOMAIN d.tables : UniqueRows(e.pages[d.tables[a].heap].rows)
  <2>1. ASSUME NEW a \in DOMAIN d.tables, d.tables[a].heap # heap
        PROVE  UniqueRows(e.pages[d.tables[a].heap].rows)
    <3>1. d.tables[a].heap \in DOMAIN d.pages
      BY GoodFacts
    <3> QED
      BY <1>4, <2>1, <3>1 DEF CarefulInv, UniqueInv
  <2> QED
    BY <1>7, <2>1 DEF new
<1>9. ASSUME NEW a \in DOMAIN d.indexes
      PROVE  EntriesAre(Entries(d, a), e.pages[HeapOf(d, a)].rows, HeapOf(d, a),
                        DOMAIN e.pages[HeapOf(d, a)].rows)
  <2>1. HeapOf(d, a) # heap /\ HeapOf(d, a) \in DOMAIN d.pages
    BY NoIndexes, CarefulFacts DEF heap
  <2>2. e.pages[HeapOf(d, a)].rows = RowsOf(d, a)
    BY <1>4, <2>1 DEF RowsOf
  <2> QED
    BY <2>2, CarefulFacts
<1> QED
  BY <1>8, <1>9, OnlyRowsCareful

(* DELETE of a careful user, in a table without indexes. *)
LEMMA DeleteCareful ==
  ASSUME NEW d, Good(d), CarefulInv(d), NEW t \in DOMAIN d.table_names, IndexesOf(d, t) = {},
         NEW rids, rids \subseteq LiveIds(d, t)
  PROVE  CarefulInv(MarkDelete(d, rids))
<1> DEFINE e == MarkDelete(d, rids)
<1>1. OnlyRows(d, e) /\ MarkedRows(d, e, rids)
  BY MarkDeleteFacts
<1> HIDE DEF e
<1>2. ASSUME NEW p \in DOMAIN d.pages, d.pages[p].kind = "heap"
      PROVE  /\ DOMAIN e.pages[p].rows = DOMAIN d.pages[p].rows
             /\ \A s \in DOMAIN d.pages[p].rows :
                  /\ e.pages[p].rows[s].key = d.pages[p].rows[s].key
                  /\ e.pages[p].rows[s].live <=> d.pages[p].rows[s].live /\ <<p, s>> \notin rids
  BY <1>1, <1>2 DEF MarkedRows
<1>3. \A p, s : <<p, s>> \in rids => p = Heap(d, t)
  BY DEF LiveIds
<1>4. ASSUME NEW a \in DOMAIN d.tables
      PROVE  UniqueRows(e.pages[d.tables[a].heap].rows)
  <2>1. d.tables[a].heap \in DOMAIN d.pages /\ d.pages[d.tables[a].heap].kind = "heap"
    BY GoodFacts
  <2>2. UniqueRows(d.pages[d.tables[a].heap].rows)
    BY DEF CarefulInv, UniqueInv
  <2> DEFINE heap == d.tables[a].heap
             rows == d.pages[heap].rows
             new == e.pages[heap].rows
  <2>3. DOMAIN new = DOMAIN rows
        /\ \A s \in DOMAIN rows : new[s].key = rows[s].key /\ (new[s].live => rows[s].live)
    BY <1>2, <2>1
  <2>4. UniqueRows(rows)
    BY <2>2
  <2> HIDE DEF rows, new
  <2>5. UniqueRows(new)
    BY <2>3, <2>4, UniqueFewer
  <2> QED
    BY <2>5 DEF new
<1>5. ASSUME NEW a \in DOMAIN d.indexes
      PROVE  EntriesAre(Entries(d, a), e.pages[HeapOf(d, a)].rows, HeapOf(d, a),
                        DOMAIN e.pages[HeapOf(d, a)].rows)
  <2>1. /\ HeapOf(d, a) # Heap(d, t) /\ HeapOf(d, a) \in DOMAIN d.pages
        /\ d.pages[HeapOf(d, a)].kind = "heap"
        /\ EntriesAre(Entries(d, a), RowsOf(d, a), HeapOf(d, a), DOMAIN RowsOf(d, a))
    BY NoIndexes, CarefulFacts
  <2>2. /\ DOMAIN e.pages[HeapOf(d, a)].rows = DOMAIN RowsOf(d, a)
        /\ \A s \in DOMAIN RowsOf(d, a) :
             /\ e.pages[HeapOf(d, a)].rows[s].key = RowsOf(d, a)[s].key
             /\ e.pages[HeapOf(d, a)].rows[s].live <=> RowsOf(d, a)[s].live
    BY <1>2, <1>3, <2>1 DEF RowsOf
  <2> QED
    BY <2>1, <2>2, EntriesSame
<1>6. CarefulInv(e)
  BY <1>1, <1>4, <1>5, OnlyRowsCareful
<1> QED
  BY <1>6 DEF e

(* CREATE INDEX of a careful user: the id is fresh, so that the tree       *)
(* starts empty and the scan of the table fills it.                        *)
LEMMA CreateIndexCareful ==
  ASSUME NEW d, Good(d), CarefulInv(d), NEW t \in DOMAIN d.table_names, NEW i \in Indexes,
         i \notin IndexesOf(d, t), NextId(d.index_meta_pages) <= MaxId,
         NextId(d.index_meta_pages) \notin DOMAIN Roots(d.pages),
         NEW c, c = CreateIndex(d, t, i), NEW e, e = FillIndex(c, t, c.index_names[t][i])
  PROVE  CarefulInv(e)
<1> DEFINE id == NextId(d.index_meta_pages)
           info == [name |-> i, table |-> d.table_names[t], root |-> OpenedRoot(d.pages, id)]
           heap == Heap(d, t)
<1>1. PICK meta \in Nat :
        /\ meta \notin DOMAIN d.pages
        /\ c.table_names = d.table_names /\ c.tables = d.tables
        /\ id \in Nat /\ id \notin DOMAIN d.indexes
        /\ c.index_names = NamedIndex(d.index_names, t, i, id)
        /\ c.indexes = Assign(d.indexes, id, info)
        /\ DOMAIN c.pages = DOMAIN d.pages \cup {meta}
        /\ \A p \in DOMAIN d.pages : p # 0 => c.pages[p] = d.pages[p]
  BY CreateIndexFacts
<1>2. Good(c)
  BY CreateIndexGood
<1>3. IsFun(d.index_names)
  BY DEF Good, IndexesInv
<1>4. NamesWith(d, t, i, id, c.index_names)
  BY <1>1, <1>3, NamedIndexFacts
<1>5. c.index_names[t][i] = id
  BY <1>4 DEF NamesWith
<1>6. id \notin DOMAIN Roots(d.pages)
  OBVIOUS
<1> HIDE DEF id
<1>7. OpenedRoot(d.pages, id) = INVALID_PAGE_ID
  BY <1>6 DEF OpenedRoot
<1>8. /\ DOMAIN c.indexes = DOMAIN d.indexes \cup {id} /\ c.indexes[id] = info
      /\ \A a \in DOMAIN d.indexes : c.indexes[a] = d.indexes[a]
  BY <1>1 DEF Assign
<1>9. /\ {0, 1} \subseteq DOMAIN d.pages /\ d.pages[0].kind = "catalog" /\ d.pages[1].kind = "roots"
  BY GoodFacts
<1>10. c.pages[1] = d.pages[1] /\ Roots(c.pages) = Roots(d.pages)
  BY <1>1, <1>9 DEF Roots, INDEX_ROOTS_PAGE_ID
<1>11. /\ d.table_names[t] \in DOMAIN d.tables /\ heap = d.tables[d.table_names[t]].heap
       /\ d.tables[d.table_names[t]].name = t
  BY DEF Heap, Good, TablesInv
<1>12. \A a \in DOMAIN d.tables : /\ d.tables[a].heap \in DOMAIN d.pages
                                  /\ d.pages[d.tables[a].heap].kind = "heap"
  BY GoodFacts
<1>13. \A a \in DOMAIN d.tables : c.pages[d.tables[a].heap] = d.pages[d.tables[a].heap]
  BY <1>1, <1>9, <1>12
<1>14. heap = Heap(c, t) /\ Rows(c, t) = d.pages[heap].rows /\ t \in DOMAIN c.table_names
  BY <1>1, <1>11, <1>13 DEF Heap, Rows
<1>15. UniqueRows(Rows(c, t))
  BY <1>11, <1>14 DEF CarefulInv, UniqueInv
<1>16. c.indexes[id].root = INVALID_PAGE_ID /\ id \notin DOMAIN Roots(c.pages) /\ id \in DOMAIN c.indexes
  BY <1>6, <1>7, <1>8, <1>10
<1>17. e = FillIndex(c, t, id)
  BY <1>5
<1>18. /\ Good(e) /\ Grown(c, e, id)
       /\ EntriesAre(Entries(e, id), Rows(c, t), Heap(c, t), DOMAIN Rows(c, t))
  BY <1>2, <1>14, <1>15, <1>16, <1>17, FillIndexFacts
<1>19. /\ e.tables = d.tables /\ e.index_names = c.index_names
       /\ DOMAIN e.indexes = DOMAIN d.indexes \cup {id}
       /\ e.indexes[id].name = i /\ e.indexes[id].table = d.table_names[t]
       /\ e.indexes[id].root = OpenedRoot(e.pages, id)
       /\ \A p \in DOMAIN d.pages : p \notin {0, 1} => e.pages[p] = d.pages[p]
  <2>1. info.name = i /\ info.table = d.table_names[t]
    OBVIOUS
  <2> HIDE DEF info
  <2>2. /\ e.tables = c.tables /\ e.index_names = c.index_names
        /\ DOMAIN e.indexes = DOMAIN c.indexes
        /\ e.indexes[id].root = OpenedRoot(e.pages, id)
        /\ \A p \in DOMAIN c.pages : p # 1 => e.pages[p] = c.pages[p]
    BY <1>18 DEF Grown
  <2>3. e.indexes[id].name = c.indexes[id].name /\ e.indexes[id].table = c.indexes[id].table
    BY <1>16, <1>18 DEF Grown
  <2> QED
    BY <1>1, <1>8, <2>1, <2>2, <2>3
<1>20. \A a \in DOMAIN d.indexes :
         a # id /\ e.indexes[a] = d.indexes[a] /\ OpenedRoot(e.pages, a) = OpenedRoot(d.pages, a)
  <2>1. \A a : OpenedRoot(c.pages, a) = OpenedRoot(d.pages, a)
    BY <1>10 DEF OpenedRoot
  <2>2. \A a \in DOMAIN c.indexes : a # id =>
          e.indexes[a] = c.indexes[a] /\ OpenedRoot(e.pages, a) = OpenedRoot(c.pages, a)
    BY <1>18 DEF Grown
  <2> HIDE DEF info
  <2> QED
    BY <1>1, <1>8, <2>1, <2>2
<1>21. TableOf(e, id) = t /\ HeapOf(e, id) = heap
  BY <1>11, <1>19 DEF TableOf, HeapOf
<1>22. \A a \in DOMAIN d.indexes : TableOf(e, a) = TableOf(d, a) /\ HeapOf(e, a) = HeapOf(d, a)
  BY <1>19, <1>20 DEF TableOf, HeapOf
<1>23. \A a \in DOMAIN d.tables : e.pages[d.tables[a].heap] = d.pages[d.tables[a].heap]
  BY <1>9, <1>12, <1>19
<1>24. NamesInv(e)
  <2>1. ASSUME NEW a \in DOMAIN e.indexes
        PROVE  /\ e.indexes[a].table \in DOMAIN e.tables
               /\ e.indexes[a].root = OpenedRoot(e.pages, a)
               /\ TableOf(e, a) \in DOMAIN e.index_names
               /\ e.indexes[a].name \in DOMAIN e.index_names[TableOf(e, a)]
               /\ e.index_names[TableOf(e, a)][e.indexes[a].name] = a
    <3>1. CASE a = id
      BY <1>4, <1>11, <1>19, <1>21, <3>1 DEF NamesWith
    <3>2. CASE a # id
      <4>1. a \in DOMAIN d.indexes
        BY <1>19, <3>2
      <4>2. /\ d.indexes[a].table \in DOMAIN d.tables
            /\ d.indexes[a].root = OpenedRoot(d.pages, a)
            /\ TableOf(d, a) \in DOMAIN d.index_names
            /\ d.indexes[a].name \in DOMAIN d.index_names[TableOf(d, a)]
            /\ d.index_names[TableOf(d, a)][d.indexes[a].name] = a
        BY <4>1, CarefulFacts
      <4>3. /\ TableOf(d, a) \in DOMAIN e.index_names
            /\ d.indexes[a].name \in DOMAIN e.index_names[TableOf(d, a)]
            /\ e.index_names[TableOf(d, a)][d.indexes[a].name] = a
        <5>1. CASE TableOf(d, a) = t
          BY <1>4, <1>19, <4>2, <5>1 DEF NamesWith, IndexesOf
        <5>2. CASE TableOf(d, a) # t
          BY <1>4, <1>19, <4>2, <5>2 DEF NamesWith
        <5> QED
          BY <5>1, <5>2
      <4> QED
        BY <1>19, <1>20, <1>22, <4>1, <4>2, <4>3
    <3> QED
      BY <3>1, <3>2
  <2>2. ASSUME NEW u \in DOMAIN e.index_names
        PROVE  /\ DOMAIN e.index_names[u] # {}
               /\ \A j \in DOMAIN e.index_names[u] :
                    /\ TableOf(e, e.index_names[u][j]) = u
                    /\ e.indexes[e.index_names[u][j]].name = j
    <3>1. ASSUME u \in DOMAIN d.index_names
          PROVE  /\ DOMAIN d.index_names[u] # {}
                 /\ \A j \in DOMAIN d.index_names[u] :
                      /\ TableOf(e, d.index_names[u][j]) = u
                      /\ e.indexes[d.index_names[u][j]].name = j
      BY <1>20, <1>22, <3>1, CarefulFacts
    <3>2. CASE u # t
      BY <1>4, <1>19, <3>1, <3>2 DEF NamesWith
    <3>3. CASE u = t
      <4>1. ASSUME NEW j \in DOMAIN e.index_names[t], j # i
            PROVE  /\ t \in DOMAIN d.index_names /\ j \in DOMAIN d.index_names[t]
                   /\ e.index_names[t][j] = d.index_names[t][j]
        BY <1>4, <1>19, <4>1 DEF NamesWith, IndexesOf
      <4>2. i \in DOMAIN e.index_names[t] /\ e.index_names[t][i] = id
        BY <1>4, <1>19 DEF NamesWith
      <4> QED
        BY <1>19, <1>21, <3>1, <3>3, <4>1, <4>2
    <3> QED
      BY <3>2, <3>3
  <2> QED
    BY <2>1, <2>2 DEF NamesInv, TableOf
<1>25. UniqueInv(e)
  BY <1>19, <1>23 DEF CarefulInv, UniqueInv
<1>26. EntriesInv(e)
  <2>1. ASSUME NEW a \in DOMAIN e.indexes
        PROVE  EntriesAre(Entries(e, a), RowsOf(e, a), HeapOf(e, a), DOMAIN RowsOf(e, a))
    <3>1. CASE a = id
      <4>1. RowsOf(e, id) = Rows(c, t) /\ HeapOf(e, id) = Heap(c, t)
        BY <1>11, <1>14, <1>21, <1>23 DEF RowsOf
      <4> QED
        BY <1>18, <3>1, <4>1
    <3>2. CASE a # id
      <4>1. a \in DOMAIN d.indexes /\ e.indexes[a].root = d.indexes[a].root
        BY <1>19, <1>20, <3>2
      <4>2. \A p \in DOMAIN d.pages : d.pages[p].kind = "tree" => e.pages[p] = d.pages[p]
        BY <1>9, <1>19
      <4>3. Entries(e, a) = Entries(d, a)
        BY <4>1, <4>2, EntriesKept
      <4>4. /\ HeapOf(d, a) \in DOMAIN d.pages /\ d.pages[HeapOf(d, a)].kind = "heap"
            /\ EntriesAre(Entries(d, a), RowsOf(d, a), HeapOf(d, a), DOMAIN RowsOf(d, a))
        BY <4>1, CarefulFacts
      <4>5. RowsOf(e, a) = RowsOf(d, a)
        BY <1>9, <1>19, <1>22, <4>1, <4>4 DEF RowsOf
      <4> QED
        BY <1>22, <4>1, <4>3, <4>4, <4>5
    <3> QED
      BY <3>1, <3>2
  <2> QED
    BY <2>1 DEF EntriesInv
<1> QED
  BY <1>24, <1>25, <1>26 DEF CarefulInv

(* Two indexes have no root in common. *)
LEMMA RootsDiffer ==
  ASSUME NEW d, Good(d), NEW a \in DOMAIN d.indexes, NEW b \in DOMAIN d.indexes,
         d.indexes[a].root = d.indexes[b].root, d.indexes[a].root # INVALID_PAGE_ID
  PROVE  a = b
<1>1. d.indexes[a].root \in TreePages(d)
  BY DEF Good, TreesInv
<1>2. RootOf(d, a, d.indexes[a].root) /\ RootOf(d, b, d.indexes[a].root)
  BY DEF RootOf
<1> QED
  BY <1>1, <1>2 DEF Good, TreesInv

(* What Remove leaves alone. *)
Removed(d, e, id, k) ==
  /\ Good(e) /\ e.tables = d.tables /\ e.index_names = d.index_names
  /\ DOMAIN e.indexes = DOMAIN d.indexes
  /\ \A a \in DOMAIN d.indexes :
       /\ e.indexes[a].name = d.indexes[a].name /\ e.indexes[a].table = d.indexes[a].table
       /\ d.indexes[a].root = OpenedRoot(d.pages, a) => e.indexes[a].root = OpenedRoot(e.pages, a)
       /\ a # id => Entries(e, a) = Entries(d, a)
  /\ Entries(e, id) = Erase(Entries(d, id), k)
  /\ DOMAIN e.pages \subseteq DOMAIN d.pages
  /\ \A p \in DOMAIN d.pages : d.pages[p].kind = "heap" =>
       p \in DOMAIN e.pages /\ e.pages[p] = d.pages[p]

(* See above. *)
LEMMA RemovedFacts ==
  ASSUME NEW d, Good(d), NEW id \in DOMAIN d.indexes, NEW k \in DOMAIN Entries(d, id)
  PROVE  Removed(d, RemoveEntry(d, id, k), id, k)
<1> DEFINE e == RemoveEntry(d, id, k)
           root == d.indexes[id].root
           left == Erase(Entries(d, id), k)
<1>1. root # INVALID_PAGE_ID /\ Good(e)
  BY RemoveEntryGood
<1>2. /\ root \in DOMAIN d.pages /\ d.pages[root].kind = "tree"
      /\ id \in DOMAIN Roots(d.pages)
  BY <1>1, RootFacts
<1>3. 1 \in DOMAIN d.pages /\ d.pages[1].kind = "roots"
  BY GoodFacts
<1>4. \A a \in DOMAIN d.indexes :
        /\ d.indexes[a].root # INVALID_PAGE_ID =>
             d.indexes[a].root \in DOMAIN d.pages /\ d.pages[d.indexes[a].root].kind = "tree"
        /\ d.indexes[a].root = root => a = id
  BY <1>1, RootFacts, RootsDiffer
<1>5. CASE left = NoEntries
  <2>1. TreeGone(d, e, id, root)
    BY <1>1, <1>5, TreeGoneFacts
  <2> HIDE DEF e, root, left
  <2>2. SameButTrees(d, e)
    BY <2>1 DEF TreeGone
  <2>3. /\ e.indexes[id].root = INVALID_PAGE_ID
        /\ \A a \in DOMAIN d.indexes : a # id => e.indexes[a] = d.indexes[a]
        /\ DOMAIN e.pages \subseteq DOMAIN d.pages
        /\ \A q \in DOMAIN d.pages : q \notin {1, root} => e.pages[q] = d.pages[q]
    BY <2>1 DEF TreeGone
  <2>4. /\ OpenedRoot(e.pages, id) = INVALID_PAGE_ID
        /\ \A a : a # id => OpenedRoot(e.pages, a) = OpenedRoot(d.pages, a)
    BY <1>2, <2>1 DEF TreeGone, OpenedRoot
  <2>5. Entries(e, id) = left
    BY <1>5, <2>3 DEF Entries
  <2>6. ASSUME NEW a \in DOMAIN d.indexes, a # id
        PROVE  Entries(e, a) = Entries(d, a)
    BY <1>3, <1>4, <2>3, <2>6 DEF Entries
  <2>7. /\ e.tables = d.tables /\ e.index_names = d.index_names
        /\ DOMAIN e.indexes = DOMAIN d.indexes
        /\ \A a \in DOMAIN d.indexes :
             e.indexes[a].name = d.indexes[a].name /\ e.indexes[a].table = d.indexes[a].table
        /\ \A p \in DOMAIN d.pages : d.pages[p].kind = "heap" =>
             p \in DOMAIN e.pages /\ e.pages[p] = d.pages[p]
    BY <2>2 DEF SameButTrees
  <2>8. Removed(d, e, id, k)
    BY <1>1, <2>3, <2>4, <2>5, <2>6, <2>7 DEF Removed, left
  <2> QED
    BY <2>8 DEF e
<1>6. CASE left # NoEntries
  <2>1. TreeWith(d, e, root, left)
    BY <1>1, <1>6, RemoveEntryFacts
  <2> HIDE DEF e, root, left
  <2>2. SameButTrees(d, e)
    BY <2>1 DEF TreeWith
  <2>3. /\ e.indexes = d.indexes /\ DOMAIN e.pages = DOMAIN d.pages
        /\ e.pages[root] = TreePage(left)
        /\ \A q \in DOMAIN d.pages : q # root => e.pages[q] = d.pages[q]
    BY <2>1 DEF TreeWith
  <2>4. \A a : OpenedRoot(e.pages, a) = OpenedRoot(d.pages, a)
    <3>1. root # 1
      BY <1>2, <1>3
    <3>2. Roots(e.pages) = Roots(d.pages)
      BY <1>3, <2>3, <3>1 DEF Roots, INDEX_ROOTS_PAGE_ID
    <3> QED
      BY <3>2 DEF OpenedRoot
  <2>5. Entries(e, id) = left
    <3>1. e.pages[root].entries = left
      BY <2>3, PageKinds
    <3> QED
      BY <1>1, <2>3, <3>1 DEF Entries, root
  <2>6. ASSUME NEW a \in DOMAIN d.indexes, a # id
        PROVE  Entries(e, a) = Entries(d, a)
    BY <1>4, <2>3, <2>6 DEF Entries
  <2>7. /\ e.tables = d.tables /\ e.index_names = d.index_names
        /\ \A p \in DOMAIN d.pages : d.pages[p].kind = "heap" =>
             p \in DOMAIN e.pages /\ e.pages[p] = d.pages[p]
    BY <2>2 DEF SameButTrees
  <2>8. Removed(d, e, id, k)
    BY <1>1, <2>3, <2>4, <2>5, <2>6, <2>7 DEF Removed, left
  <2> QED
    BY <2>8 DEF e
<1> QED
  BY <1>5, <1>6

(* Entries stay right when one row and its entry go. *)
LEMMA EntriesLess ==
  ASSUME NEW entries, NEW rows, NEW new, NEW heap, EntriesAre(entries, rows, heap, DOMAIN rows),
         UniqueRows(rows), NEW r \in DOMAIN rows, rows[r].live, DOMAIN new = DOMAIN rows,
         \A s \in DOMAIN rows :
           new[s].key = rows[s].key /\ (new[s].live <=> rows[s].live /\ s # r)
  PROVE  EntriesAre(Erase(entries, rows[r].key), new, heap, DOMAIN new)
<1> DEFINE k == rows[r].key
           less == Erase(entries, k)
<1>1. DOMAIN less = DOMAIN entries \ {k} /\ \A x \in DOMAIN entries : x # k => less[x] = entries[x]
  BY DEF Erase, Restrict
<1>2. \A s \in DOMAIN rows : rows[s].live /\ s # r => rows[s].key # k
  BY DEF UniqueRows
<1>3. DOMAIN entries = {rows[s].key : s \in {x \in DOMAIN rows : rows[x].live}}
      /\ \A s \in DOMAIN rows : rows[s].live => entries[rows[s].key] = <<heap, s>>
  BY DEF EntriesAre
<1> HIDE DEF less, k
<1>4. DOMAIN less = {new[s].key : s \in {x \in DOMAIN new : new[x].live}}
  <2>1. ASSUME NEW x \in DOMAIN less
        PROVE  x \in {new[s].key : s \in {y \in DOMAIN new : new[y].live}}
    <3>1. x \in DOMAIN entries /\ x # k
      BY <1>1
    <3>2. PICK s \in DOMAIN rows : rows[s].live /\ rows[s].key = x
      BY <1>3, <3>1
    <3>3. s # r
      BY <3>1, <3>2 DEF k
    <3>4. s \in DOMAIN new /\ new[s].live /\ new[s].key = x
      BY <3>2, <3>3
    <3> QED
      BY <3>4
  <2>2. ASSUME NEW s \in DOMAIN new, new[s].live
        PROVE  new[s].key \in DOMAIN less
    BY <1>1, <1>2, <1>3, <2>2
  <2> QED
    BY <2>1, <2>2
<1>5. ASSUME NEW s \in DOMAIN new, new[s].live
      PROVE  less[new[s].key] = <<heap, s>>
  BY <1>1, <1>2, <1>3, <1>5
<1> QED
  BY <1>4, <1>5 DEF EntriesAre, less, k

(* DELETE of a careful user through the only index of the table: the row   *)
(* that the index finds goes from both.                                    *)
LEMMA DeleteFoundCareful ==
  ASSUME NEW d, Good(d), CarefulInv(d), NEW t \in DOMAIN d.index_names, NEW i,
         DOMAIN d.index_names[t] = {i}, NEW id, id = d.index_names[t][i],
         NEW k \in DOMAIN Entries(d, id)
  PROVE  CarefulInv(DeleteFound(d, id, k))
<1> DEFINE c == RemoveEntry(d, id, k)
           rids == {Entries(d, id)[k]}
           e == MarkDelete(c, rids)
           heap == HeapOf(d, id)
           rows == RowsOf(d, id)
<1>1. e = DeleteFound(d, id, k)
  BY DEF DeleteFound
<1>2. id \in DOMAIN d.indexes /\ TableOf(d, id) = t
  BY CarefulFacts
<1>3. Removed(d, c, id, k)
  BY <1>2, RemovedFacts
<1> HIDE DEF c
<1>4. Good(c)
  BY <1>3 DEF Removed
<1>5. OnlyRows(c, e) /\ MarkedRows(c, e, rids)
  BY <1>4, MarkDeleteFacts
<1> HIDE DEF e
<1>6. /\ d.indexes[id].table \in DOMAIN d.tables
      /\ EntriesAre(Entries(d, id), rows, heap, DOMAIN rows)
  BY <1>2, CarefulFacts
<1>7. UniqueRows(rows)
  BY <1>6 DEF CarefulInv, UniqueInv, RowsOf, HeapOf
<1>8. PICK r \in DOMAIN rows : rows[r].live /\ rows[r].key = k
  BY <1>6 DEF EntriesAre
<1>9. rids = {<<heap, r>>}
  BY <1>6, <1>8 DEF EntriesAre
<1> HIDE DEF rids
<1>10. ASSUME NEW a \in DOMAIN d.indexes
       PROVE  /\ d.indexes[a].table \in DOMAIN d.tables
              /\ HeapOf(d, a) = d.tables[d.indexes[a].table].heap
              /\ a # id => HeapOf(d, a) # heap
  <2>1. /\ d.indexes[a].table \in DOMAIN d.tables
        /\ TableOf(d, a) \in DOMAIN d.index_names
        /\ d.indexes[a].name \in DOMAIN d.index_names[TableOf(d, a)]
        /\ d.index_names[TableOf(d, a)][d.indexes[a].name] = a
    BY CarefulFacts
  <2>2. TableOf(d, a) = t => a = id
    BY <2>1
  <2>3. HeapOf(d, a) = heap => d.indexes[a].table = d.indexes[id].table
    BY <1>6, <2>1 DEF HeapOf, Good, TablesInv
  <2>4. HeapOf(d, a) = heap => TableOf(d, a) = t
    BY <1>2, <2>3 DEF TableOf
  <2> QED
    BY <2>1, <2>2, <2>4 DEF HeapOf
<1>11. ASSUME NEW a \in DOMAIN d.tables
       PROVE  LET p == d.tables[a].heap IN
              /\ DOMAIN e.pages[p].rows = DOMAIN d.pages[p].rows
              /\ \A s \in DOMAIN d.pages[p].rows :
                   /\ e.pages[p].rows[s].key = d.pages[p].rows[s].key
                   /\ e.pages[p].rows[s].live <=> d.pages[p].rows[s].live /\ <<p, s>> \notin rids
  <2> DEFINE p == d.tables[a].heap
  <2>1. p \in DOMAIN d.pages /\ d.pages[p].kind = "heap"
    BY GoodFacts
  <2> HIDE DEF p
  <2>2. p \in DOMAIN c.pages /\ c.pages[p] = d.pages[p]
    BY <1>3, <2>1 DEF Removed
  <2>3. /\ DOMAIN e.pages[p].rows = DOMAIN c.pages[p].rows
        /\ \A s \in DOMAIN c.pages[p].rows :
             /\ e.pages[p].rows[s].key = c.pages[p].rows[s].key
             /\ e.pages[p].rows[s].live <=> c.pages[p].rows[s].live /\ <<p, s>> \notin rids
    BY <1>5, <2>1, <2>2 DEF MarkedRows
  <2> QED
    BY <2>2, <2>3 DEF p
<1>12. /\ e.tables = d.tables /\ e.index_names = d.index_names /\ e.indexes = c.indexes
       /\ DOMAIN e.indexes = DOMAIN d.indexes
  BY <1>3, <1>5 DEF Removed, OnlyRows
<1>13. ASSUME NEW a \in DOMAIN d.indexes
       PROVE  /\ e.indexes[a].name = d.indexes[a].name /\ e.indexes[a].table = d.indexes[a].table
              /\ e.indexes[a].root = OpenedRoot(e.pages, a)
              /\ TableOf(e, a) = TableOf(d, a) /\ HeapOf(e, a) = HeapOf(d, a)
              /\ Entries(e, a) = IF a = id THEN Erase(Entries(d, id), k) ELSE Entries(d, a)
  <2>1. d.indexes[a].root = OpenedRoot(d.pages, a)
    BY CarefulFacts
  <2>2. /\ c.indexes[a].name = d.indexes[a].name /\ c.indexes[a].table = d.indexes[a].table
        /\ c.indexes[a].root = OpenedRoot(c.pages, a)
        /\ Entries(c, a) = IF a = id THEN Erase(Entries(d, id), k) ELSE Entries(d, a)
        /\ a \in DOMAIN c.indexes
    BY <1>3, <2>1 DEF Removed
  <2>3. \A p \in DOMAIN c.pages : c.pages[p].kind # "heap" => e.pages[p] = c.pages[p]
    BY <1>5 DEF OnlyRows
  <2>4. 1 \in DOMAIN c.pages /\ c.pages[1].kind = "roots"
    BY <1>4, GoodFacts
  <2>5. OpenedRoot(e.pages, a) = OpenedRoot(c.pages, a)
    BY <2>3, <2>4 DEF Roots, INDEX_ROOTS_PAGE_ID, OpenedRoot
  <2>6. Entries(e, a) = Entries(c, a)
    <3>1. \A p \in DOMAIN c.pages : c.pages[p].kind = "tree" => e.pages[p] = c.pages[p]
      BY <2>3
    <3>2. e.indexes[a].root = c.indexes[a].root
      BY <1>12
    <3> QED
      BY <1>4, <2>2, <3>1, <3>2, EntriesKept
  <2>7. e.indexes[a] = c.indexes[a]
    BY <1>12
  <2>8. TableOf(e, a) = TableOf(d, a) /\ HeapOf(e, a) = HeapOf(d, a)
    BY <1>12, <2>2, <2>7 DEF TableOf, HeapOf
  <2> QED
    BY <2>2, <2>5, <2>6, <2>7, <2>8
<1>14. NamesInv(e)
  BY <1>10, <1>12, <1>13, NamesFrame
<1>15. UniqueInv(e)
  <2>1. ASSUME NEW a \in DOMAIN d.tables
        PROVE  UniqueRows(e.pages[d.tables[a].heap].rows)
    <3> DEFINE p == d.tables[a].heap
               old == d.pages[p].rows
               new == e.pages[p].rows
    <3>1. DOMAIN new = DOMAIN old
          /\ \A s \in DOMAIN old : new[s].key = old[s].key /\ (new[s].live => old[s].live)
      BY <1>11
    <3>2. UniqueRows(old)
      BY DEF CarefulInv, UniqueInv
    <3> HIDE DEF old, new
    <3>3. UniqueRows(new)
      BY <3>1, <3>2, UniqueFewer
    <3> QED
      BY <3>3 DEF new
  <2> QED
    BY <1>12, <2>1 DEF UniqueInv
<1>16. EntriesInv(e)
  <2>1. ASSUME NEW a \in DOMAIN d.indexes
        PROVE  EntriesAre(Entries(e, a), RowsOf(e, a), HeapOf(e, a), DOMAIN RowsOf(e, a))
    <3> DEFINE p == HeapOf(d, a)
               old == RowsOf(d, a)
               new == RowsOf(e, a)
    <3>1. HeapOf(e, a) = p
      BY <1>13
    <3>2. /\ DOMAIN new = DOMAIN old
          /\ \A s \in DOMAIN old :
               /\ new[s].key = old[s].key
               /\ new[s].live <=> old[s].live /\ <<p, s>> \notin rids
      BY <1>10, <1>11, <3>1 DEF RowsOf
    <3>3. EntriesAre(Entries(d, a), old, p, DOMAIN old)
      BY CarefulFacts
    <3>4. CASE a # id
      <4>1. p # heap
        BY <1>10, <3>4
      <4>2. Entries(e, a) = Entries(d, a)
        BY <1>13, <3>4
      <4> HIDE DEF p, old, new, heap
      <4>3. \A s \in DOMAIN old : new[s].key = old[s].key /\ (new[s].live <=> old[s].live)
        BY <1>9, <3>2, <4>1
      <4>4. EntriesAre(Entries(d, a), new, p, DOMAIN new)
        BY <3>2, <3>3, <4>3, EntriesSame
      <4> QED
        BY <3>1, <4>2, <4>4 DEF new
    <3>5. CASE a = id
      <4>1. p = heap /\ old = rows
        BY <3>5
      <4>2. Entries(e, a) = Erase(Entries(d, a), k)
        BY <1>13, <3>5
      <4> HIDE DEF p, old, new, heap, rows
      <4>3. \A s \in DOMAIN old : new[s].key = old[s].key /\ (new[s].live <=> old[s].live /\ s # r)
        BY <1>9, <3>2, <4>1
      <4>4. r \in DOMAIN old /\ old[r].live /\ old[r].key = k /\ UniqueRows(old)
        BY <1>7, <1>8, <4>1
      <4>5. EntriesAre(Erase(Entries(d, a), old[r].key), new, p, DOMAIN new)
        BY <3>2, <3>3, <4>3, <4>4, EntriesLess
      <4> QED
        BY <3>1, <4>2, <4>4, <4>5 DEF new
    <3> QED
      BY <3>4, <3>5
  <2> QED
    BY <1>12, <2>1 DEF EntriesInv
<1>17. CarefulInv(e)
  BY <1>14, <1>15, <1>16 DEF CarefulInv
<1> QED
  BY <1>1, <1>17

-----------------------------------------------------------------------------
(* What a statement has to show of the database it leaves. *)
LEMMA Preserved ==
  ASSUME IInv, UNCHANGED careful, Good(db'), DOMAIN db'.pages \subseteq 0 .. MaxPageId,
         careful => CarefulInv(db'), PagesCounted \/ num_allocated_pages_' = 0
  PROVE  IInv'
<1>1. IsFiniteSet(DOMAIN db.pages) /\ IsFiniteSet(DOMAIN db'.pages)
  BY DEF IInv, Good, PagesInv
<1>2. Cardinality(DOMAIN db.pages) \in Nat /\ Cardinality(DOMAIN db'.pages) \in Nat
  BY <1>1, FS_CardinalityType
<1>3. num_allocated_pages_' \in Int
  BY <1>2 DEF IInv, PagesCounted
<1> QED
  BY <1>3 DEF IInv

(* The bound of the guards is within the bound of the invariant. *)
LEMMA FitsFacts ==
  ASSUME NEW d, Fits(d)
  PROVE  DOMAIN d.pages \subseteq 0 .. MaxPageId
BY ConstantsAssumption DEF Fits

(* Each statement preserves the invariant. *)
LEMMA CreateTableStep ==
  ASSUME IInv, NEW t \in Tables, ExecuteCreateTable(t)
  PROVE  IInv'
<1>1. Good(db) /\ careful \in BOOLEAN /\ (careful => CarefulInv(db))
  BY DEF IInv
<1>2. /\ t \notin DOMAIN db.table_names /\ NextId(db.table_meta_pages) <= MaxId
      /\ db' = CreateTable(db, t) /\ Fits(db') /\ PagesCounted /\ UNCHANGED careful
  BY DEF ExecuteCreateTable, HasTable
<1>3. Good(db')
  BY <1>1, <1>2, CreateTableGood
<1>4. DOMAIN db'.pages \subseteq 0 .. MaxPageId
  BY <1>2, FitsFacts
<1>5. careful => CarefulInv(db')
  BY <1>1, <1>2, CreateTableCareful
<1> QED
  BY <1>2, <1>3, <1>4, <1>5, Preserved

(* See above. *)
LEMMA DropTableStep ==
  ASSUME IInv, NEW t \in Tables, ExecuteDropTable(t)
  PROVE  IInv'
<1>1. /\ Good(db) /\ careful \in BOOLEAN /\ (careful => CarefulInv(db))
      /\ DOMAIN db.pages \subseteq 0 .. MaxPageId
  BY DEF IInv
<1>2. /\ t \in DOMAIN db.table_names /\ (careful => IndexesOf(db, t) = {})
      /\ db' = DropTable(db, t) /\ PagesCounted /\ UNCHANGED careful
  BY DEF ExecuteDropTable, HasTable
<1>3. Good(db')
  BY <1>1, <1>2, DropTableGood
<1>4. DOMAIN db'.pages \subseteq DOMAIN db.pages
  BY <1>1, <1>2, DropTableFacts
<1>5. careful => CarefulInv(db')
  BY <1>1, <1>2, DropTableCareful
<1> QED
  BY <1>1, <1>2, <1>3, <1>4, <1>5, Preserved

(* See above. *)
LEMMA CreateIndexStep ==
  ASSUME IInv, NEW t \in Tables, NEW i \in Indexes, ExecuteCreateIndex(i, t)
  PROVE  IInv'
<1> DEFINE c == CreateIndex(db, t, i)
<1>1. Good(db) /\ careful \in BOOLEAN /\ (careful => CarefulInv(db))
  BY DEF IInv
<1>2. /\ t \in DOMAIN db.table_names /\ i \notin IndexesOf(db, t)
      /\ NextId(db.index_meta_pages) <= MaxId
      /\ careful => NextId(db.index_meta_pages) \notin DOMAIN Roots(db.pages)
      /\ db' = FillIndex(c, t, c.index_names[t][i])
      /\ Fits(db') /\ PagesCounted /\ UNCHANGED careful
  BY DEF ExecuteCreateIndex, HasTable
<1>3. Good(c)
  BY <1>1, <1>2, CreateIndexGood
<1>4. t \in DOMAIN c.table_names /\ c.index_names[t][i] \in DOMAIN c.indexes
  <2> DEFINE id == NextId(db.index_meta_pages)
             info == [name |-> i, table |-> db.table_names[t], root |-> OpenedRoot(db.pages, id)]
  <2>1. /\ c.table_names = db.table_names
        /\ c.index_names = NamedIndex(db.index_names, t, i, id)
        /\ c.indexes = Assign(db.indexes, id, info)
    BY <1>1, <1>2, CreateIndexFacts
  <2> HIDE DEF c, id, info
  <2>2. IsFun(db.index_names)
    BY <1>1 DEF Good, IndexesInv
  <2>3. NamesWith(db, t, i, id, NamedIndex(db.index_names, t, i, id))
    BY <1>2, <2>2, NamedIndexFacts
  <2>4. c.index_names[t][i] = id
    BY <2>1, <2>3 DEF NamesWith
  <2>5. id \in DOMAIN c.indexes
    BY <2>1 DEF Assign
  <2> QED
    BY <1>2, <2>1, <2>4, <2>5
<1>5. careful => CarefulInv(db')
  BY <1>1, <1>2, CreateIndexCareful
<1> HIDE DEF c
<1>6. Good(db')
  BY <1>2, <1>3, <1>4, FillIndexFacts
<1>7. DOMAIN db'.pages \subseteq 0 .. MaxPageId
  BY <1>2, FitsFacts
<1> QED
  BY <1>2, <1>5, <1>6, <1>7, Preserved

(* See above. *)
LEMMA DropIndexStep ==
  ASSUME IInv, NEW i \in Indexes, ExecuteDropIndex(i)
  PROVE  IInv'
<1>1. /\ Good(db) /\ careful \in BOOLEAN /\ (careful => CarefulInv(db))
      /\ DOMAIN db.pages \subseteq 0 .. MaxPageId
  BY DEF IInv
<1>2. PICK t \in DOMAIN db.table_names :
        /\ i \in IndexesOf(db, t) /\ (careful => IndexesOf(db, t) = {i})
        /\ db' = DropIndex(db, t, i) /\ PagesCounted /\ UNCHANGED careful
  BY DEF ExecuteDropIndex
<1>3. /\ t \in DOMAIN db.index_names /\ i \in DOMAIN db.index_names[t]
      /\ careful => DOMAIN db.index_names[t] = {i}
  BY <1>2 DEF IndexesOf
<1>4. Good(db')
  BY <1>1, <1>2, <1>3, DropIndexGood
<1>5. DOMAIN db'.pages \subseteq DOMAIN db.pages
  BY <1>1, <1>2, <1>3, DropIndexFacts
<1>6. careful => CarefulInv(db')
  BY <1>1, <1>2, <1>3, DropIndexCareful
<1> QED
  BY <1>1, <1>2, <1>4, <1>5, <1>6, Preserved

(* See above. *)
LEMMA InsertStep ==
  ASSUME IInv, NEW t \in Tables, NEW k \in Keys, ExecuteInsert(t, k)
  PROVE  IInv'
<1> DEFINE heap == Heap(db, t)
<1>1. /\ Good(db) /\ careful \in BOOLEAN /\ (careful => CarefulInv(db))
      /\ DOMAIN db.pages \subseteq 0 .. MaxPageId
  BY DEF IInv
<1>2. /\ t \in DOMAIN db.table_names
      /\ careful => IndexesOf(db, t) = {} /\ LiveWith(db, t, k) = {}
      /\ db' = [db EXCEPT !.pages[heap].rows = Append(@, [key |-> k, live |-> TRUE])]
      /\ PagesCounted /\ UNCHANGED careful
  BY DEF ExecuteInsert, HasTable
<1>3. heap \in DOMAIN db.pages /\ db.pages[heap].kind = "heap"
  <2>1. db.table_names[t] \in DOMAIN db.tables
    BY <1>1, <1>2 DEF Good, TablesInv
  <2> QED
    BY <1>1, <2>1, GoodFacts DEF Heap
<1>4. OnlyRows(db, db') /\ InsertedRow(db, db', heap, k)
  BY <1>1, <1>2, <1>3, InsertFacts
<1>5. Good(db')
  BY <1>1, <1>4, OnlyRowsGood
<1>6. DOMAIN db'.pages = DOMAIN db.pages
  BY <1>4 DEF OnlyRows
<1>7. careful => CarefulInv(db')
  BY <1>1, <1>2, <1>4, InsertCareful
<1> QED
  BY <1>1, <1>2, <1>5, <1>6, <1>7, Preserved

(* See above. *)
LEMMA MarkDeleteStep ==
  ASSUME IInv, NEW t \in DOMAIN db.table_names, NEW rids, rids \subseteq LiveIds(db, t),
         careful => IndexesOf(db, t) = {}, db' = MarkDelete(db, rids),
         PagesCounted, UNCHANGED careful
  PROVE  IInv'
<1>1. /\ Good(db) /\ careful \in BOOLEAN /\ (careful => CarefulInv(db))
      /\ DOMAIN db.pages \subseteq 0 .. MaxPageId
  BY DEF IInv
<1>2. OnlyRows(db, db')
  BY <1>1, MarkDeleteFacts
<1>3. Good(db')
  BY <1>1, <1>2, OnlyRowsGood
<1>4. DOMAIN db'.pages = DOMAIN db.pages
  BY <1>2 DEF OnlyRows
<1>5. careful => CarefulInv(db')
  BY <1>1, DeleteCareful
<1> QED
  BY <1>1, <1>3, <1>4, <1>5, Preserved

(* See above. *)
LEMMA DeleteAllStep ==
  ASSUME IInv, NEW t \in Tables, ExecuteDeleteAll(t)
  PROVE  IInv'
<1>1. /\ t \in DOMAIN db.table_names /\ (careful => IndexesOf(db, t) = {})
      /\ db' = MarkDelete(db, LiveIds(db, t)) /\ PagesCounted /\ UNCHANGED careful
  BY DEF ExecuteDeleteAll, HasTable
<1> QED
  BY <1>1, MarkDeleteStep

(* See above. *)
LEMMA DeleteByScanStep ==
  ASSUME IInv, NEW t \in Tables, ExecuteDeleteByScan(t)
  PROVE  IInv'
<1>1. PICK rids \in SUBSET LiveIds(db, t) : db' = MarkDelete(db, rids)
  BY DEF ExecuteDeleteByScan
<1>2. /\ t \in DOMAIN db.table_names /\ (careful => IndexesOf(db, t) = {})
      /\ PagesCounted /\ UNCHANGED careful
  BY DEF ExecuteDeleteByScan, HasTable
<1> QED
  BY <1>1, <1>2, MarkDeleteStep

(* See above. *)
LEMMA DeleteStep ==
  ASSUME IInv, NEW t \in Tables, NEW k \in Keys, ExecuteDelete(t, k)
  PROVE  IInv'
<1>1. t \in DOMAIN db.table_names /\ PagesCounted /\ UNCHANGED careful
  BY DEF ExecuteDelete, HasTable
<1>2. PICK i \in IndexesOf(db, t) :
        /\ careful => IndexesOf(db, t) = {i}
        /\ k \in DOMAIN Entries(db, db.index_names[t][i])
        /\ db' = DeleteFound(db, db.index_names[t][i], k)
  BY DEF ExecuteDelete
<1> DEFINE id == db.index_names[t][i]
           c == RemoveEntry(db, id, k)
<1>3. /\ Good(db) /\ careful \in BOOLEAN /\ (careful => CarefulInv(db))
      /\ DOMAIN db.pages \subseteq 0 .. MaxPageId
  BY DEF IInv
<1>4. /\ t \in DOMAIN db.index_names /\ i \in DOMAIN db.index_names[t]
      /\ careful => DOMAIN db.index_names[t] = {i}
  BY <1>2 DEF IndexesOf
<1>5. id \in DOMAIN db.indexes
  BY <1>3, <1>4 DEF Good, IndexesInv
<1>6. careful => CarefulInv(db')
  BY <1>2, <1>3, <1>4, DeleteFoundCareful
<1> HIDE DEF id
<1>7. Removed(db, c, id, k)
  BY <1>2, <1>3, <1>5, RemovedFacts DEF id
<1>8. db' = MarkDelete(c, {Entries(db, id)[k]})
  BY <1>2 DEF DeleteFound, id
<1> HIDE DEF c
<1>9. Good(c) /\ DOMAIN c.pages \subseteq DOMAIN db.pages
  BY <1>7 DEF Removed
<1>10. OnlyRows(c, db')
  BY <1>8, <1>9, MarkDeleteFacts
<1>11. Good(db')
  BY <1>9, <1>10, OnlyRowsGood
<1>12. DOMAIN db'.pages = DOMAIN c.pages
  BY <1>10 DEF OnlyRows
<1> QED
  BY <1>1, <1>3, <1>6, <1>9, <1>11, <1>12, Preserved

(* See above: closing and opening the database. *)
LEMMA ReopenStep ==
  ASSUME IInv, Reopen
  PROVE  IInv'
<1>1. /\ Good(db) /\ careful \in BOOLEAN /\ (careful => CarefulInv(db))
      /\ DOMAIN db.pages \subseteq 0 .. MaxPageId
  BY DEF IInv
<1>2. /\ Loadable(db.pages) /\ db' = Load(db.pages)
      /\ num_allocated_pages_' = 0 /\ UNCHANGED careful
  BY DEF Reopen
<1>3. Loaded(db, db')
  BY <1>1, <1>2, LoadFacts
<1>4. Good(db')
  BY <1>1, <1>3, LoadGood
<1>5. DOMAIN db'.pages = DOMAIN db.pages
  BY <1>3 DEF Loaded
<1>6. careful => CarefulInv(db')
  <2> SUFFICES ASSUME careful
               PROVE  CarefulInv(db')
    OBVIOUS
  <2>1. NamesInv(db) /\ CarefulInv(db)
    BY <1>1 DEF CarefulInv
  <2>2. db' = db
    BY <1>1, <1>2, <2>1, LoadSame
  <2> QED
    BY <2>1, <2>2
<1> QED
  BY <1>1, <1>2, <1>4, <1>5, <1>6, Preserved

(* However statements are used, in every order, with restarts in between:  *)
(* ExecuteEngine keeps the invariant over the maps of CatalogManager, the  *)
(* pages and, for careful users, the indexes.                              *)
THEOREM ExecutorInvariant == Spec => []IInv
<1>1. Init => IInv
  <2> SUFFICES ASSUME Init
               PROVE  IInv
    OBVIOUS
  <2>1. db = NewDatabase /\ careful \in BOOLEAN
    BY DEF Init
  <2>2. DOMAIN NewDatabase.pages \subseteq 0 .. MaxPageId /\ num_allocated_pages_ \in Int
    <3>1. DOMAIN NewDatabase.pages = {0, 1}
      BY DEF NewDatabase, CATALOG_META_PAGE_ID, INDEX_ROOTS_PAGE_ID
    <3>2. Cardinality(DOMAIN NewDatabase.pages) \in Nat
      BY <3>1, FS_EmptySet, FS_AddElement, FS_CardinalityType, InitGood DEF Good, PagesInv
    <3> QED
      BY <3>1, <3>2, ConstantsAssumption DEF Init
  <2> QED
    BY <2>1, <2>2, InitGood DEF IInv
<1>2. IInv /\ [Next]_vars => IInv'
  <2> SUFFICES ASSUME IInv, [Next]_vars
               PROVE  IInv'
    OBVIOUS
  <2>1. CASE UNCHANGED vars
    BY <2>1 DEF IInv, vars
  <2>2. CASE \E t \in Tables : ExecuteCreateTable(t)
    BY <2>2, CreateTableStep
  <2>3. CASE \E t \in Tables : ExecuteDropTable(t)
    BY <2>3, DropTableStep
  <2>4. CASE \E t \in Tables, i \in Indexes : ExecuteCreateIndex(i, t)
    BY <2>4, CreateIndexStep
  <2>5. CASE \E i \in Indexes : ExecuteDropIndex(i)
    BY <2>5, DropIndexStep
  <2>6. CASE \E t \in Tables, k \in Keys : ExecuteInsert(t, k)
    BY <2>6, InsertStep
  <2>7. CASE \E t \in Tables : ExecuteDeleteAll(t)
    BY <2>7, DeleteAllStep
  <2>8. CASE \E t \in Tables, k \in Keys : ExecuteDelete(t, k)
    BY <2>8, DeleteStep
  <2>9. CASE \E t \in Tables : ExecuteDeleteByScan(t)
    BY <2>9, DeleteByScanStep
  <2>10. CASE Reopen
    BY <2>10, ReopenStep
  <2> QED
    BY <2>1, <2>2, <2>3, <2>4, <2>5, <2>6, <2>7, <2>8, <2>9, <2>10 DEF Next
<1> QED
  BY <1>1, <1>2, PTL DEF Spec

(* Whatever was created and dropped, as long as the disk manager's count   *)
(* has not wrapped when a page is asked for: the catalog page leads to a   *)
(* meta page that describes each object memory has, and no heap or tree    *)
(* belongs to two (CatalogManager, B+ tree roots).                         *)
THEOREM PagesStayConsistent == Spec => []PagesConsistent
<1>1. IInv => PagesConsistent
  <2> SUFFICES ASSUME IInv
               PROVE  PagesConsistent
    OBVIOUS
  <2>1. /\ Good(db) /\ careful \in BOOLEAN /\ DOMAIN db.pages \subseteq 0 .. MaxPageId
        /\ num_allocated_pages_ \in Int
    BY DEF IInv
  <2>2. TypeOK
    BY <2>1 DEF TypeOK, PartialFun, Good, TablesInv, IndexesInv
  <2>3. MetaPagesMatch
    <3>1. db.pages[0] = CatalogPage(db.table_meta_pages, db.index_meta_pages)
      BY <2>1 DEF Good, PagesInv
    <3>2. db.pages[0].tables = db.table_meta_pages /\ db.pages[0].indexes = db.index_meta_pages
      BY <3>1, PageKinds
    <3>3. /\ DOMAIN db.table_meta_pages = DOMAIN db.tables
          /\ \A id \in DOMAIN db.tables :
               /\ db.table_meta_pages[id] \in DOMAIN db.pages
               /\ db.pages[db.table_meta_pages[id]] =
                    TableMeta(id, db.tables[id].name, db.tables[id].heap)
      BY <2>1 DEF Good, TablesInv
    <3>4. /\ DOMAIN db.index_meta_pages = DOMAIN db.indexes
          /\ \A id \in DOMAIN db.indexes :
               /\ db.index_meta_pages[id] \in DOMAIN db.pages
               /\ db.pages[db.index_meta_pages[id]] =
                    IndexMeta(id, db.indexes[id].name, db.indexes[id].table)
      BY <2>1 DEF Good, IndexesInv
    <3> QED
      BY <3>2, <3>3, <3>4 DEF MetaPagesMatch, CATALOG_META_PAGE_ID
  <2>4. PagesNotShared
    <3> DEFINE heaps == [id \in DOMAIN db.tables |-> db.tables[id].heap]
               used == {id \in DOMAIN db.indexes : db.indexes[id].root # INVALID_PAGE_ID}
               roots == [id \in used |-> db.indexes[id].root]
    <3>1. IsInjective(heaps)
      BY <2>1 DEF IsInjective, Good, TablesInv
    <3>2. IsInjective(roots)
      <4>1. ASSUME NEW a \in used, NEW b \in used, db.indexes[a].root = db.indexes[b].root
            PROVE  a = b
        BY <2>1, <4>1, RootsDiffer
      <4> QED
        BY <4>1 DEF IsInjective
    <3>3. \A id \in DOMAIN db.tables :
            /\ db.tables[id].heap \in DOMAIN db.pages
            /\ db.pages[db.tables[id].heap].kind = "heap"
      BY <2>1, GoodFacts
    <3>4. \A id \in used :
            /\ db.indexes[id].root \in DOMAIN db.pages
            /\ db.pages[db.indexes[id].root].kind = "tree"
      BY <2>1, RootFacts
    <3> QED
      BY <3>1, <3>2, <3>3, <3>4 DEF PagesNotShared
  <2> QED
    BY <2>2, <2>3, <2>4 DEF PagesConsistent
<1> QED
  BY <1>1, ExecutorInvariant, PTL

(* For careful users, opening the database gives back what closing it had  *)
(* in memory (the constructor of CatalogManager and its destructor).       *)
THEOREM ReloadChangesNothing == Spec => []ReloadAgrees
<1>1. IInv => ReloadAgrees
  <2> SUFFICES ASSUME IInv, careful
               PROVE  Loadable(db.pages) /\ Load(db.pages) = db
    BY DEF ReloadAgrees
  <2>1. Good(db) /\ NamesInv(db)
    BY DEF IInv, CarefulInv
  <2> QED
    BY <2>1, LoadSame
<1> QED
  BY <1>1, ExecutorInvariant, PTL

(* For careful users, a lookup through an index of a table finds exactly   *)
(* the live row that a scan finds (ExecuteCreateIndex, ExecuteDelete).     *)
THEOREM IndexesAgree == Spec => []IndexAgrees
<1>1. IInv => IndexAgrees
  <2> SUFFICES ASSUME IInv, careful, NEW t \in DOMAIN db.table_names, NEW i \in IndexesOf(db, t),
                      NEW k \in Keys
               PROVE  LET entries == Entries(db, db.index_names[t][i]) IN
                      LiveWith(db, t, k) = IF k \in DOMAIN entries THEN {entries[k]} ELSE {}
    BY DEF IndexAgrees
  <2> DEFINE id == db.index_names[t][i]
             entries == Entries(db, id)
             rows == Rows(db, t)
             heap == Heap(db, t)
  <2>1. Good(db) /\ CarefulInv(db)
    BY DEF IInv
  <2>2. t \in DOMAIN db.index_names /\ i \in DOMAIN db.index_names[t]
    BY DEF IndexesOf
  <2>3. id \in DOMAIN db.indexes /\ TableOf(db, id) = t
    BY <2>1, <2>2, CarefulFacts
  <2>4. /\ db.indexes[id].table = db.table_names[t] /\ db.table_names[t] \in DOMAIN db.tables
        /\ EntriesAre(entries, RowsOf(db, id), HeapOf(db, id), DOMAIN RowsOf(db, id))
    BY <2>1, <2>3, CarefulFacts
  <2>5. HeapOf(db, id) = heap /\ RowsOf(db, id) = rows
    BY <2>4 DEF HeapOf, RowsOf, Heap, Rows
  <2>6. /\ DOMAIN entries = {rows[s].key : s \in {r \in DOMAIN rows : rows[r].live}}
        /\ \A s \in DOMAIN rows : rows[s].live => entries[rows[s].key] = <<heap, s>>
    BY <2>4, <2>5 DEF EntriesAre
  <2>7. UniqueRows(rows)
    BY <2>1, <2>4 DEF CarefulInv, UniqueInv, Rows, Heap
  <2>8. LiveWith(db, t, k) =
          {<<heap, s>> : s \in {r \in DOMAIN rows : rows[r].live /\ rows[r].key = k}}
    <3>1. \A s \in DOMAIN rows : KeyOf(db, <<heap, s>>) = rows[s].key
      BY DEF KeyOf, Rows
    <3>2. LiveIds(db, t) = {<<heap, s>> : s \in {r \in DOMAIN rows : rows[r].live}}
      BY DEF LiveIds
    <3> HIDE DEF rows, heap
    <3> QED
      BY <3>1, <3>2 DEF LiveWith
  <2> HIDE DEF rows, heap, entries, id
  <2>9. LiveWith(db, t, k) = IF k \in DOMAIN entries THEN {entries[k]} ELSE {}
    <3>1. CASE k \in DOMAIN entries
      <4>1. PICK r \in DOMAIN rows : rows[r].live /\ rows[r].key = k
        BY <2>6, <3>1
      <4>2. entries[k] = <<heap, r>>
        BY <2>6, <4>1
      <4>3. {s \in DOMAIN rows : rows[s].live /\ rows[s].key = k} = {r}
        BY <2>7, <4>1 DEF UniqueRows
      <4> QED
        BY <2>8, <3>1, <4>2, <4>3
    <3>2. CASE k \notin DOMAIN entries
      BY <2>6, <2>8, <3>2
    <3> QED
      BY <3>1, <3>2
  <2> QED
    BY <2>9 DEF entries, id
<1> QED
  BY <1>1, ExecutorInvariant, PTL

=============================================================================
