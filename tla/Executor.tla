------------------------------ MODULE Executor ------------------------------
(***************************************************************************)
(* ExecuteEngine on one database: the statements that change it, made of   *)
(* the catalog's operations, table heaps and indexes, and closing and      *)
(* opening the database file.                                              *)
(*                                                                         *)
(* A row is represented by the value of its second column, the one the     *)
(* executor looks up in every index; indexes are on that column.  Row ids  *)
(* are <<heap page, slot>>; the executor marks rows deleted and never      *)
(* applies the deletion, so a slot is not used again.                      *)
(*                                                                         *)
(* The disk manager counts the pages it gives out and takes back from 0    *)
(* each time the file is opened.  A statement that drops what an earlier   *)
(* session made takes the count below 0, where it wraps; statements that   *)
(* then need a page are left out of all behaviours, because AllocatePage   *)
(* returns no page of the file and writes outside its meta page (run       *)
(* disk_after_restart of MCDiskManager).  The other statements, and those  *)
(* of the next session, go on from there.                                  *)
(*                                                                         *)
(* `careful` marks the behaviours in which the user keeps to what the      *)
(* executor can do: tables are filled, without duplicates, before they get *)
(* an index, are emptied row by row, by the indexed column, while they     *)
(* have one, and are dropped without one; an index is dropped only if it   *)
(* is its table's only one, and the id of a new index has no tree left     *)
(* from an earlier one.  The behaviours with careful = FALSE use every     *)
(* statement freely, except that statements about tables or indexes that   *)
(* do not exist, and CREATE INDEX for a name in use, are left out: the     *)
(* executor dereferences uninitialised pointers there.                     *)
(***************************************************************************)
EXTENDS Catalog, SequencesExt

CONSTANTS
    Tables, Indexes, Keys,  \* names of tables and indexes, column values
    MaxRows,                \* bound on the rows ever inserted
    MaxId,                  \* bound on table and index ids
    MaxPageId,              \* bound on the pages in use
    CarelessMaxPageId       \* the same when statements are used freely

ASSUME ConstantsAssumption ==
    /\ MaxRows \in Nat /\ MaxId \in Nat
    /\ MaxPageId \in Nat /\ CarelessMaxPageId \in 4 .. MaxPageId

VARIABLES
    db,
    num_allocated_pages_,   \* the disk manager's count; below 0 it has wrapped
    careful

vars == <<db, num_allocated_pages_, careful>>

HasTable(t) == t \in DOMAIN db.table_names
Heap(d, t) == d.tables[d.table_names[t]].heap
Rows(d, t) == d.pages[Heap(d, t)].rows
LiveIds(d, t) ==
    {<<Heap(d, t), s>> : s \in {s \in DOMAIN Rows(d, t) : Rows(d, t)[s].live}}
KeyOf(d, rid) == d.pages[rid[1]].rows[rid[2]].key
LiveWith(d, t, k) == {rid \in LiveIds(d, t) : KeyOf(d, rid) = k}

\* MarkDelete of a set of row ids, each on the page it names.
MarkDelete(d, rids) ==
    LET Marked(p) ==
            [s \in DOMAIN d.pages[p].rows |->
                [d.pages[p].rows[s] EXCEPT !.live = @ /\ <<p, s>> \notin rids]]
    IN  [d EXCEPT !.pages = [p \in DOMAIN d.pages |->
            IF d.pages[p].kind # "heap" THEN d.pages[p] ELSE HeapPage(Marked(p))]]

\* A new database has its two pages from this session.
Init ==
    /\ db = NewDatabase
    /\ num_allocated_pages_ = Cardinality(DOMAIN NewDatabase.pages)
    /\ careful \in BOOLEAN

Fits(d) ==
    DOMAIN d.pages \subseteq 0 .. (IF careful THEN MaxPageId ELSE CarelessMaxPageId)

\* NewPage adds one to the count for each page and DeletePage subtracts one.
PagesCounted ==
    num_allocated_pages_' = num_allocated_pages_
        + Cardinality(DOMAIN db'.pages) - Cardinality(DOMAIN db.pages)

\* The count selects an extent of the file.
CountIsSound == num_allocated_pages_ >= 0

-----------------------------------------------------------------------------
(* Statements *)

ExecuteCreateTable(t) ==
    /\ CountIsSound
    /\ ~HasTable(t) /\ NextId(db.table_meta_pages) <= MaxId
    /\ db' = CreateTable(db, t)
    /\ Fits(db')
    /\ PagesCounted /\ UNCHANGED careful

ExecuteDropTable(t) ==
    /\ HasTable(t)
    /\ careful => IndexesOf(db, t) = {}
    /\ db' = DropTable(db, t)
    /\ PagesCounted /\ UNCHANGED careful

\* The scan of ExecuteCreateIndex: live rows in order; a duplicate's
\* InsertEntry fails, which is not looked at.
FillIndex(d, t, id) ==
    FoldLeft(LAMBDA acc, s :
                IF Rows(d, t)[s].live
                THEN InsertEntry(acc, id, Rows(d, t)[s].key, <<Heap(d, t), s>>)
                ELSE acc,
             d, [s \in DOMAIN Rows(d, t) |-> s])

ExecuteCreateIndex(i, t) ==
    /\ CountIsSound
    /\ HasTable(t) /\ i \notin IndexesOf(db, t)
    /\ NextId(db.index_meta_pages) <= MaxId
    /\ careful => NextId(db.index_meta_pages) \notin DOMAIN Roots(db.pages)
    /\ LET created == CreateIndex(db, t, i)
       IN  db' = FillIndex(created, t, created.index_names[t][i])
    /\ Fits(db')
    /\ PagesCounted /\ UNCHANGED careful

\* The first table found with an index of that name.
ExecuteDropIndex(i) ==
    \E t \in DOMAIN db.table_names :
        /\ i \in IndexesOf(db, t)
        /\ careful => IndexesOf(db, t) = {i}
        /\ db' = DropIndex(db, t, i)
        /\ PagesCounted /\ UNCHANGED careful

Refused(t, k) ==
    \E i \in IndexesOf(db, t) : k \in DOMAIN Entries(db, db.index_names[t][i])

InsertedRows(d) ==
    LET RowsOf(p) == IF d.pages[p].kind = "heap" THEN Len(d.pages[p].rows) ELSE 0
    IN  FoldSet(LAMBDA p, n : n + RowsOf(p), 0, DOMAIN d.pages)

\* The new row is not entered in the indexes that were just asked.
ExecuteInsert(t, k) ==
    /\ HasTable(t) /\ ~Refused(t, k)
    /\ careful => IndexesOf(db, t) = {} /\ LiveWith(db, t, k) = {}
    /\ InsertedRows(db) < MaxRows
    /\ db' = [db EXCEPT !.pages[Heap(db, t)].rows =
                    Append(@, [key |-> k, live |-> TRUE])]
    /\ PagesCounted /\ UNCHANGED careful

ExecuteDeleteAll(t) ==
    /\ HasTable(t)
    /\ careful => IndexesOf(db, t) = {}
    /\ db' = MarkDelete(db, LiveIds(db, t))
    /\ PagesCounted /\ UNCHANGED careful

DeleteFoundKeepsEntry(d, id, k) == MarkDelete(d, {Entries(d, id)[k]})
\* The index finds at most one row, wherever its entry points.
DeleteFound(d, id, k) ==
    MarkDelete(RemoveEntry(d, id, k), {Entries(d, id)[k]})

\* DELETE with a condition on the indexed column: through the index that
\* comes first in the unordered map.
ExecuteDelete(t, k) ==
    /\ HasTable(t)
    /\ \E i \in IndexesOf(db, t) :
          LET id == db.index_names[t][i] IN
          /\ careful => IndexesOf(db, t) = {i}
          /\ k \in DOMAIN Entries(db, id)
          /\ db' = DeleteFound(db, id, k)
    /\ PagesCounted /\ UNCHANGED careful

\* DELETE with a condition when the table has no index or the first one
\* lacks the column: a scan marks the rows in which some column of that type
\* has the value, which may be any rows; index entries stay.
ExecuteDeleteByScan(t) ==
    /\ HasTable(t)
    /\ careful => IndexesOf(db, t) = {}
    /\ \E rids \in SUBSET LiveIds(db, t) : db' = MarkDelete(db, rids)
    /\ PagesCounted /\ UNCHANGED careful

\* The storage engine is deleted, which flushes every page, and created
\* again with init = false.
Reopen ==
    /\ Loadable(db.pages) /\ db' = Load(db.pages)
    /\ num_allocated_pages_' = 0
    /\ UNCHANGED careful

Next ==
    \/ \E t \in Tables : ExecuteCreateTable(t)
    \/ \E t \in Tables : ExecuteDropTable(t)
    \/ \E t \in Tables, i \in Indexes : ExecuteCreateIndex(i, t)
    \/ \E i \in Indexes : ExecuteDropIndex(i)
    \/ \E t \in Tables, k \in Keys : ExecuteInsert(t, k)
    \/ \E t \in Tables : ExecuteDeleteAll(t)
    \/ \E t \in Tables, k \in Keys : ExecuteDelete(t, k)
    \/ \E t \in Tables : ExecuteDeleteByScan(t)
    \/ Reopen

Spec == Init /\ [][Next]_vars

-----------------------------------------------------------------------------
(* Correctness *)

PartialFun(f, S) == DOMAIN f \subseteq S

\* Every map has keys and values of its type, in memory and in the catalog
\* page.
TypeOK ==
    /\ PartialFun(db.table_names, Tables) /\ PartialFun(db.index_names, Tables)
    /\ \A t \in DOMAIN db.index_names : PartialFun(db.index_names[t], Indexes)
    /\ \A t \in DOMAIN db.table_names : db.table_names[t] \in DOMAIN db.tables
    /\ \A t \in DOMAIN db.index_names : \A i \in DOMAIN db.index_names[t] :
            db.index_names[t][i] \in DOMAIN db.indexes
    /\ DOMAIN db.pages \subseteq 0 .. MaxPageId
    /\ num_allocated_pages_ \in Int /\ careful \in BOOLEAN

\* Whatever was created and dropped before, every id that the catalog page
\* on disk names leads to a page of the right kind that describes the object
\* memory has under that id: freed pages and reused ids never mix objects
\* up, and the page is never behind the maps.
MetaPagesMatch ==
    LET c == db.pages[CATALOG_META_PAGE_ID] IN
    /\ DOMAIN c.tables = DOMAIN db.tables
    /\ DOMAIN c.indexes = DOMAIN db.indexes
    /\ \A id \in DOMAIN c.tables :
        /\ c.tables[id] \in DOMAIN db.pages
        /\ db.pages[c.tables[id]] =
                TableMeta(id, db.tables[id].name, db.tables[id].heap)
    /\ \A id \in DOMAIN c.indexes :
        /\ c.indexes[id] \in DOMAIN db.pages
        /\ db.pages[c.indexes[id]] =
                IndexMeta(id, db.indexes[id].name, db.indexes[id].table)

\* Two objects never live in the same page: no heap or tree is shared
\* between tables or indexes, and each is an allocated page of its kind,
\* even though DropIndex and DropTable leave trees and heaps behind.
PagesNotShared ==
    LET heaps == [id \in DOMAIN db.tables |-> db.tables[id].heap]
        used == {id \in DOMAIN db.indexes :
                    db.indexes[id].root # INVALID_PAGE_ID}
        roots == [id \in used |-> db.indexes[id].root]
    IN  /\ IsInjective(heaps) /\ IsInjective(roots)
        /\ \A id \in DOMAIN heaps :
                heaps[id] \in DOMAIN db.pages /\ db.pages[heaps[id]].kind = "heap"
        /\ \A id \in used :
                roots[id] \in DOMAIN db.pages /\ db.pages[roots[id]].kind = "tree"

\* For a careful user, closing the database and opening it again gives back
\* exactly the tables, the indexes, their names and their roots: nothing is
\* known only in memory, nothing on disk is forgotten, and opening never
\* fails; also after statements dropped what an earlier session made, up to
\* the statement that needs a page while the count has wrapped.
ReloadAgrees == careful => Loadable(db.pages) /\ Load(db.pages) = db

\* For a careful user, a lookup through an index finds exactly the live row
\* that a scan of its table finds, after any history of other tables and
\* indexes that came and went: the entries are complete, and none is stale
\* or of another table.
IndexAgrees ==
    careful =>
        \A t \in DOMAIN db.table_names : \A i \in IndexesOf(db, t) :
            LET entries == Entries(db, db.index_names[t][i]) IN
            \A k \in Keys :
                LiveWith(db, t, k) =
                    IF k \in DOMAIN entries THEN {entries[k]} ELSE {}

(* What is in the file describes what is in memory, object by object, and  *)
(* no page belongs to two objects, however statements are used, careful or *)
(* not, as long as none asks for a page while the count has wrapped.       *)
PagesConsistent == TypeOK /\ MetaPagesMatch /\ PagesNotShared
=============================================================================
