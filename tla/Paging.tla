------------------------------- MODULE Paging -------------------------------
(***************************************************************************)
(* Lists of the admin API and the iterator of the DAO.  A client follows   *)
(* the links from page to page, the iterator fetches batch after batch,    *)
(* and the table may change between two of their queries: a walk is given  *)
(* the table that each of its queries finds.                               *)
(*                                                                         *)
(* A row is [id, ws, col], col a function from its other columns to their  *)
(* values.  Ids are KSUIDs, ordered as the numbers that stand for them.    *)
(***************************************************************************)
EXTENDS Integers, Sequences, FiniteSets, SequencesExt, FiniteSetsExt, Sorting

CONSTANTS DefaultPageSize

\* A parameter, a cursor or a link that is absent; also the NULL of the database.
Null == 0

-----------------------------------------------------------------------------
(* Query *)

Condition(column, op, value) == [column |-> column, op |-> op, value |-> value]

\* A column that the table does not have is no condition, and NULL meets none.
Holds(c, row) ==
    LET v == IF c.column = "id" THEN row.id ELSE row.col[c.column]
    IN  c.column \in {"id"} \cup DOMAIN row.col =>
            /\ c.op # "contains" => v # Null
            /\ CASE c.op = "eq"  -> v = c.value
                 [] c.op = "gt"  -> v > c.value
                 [] c.op = "gte" -> v >= c.value
                 [] c.op = "lt"  -> v < c.value
                 [] c.op = "lte" -> v <= c.value
                 [] c.op = "contains" -> c.value \subseteq v

\* Rows of a table that a query is about; a DAO without a workspace sees all.
AppendWhere(table, ws, wheres) ==
    {r \in table : (ws # Null => r.ws = ws) /\ \A c \in wheres : Holds(c, r)}

AppendOrder(rows, order) ==
    Sorted(rows, [r \in rows |-> IF order = "asc" THEN r.id ELSE -r.id])

Count(table, ws, q) == Cardinality(AppendWhere(table, ws, q.wheres))

\* DAO.List: limit and offset apply when they are not 0.
List(table, ws, q) ==
    LET slice(rows) ==
            SubSeq(rows, q.offset + 1,
                   IF q.limit = 0 THEN Len(rows) ELSE Min({q.offset + q.limit, Len(rows)}))
    IN  slice(AppendOrder(AppendWhere(table, ws, q.wheres), q.order))

\* DAO.Cursor asks for a row more than the limit, to know whether there are more.
Cursor(table, ws, q) ==
    LET trim(found) == IF Len(found) > q.limit THEN SubSeq(found, 1, q.limit) ELSE found
        turn(page) == IF q.reverse THEN Reverse(page) ELSE page
        result(data, hasMore) ==
            [data |-> data, hasMore |-> hasMore, reversed |-> q.reverse, cursor |-> q.cursorModel,
             total |-> IF q.cursorModel THEN 0 ELSE Count(table, ws, q),
             firstId |-> IF data = <<>> THEN Null ELSE Head(data).id,
             lastId |-> IF data = <<>> THEN Null ELSE Last(data).id]
        cursor(found) == result(turn(trim(found)), Len(found) > q.limit)
    IN  cursor(List(table, ws, [q EXCEPT !.limit = @ + 1]))

-----------------------------------------------------------------------------
(* Parameters of the lists *)

\* Columns that a list may be filtered by: equal, by time, or containing metadata.
EndpointFilters == [eq |-> {"name", "enabled"}, time |-> {"created_at"}, contains |-> {"metadata"}]

SourceFilters == [eq |-> {"name", "enabled"}, time |-> {"created_at"}, contains |-> {"metadata"}]

PluginFilters ==
    [eq |-> {"name", "enabled", "endpoint_id", "source_id"}, time |-> {"created_at"}, contains |-> {"metadata"}]

AttemptFilters ==
    [eq |-> {"event_id", "endpoint_id", "status"}, time |-> {"created_at", "attempted_at"}, contains |-> {}]

WorkspaceFilters == [eq |-> {"name"}, time |-> {"created_at"}, contains |-> {"metadata"}]

EventFilters ==
    [eq |-> {"event_type", "unique_id"}, time |-> {"created_at", "ingested_at"}, contains |-> {}]

\* The filters of a request that a list takes; others are not decoded.
Taken(filters, asked) ==
    {c \in asked : \/ c.op = "eq" /\ c.column \in filters.eq \cup filters.time
                   \/ c.op \in {"gt", "gte", "lt", "lte"} /\ c.column \in filters.time
                   \/ c.op = "contains" /\ c.column \in filters.contains}

\* Both cursors at once are refused.
ValidParams(p) == p.after = Null \/ p.before = Null

Flip(order) == IF order = "asc" THEN "desc" ELSE "asc"

\* Rows after (or before) a cursor in an order.
Beyond(order, id) == Condition("id", IF order = "asc" THEN "gt" ELSE "lt", id)

\* Mutant: rows before a cursor are taken from the start of the list.
ListQueryFromStart(p, wheres) ==
    LET size == IF p.pageSize <= 0 THEN DefaultPageSize ELSE p.pageSize
    IN  [offset |-> IF p.limit # Null THEN 0 ELSE (Max({p.pageNo, 1}) - 1) * size,
         limit |-> IF p.limit # Null THEN p.limit ELSE size,
         wheres |-> wheres
                    \cup (IF p.after # Null THEN {Beyond(p.sort, p.after)} ELSE {})
                    \cup (IF p.before # Null THEN {Beyond(Flip(p.sort), p.before)} ELSE {}),
         order |-> p.sort,
         reverse |-> FALSE,
         cursorModel |-> {p.limit, p.after, p.before} # {Null}]

\* ListParams.Query: a page before a cursor is read backwards from it.
ListQuery(p, wheres) ==
    LET size == IF p.pageSize <= 0 THEN DefaultPageSize ELSE p.pageSize
    IN  [offset |-> IF p.limit # Null THEN 0 ELSE (Max({p.pageNo, 1}) - 1) * size,
         limit |-> IF p.limit # Null THEN p.limit ELSE size,
         wheres |-> wheres
                    \cup (IF p.after # Null THEN {Beyond(p.sort, p.after)} ELSE {})
                    \cup (IF p.before # Null THEN {Beyond(Flip(p.sort), p.before)} ELSE {}),
         order |-> IF p.before # Null THEN Flip(p.sort) ELSE p.sort,
         reverse |-> p.before # Null,
         cursorModel |-> {p.limit, p.after, p.before} # {Null}]

\* BuildPaginationResponse: the parameters of the next and of the previous page.  A
\* numbered page has no links.
Links(cursor, p) ==
    LET hasNext == cursor.cursor /\ IF cursor.reversed THEN p.before # Null ELSE cursor.hasMore
        hasPrev == cursor.cursor /\ IF cursor.reversed THEN cursor.hasMore ELSE p.after # Null
    IN  [next |-> IF hasNext /\ cursor.lastId # Null
                  THEN <<[p EXCEPT !.before = Null, !.after = cursor.lastId]>> ELSE <<>>,
         prev |-> IF hasPrev /\ cursor.firstId # Null
                  THEN <<[p EXCEPT !.after = Null, !.before = cursor.firstId]>> ELSE <<>>]

\* A list of the admin API: the data, the total, and the links of its response.
Page(table, ws, p, wheres) ==
    LET response(cursor, links) ==
            [data |-> cursor.data, total |-> cursor.total, next |-> links.next, prev |-> links.prev]
        linked(cursor) == response(cursor, Links(cursor, p))
    IN  linked(Cursor(table, ws, ListQuery(p, wheres)))

-----------------------------------------------------------------------------
(* Walks *)

NoPage == [data |-> <<>>, total |-> 0, next |-> <<>>, prev |-> <<>>]

\* Pages that a client gets who follows the next links from p.
Walk(tables, ws, p, wheres) ==
    LET page[k \in 1 .. Len(tables)] ==
            IF k = 1 THEN Page(tables[1], ws, p, wheres)
            ELSE IF page[k - 1].next = <<>> THEN NoPage
            ELSE Page(tables[k], ws, page[k - 1].next[1], wheres)
    IN  [k \in 1 .. Len(tables) |-> page[k]]

\* The query of the next batch of an iterator, after the row it has given last.
NextBatch(q, id) == [q EXCEPT !.wheres = @ \cup {Condition("id", "lt", id)}]

\* DAO.Iterate: batches from the newest row on, until one says there are no more
\* or, at the query given by fails, there is an error.
Iterate(tables, ws, q, fails) ==
    LET first == [q EXCEPT !.offset = 0, !.reverse = FALSE, !.order = "desc", !.cursorModel = TRUE]
        batch[k \in 1 .. Len(tables)] ==
            IF k = fails THEN [data |-> <<>>, hasMore |-> FALSE]
            ELSE IF k = 1 THEN Cursor(tables[1], ws, first)
            ELSE IF ~batch[k - 1].hasMore THEN [data |-> <<>>, hasMore |-> FALSE]
            ELSE Cursor(tables[k], ws, NextBatch(first, Last(batch[k - 1].data).id))
    IN  [k \in 1 .. Len(tables) |-> batch[k]]

Visited(pages) == FlattenSeq([k \in DOMAIN pages |-> pages[k].data])

\* Rows that a walk must find: they match, and stay in the table all the time.
Lasting(tables, ws, wheres) ==
    AppendWhere({r \in tables[1] : \A k \in DOMAIN tables : r \in tables[k]}, ws, wheres)

-----------------------------------------------------------------------------
(* Properties of an input: filters, tables, ws, sort, limit, asked and fails *)

\* A table: an id is not Null, and no two rows have the same.
IsTable(rows) ==
    /\ IsFiniteSet(rows)
    /\ \A r \in rows : r.id \in Nat \ {Null}
    /\ \A r, s \in rows : r.id = s.id => r = s

\* Between two queries rows may come, go and change.
IsPaging(in) ==
    /\ Len(in.tables) \in Nat \ {0} /\ DOMAIN in.tables = 1 .. Len(in.tables)
    /\ \A k \in DOMAIN in.tables : IsTable(in.tables[k])
    /\ in.sort \in {"asc", "desc"} /\ in.limit \in Nat \ {0} /\ in.fails \in Nat

Ordered(rows, order) ==
    \A i, j \in DOMAIN rows : i < j => IF order = "asc" THEN rows[i].id < rows[j].id
                                                        ELSE rows[i].id > rows[j].id

FirstPage(in) ==
    [sort |-> in.sort, pageNo |-> 1, pageSize |-> Null, limit |-> in.limit, after |-> Null, before |-> Null]

\* Following the links visits rows in order, none twice, and all that match and
\* stay; while the table does not change, the link back leads to the page before.
LinksVisitOnce(in) ==
    LET wheres == Taken(in.filters, in.asked)
        exact(pages) ==
            /\ Ordered(Visited(pages), in.sort)
            /\ Last(pages).next = <<>> =>
                  Lasting(in.tables, in.ws, wheres) \subseteq ToSet(Visited(pages))
            /\ \A k \in 2 .. Len(pages) :
                  /\ pages[k].data # <<>> /\ in.tables[k] = in.tables[k - 1]
                  => /\ pages[k].prev # <<>>
                     /\ Page(in.tables[k], in.ws, pages[k].prev[1], wheres).data = pages[k - 1].data
    IN  exact(Walk(in.tables, in.ws, FirstPage(in), wheres))

\* So does the iterator, unless a query fails.
IteratorVisitsOnce(in) ==
    LET q == [offset |-> 0, limit |-> in.limit, wheres |-> in.asked, order |-> in.sort,
              reverse |-> FALSE, cursorModel |-> FALSE]
        exact(batches, rows) ==
            /\ Ordered(rows, "desc")
            /\ \A i \in DOMAIN rows : \A c \in in.asked : Holds(c, rows[i])
            /\ ~Last(batches).hasMore /\ in.fails = 0
               => Lasting(in.tables, in.ws, in.asked) \subseteq ToSet(rows)
        visits(batches) == exact(batches, Visited(batches))
    IN  visits(Iterate(in.tables, in.ws, q, in.fails))

\* Numbered pages of a table that does not change are its rows, each of them tells
\* how many there are, and none of them has a link.
NumbersCover(in) ==
    LET table == in.tables[1]
        wheres == Taken(in.filters, in.asked)
        page(n) == Page(table, in.ws, [FirstPage(in) EXCEPT !.pageNo = n, !.pageSize = in.limit, !.limit = Null], wheres)
        covered(all) ==
            /\ FlattenSeq([n \in 1 .. Len(all) |-> page(n).data]) = all
            /\ \A n \in 1 .. Len(all) + 1 :
                  page(n).total = Len(all) /\ page(n).next = <<>> /\ page(n).prev = <<>>
    IN  covered(AppendOrder(AppendWhere(table, in.ws, wheres), in.sort))

PagingIsExact(in) == LinksVisitOnce(in) /\ IteratorVisitsOnce(in) /\ NumbersCover(in)
=============================================================================
