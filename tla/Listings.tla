----------------------------- MODULE Listings -----------------------------
(***************************************************************************)
(* The lists that are read page by page: the entries of a collection, by   *)
(* the API and in the admin UI, and the audit log.  Each page is a request *)
(* of its own; between two of them an entry may be created and rows are    *)
(* logged.  A reader asks for pages until it is told there are no more.    *)
(*                                                                         *)
(* Abstractions.  Texts are numbers in their order; which documents        *)
(* contain the text searched for is a parameter (Search says it); a filter *)
(* is the set of values its text may stand for.                            *)
(***************************************************************************)
EXTENDS Integers, Documents, SequencesExt

CONSTANTS
  Library,     \* the entries there may be: records of an id and a document
  Log,         \* the rows of the audit log in the order of their ids
  Queries,     \* what a reader may ask for: records of a listing and options
  PageSize,    \* PAGE_SIZE of the admin UI
  AuditPage,   \* the rows of a page of the audit log
  DefaultLimit,\* the limit of the API for limit=0
  MaxApiLimit, \* MAX_API_LIMIT
  Mentions(_, _),\* matches_query: whether a document contains a text
  None,        \* no limit, no query, no filter, no app
  MaxGrowth    \* bound: entries created or rows logged while a reader reads

\* The values a list is sorted by are of one kind, or missing.  (Of mixed kinds
\* the comparison is no order, and the sort may do anything.)
OneKind(values) ==
  \E kind \in {v[1] : v \in values} \union {"null"} : \A v \in values \ {Null} :
    /\ v[1] = kind
    /\ kind \in {"text", "number"} => v[2] \in Int
    /\ kind = "bool" => v[2] \in BOOLEAN

Row == [id : Int, day : Nat, time : 0..9, action : STRING, actor : STRING,
        app : (STRING \ {"global"}) \union {None}]

\* Ids tell entries, and rows, apart.  The id of an app is a number, and not
\* the word for those of no app.  A day has ten times.
ASSUME ListingsAssumption ==
  /\ {PageSize, AuditPage, DefaultLimit, MaxApiLimit} \subseteq Nat \ {0}
  /\ MaxGrowth \in Nat /\ None \notin Nat
  /\ IsFiniteSet(Library)
  /\ \A e, f \in Library : e.id \in Int /\ (e.id = f.id => e = f)
  /\ \A e \in Library :
       LET s == Get(e.data, Field("_status")) IN s[1] = "text" => s = Text(s[2])
  /\ Log \in Seq(Row)
  /\ \A i, j \in DOMAIN Log : Log[i].id = Log[j].id => i = j
  /\ \A q \in Queries :
       /\ q.listing \in {"api", "ui", "audit"}
       /\ IF q.listing = "audit"
          THEN {q.from, q.to} \subseteq Nat \union {None}
          ELSE q.sort = Field("_id") \/ OneKind({Get(e.data, q.sort) : e \in Library})
       /\ q.listing = "api" => q.limit \in Nat \union {None}

VARIABLES
  entries, \* the entries of the collection
  rows,    \* the length of the audit log
  query,   \* what the reader asks for
  position,\* where the next page starts: an offset, or a number of pages
  more,    \* the reader was told there is more
  shown,   \* the ids on the pages, one after another
  \* History variables.
  before,  \* the ids to be listed when the reader began
  growth, wrong

listVars == <<entries, rows, query, position, more, shown, before, growth, wrong>>

----------------------------------------------------------------------------
(* content::query_entries and what it calls.                               *)

GetEntryStatus(d) ==
  LET s == Get(d, Field("_status")) IN IF s[1] = "text" THEN s[2] ELSE "published"

FilterByStatus(es, status) ==
  CASE status = "all" -> es
    [] status = "draft" -> {e \in es : GetEntryStatus(e.data) = "draft"}
    [] OTHER -> {e \in es : GetEntryStatus(e.data) = "published"}

FilterByFields(es, filters) ==
  {e \in es : \A f \in filters : Get(e.data, f.field) \in f.values}

FilterEntries(es, q) == {e \in es : Mentions(e.data, q)}

\* Negative if x comes first: a missing value comes last, before the order is
\* reversed for order=desc.
Compare(x, y) ==
  CASE x = Null /\ y # Null -> 1
    [] x # Null /\ y = Null -> -1
    [] x[1] = y[1] /\ x[1] \in {"text", "number"} -> x[2] - y[2]
    [] x[1] = y[1] /\ x[1] = "bool" /\ x[2] # y[2] -> IF y[2] THEN -1 ELSE 1
    [] OTHER -> 0

Directed(c, order) == IF order = "desc" THEN -c ELSE c

Precedes(a, b, field, order) ==
  IF field = Field("_id") THEN Directed(a.id - b.id, order) < 0
  ELSE LET c == Directed(Compare(Get(a.data, field), Get(b.data, field)), order)
       IN c < 0 \/ (c = 0 /\ a.id < b.id)

\* The elements of S in their order, a set of pairs: each comes after those
\* that precede it.
Sorted(S, order) ==
  [i \in 1..Cardinality(S) |->
     CHOOSE x \in S : Cardinality({y \in S : <<y, x>> \in order}) = i - 1]

SortEntries(es, field, order) ==
  Sorted(es, {p \in es \X es : Precedes(p[1], p[2], field, order)})

Matching(es, o) ==
  LET filtered == FilterByFields(FilterByStatus(es, o.status), o.filters)
  IN IF o.q = None THEN filtered ELSE FilterEntries(filtered, o.q)

\* skip(offset).take(limit)
Page(s, offset, limit) ==
  SubSeq(s, offset + 1, IF offset + limit < Len(s) THEN offset + limit ELSE Len(s))

\* Mutant: the page is cut before it is sorted and filtered by the query.
QueryCutFirst(es, o, offset, limit) ==
  LET cut == ToSet(Page(SortEntries(es, Field("_id"), "asc"), offset, limit))
  IN [entries |-> SortEntries(Matching(cut, o), o.sort, o.order),
      total |-> Cardinality(Matching(es, o))]

QueryEntries(es, o, offset, limit) ==
  LET found == Matching(es, o)
  IN [entries |-> Page(SortEntries(found, o.sort, o.order), offset, limit),
      total |-> Cardinality(found)]

Ids(s) == [i \in DOMAIN s |-> s[i].id]

----------------------------------------------------------------------------
(* The rows a page of the audit log is taken from.                         *)

\* Timestamps are texts: a date is a prefix, and less than any time of the
\* day; "to" is moved to the next day to include it.
AuditWhere(r, o) ==
  /\ o.action # None => r.action = o.action
  /\ o.actor # None => r.actor = o.actor
  /\ o.from # None => 10 * r.day + r.time >= 10 * o.from
  /\ o.to # None => 10 * r.day + r.time < 10 * (o.to + 1)
  /\ o.app # None => r.app = (IF o.app = "global" THEN None ELSE o.app)

\* ORDER BY timestamp DESC, id DESC
Newer(a, b) ==
  \/ 10 * a.day + a.time > 10 * b.day + b.time
  \/ (10 * a.day + a.time = 10 * b.day + b.time /\ a.id > b.id)

SortRows(found) == Sorted(found, {p \in found \X found : Newer(p[1], p[2])})

Selected(n, o) == {Log[i] : i \in {j \in 1..n : AuditWhere(Log[j], o)}}

ListAuditLog(n, o, page) ==
  LET fetched == Page(SortRows(Selected(n, o)), (page - 1) * AuditPage, AuditPage + 1)
  IN [entries |-> Page(fetched, 0, AuditPage), hasNext |-> Len(fetched) > AuditPage]

----------------------------------------------------------------------------
(* What a reader should see, said without pages or sorting.                *)

Live(e, status) ==
  \/ status = "all"
  \/ LET s == Get(e.data, Field("_status"))
     IN IF status = "draft" THEN s = Text("draft") ELSE s[1] = "text" => s = Text("published")

Asked(q) ==
  IF q.listing = "audit"
    THEN {r \in {Log[i] : i \in 1..rows} :
            /\ q.action \in {None, r.action} /\ q.actor \in {None, r.actor}
            /\ q.app \in {None, IF r.app = None THEN "global" ELSE r.app}
            /\ q.from = None \/ r.day >= q.from
            /\ q.to = None \/ r.day =< q.to}
    ELSE {e \in entries :
            /\ Live(e, q.status)
            /\ \A f \in q.filters : Get(e.data, f.field) \in f.values
            /\ q.q = None \/ Mentions(e.data, q.q)}

AskedIds == {x.id : x \in Asked(query)}

----------------------------------------------------------------------------
ListInit ==
  /\ entries \in SUBSET Library /\ rows \in 0..Len(Log)
  /\ query \in Queries
  /\ IF query.listing = "audit" THEN entries = {} ELSE rows = 0
  /\ position = 0 /\ more = TRUE /\ shown = <<>>
  /\ before = AskedIds
  /\ growth = 0 /\ wrong = FALSE

\* A page is received.
Receive(ids, isMore, next, told) ==
  /\ shown' = shown \o ids
  /\ more' = isMore /\ position' = next
  /\ wrong' = (wrong \/ ~told)
  /\ UNCHANGED <<entries, rows, query, before, growth>>

\* list_entries of the API: without a limit, the whole list.
ListApi ==
  LET limit == IF query.limit = 0 THEN DefaultLimit
               ELSE IF query.limit > MaxApiLimit THEN MaxApiLimit ELSE query.limit
      whole == query.limit = None
      result == QueryEntries(entries, query, position,
                             IF whole THEN Cardinality(entries) ELSE limit)
      next == position + Len(result.entries)
  IN /\ more /\ query.listing = "api"
     /\ Receive(Ids(result.entries), ~whole /\ next < result.total, next,
                result.total = Cardinality(Asked(query)))

\* list_entries of the admin UI.
ListUi ==
  LET page == position + 1
      result == QueryEntries(entries, query, (page - 1) * PageSize, PageSize)
      totalPages == (result.total + PageSize - 1) \div PageSize
  IN /\ more /\ query.listing = "ui"
     /\ Receive(Ids(result.entries), page < totalPages, page, TRUE)

\* audit_log_page.
AuditLogPage ==
  LET page == position + 1
      result == ListAuditLog(rows, query, page)
  IN /\ more /\ query.listing = "audit"
     /\ Receive(Ids(result.entries), result.hasNext, page, TRUE)

\* An entry is created, or a row logged, by another request.
Grow ==
  /\ more /\ growth < MaxGrowth /\ growth' = growth + 1
  /\ IF query.listing = "audit"
       THEN rows < Len(Log) /\ rows' = rows + 1 /\ UNCHANGED entries
       ELSE /\ \E e \in Library \ entries : entries' = entries \union {e}
            /\ UNCHANGED rows
  /\ UNCHANGED <<query, position, more, shown, before, wrong>>

ListNext == ListApi \/ ListUi \/ AuditLogPage \/ Grow

ListSpec == ListInit /\ [][ListNext]_listVars

\* A reader who follows the pages to the end has seen everything there was
\* when it began, whatever was added meanwhile; if nothing was, it has seen
\* each thing once, and the entries in the order asked for; and the total it
\* was told is that of what it asked for.
PagesComplete ==
  /\ ~wrong
  /\ ~more =>
       /\ before \subseteq ToSet(shown)
       /\ growth = 0 => Len(shown) = Cardinality(before)
       /\ growth = 0 /\ query.listing # "audit" =>
            \A i, j \in DOMAIN shown : i < j =>
              \E a, b \in entries : /\ a.id = shown[i] /\ b.id = shown[j]
                                    /\ ~Precedes(b, a, query.sort, query.order)
=============================================================================
