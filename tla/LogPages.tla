-------------------------------- MODULE LogPages --------------------------------
(***************************************************************************)
(* The admin's listings: the agent quarantine, agent access and revoke     *)
(* logs, read page by page or exported as CSV, and the runs of a job type  *)
(* (web/app/admin, web/app/api/admin/*/export, web/lib/pagination.ts,      *)
(* web/components/pagination.tsx, web/app/lib/params.ts).                  *)
(*                                                                         *)
(* A page is two reads, the count and the rows at an offset, and rows are  *)
(* logged between them and between the pages.  A row is stamped when its   *)
(* statement begins and seen when it commits.  An export reads batch after *)
(* batch behind a cursor, which passes through a JavaScript Date: Postgres *)
(* stamps in microseconds (here two to the millisecond), a Date keeps the  *)
(* millisecond.                                                            *)
(*                                                                         *)
(* Abstracted: the columns of a row; the one log stands for each of the    *)
(* three, whose code is the same; hrefs, of which only the page matters;   *)
(* page numbers that are not whole.  An export and a reader share nothing  *)
(* but the log, so a behaviour has the one or the other (a bound).         *)
(***************************************************************************)
EXTENDS Integers, FiniteSets, Sequences, SequencesExt

CONSTANTS
    DefaultSize, SmallestSize, LargestSize, LastPage,   \* 50, 10, 200, 10000
    BatchSize,          \* EXPORT_BATCH_SIZE
    RawPages, RawSizes, \* what the query string may hold
    NotRead,
    MaxRows, MaxMicro, MaxVisits    \* bounds

VARIABLES
    micro,      \* the clock, in microseconds
    pending,    \* rows stamped and not yet committed
    log,        \* the rows committed
    file,       \* the export
    reader,     \* the admin's page
    visits      \* pages opened

logVars == <<micro, pending, log, file, reader, visits>>

Row == [id : 1..MaxRows, at : 0..MaxMicro]
Milli(t) == t \div 2

\* ORDER BY occurred_at DESC, id DESC
Newer(r, s) == r.at > s.at \/ (r.at = s.at /\ r.id > s.id)
Ordered(rows) ==
    CHOOSE s \in [1..Cardinality(rows) -> rows] : \A i, j \in DOMAIN s : i < j => Newer(s[i], s[j])

NoFile == [open |-> FALSE, done |-> FALSE, start |-> {}, rows |-> <<>>, ends |-> {}]
NoPage == [list |-> "log", page |-> 1, size |-> DefaultSize, total |-> NotRead,
           rows |-> NotRead, walk |-> FALSE, start |-> {}, seen |-> {}, late |-> 0]

Init ==
    /\ micro = 0
    /\ pending = {} /\ log = {}
    /\ file = NoFile
    /\ reader = NoPage
    /\ visits = 0

-----------------------------------------------------------------------------
(* The log *)

Tick ==
    /\ micro < MaxMicro
    /\ micro' = micro + 1
    /\ UNCHANGED <<pending, log, file, reader, visits>>

Stamp ==
    LET id == Cardinality(pending \cup log) + 1 IN
    /\ id <= MaxRows
    /\ pending' = pending \cup {[id |-> id, at |-> micro]}
    /\ UNCHANGED <<micro, log, file, reader, visits>>

Commit(r) ==
    /\ pending' = pending \ {r}
    /\ log' = log \cup {r}
    /\ reader' = IF reader.total # NotRead /\ reader.rows = NotRead
                 THEN [reader EXCEPT !.late = @ + 1] ELSE reader
    /\ UNCHANGED <<micro, file, visits>>

-----------------------------------------------------------------------------
(* Query string and pager *)

GetNumberParam(raw, fallback, low, high) ==
    Min({high, Max({low, IF raw \in Int THEN raw ELSE fallback})})

GetPagination(rawPage, rawSize) ==
    [page |-> GetNumberParam(rawPage, 1, 1, LastPage),
     size |-> GetNumberParam(rawSize, DefaultSize, SmallestSize, LargestSize)]

Clamp(page, pages) == Min({Max({page, 1}), pages})
TotalPages(items, size) == Max({(items + size - 1) \div size, 1})

\* The page numbers shown, and the gaps marked by an ellipsis.
CompactPages(page, pages) ==
    IF pages <= 5 THEN 1..pages ELSE Max({1, page - 1})..Min({pages, page + 1})

DesktopPages(page, pages) ==
    IF pages <= 7 THEN 1..pages
    ELSE ({1, pages} \cup (page - 2)..(page + 2)) \cap 1..pages

Gaps(shown) ==
    {g \in shown \X shown : g[2] - g[1] > 1 /\ ~\E p \in shown : g[1] < p /\ p < g[2]}

BuildPaginationModel(page, size, items) ==
    LET pages == TotalPages(items, size)
        here == Clamp(page, pages)
    IN  [pages |-> pages, here |-> here,
         hasPrev |-> here > 1, hasNext |-> here < pages,
         desktop |-> DesktopPages(here, pages), compact |-> CompactPages(here, pages),
         jump |-> IF pages > 5 THEN 1..pages ELSE {}]

\* What a click on the pager may lead to, on a wide or a narrow screen.
LinksBug(m, wide) ==
    (IF wide THEN m.desktop ELSE m.compact)
        \cup (IF m.hasPrev THEN {m.here - 1} ELSE {})
        \cup (IF m.hasNext THEN {m.here + 1} ELSE {})
Links(m, wide) ==
    (IF wide THEN m.desktop ELSE m.compact) \cup m.jump
        \cup (IF m.hasPrev THEN {m.here - 1} ELSE {})
        \cup (IF m.hasNext THEN {m.here + 1} ELSE {})

-----------------------------------------------------------------------------
(* A page *)

\* A visit by URL, also by the links of the pager other than Next.
OpenList(list, rawPage, rawSize) ==
    LET p == GetPagination(rawPage, rawSize) IN
    /\ visits < MaxVisits /\ file = NoFile
    /\ visits' = visits + 1
    /\ reader' = [NoPage EXCEPT !.list = list, !.page = p.page, !.size = p.size,
                                !.walk = (p.page = 1), !.start = log]
    /\ UNCHANGED <<micro, pending, log, file>>

ReadCount ==
    /\ visits > 0 /\ reader.total = NotRead
    /\ reader' = [reader EXCEPT !.total = Cardinality(log), !.late = 0]
    /\ UNCHANGED <<micro, pending, log, file, visits>>

\* The log pages clamp the page by the count, read before; the runs page reads
\* both at once and clamps nothing.
OffsetPageBug == IF reader.list = "log" THEN reader.page ELSE Max({1, reader.page - 1})
OffsetPage ==
    IF reader.list = "log"
    THEN Min({reader.page, TotalPages(reader.total, reader.size)})
    ELSE reader.page

ReadRows ==
    /\ visits > 0 /\ reader.rows = NotRead
    /\ reader.list = "log" => reader.total # NotRead
    /\ LET offset == (OffsetPage - 1) * reader.size
           rows == {Ordered(log)[i] :
                        i \in (offset + 1)..Min({offset + reader.size, Cardinality(log)})}
       IN  reader' = [reader EXCEPT !.rows = rows, !.seen = @ \cup rows]
    /\ UNCHANGED <<micro, pending, log, file, visits>>

Pager == BuildPaginationModel(
             IF reader.list = "log" THEN OffsetPage ELSE reader.page, reader.size, reader.total)

PageShown == visits > 0 /\ reader.total # NotRead /\ reader.rows # NotRead

FollowNext ==
    /\ PageShown /\ Pager.hasNext
    /\ visits < MaxVisits
    /\ visits' = visits + 1
    /\ reader' = [reader EXCEPT !.page = GetPagination(Pager.here + 1, reader.size).page,
                                !.total = NotRead, !.rows = NotRead]
    /\ UNCHANGED <<micro, pending, log, file>>

-----------------------------------------------------------------------------
(* An export *)

StartExport ==
    /\ file = NoFile /\ visits = 0
    /\ file' = [NoFile EXCEPT !.open = TRUE, !.start = log]
    /\ UNCHANGED <<micro, pending, log, reader, visits>>

\* WHERE (occurred_at, id) < cursor: the last row's time as the Date kept it.
BatchAfterBug ==
    LET rows == Ordered(log)
    IN  SubSeq(rows, Len(file.rows) + 1, Min({Len(file.rows) + BatchSize, Len(rows)}))
BatchAfter ==
    LET behind(r) ==
            \/ file.rows = <<>>
            \/ Newer([Last(file.rows) EXCEPT !.at = 2 * Milli(@)], r)
        rows == Ordered({r \in log : behind(r)})
    IN  SubSeq(rows, 1, Min({BatchSize, Len(rows)}))

NextBatch ==
    /\ file.open
    /\ file' = IF BatchAfter = <<>> THEN [file EXCEPT !.open = FALSE, !.done = TRUE]
               ELSE [file EXCEPT !.rows = @ \o BatchAfter, !.ends = @ \cup {Last(BatchAfter)}]
    /\ UNCHANGED <<micro, pending, log, reader, visits>>

\* A query raises and the download breaks off.
ExportFails ==
    /\ file.open
    /\ file' = [file EXCEPT !.open = FALSE]
    /\ UNCHANGED <<micro, pending, log, reader, visits>>

Next ==
    \/ Tick
    \/ Stamp
    \/ \E r \in pending : Commit(r)
    \/ \E list \in {"log", "runs"}, p \in RawPages, s \in RawSizes : OpenList(list, p, s)
    \/ ReadCount
    \/ ReadRows
    \/ FollowNext
    \/ StartExport
    \/ NextBatch
    \/ ExportFails

Spec == Init /\ [][Next]_logVars

-----------------------------------------------------------------------------
(* Properties *)

TypeOK ==
    /\ micro \in 0..MaxMicro /\ visits \in 0..MaxVisits
    /\ pending \subseteq Row /\ log \subseteq Row
    /\ file.start \subseteq Row /\ ToSet(file.rows) \subseteq Row /\ file.ends \subseteq Row
    /\ reader.page \in 1..LastPage /\ reader.size \in SmallestSize..LargestSize
    /\ reader.total \in 0..MaxRows \cup {NotRead}
    /\ reader.rows = NotRead \/ reader.rows \subseteq Row
    /\ reader.start \subseteq Row /\ reader.seen \subseteq Row

\* Whatever is logged while an export runs, its file holds each row once, the
\* newest first; and of the rows there were when it began, a completed file lacks
\* only rows of the very millisecond in which one of its batches ended.
ExportMissesOnlyTwins ==
    /\ \A i, j \in DOMAIN file.rows : i < j => Newer(file.rows[i], file.rows[j])
    /\ file.done =>
        \A r \in file.start \ ToSet(file.rows) :
            \E last \in file.ends : Milli(last.at) = Milli(r.at)

\* An admin who opens the first page of a list and follows Next to the end has
\* seen every row there was at the beginning, however many were logged meanwhile,
\* but for as many as were logged between the last page's count and its rows.
WalkMissesOnlyLateRows ==
    reader.walk /\ PageShown /\ ~Pager.hasNext =>
        Cardinality(reader.start \ reader.seen) <= reader.late

\* The page of a log the pager marks as current is the one whose rows are shown:
\* never an empty one as long as there is a row.
LogPagesAreNotEmpty ==
    reader.list = "log" /\ PageShown /\ reader.total > 0 => reader.rows # {}

\* For any number of rows, the pager shows a page or counts it in a gap, one and
\* not the other, and leads from every page to every other in one click.
PagerReachesEveryPage ==
    \A items \in 0..11, page \in 1..12, wide \in BOOLEAN :
        LET m == BuildPaginationModel(page, 1, items) IN
        /\ m.here \in m.desktop \cap m.compact
        /\ 1..m.pages = m.desktop \cup UNION {(g[1] + 1)..(g[2] - 1) : g \in Gaps(m.desktop)}
        /\ (1..m.pages) \ {m.here} \subseteq Links(m, wide)
        /\ Links(m, wide) \subseteq 1..m.pages

=============================================================================
