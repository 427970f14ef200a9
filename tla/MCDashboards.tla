----------------------------- MODULE MCDashboards -----------------------------
(***************************************************************************)
(* One site with two drives of one item and one permission each, so that a *)
(* sum over drives differs from a drive and a cache library can hide one.  *)
(***************************************************************************)
EXTENDS Dashboards

\* The types and addresses that the pages' agreement is about: "cachelibrary" is
\* in the address of the cache libraries and in no other.
ASSUME AddressAssumption ==
    /\ \A row \in SiteRows : ~row.cache
    /\ \A row \in DriveRows : row.cache = (row.type = "cacheLibrary")

MCDriveOf == [i \in Items |-> IF i = "i1" THEN "d1" ELSE "d2"]
MCItemOf == [p \in Permissions |-> IF p = "p1" THEN "i1" ELSE "i2"]
MCDriveOrder == <<"d1", "d2">>
MCSiteRows == {[personal |-> b, cache |-> FALSE] : b \in BOOLEAN}
MCDriveRows ==
    {[site |-> s, cache |-> c, type |-> IF c THEN "cacheLibrary" ELSE "documentLibrary", up |-> TRUE] :
        s \in {"s1", NoSite}, c \in BOOLEAN}
MCPermissionRows == {[scope |-> "anonymous", who |-> "external"], [scope |-> NoScope, who |-> "guest"]}

\* Whatever was written, deleted, and refreshed in whatever order, once the queue
\* is drained the pages that count the same rows say the same: the overview and
\* the lists, the sharing table and the drives' pages, the risk page and what is
\* exposed (web/app/dashboard, 003_materialized_views.sql).
PagesAgree == OverviewMatchesPages /\ SitesAddUp /\ RisksAreFlagged
=============================================================================
