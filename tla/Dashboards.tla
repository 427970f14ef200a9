----------------------------- MODULE Dashboards -----------------------------
(***************************************************************************)
(* The dashboards over the inventory (web/app/dashboard, web/app/sites):   *)
(* the tables that graph_ingest fills, the materialized views over them    *)
(* (db/init/003_materialized_views.sql), the order in which mv_refresh     *)
(* rebuilds those, and what each page reads from tables and views.         *)
(*                                                                         *)
(* Titles, dates, storage, search and time windows are left out; a row     *)
(* keeps what a WHERE, a JOIN or a rank asks of it.  A page is what it     *)
(* shows when it is loaded now: its queries see one state.  A write queues *)
(* the views of its tables when it commits, and a refresh takes one step:  *)
(* what happens in between is the subject of MvRefresh.  Here views also   *)
(* read views.                                                             *)
(***************************************************************************)
EXTENDS Naturals, Sequences, FiniteSets, SequencesExt, FiniteSetsExt

CONSTANTS
    Sites, Drives, Items, Permissions, Users, Groups,
    DriveOf,               \* the drive of an item
    ItemOf,                \* the item of a permission
    DriveOrder,            \* the drives by created_dt, id
    SiteRows, DriveRows, PermissionRows,
    NoSite,                \* site_id IS NULL
    NoScope,               \* link_scope IS NULL: not a link
    Gone,                  \* no row, or deleted_at set
    MaxChanges, MaxFaults  \* bound the exploration

VARIABLES
    db,       \* the tables
    views,    \* the contents of the materialized views
    queue,    \* mv_refresh_queue: the dirty_since of the views with a row
    run,      \* the views that the mv_refresh run has before it
    behind,   \* history: site_sharing_summary was last built from a copy of
              \* routable_site_drives that was in the queue
    changes, faults

dashVars == <<db, views, queue, run, behind, changes, faults>>

\* Rows hang on their drives and items; a drive without a site is its own key,
\* which no site has; Gone is no row.
ASSUME DashboardsAssumption ==
    /\ \A S \in {Sites, Drives, Items, Permissions, Users, Groups} : IsFiniteSet(S)
    /\ Sites \cap Drives = {} /\ NoSite \notin Sites
    /\ DriveOf \in [Items -> Drives] /\ ItemOf \in [Permissions -> Items]
    /\ DriveOrder \in Seq(Drives) /\ Drives \subseteq Range(DriveOrder)
    /\ SiteRows \subseteq [personal : BOOLEAN, cache : BOOLEAN]
    /\ DriveRows \subseteq [site : Sites \cup {NoSite}, cache : BOOLEAN, type : STRING, up : BOOLEAN]
    /\ PermissionRows \subseteq [scope : {"anonymous", "organization", "users", NoScope},
                                who : STRING]
    /\ NoScope \notin {"anonymous", "organization", "users"}
    /\ Gone \notin SiteRows \cup DriveRows \cup PermissionRows
    /\ Gone \notin [by : Users, recent : BOOLEAN]
    /\ Gone \notin {"enabled", "disabled", "live", "deleted"}
    /\ MaxChanges \in Nat /\ MaxFaults \in Nat

Tables == {"sites", "drives", "items", "permissions", "grants", "users", "groups", "memberships"}
Scopes == {"anonymous", "organization", "users"}

\* The sum of a function's values.
Total(f) == MapThenSumSet(LAMBDA x : f[x], DOMAIN f)

-----------------------------------------------------------------------------
(* The materialized views.                                                 *)

\* d.deleted_at IS NULL and a web_url without "cachelibrary".
Eligible(x, d) == x.drive[d] # Gone /\ ~x.drive[d].cache

\* Not personal, by its row.
IsSharePoint(x, s) == x.site[s] # Gone /\ ~x.site[s].personal

\* The type of the drive is not asked.
InventorySummaryBug(x) ==
    [sites   |-> Cardinality({s \in Sites : /\ IsSharePoint(x, s)
                                            /\ \E d \in Drives : /\ x.drive[d] # Gone
                                                                 /\ x.drive[d].site = s}),
     users   |-> Cardinality({u \in Users : x.user[u] = "enabled"}),
     groups  |-> Cardinality({g \in Groups : x.group[g] # Gone}),
     groupsDeleted |-> Cardinality({g \in Groups : x.group[g] = "deleted"})]

InventorySummary(x) ==
    [sites   |-> Cardinality({s \in Sites : /\ IsSharePoint(x, s)
                                            /\ \E d \in Drives : /\ x.drive[d] # Gone
                                                                 /\ x.drive[d].site = s
                                                                 /\ x.drive[d].type # "cacheLibrary"}),
     users   |-> Cardinality({u \in Users : x.user[u] = "enabled"}),
     groups  |-> Cardinality({g \in Groups : x.group[g] # Gone}),
     groupsDeleted |-> Cardinality({g \in Groups : x.group[g] = "deleted"})]

SiteKey(x, d) == IF x.drive[d].site = NoSite THEN d ELSE x.drive[d].site

DrivesOf(x, key) == {d \in Drives : Eligible(x, d) /\ SiteKey(x, d) = key}

\* Available ones first, then document libraries, then the oldest.
Rank(x, d) == (IF x.drive[d].up THEN 0 ELSE 2) + (IF x.drive[d].type = "documentLibrary" THEN 0 ELSE 1)
Age(d) == CHOOSE n \in 1..Len(DriveOrder) : DriveOrder[n] = d
RanksBefore(x, d, e) == Rank(x, d) < Rank(x, e) \/ (Rank(x, d) = Rank(x, e) /\ Age(d) < Age(e))

RouteDrive(x, key) ==
    CHOOSE d \in DrivesOf(x, key) : \A e \in DrivesOf(x, key) \ {d} : RanksBefore(x, d, e)

Active(x, key) == \E i \in Items : /\ x.item[i] # Gone /\ x.item[i].recent
                                   /\ DriveOf[i] \in DrivesOf(x, key)

\* The rows of sites are those of their drives: a site without a row has one.
RoutableSites(x) == {s \in Sites : DrivesOf(x, s) # {} /\ ~(x.site[s] # Gone /\ x.site[s].cache)}
PersonalDrives(x) == {d \in Drives : Eligible(x, d) /\ x.drive[d].site = NoSite}

SiteRow(x, s) == [key |-> s, drive |-> RouteDrive(x, s), personal |-> FALSE,
                  dashboard |-> IsSharePoint(x, s), active |-> Active(x, s)]
PersonalRow(x, d) == [key |-> d, drive |-> d, personal |-> TRUE,
                      dashboard |-> FALSE, active |-> Active(x, d)]

RoutableSiteDrives(x) ==
    {SiteRow(x, s) : s \in RoutableSites(x)} \cup {PersonalRow(x, d) : d \in PersonalDrives(x)}

\* The drives are joined without their filter.
SharedBug(x) == {p \in Permissions : x.permission[p] # Gone}

\* The permissions of the eligible drives, with those of them that are links.
Shared(x) == {p \in Permissions : x.permission[p] # Gone /\ Eligible(x, DriveOf[ItemOf[p]])}
Links(x, scopes) == {p \in Shared(x) : x.permission[p].scope \in scopes}

LinksAt(x, key, scopes) == {p \in Links(x, scopes) : SiteKey(x, DriveOf[ItemOf[p]]) = key}
SharingRow(x, key) ==
    [key |-> key, links |-> [S \in {Scopes, {"anonymous"}, {"organization"}} |->
                                Cardinality(LinksAt(x, key, S))]]

\* Over the rows that routable_site_drives has when it is built.
SiteSharingSummary(x, routable) == {SharingRow(x, r.key) : r \in routable}

\* A drive without a site is not its own.
SitePrincipalIdentitiesBug(x) ==
    {<<x.drive[DriveOf[ItemOf[p]]].site, x.permission[p].who>> : p \in Shared(x)}

\* A principal is known by its address; one address of a kind is enough here.
SitePrincipalIdentities(x) ==
    {<<SiteKey(x, DriveOf[ItemOf[p]]), x.permission[p].who>> : p \in Shared(x)}

LinkBreakdown(x) == [c \in Scopes |-> Cardinality(Links(x, {c}))]

ItemLinkDaily(x) == {<<ItemOf[p], x.permission[p].scope>> : p \in Links(x, Scopes)}

GroupMemberCounts(x) == [g \in Groups |-> Cardinality({m \in x.members : m[1] = g})]

\* mv_name, in its order.
ViewOrder == <<"group_member_counts", "inventory_summary", "item_link_daily", "link_breakdown",
               "routable_site_drives", "site_principal_identities", "site_sharing_summary">>
Views == Range(ViewOrder)

Content(v, x, vs) ==
    CASE v = "group_member_counts"       -> GroupMemberCounts(x)
      [] v = "inventory_summary"         -> InventorySummary(x)
      [] v = "item_link_daily"           -> ItemLinkDaily(x)
      [] v = "link_breakdown"            -> LinkBreakdown(x)
      [] v = "routable_site_drives"      -> RoutableSiteDrives(x)
      [] v = "site_principal_identities" -> SitePrincipalIdentities(x)
      [] v = "site_sharing_summary"      -> SiteSharingSummary(x, vs["routable_site_drives"])

\* mv_dependencies with one table missing.
DependsOnBug(v) ==
    CASE v = "group_member_counts"       -> {"memberships"}
      [] v = "inventory_summary"         -> {"users", "groups", "sites", "items"}
      [] v = "item_link_daily"           -> {"permissions", "drives"}
      [] v = "link_breakdown"            -> {"permissions", "drives"}
      [] v = "routable_site_drives"      -> {"sites", "drives", "items", "permissions", "users"}
      [] v = "site_principal_identities" -> {"sites", "drives", "permissions", "grants"}
      [] v = "site_sharing_summary"      -> {"sites", "drives", "permissions"}

\* mv_dependencies.
DependsOn(v) ==
    CASE v = "group_member_counts"       -> {"memberships"}
      [] v = "inventory_summary"         -> {"users", "groups", "sites", "drives", "items"}
      [] v = "item_link_daily"           -> {"permissions", "drives"}
      [] v = "link_breakdown"            -> {"permissions", "drives"}
      [] v = "routable_site_drives"      -> {"sites", "drives", "items", "permissions", "users"}
      [] v = "site_principal_identities" -> {"sites", "drives", "permissions", "grants"}
      [] v = "site_sharing_summary"      -> {"sites", "drives", "permissions"}

-----------------------------------------------------------------------------
(* The queue and mv_refresh.                                               *)

Impacted(ts) == {v \in Views : DependsOn(v) \cap ts # {}}

Queued == DOMAIN queue

\* A commit that wrote the tables ts: the views that are not queued yet get a
\* row, with one dirty_since.
Commit(ts, x) ==
    /\ changes < MaxChanges /\ changes' = changes + 1
    /\ x # db
    /\ db' = x
    /\ queue' = [v \in Queued \cup Impacted(ts) |-> IF v \in Queued THEN queue[v] ELSE changes']
    /\ UNCHANGED <<views, run, behind, faults>>

StartRefresh ==
    /\ run = {} /\ Queued # {}
    /\ run' = Queued
    /\ UNCHANGED <<db, views, queue, behind, changes, faults>>

\* ORDER BY q.dirty_since ASC, q.mv_name ASC; a row keeps both as long as it is there.
Position(v) == CHOOSE n \in 1..Len(ViewOrder) : ViewOrder[n] = v
ComesBefore(v, w) == queue[v] < queue[w] \/ (queue[v] = queue[w] /\ Position(v) < Position(w))
NextView == CHOOSE v \in run : \A w \in run \ {v} : ComesBefore(v, w)

\* The row stays in the run.
RefreshViewBug ==
    LET v == NextView
    IN  /\ run # {}
        /\ views' = [views EXCEPT ![v] = Content(v, db, views)]
        /\ queue' = [w \in Queued \ {v} |-> queue[w]]
        /\ UNCHANGED <<db, run, behind, changes, faults>>

RefreshView ==
    LET v == NextView
    IN  /\ run # {}
        /\ views' = [views EXCEPT ![v] = Content(v, db, views)]
        /\ queue' = [w \in Queued \ {v} |-> queue[w]]
        /\ run' = run \ {v}
        /\ behind' = IF v = "site_sharing_summary" THEN "routable_site_drives" \in Queued ELSE behind
        /\ UNCHANGED <<db, changes, faults>>

\* The row stays in the queue for the next run.
RefreshFails ==
    /\ run # {}
    /\ faults < MaxFaults /\ faults' = faults + 1
    /\ run' = run \ {NextView}
    /\ UNCHANGED <<db, views, queue, behind, changes>>

-----------------------------------------------------------------------------
(* graph_ingest, as the tables see it: a commit at a time.                 *)

SaveSite(s) ==
    \E row \in SiteRows \cup {Gone} : Commit({"sites"}, [db EXCEPT !.site[s] = row])

SaveDrive(d) ==
    \E row \in DriveRows : Commit({"drives"}, [db EXCEPT !.drive[d] = row])

\* prune: a drive goes with its items, their permissions and their grants.
PruneDrive(d) ==
    /\ db.drive[d] # Gone
    /\ Commit(Tables, [db EXCEPT !.drive[d] = Gone,
                                 !.item = [i \in Items |-> IF DriveOf[i] = d THEN Gone ELSE @[i]],
                                 !.permission = [p \in Permissions |->
                                                    IF DriveOf[ItemOf[p]] = d THEN Gone ELSE @[p]]])

SaveItem(i) ==
    /\ db.drive[DriveOf[i]] # Gone
    /\ \E u \in Users, recent \in BOOLEAN :
           Commit({"items"}, [db EXCEPT !.item[i] = [by |-> u, recent |-> recent]])

\* The permissions of a removed item stay.
RemoveItemBug(i) ==
    /\ db.item[i] # Gone
    /\ Commit({"items", "permissions", "grants"}, [db EXCEPT !.item[i] = Gone])

\* An item that Graph lists as removed, with its permissions and grants.
RemoveItem(i) ==
    /\ db.item[i] # Gone
    /\ Commit({"items", "permissions", "grants"},
              [db EXCEPT !.item[i] = Gone,
                         !.permission = [p \in Permissions |-> IF ItemOf[p] = i THEN Gone ELSE @[p]]])

\* The permissions of an item as the permissions stage read them.
SavePermissions(i) ==
    /\ db.item[i] # Gone
    /\ \E rows \in [{p \in Permissions : ItemOf[p] = i} -> PermissionRows \cup {Gone}] :
           Commit({"items", "permissions", "grants"},
                  [db EXCEPT !.permission = [p \in Permissions |-> IF ItemOf[p] = i THEN rows[p] ELSE @[p]]])

SaveUser(u) ==
    \E row \in {"enabled", "disabled", Gone} : Commit({"users"}, [db EXCEPT !.user[u] = row])

SaveGroup(g) ==
    \E row \in {"live", "deleted", Gone} : Commit({"groups"}, [db EXCEPT !.group[g] = row])

SaveMembers(g) ==
    /\ db.group[g] = "live"
    /\ \E us \in SUBSET Users :
           Commit({"memberships"}, [db EXCEPT !.members = {m \in @ : m[1] # g} \cup ({g} \X us)])

-----------------------------------------------------------------------------
(* The pages.  A count over rows is left as the set of the rows.           *)

Routable == views["routable_site_drives"]

Overview ==
    LET inventory == views["inventory_summary"]
    IN  [sites  |-> inventory.sites,
         users  |-> inventory.users,
         groups |-> Max({0, inventory.groups - inventory.groupsDeleted}),
         drives |-> Cardinality(Routable),
         links  |-> views["link_breakdown"]]

SitesPage == {r \in Routable : r.dashboard}

ActivityPage(siteType) ==
    {r \in Routable : CASE siteType = "personal"    -> r.personal
                        [] siteType = "nonPersonal" -> ~r.personal
                        [] OTHER                    -> TRUE}

\* buildSitePrincipalCountsCte over principals of the kind who.
PrincipalsOf(key, who) ==
    Cardinality({n \in views["site_principal_identities"] : n = <<key, who>>})

\* COALESCE(s.<links>, 0): a row that the summary does not have has none.
LinksOf(key, scopes) ==
    LET rows == {r \in views["site_sharing_summary"] : r.key = key}
    IN  IF rows = {} THEN 0 ELSE (CHOOSE r \in rows : TRUE).links[scopes]

SharingPage ==
    [totalLinks |-> Total(views["link_breakdown"]),
     sites |-> {[key |-> r.key, drive |-> r.drive, links |-> LinksOf(r.key, Scopes),
                 anonymous |-> LinksOf(r.key, {"anonymous"}),
                 guests |-> PrincipalsOf(r.key, "guest"),
                 externals |-> PrincipalsOf(r.key, "external")] : r \in Routable}]

\* /dashboard/sharing/links, of one drive or of all.
SharingLinksPage(drives, scope) ==
    {i \in Items : /\ db.item[i] # Gone /\ DriveOf[i] \in drives /\ Eligible(db, DriveOf[i])
                   /\ \E p \in Permissions : /\ ItemOf[p] = i /\ db.permission[p] # Gone
                                              /\ db.permission[p].scope = scope}

Signals(r) ==
    (IF r.active THEN {} ELSE {"dormant"})
    \cup (IF LinksOf(r.key, {"anonymous"}) > 0 THEN {"anonymousLinks"} ELSE {})
    \cup (IF LinksOf(r.key, {"organization"}) > 0 THEN {"orgLinks"} ELSE {})
    \cup (IF PrincipalsOf(r.key, "external") > 0 THEN {"externalUsers"} ELSE {})
    \cup (IF PrincipalsOf(r.key, "guest") > 0 THEN {"guestUsers"} ELSE {})

\* files[c]: items with a link of the scope c, by the view and the tables.
RiskPage ==
    LET Only(signals) == Cardinality({r \in Routable : /\ Cardinality(Signals(r)) = 1
                                                       /\ Signals(r) \subseteq signals})
    IN  [flagged   |-> {r \in Routable : Signals(r) # {}},
         breakdown |-> <<Only({"dormant"}), Only({"anonymousLinks"}), Only({"orgLinks"}),
                         Only({"externalUsers", "guestUsers"}),
                         Cardinality({r \in Routable : Cardinality(Signals(r)) > 1})>>,
         files     |-> [c \in {"anonymous", "organization"} |->
                           {i \in Items : /\ <<i, c>> \in views["item_link_daily"]
                                          /\ db.item[i] # Gone /\ Eligible(db, DriveOf[i])}]]

\* /sites/[driveId] and its files and sharing pages read the tables.
DriveFound(d) == Eligible(db, d)

PermissionsOn(d) == {p \in Permissions : db.permission[p] # Gone /\ DriveOf[ItemOf[p]] = d}

DriveDetailPage(d) ==
    [links |-> Cardinality({p \in PermissionsOn(d) : db.permission[p].scope \in Scopes}),
     anonymous |-> Cardinality({p \in PermissionsOn(d) : db.permission[p].scope = "anonymous"}),
     guests |-> Cardinality({"guest"} \cap {db.permission[p].who : p \in PermissionsOn(d)}),
     externals |-> Cardinality({"external"} \cap {db.permission[p].who : p \in PermissionsOn(d)})]

\* shared: the items with their links, the first of the list.
DriveFilesPage(d) ==
    [i \in {j \in Items : db.item[j] # Gone /\ DriveOf[j] = d} |->
        Cardinality({p \in PermissionsOn(d) : ItemOf[p] = i /\ db.permission[p].scope \in Scopes})]

DriveSharingPage(d) ==
    [breakdown  |-> [c \in Scopes \cup {NoScope} |->
                        Cardinality({p \in PermissionsOn(d) : db.permission[p].scope = c})],
     principals |-> {db.permission[p].who : p \in PermissionsOn(d)} \cap {"guest", "external"}]

UsersPage(status) ==
    {u \in Users : /\ db.user[u] # Gone
                   /\ CASE status = "active"   -> db.user[u] = "enabled"
                        [] status = "inactive" -> db.user[u] # "enabled"
                        [] status = "all"      -> TRUE}

ModifiedBy(u) == {i \in Items : /\ db.item[i] # Gone /\ Eligible(db, DriveOf[i])
                                /\ db.item[i].by = u}

\* The sites where the user was active that a row of the view opens.
UserDetailPage(u) ==
    [found |-> db.user[u] # Gone,
     modified |-> Cardinality(ModifiedBy(u)),
     topSites |-> {<<r.drive, Cardinality({i \in ModifiedBy(u) : SiteKey(db, DriveOf[i]) = r.key})>> :
                      r \in {q \in Routable : \E i \in ModifiedBy(u) : SiteKey(db, DriveOf[i]) = q.key}}]

GroupsPage ==
    {<<g, views["group_member_counts"][g]>> : g \in {h \in Groups : db.group[h] = "live"}}

GroupDetailPage(g) ==
    [found |-> db.group[g] = "live",
     members |-> views["group_member_counts"][g],
     listed |-> Cardinality({m \in db.members : m[1] = g})]

-----------------------------------------------------------------------------

\* Rows of items and permissions are there with what they hang on.
Consistent(x) ==
    /\ \A i \in Items : x.item[i] # Gone => x.drive[DriveOf[i]] # Gone
    /\ \A p \in Permissions : x.permission[p] # Gone => x.item[ItemOf[p]] # Gone

\* The first sync has filled the tables, and the views are those of an empty
\* database: db/init builds them.
Filled(x) ==
    /\ Consistent(x)
    /\ \A i \in Items : x.drive[DriveOf[i]] # Gone => x.item[i] # Gone

NoRows == [site |-> [s \in Sites |-> Gone], drive |-> [d \in Drives |-> Gone],
           item |-> [i \in Items |-> Gone], permission |-> [p \in Permissions |-> Gone],
           user |-> [u \in Users |-> Gone], group |-> [g \in Groups |-> Gone], members |-> {}]

EmptyViews == [v \in Views |-> Content(v, NoRows, [w \in Views |-> {}])]

Init ==
    /\ db \in {x \in [site : [Sites -> SiteRows \cup {Gone}], drive : [Drives -> DriveRows \cup {Gone}],
                      item : [Items -> [by : Users, recent : {FALSE}] \cup {Gone}],
                      permission : [Permissions -> PermissionRows \cup {Gone}],
                      user : [Users -> {"enabled"}], group : [Groups -> {"live"}], members : {{}}] : Filled(x)}
    /\ views = EmptyViews
    /\ queue = [v \in Views |-> 0]
    /\ run = {}
    /\ behind = FALSE
    /\ changes = 0 /\ faults = 0

Next ==
    \/ StartRefresh \/ RefreshView \/ RefreshFails
    \/ \E s \in Sites : SaveSite(s)
    \/ \E d \in Drives : SaveDrive(d) \/ PruneDrive(d)
    \/ \E i \in Items : SaveItem(i) \/ RemoveItem(i) \/ SavePermissions(i)
    \/ \E u \in Users : SaveUser(u)
    \/ \E g \in Groups : SaveGroup(g) \/ SaveMembers(g)

Spec == Init /\ [][Next]_dashVars

-----------------------------------------------------------------------------
(* Properties.                                                             *)

TypeOK ==
    /\ db \in [site : [Sites -> SiteRows \cup {Gone}], drive : [Drives -> DriveRows \cup {Gone}],
               item : [Items -> [by : Users, recent : BOOLEAN] \cup {Gone}],
               permission : [Permissions -> PermissionRows \cup {Gone}],
               user : [Users -> {"enabled", "disabled", Gone}],
               group : [Groups -> {"live", "deleted", Gone}], members : SUBSET (Groups \X Users)]
    /\ Consistent(db)
    /\ DOMAIN views = Views
    /\ \A r \in Routable : r.key \in Sites \cup Drives /\ r.drive \in Drives
    /\ queue \in [Queued -> 0..MaxChanges] /\ run \subseteq Queued /\ Queued \subseteq Views
    /\ behind \in BOOLEAN /\ changes \in 0..MaxChanges /\ faults \in 0..MaxFaults

Drained == Queued = {}

\* A view without a row in the queue shows the tables as they are, whatever
\* was written, pruned or failed to refresh in whatever order: mv_dependencies
\* names every table that its content depends on.  The one exception is
\* site_sharing_summary, which reads another view: it may have been built from
\* a copy of routable_site_drives that was itself waiting to be refreshed, and
\* nothing queues it again when that copy is.  If it was not, it is right even
\* while routable_site_drives waits for a refresh again.
ViewsFollowTables ==
    \A v \in Views \ Queued :
        \/ views[v] = Content(v, db, [views EXCEPT !["routable_site_drives"] = RoutableSiteDrives(db)])
        \/ v = "site_sharing_summary" /\ behind

\* The sites page is an "inventory for the same SharePoint site population
\* shown on the dashboard overview" (sites/page.tsx:138), the users page lists
\* "active users matching the overview dashboard metric" (status-filter.ts:44),
\* and so for the groups: three queries that select the rows each in their own
\* way agree, once the queue is drained and no address holds "cachelibrary".
OverviewMatchesPages ==
    Drained => /\ Overview.sites = Cardinality(SitesPage)
               /\ Overview.users = Cardinality(UsersPage("active"))
               /\ Overview.groups = Cardinality(GroupsPage)
               /\ \A g \in Groups : GroupDetailPage(g).listed = GroupDetailPage(g).members

\* What the sharing page says of a site is the sum of what the pages of its
\* drives say, over all sites it is the total above the table and the overview,
\* and the sites on a user's page account for all the items of that user.
SitesAddUp ==
    Drained /\ ~behind =>
        /\ \A r \in SharingPage.sites :
              LET ds == DrivesOf(db, r.key)
              IN  /\ r.links = Total([d \in ds |-> DriveDetailPage(d).links])
                  /\ r.anonymous = Total([d \in ds |-> DriveDetailPage(d).anonymous])
                  /\ r.guests > 0 <=> \E d \in ds : DriveDetailPage(d).guests > 0
        /\ SharingPage.totalLinks = Total([r \in SharingPage.sites |-> r.links])
        /\ \A u \in Users :
              UserDetailPage(u).modified = Total([s \in UserDetailPage(u).topSites |-> s[2]])

\* No exposure is missing from the risk page: whatever an eligible drive shares
\* by link or with an outsider raises its signal at its site, and the chart of
\* the signals counts each flagged site once.
RisksAreFlagged ==
    Drained /\ ~behind =>
        /\ \A d \in {e \in Drives : DriveFound(e)} :
              \E r \in Routable :
                 /\ r.key = SiteKey(db, d)
                 /\ DriveSharingPage(d).breakdown["anonymous"] > 0 => "anonymousLinks" \in Signals(r)
                 /\ DriveSharingPage(d).breakdown["organization"] > 0 => "orgLinks" \in Signals(r)
                 /\ "guest" \in DriveSharingPage(d).principals => "guestUsers" \in Signals(r)
                 /\ "external" \in DriveSharingPage(d).principals => "externalUsers" \in Signals(r)
        /\ Cardinality(RiskPage.flagged) = Total(RiskPage.breakdown)
        /\ \A c \in {"anonymous", "organization"} : RiskPage.files[c] = SharingLinksPage(Drives, c)

\* What a page links to is there: the drive that stands for a site has its
\* page, and a bucket of links with a count has the items that make it up.
LinksOpen ==
    Drained =>
        /\ \A r \in Routable : DriveFound(r.drive)
        /\ \A c \in Scopes : Overview.links[c] > 0 => SharingLinksPage(Drives, c) # {}
        /\ \A d \in {e \in Drives : DriveFound(e)}, c \in Scopes \cup {NoScope} :
              DriveSharingPage(d).breakdown[c] > 0 =>
                  /\ SharingLinksPage({d}, c) # {}
                  /\ SharingLinksPage({d}, c) \subseteq DOMAIN DriveFilesPage(d)

\* The columns of the sharing table count the "permission records on this route
\* drive where link_scope is present" (sharing-tables.tsx, the headers' labels),
\* and a row opens the sharing page of that drive.
\* Refuted: the README's divergences say how.
RowsCountTheirDrive ==
    Drained /\ ~behind =>
        \A r \in SharingPage.sites :
            r.links = DriveDetailPage(r.drive).links /\ r.anonymous = DriveDetailPage(r.drive).anonymous

=============================================================================
