----------------------------- MODULE QueryCache -----------------------------
(***************************************************************************)
(* One cached query of the browser tab: the user walks through the pages   *)
(* of PageQueries and saves, while requests are on their way.  The cache   *)
(* is React Query's (version 5), modelled from how the pages use it with   *)
(* the defaults of main.jsx:                                               *)
(*  - a mounting page fetches when there is no data, or stale data;        *)
(*  - a fetch under way is shared, and goes on when its page is left;      *)
(*  - an invalidation marks the data; if a mounted page reads them it      *)
(*    fetches again, cancelling a fetch under way unless it is the first;  *)
(*  - the end of any fetch clears the mark.                                *)
(* A mutation outlives its page and so does its onSuccess, as far as the   *)
(* cache is concerned.                                                     *)
(***************************************************************************)
EXTENDS PageQueries, Naturals, FiniteSets, SequencesExt

CONSTANTS
    Keys,        \* the keys looked at, a subset of AllKeys
    MaxWrites    \* bound on the number of mutations

AllReads == UNION {Screens[s].reads: s \in DOMAIN Screens}
AllKeys  == {r.key: r \in AllReads}

TableOf(k)     == (CHOOSE r \in AllReads: r.key = k).table
ReadsOf(s, k)  == {r \in Screens[s].reads: r.key = k}
WritesTo(s, t) == {w \in Screens[s].writes: w.table = t}

\* Who is concerned with a key: the screens that read it or write its table,
\* with whether the onSuccess of each write reaches it, and the pages these open
\* over.  The other screens all look alike to this key, and the portal stands
\* for them.
Elsewhere == "Portal"
UsersOf(k) ==
    LET table     == TableOf(k)
        Concerned == {s \in DOMAIN Screens: ReadsOf(s, k) # {} \/ WritesTo(s, table) # {}}
        Hosts     == {p \in Pages: p = Elsewhere \/ Opens(p) \cap Concerned # {}}
    IN  {[screen |-> s, over |-> {p \in Pages: s \in Opens(p)}, reads |-> ReadsOf(s, k),
          writes |-> {[how |-> w.how, reaches |-> \E m \in w.marks: IsPrefix(m, k)]:
                         w \in WritesTo(s, table)}]:
            s \in Concerned \cup Hosts}

\* Built key by key, so that TLC evaluates it once.
Users == FoldSet(LAMBDA k, table: table @@ (k :> UsersOf(k)), <<>>, AllKeys)

ASSUME CacheAssumption ==
    Keys \subseteq AllKeys /\ MaxWrites \in Nat

VARIABLES
    key,       \* the key of the query
    page,      \* the page under the user's eyes
    part,      \* the modal or tab open over it, or None
    data,      \* what the cache holds: the writes it shows, its shape, its marks
    fetch,     \* the fetch under way
    written,   \* number of own writes the server has applied to the table
    saves,     \* mutations under way
    holds,     \* the shape the query's queryFn gives when nobody reads it
    crossed,   \* writes whose invalidation met a fetch that had read before them
    unmarked   \* writes whose onSuccess does not reach the key, with their screen

vars == <<key, page, part, data, fetch, written, saves, holds, crossed, unmarked>>
history == <<crossed, unmarked>>

None    == "none"
NoData  == [has |-> FALSE, at |-> 0, shape |-> "none", marked |-> FALSE,
            stale |-> FALSE, failed |-> FALSE]
NoFetch == [on |-> FALSE, read |-> FALSE, at |-> 0, shape |-> "none"]

Versions == 0..MaxWrites
Shapes   == {"none", "bare", "wrapped", "page"}
Save     == [id: 1..MaxWrites, from: STRING, at: Versions,
             how: {"mark", "refetch"}, reaches: BOOLEAN]

\* The cached data and the fetch are well formed, whatever page filled them.
TypeOK ==
    /\ key \in DOMAIN Users
    /\ \E u \in Users[key]: u.screen = page /\ u.over = {}
    /\ part # None => \E u \in Users[key]: u.screen = part /\ page \in u.over
    /\ data \in [has: BOOLEAN, at: Versions, shape: Shapes, marked: BOOLEAN,
                 stale: BOOLEAN, failed: BOOLEAN]
    /\ fetch \in [on: BOOLEAN, read: BOOLEAN, at: Versions, shape: Shapes]
    /\ written \in Versions /\ holds \in Shapes
    /\ crossed \subseteq Versions /\ unmarked \subseteq Versions \X STRING
    /\ saves \subseteq Save

-----------------------------------------------------------------------------
(* Readers of the key.                                                     *)

Mounted  == {u \in Users[key]: u.screen \in {page, part}}
Readers  == UNION {u.reads: u \in Mounted}
Active  == Readers # {}

Start(r) == [on |-> TRUE, read |-> FALSE, at |-> 0, shape |-> r.fills]

\* Mutant of Wanted: an invalidation does not count.
WantedIfStale(r, enabling) == ~data.has \/ data.stale \/ r.mount = "always"

\* Mutant of Wanted: what was never loaded is left to somebody else.
WantedAgain(r, enabling) == data.has /\ (data.marked \/ data.stale \/ r.mount = "always")

\* When a reader appears: data of the first load always, stale or marked data
\* unless refetchOnMount is false, fresh data when staleTime is 0.
Wanted(r, enabling) ==
    \/ ~data.has
    \/ (data.marked \/ data.stale) /\ (r.mount # "never" \/ enabling)
    \/ r.mount = "always"

\* Readers rs appear; a fetch under way is joined.
Appear(rs, enabling) ==
    LET wanting == {r \in rs: Wanted(r, enabling)}
    IN  IF fetch.on \/ wanting = {} THEN UNCHANGED <<data, fetch>>
        ELSE /\ \E r \in wanting: fetch' = Start(r)
             /\ data' = [data EXCEPT !.failed = FALSE]

\* Of several readers the one rendered last leaves its queryFn behind.
Leave == IF Active THEN \E r \in Readers: holds' = r.fills ELSE UNCHANGED holds

Init ==
    /\ key \in Keys
    /\ page = Elsewhere /\ part = None
    /\ data = NoData /\ fetch = NoFetch
    /\ written = 0 /\ saves = {}
    /\ holds = "none" /\ crossed = {} /\ unmarked = {}

Visit(u) ==
    /\ u.over = {} /\ u.screen # page
    /\ page' = u.screen /\ part' = None
    /\ Appear(u.reads, FALSE) /\ Leave
    /\ UNCHANGED <<key, written, saves, history>>

Open(u) ==
    /\ part = None /\ page \in u.over
    /\ part' = u.screen
    /\ Appear(u.reads, TRUE)
    /\ UNCHANGED <<key, page, written, saves, holds, history>>

Close ==
    /\ part # None
    /\ part' = None
    /\ Leave
    /\ UNCHANGED <<key, page, data, fetch, written, saves, history>>

-----------------------------------------------------------------------------
(* The fetch.                                                              *)

ServerReads ==
    /\ fetch.on /\ ~fetch.read
    /\ fetch' = [fetch EXCEPT !.read = TRUE, !.at = written]
    /\ UNCHANGED <<key, page, part, data, written, saves, holds, history>>

FetchDone ==
    /\ fetch.on /\ fetch.read
    /\ data' = [has |-> TRUE, at |-> fetch.at, shape |-> fetch.shape,
                marked |-> FALSE, stale |-> FALSE, failed |-> FALSE]
    /\ fetch' = NoFetch
    /\ UNCHANGED <<key, page, part, written, saves, holds, history>>

\* After its retry; the data stay, with their mark, and recent versions of the
\* library set it.
FetchFails ==
    /\ fetch.on
    /\ \E mark \in {data.marked, data.has}:
        data' = [data EXCEPT !.failed = TRUE, !.marked = mark]
    /\ fetch' = NoFetch
    /\ UNCHANGED <<key, page, part, written, saves, holds, history>>

\* staleTime passes.
GrowStale ==
    /\ data.has /\ ~data.stale
    /\ data' = [data EXCEPT !.stale = TRUE]
    /\ UNCHANGED <<key, page, part, fetch, written, saves, holds, history>>

\* gcTime passes without a reader.
Collect ==
    /\ ~Active /\ ~fetch.on /\ data # NoData
    /\ data' = NoData
    /\ UNCHANGED <<key, page, part, fetch, written, saves, holds, history>>

-----------------------------------------------------------------------------
(* Mutations.                                                              *)

Submit(u, w) ==
    /\ written + Cardinality({x \in saves: x.at = 0}) < MaxWrites
    /\ LET free == CHOOSE id \in 1..MaxWrites: \A x \in saves: x.id # id
       IN  saves' = saves \cup {[id |-> free, from |-> u.screen, at |-> 0,
                                 how |-> w.how, reaches |-> w.reaches]}
    /\ UNCHANGED <<key, page, part, data, fetch, written, holds, history>>

ServerWrites(x) ==
    /\ x.at = 0
    /\ written' = written + 1
    /\ saves' = (saves \ {x}) \cup {[x EXCEPT !.at = written + 1]}
    /\ UNCHANGED <<key, page, part, data, fetch, holds, history>>

SaveFails(x) ==
    /\ x.at = 0
    /\ saves' = saves \ {x}
    /\ UNCHANGED <<key, page, part, data, fetch, written, holds, history>>

\* Whether the invalidation starts the fetch anew: refetchQueries fetches for
\* readers that are gone too; the first load is never cancelled.
Restarts(x) ==
    /\ Active \/ (x.how = "refetch" /\ data # NoData)
    /\ ~fetch.on \/ data.has

\* Mutant of Fillers: a query that nobody shows has lost its queryFn.
FillersOnScreen == IF Active THEN {r.fills: r \in Readers} ELSE {"none"}

\* A restarted fetch runs the queryFn of a reader on screen, the last rendered.
Fillers == IF Active THEN {r.fills: r \in Readers} ELSE {holds}

\* Mutant of Marks: data that nobody shows are forgotten.
MarksOnScreen(x) == x.how = "mark" /\ data.has /\ Active

\* Which data the invalidation marks.
Marks(x) == x.how = "mark" /\ data.has

Invalidate(x) ==
    /\ IF Restarts(x)
         THEN /\ \E shape \in Fillers:
                    fetch' = [on |-> TRUE, read |-> FALSE, at |-> 0, shape |-> shape]
              /\ data' = [data EXCEPT !.failed = FALSE, !.marked = @ \/ Marks(x)]
              /\ UNCHANGED crossed
         ELSE /\ data' = [data EXCEPT !.marked = @ \/ Marks(x)]
              /\ crossed' = IF fetch.on /\ fetch.read /\ fetch.at < x.at
                              THEN crossed \cup {x.at} ELSE crossed
              /\ UNCHANGED fetch
    /\ UNCHANGED unmarked

\* onSuccess.
SaveDone(x) ==
    /\ x.at # 0
    /\ saves' = saves \ {x}
    /\ IF x.reaches
         THEN Invalidate(x)
         ELSE /\ unmarked' = unmarked \cup {<<x.at, x.from>>}
              /\ UNCHANGED <<data, fetch, crossed>>
    /\ UNCHANGED <<key, page, part, written, holds>>

Next ==
    \/ \E u \in Users[key]: Visit(u) \/ Open(u)
    \/ Close
    \/ ServerReads \/ FetchDone \/ FetchFails \/ GrowStale \/ Collect
    \/ \E u \in Mounted: \E w \in u.writes: Submit(u, w)
    \/ \E x \in saves: ServerWrites(x) \/ SaveFails(x) \/ SaveDone(x)

(* Requests are answered; the user and the clock owe nothing.              *)
Spec == Init /\ [][Next]_vars /\ WF_vars(ServerReads \/ FetchDone)

-----------------------------------------------------------------------------
(* Properties.                                                             *)

\* Screens that do not find their data in what another one cached: they show an
\* empty list, or fail on it.
AssetViews == {"IndividualAsset", "EmployeeAssets", "WorkstationAssets"}
Unreadable ==
    (AssetViews \X {<<"vendors">>, <<"statuses">>, <<"equipment">>})
    \cup ({"AssetsPage"} \X {<<"vendors">>, <<"statuses">>, <<"equipment">>,
                             <<"employees">>, <<"workstations">>, <<"asset-categories">>})
    \cup ({"AssetCategoryPage", "SubcategoryPage", "SoftwareLicensePage",
           "ReplenishmentForm", "EquipmentPage"} \X {<<"asset-categories">>})
    \cup {<<"VendorsPage", <<"vendors">> >>, <<"StatusPage", <<"statuses">> >>,
          <<"ReportsPage", <<"statuses">> >>, <<"EquipmentPage", <<"equipment">> >>,
          <<"SoftwareLicensePage", <<"employees">> >>,
          <<"EmployeeTransitionsPage", <<"workstations">> >>,
          <<"OfficeToolsTab", <<"office-tools">> >>,
          <<"Home", <<"branch-statistics", "12">> >>}
    \cup ({"AssetComponentsPage", "IndividualAsset"} \X {<<"asset", "url">>})

(* A screen can show what the cache holds for its key, whichever screen    *)
(* filled it, the pairs of Unreadable excepted.                            *)
CachedDataShow ==
    \A u \in Mounted: \A r \in u.reads:
        data.has => data.shape \in r.shows \/ <<u.screen, key>> \in Unreadable

\* Write v is in the data or on its way into them, or leaves them marked: except
\* when its invalidation meets a fetch it does not restart (a first load, or one
\* whose page was left) that had read the table before.
Shown(v) ==
    \/ ~data.has \/ data.at >= v \/ data.marked \/ data.failed
    \/ \E x \in saves: x.at = v
    \/ fetch.on /\ (fetch.read => fetch.at >= v)
    \/ v \in crossed

\* The screen s, or the page it is open over, reads k.
HostReads(k, s) ==
    \E u \in Users[k]: /\ u.reads # {}
                       /\ u.screen = s \/ \E v \in Users[k]: v.screen = s /\ u.screen \in v.over

\* Screens whose writes do not reach a query of their own page: the modals name
\* the asset by its number where the page has the string of the URL, a change of
\* status leaves the history alone, and nothing but the addition of an asset
\* marks the assets of the workstation on screen.
Histories == {<<k, "url">>: k \in {"asset-movements", "asset-assignments", "asset-statistics"}}
Modals    == {"TransferAssetModal", "ReturnAssetModal", "StatusUpdateModal"}
Unreached ==
    (Modals \X (Histories \cup {<<"asset", "url">>, <<"employeeAssets", "row">>}))
    \cup ({"IndividualAsset"} \X Histories)
    \cup {<<"EmployeeAssets", <<"employee-asset-history", "url">> >>,
          <<"WorkstationAssets", <<"workstationAssets", "url">> >>}

(* Every page that reads what it writes shows its own writes: each is in   *)
(* the data or on its way there, the pairs of Unreached excepted.          *)
OwnWritesShow ==
    \A v \in 1..written:
        Shown(v) \/ \E x \in unmarked:
            x[1] = v /\ (HostReads(key, x[2]) => <<x[2], key>> \in Unreached)

(* Marked data on screen are being fetched again, unless a fetch failed;   *)
(* the list of replenishments, which a page visit never refetches, may     *)
(* stay marked.                                                            *)
MarkedAreFetched ==
    Active /\ data.marked => fetch.on \/ data.failed \/ \A r \in Readers: r.mount = "never"

(* A page that waits for its first data, or shows marked ones, does not    *)
(* wait for ever.                                                          *)
Waiting == Active /\ (~data.has \/ (data.marked /\ \E r \in Readers: r.mount # "never"))
WaitingEnds == Waiting ~> (~Waiting \/ data.failed)
=============================================================================
