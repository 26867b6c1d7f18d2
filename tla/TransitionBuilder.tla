-------------------------- MODULE TransitionBuilder --------------------------
(***************************************************************************)
(* The page on which a batch of moves is put together                      *)
(* (pages/inventory/EmployeeTransitionsPage), composed with the server     *)
(* that validates and executes it (module Transitions).  The page fetches  *)
(* employees and workstations, collects one modification for each employee *)
(* from its table, its grid, its exchange form and its chain builder, and  *)
(* sends them all with one button.                                         *)
(***************************************************************************)
EXTENDS Transitions, FiniteSets, Functions

\* A batch has one row for each of the employees it modifies.
ASSUME BatchesSuffice == IsFiniteSet(Employees) /\ Cardinality(Employees) <= MaxRows

VARIABLES
    mode,            \* transitionMode: "branch", "employee" or NULL
    employeesData,   \* the fetched employees, with what a row shows of each
    workstations,    \* the fetched workstations
    modifications,   \* the modification of each employee, NULL where there is none
    chainNodes,      \* the employees of the chain builder, in order
    sent             \* the batch under way and what the page promised, or NULL

data == <<employeesData, workstations>>
page == <<mode, data, modifications, chainNodes, sent>>

NaN == "NaN"    \* parseInt('')

ASSUME NaNIsNoId == NaN \notin WorkstationIds \cup {NULL}

Falsy == {NULL, NaN}

Modification == [to_branch_id: Branches, to_position_id: Positions,
                 to_workstation_id: WorkstationIds \cup Falsy]

\* NULL stands for no modification.
ASSUME NullIsNoModification == NULL \notin Modification

NoModifications == [e \in Employees |-> NULL]

Modified(mods) == {e \in Employees : mods[e] # NULL}

-----------------------------------------------------------------------------
(* The two queries, of ['employees', 'with-assets'] and ['workstations'].    *)

\* `seat` is workstations[0], and `place` what getWorkstation makes of the
\* assigned assets: the spot of the seat for those who have an asset there
\* (`equipped`), the post of the employee row for the others.
EmployeesAt(t, seat, equipped) ==
    [employee |-> t.employee,
     post     |-> t.post,
     seat     |-> seat,
     place    |-> [e \in Employees |->
                      IF e \in equipped THEN t.spot[seat[e]] ELSE t.post[e]]]

FirstSeats(t) ==
    {seat \in [Employees -> WorkstationIds \cup {NULL}] :
        \A e \in Employees : seat[e] \in AnyFirst(HeldBy(t, e))}

\* An asset only counts where it has both a branch and a position.
CanBeEquipped(t, seat) ==
    {e \in t.employee : seat[e] # NULL /\ t.spot[seat[e]] \in Post}

WorkstationsAt(t) ==
    [ids |-> t.workstations, spot |-> t.spot, employee_id |-> t.employee_id]

BuilderInit(equipped) ==
    /\ \E seat \in FirstSeats(db) :
          /\ equipped \in SUBSET CanBeEquipped(db, seat)
          /\ employeesData = EmployeesAt(db, seat, equipped)
    /\ workstations = WorkstationsAt(db)
    /\ mode = NULL /\ modifications = NoModifications
    /\ chainNodes = <<>> /\ sent = NULL

RefetchEmployees ==
    /\ \E seat \in FirstSeats(db) :
       \E equipped \in SUBSET CanBeEquipped(db, seat) :
          employeesData' = EmployeesAt(db, seat, equipped)
    /\ UNCHANGED <<mode, workstations, modifications, chainNodes, sent>>

RefetchWorkstations ==
    /\ workstations' = WorkstationsAt(db)
    /\ UNCHANGED <<mode, employeesData, modifications, chainNodes, sent>>

-----------------------------------------------------------------------------
(* useTransitionState *)

Original(e) ==
    [to_branch_id      |-> employeesData.place[e].branch_id,
     to_position_id    |-> employeesData.place[e].position_id,
     to_workstation_id |-> employeesData.seat[e]]

\* The employee is back where the page found them, or still without a seat.
NoChange(e, m) ==
    \/ employeesData.seat[e] # NULL /\ m = Original(e)
    \/ employeesData.seat[e] = NULL /\ m.to_workstation_id \in Falsy

\* Mutant of HandleModify: a modification stays when the employee is back.
HandleModifyKeeping(mods, e, field, value) ==
    LET current == IF mods[e] = NULL THEN Original(e) ELSE mods[e]
    IN  [mods EXCEPT ![e] = [current EXCEPT ![field] = value]]

HandleModify(mods, e, field, value) ==
    LET current == IF mods[e] = NULL THEN Original(e) ELSE mods[e]
        updated == [current EXCEPT ![field] = value]
    IN  [mods EXCEPT ![e] = IF NoChange(e, updated) THEN NULL ELSE updated]

\* Every view sets a place with three calls, the workstation first.
SetPlace(mods, e, w, b, p) ==
    LET seated == HandleModify(mods, e, "to_workstation_id", w)
        branched == HandleModify(seated, e, "to_branch_id", b)
    IN  HandleModify(branched, e, "to_position_id", p)

\* position_id || the fallback of the calling view
SendTo(mods, e, w, fallback) ==
    LET spot == workstations.spot[w]
    IN  SetPlace(mods, e, w, spot.branch_id,
                 IF spot.position_id = NULL THEN fallback ELSE spot.position_id)

Edit(mods) ==
    /\ mode # NULL
    /\ modifications' = mods
    /\ UNCHANGED <<mode, data, chainNodes, sent>>

SelectMode(m) ==
    /\ mode = NULL
    /\ mode' = m
    /\ UNCHANGED <<data, modifications, chainNodes, sent>>

\* The nodes of the chain builder stay.
ResetAll ==
    /\ mode # NULL
    /\ mode' = NULL /\ modifications' = NoModifications
    /\ UNCHANGED <<data, chainNodes, sent>>

ClearModification(e) ==
    modifications[e] # NULL /\ Edit([modifications EXCEPT ![e] = NULL])

ClearAll == modifications # NoModifications /\ Edit(NoModifications)

-----------------------------------------------------------------------------
(* The table, its cards and the flow's second step: one select per employee. *)

Selected(e) ==
    IF modifications[e] = NULL THEN employeesData.seat[e]
    ELSE modifications[e].to_workstation_id

\* Employee mode offers the workstations of the present branch only.
Offered(e) ==
    {w \in workstations.ids :
        /\ w = employeesData.seat[e] \/ workstations.employee_id[w] # e
        /\ mode = "employee" =>
              workstations.spot[w].branch_id = employeesData.place[e].branch_id}

HandleWorkstationChange(e, w) ==
    /\ e \in employeesData.employee
    /\ w \in Offered(e) \ {Selected(e)}
    /\ Edit(SendTo(modifications, e, w, employeesData.place[e].position_id))

\* The empty option.
HandleWorkstationClear(e) ==
    /\ e \in employeesData.employee /\ Selected(e) # NULL
    /\ Edit(SetPlace(modifications, e, NaN, employeesData.place[e].branch_id,
                                            employeesData.place[e].position_id))

\* OccupiedWorkstationExchange: below the row of e, who is to go where
\* `occupying` sits, any vacant workstation is offered to `occupying`.
HandleCreateExchange(e, occupying, w) ==
    /\ {e, occupying} \subseteq employeesData.employee /\ e # occupying
    /\ Selected(e) \in workstations.ids
    /\ workstations.employee_id[Selected(e)] = occupying
    /\ modifications[occupying] = NULL
    /\ w \in workstations.ids \ {Selected(e)} /\ workstations.employee_id[w] = NULL
    /\ Edit(SendTo(modifications, occupying, w, employeesData.place[occupying].position_id))

-----------------------------------------------------------------------------
(* useDragAndDrop, of the grid *)

DropOnWorkstation(e, w) ==
    /\ e \in employeesData.employee /\ w \in workstations.ids
    /\ Edit(SendTo(modifications, e, w, employeesData.post[e].position_id))

DropOnBranch(e, b) ==
    /\ e \in employeesData.employee
    /\ Edit(HandleModify(modifications, e, "to_branch_id", b))

-----------------------------------------------------------------------------
(* useChainBuilder *)

SetChain(nodes) ==
    /\ mode # NULL
    /\ chainNodes' = nodes
    /\ UNCHANGED <<mode, data, modifications, sent>>

AddToChain(e) ==
    e \in employeesData.employee \ Range(chainNodes) /\ SetChain(Append(chainNodes, e))

\* An employee is in the chain once, so filter() drops one node.
Without(i) ==
    [j \in 1..(Len(chainNodes) - 1) |-> chainNodes[IF j < i THEN j ELSE j + 1]]

RemoveFromChain(e) ==
    \E i \in DOMAIN chainNodes : chainNodes[i] = e /\ SetChain(Without(i))

ClearChain == chainNodes # <<>> /\ SetChain(<<>>)

\* Mutant of NextNode: the last employee of the chain has nowhere to go.
NextNodeNoWrap(i) == IF i = Len(chainNodes) THEN chainNodes[i] ELSE chainNodes[i + 1]

NextNode(i) == chainNodes[(i % Len(chainNodes)) + 1]

\* What applyChain calls for the employee e who takes the place of `next`.  A
\* seat that the other query does not list is passed over.
TakePlaceOf(mods, e, next) ==
    LET seat == employeesData.seat[next]
        own  == employeesData.place[e].position_id
    IN  CASE seat \in workstations.ids -> SendTo(mods, e, seat, own)
          [] seat = NULL -> SetPlace(mods, e, NaN, employeesData.place[next].branch_id,
                                                   employeesData.place[next].position_id)
          [] OTHER -> mods

ApplyChain ==
    /\ mode # NULL
    /\ Len(chainNodes) >= 2
    /\ Range(chainNodes) \subseteq employeesData.employee
    /\ modifications' = [e \in Employees |->
          IF e \notin Range(chainNodes) THEN modifications[e]
          ELSE LET i == CHOOSE j \in DOMAIN chainNodes : chainNodes[j] = e
               IN  TakePlaceOf(modifications, e, NextNode(i))[e]]
    /\ chainNodes' = <<>>
    /\ UNCHANGED <<mode, data, sent>>

-----------------------------------------------------------------------------
(* useExchangeDetection: what the page calls an exchange in branch mode.     *)

Goal(e) == [branch_id   |-> modifications[e].to_branch_id,
            position_id |-> modifications[e].to_position_id]

\* The employee who is to take the post of e.
Successor(e) ==
    LET takers == {f \in Modified(modifications) \ {e} : Goal(f) = employeesData.post[e]}
    IN  IF takers = {} THEN NULL ELSE CHOOSE f \in takers : TRUE

\* Mutant of ExchangeOf: only two-way swaps are recognised.
SwapOf(e) ==
    IF Successor(e) # NULL /\ Successor(Successor(e)) = e THEN {e, Successor(e)} ELSE {}

\* The employees met from e on, and NULL once there is none.
Walk(e) ==
    LET walk[n \in Nat] == IF n = 0 THEN e
                           ELSE IF walk[n - 1] = NULL THEN NULL ELSE Successor(walk[n - 1])
    IN  walk

\* Those met until the walk is back at e; none if it is not.
ExchangeOf(e) ==
    LET rounds == {n \in 1..Cardinality(Employees) : Walk(e)[n] = e}
    IN  IF rounds = {} THEN {}
        ELSE {Walk(e)[n] : n \in 0..(CHOOSE r \in rounds : \A s \in rounds : r <= s)}

Exchanges ==
    IF mode # "branch" THEN {}
    ELSE {ExchangeOf(e) : e \in Modified(modifications) \cap employeesData.employee} \ {{}}

-----------------------------------------------------------------------------
(* The "after" side of SplitPanelView, and the submission.                   *)

\* Those who will be at w after the changes; the panel shows the first of the
\* list.  Whoever has no workstation in their modification counts as staying.
Arriving(mods, w) == {e \in Modified(mods) : mods[e].to_workstation_id = w}

\* Mutant of Staying: whoever sits there now counts.
StayingAnyway(mods, w) == {e \in employeesData.employee : employeesData.seat[e] = w}

Staying(mods, w) ==
    {e \in employeesData.employee :
        /\ employeesData.seat[e] = w
        /\ mods[e] = NULL \/ mods[e].to_workstation_id \in Falsy}

\* to_workstation_id || undefined
RowOf(e) ==
    [employee_id       |-> e,
     to_branch_id      |-> modifications[e].to_branch_id,
     to_position_id    |-> modifications[e].to_position_id,
     to_workstation_id |-> IF modifications[e].to_workstation_id \in Falsy THEN NULL
                           ELSE modifications[e].to_workstation_id]

\* The rows in the order of the keys, which is left open.
Orders(S) == {order \in [1..Cardinality(S) -> S] : Range(order) = S}

\* The button is disabled while a batch is pending; nothing else is.
HandleSubmit ==
    /\ mode # NULL /\ sent = NULL
    /\ Modified(modifications) # {}
    /\ \E order \in Orders(Modified(modifications)) :
          sent' = [kind     |-> mode,
                   rows     |-> [i \in DOMAIN order |-> RowOf(order[i])],
                   arriving |-> [w \in WorkstationIds |-> Arriving(modifications, w)],
                   staying  |-> [w \in WorkstationIds |-> Staying(modifications, w)],
                   fetched  |-> data]
    /\ UNCHANGED <<mode, data, modifications, chainNodes>>

-----------------------------------------------------------------------------
(* The server's side of the call *)

ServerAccepts ==
    /\ sent # NULL
    /\ Accept(sent.kind, sent.rows)
    /\ UNCHANGED page

\* 422: the modifications stay on the page, the button comes back.
ServerRefuses ==
    /\ sent # NULL /\ stage = "idle"
    /\ ~Passes(db, sent.kind, sent.rows)
    /\ sent' = NULL
    /\ UNCHANGED <<vars, mode, data, modifications, chainNodes>>

ServerWorks == (Begin \/ SkipRow \/ MoveRow) /\ UNCHANGED page

\* The success dialog leads away from the page.
ServerSucceeds ==
    /\ Commit
    /\ sent' = NULL /\ mode' = NULL
    /\ modifications' = NoModifications /\ chainNodes' = <<>>
    /\ UNCHANGED data

ServerFails ==
    /\ Rollback
    /\ sent' = NULL
    /\ UNCHANGED <<mode, data, modifications, chainNodes>>

SomebodyElse == OtherRequest /\ UNCHANGED page

-----------------------------------------------------------------------------
EditModifications ==
    \/ \E e \in Employees : HandleWorkstationClear(e) \/ ClearModification(e)
    \/ \E e \in Employees, w \in WorkstationIds :
          HandleWorkstationChange(e, w) \/ DropOnWorkstation(e, w)
    \/ \E e, o \in Employees, w \in WorkstationIds : HandleCreateExchange(e, o, w)
    \/ \E e \in Employees, b \in Branches : DropOnBranch(e, b)
    \/ ApplyChain
    \/ ClearAll

EditChain == ClearChain \/ \E e \in Employees : AddToChain(e) \/ RemoveFromChain(e)

Fetch == RefetchEmployees \/ RefetchWorkstations

Server == ServerAccepts \/ ServerRefuses \/ ServerWorks \/ ServerSucceeds \/ ServerFails

\* What the user does, and what the queries bring.
PageStep ==
    \/ EditModifications
    \/ EditChain
    \/ \E m \in {"branch", "employee"} : SelectMode(m)
    \/ ResetAll
    \/ HandleSubmit
    \/ Fetch

BuilderNext == (PageStep /\ UNCHANGED vars) \/ Server \/ SomebodyElse

BuilderSpec ==
    /\ TInit
    /\ \E equipped \in SUBSET Employees : BuilderInit(equipped)
    /\ [][BuilderNext]_<<vars, page>>

-----------------------------------------------------------------------------
(* Properties *)

BuilderTypeOK ==
    /\ TransitionsTypeOK
    /\ mode \in {NULL, "branch", "employee"}
    /\ employeesData.employee \subseteq Employees
    /\ \A e \in employeesData.employee :
          /\ employeesData.post[e] \in Post /\ employeesData.place[e] \in Post
          /\ employeesData.seat[e] \in WorkstationIds \cup {NULL}
    /\ workstations.ids \subseteq WorkstationIds
    /\ \A w \in workstations.ids : workstations.spot[w] \in Spot
    /\ modifications \in [Employees -> Modification \cup {NULL}]
    /\ chainNodes \in Seq(Employees)
    /\ \A i, j \in DOMAIN chainNodes : chainNodes[i] = chainNodes[j] => i = j
    /\ sent # NULL => sent.rows \in Batches /\ sent.kind \in {"branch", "employee"}
    /\ sent = NULL => stage = "idle"

\* The page shows the tables as they are, and everyone holds one seat at most.
Current(seen) ==
    /\ seen[1].employee = db.employee /\ seen[1].post = db.post
    /\ seen[1].seat \in FirstSeats(db)
    /\ seen[2] = WorkstationsAt(db)
    /\ \A e \in Employees : \A v, w \in HeldBy(db, e) : v = w

\* The validator refuses a row that changes nothing, and a refused row takes
\* the whole batch with it.  A modification made on current data is a change
\* in the validator's eyes too, for employees whose assets stand where their
\* employee row says: the page measures from the one, the server from the other.
EditsAreChanges ==
    [][\A e \in Employees :
          (/\ modifications'[e] \notin {NULL, modifications[e]}
           /\ Current(data)
           /\ employeesData.place[e] = employeesData.post[e])
          => SomethingChanges(db, RowOf(e)')]_page

\* Everyone in the chain has a seat, and stands at its post, which is shared
\* with nobody else of the chain.
ChainIsSeated ==
    /\ PostsExclusive(Range(chainNodes), db.post)
    /\ \A e \in Range(chainNodes) :
          /\ employeesData.seat[e] # NULL
          /\ employeesData.place[e] = employeesData.post[e]
          /\ db.spot[employeesData.seat[e]] = db.post[e]

\* A chain of seated employees, applied to a page without other modifications,
\* is a rotation that the server accepts, in either mode and in any order of
\* its rows: each goes to the seat of the next, the last to that of the first.
ChainsAreRotations ==
    [][(/\ chainNodes # <<>> /\ chainNodes' = <<>> /\ modifications' # modifications
        /\ modifications = NoModifications
        /\ Current(data) /\ ChainIsSeated)
       => /\ Range(chainNodes) \subseteq Modified(modifications')
          /\ {modifications'[e].to_workstation_id : e \in Range(chainNodes)}
                = {employeesData.seat[e] : e \in Range(chainNodes)}
          /\ \A order \in Orders(Range(chainNodes)) :
                Passes(db, mode, [i \in DOMAIN order |-> RowOf(order[i])'])]_page

\* What the panel promised is what the batch did, if the page showed the tables
\* as the batch met them and every row named a workstation: a workstation
\* somebody was to arrive at has such an employee, any other whoever was to
\* stay.  Where the panel lists both it shows one of them, not always this one.
OutcomeIsPreview ==
    [][(/\ stage = "running" /\ db' = wc /\ stage' = "idle"
        /\ moved' = Range([i \in DOMAIN rows |-> rows[i].employee_id])
        /\ Current(sent.fetched)
        /\ \A i \in DOMAIN rows : rows[i].to_workstation_id # NULL)
       => \A w \in db.workstations :
             db'.employee_id[w] \in IF sent.arriving[w] # {} THEN sent.arriving[w]
                                    ELSE AnyFirst(sent.staying[w])]_vars

\* A closed round of posts: everyone takes the post of another of the group,
\* and no smaller group does.
Rotates(S) ==
    S # {} /\ {Goal(e) : e \in S} = {employeesData.post[e] : e \in S}

Rounds ==
    LET closed == {S \in SUBSET Modified(modifications) : Rotates(S)}
    IN  {S \in closed : Cardinality(S) >= 2 /\ \A T \in closed : T \subseteq S => T = S}

\* The exchanges the page announces are the swaps and the longer rotations of
\* the batch, all of them and nothing else, where no two of its employees
\* have a post or a destination in common.
ExchangesAreRounds ==
    (/\ mode = "branch"
     /\ Modified(modifications) \subseteq employeesData.employee
     /\ \A e, f \in Modified(modifications) :
           (employeesData.post[e] = employeesData.post[f] \/ Goal(e) = Goal(f)) => e = f)
    => Exchanges = Rounds

=============================================================================
