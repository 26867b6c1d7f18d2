---------------------------- MODULE Workstations ----------------------------
(***************************************************************************)
(* Who sits where: employees, workstations, the workstation's primary      *)
(* employee (workstations.employee_id) and the employee_workstation pivot. *)
(* Each action is one HTTP request or one console command, which runs in   *)
(* one database transaction; this module lets them run one after another   *)
(* (module SeatRequests interleaves their SQL statements).                 *)
(***************************************************************************)
EXTENDS WorkstationTables

VARIABLE db    \* the committed tables

-----------------------------------------------------------------------------
(* The tables as the migration of 2026-04-21 leaves them: it recreates the *)
(* pivot with one row for every workstation that has an employee.          *)

MirrorPivot(ws, occupant) ==
    {<<occupant[w], w>> : w \in {v \in ws : occupant[v] # NULL}}

Migrated(emps, posts, ws, spots, occupant) ==
    [employee     |-> emps,
     post         |-> [e \in Employees |-> IF e \in emps THEN posts[e] ELSE Nowhere],
     workstations |-> ws,
     spot         |-> [w \in WorkstationIds |-> IF w \in ws THEN spots[w] ELSE Nowhere],
     employee_id  |-> [w \in WorkstationIds |-> IF w \in ws THEN occupant[w] ELSE NULL],
     employee_workstation |-> MirrorPivot(ws, occupant)]

Init ==
    \E emps \in SUBSET Employees, ws \in SUBSET WorkstationIds :
    \E posts \in [emps -> Post], spots \in [ws -> Spot],
       occupant \in [ws -> emps \cup {NULL}] :
        db = Migrated(emps, posts, ws, spots, occupant)

-----------------------------------------------------------------------------
(* EmployeeController *)

StoreEmployee(e, b, p) ==
    /\ e \notin db.employee
    /\ db' = [db EXCEPT !.employee = @ \cup {e},
                        !.post[e]  = [branch_id |-> b, position_id |-> p]]

\* update() moves the employee to any post; workstations do not follow.
UpdateEmployee(e, b, p) ==
    /\ e \in db.employee
    /\ db' = [db EXCEPT !.post[e] = [branch_id |-> b, position_id |-> p]]

\* destroy() looks at directly assigned assets only (module AssetLedger), not
\* at workstations: the foreign keys null employee_id and cascade to the pivot.
DestroyEmployee(e) ==
    /\ e \in db.employee
    /\ db' = [db EXCEPT
                !.employee    = @ \ {e},
                !.post[e]     = Nowhere,
                !.employee_id = [w \in WorkstationIds |->
                                    IF db.employee_id[w] = e THEN NULL ELSE db.employee_id[w]],
                !.employee_workstation = @ \ ({e} \X WorkstationIds)]

-----------------------------------------------------------------------------
(* WorkstationController *)

\* employee_ids is a list: its first element becomes the primary employee.
StoreWorkstation(w, b, p, primary, members) ==
    /\ w \notin db.workstations
    /\ members \subseteq db.employee
    /\ IF members = {} THEN primary = NULL ELSE primary \in members
    /\ db' = CreateFromBranchPosition(db, w, b, p, primary, members)

UpdateWorkstation(w, b, p) ==
    /\ w \in db.workstations
    /\ db' = [db EXCEPT !.spot[w] = [branch_id |-> b, position_id |-> p]]

\* Mutant of Deleted: the pivot rows survive their workstation.
DeletedKeepingPivot(t, W) ==
    [t EXCEPT !.workstations = @ \ W,
              !.spot         = [w \in WorkstationIds |->
                                    IF w \in W THEN Nowhere ELSE t.spot[w]],
              !.employee_id  = [w \in WorkstationIds |->
                                    IF w \in W THEN NULL ELSE t.employee_id[w]]]

\* Workstation rows go, and by ON DELETE CASCADE the pivot rows with them.
Deleted(t, W) ==
    [t EXCEPT !.workstations = @ \ W,
              !.spot         = [w \in WorkstationIds |->
                                    IF w \in W THEN Nowhere ELSE t.spot[w]],
              !.employee_id  = [w \in WorkstationIds |->
                                    IF w \in W THEN NULL ELSE t.employee_id[w]],
              !.employee_workstation = @ \ (Employees \X W)]

\* 409 while the workstation has an employee (or assets: module AssetLedger).
DestroyWorkstation(w) ==
    /\ w \in db.workstations
    /\ db.employee_id[w] = NULL
    /\ db' = Deleted(db, {w})

AssignEmployeeRequest(w, e) ==
    /\ w \in db.workstations
    /\ e \in db.employee
    /\ ~AssignRefused(db, w, e, FALSE)
    /\ db' = AssignEmployee(db, w, e, FALSE)

UnassignEmployeeRequest(w, e) ==
    /\ w \in db.workstations
    /\ e \in db.employee
    /\ db.employee_id[w] = e
    /\ db' = UnassignEmployee(db, w, e)

-----------------------------------------------------------------------------
(* BranchController and PositionController: refused while an employee row   *)
(* refers to the record.  The foreign keys of workstations then delete the  *)
(* branch's workstations, and null the position.  The id then stands for    *)
(* the next branch or position that is created.                             *)

DestroyBranch(b) ==
    /\ \A e \in db.employee : db.post[e].branch_id # b
    /\ db' = Deleted(db, {w \in db.workstations : db.spot[w].branch_id = b})

DestroyPosition(p) ==
    /\ \A e \in db.employee : db.post[e].position_id # p
    /\ db' = [db EXCEPT !.spot = [w \in WorkstationIds |->
                IF w \in db.workstations /\ db.spot[w].position_id = p
                THEN [db.spot[w] EXCEPT !.position_id = NULL]
                ELSE db.spot[w]]]

-----------------------------------------------------------------------------
(* php artisan migrate:to-workstations: a workstation for every employee    *)
(* who has none.  It writes employee_id directly and no pivot row.  It does *)
(* nothing when no asset is directly assigned and workstations exist: the   *)
(* assets are not in these tables, so here it may run at any time.          *)

MigrateToWorkstations ==
    LET unseated == {e \in db.employee : HeldBy(db, e) = {}}
    IN  \E new \in [unseated -> WorkstationIds \ db.workstations] :
          LET created == {new[e] : e \in unseated}
              owner(w) == CHOOSE e \in unseated : new[e] = w
          IN /\ unseated # {}
             /\ \A e, f \in unseated : new[e] = new[f] => e = f
             /\ db' = [db EXCEPT
                  !.workstations = @ \cup created,
                  !.spot         = [w \in WorkstationIds |->
                      IF w \in created THEN db.post[owner(w)] ELSE db.spot[w]],
                  !.employee_id  = [w \in WorkstationIds |->
                      IF w \in created THEN owner(w) ELSE db.employee_id[w]]]

-----------------------------------------------------------------------------
EmployeeRequest ==
    \E e \in Employees :
       \/ \E b \in Branches, p \in Positions : StoreEmployee(e, b, p) \/ UpdateEmployee(e, b, p)
       \/ DestroyEmployee(e)

WorkstationRequest ==
    \E w \in WorkstationIds :
       \/ \E b \in Branches, p \in Positions \cup {NULL} :
             \/ \E members \in SUBSET Employees, primary \in Employees \cup {NULL} :
                   StoreWorkstation(w, b, p, primary, members)
             \/ UpdateWorkstation(w, b, p)
       \/ DestroyWorkstation(w)
       \/ \E e \in Employees : AssignEmployeeRequest(w, e) \/ UnassignEmployeeRequest(w, e)

CatalogRequest ==
    \/ \E b \in Branches : DestroyBranch(b)
    \/ \E p \in Positions : DestroyPosition(p)

Request == EmployeeRequest \/ WorkstationRequest \/ CatalogRequest \/ MigrateToWorkstations

Spec == Init /\ [][Request]_db

-----------------------------------------------------------------------------
(* Properties *)

\* Every reference of the tables resolves: the rows that exist are exactly the
\* ones that have a place, an occupant exists and so do both ends of a pivot row.
ReferencesResolve(t) ==
    /\ \A e \in Employees : e \in t.employee <=> t.post[e] # Nowhere
    /\ \A w \in WorkstationIds : w \in t.workstations <=> t.spot[w] # Nowhere
    /\ \A w \in WorkstationIds : t.employee_id[w] # NULL =>
            w \in t.workstations /\ t.employee_id[w] \in t.employee
    /\ t.employee_workstation \subseteq t.employee \X t.workstations

\* Type invariant, with the referential integrity the foreign keys of
\* workstations and employee_workstation are declared for.
TypeOK == db \in Tables /\ ReferencesResolve(db)

\* If e is the primary employee of w, the pivot lists e at w.
ListedAt(t, w, e) == t.employee_id[w] = e => <<e, w>> \in t.employee_workstation

\* The two ways the code records who sits at a workstation (employee() and
\* employees() of the model) drift apart only through the migration command:
\* no request seats someone without a pivot row, or drops the pivot row of
\* somebody who stays seated.
SeatsStayListed ==
    [][\/ MigrateToWorkstations
       \/ \A w \in WorkstationIds, e \in Employees :
             ListedAt(db, w, e) => ListedAt(db', w, e)]_db

\* A request outside the transition batches never puts one employee directly
\* in another's place ("Please unassign first"), and it takes a seat from an
\* employee who stays in the system only if that employee is unassigned or
\* the whole workstation goes.
NoDirectTakeover ==
    [][\A w \in db.workstations \cap db'.workstations :
          LET e == db.employee_id[w] IN
          (e # NULL /\ e \in db'.employee) =>
             \/ db'.employee_id[w] = e
             \/ db'.employee_id[w] = NULL /\ <<e, w>> \notin db'.employee_workstation]_db

=============================================================================
