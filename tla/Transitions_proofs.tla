-------------------------- MODULE Transitions_proofs --------------------------
(***************************************************************************)
(* Theorems about the seats.  The single requests: the type invariant with *)
(* its referential integrity, and the two action properties MCWorkstations *)
(* checks.  The transition batches, of any length: the type invariant, the *)
(* loop invariant, that a batch worked through row by row implements       *)
(* SeatingPlan, that it keeps the pivot's list, and that a validated       *)
(* branch batch keeps posts exclusive.  The page that puts batches         *)
(* together, composed with the server: its type invariant, that it sends   *)
(* batches as Transitions describes them, and its four promises.  First    *)
(* what the writes of WorkstationService keep: tables of the declared      *)
(* shape whose references resolve stay so, which serves the requests and,  *)
(* row by row, the batches.                                                *)
(***************************************************************************)
EXTENDS TransitionBuilder, FiniteSetTheorems, TLAPS

\* Tables of the declared shape, all of whose references resolve.
Sound(t) == t \in Tables /\ ReferencesResolve(t)

-----------------------------------------------------------------------------
\* The place of an absent row is no place a row can have.
LEMMA NowhereIsNoPlace == Nowhere \notin Post /\ Nowhere \notin Spot
  BY NullIsNoId DEF Nowhere, Post, Spot

\* A workstation created with some of the existing employees keeps the tables
\* sound (createFromBranchPosition).
LEMMA CreateKeepsSound ==
  ASSUME NEW t, Sound(t),
         NEW w \in WorkstationIds \ t.workstations,
         NEW b \in Branches, NEW p \in Positions \cup {NULL},
         NEW primary \in t.employee \cup {NULL},
         NEW members \in SUBSET t.employee
  PROVE  Sound(CreateFromBranchPosition(t, w, b, p, primary, members))
<1> DEFINE u == CreateFromBranchPosition(t, w, b, p, primary, members)
           s == [branch_id |-> b, position_id |-> p]
<1>1. s \in Spot /\ s # Nowhere
  BY NowhereIsNoPlace DEF Spot
<1>2. t \in Tables
  BY DEF Sound
<1>3. /\ u.employee = t.employee
      /\ u.post = t.post
      /\ u.workstations = t.workstations \cup {w}
      /\ u.spot = [t.spot EXCEPT ![w] = s]
      /\ u.employee_id = [t.employee_id EXCEPT ![w] = primary]
      /\ u.employee_workstation = t.employee_workstation \cup (members \X {w})
  BY <1>2 DEF CreateFromBranchPosition, Tables
<1>4. u \in Tables
  BY <1>1, <1>2 DEF CreateFromBranchPosition, Tables
<1>5. ReferencesResolve(u)
  BY <1>1, <1>2, <1>3 DEF Sound, ReferencesResolve, Tables
<1> QED
  BY <1>4, <1>5 DEF Sound

\* Seating an existing employee at an existing workstation does.
LEMMA AssignKeepsSound ==
  ASSUME NEW t, Sound(t), NEW w \in t.workstations, NEW e \in t.employee, NEW force
  PROVE  Sound(AssignEmployee(t, w, e, force))
<1>1. t \in Tables /\ w \in WorkstationIds /\ e \in Employees
  BY DEF Sound, Tables
<1>2. Seat(t, w, e) \in Tables
  <2>1. t.employee_workstation \cup {<<e, w>>} \in SUBSET (Employees \X WorkstationIds)
    BY <1>1 DEF Tables
  <2>2. [t.employee_id EXCEPT ![w] = e] \in [WorkstationIds -> Employees \cup {NULL}]
    BY <1>1 DEF Tables
  <2> QED
    BY <1>1, <2>1, <2>2 DEF Seat, Tables
<1>3. ReferencesResolve(Seat(t, w, e))
  BY <1>1 DEF Seat, Tables, Sound, ReferencesResolve
<1> QED
  BY <1>2, <1>3 DEF AssignEmployee, Sound

\* Vacating a workstation does, and detaching its employee as well.
LEMMA VacateKeepsSound ==
  ASSUME NEW t, Sound(t), NEW w \in WorkstationIds, NEW e \in Employees
  PROVE  Sound(Vacate(t, w)) /\ Sound(UnassignEmployee(t, w, e))
<1>1. t \in Tables
  BY DEF Sound
<1>2. Vacate(t, w) \in Tables /\ UnassignEmployee(t, w, e) \in Tables
  BY <1>1 DEF Vacate, UnassignEmployee, Tables
<1>3. ReferencesResolve(Vacate(t, w)) /\ ReferencesResolve(UnassignEmployee(t, w, e))
  BY <1>1 DEF Vacate, UnassignEmployee, Tables, Sound, ReferencesResolve
<1> QED
  BY <1>2, <1>3 DEF Sound

\* Giving an existing employee another post does.
LEMMA PostKeepsSound ==
  ASSUME NEW t, Sound(t), NEW e \in t.employee, NEW post \in Post
  PROVE  Sound([t EXCEPT !.post[e] = post])
<1>1. t \in Tables /\ post # Nowhere
  BY NowhereIsNoPlace DEF Sound
<1>2. [t EXCEPT !.post[e] = post] \in Tables
  BY <1>1 DEF Tables
<1>3. ReferencesResolve([t EXCEPT !.post[e] = post])
  BY <1>1 DEF Tables, Sound, ReferencesResolve
<1> QED
  BY <1>2, <1>3 DEF Sound

\* What Deleted leaves of the seats, and of their list.
LEMMA DeletedSeats ==
  ASSUME NEW t \in Tables, NEW W
  PROVE  /\ \A w \in WorkstationIds :
               Deleted(t, W).employee_id[w] = IF w \in W THEN NULL ELSE t.employee_id[w]
         /\ Deleted(t, W).workstations = t.workstations \ W
         /\ Deleted(t, W).employee_workstation = t.employee_workstation \ (Employees \X W)
  BY DEF Deleted, Tables

\* So does deleting workstations together with what refers to them.
LEMMA DeletedKeepsSound ==
  ASSUME NEW t, Sound(t), NEW W \in SUBSET WorkstationIds
  PROVE  Sound(Deleted(t, W))
<1>1. t \in Tables
  BY DEF Sound
<1>2. Deleted(t, W) \in Tables
  BY <1>1 DEF Deleted, Tables
<1>3. ReferencesResolve(Deleted(t, W))
  BY <1>1 DEF Deleted, Tables, Sound, ReferencesResolve
<1> QED
  BY <1>2, <1>3 DEF Sound

\* getOrCreate returns an existing workstation of the tables it leaves, which
\* are sound, have the same employees and posts and differ, if at all, by one
\* new workstation without an employee.
LEMMA GetOrCreateKeepsSound ==
  ASSUME NEW t, Sound(t), NEW b \in Branches, NEW p \in Positions \cup {NULL},
         NEW goal \in GetOrCreate(t, b, p)
  PROVE  /\ Sound(goal[2])
         /\ goal[1] \in goal[2].workstations
         /\ goal[2].employee = t.employee
         /\ goal[2].post = t.post
         /\ goal[2].employee_id = t.employee_id
         /\ goal[2].employee_workstation = t.employee_workstation
<1> DEFINE matches == {w \in t.workstations : t.spot[w] = [branch_id |-> b, position_id |-> p]}
<1>1. CASE goal \in matches \X {t}
  BY <1>1
<1>2. CASE goal \in {<<w, CreateFromBranchPosition(t, w, b, p, NULL, {})>> :
                       w \in WorkstationIds \ t.workstations}
  <2>1. PICK w \in WorkstationIds \ t.workstations :
          goal = <<w, CreateFromBranchPosition(t, w, b, p, NULL, {})>>
    BY <1>2
  <2>2. Sound(goal[2])
    BY <2>1, CreateKeepsSound
  <2>3. t \in Tables /\ t.employee_id[w] = NULL
    BY DEF Sound, Tables, ReferencesResolve
  <2> QED
    BY <2>1, <2>2, <2>3 DEF CreateFromBranchPosition, Tables
<1> QED
  BY <1>1, <1>2 DEF GetOrCreate

-----------------------------------------------------------------------------
\* The tables the pivot migration leaves are sound.
LEMMA MigratedIsSound ==
  ASSUME NEW emps \in SUBSET Employees, NEW ws \in SUBSET WorkstationIds,
         NEW posts \in [emps -> Post], NEW spots \in [ws -> Spot],
         NEW occupant \in [ws -> emps \cup {NULL}]
  PROVE  Sound(Migrated(emps, posts, ws, spots, occupant))
<1> DEFINE t == Migrated(emps, posts, ws, spots, occupant)
<1>1. MirrorPivot(ws, occupant) \subseteq emps \X ws
  BY DEF MirrorPivot
<1>2. t \in Tables
  BY <1>1 DEF Migrated, Tables
<1>3. ReferencesResolve(t)
  BY <1>1, NowhereIsNoPlace, NullIsNoId DEF Migrated, ReferencesResolve
<1> QED
  BY <1>2, <1>3 DEF Sound

\* migrate:to-workstations: a new workstation for everyone without one, and
\* nobody's place is touched.
LEMMA MigrateToWorkstationsKeepsSound ==
  ASSUME Sound(db), MigrateToWorkstations
  PROVE  /\ Sound(db')
         /\ \A w \in db.workstations : db'.employee_id[w] = db.employee_id[w]
<1> DEFINE unseated == {e \in db.employee : HeldBy(db, e) = {}}
<1>1. PICK new \in [unseated -> WorkstationIds \ db.workstations] :
        LET created == {new[e] : e \in unseated}
            owner(w) == CHOOSE e \in unseated : new[e] = w
        IN /\ unseated # {}
           /\ \A e, f \in unseated : new[e] = new[f] => e = f
           /\ db' = [db EXCEPT
                !.workstations = @ \cup created,
                !.spot         = [w \in WorkstationIds |->
                    IF w \in created THEN db.post[owner(w)] ELSE db.spot[w]],
                !.employee_id  = [w \in WorkstationIds |->
                    IF w \in created THEN owner(w) ELSE db.employee_id[w]]]
  BY Zenon DEF MigrateToWorkstations
<1> DEFINE created == {new[e] : e \in unseated}
           owner(w) == CHOOSE e \in unseated : new[e] = w
<1>2. created \subseteq WorkstationIds /\ created \cap db.workstations = {}
  OBVIOUS
<1>3. \A w \in created : owner(w) \in unseated
  OBVIOUS
<1>4. \A e \in unseated : e \in Employees /\ db.post[e] \in Post /\ db.post[e] # Nowhere
  BY NowhereIsNoPlace DEF Sound, Tables, ReferencesResolve
<1>5. \A w \in created : db.post[owner(w)] \in Spot /\ db.post[owner(w)] # Nowhere
  BY <1>3, <1>4 DEF Post, Spot
<1>6. db \in Tables
  BY DEF Sound
<1> HIDE DEF created, owner, unseated
<1>7. /\ db'.employee = db.employee
      /\ db'.post = db.post
      /\ db'.workstations = db.workstations \cup created
      /\ db'.spot = [w \in WorkstationIds |->
                        IF w \in created THEN db.post[owner(w)] ELSE db.spot[w]]
      /\ db'.employee_id = [w \in WorkstationIds |->
                        IF w \in created THEN owner(w) ELSE db.employee_id[w]]
      /\ db'.employee_workstation = db.employee_workstation
  BY <1>1, <1>6 DEF Tables, created, owner, unseated
<1>8. \A w \in created : owner(w) \in db.employee
  BY <1>3 DEF unseated
<1>9. db' \in Tables
  <2>1. db'.spot \in [WorkstationIds -> Spot \cup {Nowhere}]
    BY <1>5, <1>6, <1>7 DEF Tables
  <2>2. db'.employee_id \in [WorkstationIds -> Employees \cup {NULL}]
    BY <1>6, <1>7, <1>8 DEF Tables
  <2>3. db' = [employee |-> db'.employee, post |-> db'.post,
               workstations |-> db'.workstations, spot |-> db'.spot,
               employee_id |-> db'.employee_id,
               employee_workstation |-> db'.employee_workstation]
    BY <1>1, <1>6 DEF Tables
  <2> QED
    BY <1>2, <1>6, <1>7, <2>1, <2>2, <2>3 DEF Tables
<1>10. ReferencesResolve(db')
  BY <1>2, <1>5, <1>6, <1>7, <1>8 DEF Sound, Tables, ReferencesResolve
<1>11. \A w \in db.workstations : db'.employee_id[w] = db.employee_id[w]
  BY <1>2, <1>6, <1>7 DEF Tables
<1> QED
  BY <1>9, <1>10, <1>11 DEF Sound

-----------------------------------------------------------------------------
\* Every request leaves sound tables sound.
LEMMA RequestKeepsSound ==
  ASSUME Sound(db), Request
  PROVE  Sound(db')
<1> db \in Tables
  BY DEF Sound
<1>1. ASSUME NEW e \in Employees, NEW b \in Branches, NEW p \in Positions,
             StoreEmployee(e, b, p)
      PROVE  Sound(db')
  <2> DEFINE post == [branch_id |-> b, position_id |-> p]
  <2>1. post \in Post /\ post # Nowhere
    BY NowhereIsNoPlace DEF Post
  <2>2. db' \in Tables
    BY <1>1, <2>1 DEF StoreEmployee, Tables
  <2>3. ReferencesResolve(db')
    BY <1>1, <2>1 DEF StoreEmployee, Tables, Sound, ReferencesResolve
  <2> QED
    BY <2>2, <2>3 DEF Sound
<1>2. ASSUME NEW e \in Employees, NEW b \in Branches, NEW p \in Positions,
             UpdateEmployee(e, b, p)
      PROVE  Sound(db')
  <2>1. [branch_id |-> b, position_id |-> p] \in Post
    BY DEF Post
  <2> QED
    BY <1>2, <2>1, PostKeepsSound DEF UpdateEmployee
<1>3. ASSUME NEW e \in Employees, DestroyEmployee(e)
      PROVE  Sound(db')
  <2>1. db' \in Tables
    BY <1>3 DEF DestroyEmployee, Tables
  <2>2. ReferencesResolve(db')
    BY <1>3 DEF DestroyEmployee, Tables, Sound, ReferencesResolve
  <2> QED
    BY <2>1, <2>2 DEF Sound
<1>4. ASSUME NEW w \in WorkstationIds, NEW b \in Branches, NEW p \in Positions \cup {NULL},
             NEW members \in SUBSET Employees, NEW primary \in Employees \cup {NULL},
             StoreWorkstation(w, b, p, primary, members)
      PROVE  Sound(db')
  BY <1>4, CreateKeepsSound DEF StoreWorkstation
<1>5. ASSUME NEW w \in WorkstationIds, NEW b \in Branches, NEW p \in Positions \cup {NULL},
             UpdateWorkstation(w, b, p)
      PROVE  Sound(db')
  <2> DEFINE spot == [branch_id |-> b, position_id |-> p]
  <2>1. spot \in Spot /\ spot # Nowhere
    BY NowhereIsNoPlace DEF Spot
  <2>2. db' \in Tables
    BY <1>5, <2>1 DEF UpdateWorkstation, Tables
  <2>3. ReferencesResolve(db')
    BY <1>5, <2>1 DEF UpdateWorkstation, Tables, Sound, ReferencesResolve
  <2> QED
    BY <2>2, <2>3 DEF Sound
<1>6. ASSUME NEW w \in WorkstationIds, DestroyWorkstation(w)
      PROVE  Sound(db')
  BY <1>6, DeletedKeepsSound DEF DestroyWorkstation
<1>7. ASSUME NEW w \in WorkstationIds, NEW e \in Employees, AssignEmployeeRequest(w, e)
      PROVE  Sound(db')
  BY <1>7, AssignKeepsSound DEF AssignEmployeeRequest
<1>8. ASSUME NEW w \in WorkstationIds, NEW e \in Employees, UnassignEmployeeRequest(w, e)
      PROVE  Sound(db')
  BY <1>8, VacateKeepsSound DEF UnassignEmployeeRequest
<1>9. ASSUME NEW b \in Branches, DestroyBranch(b)
      PROVE  Sound(db')
  <2>1. {w \in db.workstations : db.spot[w].branch_id = b} \in SUBSET WorkstationIds
    BY DEF Tables
  <2> QED
    BY <1>9, <2>1, DeletedKeepsSound DEF DestroyBranch
<1>10. ASSUME NEW p \in Positions, DestroyPosition(p)
       PROVE  Sound(db')
  <2> DEFINE spot == [w \in WorkstationIds |->
                         IF w \in db.workstations /\ db.spot[w].position_id = p
                         THEN [db.spot[w] EXCEPT !.position_id = NULL]
                         ELSE db.spot[w]]
  <2>1. \A w \in db.workstations : db.spot[w] \in Spot
    BY DEF Sound, Tables, ReferencesResolve
  <2>2. \A w \in db.workstations : [db.spot[w] EXCEPT !.position_id = NULL] \in Spot
    BY <2>1 DEF Spot
  <2>3. /\ spot \in [WorkstationIds -> Spot \cup {Nowhere}]
        /\ \A w \in WorkstationIds : spot[w] = Nowhere <=> db.spot[w] = Nowhere
    BY <2>1, <2>2, NowhereIsNoPlace DEF Sound, Tables, ReferencesResolve
  <2> HIDE DEF spot
  <2>4. db' = [db EXCEPT !.spot = spot]
    BY <1>10 DEF DestroyPosition, spot
  <2>5. db' \in Tables
    BY <2>3, <2>4 DEF Tables
  <2>6. ReferencesResolve(db')
    BY <2>3, <2>4 DEF Tables, Sound, ReferencesResolve
  <2> QED
    BY <2>5, <2>6 DEF Sound
<1>11. CASE MigrateToWorkstations
  BY <1>11, MigrateToWorkstationsKeepsSound
<1>12. CASE EmployeeRequest
  BY <1>1, <1>2, <1>3, <1>12 DEF EmployeeRequest
<1>13. CASE WorkstationRequest
  BY <1>4, <1>5, <1>6, <1>7, <1>8, <1>13 DEF WorkstationRequest
<1>14. CASE CatalogRequest
  BY <1>9, <1>10, <1>14 DEF CatalogRequest
<1> QED
  BY <1>11, <1>12, <1>13, <1>14 DEF Request

\* Whatever single requests run, in whatever order, every reference of the
\* tables resolves: no seat, pivot row or place names a row that is gone.
THEOREM TypeCorrect == Spec => []TypeOK
<1>1. Init => TypeOK
  BY MigratedIsSound DEF Init, Sound, TypeOK
<1>2. TypeOK /\ [Request]_db => TypeOK'
  <2>1. ASSUME TypeOK, Request PROVE TypeOK'
    BY <2>1, RequestKeepsSound DEF Sound, TypeOK
  <2>2. ASSUME TypeOK, UNCHANGED db PROVE TypeOK'
    BY <2>2 DEF TypeOK, ReferencesResolve
  <2> QED
    BY <2>1, <2>2
<1> QED
  BY <1>1, <1>2, PTL DEF Spec

-----------------------------------------------------------------------------
\* No request but the migration command seats an employee whom the pivot does
\* not list, or unlists one who stays.
LEMMA RequestKeepsListed ==
  ASSUME Sound(db), Request, ~MigrateToWorkstations,
         NEW w \in WorkstationIds, NEW e \in Employees, ListedAt(db, w, e)
  PROVE  ListedAt(db', w, e)
<1> DEFINE Claim == ListedAt(db', w, e)
<1> db \in Tables /\ ReferencesResolve(db)
  BY DEF Sound
<1>1. ASSUME NEW f \in Employees, NEW b \in Branches, NEW p \in Positions,
             StoreEmployee(f, b, p) \/ UpdateEmployee(f, b, p)
      PROVE  Claim
  BY <1>1 DEF StoreEmployee, UpdateEmployee, Tables, ReferencesResolve, ListedAt
<1>2. ASSUME NEW f \in Employees,
             DestroyEmployee(f)
      PROVE  Claim
  <2>1. /\ db'.employee_id[w] = IF db.employee_id[w] = f THEN NULL ELSE db.employee_id[w]
        /\ db'.employee_workstation = db.employee_workstation \ ({f} \X WorkstationIds)
    BY <1>2 DEF DestroyEmployee, Tables
  <2> QED
    BY <2>1, NullIsNoId DEF ListedAt
<1>3. ASSUME NEW v \in WorkstationIds, NEW b \in Branches, NEW p \in Positions \cup {NULL},
             NEW members \in SUBSET Employees, NEW primary \in Employees \cup {NULL},
             StoreWorkstation(v, b, p, primary, members)
      PROVE  Claim
  BY <1>3 DEF StoreWorkstation, CreateFromBranchPosition, Tables, ReferencesResolve, ListedAt
<1>4. ASSUME NEW v \in WorkstationIds, NEW b \in Branches, NEW p \in Positions \cup {NULL},
             UpdateWorkstation(v, b, p)
      PROVE  Claim
  BY <1>4 DEF UpdateWorkstation, Tables, ReferencesResolve, ListedAt
<1>5. ASSUME NEW v \in WorkstationIds,
             DestroyWorkstation(v)
      PROVE  Claim
  BY <1>5, DeletedSeats, NullIsNoId DEF DestroyWorkstation, ListedAt
<1>6. ASSUME NEW v \in WorkstationIds, NEW f \in Employees,
             AssignEmployeeRequest(v, f)
      PROVE  Claim
  BY <1>6 DEF AssignEmployeeRequest, AssignEmployee, AssignRefused, Seat, Tables, ReferencesResolve, ListedAt
<1>7. ASSUME NEW v \in WorkstationIds, NEW f \in Employees,
             UnassignEmployeeRequest(v, f)
      PROVE  Claim
  <2>1. /\ db'.employee_id = [db.employee_id EXCEPT ![v] = NULL]
        /\ db'.employee_workstation = db.employee_workstation \ {<<f, v>>}
    BY <1>7 DEF UnassignEmployeeRequest, UnassignEmployee, Vacate, Tables
  <2>2. CASE w = v
    BY <2>1, <2>2, NullIsNoId DEF Tables, ListedAt
  <2>3. CASE w # v
    BY <2>1, <2>3 DEF Tables, ListedAt
  <2> QED
    BY <2>2, <2>3
<1>8. ASSUME NEW b \in Branches,
             DestroyBranch(b)
      PROVE  Claim
  <2> DEFINE gone == {v \in db.workstations : db.spot[v].branch_id = b}
  <2>1. db' = Deleted(db, gone)
    BY <1>8 DEF DestroyBranch
  <2> QED
    BY <2>1, DeletedSeats, NullIsNoId DEF ListedAt
<1>9. ASSUME NEW p \in Positions,
             DestroyPosition(p)
      PROVE  Claim
  BY <1>9 DEF DestroyPosition, Tables, ReferencesResolve, ListedAt
<1>10. CASE EmployeeRequest
  BY <1>1, <1>2, <1>10 DEF EmployeeRequest
<1>11. CASE WorkstationRequest
  BY <1>3, <1>4, <1>5, <1>6, <1>7, <1>11 DEF WorkstationRequest
<1>12. CASE CatalogRequest
  BY <1>8, <1>9, <1>12 DEF CatalogRequest
<1> QED
  BY <1>10, <1>11, <1>12 DEF Request

\* The column and the pivot, the two records of who sits at a workstation,
\* part company in the migration command only.
THEOREM SeatsStayListedHolds == Spec => SeatsStayListed
<1>1. TypeOK /\ [Request]_db =>
        [\/ MigrateToWorkstations
         \/ \A w \in WorkstationIds, e \in Employees :
               ListedAt(db, w, e) => ListedAt(db', w, e)]_db
  BY RequestKeepsListed DEF TypeOK, Sound
<1> QED
  BY <1>1, TypeCorrect, PTL DEF Spec, SeatsStayListed

-----------------------------------------------------------------------------
\* What NoDirectTakeover asks of the step at workstation w.
SeatRespected(w) ==
    LET e == db.employee_id[w] IN
    (e # NULL /\ e \in db'.employee) =>
       \/ db'.employee_id[w] = e
       \/ db'.employee_id[w] = NULL /\ <<e, w>> \notin db'.employee_workstation

\* No request replaces the occupant of a workstation in one step.
LEMMA RequestRespectsSeats ==
  ASSUME Sound(db), Request, NEW w \in db.workstations \cap db'.workstations
  PROVE  SeatRespected(w)
<1> DEFINE Claim == SeatRespected(w)
<1> db \in Tables /\ ReferencesResolve(db) /\ w \in WorkstationIds
  BY DEF Sound, Tables
<1>1. ASSUME NEW f \in Employees, NEW b \in Branches, NEW p \in Positions,
             StoreEmployee(f, b, p) \/ UpdateEmployee(f, b, p)
      PROVE  Claim
  BY <1>1 DEF StoreEmployee, UpdateEmployee, Tables, ReferencesResolve, SeatRespected
<1>2. ASSUME NEW f \in Employees,
             DestroyEmployee(f)
      PROVE  Claim
  BY <1>2 DEF DestroyEmployee, Tables, ReferencesResolve, SeatRespected
<1>3. ASSUME NEW v \in WorkstationIds, NEW b \in Branches, NEW p \in Positions \cup {NULL},
             NEW members \in SUBSET Employees, NEW primary \in Employees \cup {NULL},
             StoreWorkstation(v, b, p, primary, members)
      PROVE  Claim
  BY <1>3 DEF StoreWorkstation, CreateFromBranchPosition, Tables, ReferencesResolve, SeatRespected
<1>4. ASSUME NEW v \in WorkstationIds, NEW b \in Branches, NEW p \in Positions \cup {NULL},
             UpdateWorkstation(v, b, p)
      PROVE  Claim
  BY <1>4 DEF UpdateWorkstation, Tables, ReferencesResolve, SeatRespected
<1>5. ASSUME NEW v \in WorkstationIds,
             DestroyWorkstation(v)
      PROVE  Claim
  BY <1>5, DeletedSeats DEF DestroyWorkstation, SeatRespected
<1>6. ASSUME NEW v \in WorkstationIds, NEW f \in Employees,
             AssignEmployeeRequest(v, f)
      PROVE  Claim
  BY <1>6 DEF AssignEmployeeRequest, AssignEmployee, AssignRefused, Seat, Tables, ReferencesResolve, SeatRespected
<1>7. ASSUME NEW v \in WorkstationIds, NEW f \in Employees,
             UnassignEmployeeRequest(v, f)
      PROVE  Claim
  BY <1>7 DEF UnassignEmployeeRequest, UnassignEmployee, Vacate, Tables, ReferencesResolve, SeatRespected
<1>8. ASSUME NEW b \in Branches,
             DestroyBranch(b)
      PROVE  Claim
  <2> DEFINE gone == {v \in db.workstations : db.spot[v].branch_id = b}
  <2>1. db' = Deleted(db, gone)
    BY <1>8 DEF DestroyBranch
  <2> QED
    BY <2>1, DeletedSeats DEF SeatRespected
<1>9. ASSUME NEW p \in Positions,
             DestroyPosition(p)
      PROVE  Claim
  BY <1>9 DEF DestroyPosition, Tables, ReferencesResolve, SeatRespected
<1>10. CASE MigrateToWorkstations
  BY <1>10, MigrateToWorkstationsKeepsSound DEF SeatRespected
<1>11. CASE EmployeeRequest
  BY <1>1, <1>2, <1>11 DEF EmployeeRequest
<1>12. CASE WorkstationRequest
  BY <1>3, <1>4, <1>5, <1>6, <1>7, <1>12 DEF WorkstationRequest
<1>13. CASE CatalogRequest
  BY <1>8, <1>9, <1>13 DEF CatalogRequest
<1> QED
  BY <1>10, <1>11, <1>12, <1>13 DEF Request

\* Single requests never seat one employee directly in another's place, and
\* take a seat from an employee who stays only together with the pivot row.
THEOREM NoDirectTakeoverHolds == Spec => NoDirectTakeover
<1>1. TypeOK /\ [Request]_db =>
        [\A w \in db.workstations \cap db'.workstations :
            LET e == db.employee_id[w] IN
            (e # NULL /\ e \in db'.employee) =>
               \/ db'.employee_id[w] = e
               \/ db'.employee_id[w] = NULL /\ <<e, w>> \notin db'.employee_workstation]_db
  BY RequestRespectsSeats DEF TypeOK, Sound, SeatRespected
<1> QED
  BY <1>1, TypeCorrect, PTL DEF Spec, NoDirectTakeover

-----------------------------------------------------------------------------
(* The transition batches.                                                 *)

USE NullIsNoId, MaxRowsPositive

\* A batch is a sequence of rows.
LEMMA RowsAreRows ==
  ASSUME NEW rs \in Batches \cup {<<>>}
  PROVE  rs \in Seq(Row) /\ Len(rs) \in Nat /\ DOMAIN rs = 1..Len(rs)
         /\ \A i \in DOMAIN rs : rs[i] \in Row
<1> DEFINE R == Row
<1> HIDE DEF R
<1>1. CASE rs = <<>>
  BY <1>1
<1>2. CASE rs \in UNION {[1..n -> R] : n \in 1..MaxRows}
  <2>1. PICK n \in Nat : rs \in [1..n -> R]
    BY <1>2
  <2> QED
    BY <2>1 DEF R
<1> QED
  BY <1>1, <1>2 DEF Batches, R

\* The service's choice of workstation: an existing one of sound tables that
\* have the same employees, posts, seats and pivot rows.
LEMMA GoalsKeepSound ==
  ASSUME NEW t, Sound(t), NEW r \in Row, NEW post \in Post, NEW goal \in Goals(t, r, post)
  PROVE  /\ Sound(goal[2])
         /\ goal[1] \in goal[2].workstations
         /\ goal[1] \in WorkstationIds
         /\ goal[2].employee = t.employee
         /\ goal[2].post = t.post
         /\ goal[2].employee_id = t.employee_id
         /\ goal[2].employee_workstation = t.employee_workstation
<1>1. CASE r.to_workstation_id = NULL
  <2>1. post.branch_id \in Branches /\ post.position_id \in Positions \cup {NULL}
    BY DEF Post
  <2>2. goal \in GetOrCreate(t, post.branch_id, post.position_id)
    BY <1>1 DEF Goals
  <2> HIDE DEF Goals
  <2>3. /\ Sound(goal[2])
        /\ goal[1] \in goal[2].workstations
        /\ goal[2].employee = t.employee
        /\ goal[2].post = t.post
        /\ goal[2].employee_id = t.employee_id
        /\ goal[2].employee_workstation = t.employee_workstation
    BY <2>1, <2>2, GetOrCreateKeepsSound
  <2> QED
    BY <2>3 DEF Sound, Tables
<1>2. CASE r.to_workstation_id # NULL
  BY <1>2 DEF Goals, Sound, Tables
<1> QED
  BY <1>1, <1>2

\* One row, taken apart: the tables after the employee is moved and released,
\* the workstation chosen, and the seats it leaves.
LEMMA MoveRowEffect ==
  ASSUME TransitionsTypeOK, MoveRow
  PROVE  \E old, goal : LET e == rows[k].employee_id
                            post == NewPost(wc, kind, rows[k])
                            released == Released(wc, e, post, old) IN
           /\ old \in AnyFirst(HeldBy(wc, e))
           /\ post \in Post
           /\ goal[1] \in WorkstationIds
           /\ Sound(goal[2]) /\ Sound(wc')
           /\ wc'.employee = wc.employee
           /\ wc'.post = [wc.post EXCEPT ![e] = post]
           /\ goal[2].employee_id = released.employee_id
           /\ goal[2].employee_workstation = wc.employee_workstation
           /\ wc' = AssignEmployee(goal[2], goal[1], e, TRUE)
           /\ moved' = moved \cup {e}
           /\ new_workstation_id' = [new_workstation_id EXCEPT ![e] =
                IF goal[2].employee_id[goal[1]] = e THEN NULL ELSE goal[1]]
<1> DEFINE e == rows[k].employee_id
           post == NewPost(wc, kind, rows[k])
<1>1. Sound(wc) /\ rows[k] \in Row /\ e \in Employees /\ e \in wc.employee
  <2>1. Sound(wc) /\ e \in wc.employee
    BY DEF TransitionsTypeOK, MoveRow, Sound
  <2>2. rows[k] \in Row
    BY RowsAreRows DEF TransitionsTypeOK, MoveRow
  <2> QED
    BY <2>1, <2>2 DEF Row
<1>2. post \in Post
  <2>1. wc.post[e] \in Post
    BY <1>1 DEF Sound, Tables, ReferencesResolve
  <2> QED
    BY <1>1, <2>1 DEF MoveRow, NewPost, Destination, Row, Post
<1>3. PICK old \in OldWorkstation(wc, e) :
        \E goal \in Goals(Released(wc, e, post, old), rows[k], post) :
           /\ wc' = AssignEmployee(goal[2], goal[1], e, TRUE)
           /\ moved' = moved \cup {e}
           /\ new_workstation_id' = [new_workstation_id EXCEPT ![e] =
                IF AssignRefused(goal[2], goal[1], e, TRUE) THEN NULL ELSE goal[1]]
  BY Zenon DEF MoveRow
<1>4. PICK goal \in Goals(Released(wc, e, post, old), rows[k], post) :
         /\ wc' = AssignEmployee(goal[2], goal[1], e, TRUE)
         /\ moved' = moved \cup {e}
         /\ new_workstation_id' = [new_workstation_id EXCEPT ![e] =
              IF AssignRefused(goal[2], goal[1], e, TRUE) THEN NULL ELSE goal[1]]
  BY <1>3, Zenon
<1> DEFINE posted == [wc EXCEPT !.post[e] = post]
           released == Released(wc, e, post, old)
<1>5. Sound(posted)
  BY <1>1, <1>2, PostKeepsSound
<1>6. old \in WorkstationIds \cup {NULL}
  BY <1>1 DEF OldWorkstation, AnyFirst, HeldBy, Sound, Tables
<1>7. /\ Sound(released)
      /\ released.employee = wc.employee
      /\ released.post = [wc.post EXCEPT ![e] = post]
      /\ released.employee_workstation = wc.employee_workstation
  <2>1. CASE old = NULL
    BY <1>1, <1>5, <2>1 DEF Released, Sound, Tables
  <2>2. CASE old # NULL
    BY <1>1, <1>5, <1>6, <2>2, VacateKeepsSound DEF Released, Vacate, Sound, Tables
  <2> QED
    BY <2>1, <2>2
<1> HIDE DEF posted, released
<1>8. goal \in Goals(released, rows[k], post)
  BY <1>4 DEF released
<1>9. /\ Sound(goal[2])
      /\ goal[1] \in goal[2].workstations
      /\ goal[1] \in WorkstationIds
      /\ goal[2].employee = wc.employee
      /\ goal[2].post = [wc.post EXCEPT ![e] = post]
      /\ goal[2].employee_id = released.employee_id
      /\ goal[2].employee_workstation = wc.employee_workstation
  BY <1>1, <1>2, <1>7, <1>8, GoalsKeepSound
<1>10. Sound(wc') /\ wc'.employee = wc.employee /\ wc'.post = [wc.post EXCEPT ![e] = post]
  <2>1. Sound(wc')
    BY <1>1, <1>4, <1>9, AssignKeepsSound
  <2>2. wc'.employee = goal[2].employee /\ wc'.post = goal[2].post
    BY <1>4, <1>9 DEF AssignEmployee, Seat, Sound, Tables
  <2> QED
    BY <2>1, <2>2, <1>9
<1>11. AssignRefused(goal[2], goal[1], e, TRUE) <=> goal[2].employee_id[goal[1]] = e
  BY DEF AssignRefused
<1> QED
  BY <1>2, <1>3, <1>4, <1>9, <1>10, <1>11, Zenon DEF released, OldWorkstation

-----------------------------------------------------------------------------
\* Every step keeps the types, and the references of both the committed tables
\* and the transaction's.
LEMMA StepKeepsType ==
  ASSUME TransitionsTypeOK, [Next]_vars
  PROVE  TransitionsTypeOK'
<1>1. Sound(db) /\ Len(rows) \in Nat /\ DOMAIN rows = 1..Len(rows)
  BY RowsAreRows DEF TransitionsTypeOK, TypeOK, Sound
<1>2. ASSUME NEW kd \in {"branch", "employee"}, NEW rs \in Batches, Accept(kd, rs)
      PROVE  TransitionsTypeOK'
  <2>1. k' = 1 /\ rows' = rs /\ Len(rs) \in Nat
    BY <1>2, RowsAreRows DEF TransitionsTypeOK, Accept
  <2> QED
    BY <1>2, <2>1 DEF TransitionsTypeOK, TypeOK, Accept, ReferencesResolve
<1>3. CASE Begin
  BY <1>1, <1>3 DEF TransitionsTypeOK, TypeOK, Begin, NoGoal, ReferencesResolve
<1>4. CASE SkipRow
  BY <1>1, <1>4 DEF TransitionsTypeOK, TypeOK, SkipRow, ReferencesResolve
<1>5. CASE MoveRow
  <2>1. /\ rows[k].employee_id \in Employees
        /\ k \in 1..Len(rows)
        /\ stage = "running" /\ k' = k + 1
        /\ UNCHANGED <<db, stage, kind, rows>>
    BY <1>1, <1>5, RowsAreRows DEF TransitionsTypeOK, MoveRow, Row
  <2>2. PICK g \in WorkstationIds :
          /\ Sound(wc')
          /\ moved' = moved \cup {rows[k].employee_id}
          /\ \E x \in {NULL, g} :
                new_workstation_id' = [new_workstation_id EXCEPT ![rows[k].employee_id] = x]
    BY <1>5, MoveRowEffect
  <2>3. /\ moved' \subseteq Employees
        /\ new_workstation_id' \in [Employees -> WorkstationIds \cup {NULL}]
    BY <2>1, <2>2 DEF TransitionsTypeOK
  <2> QED
    BY <1>1, <2>1, <2>2, <2>3 DEF TransitionsTypeOK, TypeOK, Sound, ReferencesResolve
<1>6. CASE Commit
  BY <1>6 DEF TransitionsTypeOK, TypeOK, Commit, ReferencesResolve
<1>7. CASE Rollback
  BY <1>7 DEF TransitionsTypeOK, TypeOK, Rollback, NoGoal, ReferencesResolve
<1>8. CASE OtherRequest
  <2>1. Sound(db')
    BY <1>1, <1>8, RequestKeepsSound DEF OtherRequest
  <2> QED
    BY <1>8, <2>1 DEF TransitionsTypeOK, TypeOK, Sound, OtherRequest, batch
<1>9. CASE UNCHANGED vars
  BY <1>9 DEF TransitionsTypeOK, TypeOK, vars, ReferencesResolve
<1> QED
  BY <1>2, <1>3, <1>4, <1>5, <1>6, <1>7, <1>8, <1>9 DEF Next, BatchStep

\* Batches of any length, interleaved with any requests, keep every reference
\* of the tables resolved, those of the open transaction included.
THEOREM TransitionsTypeCorrect == TSpec => []TransitionsTypeOK
<1>1. TInit => TransitionsTypeOK
  <2>1. ASSUME TInit PROVE TypeOK
    BY <2>1, MigratedIsSound DEF TInit, Init, Sound, TypeOK
  <2> QED
    BY <2>1 DEF TInit, BatchInit, TransitionsTypeOK, NoGoal
<1>2. TransitionsTypeOK /\ [Next]_vars => TransitionsTypeOK'
  BY StepKeepsType
<1> QED
  BY <1>1, <1>2, PTL DEF TSpec

-----------------------------------------------------------------------------
(* The loop invariant.  The employee e of the row being worked on has not    *)
(* been moved yet, so e's seats in the transaction are seats e has in the    *)
(* committed tables and nobody was sent to: vacating one of them and filling *)
(* the goal keeps each part of SeatsSoFar.                                   *)

LEMMA MoveRowKeepsSeats ==
  ASSUME TransitionsTypeOK, BatchInvariant, MoveRow
  PROVE  SeatsSoFar'
<1> DEFINE e == rows[k].employee_id
<1>1. /\ stage = "running" /\ DistinctRows /\ SeatsSoFar
      /\ Sound(db) /\ Sound(wc)
      /\ Len(rows) \in Nat /\ DOMAIN rows = 1..Len(rows) /\ k \in 1..Len(rows)
      /\ e \in Employees /\ moved \subseteq Employees
      /\ new_workstation_id \in [Employees -> WorkstationIds \cup {NULL}]
      /\ k' = k + 1 /\ UNCHANGED <<db, rows>>
  BY RowsAreRows DEF BatchInvariant, TransitionsTypeOK, TypeOK, MoveRow, Sound, Row
<1>2. e \notin Finished /\ e \notin moved /\ Finished' = Finished \cup {e}
  <2>1. e \notin Finished
    <3> SUFFICES ASSUME NEW i \in 1..(k - 1), rows[i].employee_id = e PROVE FALSE
      BY DEF Finished
    <3>1. i \in DOMAIN rows /\ k \in DOMAIN rows /\ i # k
      BY <1>1
    <3> QED
      BY <1>1, <3>1 DEF DistinctRows
  <2>2. Finished' = Finished \cup {e}
    <3>1. Finished' = {rows[i].employee_id : i \in 1..k}
      BY <1>1 DEF Finished
    <3>2. 1..k = 1..(k - 1) \cup {k}
      BY <1>1
    <3> QED
      BY <3>1, <3>2 DEF Finished
  <2> QED
    BY <1>1, <2>1, <2>2 DEF SeatsSoFar
<1>3. PICK old, goal :
        LET post == NewPost(wc, kind, rows[k]) IN
           /\ old \in AnyFirst(HeldBy(wc, e))
           /\ goal[1] \in WorkstationIds
           /\ Sound(goal[2])
           /\ goal[2].employee_id = Released(wc, e, post, old).employee_id
           /\ wc' = AssignEmployee(goal[2], goal[1], e, TRUE)
           /\ moved' = moved \cup {e}
           /\ new_workstation_id' = [new_workstation_id EXCEPT ![e] =
                IF goal[2].employee_id[goal[1]] = e THEN NULL ELSE goal[1]]
  BY MoveRowEffect
<1> DEFINE g == goal[1]
           seat == db.employee_id
           before == wc.employee_id
           after == wc'.employee_id
           kept == goal[2].employee_id[g] = e
<1>4. /\ seat \in [WorkstationIds -> Employees \cup {NULL}]
      /\ before \in [WorkstationIds -> Employees \cup {NULL}]
  BY <1>1 DEF Sound, Tables
<1>5. /\ old \in WorkstationIds \cup {NULL}
      /\ old # NULL => before[old] = e
      /\ old = NULL => \A w \in WorkstationIds : before[w] # e
  BY <1>1, <1>3 DEF AnyFirst, HeldBy, Sound, Tables, ReferencesResolve
<1>6. goal[2].employee_id = IF old = NULL THEN before ELSE [before EXCEPT ![old] = NULL]
  BY <1>1, <1>3, <1>5 DEF Released, Vacate, Sound, Tables
<1>7. after = IF kept THEN goal[2].employee_id ELSE [goal[2].employee_id EXCEPT ![g] = e]
  BY <1>3 DEF AssignEmployee, AssignRefused, Seat, Sound, Tables
<1>8. after \in [WorkstationIds -> Employees \cup {NULL}]
  <2>1. goal[2].employee_id \in [WorkstationIds -> Employees \cup {NULL}]
    BY <1>3 DEF Sound, Tables
  <2> HIDE DEF kept
  <2> QED
    BY <1>1, <1>3, <1>7, <2>1
<1>9. /\ \A w \in Filled : w \in WorkstationIds /\ before[w] # e
      /\ Filled' = IF kept THEN Filled ELSE Filled \cup {g}
      /\ \A f \in moved : new_workstation_id'[f] = new_workstation_id[f]
  <2>1. \A f \in moved : new_workstation_id'[f] = new_workstation_id[f]
    BY <1>1, <1>2, <1>3
  <2>2. new_workstation_id'[e] = IF kept THEN NULL ELSE g
    BY <1>1, <1>3
  <2>3. Filled' = IF kept THEN Filled ELSE Filled \cup {g}
    BY <1>3, <2>1, <2>2 DEF Filled
  <2>4. Filled \subseteq WorkstationIds
    BY <1>1 DEF Filled
  <2>5. \A w \in Filled : before[w] \in moved
    BY <1>1 DEF SeatsSoFar
  <2> QED
    BY <1>2, <2>1, <2>3, <2>4, <2>5
<1>10. \A w \in WorkstationIds : w # g \/ kept =>
          after[w] = IF w = old THEN NULL ELSE before[w]
  BY <1>4, <1>5, <1>6, <1>7
<1>11. ~kept => after[g] = e
  BY <1>3, <1>4, <1>5, <1>6, <1>7
<1> HIDE DEF g, seat, before, after, kept
<1>12. moved' \subseteq Finished'
  BY <1>1, <1>2, <1>3 DEF SeatsSoFar
<1>13. ASSUME NEW w \in Filled'
       PROVE  after[w] \in moved' /\ new_workstation_id'[after[w]] = w
  <2>1. CASE w = g /\ ~kept
    BY <1>1, <1>3, <1>11, <2>1 DEF g, kept
  <2>2. CASE w \in Filled /\ (w # g \/ kept)
    <3>1. before[w] \in moved /\ new_workstation_id[before[w]] = w
      BY <1>1, <2>2 DEF SeatsSoFar, before
    <3>2. w # old
      BY <1>5, <1>9, <2>2
    <3> QED
      BY <1>3, <1>9, <1>10, <2>2, <3>1, <3>2
  <2> QED
    BY <1>9, <2>1, <2>2
<1>14. ASSUME NEW w \in WorkstationIds \ Filled'
       PROVE  \/ after[w] = seat[w]
              \/ seat[w] \in moved' /\ after[w] = NULL
  <2>1. w \notin Filled /\ (w # g \/ kept)
    BY <1>9
  <2>2. \/ before[w] = seat[w]
        \/ seat[w] \in moved /\ before[w] = NULL
    BY <1>1, <2>1 DEF SeatsSoFar, before, seat
  <2> QED
    BY <1>3, <1>5, <1>10, <2>1, <2>2
<1>15. ASSUME NEW f \in moved', NEW w \in WorkstationIds \ Filled',
              \A v \in WorkstationIds : seat[v] = f <=> v = w
       PROVE  after[w] = NULL
  <2>1. w \notin Filled /\ (w # g \/ kept)
    BY <1>9
  <2>2. CASE f \in moved
    <3>1. before[w] = NULL
      BY <1>1, <1>15, <2>1, <2>2 DEF SeatsSoFar, before, seat
    <3> QED
      BY <1>10, <2>1, <3>1
  <2>3. CASE f = e
    <3>1. before[w] = e
      BY <1>1, <1>2, <1>15, <2>1, <2>3 DEF SeatsSoFar, before, seat
    <3>2. \A v \in WorkstationIds : before[v] = e => v = w
      BY <1>1, <1>2, <1>9, <1>15, <2>3 DEF SeatsSoFar, before, seat
    <3>3. old = w
      BY <1>5, <3>1, <3>2
    <3> QED
      BY <1>10, <2>1, <3>3
  <2> QED
    BY <1>3, <2>2, <2>3
<1> QED
  BY <1>1, <1>12, <1>13, <1>14, <1>15 DEF SeatsSoFar, after, seat

\* The row's employee gets the post of the row; nobody else's changes.
LEMMA MoveRowKeepsPosts ==
  ASSUME TransitionsTypeOK, BatchInvariant, MoveRow
  PROVE  PostsSoFar'
<1> DEFINE e == rows[k].employee_id
<1>1. /\ DistinctRows /\ PostsSoFar /\ Sound(wc)
      /\ Len(rows) \in Nat /\ DOMAIN rows = 1..Len(rows) /\ k \in 1..Len(rows)
      /\ e \in Employees /\ e \in wc.employee
      /\ \A i \in DOMAIN rows : rows[i].employee_id \in Employees
      /\ k' = k + 1 /\ UNCHANGED <<db, rows, kind>>
  BY RowsAreRows DEF BatchInvariant, TransitionsTypeOK, TypeOK, MoveRow, Sound, Row
<1>2. /\ wc'.employee = wc.employee
      /\ wc'.post = [wc.post EXCEPT ![e] = NewPost(wc, kind, rows[k])]
  BY MoveRowEffect, Zenon
<1>3. NewPost(wc, kind, rows[k]) = NewPost(db, kind, rows[k])
  <2>1. wc.post[e] = db.post[e]
    BY <1>1 DEF PostsSoFar
  <2> QED
    BY <2>1 DEF NewPost, Destination
<1>4. \A f \in Employees : wc'.post[f] = IF f = e THEN NewPost(db, kind, rows[k]) ELSE wc.post[f]
  BY <1>1, <1>2, <1>3 DEF Sound, Tables
<1>5. ASSUME NEW i \in DOMAIN rows, rows[i].employee_id \in db.employee
      PROVE  wc'.post[rows[i].employee_id] =
                IF i < k + 1 THEN NewPost(db, kind, rows[i]) ELSE db.post[rows[i].employee_id]
  <2>1. CASE i = k
    BY <1>1, <1>4, <2>1
  <2>2. CASE i # k
    <3>1. rows[i].employee_id # e
      BY <1>1, <2>2 DEF DistinctRows
    <3>2. wc'.post[rows[i].employee_id] = wc.post[rows[i].employee_id]
      BY <1>1, <1>4, <3>1
    <3>3. i < k + 1 <=> i < k
      BY <1>1, <2>2
    <3> QED
      BY <1>1, <1>5, <3>2, <3>3 DEF PostsSoFar
  <2> QED
    BY <2>1, <2>2
<1>6. ASSUME NEW f \in db.employee, \A i \in DOMAIN rows : rows[i].employee_id # f
      PROVE  wc'.post[f] = db.post[f]
  BY <1>1, <1>4, <1>6 DEF PostsSoFar, TransitionsTypeOK, TypeOK, Tables
<1>7. \A i \in DOMAIN rows : NewPost(db, kind, rows[i])' = NewPost(db, kind, rows[i])
  BY <1>1 DEF NewPost, Destination
<1> QED
  BY <1>1, <1>2, <1>5, <1>6, <1>7 DEF PostsSoFar

\* Whoever the pivot lists at a seat, and keeps it or gets it, is listed still.
LEMMA MoveRowKeepsListed ==
  ASSUME TransitionsTypeOK, MoveRow,
         NEW w \in WorkstationIds, NEW f \in Employees, ListedAt(wc, w, f)
  PROVE  ListedAt(wc', w, f)
<1> DEFINE e == rows[k].employee_id
<1>1. PICK old, goal :
        /\ goal[1] \in WorkstationIds
        /\ old \in AnyFirst(HeldBy(wc, e))
        /\ Sound(goal[2])
        /\ goal[2].employee_id = Released(wc, e, NewPost(wc, kind, rows[k]), old).employee_id
        /\ goal[2].employee_workstation = wc.employee_workstation
        /\ wc' = AssignEmployee(goal[2], goal[1], e, TRUE)
  BY MoveRowEffect
<1>2. wc.employee_id \in [WorkstationIds -> Employees \cup {NULL}] /\ wc \in Tables
  BY DEF TransitionsTypeOK, MoveRow, Tables
<1>3. goal[2].employee_id[w] = f => ListedAt(goal[2], w, f)
  <2>1. old \in WorkstationIds \cup {NULL}
    BY <1>1, <1>2 DEF AnyFirst, HeldBy, Tables
  <2>2. goal[2].employee_id[w] \in {NULL, wc.employee_id[w]}
    BY <1>1, <1>2, <2>1 DEF Released, Vacate, Tables
  <2> QED
    BY <1>1, <2>2 DEF ListedAt
<1>4. goal[2] \in Tables
  BY <1>1 DEF Sound
<1> QED
  BY <1>1, <1>3, <1>4 DEF AssignEmployee, Seat, ListedAt, Tables

LEMMA StepKeepsBatchInvariant ==
  ASSUME TransitionsTypeOK, BatchInvariant, [Next]_vars
  PROVE  BatchInvariant'
<1>1. Len(rows) \in Nat /\ DOMAIN rows = 1..Len(rows)
  BY RowsAreRows DEF TransitionsTypeOK
<1>2. ASSUME NEW kd \in {"branch", "employee"}, NEW rs \in Batches, Accept(kd, rs)
      PROVE  BatchInvariant'
  BY <1>2 DEF BatchInvariant, DistinctRows, Accept, Passes, WellFormed
<1>3. CASE Begin
  <2>1. moved' = {} /\ k' = 1 /\ wc' = db /\ UNCHANGED <<db, rows, kind>> /\ stage' = "running"
    BY <1>3 DEF Begin
  <2>2. Finished' = {} /\ Filled' = {}
    BY <2>1 DEF Finished, Filled
  <2>3. SeatsSoFar'
    BY <2>1, <2>2 DEF SeatsSoFar
  <2>4. PostsSoFar'
    BY <1>1, <2>1 DEF PostsSoFar
  <2>5. DistinctRows'
    BY <1>3, <2>1 DEF BatchInvariant, DistinctRows, Begin
  <2> QED
    BY <2>1, <2>3, <2>4, <2>5 DEF BatchInvariant, ListedAt
<1>4. CASE SkipRow
  <2>1. /\ stage = "running" /\ k \in 1..Len(rows) /\ k' = k + 1
        /\ rows[k].employee_id \notin wc.employee
        /\ UNCHANGED <<db, stage, kind, rows, wc, moved, new_workstation_id>>
    BY <1>1, <1>4 DEF SkipRow
  <2>2. Finished \subseteq Finished' /\ Filled' = Filled
    BY <2>1 DEF Finished, Filled
  <2>3. SeatsSoFar'
    BY <2>1, <2>2 DEF BatchInvariant, SeatsSoFar
  <2>4. PostsSoFar'
    <3>1. \A i \in DOMAIN rows : rows[i].employee_id \in db.employee => (i < k + 1 <=> i < k)
      BY <1>1, <2>1 DEF BatchInvariant, PostsSoFar
    <3>2. \A i \in DOMAIN rows : NewPost(db, kind, rows[i])' = NewPost(db, kind, rows[i])
      BY <2>1 DEF NewPost, Destination
    <3> QED
      BY <2>1, <3>1, <3>2 DEF BatchInvariant, PostsSoFar
  <2> QED
    BY <2>1, <2>3, <2>4 DEF BatchInvariant, DistinctRows, ListedAt
<1>5. CASE MoveRow
  <2>1. stage = "running" /\ UNCHANGED <<db, stage, rows>>
    BY <1>5 DEF MoveRow
  <2>2. SeatsSoFar' /\ PostsSoFar'
    BY <1>5, MoveRowKeepsSeats, MoveRowKeepsPosts
  <2>3. \A w \in WorkstationIds, f \in Employees : ListedAt(db, w, f) => ListedAt(wc', w, f)
    BY <1>5, <2>1, MoveRowKeepsListed DEF BatchInvariant
  <2> QED
    BY <2>1, <2>2, <2>3 DEF BatchInvariant, DistinctRows, ListedAt
<1>6. CASE Commit \/ Rollback
  BY <1>6 DEF BatchInvariant, Commit, Rollback
<1>7. CASE OtherRequest
  BY <1>7 DEF BatchInvariant, DistinctRows, OtherRequest, batch
<1>8. CASE UNCHANGED vars
  BY <1>8 DEF BatchInvariant, DistinctRows, SeatsSoFar, Finished, Filled, PostsSoFar,
              NewPost, Destination, ListedAt, vars
<1> QED
  BY <1>2, <1>3, <1>4, <1>5, <1>6, <1>7, <1>8 DEF Next, BatchStep

\* The loop invariant holds throughout.
THEOREM BatchInvariantHolds == TSpec => [](TransitionsTypeOK /\ BatchInvariant)
<1>1. TInit => BatchInvariant
  BY DEF TInit, BatchInit, BatchInvariant
<1>2. TransitionsTypeOK /\ BatchInvariant /\ [Next]_vars => BatchInvariant'
  BY StepKeepsBatchInvariant
<1> QED
  BY <1>1, <1>2, TransitionsTypeCorrect, PTL DEF TSpec

-----------------------------------------------------------------------------
(* Refinement of SeatingPlan: seats are filled or cleared by other requests, *)
(* and a commit is one Reseat.                                               *)

\* A single request fills vacant seats or clears occupied ones.
LEMMA RequestIsFillOrClear ==
  ASSUME Sound(db), Sound(db'), Request, UNCHANGED <<moved, new_workstation_id>>
  PROVE  Plan!Fill \/ Plan!Clear
<1> DEFINE Claim == Plan!Fill \/ Plan!Clear
<1>1. /\ db.employee_id \in [WorkstationIds -> Employees \cup {NULL}]
      /\ db'.employee_id \in [WorkstationIds -> Employees \cup {NULL}]
      /\ db \in Tables
      /\ \A w \in WorkstationIds : w \notin db.workstations => db.employee_id[w] = NULL
  BY DEF Sound, Tables, ReferencesResolve
<1>2. ASSUME NEW w \in WorkstationIds,
             \A v \in WorkstationIds : v # w => db'.employee_id[v] = db.employee_id[v],
             db.employee_id[w] = NULL \/ db'.employee_id[w] = NULL
      PROVE  Claim
  BY <1>1, <1>2 DEF Plan!Fill, Plan!Clear, Plan!Seats, Plan!response
<1>3. ASSUME \A w \in WorkstationIds :
                db'.employee_id[w] # db.employee_id[w] => db'.employee_id[w] = NULL
      PROVE  Claim
  BY <1>1, <1>3 DEF Plan!Clear, Plan!Seats, Plan!response
<1>4. CASE EmployeeRequest
  <2>1. ASSUME NEW e \in Employees, DestroyEmployee(e) PROVE Claim
    BY <1>1, <1>3, <2>1 DEF DestroyEmployee, Tables
  <2>2. ASSUME db'.employee_id = db.employee_id PROVE Claim
    BY <1>3, <2>2
  <2>3. ASSUME NEW e \in Employees, NEW b \in Branches, NEW p \in Positions,
               StoreEmployee(e, b, p) \/ UpdateEmployee(e, b, p)
        PROVE  Claim
    BY <1>1, <2>2, <2>3 DEF StoreEmployee, UpdateEmployee, Tables
  <2> QED
    BY <1>4, <2>1, <2>3 DEF EmployeeRequest
<1>5. CASE WorkstationRequest
  <2>1. PICK w \in WorkstationIds :
          \/ \E b \in Branches, p \in Positions \cup {NULL} :
                \/ \E members \in SUBSET Employees, primary \in Employees \cup {NULL} :
                      StoreWorkstation(w, b, p, primary, members)
                \/ UpdateWorkstation(w, b, p)
          \/ DestroyWorkstation(w)
          \/ \E e \in Employees : AssignEmployeeRequest(w, e) \/ UnassignEmployeeRequest(w, e)
    BY <1>5 DEF WorkstationRequest
  <2>2. ASSUME NEW b \in Branches, NEW p \in Positions \cup {NULL},
               NEW members \in SUBSET Employees, NEW primary \in Employees \cup {NULL},
               StoreWorkstation(w, b, p, primary, members)
        PROVE  Claim
    BY <1>1, <1>2, <2>2 DEF StoreWorkstation, CreateFromBranchPosition, Tables
  <2>3. ASSUME NEW b \in Branches, NEW p \in Positions \cup {NULL}, UpdateWorkstation(w, b, p)
        PROVE  Claim
    BY <1>1, <1>3, <2>3 DEF UpdateWorkstation, Tables
  <2>4. CASE DestroyWorkstation(w)
    BY <1>1, <1>3, <2>4, DeletedSeats DEF DestroyWorkstation
  <2>5. ASSUME NEW e \in Employees, AssignEmployeeRequest(w, e) PROVE Claim
    BY <1>1, <1>2, <2>5 DEF AssignEmployeeRequest, AssignEmployee, AssignRefused, Seat, Tables
  <2>6. ASSUME NEW e \in Employees, UnassignEmployeeRequest(w, e) PROVE Claim
    <3>1. db'.employee_id = [db.employee_id EXCEPT ![w] = NULL]
      BY <1>1, <2>6 DEF UnassignEmployeeRequest, UnassignEmployee, Vacate, Tables
    <3> QED
      BY <1>1, <1>3, <3>1
  <2> QED
    BY <2>1, <2>2, <2>3, <2>4, <2>5, <2>6
<1>6. CASE CatalogRequest
  <2>1. ASSUME NEW b \in Branches, DestroyBranch(b) PROVE Claim
    <3>1. db' = Deleted(db, {w \in db.workstations : db.spot[w].branch_id = b})
      BY <2>1 DEF DestroyBranch
    <3> QED
      BY <1>1, <1>3, <3>1, DeletedSeats
  <2>2. ASSUME NEW p \in Positions, DestroyPosition(p) PROVE Claim
    BY <1>1, <1>3, <2>2 DEF DestroyPosition, Tables
  <2> QED
    BY <1>6, <2>1, <2>2 DEF CatalogRequest
<1>7. CASE MigrateToWorkstations
  BY <1>1, <1>7, MigrateToWorkstationsKeepsSound DEF Plan!Fill, Plan!Seats, Plan!response
<1> QED
  BY <1>4, <1>5, <1>6, <1>7 DEF Request

\* The commit reseats the moved employees, all at once.
LEMMA CommitIsReseat ==
  ASSUME TransitionsTypeOK, BatchInvariant, Commit
  PROVE  Plan!Reseat
<1>1. /\ SeatsSoFar /\ db'.employee_id = wc.employee_id
      /\ UNCHANGED <<moved, new_workstation_id>>
  BY DEF Commit, BatchInvariant
<1>2. wc.employee_id \in [WorkstationIds -> Employees \cup {NULL}]
  BY DEF TransitionsTypeOK, Commit, Tables
<1> QED
  BY <1>1, <1>2 DEF SeatsSoFar, Filled, Plan!Reseat, Plan!Seats, Plan!response

\* Working through a batch row by row, in the order sent, with any requests
\* before and between batches, is reseating all its employees at once.
THEOREM BatchesImplementSeatingPlan == TSpec => ImplementsSeatingPlan
<1> DEFINE IInv == TransitionsTypeOK /\ BatchInvariant
<1>1. TInit => Plan!Init
  <2>1. ASSUME TInit PROVE Sound(db)
    BY <2>1, MigratedIsSound DEF TInit, Init
  <2> QED
    BY <2>1 DEF TInit, BatchInit, NoGoal, Plan!Init, Plan!Seats, Plan!Goals, Sound, Tables
<1>2. IInv /\ IInv' /\ [Next]_vars
         => [Plan!Next]_<<db.employee_id, moved, new_workstation_id>>
  <2> SUFFICES ASSUME IInv, IInv', [Next]_vars
               PROVE  [Plan!Next]_<<db.employee_id, moved, new_workstation_id>>
    OBVIOUS
  <2>1. CASE Commit
    BY <2>1, CommitIsReseat DEF Plan!Next
  <2>2. CASE OtherRequest
    BY <2>2, RequestIsFillOrClear
    DEF OtherRequest, batch, Plan!Next, TransitionsTypeOK, TypeOK, Sound
  <2>3. CASE UNCHANGED db
    BY <2>3 DEF TransitionsTypeOK, Plan!Next, Plan!Compose, Plan!Goals
  <2>4. [Next]_vars => Commit \/ OtherRequest \/ UNCHANGED db
    BY DEF Next, BatchStep, Accept, Begin, SkipRow, MoveRow, Rollback, vars
  <2> QED
    BY <2>1, <2>2, <2>3, <2>4
<1> QED
  BY <1>1, <1>2, BatchInvariantHolds, PTL DEF TSpec, ImplementsSeatingPlan, Plan!Spec

-----------------------------------------------------------------------------
\* Batches keep the pivot's list too: only the migration command seats somebody
\* whom it does not list.
THEOREM BatchesKeepSeatsListed == TSpec => SeatsStayListed
<1> DEFINE IInv == TransitionsTypeOK /\ BatchInvariant
           Kept == \/ MigrateToWorkstations
                   \/ \A w \in WorkstationIds, e \in Employees :
                         ListedAt(db, w, e) => ListedAt(db', w, e)
<1>1. IInv /\ [Next]_vars => [Kept]_db
  <2> SUFFICES ASSUME IInv, [Next]_vars PROVE [Kept]_db
    OBVIOUS
  <2>1. CASE Commit
    BY <2>1 DEF Commit, BatchInvariant
  <2>2. CASE OtherRequest
    BY <2>2, RequestKeepsListed DEF OtherRequest, TransitionsTypeOK, TypeOK, Sound
  <2>3. CASE UNCHANGED db
    BY <2>3
  <2>4. [Next]_vars => Commit \/ OtherRequest \/ UNCHANGED db
    BY DEF Next, BatchStep, Accept, Begin, SkipRow, MoveRow, Rollback, vars
  <2> QED
    BY <2>1, <2>2, <2>3, <2>4
<1> QED
  BY <1>1, BatchInvariantHolds, PTL DEF TSpec, SeatsStayListed

\* The destination of a row is found vacant, or held by somebody who has a row:
\* with nobody sharing a post, one check per row keeps it so.
LEMMA ValidatedCommitKeepsPostsExclusive ==
  ASSUME TransitionsTypeOK, BatchInvariant, Commit, kind = "branch",
         Passes(db, kind, rows), DistinctDestinations(db, rows),
         PostsExclusive(db.employee, db.post)
  PROVE  PostsExclusive(db'.employee, db'.post)
<1>1. /\ db' = wc /\ wc.employee = db.employee /\ PostsSoFar
      /\ wc \in Tables /\ ReferencesResolve(wc)
      /\ db \in Tables
      /\ Len(rows) \in Nat /\ DOMAIN rows = 1..Len(rows)
      /\ \A i \in DOMAIN rows : rows[i] \in Row /\ i < k
  BY RowsAreRows DEF Commit, BatchInvariant, PostsSoFar, TransitionsTypeOK, TypeOK
<1>2. ASSUME NEW i \in DOMAIN rows
      PROVE  /\ rows[i].employee_id \in db.employee
             /\ wc.post[rows[i].employee_id] = Destination(db, rows[i])
  <2> DEFINE e == rows[i].employee_id
  <2>1. e \in db.employee
    BY DEF Passes, WellFormed
  <2>2. wc.post[e] = NewPost(db, kind, rows[i])
    BY <1>1, <2>1 DEF PostsSoFar
  <2>3. wc.post[e] \in Post
    BY <1>1, <2>1 DEF Tables, ReferencesResolve
  <2>4. rows[i].to_position_id # NULL
    BY <2>2, <2>3 DEF NewPost, Post
  <2> QED
    BY <2>1, <2>2, <2>4 DEF NewPost, Destination
<1>3. ASSUME NEW i \in DOMAIN rows, NEW f \in db.employee,
             \A j \in DOMAIN rows : rows[j].employee_id # f,
             wc.post[rows[i].employee_id] = wc.post[f]
      PROVE  FALSE
  <2>1. db.post[f] = Destination(db, rows[i])
    BY <1>1, <1>2, <1>3 DEF PostsSoFar
  <2>2. f \in OthersAt(db, rows[i])
    BY <1>3, <2>1 DEF OthersAt
  <2>3. PICK o \in OthersAt(db, rows[i]) : MovesAway(db, rows, o)
    BY <2>2 DEF Passes, VacantOrSwap
  <2>4. o = f
    BY <2>1, <2>3 DEF OthersAt, PostsExclusive
  <2> QED
    BY <1>3, <2>3, <2>4 DEF MovesAway
<1>4. ASSUME NEW e \in db.employee, NEW f \in db.employee, wc.post[e] = wc.post[f]
      PROVE  e = f
  <2>1. CASE \E i, j \in DOMAIN rows : rows[i].employee_id = e /\ rows[j].employee_id = f
    BY <1>2, <1>4, <2>1 DEF DistinctDestinations
  <2>2. CASE \A i \in DOMAIN rows : rows[i].employee_id # e /\ rows[i].employee_id # f
    BY <1>1, <1>4, <2>2 DEF PostsSoFar, PostsExclusive
  <2> QED
    BY <1>3, <1>4, <2>1, <2>2
<1> QED
  BY <1>1, <1>4 DEF PostsExclusive

\* A branch batch that passes validation on the tables it commits over leaves
\* nobody sharing a post, if nobody shared one and no two rows have the same
\* destination.
THEOREM ValidatedBatchesKeepPostsExclusive == TSpec => BranchBatchKeepsPostsExclusive
<1> DEFINE IInv == TransitionsTypeOK /\ BatchInvariant
           Kept == (/\ stage = "running" /\ stage' = "idle" /\ kind = "branch"
                    /\ Passes(db, kind, rows)
                    /\ DistinctDestinations(db, rows)
                    /\ PostsExclusive(db.employee, db.post))
                   => PostsExclusive(db'.employee, db'.post)
<1>1. IInv /\ [Next]_vars => [Kept]_vars
  <2> SUFFICES ASSUME IInv, Next PROVE Kept
    OBVIOUS
  <2>1. CASE Commit
    BY <2>1, ValidatedCommitKeepsPostsExclusive
  <2>2. CASE Rollback
    BY <2>2 DEF Rollback, PostsExclusive
  <2>3. CASE stage # "running" \/ stage' # "idle"
    BY <2>3
  <2>4. Commit \/ Rollback \/ stage # "running" \/ stage' # "idle"
    BY DEF Next, BatchStep, Accept, Begin, SkipRow, MoveRow, OtherRequest
  <2> QED
    BY <2>1, <2>2, <2>3, <2>4
<1> QED
  BY <1>1, BatchInvariantHolds, PTL DEF TSpec, BranchBatchKeepsPostsExclusive

-----------------------------------------------------------------------------
(* The page of module TransitionBuilder.                                     *)

USE NaNIsNoId, NullIsNoModification

\* The modification of e with one field set, before it is measured.
Updated(mods, e, field, value) ==
    [(IF mods[e] = NULL THEN Original(e) ELSE mods[e]) EXCEPT ![field] = value]

\* The page's half of the type invariant, apart from the batch under way.
FetchedOK ==
    /\ employeesData.employee \subseteq Employees
    /\ \A e \in employeesData.employee :
          /\ employeesData.post[e] \in Post /\ employeesData.place[e] \in Post
          /\ employeesData.seat[e] \in WorkstationIds \cup {NULL}
    /\ workstations.ids \subseteq WorkstationIds
    /\ \A w \in workstations.ids : workstations.spot[w] \in Spot

\* A field of a modification, with a value it may have.
FieldValue(field, value) ==
    \/ field = "to_branch_id" /\ value \in Branches
    \/ field = "to_position_id" /\ value \in Positions
    \/ field = "to_workstation_id" /\ value \in WorkstationIds \cup Falsy

ModificationsOK(mods) == mods \in [Employees -> Modification \cup {NULL}]

\* Nobody else's entry differs.
OthersKept(mods, new, e) == \A f \in Employees : f # e => new[f] = mods[f]

\* Either the entry of e goes, or it differs from where the page found e.
Measured(mods, e) == mods[e] # NULL => ~NoChange(e, mods[e])

LEMMA HandleModifyEffect ==
  ASSUME FetchedOK, NEW mods, ModificationsOK(mods),
         NEW e \in employeesData.employee, NEW field, NEW value, FieldValue(field, value)
  PROVE  LET new == HandleModify(mods, e, field, value)
             updated == Updated(mods, e, field, value) IN
         /\ ModificationsOK(new)
         /\ Measured(new, e)
         /\ OthersKept(mods, new, e)
         /\ updated \in Modification
         /\ new[e] = IF NoChange(e, updated) THEN NULL ELSE updated
<1> DEFINE current == IF mods[e] = NULL THEN Original(e) ELSE mods[e]
           updated == Updated(mods, e, field, value)
           new == HandleModify(mods, e, field, value)
<1>1. e \in Employees
  BY DEF FetchedOK
<1>2. Original(e) \in Modification
  BY DEF FetchedOK, Original, Modification, Post, Falsy
<1>3. current \in Modification
  BY <1>1, <1>2 DEF ModificationsOK
<1>4. updated \in Modification
  BY <1>3 DEF Modification, FieldValue, Updated
<1>5. new = [mods EXCEPT ![e] = IF NoChange(e, updated) THEN NULL ELSE updated]
  BY DEF HandleModify, Updated
<1> HIDE DEF current, updated, new
<1>6. /\ ModificationsOK(new)
      /\ Measured(new, e)
      /\ OthersKept(mods, new, e)
      /\ updated \in Modification
      /\ new[e] = IF NoChange(e, updated) THEN NULL ELSE updated
  BY <1>1, <1>4, <1>5 DEF ModificationsOK, Measured, OthersKept
<1> QED
  BY <1>6 DEF updated, new

\* What three calls make of the modifications.
LEMMA SetPlaceEffect ==
  ASSUME FetchedOK, NEW mods, ModificationsOK(mods), NEW e \in employeesData.employee,
         NEW w \in WorkstationIds \cup Falsy, NEW b \in Branches, NEW p \in Positions
  PROVE  /\ ModificationsOK(SetPlace(mods, e, w, b, p))
         /\ Measured(SetPlace(mods, e, w, b, p), e)
         /\ OthersKept(mods, SetPlace(mods, e, w, b, p), e)
         /\ (mods[e] = NULL /\ employeesData.seat[e] # NULL /\ w # employeesData.seat[e]) =>
               SetPlace(mods, e, w, b, p)[e] =
                  [to_branch_id |-> b, to_position_id |-> p, to_workstation_id |-> w]
<1> DEFINE seated == HandleModify(mods, e, "to_workstation_id", w)
           branched == HandleModify(seated, e, "to_branch_id", b)
           new == HandleModify(branched, e, "to_position_id", p)
           atSeat == Updated(mods, e, "to_workstation_id", w)
           atBranch == Updated(seated, e, "to_branch_id", b)
           atPosition == Updated(branched, e, "to_position_id", p)
<1>1. /\ FieldValue("to_workstation_id", w)
      /\ FieldValue("to_branch_id", b)
      /\ FieldValue("to_position_id", p)
  BY DEF FieldValue
<1>2. /\ ModificationsOK(seated)
      /\ OthersKept(mods, seated, e)
      /\ atSeat \in Modification
      /\ seated[e] = IF NoChange(e, atSeat) THEN NULL ELSE atSeat
  BY <1>1, HandleModifyEffect
<1> HIDE DEF seated
<1>3. /\ ModificationsOK(branched)
      /\ OthersKept(seated, branched, e)
      /\ atBranch \in Modification
      /\ branched[e] = IF NoChange(e, atBranch) THEN NULL ELSE atBranch
  BY <1>1, <1>2, HandleModifyEffect
<1> HIDE DEF branched
<1>4. /\ ModificationsOK(new)
      /\ Measured(new, e)
      /\ OthersKept(branched, new, e)
      /\ atPosition \in Modification
      /\ new[e] = IF NoChange(e, atPosition) THEN NULL ELSE atPosition
  BY <1>1, <1>3, HandleModifyEffect
<1> HIDE DEF new
<1>5. ASSUME mods[e] = NULL, employeesData.seat[e] # NULL, w # employeesData.seat[e]
      PROVE  new[e] = [to_branch_id |-> b, to_position_id |-> p, to_workstation_id |-> w]
  <2>1. \A m \in Modification : m.to_workstation_id = w => ~NoChange(e, m)
    BY <1>5 DEF NoChange, Original
  <2>2. seated[e] = atSeat /\ atSeat.to_workstation_id = w
    BY <1>2, <1>5, <2>1 DEF Updated, Original
  <2>3. branched[e] = [atSeat EXCEPT !.to_branch_id = b] /\ branched[e] \in Modification
    <3>1. atBranch = [atSeat EXCEPT !.to_branch_id = b]
      BY <1>2, <2>2 DEF Updated
    <3> QED
      BY <1>2, <1>3, <2>1, <2>2, <3>1 DEF Modification
  <2>4. new[e] = [branched[e] EXCEPT !.to_position_id = p] /\ new[e] \in Modification
    <3>1. atPosition = [branched[e] EXCEPT !.to_position_id = p]
      BY <2>3 DEF Updated
    <3>2. atPosition.to_workstation_id = w
      BY <1>2, <2>2, <2>3, <3>1 DEF Modification
    <3> QED
      BY <1>4, <2>1, <3>1, <3>2
  <2> QED
    BY <1>2, <2>2, <2>3, <2>4 DEF Modification
<1>6. SetPlace(mods, e, w, b, p) = new
  BY DEF SetPlace, seated, branched, new
<1> QED
  BY <1>2, <1>3, <1>4, <1>5, <1>6 DEF OthersKept

\* The same for a workstation and the post that goes with it.
LEMMA SendToEffect ==
  ASSUME FetchedOK, NEW mods, ModificationsOK(mods), NEW e \in employeesData.employee,
         NEW w \in workstations.ids, NEW fallback \in Positions
  PROVE  /\ ModificationsOK(SendTo(mods, e, w, fallback))
         /\ Measured(SendTo(mods, e, w, fallback), e)
         /\ OthersKept(mods, SendTo(mods, e, w, fallback), e)
         /\ (/\ mods[e] = NULL /\ employeesData.seat[e] # NULL /\ w # employeesData.seat[e]
             /\ workstations.spot[w].position_id # NULL) =>
               SendTo(mods, e, w, fallback)[e] =
                  [to_branch_id      |-> workstations.spot[w].branch_id,
                   to_position_id    |-> workstations.spot[w].position_id,
                   to_workstation_id |-> w]
<1> DEFINE spot == workstations.spot[w]
           p == IF spot.position_id = NULL THEN fallback ELSE spot.position_id
<1>1. spot \in Spot /\ w \in WorkstationIds \cup Falsy
  BY DEF FetchedOK
<1>2. spot.branch_id \in Branches /\ p \in Positions
  BY <1>1 DEF Spot
<1>3. SendTo(mods, e, w, fallback) = SetPlace(mods, e, w, spot.branch_id, p)
  BY DEF SendTo
<1>4. spot.position_id # NULL => p = spot.position_id
  OBVIOUS
<1> HIDE DEF spot, p
<1> DEFINE new == SetPlace(mods, e, w, spot.branch_id, p)
<1>5. /\ ModificationsOK(new)
      /\ Measured(new, e)
      /\ OthersKept(mods, new, e)
      /\ (mods[e] = NULL /\ employeesData.seat[e] # NULL /\ w # employeesData.seat[e]) =>
            new[e] = [to_branch_id |-> spot.branch_id, to_position_id |-> p, to_workstation_id |-> w]
  BY <1>1, <1>2, SetPlaceEffect
<1> HIDE DEF new
<1> QED
  BY <1>3, <1>4, <1>5 DEF spot, new

-----------------------------------------------------------------------------
(* The chain.                                                                *)

\* The place after i in a round of n places.
LEMMA RoundOfPlaces ==
  ASSUME NEW n \in Nat, NEW i \in 1..n
  PROVE  /\ (i % n) + 1 = IF i = n THEN 1 ELSE i + 1
         /\ (IF i = n THEN 1 ELSE i + 1) \in 1..n
<1>1. CASE i = n
  BY <1>1
<1>2. CASE i < n
  BY <1>2
<1> QED
  BY <1>1, <1>2

ChainOK ==
    /\ chainNodes \in Seq(Employees)
    /\ \A i, j \in DOMAIN chainNodes : chainNodes[i] = chainNodes[j] => i = j

\* The nodes of the chain, and the one after each.
LEMMA ChainProperties ==
  ASSUME ChainOK
  PROVE  /\ Len(chainNodes) \in Nat
         /\ DOMAIN chainNodes = 1..Len(chainNodes)
         /\ Range(chainNodes) \subseteq Employees
         /\ \A i \in 1..Len(chainNodes) :
               /\ chainNodes[i] \in Range(chainNodes)
               /\ NextNode(i) = chainNodes[IF i = Len(chainNodes) THEN 1 ELSE i + 1]
               /\ NextNode(i) \in Range(chainNodes)
         /\ \A i \in DOMAIN chainNodes :
               (CHOOSE j \in DOMAIN chainNodes : chainNodes[j] = chainNodes[i]) = i
<1>1. Len(chainNodes) \in Nat /\ DOMAIN chainNodes = 1..Len(chainNodes)
  BY DEF ChainOK
<1>2. \A i \in 1..Len(chainNodes) : chainNodes[i] \in Employees /\ chainNodes[i] \in Range(chainNodes)
  BY <1>1 DEF ChainOK, Range
<1>3. Range(chainNodes) \subseteq Employees
  BY <1>1, <1>2 DEF Range
<1>4. ASSUME NEW i \in 1..Len(chainNodes)
      PROVE  /\ NextNode(i) = chainNodes[IF i = Len(chainNodes) THEN 1 ELSE i + 1]
             /\ NextNode(i) \in Range(chainNodes)
  <2> DEFINE next == IF i = Len(chainNodes) THEN 1 ELSE i + 1
  <2>1. NextNode(i) = chainNodes[next]
    BY <1>1, RoundOfPlaces DEF NextNode
  <2>2. next \in 1..Len(chainNodes)
    BY <1>1, RoundOfPlaces
  <2> QED
    BY <1>2, <2>1, <2>2
<1>5. ASSUME NEW i \in DOMAIN chainNodes
      PROVE  (CHOOSE j \in DOMAIN chainNodes : chainNodes[j] = chainNodes[i]) = i
  BY DEF ChainOK
<1> QED
  BY <1>1, <1>2, <1>3, <1>4, <1>5

\* An edit of one employee leaves an entry that is measured.
LEMMA TakePlaceOfEffect ==
  ASSUME FetchedOK, NEW mods, ModificationsOK(mods),
         NEW e \in employeesData.employee, NEW next \in employeesData.employee
  PROVE  /\ ModificationsOK(TakePlaceOf(mods, e, next))
         /\ \/ Measured(TakePlaceOf(mods, e, next), e)
            \/ TakePlaceOf(mods, e, next) = mods
<1>1. /\ employeesData.place[e] \in Post /\ employeesData.place[next] \in Post
      /\ employeesData.place[e].position_id \in Positions
      /\ employeesData.place[next].branch_id \in Branches
      /\ employeesData.place[next].position_id \in Positions
  BY DEF FetchedOK, Post
<1>0. NaN \in WorkstationIds \cup Falsy /\ NULL \notin workstations.ids
  BY DEF FetchedOK, Falsy
<1>2. CASE employeesData.seat[next] \in workstations.ids
  BY <1>0, <1>1, <1>2, SendToEffect DEF TakePlaceOf
<1>3. CASE employeesData.seat[next] = NULL
  BY <1>0, <1>1, <1>3, SetPlaceEffect DEF TakePlaceOf
<1>4. CASE employeesData.seat[next] \notin workstations.ids /\ employeesData.seat[next] # NULL
  BY <1>0, <1>4 DEF TakePlaceOf
<1> QED
  BY <1>2, <1>3, <1>4

\* What every edit keeps: modifications of their type, and whatever it writes
\* differs from where the page found the employee.
EditsWell ==
    /\ ModificationsOK(modifications')
    /\ \A e \in Employees : modifications'[e] \notin {NULL, modifications[e]} =>
          e \in employeesData.employee /\ ~NoChange(e, modifications'[e])

LEMMA EditIsWell ==
  ASSUME FetchedOK, ModificationsOK(modifications), NEW e \in employeesData.employee,
         NEW new, Edit(new), ModificationsOK(new), Measured(new, e),
         OthersKept(modifications, new, e)
  PROVE  EditsWell
  BY DEF Edit, EditsWell, Measured, OthersKept

\* So is sending an employee to a workstation.
LEMMA SendToIsWell ==
  ASSUME FetchedOK, ModificationsOK(modifications), NEW e \in employeesData.employee,
         NEW w \in workstations.ids, NEW fallback \in Positions
  PROVE  Edit(SendTo(modifications, e, w, fallback)) => EditsWell
<1>1. ModificationsOK(SendTo(modifications, e, w, fallback))
  BY SendToEffect
<1>2. Measured(SendTo(modifications, e, w, fallback), e)
  BY SendToEffect
<1>3. OthersKept(modifications, SendTo(modifications, e, w, fallback), e)
  BY SendToEffect
<1> QED
  BY <1>1, <1>2, <1>3, EditIsWell

LEMMA EditModificationsIsWell ==
  ASSUME FetchedOK, ModificationsOK(modifications), ChainOK, EditModifications
  PROVE  /\ EditsWell
         /\ mode # NULL /\ UNCHANGED <<mode, data, sent>>
         /\ chainNodes' \in {chainNodes, <<>>}
<1>1. \A e \in employeesData.employee :
         /\ employeesData.post[e].position_id \in Positions
         /\ employeesData.place[e].branch_id \in Branches
         /\ employeesData.place[e].position_id \in Positions
  BY DEF FetchedOK, Post
<1>2. NaN \in WorkstationIds \cup Falsy
  BY DEF Falsy
<1>3. ASSUME NEW e \in Employees, HandleWorkstationClear(e) PROVE EditsWell
  BY <1>1, <1>2, <1>3, SetPlaceEffect, EditIsWell DEF HandleWorkstationClear
<1>4. ASSUME NEW e \in Employees, ClearModification(e) PROVE EditsWell
  BY <1>4 DEF ClearModification, Edit, EditsWell, ModificationsOK
<1>5. ASSUME NEW e \in Employees, NEW w \in WorkstationIds, HandleWorkstationChange(e, w)
      PROVE  EditsWell
  BY <1>1, <1>5, SendToIsWell DEF HandleWorkstationChange, Offered
<1>6. ASSUME NEW e \in Employees, NEW w \in WorkstationIds, DropOnWorkstation(e, w)
      PROVE  EditsWell
  BY <1>1, <1>6, SendToIsWell DEF DropOnWorkstation
<1>7. ASSUME NEW e \in Employees, NEW o \in Employees, NEW w \in WorkstationIds,
             HandleCreateExchange(e, o, w)
      PROVE  EditsWell
  BY <1>1, <1>7, SendToIsWell DEF HandleCreateExchange
<1>8. ASSUME NEW e \in Employees, NEW b \in Branches, DropOnBranch(e, b) PROVE EditsWell
  <2>1. FieldValue("to_branch_id", b)
    BY DEF FieldValue
  <2> QED
    BY <1>8, <2>1, HandleModifyEffect, EditIsWell DEF DropOnBranch
<1>9. ASSUME ApplyChain PROVE EditsWell
  <2> DEFINE at(e) == CHOOSE j \in DOMAIN chainNodes : chainNodes[j] = e
             taken(e) == TakePlaceOf(modifications, e, NextNode(at(e)))
  <2>1. /\ Range(chainNodes) \subseteq employeesData.employee
        /\ modifications' = [e \in Employees |->
              IF e \notin Range(chainNodes) THEN modifications[e] ELSE taken(e)[e]]
    BY <1>9 DEF ApplyChain
  <2>2. ASSUME NEW e \in Range(chainNodes)
        PROVE  /\ ModificationsOK(taken(e))
               /\ Measured(taken(e), e) \/ taken(e) = modifications
    <3>1. PICK i \in DOMAIN chainNodes : e = chainNodes[i]
      BY DEF Range
    <3>2. NextNode(at(e)) \in employeesData.employee /\ e \in employeesData.employee
      BY <2>1, <3>1, ChainProperties
    <3> QED
      BY <3>2, TakePlaceOfEffect
  <2> HIDE DEF taken
  <2>3. Range(chainNodes) \subseteq Employees
    BY ChainProperties
  <2>4. ASSUME NEW e \in Employees
        PROVE  /\ modifications'[e] \in Modification \cup {NULL}
               /\ modifications'[e] \notin {NULL, modifications[e]} =>
                     e \in employeesData.employee /\ ~NoChange(e, modifications'[e])
    <3>1. CASE e \notin Range(chainNodes)
      BY <2>1, <3>1 DEF ModificationsOK
    <3>2. CASE e \in Range(chainNodes)
      <4>1. modifications'[e] = taken(e)[e]
        BY <2>1, <3>2
      <4> QED
        BY <2>1, <2>2, <3>2, <4>1 DEF ModificationsOK, Measured
    <3> QED
      BY <3>1, <3>2
  <2>5. modifications' = [e \in Employees |-> modifications'[e]]
    BY <2>1
  <2> QED
    BY <2>4, <2>5 DEF EditsWell, ModificationsOK
<1>10. ASSUME ClearAll PROVE EditsWell
  BY <1>10 DEF ClearAll, Edit, NoModifications, EditsWell, ModificationsOK
<1>11. EditsWell
  BY <1>3, <1>4, <1>5, <1>6, <1>7, <1>8, <1>9, <1>10 DEF EditModifications
<1>12. mode # NULL /\ UNCHANGED <<mode, data, sent>> /\ chainNodes' \in {chainNodes, <<>>}
  BY DEF EditModifications, HandleWorkstationClear, ClearModification, HandleWorkstationChange,
         DropOnWorkstation, HandleCreateExchange, DropOnBranch, ApplyChain, ClearAll, Edit
<1> QED
  BY <1>11, <1>12

-----------------------------------------------------------------------------
(* Types.                                                                    *)

\* A batch of modified employees is one the server can be sent.
LEMMA OrdersMakeBatches ==
  ASSUME ModificationsOK(modifications), Modified(modifications) # {},
         NEW order \in Orders(Modified(modifications))
  PROVE  /\ [i \in DOMAIN order |-> RowOf(order[i])] \in Batches
         /\ Range(order) = Modified(modifications)
<1> DEFINE M == Modified(modifications)
           n == Cardinality(M)
<1>1. M \subseteq Employees /\ IsFiniteSet(Employees) /\ Cardinality(Employees) <= MaxRows
  BY BatchesSuffice DEF Modified
<1>2. IsFiniteSet(M) /\ n <= Cardinality(Employees) /\ n \in Nat /\ n # 0
      /\ Cardinality(Employees) \in Nat
  BY <1>1, FS_Subset, FS_CardinalityType, FS_EmptySet
<1> HIDE DEF n
<1>3. n \in 1..MaxRows
  BY <1>1, <1>2
<1>4. order \in [1..n -> M] /\ Range(order) = M
  BY DEF Orders, n
<1>5. \A e \in M : RowOf(e) \in Row
  BY DEF ModificationsOK, Modified, RowOf, Row, Modification, Falsy
<1> DEFINE R == Row
           rs == [i \in DOMAIN order |-> RowOf(order[i])]
<1> HIDE DEF M, R
<1>6. rs \in [1..n -> R]
  BY <1>4, <1>5 DEF R
<1> HIDE DEF rs
<1>7. rs \in Batches
  BY <1>3, <1>6 DEF Batches, R
<1> QED
  BY <1>4, <1>7 DEF M, rs

\* What is fetched has the types of the tables.
LEMMA FetchIsTyped ==
  ASSUME Sound(db)
  PROVE  /\ \A seat \in FirstSeats(db) : \A equipped \in SUBSET CanBeEquipped(db, seat) :
               LET seen == EmployeesAt(db, seat, equipped) IN
               /\ seen.employee \subseteq Employees
               /\ \A e \in seen.employee :
                     /\ seen.post[e] \in Post /\ seen.place[e] \in Post
                     /\ seen.seat[e] \in WorkstationIds \cup {NULL}
         /\ WorkstationsAt(db).ids \subseteq WorkstationIds
         /\ \A w \in WorkstationsAt(db).ids : WorkstationsAt(db).spot[w] \in Spot
<1>1. /\ db.employee \subseteq Employees /\ db.workstations \subseteq WorkstationIds
      /\ \A e \in db.employee : db.post[e] \in Post
      /\ \A w \in db.workstations : db.spot[w] \in Spot
  BY DEF Sound, Tables, ReferencesResolve
<1>2. ASSUME NEW seat \in FirstSeats(db), NEW equipped \in SUBSET CanBeEquipped(db, seat),
             NEW e \in db.employee
      PROVE  LET seen == EmployeesAt(db, seat, equipped) IN
             /\ seen.post[e] \in Post /\ seen.place[e] \in Post
             /\ seen.seat[e] \in WorkstationIds \cup {NULL}
  BY <1>1 DEF FirstSeats, CanBeEquipped, EmployeesAt
<1> QED
  BY <1>1, <1>2 DEF EmployeesAt, WorkstationsAt

BuilderParts ==
    /\ TransitionsTypeOK /\ FetchedOK /\ ModificationsOK(modifications) /\ ChainOK
    /\ mode \in {NULL, "branch", "employee"}
    /\ sent # NULL => sent.rows \in Batches /\ sent.kind \in {"branch", "employee"}
    /\ sent = NULL => stage = "idle"

LEMMA BuilderTypeParts == BuilderTypeOK <=> BuilderParts
  BY DEF BuilderTypeOK, BuilderParts, FetchedOK, ModificationsOK, ChainOK

\* A step of the page or of the server is a step of Transitions, or none.
LEMMA BuilderStepIsStep ==
  ASSUME BuilderTypeOK, [BuilderNext]_<<vars, page>>
  PROVE  [Next]_vars
<1>1. CASE ServerAccepts
  <2>1. stage = "idle" /\ Accept(sent.kind, sent.rows)
        /\ sent.kind \in {"branch", "employee"} /\ sent.rows \in Batches
    BY <1>1 DEF ServerAccepts, Accept, BuilderTypeOK
  <2> QED
    BY <2>1 DEF Next, BatchStep
<1>2. CASE ServerWorks \/ ServerSucceeds \/ ServerFails \/ SomebodyElse
  BY <1>2 DEF ServerWorks, ServerSucceeds, ServerFails, SomebodyElse, Next, BatchStep
<1>3. CASE UNCHANGED vars
  BY <1>3
<1> QED
  BY <1>1, <1>2, <1>3 DEF BuilderNext, Server, ServerRefuses

\* The chain stays one of distinct employees.
LEMMA EditChainKeepsChain ==
  ASSUME FetchedOK, ChainOK, EditChain
  PROVE  ChainOK' /\ UNCHANGED <<mode, data, modifications, sent>>
<1>1. Len(chainNodes) \in Nat /\ DOMAIN chainNodes = 1..Len(chainNodes)
  BY DEF ChainOK
<1>2. CASE ClearChain
  BY <1>2 DEF ClearChain, SetChain, ChainOK
<1>3. ASSUME NEW e \in Employees, AddToChain(e) PROVE ChainOK'
  <2>1. chainNodes' = Append(chainNodes, e) /\ \A i \in DOMAIN chainNodes : chainNodes[i] # e
    BY <1>3 DEF AddToChain, SetChain, Range
  <2> QED
    BY <1>1, <2>1 DEF ChainOK
<1>4. ASSUME NEW e \in Employees, RemoveFromChain(e) PROVE ChainOK'
  <2>1. PICK i \in 1..Len(chainNodes) : chainNodes' = Without(i)
    BY <1>1, <1>4 DEF RemoveFromChain, SetChain
  <2> DEFINE n == Len(chainNodes)
  <2>2. /\ Without(i) \in Seq(Employees) /\ Len(Without(i)) = n - 1
        /\ \A j \in 1..(n - 1) : Without(i)[j] = chainNodes[IF j < i THEN j ELSE j + 1]
    BY <1>1 DEF ChainOK, Without
  <2>3. DOMAIN Without(i) = 1..(n - 1)
    BY <2>2
  <2> QED
    BY <1>1, <2>1, <2>2, <2>3 DEF ChainOK
<1> QED
  BY <1>2, <1>3, <1>4 DEF EditChain, ClearChain, AddToChain, RemoveFromChain, SetChain

LEMMA ChainKeptOrEmptied ==
  ASSUME ChainOK, chainNodes' \in {chainNodes, <<>>}
  PROVE  ChainOK'
<1>1. CASE chainNodes' = chainNodes
  BY <1>1 DEF ChainOK
<1>2. CASE chainNodes' = <<>>
  BY <1>2 DEF ChainOK
<1> QED
  BY <1>1, <1>2

LEMMA StepKeepsBuilderType ==
  ASSUME BuilderTypeOK, [BuilderNext]_<<vars, page>>
  PROVE  BuilderTypeOK'
<1> DEFINE Sent == /\ sent # NULL => sent.rows \in Batches /\ sent.kind \in {"branch", "employee"}
                   /\ sent = NULL => stage = "idle"
<1>1. TransitionsTypeOK'
  BY BuilderStepIsStep, StepKeepsType DEF BuilderTypeOK
<1>2. /\ TransitionsTypeOK /\ FetchedOK /\ ModificationsOK(modifications) /\ ChainOK
      /\ mode \in {NULL, "branch", "employee"} /\ Sent
      /\ Sound(db)
  BY BuilderTypeParts DEF BuilderParts, TransitionsTypeOK, TypeOK, Sound
<1>3. CASE UNCHANGED <<vars, page>>
  BY <1>1, <1>3 DEF BuilderTypeOK, vars, page, data
<1>4. CASE EditModifications /\ UNCHANGED vars
  <2>1. /\ ModificationsOK(modifications') /\ chainNodes' \in {chainNodes, <<>>}
        /\ UNCHANGED <<mode, employeesData, workstations, sent, stage>>
    BY <1>2, <1>4, EditModificationsIsWell DEF EditsWell, data, vars
  <2>2. ChainOK'
    BY <1>2, <2>1, ChainKeptOrEmptied
  <2> QED
    BY <1>1, <1>2, <2>1, <2>2 DEF BuilderTypeOK, FetchedOK, ModificationsOK, ChainOK
<1>5. CASE EditChain /\ UNCHANGED vars
  <2>1. ChainOK' /\ UNCHANGED <<mode, employeesData, workstations, modifications, sent, stage>>
    BY <1>2, <1>5, EditChainKeepsChain DEF data, vars
  <2> QED
    BY <1>1, <1>2, <2>1 DEF BuilderTypeOK, FetchedOK, ModificationsOK, ChainOK
<1>6. CASE UNCHANGED vars /\ ((\E m \in {"branch", "employee"} : SelectMode(m)) \/ ResetAll)
  <2>1. /\ mode' \in {NULL, "branch", "employee"}
        /\ modifications' \in {modifications, NoModifications}
        /\ UNCHANGED <<employeesData, workstations, chainNodes, sent, stage>>
    BY <1>6 DEF SelectMode, ResetAll, data, vars
  <2>2. ModificationsOK(modifications')
    BY <1>2, <2>1 DEF ModificationsOK, NoModifications
  <2> QED
    BY <1>1, <1>2, <2>1, <2>2 DEF BuilderTypeOK, FetchedOK, ModificationsOK, ChainOK
<1>7. CASE HandleSubmit /\ UNCHANGED vars
  <2>1. /\ mode \in {"branch", "employee"}
        /\ UNCHANGED <<mode, employeesData, workstations, modifications, chainNodes, stage>>
        /\ sent = NULL
    BY <1>2, <1>7 DEF HandleSubmit, data, vars
  <2>2. sent'.rows \in Batches /\ sent'.kind = mode
    BY <1>2, <1>7, OrdersMakeBatches DEF HandleSubmit
  <2> QED
    BY <1>1, <1>2, <2>1, <2>2 DEF BuilderTypeOK, FetchedOK, ModificationsOK, ChainOK
<1>8. CASE Fetch /\ UNCHANGED vars
  <2>1. FetchedOK' /\ UNCHANGED <<mode, modifications, chainNodes, sent, stage>>
    BY <1>2, <1>8, FetchIsTyped DEF Fetch, RefetchEmployees, RefetchWorkstations, FetchedOK, vars
  <2> QED
    BY <1>1, <1>2, <2>1 DEF BuilderTypeOK, FetchedOK, ModificationsOK, ChainOK
<1>9. CASE ServerAccepts \/ ServerWorks \/ SomebodyElse
  <2>1. UNCHANGED page /\ sent = NULL => stage' = "idle"
    BY <1>2, <1>9 DEF ServerAccepts, ServerWorks, SomebodyElse, Accept, Begin, SkipRow, MoveRow,
                      OtherRequest, batch
  <2>2. UNCHANGED page
    BY <1>9 DEF ServerAccepts, ServerWorks, SomebodyElse
  <2> QED
    BY <1>1, <1>2, <2>1, <2>2 DEF BuilderTypeOK, FetchedOK, ModificationsOK, ChainOK, page, data
<1>10. CASE ServerRefuses \/ ServerSucceeds \/ ServerFails
  <2>1. /\ mode' \in {NULL, "branch", "employee"}
        /\ modifications' \in {modifications, NoModifications}
        /\ chainNodes' \in {chainNodes, <<>>}
        /\ sent' = NULL /\ stage' = "idle"
        /\ UNCHANGED <<employeesData, workstations>>
    BY <1>2, <1>10 DEF ServerRefuses, ServerSucceeds, ServerFails, Commit, Rollback, data, vars
  <2>2. ModificationsOK(modifications')
    BY <1>2, <2>1 DEF ModificationsOK, NoModifications
  <2>3. ChainOK'
    BY <1>2, <2>1, ChainKeptOrEmptied
  <2> QED
    BY <1>1, <1>2, <2>1, <2>2, <2>3 DEF BuilderTypeOK, FetchedOK, ModificationsOK, ChainOK
<1> QED
  BY <1>3, <1>4, <1>5, <1>6, <1>7, <1>8, <1>9, <1>10 DEF BuilderNext, PageStep, Server

\* The page and the server keep their types.
THEOREM BuilderTypeCorrect == BuilderSpec => []BuilderTypeOK
<1>1. TInit /\ (\E equipped \in SUBSET Employees : BuilderInit(equipped)) => BuilderTypeOK
  <2> SUFFICES ASSUME TInit, NEW equipped \in SUBSET Employees, BuilderInit(equipped)
               PROVE  BuilderTypeOK
    OBVIOUS
  <2>1. TransitionsTypeOK /\ Sound(db) /\ stage = "idle"
    <3>1. Sound(db)
      BY MigratedIsSound DEF TInit, Init
    <3> QED
      BY <3>1 DEF TInit, BatchInit, TransitionsTypeOK, TypeOK, Sound, NoGoal
  <2>2. FetchedOK
    BY <2>1, FetchIsTyped DEF BuilderInit, FetchedOK
  <2>3. /\ mode = NULL /\ sent = NULL /\ chainNodes = <<>>
        /\ ModificationsOK(modifications)
    BY DEF BuilderInit, ModificationsOK, NoModifications
  <2>4. ChainOK
    BY <2>3 DEF ChainOK
  <2> QED
    BY <2>1, <2>2, <2>3, <2>4, BuilderTypeParts DEF BuilderParts
<1>2. BuilderTypeOK /\ [BuilderNext]_<<vars, page>> => BuilderTypeOK'
  BY StepKeepsBuilderType
<1> QED
  BY <1>1, <1>2, PTL DEF BuilderSpec

\* What the page has the server do is a behaviour of Transitions, so what holds
\* of batches holds of those the page sends.
THEOREM BuilderSendsBatches == BuilderSpec => TSpec
<1>1. BuilderTypeOK /\ [BuilderNext]_<<vars, page>> => [Next]_vars
  BY BuilderStepIsStep
<1> QED
  BY <1>1, BuilderTypeCorrect, PTL DEF BuilderSpec, TSpec

-----------------------------------------------------------------------------
(* What the page and the validator take for a change.                        *)

\* A modification that differs from where the page found the employee makes a
\* row that changes something, if the page found them where they are.
LEMMA MeasuredIsChange ==
  ASSUME BuilderTypeOK, Current(data), NEW e \in employeesData.employee,
         employeesData.place[e] = employeesData.post[e],
         modifications'[e] \in Modification, ~NoChange(e, modifications'[e])
  PROVE  SomethingChanges(db, RowOf(e)')
<1> DEFINE m == modifications'[e]
           r == RowOf(e)'
           seat == employeesData.seat[e]
<1>1. /\ e \in db.employee /\ db.post[e] = employeesData.post[e] /\ db.post[e] \in Post
      /\ seat \in AnyFirst(HeldBy(db, e))
  BY DEF Current, data, FirstSeats, BuilderTypeOK
<1>2. /\ m.to_branch_id \in Branches /\ m.to_position_id \in Positions
      /\ m = [to_branch_id |-> m.to_branch_id, to_position_id |-> m.to_position_id,
              to_workstation_id |-> m.to_workstation_id]
      /\ m.to_workstation_id \in WorkstationIds \cup Falsy
  BY DEF Modification
<1>3. /\ r.employee_id = e /\ r.to_branch_id = m.to_branch_id
      /\ r.to_position_id = m.to_position_id
      /\ r.to_workstation_id = IF m.to_workstation_id \in Falsy THEN NULL ELSE m.to_workstation_id
  BY DEF RowOf
<1> HIDE DEF m, r, seat
<1>4. ASSUME seat # r.to_workstation_id PROVE SomethingChanges(db, r)
  BY <1>1, <1>3, <1>4 DEF SomethingChanges
<1>5. ASSUME seat = r.to_workstation_id PROVE SomethingChanges(db, r)
  <2>1. seat # NULL /\ m.to_workstation_id = seat
    BY <1>2, <1>3, <1>5 DEF NoChange, m, seat, Falsy
  <2>2. \/ m.to_branch_id # db.post[e].branch_id
        \/ m.to_position_id # db.post[e].position_id
    BY <1>1, <1>2, <2>1 DEF NoChange, Original, m, seat
  <2>3. Destination(db, r) = [branch_id |-> m.to_branch_id, position_id |-> m.to_position_id]
    BY <1>2, <1>3 DEF Destination
  <2> QED
    BY <1>1, <1>3, <2>2, <2>3 DEF SomethingChanges, Post
<1> QED
  BY <1>4, <1>5 DEF r

\* Only an edit writes a modification.
LEMMA OnlyEditsModify ==
  ASSUME BuilderTypeOK, [BuilderNext]_<<vars, page>>,
         NEW e \in Employees, modifications'[e] \notin {NULL, modifications[e]}
  PROVE  EditModifications
<1>1. NoModifications[e] = NULL
  BY DEF NoModifications
<1>2. ASSUME EditChain PROVE UNCHANGED modifications
  BY <1>2 DEF EditChain, ClearChain, AddToChain, RemoveFromChain, SetChain
<1>3. ASSUME Fetch PROVE UNCHANGED modifications
  BY <1>3 DEF Fetch, RefetchEmployees, RefetchWorkstations
<1>4. ASSUME \E m \in {"branch", "employee"} : SelectMode(m) PROVE UNCHANGED modifications
  BY <1>4 DEF SelectMode
<1>5. ASSUME ResetAll PROVE modifications' = NoModifications
  BY <1>5 DEF ResetAll
<1>6. ASSUME HandleSubmit PROVE UNCHANGED modifications
  BY <1>6 DEF HandleSubmit
<1>7. ASSUME Server PROVE modifications' \in {modifications, NoModifications}
  BY <1>7 DEF Server, ServerAccepts, ServerRefuses, ServerWorks, ServerSucceeds, ServerFails, page
<1>8. ASSUME SomebodyElse \/ UNCHANGED <<vars, page>> PROVE UNCHANGED modifications
  BY <1>8 DEF SomebodyElse, page
<1> QED
  BY <1>1, <1>2, <1>3, <1>4, <1>5, <1>6, <1>7, <1>8 DEF BuilderNext, PageStep

\* An edit made on current data is a change in the validator's eyes too, for
\* employees whose assets stand where their employee row says.
THEOREM EditsAreChangesHolds == BuilderSpec => EditsAreChanges
<1> DEFINE Changes == \A e \in Employees :
          (/\ modifications'[e] \notin {NULL, modifications[e]}
           /\ Current(data)
           /\ employeesData.place[e] = employeesData.post[e])
          => SomethingChanges(db, RowOf(e)')
<1>1. BuilderTypeOK /\ [BuilderNext]_<<vars, page>> => [Changes]_page
  <2> SUFFICES ASSUME BuilderTypeOK, [BuilderNext]_<<vars, page>>, NEW e \in Employees,
                      modifications'[e] \notin {NULL, modifications[e]}, Current(data),
                      employeesData.place[e] = employeesData.post[e]
               PROVE  SomethingChanges(db, RowOf(e)')
    BY Zenon
  <2>1. EditModifications
    BY OnlyEditsModify
  <2>2. EditsWell
    BY <2>1, BuilderTypeParts, EditModificationsIsWell DEF BuilderParts
  <2>3. /\ e \in employeesData.employee /\ ~NoChange(e, modifications'[e])
        /\ modifications'[e] \in Modification
    BY <2>2 DEF EditsWell, ModificationsOK
  <2> QED
    BY <2>3, MeasuredIsChange
<1> QED
  BY <1>1, BuilderTypeCorrect, PTL DEF BuilderSpec, EditsAreChanges

-----------------------------------------------------------------------------
(* The chain is applied.                                                     *)

\* Only applying the chain empties it and writes modifications where there
\* were none.
LEMMA OnlyApplyChainEmpties ==
  ASSUME BuilderTypeOK, [BuilderNext]_<<vars, page>>,
         chainNodes # <<>>, chainNodes' = <<>>,
         modifications = NoModifications, modifications' # modifications
  PROVE  ApplyChain
<1>1. ASSUME EditModifications PROVE ApplyChain \/ UNCHANGED chainNodes
  BY <1>1 DEF EditModifications, HandleWorkstationClear, ClearModification, HandleWorkstationChange,
              DropOnWorkstation, HandleCreateExchange, DropOnBranch, ClearAll, Edit
<1>2. ASSUME EditChain PROVE UNCHANGED modifications
  BY <1>2 DEF EditChain, ClearChain, AddToChain, RemoveFromChain, SetChain
<1>3. ASSUME Fetch PROVE UNCHANGED modifications
  BY <1>3 DEF Fetch, RefetchEmployees, RefetchWorkstations
<1>4. ASSUME \E m \in {"branch", "employee"} : SelectMode(m) PROVE UNCHANGED modifications
  BY <1>4 DEF SelectMode
<1>5. ASSUME ResetAll PROVE modifications' = NoModifications
  BY <1>5 DEF ResetAll
<1>6. ASSUME HandleSubmit PROVE UNCHANGED modifications
  BY <1>6 DEF HandleSubmit
<1>7. ASSUME Server PROVE modifications' \in {modifications, NoModifications}
  BY <1>7 DEF Server, ServerAccepts, ServerRefuses, ServerWorks, ServerSucceeds, ServerFails, page
<1>8. ASSUME SomebodyElse \/ UNCHANGED <<vars, page>> PROVE UNCHANGED modifications
  BY <1>8 DEF SomebodyElse, page
<1> QED
  BY <1>1, <1>2, <1>3, <1>4, <1>5, <1>6, <1>7, <1>8 DEF BuilderNext, PageStep

\* What the applied chain holds for each of its employees, who is not the next
\* one and sits elsewhere.
LEMMA RotationEntries ==
  ASSUME BuilderTypeOK, ApplyChain, modifications = NoModifications,
         Current(data), ChainIsSeated, NEW i \in DOMAIN chainNodes
  PROVE  LET e == chainNodes[i]
             next == NextNode(i)
             seat == employeesData.seat IN
         /\ e \in db.employee /\ next \in db.employee /\ next # e
         /\ seat[e] \in HeldBy(db, e) /\ seat[next] \in HeldBy(db, next)
         /\ seat[e] # seat[next]
         /\ modifications'[e] = [to_branch_id      |-> db.post[next].branch_id,
                                 to_position_id    |-> db.post[next].position_id,
                                 to_workstation_id |-> seat[next]]
<1> DEFINE e == chainNodes[i]
           next == NextNode(i)
           seat == employeesData.seat
           S == Range(chainNodes)
<1>1. /\ FetchedOK /\ ModificationsOK(modifications) /\ ChainOK /\ Sound(db)
  BY BuilderTypeParts DEF BuilderParts, TransitionsTypeOK, TypeOK, Sound
<1>2. /\ e \in S /\ next \in S /\ next # e
      /\ (CHOOSE j \in DOMAIN chainNodes : chainNodes[j] = e) = i
      /\ S \subseteq Employees
  <2>1. /\ Len(chainNodes) \in Nat /\ DOMAIN chainNodes = 1..Len(chainNodes)
        /\ e \in S /\ next \in S /\ S \subseteq Employees
        /\ next = chainNodes[IF i = Len(chainNodes) THEN 1 ELSE i + 1]
        /\ (CHOOSE j \in DOMAIN chainNodes : chainNodes[j] = e) = i
    BY <1>1, ChainProperties
  <2>2. Len(chainNodes) >= 2
    BY DEF ApplyChain
  <2>3. (IF i = Len(chainNodes) THEN 1 ELSE i + 1) \in DOMAIN chainNodes \ {i}
    <3> DEFINE n == Len(chainNodes)
    <3>1. n \in Nat /\ n >= 2 /\ i \in 1..n
      BY <2>1, <2>2
    <3> HIDE DEF n
    <3>2. (IF i = n THEN 1 ELSE i + 1) \in (1..n) \ {i}
      BY <3>1
    <3> QED
      BY <2>1, <3>2 DEF n
  <2>4. next # e
    BY <1>1, <2>1, <2>3 DEF ChainOK
  <2> QED
    BY <2>1, <2>4
<1> HIDE DEF e, next, S
<1>3. /\ S \subseteq employeesData.employee
      /\ modifications'[e] = TakePlaceOf(modifications, e, NextNode(i))[e]
  BY <1>2 DEF ApplyChain, S
<1>4. ASSUME NEW f \in S
      PROVE  /\ f \in db.employee /\ seat[f] \in HeldBy(db, f)
             /\ seat[f] # NULL /\ seat[f] \in workstations.ids
             /\ workstations.spot[seat[f]] = db.post[f] /\ db.post[f] \in Post
             /\ db.employee_id[seat[f]] = f
             /\ employeesData.place[f] \in Post
  <2>1. /\ f \in db.employee /\ f \in Employees
        /\ seat[f] # NULL
        /\ seat[f] \in AnyFirst(HeldBy(db, f))
        /\ workstations = WorkstationsAt(db)
        /\ db.spot[seat[f]] = db.post[f]
        /\ employeesData.place[f] \in Post
    BY <1>1, <1>2, <1>3 DEF Current, data, FirstSeats, FetchedOK, ChainIsSeated, S
  <2>2. seat[f] \in HeldBy(db, f)
    BY <2>1 DEF AnyFirst
  <2>3. seat[f] \in db.workstations /\ db.employee_id[seat[f]] = f
    BY <2>2 DEF HeldBy
  <2>4. db.post[f] \in Post
    BY <1>1, <2>1 DEF Sound, Tables, ReferencesResolve
  <2> QED
    BY <2>1, <2>2, <2>3, <2>4 DEF WorkstationsAt
<1>5. seat[e] # seat[next]
  BY <1>2, <1>4
<1>6. modifications'[e] = SendTo(modifications, e, seat[next], employeesData.place[e].position_id)[e]
  BY <1>2, <1>3, <1>4 DEF TakePlaceOf, next
<1>7. /\ e \in employeesData.employee /\ seat[next] \in workstations.ids
      /\ employeesData.place[e].position_id \in Positions
      /\ modifications[e] = NULL /\ seat[e] # NULL
      /\ workstations.spot[seat[next]].position_id # NULL
  BY <1>2, <1>3, <1>4 DEF NoModifications, Post
<1>8. modifications'[e] = [to_branch_id      |-> workstations.spot[seat[next]].branch_id,
                          to_position_id    |-> workstations.spot[seat[next]].position_id,
                          to_workstation_id |-> seat[next]]
  BY <1>1, <1>5, <1>6, <1>7, SendToEffect
<1>9. modifications'[e] = [to_branch_id      |-> db.post[next].branch_id,
                          to_position_id    |-> db.post[next].position_id,
                          to_workstation_id |-> seat[next]]
  BY <1>2, <1>4, <1>8
<1> QED
  BY <1>2, <1>4, <1>5, <1>9 DEF e, next

\* An order names each employee once.
LEMMA OrdersAreInjective ==
  ASSUME NEW S \in SUBSET Employees, NEW order \in Orders(S)
  PROVE  \A i, j \in DOMAIN order : order[i] = order[j] => i = j
<1> DEFINE n == Cardinality(S)
<1>1. IsFiniteSet(S) /\ n \in Nat
  BY BatchesSuffice, FS_Subset, FS_CardinalityType
<1>2. order \in [1..n -> S] /\ \A x \in S : \E i \in 1..n : order[i] = x
  BY DEF Orders, Range
<1>3. order \in Surjection(1..n, S)
  BY <1>2 DEF Surjection
<1>4. IsFiniteSet(1..n) /\ Cardinality(1..n) = n
  BY <1>1, FS_Interval
<1>5. order \in Injection(1..n, S)
  BY <1>3, <1>4, FS_SurjSameCardinalityImpliesInj
<1> QED
  BY <1>2, <1>5 DEF Injection, IsInjective

\* Everyone goes to the seat of the next, and the validator accepts it in any
\* order: each finds at their destination somebody who leaves it.
LEMMA AppliedChainIsRotation ==
  ASSUME BuilderTypeOK, ApplyChain, modifications = NoModifications,
         Current(data), ChainIsSeated
  PROVE  /\ Range(chainNodes) \subseteq Modified(modifications')
         /\ {modifications'[e].to_workstation_id : e \in Range(chainNodes)}
               = {employeesData.seat[e] : e \in Range(chainNodes)}
         /\ \A order \in Orders(Range(chainNodes)) :
               Passes(db, mode, [i \in DOMAIN order |-> RowOf(order[i])'])
<1> DEFINE S == Range(chainNodes)
           seat == employeesData.seat
           n == Len(chainNodes)
           after(i) == IF i = n THEN 1 ELSE i + 1
<1>1. /\ ChainOK /\ Sound(db) /\ mode \in {"branch", "employee"}
  BY BuilderTypeParts DEF BuilderParts, TransitionsTypeOK, TypeOK, Sound, ApplyChain
<1>2. /\ n \in Nat /\ DOMAIN chainNodes = 1..n /\ S \subseteq Employees
      /\ \A i \in 1..n : /\ chainNodes[i] \in S /\ NextNode(i) \in S
                         /\ NextNode(i) = chainNodes[after(i)]
      /\ \A e \in S : \E i \in 1..n : chainNodes[i] = e
  <2>1. \A e \in S : \E i \in DOMAIN chainNodes : chainNodes[i] = e
    BY DEF Range
  <2> QED
    BY <1>1, <2>1, ChainProperties
<1> HIDE DEF S, n
<1>3. \A j \in 1..n : \E i \in 1..n : after(i) = j
  <2> SUFFICES ASSUME NEW j \in 1..n PROVE \E i \in 1..n : after(i) = j
    OBVIOUS
  <2>1. CASE j = 1
    <3>1. n \in 1..n /\ after(n) = j
      BY <1>2, <2>1
    <3> QED
      BY <3>1
  <2>2. CASE j > 1
    <3>1. j - 1 \in 1..n /\ after(j - 1) = j
      BY <1>2, <2>2
    <3> QED
      BY <3>1
  <2> QED
    BY <1>2, <2>1, <2>2
<1> HIDE DEF after
\* The entry and the row of each, with the employee who is next.
<1>4. ASSUME NEW e \in S
      PROVE  \E next \in S :
               /\ e \in db.employee /\ next \in db.employee /\ next # e
               /\ seat[e] \in HeldBy(db, e) /\ seat[next] \in HeldBy(db, next)
               /\ seat[e] # seat[next]
               /\ modifications'[e] = [to_branch_id      |-> db.post[next].branch_id,
                                       to_position_id    |-> db.post[next].position_id,
                                       to_workstation_id |-> seat[next]]
  <2>1. PICK i \in DOMAIN chainNodes : chainNodes[i] = e
    BY <1>2
  <2> QED
    BY <1>2, <2>1, RotationEntries
<1>5. ASSUME NEW f \in S
      PROVE  \E e \in S : modifications'[e].to_workstation_id = seat[f]
  <2>1. PICK j \in 1..n : chainNodes[j] = f
    BY <1>2
  <2>2. PICK i \in 1..n : after(i) = j
    BY <1>3
  <2>3. NextNode(i) = f /\ chainNodes[i] \in S
    BY <1>2, <2>1, <2>2
  <2>4. modifications'[chainNodes[i]] = [to_branch_id      |-> db.post[f].branch_id,
                                        to_position_id    |-> db.post[f].position_id,
                                        to_workstation_id |-> seat[f]]
    BY <1>2, <2>3, RotationEntries
  <2>5. modifications'[chainNodes[i]].to_workstation_id = seat[f]
    BY <2>4
  <2> QED
    BY <2>3, <2>5
<1>6. S \subseteq Modified(modifications')
  <2> SUFFICES ASSUME NEW e \in S PROVE e \in Modified(modifications')
    OBVIOUS
  <2>1. PICK next \in S : /\ next \in db.employee /\ seat[next] \in HeldBy(db, next)
                          /\ modifications'[e] = [to_branch_id      |-> db.post[next].branch_id,
                                                  to_position_id    |-> db.post[next].position_id,
                                                  to_workstation_id |-> seat[next]]
    BY <1>4
  <2>2. modifications'[e] \in Modification
    BY <1>1, <2>1 DEF Modification, Sound, Tables, ReferencesResolve, HeldBy, Post
  <2> QED
    BY <1>2, <2>2 DEF Modified
<1>7. {modifications'[e].to_workstation_id : e \in S} = {seat[e] : e \in S}
  <2>1. ASSUME NEW e \in S PROVE \E f \in S : modifications'[e].to_workstation_id = seat[f]
    <3>1. PICK f \in S : modifications'[e] = [to_branch_id      |-> db.post[f].branch_id,
                                              to_position_id    |-> db.post[f].position_id,
                                              to_workstation_id |-> seat[f]]
      BY <1>4
    <3> QED
      BY <3>1
  <2>2. \A f \in S : \E e \in S : seat[f] = modifications'[e].to_workstation_id
    BY <1>5
  <2> HIDE DEF seat
  <2>3. ASSUME NEW x PROVE x \in {modifications'[e].to_workstation_id : e \in S}
                             <=> x \in {seat[e] : e \in S}
    BY <2>1, <2>2
  <2> QED
    BY <2>3 DEF seat
<1>8. ASSUME NEW order \in Orders(S)
      PROVE  Passes(db, mode, [i \in DOMAIN order |-> RowOf(order[i])'])
  <2> DEFINE rs == [i \in DOMAIN order |-> RowOf(order[i])']
  <2>1. \A i \in DOMAIN order : order[i] \in S
    BY DEF Orders
  <2>2. \A e \in S : \E i \in DOMAIN order : order[i] = e
    BY DEF Orders, Range
  <2>3. \A i, j \in DOMAIN order : order[i] = order[j] => i = j
    BY <1>2, OrdersAreInjective
  <2>4. ASSUME NEW i \in DOMAIN rs
        PROVE  /\ rs[i].employee_id = order[i] /\ order[i] \in S /\ order[i] \in db.employee
               /\ \E next \in S :
                    /\ next \in db.employee /\ next # order[i]
                    /\ seat[order[i]] \in HeldBy(db, order[i])
                    /\ seat[next] \in HeldBy(db, next)
                    /\ seat[order[i]] # seat[next]
                    /\ rs[i].to_workstation_id = seat[next]
                    /\ Destination(db, rs[i]) = db.post[next]
    <3> DEFINE e == order[i]
    <3>1. PICK next \in S :
               /\ e \in db.employee /\ next \in db.employee /\ next # e
               /\ seat[e] \in HeldBy(db, e) /\ seat[next] \in HeldBy(db, next)
               /\ seat[e] # seat[next]
               /\ modifications'[e] = [to_branch_id      |-> db.post[next].branch_id,
                                       to_position_id    |-> db.post[next].position_id,
                                       to_workstation_id |-> seat[next]]
      BY <1>4, <2>1
    <3>2. seat[next] \notin Falsy /\ db.post[next] \in Post
      BY <1>1, <3>1 DEF HeldBy, Falsy, Sound, Tables, ReferencesResolve
    <3>3. rs[i] = [employee_id |-> e, to_branch_id |-> db.post[next].branch_id,
                   to_position_id |-> db.post[next].position_id, to_workstation_id |-> seat[next]]
      BY <3>1, <3>2 DEF RowOf
    <3>4. Destination(db, rs[i]) = db.post[next]
      BY <3>2, <3>3 DEF Destination, Post
    <3> QED
      BY <2>1, <3>1, <3>3, <3>4
  <2>5. DOMAIN rs = DOMAIN order
    OBVIOUS
  <2> HIDE DEF rs
  <2>6. WellFormed(db, rs)
    BY <2>3, <2>4, <2>5 DEF WellFormed, HeldBy
  <2>7. ASSUME NEW i \in DOMAIN rs PROVE SomethingChanges(db, rs[i])
    BY <2>4 DEF SomethingChanges, AnyFirst
  <2>8. ASSUME NEW i \in DOMAIN rs PROVE VacantOrSwap(db, rs, rs[i])
    <3>1. PICK o \in S : o \in db.employee /\ o # order[i] /\ Destination(db, rs[i]) = db.post[o]
      BY <2>4
    <3>2. PICK j \in DOMAIN rs : order[j] = o
      BY <2>2, <2>5
    <3>3. PICK next \in S : next # o /\ Destination(db, rs[j]) = db.post[next]
      BY <2>4, <3>2
    <3>4. db.post[next] # db.post[o]
      BY <3>3 DEF ChainIsSeated, PostsExclusive, S
    <3>5. o \in OthersAt(db, rs[i])
      BY <2>4, <3>1 DEF OthersAt
    <3>6. MovesAway(db, rs, o)
      BY <2>4, <3>2, <3>3, <3>4 DEF MovesAway
    <3> QED
      BY <3>5, <3>6 DEF VacantOrSwap
  <2> QED
    BY <2>6, <2>7, <2>8 DEF Passes, rs
<1> QED
  BY <1>6, <1>7, <1>8 DEF S

\* A chain of seated employees, of any length, applied to a page without other
\* modifications is a rotation that the server accepts.
THEOREM ChainsAreRotationsHolds == BuilderSpec => ChainsAreRotations
<1> DEFINE Rotation ==
      (/\ chainNodes # <<>> /\ chainNodes' = <<>> /\ modifications' # modifications
       /\ modifications = NoModifications
       /\ Current(data) /\ ChainIsSeated)
      => /\ Range(chainNodes) \subseteq Modified(modifications')
         /\ {modifications'[e].to_workstation_id : e \in Range(chainNodes)}
               = {employeesData.seat[e] : e \in Range(chainNodes)}
         /\ \A order \in Orders(Range(chainNodes)) :
               Passes(db, mode, [i \in DOMAIN order |-> RowOf(order[i])'])
<1>1. BuilderTypeOK /\ [BuilderNext]_<<vars, page>> => [Rotation]_page
  BY OnlyApplyChainEmpties, AppliedChainIsRotation
<1> QED
  BY <1>1, BuilderTypeCorrect, PTL DEF BuilderSpec, ChainsAreRotations

-----------------------------------------------------------------------------
(* What the panel promised is what the batch does.                           *)

\* What the panel showed, read off the rows that were sent: who names the
\* workstation, and who was seen there and names none.
Promised(s) ==
    \A w \in WorkstationIds :
       /\ s.arriving[w] = {e \in Employees : \E i \in DOMAIN s.rows :
                              s.rows[i].employee_id = e /\ s.rows[i].to_workstation_id = w}
       /\ s.staying[w] = {e \in s.fetched[1].employee :
                             /\ s.fetched[1].seat[e] = w
                             /\ \A i \in DOMAIN s.rows : s.rows[i].employee_id = e =>
                                   s.rows[i].to_workstation_id = NULL}

OneSeatEach == \A e \in Employees : \A v, w \in HeldBy(db, e) : v = w

\* Whoever was moved was given the workstation their row names.
GoalsAreThoseSent ==
    \A i \in DOMAIN rows :
       (rows[i].employee_id \in moved /\ rows[i].to_workstation_id # NULL) =>
          new_workstation_id[rows[i].employee_id] = rows[i].to_workstation_id

PreviewInvariant ==
    /\ stage # "idle" => rows = sent.rows
    /\ sent # NULL => Promised(sent)
    /\ stage = "running" /\ OneSeatEach => GoalsAreThoseSent

\* The row being worked on is of an employee who was not moved yet.
LEMMA RowIsOfAnother ==
  ASSUME TransitionsTypeOK, BatchInvariant, MoveRow
  PROVE  /\ rows[k].employee_id \in Employees \ moved
         /\ \A i \in DOMAIN rows : rows[i].employee_id = rows[k].employee_id => i = k
<1>1. /\ stage = "running" /\ DistinctRows /\ SeatsSoFar
      /\ Len(rows) \in Nat /\ DOMAIN rows = 1..Len(rows) /\ k \in 1..Len(rows)
      /\ rows[k].employee_id \in Employees
  BY RowsAreRows DEF BatchInvariant, TransitionsTypeOK, MoveRow, Row
<1>2. ASSUME NEW i \in 1..(k - 1), rows[i].employee_id = rows[k].employee_id PROVE FALSE
  <2>1. i \in DOMAIN rows /\ k \in DOMAIN rows /\ i # k
    BY <1>1
  <2> QED
    BY <1>1, <1>2, <2>1 DEF DistinctRows
<1> QED
  BY <1>1, <1>2 DEF SeatsSoFar, Finished, DistinctRows

\* Nobody is refused the workstation of their row, if everyone held one seat at
\* most: it is vacated before, should it be their own.
LEMMA MoveRowGivesGoal ==
  ASSUME TransitionsTypeOK, BatchInvariant, OneSeatEach, MoveRow,
         rows[k].to_workstation_id # NULL
  PROVE  new_workstation_id' =
            [new_workstation_id EXCEPT ![rows[k].employee_id] = rows[k].to_workstation_id]
<1> DEFINE r == rows[k]
           e == r.employee_id
           post == NewPost(wc, kind, r)
           w == r.to_workstation_id
<1>1. /\ SeatsSoFar /\ Sound(wc) /\ Sound(db) /\ r \in Row
  BY RowsAreRows DEF BatchInvariant, TransitionsTypeOK, TypeOK, MoveRow, Sound
<1>2. e \in Employees \ moved /\ w \in WorkstationIds
  BY <1>1, RowIsOfAnother DEF Row
<1>3. PICK old \in OldWorkstation(wc, e) :
        \E goal \in Goals(Released(wc, e, post, old), r, post) :
           new_workstation_id' = [new_workstation_id EXCEPT ![e] =
                IF AssignRefused(goal[2], goal[1], e, TRUE) THEN NULL ELSE goal[1]]
  BY Zenon DEF MoveRow
<1> DEFINE released == Released(wc, e, post, old)
<1>4. new_workstation_id' = [new_workstation_id EXCEPT ![e] =
                IF AssignRefused(released, w, e, TRUE) THEN NULL ELSE w]
  BY <1>3 DEF Goals
<1>5. \A v \in HeldBy(wc, e) : v \in HeldBy(db, e)
  <2> SUFFICES ASSUME NEW v \in HeldBy(wc, e) PROVE v \in HeldBy(db, e)
    OBVIOUS
  <2>1. v \in WorkstationIds /\ wc.employee_id[v] = e
    BY <1>1 DEF HeldBy, Sound, Tables
  <2>2. v \notin Filled
    BY <1>1, <1>2, <2>1 DEF SeatsSoFar
  <2>3. db.employee_id[v] = e
    BY <1>1, <1>2, <2>1, <2>2 DEF SeatsSoFar
  <2> QED
    BY <1>1, <1>2, <2>1, <2>3 DEF HeldBy, Sound, ReferencesResolve
<1>6. \A u, v \in HeldBy(wc, e) : u = v
  BY <1>2, <1>5 DEF OneSeatEach
<1>7. released.employee_id[w] # e
  <2>1. wc.employee_id \in [WorkstationIds -> Employees \cup {NULL}] /\ wc \in Tables
    BY <1>1 DEF Sound, Tables
  <2>2. CASE wc.employee_id[w] = e
    <3>1. w \in HeldBy(wc, e)
      BY <1>1, <1>2, <2>2 DEF HeldBy, Sound, ReferencesResolve
    <3>2. old = w
      BY <1>3, <1>6, <3>1 DEF OldWorkstation, AnyFirst
    <3> QED
      BY <1>2, <2>1, <3>2 DEF Released, Vacate, Tables
  <2>3. CASE wc.employee_id[w] # e
    <3>1. old \in WorkstationIds \cup {NULL}
      BY <1>1, <1>3 DEF OldWorkstation, AnyFirst, HeldBy, Sound, Tables
    <3> QED
      BY <1>2, <2>1, <2>3, <3>1 DEF Released, Vacate, Tables
  <2> QED
    BY <2>2, <2>3
<1> HIDE DEF released
<1> QED
  BY <1>4, <1>7 DEF AssignRefused

\* What the page sends is what the panel shows.
LEMMA SubmissionIsPromised ==
  ASSUME BuilderTypeOK, HandleSubmit
  PROVE  Promised(sent')
<1>1. FetchedOK /\ ModificationsOK(modifications)
  BY BuilderTypeParts DEF BuilderParts
<1>2. PICK order \in Orders(Modified(modifications)) :
        sent' = [kind     |-> mode,
                 rows     |-> [i \in DOMAIN order |-> RowOf(order[i])],
                 arriving |-> [w \in WorkstationIds |-> Arriving(modifications, w)],
                 staying  |-> [w \in WorkstationIds |-> Staying(modifications, w)],
                 fetched  |-> data]
  BY DEF HandleSubmit
<1>3. /\ \A i \in DOMAIN order : order[i] \in Modified(modifications)
      /\ \A e \in Modified(modifications) : \E i \in DOMAIN order : order[i] = e
  BY DEF Orders, Range
<1>4. /\ DOMAIN sent'.rows = DOMAIN order
      /\ \A i \in DOMAIN order :
            /\ sent'.rows[i].employee_id = order[i]
            /\ sent'.rows[i].to_workstation_id =
                  IF modifications[order[i]].to_workstation_id \in Falsy THEN NULL
                  ELSE modifications[order[i]].to_workstation_id
      /\ sent'.fetched[1] = employeesData
  BY <1>2 DEF RowOf, data
<1>5. ASSUME NEW w \in WorkstationIds
      PROVE  sent'.arriving[w] = {e \in Employees : \E i \in DOMAIN sent'.rows :
                  sent'.rows[i].employee_id = e /\ sent'.rows[i].to_workstation_id = w}
  <2>1. sent'.arriving[w] = {e \in Modified(modifications) :
                               modifications[e].to_workstation_id = w}
    BY <1>2 DEF Arriving
  <2>2. w \notin Falsy
    BY DEF Falsy
  <2> QED
    BY <1>3, <1>4, <2>1, <2>2 DEF Modified
<1>6. ASSUME NEW w \in WorkstationIds
      PROVE  sent'.staying[w] = {e \in sent'.fetched[1].employee :
                  /\ sent'.fetched[1].seat[e] = w
                  /\ \A i \in DOMAIN sent'.rows : sent'.rows[i].employee_id = e =>
                        sent'.rows[i].to_workstation_id = NULL}
  <2>1. sent'.staying[w] = {e \in employeesData.employee :
          /\ employeesData.seat[e] = w
          /\ modifications[e] = NULL \/ modifications[e].to_workstation_id \in Falsy}
    BY <1>2 DEF Staying
  <2>2. ASSUME NEW e \in employeesData.employee
        PROVE  (modifications[e] = NULL \/ modifications[e].to_workstation_id \in Falsy)
               <=> \A i \in DOMAIN sent'.rows : sent'.rows[i].employee_id = e =>
                        sent'.rows[i].to_workstation_id = NULL
    BY <1>1, <1>3, <1>4 DEF Modified, Falsy, FetchedOK
  <2> QED
    BY <1>4, <2>1, <2>2
<1> QED
  BY <1>5, <1>6 DEF Promised

LEMMA StepKeepsPreview ==
  ASSUME BuilderTypeOK, BatchInvariant, PreviewInvariant, [BuilderNext]_<<vars, page>>
  PROVE  PreviewInvariant'
<1>1. TransitionsTypeOK /\ (sent = NULL => stage = "idle")
  BY DEF BuilderTypeOK
<1>2. CASE HandleSubmit /\ UNCHANGED vars
  <2>1. stage = "idle" /\ stage' = "idle" /\ Promised(sent')
    BY <1>1, <1>2, SubmissionIsPromised DEF HandleSubmit, vars
  <2> QED
    BY <2>1 DEF PreviewInvariant
<1>3. ASSUME UNCHANGED <<vars, sent>> PROVE PreviewInvariant'
  BY <1>3 DEF PreviewInvariant, OneSeatEach, HeldBy, GoalsAreThoseSent, vars
<1>4. CASE PageStep /\ UNCHANGED vars /\ ~HandleSubmit
  <2>1. ASSUME EditModifications PROVE UNCHANGED sent
    BY <2>1 DEF EditModifications, HandleWorkstationClear, ClearModification, HandleWorkstationChange,
                DropOnWorkstation, HandleCreateExchange, DropOnBranch, ApplyChain, ClearAll, Edit
  <2>2. ASSUME EditChain PROVE UNCHANGED sent
    BY <2>2 DEF EditChain, ClearChain, AddToChain, RemoveFromChain, SetChain
  <2>3. ASSUME (\E m \in {"branch", "employee"} : SelectMode(m)) \/ ResetAll \/ Fetch
        PROVE  UNCHANGED sent
    BY <2>3 DEF SelectMode, ResetAll, Fetch, RefetchEmployees, RefetchWorkstations
  <2> QED
    BY <1>3, <1>4, <2>1, <2>2, <2>3 DEF PageStep
<1>5. CASE ServerAccepts
  BY <1>5 DEF ServerAccepts, Accept, page, PreviewInvariant
<1>6. CASE ServerRefuses \/ ServerSucceeds \/ ServerFails
  BY <1>6 DEF ServerRefuses, ServerSucceeds, ServerFails, Commit, Rollback, vars, PreviewInvariant
<1>7. CASE Begin /\ UNCHANGED page
  BY <1>7 DEF Begin, page, PreviewInvariant, GoalsAreThoseSent
<1>8. CASE SkipRow /\ UNCHANGED page
  BY <1>8 DEF SkipRow, page, PreviewInvariant, OneSeatEach, HeldBy, GoalsAreThoseSent
<1>9. CASE MoveRow /\ UNCHANGED page
  <2> DEFINE e == rows[k].employee_id
  <2>1. /\ stage = "running" /\ k \in DOMAIN rows /\ UNCHANGED <<db, stage, rows, sent>>
        /\ moved' = moved \cup {e}
        /\ \E x : new_workstation_id' = [new_workstation_id EXCEPT ![e] = x]
    BY <1>9 DEF MoveRow, page
  <2>2. /\ e \in Employees \ moved
        /\ \A i \in DOMAIN rows : rows[i].employee_id = e => i = k
        /\ new_workstation_id \in [Employees -> WorkstationIds \cup {NULL}]
    BY <1>1, <1>9, RowIsOfAnother DEF TransitionsTypeOK
  <2>3. ASSUME OneSeatEach PROVE GoalsAreThoseSent'
    <3>1. GoalsAreThoseSent
      BY <2>1, <2>3 DEF PreviewInvariant
    <3>2. rows[k].to_workstation_id # NULL => new_workstation_id'[e] = rows[k].to_workstation_id
      BY <1>1, <1>9, <2>2, <2>3, MoveRowGivesGoal
    <3>3. \A f \in moved : f # e /\ new_workstation_id'[f] = new_workstation_id[f]
      BY <1>1, <2>1, <2>2 DEF TransitionsTypeOK
    <3> SUFFICES ASSUME NEW i \in DOMAIN rows, rows[i].employee_id \in moved \cup {e},
                        rows[i].to_workstation_id # NULL
                 PROVE  new_workstation_id'[rows[i].employee_id] = rows[i].to_workstation_id
      BY <2>1 DEF GoalsAreThoseSent
    <3> QED
      BY <2>2, <3>1, <3>2, <3>3 DEF GoalsAreThoseSent
  <2>4. OneSeatEach' = OneSeatEach
    BY <2>1 DEF OneSeatEach, HeldBy
  <2> QED
    BY <2>1, <2>3, <2>4 DEF PreviewInvariant
<1>10. CASE SomebodyElse
  BY <1>10 DEF SomebodyElse, OtherRequest, batch, page, PreviewInvariant
<1>11. CASE UNCHANGED <<vars, page>>
  BY <1>3, <1>11 DEF page
<1> QED
  BY <1>2, <1>4, <1>5, <1>6, <1>7, <1>8, <1>9, <1>10, <1>11
  DEF BuilderNext, Server, ServerWorks, PageStep

\* A commit over the tables the page showed: a workstation that is a goal holds
\* somebody sent to it, any other keeps its occupant or loses one who moved.
LEMMA CommitIsAsPromised ==
  ASSUME BuilderTypeOK, BatchInvariant, PreviewInvariant, Commit,
         moved = Range([i \in DOMAIN rows |-> rows[i].employee_id]),
         Current(sent.fetched),
         \A i \in DOMAIN rows : rows[i].to_workstation_id # NULL,
         NEW w \in db.workstations
  PROVE  wc.employee_id[w] \in IF sent.arriving[w] # {} THEN sent.arriving[w]
                               ELSE AnyFirst(sent.staying[w])
<1> DEFINE seat == sent.fetched[1].seat
<1>1. /\ TransitionsTypeOK /\ Sound(db) /\ SeatsSoFar
      /\ sent # NULL /\ rows = sent.rows /\ Promised(sent)
      /\ w \in WorkstationIds
  BY DEF BuilderTypeOK, TransitionsTypeOK, TypeOK, Sound, Tables, BatchInvariant,
         PreviewInvariant, Commit
<1>2. /\ OneSeatEach /\ sent.fetched[1].employee = db.employee
      /\ \A e \in Employees : seat[e] \in AnyFirst(HeldBy(db, e))
  BY DEF Current, OneSeatEach, FirstSeats
<1>3. GoalsAreThoseSent
  BY <1>2 DEF PreviewInvariant, Commit
<1>4. /\ \A i \in DOMAIN rows : rows[i].employee_id \in moved
      /\ \A e \in moved : \E i \in DOMAIN rows : rows[i].employee_id = e
      /\ moved \subseteq Employees
  BY <1>1 DEF Range, TransitionsTypeOK
<1>5. sent.arriving[w] = {e \in moved : new_workstation_id[e] = w}
  <2>1. sent.arriving[w] = {e \in Employees : \E i \in DOMAIN rows :
                              rows[i].employee_id = e /\ rows[i].to_workstation_id = w}
    BY <1>1 DEF Promised
  <2> QED
    BY <1>3, <1>4, <2>1 DEF GoalsAreThoseSent
<1>6. CASE sent.arriving[w] # {}
  <2>1. w \in Filled
    BY <1>1, <1>5, <1>6 DEF Filled
  <2> QED
    BY <1>1, <1>5, <1>6, <2>1 DEF SeatsSoFar
<1>7. CASE sent.arriving[w] = {}
  <2>1. w \notin Filled
    BY <1>5, <1>7 DEF Filled
  <2>2. sent.staying[w] = {e \in db.employee \ moved : db.employee_id[w] = e}
    <3>1. sent.staying[w] = {e \in db.employee : seat[e] = w /\ e \notin moved}
      BY <1>1, <1>2, <1>4 DEF Promised
    <3>2. ASSUME NEW e \in db.employee PROVE seat[e] = w <=> db.employee_id[w] = e
      <4>1. e \in Employees
        BY <1>1 DEF Sound, Tables
      <4>2. HeldBy(db, e) = {v \in db.workstations : db.employee_id[v] = e}
        BY DEF HeldBy
      <4>3. seat[e] = w => db.employee_id[w] = e
        BY <1>1, <1>2, <4>1, <4>2 DEF AnyFirst
      <4>4. ASSUME db.employee_id[w] = e PROVE seat[e] = w
        <5>1. w \in HeldBy(db, e)
          BY <4>2, <4>4
        <5> QED
          BY <1>2, <4>1, <5>1 DEF OneSeatEach, AnyFirst
      <4> QED
        BY <4>3, <4>4
    <3> QED
      BY <3>1, <3>2
  <2> DEFINE f == db.employee_id[w]
  <2>3. f \in db.employee \cup {NULL} /\ NULL \notin db.employee
    BY <1>1 DEF Sound, Tables, ReferencesResolve
  <2>4. CASE f = NULL
    BY <1>1, <1>4, <1>7, <2>1, <2>2, <2>3, <2>4 DEF SeatsSoFar, AnyFirst
  <2>5. CASE f \in db.employee \ moved
    BY <1>1, <1>7, <2>1, <2>2, <2>5 DEF SeatsSoFar, AnyFirst
  <2>6. CASE f \in moved
    <3>1. \A v \in WorkstationIds : db.employee_id[v] = f <=> v = w
      BY <1>1, <1>2, <1>4, <2>6 DEF OneSeatEach, HeldBy, Sound, ReferencesResolve
    <3>2. wc.employee_id[w] = NULL
      BY <1>1, <2>1, <2>6, <3>1 DEF SeatsSoFar
    <3> QED
      BY <1>7, <2>2, <2>6, <3>2 DEF AnyFirst
  <2> QED
    BY <2>3, <2>4, <2>5, <2>6
<1> QED
  BY <1>6, <1>7

\* What the panel promised is what the batch did, for batches of any length.
THEOREM OutcomeIsPreviewHolds == BuilderSpec => OutcomeIsPreview
<1> DEFINE IInv == BuilderTypeOK /\ BatchInvariant /\ PreviewInvariant
           AsPromised ==
      (/\ stage = "running" /\ db' = wc /\ stage' = "idle"
       /\ moved' = Range([i \in DOMAIN rows |-> rows[i].employee_id])
       /\ Current(sent.fetched)
       /\ \A i \in DOMAIN rows : rows[i].to_workstation_id # NULL)
      => \A w \in db.workstations :
            db'.employee_id[w] \in IF sent.arriving[w] # {} THEN sent.arriving[w]
                                   ELSE AnyFirst(sent.staying[w])
<1>1. TInit /\ (\E equipped \in SUBSET Employees : BuilderInit(equipped)) => PreviewInvariant
  BY DEF TInit, BatchInit, BuilderInit, PreviewInvariant
<1>2. BuilderTypeOK /\ BatchInvariant /\ PreviewInvariant /\ [BuilderNext]_<<vars, page>>
         => PreviewInvariant'
  BY StepKeepsPreview
<1>3. IInv /\ [BuilderNext]_<<vars, page>> => [AsPromised]_vars
  <2> SUFFICES ASSUME IInv, [BuilderNext]_<<vars, page>>,
                      stage = "running", db' = wc, stage' = "idle",
                      moved' = Range([i \in DOMAIN rows |-> rows[i].employee_id]),
                      Current(sent.fetched),
                      \A i \in DOMAIN rows : rows[i].to_workstation_id # NULL,
                      NEW w \in db.workstations
               PROVE  db'.employee_id[w] \in IF sent.arriving[w] # {} THEN sent.arriving[w]
                                             ELSE AnyFirst(sent.staying[w])
    BY Zenon
  <2>1. Commit \/ Rollback
    BY BuilderStepIsStep
    DEF Next, BatchStep, Accept, Begin, SkipRow, MoveRow, OtherRequest, vars
  <2>2. CASE Commit
    BY <2>2, CommitIsAsPromised DEF Commit
  <2>3. CASE Rollback
    <3>1. moved' = {} /\ rows \in Batches /\ 1 \in DOMAIN rows
      <4>1. rows \in Batches
        BY DEF BuilderTypeOK, TransitionsTypeOK
      <4>2. PICK n \in 1..MaxRows : rows \in [1..n -> Row]
        BY <4>1 DEF Batches
      <4> QED
        BY <2>3, <4>1, <4>2 DEF Rollback
    <3> QED
      BY <3>1 DEF Range
  <2> QED
    BY <2>1, <2>2, <2>3
<1>4. BuilderSpec => []BatchInvariant
  BY BuilderSendsBatches, BatchInvariantHolds, PTL
<1> QED
  BY <1>1, <1>2, <1>3, <1>4, BuilderTypeCorrect, PTL DEF BuilderSpec, OutcomeIsPreview

-----------------------------------------------------------------------------
(* The exchanges the page announces.  Induction over the steps of a walk is  *)
(* done on the set of the steps that fail: it would have a least one.        *)

LEMMA LeastNatural ==
  ASSUME NEW S \in SUBSET Nat, S # {}
  PROVE  \E m \in S : \A n \in S : m <= n
<1> DEFINE Below(i) == {x \in Nat : x < i}
           T == {Below(i) : i \in S}
<1>1. PICK s \in S : TRUE
  OBVIOUS
<1> DEFINE F == 0..s
           U == {x \in S : x <= s}
           V == {Below(i) : i \in U}
           R == StrictSubsetOrdering(F)
<1>2. IsFiniteSet(F)
  BY <1>1, FS_Interval
<1>3. IsWellFoundedOn(R, SUBSET F)
  <2>1. FiniteSubsetsOf(F) = SUBSET F
    BY <1>2, FS_FiniteSubsetsOfFinite
  <2> QED
    BY <2>1, FS_StrictSubsetOrderingWellFounded
<1>4. V \subseteq SUBSET F /\ V # {}
  <2>1. s \in Nat /\ s \in U
    BY <1>1
  <2>2. \A i \in U : Below(i) \subseteq F
    BY <2>1
  <2> QED
    BY <2>1, <2>2
<1> HIDE DEF R
<1>5. PICK A \in V : \A B \in V : ~(<<B, A>> \in R)
  BY <1>3, <1>4, WFMin
<1>6. PICK m \in U : A = Below(m)
  BY <1>5
<1>7. ASSUME NEW n \in S PROVE m <= n
  <2> SUFFICES ASSUME n < m PROVE FALSE
    BY <1>1
  <2>1. n \in U /\ m \in Nat /\ n \in Nat /\ s \in Nat
    BY <1>1
  <2>2. Below(n) \subseteq Below(m) /\ n \in Below(m) /\ n \notin Below(n)
    BY <2>1
  <2>3. Below(n) \in V /\ Below(n) \subseteq F /\ Below(m) \subseteq F
    BY <2>1
  <2>4. <<Below(n), Below(m)>> \in R
    BY <2>2, <2>3 DEF R, StrictSubsetOrdering
  <2> QED
    BY <1>5, <1>6, <2>3, <2>4
<1> QED
  BY <1>6, <1>7

\* What holds of 0 and carries over to the next number holds of every number.
LEMMA SetInduction ==
  ASSUME NEW S \in SUBSET Nat, 0 \in S, \A n \in S : n + 1 \in S
  PROVE  S = Nat
<1> SUFFICES ASSUME Nat \ S # {} PROVE FALSE
  OBVIOUS
<1>1. PICK m \in Nat \ S : \A n \in Nat \ S : m <= n
  BY LeastNatural
<1>2. m # 0 /\ m - 1 \in Nat
  BY <1>1
<1>3. m - 1 \in S
  BY <1>1, <1>2
<1>4. (m - 1) + 1 \in S
  BY <1>3
<1> QED
  BY <1>1, <1>2, <1>4

-----------------------------------------------------------------------------
(* The walk is defined: its first n steps are, for every n, and only once.   *)

\* One step of a walk.
StepOn(x) == IF x = NULL THEN NULL ELSE Successor(x)

\* The first n steps from e.
Steps(e, n) ==
    {f \in [0..n -> Employees \cup {NULL}] :
        f[0] = e /\ \A i \in 1..n : f[i] = StepOn(f[i - 1])}

LEMMA SuccessorIsModified ==
  ASSUME NEW x
  PROVE  Successor(x) \in Modified(modifications) \cup {NULL}
  BY DEF Successor

LEMMA StepsAreUnique ==
  ASSUME NEW e, NEW n \in Nat, NEW m \in Nat, m <= n,
         NEW f \in Steps(e, n), NEW g \in Steps(e, m)
  PROVE  \A i \in 0..m : f[i] = g[i]
<1> DEFINE S == {i \in Nat : i <= m => f[i] = g[i]}
<1>1. 0 \in S
  BY DEF Steps
<1>2. ASSUME NEW i \in S PROVE i + 1 \in S
  <2> SUFFICES ASSUME i + 1 <= m PROVE f[i + 1] = g[i + 1]
    OBVIOUS
  <2>1. i + 1 \in 1..n /\ i + 1 \in 1..m /\ (i + 1) - 1 = i /\ f[i] = g[i]
    OBVIOUS
  <2>2. f[i + 1] = StepOn(f[i]) /\ g[i + 1] = StepOn(g[i])
    BY <2>1 DEF Steps
  <2> QED
    BY <2>1, <2>2
<1> HIDE DEF S
<1>3. S = Nat
  BY <1>1, <1>2, SetInduction DEF S
<1> QED
  BY <1>3 DEF S

LEMMA StepsExist ==
  ASSUME NEW e \in Employees, NEW n \in Nat
  PROVE  Steps(e, n) # {}
<1> DEFINE S == {i \in Nat : Steps(e, i) # {}}
<1>1. 0 \in S
  <2>1. [i \in 0..0 |-> e] \in Steps(e, 0)
    BY DEF Steps
  <2> QED
    BY <2>1
<1>2. ASSUME NEW i \in S PROVE i + 1 \in S
  <2>1. PICK f : f \in Steps(e, i)
    OBVIOUS
  <2> DEFINE g == [j \in 0..(i + 1) |-> IF j <= i THEN f[j] ELSE StepOn(f[i])]
  <2>2. \A j \in 0..i : f[j] \in Employees \cup {NULL}
    BY <2>1 DEF Steps
  <2>3. StepOn(f[i]) \in Employees \cup {NULL}
    BY SuccessorIsModified DEF StepOn, Modified
  <2>4. g \in [0..(i + 1) -> Employees \cup {NULL}] /\ g[0] = e
    BY <2>1, <2>2, <2>3 DEF Steps
  <2>5. ASSUME NEW j \in 1..(i + 1) PROVE g[j] = StepOn(g[j - 1])
    <3>1. CASE j <= i
      <4>1. j \in 1..i /\ j \in 0..(i + 1) /\ j - 1 \in 0..(i + 1) /\ j - 1 <= i
        BY <3>1
      <4>2. f[j] = StepOn(f[j - 1])
        BY <2>1, <4>1 DEF Steps
      <4> QED
        BY <3>1, <4>1, <4>2
    <3>2. CASE j = i + 1
      BY <3>2
    <3> QED
      BY <3>1, <3>2
  <2>6. g \in Steps(e, i + 1)
    BY <2>4, <2>5 DEF Steps
  <2> QED
    BY <2>6
<1> HIDE DEF S
<1>3. S = Nat
  BY <1>1, <1>2, SetInduction DEF S
<1> QED
  BY <1>3 DEF S

LEMMA WalkSteps ==
  ASSUME NEW e \in Employees
  PROVE  /\ Walk(e) \in [Nat -> Employees \cup {NULL}]
         /\ Walk(e)[0] = e
         /\ \A n \in Nat : Walk(e)[n + 1] = StepOn(Walk(e)[n])
<1> DEFINE first(n) == CHOOSE f \in Steps(e, n) : TRUE
           w == [n \in Nat |-> first(n)[n]]
           Def(f) == [n \in Nat |-> IF n = 0 THEN e
                                    ELSE IF f[n - 1] = NULL THEN NULL ELSE Successor(f[n - 1])]
<1>1. \A n \in Nat : first(n) \in Steps(e, n)
  BY StepsExist
<1> HIDE DEF first
<1>2. w \in [Nat -> Employees \cup {NULL}] /\ w[0] = e
  BY <1>1 DEF Steps
<1>3. ASSUME NEW n \in Nat PROVE w[n + 1] = StepOn(w[n])
  <2>1. first(n + 1) \in Steps(e, n + 1) /\ first(n) \in Steps(e, n)
    BY <1>1
  <2>2. first(n + 1)[n + 1] = StepOn(first(n + 1)[n])
    <3>1. n + 1 \in 1..(n + 1) /\ (n + 1) - 1 = n
      OBVIOUS
    <3> QED
      BY <2>1, <3>1 DEF Steps
  <2>3. first(n + 1)[n] = first(n)[n]
    BY <2>1, StepsAreUnique
  <2> QED
    BY <2>2, <2>3
<1> HIDE DEF w
<1>4. w = Def(w)
  <2>1. ASSUME NEW n \in Nat PROVE w[n] = Def(w)[n]
    <3>1. CASE n = 0
      BY <1>2, <3>1
    <3>2. CASE n # 0
      <4>1. n - 1 \in Nat /\ (n - 1) + 1 = n
        BY <3>2
      <4>2. w[n] = StepOn(w[n - 1])
        BY <1>3, <4>1
      <4> QED
        BY <3>2, <4>2 DEF StepOn
    <3> QED
      BY <3>1, <3>2
  <2> QED
    BY <1>2, <2>1
<1>5. Walk(e) = Def(Walk(e))
  <2>1. Walk(e) = CHOOSE f : f = Def(f)
    BY DEF Walk
  <2> HIDE DEF Def
  <2> QED
    BY <1>4, <2>1
<1> DEFINE W == Walk(e)
<1> HIDE DEF W
<1>6. W = [n \in Nat |-> IF n = 0 THEN e ELSE StepOn(W[n - 1])]
  BY <1>5 DEF W, StepOn
<1>7. W[0] = e
  BY <1>6
<1>8. ASSUME NEW n \in Nat PROVE W[n + 1] = StepOn(W[n])
  <2>1. n + 1 \in Nat /\ n + 1 # 0 /\ (n + 1) - 1 = n
    OBVIOUS
  <2>2. W[n + 1] = StepOn(W[(n + 1) - 1])
    BY <1>6, <2>1
  <2> QED
    BY <2>1, <2>2
<1> DEFINE S == {n \in Nat : W[n] \in Employees \cup {NULL}}
<1>9. S = Nat
  <2>1. 0 \in S
    BY <1>7
  <2>2. ASSUME NEW n \in S PROVE n + 1 \in S
    BY <1>8, SuccessorIsModified DEF StepOn, Modified
  <2> HIDE DEF S
  <2> QED
    BY <2>1, <2>2, SetInduction DEF S
<1>10. W \in [Nat -> Employees \cup {NULL}]
  BY <1>6, <1>9
<1> QED
  BY <1>7, <1>8, <1>10 DEF W

-----------------------------------------------------------------------------
(* Successors, where no two modified employees share a post or a goal.       *)

\* No two of the employees of the batch have a post or a destination in common.
Apart ==
    \A e, f \in Modified(modifications) :
        (employeesData.post[e] = employeesData.post[f] \/ Goal(e) = Goal(f)) => e = f

LEMMA SuccessorTakes ==
  ASSUME NEW e, Successor(e) # NULL
  PROVE  /\ Successor(e) \in Modified(modifications)
         /\ Successor(e) # e
         /\ Goal(Successor(e)) = employeesData.post[e]
<1> DEFINE takers == {f \in Modified(modifications) \ {e} : Goal(f) = employeesData.post[e]}
<1>1. Successor(e) = IF takers = {} THEN NULL ELSE CHOOSE f \in takers : TRUE
  BY DEF Successor
<1>2. Successor(e) \in takers
  BY <1>1
<1> QED
  BY <1>2

LEMMA TakerIsSuccessor ==
  ASSUME Apart, NEW e, NEW f \in Modified(modifications), f # e,
         Goal(f) = employeesData.post[e]
  PROVE  Successor(e) = f
<1> DEFINE takers == {g \in Modified(modifications) \ {e} : Goal(g) = employeesData.post[e]}
<1>1. Successor(e) = IF takers = {} THEN NULL ELSE CHOOSE g \in takers : TRUE
  BY DEF Successor
<1>2. f \in takers
  OBVIOUS
<1>3. PICK g \in takers : Successor(e) = g
  BY <1>1, <1>2
<1>4. Goal(g) = Goal(f)
  OBVIOUS
<1> QED
  BY <1>3, <1>4 DEF Apart

LEMMA NullIsNoEmployee == NULL \notin Employees
  BY NullIsNoId

LEMMA WalkStays ==
  ASSUME NEW e \in Employees, NEW S, NEW m \in Nat, Walk(e)[m] \in S,
         NULL \notin S, \A f \in S : Successor(f) \in S
  PROVE  \A n \in Nat : n >= m => Walk(e)[n] \in S
<1> DEFINE I == {n \in Nat : n >= m => Walk(e)[n] \in S}
<1>1. 0 \in I
  OBVIOUS
<1>2. ASSUME NEW n \in I PROVE n + 1 \in I
  <2> SUFFICES ASSUME n + 1 >= m PROVE Walk(e)[n + 1] \in S
    OBVIOUS
  <2>1. CASE n + 1 = m
    BY <2>1
  <2>2. CASE n >= m
    <3>1. Walk(e)[n + 1] = StepOn(Walk(e)[n]) /\ Walk(e)[n] \in S
      BY <2>2, WalkSteps
    <3> QED
      BY <3>1 DEF StepOn
  <2> QED
    BY <2>1, <2>2
<1> HIDE DEF I
<1>3. I = Nat
  BY <1>1, <1>2, SetInduction DEF I
<1> QED
  BY <1>3 DEF I

\* A walk that has ended does not go on.
LEMMA WalkEnds ==
  ASSUME NEW e \in Employees, NEW m \in Nat, Walk(e)[m] = NULL
  PROVE  \A n \in Nat : n >= m => Walk(e)[n] = NULL
<1> DEFINE I == {n \in Nat : n >= m => Walk(e)[n] = NULL}
<1>1. 0 \in I
  OBVIOUS
<1>2. ASSUME NEW n \in I PROVE n + 1 \in I
  <2> SUFFICES ASSUME n + 1 >= m PROVE Walk(e)[n + 1] = NULL
    OBVIOUS
  <2>1. CASE n + 1 = m
    BY <2>1
  <2>2. CASE n >= m
    <3>1. Walk(e)[n + 1] = StepOn(Walk(e)[n]) /\ Walk(e)[n] = NULL
      BY <2>2, WalkSteps
    <3> QED
      BY <3>1 DEF StepOn
  <2> QED
    BY <2>1, <2>2
<1> HIDE DEF I
<1>3. I = Nat
  BY <1>1, <1>2, SetInduction DEF I
<1> QED
  BY <1>3 DEF I

-----------------------------------------------------------------------------
(* A walk that returns describes a round.                                    *)

\* Those met in the first r steps of the walk from e.
Met(e, r) == {Walk(e)[n] : n \in 0..r}

LEMMA MetIsClosed ==
  ASSUME NEW e \in Modified(modifications), NEW r \in Nat \ {0}, Walk(e)[r] = e
  PROVE  /\ NULL \notin Met(e, r)
         /\ e \in Met(e, r) /\ Met(e, r) \subseteq Modified(modifications)
         /\ \A f \in Met(e, r) : Successor(f) \in Met(e, r)
         /\ \A f \in Met(e, r) : \E g \in Met(e, r) : f = Successor(g)
<1>1. e \in Employees /\ e # NULL
  BY NullIsNoEmployee DEF Modified
<1>2. /\ Walk(e)[0] = e
      /\ \A n \in Nat : Walk(e)[n + 1] = StepOn(Walk(e)[n])
  BY <1>1, WalkSteps
<1>3. \A n \in 0..r : Walk(e)[n] # NULL
  BY <1>1, WalkEnds
<1>4. NULL \notin Met(e, r)
  BY <1>3 DEF Met
<1>5. e \in Met(e, r)
  BY <1>2 DEF Met
<1>6. ASSUME NEW n \in 0..r, n < r
      PROVE  Walk(e)[n + 1] = Successor(Walk(e)[n]) /\ Walk(e)[n + 1] \in Met(e, r)
  <2>1. n + 1 \in 0..r /\ n \in Nat
    BY <1>6
  <2> QED
    BY <1>2, <1>3, <2>1 DEF StepOn, Met
<1>7. ASSUME NEW f \in Met(e, r) PROVE Successor(f) \in Met(e, r)
  <2>1. PICK n \in 0..r : f = Walk(e)[n]
    BY DEF Met
  <2>2. CASE n < r
    BY <1>6, <2>1, <2>2
  <2>3. CASE n = r
    <3>1. 0 \in 0..r /\ 0 < r /\ f = Walk(e)[0]
      BY <1>2, <2>1, <2>3
    <3> QED
      BY <1>6, <3>1
  <2> QED
    BY <2>2, <2>3
<1>8. ASSUME NEW f \in Met(e, r) PROVE \E g \in Met(e, r) : f = Successor(g)
  <2>1. \E n \in 1..r : f = Walk(e)[n]
    <3>1. PICK n \in 0..r : f = Walk(e)[n]
      BY DEF Met
    <3>2. CASE n = 0
      BY <1>2, <3>1, <3>2
    <3> QED
      BY <3>1, <3>2
  <2>2. PICK n \in 1..r : f = Walk(e)[n]
    BY <2>1
  <2>3. n - 1 \in 0..r /\ n - 1 < r /\ (n - 1) + 1 = n
    OBVIOUS
  <2>4. f = Successor(Walk(e)[n - 1])
    BY <1>6, <2>2, <2>3
  <2>5. Walk(e)[n - 1] \in Met(e, r)
    BY <2>3 DEF Met
  <2> QED
    BY <2>4, <2>5
<1>9. Met(e, r) \subseteq Modified(modifications)
  BY <1>4, <1>8, SuccessorTakes
<1> QED
  BY <1>4, <1>5, <1>7, <1>8, <1>9

LEMMA MetRotates ==
  ASSUME NEW e \in Modified(modifications), NEW r \in Nat \ {0}, Walk(e)[r] = e
  PROVE  Rotates(Met(e, r))
<1> DEFINE O == Met(e, r)
<1>1. /\ NULL \notin O /\ e \in O
      /\ \A f \in O : Successor(f) \in O
      /\ \A f \in O : \E g \in O : f = Successor(g)
  BY MetIsClosed
<1> HIDE DEF O
<1>2. ASSUME NEW f \in O PROVE \E g \in O : Goal(g) = employeesData.post[f]
  BY <1>1, SuccessorTakes
<1>3. ASSUME NEW f \in O PROVE \E g \in O : Goal(f) = employeesData.post[g]
  BY <1>1, SuccessorTakes
<1>4. {Goal(f) : f \in O} = {employeesData.post[f] : f \in O}
  <2>1. {Goal(f) : f \in O} \subseteq {employeesData.post[f] : f \in O}
    BY <1>3
  <2>2. {employeesData.post[f] : f \in O} \subseteq {Goal(f) : f \in O}
    <3>1. ASSUME NEW f \in O PROVE employeesData.post[f] \in {Goal(g) : g \in O}
      BY <1>2
    <3> QED
      BY <3>1
  <2> QED
    BY <2>1, <2>2
<1>5. Rotates(O)
  BY <1>1, <1>4 DEF Rotates
<1> QED
  BY <1>5 DEF O

LEMMA MetIsMinimal ==
  ASSUME Apart, NEW e \in Modified(modifications), NEW r \in Nat \ {0}, Walk(e)[r] = e,
         NEW T, T \subseteq Met(e, r), Rotates(T)
  PROVE  T = Met(e, r)
<1>1. /\ NULL \notin Met(e, r) /\ Met(e, r) \subseteq Modified(modifications)
      /\ \A f \in Met(e, r) : Successor(f) \in Met(e, r)
  BY MetIsClosed
<1>2. ASSUME NEW f \in T PROVE Successor(f) \in T
  <2>1. PICK g \in T : Goal(g) = employeesData.post[f]
    BY DEF Rotates
  <2>2. /\ Successor(f) \in Modified(modifications)
        /\ Successor(f) # f
        /\ Goal(Successor(f)) = employeesData.post[f]
    BY <1>1, SuccessorTakes
  <2>3. Successor(f) = g
    BY <1>1, <2>1, <2>2 DEF Apart
  <2> QED
    BY <2>3
<1>3. PICK i \in 0..r : Walk(e)[i] \in T
  BY DEF Rotates, Met
<1>4. e \in Employees /\ NULL \notin T
  BY <1>1 DEF Modified
<1>5. e \in T
  BY <1>2, <1>3, <1>4, WalkStays
<1>6. Walk(e)[0] \in T
  BY <1>4, <1>5, WalkSteps
<1>7. \A n \in Nat : n >= 0 => Walk(e)[n] \in T
  BY <1>2, <1>4, <1>6, WalkStays
<1> QED
  BY <1>7 DEF Met

LEMMA MetIsRound ==
  ASSUME Apart, NEW e \in Modified(modifications), NEW r \in Nat \ {0}, Walk(e)[r] = e
  PROVE  Met(e, r) \in Rounds
<1> DEFINE O == Met(e, r)
<1>1. /\ NULL \notin O /\ e \in O /\ O \subseteq Modified(modifications)
      /\ \A f \in O : Successor(f) \in O
  BY MetIsClosed
<1>2. Rotates(O)
  BY MetRotates
<1>3. \A T : T \subseteq O /\ Rotates(T) => T = O
  BY MetIsMinimal
<1> HIDE DEF O
<1>4. IsFiniteSet(O)
  <2>1. O \in SUBSET Employees
    BY <1>1 DEF Modified
  <2> QED
    BY <2>1, BatchesSuffice, FS_Subset
<1>5. Successor(e) \in O /\ Successor(e) # e
  BY <1>1, SuccessorTakes
<1>6. Cardinality(O) >= 2
  <2>1. Cardinality(O) \in Nat
    BY <1>4, FS_CardinalityType
  <2>2. Cardinality(O) # 0
    BY <1>4, <1>5, FS_EmptySet
  <2>3. Cardinality(O) # 1
    BY <1>4, <1>5, <1>1, FS_Singleton
  <2> QED
    BY <2>1, <2>2, <2>3
<1>7. O \in Rounds
  BY <1>1, <1>2, <1>3, <1>6 DEF Rounds
<1> QED
  BY <1>7 DEF O

-----------------------------------------------------------------------------
(* A round is walked.                                                        *)

LEMMA RoundIsWalked ==
  ASSUME Apart, NEW S \in Rounds
  PROVE  /\ S \in SUBSET Modified(modifications) /\ S # {} /\ NULL \notin S
         /\ \A f \in S : Successor(f) \in S
<1>1. /\ S \in SUBSET Modified(modifications) /\ Rotates(S)
      /\ Cardinality(S) >= 2
      /\ \A T \in SUBSET Modified(modifications) : Rotates(T) /\ T \subseteq S => T = S
  BY DEF Rounds
<1>2. S # {} /\ NULL \notin S
  BY <1>1, NullIsNoEmployee DEF Rotates, Modified
<1>3. ASSUME NEW f \in S PROVE Successor(f) \in S
  <2>1. PICK g \in S : Goal(g) = employeesData.post[f]
    BY <1>1 DEF Rotates
  <2>2. ASSUME g = f PROVE FALSE
    <3>1. {Goal(h) : h \in {f}} = {employeesData.post[h] : h \in {f}}
      BY <2>1, <2>2
    <3>2. Rotates({f})
      BY <3>1 DEF Rotates
    <3>3. S = {f}
      BY <1>1, <3>2
    <3> QED
      BY <1>1, <3>3, FS_Singleton
  <2>3. g \in Modified(modifications)
    BY <1>1
  <2> QED
    BY <2>1, <2>2, <2>3, TakerIsSuccessor
<1> QED
  BY <1>1, <1>2, <1>3

LEMMA SuccessorsDiffer ==
  ASSUME Apart, NEW e \in Modified(modifications), NEW f \in Modified(modifications),
         Successor(e) = Successor(f), Successor(e) # NULL
  PROVE  e = f
<1>1. Goal(Successor(e)) = employeesData.post[e] /\ Goal(Successor(f)) = employeesData.post[f]
  BY SuccessorTakes
<1> QED
  BY <1>1 DEF Apart

\* Two equal steps of a walk inside a round: so were the two before them.
LEMMA RoundReturns ==
  ASSUME Apart, NEW S \in Rounds, NEW e \in S
  PROVE  \E r \in 1..Cardinality(Employees) : Walk(e)[r] = e
<1>1. /\ S \in SUBSET Modified(modifications) /\ NULL \notin S
      /\ \A f \in S : Successor(f) \in S
  BY RoundIsWalked
<1>2. e \in Employees /\ S \in SUBSET Employees
  BY <1>1 DEF Modified
<1>3. /\ Walk(e)[0] = e
      /\ \A n \in Nat : Walk(e)[n + 1] = StepOn(Walk(e)[n])
  BY <1>2, WalkSteps
<1>4. \A n \in Nat : Walk(e)[n] \in S
  <2>1. \A n \in Nat : n >= 0 => Walk(e)[n] \in S
    BY <1>1, <1>2, <1>3, WalkStays
  <2> QED
    BY <2>1
<1>5. \A n \in Nat : Walk(e)[n + 1] = Successor(Walk(e)[n])
  BY <1>1, <1>3, <1>4 DEF StepOn
<1> DEFINE N == Cardinality(Employees)
<1>6. N \in Nat /\ IsFiniteSet(Employees)
  BY BatchesSuffice, FS_CardinalityType
<1> DEFINE w == [n \in 0..N |-> Walk(e)[n]]
<1>7. \E i, j \in 0..N : i # j /\ w[i] = w[j]
  <2>1. IsFiniteSet(0..N) /\ Cardinality(0..N) = N + 1
    <3>1. 0 \in Int /\ N \in Int /\ ~(0 > N)
      BY <1>6
    <3> HIDE DEF N
    <3>2. IsFiniteSet(0..N) /\ Cardinality(0..N) = N - 0 + 1
      BY <3>1, FS_Interval
    <3> QED
      BY <3>1, <3>2
  <2>2. Cardinality(Employees) < Cardinality(0..N)
    BY <1>6, <2>1
  <2>3. w \in [0..N -> Employees]
    BY <1>2, <1>4
  <2> HIDE DEF w, N
  <2> QED
    BY <1>6, <2>1, <2>2, <2>3, FS_PigeonHole
<1> HIDE DEF N
<1>8. PICK i \in 0..N, j \in 0..N : i < j /\ Walk(e)[i] = Walk(e)[j]
  <2>1. PICK i \in 0..N, j \in 0..N : i # j /\ Walk(e)[i] = Walk(e)[j]
    BY <1>7
  <2>2. i < j \/ j < i
    BY <2>1
  <2> QED
    BY <2>1, <2>2
<1> DEFINE I == {d \in Nat : d <= i => Walk(e)[i - d] = Walk(e)[j - d]}
<1>9. 0 \in I
  BY <1>8
<1>10. ASSUME NEW d \in I PROVE d + 1 \in I
  <2> SUFFICES ASSUME d + 1 <= i PROVE Walk(e)[i - (d + 1)] = Walk(e)[j - (d + 1)]
    OBVIOUS
  <2> DEFINE a == i - (d + 1)
             b == j - (d + 1)
  <2>1. a \in Nat /\ b \in Nat /\ a + 1 = i - d /\ b + 1 = j - d
    BY <1>8
  <2>2. Walk(e)[a + 1] = Walk(e)[b + 1]
    BY <2>1
  <2> HIDE DEF a, b
  <2>3. /\ Successor(Walk(e)[a]) = Successor(Walk(e)[b])
        /\ Successor(Walk(e)[a]) # NULL
    BY <1>1, <1>4, <1>5, <2>1, <2>2
  <2>4. Walk(e)[a] = Walk(e)[b]
    BY <1>1, <1>4, <2>1, <2>3, SuccessorsDiffer
  <2> QED
    BY <2>4 DEF a, b
<1>11. I = Nat
  <2> HIDE DEF I
  <2> QED
    BY <1>9, <1>10, SetInduction DEF I
<1>12. Walk(e)[i - i] = Walk(e)[j - i]
  BY <1>11
<1>13. j - i \in 1..N /\ i - i = 0
  BY <1>6, <1>8
<1>14. Walk(e)[j - i] = e
  BY <1>3, <1>12, <1>13
<1> QED
  BY <1>13, <1>14 DEF N

-----------------------------------------------------------------------------
\* What the page calls the exchange of e.
LEMMA ExchangeIsMet ==
  ASSUME NEW e, ExchangeOf(e) # {}
  PROVE  \E r \in Nat \ {0} : Walk(e)[r] = e /\ ExchangeOf(e) = Met(e, r)
<1> DEFINE rounds == {n \in 1..Cardinality(Employees) : Walk(e)[n] = e}
           least == CHOOSE r \in rounds : \A s \in rounds : r <= s
<1>1. rounds # {} /\ ExchangeOf(e) = {Walk(e)[n] : n \in 0..least}
  BY DEF ExchangeOf
<1>2. Cardinality(Employees) \in Nat
  BY BatchesSuffice, FS_CardinalityType
<1>3. rounds \in SUBSET Nat /\ rounds \in SUBSET (Nat \ {0})
  BY <1>2
<1> HIDE DEF rounds
<1>4. \E r \in rounds : \A s \in rounds : r <= s
  BY <1>1, <1>3, LeastNatural
<1>5. least \in rounds
  BY <1>4
<1>6. Walk(e)[least] = e
  BY <1>5 DEF rounds
<1> HIDE DEF least
<1>7. ExchangeOf(e) = Met(e, least)
  BY <1>1 DEF Met
<1> QED
  BY <1>3, <1>5, <1>6, <1>7

LEMMA RoundsAreAnnounced ==
  ASSUME Apart, NEW S \in Rounds, NEW e \in S
  PROVE  ExchangeOf(e) = S
<1>1. /\ S \in SUBSET Modified(modifications) /\ NULL \notin S
      /\ \A f \in S : Successor(f) \in S
  BY RoundIsWalked
<1>2. e \in Employees /\ e \in Modified(modifications)
  BY <1>1 DEF Modified
<1>3. ExchangeOf(e) # {}
  <2> DEFINE rounds == {n \in 1..Cardinality(Employees) : Walk(e)[n] = e}
             least == CHOOSE r \in rounds : \A s \in rounds : r <= s
  <2>1. rounds # {}
    BY RoundReturns
  <2>2. ExchangeOf(e) = {Walk(e)[n] : n \in 0..least}
    BY <2>1 DEF ExchangeOf
  <2>3. Cardinality(Employees) \in Nat
    BY BatchesSuffice, FS_CardinalityType
  <2>4. rounds \in SUBSET Nat
    BY <2>3
  <2> HIDE DEF rounds
  <2>5. least \in Nat
    BY <2>1, <2>4, LeastNatural
  <2> HIDE DEF least
  <2>6. 0 \in 0..least
    BY <2>5
  <2> QED
    BY <2>2, <2>6
<1>4. PICK r \in Nat \ {0} : Walk(e)[r] = e /\ ExchangeOf(e) = Met(e, r)
  BY <1>3, ExchangeIsMet
<1>5. Walk(e)[0] \in S
  BY <1>2, WalkSteps
<1>6. \A n \in Nat : n >= 0 => Walk(e)[n] \in S
  BY <1>1, <1>2, <1>5, WalkStays
<1>7. Met(e, r) \subseteq S
  BY <1>6 DEF Met
<1>8. Rotates(Met(e, r))
  BY <1>2, <1>4, MetRotates
<1>9. Met(e, r) = S
  BY <1>1, <1>7, <1>8 DEF Rounds
<1> QED
  BY <1>4, <1>9

LEMMA ExchangesOfRounds == ExchangesAreRounds
<1> SUFFICES ASSUME mode = "branch", Apart,
                    Modified(modifications) \subseteq employeesData.employee
             PROVE  Exchanges = Rounds
  BY DEF ExchangesAreRounds, Apart
<1>1. Exchanges = {ExchangeOf(e) : e \in Modified(modifications)} \ {{}}
  <2>1. Modified(modifications) \cap employeesData.employee = Modified(modifications)
    OBVIOUS
  <2> QED
    BY <2>1 DEF Exchanges
<1>2. ASSUME NEW S \in Exchanges PROVE S \in Rounds
  <2>1. PICK e \in Modified(modifications) : S = ExchangeOf(e) /\ S # {}
    BY <1>1
  <2>2. PICK r \in Nat \ {0} : Walk(e)[r] = e /\ ExchangeOf(e) = Met(e, r)
    BY <2>1, ExchangeIsMet
  <2> QED
    BY <2>1, <2>2, MetIsRound
<1>3. ASSUME NEW S \in Rounds PROVE S \in Exchanges
  <2>1. S \in SUBSET Modified(modifications) /\ S # {}
    BY RoundIsWalked
  <2>2. PICK e \in S : TRUE
    BY <2>1
  <2>3. S = ExchangeOf(e)
    BY RoundsAreAnnounced
  <2> QED
    BY <1>1, <2>1, <2>3
<1> QED
  BY <1>2, <1>3

\* The exchanges the page announces are the rounds of posts of its batch, at
\* every moment and whatever the batch is: useExchangeDetection finds them all
\* and announces nothing else.
THEOREM ExchangesAreRoundsHolds == BuilderSpec => []ExchangesAreRounds
  BY ExchangesOfRounds, PTL

=============================================================================
