------------------------- MODULE SeatRequests_proofs -------------------------
(***************************************************************************)
(* Proofs about concurrent seat requests, for any number of requests,      *)
(* employees and workstations and batches of any length: types, the pivot  *)
(* behind the seats, and the one seat of an employee whom transitions move.*)
(***************************************************************************)
EXTENDS SeatRequests, TLAPS

-----------------------------------------------------------------------------
(* Types.  A request between its first and its last statement is at a row  *)
(* of its program.                                                         *)

Labels == {"lock", "look", "release", "read", "write", "check", "commit", "done"}
AtRow  == {"look", "release", "read", "write", "check"}

\* The seats that a transaction may have written.
Written == UNION {[S -> Employees \cup {NULL}] : S \in SUBSET WorkstationIds}

AtStatement(r) ==
    /\ k[r] \in 1..(Len(program[r].rows) + 1)
    /\ pc[r] \in AtRow \cup {"lock"} => k[r] \in 1..Len(program[r].rows)
    /\ pc[r] \in {"lock", "look", "release"} => kind(r) = "transition"
    /\ pc[r] = "release" => old[r] \in WorkstationIds

HoldingsTyped ==
    /\ written \in [Requests -> Written]
    /\ listed \in [Requests -> SUBSET (Employees \X WorkstationIds)]
    /\ locked \in [Requests -> SUBSET Employees]
    /\ checked \in [Requests -> SUBSET Employees]

TypeInv ==
    /\ TypeOK
    /\ k \in [Requests -> Nat]
    /\ HoldingsTyped
    /\ \A r \in Requests : AtStatement(r)

LEMMA ProgramTypes ==
    ASSUME TypeInv, NEW r \in Requests
    PROVE  /\ program[r].rows \in Seq(Move) /\ Len(program[r].rows) \in Nat \ {0}
           /\ kind(r) \in {"transition", "assign", "unassign"}
           /\ kind(r) # "transition" => Len(program[r].rows) = 1
           /\ Batch(r) \subseteq Employees
           /\ k[r] \in 1..Len(program[r].rows) =>
                 row(r) \in Move /\ row(r).employee \in Batch(r)
<1>1. program[r] \in Programs
  BY DEF TypeInv, TypeOK
<1>2. /\ program[r].rows \in Seq(Move) /\ program[r].rows # <<>>
      /\ kind(r) \in {"transition", "assign", "unassign"}
      /\ kind(r) # "transition" => Len(program[r].rows) = 1
  <2>1. CASE program[r] \in [kind: {"transition"}, rows: Seq(Move) \ {<<>>}]
    BY <2>1 DEF kind
  <2>2. CASE program[r] \in [kind: {"assign", "unassign"}, rows: {<<m>> : m \in Move}]
    <3>1. PICK m \in Move : program[r].rows = <<m>>
      BY <2>2
    <3>2. <<m>> \in Seq(Move) /\ Len(<<m>>) = 1 /\ <<m>> # <<>>
      OBVIOUS
    <3> QED BY <2>2, <3>1, <3>2 DEF kind
  <2> QED BY <1>1, <2>1, <2>2 DEF Programs
<1>3. Len(program[r].rows) \in Nat \ {0} /\ DOMAIN program[r].rows = 1..Len(program[r].rows)
      /\ \A i \in 1..Len(program[r].rows) : program[r].rows[i] \in Move
  BY <1>2
<1>4. Batch(r) \subseteq Employees
  BY <1>3 DEF Batch, Move
<1> QED BY <1>2, <1>3, <1>4 DEF row, Batch

\* A statement at a row, if the request goes on there with its program unchanged.
LEMMA WriteTypes ==
    ASSUME TypeInv, NEW r \in Requests, NEW w \in WorkstationIds,
           NEW e \in Employees \cup {NULL}, Write(r, w, e)
    PROVE  /\ written' \in [Requests -> Written]
           /\ DOMAIN written'[r] = DOMAIN written[r] \cup {w}
           /\ \A v \in DOMAIN written'[r] :
                 written'[r][v] = IF v = w THEN e ELSE written[r][v]
           /\ \A q \in Requests \ {r} : written'[q] = written[q]
<1> DEFINE new == [v \in DOMAIN written[r] \cup {w} |-> IF v = w THEN e ELSE written[r][v]]
<1>1. PICK S \in SUBSET WorkstationIds : written[r] \in [S -> Employees \cup {NULL}]
  BY DEF TypeInv, HoldingsTyped, Written
<1>2. new \in [S \cup {w} -> Employees \cup {NULL}]
  BY <1>1
<1>3. new \in Written
  BY <1>2 DEF Written
<1>4. written' = [written EXCEPT ![r] = new]
  BY DEF Write
<1> HIDE DEF new
<1>5. written'[r] = new /\ \A q \in Requests \ {r} : written'[q] = written[q]
  BY <1>4 DEF TypeInv, HoldingsTyped
<1>6. written' \in [Requests -> Written]
  BY <1>3, <1>4 DEF TypeInv, HoldingsTyped
<1> QED BY <1>5, <1>6 DEF new

LEMMA WrittenTyped ==
    ASSUME NEW f \in Written
    PROVE  /\ DOMAIN f \subseteq WorkstationIds
           /\ \A w \in DOMAIN f : f[w] \in Employees \cup {NULL}
BY DEF Written

LEMMA UnlockedIsWritten == Unlocked \in Written /\ DOMAIN Unlocked = {}
<1>1. Unlocked \in [{} -> Employees \cup {NULL}]
  BY DEF Unlocked
<1> QED BY <1>1 DEF Written

LEMMA NextRowTypes ==
    ASSUME TypeInv, NEW r \in Requests, pc[r] \in AtRow, NextRow(r), UNCHANGED program
    PROVE  /\ pc' \in [Requests -> Labels] /\ k' \in [Requests -> Nat]
           /\ \A q \in Requests \ {r} : pc'[q] = pc[q] /\ k'[q] = k[q]
           /\ k'[r] = k[r] + 1 /\ k[r] \in 1..Len(program[r].rows)
           /\ \/ pc'[r] = "commit"
              \/ pc'[r] = "look" /\ kind(r) = "transition" /\ k'[r] \in 1..Len(program[r].rows)
           /\ k'[r] \in 1..(Len(program[r].rows) + 1)
<1>1. k[r] \in 1..Len(program[r].rows)
  BY DEF TypeInv, AtStatement
<1>2. /\ Len(program[r].rows) \in Nat
      /\ kind(r) \in {"transition", "assign", "unassign"}
  BY ProgramTypes
<1>3. /\ k' = [k EXCEPT ![r] = k[r] + 1]
      /\ pc' = [pc EXCEPT ![r] = IF k[r] < Len(program[r].rows) THEN "look" ELSE "commit"]
  BY DEF NextRow, Goto
<1>4. pc \in [Requests -> Labels] /\ k \in [Requests -> Nat]
  BY DEF TypeInv, TypeOK, Labels
<1>5. k'[r] = k[r] + 1
      /\ pc'[r] = IF k[r] < Len(program[r].rows) THEN "look" ELSE "commit"
  BY <1>3, <1>4
<1>6. /\ pc' \in [Requests -> Labels] /\ k' \in [Requests -> Nat]
      /\ \A q \in Requests \ {r} : pc'[q] = pc[q] /\ k'[q] = k[q]
  BY <1>1, <1>3, <1>4 DEF Labels
<1>7. k[r] < Len(program[r].rows) => kind(r) = "transition"
  <2> SUFFICES ASSUME kind(r) # "transition" PROVE ~(k[r] < Len(program[r].rows))
    OBVIOUS
  <2>1. Len(program[r].rows) = 1
    BY ProgramTypes
  <2>2. k[r] = 1
    BY <1>1, <2>1
  <2> QED BY <2>1, <2>2
<1> QED BY <1>1, <1>2, <1>5, <1>6, <1>7

\* A step of r keeps the types if it keeps those of what it changes.
LEMMA StepTypes ==
    ASSUME TypeInv, NEW r \in Requests, program' = program,
           pc' \in [Requests -> Labels], k' \in [Requests -> Nat],
           old' \in [Requests -> WorkstationIds \cup {NULL}],
           \A q \in Requests \ {r} : pc'[q] = pc[q] /\ k'[q] = k[q] /\ old'[q] = old[q],
           AtStatement(r)', HoldingsTyped',
           employee_id' \in [WorkstationIds -> Employees \cup {NULL}],
           employee_workstation' \subseteq Employees \X WorkstationIds
    PROVE  TypeInv'
<1>1. \A q \in Requests : AtStatement(q)'
  <2> SUFFICES ASSUME NEW q \in Requests, q # r PROVE AtStatement(q)'
    OBVIOUS
  <2>1. AtStatement(q)
    BY DEF TypeInv
  <2> QED BY <2>1 DEF AtStatement, kind
<1>2. \A q \in Requests : k'[q] \in 1..(Len(program'[q].rows) + 1)
  BY <1>1 DEF AtStatement
<1>3. \A q \in Requests :
          /\ DOMAIN written'[q] \subseteq WorkstationIds
          /\ \A w \in DOMAIN written'[q] : written'[q][w] \in Employees \cup {NULL}
          /\ listed'[q] \subseteq Employees \X WorkstationIds
          /\ locked'[q] \cup checked'[q] \subseteq Employees
  BY WrittenTyped DEF HoldingsTyped
<1>4. TypeOK'
  BY <1>2, <1>3 DEF TypeInv, TypeOK, Labels
<1> QED BY <1>1, <1>4 DEF TypeInv

\* Where the statement after this one is, if nothing but pc changes for it.
LEMMA GotoTypes ==
    ASSUME TypeInv, NEW r \in Requests, NEW label \in Labels, Goto(r, label),
           UNCHANGED <<program, k, old>>,
           label \in AtRow \cup {"lock"} => pc[r] \in AtRow \cup {"lock"},
           label \in {"lock", "look"} => kind(r) = "transition",
           label # "release"
    PROVE  /\ pc' \in [Requests -> Labels] /\ pc'[r] = label
           /\ \A q \in Requests \ {r} : pc'[q] = pc[q] /\ k'[q] = k[q] /\ old'[q] = old[q]
           /\ AtStatement(r)'
<1>1. pc' = [pc EXCEPT ![r] = label] /\ pc \in [Requests -> Labels]
  BY DEF Goto, TypeInv, TypeOK, Labels
<1>2. pc' \in [Requests -> Labels] /\ pc'[r] = label
      /\ \A q \in Requests \ {r} : pc'[q] = pc[q]
  BY <1>1
<1>3. AtStatement(r)
  BY DEF TypeInv
<1>4. AtStatement(r)'
  BY <1>2, <1>3 DEF AtStatement, kind
<1> QED BY <1>2, <1>4

LEMMA LetGoTypes ==
    ASSUME TypeInv, NEW r \in Requests, LetGo(r)
    PROVE  HoldingsTyped'
BY UnlockedIsWritten DEF LetGo, TypeInv, HoldingsTyped

LEMMA SeesTyped ==
    ASSUME TypeInv, NEW r \in Requests, NEW w \in WorkstationIds
    PROVE  Sees(r, w) \in Employees \cup {NULL}
BY DEF Sees, TypeInv, TypeOK

LEMMA TypeStep == TypeInv /\ [Next]_vars => TypeInv'
<1> SUFFICES ASSUME TypeInv, [Next]_vars PROVE TypeInv'
  OBVIOUS
<1>0. /\ k \in [Requests -> Nat] /\ old \in [Requests -> WorkstationIds \cup {NULL}]
      /\ employee_id \in [WorkstationIds -> Employees \cup {NULL}]
      /\ employee_workstation \subseteq Employees \X WorkstationIds
      /\ HoldingsTyped /\ pc \in [Requests -> Labels]
  BY DEF TypeInv, TypeOK, Labels
<1>1. ASSUME NEW r \in Requests, LockEmployee(r) PROVE TypeInv'
  <2>1. PICK e \in Batch(r) :
           /\ locked' = [locked EXCEPT ![r] = locked[r] \cup {e}]
           /\ Goto(r, IF Batch(r) \subseteq locked[r] \cup {e} THEN "look" ELSE "lock")
    BY <1>1 DEF LockEmployee
  <2>2. kind(r) = "transition" /\ pc[r] = "lock"
    BY <1>1 DEF LockEmployee, TypeInv, AtStatement
  <2>3. locked' \in [Requests -> SUBSET Employees]
    BY <1>0, <2>1, ProgramTypes DEF HoldingsTyped
  <2>4. \E label \in {"look", "lock"} : Goto(r, label)
    BY <2>1
  <2> QED
    BY <1>0, <1>1, <2>2, <2>3, <2>4, GotoTypes, StepTypes
       DEF LockEmployee, committed, HoldingsTyped, Labels, AtRow
<1>2. ASSUME NEW r \in Requests, LookUpOld(r) PROVE TypeInv'
  <2>1. /\ pc' \in [Requests -> Labels] /\ old' \in [Requests -> WorkstationIds \cup {NULL}]
        /\ \A q \in Requests \ {r} : pc'[q] = pc[q] /\ old'[q] = old[q]
        /\ pc'[r] \in {"read", "release"} /\ (pc'[r] = "release" => old'[r] \in WorkstationIds)
    <3> DEFINE found == {w \in WorkstationIds : Sees(r, w) = row(r).employee}
    <3>1. CASE found = {}
      BY <1>0, <1>2, <3>1 DEF LookUpOld, Goto, Labels
    <3>2. CASE found # {}
      <4>1. PICK w \in WorkstationIds : old' = [old EXCEPT ![r] = w] /\ Goto(r, "release")
        BY <1>2, <3>2 DEF LookUpOld
      <4> QED BY <1>0, <4>1 DEF Goto, Labels
    <3> QED BY <3>1, <3>2
  <2>2. AtStatement(r)'
    BY <1>2, <2>1 DEF LookUpOld, TypeInv, AtStatement, AtRow, kind
  <2>3. UNCHANGED <<committed, program, k, holdings>>
    BY <1>2 DEF LookUpOld
  <2> QED BY <1>0, <2>1, <2>2, <2>3, StepTypes DEF committed, holdings, HoldingsTyped
<1>3. ASSUME NEW r \in Requests, Release(r) PROVE TypeInv'
  <2>1. old[r] \in WorkstationIds /\ pc[r] = "release"
    BY <1>3 DEF Release, TypeInv, AtStatement
  <2>2. written' \in [Requests -> Written]
    BY <1>3, <2>1, WriteTypes DEF Release
  <2> QED
    BY <1>0, <1>3, <2>1, <2>2, GotoTypes, StepTypes
       DEF Release, committed, HoldingsTyped, Labels, AtRow
<1>4. ASSUME NEW r \in Requests, ReadSeat(r) PROVE TypeInv'
  <2>1. UNCHANGED <<committed, program, old, holdings>> /\ pc[r] = "read"
    BY <1>4 DEF ReadSeat
  <2>2. CASE NextRow(r)
    <3>1. AtStatement(r)' /\ pc' \in [Requests -> Labels] /\ k' \in [Requests -> Nat]
          /\ \A q \in Requests \ {r} : pc'[q] = pc[q] /\ k'[q] = k[q]
      BY <2>1, <2>2, NextRowTypes DEF AtStatement, AtRow, kind
    <3> QED BY <1>0, <2>1, <3>1, StepTypes DEF committed, holdings, HoldingsTyped
  <2>3. CASE Goto(r, "write") /\ UNCHANGED k
    BY <1>0, <2>1, <2>3, GotoTypes, StepTypes
       DEF committed, holdings, HoldingsTyped, Labels, AtRow
  <2> QED BY <1>4, <2>2, <2>3 DEF ReadSeat
<1>5. ASSUME NEW r \in Requests, Seat(r) \/ Unseat(r) PROVE TypeInv'
  <2>1. pc[r] = "write" /\ row(r) \in Move
    BY <1>5, ProgramTypes DEF Seat, Unseat, TypeInv, AtStatement, AtRow
  <2>2. row(r).employee \in Employees /\ row(r).workstation \in WorkstationIds
    BY <2>1 DEF Move
  <2>3. written' \in [Requests -> Written]
    BY <1>5, <2>2, WriteTypes DEF Seat, Unseat
  <2>4. listed' \in [Requests -> SUBSET (Employees \X WorkstationIds)]
    BY <1>0, <1>5, <2>2 DEF Seat, Unseat, HoldingsTyped
  <2>5. UNCHANGED <<committed, program, old, locked, checked>>
    BY <1>5 DEF Seat, Unseat
  <2>6. CASE NextRow(r)
    <3>1. AtStatement(r)' /\ pc' \in [Requests -> Labels] /\ k' \in [Requests -> Nat]
          /\ \A q \in Requests \ {r} : pc'[q] = pc[q] /\ k'[q] = k[q]
      BY <2>1, <2>5, <2>6, NextRowTypes DEF AtStatement, AtRow, kind
    <3> QED BY <1>0, <2>3, <2>4, <2>5, <3>1, StepTypes DEF committed, HoldingsTyped
  <2>7. CASE Goto(r, "check") /\ UNCHANGED k
    BY <1>0, <2>1, <2>3, <2>4, <2>5, <2>7, GotoTypes, StepTypes
       DEF committed, HoldingsTyped, Labels, AtRow
  <2> QED BY <1>5, <2>6, <2>7 DEF Seat, Unseat
<1>6. ASSUME NEW r \in Requests, CheckEmployee(r) PROVE TypeInv'
  <2>1. pc[r] = "check" /\ row(r) \in Move /\ NextRow(r)
        /\ UNCHANGED <<committed, program, old, written, listed, locked>>
    BY <1>6, ProgramTypes DEF CheckEmployee, TypeInv, AtStatement, AtRow
  <2>2. checked' \in [Requests -> SUBSET Employees]
    BY <1>0, <1>6, <2>1 DEF CheckEmployee, Move, HoldingsTyped
  <2>3. AtStatement(r)' /\ pc' \in [Requests -> Labels] /\ k' \in [Requests -> Nat]
        /\ \A q \in Requests \ {r} : pc'[q] = pc[q] /\ k'[q] = k[q]
    BY <2>1, NextRowTypes DEF AtStatement, AtRow, kind
  <2> QED BY <1>0, <2>1, <2>2, <2>3, StepTypes DEF committed, HoldingsTyped
<1>7. ASSUME NEW r \in Requests, Commit(r) PROVE TypeInv'
  <2>1. employee_id' \in [WorkstationIds -> Employees \cup {NULL}]
    BY <1>7, SeesTyped DEF Commit
  <2>2. employee_workstation' \subseteq Employees \X WorkstationIds
    BY <1>0, <1>7 DEF Commit, HoldingsTyped
  <2> QED
    BY <1>0, <1>7, <2>1, <2>2, LetGoTypes, GotoTypes, StepTypes DEF Commit, LetGo, Labels, AtRow
<1>8. ASSUME NEW r \in Requests, Abort(r) PROVE TypeInv'
  BY <1>0, <1>8, LetGoTypes, GotoTypes, StepTypes DEF Abort, LetGo, Labels, AtRow, committed
<1>9. CASE UNCHANGED vars
  BY <1>9 DEF vars, TypeInv, TypeOK, HoldingsTyped, AtStatement, kind
<1> QED
  BY <1>1, <1>2, <1>3, <1>4, <1>5, <1>6, <1>7, <1>8, <1>9 DEF Next, Step

LEMMA TypesInitially == Init => TypeInv
<1> SUFFICES ASSUME NEW seats \in [WorkstationIds -> Employees \cup {NULL}],
                    NEW programs \in [Requests -> Programs], InitWith(seats, programs)
             PROVE  TypeInv
  BY DEF Init
<1>1. \A r \in Requests : Len(program[r].rows) \in Nat \ {0}
  <2> TAKE r \in Requests
  <2>1. program[r] \in Programs
    BY DEF InitWith
  <2>2. CASE program[r] \in [kind: {"transition"}, rows: Seq(Move) \ {<<>>}]
    BY <2>2
  <2>3. CASE program[r] \in [kind: {"assign", "unassign"}, rows: {<<m>> : m \in Move}]
    <3>1. PICK m \in Move : program[r].rows = <<m>>
      BY <2>3
    <3> QED BY <3>1
  <2> QED BY <2>1, <2>2, <2>3 DEF Programs
<1>2. HoldingsTyped
  BY UnlockedIsWritten DEF InitWith, HoldingsTyped
<1>3. \A r \in Requests : AtStatement(r)
  BY <1>1 DEF InitWith, AtStatement, AtRow, kind
<1>4. TypeOK
  BY <1>2, <1>3, WrittenTyped DEF InitWith, TypeOK, HoldingsTyped, AtStatement
<1> QED BY <1>2, <1>3, <1>4 DEF InitWith, TypeInv

\* Whatever the requests and their interleaving, a statement refers to rows that exist:
\* a request releases a workstation only after it has found one.
THEOREM RequestsTypeCorrect == Spec => []TypeOK
<1>1. Init => TypeInv
  BY TypesInitially
<1>2. TypeInv /\ [Next]_vars => TypeInv'
  BY TypeStep
<1>3. TypeInv => TypeOK
  BY DEF TypeInv
<1> QED BY <1>1, <1>2, <1>3, PTL DEF Spec

-----------------------------------------------------------------------------
(* The pivot.  Whoever a transaction has seated is among its pivot rows,   *)
(* and an unassignment writes the one seat whose pivot row it removes.     *)

SeatedInTransactionAreListed ==
    \A r \in Requests : \A w \in DOMAIN written[r] :
        written[r][w] # NULL => <<written[r][w], w>> \in listed[r]

UnassignmentsEmptyTheirSeat ==
    \A r \in Requests : kind(r) = "unassign" =>
        \A w \in DOMAIN written[r] :
            w = program[r].rows[1].workstation /\ written[r][w] = NULL

ListInv ==
    TypeInv /\ SeatedInTransactionAreListed /\ UnassignmentsEmptyTheirSeat /\ SeatedAreListed

\* A statement that writes, and one that does not, in a transaction still open.
LEMMA ListWrite ==
    ASSUME ListInv, NEW r \in Requests, NEW w \in WorkstationIds,
           NEW e \in Employees \cup {NULL}, Write(r, w, e), program' = program,
           committed' = committed,
           listed[r] \subseteq listed'[r],
           \A q \in Requests \ {r} : listed'[q] = listed[q],
           e # NULL => <<e, w>> \in listed'[r],
           kind(r) = "unassign" => w = program[r].rows[1].workstation /\ e = NULL
    PROVE  SeatedInTransactionAreListed' /\ UnassignmentsEmptyTheirSeat' /\ SeatedAreListed'
<1>1. /\ DOMAIN written'[r] = DOMAIN written[r] \cup {w}
      /\ \A v \in DOMAIN written'[r] : written'[r][v] = IF v = w THEN e ELSE written[r][v]
      /\ \A q \in Requests \ {r} : written'[q] = written[q]
  BY WriteTypes DEF ListInv
<1>2. SeatedInTransactionAreListed'
  <2> SUFFICES ASSUME NEW q \in Requests, NEW v \in DOMAIN written'[q], written'[q][v] # NULL
               PROVE  <<written'[q][v], v>> \in listed'[q]
    BY DEF SeatedInTransactionAreListed
  <2>1. CASE q # r
    BY <1>1, <2>1 DEF ListInv, SeatedInTransactionAreListed
  <2>2. CASE q = r /\ v = w
    BY <1>1, <2>2
  <2>3. CASE q = r /\ v # w
    BY <1>1, <2>3 DEF ListInv, SeatedInTransactionAreListed
  <2> QED BY <2>1, <2>2, <2>3
<1>3. UnassignmentsEmptyTheirSeat'
  BY <1>1 DEF ListInv, UnassignmentsEmptyTheirSeat, kind
<1>4. SeatedAreListed'
  BY DEF ListInv, SeatedAreListed, committed
<1> QED BY <1>2, <1>3, <1>4

LEMMA ListStep == ListInv /\ [Next]_vars => ListInv'
<1> SUFFICES ASSUME ListInv, [Next]_vars
             PROVE  SeatedInTransactionAreListed' /\ UnassignmentsEmptyTheirSeat' /\ SeatedAreListed'
  BY TypeStep DEF ListInv
<1>1. CASE UNCHANGED <<committed, program, written, listed>>
  BY <1>1 DEF ListInv, SeatedInTransactionAreListed, UnassignmentsEmptyTheirSeat,
              SeatedAreListed, committed, kind
<1>2. ASSUME NEW r \in Requests, Release(r)
      PROVE  SeatedInTransactionAreListed' /\ UnassignmentsEmptyTheirSeat' /\ SeatedAreListed'
  <2>1. old[r] \in WorkstationIds /\ kind(r) = "transition"
    BY <1>2 DEF Release, ListInv, TypeInv, AtStatement
  <2> QED BY <1>2, <2>1, ListWrite DEF Release
<1>3. ASSUME NEW r \in Requests, Seat(r)
      PROVE  SeatedInTransactionAreListed' /\ UnassignmentsEmptyTheirSeat' /\ SeatedAreListed'
  <2>1. row(r) \in Move
    BY <1>3, ProgramTypes DEF Seat, ListInv, TypeInv, AtStatement, AtRow
  <2>2. row(r).employee \in Employees /\ row(r).workstation \in WorkstationIds
    BY <2>1 DEF Move
  <2>3. /\ listed[r] \subseteq listed'[r]
        /\ <<row(r).employee, row(r).workstation>> \in listed'[r]
        /\ \A q \in Requests \ {r} : listed'[q] = listed[q]
    BY <1>3 DEF Seat, ListInv, TypeInv, HoldingsTyped
  <2> QED BY <1>3, <2>2, <2>3, ListWrite DEF Seat
<1>4. ASSUME NEW r \in Requests, Unseat(r)
      PROVE  SeatedInTransactionAreListed' /\ UnassignmentsEmptyTheirSeat' /\ SeatedAreListed'
  <2>1. row(r) \in Move /\ k[r] \in 1..Len(program[r].rows) /\ kind(r) = "unassign"
    BY <1>4, ProgramTypes DEF Unseat, ListInv, TypeInv, AtStatement, AtRow
  <2>2. row(r).workstation \in WorkstationIds
    BY <2>1 DEF Move
  <2>3. row(r) = program[r].rows[1]
    <3>1. Len(program[r].rows) = 1
      BY <2>1, ProgramTypes DEF ListInv
    <3> QED BY <2>1, <3>1 DEF row
  <2> QED BY <1>4, <2>2, <2>3, ListWrite DEF Unseat
<1>5. ASSUME NEW r \in Requests, LetGo(r), program' = program
      PROVE  SeatedInTransactionAreListed' /\ UnassignmentsEmptyTheirSeat'
  <2>1. /\ DOMAIN written'[r] = {}
        /\ \A q \in Requests \ {r} : written'[q] = written[q] /\ listed'[q] = listed[q]
    BY <1>5, UnlockedIsWritten DEF LetGo, ListInv, TypeInv, HoldingsTyped
  <2> QED
    BY <1>5, <2>1 DEF ListInv, SeatedInTransactionAreListed, UnassignmentsEmptyTheirSeat, kind
<1>6. ASSUME NEW r \in Requests, Commit(r)
      PROVE  SeatedInTransactionAreListed' /\ UnassignmentsEmptyTheirSeat' /\ SeatedAreListed'
  <2>1. SeatedAreListed'
    <3> SUFFICES ASSUME NEW w \in WorkstationIds, Sees(r, w) # NULL
                 PROVE  <<Sees(r, w), w>> \in (employee_workstation \ Unlisted(r)) \cup listed[r]
      BY <1>6 DEF Commit, SeatedAreListed
    <3>1. CASE w \in DOMAIN written[r]
      BY <3>1 DEF Sees, ListInv, SeatedInTransactionAreListed
    <3>2. CASE w \notin DOMAIN written[r]
      <4>1. <<Sees(r, w), w>> \in employee_workstation
        BY <3>2 DEF Sees, ListInv, SeatedAreListed
      <4>2. ASSUME Unlisted(r) # {}
            PROVE  \A p \in Unlisted(r) : p[2] \in DOMAIN written[r]
        BY <4>2 DEF Unlisted, ListInv, UnassignmentsEmptyTheirSeat
      <4> QED BY <3>2, <4>1, <4>2
    <3> QED BY <3>1, <3>2
  <2> QED BY <1>5, <1>6, <2>1 DEF Commit
<1>7. ASSUME NEW r \in Requests, Abort(r)
      PROVE  SeatedInTransactionAreListed' /\ UnassignmentsEmptyTheirSeat' /\ SeatedAreListed'
  BY <1>5, <1>7 DEF Abort, ListInv, SeatedAreListed, committed
<1>8. ASSUME NEW r \in Requests,
             LockEmployee(r) \/ LookUpOld(r) \/ ReadSeat(r) \/ CheckEmployee(r)
      PROVE  UNCHANGED <<committed, program, written, listed>>
  BY <1>8 DEF LockEmployee, LookUpOld, ReadSeat, CheckEmployee, holdings
<1>9. CASE UNCHANGED vars
  BY <1>1, <1>9 DEF vars, committed
<1> QED
  BY <1>1, <1>2, <1>3, <1>4, <1>6, <1>7, <1>8, <1>9 DEF Next, Step

\* Whoever is committed to a seat is in the pivot, for any number of requests.
THEOREM SeatedAreListedHolds == Spec => []SeatedAreListed
<1>1. Init => ListInv
  <2> SUFFICES ASSUME NEW seats \in [WorkstationIds -> Employees \cup {NULL}],
                      NEW programs \in [Requests -> Programs], InitWith(seats, programs), Init
               PROVE  ListInv
    BY DEF Init
  <2>1. \A r \in Requests : DOMAIN written[r] = {}
    BY UnlockedIsWritten DEF InitWith
  <2>2. SeatedAreListed
    BY DEF InitWith, SeatedAreListed
  <2> QED
    BY <2>1, <2>2, TypesInitially
       DEF ListInv, SeatedInTransactionAreListed, UnassignmentsEmptyTheirSeat
<1>2. ListInv /\ [Next]_vars => ListInv'
  BY ListStep
<1>3. ListInv => SeatedAreListed
  BY DEF ListInv
<1> QED BY <1>1, <1>2, <1>3, PTL DEF Spec

-----------------------------------------------------------------------------
(* One seat each.  Whoever moves an employee holds the employee from before *)
(* the first row until the commit, so nobody else seats that employee; and *)
(* between the lookup and the new seat the transaction sees no seat of the *)
(* employee but the one it has looked up.                                  *)

Moved(e) == \A r \in Requests : kind(r) = "assign" => e \notin Batch(r)

BatchIsLocked ==
    \A r \in Requests :
        kind(r) = "transition" /\ pc[r] \in AtRow \cup {"commit"} => Batch(r) \subseteq locked[r]

LocksAreExclusive ==
    \A q, r \in Requests : q # r => \A e \in locked[q] : e \notin locked[r]

\* Whoever seats an employee in a transition holds the employee.
WritersHold ==
    \A r \in Requests : \A w \in DOMAIN written[r] :
        written[r][w] # NULL /\ Moved(written[r][w]) => written[r][w] \in locked[r]

OneSeatSeen ==
    \A r \in Requests : \A v, w \in WorkstationIds :
        Sees(r, v) # NULL /\ Moved(Sees(r, v)) /\ Sees(r, v) = Sees(r, w) => v = w

RowIsUnseated ==
    \A r \in Requests : kind(r) = "transition" /\ Moved(row(r).employee) =>
        \A w \in WorkstationIds : Sees(r, w) = row(r).employee =>
            pc[r] \notin {"read", "write"} /\ (pc[r] = "release" => w = old[r])

LockInv == BatchIsLocked /\ LocksAreExclusive /\ WritersHold
SeatInv == TypeInv /\ LockInv /\ OneSeatSeen /\ RowIsUnseated /\ MovedHaveOneSeat

LEMMA MovedStays ==
    ASSUME program' = program, NEW e
    PROVE  Moved(e)' <=> Moved(e)
BY DEF Moved, kind, Batch

LEMMA WriteSees ==
    ASSUME TypeInv, NEW r \in Requests, NEW w \in WorkstationIds,
           NEW e \in Employees \cup {NULL}, Write(r, w, e), committed' = committed
    PROVE  \A v \in WorkstationIds :
              /\ Sees(r, v)' = IF v = w THEN e ELSE Sees(r, v)
              /\ \A q \in Requests \ {r} : Sees(q, v)' = Sees(q, v)
BY WriteTypes DEF Sees, committed

\* A step of r that writes nothing and moves on to `pc[r]'`.
LEMMA ReadingStep ==
    ASSUME SeatInv, NEW r \in Requests,
           UNCHANGED <<committed, program, written, locked>>,
           \A q \in Requests \ {r} : pc'[q] = pc[q] /\ k'[q] = k[q] /\ old'[q] = old[q],
           pc[r] \in AtRow,
           kind(r) = "transition" /\ Moved(row(r)'.employee) =>
              \A w \in WorkstationIds : Sees(r, w) = row(r)'.employee =>
                 pc'[r] \notin {"read", "write"} /\ (pc'[r] = "release" => w = old'[r])
    PROVE  LockInv' /\ OneSeatSeen' /\ RowIsUnseated' /\ MovedHaveOneSeat'
<1>1. LockInv'
  BY MovedStays DEF SeatInv, LockInv, BatchIsLocked, LocksAreExclusive, WritersHold, kind, Batch
<1>2. \A q \in Requests, w \in WorkstationIds : Sees(q, w)' = Sees(q, w)
  BY DEF Sees, committed
<1>3. OneSeatSeen'
  BY <1>2, MovedStays DEF SeatInv, OneSeatSeen
<1>4. RowIsUnseated'
  <2> SUFFICES ASSUME NEW q \in Requests, kind(q) = "transition", Moved(row(q)'.employee),
                      NEW w \in WorkstationIds, Sees(q, w) = row(q)'.employee
               PROVE  pc'[q] \notin {"read", "write"} /\ (pc'[q] = "release" => w = old'[q])
    BY <1>2, MovedStays DEF RowIsUnseated, kind
  <2>1. CASE q = r
    BY <2>1
  <2>2. CASE q # r
    <3>1. row(q)' = row(q)
      BY <2>2 DEF row
    <3> QED BY <2>2, <3>1 DEF SeatInv, RowIsUnseated
  <2> QED BY <2>1, <2>2
<1>5. MovedHaveOneSeat'
  BY DEF SeatInv, MovedHaveOneSeat, committed, kind, Batch
<1> QED BY <1>1, <1>3, <1>4, <1>5

\* A step of r that writes, and leaves r with at most one seat of each moved employee.
LEMMA WritingStep ==
    ASSUME SeatInv, NEW r \in Requests, NEW u \in WorkstationIds,
           NEW e \in Employees \cup {NULL}, Write(r, u, e),
           UNCHANGED <<committed, program, old, locked>>,
           \A q \in Requests \ {r} : pc'[q] = pc[q] /\ k'[q] = k[q],
           pc[r] \in AtRow, pc'[r] # "release", pc'[r] # "write",
           e # NULL /\ Moved(e) =>
              e \in locked[r] /\ \A w \in WorkstationIds : Sees(r, w) # e,
           kind(r) = "transition" /\ Moved(row(r)'.employee) /\ pc'[r] = "read" =>
              \A w \in WorkstationIds : w # u => Sees(r, w) # row(r)'.employee,
           pc'[r] = "read" => e = NULL /\ row(r)'.employee # NULL
    PROVE  LockInv' /\ OneSeatSeen' /\ RowIsUnseated' /\ MovedHaveOneSeat'
<1>1. \A v \in WorkstationIds :
         /\ Sees(r, v)' = IF v = u THEN e ELSE Sees(r, v)
         /\ \A q \in Requests \ {r} : Sees(q, v)' = Sees(q, v)
  BY WriteSees DEF SeatInv
<1>2. /\ DOMAIN written'[r] = DOMAIN written[r] \cup {u}
      /\ \A v \in DOMAIN written'[r] : written'[r][v] = IF v = u THEN e ELSE written[r][v]
      /\ \A q \in Requests \ {r} : written'[q] = written[q]
  BY WriteTypes DEF SeatInv
<1>3. WritersHold'
  <2> SUFFICES ASSUME NEW q \in Requests, NEW w \in DOMAIN written'[q],
                      written'[q][w] # NULL, Moved(written'[q][w])
               PROVE  written'[q][w] \in locked[q]
    BY MovedStays DEF WritersHold
  <2>1. CASE q # r
    BY <1>2, <2>1 DEF SeatInv, LockInv, WritersHold
  <2>2. CASE q = r /\ w = u
    BY <1>2, <2>2
  <2>3. CASE q = r /\ w # u
    BY <1>2, <2>3 DEF SeatInv, LockInv, WritersHold
  <2> QED BY <2>1, <2>2, <2>3
<1>4. BatchIsLocked' /\ LocksAreExclusive'
  BY DEF SeatInv, LockInv, BatchIsLocked, LocksAreExclusive, kind, Batch
<1>5. OneSeatSeen'
  <2> SUFFICES ASSUME NEW q \in Requests, NEW v \in WorkstationIds, NEW w \in WorkstationIds,
                      Sees(q, v)' # NULL, Moved(Sees(q, v)'), Sees(q, v)' = Sees(q, w)', v # w
               PROVE  FALSE
    BY MovedStays DEF OneSeatSeen
  <2>1. CASE q # r
    BY <1>1, <2>1 DEF SeatInv, OneSeatSeen
  <2>2. CASE q = r /\ (v = u \/ w = u)
    BY <1>1, <2>2
  <2>3. CASE q = r /\ v # u /\ w # u
    BY <1>1, <2>3 DEF SeatInv, OneSeatSeen
  <2> QED BY <2>1, <2>2, <2>3
<1>6. RowIsUnseated'
  <2> SUFFICES ASSUME NEW q \in Requests, kind(q) = "transition", Moved(row(q)'.employee),
                      NEW w \in WorkstationIds, Sees(q, w)' = row(q)'.employee
               PROVE  pc'[q] \notin {"read", "write"} /\ (pc'[q] = "release" => w = old'[q])
    BY MovedStays DEF RowIsUnseated, kind
  <2>1. CASE q = r
    BY <1>1, <2>1
  <2>2. CASE q # r
    <3>1. row(q)' = row(q)
      BY <2>2 DEF row
    <3> QED BY <1>1, <2>2, <3>1 DEF SeatInv, RowIsUnseated
  <2> QED BY <2>1, <2>2
<1>7. MovedHaveOneSeat'
  BY DEF SeatInv, MovedHaveOneSeat, committed, kind, Batch
<1> QED BY <1>3, <1>4, <1>5, <1>6, <1>7 DEF LockInv

\* What the others see of the commit of r: for the employees they hold, nothing new.
LEMMA CommitSees ==
    ASSUME SeatInv, NEW r \in Requests, Commit(r), NEW q \in Requests \ {r},
           NEW w \in WorkstationIds, NEW e, e # NULL, Moved(e), Sees(q, w)' = e
    PROVE  /\ e \in locked[q] => Sees(q, w) = e
           /\ e \notin locked[q] => Sees(r, w) = e
<1>1. written'[q] = written[q] /\ employee_id'[w] = Sees(r, w)
  BY DEF Commit, LetGo, SeatInv, TypeInv, HoldingsTyped
<1>2. CASE w \in DOMAIN written[q]
  <2>1. Sees(q, w) = e /\ written[q][w] = e
    BY <1>1, <1>2 DEF Sees
  <2>2. e \in locked[q]
    BY <1>2, <2>1 DEF SeatInv, LockInv, WritersHold
  <2> QED BY <2>1, <2>2
<1>3. CASE w \notin DOMAIN written[q]
  <2>1. Sees(r, w) = e
    BY <1>1, <1>3 DEF Sees
  <2>2. ASSUME e \in locked[q] PROVE w \notin DOMAIN written[r]
    BY <2>1, <2>2 DEF Sees, SeatInv, LockInv, WritersHold, LocksAreExclusive
  <2>3. e \in locked[q] => Sees(q, w) = e
    BY <1>3, <2>1, <2>2 DEF Sees
  <2> QED BY <2>1, <2>3
<1> QED BY <1>2, <1>3

\* The end of a transaction, whether it commits or is rolled back: the locks are
\* given up, and r sees the committed seats.
LEMMA LettingGo ==
    ASSUME SeatInv, NEW r \in Requests, LetGo(r), UNCHANGED <<program, k, old>>
    PROVE  /\ LockInv'
           /\ pc'[r] = "done" /\ DOMAIN written'[r] = {}
           /\ \A q \in Requests \ {r} : pc'[q] = pc[q] /\ written'[q] = written[q]
<1>1. /\ pc'[r] = "done" /\ DOMAIN written'[r] = {} /\ locked'[r] = {}
      /\ \A q \in Requests \ {r} :
            pc'[q] = pc[q] /\ written'[q] = written[q] /\ locked'[q] = locked[q]
  BY UnlockedIsWritten DEF LetGo, Goto, SeatInv, TypeInv, TypeOK, HoldingsTyped
<1>2. BatchIsLocked' /\ LocksAreExclusive'
  BY <1>1 DEF SeatInv, LockInv, BatchIsLocked, LocksAreExclusive, AtRow, kind, Batch
<1>3. WritersHold'
  BY <1>1, MovedStays DEF SeatInv, LockInv, WritersHold
<1> QED BY <1>1, <1>2, <1>3 DEF LockInv

LEMMA RowIsInBatch ==
    ASSUME TypeInv, NEW r \in Requests, pc[r] \in AtRow
    PROVE  /\ row(r) \in Move /\ row(r).employee \in Batch(r)
           /\ row(r).employee \in Employees /\ row(r).workstation \in WorkstationIds
           /\ row(r).employee # NULL
<1>1. row(r) \in Move /\ row(r).employee \in Batch(r)
  BY ProgramTypes DEF TypeInv, AtStatement
<1> QED BY <1>1, NullIsNoEmployee DEF Move

LEMMA CommitStep ==
    ASSUME SeatInv, NEW r \in Requests, Commit(r)
    PROVE  LockInv' /\ OneSeatSeen' /\ RowIsUnseated' /\ MovedHaveOneSeat'
<1>1. /\ LockInv' /\ pc'[r] = "done" /\ DOMAIN written'[r] = {}
      /\ UNCHANGED <<program, k, old>>
      /\ \A q \in Requests \ {r} : pc'[q] = pc[q] /\ written'[q] = written[q]
  BY LettingGo DEF Commit
<1>2. \A w \in WorkstationIds : employee_id'[w] = Sees(r, w) /\ Sees(r, w)' = Sees(r, w)
  BY <1>1 DEF Commit, Sees
<1>3. OneSeatSeen'
  <2> SUFFICES ASSUME NEW q \in Requests, NEW v \in WorkstationIds, NEW w \in WorkstationIds,
                      Sees(q, v)' # NULL, Moved(Sees(q, v)'), Sees(q, v)' = Sees(q, w)'
               PROVE  v = w
    BY <1>1, MovedStays DEF OneSeatSeen
  <2>1. CASE q = r
    BY <1>2, <2>1 DEF SeatInv, OneSeatSeen
  <2>2. CASE q # r /\ Sees(q, v)' \in locked[q]
    <3>1. Sees(q, v) = Sees(q, v)' /\ Sees(q, w) = Sees(q, v)'
      BY <2>2, CommitSees
    <3> QED BY <3>1 DEF SeatInv, OneSeatSeen
  <2>3. CASE q # r /\ Sees(q, v)' \notin locked[q]
    <3>1. Sees(r, v) = Sees(q, v)' /\ Sees(r, w) = Sees(q, v)'
      BY <2>3, CommitSees
    <3> QED BY <3>1 DEF SeatInv, OneSeatSeen
  <2> QED BY <2>1, <2>2, <2>3
<1>4. RowIsUnseated'
  <2> SUFFICES ASSUME NEW q \in Requests, kind(q) = "transition", Moved(row(q).employee),
                      NEW w \in WorkstationIds, Sees(q, w)' = row(q).employee,
                      pc'[q] \in {"read", "write", "release"}
               PROVE  pc'[q] = "release" /\ w = old[q]
    BY <1>1, MovedStays DEF RowIsUnseated, kind, row
  <2>1. q # r /\ pc'[q] = pc[q] /\ pc[q] \in AtRow
    BY <1>1 DEF AtRow
  <2>2. row(q).employee \in locked[q] /\ row(q).employee # NULL
    BY <2>1, RowIsInBatch DEF SeatInv, LockInv, BatchIsLocked
  <2>3. Sees(q, w) = row(q).employee
    BY <2>1, <2>2, CommitSees
  <2> QED BY <2>1, <2>3 DEF SeatInv, RowIsUnseated
<1>5. MovedHaveOneSeat'
  BY <1>1, <1>2 DEF SeatInv, OneSeatSeen, MovedHaveOneSeat, Moved, kind, Batch
<1> QED BY <1>1, <1>3, <1>4, <1>5

LEMMA AbortStep ==
    ASSUME SeatInv, NEW r \in Requests, Abort(r)
    PROVE  LockInv' /\ OneSeatSeen' /\ RowIsUnseated' /\ MovedHaveOneSeat'
<1>1. /\ LockInv' /\ pc'[r] = "done" /\ DOMAIN written'[r] = {}
      /\ UNCHANGED <<committed, program, k, old>>
      /\ \A q \in Requests \ {r} : pc'[q] = pc[q] /\ written'[q] = written[q]
  BY LettingGo DEF Abort
<1>2. \A w \in WorkstationIds :
         /\ Sees(r, w)' = employee_id[w]
         /\ \A q \in Requests \ {r} : Sees(q, w)' = Sees(q, w)
  BY <1>1 DEF Sees, committed
<1>3. MovedHaveOneSeat'
  BY <1>1 DEF SeatInv, MovedHaveOneSeat, committed, kind, Batch
<1>4. OneSeatSeen'
  <2> SUFFICES ASSUME NEW q \in Requests, NEW v \in WorkstationIds, NEW w \in WorkstationIds,
                      Sees(q, v)' # NULL, Moved(Sees(q, v)'), Sees(q, v)' = Sees(q, w)'
               PROVE  v = w
    BY <1>1, MovedStays DEF OneSeatSeen
  <2>1. CASE q = r
    BY <1>2, <2>1 DEF SeatInv, MovedHaveOneSeat, Moved
  <2>2. CASE q # r
    BY <1>2, <2>2 DEF SeatInv, OneSeatSeen
  <2> QED BY <2>1, <2>2
<1>5. RowIsUnseated'
  <2> SUFFICES ASSUME NEW q \in Requests, kind(q) = "transition", Moved(row(q).employee),
                      NEW w \in WorkstationIds, Sees(q, w)' = row(q).employee
               PROVE  pc'[q] \notin {"read", "write"} /\ (pc'[q] = "release" => w = old[q])
    BY <1>1, MovedStays DEF RowIsUnseated, kind, row
  <2> QED BY <1>1, <1>2 DEF SeatInv, RowIsUnseated
<1> QED BY <1>1, <1>3, <1>4, <1>5

\* Before its first row a batch takes the employees one by one, each free of others.
LEMMA LockStep ==
    ASSUME SeatInv, NEW r \in Requests, LockEmployee(r)
    PROVE  LockInv' /\ OneSeatSeen' /\ RowIsUnseated' /\ MovedHaveOneSeat'
<1>1. PICK e \in Batch(r) :
         /\ UpdateHolders(r, e) = {}
         /\ locked' = [locked EXCEPT ![r] = locked[r] \cup {e}]
         /\ Goto(r, IF Batch(r) \subseteq locked[r] \cup {e} THEN "look" ELSE "lock")
  BY DEF LockEmployee, MayLock
<1>2. /\ locked'[r] = locked[r] \cup {e}
      /\ pc'[r] = IF Batch(r) \subseteq locked[r] \cup {e} THEN "look" ELSE "lock"
      /\ \A q \in Requests \ {r} : pc'[q] = pc[q] /\ locked'[q] = locked[q]
      /\ UNCHANGED <<committed, program, k, old, written>>
  BY <1>1 DEF Goto, LockEmployee, SeatInv, TypeInv, TypeOK, HoldingsTyped
<1>3. BatchIsLocked'
  BY <1>2 DEF SeatInv, LockInv, BatchIsLocked, AtRow, kind, Batch
<1>4. LocksAreExclusive'
  <2>1. \A q \in Requests \ {r} : e \notin locked[q]
    BY <1>1 DEF UpdateHolders, Others
  <2> QED BY <1>2, <2>1 DEF SeatInv, LockInv, LocksAreExclusive
<1>5. WritersHold'
  BY <1>2, MovedStays DEF SeatInv, LockInv, WritersHold
<1>6. \A q \in Requests, w \in WorkstationIds : Sees(q, w)' = Sees(q, w)
  BY <1>2 DEF Sees, committed
<1>7. OneSeatSeen'
  BY <1>2, <1>6, MovedStays DEF SeatInv, OneSeatSeen
<1>8. RowIsUnseated'
  <2> SUFFICES ASSUME NEW q \in Requests, kind(q) = "transition", Moved(row(q).employee),
                      NEW w \in WorkstationIds, Sees(q, w) = row(q).employee
               PROVE  pc'[q] \notin {"read", "write"} /\ (pc'[q] = "release" => w = old[q])
    BY <1>2, <1>6, MovedStays DEF RowIsUnseated, kind, row
  <2> QED BY <1>2 DEF SeatInv, RowIsUnseated
<1>9. MovedHaveOneSeat'
  BY <1>2 DEF SeatInv, MovedHaveOneSeat, committed, kind, Batch
<1> QED BY <1>3, <1>4, <1>5, <1>7, <1>8, <1>9 DEF LockInv

LEMMA SeatStep == SeatInv /\ [Next]_vars => SeatInv'
<1> SUFFICES ASSUME SeatInv, [Next]_vars
             PROVE  LockInv' /\ OneSeatSeen' /\ RowIsUnseated' /\ MovedHaveOneSeat'
  BY TypeStep DEF SeatInv
<1> DEFINE Kept == LockInv' /\ OneSeatSeen' /\ RowIsUnseated' /\ MovedHaveOneSeat'
<1>0. TypeInv /\ pc \in [Requests -> Labels]
      /\ old \in [Requests -> WorkstationIds \cup {NULL}]
  BY DEF SeatInv, TypeInv, TypeOK, Labels
<1>1. ASSUME NEW r \in Requests, LookUpOld(r) PROVE Kept
  <2> DEFINE found == {w \in WorkstationIds : Sees(r, w) = row(r).employee}
  <2>1. /\ UNCHANGED <<committed, program, k, holdings>> /\ pc[r] = "look"
        /\ row(r)' = row(r) /\ row(r).employee # NULL
    BY <1>0, <1>1, RowIsInBatch DEF LookUpOld, AtRow, row
  <2>2. CASE found = {}
    <3>1. pc' = [pc EXCEPT ![r] = "read"] /\ old' = [old EXCEPT ![r] = NULL]
      BY <1>1, <2>2 DEF LookUpOld, Goto
    <3>2. /\ \A q \in Requests \ {r} : pc'[q] = pc[q] /\ k'[q] = k[q] /\ old'[q] = old[q]
          /\ pc'[r] = "read"
      BY <1>0, <2>1, <3>1
    <3>3. \A w \in WorkstationIds : Sees(r, w) # row(r)'.employee
      BY <2>1, <2>2
    <3> HIDE DEF found
    <3> QED BY <2>1, <3>2, <3>3, ReadingStep DEF holdings, AtRow
  <2>3. CASE found # {}
    <3>1. PICK u \in found : pc' = [pc EXCEPT ![r] = "release"] /\ old' = [old EXCEPT ![r] = u]
      BY <1>1, <2>3 DEF LookUpOld, Goto
    <3>2. /\ \A q \in Requests \ {r} : pc'[q] = pc[q] /\ k'[q] = k[q] /\ old'[q] = old[q]
          /\ pc'[r] = "release" /\ old'[r] = u
      BY <1>0, <2>1, <3>1
    <3>3. Moved(row(r)'.employee) =>
             \A w \in WorkstationIds : Sees(r, w) = row(r)'.employee => w = u
      BY <2>1 DEF SeatInv, OneSeatSeen
    <3> HIDE DEF found
    <3> QED BY <2>1, <3>2, <3>3, ReadingStep DEF holdings, AtRow
  <2> QED BY <2>2, <2>3
<1>2. ASSUME NEW r \in Requests, ReadSeat(r) PROVE Kept
  <2>1. UNCHANGED <<committed, program, old, holdings>> /\ pc[r] = "read"
    BY <1>2 DEF ReadSeat
  <2>2. CASE NextRow(r)
    <3>1. /\ pc'[r] \in {"look", "commit"}
          /\ \A q \in Requests \ {r} : pc'[q] = pc[q] /\ k'[q] = k[q] /\ old'[q] = old[q]
      BY <1>0, <2>1, <2>2, NextRowTypes DEF AtRow
    <3> QED BY <2>1, <3>1, ReadingStep DEF holdings, AtRow
  <2>3. CASE Goto(r, "write") /\ UNCHANGED k
    <3>1. /\ pc'[r] = "write" /\ row(r)' = row(r)
          /\ \A q \in Requests \ {r} : pc'[q] = pc[q] /\ k'[q] = k[q] /\ old'[q] = old[q]
      BY <1>0, <2>1, <2>3 DEF Goto, row
    <3>2. kind(r) = "transition" /\ Moved(row(r)'.employee) =>
             \A w \in WorkstationIds : Sees(r, w) # row(r)'.employee
      BY <2>1, <3>1 DEF SeatInv, RowIsUnseated
    <3> QED BY <2>1, <3>1, <3>2, ReadingStep DEF holdings, AtRow
  <2> QED BY <1>2, <2>2, <2>3 DEF ReadSeat
<1>3. ASSUME NEW r \in Requests, CheckEmployee(r) PROVE Kept
  <2>1. /\ UNCHANGED <<committed, program, old, written, locked>> /\ pc[r] = "check"
        /\ pc'[r] \in {"look", "commit"}
        /\ \A q \in Requests \ {r} : pc'[q] = pc[q] /\ k'[q] = k[q] /\ old'[q] = old[q]
    BY <1>0, <1>3, NextRowTypes DEF CheckEmployee, AtRow
  <2> QED BY <2>1, ReadingStep DEF AtRow
<1>4. ASSUME NEW r \in Requests, Release(r) PROVE Kept
  <2>1. /\ old[r] \in WorkstationIds /\ pc[r] = "release"
        /\ Write(r, old[r], NULL) /\ UNCHANGED <<committed, program, k, old, locked>>
        /\ row(r)' = row(r) /\ row(r).employee # NULL
    BY <1>0, <1>4, RowIsInBatch DEF Release, TypeInv, AtStatement, AtRow, row
  <2>2. pc'[r] = "read" /\ \A q \in Requests \ {r} : pc'[q] = pc[q] /\ k'[q] = k[q]
    BY <1>0, <1>4, <2>1 DEF Release, Goto
  <2>3. kind(r) = "transition" /\ Moved(row(r)'.employee) =>
           \A w \in WorkstationIds : w # old[r] => Sees(r, w) # row(r)'.employee
    BY <2>1 DEF SeatInv, RowIsUnseated
  <2> QED BY <2>1, <2>2, <2>3, WritingStep DEF AtRow
<1>5. ASSUME NEW r \in Requests, Seat(r) PROVE Kept
  <2>1. /\ pc[r] = "write" /\ Write(r, row(r).workstation, row(r).employee)
        /\ UNCHANGED <<committed, program, old, locked>>
        /\ row(r).employee \in Employees /\ row(r).workstation \in WorkstationIds
        /\ row(r).employee \in Batch(r) /\ kind(r) # "unassign"
    BY <1>0, <1>5, RowIsInBatch DEF Seat, AtRow
  <2>2. /\ pc'[r] \in {"look", "commit", "check"}
        /\ \A q \in Requests \ {r} : pc'[q] = pc[q] /\ k'[q] = k[q]
    <3>1. CASE NextRow(r)
      BY <1>0, <2>1, <3>1, NextRowTypes DEF AtRow
    <3>2. CASE Goto(r, "check") /\ UNCHANGED k
      BY <1>0, <3>2 DEF Goto
    <3> QED BY <1>5, <3>1, <3>2 DEF Seat
  <2>3. Moved(row(r).employee) =>
           /\ row(r).employee \in locked[r]
           /\ \A w \in WorkstationIds : Sees(r, w) # row(r).employee
    <3>1. CASE kind(r) = "transition"
      BY <2>1, <3>1 DEF SeatInv, LockInv, BatchIsLocked, RowIsUnseated, AtRow
    <3>2. CASE kind(r) # "transition"
      BY <1>0, <2>1, <3>2, ProgramTypes DEF Moved
    <3> QED BY <3>1, <3>2
  <2> QED BY <2>1, <2>2, <2>3, WritingStep DEF AtRow
<1>6. ASSUME NEW r \in Requests, Unseat(r) PROVE Kept
  <2>1. /\ pc[r] = "write" /\ Write(r, row(r).workstation, NULL)
        /\ UNCHANGED <<committed, program, old, locked>>
        /\ row(r).workstation \in WorkstationIds
    BY <1>0, <1>6, RowIsInBatch DEF Unseat, AtRow
  <2>2. /\ pc'[r] \in {"look", "commit"}
        /\ \A q \in Requests \ {r} : pc'[q] = pc[q] /\ k'[q] = k[q]
    BY <1>0, <1>6, <2>1, NextRowTypes DEF Unseat, AtRow
  <2> QED BY <2>1, <2>2, WritingStep DEF AtRow
<1>7. CASE UNCHANGED vars
  BY <1>7 DEF vars, SeatInv, LockInv, BatchIsLocked, LocksAreExclusive, WritersHold, OneSeatSeen,
              RowIsUnseated, MovedHaveOneSeat, Moved, Sees, kind, Batch, row
<1> QED
  BY <1>1, <1>2, <1>3, <1>4, <1>5, <1>6, <1>7, LockStep, CommitStep, AbortStep DEF Next, Step

LEMMA SeatsInitially == Init => SeatInv
<1> SUFFICES ASSUME NEW seats \in [WorkstationIds -> Employees \cup {NULL}],
                    NEW programs \in [Requests -> Programs],
                    OneSeatEach(seats), InitWith(seats, programs), Init
             PROVE  SeatInv
  BY DEF Init
<1>1. \A r \in Requests : DOMAIN written[r] = {} /\ locked[r] = {} /\ pc[r] \in {"lock", "read"}
      /\ (kind(r) = "transition" => pc[r] = "lock")
  BY UnlockedIsWritten DEF InitWith, kind
<1>2. LockInv
  BY <1>1 DEF LockInv, BatchIsLocked, LocksAreExclusive, WritersHold, AtRow
<1>3. \A r \in Requests, w \in WorkstationIds : Sees(r, w) = seats[w]
  BY <1>1 DEF Sees, InitWith
<1>4. OneSeatSeen /\ MovedHaveOneSeat
  BY <1>3 DEF OneSeatSeen, MovedHaveOneSeat, OneSeatEach, InitWith
<1>5. RowIsUnseated
  BY <1>1 DEF RowIsUnseated
<1> QED BY <1>2, <1>4, <1>5, TypesInitially DEF SeatInv

\* An employee whom only transitions move never has two seats, for any number of
\* batches of any length: the lookup of the old seat stays true until the commit.
THEOREM MovedHaveOneSeatHolds == Spec => []MovedHaveOneSeat
<1>1. Init => SeatInv
  BY SeatsInitially
<1>2. SeatInv /\ [Next]_vars => SeatInv'
  BY SeatStep
<1>3. SeatInv => MovedHaveOneSeat
  BY DEF SeatInv
<1> QED BY <1>1, <1>2, <1>3, PTL DEF Spec

=============================================================================
