-------------------------- MODULE AssetForms_proofs --------------------------
(***************************************************************************)
(* Proofs about the record pages and the assets page, for any number of    *)
(* records, forms, component rows, saves and requests.                     *)
(* First the pages alone: the types, whose data a save carries, and how    *)
(* many records one form can make.  Then the pages with the components:    *)
(* the update that ends a component save goes past the form, so the step   *)
(* lemmas of the pages are used with the send it makes; whose components a *)
(* save deletes, adds and writes; and what the server has at its end.      *)
(***************************************************************************)
EXTENDS AssetForms, FiniteSetTheorems, TLAPS

LEMMA PlainPages ==
    /\ Plain \in Features /\ ~Plain.dialog
    /\ Clearing \in Features /\ ~Clearing.dialog
    /\ Users \in Features /\ ~Users.dialog
BY DEF Features, Plain, Clearing, Users

LEMMA ChangedPages ==
    /\ AssetCategoryPage \in Features /\ ~AssetCategoryPage.dialog
    /\ SubcategoryPage \in Features /\ ~SubcategoryPage.dialog
    /\ ReplenishmentPage \in Features /\ ~ReplenishmentPage.dialog
    /\ RiskProfilingUsers \in Features /\ ~RiskProfilingUsers.dialog
    /\ WorkstationListPage \in Features /\ ~WorkstationListPage.dialog
BY PlainPages
   DEF Features, AssetCategoryPage, SubcategoryPage, ReplenishmentPage,
       RiskProfilingUsers, WorkstationListPage, Plain, Users

LEMMA AssetPages ==
    /\ AssetsPage \in Features /\ ~AssetsPage.dialog
    /\ AssetComponentsPage \in Features /\ ~AssetComponentsPage.dialog
    /\ AssetViewAddForm \in Features /\ ~AssetViewAddForm.dialog
BY ChangedPages
   DEF Features, AssetsPage, AssetComponentsPage, AssetViewAddForm

LEMMA RepairsFeatures ==
    /\ RepairsPage \in Features
    /\ RepairsPage.forgets = "never" /\ ~RepairsPage.single /\ ~RepairsPage.blanks
BY DEF Features, RepairsPage, Plain

\* Only the repairs page has a dialog, and it neither blanks nor forgets.
DialogPage(p) == p.dialog => p.forgets = "never" /\ ~p.single /\ ~p.blanks

LEMMA PageFeatures == \A p \in Pages: p \in Features /\ DialogPage(p)
BY PlainPages, ChangedPages, AssetPages, RepairsFeatures
   DEF Pages, DialogPage, VendorsPage, StatusPage, PositionPage, EquipmentPage,
       SoftwareLicensePage, OfficeToolsTab, SectionPage, BranchPage, EmployeePage,
       UserManagement, AmlaUsers

-----------------------------------------------------------------------------
(* Types.  A form that is open has a number.                               *)

TypeInv ==
    /\ TypeOK
    /\ page \in Pages
    /\ open # {} => filling \in Fillings

LEMMA SendTypes ==
    ASSUME TypeInv, NEW kind \in Kinds, NEW row \in Target, NEW of \in Target,
           NEW n \in Fillings, Send(kind, row, of, n)
    PROVE  TypeInv'
<1>1. sent[kind] \in Nat /\ Sent \in Nat /\ sent[kind] <= Sent
  BY FormsAssumption DEF TypeInv, TypeOK, Kinds, Sent
<1>2. sent[kind] + 1 \in 1..MaxCalls
  BY <1>1, FormsAssumption DEF Send
<1>3. [id |-> sent[kind] + 1, kind |-> kind, row |-> row, of |-> of, filling |-> n,
       stage |-> "sent"] \in Call
  BY <1>2 DEF Call
<1>4. sent' \in [Kinds -> 0..MaxCalls]
  BY <1>2, FormsAssumption DEF Send, TypeInv, TypeOK
<1>5. calls' \subseteq Call
  BY <1>3 DEF Send, TypeInv, TypeOK
<1> QED
  BY <1>4, <1>5 DEF Send, TypeInv, TypeOK, screenVars, serverVars

LEMMA AdvanceTypes ==
    ASSUME TypeInv, NEW c \in calls, NEW stage \in {"sent", "done", "refused"},
           Advance(c, stage)
    PROVE  calls' \subseteq Call
<1>1. c \in Call
  BY DEF TypeInv, TypeOK
<1>2. [c EXCEPT !.stage = stage] \in Call
  BY <1>1 DEF Call
<1> QED
  BY <1>2 DEF Advance, TypeInv, TypeOK

LEMMA TypeStep == TypeInv /\ [Next]_vars => TypeInv'
<1> SUFFICES ASSUME TypeInv, [Next]_vars PROVE TypeInv'
  OBVIOUS
<1>0. None \in Target /\ Rows \subseteq Target
  BY DEF Target
<1>1. CASE OpenAdd
  <2>1. filling + 1 \in Fillings
    BY <1>1, FormsAssumption DEF OpenAdd, TypeInv, TypeOK, Fillings
  <2>2. filling' \in 0..MaxFillings
    BY <1>1, <2>1, FormsAssumption DEF OpenAdd, Fillings
  <2> QED
    BY <1>0, <1>1, <2>1, <2>2 DEF OpenAdd, TypeInv, TypeOK, Blank, serverVars
<1>2. ASSUME NEW r \in Rows, OpenEdit(r) PROVE TypeInv'
  <2>1. filling + 1 \in Fillings
    BY <1>2, FormsAssumption DEF OpenEdit, TypeInv, TypeOK, Fillings
  <2>2. filling' \in 0..MaxFillings
    BY <1>2, <2>1, FormsAssumption DEF OpenEdit, Fillings
  <2> QED
    BY <1>0, <1>2, <2>1, <2>2 DEF OpenEdit, TypeInv, TypeOK, serverVars
<1>3. ASSUME NEW r \in Rows, OpenDialog(r) PROVE TypeInv'
  <2>1. filling + 1 \in Fillings
    BY <1>3, FormsAssumption DEF OpenDialog, TypeInv, TypeOK, Fillings
  <2>2. filling' \in 0..MaxFillings
    BY <1>3, <2>1, FormsAssumption DEF OpenDialog, Fillings
  <2> QED
    BY <1>0, <1>3, <2>1, <2>2 DEF OpenDialog, TypeInv, TypeOK, serverVars
<1>4. CASE Type
  BY <1>4 DEF Type, TypeInv, TypeOK, serverVars
<1>5. CASE CloseAdd
  BY <1>5 DEF CloseAdd, TypeInv, TypeOK, serverVars
<1>6. CASE CloseEdit
  BY <1>0, <1>6 DEF CloseEdit, TypeInv, TypeOK, serverVars
<1>7. CASE CloseDialog
  BY <1>0, <1>7 DEF CloseDialog, TypeInv, TypeOK, serverVars
<1>8. CASE SubmitAdd
  BY <1>0, <1>8, SendTypes DEF SubmitAdd, OnTop, Shown, Kinds, TypeInv, TypeOK
<1>9. CASE SubmitEdit
  BY <1>9, SendTypes DEF SubmitEdit, OnTop, Shown, Kinds, TypeInv, TypeOK
<1>10. CASE SubmitDialog
  BY <1>10, SendTypes DEF SubmitDialog, OnTop, Shown, Kinds, TypeInv, TypeOK
<1>11. ASSUME NEW c \in calls, Serve(c) \/ Refuse(c) \/ LoseAnswer(c) PROVE TypeInv'
  <2>1. c.filling \in Fillings
    BY DEF TypeInv, TypeOK, Call
  <2>2. created' \in [Fillings -> Nat] /\ lost' \in [Fillings -> Nat]
    BY <1>11, <2>1 DEF Serve, Refuse, LoseAnswer, TypeInv, TypeOK, serverVars
  <2>3. calls' \subseteq Call
    BY <1>11, AdvanceTypes DEF Serve, Refuse, LoseAnswer
  <2> QED
    BY <1>11, <2>2, <2>3
    DEF Serve, Refuse, LoseAnswer, TypeInv, TypeOK, serverVars, screenVars
<1>12. ASSUME NEW c \in calls, Deliver(c) PROVE TypeInv'
  <2>1. calls' \subseteq Call
    BY <1>12 DEF Deliver, TypeInv, TypeOK
  <2>2. open' \subseteq open /\ selected' \in Target
    BY <1>0, <1>12
    DEF Deliver, Created, Updated, StatusChanged, AlertOnly, TypeInv, TypeOK
  <2>3. form' \in {form, Blank(FALSE)}
    BY <1>12 DEF Deliver, Created, Updated, StatusChanged, AlertOnly
  <2>4. Blank(FALSE) \in [of: Target, typed: BOOLEAN]
    BY <1>0 DEF Blank
  <2> QED
    BY <1>12, <2>1, <2>2, <2>3, <2>4 DEF Deliver, TypeInv, TypeOK, serverVars
<1>13. CASE UNCHANGED vars
  BY <1>13 DEF vars, TypeInv, TypeOK
<1> QED
  BY <1>1, <1>2, <1>3, <1>4, <1>5, <1>6, <1>7, <1>8, <1>9, <1>10, <1>11, <1>12, <1>13
  DEF Next

LEMMA TypesInitially == Init => TypeInv
<1> SUFFICES ASSUME Init PROVE TypeInv
  OBVIOUS
<1>1. page \in Features
  BY PageFeatures DEF Init
<1>2. filling \in 0..MaxFillings /\ sent \in [Kinds -> 0..MaxCalls]
  BY FormsAssumption DEF Init
<1> QED
  BY <1>1, <1>2 DEF Init, TypeInv, TypeOK, Blank, Target

(* Every page keeps its state variables, its calls and the server's counts *)
(* in their types: closing one form while another one's request is under   *)
(* way leaves nothing undefined behind.                                    *)
THEOREM PagesTypeCorrect == Spec => []TypeOK
<1>1. TypeInv => TypeOK
  BY DEF TypeInv
<1> QED
  BY <1>1, TypesInitially, TypeStep, PTL DEF Spec

-----------------------------------------------------------------------------
(* Whose data a save carries.  The form on top must hold the data of its   *)
(* own target, though answers blank it, forget the target or close other   *)
(* forms: that takes the dialog to lie over the edit form until it has     *)
(* taken the target away from both.                                        *)

Own(of, row) == of = row \/ (of = None /\ page.blanks)

FormInv ==
    /\ WritesOwnForm
    /\ "add" \in open => form.of = None \/ page.keeps
    /\ "dialog" \in open => page.dialog /\ selected # None
    /\ OnTop("edit") => Own(form.of, selected)

LEMMA SendKeepsForm ==
    ASSUME TypeInv, FormInv, NEW kind \in Kinds, NEW row, NEW of, NEW n,
           kind = "update" => Own(of, row),
           kind = "create" => of = None \/ page.keeps,
           Send(kind, row, of, n)
    PROVE  FormInv'
BY DEF Send, FormInv, WritesOwnForm, OnTop, Shown, Own, screenVars

LEMMA AdvanceKeepsCalls ==
    ASSUME TypeInv, WritesOwnForm, NEW c \in calls, NEW stage, Advance(c, stage),
           UNCHANGED page
    PROVE  WritesOwnForm'
<1> DEFINE d == [c EXCEPT !.stage = stage]
<1>1. d.kind = c.kind /\ d.of = c.of /\ d.row = c.row
  BY DEF TypeInv, TypeOK, Call
<1> HIDE DEF d
<1>2. calls' = (calls \ {c}) \cup {d}
  BY DEF Advance, d
<1> QED
  BY <1>1, <1>2 DEF WritesOwnForm

LEMMA FormStep == TypeInv /\ FormInv /\ [Next]_vars => FormInv'
<1> SUFFICES ASSUME TypeInv, FormInv, [Next]_vars PROVE FormInv'
  OBVIOUS
<1>0. page \in Features /\ DialogPage(page) /\ None \notin Rows
  BY PageFeatures, FormsAssumption DEF TypeInv
<1>1. CASE OpenAdd
  BY <1>1 DEF OpenAdd, FormInv, WritesOwnForm, OnTop, Shown, NoModal, Own, Blank
<1>2. ASSUME NEW r \in Rows, OpenEdit(r) PROVE FormInv'
  BY <1>0, <1>2 DEF OpenEdit, FormInv, WritesOwnForm, OnTop, Shown, NoModal, Own
<1>3. ASSUME NEW r \in Rows, OpenDialog(r) PROVE FormInv'
  BY <1>0, <1>3 DEF OpenDialog, FormInv, WritesOwnForm, OnTop, Shown, NoModal, Own
<1>4. CASE Type
  BY <1>4 DEF Type, FormInv, WritesOwnForm, OnTop, Shown, Own, TypeInv, TypeOK
<1>5. CASE CloseAdd
  BY <1>5 DEF CloseAdd, FormInv, WritesOwnForm, OnTop, Shown, Own
<1>6. CASE CloseEdit
  BY <1>0, <1>6
  DEF CloseEdit, FormInv, WritesOwnForm, OnTop, Shown, Own, DialogPage
<1>7. CASE CloseDialog
  BY <1>7 DEF CloseDialog, FormInv, WritesOwnForm, OnTop, Shown, Own
<1>8. CASE SubmitAdd
  BY <1>8, SendKeepsForm DEF SubmitAdd, FormInv, OnTop, Shown, Kinds
<1>9. CASE SubmitEdit
  BY <1>9, SendKeepsForm DEF SubmitEdit, FormInv, Kinds
<1>10. CASE SubmitDialog
  BY <1>10, SendKeepsForm DEF SubmitDialog, Kinds
<1>11. ASSUME NEW c \in calls, Serve(c) \/ Refuse(c) \/ LoseAnswer(c) PROVE FormInv'
  <2>1. WritesOwnForm'
    BY <1>11, AdvanceKeepsCalls DEF Serve, Refuse, LoseAnswer, FormInv
  <2> QED
    BY <1>11, <2>1
    DEF Serve, Refuse, LoseAnswer, FormInv, OnTop, Shown, Own, screenVars
<1>12. ASSUME NEW c \in calls, Deliver(c) PROVE FormInv'
  <2>1. WritesOwnForm'
    BY <1>12 DEF Deliver, FormInv, WritesOwnForm
  <2>2. CASE Created(c)
    <3>1. form' = form \/ (page.blanks /\ form'.of = None)
      BY <2>2 DEF Created, Blank
    <3>2. selected' = selected \/ (selected' = None /\ ~page.dialog)
      BY <1>0, <2>2 DEF Created, DialogPage
    <3>3. open' \subseteq open /\ ("dialog" \in open => "dialog" \in open')
      BY <2>2 DEF Created
    <3> QED
      BY <1>12, <2>1, <3>1, <3>2, <3>3 DEF Deliver, FormInv, OnTop, Shown, Own
  <2>3. CASE Updated(c)
    <3>1. "edit" \notin open' /\ open' \subseteq open
      BY <2>3 DEF Updated
    <3>2. selected' = selected \/ ~page.dialog
      BY <1>0, <2>3 DEF Updated, DialogPage
    <3> QED
      BY <1>12, <2>1, <2>3, <3>1, <3>2
      DEF Updated, Deliver, FormInv, OnTop, Shown
  <2>4. CASE StatusChanged(c)
    BY <1>12, <2>1, <2>4 DEF StatusChanged, Deliver, FormInv, OnTop, Shown
  <2>5. CASE AlertOnly(c)
    BY <1>12, <2>1, <2>5 DEF AlertOnly, Deliver, FormInv, OnTop, Shown, Own
  <2> QED
    BY <1>12, <2>2, <2>3, <2>4, <2>5 DEF Deliver
<1>13. CASE UNCHANGED vars
  BY <1>13 DEF vars, FormInv, WritesOwnForm, OnTop, Shown, Own
<1> QED
  BY <1>1, <1>2, <1>3, <1>4, <1>5, <1>6, <1>7, <1>8, <1>9, <1>10, <1>11, <1>12, <1>13
  DEF Next

(* On no page, and after no interleaving of answers with the user's steps, *)
(* does a save write into one record what was loaded from another.         *)
THEOREM PagesWriteOwnForm == Spec => []WritesOwnForm
<1>1. Init => TypeInv /\ FormInv
  BY TypesInitially DEF Init, FormInv, WritesOwnForm, OnTop, Shown
<1>2. TypeInv /\ FormInv => WritesOwnForm
  BY DEF FormInv
<1> QED
  BY <1>1, <1>2, TypeStep, FormStep, PTL DEF Spec
-----------------------------------------------------------------------------
(* How many records one form makes, where the button is guarded.  There is *)
(* at most one create under way; the form on screen has made no record     *)
(* whose answer is neither lost nor still to come.                         *)

Create(c)     == c.kind = "create"
Balanced(n)   == created[n] <= lost[n]
RecordInv ==
    /\ \A c \in calls: Create(c) => c.id = sent["create"] /\ c.filling <= filling
    /\ \A c, d \in calls: Create(c) /\ Create(d) => c = d
    /\ \A n \in Fillings: created[n] <= 1 + lost[n]
    /\ \A n \in Fillings: n > filling => created[n] = 0
    /\ \A c \in calls: Create(c) /\ c.stage # "done" => Balanced(c.filling)
    /\ "add" \in open /\ (\A c \in calls: Create(c) /\ c.stage = "done" => c.filling # filling)
        => Balanced(filling)

\* Steps that send, answer and create nothing, and open no add form.
LEMMA ScreenStep ==
    ASSUME TypeInv, RecordInv, UNCHANGED <<calls, sent, serverVars>>,
           \/ UNCHANGED filling /\ ("add" \in open' => "add" \in open)
           \/ filling' = filling + 1 /\ filling + 1 \in Fillings /\ "add" \notin open'
    PROVE  RecordInv'
<1> USE DEF serverVars
<1>1. filling \in Nat /\ \A c \in calls: c.filling \in Nat
  BY FormsAssumption DEF TypeInv, TypeOK, Call, Fillings
<1>2. \A n \in Fillings: n \in Nat
  BY DEF Fillings
<1> QED
  BY <1>1, <1>2 DEF RecordInv, Balanced, Create

LEMMA RecordSend ==
    ASSUME TypeInv, RecordInv, NEW kind \in Kinds, NEW row, NEW of, NEW n,
           Send(kind, row, of, n),
           kind = "create" => ~Pending("create") /\ "add" \in open /\ n = filling
    PROVE  RecordInv'
<1> DEFINE new == [id |-> sent[kind] + 1, kind |-> kind, row |-> row, of |-> of,
                   filling |-> n, stage |-> "sent"]
<1>1. /\ new.id = sent[kind] + 1 /\ new.kind = kind
      /\ new.filling = n /\ new.stage = "sent"
  OBVIOUS
<1> HIDE DEF new
<1>2. calls' = calls \cup {new} /\ UNCHANGED <<open, filling, created, lost>>
  BY DEF Send, new, screenVars, serverVars
<1>3. sent' = [sent EXCEPT ![kind] = @ + 1] /\ sent \in [Kinds -> 0..MaxCalls]
  BY DEF Send, TypeInv, TypeOK
<1>4. filling \in Nat
  BY FormsAssumption DEF TypeInv, TypeOK
<1>5. CASE kind # "create"
  BY <1>1, <1>2, <1>3, <1>5 DEF RecordInv, Create, Balanced, Kinds
<1>6. CASE kind = "create"
  <2>1. \A c \in calls: ~Create(c)
    BY <1>6 DEF RecordInv, Create, Pending
  <2>2. \A c \in calls': Create(c) => c = new
    BY <1>2, <2>1
  <2>3. new.id = sent'["create"]
    BY <1>1, <1>3, <1>6 DEF Kinds
  <2>4. Balanced(filling)
    BY <1>6, <2>1 DEF RecordInv
  <2> QED
    BY <1>1, <1>2, <1>4, <1>6, <2>2, <2>3, <2>4 DEF RecordInv, Balanced
<1> QED
  BY <1>5, <1>6

LEMMA RecordServer ==
    ASSUME TypeInv, RecordInv, NEW c \in calls, NEW stage,
           \/ Serve(c) /\ stage = "done"
           \/ (Refuse(c) \/ LoseAnswer(c)) /\ stage = "refused"
    PROVE  RecordInv'
<1> DEFINE new == [c EXCEPT !.stage = stage]
<1>1. /\ new.id = c.id /\ new.kind = c.kind
      /\ new.filling = c.filling /\ new.stage = stage
  BY DEF TypeInv, TypeOK, Call
<1>2. new \in calls' /\ calls' = (calls \ {c}) \cup {new}
  BY DEF Serve, Refuse, LoseAnswer, Advance
<1> HIDE DEF new
<1>3. UNCHANGED <<open, filling, sent>>
  BY DEF Serve, Refuse, LoseAnswer, screenVars, serverVars
<1>4. /\ created \in [Fillings -> Nat] /\ lost \in [Fillings -> Nat]
      /\ filling \in Nat /\ c.filling \in Fillings
  BY FormsAssumption DEF TypeInv, TypeOK, Call
<1>5. CASE ~Create(c)
  <2>1. \A d \in calls': Create(d) => d \in calls
    BY <1>1, <1>2, <1>5 DEF Create
  <2>2. \A d \in calls: Create(d) => d \in calls'
    BY <1>2, <1>5
  <2>3. created' = created /\ \A n \in Fillings: lost'[n] >= lost[n] /\ lost'[n] \in Nat
    BY <1>4, <1>5 DEF Serve, Refuse, LoseAnswer, serverVars, Create
  <2>4. "add" \in open => filling \in Fillings
    BY DEF TypeInv
  <2>5. \A d \in calls: d.filling \in Fillings
    BY DEF TypeInv, TypeOK, Call
  <2> QED
    BY <1>3, <1>4, <2>1, <2>2, <2>3, <2>4, <2>5 DEF RecordInv, Balanced
<1>6. CASE Create(c)
  <2>1. \A d \in calls': Create(d) => d = new
    BY <1>2, <1>6 DEF RecordInv
  <2>2. c.filling <= filling /\ c.id = sent["create"]
    BY <1>6 DEF RecordInv
  <2>3. Create(new)
    BY <1>1, <1>6 DEF Create
  <2>4. "add" \in open => filling \in Fillings
    BY DEF TypeInv
  <2>5. CASE Serve(c) /\ stage = "done"
    <3>1. stage = "done" /\ Balanced(c.filling)
      BY <1>6, <2>5 DEF Serve, RecordInv
    <3>2. created' = [created EXCEPT ![c.filling] = @ + 1] /\ lost' = lost
      BY <2>5, <1>6 DEF Serve, Create
    <3>3. \A n \in Fillings: created'[n] <= 1 + lost'[n]
      BY <1>4, <3>1, <3>2 DEF RecordInv, Balanced
    <3>4. \A n \in Fillings: n > filling' => created'[n] = 0
      BY <1>3, <1>4, <2>2, <3>2 DEF RecordInv, Fillings
    <3>5. c.filling # filling => \A d \in calls: Create(d) /\ d.stage = "done" => d.filling # filling
      BY <1>6 DEF RecordInv
    <3>6. "add" \in open' /\ c.filling # filling => Balanced(filling)'
      BY <1>3, <1>4, <2>4, <3>2, <3>5 DEF RecordInv, Balanced
    <3>7. \A d \in calls': Create(d) => d.id = sent'["create"] /\ d.filling <= filling' /\ d.stage = "done"
      BY <1>1, <1>3, <2>1, <2>2, <3>1
    <3> QED
      BY <1>1, <1>2, <1>3, <2>1, <2>3, <3>1, <3>3, <3>4, <3>6, <3>7 DEF RecordInv
  <2>6. CASE Refuse(c)
    <3>1. Balanced(c.filling) /\ UNCHANGED <<created, lost>> /\ c.stage # "done"
      BY <2>6, <1>6 DEF Refuse, RecordInv, serverVars
    <3> QED
      BY <1>1, <1>2, <1>3, <1>4, <1>6, <2>1, <2>2, <2>3, <2>4, <3>1
      DEF RecordInv, Balanced
  <2>7. CASE LoseAnswer(c)
    <3>1. created' = created /\ lost' = [lost EXCEPT ![c.filling] = @ + 1]
      BY <2>7 DEF LoseAnswer
    <3>2. created[c.filling] <= lost'[c.filling]
      BY <1>4, <3>1 DEF RecordInv
    <3> QED
      BY <1>1, <1>2, <1>3, <1>4, <1>6, <2>1, <2>2, <2>3, <2>4, <3>1, <3>2
      DEF RecordInv, Balanced
  <2> QED
    BY <2>5, <2>6, <2>7
<1> QED
  BY <1>5, <1>6
LEMMA RecordDeliver ==
    ASSUME TypeInv, RecordInv, NEW c \in calls, Deliver(c)
    PROVE  RecordInv'
<1>1. calls' = calls \ {c} /\ open' \subseteq open
  BY DEF Deliver, Created, Updated, StatusChanged, AlertOnly
<1>2. UNCHANGED <<filling, sent, created, lost>>
  BY DEF Deliver, serverVars
<1>3. CASE Create(c) /\ c.stage = "done"
  <2>1. "add" \notin open'
    BY <1>3 DEF Deliver, Created, Updated, StatusChanged, AlertOnly, Create
  <2> QED
    BY <1>1, <1>2, <2>1 DEF RecordInv, Balanced
<1>4. CASE ~(Create(c) /\ c.stage = "done")
  BY <1>1, <1>2, <1>4 DEF RecordInv, Balanced
<1> QED
  BY <1>3, <1>4

LEMMA RecordStep ==
    TypeInv /\ (page.guarded => RecordInv) /\ [Next]_vars => (page.guarded => RecordInv)'
<1> SUFFICES ASSUME TypeInv, RecordInv, page.guarded, [Next]_vars PROVE RecordInv'
  <2>1. [Next]_vars => page' = page
    BY DEF Next, vars, OpenAdd, OpenEdit, OpenDialog, Type, CloseAdd, CloseEdit,
       CloseDialog, SubmitAdd, SubmitEdit, SubmitDialog, Send, Serve, Refuse,
       LoseAnswer, Deliver
  <2> QED
    BY <2>1
<1>1. filling \in Nat /\ (filling < MaxFillings => filling + 1 \in Fillings)
  BY FormsAssumption DEF TypeInv, TypeOK, Fillings
<1>2. CASE OpenAdd
  <2>1. created[filling + 1] = 0 /\ lost[filling + 1] \in Nat
    BY <1>1, <1>2 DEF OpenAdd, RecordInv, TypeInv, TypeOK
  <2>2. filling' = filling + 1 /\ UNCHANGED <<calls, sent, created, lost>>
    BY <1>2 DEF OpenAdd, serverVars
  <2>3. \A c \in calls: c.filling \in Nat
    BY DEF TypeInv, TypeOK, Call, Fillings
  <2> QED
    BY <1>1, <2>1, <2>2, <2>3 DEF RecordInv, Balanced, Fillings
<1>3. ASSUME NEW r \in Rows, OpenEdit(r) \/ OpenDialog(r) PROVE RecordInv'
  BY <1>1, <1>3, ScreenStep DEF OpenEdit, OpenDialog, NoModal, Shown
<1>4. CASE Type \/ CloseAdd \/ CloseEdit \/ CloseDialog
  BY <1>4, ScreenStep DEF Type, CloseAdd, CloseEdit, CloseDialog
<1>5. CASE SubmitAdd
  BY <1>5, RecordSend DEF SubmitAdd, OnTop, Shown, SubmitDisabled, Kinds
<1>6. CASE SubmitEdit
  BY <1>6, RecordSend DEF SubmitEdit, Kinds
<1>7. CASE SubmitDialog
  BY <1>7, RecordSend DEF SubmitDialog, Kinds
<1>8. ASSUME NEW c \in calls, Serve(c) \/ Refuse(c) \/ LoseAnswer(c) PROVE RecordInv'
  BY <1>8, RecordServer
<1>9. ASSUME NEW c \in calls, Deliver(c) PROVE RecordInv'
  BY <1>9, RecordDeliver
<1>10. CASE UNCHANGED vars
  BY <1>10 DEF vars, RecordInv, Balanced
<1> QED
  BY <1>2, <1>3, <1>4, <1>5, <1>6, <1>7, <1>8, <1>9, <1>10 DEF Next

(* On the guarded pages one filling of the add form makes one record, for  *)
(* any number of forms, requests and lost answers.                         *)
THEOREM OneRecordPerFormHolds == Spec => []OneRecordPerForm
<1>1. Init => (page.guarded => RecordInv)
  BY DEF Init, RecordInv, Balanced
<1>2. TypeInv /\ (page.guarded => RecordInv) => OneRecordPerForm
  BY DEF RecordInv, OneRecordPerForm
<1> QED
  BY <1>1, <1>2, TypesInitially, TypeStep, RecordStep, PTL DEF Spec

-----------------------------------------------------------------------------
(* The pages with the components of the assets page.                       *)


PagesInv == TypeInv /\ FormInv /\ (page.guarded => RecordInv)

LEMMA PagesInitially == Init => PagesInv
BY TypesInitially
DEF PagesInv, Init, FormInv, WritesOwnForm, OnTop, Shown, RecordInv, Balanced

LEMMA PagesStep == PagesInv /\ [Next]_vars => PagesInv'
BY TypeStep, FormStep, RecordStep DEF PagesInv

LEMMA PagesSend ==
    ASSUME PagesInv, NEW row \in Target, NEW of \in Target, NEW n \in Fillings,
           Own(of, row), Send("update", row, of, n)
    PROVE  PagesInv'
<1>1. "update" \in Kinds /\ page' = page
  BY DEF Kinds, Send
<1>2. TypeInv'
  BY <1>1, SendTypes DEF PagesInv
<1>3. FormInv'
  BY <1>1, SendKeepsForm DEF PagesInv
<1>4. page.guarded => RecordInv'
  BY <1>1, RecordSend DEF PagesInv
<1> QED
  BY <1>1, <1>2, <1>3, <1>4 DEF PagesInv

-----------------------------------------------------------------------------
(* The steps of the assets page are steps of the pages, but for the update *)
(* at the end of a component save.                                         *)

SavesOwn == \A s \in saves: s \in Saving /\ Own(s.of, s.row)

LEMMA FormsStepPages ==
    PagesInv /\ SavesOwn /\ [FormsNext]_formVars => PagesInv'
<1> SUFFICES ASSUME PagesInv, SavesOwn, [FormsNext]_formVars PROVE PagesInv'
  OBVIOUS
<1>1. CASE PageStep
  BY <1>1, PagesStep DEF PageStep, Next
<1>2. ASSUME NEW r \in Rows, EditOpens(r) PROVE PagesInv'
  BY <1>2, PagesStep DEF EditOpens, Next
<1>3. ASSUME NEW c \in calls, Served(c) \/ Delivered(c) PROVE PagesInv'
  BY <1>3, PagesStep DEF Served, Delivered, Next
<1>4. ASSUME NEW s \in saves, PutExisting(s) PROVE PagesInv'
  BY <1>4, PagesSend DEF PutExisting, SavesOwn, Saving, Target
<1>5. ASSUME UNCHANGED vars PROVE PagesInv'
  BY <1>5, PagesStep
<1>6. ASSUME NEW f \in fetches, ServerLists(f) \/ ComponentsCome(f) \/ ComponentsFail(f)
      PROVE  PagesInv'
  BY <1>5, <1>6 DEF ServerLists, ComponentsCome, ComponentsFail
<1>7. ASSUME NEW c \in components, HandleComponentRemove(c) PROVE PagesInv'
  BY <1>5, <1>7 DEF HandleComponentRemove
<1>8. CASE HandleComponentAdd \/ HandleUpdate
  BY <1>5, <1>8 DEF HandleComponentAdd, HandleUpdate
<1>9. ASSUME NEW s \in saves, DeleteRemoved(s) \/ PostNew(s) \/ PutFails(s) PROVE PagesInv'
  BY <1>5, <1>9 DEF DeleteRemoved, PostNew, PutFails
<1> QED
  BY <1>1, <1>2, <1>3, <1>4, <1>5, <1>6, <1>7, <1>8, <1>9 DEF FormsNext, formVars
-----------------------------------------------------------------------------
(* Types of the components and the saves.                                  *)

NewRows == {c \in components: c.isNew}

PartsInv ==
    /\ AssetFormsTypeOK
    /\ SavesOwn
    /\ IsFiniteSet(NewRows) /\ \A s \in saves: IsFiniteSet(s.add)
    /\ desktops # {} => page = AssetsPage
    /\ desktops = {} => components = {} /\ originalIds = {} /\ saves = {}

\* t is the save s at a later round.
Derived(t, s) ==
    /\ t.row = s.row /\ t.of = s.of /\ t.early = s.early
    /\ t.del = s.del /\ t.add = s.add /\ t.keep = s.keep

LEMMA ProceedsTypes ==
    ASSUME saves \subseteq Saving, NEW s \in saves,
           NEW at \in {"delete", "add", "put"}, Proceeds(s, at)
    PROVE  saves' \subseteq Saving /\ \A t \in saves': \E u \in saves: Derived(t, u)
<1> DEFINE new == [s EXCEPT !.at = at]
<1>1. s \in Saving
  OBVIOUS
<1>2. new \in Saving /\ Derived(new, s)
  BY <1>1 DEF Saving, Derived
<1>3. saves' = (saves \ {s}) \cup {new}
  BY DEF Proceeds
<1> HIDE DEF new
<1> QED
  BY <1>2, <1>3 DEF Derived

LEMMA OverlapTypes ==
    ASSUME NEW s \in Saving
    PROVE  [s EXCEPT !.alone = FALSE] \in Saving /\ Derived([s EXCEPT !.alone = FALSE], s)
BY DEF Saving, Derived

\* The ids the server gives are new.
LEMMA MadeTypes ==
    ASSUME issued \in Nat, NEW add \in SUBSET Component, IsFiniteSet(add), NEW row \in Rows,
           issued + Cardinality(add) <= MaxIds
    PROVE  /\ Cardinality(add) \in Nat
           /\ Made(add, row) \subseteq Stored
           /\ \A d \in Made(add, row):
                d.of = row /\ d.id > issued /\ d.id <= issued + Cardinality(add)
<1>1. Cardinality(add) \in Nat
  BY FS_CardinalityType
<1>2. ASSUME NEW c \in add
      PROVE  Cardinality({d \in add: d.id <= c.id}) \in 1..Cardinality(add)
  <2> DEFINE below == {d \in add: d.id <= c.id}
  <2>1. below \in SUBSET add /\ c \in below
    BY <1>2 DEF Component, Ids
  <2> HIDE DEF below
  <2>2. IsFiniteSet(below) /\ Cardinality(below) <= Cardinality(add)
    BY <2>1, FS_Subset
  <2>3. Cardinality(below) \in Nat /\ Cardinality(below) # 0
    BY <2>1, <2>2, FS_EmptySet, FS_CardinalityType
  <2> QED
    BY <1>1, <2>2, <2>3 DEF below
<1>3. ASSUME NEW d \in Made(add, row)
      PROVE  d \in Stored /\ d.of = row /\ d.id > issued /\ d.id <= issued + Cardinality(add)
  <2>1. PICK c \in add: d = [id |-> issued + Cardinality({e \in add: e.id <= c.id}),
                             of |-> row, typed |-> c.id]
    BY <1>3 DEF Made
  <2> DEFINE n == Cardinality({e \in add: e.id <= c.id})
  <2>2. n \in 1..Cardinality(add)
    BY <1>2
  <2>3. d.id = issued + n /\ d.of = row /\ d.typed = c.id
    BY <2>1
  <2> HIDE DEF n
  <2>4. issued + n \in Ids /\ c.id \in Ids
    BY <1>1, <2>2, AssetFormsAssumption DEF Ids, Component
  <2> QED
    BY <1>1, <2>1, <2>2, <2>3, <2>4 DEF Stored, n
<1> QED
  BY <1>1, <1>3
\* The saves that a click on Update now would overlap with.
Overlapped ==
    {s \in saves: s.row = selected \/ \E c \in stored: c.of = s.row /\ c.id \in Removed}

\* What a click on Update adds to the saves under way.
LEMMA UpdateTypes ==
    ASSUME TypeInv, PartsInv, HandleUpdate
    PROVE  \E new \in Saving:
             /\ new.row = selected /\ new.of = form.of /\ new.early = (fetches # {})
             /\ new.del = Removed /\ new.add = NewRows
             /\ new.keep = IdsOf({c \in components: ~c.isNew})
             /\ new.at = "delete"
             /\ new.alone => Overlapped = {} /\ IdsOf({c \in stored: c.of = selected}) = originalIds
             /\ \A t \in saves': \/ t = new \/ t \in saves \ Overlapped
                                 \/ ~t.alone /\ \E s \in Overlapped: Derived(t, s) /\ t.at = s.at
             /\ \A t \in saves': t = new \/ \E s \in saves: t \in Saving /\ Derived(t, s)
<1> DEFINE own == {c \in stored: c.of = selected}
           free == {i \in 1..MaxCalls: \A s \in saves: s.id # i}
           others == Overlapped
           keep == IdsOf({c \in components: ~c.isNew})
           alone == others = {} /\ IdsOf(own) = originalIds
           new == [id |-> CHOOSE i \in free: TRUE, row |-> selected, of |-> form.of,
                   filling |-> filling, del |-> Removed, add |-> NewRows, keep |-> keep,
                   at |-> "delete", early |-> fetches # {}, alone |-> alone]
<1>1. (CHOOSE i \in free: TRUE) \in 1..MaxCalls
  BY DEF HandleUpdate
<1>2. selected \in Rows /\ form.of \in Target /\ filling \in Fillings
  BY DEF HandleUpdate, OnTop, Shown, TypeInv, TypeOK, Target
<1>3. Removed \in SUBSET Ids /\ NewRows \in SUBSET Component /\ keep \in SUBSET Ids
  BY DEF PartsInv, AssetFormsTypeOK, Removed, NewRows, IdsOf, Component
<1>4. saves' = (saves \ others) \cup {[s EXCEPT !.alone = FALSE]: s \in others} \cup {new}
  BY DEF HandleUpdate, NewRows, Overlapped
<1> HIDE DEF free, keep
<1>5. alone \in BOOLEAN /\ (fetches # {}) \in BOOLEAN
  OBVIOUS
<1> HIDE DEF alone
<1>6. new \in Saving
  BY <1>1, <1>2, <1>3, <1>5 DEF Saving
<1>7. new.row = selected /\ new.of = form.of /\ new.early = (fetches # {})
      /\ new.del = Removed /\ new.add = NewRows /\ new.keep = keep
      /\ new.at = "delete" /\ new.alone = alone
  OBVIOUS
<1> HIDE DEF new
<1>9. new.alone => Overlapped = {} /\ IdsOf({c \in stored: c.of = selected}) = originalIds
  BY <1>7 DEF alone
<1>10. \A t \in saves':
         \/ t = new \/ t \in saves \ Overlapped
         \/ ~t.alone /\ \E s \in Overlapped: Derived(t, s) /\ t.at = s.at
  <2> SUFFICES ASSUME NEW t \in saves', t # new, t \notin saves \ others
               PROVE  ~t.alone /\ \E s \in others: Derived(t, s) /\ t.at = s.at
    OBVIOUS
  <2>1. PICK s \in others: t = [s EXCEPT !.alone = FALSE]
    BY <1>4
  <2>2. s \in Saving
    BY DEF Overlapped, PartsInv, AssetFormsTypeOK
  <2> QED
    BY <2>1, <2>2, OverlapTypes DEF Saving
<1>8. \A t \in saves': t = new \/ \E s \in saves: t \in Saving /\ Derived(t, s)
  <2> SUFFICES ASSUME NEW t \in saves', t # new
               PROVE  \E s \in saves: t \in Saving /\ Derived(t, s)
    OBVIOUS
  <2>1. saves \subseteq Saving
    BY DEF PartsInv, AssetFormsTypeOK
  <2>2. CASE t \in saves
    BY <2>1, <2>2 DEF Derived
  <2>3. CASE t \notin saves
    <3>1. PICK s \in others: t = [s EXCEPT !.alone = FALSE]
      BY <1>4, <2>3
    <3> QED
      BY <2>1, <3>1, OverlapTypes DEF Overlapped
  <2> QED
    BY <2>2, <2>3
<1> QED
  BY <1>6, <1>7, <1>8, <1>9, <1>10 DEF keep

LEMMA ScreenKeeps ==
    ASSUME PagesInv, ~page.dialog, PageStep \/ \E c \in calls: Delivered(c)
    PROVE  Shown("edit")' => Shown("edit") /\ selected' = selected
<1>1. CASE PageStep
  <2>1. CASE OpenAdd
    BY <2>1 DEF OpenAdd, Shown
  <2>2. CASE CloseAdd \/ CloseEdit \/ CloseDialog \/ Type
    BY <2>2 DEF CloseAdd, CloseEdit, CloseDialog, Type, Shown
  <2>3. CASE SubmitAdd \/ SubmitEdit \/ SubmitDialog
    BY <2>3 DEF SubmitAdd, SubmitEdit, SubmitDialog, Send, screenVars, Shown
  <2>4. ASSUME NEW r \in Rows PROVE ~OpenDialog(r)
    BY DEF OpenDialog
  <2> QED
    BY <1>1, <2>1, <2>2, <2>3, <2>4 DEF PageStep
<1>2. ASSUME NEW c \in calls, Delivered(c) PROVE Shown("edit")' => Shown("edit") /\ selected' = selected
  <2>1. Created(c) \/ Updated(c) \/ StatusChanged(c) \/ AlertOnly(c)
    BY <1>2 DEF Delivered, Deliver
  <2>2. CASE Created(c)
    BY <2>2 DEF Created, Shown
  <2>3. CASE Updated(c)
    BY <2>3 DEF Updated, Shown
  <2>4. CASE StatusChanged(c) \/ AlertOnly(c)
    BY <2>4 DEF StatusChanged, AlertOnly, Shown
  <2> QED
    BY <2>1, <2>2, <2>3, <2>4
<1> QED
  BY <1>1, <1>2

LEMMA SamePage == [FormsNext]_formVars => page' = page /\ desktops' = desktops
BY DEF FormsNext, formVars, vars, parts, PageStep, OpenAdd, CloseAdd, CloseEdit, Type,
   OpenDialog, CloseDialog, SubmitDialog, SubmitAdd, SubmitEdit, Send, EditOpens, OpenEdit,
   Served, Serve, Refuse, LoseAnswer, Delivered, Deliver, ServerLists, ComponentsCome,
   ComponentsFail, HandleComponentAdd, HandleComponentRemove, HandleUpdate, DeleteRemoved,
   PostNew, PutExisting, PutFails

LEMMA PartsStep == PagesInv /\ PartsInv /\ [FormsNext]_formVars => PartsInv'
<1> SUFFICES ASSUME PagesInv, PartsInv, [FormsNext]_formVars PROVE PartsInv'
  OBVIOUS
<1>0. page' = page /\ desktops' = desktops
  BY SamePage
<1> USE DEF PartsInv
<1>1. ASSUME fetches' \subseteq fetches, fetches' # {} => Shown("edit")',
             components' \in {components, {}},
             UNCHANGED <<originalIds, stored, saves, issued>>
      PROVE  PartsInv'
  <2>1. NewRows' \in {NewRows, {}}
    BY <1>1 DEF NewRows
  <2> QED
    BY <1>0, <1>1, <2>1, FS_EmptySet DEF AssetFormsTypeOK, SavesOwn, Own
<1>2. CASE PageStep
  BY <1>1, <1>2 DEF PageStep, Cleanup
<1>3. ASSUME NEW c \in calls, Delivered(c) PROVE PartsInv'
  BY <1>1, <1>3 DEF Delivered, Cleanup
<1>4. ASSUME NEW c \in calls, Served(c) PROVE PartsInv'
  <2>1. UNCHANGED <<parts, open, selected>>
    BY <1>4 DEF Served, Serve, Refuse, LoseAnswer, screenVars
  <2> QED
    BY <1>0, <1>1, <2>1 DEF parts, Shown, AssetFormsTypeOK
<1>5. ASSUME NEW r \in Rows, EditOpens(r) PROVE PartsInv'
  <2>1. Shown("edit")'
    BY <1>5, FormsAssumption DEF EditOpens, OpenEdit, Shown
  <2>2. CASE r \in desktops
    <3> DEFINE new == [row |-> r, read |-> FALSE, got |-> {}]
    <3>0. new \in [row: desktops, read: BOOLEAN, got: SUBSET Ids]
      BY <2>2
    <3>1. fetches' \subseteq [row: desktops, read: BOOLEAN, got: SUBSET Ids]
      <4>1. fetches' = fetches \cup {new}
        BY <1>5, <2>2 DEF EditOpens
      <4> HIDE DEF new
      <4> QED
        BY <3>0, <4>1 DEF AssetFormsTypeOK
    <3>2. UNCHANGED <<components, originalIds, stored, saves, issued>>
      BY <1>5, <2>2 DEF EditOpens
    <3> QED
      BY <1>0, <2>1, <3>1, <3>2 DEF AssetFormsTypeOK, SavesOwn, Own, NewRows
  <2>3. CASE r \notin desktops
    <3>1. components' = {} /\ originalIds' = {} /\ UNCHANGED <<fetches, stored, saves, issued>>
      BY <1>5, <2>3 DEF EditOpens
    <3>2. NewRows' = {}
      BY <3>1 DEF NewRows
    <3> QED
      BY <1>0, <2>1, <3>1, <3>2, FS_EmptySet DEF AssetFormsTypeOK, SavesOwn, Own
  <2> QED
    BY <2>2, <2>3
<1>6. ASSUME NEW f \in fetches, ServerLists(f) PROVE PartsInv'
  <2> DEFINE got == IdsOf({c \in stored: c.of = f.row})
             new == [f EXCEPT !.read = TRUE, !.got = got]
  <2>1. f \in [row: desktops, read: BOOLEAN, got: SUBSET Ids] /\ got \in SUBSET Ids
    BY DEF AssetFormsTypeOK, IdsOf, Stored
  <2> HIDE DEF got
  <2>2. new \in [row: desktops, read: BOOLEAN, got: SUBSET Ids]
    BY <2>1
  <2>3. fetches' = (fetches \ {f}) \cup {new} /\ Shown("edit")'
    BY <1>6 DEF ServerLists, got, AssetFormsTypeOK, vars, Shown
  <2> HIDE DEF new
  <2>4. UNCHANGED <<components, originalIds, stored, saves, issued>>
    BY <1>6 DEF ServerLists
  <2> QED
    BY <1>0, <2>2, <2>3, <2>4 DEF AssetFormsTypeOK, SavesOwn, Own, NewRows
<1>7. ASSUME NEW f \in fetches, ComponentsCome(f) \/ ComponentsFail(f) PROVE PartsInv'
  <2>1. fetches' \subseteq fetches /\ Shown("edit")' /\ desktops # {}
    BY <1>7 DEF ComponentsCome, ComponentsFail, AssetFormsTypeOK, vars, Shown
  <2>2. UNCHANGED <<stored, saves, issued>>
    BY <1>7 DEF ComponentsCome, ComponentsFail
  <2>3. f.row \in Rows /\ f.got \subseteq Ids
    BY DEF AssetFormsTypeOK
  <2>4. components' \subseteq Component /\ NewRows' = {}
    <3>1. ASSUME NEW c \in components' PROVE c \in Component /\ ~c.isNew
      <4>1. PICK i \in f.got: c = [id |-> i, of |-> f.row, isNew |-> FALSE]
        BY <1>7, <3>1 DEF ComponentsCome, ComponentsFail
      <4> QED
        BY <2>3, <4>1 DEF Component, Target
    <3> QED
      BY <3>1 DEF NewRows
  <2>5. originalIds' \subseteq Ids
    BY <1>7, <2>3 DEF ComponentsCome, ComponentsFail
  <2> QED
    BY <1>0, <2>1, <2>2, <2>4, <2>5, FS_EmptySet DEF AssetFormsTypeOK, SavesOwn, Own
<1>8. CASE HandleComponentAdd
  <2> DEFINE new == [id |-> issued + 1, of |-> IF OnTop("edit") THEN selected ELSE None,
                     isNew |-> TRUE]
  <2>1. issued + 1 \in Ids /\ issued' = issued + 1 /\ issued' \in 0..MaxIds
    BY <1>8, AssetFormsAssumption DEF HandleComponentAdd, AssetFormsTypeOK, Ids
  <2>2. new \in Component /\ new.isNew
    BY <2>1 DEF Component, Target, PagesInv, TypeInv, TypeOK
  <2>3. components' = components \cup {new}
    BY <1>8 DEF HandleComponentAdd
  <2> HIDE DEF new
  <2>4. NewRows' = NewRows \cup {new}
    BY <2>2, <2>3 DEF NewRows
  <2>5. IsFiniteSet(NewRows')
    BY <2>4, FS_AddElement
  <2>6. UNCHANGED <<open, selected, originalIds, fetches, stored, saves>> /\ desktops # {}
    BY <1>8 DEF HandleComponentAdd, vars, RowsShown
  <2> QED
    BY <1>0, <2>1, <2>2, <2>3, <2>5, <2>6 DEF AssetFormsTypeOK, SavesOwn, Own, Shown
<1>9. ASSUME NEW c \in components, HandleComponentRemove(c) PROVE PartsInv'
  <2>1. components' = components \ {c}
    BY <1>9 DEF HandleComponentRemove
  <2>2. NewRows' = NewRows \ {c}
    BY <2>1 DEF NewRows
  <2>3. IsFiniteSet(NewRows')
    BY <2>2, FS_RemoveElement
  <2>4. UNCHANGED <<open, selected, originalIds, fetches, stored, saves, issued>> /\ desktops # {}
    BY <1>9 DEF HandleComponentRemove, vars, RowsShown
  <2> QED
    BY <1>0, <2>1, <2>3, <2>4 DEF AssetFormsTypeOK, SavesOwn, Own, Shown
<1>10. ASSUME UNCHANGED <<open, selected, desktops, components, originalIds, fetches>>,
              saves' \subseteq Saving,
              \A t \in saves': Own(t.of, t.row) /\ IsFiniteSet(t.add),
              stored' \subseteq Stored, issued' \in 0..MaxIds, desktops # {}
       PROVE  PartsInv'
  BY <1>0, <1>10 DEF AssetFormsTypeOK, SavesOwn, Own, Shown, NewRows
<1>11. CASE HandleUpdate
  <2>1. PICK new \in Saving:
          /\ new.row = selected /\ new.of = form.of
          /\ new.add = NewRows
          /\ \A t \in saves': t = new \/ \E s \in saves: t \in Saving /\ Derived(t, s)
    BY <1>11, UpdateTypes DEF PagesInv
  <2>2. Own(new.of, new.row)
    BY <1>11, <2>1 DEF HandleUpdate, PagesInv, FormInv
  <2>3. saves' \subseteq Saving
    BY <2>1
  <2>4. \A t \in saves': Own(t.of, t.row) /\ IsFiniteSet(t.add)
    BY <2>1, <2>2 DEF SavesOwn, Derived
  <2>5. /\ UNCHANGED <<open, selected, desktops, components, originalIds, fetches, stored, issued>>
        /\ desktops # {}
    BY <1>11 DEF HandleUpdate, vars
  <2> QED
    BY <1>10, <2>3, <2>4, <2>5 DEF AssetFormsTypeOK
<1>12. ASSUME NEW s \in saves, DeleteRemoved(s) PROVE PartsInv'
  <2>1. saves' \subseteq Saving /\ \A t \in saves': \E u \in saves: Derived(t, u)
    BY <1>12, ProceedsTypes DEF DeleteRemoved, AssetFormsTypeOK, Derived
  <2>2. \A t \in saves': Own(t.of, t.row) /\ IsFiniteSet(t.add)
    BY <2>1 DEF SavesOwn, Derived
  <2>3. stored' \subseteq stored
    BY <1>12 DEF DeleteRemoved
  <2>4. /\ UNCHANGED <<open, selected, desktops, components, originalIds, fetches, issued>>
        /\ desktops # {}
    BY <1>12 DEF DeleteRemoved, vars
  <2> QED
    BY <1>10, <2>1, <2>2, <2>3, <2>4 DEF AssetFormsTypeOK
<1>13. ASSUME NEW s \in saves, PostNew(s) PROVE PartsInv'
  <2>1. PICK add \in SUBSET s.add:
          /\ issued + Cardinality(add) <= MaxIds
          /\ stored' = stored \cup Made(add, s.row)
          /\ issued' = issued + Cardinality(add)
          /\ Proceeds(s, "put") \/ saves' = saves \ {s}
    BY <1>13 DEF PostNew
  <2>2. s \in Saving /\ add \in SUBSET Component /\ IsFiniteSet(add)
    BY FS_Subset DEF SavesOwn, Saving
  <2>3. Cardinality(add) \in Nat /\ Made(add, s.row) \subseteq Stored
    BY <2>1, <2>2, MadeTypes DEF AssetFormsTypeOK, Saving
  <2>4. saves' \subseteq Saving /\ \A t \in saves': \E u \in saves: Derived(t, u)
    BY <2>1, ProceedsTypes DEF AssetFormsTypeOK, Derived
  <2>5. \A t \in saves': Own(t.of, t.row) /\ IsFiniteSet(t.add)
    BY <2>4 DEF SavesOwn, Derived
  <2>6. /\ UNCHANGED <<open, selected, desktops, components, originalIds, fetches>>
        /\ desktops # {}
    BY <1>13 DEF PostNew, vars
  <2>7. issued' \in 0..MaxIds
    BY <2>1, <2>3, AssetFormsAssumption DEF AssetFormsTypeOK
  <2> QED
    BY <1>10, <2>1, <2>3, <2>4, <2>5, <2>6, <2>7 DEF AssetFormsTypeOK
<1>14. ASSUME NEW s \in saves, PutExisting(s) \/ PutFails(s) PROVE PartsInv'
  <2>1. saves' = saves \ {s}
    BY <1>14 DEF PutExisting, PutFails
  <2>2. /\ UNCHANGED <<open, selected, desktops, components, originalIds, fetches, stored, issued>>
        /\ desktops # {}
    BY <1>14 DEF PutExisting, PutFails, Send, screenVars, vars
  <2> QED
    BY <1>10, <2>1, <2>2 DEF AssetFormsTypeOK, SavesOwn
<1>15. CASE UNCHANGED formVars
  BY <1>0, <1>15 DEF formVars, vars, parts, AssetFormsTypeOK, SavesOwn, Own, Shown, NewRows
<1> QED
  BY <1>2, <1>3, <1>4, <1>5, <1>6, <1>7, <1>8, <1>9, <1>11, <1>12, <1>13, <1>14, <1>15
  DEF FormsNext
LEMMA FormsInitially == FormsInit => PagesInv /\ PartsInv
<1> SUFFICES ASSUME FormsInit PROVE PagesInv /\ PartsInv
  OBVIOUS
<1>1. PagesInv
  BY PagesInitially DEF FormsInit
<1>2. stored \subseteq Stored
  <2> SUFFICES ASSUME NEW c \in stored PROVE c \in Stored
    OBVIOUS
  <2>1. PICK owner \in [1..issued -> desktops], i \in 1..issued:
          c = [id |-> i, of |-> owner[i], typed |-> i]
    BY DEF FormsInit
  <2>2. i \in Ids /\ owner[i] \in Rows
    BY <2>1, AssetFormsAssumption DEF FormsInit, Ids
  <2> QED
    BY <2>1, <2>2 DEF Stored
<1>3. AssetFormsTypeOK
  BY <1>2 DEF FormsInit, AssetFormsTypeOK
<1>4. NewRows = {}
  BY DEF FormsInit, NewRows
<1> QED
  BY <1>1, <1>3, <1>4, FS_EmptySet DEF FormsInit, PartsInv, SavesOwn

-----------------------------------------------------------------------------
(* Whose components a save touches.  An id stays with the asset it was     *)
(* given to and is never given again, so the ids that the form keeps mean  *)
(* the same rows when the save gets to them.                               *)

Belong(ids, row) == \A c \in stored: c.id \in ids => c.of = row
Kept             == IdsOf({c \in components: ~c.isNew})
Known(ids)       == ids \subseteq 1..issued

\* The form holds the components of `row`.
Loaded(row) ==
    /\ \A c \in NewRows: c.of = row
    /\ Belong(originalIds, row) /\ Belong(Kept, row)

IdsInv ==
    /\ Known(IdsOf(stored)) /\ Known(originalIds) /\ Known(Kept)
    /\ \A f \in fetches: Known(f.got)
    /\ \A s \in saves: Known(s.del) /\ Known(s.keep)
    /\ \A c, d \in stored: c.id = d.id => c.of = d.of

OwnInv ==
    /\ IdsInv
    /\ \A f \in fetches: f.row = selected /\ Belong(f.got, f.row)
    /\ Shown("edit") /\ fetches = {} => Loaded(selected)
    /\ ComponentsOfOwnAsset

\* Steps that leave the server's components and the saves alone.
LEMMA FormOnly ==
    ASSUME OwnInv, UNCHANGED <<stored, saves, issued>>,
           Known(originalIds)', Known(Kept)',
           \A f \in fetches': Known(f.got) /\ f.row = selected' /\ Belong(f.got, f.row),
           Shown("edit")' /\ fetches' = {} => Loaded(selected)'
    PROVE  OwnInv'
BY DEF OwnInv, IdsInv, Known, Belong, ComponentsOfOwnAsset

\* Steps of a save: a save stays as it was clicked, new components get new ids.
LEMMA SaveOnly ==
    ASSUME PartsInv, OwnInv,
           UNCHANGED <<open, selected, components, originalIds, fetches>>,
           \A t \in saves': \E s \in saves: Derived(t, s),
           issued' \in Nat, issued <= issued', NEW row,
           \A c \in stored': c \in stored \/ (c.of = row /\ c.id \in (issued + 1)..issued')
    PROVE  OwnInv'
<1>1. issued \in Nat
  BY DEF PartsInv, AssetFormsTypeOK
<1>2. \A ids: Known(ids) => Known(ids)'
  BY <1>1 DEF Known
<1>3. \A ids, r: Known(ids) /\ Belong(ids, r) => Belong(ids, r)'
  BY <1>1 DEF Known, Belong
<1>4. Known(IdsOf(stored))'
  BY <1>1 DEF Known, IdsOf, OwnInv, IdsInv
<1>5. \A c, d \in stored': c.id = d.id => c.of = d.of
  BY <1>1 DEF OwnInv, IdsInv, Known, IdsOf
<1>6. Kept' = Kept /\ NewRows' = NewRows
  BY DEF Kept, NewRows, IdsOf
<1>7. IdsInv'
  <2>1. \A t \in saves': Known(t.del)' /\ Known(t.keep)'
    BY <1>2 DEF Derived, OwnInv, IdsInv
  <2> QED
    BY <1>2, <1>4, <1>5, <1>6, <2>1 DEF OwnInv, IdsInv
<1>8. Shown("edit") /\ fetches = {} => Loaded(selected)'
  BY <1>3, <1>6 DEF OwnInv, IdsInv, Loaded
<1>9. ComponentsOfOwnAsset'
  <2> SUFFICES ASSUME NEW t \in saves', ~t.early
               PROVE  /\ \A c \in t.add: c.of = t.row
                      /\ \A c \in stored': c.id \in t.del \cup t.keep => c.of = t.row
    BY DEF ComponentsOfOwnAsset
  <2>1. PICK s \in saves: Derived(t, s)
    OBVIOUS
  <2>2. /\ \A c \in s.add: c.of = s.row
        /\ Belong(s.del, s.row) /\ Belong(s.keep, s.row)
    BY <2>1 DEF Derived, OwnInv, ComponentsOfOwnAsset, Belong
  <2>3. Belong(s.del, s.row)' /\ Belong(s.keep, s.row)'
    BY <1>3, <2>2 DEF OwnInv, IdsInv
  <2> QED
    BY <2>1, <2>2, <2>3 DEF Derived, Belong
<1> QED
  BY <1>3, <1>7, <1>8, <1>9 DEF OwnInv, IdsInv, Shown
LEMMA OwnStep == PagesInv /\ PartsInv /\ OwnInv /\ [FormsNext]_formVars => OwnInv'
<1> SUFFICES ASSUME PagesInv, PartsInv, OwnInv, [FormsNext]_formVars PROVE OwnInv'
  OBVIOUS
<1>0. issued \in Nat /\ (desktops # {} => ~page.dialog) /\ ("dialog" \in open => page.dialog)
  BY AssetPages DEF PartsInv, AssetFormsTypeOK, PagesInv, FormInv
<1>1. CASE PageStep \/ \E c \in calls: Delivered(c)
  <2>1. /\ UNCHANGED <<originalIds, stored, saves, issued>>
        /\ components' \in {components, {}} /\ Cleanup
    BY <1>1 DEF PageStep, Delivered
  <2>2. Known(originalIds)' /\ Known(Kept)'
    BY <2>1 DEF OwnInv, IdsInv, Known, Kept, IdsOf
  <2>3. CASE desktops = {}
    <3>1. fetches = {} /\ components = {} /\ originalIds = {}
      BY <2>3 DEF PartsInv, AssetFormsTypeOK
    <3>2. fetches' = {} /\ Loaded(selected)'
      BY <2>1, <3>1 DEF Cleanup, Loaded, Belong, NewRows, Kept, IdsOf
    <3> QED
      BY <2>1, <2>2, <3>2, FormOnly
  <2>4. CASE desktops # {}
    <3>1. Shown("edit")' => Shown("edit") /\ selected' = selected /\ fetches' = fetches
      BY <1>0, <1>1, <2>1, <2>4, ScreenKeeps DEF Cleanup
    <3>2. fetches' = {} \/ Shown("edit")'
      BY <2>1 DEF Cleanup
    <3>3. \A f \in fetches': Known(f.got)' /\ f.row = selected' /\ Belong(f.got, f.row)'
      BY <2>1, <3>1, <3>2 DEF OwnInv, IdsInv, Known, Belong
    <3>4. Loaded(selected) => Loaded(selected)' \/ selected' # selected
      BY <2>1 DEF Loaded, Belong, NewRows, Kept, IdsOf
    <3>5. Shown("edit")' /\ fetches' = {} => Loaded(selected)'
      BY <3>1, <3>4 DEF OwnInv
    <3> QED
      BY <2>1, <2>2, <3>3, <3>5, FormOnly DEF Known, Belong
  <2> QED
    BY <2>3, <2>4
<1>2. CASE \E c \in calls: Served(c)
  <2>1. UNCHANGED <<parts, open, selected>>
    BY <1>2 DEF Served, Serve, Refuse, LoseAnswer, screenVars
  <2> QED
    BY <2>1 DEF parts, OwnInv, IdsInv, Known, Belong, Loaded, NewRows, Kept, IdsOf, Shown,
       ComponentsOfOwnAsset
<1>3. ASSUME NEW r \in Rows, EditOpens(r) PROVE OwnInv'
  <2>1. fetches = {}
    BY <1>3 DEF EditOpens, OpenEdit, NoModal, PartsInv, AssetFormsTypeOK
  <2>2. selected' = r /\ UNCHANGED <<stored, saves, issued>>
    BY <1>3 DEF EditOpens, OpenEdit
  <2>3. CASE r \in desktops
    <3>1. fetches' = {[row |-> r, read |-> FALSE, got |-> {}]}
      BY <1>3, <2>1, <2>3 DEF EditOpens
    <3>2. \A f \in fetches': f.row = r /\ f.got = {}
      BY <3>1
    <3>3. UNCHANGED <<components, originalIds>> /\ fetches' # {}
      BY <1>3, <2>3, <3>1 DEF EditOpens
    <3>4. Known(originalIds)' /\ Known(Kept)'
      BY <2>2, <3>3 DEF OwnInv, IdsInv, Known, Kept, IdsOf
    <3> QED
      BY <2>2, <3>2, <3>3, <3>4, FormOnly DEF Known, Belong
  <2>4. CASE r \notin desktops
    <3>1. fetches' = {} /\ components' = {} /\ originalIds' = {}
      BY <1>3, <2>1, <2>4 DEF EditOpens
    <3>2. Known(originalIds)' /\ Known(Kept)' /\ Loaded(selected)'
      BY <3>1 DEF Known, Kept, IdsOf, Loaded, Belong, NewRows
    <3> QED
      BY <2>2, <3>1, <3>2, FormOnly
  <2> QED
    BY <2>3, <2>4
<1>4. ASSUME NEW f \in fetches, ServerLists(f) PROVE OwnInv'
  <2> DEFINE got == IdsOf({c \in stored: c.of = f.row})
             new == [f EXCEPT !.read = TRUE, !.got = got]
  <2>1. fetches' = (fetches \ {f}) \cup {new}
    BY <1>4 DEF ServerLists
  <2>2. new.row = f.row /\ new.got = got
    BY DEF PartsInv, AssetFormsTypeOK
  <2>3. Known(got) /\ Belong(got, f.row)
    BY DEF OwnInv, IdsInv, Known, Belong, IdsOf
  <2> HIDE DEF got, new
  <2>4. UNCHANGED <<selected, components, originalIds, stored, saves, issued>>
    BY <1>4 DEF ServerLists, vars
  <2>5. \A g \in fetches': Known(g.got) /\ g.row = selected /\ Belong(g.got, g.row)
    BY <2>1, <2>2, <2>3 DEF OwnInv, IdsInv
  <2>6. Known(originalIds)' /\ Known(Kept)' /\ fetches' # {}
    BY <2>1, <2>4 DEF OwnInv, IdsInv, Known, Kept, IdsOf
  <2> QED
    BY <2>4, <2>5, <2>6, FormOnly DEF Known, Belong
<1>5. ASSUME NEW f \in fetches, ComponentsCome(f) \/ ComponentsFail(f) PROVE OwnInv'
  <2>1. UNCHANGED <<open, selected, stored, saves, issued>> /\ fetches' = fetches \ {f}
    BY <1>5 DEF ComponentsCome, ComponentsFail, vars
  <2>2. NewRows' = {} /\ Kept' \subseteq f.got /\ originalIds' \subseteq f.got
    BY <1>5 DEF ComponentsCome, ComponentsFail, NewRows, Kept, IdsOf
  <2>3. Known(f.got) /\ Belong(f.got, selected)
    BY DEF OwnInv, IdsInv
  <2>4. Known(originalIds)' /\ Known(Kept)' /\ Loaded(selected)'
    BY <2>1, <2>2, <2>3 DEF Known, Belong, Loaded
  <2>5. \A g \in fetches': Known(g.got)' /\ g.row = selected' /\ Belong(g.got, g.row)'
    BY <2>1 DEF OwnInv, IdsInv, Known, Belong
  <2> QED
    BY <2>1, <2>4, <2>5, FormOnly DEF Known, Belong
<1>6. CASE HandleComponentAdd
  <2> DEFINE new == [id |-> issued + 1, of |-> IF OnTop("edit") THEN selected ELSE None,
                     isNew |-> TRUE]
  <2>1. /\ UNCHANGED <<open, selected, originalIds, fetches, stored, saves>>
        /\ issued' = issued + 1 /\ desktops # {} /\ components' = components \cup {new}
    BY <1>6 DEF HandleComponentAdd, RowsShown, vars
  <2>2. new.isNew /\ (Shown("edit") => new.of = selected)
    BY <1>0, <2>1 DEF OnTop, Shown
  <2> HIDE DEF new
  <2>3. Kept' = Kept /\ NewRows' = NewRows \cup {new}
    BY <2>1, <2>2 DEF Kept, IdsOf, NewRows
  <2>4. \A ids: Known(ids) => Known(ids)'
    BY <1>0, <2>1 DEF Known
  <2>5. \A ids, row: Belong(ids, row)' = Belong(ids, row)
    BY <2>1 DEF Belong
  <2>6. IdsInv'
    BY <2>1, <2>3, <2>4 DEF OwnInv, IdsInv, IdsOf
  <2>7. Shown("edit")' /\ fetches' = {} => Loaded(selected)'
    BY <2>1, <2>2, <2>3, <2>5 DEF OwnInv, Loaded, Shown
  <2> QED
    BY <2>1, <2>5, <2>6, <2>7 DEF OwnInv, ComponentsOfOwnAsset
<1>7. ASSUME NEW c \in components, HandleComponentRemove(c) PROVE OwnInv'
  <2>1. /\ UNCHANGED <<open, selected, originalIds, fetches, stored, saves, issued>>
        /\ components' = components \ {c}
    BY <1>7 DEF HandleComponentRemove, vars
  <2>2. Kept' \subseteq Kept /\ NewRows' \subseteq NewRows
    BY <2>1 DEF Kept, IdsOf, NewRows
  <2>3. Known(originalIds)' /\ Known(Kept)'
    BY <2>1, <2>2 DEF OwnInv, IdsInv, Known
  <2>4. Loaded(selected) => Loaded(selected)'
    BY <2>1, <2>2 DEF Loaded, Belong
  <2>5. \A f \in fetches': Known(f.got)' /\ f.row = selected' /\ Belong(f.got, f.row)'
    BY <2>1 DEF OwnInv, IdsInv, Known, Belong
  <2> QED
    BY <2>1, <2>3, <2>4, <2>5, FormOnly DEF OwnInv, Shown, Known, Belong
<1>8. CASE HandleUpdate
  <2>1. UNCHANGED <<open, selected, components, originalIds, fetches, stored, issued>> /\ Shown("edit")
    BY <1>8 DEF HandleUpdate, OnTop, vars
  <2>2. PICK new \in Saving:
          /\ new.row = selected /\ new.early = (fetches # {})
          /\ new.del = Removed /\ new.add = NewRows /\ new.keep = Kept
          /\ \A t \in saves': t = new \/ \E s \in saves: t \in Saving /\ Derived(t, s)
    BY <1>8, UpdateTypes DEF PagesInv, Kept
  <2>3. Removed \subseteq originalIds
    BY DEF Removed
  <2>4. Known(new.del) /\ Known(new.keep)
    BY <2>2, <2>3 DEF OwnInv, IdsInv, Known
  <2>5. ~new.early => (\A c \in new.add: c.of = new.row) /\ Belong(new.del \cup new.keep, new.row)
    BY <2>1, <2>2, <2>3 DEF OwnInv, Loaded, Belong
  <2>6. IdsInv'
    <3>1. \A t \in saves': Known(t.del) /\ Known(t.keep)
      BY <2>2, <2>4 DEF OwnInv, IdsInv, Derived
    <3> QED
      BY <2>1, <3>1 DEF OwnInv, IdsInv, Known, Kept, IdsOf
  <2>7. ComponentsOfOwnAsset'
    <3> SUFFICES ASSUME NEW t \in saves', ~t.early
                 PROVE  /\ \A c \in t.add: c.of = t.row
                        /\ \A c \in stored: c.id \in t.del \cup t.keep => c.of = t.row
      BY <2>1 DEF ComponentsOfOwnAsset
    <3>1. CASE t = new
      BY <2>5, <3>1 DEF Belong
    <3>2. ASSUME NEW s \in saves, Derived(t, s)
          PROVE  /\ \A c \in t.add: c.of = t.row
                 /\ \A c \in stored: c.id \in t.del \cup t.keep => c.of = t.row
      BY <3>2 DEF Derived, OwnInv, ComponentsOfOwnAsset
    <3> QED
      BY <2>2, <3>1, <3>2
  <2>8. Loaded(selected)' = Loaded(selected)
    BY <2>1 DEF Loaded, Belong, NewRows, Kept, IdsOf
  <2> QED
    BY <2>1, <2>6, <2>7, <2>8 DEF OwnInv, Shown, Belong
<1>9. ASSUME NEW s \in saves, DeleteRemoved(s) \/ PutExisting(s) \/ PutFails(s) PROVE OwnInv'
  <2>1. \A t \in saves': \E u \in saves: Derived(t, u)
    BY <1>9, ProceedsTypes DEF DeleteRemoved, PutExisting, PutFails, PartsInv, AssetFormsTypeOK, Derived
  <2>2. /\ UNCHANGED <<open, selected, components, originalIds, fetches, issued>>
        /\ stored' \subseteq stored
    BY <1>9 DEF DeleteRemoved, PutExisting, PutFails, Send, screenVars, vars
  <2> QED
    BY <1>0, <2>1, <2>2, SaveOnly
<1>10. ASSUME NEW s \in saves, PostNew(s) PROVE OwnInv'
  <2>1. PICK add \in SUBSET s.add:
          /\ issued + Cardinality(add) <= MaxIds
          /\ stored' = stored \cup Made(add, s.row)
          /\ issued' = issued + Cardinality(add)
          /\ Proceeds(s, "put") \/ saves' = saves \ {s}
    BY <1>10 DEF PostNew
  <2>2. s \in Saving /\ add \in SUBSET Component /\ IsFiniteSet(add)
    BY FS_Subset DEF PartsInv, SavesOwn, Saving
  <2>3. /\ Cardinality(add) \in Nat
        /\ \A d \in Made(add, s.row):
             d.of = s.row /\ d.id > issued /\ d.id <= issued' /\ d \in Stored
    BY <1>0, <2>1, <2>2, MadeTypes DEF Saving
  <2>4. \A t \in saves': \E u \in saves: Derived(t, u)
    BY <2>1, ProceedsTypes DEF PartsInv, AssetFormsTypeOK, Derived
  <2>5. UNCHANGED <<open, selected, components, originalIds, fetches>>
    BY <1>10 DEF PostNew, vars
  <2>6. \A c \in stored': c \in stored \/ (c.of = s.row /\ c.id \in (issued + 1)..issued')
    BY <1>0, <2>1, <2>3 DEF Stored, Ids
  <2> QED
    BY <1>0, <2>1, <2>3, <2>4, <2>5, <2>6, SaveOnly
<1>11. CASE UNCHANGED formVars
  BY <1>11 DEF formVars, vars, parts, OwnInv, IdsInv, Known, Belong, Loaded, NewRows, Kept,
     IdsOf, Shown, ComponentsOfOwnAsset
<1> QED
  BY <1>1, <1>2, <1>3, <1>4, <1>5, <1>6, <1>7, <1>8, <1>9, <1>10, <1>11 DEF FormsNext

LEMMA OwnInitially == FormsInit => OwnInv
BY AssetFormsAssumption
DEF FormsInit, OwnInv, IdsInv, Known, Belong, IdsOf, Kept, ComponentsOfOwnAsset, Init, Shown

-----------------------------------------------------------------------------
(* Theorems about the pages with their components.                         *)

FormsInv == PagesInv /\ PartsInv /\ OwnInv

LEMMA FormsInvariant == FormsSpec => []FormsInv
<1>1. FormsInit => FormsInv
  BY FormsInitially, OwnInitially DEF FormsInv
<1>2. FormsInv /\ [FormsNext]_formVars => FormsInv'
  BY FormsStepPages, PartsStep, OwnStep DEF FormsInv, PartsInv
<1> QED
  BY <1>1, <1>2, PTL DEF FormsSpec

(* The assets page keeps its components and saves in their types too: a    *)
(* fetch is only waited for while the edit form is there to receive it.    *)
THEOREM AssetFormsTypeCorrect == FormsSpec => [](TypeOK /\ AssetFormsTypeOK)
<1>1. FormsInv => TypeOK /\ AssetFormsTypeOK
  BY DEF FormsInv, PagesInv, TypeInv, PartsInv
<1> QED
  BY <1>1, FormsInvariant, PTL

(* With components to save first, whose update goes out later and past the *)
(* form, no save writes into one record what was loaded from another.      *)
THEOREM AssetFormsWriteOwnForm == FormsSpec => []WritesOwnForm
<1>1. FormsInv => WritesOwnForm
  BY DEF FormsInv, PagesInv, FormInv
<1> QED
  BY <1>1, FormsInvariant, PTL

(* One filling of the add form makes one record there too.                 *)
THEOREM AssetFormsOneRecord == FormsSpec => []OneRecordPerForm
<1>1. FormsInv => OneRecordPerForm
  BY DEF FormsInv, PagesInv, RecordInv, OneRecordPerForm
<1> QED
  BY <1>1, FormsInvariant, PTL

(* A save clicked once the components have come deletes, adds and writes   *)
(* components of its own asset only, for any number of assets, rows, saves *)
(* under way and requests that fail half way.                              *)
THEOREM SavesTouchOwnComponents == FormsSpec => []ComponentsOfOwnAsset
<1>1. FormsInv => ComponentsOfOwnAsset
  BY DEF FormsInv, OwnInv
<1> QED
  BY <1>1, FormsInvariant, PTL

-----------------------------------------------------------------------------
(* What the server has when the update of a desktop is sent.  A save that  *)
(* no other overlaps finds its round's components as the round before left *)
(* them, up to what an early save of another asset deletes of those that   *)
(* stay, which stops it.                                                   *)

Distinct(rows) == \A c, d \in rows: c.id = d.id => c = d

\* The components the server has of the asset that s saves, beside those that stay.
NewOf(s) == {c \in stored: c.of = s.row /\ c.id \notin s.keep}

\* The new rows are there, once each, and nobody is about to delete them.
AddedAll(s) ==
    /\ {c.typed: c \in NewOf(s)} = IdsOf(s.add)
    /\ Cardinality(NewOf(s)) = Cardinality(s.add)
    /\ \A t \in saves: t.at = "delete" => t.del \cap IdsOf(NewOf(s)) = {}

InOrder(s) ==
    /\ \A t \in saves: t.row = s.row => t = s
    /\ s.at = "delete" => IdsOf(NewOf(s)) \subseteq s.del
    /\ s.at = "add" => NewOf(s) = {}
    /\ s.at = "put" => AddedAll(s)

ShownInv ==
    /\ Distinct(NewRows) /\ Known(IdsOf(NewRows))
    /\ \A s \in saves: Distinct(s.add)
    /\ \A s \in saves: s.alone /\ ~s.early => InOrder(s)

\* The server makes one component of each row.
LEMMA MadeShows ==
    ASSUME NEW add \in SUBSET Component, IsFiniteSet(add), Distinct(add), NEW row
    PROVE  /\ {c.typed: c \in Made(add, row)} = IdsOf(add)
           /\ Cardinality(Made(add, row)) = Cardinality(add)
<1> DEFINE n(c) == issued + Cardinality({d \in add: d.id <= c.id})
           f == [c \in add |-> [id |-> n(c), of |-> row, typed |-> c.id]]
<1>1. Made(add, row) = {f[c]: c \in add}
  BY DEF Made
<1> HIDE DEF n
<1>2. \A c \in add: f[c].typed = c.id
  OBVIOUS
<1> HIDE DEF f
<1>3. {c.typed: c \in Made(add, row)} = IdsOf(add)
  <2>1. \A c \in Made(add, row): \E d \in add: c.typed = d.id
    BY <1>1, <1>2
  <2>2. \A d \in add: \E c \in Made(add, row): c.typed = d.id
    BY <1>1, <1>2
  <2> QED
    BY <2>1, <2>2 DEF IdsOf
<1>4. \A c, d \in add: f[c] = f[d] => c = d
  BY <1>2 DEF Distinct
<1>5. f \in Bijection(add, Made(add, row))
  <2>1. f \in [add -> Made(add, row)]
    BY <1>1 DEF f
  <2>2. \A c \in Made(add, row): \E d \in add: f[d] = c
    BY <1>1
  <2> QED
    BY <1>4, <2>1, <2>2 DEF Bijection, Injection, Surjection, IsInjective
<1>6. ExistsBijection(add, Made(add, row))
  BY <1>5 DEF ExistsBijection
<1> QED
  BY <1>3, <1>6, FS_Bijection

\* Steps that leave the server's components and the saves alone.
LEMMA FormShown ==
    ASSUME ShownInv, UNCHANGED <<stored, saves>>,
           Distinct(NewRows)', Known(IdsOf(NewRows))'
    PROVE  ShownInv'
BY DEF ShownInv, InOrder, AddedAll, NewOf

\* The saves beside the one, s, that goes from its round to the next, u, or
\* ends: it deletes what nobody has yet to keep, or adds to its own asset.
LEMMA OthersInOrder ==
    ASSUME NEW s \in saves, NEW t \in saves \ {s}, InOrder(t),
           NEW u, u.row = s.row, u.at # "delete",
           saves' \subseteq (saves \ {s}) \cup {u},
           \/ s.at = "delete" /\ \E gone \in SUBSET s.del: stored' = {c \in stored: c.id \notin gone}
           \/ \E made: stored' = stored \cup made /\ \A c \in made: c.of = s.row
    PROVE  InOrder(t)'
<1>1. s.row # t.row /\ u.row # t.row
  BY DEF InOrder
<1>2. \A v \in saves': v.row = t.row => v = t
  BY <1>1 DEF InOrder
<1>3. NewOf(t)' \subseteq NewOf(t)
  BY <1>1 DEF NewOf
<1>4. t.at = "put" => NewOf(t)' = NewOf(t)
  <2> SUFFICES ASSUME t.at = "put" PROVE NewOf(t)' = NewOf(t)
    OBVIOUS
  <2>1. s.at = "delete" => s.del \cap IdsOf(NewOf(t)) = {}
    BY DEF InOrder, AddedAll
  <2> QED
    BY <1>1, <2>1 DEF NewOf, IdsOf
<1>5. t.at = "put" => AddedAll(t)'
  BY <1>4 DEF InOrder, AddedAll
<1>6. t.at = "delete" => IdsOf(NewOf(t)') \subseteq t.del
  BY <1>3 DEF InOrder, IdsOf
<1>7. t.at = "add" => NewOf(t)' = {}
  BY <1>3 DEF InOrder
<1> QED
  BY <1>2, <1>5, <1>6, <1>7 DEF InOrder

\* A step of the save s, which then is u or has ended.
LEMMA SaveShown ==
    ASSUME ShownInv, NEW s \in saves, NEW u, Derived(u, s), u.alone = s.alone, u.at # "delete",
           UNCHANGED components, issued' \in Nat, issued \in Nat, issued <= issued',
           \/ saves' = saves \ {s}
           \/ saves' = (saves \ {s}) \cup {u} /\ (u.alone /\ ~u.early => InOrder(u)'),
           \/ s.at = "delete" /\ \E gone \in SUBSET s.del: stored' = {c \in stored: c.id \notin gone}
           \/ \E made: stored' = stored \cup made /\ \A c \in made: c.of = s.row
    PROVE  ShownInv'
<1>1. NewRows' = NewRows
  BY DEF NewRows
<1>2. Distinct(NewRows)' /\ Known(IdsOf(NewRows))'
  BY <1>1 DEF ShownInv, Distinct, Known, IdsOf
<1>3. \A t \in saves': Distinct(t.add)
  BY DEF ShownInv, Derived
<1>4. u.row = s.row /\ saves' \subseteq (saves \ {s}) \cup {u}
  BY DEF Derived
<1>5. ASSUME NEW t \in saves', t.alone, ~t.early PROVE InOrder(t)'
  <2>1. CASE t \in saves \ {s}
    <3>1. InOrder(t)
      BY <1>5, <2>1 DEF ShownInv
    <3> QED
      BY <1>4, <2>1, <3>1, OthersInOrder
  <2>2. CASE t = u /\ t \notin saves \ {s}
    BY <1>5, <2>2
  <2> QED
    BY <1>4, <2>1, <2>2
<1> QED
  BY <1>2, <1>3, <1>5 DEF ShownInv, Distinct

LEMMA UpdateShown ==
    ASSUME PagesInv, PartsInv, OwnInv, ShownInv, HandleUpdate
    PROVE  ShownInv'
<1>1. UNCHANGED <<components, stored, issued>>
  BY DEF HandleUpdate
<1>2. PICK new \in Saving:
        /\ new.row = selected
        /\ new.del = Removed /\ new.add = NewRows /\ new.keep = Kept
        /\ new.at = "delete"
        /\ new.alone => Overlapped = {} /\ IdsOf({c \in stored: c.of = selected}) = originalIds
        /\ \A t \in saves': \/ t = new \/ t \in saves \ Overlapped
                            \/ ~t.alone /\ \E s \in Overlapped: Derived(t, s) /\ t.at = s.at
        /\ \A t \in saves': t = new \/ \E s \in saves: t \in Saving /\ Derived(t, s)
  BY UpdateTypes DEF PagesInv, Kept
<1>3. Distinct(NewRows)' /\ Known(IdsOf(NewRows))'
  BY <1>1 DEF ShownInv, Distinct, Known, IdsOf, NewRows
<1>4. \A t \in saves': Distinct(t.add)
  BY <1>2 DEF ShownInv, Derived
<1>5. \A t: NewOf(t)' = NewOf(t)
  BY <1>1 DEF NewOf
<1>6. ASSUME NEW t \in saves', t = new, t.alone PROVE InOrder(t)'
  <2>1. \A s \in saves: s.row # selected
    BY <1>2, <1>6 DEF Overlapped
  <2>2. \A v \in saves': v.row = t.row => v = t
    BY <1>2, <1>6, <2>1 DEF Derived
  <2>3. IdsOf(NewOf(t)) \subseteq t.del
    BY <1>2, <1>6 DEF NewOf, IdsOf, Removed, Kept
  <2> QED
    BY <1>2, <1>5, <1>6, <2>2, <2>3 DEF InOrder
<1>7. ASSUME NEW t \in saves', t # new, t.alone, ~t.early PROVE InOrder(t)'
  <2>1. t \in saves \ Overlapped /\ InOrder(t)
    BY <1>2, <1>7 DEF ShownInv
  <2>2. t.row # selected /\ \A c \in stored: c.of = t.row => c.id \notin Removed
    BY <2>1 DEF Overlapped
  <2>3. ASSUME NEW v \in saves', v.row = t.row PROVE v = t
    <3>1. v # new
      BY <1>2, <2>2, <2>3
    <3>2. CASE v \in saves
      BY <2>1, <2>3, <3>2 DEF InOrder
    <3>3. CASE v \notin saves
      <4>1. PICK s \in Overlapped: Derived(v, s)
        BY <1>2, <3>1, <3>3
      <4>2. s \in saves /\ s.row = t.row
        BY <2>3, <4>1 DEF Derived, Overlapped
      <4> QED
        BY <2>1, <4>1, <4>2 DEF InOrder
    <3> QED
      BY <3>2, <3>3
  <2>4. t.at = "put" => AddedAll(t)'
    <3> SUFFICES ASSUME t.at = "put" PROVE AddedAll(t)'
      OBVIOUS
    <3>1. AddedAll(t)
      BY <2>1 DEF InOrder
    <3>2. new.del \cap IdsOf(NewOf(t)) = {}
      BY <1>2, <2>2 DEF NewOf, IdsOf
    <3>3. ASSUME NEW v \in saves', v.at = "delete" PROVE v.del \cap IdsOf(NewOf(t)) = {}
      <4>1. CASE v = new
        BY <3>2, <4>1
      <4>2. CASE v \in saves
        BY <3>1, <3>3, <4>2 DEF AddedAll
      <4>3. ASSUME NEW s \in Overlapped, Derived(v, s), v.at = s.at
            PROVE  v.del \cap IdsOf(NewOf(t)) = {}
        BY <3>1, <3>3, <4>3 DEF AddedAll, Derived, Overlapped
      <4> QED
        BY <1>2, <4>1, <4>2, <4>3
    <3> QED
      BY <1>5, <3>1, <3>3 DEF AddedAll
  <2> QED
    BY <1>5, <2>1, <2>3, <2>4 DEF InOrder
<1> QED
  BY <1>3, <1>4, <1>6, <1>7 DEF ShownInv, Distinct

LEMMA DeleteShown ==
    ASSUME PartsInv, ShownInv, NEW s \in saves, DeleteRemoved(s)
    PROVE  ShownInv'
<1> DEFINE u == [s EXCEPT !.at = "add"]
<1>1. s \in Saving
  BY DEF PartsInv, AssetFormsTypeOK
<1>2. Derived(u, s) /\ u.alone = s.alone /\ u.at = "add"
  BY <1>1 DEF Saving, Derived
<1>3. UNCHANGED <<components, issued>> /\ issued \in Nat /\ s.at = "delete"
  BY DEF DeleteRemoved, PartsInv, AssetFormsTypeOK
<1>4. CASE saves' = saves \ {s} /\ \E gone \in SUBSET s.del: stored' = {c \in stored: c.id \notin gone}
  <2> HIDE DEF u
  <2> QED
    BY <1>2, <1>3, <1>4, SaveShown
<1>5. CASE Proceeds(s, "add") /\ stored' = {c \in stored: c.id \notin s.del}
  <2>1. saves' = (saves \ {s}) \cup {u}
    BY <1>5 DEF Proceeds
  <2> HIDE DEF u
  <2>2. ASSUME u.alone, ~u.early PROVE InOrder(u)'
    <3>1. InOrder(s)
      BY <1>2, <2>2 DEF ShownInv, Derived
    <3>2. \A t \in saves': t.row = u.row => t = u
      BY <1>2, <2>1, <3>1 DEF InOrder, Derived
    <3>3. NewOf(u)' = {}
      BY <1>2, <1>3, <1>5, <3>1 DEF InOrder, NewOf, IdsOf, Derived
    <3> QED
      BY <1>2, <3>2, <3>3 DEF InOrder
  <2>3. \E gone \in SUBSET s.del: stored' = {c \in stored: c.id \notin gone}
    BY <1>5
  <2> QED
    BY <1>2, <1>3, <2>1, <2>2, <2>3, SaveShown
<1> QED
  BY <1>4, <1>5 DEF DeleteRemoved

LEMMA PostShown ==
    ASSUME PartsInv, OwnInv, ShownInv, NEW s \in saves, PostNew(s)
    PROVE  ShownInv'
<1> DEFINE u == [s EXCEPT !.at = "put"]
<1>1. s \in Saving /\ s.add \in SUBSET Component /\ IsFiniteSet(s.add) /\ s.row \in Rows
  BY DEF PartsInv, AssetFormsTypeOK, Saving
<1>2. Derived(u, s) /\ u.alone = s.alone /\ u.at = "put"
  BY <1>1 DEF Saving, Derived
<1>3. UNCHANGED components /\ issued \in Nat /\ s.at = "add"
  BY DEF PostNew, PartsInv, AssetFormsTypeOK
<1>4. ASSUME NEW add \in SUBSET s.add, issued + Cardinality(add) <= MaxIds
      PROVE  /\ Cardinality(add) \in Nat
             /\ \A c \in Made(add, s.row): c.of = s.row /\ c.id > issued /\ c \in Stored
  <2>1. add \in SUBSET Component /\ IsFiniteSet(add)
    BY <1>1, FS_Subset
  <2> QED
    BY <1>1, <1>3, <1>4, <2>1, MadeTypes
<1>5. ASSUME NEW add \in SUBSET s.add, issued + Cardinality(add) <= MaxIds,
             stored' = stored \cup Made(add, s.row), issued' = issued + Cardinality(add),
             saves' = saves \ {s}
      PROVE  ShownInv'
  <2>1. issued' \in Nat /\ issued <= issued'
    BY <1>3, <1>4, <1>5
  <2>2. \E made: stored' = stored \cup made /\ \A c \in made: c.of = s.row
    BY <1>4, <1>5
  <2> HIDE DEF u
  <2> QED
    BY <1>2, <1>3, <1>5, <2>1, <2>2, SaveShown
<1>6. ASSUME issued + Cardinality(s.add) <= MaxIds,
             stored' = stored \cup Made(s.add, s.row), issued' = issued + Cardinality(s.add),
             Proceeds(s, "put")
      PROVE  ShownInv'
  <2>1. saves' = (saves \ {s}) \cup {u}
    BY <1>6 DEF Proceeds
  <2> HIDE DEF u
  <2>2. /\ Cardinality(s.add) \in Nat
        /\ \A c \in Made(s.add, s.row): c.of = s.row /\ c.id > issued /\ c \in Stored
    BY <1>4, <1>6
  <2>3. issued' \in Nat /\ issued <= issued'
    BY <1>3, <1>6, <2>2
  <2>4. \A ids: Known(ids) => \A c \in Made(s.add, s.row): c.id \notin ids
    BY <1>3, <2>2 DEF Known, Stored, Ids
  <2>5. ASSUME u.alone, ~u.early PROVE InOrder(u)'
    <3>1. InOrder(s)
      BY <1>2, <2>5 DEF ShownInv, Derived
    <3>2. \A t \in saves': t.row = u.row => t = u
      BY <1>2, <2>1, <3>1 DEF InOrder, Derived
    <3>3. NewOf(u)' = Made(s.add, s.row)
      <4>1. NewOf(s) = {} /\ u.row = s.row /\ u.keep = s.keep
        BY <1>2, <1>3, <3>1 DEF InOrder, Derived
      <4>2. \A c \in Made(s.add, s.row): c.id \notin s.keep
        BY <2>4 DEF OwnInv, IdsInv
      <4> QED
        BY <1>6, <2>2, <4>1, <4>2 DEF NewOf
    <3>4. /\ {c.typed: c \in Made(s.add, s.row)} = IdsOf(s.add)
          /\ Cardinality(Made(s.add, s.row)) = Cardinality(s.add)
      BY <1>1, MadeShows DEF ShownInv
    <3>5. ASSUME NEW t \in saves', t.at = "delete"
          PROVE  t.del \cap IdsOf(Made(s.add, s.row)) = {}
      <4>1. t \in saves
        BY <1>2, <2>1, <3>5
      <4> QED
        BY <2>4, <4>1 DEF OwnInv, IdsInv, IdsOf
    <3>6. AddedAll(u)'
      BY <1>2, <3>3, <3>4, <3>5 DEF AddedAll, Derived
    <3> QED
      BY <1>2, <3>2, <3>6 DEF InOrder
  <2>6. \E made: stored' = stored \cup made /\ \A c \in made: c.of = s.row
    BY <1>6, <2>2
  <2> QED
    BY <1>2, <1>3, <2>1, <2>3, <2>5, <2>6, SaveShown
<1> QED
  BY <1>5, <1>6 DEF PostNew

LEMMA ShownStep ==
    PagesInv /\ PartsInv /\ OwnInv /\ ShownInv /\ [FormsNext]_formVars => ShownInv'
<1> SUFFICES ASSUME PagesInv, PartsInv, OwnInv, ShownInv, [FormsNext]_formVars PROVE ShownInv'
  OBVIOUS
<1>1. issued \in Nat
  BY DEF PartsInv, AssetFormsTypeOK
<1>2. ASSUME UNCHANGED <<stored, saves, issued>>, NewRows' \subseteq NewRows PROVE ShownInv'
  <2>1. Distinct(NewRows)' /\ Known(IdsOf(NewRows))'
    BY <1>2 DEF ShownInv, Distinct, Known, IdsOf
  <2> QED
    BY <1>2, <2>1, FormShown
<1>3. CASE PageStep \/ \E c \in calls: Served(c) \/ Delivered(c)
  BY <1>2, <1>3 DEF PageStep, Served, Delivered, parts, NewRows
<1>4. CASE \E r \in Rows: EditOpens(r)
  BY <1>2, <1>4 DEF EditOpens, NewRows
<1>5. ASSUME NEW f \in fetches, ServerLists(f) \/ ComponentsCome(f) \/ ComponentsFail(f)
      PROVE  ShownInv'
  <2>1. UNCHANGED <<stored, saves, issued>>
    BY <1>5 DEF ServerLists, ComponentsCome, ComponentsFail
  <2>2. CASE ServerLists(f)
    BY <1>2, <2>1, <2>2 DEF ServerLists, NewRows
  <2>3. CASE ComponentsCome(f) \/ ComponentsFail(f)
    <3>1. NewRows' = {}
      BY <2>3 DEF ComponentsCome, ComponentsFail, NewRows
    <3> QED
      BY <1>2, <2>1, <3>1
  <2> QED
    BY <1>5, <2>2, <2>3
<1>6. CASE HandleComponentAdd
  <2> DEFINE new == [id |-> issued + 1, of |-> IF OnTop("edit") THEN selected ELSE None,
                     isNew |-> TRUE]
  <2>1. new.isNew /\ new.id = issued + 1
    OBVIOUS
  <2>2. components' = components \cup {new} /\ issued' = issued + 1 /\ UNCHANGED <<stored, saves>>
    BY <1>6 DEF HandleComponentAdd
  <2> HIDE DEF new
  <2>3. NewRows' = NewRows \cup {new}
    BY <2>1, <2>2 DEF NewRows
  <2>4. \A c \in NewRows: c.id \in 1..issued
    BY DEF ShownInv, Known, IdsOf
  <2>5. Distinct(NewRows)'
    BY <1>1, <2>1, <2>3, <2>4 DEF ShownInv, Distinct
  <2>6. Known(IdsOf(NewRows))'
    BY <1>1, <2>1, <2>2, <2>3, <2>4 DEF Known, IdsOf
  <2> QED
    BY <2>2, <2>5, <2>6, FormShown
<1>7. CASE \E c \in components: HandleComponentRemove(c)
  BY <1>2, <1>7 DEF HandleComponentRemove, NewRows
<1>8. CASE HandleUpdate
  BY <1>8, UpdateShown
<1>9. ASSUME NEW s \in saves, DeleteRemoved(s) \/ PostNew(s) PROVE ShownInv'
  BY <1>9, DeleteShown, PostShown
<1>10. ASSUME NEW s \in saves, PutExisting(s) \/ PutFails(s) PROVE ShownInv'
  <2> DEFINE u == [s EXCEPT !.at = "put"]
  <2>1. s \in Saving
    BY DEF PartsInv, AssetFormsTypeOK
  <2>2. Derived(u, s) /\ u.alone = s.alone /\ u.at = "put"
    BY <2>1 DEF Saving, Derived
  <2> HIDE DEF u
  <2>3. saves' = saves \ {s} /\ UNCHANGED <<components, issued, stored>>
    BY <1>10 DEF PutExisting, PutFails
  <2>4. \E made: stored' = stored \cup made /\ \A c \in made: c.of = s.row
    <3> DEFINE none == {c \in stored: FALSE}
    <3>1. stored' = stored \cup none /\ \A c \in none: c.of = s.row
      BY <2>3
    <3> HIDE DEF none
    <3> QED
      BY <3>1
  <2> QED
    BY <1>1, <2>2, <2>3, <2>4, SaveShown
<1>11. CASE UNCHANGED formVars
  BY <1>2, <1>11 DEF formVars, parts, NewRows
<1> QED
  BY <1>3, <1>4, <1>5, <1>6, <1>7, <1>8, <1>9, <1>10, <1>11 DEF FormsNext

LEMMA ShownInitially == FormsInit => ShownInv
BY DEF FormsInit, ShownInv, Distinct, Known, IdsOf, NewRows

(* The update of a desktop goes out on components that are those the form  *)
(* showed at the click, each new row once, unless another save went after  *)
(* them meanwhile: for any number of assets, rows and saves under way.     *)
THEOREM ComponentsAreThoseShownHolds == FormsSpec => ComponentsAreThoseShown
<1> DEFINE Shows == \A s \in saves:
               s \notin saves' /\ sent' # sent /\ s.alone /\ ~s.early =>
                   LET own == {c \in stored': c.of = s.row}
                       new == {c \in own: c.id \notin s.keep}
                   IN  /\ s.keep \subseteq IdsOf(own)
                       /\ {c.typed: c \in new} = IdsOf(s.add)
                       /\ Cardinality(new) = Cardinality(s.add)
<1>1. FormsInit => ShownInv
  BY ShownInitially
<1>2. FormsInv /\ ShownInv /\ [FormsNext]_formVars => ShownInv'
  BY ShownStep DEF FormsInv
<1>3. FormsInv /\ ShownInv /\ [FormsNext]_formVars => [Shows]_formVars
  <2> SUFFICES ASSUME FormsInv, ShownInv, FormsNext, NEW s \in saves,
                      s \notin saves', sent' # sent, s.alone, ~s.early
               PROVE  /\ s.keep \subseteq IdsOf({c \in stored': c.of = s.row})
                      /\ LET new == {c \in {c \in stored': c.of = s.row}: c.id \notin s.keep}
                         IN  /\ {c.typed: c \in new} = IdsOf(s.add)
                             /\ Cardinality(new) = Cardinality(s.add)
    OBVIOUS
  <2>1. ~(UNCHANGED saves) /\ ~(UNCHANGED vars)
    BY DEF vars
  <2>2. PutExisting(s)
    <3>1. \E t \in saves: PutExisting(t)
      BY <2>1 DEF FormsNext, PageStep, EditOpens, Served, parts, Delivered, ServerLists,
         ComponentsCome, ComponentsFail, HandleComponentAdd, HandleComponentRemove,
         HandleUpdate, DeleteRemoved, PostNew, PutFails
    <3> QED
      BY <3>1 DEF PutExisting
  <2>3. s.at = "put" /\ s.keep \subseteq IdsOf(stored) /\ stored' = stored
    BY <2>2 DEF PutExisting
  <2>4. AddedAll(s)
    BY <2>3 DEF ShownInv, InOrder
  <2>5. s.keep \subseteq IdsOf({c \in stored: c.of = s.row})
    BY <2>3 DEF FormsInv, OwnInv, ComponentsOfOwnAsset, IdsOf
  <2>6. {c \in {c \in stored: c.of = s.row}: c.id \notin s.keep} = NewOf(s)
    BY DEF NewOf
  <2> QED
    BY <2>3, <2>4, <2>5, <2>6 DEF AddedAll
<1> QED
  BY <1>1, <1>2, <1>3, FormsInvariant, PTL DEF FormsSpec, ComponentsAreThoseShown
=============================================================================
