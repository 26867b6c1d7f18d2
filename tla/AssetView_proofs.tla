-------------------------- MODULE AssetView_proofs --------------------------
(***************************************************************************)
(* Proofs about the page of assets, for any assets, any number of requests *)
(* and any order of clicks, answers and timers.                            *)
(***************************************************************************)
EXTENDS AssetView, FiniteSetTheorems, TLAPS

\* The view after a step that concerns neither the edit form nor the updates.
Elsewhere ==
    /\ UNCHANGED <<desktops, editing, overtaken>>
    /\ \/ OthersChange
       \/ ConfirmDelete \/ ServerDeletes \/ DeleteDone \/ CloseDeleteModal
       \/ \E a \in Assets : \/ HandleDeleteAsset(a) \/ HandleSelectAsset(a)
                            \/ HandleQuickStatusChange(a)
       \/ HandleSelectAll \/ HandleBulkTransfer \/ CloseBulkTransferModal
       \/ HandleSubmitBulkTransfer \/ ServerMoves \/ BulkTransferDone
       \/ \E a \in timers : RepairFormOpens(a)
       \/ FillRepair \/ CloseRepairModal

\* A step of the edit form or of an update, which concerns nothing else.
Edits ==
    /\ UNCHANGED <<desktops, deletion, selection, repairing, server, refetched, replaced>>
    /\ \/ SwitchView
       \/ \E a \in Assets : HandleEditClick(a)
       \/ \E c \in clicks : ComponentsCome(c)
       \/ HandleCancelEdit \/ SaveModal \/ SaveCard
       \/ \E s \in saves : ComponentsSaved(s) \/ ServerUpdates(s) \/ UpdateDone(s)

LEMMA StepKinds == [Next]_vars => Edits \/ Elsewhere \/ UNCHANGED vars
<1>1. ASSUME NEW a \in Assets, HandleEditClick(a) PROVE Edits
  BY <1>1 DEF HandleEditClick, Edits, lists, history
<1>2. ASSUME NEW c \in clicks, ComponentsCome(c) PROVE Edits
  BY <1>2 DEF ComponentsCome, Edits, lists, history
<1>3. ASSUME NEW s \in saves, ComponentsSaved(s) \/ ServerUpdates(s) \/ UpdateDone(s) PROVE Edits
  BY <1>3 DEF ComponentsSaved, ServerUpdates, UpdateDone, Edits, lists, history
<1>4. ASSUME SwitchView \/ HandleCancelEdit \/ SaveModal \/ SaveCard PROVE Edits
  BY <1>4 DEF SwitchView, HandleCancelEdit, SaveModal, SaveCard, Edits, lists, history
<1>5. ASSUME NEW a \in Assets, HandleDeleteAsset(a) \/ HandleSelectAsset(a) \/ HandleQuickStatusChange(a)
      PROVE  Elsewhere
  BY <1>5 DEF HandleDeleteAsset, HandleSelectAsset, HandleQuickStatusChange, Elsewhere, history
<1>6. ASSUME OthersChange \/ ConfirmDelete \/ ServerDeletes \/ DeleteDone \/ CloseDeleteModal
      PROVE  Elsewhere
  BY <1>6 DEF OthersChange, ConfirmDelete, ServerDeletes, DeleteDone, CloseDeleteModal, Elsewhere, history
<1>7. ASSUME HandleSelectAll \/ HandleBulkTransfer \/ CloseBulkTransferModal
             \/ HandleSubmitBulkTransfer \/ ServerMoves \/ BulkTransferDone
      PROVE  Elsewhere
  BY <1>7 DEF HandleSelectAll, HandleBulkTransfer, CloseBulkTransferModal,
              HandleSubmitBulkTransfer, ServerMoves, BulkTransferDone, Elsewhere, history
<1>8. ASSUME NEW a \in timers, RepairFormOpens(a) PROVE Elsewhere
  BY <1>8 DEF RepairFormOpens, Elsewhere
<1>9. ASSUME FillRepair \/ CloseRepairModal PROVE Elsewhere
  BY <1>9 DEF FillRepair, CloseRepairModal, Elsewhere, history
<1> QED
  BY <1>1, <1>2, <1>3, <1>4, <1>5, <1>6, <1>7, <1>8, <1>9 DEF Next

-----------------------------------------------------------------------------
(* Types                                                                   *)

LEMMA MutateTypes ==
    ASSUME NEW others \in SUBSET Save, NEW a \in Assets, NEW form \in MaybeAsset
    PROVE  Mutate(others, a, form) \subseteq Save
<1>1. \A s \in others : [s EXCEPT !.latest = FALSE] \in Save
  BY DEF Save
<1>2. [asset |-> a, form |-> form, at |-> "server", latest |-> TRUE, card |-> FALSE] \in Save
  BY DEF Save
<1> QED BY <1>1, <1>2 DEF Mutate

EditTypes == edit \in [inline: MaybeAsset, modal: MaybeAsset, form: MaybeAsset]

LEMMA OpenEditTypes ==
    ASSUME TypeOK, NEW a \in Assets, NEW v \in Views, OpenEdit(a, v)
    PROVE  /\ EditTypes' /\ (edit.form = None <=> edit.inline = None /\ edit.modal = None)'
           /\ overtaken' \in BOOLEAN
<1>1. CASE v = "table"
  BY <1>1, ViewAssumption DEF OpenEdit, TypeOK, EditTypes, MaybeAsset
<1>2. CASE v # "table"
  BY <1>2, ViewAssumption DEF OpenEdit, TypeOK, EditTypes, MaybeAsset
<1> QED BY <1>1, <1>2

LEMMA ListComesTypes ==
    ASSUME TypeOK, NEW gone \in SUBSET Assets, NEW cleared, ListComes(gone, cleared)
    PROVE  listed' \subseteq Assets /\ unnoticed' \subseteq Assets
BY DEF ListComes, TypeOK

LEMMA TypeStep == TypeOK /\ [Next]_vars => TypeOK'
<1> SUFFICES ASSUME TypeOK, [Next]_vars PROVE TypeOK'
  OBVIOUS
<1> USE DEF editing, deletion, selection, repairing, history, server, lists
<1>1. ASSUME NEW a \in Assets, HandleEditClick(a) PROVE TypeOK'
  <2>1. CASE a \in desktops
    BY <1>1, <2>1 DEF HandleEditClick, TypeOK
  <2>2. CASE a \notin desktops
    <3>1. view \in Views /\ OpenEdit(a, view)
      BY <1>1, <2>2 DEF HandleEditClick, TypeOK
    <3> QED BY <1>1, <2>2, <3>1, OpenEditTypes DEF HandleEditClick, TypeOK, EditTypes
  <2> QED BY <2>1, <2>2
<1>2. ASSUME NEW c \in clicks, ComponentsCome(c) PROVE TypeOK'
  <2>1. c.asset \in Assets /\ c.view \in Views /\ OpenEdit(c.asset, c.view)
    BY <1>2 DEF ComponentsCome, TypeOK
  <2> QED BY <1>2, <2>1, OpenEditTypes DEF ComponentsCome, TypeOK, EditTypes
<1>3. ASSUME HandleCancelEdit PROVE TypeOK'
  BY <1>3 DEF HandleCancelEdit, NoEdit, TypeOK, MaybeAsset
<1>4. ASSUME SwitchView PROVE TypeOK'
  <2>1. ASSUME NEW s \in Save PROVE [s EXCEPT !.card = FALSE] \in Save
    BY DEF Save
  <2>2. saves' \subseteq Save
    BY <1>4, <2>1 DEF SwitchView, TypeOK
  <2> QED BY <1>4, <2>2 DEF SwitchView, TypeOK
<1>5. ASSUME SaveModal \/ SaveCard PROVE TypeOK'
  <2>1. EditTarget \in Assets /\ edit.form \in MaybeAsset
    BY <1>5 DEF SaveModal, SaveCard, EditTarget, Uncovered, TypeOK, MaybeAsset
  <2>2. [asset |-> EditTarget, form |-> edit.form, at |-> "components",
         latest |-> FALSE, card |-> TRUE] \in Save
    BY <2>1 DEF Save
  <2>3. saves' \subseteq Save
    <3>1. saves \subseteq Save /\ Mutate(saves, EditTarget, edit.form) \subseteq Save
      BY <2>1, MutateTypes DEF TypeOK
    <3> QED BY <1>5, <2>2, <3>1 DEF SaveModal, SaveCard
  <2>4. requests' \in 0..MaxRequests
    BY <1>5, ViewAssumption DEF SaveModal, SaveCard, Request, TypeOK
  <2> QED BY <1>5, <2>3, <2>4 DEF SaveModal, SaveCard, TypeOK
<1>6. ASSUME NEW s \in saves, ComponentsSaved(s) \/ ServerUpdates(s) PROVE TypeOK'
  <2>1. s \in Save
    BY DEF TypeOK
  <2>2. Mutate(saves \ {s}, s.asset, s.form) \subseteq Save
    BY <2>1, MutateTypes DEF TypeOK, Save
  <2>3. [s EXCEPT !.at = "refetch"] \in Save
    BY <2>1 DEF Save
  <2>4. saves' \subseteq Save
    BY <1>6, <2>2, <2>3 DEF ComponentsSaved, ServerUpdates, TypeOK
  <2> QED BY <1>6, <2>4 DEF ComponentsSaved, ServerUpdates, TypeOK
<1>7. ASSUME NEW s \in saves, UpdateDone(s) PROVE TypeOK'
  <2>1. listed' \subseteq Assets /\ unnoticed' \subseteq Assets
    BY <1>7, ListComesTypes DEF UpdateDone
  <2> QED BY <1>7, <2>1 DEF UpdateDone, NoEdit, TypeOK, MaybeAsset
<1>8. ASSUME NEW a \in Assets, HandleDeleteAsset(a) \/ HandleSelectAsset(a) PROVE TypeOK'
  BY <1>8 DEF HandleDeleteAsset, HandleSelectAsset, TypeOK, MaybeAsset
<1>9. ASSUME NEW a \in Assets, HandleQuickStatusChange(a) PROVE TypeOK'
  <2>1. listed' \subseteq Assets /\ unnoticed' \subseteq Assets
    BY <1>9, ListComesTypes DEF HandleQuickStatusChange
  <2>2. requests' \in 0..MaxRequests
    BY <1>9, ViewAssumption DEF HandleQuickStatusChange, Request, TypeOK
  <2> QED BY <1>9, <2>1, <2>2 DEF HandleQuickStatusChange, TypeOK
<1>10. ASSUME ConfirmDelete PROVE TypeOK'
  <2>1. deleting' \in [asset: Assets, at: {"server", "refetch"}]
    BY <1>10 DEF ConfirmDelete, TypeOK, MaybeAsset
  <2>2. requests' \in 0..MaxRequests
    BY <1>10, ViewAssumption DEF ConfirmDelete, Request, TypeOK
  <2> QED BY <1>10, <2>1, <2>2 DEF ConfirmDelete, TypeOK
<1>11. ASSUME ServerDeletes \/ DeleteDone \/ CloseDeleteModal PROVE TypeOK'
  <2>1. CASE ServerDeletes
    <3>1. /\ existing' \subseteq Assets /\ present' \subseteq existing'
          /\ unnoticed' \subseteq Assets
      BY <2>1 DEF ServerDeletes, Deleted, TypeOK
    <3>2. deleting' \in {NoDeletion} \cup [asset: Assets, at: {"server", "refetch"}]
      BY <2>1 DEF ServerDeletes, NoDeletion, TypeOK, MaybeAsset
    <3> QED BY <2>1, <3>1, <3>2 DEF ServerDeletes, TypeOK
  <2>2. CASE DeleteDone
    <3>1. listed' \subseteq Assets /\ unnoticed' \subseteq Assets
      BY <2>2, ListComesTypes DEF DeleteDone, NoDeletion, TypeOK
    <3> QED BY <2>2, <3>1 DEF DeleteDone, NoDeletion, TypeOK, MaybeAsset
  <2>3. CASE CloseDeleteModal
    BY <2>3 DEF CloseDeleteModal, Deleting, TypeOK, MaybeAsset
  <2> QED BY <1>11, <2>1, <2>2, <2>3
<1>12. ASSUME HandleSelectAll \/ HandleBulkTransfer \/ CloseBulkTransferModal PROVE TypeOK'
  BY <1>12 DEF HandleSelectAll, HandleBulkTransfer, CloseBulkTransferModal, TypeOK
<1>13. ASSUME HandleSubmitBulkTransfer PROVE TypeOK'
  BY <1>13, ViewAssumption DEF HandleSubmitBulkTransfer, Request, TypeOK
<1>14. ASSUME ServerMoves \/ BulkTransferDone PROVE TypeOK'
  <2>1. CASE ServerMoves
    <3>1. present' \subseteq existing' /\ unnoticed' \subseteq Assets
      BY <2>1 DEF ServerMoves, TypeOK
    <3>2. moving' \in [assets: SUBSET Assets, at: {"idle", "server", "refetch"}]
      BY <2>1 DEF ServerMoves, NoMove, TypeOK
    <3> QED BY <2>1, <3>1, <3>2 DEF ServerMoves, TypeOK
  <2>2. CASE BulkTransferDone
    <3>1. listed' \subseteq Assets /\ unnoticed' \subseteq Assets
      BY <2>2, ListComesTypes DEF BulkTransferDone, TypeOK
    <3> QED BY <2>2, <3>1 DEF BulkTransferDone, NoMove, TypeOK
  <2> QED BY <1>14, <2>1, <2>2
<1>15. ASSUME NEW a \in timers, RepairFormOpens(a) PROVE TypeOK'
  BY <1>15 DEF RepairFormOpens, TypeOK, MaybeAsset
<1>16. ASSUME FillRepair \/ CloseRepairModal PROVE TypeOK'
  BY <1>16 DEF FillRepair, CloseRepairModal, NoRepair, TypeOK, MaybeAsset
<1>17. ASSUME OthersChange PROVE TypeOK'
  <2>1. requests' \in 0..MaxRequests
    BY <1>17, ViewAssumption DEF OthersChange, Request, TypeOK
  <2> QED BY <1>17, <2>1 DEF OthersChange, TypeOK
<1>18. CASE UNCHANGED vars
  BY <1>18 DEF vars, TypeOK
<1> QED
  BY <1>1, <1>2, <1>3, <1>4, <1>5, <1>6, <1>7, <1>8, <1>9, <1>10, <1>11, <1>12, <1>13, <1>14,
     <1>15, <1>16, <1>17, <1>18 DEF Next

LEMMA TypesInitially == Init => TypeOK
<1> SUFFICES ASSUME Init PROVE TypeOK
  OBVIOUS
<1>1. desktops \subseteq Assets /\ requests \in 0..MaxRequests
  BY ViewAssumption DEF Init
<1>2. /\ refetched \in BOOLEAN
      /\ overtaken \in BOOLEAN /\ replaced \in BOOLEAN
  BY DEF Init
<1>3. /\ edit \in [inline: MaybeAsset, modal: MaybeAsset, form: MaybeAsset]
      /\ edit.form = None <=> edit.inline = None /\ edit.modal = None
      /\ target \in MaybeAsset
      /\ deleting \in {NoDeletion} \cup [asset: Assets, at: {"server", "refetch"}]
      /\ moving \in [assets: SUBSET Assets, at: {"idle", "server", "refetch"}]
      /\ repair \in [asset: MaybeAsset, about: MaybeAsset]
  BY DEF Init, NoEdit, NoDeletion, NoMove, NoRepair, MaybeAsset
<1> QED BY <1>1, <1>2, <1>3 DEF Init, TypeOK, Views

\* The state stays well formed, and the form is empty exactly when nothing is edited,
\* whatever answer, timer or click comes between the others.
THEOREM ViewTypeCorrect == Spec => []TypeOK
BY TypesInitially, TypeStep, PTL DEF Spec

-----------------------------------------------------------------------------
(* Updates.  The form on screen is the one of its asset, unless an edit    *)
(* clicked among the cards has arrived under the modal; a save takes the   *)
(* pair along.                                                             *)

FormIsOfTarget == edit.form = EditTarget \/ overtaken

FormInv == TypeOK /\ FormIsOfTarget /\ SavesOwnAsset

LEMMA OpenEditKeepsForm ==
    ASSUME FormInv, NEW a \in Assets, NEW v \in Views, OpenEdit(a, v)
    PROVE  FormIsOfTarget' /\ (overtaken => overtaken')
<1>1. a # None
  BY ViewAssumption
<1>2. CASE v = "table"
  BY <1>1, <1>2 DEF OpenEdit, FormInv, FormIsOfTarget, EditTarget, TypeOK
<1>3. CASE v = "cards"
  BY <1>1, <1>3 DEF OpenEdit, FormInv, FormIsOfTarget, EditTarget, TypeOK
<1> QED BY <1>2, <1>3 DEF Views

LEMMA FormStep == FormInv /\ [Next]_vars => FormInv'
<1> SUFFICES ASSUME FormInv, [Next]_vars PROVE FormIsOfTarget' /\ SavesOwnAsset'
  BY TypeStep DEF FormInv
<1> DEFINE Kept == FormIsOfTarget' /\ SavesOwnAsset'
<1>1. ASSUME UNCHANGED <<editing, overtaken>> PROVE Kept
  BY <1>1 DEF editing, FormInv, FormIsOfTarget, EditTarget, SavesOwnAsset
<1>2. ASSUME NEW a \in Assets, HandleEditClick(a) PROVE Kept
  <2>1. CASE a \in desktops
    BY <1>1, <1>2, <2>1
       DEF HandleEditClick, FormInv, FormIsOfTarget, EditTarget, SavesOwnAsset
  <2>2. CASE a \notin desktops
    <3>1. view \in Views /\ OpenEdit(a, view) /\ saves' = saves
      BY <1>2, <2>2 DEF HandleEditClick, FormInv, TypeOK
    <3> QED BY <3>1, OpenEditKeepsForm DEF FormInv, SavesOwnAsset
  <2> QED BY <2>1, <2>2
<1>3. ASSUME NEW c \in clicks, ComponentsCome(c) PROVE Kept
  <2>1. c.asset \in Assets /\ c.view \in Views /\ OpenEdit(c.asset, c.view) /\ saves' = saves
    BY <1>3 DEF ComponentsCome, FormInv, TypeOK
  <2> QED BY <2>1, OpenEditKeepsForm DEF FormInv, SavesOwnAsset
<1>4. ASSUME HandleCancelEdit PROVE Kept
  BY <1>4 DEF HandleCancelEdit, NoEdit, history, FormInv, FormIsOfTarget, EditTarget, SavesOwnAsset
<1>5. ASSUME SwitchView PROVE Kept
  <2>1. \A s \in saves' : \E t \in saves : s.asset = t.asset /\ s.form = t.form
    <3>1. ASSUME NEW t \in Save
          PROVE  [t EXCEPT !.card = FALSE].asset = t.asset /\ [t EXCEPT !.card = FALSE].form = t.form
      BY DEF Save
    <3>2. SUFFICES ASSUME NEW s \in saves' PROVE \E t \in saves : s.asset = t.asset /\ s.form = t.form
      OBVIOUS
    <3>3. PICK t \in saves : s = [t EXCEPT !.card = FALSE]
      BY <1>5 DEF SwitchView
    <3>4. t \in Save
      BY DEF FormInv, TypeOK
    <3> QED BY <3>1, <3>3, <3>4
  <2> QED
    BY <1>5, <2>1 DEF SwitchView, history, FormInv, FormIsOfTarget, EditTarget, SavesOwnAsset
<1>6. ASSUME NEW others \in SUBSET saves, NEW a \in Assets, NEW form \in MaybeAsset,
             form = a \/ overtaken, NEW s \in Mutate(others, a, form)
      PROVE  s.form = s.asset \/ overtaken
  <2>1. CASE \E t \in others : s = [t EXCEPT !.latest = FALSE]
    BY <2>1 DEF FormInv, TypeOK, Save, SavesOwnAsset
  <2>2. CASE s = [asset |-> a, form |-> form, at |-> "server", latest |-> TRUE, card |-> FALSE]
    BY <1>6, <2>2
  <2> QED BY <2>1, <2>2 DEF Mutate
<1>7. ASSUME SaveModal \/ SaveCard PROVE Kept
  <2>1. EditTarget \in Assets /\ edit.form \in MaybeAsset /\ UNCHANGED <<edit, overtaken>>
        /\ (edit.form = EditTarget \/ overtaken)
    BY <1>7 DEF SaveModal, SaveCard, EditTarget, Uncovered, history, FormInv, TypeOK, MaybeAsset,
                FormIsOfTarget
  <2>2. \A s \in Mutate(saves, EditTarget, edit.form) : s.form = s.asset \/ overtaken
    BY <1>6, <2>1
  <2>3. SavesOwnAsset'
    BY <1>7, <2>1, <2>2 DEF SaveModal, SaveCard, FormInv, SavesOwnAsset
  <2> QED BY <2>1, <2>3 DEF FormIsOfTarget, EditTarget
<1>8. ASSUME NEW s \in saves, ComponentsSaved(s) \/ ServerUpdates(s) PROVE Kept
  <2>1. s.asset \in Assets /\ s.form \in MaybeAsset /\ UNCHANGED <<edit, overtaken>>
        /\ (s.form = s.asset \/ overtaken)
    BY <1>8 DEF ComponentsSaved, ServerUpdates, history, FormInv, TypeOK, Save, SavesOwnAsset
  <2>2. \A t \in Mutate(saves \ {s}, s.asset, s.form) : t.form = t.asset \/ overtaken
    BY <1>6, <2>1
  <2>3. LET t == [s EXCEPT !.at = "refetch"] IN t.form = t.asset \/ overtaken
    BY <2>1 DEF FormInv, TypeOK, Save
  <2>4. SavesOwnAsset'
    BY <1>8, <2>1, <2>2, <2>3 DEF ComponentsSaved, ServerUpdates, FormInv, SavesOwnAsset
  <2> QED BY <2>1, <2>4 DEF FormInv, FormIsOfTarget, EditTarget
<1>9. ASSUME NEW s \in saves, UpdateDone(s) PROVE Kept
  BY <1>9 DEF UpdateDone, NoEdit, history, FormInv, FormIsOfTarget, EditTarget, SavesOwnAsset
<1>10. Elsewhere \/ UNCHANGED vars => Kept
  BY <1>1 DEF Elsewhere, vars, history
<1> QED
  BY StepKinds, <1>2, <1>3, <1>4, <1>5, <1>7, <1>8, <1>9, <1>10 DEF Edits

\* An update carries the form of its own asset, for any number of edits clicked,
\* components fetched and saves under way, but for the one case that the page has.
THEOREM SavesOwnAssetHolds == Spec => []SavesOwnAsset
<1>1. Init => FormInv
  BY TypesInitially DEF Init, NoEdit, FormInv, FormIsOfTarget, EditTarget, SavesOwnAsset
<1>2. FormInv => SavesOwnAsset
  BY DEF FormInv
<1> QED BY <1>1, <1>2, FormStep, PTL DEF Spec

(* Without components to save first, an update under way is the one whose  *)
(* state disables the buttons.                                             *)

LatestAlone ==
    desktops = {} => /\ \A s \in saves : s.latest /\ s.at # "components"
                     /\ \A s, t \in saves : s = t

TurnInv == TypeOK /\ LatestAlone

LEMMA TurnStep == TurnInv /\ [Next]_vars => TurnInv'
<1> SUFFICES ASSUME TurnInv, [Next]_vars PROVE LatestAlone'
  BY TypeStep DEF TurnInv
<1>1. ASSUME UNCHANGED <<desktops, saves>> PROVE LatestAlone'
  BY <1>1 DEF TurnInv, LatestAlone
<1>2. ASSUME SwitchView PROVE LatestAlone'
  <2> SUFFICES ASSUME desktops = {} PROVE LatestAlone'
    BY <1>2 DEF SwitchView, LatestAlone
  <2>1. \A s, t \in saves : s = t /\ s.latest /\ s.at # "components"
    BY DEF TurnInv, LatestAlone
  <2>2. \A s \in saves : [s EXCEPT !.card = FALSE].latest = s.latest
                         /\ [s EXCEPT !.card = FALSE].at = s.at
    BY DEF TurnInv, TypeOK, Save
  <2> QED BY <1>2, <2>1, <2>2 DEF SwitchView, LatestAlone
<1>3. ASSUME NEW a \in Assets, NEW form \in MaybeAsset, saves' = Mutate({}, a, form)
      PROVE  LatestAlone'
  <2> DEFINE x == [asset |-> a, form |-> form, at |-> "server", latest |-> TRUE, card |-> FALSE]
  <2>1. \A s \in saves' : s = x
    BY <1>3 DEF Mutate
  <2>2. x.latest = TRUE /\ x.at = "server"
    OBVIOUS
  <2> HIDE DEF x
  <2> QED BY <2>1, <2>2 DEF LatestAlone
<1>4. ASSUME SaveModal \/ SaveCard PROVE LatestAlone'
  <2> SUFFICES ASSUME desktops = {} PROVE LatestAlone'
    BY <1>4 DEF SaveModal, SaveCard, LatestAlone
  <2>1. saves = {}
    BY <1>4 DEF SaveModal, SaveCard, Pending, Updating, TurnInv, LatestAlone
  <2>2. edit.inline \notin desktops
    OBVIOUS
  <2>3. saves' = Mutate({}, EditTarget, edit.form)
    BY <1>4, <2>1, <2>2 DEF SaveModal, SaveCard
  <2>4. EditTarget \in Assets /\ edit.form \in MaybeAsset
    BY <1>4 DEF SaveModal, SaveCard, EditTarget, Uncovered, TurnInv, TypeOK, MaybeAsset
  <2> QED BY <1>3, <2>3, <2>4
<1>5. ASSUME NEW s \in saves, ComponentsSaved(s) \/ ServerUpdates(s) \/ UpdateDone(s)
      PROVE  LatestAlone'
  <2> SUFFICES ASSUME desktops = {} PROVE LatestAlone'
    BY <1>5 DEF ComponentsSaved, ServerUpdates, UpdateDone, LatestAlone
  <2>1. saves = {s} /\ s.latest /\ s.at # "components" /\ s \in Save
    BY DEF TurnInv, LatestAlone, TypeOK
  <2>2. [s EXCEPT !.at = "refetch"].latest /\ [s EXCEPT !.at = "refetch"].at = "refetch"
    BY <2>1 DEF Save
  <2>3. saves' = {} \/ saves' = {[s EXCEPT !.at = "refetch"]}
    BY <1>5, <2>1 DEF ComponentsSaved, ServerUpdates, UpdateDone
  <2> QED BY <2>2, <2>3 DEF LatestAlone
<1>6. ASSUME NEW a \in Assets, HandleEditClick(a) PROVE LatestAlone'
  BY <1>1, <1>6 DEF HandleEditClick
<1>7. ASSUME NEW c \in clicks, ComponentsCome(c) PROVE LatestAlone'
  BY <1>1, <1>7 DEF ComponentsCome
<1>8. HandleCancelEdit \/ Elsewhere \/ UNCHANGED vars => LatestAlone'
  BY <1>1 DEF HandleCancelEdit, Elsewhere, vars, editing
<1> QED BY StepKinds, <1>2, <1>4, <1>5, <1>6, <1>7, <1>8 DEF Edits

\* Without desktops the buttons alone keep updates in a row, for any number of assets
\* and requests.
THEOREM SavesInTurnHolds == Spec => []SavesInTurn
<1>1. Init => TurnInv
  BY TypesInitially DEF Init, TurnInv, LatestAlone
<1>2. TurnInv => SavesInTurn
  <2> SUFFICES ASSUME TurnInv, desktops = {} PROVE Cardinality(saves) <= 1
    BY DEF SavesInTurn
  <2>1. CASE saves = {}
    BY <2>1, FS_EmptySet
  <2>2. CASE \E s \in saves : saves = {s}
    BY <2>2, FS_Singleton
  <2> QED BY <2>1, <2>2 DEF TurnInv, LatestAlone
<1> QED BY <1>1, <1>2, TurnStep, PTL DEF Spec

-----------------------------------------------------------------------------
(* The repair form and the selection                                       *)

RepairInv == TypeOK /\ RepairsOwnAsset

LEMMA RepairStep == RepairInv /\ [Next]_vars => RepairInv'
<1> SUFFICES ASSUME RepairInv, [Next]_vars PROVE RepairsOwnAsset'
  BY TypeStep DEF RepairInv
<1>1. ASSUME UNCHANGED <<repair, replaced>> PROVE RepairsOwnAsset'
  BY <1>1 DEF RepairInv, RepairsOwnAsset
<1>2. ASSUME NEW a \in timers, RepairFormOpens(a) PROVE RepairsOwnAsset'
  BY <1>2 DEF RepairFormOpens, RepairInv, RepairsOwnAsset, TypeOK
<1>3. ASSUME FillRepair \/ CloseRepairModal PROVE RepairsOwnAsset'
  BY <1>3 DEF FillRepair, CloseRepairModal, NoRepair, history, RepairInv, RepairsOwnAsset, TypeOK
<1>4. ASSUME NEW a \in Assets, HandleDeleteAsset(a) \/ HandleSelectAsset(a) \/ HandleQuickStatusChange(a)
      PROVE  UNCHANGED <<repair, replaced>>
  BY <1>4 DEF HandleDeleteAsset, HandleSelectAsset, HandleQuickStatusChange, repairing, history
<1>5. ASSUME OthersChange \/ ConfirmDelete \/ ServerDeletes \/ DeleteDone \/ CloseDeleteModal
      PROVE  UNCHANGED <<repair, replaced>>
  BY <1>5 DEF OthersChange, ConfirmDelete, ServerDeletes, DeleteDone, CloseDeleteModal, repairing, history
<1>6. ASSUME HandleSelectAll \/ HandleBulkTransfer \/ CloseBulkTransferModal
             \/ HandleSubmitBulkTransfer \/ ServerMoves \/ BulkTransferDone
      PROVE  UNCHANGED <<repair, replaced>>
  BY <1>6 DEF HandleSelectAll, HandleBulkTransfer, CloseBulkTransferModal,
              HandleSubmitBulkTransfer, ServerMoves, BulkTransferDone, repairing, history
<1>7. Edits \/ UNCHANGED vars => UNCHANGED <<repair, replaced>>
  BY DEF Edits, vars, repairing, history
<1> QED BY StepKinds, <1>1, <1>2, <1>3, <1>4, <1>5, <1>6, <1>7 DEF Elsewhere

\* A repair is recorded for the asset it was filled in for, however many timers run.
THEOREM RepairsOwnAssetHolds == Spec => []RepairsOwnAsset
<1>1. Init => RepairInv
  BY TypesInitially DEF Init, NoRepair, RepairInv, RepairsOwnAsset
<1>2. RepairInv => RepairsOwnAsset
  BY DEF RepairInv
<1> QED BY <1>1, <1>2, RepairStep, PTL DEF Spec

\* Deleted or moved for the server, while the callback is still to come.
Leaving ==
    {a \in Assets : \/ deleting.at = "refetch" /\ a = deleting.asset
                    \/ moving.at = "refetch" /\ a \in moving.assets}

ListedAreKnown   == listed \subseteq present \cup Leaving \cup unnoticed
SelectedAreKnown == selected \subseteq listed \cup Leaving \cup unnoticed

\* What was deleted does not come back, as what was moved may.
DeletedIsGone == deleting.at = "refetch" => deleting.asset \notin existing

\* An asset that left the list has left the page, which is why it need not be
\* selected again: ListedAreKnown is what makes SelectedAreKnown inductive.
SelectInv == ListedAreKnown /\ SelectedAreKnown

ListInv == TypeOK /\ DeletedIsGone /\ SelectInv

LEMMA RefetchKeeps ==
    ASSUME ListInv, NEW gone \in SUBSET Assets, NEW cleared, ListComes(gone, cleared),
           UNCHANGED present, selected' \subseteq selected \ (cleared \cap gone),
           gone \cap present = {} \/ selected' = {},
           Leaving \subseteq Leaving' \cup gone
    PROVE  SelectInv'
<1>1. \A a \in unnoticed : a \in unnoticed' \/ a \in listed' \cap present
  BY DEF ListComes
<1>2. \A a \in gone : a \in present \/ a \in unnoticed' \/ (a \notin listed' /\ a \in cleared)
  BY DEF ListComes
<1>3. listed' = present \/ listed' = listed
  BY DEF ListComes
<1>4. ListedAreKnown'
  <2>1. CASE listed' = present
    BY <2>1 DEF ListedAreKnown
  <2>2. CASE listed' = listed
    BY <1>1, <1>2, <2>2 DEF ListInv, SelectInv, ListedAreKnown
  <2> QED BY <1>3, <2>1, <2>2
<1>5. SelectedAreKnown'
  <2> SUFFICES ASSUME NEW a \in selected', a \notin listed', a \notin unnoticed'
               PROVE  a \in Leaving'
    BY DEF SelectedAreKnown
  <2>1. a \notin unnoticed
    BY <1>1
  <2>2. a \in Leaving
    BY <1>3, <2>1 DEF ListInv, SelectInv, SelectedAreKnown, ListedAreKnown
  <2>3. a \notin gone
    BY <1>2
  <2> QED BY <2>2, <2>3
<1> QED BY <1>4, <1>5 DEF SelectInv

LEMMA SelectStep == ListInv /\ [Next]_vars => ListInv'
<1> SUFFICES ASSUME ListInv, [Next]_vars PROVE DeletedIsGone' /\ SelectInv'
  BY TypeStep DEF ListInv
<1> USE DEF deletion, selection, repairing, history, server, lists
<1> DEFINE Rest == DeletedIsGone' /\ SelectInv'
<1>1. ASSUME UNCHANGED <<deletion, existing>> PROVE DeletedIsGone'
  BY <1>1 DEF ListInv, DeletedIsGone
<1>2. ASSUME UNCHANGED <<deletion, moving, present, listed, unnoticed>>,
             selected' \subseteq selected \cup listed
      PROVE  SelectInv'
  BY <1>2 DEF ListInv, SelectInv, ListedAreKnown, SelectedAreKnown, Leaving
<1>3. ASSUME NEW s \in saves, UpdateDone(s) PROVE Rest
  <2>1. ListComes({}, {}) /\ UNCHANGED <<deletion, selection, server>>
    BY <1>3 DEF UpdateDone
  <2>2. Leaving' = Leaving
    BY <2>1 DEF Leaving
  <2>3. SelectInv'
    BY <2>1, <2>2, RefetchKeeps
  <2> QED BY <1>1, <2>1, <2>3
<1>4. ASSUME NEW a \in Assets, HandleQuickStatusChange(a) PROVE Rest
  <2>1. ListComes({}, {}) /\ UNCHANGED <<deletion, selection, server>>
    BY <1>4 DEF HandleQuickStatusChange
  <2>2. Leaving' = Leaving
    BY <2>1 DEF Leaving
  <2>3. SelectInv'
    BY <2>1, <2>2, RefetchKeeps
  <2> QED BY <1>1, <2>1, <2>3
<1>5. ASSUME Edits, \A s \in saves : ~UpdateDone(s) PROVE Rest
  <2>1. UNCHANGED <<listed, unnoticed>>
    BY <1>5 DEF Edits, SwitchView, HandleEditClick, ComponentsCome, HandleCancelEdit, SaveModal,
                SaveCard, ComponentsSaved, ServerUpdates
  <2> QED BY <1>1, <1>2, <1>5, <2>1 DEF Edits
<1>6. ASSUME OthersChange PROVE Rest
  <2>1. Leaving' = Leaving
    BY <1>6 DEF OthersChange, Leaving
  <2>2. existing' \subseteq existing /\ UNCHANGED <<deletion, selected, listed>>
        /\ unnoticed' = unnoticed \cup (present \ present')
    BY <1>6 DEF OthersChange
  <2> QED
    BY <2>1, <2>2 DEF ListInv, SelectInv, DeletedIsGone, ListedAreKnown, SelectedAreKnown
<1>7. ASSUME ConfirmDelete \/ CloseDeleteModal \/ \E a \in Assets : HandleDeleteAsset(a) PROVE Rest
  <2>1. UNCHANGED <<selection, lists>>
    BY <1>7 DEF ConfirmDelete, CloseDeleteModal, HandleDeleteAsset
  <2>2. deleting' = deleting \/ (~Deleting /\ deleting'.at = "server")
    BY <1>7 DEF ConfirmDelete, CloseDeleteModal, HandleDeleteAsset
  <2>3. Leaving' = Leaving
    BY <2>1, <2>2 DEF Deleting, Leaving
  <2> QED
    BY <2>1, <2>2, <2>3 DEF ListInv, SelectInv, DeletedIsGone, ListedAreKnown, SelectedAreKnown
<1>8. ASSUME ServerDeletes PROVE Rest
  <2>1. UNCHANGED <<selection, listed>> /\ deleting.at = "server"
    BY <1>8 DEF ServerDeletes
  <2>2. CASE Deleted /\ deleting' = [deleting EXCEPT !.at = "refetch"] /\ UNCHANGED unnoticed
    <3>1. deleting'.at = "refetch" /\ deleting'.asset = deleting.asset /\ deleting.asset \in Assets
      BY <2>1, <2>2 DEF ListInv, TypeOK, NoDeletion
    <3>2. Leaving' = Leaving \cup {deleting.asset}
      BY <2>1, <3>1 DEF Leaving
    <3> QED
      BY <2>1, <2>2, <3>1, <3>2
         DEF Deleted, ListInv, SelectInv, DeletedIsGone, ListedAreKnown, SelectedAreKnown
  <2>3. CASE deleting' = NoDeletion /\ present' \subseteq present
             /\ unnoticed' = unnoticed \cup (present \ present')
    <3>1. Leaving' = Leaving
      BY <2>1, <2>3 DEF NoDeletion, Leaving
    <3> QED
      BY <2>1, <2>3, <3>1
         DEF NoDeletion, ListInv, SelectInv, DeletedIsGone, ListedAreKnown, SelectedAreKnown
  <2> QED BY <1>8, <2>2, <2>3 DEF ServerDeletes, Deleted
<1>9. ASSUME DeleteDone PROVE Rest
  <2>1. /\ ListComes({deleting.asset}, {target}) /\ UNCHANGED present
        /\ selected' = selected \ {target} /\ deleting'.at = "idle"
    BY <1>9 DEF DeleteDone, NoDeletion
  <2>2. deleting.asset \in Assets /\ deleting.asset \notin present
    BY <1>9 DEF DeleteDone, ListInv, TypeOK, NoDeletion, DeletedIsGone
  <2>3. Leaving \subseteq Leaving' \cup {deleting.asset}
    BY <1>9 DEF DeleteDone, Leaving
  <2>4. SelectInv'
    BY <2>1, <2>2, <2>3, RefetchKeeps
  <2> QED BY <2>1, <2>4 DEF DeletedIsGone
<1>10. ASSUME (\E a \in Assets : HandleSelectAsset(a)) \/ HandleSelectAll \/ HandleBulkTransfer
              \/ CloseBulkTransferModal
       PROVE  Rest
  <2>1. UNCHANGED <<deletion, lists, moving>>
    BY <1>10 DEF HandleSelectAsset, HandleSelectAll, HandleBulkTransfer, CloseBulkTransferModal
  <2>2. selected' \subseteq selected \cup listed
    BY <1>10 DEF HandleSelectAsset, HandleSelectAll, HandleBulkTransfer, CloseBulkTransferModal
  <2> QED BY <1>1, <1>2, <2>1, <2>2
<1>11. ASSUME HandleSubmitBulkTransfer PROVE Rest
  <2>1. UNCHANGED <<deletion, lists, selected>> /\ moving = NoMove /\ moving'.at = "server"
    BY <1>11 DEF HandleSubmitBulkTransfer
  <2>2. Leaving' = Leaving
    BY <2>1 DEF NoMove, Leaving
  <2> QED
    BY <1>1, <2>1, <2>2 DEF ListInv, SelectInv, ListedAreKnown, SelectedAreKnown
<1>12. ASSUME ServerMoves PROVE Rest
  <2>1. UNCHANGED <<deletion, existing, listed, selected>> /\ moving.at = "server"
    BY <1>12 DEF ServerMoves
  <2>2. ASSUME NEW away \in SUBSET moving.assets, present' = present \ away,
               moving' = [moving EXCEPT !.at = "refetch"], UNCHANGED unnoticed
        PROVE  SelectInv'
    <3>1. /\ moving'.at = "refetch" /\ moving'.assets = moving.assets
          /\ moving.assets \subseteq Assets
      BY <2>2 DEF ListInv, TypeOK
    <3>2. Leaving' = Leaving \cup moving.assets
      BY <2>1, <3>1 DEF Leaving
    <3> QED
      BY <2>1, <2>2, <3>2 DEF ListInv, SelectInv, ListedAreKnown, SelectedAreKnown
  <2>3. ASSUME moving' = NoMove, present' \subseteq present,
               unnoticed' = unnoticed \cup (present \ present')
        PROVE  SelectInv'
    <3>1. Leaving' = Leaving
      BY <2>1, <2>3 DEF NoMove, Leaving
    <3> QED
      BY <2>1, <2>3, <3>1 DEF ListInv, SelectInv, ListedAreKnown, SelectedAreKnown
  <2> QED BY <1>1, <1>12, <2>1, <2>2, <2>3 DEF ServerMoves
<1>13. ASSUME BulkTransferDone PROVE Rest
  <2>1. /\ ListComes(moving.assets, Assets) /\ UNCHANGED <<deletion, server>> /\ selected' = {}
    BY <1>13 DEF BulkTransferDone
  <2>2. Leaving \subseteq Leaving' \cup moving.assets
    BY <2>1 DEF Leaving
  <2>3. moving.assets \subseteq Assets
    BY DEF ListInv, TypeOK
  <2>4. SelectInv'
    BY <2>1, <2>2, <2>3, RefetchKeeps
  <2> QED BY <1>1, <2>1, <2>4
<1>14. ASSUME (\E a \in timers : RepairFormOpens(a)) \/ FillRepair \/ CloseRepairModal \/ UNCHANGED vars
       PROVE  Rest
  <2>1. UNCHANGED <<deletion, selection, lists>>
    BY <1>14 DEF RepairFormOpens, FillRepair, CloseRepairModal, vars
  <2> QED BY <1>1, <1>2, <2>1
<1> QED
  BY StepKinds, <1>3, <1>4, <1>5, <1>6, <1>7, <1>8, <1>9, <1>10, <1>11, <1>12, <1>13, <1>14
     DEF Elsewhere

\* Whatever is selected is listed, leaving, or has left the page unnoticed: for any
\* number of assets and requests of the user and of others, whichever of the answers
\* are lost, the lists not fetched and the dialogs closed early.
THEOREM SelectedAreListedHolds == Spec => []SelectedAreListed
<1>1. Init => ListInv
  BY TypesInitially DEF Init, NoDeletion, NoMove, ListInv, SelectInv, DeletedIsGone,
                        ListedAreKnown, SelectedAreKnown
<1>2. ListInv => SelectedAreListed
  BY DEF ListInv, SelectInv, SelectedAreKnown, SelectedAreListed, Leaving
<1> QED BY <1>1, <1>2, SelectStep, PTL DEF Spec

=============================================================================
