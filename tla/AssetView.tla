----------------------------- MODULE AssetView -----------------------------
(***************************************************************************)
(* The page of one employee's or one workstation's assets                  *)
(* (useAssetViewController): its one edit form, shared by the cards and    *)
(* the modal of the table, the deletion dialog, the selection with its     *)
(* bulk transfer, the quick change of a status and the repair form that    *)
(* opens three seconds after it.  Handlers run to completion; what follows *)
(* an await is an action of its own.                                       *)
(***************************************************************************)
EXTENDS Naturals, FiniteSets

CONSTANTS
    Assets,       \* the assets of the page
    None,         \* no asset
    MaxDesktops,  \* bound on the number of desktops among them
    MaxRequests   \* bound on the requests of the user and of others

ASSUME ViewAssumption == IsFiniteSet(Assets) /\ None \notin Assets /\ {MaxDesktops, MaxRequests} \subseteq Nat

VARIABLES
    desktops,     \* the assets that are desktops: they have components
    view,         \* viewMode
    edit,         \* editingAssetId, editModalData and the asset in editFormData
    clicks,       \* edits clicked whose components are being fetched
    saves,        \* updates under way, from the click to the end of onSuccess
    target,       \* deleteTarget
    deleting,     \* the deletion under way
    selected,     \* selectedAssets
    bulk,         \* isBulkTransferModalOpen
    moving,       \* the bulk transfer under way: its assets
    timers,       \* assets whose repair form is due
    repair,       \* the repair form: its asset and the asset it was filled for
    existing,     \* assets the server has
    present,      \* those it has on this page
    listed,       \* assets the page lists
    requests,     \* number of requests sent
    refetched,    \* whether the list of the page is among the keys that are marked
    unnoticed,    \* assets that left the page and no answer took from its selection
    overtaken,    \* an edit clicked among the cards arrived over an open modal
    replaced      \* a repair form changed its asset while open

editing   == <<edit, clicks, saves>>
deletion  == <<target, deleting>>
selection == <<selected, bulk, moving>>
repairing == <<timers, repair>>
history   == <<overtaken, replaced>>
server    == <<existing, present>>
lists     == <<server, listed, refetched, unnoticed>>
vars == <<desktops, view, editing, deletion, selection, repairing, lists, requests, history>>

MaybeAsset == Assets \cup {None}
Views  == {"cards", "table"}
NoEdit == [inline |-> None, modal |-> None, form |-> None]
NoDeletion == [asset |-> None, at |-> "idle"]
NoMove     == [assets |-> {}, at |-> "idle"]
NoRepair   == [asset |-> None, about |-> None]

(* Where an update is: its components are being saved, the request is sent, *)
(* its onSuccess waits for the lists.  "latest" is the one whose state the  *)
(* mutation shows, "card" says that the card that started it is on screen. *)
Save == [asset: Assets, form: MaybeAsset, at: {"components", "server", "refetch"},
         latest: BOOLEAN, card: BOOLEAN]

(* The state is well formed; the form is empty exactly when nothing is     *)
(* being edited.                                                           *)
TypeOK ==
    /\ desktops \subseteq Assets /\ view \in Views
    /\ edit \in [inline: MaybeAsset, modal: MaybeAsset, form: MaybeAsset]
    /\ edit.form = None <=> edit.inline = None /\ edit.modal = None
    /\ clicks \subseteq [asset: desktops, view: Views]
    /\ saves \subseteq Save
    /\ target \in MaybeAsset
    /\ deleting \in {NoDeletion} \cup [asset: Assets, at: {"server", "refetch"}]
    /\ selected \subseteq Assets /\ bulk \in BOOLEAN
    /\ moving \in [assets: SUBSET Assets, at: {"idle", "server", "refetch"}]
    /\ timers \subseteq Assets
    /\ repair \in [asset: MaybeAsset, about: MaybeAsset]
    /\ existing \subseteq Assets /\ present \subseteq existing
    /\ listed \subseteq Assets /\ unnoticed \subseteq Assets
    /\ requests \in 0..MaxRequests
    /\ {refetched, overtaken, replaced} \subseteq BOOLEAN

Init ==
    /\ desktops \in {d \in SUBSET Assets: Cardinality(d) <= MaxDesktops}
    /\ view = "cards"
    /\ edit = NoEdit /\ clicks = {} /\ saves = {}
    /\ target = None /\ deleting = NoDeletion
    /\ selected = {} /\ bulk = FALSE /\ moving = NoMove
    /\ timers = {} /\ repair = NoRepair
    /\ existing = Assets /\ present = Assets /\ listed = Assets
    /\ requests = 0 /\ refetched \in BOOLEAN
    /\ overtaken = FALSE /\ replaced = FALSE /\ unnoticed = {}

-----------------------------------------------------------------------------
(* Updates, deletion: what the buttons go by.                              *)

Updating == \E s \in saves: s.latest /\ s.at # "components"
Deleting == deleting.at # "idle"
Pending  == Updating \/ Deleting

\* A modal covers the page.
Uncovered == edit.modal = None /\ target = None /\ ~bulk /\ repair.asset = None

Request == requests < MaxRequests /\ requests' = requests + 1

\* The end of an await on invalidateQueries: the assets of the employee are
\* there unless the fetch failed, those of the workstation have another key.
\* The answer it belongs to took the assets `gone` from the page and takes
\* `cleared` from the selection; what is listed still can be selected again.
ListComes(gone, cleared) ==
    /\ listed' \in IF refetched THEN {present, listed} ELSE {listed}
    /\ unnoticed' = (unnoticed \cup {a \in gone \ present: a \in listed' \/ a \notin cleared})
                        \ (listed' \cap present)

\* Other users delete assets and move them away and here; no page is told.
OthersChange ==
    /\ Request
    /\ existing' \in SUBSET existing
    /\ present' \in SUBSET existing'
    /\ unnoticed' = unnoticed \cup (present \ present')
    /\ UNCHANGED <<desktops, view, editing, deletion, selection, repairing, listed, refetched,
                   history>>

SwitchView ==
    /\ Uncovered
    /\ view' \in Views \ {view}
    /\ saves' = {[s EXCEPT !.card = FALSE]: s \in saves}
    /\ UNCHANGED <<desktops, edit, clicks, deletion, selection, repairing, lists, requests, history>>

-----------------------------------------------------------------------------
(* The edit form.                                                          *)

\* The second half of handleEditClick, with the viewMode of the click.
OpenEdit(a, v) ==
    /\ edit' = IF v = "table" THEN [edit EXCEPT !.modal = a, !.form = a]
                              ELSE [edit EXCEPT !.inline = a, !.form = a]
    /\ overtaken' = (overtaken \/ (v = "cards" /\ edit.modal # None))

\* Mutant of HandleEditClick: the card opens before its components are there.
HandleEditClickEagerly(a) ==
    /\ Uncovered /\ a \in listed
    /\ view = "cards" => edit.inline # a
    /\ IF a \in desktops
         THEN /\ clicks' = clicks \cup {[asset |-> a, view |-> view]}
              /\ edit' = [edit EXCEPT !.inline = a]
              /\ UNCHANGED overtaken
         ELSE OpenEdit(a, view) /\ UNCHANGED clicks
    /\ UNCHANGED <<desktops, view, saves, deletion, selection, repairing, lists, requests, replaced>>

HandleEditClick(a) ==
    /\ Uncovered /\ a \in listed
    /\ view = "cards" => edit.inline # a
    /\ IF a \in desktops
         THEN clicks' = clicks \cup {[asset |-> a, view |-> view]} /\ UNCHANGED <<edit, overtaken>>
         ELSE OpenEdit(a, view) /\ UNCHANGED clicks
    /\ UNCHANGED <<desktops, view, saves, deletion, selection, repairing, lists, requests, replaced>>

\* Also when the components could not be fetched.
ComponentsCome(c) ==
    /\ clicks' = clicks \ {c}
    /\ OpenEdit(c.asset, c.view)
    /\ UNCHANGED <<desktops, view, saves, deletion, selection, repairing, lists, requests, replaced>>

HandleCancelEdit ==
    /\ edit.modal # None \/ (view = "cards" /\ edit.inline # None /\ Uncovered)
    /\ edit' = NoEdit
    /\ UNCHANGED <<desktops, view, clicks, saves, deletion, selection, repairing, lists, requests, history>>

\* handleSaveEdit as the button on screen sees it.
EditTarget == IF edit.modal # None THEN edit.modal ELSE edit.inline

\* updateAssetMutation.mutate.
Mutate(others, a, form) ==
    {[s EXCEPT !.latest = FALSE]: s \in others}
    \cup {[asset |-> a, form |-> form, at |-> "server", latest |-> TRUE, card |-> FALSE]}

\* Mutant of SaveModal: the button stays enabled.
SaveModalAgain ==
    /\ edit.modal # None
    /\ Request
    /\ saves' = Mutate(saves, EditTarget, edit.form)
    /\ UNCHANGED <<desktops, view, edit, clicks, deletion, selection, repairing, lists, history>>

SaveModal ==
    /\ edit.modal # None /\ ~Updating
    /\ Request
    /\ saves' = Mutate(saves, EditTarget, edit.form)
    /\ UNCHANGED <<desktops, view, edit, clicks, deletion, selection, repairing, lists, history>>

\* The card of a desktop saves its components first and then goes on with the
\* handler it was given at the click.
SaveCard ==
    /\ view = "cards" /\ edit.inline \in listed /\ Uncovered
    /\ ~Pending /\ ~\E s \in saves: s.asset = edit.inline /\ s.at = "components" /\ s.card
    /\ Request
    /\ \/ saves' = Mutate(saves, EditTarget, edit.form)
       \/ /\ edit.inline \in desktops
          /\ saves' = saves \cup {[asset |-> EditTarget, form |-> edit.form, at |-> "components",
                                   latest |-> FALSE, card |-> TRUE]}
    /\ UNCHANGED <<desktops, view, edit, clicks, deletion, selection, repairing, lists, history>>

ComponentsSaved(s) ==
    /\ s.at = "components"
    /\ saves' \in {Mutate(saves \ {s}, s.asset, s.form), saves \ {s}}
    /\ UNCHANGED <<desktops, view, edit, clicks, deletion, selection, repairing, lists, requests, history>>

\* The server refuses what it no longer has, and may refuse anything; whether it
\* did or its answer was lost, nobody is told.
ServerUpdates(s) ==
    /\ s.at = "server"
    /\ \/ saves' = saves \ {s}
       \/ /\ s.asset \in existing
          /\ saves' = (saves \ {s}) \cup {[s EXCEPT !.at = "refetch"]}
    /\ UNCHANGED <<desktops, view, edit, clicks, deletion, selection, repairing, lists, requests, history>>

\* The rest of onSuccess.
UpdateDone(s) ==
    /\ s.at = "refetch"
    /\ saves' = saves \ {s}
    /\ edit' = NoEdit
    /\ ListComes({}, {})
    /\ UNCHANGED <<desktops, view, clicks, deletion, selection, repairing, server, refetched, requests, history>>

-----------------------------------------------------------------------------
(* Deletion.                                                               *)

\* The buttons of cards and rows are disabled while pending, the one of the
\* details is not; only the table has details.
HandleDeleteAsset(a) ==
    /\ Uncovered /\ a \in listed
    /\ view = "cards" => ~Pending /\ edit.inline # a
    /\ target' = a
    /\ UNCHANGED <<desktops, view, editing, deleting, selection, repairing, lists, requests, history>>

CloseDeleteModal ==
    /\ target # None
    /\ target' = None
    /\ UNCHANGED <<desktops, view, editing, deleting, selection, repairing, lists, requests, history>>

\* Its components are deleted first, as many as can be; nothing waits for how
\* that ends.
ConfirmDelete ==
    /\ target # None /\ ~Deleting
    /\ Request
    /\ deleting' = [asset |-> target, at |-> "server"]
    /\ UNCHANGED <<desktops, view, editing, target, selection, repairing, lists, history>>

Deleted == existing' = existing \ {deleting.asset} /\ present' = present \ {deleting.asset}

\* Mutant of ServerDeletes: nothing comes back when the asset is gone.
ServerDeletesExisting ==
    /\ deleting.at = "server" /\ deleting.asset \in existing
    /\ Deleted
    /\ \/ deleting' = [deleting EXCEPT !.at = "refetch"] /\ UNCHANGED unnoticed
       \/ deleting' = NoDeletion /\ unnoticed' = unnoticed \cup (present \ present')
    /\ UNCHANGED <<desktops, view, editing, target, selection, repairing, listed, refetched, requests, history>>

\* The asset is deleted, or deleted and the answer lost, or the request fails.
ServerDeletes ==
    /\ deleting.at = "server"
    /\ \/ /\ deleting.asset \in existing
          /\ Deleted
          /\ deleting' = [deleting EXCEPT !.at = "refetch"]
          /\ UNCHANGED unnoticed
       \/ /\ deleting.asset \in existing
          /\ Deleted
          /\ deleting' = NoDeletion
          /\ unnoticed' = unnoticed \cup (present \ present')
       \/ deleting' = NoDeletion /\ UNCHANGED <<server, unnoticed>>
    /\ UNCHANGED <<desktops, view, editing, target, selection, repairing, listed, refetched, requests, history>>

\* Mutant of DeleteDone: the selection is left alone.
DeleteDoneKeepingSelection ==
    /\ deleting.at = "refetch"
    /\ target' = None /\ deleting' = NoDeletion
    /\ ListComes({deleting.asset}, {target})
    /\ UNCHANGED <<desktops, view, editing, selection, repairing, server, refetched, requests, history>>

\* deleteTarget is the one of the last rendering.
DeleteDone ==
    /\ deleting.at = "refetch"
    /\ selected' = selected \ {target}
    /\ target' = None /\ deleting' = NoDeletion
    /\ ListComes({deleting.asset}, {target})
    /\ UNCHANGED <<desktops, view, editing, bulk, moving, repairing, server, refetched, requests, history>>

-----------------------------------------------------------------------------
(* Selection and bulk transfer.                                            *)

HandleSelectAsset(a) ==
    /\ view = "cards" /\ Uncovered /\ a \in listed
    /\ selected' = IF a \in selected THEN selected \ {a} ELSE selected \cup {a}
    /\ UNCHANGED <<desktops, view, editing, deletion, bulk, moving, repairing, lists, requests, history>>

HandleSelectAll ==
    /\ view = "cards" /\ Uncovered /\ listed # {}
    /\ selected' = IF Cardinality(selected) = Cardinality(listed) THEN {} ELSE listed
    /\ UNCHANGED <<desktops, view, editing, deletion, bulk, moving, repairing, lists, requests, history>>

HandleBulkTransfer ==
    /\ view = "cards" /\ Uncovered /\ selected # {} /\ listed # {}
    /\ bulk' = TRUE
    /\ UNCHANGED <<desktops, view, editing, deletion, selected, moving, repairing, lists, requests, history>>

CloseBulkTransferModal ==
    /\ bulk
    /\ bulk' = FALSE
    /\ UNCHANGED <<desktops, view, editing, deletion, selected, moving, repairing, lists, requests, history>>

HandleSubmitBulkTransfer ==
    /\ bulk /\ moving = NoMove
    /\ Request
    /\ moving' = [assets |-> selected, at |-> "server"]
    /\ UNCHANGED <<desktops, view, editing, deletion, selected, bulk, repairing, lists, history>>

\* One asset that is gone and validation refuses all of them.  Otherwise each is
\* moved on its own: those that are not, or only to where the page shows them
\* too, stay, and the answer is the same.  It may be lost.
ServerMoves ==
    /\ moving.at = "server"
    /\ \/ \E away \in SUBSET moving.assets:
          /\ moving.assets \subseteq existing
          /\ present' = present \ away
          /\ \/ moving' = [moving EXCEPT !.at = "refetch"] /\ UNCHANGED unnoticed
             \/ moving' = NoMove /\ unnoticed' = unnoticed \cup (present \ present')
       \/ moving' = NoMove /\ UNCHANGED <<present, unnoticed>>
    /\ UNCHANGED <<desktops, view, editing, deletion, selected, bulk, repairing, existing, listed,
                   refetched, requests, history>>

BulkTransferDone ==
    /\ moving.at = "refetch"
    /\ moving' = NoMove /\ bulk' = FALSE /\ selected' = {}
    /\ ListComes(moving.assets, Assets)
    /\ UNCHANGED <<desktops, view, editing, deletion, repairing, server, refetched, requests, history>>

-----------------------------------------------------------------------------
(* Quick status and repair.                                                *)

\* The request with its answer; only "Under Repair" has a repair form follow.
HandleQuickStatusChange(a) ==
    /\ Uncovered /\ a \in listed \cap existing
    /\ Request
    /\ timers' \in {timers, timers \cup {a}}
    /\ ListComes({}, {})
    /\ UNCHANGED <<desktops, view, editing, deletion, selection, repair, server, refetched, history>>

\* setTimeout, cancelled by nothing but the unloading of the page.
RepairFormOpens(a) ==
    /\ timers' = timers \ {a}
    /\ repair' = [repair EXCEPT !.asset = a]
    /\ replaced' = (replaced \/ repair.asset \notin {None, a})
    /\ UNCHANGED <<desktops, view, editing, deletion, selection, lists, requests, overtaken>>

\* Its submission names the asset of that moment.
FillRepair ==
    /\ repair.asset # None /\ repair.about = None
    /\ repair' = [repair EXCEPT !.about = repair.asset]
    /\ UNCHANGED <<desktops, view, editing, deletion, selection, timers, lists, requests, history>>

\* Mutant of CloseRepairModal: the form is not emptied.
CloseRepairModalKeepingForm ==
    /\ repair.asset # None
    /\ repair' = [repair EXCEPT !.asset = None]
    /\ UNCHANGED <<desktops, view, editing, deletion, selection, timers, lists, requests, history>>

CloseRepairModal ==
    /\ repair.asset # None
    /\ repair' = NoRepair
    /\ UNCHANGED <<desktops, view, editing, deletion, selection, timers, lists, requests, history>>

Next ==
    \/ SwitchView \/ OthersChange
    \/ \E a \in Assets:
         \/ HandleEditClick(a) \/ HandleDeleteAsset(a) \/ HandleSelectAsset(a)
         \/ HandleQuickStatusChange(a)
    \/ \E c \in clicks: ComponentsCome(c)
    \/ HandleCancelEdit \/ SaveModal \/ SaveCard
    \/ \E s \in saves: ComponentsSaved(s) \/ ServerUpdates(s) \/ UpdateDone(s)
    \/ CloseDeleteModal \/ ConfirmDelete \/ ServerDeletes \/ DeleteDone
    \/ HandleSelectAll \/ HandleBulkTransfer \/ CloseBulkTransferModal
    \/ HandleSubmitBulkTransfer \/ ServerMoves \/ BulkTransferDone
    \/ \E a \in timers: RepairFormOpens(a)
    \/ FillRepair \/ CloseRepairModal

Answers ==
    \/ \E s \in saves: ComponentsSaved(s) \/ ServerUpdates(s) \/ UpdateDone(s)
    \/ ServerDeletes \/ DeleteDone

(* Requests are answered and their callbacks run; the user owes nothing.   *)
Spec == Init /\ [][Next]_vars /\ WF_vars(Answers)

-----------------------------------------------------------------------------
(* Properties.                                                             *)

(* An update carries the form of the asset it is sent for, whatever other  *)
(* edits were clicked meanwhile, unless the edit of a desktop clicked      *)
(* among the cards arrives when the modal of the table is open: the modal  *)
(* then saves the desktop's values into its own asset.                     *)
SavesOwnAsset == \A s \in saves: s.form = s.asset \/ overtaken

(* Updates follow one another, so the last one saved is the one that       *)
(* stays, as long as no card has components to save first.                 *)
SavesInTurn == desktops = {} => Cardinality(saves) <= 1

(* The repair form sends what was filled in for the asset it was filled in *)
(* for, unless the timer of another status change fired while it was open. *)
RepairsOwnAsset == repair.about \in {None, repair.asset} \/ replaced

(* What is selected is listed, or about to leave the selection with the    *)
(* answer that takes it from the page: the next bulk transfer names no     *)
(* asset that is not on screen, but for one that left the page unnoticed.  *)
(* Other users moved or deleted it, the answer that said so was lost, the  *)
(* dialog was closed over its deletion, or it was still listed after that. *)
SelectedAreListed ==
    selected \subseteq listed \cup {deleting.asset} \cup moving.assets \cup unnoticed

(* The buttons that an update or a deletion disables come back, also when  *)
(* the asset is gone.                                                      *)
PendingEnds == Pending ~> ~Pending
=============================================================================
