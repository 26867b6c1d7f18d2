---------------------------- MODULE CatalogForms ----------------------------
(***************************************************************************)
(* The record pages of the frontend (src/frontend/src/pages): a list, an   *)
(* add form, an edit form, and the requests these forms start.  A form can *)
(* be closed while its request is under way and another one opened, so the *)
(* answer of an earlier save reaches a page that shows something else.     *)
(* The pages share one state machine and differ in the features below.     *)
(***************************************************************************)
EXTENDS Naturals, FiniteSets

CONSTANTS
    Rows,          \* the records listed on the page
    None,          \* no record
    MaxFillings,   \* bound on the number of forms opened
    MaxCalls       \* bound on the number of requests sent

ASSUME FormsAssumption ==
    /\ Rows # {} /\ None \notin Rows
    /\ MaxFillings \in Nat /\ MaxCalls \in Nat

(***************************************************************************)
(* Features of a page.                                                     *)
(*   single   one modal serves both forms, it edits iff a target is set    *)
(*   blanks   the success of a create empties the form state that the edit *)
(*            form shares                                                  *)
(*   guarded  the submit button is disabled while a save is pending        *)
(*   keeps    opening the add form leaves the form state as it was         *)
(*   forgets  when closing the edit form clears its target: "never", on a  *)
(*            "save" and Cancel but not on the close button, or "always"   *)
(*   adds, edits, dialog   the page has an add form, an edit form, a       *)
(*            status dialog                                                *)
(***************************************************************************)
Plain    == [single |-> FALSE, blanks |-> FALSE, guarded |-> FALSE, keeps |-> FALSE,
             forgets |-> "never", edits |-> TRUE, adds |-> TRUE, dialog |-> FALSE]
Clearing == [Plain EXCEPT !.blanks = TRUE, !.forgets = "save"]
Users    == [Plain EXCEPT !.single = TRUE, !.guarded = TRUE, !.forgets = "always"]

VendorsPage         == Plain
StatusPage          == Plain
PositionPage        == Plain
EquipmentPage       == Plain
SoftwareLicensePage == Plain
OfficeToolsTab      == Plain
SectionPage         == Clearing
BranchPage          == Clearing
EmployeePage        == Clearing
AssetCategoryPage   == [Plain EXCEPT !.forgets = "save"]
SubcategoryPage     == [Plain EXCEPT !.forgets = "always"]
ReplenishmentPage   == [Plain EXCEPT !.blanks = TRUE, !.guarded = TRUE]
UserManagement      == Users
AmlaUsers           == Users
RiskProfilingUsers  == [Users EXCEPT !.single = FALSE]
WorkstationListPage == [Plain EXCEPT !.edits = FALSE, !.guarded = TRUE, !.blanks = TRUE]
AssetsPage          == [ReplenishmentPage EXCEPT !.keeps = TRUE]
AssetComponentsPage == [AssetsPage EXCEPT !.edits = FALSE]
AssetViewAddForm    == [AssetsPage EXCEPT !.edits = FALSE]
RepairsPage         == [Plain EXCEPT !.adds = FALSE, !.guarded = TRUE, !.dialog = TRUE]

Pages == {VendorsPage, StatusPage, PositionPage, EquipmentPage, SoftwareLicensePage,
          OfficeToolsTab, SectionPage, BranchPage, EmployeePage, AssetCategoryPage,
          SubcategoryPage, ReplenishmentPage, UserManagement, AmlaUsers,
          RiskProfilingUsers, WorkstationListPage, RepairsPage, AssetsPage,
          AssetComponentsPage, AssetViewAddForm}

VARIABLES
    page,       \* the features of the page under the user's eyes
    open,       \* the modal flags that are set
    selected,   \* the record an edit or a dialog is about
    form,       \* whose record the form state holds, and whether it was typed in
    filling,    \* number of forms opened so far: the form on screen
    calls,      \* the requests not answered yet
    sent,       \* number of requests of each kind sent so far
    created,    \* records the server made from each filling
    lost        \* requests of each filling whose answer never came back

vars == <<page, open, selected, form, filling, calls, sent, created, lost>>
serverVars == <<created, lost>>
screenVars == <<open, selected, form, filling>>

Fillings == 1..MaxFillings
Target   == Rows \cup {None}
Kinds    == {"create", "update", "status"}
Call     == [id: 1..MaxCalls, kind: Kinds, row: Target, of: Target,
             filling: Fillings, stage: {"sent", "done", "refused"}]
Features == [single: BOOLEAN, blanks: BOOLEAN, guarded: BOOLEAN, keeps: BOOLEAN,
             edits: BOOLEAN, adds: BOOLEAN, dialog: BOOLEAN,
             forgets: {"never", "save", "always"}]

\* The page's state variables, the server's records and the calls stay in their types.
TypeOK ==
    /\ page \in Features
    /\ open \subseteq {"add", "edit", "dialog"}
    /\ selected \in Target
    /\ form \in [of: Target, typed: BOOLEAN]
    /\ filling \in 0..MaxFillings
    /\ calls \subseteq Call
    /\ sent \in [Kinds -> 0..MaxCalls]
    /\ created \in [Fillings -> Nat]
    /\ lost \in [Fillings -> Nat]

Blank(typed) == [of |-> None, typed |-> typed]

Init ==
    /\ page \in Pages
    /\ open = {} /\ selected = None /\ form = Blank(FALSE) /\ filling = 0
    /\ calls = {} /\ sent = [k \in Kinds |-> 0]
    /\ created = [n \in Fillings |-> 0]
    /\ lost = [n \in Fillings |-> 0]

-----------------------------------------------------------------------------
(* What is on screen. The edit form of the pages with a dialog is rendered *)
(* only while it has a target; the dialog lies over it.                    *)

Shown(m)   == m \in open /\ (m = "add" \/ selected # None)
OnTop(m)   == Shown(m) /\ (m = "edit" => ~Shown("dialog"))
NoModal    == \A m \in {"add", "edit", "dialog"}: ~Shown(m)

\* useMutation's isPending: it follows the last request of its kind.
Pending(k) == \E c \in calls: c.kind = k /\ c.id = sent[k]

\* Mutant of SubmitDisabled: a pending create is not watched.
WatchesTheOther(kind) == page.guarded /\ kind # "create" /\ Pending(kind)

\* The pending saves that the submit button of the form on screen watches.
SubmitDisabled(kind) ==
    page.guarded /\ (\/ Pending(kind)
                     \/ page.single /\ (Pending("create") \/ Pending("update")))

OpenAdd ==
    /\ NoModal /\ page.adds /\ filling < MaxFillings
    /\ open' = open \cup {"add"}
    /\ form' = IF page.keeps THEN form ELSE Blank(FALSE)
    /\ selected' = IF page.single THEN None ELSE selected
    /\ filling' = filling + 1
    /\ UNCHANGED <<page, calls, sent, serverVars>>

OpenEdit(r) ==
    /\ NoModal /\ page.edits /\ filling < MaxFillings
    /\ open' = open \cup {"edit"}
    /\ selected' = r
    /\ form' = [of |-> r, typed |-> FALSE]
    /\ filling' = filling + 1
    /\ UNCHANGED <<page, calls, sent, serverVars>>

\* Repairs: the "Completed" and "In Repair" choices of a row open a dialog with
\* a form of its own.
OpenDialog(r) ==
    /\ NoModal /\ page.dialog /\ filling < MaxFillings
    /\ open' = open \cup {"dialog"}
    /\ selected' = r
    /\ filling' = filling + 1
    /\ UNCHANGED <<page, form, calls, sent, serverVars>>

Type ==
    /\ OnTop("add") \/ OnTop("edit")
    /\ ~form.typed
    /\ form' = [form EXCEPT !.typed = TRUE]
    /\ UNCHANGED <<page, open, selected, filling, calls, sent, serverVars>>

\* The close button, Escape and the overlay work while a save is pending too.
CloseAdd ==
    /\ OnTop("add")
    /\ open' = open \ {"add"}
    /\ UNCHANGED <<page, selected, form, filling, calls, sent, serverVars>>

CloseEdit ==
    /\ OnTop("edit")
    /\ open' = open \ {"edit"}
    /\ \/ page.forgets # "always" /\ selected' = selected
       \/ page.forgets # "never" /\ selected' = None
    /\ UNCHANGED <<page, form, filling, calls, sent, serverVars>>

\* Mutant of CloseDialog: its target is kept.
CloseDialogKeepingTarget ==
    /\ OnTop("dialog")
    /\ open' = open \ {"dialog"}
    /\ UNCHANGED <<page, selected, form, filling, calls, sent, serverVars>>

CloseDialog ==
    /\ OnTop("dialog")
    /\ open' = open \ {"dialog"}
    /\ selected' = None
    /\ UNCHANGED <<page, form, filling, calls, sent, serverVars>>

-----------------------------------------------------------------------------
(* Requests.                                                               *)

Sent == sent["create"] + sent["update"] + sent["status"]

Send(kind, row, of, n) ==
    /\ Sent < MaxCalls
    /\ sent' = [sent EXCEPT ![kind] = @ + 1]
    /\ calls' = calls \cup {[id |-> sent[kind] + 1, kind |-> kind, row |-> row, of |-> of,
                             filling |-> n, stage |-> "sent"]}
    /\ UNCHANGED <<page, screenVars, serverVars>>

\* The browser refuses a form whose required fields are empty.
Filled == form.typed \/ form.of # None

SubmitAdd ==
    /\ OnTop("add") /\ Filled /\ ~SubmitDisabled("create")
    /\ Send("create", None, form.of, filling)

SubmitEdit ==
    /\ OnTop("edit") /\ Filled /\ ~SubmitDisabled("update")
    /\ Send("update", selected, form.of, filling)

SubmitDialog ==
    /\ OnTop("dialog") /\ ~SubmitDisabled("status")
    /\ Send("status", selected, selected, filling)

Advance(c, stage) == calls' = (calls \ {c}) \cup {[c EXCEPT !.stage = stage]}

\* The server applies a request, or refuses it: a failed validation, or a
\* record deleted meanwhile.
Serve(c) ==
    /\ c.stage = "sent"
    /\ Advance(c, "done")
    /\ created' = IF c.kind = "create" THEN [created EXCEPT ![c.filling] = @ + 1]
                                       ELSE created
    /\ UNCHANGED <<page, screenVars, sent, lost>>

Refuse(c) ==
    /\ c.stage = "sent"
    /\ Advance(c, "refused")
    /\ UNCHANGED <<page, screenVars, sent, serverVars>>

\* A save was applied and its answer is lost: the page sees an error.
LoseAnswer(c) ==
    /\ c.stage = "done"
    /\ Advance(c, "refused")
    /\ lost' = [lost EXCEPT ![c.filling] = @ + 1]
    /\ UNCHANGED <<page, screenVars, sent, created>>

\* onSuccess of a create.
Created(c) ==
    /\ c.kind = "create"
    /\ open' = open \ (IF page.single THEN {"add", "edit"} ELSE {"add"})
    /\ form' = IF page.blanks THEN Blank(FALSE) ELSE form
    /\ selected' = IF page.single THEN None ELSE selected

\* onSuccess of an update.
Updated(c) ==
    /\ c.kind = "update"
    /\ open' = open \ (IF page.single THEN {"add", "edit"} ELSE {"edit"})
    /\ form' = form
    /\ selected' = IF page.forgets = "never" THEN selected ELSE None

\* onSuccess of a repair's status change, given to mutate() by the dialog.
StatusChanged(c) ==
    /\ c.kind = "status"
    /\ open' = open \ {"dialog"}
    /\ form' = form
    /\ selected' = None

\* onError of every request: an alert; the modals and the form stay as they are.
\* A delete starts and ends like that too, it touches no form and is left out.
AlertOnly(c) ==
    /\ c.stage = "refused"
    /\ UNCHANGED <<open, form, selected>>

Deliver(c) ==
    /\ c.stage # "sent"
    /\ calls' = calls \ {c}
    /\ \/ c.stage = "done" /\ (Created(c) \/ Updated(c) \/ StatusChanged(c))
       \/ AlertOnly(c)
    /\ UNCHANGED <<page, filling, sent, serverVars>>

Next ==
    \/ OpenAdd \/ CloseAdd \/ SubmitAdd
    \/ \E r \in Rows: OpenEdit(r) \/ OpenDialog(r)
    \/ Type
    \/ CloseEdit \/ SubmitEdit
    \/ CloseDialog \/ SubmitDialog
    \/ \E c \in calls: Serve(c) \/ Refuse(c) \/ LoseAnswer(c) \/ Deliver(c)

Spec == Init /\ [][Next]_vars

-----------------------------------------------------------------------------
(* Properties.                                                             *)

(* A save never writes what was loaded from another record.  It holds on   *)
(* every page although the repairs page lets one target serve the edit     *)
(* form and the dialog; on the pages whose create empties the shared form  *)
(* (SectionPage:51, BranchPage:56, EmployeePage:101, ReplenishmentPage:326, *)
(* AssetsPageView:515) a late create leaves an open edit form with the     *)
(* record's fields gone, and the save then writes the blanks.  A new       *)
(* record carries no other one's fields either, except on the assets page, *)
(* whose add form opens with what the edit form held last.                 *)
WritesOwnForm ==
    \A c \in calls:
        /\ c.kind = "update" => c.of = c.row \/ (c.of = None /\ page.blanks)
        /\ c.kind = "create" => c.of = None \/ page.keeps

(* Where the button is disabled while a save is pending, one filling of    *)
(* the add form makes one record, whatever is closed, reopened or refused  *)
(* in between: a second one takes an answer that was lost and a retry.     *)
OneRecordPerForm ==
    page.guarded => \A n \in Fillings: created[n] <= 1 + lost[n]
=============================================================================
