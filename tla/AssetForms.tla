------------------------------ MODULE AssetForms ------------------------------
(***************************************************************************)
(* The record pages of CatalogForms, with the part that only the assets    *)
(* page has (pages/inventory/assets/AssetsPageView.jsx): a desktop's form  *)
(* holds its components too.  They are fetched when the edit form opens,   *)
(* share one state with those typed into the add form, and are saved with  *)
(* three rounds of requests before the update of the asset is sent.        *)
(***************************************************************************)
EXTENDS CatalogForms

CONSTANTS
    MaxIds,           \* bound on the component ids, temporary or given by the server
    MaxDesktopForms   \* bound on the forms and the requests of a page with desktops

ASSUME AssetFormsAssumption == MaxIds \in Nat /\ MaxDesktopForms \in Nat

VARIABLES
    desktops,      \* the records whose category has components
    components,    \* the component rows of the form state
    originalIds,   \* originalComponentIdsRef: the ids that the last fetch brought
    fetches,       \* fetches whose answer the page still waits for
    stored,        \* the components on the server
    saves,         \* component saves under way
    issued         \* number of ids used so far

parts == <<desktops, components, originalIds, fetches, stored, saves, issued>>
formVars == <<vars, parts>>

\* A component row: typed in under the record `of` (None in the add form), or
\* fetched, when `of` is its asset.
Ids       == 1..MaxIds
Component == [id: Ids, of: Target, isNew: BOOLEAN]
Stored    == [id: Ids, of: Rows, typed: Ids]
IdsOf(cs) == {c.id: c \in cs}

\* The bounds, and the saves that have yet to send their update.
FormsLeft == desktops = {} \/ filling < MaxDesktopForms
CallsLeft ==
    Sent + Cardinality(saves) < (IF desktops = {} THEN MaxCalls ELSE MaxDesktopForms)

\* A save as handleUpdate was clicked: what goes, comes and stays, and whether
\* the components of the record were there (`early`: they were not) and nobody
\* else was changing them (`alone`).
Saving == [id: 1..MaxCalls, row: Rows, of: Target, filling: Fillings,
           del: SUBSET Ids, add: SUBSET Component, keep: SUBSET Ids,
           at: {"delete", "add", "put"}, early: BOOLEAN, alone: BOOLEAN]

\* The rows of the form, the server's components and the saves are well formed.
AssetFormsTypeOK ==
    /\ desktops \subseteq Rows
    /\ components \subseteq Component
    /\ originalIds \subseteq Ids
    /\ fetches \subseteq [row: desktops, read: BOOLEAN, got: SUBSET Ids]
    /\ fetches # {} => Shown("edit")
    /\ stored \subseteq Stored
    /\ saves \subseteq Saving
    /\ issued \in 0..MaxIds

\* Each desktop has one component to begin with.
FormsInit ==
    /\ Init
    /\ desktops \in {d \in SUBSET Rows: page # AssetsPage => d = {}}
    /\ issued = Cardinality(desktops) /\ issued \in 0..MaxIds
    /\ \E owner \in [1..issued -> desktops]:
        /\ \A d \in desktops: \E i \in 1..issued: owner[i] = d
        /\ stored = {[id |-> i, of |-> owner[i], typed |-> i]: i \in 1..issued}
    /\ components = {} /\ originalIds = {} /\ fetches = {} /\ saves = {}

-----------------------------------------------------------------------------
(* The effect that loads the components.                                   *)

\* Mutant of Cleanup: answers are not held back when the form closes.
CleanupNever == UNCHANGED fetches

\* The effect's clean-up: with the form closed no answer is waited for.
Cleanup == fetches' = IF Shown("edit")' THEN fetches ELSE {}

\* The effect after openEditModal.  A record without components empties the list,
\* a desktop's form shows what was there before until its own come.
EditOpens(r) ==
    /\ FormsLeft /\ OpenEdit(r)
    /\ IF r \in desktops
         THEN /\ fetches' = fetches \cup {[row |-> r, read |-> FALSE, got |-> {}]}
              /\ UNCHANGED <<components, originalIds>>
         ELSE /\ components' = {} /\ originalIds' = {}
              /\ UNCHANGED fetches
    /\ UNCHANGED <<desktops, stored, saves, issued>>

ServerLists(f) ==
    /\ ~f.read
    /\ fetches' = (fetches \ {f}) \cup
          {[f EXCEPT !.read = TRUE, !.got = IdsOf({c \in stored: c.of = f.row})]}
    /\ UNCHANGED <<vars, desktops, components, originalIds, stored, saves, issued>>

ComponentsCome(f) ==
    /\ f.read
    /\ fetches' = fetches \ {f}
    /\ components' = {[id |-> i, of |-> f.row, isNew |-> FALSE]: i \in f.got}
    /\ originalIds' = f.got
    /\ UNCHANGED <<vars, desktops, stored, saves, issued>>

ComponentsFail(f) ==
    /\ fetches' = fetches \ {f}
    /\ components' = {} /\ originalIds' = {}
    /\ UNCHANGED <<vars, desktops, stored, saves, issued>>

-----------------------------------------------------------------------------
(* Rows of the form.                                                       *)

\* The add form shows its rows for a desktop category too.
RowsShown == desktops # {} /\ (OnTop("add") \/ OnTop("edit"))

HandleComponentAdd ==
    /\ RowsShown /\ issued < MaxIds
    /\ issued' = issued + 1
    /\ components' = components \cup
          {[id |-> issued + 1, of |-> IF OnTop("edit") THEN selected ELSE None,
            isNew |-> TRUE]}
    /\ UNCHANGED <<vars, desktops, originalIds, fetches, stored, saves>>

HandleComponentRemove(c) ==
    /\ RowsShown
    /\ components' = components \ {c}
    /\ UNCHANGED <<vars, desktops, originalIds, fetches, stored, saves, issued>>

-----------------------------------------------------------------------------
(* handleUpdate of a desktop: saveDesktopComponentsForEdit, then the update *)
(* as the form was at the click.  The button watches the update only.      *)

\* Mutant of Removed: what the form does not list is left alone.
RemovedNever == {}

Removed == originalIds \ IdsOf({c \in components: ~c.isNew})

\* The category is the form's: that of the record, or one picked again in a form
\* that a late create has emptied.
HandleUpdate ==
    /\ page = AssetsPage /\ OnTop("edit") /\ Filled /\ ~SubmitDisabled("update")
    /\ form.of \in desktops \cup {None} /\ desktops # {}
    /\ CallsLeft
    /\ LET own  == {c \in stored: c.of = selected}
           free == {i \in 1..MaxCalls: \A s \in saves: s.id # i}
           others == {s \in saves:
                         s.row = selected \/ \E c \in stored: c.of = s.row /\ c.id \in Removed}
       IN  /\ free # {}
           /\ saves' = (saves \ others) \cup {[s EXCEPT !.alone = FALSE]: s \in others} \cup
              {[id |-> CHOOSE i \in free: TRUE, row |-> selected, of |-> form.of, filling |-> filling,
                del |-> Removed, add |-> {c \in components: c.isNew},
                keep |-> IdsOf({c \in components: ~c.isNew}), at |-> "delete",
                early |-> fetches # {}, alone |-> others = {} /\ IdsOf(own) = originalIds]}
    /\ UNCHANGED <<vars, desktops, components, originalIds, fetches, stored, issued>>

Proceeds(s, at) == saves' = (saves \ {s}) \cup {[s EXCEPT !.at = at]}

\* The requests of a round go together; if one fails the others may have been
\* applied, and the form stays as it is.
DeleteRemoved(s) ==
    /\ s.at = "delete"
    /\ \/ /\ s.del \subseteq IdsOf(stored)
          /\ stored' = {c \in stored: c.id \notin s.del}
          /\ Proceeds(s, "add")
       \/ /\ s.del # {}
          /\ \E gone \in SUBSET s.del: stored' = {c \in stored: c.id \notin gone}
          /\ saves' = saves \ {s}
    /\ UNCHANGED <<vars, desktops, components, originalIds, fetches, issued>>

\* The server's components made from the rows `add`, with new ids.
Made(add, row) ==
    {[id |-> issued + Cardinality({d \in add: d.id <= c.id}), of |-> row, typed |-> c.id]:
        c \in add}

PostNew(s) ==
    /\ s.at = "add"
    /\ \/ /\ issued + Cardinality(s.add) <= MaxIds
          /\ stored' = stored \cup Made(s.add, s.row)
          /\ issued' = issued + Cardinality(s.add)
          /\ Proceeds(s, "put")
       \/ \E add \in SUBSET s.add \ {s.add}:
          /\ issued + Cardinality(add) <= MaxIds
          /\ stored' = stored \cup Made(add, s.row)
          /\ issued' = issued + Cardinality(add)
          /\ saves' = saves \ {s}
    /\ UNCHANGED <<vars, desktops, components, originalIds, fetches>>

\* The rows that stay are written, and then the asset.
PutExisting(s) ==
    /\ s.at = "put" /\ s.keep \subseteq IdsOf(stored)
    /\ Send("update", s.row, s.of, s.filling)
    /\ saves' = saves \ {s}
    /\ UNCHANGED <<desktops, components, originalIds, fetches, stored, issued>>

PutFails(s) ==
    /\ s.at = "put" /\ s.keep # {}
    /\ saves' = saves \ {s}
    /\ UNCHANGED <<vars, desktops, components, originalIds, fetches, stored, issued>>

-----------------------------------------------------------------------------
\* onSuccess of a create empties the rows as well.  The components of a new asset
\* go with its create and belong to no record of the page yet.
Delivered(c) ==
    /\ Deliver(c)
    /\ Cleanup
    /\ components' = IF c.kind = "create" /\ c.stage = "done" THEN {} ELSE components
    /\ UNCHANGED <<desktops, originalIds, stored, saves, issued>>

Served(c) == (Serve(c) \/ Refuse(c) \/ LoseAnswer(c)) /\ UNCHANGED parts

PageStep ==
    /\ \/ FormsLeft /\ OpenAdd
       \/ CloseAdd \/ CloseEdit \/ Type
       \/ \E r \in Rows: OpenDialog(r)
       \/ CloseDialog \/ SubmitDialog
       \/ CallsLeft /\ SubmitAdd
       \/ CallsLeft /\ form.of \notin desktops /\ SubmitEdit
    /\ Cleanup
    /\ UNCHANGED <<desktops, components, originalIds, stored, saves, issued>>

FormsNext ==
    \/ PageStep
    \/ \E r \in Rows: EditOpens(r)
    \/ \E c \in calls: Served(c) \/ Delivered(c)
    \/ \E f \in fetches: ServerLists(f) \/ ComponentsCome(f) \/ ComponentsFail(f)
    \/ HandleComponentAdd \/ \E c \in components: HandleComponentRemove(c)
    \/ HandleUpdate
    \/ \E s \in saves: DeleteRemoved(s) \/ PostNew(s) \/ PutExisting(s) \/ PutFails(s)

FormsSpec == FormsInit /\ [][FormsNext]_formVars

-----------------------------------------------------------------------------
(* Properties.                                                             *)

(* Saving an asset deletes, adds and writes components of this asset only, *)
(* whatever was opened, closed and saved before, if the form's components  *)
(* had come when Update was clicked.  Earlier the form still holds those   *)
(* of the asset edited last, or of the add form, and saves them here.      *)
ComponentsOfOwnAsset ==
    \A s \in saves: s.early \/
        /\ \A c \in s.add: c.of = s.row
        /\ \A c \in stored: c.id \in s.del \cup s.keep => c.of = s.row

(* When the update of the asset is sent, its components are the ones the   *)
(* form showed at the click, each new row once: if the form was up to date *)
(* then and no other save went after the asset's components meanwhile: one *)
(* of the same asset, or one of another clicked early.  After a save that  *)
(* failed half way it is not, and the second try adds again what the first *)
(* has added or stumbles over what the first has deleted.                  *)
ComponentsAreThoseShown ==
    [][\A s \in saves:
        s \notin saves' /\ sent' # sent /\ s.alone /\ ~s.early =>
            LET own == {c \in stored': c.of = s.row}
                new == {c \in own: c.id \notin s.keep}
            IN  /\ s.keep \subseteq IdsOf(own)
                /\ {c.typed: c \in new} = IdsOf(s.add)
                /\ Cardinality(new) = Cardinality(s.add)]_formVars
=============================================================================
