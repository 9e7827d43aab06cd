---------------------------- MODULE EquipmentLists ----------------------------
(***************************************************************************)
(* The pages that list items (EquipmentList, AdvancedDashboard and         *)
(* Dashboard): their filters, the rows that are ticked, and the dialogues  *)
(* that change or copy several items with a request for each.              *)
(*                                                                         *)
(* The rows can be sorted by any column, so the first page of a list is    *)
(* any set of matching rows.  There is no second: the answer names its     *)
(* page currentPage, and getNextPageParam asks for page.  How an answer    *)
(* may be out of date is the subject of QueryCache; here a list is fetched *)
(* in one step, and never fails.  A dialogue covers the page.  Bounds: a   *)
(* behaviour is about one of the pages, and on EquipmentList either about  *)
(* updates or about copies; nobody else writes the rows.                   *)
(***************************************************************************)
EXTENDS Integers, FiniteSets

CONSTANTS
    Items,           \* rows of equipment at the start
    Values,          \* what the dialogue can set its column to
    PageSize,        \* limit: 20
    FilterFields,    \* the fields by which each page narrows its list
    MaxBatches       \* bound: updates sent in this instance

VARIABLES
    table,         \* the rows: item -> value of the column
    requests,      \* requests for one item on their way
    touched,       \* items that an earlier update wrote since the last was sent
    replaced,      \* items for which the server stored another value than the last asked
    view,          \* what this behaviour is about
    filters,       \* fields with a value
    searched,      \* hasSearched: Dashboard shows the list, not its statistics
    listed,        \* items on the page
    selected, select_all, picked, dialogue,    \* state of the page
    typed, sending, message,                   \* of the dialogue that updates
    loading, asking, original, posting, trapped,    \* of those that copy
    copying,       \* items of which copies are still to be made
    closing,       \* timers that will close the dialogue
    batches,       \* updates sent so far
    left_behind,   \* a dialogue was cancelled while its copy was being made
    astray         \* a copy was made of another item than the one picked

tableVars == <<table, requests, touched, replaced>>
filterVars == <<view, filters, searched>>
tickVars == <<listed, selected, select_all>>
updateVars == <<typed, sending, message, closing, batches>>
copyVars == <<loading, asking, original, posting, trapped, copying, left_behind, astray>>
listsVars == <<tableVars, filterVars, tickVars, picked, dialogue, updateVars, copyVars>>

Nothing == "nothing"       \* no item is called that
Idle == [batch |-> 0]
Silent == [kind |-> "none"]
FirstValue == CHOOSE v \in Values : TRUE
Views == {"updates", "copies", "advanced", "simple"}
Lists == {"updates", "copies"}    \* EquipmentList
Request == [item : Items, value : Values, batch : 1..MaxBatches]
Dialogues == {Nothing, "update", "copy", "copies", "delete"}

(* What getEquipment and GET /equipment pass on of the filters *)
Sent == {"type", "brand", "status", "location_id", "search"}

ListsTypeOK ==
    /\ DOMAIN table \subseteq Items /\ table \in [DOMAIN table -> Values]
    /\ requests \subseteq Request /\ touched \subseteq Items /\ replaced \subseteq Items
    /\ view \in Views /\ filters \subseteq FilterFields[view]
    /\ {listed, selected, asking, copying} \subseteq SUBSET Items
    /\ {picked, original, posting} \subseteq Items \cup {Nothing}
    /\ dialogue \in Dialogues
    /\ typed \in Values /\ closing \in 0..MaxBatches /\ batches \in 0..MaxBatches
    /\ {loading, trapped} \subseteq SUBSET {"copy", "copies"}
    /\ {searched, select_all, left_behind, astray} \subseteq BOOLEAN

ListsInit ==
    /\ table \in [Items -> Values] /\ requests = {} /\ touched = {} /\ replaced = {}
    /\ view \in Views /\ filters = {} /\ searched = FALSE
    /\ listed = {} /\ selected = {} /\ select_all = FALSE
    /\ picked = Nothing /\ dialogue = Nothing
    /\ typed = FirstValue /\ sending = Idle /\ message = Silent
    /\ closing = 0 /\ batches = 0
    /\ loading = {} /\ asking = {} /\ original = Nothing /\ posting = Nothing /\ trapped = {}
    /\ copying = {} /\ left_behind = FALSE /\ astray = FALSE

On(v) == view = v /\ dialogue = Nothing
OnList == \E v \in Lists : On(v)
-----------------------------------------------------------------------------
(***************************************************************************)
(* Filters                                                                 *)
(***************************************************************************)
Searched_Last(field, fields) == field \in fields   \* variant: looks at the changed field only
Searched(field, fields) == fields # {}

(* handleFilterChange, handleSearchChange, handleDateRangeChange *)
Filter(field) ==
    /\ On(view) /\ field \in FilterFields[view]
    /\ \E fields \in {filters \cup {field}, filters \ {field}} :
         /\ filters' = fields
         /\ searched' = (view = "simple" /\ Searched(field, fields))
    /\ UNCHANGED <<view, tableVars, tickVars, picked, dialogue, updateVars, copyVars>>

(* A card of the statistics sets or clears a field.  Dashboard shows those *)
(* of the status, in place of the list; AdvancedDashboard has more.        *)
OnCards == [simple |-> {"status"}, advanced |-> {"status", "type", "category", "location"}]

FilterByCard(field) ==
    /\ view \in DOMAIN OnCards /\ On(view) /\ ~searched
    /\ field \in OnCards[view] \cap FilterFields[view]
    /\ filters' \in {filters \cup {field}, filters \ {field}}
    /\ searched' = (view = "simple")
    /\ UNCHANGED <<view, tableVars, tickVars, picked, dialogue, updateVars, copyVars>>

ClearFilters ==
    /\ On(view) /\ (view = "simple" => searched)
    /\ filters' = {} /\ searched' = FALSE
    /\ UNCHANGED <<view, tableVars, tickVars, picked, dialogue, updateVars, copyVars>>

FirstPages ==
    LET rows == DOMAIN table
        size == IF PageSize < Cardinality(rows) THEN PageSize ELSE Cardinality(rows)
    IN  {page \in SUBSET rows : IF filters \cap Sent = {} THEN Cardinality(page) = size
                                                         ELSE Cardinality(page) <= size}

Load ==
    /\ On(view) /\ listed' \in FirstPages
    /\ UNCHANGED <<tableVars, filterVars, selected, select_all, picked, dialogue, updateVars,
                   copyVars>>
-----------------------------------------------------------------------------
(***************************************************************************)
(* Ticks, which stay when the list changes                                 *)
(***************************************************************************)
Ticks(items, all) ==
    /\ selected' = items /\ select_all' = all
    /\ UNCHANGED <<tableVars, filterVars, listed, picked, dialogue, updateVars, copyVars>>

Tick(i) ==
    /\ OnList /\ i \in listed
    /\ Ticks(IF i \in selected THEN selected \ {i} ELSE selected \cup {i}, select_all)

TickAll == OnList /\ Ticks(IF select_all THEN {} ELSE listed, ~select_all)
ClearTicks == OnList /\ selected # {} /\ Ticks({}, FALSE)

(* equipmentIds: the ticked items, whichever row the menu was opened at *)
Targets == IF selected # {} THEN selected ELSE {picked} \ {Nothing}
-----------------------------------------------------------------------------
(***************************************************************************)
(* Update of a column: one PATCH per item, all at once.  The five          *)
(* dialogues (status, location, type, category, brand and model) are       *)
(* alike; those of type, category and brand have no entry in a row's menu. *)
(***************************************************************************)
OpenUpdate ==
    /\ On("updates") /\ dialogue' = "update"
    /\ UNCHANGED <<tableVars, filterVars, tickVars, updateVars, copyVars>>

UpdateTicked == OpenUpdate /\ selected # {} /\ UNCHANGED picked
UpdateRow(row) == OpenUpdate /\ row \in listed /\ picked' = row

Choose(value) ==
    /\ dialogue = "update" /\ typed' = value
    /\ UNCHANGED <<tableVars, filterVars, tickVars, picked, dialogue, copyVars, sending, message,
                   closing, batches>>

CloseUpdate ==
    /\ dialogue = "update" /\ sending = Idle
    /\ dialogue' = Nothing
    /\ UNCHANGED <<tableVars, filterVars, tickVars, picked, updateVars, copyVars>>

MaySubmit == dialogue = "update" /\ sending = Idle

Submit ==
    /\ MaySubmit /\ Targets # {} /\ batches < MaxBatches
    /\ batches' = batches + 1
    /\ sending' = [batch |-> batches', items |-> Targets, value |-> typed, left |-> Targets]
    /\ requests' = requests \cup [item : Targets, value : {typed}, batch : {batches'}]
    /\ message' = Silent /\ touched' = {} /\ replaced' = {}
    /\ UNCHANGED <<table, filterVars, tickVars, picked, dialogue, typed, closing, copyVars>>

(* Promise.all settles with the first failure and with the last success.   *)
(* The message names the number of items and the value in the form: those  *)
(* that were sent, unless the form has changed since.                      *)
Settled_First(left) == TRUE     \* variant: settles with the first success
Settled(left) == left = {}

Answered(r, ok) ==
    IF sending.batch # r.batch
      THEN /\ touched' = touched \cup {r.item}
           /\ UNCHANGED <<sending, message, closing>>
      ELSE LET left == sending.left \ {r.item} IN
           /\ UNCHANGED touched
           /\ CASE ~ok -> /\ sending' = Idle /\ message' = [kind |-> "error"]
                          /\ UNCHANGED closing
                [] ok /\ Settled(left) ->
                          /\ sending' = Idle /\ closing' = closing + 1
                          /\ message' = [kind |-> "success", items |-> sending.items,
                                                   value |-> sending.value]
                [] OTHER -> /\ sending' = [sending EXCEPT !.left = left]
                            /\ UNCHANGED <<message, closing>>

(* PATCH /equipment/:id/...: the item is written, or it is gone, or the    *)
(* request fails before or after the write.  The value asked for need not  *)
(* be the one that is stored: beforeUpdate chooses the status of an item   *)
(* in Lager or of a fixed installation, and a location or a category that  *)
(* is not found is left as it was or cleared; the answer is 200 all the    *)
(* same.  Which value replaces which is the subject of EquipmentRecords.   *)
UpdateAnswered(r) ==
    /\ requests' = requests \ {r}
    /\ \E written, ok \in BOOLEAN, stored \in Values :
         /\ ok => written
         /\ written => r.item \in DOMAIN table
         /\ table' = IF written THEN [table EXCEPT ![r.item] = stored] ELSE table
         /\ replaced' = IF written /\ stored # r.value /\ r.batch = sending.batch
                           THEN replaced \cup {r.item} ELSE replaced
         /\ Answered(r, ok)
    /\ UNCHANGED <<filterVars, tickVars, picked, dialogue, typed, batches, copyVars>>

(* Two seconds after a success, whatever the dialogue is doing by then *)
TimerFires ==
    /\ closing > 0 /\ closing' = closing - 1
    /\ dialogue' = IF dialogue = "update" THEN Nothing ELSE dialogue
    /\ message' = IF message.kind = "success" THEN Silent ELSE message
    /\ UNCHANGED <<tableVars, filterVars, tickVars, picked, typed, sending, batches, copyVars>>
-----------------------------------------------------------------------------
(***************************************************************************)
(* Copies: DuplicateEquipmentModal, for the item picked, and               *)
(* BatchDuplicateModal, one POST after the other.  While they load, and    *)
(* after an error, they have no button that closes them.                   *)
(***************************************************************************)
OpenCopy(kind) ==
    /\ On("copies") /\ dialogue' = kind
    /\ loading' = loading \cup {kind}
    /\ UNCHANGED <<tableVars, filterVars, tickVars, updateVars, original, posting, trapped, copying,
                   left_behind, astray>>

CopyTicked == OpenCopy("copies") /\ selected # {} /\ UNCHANGED <<picked, asking>>
CopyRow(row) == OpenCopy("copies") /\ row \in listed /\ picked' = row /\ UNCHANGED asking
CopyCard(row) ==
    OpenCopy("copy") /\ row \in listed /\ picked' = row /\ asking' = asking \cup {row}

Details(i) ==
    /\ view = "copies" /\ i \in asking /\ asking' = asking \ {i}
    /\ loading' = loading \ {"copy"}
    /\ \/ original' = i /\ UNCHANGED trapped
       \/ trapped' = trapped \cup {"copy"} /\ UNCHANGED original
    /\ UNCHANGED <<tableVars, filterVars, tickVars, picked, dialogue, updateVars, posting, copying,
                   left_behind, astray>>

(* All ticked items are read.  The list of a picked one is a new array     *)
(* each time, and its effect reads it again without end.                   *)
AllDetails ==
    /\ dialogue = "copies" /\ "copies" \in loading /\ selected # {}
    /\ loading' = loading \ {"copies"}
    /\ trapped' \in {trapped, trapped \cup {"copies"}}
    /\ UNCHANGED <<tableVars, filterVars, tickVars, picked, dialogue, updateVars, asking, original,
                   posting, copying, left_behind, astray>>

Form(kind) == dialogue = kind /\ kind \notin loading \cup trapped

MayCloseCopy_Always == dialogue \in {"copy", "copies"} /\ copying = {}   \* variant: also while it loads
MayCloseCopy == (Form("copy") \/ Form("copies")) /\ copying = {}

CloseCopy ==
    /\ MayCloseCopy
    /\ dialogue' = Nothing /\ picked' = Nothing
    /\ left_behind' = (left_behind \/ (dialogue = "copy" /\ posting # Nothing))
    /\ UNCHANGED <<tableVars, filterVars, tickVars, updateVars, loading, asking, original, posting,
                   trapped, copying, astray>>

PostCopy ==
    /\ Form("copy") /\ posting = Nothing
    /\ posting' = original
    /\ astray' = (astray \/ (original # picked /\ ~left_behind))
    /\ UNCHANGED <<tableVars, filterVars, tickVars, picked, dialogue, updateVars, loading, asking,
                   original, trapped, copying, left_behind>>

(* The answer closes the dialogue, even one that was opened since. *)
CopyAnswered ==
    /\ posting # Nothing /\ posting' = Nothing
    /\ \/ /\ dialogue' = IF dialogue = "copy" THEN Nothing ELSE dialogue
          /\ picked' = Nothing
          /\ UNCHANGED trapped
       \/ trapped' = trapped \cup {"copy"} /\ UNCHANGED <<dialogue, picked>>
    /\ UNCHANGED <<tableVars, filterVars, tickVars, updateVars, loading, asking, original, copying,
                   left_behind, astray>>

StartCopies ==
    /\ Form("copies") /\ copying = {}
    /\ copying' = selected
    /\ UNCHANGED <<tableVars, filterVars, tickVars, picked, dialogue, updateVars, loading, asking,
                   original, posting, trapped, left_behind, astray>>

(* A serial number that is taken, as those of a first attempt are, ends it. *)
CopyNext(i) ==
    /\ i \in copying
    /\ \/ /\ copying' = copying \ {i} /\ UNCHANGED trapped
          /\ IF copying' = {} THEN dialogue' = Nothing /\ picked' = Nothing
                              ELSE UNCHANGED <<dialogue, picked>>
       \/ copying' = {} /\ trapped' = trapped \cup {"copies"} /\ UNCHANGED <<dialogue, picked>>
    /\ UNCHANGED <<tableVars, filterVars, tickVars, updateVars, loading, asking, original, posting,
                   left_behind, astray>>
-----------------------------------------------------------------------------
(***************************************************************************)
(* AdvancedDashboard asks before it deletes an item, and can be told twice.*)
(***************************************************************************)
AskDelete(row) ==
    /\ On("advanced") /\ row \in listed
    /\ picked' = row /\ dialogue' = "delete"
    /\ UNCHANGED <<tableVars, filterVars, tickVars, updateVars, copyVars>>

CancelDelete ==
    /\ dialogue = "delete"
    /\ picked' = Nothing /\ dialogue' = Nothing
    /\ UNCHANGED <<tableVars, filterVars, tickVars, updateVars, copyVars>>

ConfirmDelete ==
    /\ dialogue = "delete"
    /\ asking' = asking \cup {picked}
    /\ UNCHANGED <<tableVars, filterVars, tickVars, picked, dialogue, updateVars, loading, original,
                   posting, trapped, copying, left_behind, astray>>

DeleteAnswered(i) ==
    /\ view = "advanced" /\ i \in asking
    /\ asking' = asking \ {i}
    /\ \/ /\ i \in DOMAIN table
          /\ table' = [j \in DOMAIN table \ {i} |-> table[j]]
          /\ dialogue' = Nothing /\ picked' = Nothing
       \/ UNCHANGED <<table, dialogue, picked>>
    /\ UNCHANGED <<requests, touched, replaced, filterVars, tickVars, updateVars, loading, original,
                   posting, trapped, copying, left_behind, astray>>
-----------------------------------------------------------------------------
ListsNext ==
    \/ \E field \in UNION {FilterFields[v] : v \in Views} :
         Filter(field) \/ FilterByCard(field)
    \/ ClearFilters \/ Load
    \/ \E i \in Items : Tick(i)
    \/ TickAll \/ ClearTicks
    \/ UpdateTicked \/ CopyTicked
    \/ \E row \in Items : UpdateRow(row)
    \/ \E row \in Items : CopyRow(row)
    \/ \E row \in Items : CopyCard(row)
    \/ \E value \in Values : Choose(value)
    \/ CloseUpdate \/ Submit \/ TimerFires
    \/ \E r \in requests : UpdateAnswered(r)
    \/ \E i \in Items : Details(i)
    \/ AllDetails \/ CloseCopy \/ PostCopy \/ CopyAnswered \/ StartCopies
    \/ \E i \in Items : CopyNext(i)
    \/ \E row \in Items : AskDelete(row)
    \/ CancelDelete \/ ConfirmDelete
    \/ \E i \in Items : DeleteAnswered(i)

ListsSpec == ListsInit /\ [][ListsNext]_listsVars
-----------------------------------------------------------------------------
(* When a dialogue says that its items are updated, the server has        *)
(* written each of those it sent: the item has the value it sent, unless   *)
(* the server put another in its place, of which the dialogue learns       *)
(* nothing, or requests left over from an update that failed changed the   *)
(* item since.                                                             *)
UpdateReported ==
    message.kind = "success" =>
        \A i \in message.items \ (touched \cup replaced) :
            i \in DOMAIN table /\ table[i] = message.value

(* A copy is made of the item at which "Duplicate" was chosen, although    *)
(* the dialogue keeps what it read about an earlier one, until one is      *)
(* cancelled while its copy is being made: the answer then closes the next *)
(* while it loads, and what that had asked for fills the one after it.     *)
CopyOfPicked == ~astray

(* Dashboard shows the list whenever a filter narrows it. *)
NarrowedShown == view = "simple" /\ filters # {} => searched

ListsHonest == UpdateReported /\ CopyOfPicked /\ NarrowedShown
=============================================================================
