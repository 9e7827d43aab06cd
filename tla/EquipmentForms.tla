---------------------------- MODULE EquipmentForms ----------------------------
(***************************************************************************)
(* The pages on which an item is created and edited: NewEquipmentModern,   *)
(* NewEquipmentMobile, EditEquipmentModern and the dialogue that changes   *)
(* its picture, over the handlers of EquipmentRecords.  A request is       *)
(* answered in one step here, and every lookup of a name finds it;         *)
(* EquipmentRecords has the overlaps, the failures and the writers that    *)
(* pass the hook by.                                                       *)
(*                                                                         *)
(* The form is a copy of the row, filled when an answer arrives and filled *)
(* again whenever the query is fetched again; the whole of it is sent.     *)
(***************************************************************************)
EXTENDS EquipmentRecords

CONSTANTS
    MaxEdits,      \* fields typed into one form
    Typed,         \* the fields that are typed into
    Choices        \* what "Allocate" on the page of a new item can be set to

VARIABLES
    page,      \* "list", "new", "mobile" or "edit"
    form,      \* formData of that page
    shown,     \* the row that the form was last filled from, or NoRecord
    edits,     \* what the user typed since: a function on fields
    fetched,   \* the row of an answer still on its way, or NoRecord
    preset,    \* the place that the page of a new item fills in, once it knows
    choice,    \* allocationData of that page
    sent,      \* what the request in flight carries, or NoCall
    asked      \* what the user had done when it was sent

formVars == <<page, form, shown, edits, fetched, preset, choice, sent, asked>>
allVars == <<recordVars, formVars>>

NoEdits == NoCall
StorageChoice == [kind |-> "storage", place |-> Null]
EmptyForm ==
    [quantity |-> 1, status |-> "available", location_id |-> Null, location |-> "",
     installation_type |-> "portable", installation_location_id |-> Null,
     installation_location |-> "", installation_quantity |-> 0]
Sending == sent # NoCall

FormsTypeOK ==
    /\ record \in Record \cup {NoRecord}
    /\ page \in {"list", "new", "mobile", "edit"}
    /\ form \in Record
    /\ {shown, fetched} \subseteq Record \cup {NoRecord}
    /\ DOMAIN edits \subseteq Columns \cup {"type, brand and model"}
    /\ preset \in Places \cup {Null}
    /\ choice \in Choices
    /\ DOMAIN sent \subseteq Columns

FormsInit ==
    /\ Init
    /\ page = "list" /\ form = EmptyForm
    /\ shown = NoRecord /\ fetched = NoRecord
    /\ edits = NoEdits
    /\ preset = Null /\ choice = StorageChoice
    /\ sent = NoCall /\ asked = NoCall

Leave ==
    /\ page' = "list" /\ form' = EmptyForm
    /\ shown' = NoRecord /\ fetched' = NoRecord
    /\ edits' = NoEdits
    /\ preset' = Null /\ choice' = StorageChoice
    /\ sent' = NoCall /\ asked' = NoCall
-----------------------------------------------------------------------------
(* Controls of the pages.  The page of an item has no place of an          *)
(* installation to choose unless the item is installed.                    *)
InstallationFields == {"installation_location_id", "installation_location", "installation_quantity"}
EditFields ==
    Columns \ (IF form.installation_type = "portable" THEN InstallationFields ELSE {})
NewFields == {"location_id", "location", "quantity", "status"}
MobileFields == {"location_id", "quantity", "status"}
Fields ==
    CASE page = "edit" -> EditFields
      [] page = "new" -> NewFields
      [] page = "mobile" -> MobileFields
      [] page = "list" -> {}

ValuesOf(field) ==
    CASE field = "quantity" -> 1..MaxUnits
      [] field = "status" -> Statuses
      [] field = "location_id" -> Places \cup {Null}
      [] field \in {"location", "installation_location"} -> FreeTexts \cup {""}
      [] field = "installation_type" -> InstallationTypes
      [] field = "installation_location_id" -> Sites \cup {Null}
      [] field = "installation_quantity" -> 0..MaxUnits

Pick(f, field, value) == [f EXCEPT ![field] = value]

(* A listed place gives its name to the text, a text takes the listed      *)
(* place away; an empty choice does neither.                               *)
Coupled(f, field, value) ==
    CASE field = "location_id" /\ value # Null -> [f EXCEPT !.location = PlaceNames[value]]
      [] field = "location" /\ value # "" -> [f EXCEPT !.location_id = Null]
      [] field = "installation_location_id" /\ value # Null ->
            [f EXCEPT !.installation_location = PlaceNames[value]]
      [] field = "installation_location" /\ value # "" ->
            [f EXCEPT !.installation_location_id = Null]
      [] OTHER -> f

NamesPlace(field, value) ==
    \/ field = "location_id" /\ value # Null
    \/ field = "location" /\ value # ""

(* handleInputChange of EditEquipmentModern *)
EditInput(f, field, value) ==
    LET g == Coupled(Pick(f, field, value), field, value)
    IN  IF NamesPlace(field, value) /\ g.location = Lager /\ g.status \notin KeptStatuses
          THEN [g EXCEPT !.status = "available"]
          ELSE g

(* handleInputChange of NewEquipmentModern; Lager stands for every name    *)
(* that looks like a store.                                                *)
NewInput(f, field, value) ==
    LET g == Coupled(Pick(f, field, value), field, value)
    IN  CASE NamesPlace(field, value) ->
               [g EXCEPT !.status = IF g.location = Lager THEN "available"
                                    ELSE IF @ = "available" THEN "in-use" ELSE @]
          [] field = "status" /\ f.location = Lager -> [g EXCEPT !.status = "available"]
          [] OTHER -> g

(* The effects of the page of a new item: without a listed place the       *)
(* default storage comes back, and a choice other than storage decides     *)
(* place and status.                                                       *)
Preset(f) ==
    IF f.location_id = Null /\ preset' # Null
      THEN [f EXCEPT !.location_id = preset', !.location = PlaceNames[preset'],
                     !.status = "available"]
      ELSE f

Chosen(f) ==
    CASE choice'.kind = "show" -> [f EXCEPT !.status = "in-use"]
      [] choice'.kind \in {"location", "installation"} ->
            [f EXCEPT !.location_id = choice'.place, !.location = PlaceNames[choice'.place],
                      !.status = "in-use"]
      [] OTHER -> f

AfterEffects(f, chooses) ==
    CASE page' = "new" -> IF chooses THEN Chosen(Preset(f)) ELSE Preset(f)
      [] page' = "mobile" -> Preset(f)
      [] OTHER -> f

(* One field is typed or chosen; what is typed while a request is under    *)
(* way is left out.  The effect of the choice runs when status or quantity *)
(* changed.                                                                *)
Type(field, value) ==
    LET f == CASE page = "edit" -> EditInput(form, field, value)
               [] page = "new" -> NewInput(form, field, value)
               [] OTHER -> Coupled(Pick(form, field, value), field, value)
    IN
    /\ field \in Fields \cap Typed /\ ~Sending
    /\ Cardinality(DOMAIN edits) < MaxEdits \/ field \in DOMAIN edits
    /\ edits' = [c \in DOMAIN edits \cup {field} |-> IF c = field THEN value ELSE edits[c]]
    /\ UNCHANGED <<recordVars, page, shown, fetched, preset, choice, sent, asked>>
    /\ form' = AfterEffects(f, f.status # form.status \/ f.quantity # form.quantity)

(* Type, brand and model are required: they are typed into a new item, and *)
(* into the form of an item that nothing has filled yet.                   *)
TypeRequired ==
    /\ page = "edit" /\ shown = NoRecord /\ ~Sending
    /\ edits = NoEdits
    /\ edits' = [c \in {"type, brand and model"} |-> TRUE]
    /\ UNCHANGED <<recordVars, page, form, shown, fetched, preset, choice, sent, asked>>

RequiredTyped == page # "edit" \/ shown # NoRecord \/ "type, brand and model" \in DOMAIN edits
-----------------------------------------------------------------------------
(***************************************************************************)
(* A new item                                                              *)
(***************************************************************************)
OpenNew(kind) ==
    /\ page = "list" /\ ~Exists
    /\ page' = kind
    /\ UNCHANGED <<recordVars, form, shown, edits, fetched, preset, choice, sent, asked>>

(* The answer with the default storages, or with the locations *)
PresetArrives(place) ==
    /\ page \in {"new", "mobile"} /\ preset = Null
    /\ preset' = place
    /\ UNCHANGED <<recordVars, page, shown, edits, fetched, choice, sent, asked>>
    /\ form' = AfterEffects(form, choice.kind # "storage")

Choose(c) ==
    /\ page = "new" /\ ~Sending
    /\ choice' = c /\ c # choice
    /\ UNCHANGED <<recordVars, page, shown, edits, fetched, preset, sent, asked>>
    /\ form' = AfterEffects(form, TRUE)

(* handleSubmit and createEquipment: the choice decides once more; empty   *)
(* places are left out.  No allocation is made for the show.               *)
Installed(f) ==
    IF choice.kind = "installation" /\ page = "new"
      THEN [f EXCEPT !.installation_type = "fixed", !.installation_location_id = choice.place,
                     !.installation_location = "", !.installation_quantity = 1]
      ELSE f

(* For the properties: what the user had chosen, and the row of a form     *)
(* that nothing was typed into.                                            *)
Asked ==
    [choice |-> choice,
     status |-> IF "status" \in DOMAIN edits THEN edits["status"] ELSE "",
     untouched |-> IF edits = NoEdits THEN shown ELSE NoRecord]

Without(f, omitted) == [c \in Columns \ omitted |-> f[c]]

Chosen_Ignored(f) == f    \* variant: the choice is not applied when the form is sent
ChosenAtSubmit(f) ==
    CASE choice.kind = "show" -> [f EXCEPT !.status = "in-use"]
      [] choice.kind \in {"location", "installation"} ->
            [f EXCEPT !.location_id = choice.place, !.location = PlaceNames[choice.place],
                      !.status = "in-use"]
      [] OTHER -> f

SubmitNew ==
    LET f == Installed(ChosenAtSubmit(form)) IN
    /\ page \in {"new", "mobile"} /\ ~Sending
    /\ RequiredTyped
    /\ asked' = Asked
    /\ sent' = Without(f, IF f.location_id = Null THEN {"location_id"} ELSE {})
    /\ UNCHANGED <<recordVars, page, form, shown, edits, fetched, preset, choice>>

Creates(storage) ==
    /\ page \in {"new", "mobile"} /\ Sending /\ ~Exists
    /\ record' = Hook(Created(sent, storage, PlaceNames), PlaceNames)
    /\ UNCHANGED besideRecord
    /\ Leave
-----------------------------------------------------------------------------
(***************************************************************************)
(* An item that exists.  With the item in the cache the page is usable at  *)
(* once, with an empty form; without, it waits for the answer.             *)
(***************************************************************************)
OpenEdit ==
    /\ page = "list" /\ Exists
    /\ page' = "edit"
    /\ UNCHANGED <<recordVars, form, shown, edits, fetched, preset, choice, sent, asked>>

(* Fetched when the page opens, when files or the picture changed, and     *)
(* when the browser is back on line.                                       *)
Fetch ==
    /\ page = "edit" /\ fetched = NoRecord
    /\ fetched' = record
    /\ UNCHANGED <<recordVars, page, form, shown, edits, preset, choice, sent, asked>>

Filled_Short(row) ==       \* variant: the fields of the installation are not filled in
    [c \in Columns |-> IF c \in InstallationFields \cup {"installation_type"}
                         THEN EmptyForm[c] ELSE row[c]]
Filled(row) == [row EXCEPT !.installation_location_id = Null]

FetchArrives ==
    /\ page = "edit" /\ fetched # NoRecord
    /\ form' = Filled(fetched)
    /\ shown' = fetched
    /\ edits' = NoEdits
    /\ fetched' = NoRecord
    /\ UNCHANGED <<recordVars, page, preset, choice, sent, asked>>

(* handleSubmit and updateEquipment: what is null is not sent at all. *)
SubmitEdit ==
    /\ page = "edit" /\ ~Sending
    /\ RequiredTyped
    /\ asked' = Asked
    /\ sent' = Without(form,
                  (IF form.location_id = Null THEN {"location_id"} ELSE {}) \cup
                  (IF form.installation_location_id = Null THEN {"installation_location_id"} ELSE {}))
    /\ UNCHANGED <<recordVars, page, form, shown, edits, fetched, preset, choice>>

Stored(body) == Merged(record, Changes(record, PutRow(record, body, PlaceNames), PlaceNames))

Updates ==
    /\ page = "edit" /\ Sending
    /\ record' = Stored(sent)
    /\ UNCHANGED besideRecord
    /\ Leave

(* An error is shown; the form stays as it is. *)
SubmitFails ==
    /\ Sending
    /\ sent' = NoCall /\ asked' = NoCall
    /\ UNCHANGED <<recordVars, page, form, shown, edits, fetched, preset, choice>>

Cancel ==
    /\ page # "list" /\ ~Sending
    /\ Leave
    /\ UNCHANGED recordVars

(* ReferenceImageModal sends PUT /:id with a picture and no field at all. *)
ChangePicture ==
    /\ page = "edit"
    /\ record' = Stored(NoCall)
    /\ UNCHANGED <<besideRecord, formVars>>

(* Somebody else moves the item, or says that it is broken. *)
MovedElsewhere(place) ==
    /\ page = "edit"
    /\ record' = Hook([record EXCEPT !.location_id = place, !.location = PlaceNames[place],
                                     !.status = StatusAt(PlaceNames[place], record.status)],
                      PlaceNames)
    /\ UNCHANGED <<besideRecord, formVars>>

BrokenElsewhere ==
    /\ page = "edit"
    /\ record' = Hook([record EXCEPT !.status = "broken"], PlaceNames)
    /\ UNCHANGED <<besideRecord, formVars>>

FormsNext ==
    \/ \E kind \in {"new", "mobile"} : OpenNew(kind)
    \/ \E place \in Places : PresetArrives(place)
    \/ \E c \in Choices : Choose(c)
    \/ \E field \in Columns : \E value \in ValuesOf(field) : Type(field, value)
    \/ TypeRequired
    \/ SubmitNew \/ \E storage \in Places : Creates(storage)
    \/ OpenEdit \/ Fetch \/ FetchArrives
    \/ SubmitEdit \/ Updates \/ SubmitFails \/ Cancel
    \/ ChangePicture \/ BrokenElsewhere
    \/ \E place \in Places : MovedElsewhere(place)

FormsSpec == FormsInit /\ [][FormsNext]_allVars
-----------------------------------------------------------------------------
(* What the user chose under "Allocate" is what the new item is created    *)
(* with, whatever was typed before or after, except that an item in Lager  *)
(* is available.                                                           *)
CreatesAsChosen ==
    ~Exists /\ record' # record /\ asked.choice.kind # "storage" =>
        /\ asked.choice.kind # "show" => record'.location = PlaceNames[asked.choice.place]
        /\ record'.status = "in-use" \/ record'.location = Lager
CreatedAsChosen == [][CreatesAsChosen]_allVars

(* Saving a form in which nothing was typed since it was filled, from a    *)
(* row that nobody has changed meanwhile, changes no column but the        *)
(* status, which the server derives anew from a listed place.              *)
SavesUntouched ==
    record' # record /\ Updates /\ asked.untouched = record =>
        \A c \in Columns \ {"status"} : record'[c] = record[c]
UntouchedSave == [][SavesUntouched]_allVars

(* The user's own choice of a status is stored. *)
ChosenStatusKept ==
    [][Updates /\ asked.status # "" => record'.status = asked.status]_allVars
=============================================================================
