# A TLA+ model of the theatre inventory

The application keeps the equipment of a theatre: what there is of each item,
which units are built into the house, which are placed at a location and which
are given to a show. A server (`src/server`, Express and Sequelize over MySQL)
answers requests; a browser client (`src/client`, React) shows rows it has read
before and sends whole forms. The handlers are `async` functions that read the
database, decide, and write, each statement committed by itself unless a handler
opens a transaction. The server interleaves its requests at every `await`, the
client interleaves answers, timers and the user. What can go wrong between a
read and the write that relies on it, on either side, is the subject of this
project.

- [Components](#components)
- [Plan](#plan)
- [Modules](#modules) and how they correspond to the code
- [Runs](#runs), their bounds, the fairness assumed and what they show
- [Proofs](#proofs)
- [Disagreements found](#disagreements-found)
- [Seen on the way](#seen-on-the-way)
- [What is not modelled](#what-is-not-modelled)

## Components

| component | state | operations | hard behaviour | correct if | modelled in |
|---|---|---|---|---|---|
| Show allocations (`routes/showEquipment.js`, `routes/shows.js`) | `show_equipment`, `shows`, `equipment.status` | add, two PUTs, checkout, return, remove; delete a show | every check is a statement of its own before the write; two tables written without a transaction | units out stay within the stock; a row out is never deleted; one row per show and item; no row without its show | `ShowAllocations`, `Loans` |
| Status validation (`statusValidationService.js`) | none | `validateStatusChange` | reads the row, then all other rows, then the handler writes | what was validated is still so at the write | `InventoryTables`, `ShowAllocations` |
| Availability (`inventoryService.js`) | none | `getEquipmentAvailability` | three SELECTs, two of whose failures count as "nothing allocated" | a row that is inserted takes units that were free | `InventoryTables`, `ShowAllocations` |
| Location allocations (`inventoryService.js`, `routes/inventory.js`, `routes/equipment.js`) | `inventory_allocation`, log | allocate, return, move, set all allocations of an item | check then insert; a return can be repeated; the log records what was read earlier | placed units stay within the stock; a return is for good; the log says where a row is | `LocationAllocations`, `Placements` |
| Equipment records (`routes/equipment.js`, `models/Equipment.js`) | `equipment` | create, update, patch status, place, installation | hooks compute on the row as it was read; only differing columns are saved | place, text and status of an item agree | `EquipmentRecords` |
| Equipment deletion | all tables, files | one transaction | blobs unlinked before the commit | records and blobs go together | `FileStore`, `ConnectionPool` |
| Connection pool (`config/database.js`) | 5 connections, acquire timer | acquire, release | nested acquisition, a forgotten transaction | every request is answered, no connection is lost | `ConnectionPool` |
| Files and storage (`routes/files.js`, `storageService.js`, `upload.js`) | file records, blobs | upload, reference image, delete | two stores, failure in between | what is listed can be downloaded | `FileStore` |
| Saved searches | `saved_searches` | create, update, delete | unset the default, then set it | at most one default per user | `SavedSearches` |
| Reference lists (locations, categories, types, default storage) | four tables | create, rename, delete, use | look up, then write; count, then delete | names differ; nothing in use is deleted | `ReferenceLists` |
| Users and sessions | `users`; token and user of a tab | manage users; log in, out, impersonate | look up, then write; hooks that hash; answers of `/me` out of order | names differ, an admin remains, passwords work; a page acts for the user it shows | `Accounts`, `ClientSession` |
| Import and export | items, log, a temporary file | a loop over records; a file written, read, removed | partial failure, name clash of files | each record is counted as what became of it; an export answers with its own rows | `ImportExport` |
| Logs | two log tables | append | errors are swallowed | see the writers | with their writers |
| HTTP server, schema migrations | the schema, the listening port | start, scripts | killed half way, run again | success is reported only for a whole schema | `Migrations` |
| Web client: forms | a copy of the row | new item, edit item | refetch over typed fields, coupled fields | what was chosen is stored; what was not touched stays | `EquipmentForms` |
| Web client: cache | entries per query key | read, invalidate, age | invalidation of the wrong key, or before the answer | a page shows the changes made on it | `QueryCache` |
| Web client: lists | filters, ticks, dialogues | change or copy several items | one request per item, timers, a dialogue used again | what a dialogue reports was done, to the items picked | `EquipmentLists` |
| Old server (`src/backend`), built client (`src/dist`) | - | - | - | - | not modelled |

The show allocations ask Availability and Status validation, and all three read
the rows that Location allocations writes. Equipment records, the forms and the
cache meet in one row: the form sends what the cache held, the handler derives
what the form did not say. Everything that opens a transaction meets in the
pool. `PROJECT.json` lists the hazards of each with the line where they bite.

## Plan

Done, in this order: `InventoryTables`, `ShowAllocations`, `Loans` and the first
proofs; `LocationAllocations`; `ConnectionPool` with liveness; `EquipmentRecords`,
`FileStore`; `SavedSearches`, `ReferenceLists`, `Accounts`, `ImportExport`;
`Migrations`; and the client, `ClientSession`, `QueryCache`, `EquipmentForms`,
`EquipmentLists`. `Server` and `EquipmentParts` put the parts beside each other,
`MCServer` and `MCEquipment` give them their constants for TLC. Then the proofs:
the desk and its refinement of `Loans`; the properties of `server`, part by part;
those of `equipment`; `Placements` and its refinement by `LocationAllocations`;
what overlapping requests can break at most, at the desk and at the locations;
and the reports of `Migrations`.

Left:

1. Rows of shows and of locations taken away from one stock: `InsertWithinStock`
   and `PlacedWithinStock` bound each kind where it is written, and no abstract
   specification has both.
2. `EquipmentRecords` beside `ShowAllocations`, once the code says what a lower
   quantity does to units that are out (`equipment.js:639`).

Modules that are proved about hold no recursive operator. `InventoryTables`
therefore writes `SUM(quantity_allocated)` as the number of pairs of a row and a
unit, which the theorems about finite sets can count; `QueryCache` gives its
tables (`Groups`, `Changes`, `Change`) as functions by cases instead of chains of
`@@`.

## Modules

In the modules of the server one action is one awaited statement with the code
up to the next `await`; a function from slots (`requests`, `search_calls`,
`list_calls`, ...) holds what the closure of the request in a slot keeps
meanwhile, with `pc` naming the statement that is next. A request that its first
query refuses changes nothing and is not represented; SELECTs that only build
the answer are left out. What a transaction writes appears at its commit. `Fail`
(`QueryFails` in `ShowAllocations`) is any `catch` that answers 500: what is
committed stays, the closure is gone, so it also stands for a crash of the
server between two statements.

### The desk

**`InventoryTables`** A table is a function from the primary keys in use to
rows. `Insert`, `Update`, `DeleteRows` are the SQL statements; an UPDATE of a key
that is gone changes nothing. `SumAllocated` is the SUM that both services take.
`Unavailable`, `Uninstalled` are the terms of `getEquipmentAvailability`;
`OwnRowAllows` and `OtherAllocationsAllow` are the two reads of
`validateStatusChange`, with `mutuallyExclusive`, `CountedStatuses` and the other
rules under the source's names. `allowedTransitions` is there because the code
states it, although no handler asks it. `MigratedSchema` chooses between the
schemas that the repository ships: `create_shows_tables.js` (unique key, foreign
keys) and `create_show_equipment_table_simple.sql` (none).

**`ShowAllocations`**

| handler | actions |
|---|---|
| `POST /show/:showId/equipment` | `AddFindShow`, `AddFindExisting`, `AddSumShows`, `AddSumInventory`, `AddInsert` |
| `PUT /allocation/:id`, `PUT /:id` | `UpdateRead`, `ValidateOwnRow`, `ValidateOthers`, `UpdateWrite` |
| `POST /:id/checkout`, `POST /:id/return` | `MoveRead`, `ValidateOwnRow`, `ValidateOthers`, `MoveWriteRow`, `MoveWriteEquipment` |
| `DELETE /:id` | `RemoveRead`, `RemoveWrite` |
| `DELETE /shows/:id` | `DeleteShowRead`, `DeleteShowWrite` |

A failed SUM inside `getEquipmentAvailability` does not end the handler: `Sums`
lets it count as 0. What a request may carry follows the client: the edit forms
send at least one unit needed and no more allocated than needed
(`"update"`, `"legacy"`), the status menu sends the status alone
(`"update_status"`).

**`Loans`** is what the desk promises without tables or statuses: a loan is
handed out only if the stock covers it and all loans made, and taken back as a
whole. The refinement maps a loan to a row that is checked out or in use.

### The other handlers of the server

**`LocationAllocations`** `AllocateRead`/`AllocateInsert` is
`allocateEquipment`, `ReturnUpdate` is `returnEquipment`, `MoveRead`/`MoveUpdate`
is `moveEquipment`, each followed by `Log`, whose failure is swallowed;
`SetRead`/`SetCommit` is `POST /equipment/:id/allocations`, which returns all
rows and inserts the new ones in one transaction. A SELECT of
`getEquipmentAvailability` may fail and count as 0 (`Sums`); rows inserted on
such a count are `guessed`. `doubtful` and `outrun` note the overlaps that the
properties except. The quantity of the item does not change here.

**`Placements`** is what these handlers promise without tables, statuses or a
log: placements are added within the stock, one at a time or all anew with the
others ended in the same step; one moves and keeps its units; one ends, and does
not come back. The refinement maps the rows of the item to placements, `Total` to
the stock and `outrun` to `late`: once a row was inserted unknown to another
request, what is added fits the stock once for each request served at a time, and
no more. A placement made by a guess (`guessed`) need not fit; those made by
counting fit beside each other all the same.

**`ConnectionPool`** Each kind of handler is a `Program`: which of its steps take
a connection from the pool, which run on the one a transaction holds, and which
can end in an error or in a rejection that nobody catches, which ends the
process. `Serve` is the pool (a connection is granted or the acquire timer
fires), `Step` is the database or the handler.

**`EquipmentRecords`** The columns of `equipment` that say where an item is and
whether it is free. `Hook` is `beforeCreate`/`beforeUpdate` of the model; each
`Patch...` and `PutInstallation`/`ReturnInstallation` reads and computes, `Save`
writes the columns that differ from what was read, or `SaveFails`. `PutRow` is
what `PUT /:id` computes from a body, `Post` what `POST` stores. Handlers and hook
each look the name of a location up, and pass over a lookup that fails
(`Lookups`). Two writers run no hook: `ShowWrites` is the UPDATE of the status in
checkout and return of a show, `Rename` is `PUT /locations/:id`, which changes
`names` and leaves the copies in the rows. `missed` notes what the hook has not
seen. A request of the edit form carries the row with a field changed; older
copies are in `EquipmentForms`.
`Arrive` here, in `FileStore` and in `Accounts` is a request that comes in.

**`FileStore`** Records, blobs and thumbnails, on a disk or in R2: `Upload`,
`UploadCommit`, `CreateItem`, `ReferenceRecord`, `ReferencePoint`,
`PatchReference`; the four ways to delete (`DeleteRead` to `DeleteCommit`,
`PutUnlink`/`PutDestroy`, `DeleteItemRead` to `DeleteItemCommit`, and the failure
of an upload). `emptied` are the objects that R2's deletion overwrites instead of
removing.

**`SavedSearches`**, **`ReferenceLists`**, **`Accounts`** Lookup and write of
each POST, PUT and DELETE. `ReferenceLists` follows one of the three lists in a
behaviour and includes the foreign keys of default storage locations and the
requests that send an item to an entry: those that look for it (`AssignRead`) and
those that write any id (`PutRead`). `Accounts` gives a password as what is typed
and how often bcrypt was applied, so that a hook that hashes twice shows;
`ResetVerify` is the read after a reset, whose failure leaves the user untold.

**`ImportExport`** `ImportStart`, `ImportFindId`, `ImportFindSerial`,
`ImportWrite`, `ImportLog` are the loop over the records of a file with its
counters; `PostLookup`/`PostInsert` and `PutLookup`/`PutSave` are the handlers
that share serial numbers with it, POST with a number that it looks up as sent
and stores without blanks (`Trimmed`); `ExportWrite`/`ExportRead`/`ExportUnlink` go
through the temporary file named after the millisecond.

**`Migrations`** A script is the object it looks for (`skip_if`) and its
statements, each of which makes objects, tolerates an error or not, or cannot
succeed. `Start` is `startServer`, `RunScript` a script by hand, `Execute`,
`SkipFailed`, `Throw`, `Proceed` one statement's outcomes, `Kill` the end of the
process between two statements. DDL commits at once, also inside a transaction.

### The client

**`ClientSession`** Tabs share `localStorage`; each has its React state, its
Authorization header and its requests for `/me` under way. `Load`, `Refresh`,
`MeAnswers`, `MeRefused`, `MeFails` are `AuthContext`; `Refused` is the axios
interceptor; `SubmitLogin`, `Logout`, `Impersonate` are the pages; `Expire` is
the server. `Effect` is the passive effect of `AuthProvider` that sets the header
for a token: login has set it before, `Impersonate` leaves it to the effect,
and the page's first queries may go out in between (`Due`).

**`QueryCache`** A behaviour follows the entry of one query key. `PagesOf`,
`QueriesOf` say which page reads which keys, `Reads` which tables an answer
depends on, `Change` on which page a mutation is made, what it writes and which
keys it tells. `Navigate`, `Forget`, `Age`, `Answer`,
`FetchFails` are the library as the pages use it; `Submit`, `Execute`,
`Succeeds`, `Fails` are a mutation.

**`EquipmentForms`** `OpenNew`, `PresetArrives`, `Choose`, `Type`, `SubmitNew`,
`Creates` are the two pages for a new item; `OpenEdit`, `Fetch`, `FetchArrives`,
`SubmitEdit`, `Updates`, `SubmitFails`, `Cancel` the edit page, with the
couplings of its fields in `Type`; `ChangePicture` is the image dialogue;
`BrokenElsewhere` and `MovedElsewhere` are other users.

**`EquipmentLists`** `Filter`, `FilterByCard`, `ClearFilters`, `Load` are the
filter and the query of the three list pages, `Tick`, `TickAll`, `ClearTicks` the
rows; `UpdateTicked`/`UpdateRow` open the dialogues that change several items
(`Choose`, `Submit`, `UpdateAnswered`, which may store another value than was
sent, noted in `replaced`, and `TimerFires`), `CopyTicked`/`CopyRow`/
`CopyCard` those that copy (`Details`, `PostCopy`, `CopyAnswered`,
`StartCopies`, `CopyNext`), `AskDelete` the one that deletes.

### Checking and proving

**`Server`** and **`EquipmentParts`** place several modules side by side: a
behaviour is one of one part, chosen at the start (`part`), and the variables of
the other parts have the value `Off` throughout. That loses nothing, because in
the models the parts of each share no variable; where they share rows in the
program, the module itself has the requests that meet (an item that moves to a
location that is being deleted is in `ReferenceLists`, and so on). In
`EquipmentParts` the handlers of a row and the forms are one instance, `Item`,
of `EquipmentForms`, with the row's variable in common. The constants of both are
parameters, with what is taken of them in `ServerAssumption` and
`EquipmentAssumption`.

**`MCServer`** and **`MCEquipment`** extend these two with the values TLC takes,
**`MCShowAllocations`** does so for the desk and **`MCForms`** for the forms
alone.

**`ShowAllocations_proofs`**, **`SavedSearches_proofs`**,
**`ReferenceLists_proofs`**, **`FileStore_proofs`**, **`Accounts_proofs`**,
**`LocationAllocations_proofs`** hold what is proved of these modules.
**`Server_proofs`** carries the last five over to `Server` and proves there what
concerns `ImportExport`, `ClientSession` and `QueryCache`;
**`Equipment_proofs`** does the same for every part of `EquipmentParts`.

## Runs

| run | what runs | shows |
|---|---|---|
| `show_allocations_serial` | one request at a time, `"add"`, `"update_status"`, checkout, return, remove, delete show; schema without keys; statements fail; a location row may hold a unit under an id that show rows get too | types; the units out stay within the stock (`OutWithinStock`); `OneRowPerShow`, `NoDanglingRows` without the help of a key; `NoOutRowDeleted`; the handlers implement `Loans` |
| `show_allocations_forms` | one request at a time, now with the forms that write quantities, and every way to change a status | what is inserted was free (`InsertWithinStock`); a row is put in use only after it was checked out, and returned only after it was out (`WorkflowRespected`) |
| `show_allocations_desk` | one request at a time, without status menu and failures | for a single unit, the status in `equipment` and the rows agree whenever nothing is being served |
| `show_allocations_migrated` | two requests at a time, three shows and rows, unique and foreign keys | types, also of a closure whose row another request changes or deletes; `OneRowPerShow`, `NoDanglingRows`: what the schema guarantees and the handlers alone do not; `OutBounded`: overlapping checkouts put out at most the stock once for each request |
| `server` | `Server` with the constants of `MCServer`: two requests, or two tabs, of one part at a time | what the other handlers, the session and the cache promise, under every interleaving but those that a property names |
| `equipment` | `EquipmentParts` with those of `MCEquipment`: the row of an item, its forms, the pool, the start of the server, the lists | the same for these, and the liveness of the pool |
| `add_blind`, `checkout_race`, `remove_race`, `returned_again`, `short_row`, `chosen_status` | the smallest instance of each | a property that a message or comment of the code states, and the code breaks |

For the desk the split is the result: one request at a time its checks are right;
as soon as two requests overlap, what is left is types, what the schema's keys
enforce, and that each request puts out no more than the stock beside what it saw
(`OutBounded`): two requests at a time can hand out two units of one, and no
third. For the other parts two requests always overlap, and a property names
the overlaps it excepts (`contended`, `crossed`, `outrun`, `doubtful`, `missed`,
`astray`, ...). A few except what one request alone can do: write an id that
names nothing, place units after a SELECT that failed (`guessed`), change a
password and report an error (`Untold`), store a number sent with blanks, store
another value than was sent (`replaced`). Each exception is a finding in itself:
it says how the promise is broken, and that no other step of the model breaks it.
The variables that record them decide nothing the program does; only `missed`
stops, in the model, the arrival of requests once two of them have overlapped
(`Bound`).

Properties of `server`:

| property | what it says |
|---|---|
| `OneDefault`, `OwnSearchesOnly` | a user has one default search, unless two of his requests for one overlapped; no step touches a search of a user without a request |
| `NamesDiffer`, `StorageExists`, `ItemHasPlace` | names of categories and of types differ for the collation, thanks to the unique key; default storages exist and differ, thanks to foreign keys; an item's location exists unless the item moved there during the deletion, or PUT or POST was sent an id that named none |
| `RecordsServed`, `ReferenceExists` | a listed file can be downloaded unless a deletion was cut short; a reference image exists |
| `UsernamesDiffer`, `AdminRemains`, `ToldPasswordWorks` | names differ, an administrator remains, and a hashed password is the one last told, unless two requests met; or the last administrator gave up his role; or a reset failed after its UPDATE and told nobody since |
| `PlacedWithinStock`, `LogSaysWhere`, `ImplementsPlacements` | the units placed on a full count fit the stock, whatever was placed beside after a SELECT that failed, unless a row was inserted between the read and the insert of another; the last log entry is true unless two requests worked on the row or the entry was lost; the handlers implement `Placements` |
| `SerialsDiffer`, `ReportMatches`, `ExportsOwnRows` | serial numbers differ but after an overlap, an import by id or a POST that was sent the number with blanks; an import's counts match what it wrote; exports do not mix but in the same millisecond |
| `ActsAsShown` | a page's requests act for the user it shows, but for those sent after an impersonation began and before the effect set the header, and unless an answer to an earlier token of the tab came in since |
| `ChangesShown` | an open page shows the changes answered on it, unless the query is one of `KnownStale` or `NeverTold`, or its last request failed or was overtaken |

Properties of `equipment`:

| property | what it says |
|---|---|
| `Settled` | saving an item again changes neither its place nor its status: handlers and hooks agree, unless two requests wrote from the same row. After a show wrote the status past the hook, a location was renamed or a name was not found, one request that reads and saves the row is enough to make it so |
| `CreatedAsChosen`, `UntouchedSave` | a new item is created as chosen under "Allocate"; an untouched form changes nothing but the derived status |
| `ConnectionsAccounted`, `Answered` | no path loses a connection but a refused upload; every request ends |
| `ReportedComplete` | a script that reports success has made everything, unless it was once cut short and takes its first object for the whole, or is one of a pair that share a column |
| `ListsHonest` | a reported update was made, with the value sent unless the server replaced it; a copy is of the item picked, unless a dialogue was cancelled while its copy was made; the dashboard shows a list when a filter is set |

### Bounds

The runs of the desk take one item; two shows are enough to make two rows of it,
three rows one more after a removal. `show_allocations_migrated` has three shows,
so that one row more could be out than its two requests may put out; its requests
and shows are interchangeable (`Alike`). Items never meet in a formula of the code,
so a second item adds only interleavings of things that do not touch.
`MaxQuantity` bounds the quantities of requests and of the stock; with 2, an item
may have one unit (where statuses exclude each other) or two (where quantities
are added up), with or without an installed part, and requests may be for less
than, exactly and more than what is free. `MaxRows` bounds the rows ever
inserted. Every stock and every installed part up to the bound is an initial
state.

`MCServer` serves two requests, as every check-then-act of the code is broken by
two already, and takes the smallest tables in which they can collide: two users
and two searches; two entries of a list, with names of which two are the same
for the collation; three objects, items and blobs together (an item with two
files, two items with one); two users, names and secrets, the second request one
that changes names; one unit and two rows at two locations, beside a show's row
or none (every kind of step of `Placements` occurs with two rows; that
overlapping requests place no more than the stock once for each needs a third
row to say anything, and is proved, not run); two items, two numbers, one of
which is the other with a blank before it, four import files that create,
update, collide and fail, two milliseconds; two people and two tokens, so that
each tab can have changed hands once; any one key of the cache with one change
on its way (`MaxWrites`). Slots, tabs and locations are interchangeable where
nothing compares them (`Symmetric`), and there is no liveness property in that
run.

`MCEquipment` has two slots for the row, of which the second moves the item; one
unit, two listed places, one of which is renamed to Lager, the only name the
code looks at, and back, and the same names typed by hand; requests that have
overlapped are finished and no others arrive, because `Settled` says nothing of
the row after that (`Bound`); one edit to a form (`MaxEdits`), after which the
form may be filled again and edited again; two connections for two requests (the
code: 5), the smallest pool in which requests that hold one and want a second
can block each other; every script of the repository alone and in the orders the
start runs them; two items, pages of one (the code: 20), so that there are items
on and off the page, two updates sent, and filters left out of the view whose
updates are followed, as no step of a dialogue reads them.

`MaxRows`, `MaxSearches`, `MaxEntries`, `MaxObjects`, `MaxItems`, `MaxUsers`,
`MaxTokens`, `MaxWrites`, `MaxBatches` stop a behaviour that the program would
continue, so deadlock is not checked; that requests do not wait for each other
forever is `Answered`.

### Fairness

Only `ConnectionPool` assumes any: weak fairness of `Serve` and `Step` of each
slot. The pool of Sequelize grants a free connection or fires the acquire timer
of `config/database.js`, and the database answers a statement, if only with an
error. Nothing is assumed of clients. If the timer did not run for requests that
hold a transaction (the variant `TimesOut_Empty`), two of them would wait for
each other's connection for ever.

Every property of a passing run has a variant of the code (an operator marked
*variant* in the modules) under which it fails.

## Proofs

Eight modules of proofs are checked by `tlapm` without any unproved step. Every
safety and action property of the passing runs is a theorem. The runs show it
for the bounds above, the theorem for every value of the constants: any number
of items, rows, units, users, requests in service, tabs, connections, and any
bound where the module has one.

What is assumed is named where the constants are declared, and TLC evaluates it
in the runs: `TablesAssumption` and `HandlersAssumption` (finitely many items,
quantities are positive integers, location rows are rows), `ServerAssumption`
(bounds are natural numbers; the set-up's user has a name and a secret; a serial
number without its blanks is one, or none; an import file is a sequence with at
least one record) and `EquipmentAssumption` (no place has the id that stands for
NULL; names of places, old and new, are texts, and a new one is not empty; what
the new-item page offers is a listed place or site; there are finitely many
requests and connections; a plan is one of those `Migrations` lists). `SetUp` and
`PlacesSetUp` state the same for two modules by themselves.

Each argument has the same form. The property is seldom inductive, since the
handlers write on the strength of something read one or several statements
earlier. The inductive invariant says of each closure what it may still rely on;
one lemma per action shows that this is kept for the request that steps and for
all others, and that the property follows.

### The desk: `ShowAllocations_proofs`

| theorem | for | from |
|---|---|---|
| `TypeCorrect` | any requests | `TypeOK`, with `RequestOK`: what a request past its checks carries |
| `KeysHold` | any requests, `MigratedSchema` | the keys guard the insert; deleting a show removes its rows |
| `NoDanglingRowsLeft` | `MigratedSchema` or `OneAtATime` | `KeysHold`, or `SerialInv` |
| `WorkflowHolds`, `OutRowsStay` | `OneAtATime` | `SerialInv` |
| `OutCorrect` | `OneAtATime`, `ValidatedOnly` | `DeskInv` |
| `InsertsFit` | `OneAtATime`, no failing statement | `SerialInv` and `SumsCurrent` |
| `SingleItemsAgree` | `OneAtATime`, `ButtonsOnly`, no failing statement | `SingleInv` |
| `DeskImplemented` | `OneAtATime`, `ValidatedOnly` | `DeskInv` and `SerialInv` |
| `OverlapBounded` | any requests, `ValidatedOnly` | `StakeInv` |

`OneAtATime` says that any two slots are the same, `ValidatedOnly` that no form
writes quantities, `ButtonsOnly` that the status menu is not used either. None of
them is for convenience: `checkout_race`, `remove_race`, `short_row` and
`add_blind` are runs without one of them, and TLC finds the property, or one it
rests on, violated.

- `SerialInv` is `TypeOK` and `ReadsFresh`: the row a request works on is as it
  read it. With one slot nothing steps in between. From it, a step of the tables
  has one of five forms (`TableStep`): nothing is written, a row is added, changed
  or removed, a show is removed with its rows. The workflow and the rows that are
  out are looked at in these five forms instead of in every handler.
- `DeskInv` is `TypeOK`, `OutWithinStock` and `ReadsCurrent`: the row is as the
  request read it, which with one slot is so because nothing steps in between,
  and a request past `ValidateOthers` has a row that fits the stock beside everything out. The code's
  own test establishes it: the test counts the rows of both tables, so what it
  admits fits the show rows alone, also when the shared id hides a location's row.
  That an UPDATE adds at most the quantity of its row to the units out
  (`SumAfterUpdate` and the lemmas before it) is counting in finite sets.
- `SumsCurrent` says that the two SUMs an insert is decided by are those of the
  tables as they are; what the insert adds to `Unavailable` is what it asked for.
- `SingleInv` adds to `SerialInv` that an item of one unit has one row out
  (`OneOut`), that its status agrees with the rows except between the two writes
  of a handler (`StatusAgrees`), and what the closure between them will write
  (`MovesFit`).
- `StakeInv` is what survives when requests overlap. At stake (`AtStake`) are the
  units that are out and those of rows that a request has validated and is about
  to hand out. A row never needs more than the stock (`RowWithinStock`), and a
  closure knows item and quantity of its row as they are (`ClosuresKnow`), since
  none of these endpoints changes them. When a request passes its check, the
  units out and its own fit the stock, and what the other requests are about to
  hand out is at most the stock for each: all of them together are within the
  stock once per request (`StakeBounded`).
- `DeskImplemented` is the refinement: initial states map to initial states of
  `Loans`, and each form of `TableStep` is a loan handed out within the stock, one
  taken back as a whole, or a stutter.

### The other handlers, the session and the cache: `Server_proofs`

| theorems | inductive invariant | what it adds to the property |
|---|---|---|
| `ServerOneDefault`, `ServerOwnSearches` | `SearchInv` | two requests for a default of one user, neither `contended`, are one; a request that has cleared finds nothing set again |
| `ServerNames`, `ServerStorages`, `ServerItemPlace` | `ListInv` | a location that one request looked up while another counts its uses, or that was written without being there, is in `moved`; any other that was looked up is still there at the write; only locations are default storages |
| `ServerRecords`, `ServerReferences` | `FileInv` | a blob that is stored and not recorded yet is known to one request only; a deletion found its files in the table; a record never moves to another item |
| `ServerUsernames`, `ServerAdmin`, `ServerPasswords` | `AccountInv` | a name about to be written is free or `contended`; until two requests have met there is one at a time, and the administrator who sent it and the passwords it read are still there, and what a user was told, if anything, is what his password holds |
| `ServerStock`, `ServerLog` | `PlaceInv` | what a request has found free by a full count still is beside the rows placed by one, unless it was outrun; what it will log is where the row is |
| `ServerSerials`, `ServerReports` | `StockInv` | a serial number that was looked up as it is about to be written is still free, or `contested`, as is one that was looked up with blanks; an import at work on a record has counted the rows and entries written for those before it |
| `ServerExports` | `TempInv` | the file of a millisecond belongs to one export, unless the millisecond is shared |
| `ServerActsAsShown` | `SessionInv` | but for an alert, or a token whose effect has not run, the header is the token of the tab; a new token is one that no tab and no request holds |
| `ServerPlacements`, from `PlacementsKept` | `BoundInv` | below |
| `ServerChangesShown` | `CacheInv` and `ShownInv` | below |
| `ServerTypes` | all of them | |

The first five parts have their lemmas in modules of their own, of which
`Server_proofs` takes an instance each; `PartSteps` says that a step of the
server is one of the part that was chosen.

`BoundInv` adds to `PlaceInv` that the units placed by full counts and those that
requests have so found free and not yet inserted are within the stock once per request
(`AllWithin`): `allocateEquipment` reads what is free before every insert, so a
request counts either as what it is about to insert, or not at all. Of it
`OverlappingPlaces` states the part that a reader of the table sees. The
refinement (`BookStarts`, `BookStep`) follows: an insert starts a placement that
fits (`InsertPlaces`), the commit of `POST /equipment/:id/allocations` starts its
own and ends all others (`CommitReplaces`; that all rows of the item are ended is
what the variant `AllReturned_None` breaks), a return ends one or repeats itself
(`ReturnEnds`), a move keeps the units and does not bring an ended one back
(`UpdateMoves`).

`ShownInv` explains when an entry of the cache may lack a change that was
answered. `LacksTouched`: an entry lacks only changes that write what its query
reads. `WriteUntold`: a change on its way is not yet told. `OldAnswer`: an answer
under way that lacks an answered change is noted as overtaken. `OldEntry`: an
entry that lacks one failed, was overtaken, is being fetched, or nobody looks at
it and it will be read again before anybody does. What the argument needs of the
code's tables is `TouchedOrTold`: a change that writes what a query reads
tells its key, or is in `KnownStale` or `NeverTold`, or is made on a page that
does not show it or is left at once, and the next page that does asks again. It
is proved case by case from the tables, so a page or a change added to them
without its invalidation makes the proof fail.

### The row, the forms, the pool, the start and the lists: `Equipment_proofs`

| theorem | inductive invariant | what it adds to the property |
|---|---|---|
| `RowsSettled` | `RecordInv` | what `missed` says: while it is "nothing" the row is a fixed point of the hook, and so is what a handler is about to save, merged into the row; after a write past the hook, so is what a request that has read the row since is about to save; until two overlap, there is one request at a time |
| `CreationsAsChosen`, `SavesOfNothing` | `FormInv` | the row is a fixed point of the hook; an edit form without edits is filled from its row; the body on its way is the form its choice implies, or the unedited one |
| `ConnectionsKept` | `PoolInv` | free, lost and held connections add up to `MaxConnections`; a request holds at most one for its transaction and one for its statement |
| `PagesHonest` | `PagesInv` | an item of a batch that was answered has the value sent, or is in `replaced` or `touched`; which dialogue is open fits what is ticked, asked for and being loaded |
| `ReportsComplete` | `ReportInv` | below |
| `EquipmentTypes` | all of them, and `StartInv` | a statement left is one of the script at the head of the queue |

`CreatedAsChosen` and `UntouchedSave` are action properties: the invariant gives
the body that is sent, and the handler's own step (`Post`, `PutRow`, then the
hook) is computed on it column by column. The sum in `PoolInv` is over the slots,
by the cardinality of sets of pairs, so a step of one slot changes one term.

`ReportInv` says that a script which is running has made what it is for, or has a
statement left that will, after the last one that takes it away (`Running`,
`PutsBack`); that a reported script is whole but for what it is making anew
(`Ahead`), or was cut short and cannot resume; and that the same goes for a script
that would skip itself. The steps are proved for any scripts of two properties: in
each, what a statement drops a later one makes again (`Regular`), and no statement
of a script touches what another of its plan needs or looks for (`Apart`). That the
scripts of the repository have them is proved script by script (`KeepingScripts`,
`Repairs`, `CustomLocation`, `Seeding`, `Regions`) and collected for the plans in
`PlansRegular`; a script that dropped something for good, or took from the next,
would fail there. The plans of `Rivalling` do, and are excepted in the property.

### Only model-checked

- `Answered`: liveness under fairness, and `ENABLED`, are out of the prover's
  reach.
- What functions defined by recursion compute for every input.

## Disagreements found

Each is a run that TLC refutes, with the line it contradicts in `PROJECT.json`.

- `checkout_race`: two rows of a single unit are both checked out. Each request
  validates before the other's UPDATE.
- `remove_race`: a row is checked out between the status test of its removal and
  the DELETE, and its units are out with no row that says so.
- `add_blind`: one request alone adds units that are taken, because a failed SUM
  counts as no allocation.
- `short_row`: the edit form makes a row `allocated` with fewer units than it
  needs, because the old quantities are validated and the new ones written.
- `returned_again`: a returned row is checked out again without passing
  `requested`; nothing enforces `allowedTransitions`.
- `chosen_status`: the edit page promises to keep the status its user picks
  (`EditEquipmentModern.jsx:323`), and always sends the listed place along, from
  which `PUT /equipment/:id` derives another.

## Seen on the way

Disagreements of code with itself that were met while modelling and are not runs
of their own. Where a module contains the behaviour, it is named.

Desk: two adds leave two rows of one item in a show (schema without keys) or take
the last unit twice; a row is put in use after it was returned, by two
overlapping requests; units out exceed the stock after the quantity form changes
a row that is out, since quantities are validated only when the status changes.
`requested` counts as unavailable in `getEquipmentAvailability` and as available
in `checkQuantityAvailability`; the comment at `inventoryService.js:11` agrees
with the latter only.

Other handlers:

- `PUT /equipment/:id`, and `POST /equipment` of an installed item, write a
  `location_id` that names nothing as it was sent; no key refuses it
  (`ReferenceLists`). `PATCH` of a location or a category answers 200 for an id
  that is not found.
- A SELECT that fails in `getEquipmentAvailability` lets one request place units
  that are taken (`LocationAllocations`), as it lets the desk add them.
- Both resets of a password read the user again after the UPDATE has committed; a
  failure there answers 500, and the password is changed (`Accounts`).
- `POST /equipment` looks a serial number up as it was sent and stores it trimmed:
  " X" beside an item "X" makes two of one number (`ImportExport`).
- Checkout and return of a show write `equipment.status` past the hook, and
  `PUT /locations/:id` leaves the old name in `equipment.location`; place and
  status of an item may disagree until a request saves it (`EquipmentRecords`).
- `POST /equipment/:id/allocations` with an empty list returns only rows of type
  `location`, so "Clear all" leaves the others (`LocationAllocations`).
- `PUT /inventory/equipment/:id/allocations` stops at a name it never imported,
  outside any `try`, and ends the process (`ConnectionPool`).
- The hook of `models/Equipment.js` (lines 254, 359) looks up an installation's
  location through a name that is not in scope; the text stays as it is
  (`EquipmentRecords`). A PUT without a quantity sets it to 1, which the dialogue
  for the picture does every time.
- Deleting a file in R2 overwrites it with an empty object
  (`storageService.js:248`), deleting an item there leaves its blobs; a reference
  image is recorded only if its file name contains `referenceImage`
  (`equipment.js:1044`); a PUT with further files reads `file.path`, which memory
  storage does not set (`FileStore`).
- An import that names an item by its id may give it a serial number that another
  item has (`ImportExport`).
- A start killed between `inventory_allocation` and `equipment_status_log` leaves
  the second missing on every later start, which reports success; two scripts for
  `category_id` each skip on the other's column, so its foreign key is never
  made; `run-custom-location-migration` uses a clause MySQL does not have; two
  scripts print "completed" over a swallowed error (`Migrations`).

Client:

- A second page of a list is never loaded: the server answers `currentPage`, the
  client looks for `page`. Category and place filters are dropped by
  `getEquipment`, date filters by the server. Saved searches of the dashboards
  are sent as `filters`, which the server refuses for want of `search_params`.
- A row's own "Update status" acts on the ticked rows instead, when there are
  any. After a batch that partly failed its other requests go on, may overwrite
  a retry, and nothing is invalidated. The timer of two seconds that closes a
  dialogue may close the next one. The copy dialogues cannot be closed while
  loading or after an error. A copy dialogue cancelled while posting can make the
  one after the next copy the wrong item (all `EquipmentLists`).
- On the page of a new item the default storage place comes back over a place
  typed by hand; "show" under "Allocate" makes no row of a show. The edit page
  opens empty when the item is in the cache, until it is fetched again; clearing
  a listed place is not sent; the location of an installation is not loaded
  (`EquipmentForms`).
- The batch dialogue of the status reports the value it sent, also where the hook
  stored another (`EquipmentLists`).
- The first queries after an impersonation began carry the administrator's token,
  since the header is set by an effect that runs after theirs (`ClientSession`).
- The answer to `/me` takes the impersonation banner away, and may show an
  earlier user (`ClientSession`). The cache is not cleared at logout. Query keys
  with a number never match those with a text
  (`AllocateToShowModal.jsx:176`, `InstallationManagementModal.jsx:45`); two
  queries are never invalidated; errors of some lists show as empty lists
  (`QueryCache`).

## What is not modelled

- Dates, notes, names and the text of warnings: no write decides on them. The
  own fields of a show (`POST` and `PUT /shows`): no other handler reads them.
- Read-only handlers, except where a page's cache depends on them (`QueryCache`).
- The quantity of an item while the desk works on it: `EquipmentRecords` changes
  it, `ShowAllocations` takes every quantity as given. Nothing in the code keeps
  the quantity above what is out or installed (`equipment.js:639`), so there is
  no promise to check.
- `routes/database.js`, backup and restore by external programs; signed URLs,
  ranges and media types of downloads; issuing and verifying tokens, which is a
  library's.
- Forms of the other pages of the client (shows, users, reference lists,
  import): they appear as the requests that may arrive. Layout, formatting,
  charts and printing. Pages no route leads to (`AdvancedSearch`,
  `LocationChangeModal`, `QuantityLocationModal`, `StatusManager` and the older
  variants of the equipment pages).
- In `EquipmentLists` nobody else writes the rows, and fetching a list neither
  fails nor takes time; both are in `QueryCache`. In `EquipmentForms` a request
  is answered in one step; overlaps are in `EquipmentRecords`.
- Isolation inside one statement is MySQL's: a SELECT sees the committed state,
  and two statements of one handler may see different ones. The collation is
  taken to fold case, as the default of the schema does.
- `src/backend` is a stale copy of part of the server that nothing starts;
  `src/dist` is generated.
