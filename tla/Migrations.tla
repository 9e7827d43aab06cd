------------------------------ MODULE Migrations ------------------------------
(***************************************************************************)
(* startServer of index.js and the scripts that change the schema: what    *)
(* each creates and in which order, what it looks for before it starts,    *)
(* and what is left when it fails or is killed half way.  MySQL commits    *)
(* every DDL statement at once, also those that a script puts into a       *)
(* transaction.                                                            *)
(*                                                                         *)
(* One plan is carried out on one database: the scripts of different plans *)
(* make different objects.                                                 *)
(***************************************************************************)
EXTENDS Integers, FiniteSets, Sequences

CONSTANTS Plans        \* the plans that are tried: a set of names of Plan

VARIABLES
    plan,        \* what is carried out on this database, again and again
    schema,      \* the objects that exist: tables, columns, keys, rows
    queue,       \* scripts still to run in this attempt, the first one running
    todo,        \* statements left of the script that is running
    server,      \* "down", "starting", "listening", or "silent": up without a port
    cut_short,   \* scripts that once stopped between two of their statements
    reported     \* scripts whose last run said that it had succeeded

migrationVars == <<plan, schema, queue, todo, server, cut_short, reported>>
-----------------------------------------------------------------------------
(***************************************************************************)
(* A statement creates an object if it is missing ("ensure"), fails if it  *)
(* is there ("add"), removes it if it is there ("drop") or fails           *)
(* ("remove"), needs it ("verify"), or cannot succeed ("impossible").  A   *)
(* tolerated failure is logged and the script goes on.                     *)
(***************************************************************************)
Ensure(o) == [how |-> "ensure", objects |-> {o}, tolerated |-> FALSE]
Add(o) == [Ensure(o) EXCEPT !.how = "add"]
Drop(o) == [Ensure(o) EXCEPT !.how = "drop"]
Remove(o) == [Ensure(o) EXCEPT !.how = "remove"]
Verify(o) == [Ensure(o) EXCEPT !.how = "verify"]
Impossible(o) == [Ensure(o) EXCEPT !.how = "impossible"]
Tolerated(s) == [s EXCEPT !.tolerated = TRUE]
Together(s, o) == [s EXCEPT !.objects = @ \cup {o}]      \* one ALTER TABLE for both
AllOf(How(_), objects) == [i \in DOMAIN objects |-> How(objects[i])]

(* A script does nothing, successfully, if all of `skip_if` exists and     *)
(* skip_if is not empty.                                                   *)
Script(skip_if, statements) == [skip_if |-> skip_if, statements |-> statements]

inventory ==
    Script({"inventory_allocation"},
           <<Ensure("inventory_allocation"), Ensure("equipment_status_log"),
             Tolerated(Ensure("equipment.quantity")), Tolerated(Ensure("equipment.status")),
             Tolerated(Ensure("equipment_availability")), Tolerated(Ensure("location_inventory")),
             Verify("inventory_allocation"), Verify("equipment_status_log")>>)

(* The filter of the older version drops every statement that a comment    *)
(* precedes, the CREATEs among them; PREPARE then has nothing to prepare.  *)
inventory_from_sql == Script({"inventory_allocation"}, <<Impossible("equipment.quantity")>>)

description == Script({"locations.description"}, <<Add("locations.description")>>)

installationColumns ==
    <<"installation_type", "installation_location", "installation_date", "installation_notes",
      "maintenance_schedule", "last_maintenance_date", "next_maintenance_date">>
installation == Script({}, AllOf(Add, installationColumns))
uninstallation ==           \* DROP TYPE is not MySQL: the last statement fails
    Script({}, AllOf(Remove, installationColumns) \o <<Impossible("enum type")>>)

installation_quantity ==
    Script({"equipment.installation_quantity"},
           <<Add("equipment.installation_quantity"), Ensure("units of installed items")>>)
no_installation_quantity ==
    Script({}, <<Together(Drop("equipment.installation_quantity"), "units of installed items")>>)

installation_location_id ==
    Script({"equipment.installation_location_id"},
           <<Add("equipment.installation_location_id"), Add("fk_equipment_installation_location")>>)

quantity ==
    Script({"equipment.quantity"},
           <<Add("equipment.quantity"), Ensure("status unavailable"),
             Ensure("items without units unavailable")>>)

locations ==
    Script({"locations"}, <<Ensure("locations"), Tolerated(Ensure("equipment.location_id"))>>)

equipment_types == Script({"equipment_types"}, <<Add("equipment_types"), Ensure("eight types")>>)

shows_tables == Script({}, <<Ensure("shows"), Ensure("show_equipment")>>)

roles == Script({"users.role"}, <<Ensure("users.role"), Ensure("users of role basic")>>)

circular_reference ==
    Script({"fk_equipment_reference_image"},
           <<Drop("equipment_ibfk"), Add("fk_equipment_reference_image")>>)

(* Three files for the same, over three ways to connect.  A plan is one of *)
(* them, as each takes away what another has made before it makes its own. *)
db_constraints ==
    Script({}, <<Drop("equipment_ibfk"), Drop("fk_equipment_reference_image"),
                 Add("fk_equipment_reference_image")>>)
db_sequelize == db_constraints
db_direct == db_constraints

(***************************************************************************)
(* Scripts of one statement.  Those that log an error and go on report     *)
(* nothing then, though the file that runs them says "completed".          *)
(***************************************************************************)
category == Script({"equipment.category"}, <<Add("equipment.category")>>)
category_id ==
    Script({"equipment.category_id"}, <<Together(Add("equipment.category_id"), "fk_equipment_category")>>)
category_column == Script({"equipment.category_id"}, <<Add("equipment.category_id")>>)
location_column == Script({"equipment.location_id"}, <<Add("equipment.location_id")>>)
thumbnails == Script({}, <<Add("files.thumbnail_path")>>)
no_thumbnails == Script({}, <<Remove("files.thumbnail_path")>>)
categories == Script({"equipment_categories"}, <<Add("equipment_categories")>>)
saved_searches == Script({"saved_searches"}, <<Add("saved_searches")>>)
addresses == Script({"locations.street"}, <<Together(Add("locations.street"), "locations.city")>>)
serial_optional == Script({}, <<Ensure("serial_number nullable")>>)
serial_required == Script({}, <<Drop("serial_number nullable")>>)

(* ADD COLUMN IF NOT EXISTS is not MySQL: the script ends at its first     *)
(* statement.                                                              *)
custom_location ==
    Script({}, <<Impossible("inventory_allocation.custom_location"),
                 Ensure("inventory_allocation.location_id nullable"),
                 Drop("location_inventory"), Add("location_inventory")>>)

(* sync({ force: true }) drops every table, then the defaults are made.    *)
seedObjects == <<"admin", "equipment types", "locations", "categories", "equipment", "shows">>
seed == Script({}, AllOf(Drop, seedObjects) \o <<Ensure("tables")>> \o AllOf(Ensure, seedObjects))

Scripts ==
    [inventory |-> inventory, inventory_from_sql |-> inventory_from_sql,
     description |-> description, installation |-> installation,
     uninstallation |-> uninstallation, installation_quantity |-> installation_quantity,
     no_installation_quantity |-> no_installation_quantity,
     installation_location_id |-> installation_location_id, quantity |-> quantity,
     locations |-> locations, equipment_types |-> equipment_types, shows_tables |-> shows_tables,
     roles |-> roles, circular_reference |-> circular_reference,
     db_constraints |-> db_constraints, db_sequelize |-> db_sequelize, db_direct |-> db_direct,
     category |-> category, category_id |-> category_id,
     category_column |-> category_column, location_column |-> location_column,
     thumbnails |-> thumbnails, no_thumbnails |-> no_thumbnails, categories |-> categories,
     saved_searches |-> saved_searches, addresses |-> addresses,
     serial_optional |-> serial_optional, serial_required |-> serial_required,
     custom_location |-> custom_location, seed |-> seed]

(* The scripts that a plan may run, and those that a start of the server   *)
(* runs, one after the other.                                              *)
Plan ==
    [production |-> {}, mysql |-> {}, older |-> {"inventory_from_sql"}, sqlite |-> {},
     installing |-> {"installation", "uninstallation"},
     counting |-> {"installation_quantity", "no_installation_quantity"},
     placing |-> {"installation_location_id"}, units |-> {"quantity"}, rooms |-> {"locations"},
     types |-> {"equipment_types"}, showing |-> {"shows_tables"}, ranks |-> {"roles"},
     pictures |-> {"circular_reference"}, constraints |-> {"db_constraints"},
     constraints_sequelize |-> {"db_sequelize"}, constraints_direct |-> {"db_direct"},
     grouping |-> {"category", "categories"}, linking |-> {"category_id", "category_column"},
     locating |-> {"location_column", "addresses"}, previews |-> {"thumbnails", "no_thumbnails"},
     searching |-> {"saved_searches"}, numbering |-> {"serial_optional", "serial_required"},
     custom |-> {"custom_location"}]

(* Two scripts that undo each other, or make one column with a key and     *)
(* without, and take the other's for their own                             *)
Rivalling == {"installing", "counting", "previews", "numbering", "linking"}

StartRuns ==
    CASE plan = "mysql" -> <<"inventory", "description">>
      [] plan = "sqlite" -> <<"seed">>
      [] OTHER -> << >>

MigrationTypeOK ==
    /\ plan \in Plans
    /\ \A s \in DOMAIN queue : queue[s] \in DOMAIN Scripts
    /\ server \in {"down", "starting", "listening", "silent"}
    /\ cut_short \cup reported \subseteq DOMAIN Scripts

Init ==
    /\ plan \in Plans
    /\ schema = IF plan \in {"pictures", "constraints"} THEN {"equipment_ibfk"} ELSE {}
    /\ queue = << >> /\ todo = << >>
    /\ server = "down"
    /\ cut_short = {} /\ reported = {}
-----------------------------------------------------------------------------
Statements(s) == Scripts[s].statements
Skips(s) == Scripts[s].skip_if # {} /\ Scripts[s].skip_if \subseteq schema

Begin(scripts) ==
    /\ queue' = scripts
    /\ todo' = IF scripts = << >> \/ Skips(Head(scripts)) THEN << >> ELSE Statements(Head(scripts))

(* Some script is run by hand. *)
RunScript(s) ==
    /\ queue = << >> /\ s \in Plan[plan]
    /\ Begin(<<s>>)
    /\ UNCHANGED <<plan, schema, server, cut_short, reported>>

(* testConnection fails: the error is logged and no port is opened. *)
Start ==
    /\ queue = << >> /\ server = "down"
    /\ \/ Begin(StartRuns) /\ server' = "starting"
       \/ UNCHANGED <<queue, todo>> /\ server' = "silent"
    /\ UNCHANGED <<plan, schema, cut_short, reported>>

Succeeds(s) ==
    CASE s.how = "add" -> s.objects \cap schema = {}
      [] s.how \in {"verify", "remove"} -> s.objects \subseteq schema
      [] OTHER -> s.how # "impossible"

Execute ==
    LET s == Head(todo) IN
    /\ todo # << >>
    /\ Succeeds(s)
    /\ schema' = CASE s.how \in {"ensure", "add"} -> schema \cup s.objects
                   [] s.how \in {"drop", "remove"} -> schema \ s.objects
                   [] OTHER -> schema
    /\ todo' = Tail(todo)
    /\ IF Tail(todo) = << >> THEN reported' = reported \cup {Head(queue)} ELSE UNCHANGED reported
    /\ UNCHANGED <<plan, queue, server, cut_short>>

SkipFailed ==
    /\ todo # << >> /\ Head(todo).tolerated
    /\ todo' = Tail(todo)
    /\ IF Tail(todo) = << >> THEN reported' = reported \cup {Head(queue)} ELSE UNCHANGED reported
    /\ UNCHANGED <<plan, schema, queue, server, cut_short>>

Half == IF todo = << >> \/ todo = Statements(Head(queue)) THEN {} ELSE {Head(queue)}

(* A statement fails, for a reason of its own or of the database, and the  *)
(* script ends; a start goes on with the next script, except that an error *)
(* while seeding ends it without a port.                                   *)
StopOnError_GoOn == FALSE    \* variant: every failure is tolerated
StopOnError == ~Head(todo).tolerated

Throw ==
    /\ todo # << >>
    /\ IF StopOnError
         THEN /\ cut_short' = cut_short \cup Half
              /\ reported' = reported \ {Head(queue)}
              /\ IF Head(queue) = "seed"
                   THEN Begin(<< >>) /\ server' = "silent"
                   ELSE Begin(Tail(queue)) /\ UNCHANGED server
         ELSE /\ todo' = Tail(todo)
              /\ reported' = IF Tail(todo) = << >> THEN reported \cup {Head(queue)} ELSE reported
              /\ UNCHANGED <<queue, server, cut_short>>
    /\ UNCHANGED <<plan, schema>>

(* The next script of a start begins, with the statements that the schema  *)
(* now calls for; after the last one the server listens.                   *)
Proceed ==
    /\ queue # << >> /\ todo = << >>
    /\ Begin(Tail(queue))
    /\ reported' = IF Skips(Head(queue)) THEN reported \cup {Head(queue)} ELSE reported
    /\ UNCHANGED <<plan, schema, server, cut_short>>

Listen ==
    /\ queue = << >> /\ server = "starting"
    /\ server' = "listening"
    /\ UNCHANGED <<plan, schema, queue, todo, cut_short, reported>>

(* The process is killed, or the container stopped. *)
Kill ==
    /\ queue # << >> \/ server # "down"
    /\ cut_short' = IF queue = << >> THEN cut_short ELSE cut_short \cup Half
    /\ reported' = IF todo = << >> THEN reported ELSE reported \ {Head(queue)}
    /\ queue' = << >> /\ todo' = << >>
    /\ server' = "down"
    /\ UNCHANGED <<plan, schema>>

Next ==
    \/ \E s \in DOMAIN Scripts : RunScript(s)
    \/ Start \/ Execute \/ SkipFailed \/ Throw \/ Proceed \/ Listen \/ Kill

Spec == Init /\ [][Next]_migrationVars
-----------------------------------------------------------------------------
(* What a script is there for *)
Required(s) ==
    UNION {t.objects : t \in {u \in {Statements(s)[i] : i \in DOMAIN Statements(s)} :
        u.how \in {"ensure", "add", "impossible"} /\ ~u.tolerated}}

(* It can be repeated after any failure: what it skips itself for is the   *)
(* last thing it makes, or it skips nothing and nothing of it is in its    *)
(* own way.                                                                *)
Resumes(s) ==
    Scripts[s].skip_if = {} \/ Scripts[s].skip_if = Required(s)

(* A script that says it has succeeded, also because it found its work     *)
(* done, has made all that it is there for, unless it once stopped half    *)
(* way and takes the first object it makes for the whole: those scripts    *)
(* (the inventory tables of every start with MySQL among them) never make  *)
(* the rest.                                                               *)
ReportedComplete ==
    \A s \in reported :
        queue = << >> /\ server # "starting" =>
            \/ Required(s) \subseteq schema
            \/ s \in cut_short /\ ~Resumes(s)
            \/ plan \in Rivalling
=============================================================================
