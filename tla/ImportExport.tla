----------------------------- MODULE ImportExport -----------------------------
(***************************************************************************)
(* Serial numbers, which nothing but the handlers keeps apart (the model   *)
(* of the item has no unique key), the import that finds items by them,    *)
(* and the export: importExportService.js, the lookups of POST and PUT     *)
(* /equipment, and the entries of equipmentLogService.js.                  *)
(*                                                                         *)
(* An item is its serial number here.  The number that import makes up for *)
(* a record without one, of the time and a random number, is None: it is   *)
(* nobody else's.                                                          *)
(***************************************************************************)
EXTENDS Integers, FiniteSets, Sequences

CONSTANTS
    Serials,        \* serial numbers that requests mention
    Trimmed(_),     \* a number without the blanks around it, or None
    MaxItems,       \* bound: items ever inserted
    Files,          \* files that are imported: sequences of records
    Stamps,         \* values of Date.now() when an export starts
    IoHandlers      \* requests served at the same time

VARIABLES
    items,          \* the serial number of every item
    last_item,      \* AUTO_INCREMENT of equipment
    io_calls,       \* what the request in each slot keeps
    contested,      \* numbers written between another's lookup and write, or not looked for
    temp,           \* the files in server/temp: whose rows each holds
    same_stamp      \* exports running that share their millisecond with another

ioVars == <<items, last_item, io_calls, contested, temp, same_stamp>>

None == "none"
NoItem == 0
NoCall == [pc |-> "none"]

IoTypeOK ==
    /\ DOMAIN items \subseteq 1..last_item /\ last_item \in 0..MaxItems
    /\ items \in [DOMAIN items -> Serials \cup {None}]
    /\ contested \subseteq Serials
    /\ temp \in [DOMAIN temp -> IoHandlers] /\ DOMAIN temp \subseteq Stamps

Init ==
    /\ items = [i \in {} |-> None] /\ last_item = 0
    /\ io_calls = [h \in IoHandlers |-> NoCall]
    /\ contested = {}
    /\ temp = [s \in {} |-> s] /\ same_stamp = {}
-----------------------------------------------------------------------------
At(h, pc) == io_calls[h].pc = pc
Become(h, c) == io_calls' = [io_calls EXCEPT ![h] = c]
Start(h, c) == io_calls[h] = NoCall /\ Become(h, c)
Answer(h) == Become(h, NoCall)

ItemsWith(serial) == {i \in DOMAIN items : items[i] = serial}

(* The serial number that a request has looked up and will write. *)
Pending(g) ==
    IF \/ io_calls[g].pc \in {"insert", "save"}
       \/ io_calls[g].pc = "write" /\ ~io_calls[g].keeps
      THEN io_calls[g].serial ELSE None

(* A request that did not look for the number it writes: an import that    *)
(* found the item by its id, or a POST that was sent the number in blanks. *)
Unasked(c) ==
    \/ c.pc = "write" /\ c.by_id
    \/ c.pc = "insert" /\ c.asked # c.serial

Contest(h, serial, item) ==
    contested' = contested \cup
        {s \in {serial} \ {None} :
            \/ \E g \in IoHandlers \ {h} : Pending(g) = s
            \/ Unasked(io_calls[h]) /\ ItemsWith(s) \ {item} # {}}

Written(i, serial) ==
    items' = [j \in DOMAIN items \cup {i} |-> IF j = i THEN serial ELSE items[j]]
-----------------------------------------------------------------------------
(***************************************************************************)
(* POST and PUT /equipment: the serial number is looked up, if one is      *)
(* given, and written later; POST looks up what was sent and writes it     *)
(* trimmed.  The item's own row is read with the lookup, as only the       *)
(* answer 404 and the test that the number changed need it.  PUT leaves    *)
(* the number alone if none is sent.                                       *)
(***************************************************************************)
SerialFree_OwnItems(serial, item) ==    \* variant: PUT finds its own row and is content
    serial = None \/ item # NoItem \/ ItemsWith(serial) = {}
SerialFree(serial, item) ==
    serial = None \/ ItemsWith(serial) \subseteq {item}

PostLookup(h, sent) ==
    /\ Trimmed(sent) = None \/ SerialFree(sent, NoItem)
    /\ Start(h, [pc |-> "insert", asked |-> sent, serial |-> Trimmed(sent)])
    /\ UNCHANGED <<items, last_item, contested, temp, same_stamp>>

PostInsert(h) ==
    LET c == io_calls[h] IN
    /\ At(h, "insert") /\ last_item < MaxItems
    /\ last_item' = last_item + 1
    /\ Written(last_item + 1, c.serial)
    /\ Contest(h, c.serial, last_item + 1)
    /\ Answer(h)
    /\ UNCHANGED <<temp, same_stamp>>

PutLookup(h, i, serial) ==
    /\ i \in DOMAIN items
    /\ serial # items[i] /\ SerialFree(serial, i)
    /\ Start(h, [pc |-> "save", item |-> i, serial |-> serial])
    /\ UNCHANGED <<items, last_item, contested, temp, same_stamp>>

PutSave(h) ==
    LET c == io_calls[h] IN
    /\ At(h, "save")
    /\ IF c.item \in DOMAIN items
         THEN Written(c.item, c.serial) /\ Contest(h, c.serial, c.item)
         ELSE UNCHANGED <<items, contested>>
    /\ Answer(h)
    /\ UNCHANGED <<last_item, temp, same_stamp>>

Delete(h, i) ==
    /\ io_calls[h] = NoCall /\ i \in DOMAIN items
    /\ items' = [j \in DOMAIN items \ {i} |-> items[j]]
    /\ UNCHANGED <<last_item, io_calls, contested, temp, same_stamp>>
-----------------------------------------------------------------------------
(***************************************************************************)
(* POST /import-export/import, one record after the other: the item is     *)
(* looked up by the id and then by the serial number, inserted or updated, *)
(* and an entry is written to the log; an error of any of these goes into  *)
(* results.errors and the next record follows.  updateExisting is not used.*)
(***************************************************************************)
NextRecord(h, c) ==
    Become(h, IF Len(c.file) = 1 THEN NoCall
              ELSE [c EXCEPT !.file = Tail(@), !.pc = "find", !.item = NoItem, !.serial = None,
                             !.by_id = FALSE, !.keeps = FALSE, !.wrote = FALSE])

Blank(record) == record.serial = None /\ ~record.named

ImportStart(h, file) ==
    /\ Start(h, [pc |-> "find", file |-> file, item |-> NoItem, serial |-> None,
                 by_id |-> FALSE, keeps |-> FALSE, wrote |-> FALSE,
                 created |-> 0, updated |-> 0, errors |-> 0, rows |-> 0, unlogged |-> 0])
    /\ UNCHANGED <<items, last_item, contested, temp, same_stamp>>

ImportFindId(h) ==
    LET c == io_calls[h]
        record == Head(c.file)
        found == record.id \in DOMAIN items
    IN
    /\ At(h, "find")
    /\ IF Blank(record) THEN NextRecord(h, [c EXCEPT !.errors = @ + 1])
       ELSE Become(h, [c EXCEPT !.pc = IF found \/ record.serial = None
                                         THEN "write" ELSE "find_serial",
                                !.item = IF found THEN record.id ELSE NoItem,
                                !.by_id = found,
                                !.keeps = found /\ items[record.id] = record.serial,
                                !.serial = record.serial])
    /\ UNCHANGED <<items, last_item, contested, temp, same_stamp>>

ImportFindSerial(h) ==
    LET c == io_calls[h]
        found == ItemsWith(c.serial)
    IN
    /\ At(h, "find_serial")
    /\ \E i \in (IF found = {} THEN {NoItem} ELSE found) :
          Become(h, [c EXCEPT !.pc = "write", !.item = i, !.keeps = i # NoItem])
    /\ UNCHANGED <<items, last_item, contested, temp, same_stamp>>

(* update() writes the number if it differs from the one that was read; an *)
(* UPDATE of an item that has been deleted matches no row.                 *)
ImportWrite(h) ==
    LET c == io_calls[h]
        new == last_item + 1
        i == IF c.item = NoItem THEN new ELSE c.item
        matches == i \in DOMAIN items \cup {new}
    IN
    /\ At(h, "write")
    /\ c.item = NoItem => last_item < MaxItems
    /\ last_item' = IF c.item = NoItem THEN new ELSE last_item
    /\ IF matches /\ ~c.keeps THEN Written(i, c.serial) /\ Contest(h, c.serial, i)
       ELSE UNCHANGED <<items, contested>>
    /\ Become(h, [c EXCEPT !.pc = "log", !.item = i, !.wrote = matches,
                           !.rows = @ + (IF matches THEN 1 ELSE 0)])
    /\ UNCHANGED <<temp, same_stamp>>

(* The record is counted as updated if it has an id, whatever was done. *)
Counted_Always(c, logged) ==    \* variant: an entry that fails is ignored
    IF Head(c.file).id # NoItem THEN [c EXCEPT !.updated = @ + 1]
    ELSE [c EXCEPT !.created = @ + 1]
Counted(c, logged) ==
    IF ~logged THEN [c EXCEPT !.errors = @ + 1]
    ELSE IF Head(c.file).id # NoItem THEN [c EXCEPT !.updated = @ + 1]
    ELSE [c EXCEPT !.created = @ + 1]

(* The foreign key refuses an entry about an item that is gone. *)
ImportLog(h) ==
    LET c == io_calls[h] IN
    /\ At(h, "log")
    /\ \E logged \in {FALSE} \cup (IF c.item \in DOMAIN items THEN {TRUE} ELSE {}) :
          NextRecord(h, [Counted(c, logged) EXCEPT
              !.unlogged = @ + (IF c.wrote /\ ~logged THEN 1 ELSE 0)])
    /\ UNCHANGED <<items, last_item, contested, temp, same_stamp>>
-----------------------------------------------------------------------------
(***************************************************************************)
(* GET /import-export/export as csv: the rows go through a file in         *)
(* server/temp that is named after the time.                               *)
(***************************************************************************)
TempName_Fixed(stamp) == CHOOSE s \in Stamps : TRUE    \* variant: one name for all
TempName(stamp) == stamp

Exporting(g) == io_calls[g].pc \in {"write_csv", "read_csv", "unlink_csv"}

ExportStart(h, stamp) ==
    LET others == {g \in IoHandlers \ {h} : Exporting(g) /\ io_calls[g].stamp = stamp} IN
    /\ Start(h, [pc |-> "write_csv", stamp |-> stamp])
    /\ same_stamp' = IF others = {} THEN same_stamp ELSE same_stamp \cup others \cup {h}
    /\ UNCHANGED <<items, last_item, contested, temp>>

ExportWrite(h) ==
    LET name == TempName(io_calls[h].stamp) IN
    /\ At(h, "write_csv")
    /\ temp' = [n \in DOMAIN temp \cup {name} |-> IF n = name THEN h ELSE temp[n]]
    /\ Become(h, [io_calls[h] EXCEPT !.pc = "read_csv"])
    /\ UNCHANGED <<items, last_item, contested, same_stamp>>

(* A file that is gone is an error: 500 *)
ExportRead(h) ==
    LET c == io_calls[h]
        name == TempName(c.stamp)
    IN
    /\ At(h, "read_csv")
    /\ Become(h, [pc |-> IF name \in DOMAIN temp THEN "unlink_csv" ELSE "failed",
                  stamp |-> c.stamp,
                  rows_of |-> IF name \in DOMAIN temp THEN temp[name] ELSE h])
    /\ UNCHANGED <<items, last_item, contested, temp, same_stamp>>

ExportUnlink(h) ==
    LET name == TempName(io_calls[h].stamp) IN
    /\ At(h, "unlink_csv")
    /\ temp' = [n \in DOMAIN temp \ {name} |-> temp[n]]
    /\ IF name \in DOMAIN temp THEN Answer(h) /\ same_stamp' = same_stamp \ {h}
       ELSE Become(h, [io_calls[h] EXCEPT !.pc = "failed"]) /\ UNCHANGED same_stamp
    /\ UNCHANGED <<items, last_item, contested>>

ExportFailed(h) ==
    /\ At(h, "failed")
    /\ Answer(h)
    /\ same_stamp' = same_stamp \ {h}
    /\ UNCHANGED <<items, last_item, contested, temp>>
-----------------------------------------------------------------------------
Next ==
    \E h \in IoHandlers :
        \/ \E serial \in Serials \cup {None} : PostLookup(h, serial)
        \/ \E i \in DOMAIN items, serial \in Serials : PutLookup(h, i, serial)
        \/ \E i \in DOMAIN items : Delete(h, i)
        \/ \E file \in Files : ImportStart(h, file)
        \/ \E stamp \in Stamps : ExportStart(h, stamp)
        \/ PostInsert(h) \/ PutSave(h)
        \/ ImportFindId(h) \/ ImportFindSerial(h) \/ ImportWrite(h) \/ ImportLog(h)
        \/ ExportWrite(h) \/ ExportRead(h) \/ ExportUnlink(h) \/ ExportFailed(h)

Spec == Init /\ [][Next]_ioVars
-----------------------------------------------------------------------------
(* Two items have one serial number only if a request wrote it between the *)
(* lookup and the write of another, or did not look for it: an import that *)
(* found the item by its id, or a POST that was sent it with blanks.       *)
SerialsDiffer ==
    \A i, j \in DOMAIN items :
        i # j /\ items[i] = items[j] => items[i] \in contested \cup {None}

(* An import reports a record as done exactly when it wrote a row and the  *)
(* entry about it: a row without its entry is reported as an error, and so *)
(* is the update of an item that was deleted meanwhile.                    *)
ReportMatches ==
    \A h \in IoHandlers :
        LET c == io_calls[h] IN
        c.pc \in {"find", "find_serial", "write"} =>
            c.rows = c.created + c.updated + c.unlogged

(* An export answers with the rows that its own filters selected, and      *)
(* fails only for want of its file, unless another one ran in the same     *)
(* millisecond.                                                            *)
ExportsOwnRows ==
    \A h \in IoHandlers \ same_stamp :
        /\ ~At(h, "failed")
        /\ At(h, "unlink_csv") => io_calls[h].rows_of = h
=============================================================================
