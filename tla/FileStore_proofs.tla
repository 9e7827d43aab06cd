--------------------------- MODULE FileStore_proofs ---------------------------
(***************************************************************************)
(* Proofs about FileStore, for either store, any number of items and       *)
(* files, and any number of requests served at the same time.              *)
(***************************************************************************)
EXTENDS FileStore, TLAPS

-----------------------------------------------------------------------------
(* What a request keeps between two awaits, by the step it is at. *)
ItemIds == 0..MaxObjects
Uploading == {"upload", "create", "reference"}
Deleting == {"unlink", "commit", "destroy"}
DeletingItem == {"lock", "unlink item", "commit item"}

UploadCalls == [pc : Uploading \cup {"point"}, item : ItemIds,
                new : SUBSET FileIds, small : SUBSET FileIds]
PointCalls == [pc : {"point"}, item : ItemIds, new : SUBSET (FileIds \cup {Null})]
DeleteCalls == [pc : {"unlink", "commit"}, item : ItemIds, file : FileIds]
DestroyCalls == [pc : {"destroy"}, file : FileIds]
DeleteItemCalls == [pc : DeletingItem, item : ItemIds, gone : SUBSET FileIds]
Calls == {NoCall} \cup UploadCalls \cup PointCalls \cup DeleteCalls \cup DestroyCalls
            \cup DeleteItemCalls

(* The blobs a request has stored and not recorded yet, and the files it    *)
(* has read and will delete.                                               *)
New(c) == IF c.pc \in Uploading THEN c.new ELSE {}
Targets(c) == IF c.pc \in Deleting THEN {c.file}
              ELSE IF c.pc \in DeletingItem THEN c.gone ELSE {}

(***************************************************************************)
(* RecordsServed is not inductive: UploadCommit writes records without a   *)
(* look at the store, and DeleteItemCommit deletes the records of an item  *)
(* that are there now, not those whose blobs it unlinked.  What they rely  *)
(* on is that a blob which is not recorded yet is known to one request     *)
(* only, that a deletion found its files in the table, and that a record   *)
(* never moves to another item.                                            *)
(***************************************************************************)
UploadsKept ==
    \A h \in FileHandlers :
        LET c == file_calls[h] IN
        /\ New(c) \subseteq (blobs \ emptied) \ DOMAIN files
        /\ c.pc \in Uploading => c.new \cap c.small \subseteq thumbnails
        /\ \A g \in FileHandlers \ {h} : New(c) \cap New(file_calls[g]) = {}

TargetsKnown ==
    \A h \in FileHandlers :
        LET c == file_calls[h] IN
        /\ Targets(c) \subseteq 1..last_blob
        /\ \A g \in FileHandlers : Targets(c) \cap New(file_calls[g]) = {}
        /\ c.pc \in DeletingItem =>
              \A f \in c.gone \cap DOMAIN files : files[f].equipment_id = c.item

FileInv ==
    /\ FileTypeOK /\ last_blob \in Nat /\ file_calls \in [FileHandlers -> Calls]
    /\ ReferenceExists /\ RecordsServed /\ UploadsKept /\ TargetsKnown

-----------------------------------------------------------------------------
LEMMA CallShape ==
  ASSUME NEW c \in Calls
  PROVE  /\ c.pc \in Uploading => c \in UploadCalls
         /\ c.pc = "point" => c.item \in ItemIds /\ c.new \subseteq FileIds \cup {Null}
         /\ c.pc \in {"unlink", "commit"} => c \in DeleteCalls
         /\ c.pc = "destroy" => c \in DestroyCalls
         /\ c.pc \in DeletingItem => c \in DeleteItemCalls
         /\ Unlinked(c) \subseteq Targets(c)
  <1> USE DEF Uploading, Deleting, DeletingItem
  <1>1. CASE c = NoCall
    BY <1>1 DEF NoCall, Unlinked
  <1>2. CASE c \in UploadCalls
    BY <1>2 DEF UploadCalls, Unlinked
  <1>3. CASE c \in PointCalls
    BY <1>3 DEF PointCalls, Unlinked
  <1>4. CASE c \in DeleteCalls
    BY <1>4 DEF DeleteCalls, Unlinked, Targets
  <1>5. CASE c \in DestroyCalls
    BY <1>5 DEF DestroyCalls, Unlinked, Targets
  <1>6. CASE c \in DeleteItemCalls
    BY <1>6 DEF DeleteItemCalls, Unlinked, Targets
  <1> QED
    BY <1>1, <1>2, <1>3, <1>4, <1>5, <1>6 DEF Calls

-----------------------------------------------------------------------------
(***************************************************************************)
(* The request of h goes from one call to another, c.  The tables stay     *)
(* well formed; only blobs that c says are unlinked are lost; a new record *)
(* is of a blob that h had stored; and of the files that h had unlinked,   *)
(* those that c no longer mentions are deleted or cut short.               *)
(***************************************************************************)
Lost(f) ==
    \/ f \in blobs /\ f \notin blobs'
    \/ f \in emptied' /\ f \notin emptied
    \/ f \in thumbnails /\ f \notin thumbnails'

RecordsMade(old) ==
    \A f \in DOMAIN files' :
        IF f \in DOMAIN files
          THEN files'[f] = files[f]
          ELSE f \in New(old) /\ (files'[f].thumbnail => f \in old.small)

LEMMA RequestGoesOn ==
  ASSUME FileInv, NEW h \in FileHandlers, NEW c \in Calls, Become(h, c),
         FileTypeOK', ReferenceExists', last_blob' \in Nat, last_blob <= last_blob',
         RecordsMade(file_calls[h]),
         \A f : Lost(f) => f \in Unlinked(c),
         cut_short \subseteq cut_short',
         \A f \in Unlinked(file_calls[h]) :
            f \in Unlinked(c) \cup cut_short' \/ f \notin DOMAIN files',
         New(c) \subseteq (blobs' \ emptied') \ DOMAIN files',
         c.pc \in Uploading => c.new \cap c.small \subseteq thumbnails',
         Targets(c) \subseteq 1..last_blob', Targets(c) \cap New(c) = {},
         c.pc \in DeletingItem =>
            \A f \in c.gone \cap DOMAIN files' : files'[f].equipment_id = c.item,
         \A g \in FileHandlers \ {h} :
            /\ New(c) \cap New(file_calls[g]) = {}
            /\ New(c) \cap Targets(file_calls[g]) = {}
            /\ Targets(c) \cap New(file_calls[g]) = {}
  PROVE  FileInv'
  <1> USE DEF FileInv
  <1>1. /\ file_calls' \in [FileHandlers -> Calls]
        /\ file_calls'[h] = c
        /\ \A g \in FileHandlers \ {h} : file_calls'[g] = file_calls[g]
    BY DEF Become
  <1>2. \A f : Lost(f) => f \in Targets(c)
    BY CallShape
  <1>3. RecordsServed'
    <2> SUFFICES ASSUME NEW f \in DOMAIN files', f \notin cut_short', f \notin BeingDeleted'
                 PROVE  Served(f, FALSE)' /\ Served(f, TRUE)'
      BY DEF RecordsServed
    <2>1. /\ \A g \in FileHandlers \ {h} : f \notin Unlinked(file_calls[g])
          /\ f \notin Unlinked(c)
      BY <1>1 DEF BeingDeleted
    <2>2. ~Lost(f) /\ f \notin cut_short
      BY <2>1
    <2>3. CASE f \in DOMAIN files
      <3>1. f \notin BeingDeleted
        BY <2>1 DEF BeingDeleted
      <3>2. Served(f, FALSE) /\ Served(f, TRUE) /\ files'[f] = files[f]
        BY <2>2, <2>3, <3>1 DEF RecordsServed, RecordsMade
      <3> QED
        BY <2>2, <3>2 DEF Served, Lost
    <2>4. CASE f \notin DOMAIN files
      <3>1. f \in New(file_calls[h]) /\ (files'[f].thumbnail => f \in file_calls[h].small)
        BY <2>4 DEF RecordsMade
      <3>2. f \in blobs \ emptied /\ (files'[f].thumbnail => f \in thumbnails)
        BY <3>1 DEF UploadsKept, New
      <3> QED
        BY <2>2, <3>2 DEF Served, Lost
    <2> QED
      BY <2>3, <2>4
  <1>4. ASSUME NEW g \in FileHandlers \ {h}, NEW f \in New(file_calls[g])
        PROVE  /\ f \in (blobs' \ emptied') \ DOMAIN files'
               /\ f \in thumbnails => f \in thumbnails'
    <2>1. f \in (blobs \ emptied) \ DOMAIN files /\ f \notin New(file_calls[h])
      BY DEF UploadsKept
    <2>2. ~Lost(f)
      BY <1>2
    <2> QED
      BY <2>1, <2>2 DEF Lost, RecordsMade
  <1>5. UploadsKept'
    <2> SUFFICES ASSUME NEW g \in FileHandlers
                 PROVE  LET d == file_calls'[g] IN
                        /\ New(d) \subseteq (blobs' \ emptied') \ DOMAIN files'
                        /\ d.pc \in Uploading => d.new \cap d.small \subseteq thumbnails'
                        /\ \A k \in FileHandlers \ {g} : New(d) \cap New(file_calls'[k]) = {}
      BY DEF UploadsKept, New
    <2>1. CASE g = h
      BY <1>1, <2>1
    <2>2. CASE g # h
      <3>1. file_calls'[g] = file_calls[g] /\ New(file_calls[g]) \cap New(c) = {}
        BY <1>1, <2>2
      <3>2. \A k \in FileHandlers \ {g} : New(file_calls[g]) \cap New(file_calls'[k]) = {}
        BY <1>1, <3>1 DEF UploadsKept
      <3>3. file_calls[g].pc \in Uploading => New(file_calls[g]) = file_calls[g].new
        BY DEF New
      <3>4. file_calls[g].pc \in Uploading =>
               file_calls[g].new \cap file_calls[g].small \subseteq thumbnails
        BY DEF UploadsKept
      <3> QED
        BY <1>4, <2>2, <3>1, <3>2, <3>3, <3>4
    <2> QED
      BY <2>1, <2>2
  <1>6. TargetsKnown'
    <2> SUFFICES ASSUME NEW g \in FileHandlers
                 PROVE  LET d == file_calls'[g] IN
                        /\ Targets(d) \subseteq 1..last_blob'
                        /\ \A k \in FileHandlers : Targets(d) \cap New(file_calls'[k]) = {}
                        /\ d.pc \in DeletingItem =>
                             \A f \in d.gone \cap DOMAIN files' : files'[f].equipment_id = d.item
      BY DEF TargetsKnown, New, Targets
    <2>1. CASE g = h
      BY <1>1, <2>1
    <2>2. CASE g # h
      <3> DEFINE d == file_calls[g]
      <3>1. file_calls'[g] = d
        BY <1>1, <2>2
      <3>2. Targets(d) \subseteq 1..last_blob'
        <4>1. Targets(d) \subseteq 1..last_blob
          BY DEF TargetsKnown
        <4> QED
          BY <4>1
      <3>3. \A k \in FileHandlers : Targets(d) \cap New(file_calls'[k]) = {}
        BY <1>1, <2>2 DEF TargetsKnown
      <3>4. ASSUME d.pc \in DeletingItem, NEW f \in d.gone \cap DOMAIN files'
            PROVE  files'[f].equipment_id = d.item
        <4>1. f \in Targets(d)
          BY <3>4 DEF Targets, DeletingItem, Deleting
        <4>2. f \in DOMAIN files /\ files'[f] = files[f]
          BY <3>4, <4>1 DEF TargetsKnown, RecordsMade
        <4> QED
          BY <3>4, <4>2 DEF TargetsKnown
      <3> QED
        BY <3>1, <3>2, <3>3, <3>4
    <2> QED
      BY <2>1, <2>2
  <1> QED
    BY <1>1, <1>3, <1>5, <1>6

-----------------------------------------------------------------------------
(* A statement that leaves the tables, or the store, alone. *)
LEMMA RowsSame ==
  ASSUME FileInv, UNCHANGED rows
  PROVE  ReferenceExists' /\ \A old : RecordsMade(old)
  BY DEF FileInv, rows, ReferenceExists, RecordsMade

LEMMA StoreSame ==
  ASSUME FileInv, UNCHANGED store
  PROVE  last_blob' = last_blob /\ last_blob' \in Nat /\ \A f : ~Lost(f)
  BY DEF FileInv, store, Lost

LEMMA TypeSame ==
  ASSUME FileInv, UNCHANGED <<storage, rows, store>>, cut_short' \subseteq 1..last_blob
  PROVE  FileTypeOK'
  BY DEF FileInv, rows, store, FileTypeOK

(* Where a request is, and what it holds. *)
LEMMA Holding ==
  ASSUME FileInv, NEW h \in FileHandlers
  PROVE  LET c == file_calls[h] IN
         /\ c \in Calls
         /\ c.pc \in Uploading => New(c) = c.new /\ Targets(c) = {} /\ Unlinked(c) = {}
         /\ c.pc = "point" => New(c) = {} /\ Targets(c) = {} /\ Unlinked(c) = {}
         /\ c.pc = "unlink" => New(c) = {} /\ Targets(c) = {c.file} /\ Unlinked(c) = {}
         /\ c.pc \in {"commit", "destroy"} =>
               New(c) = {} /\ Targets(c) = {c.file} /\ Unlinked(c) = {c.file}
         /\ c.pc \in {"lock", "unlink item"} =>
               New(c) = {} /\ Targets(c) = c.gone /\ Unlinked(c) = {}
         /\ c.pc = "commit item" =>
               New(c) = {} /\ Targets(c) = c.gone /\ Unlinked(c) = c.gone
         /\ c = NoCall => New(c) = {} /\ Targets(c) = {} /\ Unlinked(c) = {}
  <1> USE DEF New, Targets, Unlinked, Uploading, Deleting, DeletingItem
  <1>1. file_calls[h] \in Calls
    BY DEF FileInv
  <1>2. file_calls[h] = NoCall => file_calls[h].pc = "none"
    BY DEF NoCall
  <1> QED
    BY <1>1, <1>2

LEMMA NoCallHolds ==
  /\ NoCall \in Calls /\ NoCall.pc = "none"
  /\ New(NoCall) = {} /\ Targets(NoCall) = {} /\ Unlinked(NoCall) = {}
  /\ NoCall.pc \notin Uploading /\ NoCall.pc \notin DeletingItem
  BY DEF Calls, NoCall, New, Targets, Unlinked, Uploading, Deleting, DeletingItem

(* A request that keeps nothing any more answers. *)
LEMMA RequestAnswers ==
  ASSUME FileInv, NEW h \in FileHandlers, Become(h, NoCall),
         FileTypeOK', ReferenceExists', RecordsMade(file_calls[h]), UNCHANGED store,
         cut_short \subseteq cut_short',
         \A f \in Unlinked(file_calls[h]) : f \in cut_short' \/ f \notin DOMAIN files'
  PROVE  FileInv'
  <1>1. last_blob' = last_blob /\ last_blob' \in Nat /\ \A f : ~Lost(f)
    BY StoreSame
  <1>2. last_blob <= last_blob'
    BY <1>1
  <1> QED
    BY <1>1, <1>2, NoCallHolds, RequestGoesOn

-----------------------------------------------------------------------------
(* The middleware stores the files of a request under names that nobody    *)
(* has: what it loses of them is never recorded.                           *)
LEMMA UploadKeeps ==
  ASSUME MaxObjects \in Nat, FileInv, NEW h \in FileHandlers, NEW n \in 0..2,
         NEW kept \in SUBSET Named(n), NEW small \in {{}, kept},
         NEW kind \in Uploading, NEW e \in DOMAIN owners \cup {Null},
         Upload(h, e, kind, n, kept, small)
  PROVE  FileInv'
  <1> DEFINE new == Uploaded(n, kept)
             c == [pc |-> kind, item |-> e, new |-> new, small |-> small]
  <1>1. /\ last_blob' = last_blob + n /\ blobs' = blobs \cup kept
        /\ thumbnails' = thumbnails \cup small /\ emptied' = emptied
        /\ UNCHANGED <<storage, rows, cut_short>> /\ file_calls[h] = NoCall
        /\ last_owner + last_blob + n <= MaxObjects
        /\ Become(h, NoCall) \/ Become(h, c)
    BY DEF Upload, Store, Start, Room
  <1>2. /\ last_blob \in Nat /\ last_owner \in 0..MaxObjects
        /\ blobs \subseteq 1..last_blob /\ emptied \subseteq 1..last_blob
        /\ DOMAIN files \subseteq 1..last_blob /\ DOMAIN owners \subseteq 1..last_owner
    BY DEF FileInv, FileTypeOK
  <1>3. /\ last_blob' \in Nat /\ last_blob <= last_blob' /\ 1..last_blob \subseteq 1..last_blob'
        /\ Named(n) \subseteq 1..last_blob' /\ Named(n) \cap 1..last_blob = {}
        /\ Named(n) \subseteq FileIds
    BY <1>1, <1>2 DEF Named, FileIds
  <1>4. new \subseteq kept /\ small \subseteq kept /\ kept \subseteq Named(n)
    BY DEF Uploaded
  <1>5. FileTypeOK'
    <2>1. last_blob' + last_owner' <= MaxObjects
      BY <1>1, <1>2 DEF rows
    <2>2. (blobs \cup thumbnails \cup emptied \cup cut_short)' \subseteq 1..last_blob'
      BY <1>1, <1>3, <1>4 DEF FileInv, FileTypeOK
    <2> QED
      BY <1>1, <1>3, <2>1, <2>2 DEF FileInv, FileTypeOK, rows
  <1>6. ReferenceExists' /\ \A old : RecordsMade(old)
    BY <1>1, RowsSame
  <1>7. \A f : ~Lost(f)
    BY <1>1 DEF Lost
  <1>8. New(file_calls[h]) = {} /\ Unlinked(file_calls[h]) = {}
    BY <1>1, Holding
  <1>9. CASE Become(h, NoCall)
    BY <1>1, <1>3, <1>5, <1>6, <1>7, <1>8, <1>9, NoCallHolds, RequestGoesOn
  <1>10. CASE Become(h, c)
    <2> HIDE DEF new
    <2>1. c \in Calls
      <3>1. e \in ItemIds
        BY <1>2 DEF ItemIds, Null
      <3>2. new \subseteq FileIds /\ small \subseteq FileIds
        BY <1>3, <1>4
      <3> QED
        BY <3>1, <3>2 DEF Calls, UploadCalls
    <2>2. /\ c.pc \in Uploading /\ c.new = new /\ c.small = small
          /\ New(c) = new /\ Targets(c) = {} /\ Unlinked(c) = {} /\ c.pc \notin DeletingItem
      BY DEF New, Targets, Unlinked, Uploading, Deleting, DeletingItem
    <2> HIDE DEF c
    <2>3. new \subseteq (blobs' \ emptied') \ DOMAIN files' /\ new \cap small \subseteq thumbnails'
      BY <1>1, <1>2, <1>3, <1>4 DEF rows
    <2>4. \A g \in FileHandlers \ {h} :
             new \cap New(file_calls[g]) = {} /\ new \cap Targets(file_calls[g]) = {}
      BY <1>2, <1>3, <1>4 DEF FileInv, UploadsKept, TargetsKnown
    <2> QED
      BY <1>1, <1>3, <1>5, <1>6, <1>7, <1>8, <1>10, <2>1, <2>2, <2>3, <2>4, RequestGoesOn
  <1> QED
    BY <1>1, <1>9, <1>10

(* A request that only reads what it will work on. *)
LEMMA RequestReads ==
  ASSUME FileInv, NEW h \in FileHandlers, NEW c \in Calls,
         Become(h, c), UNCHANGED <<storage, rows, store, cut_short>>,
         c.pc \notin Uploading,
         Unlinked(file_calls[h]) \subseteq Unlinked(c),
         Targets(c) \subseteq 1..last_blob,
         \A g \in FileHandlers \ {h} : Targets(c) \cap New(file_calls[g]) = {},
         c.pc \in DeletingItem =>
            \A f \in c.gone \cap DOMAIN files : files[f].equipment_id = c.item
  PROVE  FileInv'
  <1>1. /\ FileTypeOK' /\ ReferenceExists' /\ \A old : RecordsMade(old)
        /\ last_blob' = last_blob /\ last_blob' \in Nat /\ \A f : ~Lost(f)
    BY RowsSame, StoreSame, TypeSame DEF FileInv, FileTypeOK
  <1>2. last_blob <= last_blob' /\ New(c) = {}
    BY <1>1 DEF New
  <1>3. files' = files
    BY DEF rows
  <1> QED
    BY <1>1, <1>2, <1>3, RequestGoesOn

(* What is in the table is no upload under way. *)
LEMMA TableKnown ==
  ASSUME FileInv
  PROVE  \A f \in DOMAIN files :
            f \in 1..last_blob /\ \A g \in FileHandlers : f \notin New(file_calls[g])
  BY DEF FileInv, FileTypeOK, UploadsKept

LEMMA ReferenceRequested ==
  ASSUME MaxObjects \in Nat, FileInv, NEW h \in FileHandlers, NEW e \in DOMAIN owners,
         NEW f \in FileIds \cup {Null}, PatchReference(h, e, f)
  PROVE  FileInv'
  <1> DEFINE c == [pc |-> "point", item |-> e, new |-> {f}]
  <1>1. Become(h, c) /\ file_calls[h] = NoCall /\ UNCHANGED <<storage, rows, store, cut_short>>
    BY DEF PatchReference, Start
  <1>2. e \in ItemIds
    BY DEF FileInv, FileTypeOK, ItemIds
  <1>3. /\ c \in Calls /\ c.pc \notin Uploading /\ c.pc \notin DeletingItem /\ Targets(c) = {}
    BY <1>2 DEF Calls, PointCalls, Uploading, Deleting, DeletingItem, Targets
  <1> HIDE DEF c
  <1> QED
    BY <1>1, <1>3, Holding, RequestReads

LEMMA DeletionRequested ==
  ASSUME MaxObjects \in Nat, FileInv, NEW h \in FileHandlers, NEW f \in DOMAIN files,
         DeleteRead(h, f)
  PROVE  FileInv'
  <1>1. PICK e \in DOMAIN owners \cup {Null} :
           /\ Become(h, [pc |-> "unlink", item |-> e, file |-> f]) /\ file_calls[h] = NoCall
           /\ UNCHANGED <<storage, rows, store, cut_short>>
    BY DEF DeleteRead, Start
  <1> DEFINE c == [pc |-> "unlink", item |-> e, file |-> f]
  <1>2. e \in ItemIds /\ f \in FileIds
    BY DEF FileInv, FileTypeOK, ItemIds, FileIds, Null
  <1>3. /\ c \in Calls /\ c.pc \notin Uploading /\ c.pc \notin DeletingItem /\ Targets(c) = {f}
    BY <1>2 DEF Calls, DeleteCalls, Uploading, Deleting, DeletingItem, Targets
  <1>4. Become(h, c)
    BY <1>1
  <1> HIDE DEF c
  <1> QED
    BY <1>1, <1>3, <1>4, Holding, TableKnown, RequestReads

LEMMA ItemDeletionRequested ==
  ASSUME MaxObjects \in Nat, FileInv, NEW h \in FileHandlers, NEW e \in DOMAIN owners,
         DeleteItemRead(h, e)
  PROVE  FileInv'
  <1> DEFINE c == [pc |-> "lock", item |-> e, gone |-> FilesOf(e)]
  <1>1. Become(h, c) /\ file_calls[h] = NoCall /\ UNCHANGED <<storage, rows, store, cut_short>>
    BY DEF DeleteItemRead, Start
  <1>2. e \in ItemIds /\ DOMAIN files \subseteq FileIds
    BY DEF FileInv, FileTypeOK, ItemIds, FileIds
  <1>3. /\ c \in Calls /\ c.pc \notin Uploading /\ Targets(c) = FilesOf(e)
        /\ c.gone = FilesOf(e) /\ c.item = e
    BY <1>2 DEF Calls, DeleteItemCalls, Uploading, Deleting, DeletingItem, Targets, FilesOf
  <1>4. \A f \in FilesOf(e) : f \in DOMAIN files /\ files[f].equipment_id = e
    BY DEF FilesOf
  <1> HIDE DEF c
  <1> QED
    BY <1>1, <1>3, <1>4, Holding, TableKnown, RequestReads

(* filesToDelete unlinks the original of a file in the table at once. *)
LEMMA PutUnlinks ==
  ASSUME MaxObjects \in Nat, FileInv, NEW h \in FileHandlers, NEW f \in DOMAIN files,
         PutUnlink(h, f)
  PROVE  FileInv'
  <1> DEFINE c == [pc |-> "destroy", file |-> f]
  <1>1. /\ Become(h, c) /\ file_calls[h] = NoCall
        /\ blobs' \subseteq blobs /\ \A x \in blobs \ blobs' : x = f
        /\ UNCHANGED <<storage, rows, thumbnails, emptied, last_blob, cut_short>>
    BY DEF PutUnlink, Start
  <1>2. f \in 1..last_blob /\ f \in FileIds
    BY DEF FileInv, FileTypeOK, FileIds
  <1>3. /\ c \in Calls /\ c.pc \notin Uploading /\ c.pc \notin DeletingItem
        /\ Targets(c) = {f} /\ Unlinked(c) = {f} /\ New(c) = {}
    BY <1>2 DEF Calls, DestroyCalls, Uploading, Deleting, DeletingItem, Targets, Unlinked, New
  <1> HIDE DEF c
  <1>4. \A x : Lost(x) => x \in Unlinked(c)
    BY <1>1, <1>3 DEF Lost
  <1>5. FileTypeOK' /\ last_blob' \in Nat /\ last_blob <= last_blob'
    BY <1>1 DEF FileInv, FileTypeOK, rows
  <1>6. ReferenceExists' /\ \A old : RecordsMade(old)
    BY <1>1, RowsSame
  <1> QED
    BY <1>1, <1>2, <1>3, <1>4, <1>5, <1>6, Holding, TableKnown, RequestGoesOn

-----------------------------------------------------------------------------
(* The records of a request are of blobs that it has stored itself. *)
LEMMA RecordsOfRequest ==
  ASSUME MaxObjects \in Nat, FileInv, NEW h \in FileHandlers,
         file_calls[h].pc \in Uploading, file_calls[h].item \in DOMAIN owners,
         UNCHANGED <<storage, owners, last_owner, store, cut_short>>,
         files' = WithRecords(file_calls[h])
  PROVE  /\ FileTypeOK' /\ ReferenceExists' /\ RecordsMade(file_calls[h])
         /\ DOMAIN files' = DOMAIN files \cup file_calls[h].new
  <1> DEFINE c == file_calls[h]
  <1>1. /\ New(c) = c.new /\ c.new \subseteq blobs /\ c.new \cap DOMAIN files = {}
        /\ c.item \in 1..last_owner
    BY Holding DEF FileInv, UploadsKept, FileTypeOK
  <1> HIDE DEF c
  <1>2. /\ DOMAIN files' = DOMAIN files \cup c.new
        /\ \A f \in DOMAIN files' :
              files'[f] = IF f \in c.new
                            THEN [equipment_id |-> c.item, thumbnail |-> f \in c.small]
                            ELSE files[f]
        /\ files' = [f \in DOMAIN files' |-> files'[f]]
    BY DEF WithRecords, c
  <1>3. FileTypeOK'
    <2>1. ASSUME NEW f \in DOMAIN files'
          PROVE  files'[f] \in [equipment_id : 1..last_owner, thumbnail : BOOLEAN]
      <3>1. CASE f \in c.new /\ f \in c.small
        <4>1. files'[f] = [equipment_id |-> c.item, thumbnail |-> TRUE]
          BY <1>2, <3>1
        <4> QED
          BY <1>1, <4>1
      <3>2. CASE f \in c.new /\ f \notin c.small
        <4>1. files'[f] = [equipment_id |-> c.item, thumbnail |-> f \in c.small]
          BY <1>2, <3>2
        <4>2. (f \in c.small) = FALSE
          BY <3>2
        <4>3. files'[f] = [equipment_id |-> c.item, thumbnail |-> FALSE]
          BY <4>1, <4>2, Zenon
        <4> QED
          BY <1>1, <4>3
      <3>3. CASE f \notin c.new
        BY <1>2, <3>3 DEF FileInv, FileTypeOK
      <3> QED
        BY <3>1, <3>2, <3>3
    <2>2. files' \in [DOMAIN files' -> [equipment_id : 1..last_owner, thumbnail : BOOLEAN]]
      BY <1>2, <2>1
    <2> QED
      BY <1>1, <1>2, <2>2 DEF FileInv, FileTypeOK, store
  <1>4. ReferenceExists'
    BY <1>2 DEF FileInv, ReferenceExists
  <1>5. RecordsMade(c)
    <2>1. \A f \in DOMAIN files : files'[f] = files[f]
      BY <1>1, <1>2
    <2>2. ASSUME NEW f \in DOMAIN files' \ DOMAIN files
          PROVE  f \in c.new /\ (files'[f].thumbnail => f \in c.small)
      <3>1. f \in c.new
        BY <1>2
      <3>2. ASSUME f \notin c.small
            PROVE  files'[f] = [equipment_id |-> c.item, thumbnail |-> FALSE]
        <4>1. files'[f] = [equipment_id |-> c.item, thumbnail |-> f \in c.small]
          BY <1>2, <3>1
        <4>2. (f \in c.small) = FALSE
          BY <3>2
        <4> QED
          BY <4>1, <4>2, Zenon
      <3> QED
        BY <3>1, <3>2
    <2> QED
      BY <1>1, <2>1, <2>2 DEF RecordsMade
  <1> QED
    BY <1>2, <1>3, <1>4, <1>5 DEF c

LEMMA UploadCommits ==
  ASSUME MaxObjects \in Nat, FileInv, NEW h \in FileHandlers, UploadCommit(h)
  PROVE  FileInv'
  <1>1. /\ file_calls[h].pc \in Uploading /\ Become(h, NoCall)
        /\ UNCHANGED <<storage, owners, last_owner, store, cut_short>>
    BY DEF UploadCommit, At, Uploading
  <1>2. Unlinked(file_calls[h]) = {}
    BY <1>1, Holding
  <1>3. CASE file_calls[h].item \in DOMAIN owners /\ files' = WithRecords(file_calls[h])
    BY <1>1, <1>2, <1>3, RecordsOfRequest, RequestAnswers
  <1>4. CASE files' = files
    BY <1>1, <1>2, <1>4, RowsSame, TypeSame, RequestAnswers DEF rows, FileInv, FileTypeOK
  <1> QED
    BY <1>3, <1>4 DEF UploadCommit

LEMMA ItemCreated ==
  ASSUME MaxObjects \in Nat, FileInv, NEW h \in FileHandlers, CreateItem(h)
  PROVE  FileInv'
  <1> DEFINE old == file_calls[h]
             c == [old EXCEPT !.pc = "upload", !.item = last_owner']
  <1>1. /\ old.pc = "create" /\ last_owner' = last_owner + 1
        /\ owners' = [e \in DOMAIN owners \cup {last_owner'} |->
                         IF e = last_owner' THEN Null ELSE owners[e]]
        /\ Become(h, NoCall) \/ Become(h, c)
        /\ UNCHANGED <<storage, files, store, cut_short>>
        /\ last_owner + last_blob + 1 <= MaxObjects
    BY DEF CreateItem, At, Room
  <1>2. /\ old \in UploadCalls /\ New(old) = old.new /\ Targets(old) = {} /\ Unlinked(old) = {}
    BY <1>1, Holding, CallShape DEF Uploading
  <1>3. /\ last_owner' \in 0..MaxObjects /\ last_owner' \notin DOMAIN owners
        /\ 1..last_owner \cup {last_owner'} \subseteq 1..last_owner'
        /\ last_blob + last_owner' <= MaxObjects
    BY <1>1 DEF FileInv, FileTypeOK
  <1> HIDE DEF old
  <1>4. /\ DOMAIN owners' = DOMAIN owners \cup {last_owner'}
        /\ owners'[last_owner'] = Null
        /\ \A e \in DOMAIN owners : owners'[e] = owners[e]
        /\ owners' \in [DOMAIN owners' -> FileIds \cup {Null}]
    BY <1>1, <1>3 DEF FileInv, FileTypeOK
  <1>5. FileTypeOK'
    <2>1. files' \in [DOMAIN files' -> [equipment_id : 1..last_owner', thumbnail : BOOLEAN]]
      BY <1>1, <1>3 DEF FileInv, FileTypeOK
    <2> QED
      BY <1>1, <1>3, <1>4, <2>1 DEF FileInv, FileTypeOK, store
  <1>6. ReferenceExists' /\ RecordsMade(old)
    BY <1>1, <1>4 DEF FileInv, ReferenceExists, RecordsMade, Null
  <1>7. CASE Become(h, NoCall)
    BY <1>1, <1>2, <1>5, <1>6, <1>7, RequestAnswers DEF old
  <1>8. CASE Become(h, c)
    <2>1. c \in Calls /\ c.pc = "upload" /\ c.new = old.new /\ c.small = old.small
      BY <1>2, <1>3 DEF UploadCalls, Calls, Uploading, ItemIds
    <2>2. /\ New(c) = old.new /\ Targets(c) = {} /\ Unlinked(c) = {}
          /\ c.pc \in Uploading /\ c.pc \notin DeletingItem
      BY <2>1 DEF New, Targets, Unlinked, Uploading, Deleting, DeletingItem
    <2> HIDE DEF c
    <2>3. /\ old.new \subseteq (blobs' \ emptied') \ DOMAIN files'
          /\ old.new \cap old.small \subseteq thumbnails'
          /\ \A g \in FileHandlers \ {h} :
                old.new \cap New(file_calls[g]) = {} /\ old.new \cap Targets(file_calls[g]) = {}
      BY <1>1, <1>2 DEF FileInv, UploadsKept, TargetsKnown, old, store, Uploading
    <2>4. last_blob' = last_blob /\ last_blob' \in Nat /\ last_blob <= last_blob' /\ \A f : ~Lost(f)
      BY <1>1, StoreSame
    <2> QED
      BY <1>1, <1>2, <1>5, <1>6, <1>8, <2>1, <2>2, <2>3, <2>4, RequestGoesOn DEF old
  <1> QED
    BY <1>1, <1>7, <1>8

LEMMA ReferenceRecorded ==
  ASSUME MaxObjects \in Nat, FileInv, NEW h \in FileHandlers, ReferenceRecord(h)
  PROVE  FileInv'
  <1> DEFINE old == file_calls[h]
             c == [old EXCEPT !.pc = "point"]
  <1>1. /\ old.pc \in Uploading /\ UNCHANGED <<storage, owners, last_owner, store, cut_short>>
    BY DEF ReferenceRecord, At, Uploading
  <1>2. Unlinked(old) = {} /\ old \in UploadCalls
    BY <1>1, Holding, CallShape
  <1>3. CASE files' = files /\ Become(h, NoCall)
    BY <1>1, <1>2, <1>3, RowsSame, TypeSame, RequestAnswers DEF rows, FileInv, FileTypeOK
  <1>4. CASE old.item \in DOMAIN owners /\ files' = WithRecords(old) /\ Become(h, c)
    <2>1. c \in Calls /\ c.pc = "point"
      BY <1>2 DEF UploadCalls, Calls
    <2>2. /\ New(c) = {} /\ Targets(c) = {} /\ c.pc \notin Uploading /\ c.pc \notin DeletingItem
      BY <2>1 DEF New, Targets, Uploading, Deleting, DeletingItem
    <2>3. FileTypeOK' /\ ReferenceExists' /\ RecordsMade(old)
      BY <1>1, <1>4, RecordsOfRequest
    <2>4. last_blob' = last_blob /\ last_blob' \in Nat /\ last_blob <= last_blob' /\ \A f : ~Lost(f)
      BY <1>1, StoreSame
    <2>5. Become(h, c) /\ cut_short \subseteq cut_short'
      BY <1>1, <1>4
    <2> HIDE DEF c
    <2> QED
      BY <1>2, <2>1, <2>2, <2>3, <2>4, <2>5, RequestGoesOn
  <1> QED
    BY <1>3, <1>4 DEF ReferenceRecord

(* The foreign key of reference_image_id decides what an item may show. *)
LEMMA ReferencePointed ==
  ASSUME MaxObjects \in Nat, FileInv, NEW h \in FileHandlers, ReferencePoint(h)
  PROVE  FileInv'
  <1>1. /\ file_calls[h].pc = "point" /\ Become(h, NoCall)
        /\ UNCHANGED <<storage, files, last_owner, store, cut_short>>
    BY DEF ReferencePoint, At
  <1>2. PICK f : owners' = Pointed(file_calls[h].item, f)
    BY DEF ReferencePoint
  <1>3. DOMAIN files \cup {Null} \subseteq FileIds \cup {Null}
    BY DEF FileInv, FileTypeOK, FileIds
  <1>4. /\ DOMAIN owners' = DOMAIN owners
        /\ \A e \in DOMAIN owners : owners'[e] \in DOMAIN files \cup {Null}
        /\ owners' \in [DOMAIN owners' -> FileIds \cup {Null}]
    BY <1>2, <1>3 DEF FileInv, FileTypeOK, ReferenceExists, Pointed
  <1>5. FileTypeOK' /\ ReferenceExists' /\ RecordsMade(file_calls[h])
    BY <1>1, <1>4 DEF FileInv, FileTypeOK, ReferenceExists, RecordsMade, store
  <1>6. Unlinked(file_calls[h]) = {}
    BY <1>1, Holding
  <1> QED
    BY <1>1, <1>5, <1>6, RequestAnswers

-----------------------------------------------------------------------------
(* A record that is deleted takes the references to it along. *)
LEMMA RecordsDeleted ==
  ASSUME FileInv, NEW gone, NEW out,
         files' = Without(files, gone),
         DOMAIN owners' = DOMAIN owners \ out,
         \A e \in DOMAIN owners' : owners'[e] \in {Null, Cleared(owners, gone)[e]},
         owners' = [e \in DOMAIN owners' |-> owners'[e]],
         UNCHANGED <<storage, last_owner, store>>, cut_short' \subseteq 1..last_blob
  PROVE  /\ FileTypeOK' /\ ReferenceExists' /\ \A old : RecordsMade(old)
         /\ DOMAIN files' = DOMAIN files \ gone
  <1>1. /\ DOMAIN files' = DOMAIN files \ gone
        /\ \A f \in DOMAIN files' : files'[f] = files[f]
        /\ files' \in [DOMAIN files' -> [equipment_id : 1..last_owner, thumbnail : BOOLEAN]]
    BY DEF Without, FileInv, FileTypeOK
  <1>2. ASSUME NEW e \in DOMAIN owners', owners'[e] # Null
        PROVE  owners'[e] = owners[e] /\ owners[e] \notin gone
    <2>1. e \in DOMAIN owners /\ owners'[e] = Cleared(owners, gone)[e]
      BY <1>2
    <2> QED
      BY <1>2, <2>1 DEF Cleared
  <1>3. owners' \in [DOMAIN owners' -> FileIds \cup {Null}]
    <2>1. \A e \in DOMAIN owners' : owners'[e] \in FileIds \cup {Null}
      BY <1>2 DEF FileInv, FileTypeOK
    <2> QED
      BY <2>1
  <1>4. ReferenceExists'
    BY <1>1, <1>2 DEF FileInv, ReferenceExists
  <1>5. FileTypeOK'
    BY <1>1, <1>3 DEF FileInv, FileTypeOK, store
  <1> QED
    BY <1>1, <1>4, <1>5 DEF RecordsMade

LEMMA DeletionUnlinks ==
  ASSUME MaxObjects \in Nat, FileInv, NEW h \in FileHandlers, DeleteUnlink(h)
  PROVE  FileInv'
  <1> DEFINE old == file_calls[h]
             c == [old EXCEPT !.pc = "commit"]
  <1>1. /\ old.pc = "unlink" /\ Become(h, c) /\ UNCHANGED <<storage, rows, cut_short>>
        /\ DeleteBlob(old.file) \/ UNCHANGED store
    BY DEF DeleteUnlink, At
  <1>2. /\ old \in DeleteCalls /\ Targets(old) = {old.file} /\ Unlinked(old) = {}
    BY <1>1, Holding, CallShape
  <1>3. /\ c \in Calls /\ c.pc = "commit" /\ c.file = old.file
    BY <1>2 DEF DeleteCalls, Calls
  <1>4. /\ New(c) = {} /\ Targets(c) = {old.file} /\ Unlinked(c) = {old.file}
        /\ c.pc \notin Uploading /\ c.pc \notin DeletingItem
    BY <1>3 DEF New, Targets, Unlinked, Uploading, Deleting, DeletingItem
  <1>5. old.file \in 1..last_blob /\ \A g \in FileHandlers : old.file \notin New(file_calls[g])
    BY <1>2 DEF FileInv, TargetsKnown
  <1>6. Become(h, c)
    BY <1>1
  <1> HIDE DEF c
  <1>7. /\ last_blob' = last_blob /\ last_blob' \in Nat
        /\ \A f : Lost(f) => f = old.file
        /\ (blobs \cup thumbnails \cup emptied \cup cut_short)' \subseteq 1..last_blob
    <2>1. CASE UNCHANGED store
      BY <1>1, <2>1, StoreSame DEF FileInv, FileTypeOK, store
    <2>2. CASE DeleteBlob(old.file)
      BY <1>1, <1>5, <2>2 DEF DeleteBlob, Lost, FileInv, FileTypeOK
    <2> QED
      BY <1>1, <2>1, <2>2
  <1>8. FileTypeOK' /\ ReferenceExists' /\ RecordsMade(old) /\ last_blob <= last_blob'
    BY <1>1, <1>7, RowsSame DEF FileInv, FileTypeOK, rows
  <1> QED
    BY <1>1, <1>2, <1>3, <1>4, <1>5, <1>6, <1>7, <1>8, RequestGoesOn

LEMMA DeletionCommits ==
  ASSUME MaxObjects \in Nat, FileInv, NEW h \in FileHandlers,
         DeleteCommit(h) \/ PutDestroy(h)
  PROVE  FileInv'
  <1> DEFINE f == file_calls[h].file
  <1>1. /\ Unlinked(file_calls[h]) = {f} /\ Become(h, NoCall)
        /\ files' = Without(files, {f})
        /\ UNCHANGED <<storage, last_owner, store, cut_short>>
    BY Holding DEF DeleteCommit, PutDestroy, At
  <1>2. /\ DOMAIN owners' = DOMAIN owners \ {}
        /\ \A e \in DOMAIN owners' : owners'[e] \in {Null, Cleared(owners, {f})[e]}
        /\ owners' = [e \in DOMAIN owners' |-> owners'[e]]
    <2>1. CASE DeleteCommit(h)
      BY <2>1 DEF DeleteCommit
    <2>2. CASE PutDestroy(h)
      BY <2>2 DEF PutDestroy, Cleared
    <2> QED
      BY <2>1, <2>2
  <1> HIDE DEF f
  <1>3. /\ FileTypeOK' /\ ReferenceExists' /\ RecordsMade(file_calls[h])
        /\ DOMAIN files' = DOMAIN files \ {f}
    BY <1>1, <1>2, RecordsDeleted DEF FileInv, FileTypeOK
  <1> QED
    BY <1>1, <1>3, RequestAnswers

LEMMA ItemDeletionGoesOn ==
  ASSUME MaxObjects \in Nat, FileInv, NEW h \in FileHandlers,
         DeleteItemLock(h) \/ DeleteItemUnlink(h)
  PROVE  FileInv'
  <1> DEFINE old == file_calls[h]
  <1>1. /\ old \in DeleteItemCalls /\ Targets(old) = old.gone /\ Unlinked(old) = {}
        /\ old.pc \in DeletingItem
    BY Holding, CallShape DEF DeleteItemLock, DeleteItemUnlink, At, DeletingItem
  <1>2. /\ old.gone \subseteq 1..last_blob
        /\ \A g \in FileHandlers : old.gone \cap New(file_calls[g]) = {}
        /\ \A f \in old.gone \cap DOMAIN files : files[f].equipment_id = old.item
    BY <1>1 DEF FileInv, TargetsKnown
  <1>3. CASE DeleteItemLock(h)
    <2> DEFINE c == [old EXCEPT !.pc = "unlink item"]
    <2>1. Become(h, c) /\ UNCHANGED <<storage, rows, store, cut_short>>
      BY <1>3 DEF DeleteItemLock
    <2>2. /\ c \in Calls /\ c.pc = "unlink item" /\ c.gone = old.gone /\ c.item = old.item
      BY <1>1 DEF DeleteItemCalls, Calls, DeletingItem
    <2>3. Targets(c) = old.gone /\ c.pc \notin Uploading
      BY <2>2 DEF Targets, Uploading, Deleting, DeletingItem
    <2> HIDE DEF c
    <2> QED
      BY <1>1, <1>2, <2>1, <2>2, <2>3, RequestReads
  <1>4. CASE DeleteItemUnlink(h)
    <2> DEFINE c == [old EXCEPT !.pc = "commit item"]
    <2>1. /\ Become(h, c) /\ UNCHANGED <<storage, rows, emptied, last_blob, cut_short>>
          /\ blobs' \in {blobs, blobs \ old.gone}
          /\ thumbnails' \in {thumbnails, thumbnails \ old.gone}
      BY <1>4 DEF DeleteItemUnlink
    <2>2. /\ c \in Calls /\ c.pc = "commit item" /\ c.gone = old.gone /\ c.item = old.item
      BY <1>1 DEF DeleteItemCalls, Calls, DeletingItem
    <2>3. /\ New(c) = {} /\ Targets(c) = old.gone /\ Unlinked(c) = old.gone
          /\ c.pc \notin Uploading
      BY <2>2 DEF New, Targets, Unlinked, Uploading, Deleting, DeletingItem
    <2> HIDE DEF c
    <2>4. \A f : Lost(f) => f \in Unlinked(c)
      BY <2>1, <2>3 DEF Lost
    <2>5. FileTypeOK' /\ last_blob' \in Nat /\ last_blob <= last_blob'
      BY <2>1 DEF FileInv, FileTypeOK, rows
    <2>6. ReferenceExists' /\ RecordsMade(old) /\ files' = files
      BY <2>1, RowsSame DEF rows
    <2> QED
      BY <1>1, <1>2, <2>1, <2>2, <2>3, <2>4, <2>5, <2>6, RequestGoesOn
  <1> QED
    BY <1>3, <1>4

(* The files that an item has when it is deleted include the ones that were *)
(* read and unlinked: no record moves to another item.                     *)
LEMMA ItemDeleted ==
  ASSUME MaxObjects \in Nat, FileInv, NEW h \in FileHandlers, DeleteItemCommit(h)
  PROVE  FileInv'
  <1> DEFINE c == file_calls[h]
             gone == FilesOf(c.item)
  <1>1. /\ c.pc = "commit item" /\ Unlinked(c) = c.gone /\ Become(h, NoCall)
        /\ files' = Without(files, gone)
        /\ owners' = Without(Cleared(owners, gone), {c.item})
        /\ UNCHANGED <<storage, last_owner, store, cut_short>>
    BY Holding DEF DeleteItemCommit, At
  <1>2. \A f \in c.gone \cap DOMAIN files : f \in gone
    BY <1>1 DEF FileInv, TargetsKnown, FilesOf, DeletingItem
  <1> HIDE DEF c, gone
  <1>3. /\ DOMAIN owners' = DOMAIN owners \ {c.item}
        /\ \A e \in DOMAIN owners' : owners'[e] \in {Null, Cleared(owners, gone)[e]}
        /\ owners' = [e \in DOMAIN owners' |-> owners'[e]]
    BY <1>1 DEF Without, Cleared
  <1>4. /\ FileTypeOK' /\ ReferenceExists' /\ RecordsMade(c)
        /\ DOMAIN files' = DOMAIN files \ gone
    BY <1>1, <1>3, RecordsDeleted DEF FileInv, FileTypeOK
  <1>5. \A f \in Unlinked(c) : f \notin DOMAIN files'
    BY <1>1, <1>2, <1>4
  <1> QED
    BY <1>1, <1>4, <1>5, RequestAnswers DEF c

LEMMA RequestFails ==
  ASSUME FileInv, NEW h \in FileHandlers, Fail(h)
  PROVE  FileInv'
  <1>1. /\ cut_short' = cut_short \cup Unlinked(file_calls[h]) /\ Become(h, NoCall)
        /\ UNCHANGED <<storage, rows, store>>
    BY DEF Fail
  <1>2. Unlinked(file_calls[h]) \subseteq 1..last_blob
    BY CallShape DEF FileInv, TargetsKnown
  <1>3. cut_short' \subseteq 1..last_blob
    BY <1>1, <1>2 DEF FileInv, FileTypeOK
  <1> QED
    BY <1>1, <1>3, RowsSame, TypeSame, RequestAnswers

-----------------------------------------------------------------------------
LEMMA FileInit ==
  ASSUME MaxObjects \in Nat, Init
  PROVE  FileInv
  <1>1. \A h \in FileHandlers : file_calls[h] = NoCall
    BY DEF Init
  <1>2. FileTypeOK /\ last_blob \in Nat
    BY DEF Init, FileTypeOK
  <1>3. file_calls \in [FileHandlers -> Calls]
    BY DEF Init, Calls
  <1>4. ReferenceExists /\ RecordsServed
    BY DEF Init, ReferenceExists, RecordsServed
  <1>5. UploadsKept /\ TargetsKnown
    BY <1>1, NoCallHolds DEF UploadsKept, TargetsKnown
  <1> QED
    BY <1>2, <1>3, <1>4, <1>5 DEF FileInv

LEMMA FileStep ==
  ASSUME MaxObjects \in Nat, FileInv, [Next]_fileVars
  PROVE  FileInv'
  <1>1. CASE UNCHANGED fileVars
    BY <1>1 DEF fileVars, rows, store, FileInv, FileTypeOK, ReferenceExists, RecordsServed, Served,
                BeingDeleted, UploadsKept, TargetsKnown
  <1>2. ASSUME NEW h \in FileHandlers, Arrive(h)
        PROVE  FileInv'
    <2>1. ASSUME NEW n \in 0..2, NEW kept \in SUBSET Named(n), NEW small \in {{}, kept},
                 NEW kind \in {"upload", "create", "reference"},
                 NEW e \in DOMAIN owners \cup {Null}, Upload(h, e, kind, n, kept, small)
          PROVE  FileInv'
      BY <2>1, UploadKeeps DEF Uploading
    <2> QED
      BY <1>2, <2>1, ReferenceRequested, DeletionRequested, PutUnlinks, ItemDeletionRequested
      DEF Arrive
  <1>3. CASE Next
    BY <1>2, <1>3, UploadCommits, ItemCreated, ReferenceRecorded, ReferencePointed,
       DeletionUnlinks, DeletionCommits, ItemDeletionGoesOn, ItemDeleted, RequestFails DEF Next
  <1> QED
    BY <1>1, <1>3

(* Every record can be served, as original and as thumbnail, unless a      *)
(* deletion of it is at work or was cut short after it unlinked the blob.  *)
THEOREM RecordsStayServed ==
  ASSUME MaxObjects \in Nat
  PROVE  Spec => []RecordsServed
  <1>1. FileInv => RecordsServed
    BY DEF FileInv
  <1> QED
    BY <1>1, FileInit, FileStep, PTL DEF Spec

(* The reference image of an item is a file that exists.                   *)
THEOREM ReferencesStay ==
  ASSUME MaxObjects \in Nat
  PROVE  Spec => []ReferenceExists
  <1>1. FileInv => ReferenceExists
    BY DEF FileInv
  <1> QED
    BY <1>1, FileInit, FileStep, PTL DEF Spec
=============================================================================
