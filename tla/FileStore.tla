------------------------------ MODULE FileStore ------------------------------
(***************************************************************************)
(* The files of items: a record in the table files and a blob in the       *)
(* store, with the handlers that write one and then the other              *)
(* (routes/files.js, routes/equipment.js, middleware/upload.js,            *)
(* services/storageService.js) and the reads that join them.               *)
(*                                                                         *)
(* Every record is made from one stored blob and never changes, so a file  *)
(* is named by its blob.  What a transaction writes appears when it        *)
(* commits; it holds the item's row from its first UPDATE on, and other    *)
(* writers of that item wait.                                              *)
(***************************************************************************)
EXTENDS Integers, FiniteSets

CONSTANTS
    MaxObjects,      \* bound: items created and blobs stored, together
    FileHandlers     \* requests served at the same time

VARIABLES
    storage,      \* STORAGE_TYPE: "local" or "r2"
    files,        \* the table: file -> [equipment_id, thumbnail_path is set]
    owners,       \* rows of equipment: item -> reference_image_id
    last_owner,   \* ids given to items so far
    blobs,        \* originals in the store
    thumbnails,   \* thumbnails in the store
    emptied,      \* originals that were replaced by an empty object
    last_blob,    \* names given out so far
    file_calls,   \* what the request in each slot keeps
    cut_short     \* files whose deletion unlinked the blob and then failed

rows == <<files, owners, last_owner>>
store == <<blobs, thumbnails, emptied, last_blob>>
fileVars == <<storage, rows, store, file_calls, cut_short>>

FileIds == 1..MaxObjects
Null == 0
NoCall == [pc |-> "none"]
Room(n) == last_owner + last_blob + n <= MaxObjects

FileTypeOK ==
    /\ storage \in {"local", "r2"}
    /\ DOMAIN files \subseteq 1..last_blob
    /\ files \in [DOMAIN files -> [equipment_id : 1..last_owner, thumbnail : BOOLEAN]]
    /\ DOMAIN owners \subseteq 1..last_owner /\ last_owner \in 0..MaxObjects
    /\ owners \in [DOMAIN owners -> FileIds \cup {Null}]
    /\ blobs \cup thumbnails \cup emptied \cup cut_short \subseteq 1..last_blob
    /\ last_blob + last_owner <= MaxObjects

Init ==
    /\ storage \in {"local", "r2"}
    /\ files = [f \in {} |-> f] /\ owners = [e \in {} |-> e] /\ last_owner = 0
    /\ blobs = {} /\ thumbnails = {} /\ emptied = {} /\ last_blob = 0
    /\ file_calls = [h \in FileHandlers |-> NoCall]
    /\ cut_short = {}
-----------------------------------------------------------------------------
Become(h, c) == file_calls' = [file_calls EXCEPT ![h] = c]
Start(h, c) == file_calls[h] = NoCall /\ Become(h, c)
At(h, pc) == file_calls[h].pc = pc

FilesOf(e) == {f \in DOMAIN files : files[f].equipment_id = e}
Without(f, gone) == [x \in DOMAIN f \ gone |-> f[x]]

(* Requests that hold the row of an item, from their first UPDATE to the   *)
(* commit.                                                                 *)
Locked(e) ==
    \E h \in FileHandlers :
        file_calls[h].pc \in {"unlink", "commit", "unlink item", "commit item"}
        /\ file_calls[h].item = e

(* DELETE of records: reference_image_id is ON DELETE SET NULL *)
Cleared_Own(os, gone) == os   \* variant: without the foreign key
Cleared(os, gone) == [e \in DOMAIN os |-> IF os[e] \in gone THEN Null ELSE os[e]]

(***************************************************************************)
(* processFiles and uploadFile.  All files of a request are stored at the  *)
(* same time, each under a new name; a thumbnail that fails is left out.   *)
(* If one file fails the request fails, and the others stay in the store.  *)
(***************************************************************************)
Named(n) == last_blob + 1 .. last_blob + n

Store(n, kept, small) ==
    /\ Room(n)
    /\ last_blob' = last_blob + n
    /\ blobs' = blobs \cup kept
    /\ thumbnails' = thumbnails \cup small
    /\ UNCHANGED emptied

Uploaded_Partial(n, kept) == Named(n)   \* variant: one failure does not fail the request
Uploaded(n, kept) == IF kept = Named(n) THEN kept ELSE {}

(* POST /files/upload/:equipmentId (for "upload"), PUT /equipment/:id with *)
(* a reference image ("reference"), POST /equipment with files ("create"): *)
(* the blobs are stored before the handler runs.                           *)
Upload(h, e, kind, n, kept, small) ==
    LET new == Uploaded(n, kept) IN
    /\ Store(n, kept, small)
    /\ CASE kind = "create" -> e = Null /\ Room(n + 1)
         [] kind = "upload" -> e \in DOMAIN owners
         [] kind = "reference" -> e \in DOMAIN owners /\ n = 1
    /\ Start(h, IF new = {} /\ n > 0 THEN NoCall
                ELSE [pc |-> kind, item |-> e, new |-> new, small |-> small])
    /\ UNCHANGED <<storage, rows, cut_short>>

WithRecords(c) ==
    [f \in DOMAIN files \cup c.new |->
        IF f \in c.new THEN [equipment_id |-> c.item, thumbnail |-> f \in c.small]
        ELSE files[f]]

(* File.create in the transaction, refused without the item *)
UploadCommit(h) ==
    LET c == file_calls[h] IN
    /\ At(h, "upload") /\ ~Locked(c.item)
    /\ files' = IF c.item \in DOMAIN owners THEN WithRecords(c) ELSE files
    /\ Become(h, NoCall)
    /\ UNCHANGED <<storage, owners, last_owner, store, cut_short>>

(* POST /equipment creates the item in one statement and its records,      *)
(* without a transaction, in another.                                      *)
CreateItem(h) ==
    LET c == file_calls[h] IN
    /\ At(h, "create") /\ Room(1)
    /\ last_owner' = last_owner + 1
    /\ owners' = [e \in DOMAIN owners \cup {last_owner'} |->
                     IF e = last_owner' THEN Null ELSE owners[e]]
    /\ Become(h, IF c.new = {} THEN NoCall
                 ELSE [c EXCEPT !.pc = "upload", !.item = last_owner'])
    /\ UNCHANGED <<storage, files, store, cut_short>>

(* PUT /equipment/:id: File.create, then the UPDATE of the item; a picture *)
(* whose own name does not say "referenceImage" is stored and forgotten.   *)
ReferenceRecord(h) ==
    LET c == file_calls[h] IN
    /\ At(h, "reference") /\ ~Locked(c.item)
    /\ \E named \in BOOLEAN :
          IF named /\ c.item \in DOMAIN owners
            THEN files' = WithRecords(c) /\ Become(h, [c EXCEPT !.pc = "point"])
            ELSE UNCHANGED files /\ Become(h, NoCall)
    /\ UNCHANGED <<storage, owners, last_owner, store, cut_short>>

(* UPDATE equipment SET reference_image_id = ?, refused by the foreign key *)
Pointed_NoKey(e, f) ==   \* variant: without the foreign key
    IF e \in DOMAIN owners THEN [owners EXCEPT ![e] = f] ELSE owners
Pointed(e, f) ==
    IF e \in DOMAIN owners /\ f \in DOMAIN files \cup {Null}
      THEN [owners EXCEPT ![e] = f] ELSE owners

ReferencePoint(h) ==
    LET c == file_calls[h] IN
    /\ At(h, "point") /\ ~Locked(c.item)
    /\ \E f \in c.new : owners' = Pointed(c.item, f)
    /\ Become(h, NoCall)
    /\ UNCHANGED <<storage, files, last_owner, store, cut_short>>

(* PATCH /equipment/:id/reference-image with any id or none: the item is   *)
(* found in one statement and updated in another.                          *)
PatchReference(h, e, f) ==
    /\ e \in DOMAIN owners
    /\ Start(h, [pc |-> "point", item |-> e, new |-> {f}])
    /\ UNCHANGED <<storage, rows, store, cut_short>>
-----------------------------------------------------------------------------
(* deleteFile: the local store unlinks both; R2 sends a PutObject without  *)
(* a body for the original and a DeleteObject for the thumbnail.  Only     *)
(* what went wrong before the first call counts as "not deleted".          *)
DeleteBlob(f) ==
    /\ IF storage = "local"
         THEN blobs' = blobs \ {f} /\ UNCHANGED emptied
         ELSE emptied' = emptied \cup {f} /\ UNCHANGED blobs
    /\ thumbnails' = thumbnails \ {f}
    /\ UNCHANGED last_blob

(* DELETE /files/:id.  One transaction: the file and an item that refers   *)
(* to it are read, that item is updated, the blob unlinked, the record     *)
(* deleted.                                                                *)
DeleteRead(h, f) ==
    LET referring == {e \in DOMAIN owners : owners[e] = f} IN
    /\ f \in DOMAIN files
    /\ \E e \in IF referring = {} THEN {Null} ELSE referring :
          /\ ~Locked(e)
          /\ Start(h, [pc |-> "unlink", item |-> e, file |-> f])
    /\ UNCHANGED <<storage, rows, store, cut_short>>

DeleteUnlink(h) ==
    LET c == file_calls[h] IN
    /\ At(h, "unlink")
    /\ DeleteBlob(c.file) \/ UNCHANGED store     \* deleteFile answered false
    /\ Become(h, [c EXCEPT !.pc = "commit"])
    /\ UNCHANGED <<storage, rows, cut_short>>

DeleteCommit(h) ==
    LET c == file_calls[h] IN
    /\ At(h, "commit")
    /\ files' = Without(files, {c.file})
    /\ owners' = [e \in DOMAIN owners |->
                     IF e = c.item THEN Null ELSE Cleared(owners, {c.file})[e]]
    /\ Become(h, NoCall)
    /\ UNCHANGED <<storage, last_owner, store, cut_short>>

(* PUT /equipment/:id with filesToDelete: findAll, unlink of the originals *)
(* that are local, destroy; no transaction, and its errors are swallowed.  *)
PutUnlink(h, f) ==
    /\ f \in DOMAIN files
    /\ blobs' = IF storage = "local" THEN blobs \ {f} ELSE blobs
    /\ Start(h, [pc |-> "destroy", file |-> f])
    /\ UNCHANGED <<storage, rows, thumbnails, emptied, last_blob, cut_short>>

PutDestroy(h) ==
    LET f == file_calls[h].file IN
    /\ At(h, "destroy")
    /\ files' = Without(files, {f})
    /\ owners' = Cleared(owners, {f})
    /\ Become(h, NoCall)
    /\ UNCHANGED <<storage, last_owner, store, cut_short>>

(* DELETE /equipment/:id.  One transaction: the item is read with its      *)
(* files, the records and the item are deleted, the blobs that were read   *)
(* are unlinked, and then it commits.                                      *)
DeleteItemRead(h, e) ==
    /\ e \in DOMAIN owners
    /\ Start(h, [pc |-> "lock", item |-> e, gone |-> FilesOf(e)])
    /\ UNCHANGED <<storage, rows, store, cut_short>>

DeleteItemLock(h) ==
    /\ At(h, "lock") /\ ~Locked(file_calls[h].item)
    /\ Become(h, [file_calls[h] EXCEPT !.pc = "unlink item"])
    /\ UNCHANGED <<storage, rows, store, cut_short>>

DeleteItemUnlink(h) ==
    LET c == file_calls[h] IN
    /\ At(h, "unlink item")
    /\ IF storage = "local"
         THEN blobs' = blobs \ c.gone /\ thumbnails' = thumbnails \ c.gone
         ELSE UNCHANGED <<blobs, thumbnails>>
    /\ Become(h, [c EXCEPT !.pc = "commit item"])
    /\ UNCHANGED <<storage, rows, emptied, last_blob, cut_short>>

DeleteItemCommit(h) ==
    LET c == file_calls[h]
        gone == FilesOf(c.item)   \* the files that are there now, not those read
    IN
    /\ At(h, "commit item")
    /\ files' = Without(files, gone)
    /\ owners' = Without(Cleared(owners, gone), {c.item})
    /\ Become(h, NoCall)
    /\ UNCHANGED <<storage, last_owner, store, cut_short>>

(* A statement or the server fails: a transaction is rolled back, what was *)
(* stored or unlinked is not.                                              *)
Unlinked(c) ==
    CASE c.pc \in {"commit", "destroy"} -> {c.file}
      [] c.pc = "commit item" -> c.gone
      [] OTHER -> {}

Fail(h) ==
    /\ file_calls[h] # NoCall
    /\ cut_short' = cut_short \cup Unlinked(file_calls[h])
    /\ Become(h, NoCall)
    /\ UNCHANGED <<storage, rows, store>>
-----------------------------------------------------------------------------
(* A request arrives. *)
Arrive(h) ==
    /\ file_calls[h] = NoCall
    /\ \/ \E n \in {m \in 0..2 : Room(m)} : \E kept \in SUBSET Named(n) :
             \E small \in {{}, kept}, kind \in {"upload", "create", "reference"},
                e \in DOMAIN owners \cup {Null} : Upload(h, e, kind, n, kept, small)
       \/ \E e \in DOMAIN owners, f \in FileIds \cup {Null} : PatchReference(h, e, f)
       \/ \E f \in DOMAIN files : DeleteRead(h, f) \/ PutUnlink(h, f)
       \/ \E e \in DOMAIN owners : DeleteItemRead(h, e)

Next ==
    \E h \in FileHandlers :
        \/ Arrive(h)
        \/ UploadCommit(h) \/ CreateItem(h) \/ ReferenceRecord(h) \/ ReferencePoint(h)
        \/ DeleteUnlink(h) \/ DeleteCommit(h) \/ PutDestroy(h)
        \/ DeleteItemLock(h) \/ DeleteItemUnlink(h) \/ DeleteItemCommit(h)
        \/ Fail(h)

Spec == Init /\ [][Next]_fileVars
-----------------------------------------------------------------------------
(* What GET /api/files/:id finds: index.js answers before the route of     *)
(* files.js, so a missing thumbnail is not replaced by the original.       *)
Served(f, thumbnail) ==
    /\ f \in DOMAIN files
    /\ IF thumbnail /\ files[f].thumbnail THEN f \in thumbnails ELSE f \in blobs \ emptied

BeingDeleted == UNION {Unlinked(file_calls[h]) : h \in FileHandlers}

(* Every record can be served, as original and as thumbnail, unless a      *)
(* deletion of it is at work or was cut short after it unlinked the blob.  *)
RecordsServed ==
    \A f \in DOMAIN files \ (cut_short \cup BeingDeleted) :
        Served(f, FALSE) /\ Served(f, TRUE)

(* The reference image of an item is a file that exists, although files    *)
(* are deleted by four handlers and any id may be sent as reference.       *)
ReferenceExists == \A e \in DOMAIN owners : owners[e] \in DOMAIN files \cup {Null}
=============================================================================
