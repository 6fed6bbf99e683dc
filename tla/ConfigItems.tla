----------------------------- MODULE ConfigItems -----------------------------
(***************************************************************************)
(* Configuration items and the files uploaded for them: config_controller  *)
(* .py over uploaded_file_service.py.  A file is a row of the table files  *)
(* and a path on the disk, and only the row belongs to the transaction:    *)
(* the disk is written and unlinked while the request works, whatever      *)
(* becomes of its commit.  An item has one file here; the two that a       *)
(* translated item has are columns of their own that work the same.        *)
(***************************************************************************)
EXTENDS Integers, FiniteSets, Requests

CONSTANTS
    Item,        \* rows that config_items may hold
    Category,    \* categories
    Empty,       \* the empty one; null, which updates can write, works the same
    Token,       \* tokens; an update takes an empty one for none
    MaxUploads   \* bound: files ever uploaded

ASSUME ConfigItemsAssumption == MaxUploads \in Nat /\ Empty \in Category /\ Token # {}

VARIABLES
    items,     \* config_items: category, token, type and file, or NoItem
    files,     \* files: the path of each record, or NoFile
    disk,      \* paths on the disk
    uploads,   \* names given so far, to records and to paths
    doubtful   \* records whose path was unlinked by a request that did not commit

itemVars == <<items, files, disk, uploads, doubtful>>

NoItem == [token |-> "none"]
NoFile == 0
FileId == 1 .. MaxUploads
Items  == {i \in Item : items[i] # NoItem}
Files  == {f \in FileId : files[f] # NoFile}

-----------------------------------------------------------------------------
(***************************************************************************)
(* The definitions.                                                        *)
(***************************************************************************)
HasToken(c, k) == {i \in Items : items[i].category = c /\ items[i].token = k}

StoreItem(p, c, k, type) ==
    /\ Free(p)
    /\ HasToken(c, k) = {}
    /\ Go(p, Insert("config_items", [category |-> c, token |-> k, type |-> type,
                                     file |-> NoFile]))
    /\ UNCHANGED <<raced, itemVars>>

\* body holds the columns sent.  The token is checked when it is one of them.
UpdateDefinitionMutant(p, i, body) ==
    /\ Free(p)
    /\ i \in Items
    /\ \A k \in Written(body, "token") : HasToken(items[i].category, k) \subseteq {i}
    /\ Go(p, Update("config_items", i,
            [sent |-> body, columns |-> Changes(items[i], Merge(body, items[i]))]))
    /\ UNCHANGED <<raced, itemVars>>

\* body.category or item.category.
Checked(body, i) == Merge({w \in body : w # <<"category", Empty>>}, items[i]).category

UpdateDefinition(p, i, body) ==
    /\ Free(p)
    /\ i \in Items
    /\ \A k \in Written(body, "token") : HasToken(Checked(body, i), k) \subseteq {i}
    /\ Go(p, Update("config_items", i,
            [sent |-> body, columns |-> Changes(items[i], Merge(body, items[i]))]))
    /\ UNCHANGED <<raced, itemVars>>

\* The file stays behind, and so does its record.
DestroyItem(p, i) ==
    /\ Free(p)
    /\ i \in Items
    /\ Go(p, Delete("config_items", i))
    /\ UNCHANGED <<raced, itemVars>>

\* An UPDATE or DELETE of a row that is gone is an error, and an id is never
\* given twice.
Unaddressed(i) == \A q \in Proc : Pending(q, "config_items") /\ request[q].op # "insert"
                                    => request[q].id # i

CommitItem(p) ==
    /\ Pending(p, "config_items")
    /\ LET r == request[p] IN
       \/ /\ r.op = "insert"
          /\ \E i \in Item \ Items : /\ Unaddressed(i)
                                  /\ items' = [items EXCEPT ![i] = r.row]
       \/ /\ r.op = "update"
          /\ items' = IF r.id \in Items
                      THEN [items EXCEPT ![r.id] = Merge(r.write.columns, @)] ELSE items
       \/ /\ r.op = "delete"
          /\ items' = [items EXCEPT ![r.id] = NoItem]
    /\ Commit(p, "config_items")
    /\ UNCHANGED <<files, disk, uploads, doubtful>>

-----------------------------------------------------------------------------
(***************************************************************************)
(* The files.                                                              *)
(***************************************************************************)
FileItem(p, i) == Free(p) /\ i \in Items /\ items[i].type = "file"

\* UploadedFileService.store: the path is written before the row.
UploadFirst(p, i) ==
    /\ FileItem(p, i) /\ items[i].file = NoFile
    /\ uploads < MaxUploads
    /\ uploads' = uploads + 1
    /\ disk' = disk \cup {uploads + 1}
    /\ Go(p, Insert("files", [item |-> i, path |-> uploads + 1]))
    /\ UNCHANGED <<raced, items, files, doubtful>>

\* UploadedFileService.replace: the old path goes before the commit.
UploadAgainMutant(p, i) ==
    /\ FileItem(p, i) /\ items[i].file # NoFile
    /\ uploads < MaxUploads
    /\ uploads' = uploads + 1
    /\ disk' = disk
    /\ Go(p, Update("files", items[i].file, [item |-> i, path |-> uploads + 1]))
    /\ UNCHANGED <<raced, items, files, doubtful>>

UploadAgain(p, i) ==
    /\ FileItem(p, i) /\ items[i].file # NoFile
    /\ uploads < MaxUploads
    /\ uploads' = uploads + 1
    /\ disk' = (disk \ {files[items[i].file]}) \cup {uploads + 1}
    /\ Go(p, Update("files", items[i].file, [item |-> i, path |-> uploads + 1]))
    /\ UNCHANGED <<raced, items, files, doubtful>>

\* UploadedFileService.delete: unlink first.
DeleteFile(p, i) ==
    /\ FileItem(p, i) /\ items[i].file # NoFile
    /\ disk' = disk \ {files[items[i].file]}
    /\ Go(p, [Update("files", items[i].file, [item |-> i]) EXCEPT !.op = "delete"])
    /\ UNCHANGED <<raced, items, files, uploads, doubtful>>

InsertFile(row) ==
    IF row.item \notin Items THEN UNCHANGED <<items, files, doubtful>>
    ELSE /\ files' = [files EXCEPT ![row.path] = row.path]
         /\ items' = [items EXCEPT ![row.item].file = row.path]
         /\ UNCHANGED doubtful

ReplaceFile(f, path) ==
    IF files[f] = NoFile THEN UNCHANGED <<items, files, doubtful>>
    ELSE /\ files' = [files EXCEPT ![f] = path]
         /\ doubtful' = doubtful \ {f}
         /\ UNCHANGED items

\* The row of files goes first, while an item still refers to it: the foreign
\* key refuses.  Only an upload that landed meanwhile, and left that row to
\* nobody, lets the DELETE through.
DropFile(f, i) ==
    IF (\E j \in Items : items[j].file = f) \/ i \notin Items \/ files[f] = NoFile
    THEN /\ doubtful' = doubtful \cup {f}
         /\ UNCHANGED <<items, files>>
    ELSE /\ files' = [files EXCEPT ![f] = NoFile]
         /\ items' = [items EXCEPT ![i].file = NoFile]
         /\ UNCHANGED doubtful

CommitFile(p) ==
    /\ Pending(p, "files")
    /\ LET r == request[p] IN
       \/ r.op = "insert" /\ InsertFile(r.row)
       \/ r.op = "update" /\ ReplaceFile(r.id, r.write.path)
       \/ r.op = "delete" /\ DropFile(r.id, r.write.item)
    /\ Commit(p, "files")
    /\ UNCHANGED <<disk, uploads>>

\* The record whose path the request has unlinked.
WorksOn(p, f) == Pending(p, "files") /\ request[p].op # "insert" /\ request[p].id = f

\* What a dying request has done to the disk stays done.
DropItemRequest(p) ==
    /\ Drop(p)
    /\ doubtful' = doubtful \cup {f \in FileId : WorksOn(p, f)}
    /\ UNCHANGED <<items, files, disk, uploads>>

-----------------------------------------------------------------------------
ItemsInit ==
    /\ items = [i \in Item |-> NoItem]
    /\ files = [f \in FileId |-> NoFile]
    /\ disk = {}
    /\ uploads = 0
    /\ doubtful = {}

DefinitionsNext(p) ==
    \/ \E c \in Category, k \in Token : StoreItem(p, c, k, "file")
    \/ \E i \in Items :
         \/ DestroyItem(p, i)
         \/ \E c \in Category, k \in Token :
              \/ UpdateDefinition(p, i, {<<"category", c>>})
              \/ UpdateDefinition(p, i, {<<"token", k>>})
              \/ UpdateDefinition(p, i, {<<"category", c>>, <<"token", k>>})
    \/ CommitItem(p)

FilesNext(p) ==
    \/ \E i \in Items :
         \/ UploadFirst(p, i) \/ UploadAgain(p, i) \/ DeleteFile(p, i)
         \/ DestroyItem(p, i)
         \/ \E type \in {"file", "text"} : UpdateDefinition(p, i, {<<"type", type>>})
    \/ CommitFile(p)
    \/ CommitItem(p)

-----------------------------------------------------------------------------
(***************************************************************************)
(* Properties.                                                             *)
(***************************************************************************)
ItemsTypeOK ==
    /\ \A i \in Items : items[i] \in
         [category : Category, token : Token, type : {"file", "text"}, file : Files \cup {NoFile}]
    /\ files \in [FileId -> 0 .. uploads]
    /\ disk \subseteq 1 .. uploads
    /\ doubtful \subseteq FileId

(***************************************************************************)
(* "Validar token unico por categoria": two items of a category come to    *)
(* share a token only by a write that was overtaken, by an update that     *)
(* moves the category and does not send the token, which is not checked,   *)
(* or by one that empties the category, whose token is checked in the old. *)
(***************************************************************************)
SameToken == {pair \in Items \X Items :
                 /\ pair[1] # pair[2]
                 /\ items[pair[1]].token = items[pair[2]].token
                 /\ items[pair[1]].category = items[pair[2]].category}

TokenClashHasACause ==
    [][~(SameToken' \subseteq SameToken) =>
         \E p \in Proc : /\ Pending(p, "config_items") /\ request'[p] = Idle
                         /\ \/ ~request[p].fresh
                            \/ /\ request[p].op = "update"
                               /\ \/ Written(request[p].write.sent, "token") = {}
                                  \/ Empty \in Written(request[p].write.sent, "category")
      ]_<<itemVars, request>>

(***************************************************************************)
(* An upload that commits can be downloaded: its record points to a path   *)
(* on the disk, whatever other uploads of the same item, deletions and     *)
(* crashes overlapped.                                                     *)
(***************************************************************************)
UploadIsServed ==
    [][\A f \in FileId : files'[f] # files[f] /\ files'[f] # NoFile => files'[f] \in disk'
      ]_<<itemVars, request>>

(***************************************************************************)
(* A record lacks its file only while a request is at work on it, or after *)
(* one unlinked the path and did not commit.                               *)
(***************************************************************************)
MissingFileHasACause ==
    \A f \in Files : files[f] \in disk \/ f \in doubtful \/ \E p \in Proc : WorksOn(p, f)
=============================================================================
