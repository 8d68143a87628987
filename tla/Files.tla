------------------------------- MODULE Files --------------------------------
(***************************************************************************)
(* Attachments: a row of the table names a blob in a storage backend.  Row *)
(* and blob are written by separate steps: an upload writes the blob and   *)
(* then the row, a delete and the retention job remove the row and then    *)
(* the blob, and the migration command copies the blob, points the row at  *)
(* the copy and may then remove the original.  An id is the hash of the    *)
(* content, so every upload of an id writes the same bytes.                *)
(*                                                                         *)
(* A file system write fills "<key>.tmp" and renames it; two writers of a  *)
(* key share the temporary file.  The server uses the backend it was       *)
(* configured with at its start, whatever a row says.                      *)
(*                                                                         *)
(* Abstracted: the manifest (a request that reaches Upload passed its      *)
(* checks and the hash check), sizes, ranges, ages (any row may be due).   *)
(***************************************************************************)
EXTENDS RoomAccess

CONSTANTS NoRoom,     \* room_id of an avatar
          FileIds,    \* content hashes
          Workers,    \* requests and cleanup jobs the server runs at a time
          Cli         \* the storage migration command, another process

VARIABLES rows,     \* the attachments table
          disk,     \* disk[b][f]: what backend b holds under the key of f
          temp,     \* temp[f]: "<key>.tmp" of the file system backend
          jobs,     \* the operations under way
          serving,  \* the backend of the running server
          raced     \* history: ids two operations have overlapped on

files == <<rows, disk, temp, jobs, serving, raced>>

Backends == {"fs", "s3"}
Contents == {"none", "partial", "full"}
Procs == Workers \cup {Cli}
NoRow == [room |-> NoRoom, by |-> Cli, backend |-> "fs"]
Idle == [at |-> "idle", ids |-> {}, room |-> NoRoom, by |-> Cli, src |-> "fs",
         dst |-> "fs", then |-> "end", handle |-> "temp", remove |-> FALSE]

Rows == [room : Rooms \cup {NoRoom}, by : Users, backend : Backends] \cup {NoRow}
Jobs == [at : {"idle", "look", "read", "create", "fill", "rename", "insert",
               "verify", "update", "drop", "unlink"},
         ids : SUBSET FileIds, room : Rooms \cup {NoRoom}, by : Users \cup {Cli},
         src : Backends, dst : Backends, then : {"insert", "verify", "end"},
         handle : {"temp", "path", "gone"}, remove : BOOLEAN]

Stored(f) == rows[f] # NoRow
Id(p) == CHOOSE f \in jobs[p].ids : TRUE

FilesInit ==
  /\ rows = [f \in FileIds |-> NoRow]
  /\ disk = [b \in Backends |-> [f \in FileIds |-> "none"]]
  /\ temp = [f \in FileIds |-> "none"]
  /\ jobs = [p \in Procs |-> Idle]
  /\ serving \in Backends
  /\ raced = {}

Begin(p, job) ==
  /\ jobs[p] = Idle
  /\ jobs' = [jobs EXCEPT ![p] = job]
  /\ raced' = raced \cup {f \in job.ids : \E q \in Procs : f \in jobs[q].ids}
  /\ UNCHANGED <<access, rows, disk, temp, serving>>

(* An operation that is done, or gives up, keeps nothing: what it has      *)
(* written stays.                                                          *)
Goto(p, at) ==
  jobs' = [jobs EXCEPT ![p] = IF at = "end" THEN Idle ELSE [@ EXCEPT !.at = at]]

-----------------------------------------------------------------------------
(* What the server's requests and its cleanup job start.                   *)

(* An attachment of a room, or an avatar of the user.                      *)
Upload(p, u, r, f) ==
  /\ r = NoRoom \/ IsMember(r, u)
  /\ Begin(p, [Idle EXCEPT !.at = "look", !.ids = {f}, !.room = r, !.by = u,
                           !.src = serving, !.dst = serving, !.then = "insert"])

(* Only the uploader deletes; the row is read in a statement of its own.   *)
Delete(p, u, f) ==
  /\ Stored(f) /\ rows[f].by = u
  /\ Begin(p, [Idle EXCEPT !.at = "drop", !.ids = {f}, !.src = serving])

(* The retention job selects the rows of a room that are due.              *)
Prune(p, r, due) ==
  /\ due # {} /\ \A f \in due : Stored(f) /\ rows[f].room = r
  /\ Begin(p, [Idle EXCEPT !.at = "drop", !.ids = due, !.src = serving])

(* What a request for an attachment finds: the uploader's own files, and   *)
(* those of the rooms the user is a member of.                             *)
MayRead(u, f) ==
  Stored(f) /\ (rows[f].by = u \/ IsMember(rows[f].room, u))

(* A download reads the blob from the backend of the server.               *)
Served(f) == disk[serving][f]

-----------------------------------------------------------------------------
(* The steps of an upload.                                                 *)

(* Variant: the row is inserted before the blob is written.                *)
LookRowFirst(p) ==
  /\ jobs[p].at = "look"
  /\ LET f == Id(p)
         j == jobs[p]
     IN  IF Stored(f) THEN Goto(p, "end") /\ UNCHANGED rows
         ELSE /\ jobs' = [jobs EXCEPT ![p].at = "create", ![p].then = "end"]
              /\ rows' = [rows EXCEPT ![f] = [room |-> j.room, by |-> j.by,
                                             backend |-> j.dst]]
  /\ UNCHANGED <<access, disk, temp, serving, raced>>

Look(p) ==
  /\ jobs[p].at = "look"
  /\ LET f == Id(p)
         j == jobs[p]
         same == rows[f].room = j.room /\ rows[f].by = j.by
     IN  jobs' = [jobs EXCEPT ![p] =
           IF ~Stored(f) THEN [j EXCEPT !.at = "create"]
           ELSE IF same /\ disk[j.dst][f] = "none"
                THEN [j EXCEPT !.at = "create", !.then = "end"]
                ELSE Idle]
  /\ UNCHANGED <<access, rows, disk, temp, serving, raced>>

(* A row of the id inserted meanwhile, or a room deleted meanwhile, makes  *)
(* the INSERT fail.                                                        *)
Insert(p) ==
  /\ jobs[p].at = "insert"
  /\ LET f == Id(p)
         j == jobs[p]
     IN  rows' = IF Stored(f) \/ j.room \notin rooms \cup {NoRoom} THEN rows
                 ELSE [rows EXCEPT ![f] = [room |-> j.room, by |-> j.by,
                                           backend |-> j.dst]]
  /\ Goto(p, "end")
  /\ UNCHANGED <<access, disk, temp, serving, raced>>

-----------------------------------------------------------------------------
(* Storage::write.                                                         *)

Create(p) ==
  /\ jobs[p].at = "create" /\ jobs[p].dst = "fs"
  /\ temp' = [temp EXCEPT ![Id(p)] = "partial"]
  /\ jobs' = [jobs EXCEPT ![p].at = "fill", ![p].handle = "temp"]
  /\ UNCHANGED <<access, rows, disk, serving, raced>>

(* The bytes go to the file that was opened, wherever a rename by another  *)
(* writer has put it; while that writer still fills it, it may stay partial *)
(* (the other may have truncated it).                                      *)
Fill(p) ==
  /\ jobs[p].at = "fill"
  /\ LET f == Id(p)
         h == jobs[p].handle
         alone == \A q \in Procs \ {p} : ~(f \in jobs[q].ids /\ jobs[q].at = "fill"
                                           /\ jobs[q].handle = h)
     IN  \E c \in IF alone THEN {"full"} ELSE {"partial", "full"} :
           /\ temp' = IF h = "temp" THEN [temp EXCEPT ![f] = c] ELSE temp
           /\ disk' = IF h = "path" THEN [disk EXCEPT !["fs"][f] = c] ELSE disk
  /\ Goto(p, "rename")
  /\ UNCHANGED <<access, rows, serving, raced>>

(* The files other writers hold open move along, or are replaced.          *)
Moved(js, p, f) ==
  [q \in Procs |->
     IF q # p /\ f \in js[q].ids /\ js[q].at = "fill"
     THEN [js[q] EXCEPT !.handle = IF @ = "temp" THEN "path" ELSE "gone"]
     ELSE js[q]]

(* With the temporary file gone the rename fails, and the operation.       *)
Rename(p) ==
  /\ jobs[p].at = "rename"
  /\ LET f == Id(p)
         next == jobs[p].then
     IN  IF temp[f] = "none" THEN Goto(p, "end") /\ UNCHANGED <<disk, temp>>
         ELSE /\ disk' = [disk EXCEPT !["fs"][f] = temp[f]]
              /\ temp' = [temp EXCEPT ![f] = "none"]
              /\ jobs' = [Moved(jobs, p, f) EXCEPT ![p] =
                            IF next = "end" THEN Idle ELSE [@ EXCEPT !.at = next]]
  /\ UNCHANGED <<access, rows, serving, raced>>

Put(p) ==
  /\ jobs[p].at = "create" /\ jobs[p].dst = "s3"
  /\ disk' = [disk EXCEPT !["s3"][Id(p)] = "full"]
  /\ Goto(p, jobs[p].then)
  /\ UNCHANGED <<access, rows, temp, serving, raced>>

(* The backend or the disk refuses a write.                                *)
WriteFails(p) ==
  /\ jobs[p].at \in {"create", "fill", "rename"}
  /\ Goto(p, "end")
  /\ UNCHANGED <<access, rows, disk, temp, serving, raced>>

-----------------------------------------------------------------------------
(* The steps of a removal.                                                 *)

Drop(p) ==
  /\ jobs[p].at = "drop"
  /\ rows' = [f \in FileIds |-> IF f \in jobs[p].ids THEN NoRow ELSE rows[f]]
  /\ Goto(p, "unlink")
  /\ UNCHANGED <<access, disk, temp, serving, raced>>

Unlinked(js, p, f, b) ==
  [q \in Procs |->
     IF q # p /\ b = "fs" /\ f \in js[q].ids /\ js[q].at = "fill" /\ js[q].handle = "path"
     THEN [js[q] EXCEPT !.handle = "gone"] ELSE js[q]]

(* A blob that cannot be removed is logged and left.                       *)
Unlink(p) ==
  /\ jobs[p].at = "unlink"
  /\ \E f \in jobs[p].ids :
       LET b == jobs[p].src
           left == jobs[p].ids \ {f}
       IN  /\ \E c \in {"none", disk[b][f]} : disk' = [disk EXCEPT ![b][f] = c]
           /\ jobs' = [Unlinked(jobs, p, f, b) EXCEPT ![p] =
                         IF left = {} THEN Idle ELSE [@ EXCEPT !.ids = left]]
  /\ UNCHANGED <<access, rows, temp, serving, raced>>

-----------------------------------------------------------------------------
(* The migration of one row selected by its backend.                       *)

Move(f, to, remove) ==
  /\ Stored(f) /\ rows[f].backend # to
  /\ Begin(Cli, [Idle EXCEPT !.at = "read", !.ids = {f}, !.src = rows[f].backend,
                             !.dst = to, !.then = "verify", !.remove = remove])

(* The hash of what was read must be the id.                               *)
ReadSource ==
  /\ jobs[Cli].at = "read"
  /\ Goto(Cli, IF disk[jobs[Cli].src][Id(Cli)] = "full" THEN "create" ELSE "end")
  /\ UNCHANGED <<access, rows, disk, temp, serving, raced>>

Verify ==
  /\ jobs[Cli].at = "verify"
  /\ Goto(Cli, IF disk[jobs[Cli].dst][Id(Cli)] = "full" THEN "update" ELSE "end")
  /\ UNCHANGED <<access, rows, disk, temp, serving, raced>>

(* The UPDATE may find no row any more; the original goes all the same.    *)
Update ==
  /\ jobs[Cli].at = "update"
  /\ LET f == Id(Cli)
     IN  rows' = IF Stored(f) THEN [rows EXCEPT ![f].backend = jobs[Cli].dst] ELSE rows
  /\ Goto(Cli, IF jobs[Cli].remove THEN "unlink" ELSE "end")
  /\ UNCHANGED <<access, disk, temp, serving, raced>>

-----------------------------------------------------------------------------
(* The server is killed and comes back, perhaps configured for the other   *)
(* backend; the command is killed.                                         *)
RestartFiles ==
  /\ jobs' = [p \in Procs |-> IF p = Cli THEN jobs[p] ELSE Idle]
  /\ serving' \in Backends
  /\ UNCHANGED <<rows, disk, temp, raced>>

KillCli ==
  /\ jobs[Cli] # Idle
  /\ Goto(Cli, "end")
  /\ UNCHANGED <<access, rows, disk, temp, serving, raced>>

(* Rows of a deleted room go with it; its blobs stay.                      *)
CascadeFiles(r) ==
  /\ rows' = [f \in FileIds |-> IF rows[f].room = r THEN NoRow ELSE rows[f]]
  /\ UNCHANGED <<disk, temp, jobs, serving, raced>>

FilesNext ==
  \/ \E p \in Workers, u \in Users, f \in FileIds :
       \/ \E r \in rooms \cup {NoRoom} : Upload(p, u, r, f)
       \/ Delete(p, u, f)
  \/ \E p \in Workers, r \in rooms, due \in SUBSET FileIds : Prune(p, r, due)
  \/ \E p \in Procs :
       \/ Look(p) \/ Insert(p) \/ Create(p) \/ Fill(p) \/ Rename(p) \/ Put(p)
       \/ WriteFails(p) \/ Drop(p) \/ Unlink(p)
  \/ \E f \in FileIds, to \in Backends, remove \in BOOLEAN : Move(f, to, remove)
  \/ ReadSource \/ Verify \/ Update \/ KillCli

-----------------------------------------------------------------------------
FilesTypeOK ==
  /\ rows \in [FileIds -> Rows]
  /\ disk \in [Backends -> [FileIds -> Contents]]
  /\ temp \in [FileIds -> Contents]
  /\ jobs \in [Procs -> Jobs]
  /\ serving \in Backends
  /\ raced \subseteq FileIds

(* As long as no two operations on an id overlap, a row never points at a  *)
(* blob its backend does not hold whole: not between the steps of an       *)
(* upload, a delete, the retention job or a migration, not after a kill of *)
(* the server or the command between any two of them, not after a failed   *)
(* write, and whichever backend the server was restarted on.               *)
RowReadable ==
  \A f \in FileIds \ raced :
    Stored(f) => disk[rows[f].backend][f] = "full"

(* Not so, although every row is readable: a server still configured for   *)
(* the backend a migration has emptied serves none of its files.           *)
ReadersServed ==
  \A u \in Users, f \in FileIds \ raced : MayRead(u, f) => Served(f) = "full"

(* Not so: the blob of a row that could not be inserted, or that went with *)
(* its room, and what a killed delete leaves, is never looked for again.   *)
NoOrphans ==
  \A b \in Backends, f \in FileIds :
    disk[b][f] # "none" => Stored(f) \/ \E p \in Procs : f \in jobs[p].ids
=============================================================================
