--------------------------- MODULE AttachmentFiles ---------------------------
(***************************************************************************)
(* Attachments: rows of the database and files on disk.  A handler writes  *)
(* the file before it commits the row; services/attachment_files.py        *)
(* removes a file once the deletion of its row has been committed.  The    *)
(* files of an owner (a case, an execution, a result, a bug or a version)  *)
(* go with it.  A backup (services/backup.py) dumps the tables and then    *)
(* copies the files, a restore (services/restore.py) brings both back.     *)
(***************************************************************************)
EXTENDS Naturals, FiniteSets

CONSTANTS
  Workers,       \* the threads that serve requests
  Owners,        \* what has attachments, at the start
  MaxFiles,      \* bound: files written in all
  MaxRequests    \* bound: requests served in all

Paths == 1 .. MaxFiles    \* unique_path: a path is never given twice

VARIABLES
  serial,     \* requests are served one at a time
  owners,     \* the owners there are
  rows,       \* the attachment tables: rows [path, owner]
  disk,       \* the files under UPLOAD_DIR
  archive,    \* the last backup: {} or one record [owners, rows, files]
  req,        \* what each worker is doing
  written,    \* paths given so far
  requests,   \* requests begun so far
  died,       \* history: a worker died, or a commit or a restore failed
  torn        \* history: files removed during a backup, or touched during a restore

vars == <<serial, owners, rows, disk, archive, req, written, requests, died, torn>>

Idle == [op |-> "none"]
PathsOf(set) == {r.path : r \in set}
RowsOf(o) == {r \in rows : r.owner = o}

TypeOK ==
  /\ owners \subseteq Owners
  /\ rows \subseteq [path : 1 .. written, owner : owners]
  /\ disk \subseteq 1 .. written /\ torn \subseteq Paths
  /\ Cardinality(archive) <= 1
  /\ \A a \in archive : a.files \subseteq 1 .. written

Init ==
  /\ serial \in BOOLEAN
  /\ owners = Owners /\ rows = {} /\ disk = {} /\ archive = {}
  /\ req = [w \in Workers |-> Idle]
  /\ written = 0 /\ requests = 0
  /\ died = FALSE /\ torn = {}

Does(w, op) == req[w].op = op
Becomes(w, r) == req' = [req EXCEPT ![w] = r]
Answered(w) == Becomes(w, Idle)
Some(ops) == \E w \in Workers : req[w].op \in ops
Restoring == Some({"wipe", "copy"})

Serve(w) ==
  /\ Does(w, "none") /\ requests < MaxRequests
  /\ serial => \A v \in Workers : Does(v, "none")
  /\ requests' = requests + 1

\* The files that other requests are about, when a restore begins or is cut short.
InHand ==
  UNION {req[w].paths : w \in {v \in Workers : req[v].op \in {"insert", "delete", "remove", "list", "zip"}}}

-----------------------------------------------------------------------------
(* Uploads and deletions.                                                  *)
\* upload_attachment and its four siblings, up to the commit.
Write(w, o) ==
  /\ Serve(w)
  /\ o \in owners /\ written < MaxFiles
  /\ written' = written + 1
  /\ disk' = disk \union {written + 1}
  /\ Becomes(w, [op |-> "insert", owner |-> o, paths |-> {written + 1}])
  /\ torn' = IF Restoring THEN torn \union {written + 1} ELSE torn
  /\ UNCHANGED <<serial, owners, rows, archive, died>>

\* The foreign key refuses a row of an owner that is gone; its file stays.
CommitInsert(w) ==
  LET r == req[w] IN
  /\ r.op = "insert"
  /\ IF r.owner \in owners
     THEN rows' = rows \union {[path |-> p, owner |-> r.owner] : p \in r.paths} /\ UNCHANGED died
     ELSE died' = TRUE /\ UNCHANGED rows
  /\ Answered(w)
  /\ UNCHANGED <<serial, owners, disk, archive, written, requests, torn>>

\* Mutant: the file is removed when it is noted.
DeletesFileFirst(w, r) ==
  /\ Serve(w)
  /\ disk' = disk \ {r.path}
  /\ Becomes(w, [op |-> "delete", owner |-> {}, paths |-> {r.path}])
  /\ UNCHANGED <<serial, owners, rows, archive, written, died, torn>>

\* delete_attachment and its siblings; _collect_deleted_files notes the path.
BeginDelete(w, r) ==
  /\ Serve(w)
  /\ Becomes(w, [op |-> "delete", owner |-> {}, paths |-> {r.path}])
  /\ UNCHANGED <<serial, owners, rows, disk, archive, written, died, torn>>

\* An owner is deleted, with the rows of attachments that the session finds.
BeginDeleteOwner(w, o) ==
  /\ Serve(w)
  /\ o \in owners
  /\ Becomes(w, [op |-> "delete", owner |-> {o}, paths |-> PathsOf(RowsOf(o))])
  /\ UNCHANGED <<serial, owners, rows, disk, archive, written, died, torn>>

\* The rows that were not found go by the foreign key, and their files stay.
CommitDelete(w) ==
  LET r == req[w]
      cascade == {a \in rows : a.owner \in r.owner /\ a.path \notin r.paths}
  IN
  /\ r.op = "delete"
  /\ owners' = owners \ r.owner
  /\ rows' = {a \in rows : a.path \notin r.paths /\ a.owner \notin r.owner}
  /\ died' = (died \/ cascade # {})
  /\ Becomes(w, [r EXCEPT !.op = "remove"])
  /\ UNCHANGED <<serial, disk, archive, written, requests, torn>>

\* _remove_collected_files, after the commit.
Remove(w) ==
  LET r == req[w] IN
  /\ r.op = "remove"
  /\ disk' = disk \ r.paths
  /\ torn' = IF Some({"list", "wipe", "copy"}) THEN torn \union r.paths ELSE torn
  /\ Answered(w)
  /\ UNCHANGED <<serial, owners, rows, archive, written, requests, died>>

\* A worker dies: what it has committed and written stays.
Die(w) ==
  /\ ~Does(w, "none")
  /\ Answered(w)
  /\ died' = TRUE
  /\ torn' = IF Does(w, "wipe") \/ Does(w, "copy") THEN torn \union PathsOf(rows) \union InHand ELSE torn
  /\ UNCHANGED <<serial, owners, rows, disk, archive, written, requests>>

-----------------------------------------------------------------------------
(* Backups.                                                                *)
\* create_backup: _dump_database
Dump(w) ==
  /\ Serve(w)
  /\ Becomes(w, [op |-> "list", paths |-> PathsOf(rows), owners |-> owners, rows |-> rows])
  /\ UNCHANGED <<serial, owners, rows, disk, archive, written, died, torn>>

\* _add_uploads_tree: os.walk finds the files,
List(w) ==
  /\ Does(w, "list")
  /\ Becomes(w, [op |-> "zip", paths |-> req[w].paths, owners |-> req[w].owners,
                 rows |-> req[w].rows, files |-> disk])
  /\ torn' = IF Restoring THEN torn \union req[w].paths ELSE torn
  /\ UNCHANGED <<serial, owners, rows, disk, archive, written, requests, died>>

\* and the backup fails if one is gone when its turn comes.
Zip(w) ==
  LET r == req[w] IN
  /\ r.op = "zip"
  /\ archive' = IF r.files \subseteq disk
                THEN {[owners |-> r.owners, rows |-> r.rows, files |-> r.files]} ELSE archive
  /\ Answered(w)
  /\ UNCHANGED <<serial, owners, rows, disk, written, requests, died, torn>>

\* restore_backup: _apply_dump in one transaction; if it fails nothing is touched.
ApplyDump(w, a) ==
  /\ Serve(w)
  /\ ~Restoring
  /\ \/ /\ owners' = a.owners /\ rows' = a.rows
        /\ Becomes(w, [op |-> "wipe", files |-> a.files])
        /\ torn' = torn \union InHand
     \/ UNCHANGED <<owners, rows, req, torn>>
  /\ UNCHANGED <<serial, disk, archive, written, died>>

\* _restore_uploads: what is there goes first.
Wipe(w) ==
  /\ Does(w, "wipe")
  /\ disk' = {}
  /\ torn' = torn \union {p \in PathsOf(rows) : p \notin req[w].files}
  /\ Becomes(w, [req[w] EXCEPT !.op = "copy"])
  /\ UNCHANGED <<serial, owners, rows, archive, written, requests, died>>

CopyBack(w) ==
  /\ Does(w, "copy")
  /\ disk' = disk \union req[w].files
  /\ Answered(w)
  /\ UNCHANGED <<serial, owners, rows, archive, written, requests, died, torn>>

Next ==
  \E w \in Workers :
    \/ \E o \in owners : Write(w, o) \/ BeginDeleteOwner(w, o)
    \/ \E r \in rows : BeginDelete(w, r)
    \/ CommitInsert(w) \/ CommitDelete(w) \/ Remove(w) \/ Die(w)
    \/ Dump(w) \/ List(w) \/ Zip(w)
    \/ \E a \in archive : ApplyDump(w, a)
    \/ Wipe(w) \/ CopyBack(w)

Spec == Init /\ [][Next]_vars

-----------------------------------------------------------------------------
\* attachment_files.py: a worker that dies or a commit that is rolled back "never leaves a
\* row pointing at a missing file"; only a restore that other requests overlap does.
RowsHaveFiles == ~Restoring => PathsOf(rows) \subseteq disk \union torn

\* A backup has the file of every row it has, whatever was uploaded meanwhile, unless the
\* file was removed between the dump and the copy.
BackupsComplete == \A a \in archive : PathsOf(a.rows) \subseteq a.files \union torn

\* Served one at a time, requests that end leave no file without a row.
FilesHaveRows ==
  serial /\ ~died /\ (\A w \in Workers : Does(w, "none")) => disk = PathsOf(rows)

FilesHold == TypeOK /\ RowsHaveFiles /\ BackupsComplete /\ FilesHaveRows
=============================================================================
