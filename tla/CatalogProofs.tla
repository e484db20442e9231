---------------------------- MODULE CatalogProofs ----------------------------
(***************************************************************************)
(* Theorems about what a project keeps: the files of attachments and of    *)
(* backups, the values of custom fields, environments and versions, the    *)
(* tree of suites, and the revisions of cases, as MCCatalog puts these     *)
(* machines next to each other.                                            *)
(***************************************************************************)
EXTENDS MCCatalog, FiniteSetTheorems, SequenceTheorems, NaturalsInduction, TLAPS

catalogVars ==
  <<part, serial, requests, suiteVars, caseVars, fieldVars, environmentVars, fileVars>>

-----------------------------------------------------------------------------
(* Why FilesHold is kept.  A file is needed while a row, an upload before   *)
(* its commit or a dump names it, and it is then on disk, or among those a  *)
(* restore will copy, unless it was torn.                                   *)

FileOps == {"none", "insert", "delete", "remove", "list", "zip", "wipe", "copy"}
Restores == {"wipe", "copy"}

DumpHolds(d) ==
  d.owners \subseteq Owners /\ d.rows \subseteq [path : 1 .. written, owner : d.owners]
CopyHolds(d) ==
  /\ DumpHolds(d) /\ d.files \subseteq 1 .. written
  /\ A!PathsOf(d.rows) \subseteq d.files \union torn

HandlerHolds(r) ==
  /\ r.op \in FileOps
  /\ r.op = "none" => r = A!Idle
  /\ r.op = "insert" => r.paths \subseteq 1 .. written
  /\ r.op \in {"delete", "remove"} =>
       r.paths \subseteq 1 .. written /\ r = [op |-> r.op, owner |-> r.owner, paths |-> r.paths]
  /\ r.op \in {"list", "zip"} => r.paths = A!PathsOf(r.rows) /\ DumpHolds(r)
  /\ r.op = "zip" => CopyHolds(r)
  /\ r.op \in Restores => r.files \subseteq 1 .. written /\ r = [op |-> r.op, files |-> r.files]

\* Each handler carries what it should, and one restore runs at a time.
HandlersHold ==
  /\ handling = [w \in Workers |-> handling[w]]
  /\ \A w \in Workers : HandlerHolds(handling[w])
  /\ \A v, w \in Workers : handling[v].op \in Restores /\ handling[w].op \in Restores => v = w

TablesHold ==
  /\ written \in 0 .. MaxFiles /\ owners \subseteq Owners
  /\ rows \subseteq [path : 1 .. written, owner : owners]
  /\ disk \subseteq 1 .. written /\ torn \subseteq A!Paths
  /\ \A a \in archive : CopyHolds(a)
  /\ \A a, b \in archive : a = b

Needed(p) ==
  \/ p \in A!PathsOf(rows)
  \/ \E w \in Workers : handling[w].op \in {"insert", "list"} /\ p \in handling[w].paths
Safe(p) ==
  \/ p \in torn
  \/ p \in disk /\ \A w \in Workers : handling[w].op \notin Restores
  \/ \E w \in Workers : handling[w].op \in Restores /\ p \in handling[w].files
FilesKept == \A p \in A!Paths : Needed(p) => Safe(p)

\* A file that is about to get its row, or to be removed, has none yet or no more.
FilesApart ==
  \A w \in Workers, p \in A!Paths \ torn :
    /\ handling[w].op \in {"insert", "remove"} /\ p \in handling[w].paths => p \notin A!PathsOf(rows)
    /\ handling[w].op = "insert" /\ p \in handling[w].paths =>
         \A v \in Workers \ {w} :
           handling[v].op \in {"insert", "delete", "remove"} => p \notin handling[v].paths

\* What the handler that is served alone still has to do.
Alone(r) ==
  /\ r.op = "insert" => r.owner \in owners /\ disk = A!PathsOf(rows) \union r.paths
  /\ r.op \in {"none", "delete", "list", "zip"} => disk = A!PathsOf(rows)
  /\ r.op = "remove" => A!PathsOf(rows) = disk \ r.paths
  /\ r.op = "list" => A!PathsOf(r.rows) = disk
  /\ r.op = "zip" => A!PathsOf(r.rows) = r.files
  /\ r.op \in Restores => A!PathsOf(rows) = r.files
  /\ r.op = "copy" => disk = {}
AloneHolds ==
  serial /\ ~died =>
    /\ \A a \in archive : a.files = A!PathsOf(a.rows)
    /\ (\A w \in Workers : handling[w].op = "none") => disk = A!PathsOf(rows)
    /\ \A w \in Workers : (\A v \in Workers \ {w} : handling[v].op = "none") => Alone(handling[w])
    /\ \A v, w \in Workers : handling[v].op # "none" /\ handling[w].op # "none" => v = w

FilesInd == HandlersHold /\ TablesHold /\ FilesKept /\ FilesApart /\ AloneHolds

\* The library and the models count alike.
LEMMA SameSize == \A set : A!Cardinality(set) = Cardinality(set)
  BY DEF Cardinality, A!Cardinality

\* The library and the model of custom fields count alike.
LEMMA SameSizeOfFields == \A set : F!Cardinality(set) = Cardinality(set)
  BY DEF Cardinality, F!Cardinality

\* The paths of more rows.
LEMMA PathsGrow ==
  ASSUME NEW set, NEW more, NEW paths, set \subseteq more,
         \A a \in more : a \in set \/ a.path \in paths,
         \A p \in paths : \E a \in more : a.path = p
  PROVE  A!PathsOf(more) = A!PathsOf(set) \union paths
  BY DEF A!PathsOf

\* The paths of fewer rows.
LEMMA PathsShrink ==
  ASSUME NEW set, NEW left, NEW paths, left \subseteq set, \A a \in left : a.path \notin paths
  PROVE  A!PathsOf(left) \subseteq A!PathsOf(set) \ paths
  BY DEF A!PathsOf

\* The paths of the rows that are left when all of some paths are gone.
LEMMA PathsLeft ==
  ASSUME NEW set, NEW left, NEW paths, left \subseteq set, \A a \in left : a.path \notin paths,
         \A a \in set : a.path \notin paths => a \in left
  PROVE  A!PathsOf(left) = A!PathsOf(set) \ paths
  BY DEF A!PathsOf

\* Paths are numbers of files.
LEMMA PathsTyped ==
  ASSUME NEW set, NEW n \in Nat, NEW of, set \subseteq [path : 1 .. n, owner : of]
  PROVE  A!PathsOf(set) \subseteq 1 .. n
  BY DEF A!PathsOf

\* Handler w goes on with r, and the others stay.
Moved(w, r) == handling'[w] = r /\ \A v \in Workers \ {w} : handling'[v] = handling[v]
\* Files are given and torn, never the reverse.
FilesOnward ==
  /\ written \in Nat /\ written' \in Nat /\ written <= written'
  /\ torn \subseteq torn'

\* One handler goes on.
LEMMA HandlerMoves ==
  ASSUME HandlersHold, NEW w \in Workers, NEW r, handling' = [handling EXCEPT ![w] = r]
  PROVE  Moved(w, r) /\ handling' = [v \in Workers |-> handling'[v]]
  BY DEF HandlersHold, Moved

\* A dump still names files that were written.
LEMMA DumpStays ==
  ASSUME NEW d, FilesOnward
  PROVE  (DumpHolds(d) => DumpHolds(d)') /\ (CopyHolds(d) => CopyHolds(d)')
<1>1. DumpHolds(d) => DumpHolds(d)'
  BY DEF DumpHolds, FilesOnward
<1>2. d.files \subseteq 1 .. written => d.files \subseteq 1 .. written'
  BY DEF FilesOnward
<1>3. A!PathsOf(d.rows) \subseteq d.files \union torn => A!PathsOf(d.rows) \subseteq d.files \union torn'
  BY DEF FilesOnward
<1> QED
  BY <1>1, <1>2, <1>3 DEF CopyHolds

\* A handler that is left alone holds what it held.
LEMMA HandlerStays ==
  ASSUME NEW r, HandlerHolds(r), FilesOnward
  PROVE  HandlerHolds(r)'
<1>1. DumpHolds(r) => DumpHolds(r)'
  BY DumpStays
<1>2. CopyHolds(r) => CopyHolds(r)'
  BY DumpStays
<1>3. 1 .. written \subseteq 1 .. written'
  BY DEF FilesOnward
<1> QED
  BY <1>1, <1>2, <1>3 DEF HandlerHolds

\* One handler goes on, and all hold what they should.
LEMMA HandlersStep ==
  ASSUME HandlersHold, NEW w \in Workers, NEW r, handling' = [handling EXCEPT ![w] = r],
         FilesOnward, HandlerHolds(r)',
         r.op \in Restores => \A v \in Workers \ {w} : handling[v].op \notin Restores
  PROVE  HandlersHold'
<1>1. Moved(w, r) /\ handling' = [v \in Workers |-> handling'[v]]
  BY HandlerMoves
<1>2. ASSUME NEW v \in Workers PROVE HandlerHolds(handling[v])'
  <2>1. CASE v = w
    BY <1>1, <2>1 DEF Moved
  <2>2. CASE v # w
    <3>1. PICK q : q = handling[v]
      OBVIOUS
    <3>2. HandlerHolds(q)
      BY <3>1 DEF HandlersHold
    <3>3. HandlerHolds(q)'
      BY <3>2, HandlerStays
    <3>4. handling'[v] = q
      BY <1>1, <2>2, <3>1 DEF Moved
    <3> QED
      BY <3>3, <3>4
  <2> QED
    BY <2>1, <2>2
<1>3. \A u, v \in Workers : handling'[u].op \in Restores /\ handling'[v].op \in Restores => u = v
  BY <1>1 DEF Moved, HandlersHold
<1> QED
  BY <1>1, <1>2, <1>3 DEF HandlersHold

\* A handler that restores nothing goes on.
LEMMA KeptStep ==
  ASSUME FilesKept, NEW w \in Workers, NEW r, Moved(w, r), torn \subseteq torn',
         handling[w].op \notin Restores, r.op \notin Restores,
         \A p \in A!Paths : p \in A!PathsOf(rows)' => Needed(p) \/ Safe(p)',
         r.op \in {"insert", "list"} => \A p \in r.paths : Needed(p) \/ Safe(p)',
         \A p \in A!Paths : Needed(p)' /\ p \in disk => p \in disk' \union torn'
  PROVE  FilesKept'
<1> SUFFICES ASSUME NEW p \in A!Paths, Needed(p)' PROVE Safe(p)'
  BY DEF FilesKept, A!Paths
<1>1. Needed(p) \/ Safe(p)'
  BY DEF Needed, Moved
<1>2. Safe(p) => Safe(p)'
  BY DEF Safe, Moved
<1> QED
  BY <1>1, <1>2 DEF FilesKept

\* A step that gives no row a file that a handler is to give or to remove.
LEMMA ApartStep ==
  ASSUME FilesApart, NEW w \in Workers, NEW r, Moved(w, r), torn \subseteq torn',
         r.op \in {"insert", "remove"} => \A p \in r.paths : p \notin A!PathsOf(rows)' \/ p \in torn',
         \A p \in A!PathsOf(rows)' :
           \/ p \in A!PathsOf(rows) \/ p \in torn'
           \/ handling[w].op = "insert" /\ p \in handling[w].paths,
         r.op = "insert" =>
           \A v \in Workers \ {w}, p \in r.paths :
             handling[v].op \in {"insert", "delete", "remove"} /\ p \in handling[v].paths => p \in torn',
         r.op \in {"delete", "remove"} =>
           \A v \in Workers \ {w}, p \in r.paths :
             handling[v].op = "insert" /\ p \in handling[v].paths => p \in torn'
  PROVE  FilesApart'
<1> SUFFICES ASSUME NEW v \in Workers, NEW p \in A!Paths, p \notin torn',
                    handling'[v].op \in {"insert", "remove"}, p \in handling'[v].paths
             PROVE  /\ p \notin A!PathsOf(rows)'
                    /\ handling'[v].op = "insert" => \A u \in Workers \ {v} :
                         handling'[u].op \in {"insert", "delete", "remove"} => p \notin handling'[u].paths
  BY DEF FilesApart, A!Paths
<1>1. p \in A!Paths \ torn
  OBVIOUS
<1>2. CASE v = w
  BY <1>1, <1>2 DEF Moved
<1>3. CASE v # w
  <2>1. handling'[v] = handling[v]
    BY <1>3 DEF Moved
  <2>2. p \notin A!PathsOf(rows)
    BY <1>1, <2>1 DEF FilesApart
  <2>3. ~(handling[w].op = "insert" /\ p \in handling[w].paths)
    BY <1>1, <1>3, <2>1 DEF FilesApart
  <2>4. p \notin A!PathsOf(rows)'
    BY <2>2, <2>3
  <2>5. ASSUME handling[v].op = "insert", NEW u \in Workers \ {v},
               handling'[u].op \in {"insert", "delete", "remove"}
        PROVE  p \notin handling'[u].paths
    <3>1. CASE u = w
      BY <1>3, <2>1, <2>5, <3>1 DEF Moved
    <3>2. CASE u # w
      BY <1>1, <2>1, <2>5, <3>2 DEF Moved, FilesApart
    <3> QED
      BY <3>1, <3>2
  <2> QED
    BY <2>1, <2>4, <2>5
<1> QED
  BY <1>2, <1>3

\* A step of the lone handler.
LEMMA AloneStep ==
  ASSUME AloneHolds, NEW w \in Workers, NEW r, Moved(w, r), serial' = serial, died => died',
         serial => (\A v \in Workers \ {w} : handling[v].op = "none") \/ handling[w].op # "none",
         serial /\ ~died' /\ Alone(handling[w]) /\ (\A a \in archive : a.files = A!PathsOf(a.rows)) =>
           Alone(r)' /\ \A a \in archive' : a.files = A!PathsOf(a.rows)
  PROVE  AloneHolds'
<1> SUFFICES ASSUME serial, ~died', ~died
             PROVE  /\ \A a \in archive' : a.files = A!PathsOf(a.rows)
                    /\ (\A v \in Workers : handling'[v].op = "none") => disk' = A!PathsOf(rows)'
                    /\ \A v \in Workers : (\A u \in Workers \ {v} : handling'[u].op = "none")
                         => Alone(handling[v])'
                    /\ \A u, v \in Workers : handling'[u].op # "none" /\ handling'[v].op # "none" => u = v
  BY DEF AloneHolds
<1>1. \A v \in Workers \ {w} : handling[v].op = "none"
  BY DEF AloneHolds
<1>2. Alone(handling[w]) /\ \A a \in archive : a.files = A!PathsOf(a.rows)
  BY <1>1 DEF AloneHolds
<1>3. Alone(r)' /\ \A a \in archive' : a.files = A!PathsOf(a.rows)
  BY <1>2
<1>4. \A u, v \in Workers : handling'[u].op # "none" /\ handling'[v].op # "none" => u = v
  BY <1>1 DEF Moved
<1>5. ASSUME NEW v \in Workers, \A u \in Workers \ {v} : handling'[u].op = "none"
      PROVE  Alone(handling[v])'
  <2>1. CASE v = w
    BY <1>3, <2>1 DEF Moved
  <2>2. CASE v # w
    <3>1. PICK q : q = handling'[v]
      OBVIOUS
    <3>2. q.op = "none" /\ r.op = "none"
      BY <1>1, <1>5, <2>2, <3>1 DEF Moved
    <3>3. Alone(q)'
      BY <1>3, <3>2 DEF Alone, Restores
    <3> QED
      BY <3>1, <3>3
  <2> QED
    BY <2>1, <2>2
<1>6. (\A v \in Workers : handling'[v].op = "none") => disk' = A!PathsOf(rows)'
  BY <1>3 DEF Moved, Alone
<1> QED
  BY <1>3, <1>4, <1>5, <1>6

\* A request is counted.
LEMMA ServesFiles ==
  ASSUME HandlersHold, NEW w \in Workers, A!Serve(w)
  PROVE  handling[w] = A!Idle /\ handling[w].op = "none"
         /\ (serial => \A v \in Workers \ {w} : handling[v].op = "none")
<1>1. handling[w].op = "none" /\ (serial => \A v \in Workers : handling[v].op = "none")
  BY DEF A!Serve, A!Does
<1> QED
  BY <1>1 DEF HandlersHold, HandlerHolds

\* What a handler holds are files that were written.
LEMMA HandlerPaths ==
  ASSUME HandlersHold, TablesHold, NEW v \in Workers,
         handling[v].op \in {"insert", "delete", "remove", "list", "zip"}
  PROVE  handling[v].paths \subseteq 1 .. written
<1>1. PICK r : r = handling[v]
  OBVIOUS
<1>2. HandlerHolds(r)
  BY <1>1 DEF HandlersHold
<1>3. CASE r.op \in {"insert", "delete", "remove"}
  BY <1>1, <1>2, <1>3 DEF HandlerHolds
<1>4. CASE r.op \in {"list", "zip"}
  <2>1. r.paths = A!PathsOf(r.rows) /\ r.rows \subseteq [path : 1 .. written, owner : r.owners]
    BY <1>2, <1>4 DEF HandlerHolds, DumpHolds
  <2>2. written \in Nat
    BY CatalogBounds DEF TablesHold
  <2> QED
    BY <1>1, <2>1, <2>2, PathsTyped
<1> QED
  BY <1>1, <1>3, <1>4

\* The tables, when the files do not change.
LEMMA TablesStep ==
  ASSUME TablesHold, FilesOnward, written' <= MaxFiles,
         owners' \subseteq Owners, rows' \subseteq [path : 1 .. written', owner : owners'],
         disk' \subseteq 1 .. written', torn' \subseteq A!Paths, archive' = archive
  PROVE  TablesHold'
<1>1. ASSUME NEW a \in archive PROVE CopyHolds(a)'
  <2>1. CopyHolds(a)
    BY DEF TablesHold
  <2> QED
    BY <2>1, DumpStays
<1> QED
  BY <1>1 DEF TablesHold, FilesOnward

\* A step that changes none of these variables.
fileState == <<serial, owners, rows, disk, archive, handling, written, died, torn>>

\* A step of another machine.
LEMMA FilesStill == FilesInd /\ UNCHANGED fileState => FilesInd'
  BY DEF fileState, FilesInd, HandlersHold, HandlerHolds, TablesHold, CopyHolds, DumpHolds, FilesKept, Needed, Safe,
   FilesApart, AloneHolds, Alone

\* What handlers have in hand are files that were written.
LEMMA InHandTyped ==
  ASSUME HandlersHold, TablesHold
  PROVE  A!InHand \subseteq A!Paths
<1>1. ASSUME NEW v \in Workers, handling[v].op \in {"insert", "delete", "remove", "list", "zip"}
      PROVE  handling[v].paths \subseteq 1 .. written
  BY <1>1, HandlerPaths
<1>2. A!InHand \subseteq 1 .. written
  BY <1>1 DEF A!InHand
<1> QED
  BY <1>2, CatalogBounds DEF TablesHold, A!Paths

\* An upload is written to disk, with no row yet.
LEMMA Written ==
  ASSUME FilesInd, NEW w \in Workers, NEW o, A!Write(w, o)
  PROVE  FilesInd'
<1>0. HandlersHold /\ TablesHold /\ FilesKept /\ FilesApart /\ AloneHolds
  BY DEF FilesInd
<1>1. PICK p : p = written + 1
  OBVIOUS
<1>2. /\ o \in owners /\ written < MaxFiles /\ written' = p /\ disk' = disk \union {p}
      /\ torn' = (IF A!Restoring THEN torn \union {p} ELSE torn)
      /\ UNCHANGED <<serial, owners, rows, archive, died>>
      /\ handling[w].op = "none" /\ A!Serve(w)
  BY <1>0, <1>1, ServesFiles DEF A!Write
<1>3. PICK r : r = [op |-> "insert", owner |-> o, paths |-> {p}]
  OBVIOUS
<1>4. r.op = "insert" /\ r.owner = o /\ r.paths = {p}
  BY <1>3
<1>5. handling' = [handling EXCEPT ![w] = r] /\ Moved(w, r)
  <2>1. handling' = [handling EXCEPT ![w] = r]
    BY <1>1, <1>3 DEF A!Write, A!Becomes
  <2> QED
    BY <1>0, <2>1, HandlerMoves
<1>6. written \in Nat /\ MaxFiles \in Nat /\ p \in Nat /\ written < p /\ p \in A!Paths
  BY <1>0, <1>1, <1>2, CatalogBounds DEF TablesHold, A!Paths
<1>7. FilesOnward
  BY <1>2, <1>6 DEF FilesOnward
<1>8. 1 .. written \subseteq 1 .. p /\ p \in 1 .. p /\ p \notin 1 .. written /\ p <= MaxFiles
  BY <1>1, <1>2, <1>6
<1>9. p \notin A!PathsOf(rows) /\ p \notin disk /\ \A v \in Workers :
        handling[v].op \in {"insert", "delete", "remove"} => p \notin handling[v].paths
  <2>1. p \notin A!PathsOf(rows)
    BY <1>0, <1>6, <1>8, PathsTyped DEF TablesHold
  <2> QED
    BY <1>0, <1>8, <2>1 DEF TablesHold, HandlersHold, HandlerHolds
<1>10. HandlerHolds(r)'
  BY <1>2, <1>4, <1>8 DEF HandlerHolds, FileOps, Restores
<1>11. HandlersHold'
  BY <1>0, <1>4, <1>5, <1>7, <1>10, HandlersStep DEF Restores
<1>12. TablesHold'
  <2>1. rows' \subseteq [path : 1 .. written', owner : owners'] /\ disk' \subseteq 1 .. written'
    BY <1>0, <1>2, <1>8 DEF TablesHold
  <2>2. torn' \subseteq A!Paths /\ owners' \subseteq Owners
    BY <1>0, <1>2, <1>6 DEF TablesHold
  <2> QED
    BY <1>0, <1>2, <1>7, <1>8, <2>1, <2>2, TablesStep
<1>13. FilesKept'
  <2>1. torn \subseteq torn' /\ disk \subseteq disk'
    BY <1>2
  <2>2. \A q \in A!Paths : q \in A!PathsOf(rows)' => Needed(q)
    BY <1>2 DEF Needed
  <2>3. Safe(p)'
    <3>1. CASE A!Restoring
      BY <1>2, <3>1 DEF Safe
    <3>2. CASE ~A!Restoring
      <4>1. \A v \in Workers : handling'[v].op \notin Restores
        BY <1>4, <1>5, <3>2 DEF A!Restoring, A!Some, Restores, Moved
      <4> QED
        BY <1>2, <4>1 DEF Safe
    <3> QED
      BY <3>1, <3>2
  <2> QED
    BY <1>0, <1>2, <1>4, <1>5, <2>1, <2>2, <2>3, KeptStep DEF Restores
<1>14. FilesApart'
  <2>1. torn \subseteq torn' /\ A!PathsOf(rows)' = A!PathsOf(rows)
    BY <1>2
  <2> QED
    BY <1>0, <1>4, <1>5, <1>9, <2>1, ApartStep
<1>15. AloneHolds'
  <2>1. serial => \A v \in Workers \ {w} : handling[v].op = "none"
    BY <1>0, <1>2, ServesFiles
  <2>2. Alone(handling[w]) => Alone(r)'
    BY <1>2, <1>4 DEF Alone, Restores
  <2> QED
    BY <1>0, <1>2, <1>5, <2>1, <2>2, AloneStep
<1> QED
  BY <1>11, <1>12, <1>13, <1>14, <1>15 DEF FilesInd

\* The row of an upload is committed.
LEMMA InsertCommitted ==
  ASSUME FilesInd, NEW w \in Workers, A!CommitInsert(w)
  PROVE  FilesInd'
<1>0. HandlersHold /\ TablesHold /\ FilesKept /\ FilesApart /\ AloneHolds
  BY DEF FilesInd
<1>1. PICK r : r = handling[w]
  OBVIOUS
<1>2. /\ r.op = "insert" /\ UNCHANGED <<serial, owners, disk, archive, written, torn>>
      /\ \/ r.owner \in owners /\ died' = died
            /\ rows' = rows \union {[path |-> p, owner |-> r.owner] : p \in r.paths}
         \/ r.owner \notin owners /\ died' = TRUE /\ rows' = rows
  BY <1>1 DEF A!CommitInsert
<1>3. r.paths \subseteq 1 .. written
  BY <1>0, <1>1, <1>2 DEF HandlersHold, HandlerHolds
<1>4. handling' = [handling EXCEPT ![w] = A!Idle] /\ Moved(w, A!Idle)
  BY <1>0, HandlerMoves DEF A!CommitInsert, A!Answered, A!Becomes
<1>5. A!Idle.op = "none" /\ A!Idle.op \notin Restores
  BY DEF A!Idle, Restores
<1>6. A!PathsOf(rows) \subseteq A!PathsOf(rows)' /\ A!PathsOf(rows)' \subseteq A!PathsOf(rows) \union r.paths
      /\ (died' = died /\ ~died => A!PathsOf(rows)' = A!PathsOf(rows) \union r.paths)
  <2>1. PICK before, after, paths : before = rows /\ after = rows' /\ paths = r.paths
    OBVIOUS
  <2>2. A!PathsOf(rows)' = A!PathsOf(after) /\ A!PathsOf(rows) = A!PathsOf(before)
    BY <2>1
  <2>3. CASE /\ r.owner \in owners /\ died' = died
             /\ rows' = rows \union {[path |-> p, owner |-> r.owner] : p \in r.paths}
    <3>1. before \subseteq after /\ \A a \in after : a \in before \/ a.path \in paths
      BY <2>1, <2>3
    <3>2. ASSUME NEW p \in paths PROVE \E a \in after : a.path = p
      <4>1. PICK a : a = [path |-> p, owner |-> r.owner]
        OBVIOUS
      <4>2. a \in after /\ a.path = p
        BY <2>1, <2>3, <4>1
      <4> QED
        BY <4>2
    <3>3. A!PathsOf(after) = A!PathsOf(before) \union paths
      BY <3>1, <3>2, PathsGrow
    <3> QED
      BY <2>1, <2>2, <3>3
  <2>4. CASE died' = TRUE /\ rows' = rows
    BY <2>4
  <2> QED
    BY <1>2, <2>3, <2>4
<1>7. FilesOnward
  BY <1>0, <1>2 DEF FilesOnward, TablesHold
<1>8. HandlersHold'
  <2>1. HandlerHolds(A!Idle)'
    BY <1>5 DEF HandlerHolds, FileOps, Restores
  <2> QED
    BY <1>0, <1>4, <1>5, <1>7, <2>1, HandlersStep
<1>9. TablesHold'
  <2>1. \A p \in r.paths : r.owner \in owners => [path |-> p, owner |-> r.owner] \in [path : 1 .. written, owner : owners]
    BY <1>3
  <2>2. rows' \subseteq [path : 1 .. written', owner : owners']
    BY <1>0, <1>2, <2>1 DEF TablesHold
  <2>3. /\ disk' \subseteq 1 .. written' /\ torn' \subseteq A!Paths /\ owners' \subseteq Owners
        /\ written' <= MaxFiles
    BY <1>0, <1>2, CatalogBounds DEF TablesHold
  <2> QED
    BY <1>0, <1>2, <1>7, <2>2, <2>3, TablesStep
<1>10. FilesKept'
  <2>1. \A p \in r.paths : Needed(p)
    BY <1>1, <1>2 DEF Needed
  <2>2. \A p \in A!Paths : p \in A!PathsOf(rows)' => Needed(p)
    BY <1>6, <2>1 DEF Needed
  <2>3. handling[w].op \notin Restores
    BY <1>1, <1>2 DEF Restores
  <2> QED
    BY <1>0, <1>2, <1>4, <1>5, <2>2, <2>3, KeptStep
<1>11. FilesApart'
  <2>1. torn \subseteq torn' /\ handling[w].op = "insert"
        /\ \A p \in A!PathsOf(rows)' : p \in A!PathsOf(rows) \/ p \in handling[w].paths
    BY <1>1, <1>2, <1>6
  <2> QED
    BY <1>0, <1>4, <1>5, <2>1, ApartStep
<1>12. AloneHolds'
  <2>1. ASSUME ~died', Alone(handling[w]) PROVE Alone(A!Idle)'
    <3>1. disk = A!PathsOf(rows) \union r.paths /\ r.owner \in owners
      BY <1>1, <1>2, <2>1 DEF Alone
    <3>2. died' = died /\ ~died
      BY <1>2, <2>1, <3>1
    <3>3. disk' = A!PathsOf(rows)'
      BY <1>2, <1>6, <3>1, <3>2
    <3> QED
      BY <1>5, <3>3 DEF Alone
  <2>2. (died => died') /\ serial' = serial /\ archive' = archive /\ handling[w].op # "none"
    BY <1>1, <1>2
  <2> QED
    BY <1>0, <1>4, <2>1, <2>2, AloneStep
<1> QED
  BY <1>8, <1>9, <1>10, <1>11, <1>12 DEF FilesInd

\* An attachment or an owner is to be deleted: its files are remembered.
LEMMA DeleteBegins ==
  ASSUME FilesInd, NEW w \in Workers, NEW owner, NEW paths, paths \subseteq A!PathsOf(rows), A!Serve(w),
         A!Becomes(w, [op |-> "delete", owner |-> owner, paths |-> paths]),
         UNCHANGED <<serial, owners, rows, disk, archive, written, died, torn>>
  PROVE  FilesInd'
<1>0. HandlersHold /\ TablesHold /\ FilesKept /\ FilesApart /\ AloneHolds
  BY DEF FilesInd
<1>1. PICK r : r = [op |-> "delete", owner |-> owner, paths |-> paths]
  OBVIOUS
<1>2. r.op = "delete" /\ r.paths = paths /\ r = [op |-> r.op, owner |-> r.owner, paths |-> r.paths]
  BY <1>1
<1>3. handling' = [handling EXCEPT ![w] = r] /\ Moved(w, r)
  BY <1>0, <1>1, HandlerMoves DEF A!Becomes
<1>4. r.op \notin Restores /\ r.op \notin {"none", "insert", "list", "zip"}
  BY <1>2 DEF Restores
<1>5. handling[w].op = "none" /\ (serial => \A v \in Workers \ {w} : handling[v].op = "none")
  BY <1>0, ServesFiles
<1>6. FilesOnward
  BY <1>0 DEF FilesOnward, TablesHold
<1>7. HandlersHold'
  <2>1. paths \subseteq 1 .. written
    BY <1>0, <1>6, PathsTyped DEF TablesHold, FilesOnward
  <2>2. HandlerHolds(r)'
    BY <1>2, <1>4, <2>1 DEF HandlerHolds, FileOps
  <2> QED
    BY <1>0, <1>3, <1>4, <1>6, <2>2, HandlersStep
<1>8. TablesHold'
  BY <1>0 DEF TablesHold, CopyHolds, DumpHolds
<1>9. FilesKept'
  <2>1. \A p \in A!Paths : p \in A!PathsOf(rows)' => Needed(p)
    BY DEF Needed
  <2>2. handling[w].op \notin Restores
    BY <1>5 DEF Restores
  <2> QED
    BY <1>0, <1>3, <1>4, <2>1, <2>2, KeptStep
<1>10. FilesApart'
  <2>1. \A v \in Workers \ {w}, p \in r.paths :
          handling[v].op = "insert" /\ p \in handling[v].paths => p \in torn'
    <3> SUFFICES ASSUME NEW v \in Workers, NEW p \in paths, p \notin torn,
                        handling[v].op = "insert", p \in handling[v].paths
                 PROVE  FALSE
      BY <1>2
    <3>1. p \in A!Paths
      <4>1. p \in 1 .. written
        BY <1>0 DEF HandlersHold, HandlerHolds
      <4> QED
        BY <1>0, <4>1, CatalogBounds DEF TablesHold, A!Paths
    <3>2. p \in A!PathsOf(rows)
      OBVIOUS
    <3> QED
      BY <1>0, <3>1, <3>2 DEF FilesApart
  <2> QED
    BY <1>0, <1>2, <1>3, <2>1, ApartStep
<1>11. AloneHolds'
  <2>1. Alone(handling[w]) => Alone(r)'
    BY <1>2, <1>4, <1>5 DEF Alone
  <2> QED
    BY <1>0, <1>3, <1>5, <2>1, AloneStep
<1> QED
  BY <1>7, <1>8, <1>9, <1>10, <1>11 DEF FilesInd

\* The rows are deleted.
LEMMA DeleteCommitted ==
  ASSUME FilesInd, NEW w \in Workers, A!CommitDelete(w)
  PROVE  FilesInd'
<1>0. HandlersHold /\ TablesHold /\ FilesKept /\ FilesApart /\ AloneHolds
  BY DEF FilesInd
<1>1. PICK r : r = handling[w]
  OBVIOUS
<1>2. PICK cascade : cascade = {a \in rows : a.owner \in r.owner /\ a.path \notin r.paths}
  OBVIOUS
<1>3. /\ r.op = "delete" /\ owners' = owners \ r.owner
      /\ rows' = {a \in rows : a.path \notin r.paths /\ a.owner \notin r.owner}
      /\ died' = (died \/ cascade # {})
      /\ UNCHANGED <<serial, disk, archive, written, torn>>
  BY <1>1, <1>2 DEF A!CommitDelete
<1>4. r.paths \subseteq 1 .. written /\ r = [op |-> r.op, owner |-> r.owner, paths |-> r.paths]
  BY <1>0, <1>1, <1>3 DEF HandlersHold, HandlerHolds
<1>5. PICK q : q = [r EXCEPT !.op = "remove"]
  OBVIOUS
<1>6. q.op = "remove" /\ q.paths = r.paths /\ q = [op |-> q.op, owner |-> q.owner, paths |-> q.paths]
  BY <1>4, <1>5
<1>7. handling' = [handling EXCEPT ![w] = q] /\ Moved(w, q)
  BY <1>0, <1>1, <1>5, HandlerMoves DEF A!CommitDelete, A!Becomes
<1>8. q.op \notin Restores /\ handling[w].op \notin Restores
  BY <1>1, <1>3, <1>6 DEF Restores
<1>9. /\ A!PathsOf(rows)' \subseteq A!PathsOf(rows) \ r.paths
      /\ cascade = {} => A!PathsOf(rows)' = A!PathsOf(rows) \ r.paths
  <2>1. PICK before, after, paths : before = rows /\ after = rows' /\ paths = r.paths
    OBVIOUS
  <2>2. A!PathsOf(rows)' = A!PathsOf(after) /\ A!PathsOf(rows) = A!PathsOf(before)
    BY <2>1
  <2>3. after \subseteq before /\ \A a \in after : a.path \notin paths
    BY <1>3, <2>1
  <2>4. A!PathsOf(after) \subseteq A!PathsOf(before) \ paths
    BY <2>3, PathsShrink
  <2>5. ASSUME cascade = {} PROVE A!PathsOf(after) = A!PathsOf(before) \ paths
    <3>1. \A a \in before : a.path \notin paths => a \in after
      BY <1>2, <1>3, <2>1, <2>5
    <3> QED
      BY <2>3, <3>1, PathsLeft
  <2> QED
    BY <2>1, <2>2, <2>4, <2>5
<1>10. FilesOnward
  BY <1>0, <1>3 DEF FilesOnward, TablesHold
<1>11. HandlersHold'
  <2>1. HandlerHolds(q)'
    BY <1>3, <1>4, <1>6, <1>8 DEF HandlerHolds, FileOps
  <2> QED
    BY <1>0, <1>7, <1>8, <1>10, <2>1, HandlersStep
<1>12. TablesHold'
  <2>1. rows' \subseteq [path : 1 .. written', owner : owners']
    <3> SUFFICES ASSUME NEW a \in rows, a.owner \notin r.owner PROVE a \in [path : 1 .. written, owner : owners']
      BY <1>3
    <3> QED
      BY <1>0, <1>3 DEF TablesHold
  <2>2. /\ disk' \subseteq 1 .. written' /\ torn' \subseteq A!Paths /\ owners' \subseteq Owners
        /\ written' <= MaxFiles
    BY <1>0, <1>3, CatalogBounds DEF TablesHold
  <2> QED
    BY <1>0, <1>3, <1>10, <2>1, <2>2, TablesStep
<1>13. FilesKept'
  <2>1. \A p \in A!Paths : p \in A!PathsOf(rows)' => Needed(p)
    BY <1>9 DEF Needed
  <2>2. q.op \notin {"insert", "list"}
    BY <1>6
  <2> QED
    BY <1>0, <1>3, <1>7, <1>8, <2>1, <2>2, KeptStep
<1>14. FilesApart'
  <2>1. \A p \in q.paths : p \notin A!PathsOf(rows)'
    BY <1>6, <1>9
  <2>2. \A v \in Workers \ {w}, p \in q.paths :
          handling[v].op = "insert" /\ p \in handling[v].paths => p \in torn'
    <3> SUFFICES ASSUME NEW v \in Workers \ {w}, NEW p \in r.paths, p \notin torn,
                        handling[v].op = "insert", p \in handling[v].paths
                 PROVE  FALSE
      BY <1>3, <1>6
    <3>1. p \in A!Paths
      BY <1>0, <1>4, CatalogBounds DEF TablesHold, A!Paths
    <3> QED
      BY <1>0, <1>1, <1>3, <3>1 DEF FilesApart
  <2>3. torn \subseteq torn' /\ A!PathsOf(rows)' \subseteq A!PathsOf(rows) /\ q.op # "insert"
    BY <1>3, <1>6, <1>9
  <2> QED
    BY <1>0, <1>7, <2>1, <2>2, <2>3, ApartStep
<1>15. AloneHolds'
  <2>1. ASSUME ~died', Alone(handling[w]) PROVE Alone(q)'
    <3>1. disk = A!PathsOf(rows) /\ cascade = {}
      BY <1>1, <1>3, <2>1 DEF Alone
    <3> QED
      BY <1>3, <1>6, <1>8, <1>9, <3>1 DEF Alone
  <2>2. (died => died') /\ serial' = serial /\ archive' = archive /\ handling[w].op # "none"
    BY <1>1, <1>3
  <2> QED
    BY <1>0, <1>7, <2>1, <2>2, AloneStep
<1> QED
  BY <1>11, <1>12, <1>13, <1>14, <1>15 DEF FilesInd

\* The files of deleted rows are removed.
LEMMA FilesRemoved ==
  ASSUME FilesInd, NEW w \in Workers, A!Remove(w)
  PROVE  FilesInd'
<1>0. HandlersHold /\ TablesHold /\ FilesKept /\ FilesApart /\ AloneHolds
  BY DEF FilesInd
<1>1. PICK r : r = handling[w]
  OBVIOUS
<1>2. /\ r.op = "remove" /\ disk' = disk \ r.paths
      /\ torn' = (IF A!Some({"list", "wipe", "copy"}) THEN torn \union r.paths ELSE torn)
      /\ UNCHANGED <<serial, owners, rows, archive, written, died>>
  BY <1>1 DEF A!Remove
<1>3. r.paths \subseteq 1 .. written
  BY <1>0, <1>1, <1>2 DEF HandlersHold, HandlerHolds
<1>4. handling' = [handling EXCEPT ![w] = A!Idle] /\ Moved(w, A!Idle)
  BY <1>0, HandlerMoves DEF A!Remove, A!Answered, A!Becomes
<1>5. A!Idle.op = "none" /\ A!Idle.op \notin Restores
  BY DEF A!Idle, Restores
<1>6. FilesOnward
  BY <1>0, <1>2 DEF FilesOnward, TablesHold
<1>7. HandlersHold'
  <2>1. HandlerHolds(A!Idle)'
    BY <1>5 DEF HandlerHolds, FileOps, Restores
  <2> QED
    BY <1>0, <1>4, <1>5, <1>6, <2>1, HandlersStep
<1>8. \A p \in r.paths : p \in A!Paths
  BY <1>0, <1>3, CatalogBounds DEF TablesHold, A!Paths
<1>9. TablesHold'
  <2>1. /\ disk' \subseteq 1 .. written' /\ torn' \subseteq A!Paths /\ owners' \subseteq Owners
        /\ written' <= MaxFiles /\ rows' \subseteq [path : 1 .. written', owner : owners']
    <3>1. torn \subseteq A!Paths /\ r.paths \subseteq A!Paths
      BY <1>0, <1>8 DEF TablesHold
    <3>2. torn' \subseteq A!Paths
      BY <1>2, <3>1
    <3>3. disk' \subseteq 1 .. written'
      BY <1>0, <1>2 DEF TablesHold
    <3>4. rows' \subseteq [path : 1 .. written', owner : owners'] /\ owners' \subseteq Owners
      BY <1>0, <1>2 DEF TablesHold
    <3>5. written' <= MaxFiles
      BY <1>0, <1>2, CatalogBounds DEF TablesHold
    <3> QED
      BY <3>2, <3>3, <3>4, <3>5
  <2> QED
    BY <1>0, <1>2, <1>6, <2>1, TablesStep
<1>10. FilesKept'
  <2>1. \A p \in A!Paths : p \in A!PathsOf(rows)' => Needed(p)
    BY <1>2 DEF Needed
  <2>2. ASSUME NEW p \in A!Paths, Needed(p)', p \in disk PROVE p \in disk' \union torn'
    <3> SUFFICES ASSUME p \in r.paths, p \notin torn, ~A!Some({"list", "wipe", "copy"}) PROVE FALSE
      BY <1>2, <2>2
    <3>1. p \notin A!PathsOf(rows)
      BY <1>0, <1>1, <1>2 DEF FilesApart
    <3>2. PICK v \in Workers : handling'[v].op \in {"insert", "list"} /\ p \in handling'[v].paths
      BY <1>2, <2>2, <3>1 DEF Needed
    <3>3. v # w /\ handling[v].op = "insert" /\ p \in handling[v].paths
      BY <1>4, <1>5, <3>2 DEF Moved, A!Some
    <3> QED
      BY <1>0, <1>1, <1>2, <3>3 DEF FilesApart
  <2>3. handling[w].op \notin Restores /\ torn \subseteq torn'
    BY <1>1, <1>2 DEF Restores
  <2> QED
    BY <1>0, <1>4, <1>5, <2>1, <2>2, <2>3, KeptStep
<1>11. FilesApart'
  <2>1. torn \subseteq torn' /\ A!PathsOf(rows)' = A!PathsOf(rows)
    BY <1>2
  <2> QED
    BY <1>0, <1>4, <1>5, <2>1, ApartStep
<1>12. AloneHolds'
  <2>1. ASSUME Alone(handling[w]) PROVE Alone(A!Idle)'
    <3>1. disk' = A!PathsOf(rows)'
      BY <1>1, <1>2, <2>1 DEF Alone
    <3> QED
      BY <1>5, <3>1 DEF Alone
  <2>2. (died => died') /\ serial' = serial /\ archive' = archive /\ handling[w].op # "none"
    BY <1>1, <1>2
  <2> QED
    BY <1>0, <1>4, <2>1, <2>2, AloneStep
<1> QED
  BY <1>7, <1>9, <1>10, <1>11, <1>12 DEF FilesInd

\* A worker dies, whatever it was doing.
LEMMA WorkerDied ==
  ASSUME FilesInd, NEW w \in Workers, A!Die(w)
  PROVE  FilesInd'
<1>0. HandlersHold /\ TablesHold /\ FilesKept /\ FilesApart /\ AloneHolds
  BY DEF FilesInd
<1>1. PICK r : r = handling[w]
  OBVIOUS
<1>2. /\ r.op # "none" /\ died' = TRUE
      /\ torn' = IF r.op \in Restores THEN torn \union A!PathsOf(rows) \union A!InHand ELSE torn
      /\ UNCHANGED <<serial, owners, rows, disk, archive, written>>
  BY <1>1 DEF A!Die, A!Does, Restores
<1>3. handling' = [handling EXCEPT ![w] = A!Idle] /\ Moved(w, A!Idle)
  BY <1>0, HandlerMoves DEF A!Die, A!Answered, A!Becomes
<1>4. A!Idle.op = "none" /\ A!Idle.op \notin Restores
  BY DEF A!Idle, Restores
<1>5. torn \subseteq torn' /\ torn' \subseteq A!Paths
  <2>1. A!PathsOf(rows) \subseteq 1 .. written
    BY <1>0, PathsTyped DEF TablesHold
  <2>3. A!InHand \subseteq A!Paths
    BY <1>0, InHandTyped
  <2>4. 1 .. written \subseteq A!Paths
    BY <1>0, CatalogBounds DEF TablesHold, A!Paths
  <2>5. torn \subseteq A!Paths
    BY <1>0 DEF TablesHold
  <2> QED
    BY <1>2, <2>1, <2>3, <2>4, <2>5
<1>6. FilesOnward
  BY <1>0, <1>2, <1>5 DEF FilesOnward, TablesHold
<1>7. HandlersHold'
  <2>1. HandlerHolds(A!Idle)'
    BY <1>4 DEF HandlerHolds, FileOps, Restores
  <2> QED
    BY <1>0, <1>3, <1>4, <1>6, <2>1, HandlersStep
<1>8. TablesHold'
  <2>1. /\ disk' \subseteq 1 .. written' /\ owners' \subseteq Owners
        /\ written' <= MaxFiles /\ rows' \subseteq [path : 1 .. written', owner : owners']
    BY <1>0, <1>2, CatalogBounds DEF TablesHold
  <2> QED
    BY <1>0, <1>2, <1>5, <1>6, <2>1, TablesStep
<1>9. FilesKept'
  <2>1. CASE r.op \notin Restores
    <3>1. \A p \in A!Paths : p \in A!PathsOf(rows)' => Needed(p)
      BY <1>2 DEF Needed
    <3>2. handling[w].op \notin Restores /\ disk' = disk
      BY <1>1, <1>2, <2>1
    <3> QED
      BY <1>0, <1>3, <1>4, <1>5, <3>1, <3>2, KeptStep
  <2>2. CASE r.op \in Restores
    <3> SUFFICES ASSUME NEW p \in A!Paths, Needed(p)' PROVE p \in torn'
      BY DEF FilesKept, Safe, A!Paths
    <3>1. CASE p \in A!PathsOf(rows)
      BY <1>2, <2>2, <3>1
    <3>2. ASSUME NEW v \in Workers, handling'[v].op \in {"insert", "list"}, p \in handling'[v].paths
          PROVE  p \in torn'
      <4>1. handling[v].op \in {"insert", "list"} /\ p \in handling[v].paths
        BY <1>3, <1>4, <3>2 DEF Moved
      <4>2. p \in A!InHand
        BY <4>1 DEF A!InHand
      <4> QED
        BY <1>2, <2>2, <4>2
    <3> QED
      BY <1>2, <3>1, <3>2 DEF Needed
  <2> QED
    BY <2>1, <2>2
<1>10. FilesApart'
  <2>1. A!PathsOf(rows)' = A!PathsOf(rows)
    BY <1>2
  <2> QED
    BY <1>0, <1>3, <1>4, <1>5, <2>1, ApartStep
<1>11. AloneHolds'
  BY <1>2 DEF AloneHolds
<1> QED
  BY <1>7, <1>8, <1>9, <1>10, <1>11 DEF FilesInd

\* A backup dumps the tables.
LEMMA BackupDumped ==
  ASSUME FilesInd, NEW w \in Workers, A!Dump(w)
  PROVE  FilesInd'
<1>0. HandlersHold /\ TablesHold /\ FilesKept /\ FilesApart /\ AloneHolds
  BY DEF FilesInd
<1>1. PICK r : r = [op |-> "list", paths |-> A!PathsOf(rows), owners |-> owners, rows |-> rows]
  OBVIOUS
<1>2. r.op = "list" /\ r.paths = A!PathsOf(rows) /\ r.owners = owners /\ r.rows = rows
  BY <1>1
<1>3. UNCHANGED <<serial, owners, rows, disk, archive, written, died, torn>> /\ A!Serve(w)
  BY DEF A!Dump
<1>4. handling' = [handling EXCEPT ![w] = r] /\ Moved(w, r)
  BY <1>0, <1>1, HandlerMoves DEF A!Dump, A!Becomes
<1>5. r.op \notin Restores /\ r.op \notin {"none", "insert", "delete", "remove", "zip"}
  BY <1>2 DEF Restores
<1>6. handling[w].op = "none" /\ (serial => \A v \in Workers \ {w} : handling[v].op = "none")
  BY <1>0, <1>3, ServesFiles
<1>7. FilesOnward
  BY <1>0, <1>3 DEF FilesOnward, TablesHold
<1>8. HandlersHold'
  <2>1. DumpHolds(r)'
    BY <1>0, <1>2, <1>3 DEF TablesHold, DumpHolds
  <2>2. HandlerHolds(r)'
    BY <1>2, <1>5, <2>1 DEF HandlerHolds, FileOps
  <2> QED
    BY <1>0, <1>4, <1>5, <1>7, <2>2, HandlersStep
<1>9. TablesHold'
  BY <1>0, <1>3 DEF TablesHold, CopyHolds, DumpHolds
<1>10. FilesKept'
  <2>1. \A p \in A!PathsOf(rows) : Needed(p)
    BY DEF Needed
  <2>2. handling[w].op \notin Restores
    BY <1>6 DEF Restores
  <2>3. /\ \A p \in A!Paths : p \in A!PathsOf(rows)' => Needed(p)
        /\ \A p \in r.paths : Needed(p)
    BY <1>2, <1>3, <2>1
  <2> QED
    BY <1>0, <1>3, <1>4, <1>5, <2>2, <2>3, KeptStep
<1>11. FilesApart'
  <2>1. A!PathsOf(rows)' = A!PathsOf(rows) /\ torn' = torn
    BY <1>3
  <2> QED
    BY <1>0, <1>4, <1>5, <2>1, ApartStep
<1>12. AloneHolds'
  <2>1. Alone(handling[w]) => Alone(r)'
    BY <1>2, <1>3, <1>5, <1>6 DEF Alone
  <2> QED
    BY <1>0, <1>3, <1>4, <1>6, <2>1, AloneStep
<1> QED
  BY <1>8, <1>9, <1>10, <1>11, <1>12 DEF FilesInd

\* A backup lists the files that are on disk.
LEMMA FilesListed ==
  ASSUME FilesInd, NEW w \in Workers, A!List(w)
  PROVE  FilesInd'
<1>0. HandlersHold /\ TablesHold /\ FilesKept /\ FilesApart /\ AloneHolds
  BY DEF FilesInd
<1>1. PICK q : q = handling[w]
  OBVIOUS
<1>2. /\ q.op = "list"
      /\ torn' = (IF A!Restoring THEN torn \union q.paths ELSE torn)
      /\ UNCHANGED <<serial, owners, rows, disk, archive, written, died>>
  BY <1>1 DEF A!List, A!Does
<1>3. q.paths = A!PathsOf(q.rows) /\ DumpHolds(q)
  BY <1>0, <1>1, <1>2 DEF HandlersHold, HandlerHolds
<1>4. PICK r : r = [op |-> "zip", paths |-> q.paths, owners |-> q.owners, rows |-> q.rows, files |-> disk]
  OBVIOUS
<1>5. r.op = "zip" /\ r.paths = q.paths /\ r.owners = q.owners /\ r.rows = q.rows /\ r.files = disk
  BY <1>4
<1>6. handling' = [handling EXCEPT ![w] = r] /\ Moved(w, r)
  BY <1>0, <1>1, <1>4, HandlerMoves DEF A!List, A!Becomes
<1>7. /\ r.op \notin Restores /\ r.op \notin {"none", "insert", "delete", "remove", "list"}
      /\ handling[w].op \notin Restores
  BY <1>1, <1>2, <1>5 DEF Restores
<1>8. q.paths \subseteq A!Paths
  <2>1. q.paths \subseteq 1 .. written
    BY <1>0, <1>1, <1>2, HandlerPaths
  <2> QED
    BY <1>0, <2>1, CatalogBounds DEF TablesHold, A!Paths
<1>9. torn \subseteq torn' /\ torn' \subseteq A!Paths
  <2>1. torn \subseteq A!Paths
    BY <1>0 DEF TablesHold
  <2> QED
    BY <1>2, <1>8, <2>1
<1>10. FilesOnward
  BY <1>0, <1>2, <1>9 DEF FilesOnward, TablesHold
<1>11. \A p \in q.paths : p \in disk \union torn'
  <2>1. CASE A!Restoring
    BY <1>2, <2>1
  <2>2. CASE ~A!Restoring
    <3>1. \A v \in Workers : handling[v].op \notin Restores
      BY <2>2 DEF A!Restoring, A!Some, Restores
    <3>2. \A p \in q.paths : Needed(p)
      BY <1>1, <1>2 DEF Needed
    <3>3. \A p \in q.paths : Safe(p)
      BY <1>0, <1>8, <3>2 DEF FilesKept
    <3>4. \A p \in q.paths : p \in disk \union torn
      BY <3>1, <3>3 DEF Safe
    <3> QED
      BY <1>9, <3>4
  <2> QED
    BY <2>1, <2>2
<1>12. HandlersHold'
  <2>1. DumpHolds(r)'
    BY <1>2, <1>3, <1>5 DEF DumpHolds
  <2>2. CopyHolds(r)'
    <3>1. disk \subseteq 1 .. written'
      BY <1>0, <1>2 DEF TablesHold
    <3> QED
      BY <1>3, <1>5, <1>11, <2>1, <3>1 DEF CopyHolds
  <2>3. HandlerHolds(r)'
    BY <1>3, <1>5, <1>7, <2>1, <2>2 DEF HandlerHolds, FileOps
  <2> QED
    BY <1>0, <1>6, <1>7, <1>10, <2>3, HandlersStep
<1>13. TablesHold'
  <2>1. /\ disk' \subseteq 1 .. written' /\ owners' \subseteq Owners
        /\ written' <= MaxFiles /\ rows' \subseteq [path : 1 .. written', owner : owners']
    BY <1>0, <1>2, CatalogBounds DEF TablesHold
  <2> QED
    BY <1>0, <1>2, <1>9, <1>10, <2>1, TablesStep
<1>14. FilesKept'
  <2>1. \A p \in A!Paths : p \in A!PathsOf(rows)' => Needed(p)
    BY <1>2 DEF Needed
  <2>2. disk' = disk
    BY <1>2
  <2> QED
    BY <1>0, <1>6, <1>7, <1>9, <2>1, <2>2, KeptStep
<1>15. FilesApart'
  <2>1. A!PathsOf(rows)' = A!PathsOf(rows)
    BY <1>2
  <2> QED
    BY <1>0, <1>6, <1>7, <1>9, <2>1, ApartStep
<1>16. AloneHolds'
  <2>1. Alone(handling[w]) => Alone(r)'
    BY <1>1, <1>2, <1>5, <1>7 DEF Alone
  <2>2. (died => died') /\ serial' = serial /\ archive' = archive /\ handling[w].op # "none"
    BY <1>1, <1>2
  <2> QED
    BY <1>0, <1>6, <2>1, <2>2, AloneStep
<1> QED
  BY <1>12, <1>13, <1>14, <1>15, <1>16 DEF FilesInd

\* A backup stores the files it listed.
LEMMA BackupZipped ==
  ASSUME FilesInd, NEW w \in Workers, A!Zip(w)
  PROVE  FilesInd'
<1>0. HandlersHold /\ TablesHold /\ FilesKept /\ FilesApart /\ AloneHolds
  BY DEF FilesInd
<1>1. PICK r : r = handling[w]
  OBVIOUS
<1>2. PICK b : b = [owners |-> r.owners, rows |-> r.rows, files |-> r.files]
  OBVIOUS
<1>3. /\ r.op = "zip" /\ archive' = (IF r.files \subseteq disk THEN {b} ELSE archive)
      /\ UNCHANGED <<serial, owners, rows, disk, written, died, torn>>
  BY <1>1, <1>2 DEF A!Zip
<1>4. b.owners = r.owners /\ b.rows = r.rows /\ b.files = r.files
  BY <1>2
<1>5. handling' = [handling EXCEPT ![w] = A!Idle] /\ Moved(w, A!Idle)
  BY <1>0, HandlerMoves DEF A!Zip, A!Answered, A!Becomes
<1>6. A!Idle.op = "none" /\ A!Idle.op \notin Restores /\ handling[w].op \notin Restores
  BY <1>1, <1>3 DEF A!Idle, Restores
<1>7. FilesOnward
  BY <1>0, <1>3 DEF FilesOnward, TablesHold
<1>8. HandlersHold'
  <2>1. HandlerHolds(A!Idle)'
    BY <1>6 DEF HandlerHolds, FileOps, Restores
  <2> QED
    BY <1>0, <1>5, <1>6, <1>7, <2>1, HandlersStep
<1>9. TablesHold'
  <2>1. CopyHolds(r)
    BY <1>0, <1>1, <1>3 DEF HandlersHold, HandlerHolds
  <2>2. CopyHolds(b)
    BY <1>4, <2>1 DEF CopyHolds, DumpHolds
  <2>3. \A a \in archive' : CopyHolds(a)
    BY <1>0, <1>3, <2>2 DEF TablesHold
  <2>4. \A a \in archive' : CopyHolds(a)'
    BY <1>7, <2>3, DumpStays
  <2>5. \A a, c \in archive' : a = c
    BY <1>0, <1>3 DEF TablesHold
  <2> QED
    BY <1>0, <1>3, <2>4, <2>5 DEF TablesHold
<1>10. FilesKept'
  <2>1. \A p \in A!Paths : p \in A!PathsOf(rows)' => Needed(p)
    BY <1>3 DEF Needed
  <2> QED
    BY <1>0, <1>3, <1>5, <1>6, <2>1, KeptStep
<1>11. FilesApart'
  <2>1. torn \subseteq torn' /\ A!PathsOf(rows)' = A!PathsOf(rows)
    BY <1>3
  <2> QED
    BY <1>0, <1>5, <1>6, <2>1, ApartStep
<1>12. AloneHolds'
  <2>1. Alone(handling[w]) => Alone(A!Idle)'
    BY <1>1, <1>3, <1>6 DEF Alone
  <2>2. Alone(handling[w]) /\ (\A a \in archive : a.files = A!PathsOf(a.rows)) =>
          \A a \in archive' : a.files = A!PathsOf(a.rows)
    BY <1>1, <1>3, <1>4 DEF Alone
  <2>3. died' = died /\ serial' = serial /\ handling[w].op # "none"
    BY <1>1, <1>3
  <2> QED
    BY <1>0, <1>5, <2>1, <2>2, <2>3, AloneStep
<1> QED
  BY <1>8, <1>9, <1>10, <1>11, <1>12 DEF FilesInd

\* A restore applies the dump.
LEMMA DumpApplied ==
  ASSUME FilesInd, NEW w \in Workers, NEW a \in archive, A!ApplyDump(w, a)
  PROVE  FilesInd'
<1>0. HandlersHold /\ TablesHold /\ FilesKept /\ FilesApart /\ AloneHolds
  BY DEF FilesInd
<1>1. UNCHANGED <<serial, disk, archive, written, died>> /\ ~A!Restoring /\ A!Serve(w)
  BY DEF A!ApplyDump
<1>2. CASE UNCHANGED <<owners, rows, handling, torn>>
  <2>1. UNCHANGED fileState
    BY <1>1, <1>2 DEF fileState
  <2> QED
    BY <2>1, FilesStill
<1>3. CASE /\ owners' = a.owners /\ rows' = a.rows
           /\ A!Becomes(w, [op |-> "wipe", files |-> a.files])
           /\ torn' = torn \union A!InHand
  <2>1. PICK r : r = [op |-> "wipe", files |-> a.files]
    OBVIOUS
  <2>2. r.op = "wipe" /\ r.files = a.files /\ r = [op |-> r.op, files |-> r.files]
    BY <2>1
  <2>3. handling' = [handling EXCEPT ![w] = r] /\ Moved(w, r)
    BY <1>0, <1>3, <2>1, HandlerMoves DEF A!Becomes
  <2>4. r.op \in Restores /\ r.op \notin {"none", "insert", "delete", "remove", "list", "zip", "copy"}
    BY <2>2 DEF Restores
  <2>5. \A v \in Workers : handling[v].op \notin Restores
    BY <1>1 DEF A!Restoring, A!Some, Restores
  <2>6. CopyHolds(a)
    BY <1>0 DEF TablesHold
  <2>7. torn \subseteq torn' /\ torn' \subseteq A!Paths
    BY <1>0, <1>3, InHandTyped DEF TablesHold
  <2>8. FilesOnward
    BY <1>0, <1>1, <2>7 DEF FilesOnward, TablesHold
  <2>9. HandlersHold'
    <3>1. HandlerHolds(r)'
      BY <1>1, <2>2, <2>4, <2>6 DEF HandlerHolds, CopyHolds, FileOps
    <3> QED
      BY <1>0, <2>3, <2>5, <2>8, <3>1, HandlersStep
  <2>10. TablesHold'
    <3>1. rows' \subseteq [path : 1 .. written', owner : owners'] /\ owners' \subseteq Owners
      BY <1>1, <1>3, <2>6 DEF CopyHolds, DumpHolds
    <3>2. disk' \subseteq 1 .. written' /\ written' <= MaxFiles
      BY <1>0, <1>1, CatalogBounds DEF TablesHold
    <3> QED
      BY <1>0, <1>1, <2>7, <2>8, <3>1, <3>2, TablesStep
  <2>11. FilesKept'
    <3> SUFFICES ASSUME NEW p \in A!Paths, Needed(p)' PROVE Safe(p)'
      BY DEF FilesKept, A!Paths
    <3>1. CASE p \in A!PathsOf(rows)'
      <4>1. p \in a.files \/ p \in torn
        BY <1>3, <2>6, <3>1 DEF CopyHolds
      <4>2. p \in handling'[w].files \/ p \in torn'
        BY <2>2, <2>3, <2>7, <4>1 DEF Moved
      <4>3. handling'[w].op \in Restores
        BY <2>3, <2>4 DEF Moved
      <4> QED
        BY <4>2, <4>3 DEF Safe
    <3>2. ASSUME NEW v \in Workers, handling'[v].op \in {"insert", "list"}, p \in handling'[v].paths
          PROVE  p \in torn'
      <4>1. v # w /\ handling[v].op \in {"insert", "list"} /\ p \in handling[v].paths
        BY <2>3, <2>4, <3>2 DEF Moved
      <4>2. p \in A!InHand
        BY <4>1 DEF A!InHand
      <4> QED
        BY <1>3, <4>2
    <3> QED
      BY <3>1, <3>2 DEF Needed, Safe
  <2>12. FilesApart'
    <3> SUFFICES ASSUME NEW v \in Workers, handling'[v].op \in {"insert", "remove"}, NEW p \in handling'[v].paths
                 PROVE  p \in torn'
      BY DEF FilesApart, A!Paths
    <3>1. v # w /\ handling[v].op \in {"insert", "remove"} /\ p \in handling[v].paths
      BY <2>3, <2>4 DEF Moved
    <3>2. p \in A!InHand
      BY <3>1 DEF A!InHand
    <3> QED
      BY <1>3, <3>2
  <2>13. AloneHolds'
    <3>1. (\A b \in archive : b.files = A!PathsOf(b.rows)) => Alone(r)'
      <4> SUFFICES ASSUME a.files = A!PathsOf(a.rows) PROVE Alone(r)'
        OBVIOUS
      <4>1. A!PathsOf(rows)' = r.files
        BY <1>3, <2>2
      <4> QED
        BY <2>4, <4>1 DEF Alone
    <3>2. /\ died' = died /\ serial' = serial /\ archive' = archive
          /\ serial => \A v \in Workers \ {w} : handling[v].op = "none"
      BY <1>0, <1>1, ServesFiles
    <3> QED
      BY <1>0, <2>3, <3>1, <3>2, AloneStep
  <2> QED
    BY <2>9, <2>10, <2>11, <2>12, <2>13 DEF FilesInd
<1> QED
  BY <1>2, <1>3 DEF A!ApplyDump

\* A restore wipes the uploads.
LEMMA UploadsWiped ==
  ASSUME FilesInd, NEW w \in Workers, A!Wipe(w)
  PROVE  FilesInd'
<1>0. HandlersHold /\ TablesHold /\ FilesKept /\ FilesApart /\ AloneHolds
  BY DEF FilesInd
<1>1. PICK q : q = handling[w]
  OBVIOUS
<1>2. /\ q.op = "wipe" /\ disk' = {}
      /\ torn' = torn \union {p \in A!PathsOf(rows) : p \notin q.files}
      /\ UNCHANGED <<serial, owners, rows, archive, written, died>>
  BY <1>1 DEF A!Wipe, A!Does
<1>3. PICK r : r = [q EXCEPT !.op = "copy"]
  OBVIOUS
<1>4. q.files \subseteq 1 .. written /\ q = [op |-> q.op, files |-> q.files]
  BY <1>0, <1>1, <1>2 DEF HandlersHold, HandlerHolds, Restores
<1>5. r.op = "copy" /\ r.files = q.files /\ r = [op |-> r.op, files |-> r.files]
  BY <1>3, <1>4
<1>6. handling' = [handling EXCEPT ![w] = r] /\ Moved(w, r)
  BY <1>0, <1>1, <1>3, HandlerMoves DEF A!Wipe, A!Becomes
<1>7. /\ r.op \in Restores /\ r.op \notin {"none", "insert", "delete", "remove", "list", "zip"}
      /\ handling[w].op \in Restores
  BY <1>1, <1>2, <1>5 DEF Restores
<1>8. \A v \in Workers \ {w} : handling[v].op \notin Restores
  BY <1>0, <1>7 DEF HandlersHold
<1>9. torn \subseteq torn' /\ torn' \subseteq A!Paths
  <2>1. A!PathsOf(rows) \subseteq A!Paths
    <3>1. A!PathsOf(rows) \subseteq 1 .. written
      BY <1>0, PathsTyped DEF TablesHold
    <3> QED
      BY <1>0, <3>1, CatalogBounds DEF TablesHold, A!Paths
  <2>2. torn \subseteq A!Paths
    BY <1>0 DEF TablesHold
  <2> QED
    BY <1>2, <2>1, <2>2
<1>10. FilesOnward
  BY <1>0, <1>2, <1>9 DEF FilesOnward, TablesHold
<1>11. HandlersHold'
  <2>1. HandlerHolds(r)'
    BY <1>2, <1>4, <1>5, <1>7 DEF HandlerHolds, FileOps
  <2> QED
    BY <1>0, <1>6, <1>8, <1>10, <2>1, HandlersStep
<1>12. TablesHold'
  <2>1. disk' \subseteq 1 .. written' /\ owners' \subseteq Owners
    BY <1>0, <1>2 DEF TablesHold
  <2>2. rows' \subseteq [path : 1 .. written', owner : owners']
    BY <1>0, <1>2 DEF TablesHold
  <2>3. written' <= MaxFiles
    BY <1>0, <1>2, CatalogBounds DEF TablesHold
  <2> QED
    BY <1>0, <1>2, <1>9, <1>10, <2>1, <2>2, <2>3, TablesStep
<1>13. FilesKept'
  <2> SUFFICES ASSUME NEW p \in A!Paths, Needed(p)' PROVE Safe(p)'
    BY DEF FilesKept, A!Paths
  <2>1. Needed(p)
    BY <1>2, <1>6, <1>7 DEF Needed, Moved
  <2>2. Safe(p)
    BY <1>0, <2>1 DEF FilesKept
  <2>3. p \in torn \/ p \in q.files
    BY <1>1, <1>7, <1>8, <2>2 DEF Safe
  <2>4. handling'[w].op \in Restores /\ handling'[w].files = q.files
    BY <1>5, <1>6, <1>7 DEF Moved
  <2> QED
    BY <1>9, <2>3, <2>4 DEF Safe
<1>14. FilesApart'
  <2>1. A!PathsOf(rows)' = A!PathsOf(rows)
    BY <1>2
  <2> QED
    BY <1>0, <1>6, <1>7, <1>9, <2>1, ApartStep
<1>15. AloneHolds'
  <2>1. Alone(handling[w]) => Alone(r)'
    <3> SUFFICES ASSUME Alone(q) PROVE Alone(r)'
      BY <1>1
    <3>1. A!PathsOf(rows)' = r.files
      BY <1>1, <1>2, <1>5, <1>7 DEF Alone
    <3> QED
      BY <1>2, <1>7, <3>1 DEF Alone
  <2>2. died' = died /\ serial' = serial /\ archive' = archive /\ handling[w].op # "none"
    BY <1>1, <1>2
  <2> QED
    BY <1>0, <1>6, <2>1, <2>2, AloneStep
<1> QED
  BY <1>11, <1>12, <1>13, <1>14, <1>15 DEF FilesInd

\* A restore copies the files of the backup.
LEMMA UploadsCopied ==
  ASSUME FilesInd, NEW w \in Workers, A!CopyBack(w)
  PROVE  FilesInd'
<1>0. HandlersHold /\ TablesHold /\ FilesKept /\ FilesApart /\ AloneHolds
  BY DEF FilesInd
<1>1. PICK q : q = handling[w]
  OBVIOUS
<1>2. /\ q.op = "copy" /\ disk' = disk \union q.files
      /\ UNCHANGED <<serial, owners, rows, archive, written, died, torn>>
  BY <1>1 DEF A!CopyBack, A!Does
<1>3. handling[w].op \in Restores /\ handling[w].op # "none"
  BY <1>1, <1>2 DEF Restores
<1>4. q.files \subseteq 1 .. written
  BY <1>0, <1>1, <1>3 DEF HandlersHold, HandlerHolds
<1>5. handling' = [handling EXCEPT ![w] = A!Idle] /\ Moved(w, A!Idle)
  BY <1>0, HandlerMoves DEF A!CopyBack, A!Answered, A!Becomes
<1>6. A!Idle.op = "none" /\ A!Idle.op \notin Restores
  BY DEF A!Idle, Restores
<1>7. \A v \in Workers \ {w} : handling[v].op \notin Restores
  BY <1>0, <1>3 DEF HandlersHold
<1>8. FilesOnward
  BY <1>0, <1>2 DEF FilesOnward, TablesHold
<1>9. HandlersHold'
  <2>1. HandlerHolds(A!Idle)'
    BY <1>6 DEF HandlerHolds, FileOps, Restores
  <2> QED
    BY <1>0, <1>5, <1>6, <1>8, <2>1, HandlersStep
<1>10. TablesHold'
  <2>1. disk' \subseteq 1 .. written' /\ owners' \subseteq Owners /\ torn' \subseteq A!Paths
    BY <1>0, <1>2, <1>4 DEF TablesHold
  <2>2. rows' \subseteq [path : 1 .. written', owner : owners']
    BY <1>0, <1>2 DEF TablesHold
  <2>3. written' <= MaxFiles
    BY <1>0, <1>2, CatalogBounds DEF TablesHold
  <2> QED
    BY <1>0, <1>2, <1>8, <2>1, <2>2, <2>3, TablesStep
<1>11. FilesKept'
  <2> SUFFICES ASSUME NEW p \in A!Paths, Needed(p)' PROVE Safe(p)'
    BY DEF FilesKept, A!Paths
  <2>1. Needed(p)
    BY <1>2, <1>5, <1>6 DEF Needed, Moved
  <2>2. Safe(p)
    BY <1>0, <2>1 DEF FilesKept
  <2>3. p \in torn \/ p \in q.files
    BY <1>1, <1>3, <1>7, <2>2 DEF Safe
  <2>4. \A v \in Workers : handling'[v].op \notin Restores
    BY <1>5, <1>6, <1>7 DEF Moved
  <2> QED
    BY <1>2, <2>3, <2>4 DEF Safe
<1>12. FilesApart'
  <2>1. A!PathsOf(rows)' = A!PathsOf(rows) /\ torn \subseteq torn'
    BY <1>2
  <2> QED
    BY <1>0, <1>5, <1>6, <2>1, ApartStep
<1>13. AloneHolds'
  <2>1. Alone(handling[w]) => Alone(A!Idle)'
    <3> SUFFICES ASSUME Alone(q) PROVE Alone(A!Idle)'
      BY <1>1
    <3>1. disk' = A!PathsOf(rows)'
      BY <1>1, <1>2, <1>3 DEF Alone
    <3> QED
      BY <1>6, <3>1 DEF Alone
  <2>2. died' = died /\ serial' = serial /\ archive' = archive /\ handling[w].op # "none"
    BY <1>2, <1>3
  <2> QED
    BY <1>0, <1>5, <2>1, <2>2, AloneStep
<1> QED
  BY <1>9, <1>10, <1>11, <1>12, <1>13 DEF FilesInd

\* The invariant holds at the start.
LEMMA FilesInit == A!Init => FilesInd
<1> SUFFICES ASSUME A!Init PROVE FilesInd
  OBVIOUS
<1>1. /\ serial \in BOOLEAN /\ owners = Owners /\ rows = {} /\ disk = {} /\ archive = {} /\ torn = {}
      /\ handling = [w \in Workers |-> A!Idle] /\ written = 0
  BY DEF A!Init
<1>2. A!Idle.op = "none"
  BY DEF A!Idle
<1>3. \A w \in Workers : handling[w] = A!Idle /\ handling[w].op = "none"
  BY <1>1, <1>2
<1>4. A!PathsOf(rows) = {}
  BY <1>1 DEF A!PathsOf
<1>5. HandlersHold
  <2>1. HandlerHolds(A!Idle)
    BY <1>2 DEF HandlerHolds, FileOps, Restores
  <2> QED
    BY <1>1, <1>3, <2>1 DEF HandlersHold, Restores
<1>6. TablesHold
  BY <1>1, CatalogBounds DEF TablesHold
<1>7. FilesKept
  BY <1>3, <1>4 DEF FilesKept, Needed
<1>8. FilesApart
  BY <1>3 DEF FilesApart
<1>9. AloneHolds
  <2>1. Alone(A!Idle)
    BY <1>1, <1>2, <1>4 DEF Alone, Restores
  <2> QED
    BY <1>1, <1>3, <1>4, <2>1 DEF AloneHolds
<1> QED
  BY <1>5, <1>6, <1>7, <1>8, <1>9 DEF FilesInd

\* Every step of the machine keeps it.
LEMMA FilesNext == FilesInd /\ [A!Next]_fileState => FilesInd'
<1> SUFFICES ASSUME FilesInd, [A!Next]_fileState PROVE FilesInd'
  OBVIOUS
<1>1. CASE UNCHANGED fileState
  BY <1>1, FilesStill DEF fileState
<1>2. ASSUME NEW w \in Workers, NEW r \in rows, A!BeginDelete(w, r) PROVE FilesInd'
  <2>1. PICK paths : paths = {r.path}
    OBVIOUS
  <2>2. paths \subseteq A!PathsOf(rows)
    BY <2>1 DEF A!PathsOf
  <2>3. A!Becomes(w, [op |-> "delete", owner |-> {}, paths |-> paths])
    BY <1>2, <2>1 DEF A!BeginDelete
  <2> QED
    BY <1>2, <2>2, <2>3, DeleteBegins DEF A!BeginDelete
<1>3. ASSUME NEW w \in Workers, NEW o \in owners, A!BeginDeleteOwner(w, o) PROVE FilesInd'
  <2>1. PICK paths : paths = A!PathsOf(A!RowsOf(o))
    OBVIOUS
  <2>2. paths \subseteq A!PathsOf(rows)
    BY <2>1 DEF A!PathsOf, A!RowsOf
  <2>3. PICK gone : gone = {o}
    OBVIOUS
  <2>4. A!Becomes(w, [op |-> "delete", owner |-> gone, paths |-> paths])
    BY <1>3, <2>1, <2>3 DEF A!BeginDeleteOwner
  <2> QED
    BY <1>3, <2>2, <2>4, DeleteBegins DEF A!BeginDeleteOwner
<1>4. CASE A!Next
  BY <1>2, <1>3, <1>4, Written, InsertCommitted, DeleteCommitted, FilesRemoved, WorkerDied,
     BackupDumped, FilesListed, BackupZipped, DumpApplied, UploadsWiped, UploadsCopied DEF A!Next
<1> QED
  BY <1>1, <1>4

\* It is what FilesHold needs.
LEMMA FilesIndHolds == FilesInd => A!FilesHold
<1> SUFFICES ASSUME FilesInd PROVE A!FilesHold
  OBVIOUS
<1>1. HandlersHold /\ TablesHold /\ FilesKept /\ FilesApart /\ AloneHolds
  BY DEF FilesInd
<1>2. A!TypeOK
  <2>1. A!Cardinality(archive) <= 1
    <3>1. CASE archive = {}
      BY <3>1, FS_EmptySet, SameSize
    <3>2. CASE archive # {}
      <4>1. PICK a : a \in archive
        BY <3>2
      <4>2. archive = {a}
        BY <1>1, <4>1 DEF TablesHold
      <4> QED
        BY <4>2, FS_Singleton, SameSize
    <3> QED
      BY <3>1, <3>2
  <2> QED
    BY <1>1, <2>1 DEF A!TypeOK, TablesHold, CopyHolds
<1>3. A!RowsHaveFiles
  <2> SUFFICES ASSUME ~A!Restoring, NEW p \in A!PathsOf(rows) PROVE p \in disk \union torn
    BY DEF A!RowsHaveFiles
  <2>1. p \in A!Paths
    <3>1. A!PathsOf(rows) \subseteq 1 .. written
      <4>1. written \in Nat /\ rows \subseteq [path : 1 .. written, owner : owners]
        BY <1>1 DEF TablesHold
      <4> QED
        BY <4>1, PathsTyped
    <3> QED
      BY <1>1, <3>1, CatalogBounds DEF TablesHold, A!Paths
  <2>2. Safe(p)
    BY <1>1, <2>1 DEF FilesKept, Needed
  <2> QED
    BY <2>2 DEF Safe, A!Restoring, A!Some, Restores
<1>4. A!BackupsComplete
  BY <1>1 DEF A!BackupsComplete, TablesHold, CopyHolds
<1>5. A!FilesHaveRows
  BY <1>1 DEF A!FilesHaveRows, A!Does, AloneHolds
<1> QED
  BY <1>2, <1>3, <1>4, <1>5 DEF A!FilesHold

\* Whatever overlaps, and whoever dies: when no restore runs each row has its file, and each
\* row of a backup has its file in it, unless a backup or a restore was cut across; served
\* one at a time and with no failure, each file has its row.  For any number of workers.
THEOREM RowsKeepTheirFiles == Spec => []FilesHold
<1> DEFINE Kept == part = "files" => FilesInd
<1>1. Init => Kept
  BY FilesInit DEF Init
<1>2. Kept /\ [Next]_catalogVars => Kept'
  <2> SUFFICES ASSUME Kept, [Next]_catalogVars, part' = "files" PROVE FilesInd'
    OBVIOUS
  <2>1. CASE UNCHANGED catalogVars
    <3>1. part = "files" /\ UNCHANGED fileState
      BY <2>1 DEF catalogVars, fileVars, fileState
    <3> QED
      BY <3>1, FilesNext
  <2>2. CASE FileStep
    BY <2>2, FilesNext DEF FileStep
  <2>3. CASE SuiteStep \/ CaseStep \/ FieldStep \/ EnvironmentStep
    BY <2>3 DEF SuiteStep, CaseStep, FieldStep, EnvironmentStep
  <2> QED
    BY <2>1, <2>2, <2>3 DEF Next
<1>3. Kept => FilesHold
  BY FilesIndHolds DEF FilesHold
<1> QED
  BY <1>1, <1>2, <1>3, PTL DEF Spec, catalogVars

-----------------------------------------------------------------------------
(* Why FieldsHold is kept.  A default counts as a value that a row may get, *)
(* so it has options of the field too, or loose ones.                       *)

FieldRows ==
  [options : SUBSET Options, required : BOOLEAN, default : {F!Absent} \union F!Values, archived : BOOLEAN]

FieldRowsHold ==
  /\ requests \in 0 .. MaxRequests /\ loose \subseteq Options
  /\ field \subseteq FieldRows /\ (\A f, g \in field : f = g) /\ \A f \in field : f.options # {}
  /\ \A f \in field : F!OfValue(f.default) \subseteq f.options \union loose
  /\ entity \in F!REQUIRES_DEFAULT_ENTITY_TYPES /\ ~cleared =>
       \A f \in field : f.required => f.default # F!Absent

ValuesHold ==
  /\ value = [r \in Rows |-> value[r]]
  /\ \A r \in Rows : value[r] = F!Absent \/ (r \in exists /\ value[r] \in F!Values)
  /\ \A r \in exists : r \in Rows
  /\ \A f \in field, r \in exists : F!OfValue(value[r]) \subseteq f.options \union loose
  /\ field = {} => \A r \in exists : F!OfValue(value[r]) \subseteq loose

FieldsInd == FieldRowsHold /\ ValuesHold

fieldState == <<dialect, entity, type, field, value, exists, elsewhere, requests, loose, cleared>>

\* What rows hold, a row holds.
LEMMA HeldBy == \A x : x \in F!Held <=> \E r \in exists : x \in F!OfValue(value[r])
  BY DEF F!Held

\* A step of another machine.
LEMMA FieldsStill == FieldsInd /\ UNCHANGED fieldState => FieldsInd'
  BY DEF fieldState, FieldsInd, FieldRowsHold, ValuesHold, FieldRows, F!Values

\* A request is counted, and changes no kind of field.
LEMMA ServesField ==
  ASSUME FieldsInd, F!Serve
  PROVE  requests' \in 0 .. MaxRequests /\ UNCHANGED <<dialect, entity, type, elsewhere>>
         /\ F!Values' = F!Values /\ FieldRows' = FieldRows
<1>1. requests' \in 0 .. MaxRequests /\ UNCHANGED <<dialect, entity, type, elsewhere>>
  BY CatalogBounds DEF FieldsInd, FieldRowsHold, F!Serve
<1>2. F!Values' = F!Values
  BY <1>1 DEF F!Values
<1> QED
  BY <1>1, <1>2 DEF FieldRows

\* The field is created or edited, and the rows are left alone.
LEMMA FieldEdited ==
  ASSUME FieldsInd, F!Serve, UNCHANGED <<value, exists>>, NEW g \in FieldRows, field' = {g},
         g.options # {}, loose \subseteq loose', loose' \subseteq Options,
         F!OfValue(g.default) \subseteq g.options \union loose',
         F!Held \subseteq g.options \union loose',
         entity \in F!REQUIRES_DEFAULT_ENTITY_TYPES /\ ~cleared' /\ g.required => g.default # F!Absent
  PROVE  FieldsInd'
<1>1. requests' \in 0 .. MaxRequests /\ UNCHANGED <<dialect, entity, type, elsewhere>>
      /\ F!Values' = F!Values /\ FieldRows' = FieldRows
  BY ServesField
<1>2. FieldRowsHold'
  BY <1>1 DEF FieldRowsHold, F!OfValue
<1>3. \A r \in exists : F!OfValue(value[r]) \subseteq g.options \union loose'
  BY HeldBy
<1>4. ValuesHold'
  BY <1>1, <1>3 DEF FieldsInd, ValuesHold, F!OfValue
<1> QED
  BY <1>2, <1>4 DEF FieldsInd

\* A row is created or edited, and the field is left alone.
LEMMA RowStep ==
  ASSUME FieldsInd, F!Serve, UNCHANGED <<field, cleared>>, loose \subseteq loose', loose' \subseteq Options,
         NEW r \in Rows, NEW v \in {F!Absent} \union F!Values,
         value' = [value EXCEPT ![r] = v], exists' = exists \union {r},
         \A f \in field : F!OfValue(v) \subseteq f.options \union loose',
         field = {} => F!OfValue(v) \subseteq loose'
  PROVE  FieldsInd'
<1>1. requests' \in 0 .. MaxRequests /\ UNCHANGED <<dialect, entity, type, elsewhere>>
      /\ F!Values' = F!Values /\ FieldRows' = FieldRows
  BY ServesField
<1>2. FieldRowsHold'
  BY <1>1 DEF FieldsInd, FieldRowsHold, F!OfValue
<1>3. /\ value' = [s \in Rows |-> value'[s]] /\ value'[r] = v
      /\ \A s \in Rows \ {r} : value'[s] = value[s]
  BY DEF FieldsInd, ValuesHold
<1>4. ValuesHold'
  <2>1. \A s \in Rows : value'[s] = F!Absent \/ (s \in exists' /\ value'[s] \in F!Values')
    BY <1>1, <1>3 DEF FieldsInd, ValuesHold
  <2>2. \A s \in exists' : s \in Rows
    BY DEF FieldsInd, ValuesHold
  <2>3. \A s \in exists' : s = r \/ (s \in exists /\ value'[s] = value[s])
    BY <1>3, <2>2
  <2>4. \A f \in field, s \in exists' : F!OfValue(value'[s]) \subseteq f.options \union loose'
    BY <1>3, <2>3 DEF FieldsInd, ValuesHold
  <2>5. field = {} => \A s \in exists' : F!OfValue(value'[s]) \subseteq loose'
    BY <1>3, <2>3 DEF FieldsInd, ValuesHold
  <2> QED
    BY <1>3, <2>1, <2>2, <2>4, <2>5 DEF ValuesHold, F!OfValue
<1> QED
  BY <1>2, <1>4 DEF FieldsInd

\* create_field: a default has options of the field.
LEMMA FieldCreated ==
  ASSUME FieldsInd, NEW o \in (SUBSET Options) \ {{}}, NEW q \in BOOLEAN, NEW d \in {F!Absent} \union F!Values,
         F!CreateField(o, q, d)
  PROVE  FieldsInd'
<1>1. PICK g : g = [options |-> o, required |-> q, default |-> d, archived |-> FALSE]
  OBVIOUS
<1>2. g \in FieldRows /\ g.options = o /\ g.required = q /\ g.default = d
  BY <1>1 DEF FieldRows
<1>3. /\ F!Serve /\ field = {} /\ field' = {g} /\ UNCHANGED <<value, exists, loose, cleared>>
      /\ d = F!Absent \/ d \subseteq o
      /\ q /\ entity \in F!REQUIRES_DEFAULT_ENTITY_TYPES => d # F!Absent
  BY <1>1 DEF F!CreateField
<1>4. loose' = loose /\ loose \subseteq Options
  BY <1>3 DEF FieldsInd, FieldRowsHold
<1>5. F!OfValue(g.default) \subseteq g.options
  BY <1>2, <1>3 DEF F!OfValue
<1>6. F!Held \subseteq loose
  BY <1>3, HeldBy DEF FieldsInd, ValuesHold
<1> QED
  BY <1>2, <1>3, <1>4, <1>5, <1>6, FieldEdited

\* The options are changed: none that a row holds is left out.
LEMMA OptionsUpdated ==
  ASSUME FieldsInd, NEW f \in field, NEW o \in (SUBSET Options) \ {{}}, NEW d \in {F!Absent} \union F!Values,
         NEW q \in BOOLEAN, NEW sent \in BOOLEAN, F!UpdateOptions(f, o, d, q, sent)
  PROVE  FieldsInd'
<1>1. PICK g : g = [f EXCEPT !.options = o, !.default = d, !.required = q]
  OBVIOUS
<1>2. f \in FieldRows
  BY DEF FieldsInd, FieldRowsHold
<1>3. g \in FieldRows /\ g.options = o /\ g.required = q /\ g.default = d
  BY <1>1, <1>2 DEF FieldRows
<1>4. /\ F!Serve /\ field' = {g} /\ UNCHANGED <<value, exists, loose>>
      /\ cleared' = (~sent /\ q /\ d = F!Absent)
      /\ d = F!Absent \/ d \subseteq o
      /\ sent /\ q /\ entity \in F!REQUIRES_DEFAULT_ENTITY_TYPES => d # F!Absent
      /\ (f.options \ o) \intersect F!Held = {}
  BY <1>1 DEF F!UpdateOptions, F!GuardOptions, F!ValuesInUse
<1>5. loose' = loose /\ loose \subseteq Options
  BY <1>4 DEF FieldsInd, FieldRowsHold
<1>6. F!OfValue(g.default) \subseteq g.options
  BY <1>3, <1>4 DEF F!OfValue
<1>7. F!Held \subseteq f.options \union loose
  BY HeldBy DEF FieldsInd, ValuesHold
<1>8. F!Held \subseteq g.options \union loose
  BY <1>3, <1>4, <1>7
<1> QED
  BY <1>3, <1>4, <1>5, <1>6, <1>8, FieldEdited

\* The default is changed, unchecked.
LEMMA DefaultUpdated ==
  ASSUME FieldsInd, NEW f \in field, NEW d \in {F!Absent} \union F!Values, F!UpdateDefault(f, d)
  PROVE  FieldsInd'
<1>1. PICK g : g = [f EXCEPT !.default = d]
  OBVIOUS
<1>2. f \in FieldRows
  BY DEF FieldsInd, FieldRowsHold
<1>3. g \in FieldRows /\ g.options = f.options /\ g.required = f.required /\ g.default = d
  BY <1>1, <1>2 DEF FieldRows
<1>4. /\ F!Serve /\ field' = {g} /\ UNCHANGED <<value, exists>> /\ loose' = loose \union F!OfValue(d)
      /\ cleared' = (f.required /\ d = F!Absent)
  BY <1>1 DEF F!UpdateDefault
<1>5. F!OfValue(d) \subseteq Options
  BY DEF F!OfValue, F!Values
<1>6. loose \subseteq loose' /\ loose' \subseteq Options /\ f.options # {}
  BY <1>4, <1>5 DEF FieldsInd, FieldRowsHold
<1>7. F!Held \subseteq f.options \union loose
  BY HeldBy DEF FieldsInd, ValuesHold
<1>8. F!Held \subseteq g.options \union loose' /\ F!OfValue(g.default) \subseteq loose'
  BY <1>3, <1>4, <1>7
<1> QED
  BY <1>3, <1>4, <1>6, <1>8, FieldEdited

\* The field becomes required, or stops being so.
LEMMA RequiredUpdated ==
  ASSUME FieldsInd, NEW f \in field, NEW q \in BOOLEAN, F!UpdateRequired(f, q)
  PROVE  FieldsInd'
<1>1. PICK g : g = [f EXCEPT !.required = q]
  OBVIOUS
<1>2. f \in FieldRows
  BY DEF FieldsInd, FieldRowsHold
<1>3. g \in FieldRows /\ g.options = f.options /\ g.required = q /\ g.default = f.default
  BY <1>1, <1>2 DEF FieldRows
<1>4. /\ F!Serve /\ field' = {g} /\ UNCHANGED <<value, exists, loose>>
      /\ q /\ entity \in F!REQUIRES_DEFAULT_ENTITY_TYPES => f.default # F!Absent
  BY <1>1 DEF F!UpdateRequired
<1>5. loose' = loose /\ loose \subseteq Options /\ f.options # {}
      /\ F!OfValue(f.default) \subseteq f.options \union loose
  BY <1>4 DEF FieldsInd, FieldRowsHold
<1>6. F!Held \subseteq f.options \union loose
  BY HeldBy DEF FieldsInd, ValuesHold
<1> QED
  BY <1>3, <1>4, <1>5, <1>6, FieldEdited

\* The field is archived or taken back.
LEMMA FieldArchived ==
  ASSUME FieldsInd, NEW f \in field, F!ArchiveField(f)
  PROVE  FieldsInd'
<1>1. PICK g : g = [f EXCEPT !.archived = ~@]
  OBVIOUS
<1>2. f \in FieldRows
  BY DEF FieldsInd, FieldRowsHold
<1>3. g \in FieldRows /\ g.options = f.options /\ g.required = f.required /\ g.default = f.default
  BY <1>1, <1>2 DEF FieldRows
<1>4. F!Serve /\ field' = {g} /\ UNCHANGED <<value, exists, loose, cleared>>
  BY <1>1 DEF F!ArchiveField
<1>5. loose' = loose /\ loose \subseteq Options /\ f.options # {}
      /\ F!OfValue(f.default) \subseteq f.options \union loose
      /\ (entity \in F!REQUIRES_DEFAULT_ENTITY_TYPES /\ ~cleared /\ f.required => f.default # F!Absent)
  BY <1>4 DEF FieldsInd, FieldRowsHold
<1>6. F!Held \subseteq f.options \union loose
  BY HeldBy DEF FieldsInd, ValuesHold
<1> QED
  BY <1>3, <1>4, <1>5, <1>6, FieldEdited

\* The field is deleted: no row has a value of it.
LEMMA FieldDeleted ==
  ASSUME FieldsInd, NEW f \in field, F!DeleteField(f)
  PROVE  FieldsInd'
<1>1. F!Serve /\ field' = {} /\ UNCHANGED <<value, exists, loose>> /\ \A r \in exists : value[r] = F!Absent
  BY DEF F!DeleteField
<1>2. requests' \in 0 .. MaxRequests /\ UNCHANGED <<dialect, entity, type, elsewhere>>
      /\ F!Values' = F!Values /\ FieldRows' = FieldRows
  BY <1>1, ServesField
<1>3. FieldRowsHold'
  BY <1>1, <1>2 DEF FieldsInd, FieldRowsHold
<1>4. ValuesHold'
  BY <1>1, <1>2 DEF FieldsInd, ValuesHold, F!OfValue
<1> QED
  BY <1>3, <1>4 DEF FieldsInd

\* A row is created with the default.
LEMMA RowCreated ==
  ASSUME FieldsInd, NEW r \in Rows, F!CreateRow(r)
  PROVE  FieldsInd'
<1>1. PICK v : v = F!Default
  OBVIOUS
<1>2. /\ F!Serve /\ exists' = exists \union {r} /\ value' = [value EXCEPT ![r] = v]
      /\ UNCHANGED <<field, loose, cleared>>
  BY <1>1 DEF F!CreateRow
<1>3. v = F!Absent \/ \E f \in field : v = f.default
  BY <1>1 DEF F!Default, F!Active
<1>4. v \in {F!Absent} \union F!Values
  BY <1>3 DEF FieldsInd, FieldRowsHold, FieldRows
<1>5. \A f \in field : F!OfValue(v) \subseteq f.options \union loose'
  <2> SUFFICES ASSUME NEW f \in field PROVE F!OfValue(v) \subseteq f.options \union loose'
    OBVIOUS
  <2>1. CASE v = F!Absent
    BY <2>1 DEF F!OfValue
  <2>2. CASE v # F!Absent
    <3>1. v = f.default
      BY <1>3, <2>2 DEF FieldsInd, FieldRowsHold
    <3> QED
      BY <1>2, <3>1 DEF FieldsInd, FieldRowsHold
  <2> QED
    BY <2>1, <2>2
<1>6. field = {} => F!OfValue(v) \subseteq loose'
  BY <1>3 DEF F!OfValue
<1>7. loose \subseteq loose' /\ loose' \subseteq Options
  BY <1>2 DEF FieldsInd, FieldRowsHold
<1> QED
  BY <1>2, <1>4, <1>5, <1>6, <1>7, RowStep

\* A row is written with a checked value.
LEMMA RowWritten ==
  ASSUME FieldsInd, NEW r \in Rows, NEW v \in {F!Absent} \union F!Values, F!WriteRow(r, v)
  PROVE  FieldsInd'
<1>1. F!Serve /\ F!Checked(v) /\ exists' = exists \union {r} /\ UNCHANGED <<field, loose, cleared>>
      /\ value' = (IF F!Active = {} THEN value ELSE [value EXCEPT ![r] = v])
  BY DEF F!WriteRow
<1>2. loose \subseteq loose' /\ loose' \subseteq Options
  BY <1>1 DEF FieldsInd, FieldRowsHold
<1>3. CASE F!Active = {}
  <2>1. PICK old : old = value[r]
    OBVIOUS
  <2>2. value' = [value EXCEPT ![r] = old]
    BY <1>1, <1>3, <2>1 DEF FieldsInd, ValuesHold
  <2>3. old = F!Absent \/ (r \in exists /\ old \in F!Values)
    BY <2>1 DEF FieldsInd, ValuesHold
  <2>4. \A f \in field : F!OfValue(old) \subseteq f.options \union loose'
    BY <1>1, <2>1, <2>3 DEF FieldsInd, ValuesHold, F!OfValue
  <2>5. field = {} => F!OfValue(old) \subseteq loose'
    BY <1>1, <2>1, <2>3 DEF FieldsInd, ValuesHold, F!OfValue
  <2>6. old \in {F!Absent} \union F!Values
    BY <2>3
  <2> QED
    BY <1>1, <1>2, <2>2, <2>4, <2>5, <2>6, RowStep
<1>4. CASE F!Active # {}
  <2>1. PICK a \in F!Active : TRUE
    BY <1>4
  <2>2. a \in field /\ \A f \in field : f = a
    BY <2>1 DEF F!Active, FieldsInd, FieldRowsHold
  <2>3. v = F!Absent \/ v \subseteq a.options
    BY <1>1, <2>1 DEF F!Checked
  <2>4. F!OfValue(v) \subseteq a.options
    BY <2>3 DEF F!OfValue
  <2>5. value' = [value EXCEPT ![r] = v]
    BY <1>1, <1>4
  <2>6. (\A f \in field : F!OfValue(v) \subseteq f.options \union loose') /\ field # {}
    BY <2>2, <2>4
  <2> QED
    BY <1>1, <1>2, <2>5, <2>6, RowStep
<1> QED
  BY <1>3, <1>4

\* A row comes with a copied value.
LEMMA RowCopied ==
  ASSUME FieldsInd, NEW r \in Rows, NEW v \in F!Values, F!CopyRow(r, v)
  PROVE  FieldsInd'
<1>1. /\ F!Serve /\ exists' = exists \union {r} /\ value' = [value EXCEPT ![r] = v]
      /\ loose' = loose \union v /\ UNCHANGED <<field, cleared>>
  BY DEF F!CopyRow
<1>2. v \subseteq Options
  BY DEF F!Values
<1>3. loose \subseteq loose' /\ loose' \subseteq Options /\ F!OfValue(v) \subseteq loose'
  BY <1>1, <1>2 DEF FieldsInd, FieldRowsHold, F!OfValue
<1>4. v \in {F!Absent} \union F!Values /\ \A f \in field : F!OfValue(v) \subseteq f.options \union loose'
  BY <1>3
<1> QED
  BY <1>1, <1>3, <1>4, RowStep

\* A row is deleted with its value.
LEMMA RowDeleted ==
  ASSUME FieldsInd, NEW r \in Rows, F!DeleteRow(r)
  PROVE  FieldsInd'
<1>1. /\ F!Serve /\ exists' = exists \ {r} /\ value' = [value EXCEPT ![r] = F!Absent]
      /\ UNCHANGED <<field, loose, cleared>>
  BY DEF F!DeleteRow
<1>2. requests' \in 0 .. MaxRequests /\ UNCHANGED <<dialect, entity, type, elsewhere>>
      /\ F!Values' = F!Values /\ FieldRows' = FieldRows
  BY <1>1, ServesField
<1>3. FieldRowsHold'
  BY <1>1, <1>2 DEF FieldsInd, FieldRowsHold, F!OfValue
<1>4. /\ value' = [s \in Rows |-> value'[s]] /\ value'[r] = F!Absent
      /\ \A s \in Rows \ {r} : value'[s] = value[s]
  BY <1>1 DEF FieldsInd, ValuesHold
<1>5. \A s \in exists' : s \in Rows /\ s \in exists /\ value'[s] = value[s]
  BY <1>1, <1>4 DEF FieldsInd, ValuesHold
<1>6. ValuesHold'
  <2>1. \A s \in Rows : value'[s] = F!Absent \/ (s \in exists' /\ value'[s] \in F!Values')
    BY <1>1, <1>2, <1>4 DEF FieldsInd, ValuesHold
  <2>2. /\ \A f \in field, s \in exists' : F!OfValue(value'[s]) \subseteq f.options \union loose
        /\ field = {} => \A s \in exists' : F!OfValue(value'[s]) \subseteq loose
    BY <1>5 DEF FieldsInd, ValuesHold
  <2> QED
    BY <1>1, <1>4, <1>5, <2>1, <2>2 DEF ValuesHold, F!OfValue
<1> QED
  BY <1>3, <1>6 DEF FieldsInd

\* The invariant holds at the start.
LEMMA FieldsInit == F!Init => FieldsInd
<1> SUFFICES ASSUME F!Init PROVE FieldsInd
  OBVIOUS
<1>1. field = {} /\ exists = {} /\ value = [r \in Rows |-> F!Absent] /\ requests = 0 /\ loose = {}
  BY DEF F!Init
<1>2. FieldRowsHold
  BY <1>1, CatalogBounds DEF FieldRowsHold
<1>3. ValuesHold
  BY <1>1 DEF ValuesHold
<1> QED
  BY <1>2, <1>3 DEF FieldsInd

\* Every step of the machine keeps it.
LEMMA FieldsNext == FieldsInd /\ [F!Next]_fieldState => FieldsInd'
<1> SUFFICES ASSUME FieldsInd, [F!Next]_fieldState PROVE FieldsInd'
  OBVIOUS
<1>1. CASE UNCHANGED fieldState
  BY <1>1, FieldsStill
<1>2. ASSUME NEW r \in Rows, F!WriteRow(r, F!Absent) \/ \E v \in F!Values : F!WriteRow(r, v)
      PROVE  FieldsInd'
  BY <1>2, RowWritten
<1>3. CASE F!Next
  BY <1>2, <1>3, FieldCreated, OptionsUpdated, DefaultUpdated, RequiredUpdated, FieldDeleted, FieldArchived,
     RowCreated, RowDeleted, RowCopied DEF F!Next
<1> QED
  BY <1>1, <1>3

\* It is what FieldsHold needs.
LEMMA FieldsIndHolds == FieldsInd => F!FieldsHold
<1> SUFFICES ASSUME FieldsInd PROVE F!FieldsHold
  OBVIOUS
<1>1. FieldRowsHold /\ ValuesHold
  BY DEF FieldsInd
<1>2. F!TypeOK
  <2>1. F!Cardinality(field) <= 1
    <3>1. CASE field = {}
      BY <3>1, FS_EmptySet, SameSizeOfFields
    <3>2. CASE field # {}
      <4>1. PICK f : f \in field
        BY <3>2
      <4>2. field = {f}
        BY <1>1, <4>1 DEF FieldRowsHold
      <4> QED
        BY <4>2, FS_Singleton, SameSizeOfFields
    <3> QED
      BY <3>1, <3>2
  <2> QED
    BY <1>1, <2>1 DEF F!TypeOK, FieldRowsHold, ValuesHold, FieldRows
<1>3. F!NoGhosts
  BY <1>1, HeldBy DEF F!NoGhosts, ValuesHold
<1>4. F!NoLeftovers
  BY <1>1, HeldBy DEF F!NoLeftovers, ValuesHold
<1>5. F!DefaultsHelp
  BY <1>1 DEF F!DefaultsHelp, F!Fails, F!Active, FieldRowsHold
<1> QED
  BY <1>2, <1>3, <1>4, <1>5 DEF F!FieldsHold

\* Whatever the sequence of requests: rows have options of the field only, but for those
\* that an unchecked default or a copy has brought, no value outlives its field, and rows
\* can be created without one.  For any number of options, rows and requests.
THEOREM RowsKeepTheirOptions == Spec => []FieldsHold
<1> DEFINE Kept == part = "fields" => FieldsInd
<1>1. Init => Kept
  BY FieldsInit DEF Init
<1>2. Kept /\ [Next]_catalogVars => Kept'
  <2> SUFFICES ASSUME Kept, [Next]_catalogVars, part' = "fields" PROVE FieldsInd'
    OBVIOUS
  <2>1. CASE UNCHANGED catalogVars
    <3>1. part = "fields" /\ UNCHANGED fieldState
      BY <2>1 DEF catalogVars, fieldVars, fieldState
    <3> QED
      BY <3>1, FieldsNext
  <2>2. CASE FieldStep
    BY <2>2, FieldsNext DEF FieldStep
  <2>3. CASE SuiteStep \/ CaseStep \/ EnvironmentStep \/ FileStep
    BY <2>3 DEF SuiteStep, CaseStep, EnvironmentStep, FileStep
  <2> QED
    BY <2>1, <2>2, <2>3 DEF Next
<1>3. Kept => FieldsHold
  BY FieldsIndHolds DEF FieldsHold
<1> QED
  BY <1>1, <1>2, <1>3, PTL DEF Spec, catalogVars

-----------------------------------------------------------------------------
(* Why EnvironmentsHold is kept.  A slug or an id that a worker has taken is *)
(* free until it commits; the one that chooses the default knows the row     *)
(* that has it; a slug that executions name has a row that nobody will take  *)
(* away.                                                                     *)

EditOps == {"none", "create", "update", "archive", "delete", "execute", "version"}
VersionRows == [status : E!VersionStatuses, dated : BOOLEAN]

\* What a request will do when it commits: take a slug, insert a row, choose the default,
\* or take away the slug of a row.
Takes(q) == q.op \in {"create", "update", "execute"} /\ q.takes
Inserts(q) == q.op \in {"create", "execute"} /\ q.takes
Picks(q) == q.op \in {"create", "update"} /\ q.makes = "yes"
Loses(q, id) == q.op \in {"update", "delete"} /\ q.id = id /\ (q.op = "delete" \/ q.takes)
HasRow(q) == q.op \in {"update", "archive", "delete"} \/ Inserts(q)

EditHolds(q) ==
  /\ q.op \in EditOps
  /\ q.op = "none" => q = E!Idle
  /\ q.op \in {"create", "update", "execute"} => q.slug \in Slugs /\ q.takes \in BOOLEAN
  /\ q.op = "create" \/ HasRow(q) => q.id \in 1 .. inserted
  /\ q.op = "create" => q.takes
  /\ q.op = "update" => q.id = q.seen.id /\ (q.takes <=> q.slug # q.seen.slug)
  /\ q.op = "archive" => q.to \in BOOLEAN /\ q.seen.archived \in BOOLEAN
  /\ q.op = "version" => q.seen \in VersionRows /\ q.to \in E!VersionStatuses

EditsHold ==
  /\ editing = [w \in Workers |-> editing[w]]
  /\ \A w \in Workers : EditHolds(editing[w])

EnvironmentRows == [id : 1 .. inserted, slug : Slugs, default : BOOLEAN, archived : BOOLEAN]

CatalogRowsHold ==
  /\ inserted \in Nat /\ inserted <= MaxEnvironments
  /\ env \subseteq EnvironmentRows
  /\ \A e, d \in env : e.id = d.id \/ e.slug = d.slug => e = d
  /\ used \subseteq Slugs /\ stray \subseteq Slugs

\* A slug that q takes and an id that it inserts are no row's and nobody else's.
FreeFor(w, q) ==
  /\ Takes(q) => /\ \A e \in env : e.slug # q.slug
                 /\ \A v \in Workers \ {w} : Takes(editing[v]) => editing[v].slug # q.slug
  /\ Inserts(q) => /\ \A e \in env : e.id # q.id
                   /\ \A v \in Workers \ {w} : HasRow(editing[v]) => editing[v].id # q.id
Reserved == \A w \in Workers : FreeFor(w, editing[w])

\* Who chooses the default is alone, and will clear the row that has it.
PickHolds(w, q) ==
  Picks(q) => /\ \A e \in env : e.default => e.id = q.id \/ e.id \in q.clears
              /\ \A v \in Workers \ {w} : ~Picks(editing[v])
DefaultsHold ==
  ~clashed => /\ \A e, d \in env : e.default /\ d.default => e = d
              /\ \A w \in Workers : PickHolds(w, editing[w])

NamesSlug(q, s) == q.op = "execute" /\ ~q.takes /\ q.slug = s
Named(s) == s \in used \/ \E w \in Workers : NamesSlug(editing[w], s)
Found(s) == \E e \in env : e.slug = s /\ \A v \in Workers : ~Loses(editing[v], e.id)
NamesHold == \A s \in Slugs \ stray : Named(s) => Found(s)

VersionHolds ==
  /\ version \in VersionRows
  /\ serial => /\ version.status = "released" <=> version.dated
               /\ \A w \in Workers : editing[w].op = "version" => editing[w].seen = version
               /\ \A v, w \in Workers : editing[v].op # "none" /\ editing[w].op # "none" => v = w

EnvironmentsInd ==
  EditsHold /\ CatalogRowsHold /\ Reserved /\ DefaultsHold /\ NamesHold /\ VersionHolds

environmentState == <<serial, requests, environmentVars>>

\* A worker goes on with q, and the others stay.
Edits(w, q) ==
  /\ editing' = [v \in Workers |-> editing'[v]]
  /\ editing'[w] = q /\ \A v \in Workers \ {w} : editing'[v] = editing[v]

\* The library and the model of environments count alike.
LEMMA SameSizeOfEnvironments == \A set : E!Cardinality(set) = Cardinality(set)
  BY DEF Cardinality, E!Cardinality

\* A step of another machine.
LEMMA EnvironmentsStill == EnvironmentsInd /\ UNCHANGED environmentState => EnvironmentsInd'
  BY DEF environmentState, environmentVars, EnvironmentsInd, EditsHold, EditHolds, HasRow, Takes, Inserts,
     Picks, Loses, CatalogRowsHold, EnvironmentRows, FreeFor, Reserved, PickHolds, DefaultsHold, NamesSlug,
     Named, Found, NamesHold, VersionHolds

\* One worker's request changes.
LEMMA EditChanges ==
  ASSUME EditsHold, NEW w \in Workers, NEW q, editing' = [editing EXCEPT ![w] = q]
  PROVE  Edits(w, q)
  BY DEF EditsHold, Edits

\* What an idle worker will not do.
LEMMA IdleEdits ==
  /\ E!Idle.op = "none" /\ ~Takes(E!Idle) /\ ~Inserts(E!Idle) /\ ~Picks(E!Idle) /\ ~HasRow(E!Idle)
  /\ \A id : ~Loses(E!Idle, id)
  /\ \A s : ~NamesSlug(E!Idle, s)
  BY DEF E!Idle, Takes, Inserts, Picks, HasRow, Loses, NamesSlug

\* Every request is still one when more rows have been inserted.
LEMMA EditsStep ==
  ASSUME EditsHold, NEW w \in Workers, NEW q, Edits(w, q), EditHolds(q)',
         inserted \in Nat, inserted' \in Nat, inserted <= inserted'
  PROVE  EditsHold'
<1>1. ASSUME NEW v \in Workers \ {w} PROVE EditHolds(editing[v])'
  <2>1. EditHolds(editing[v]) /\ editing'[v] = editing[v]
    BY DEF EditsHold, Edits
  <2> QED
    BY <2>1 DEF EditHolds, HasRow, Inserts
<1>2. EditHolds(editing[w])'
  BY DEF Edits, EditHolds, HasRow, Inserts
<1> QED
  BY <1>1, <1>2 DEF Edits, EditsHold

\* Others are the workers that do something.
LEMMA AmongOthers ==
  ASSUME NEW w, NEW v \in Workers \ {w}, editing[v].op # "none"
  PROVE  editing[v] \in E!Others(w)
  BY DEF E!Others, E!Idle

\* A request begins: it takes what is free, and away nothing that is named.
LEMMA EditBegins ==
  ASSUME EnvironmentsInd, NEW w \in Workers, NEW q, E!Serve(w, q),
         inserted' \in Nat, inserted <= inserted', inserted' <= MaxEnvironments,
         clashed => clashed', stray \subseteq stray', stray' \subseteq Slugs,
         EditHolds(q)', q.op # "none", FreeFor(w, q),
         HasRow(q) => \A v \in Workers \ {w} : Inserts(editing[v]) => editing[v].id # q.id,
         ~clashed' => PickHolds(w, q),
         q.op = "version" => q.seen = version,
         \A s \in Slugs \ stray' : NamesSlug(q, s) => Found(s),
         \A e \in env : e.slug \notin stray' /\ Loses(q, e.id) => ~Named(e.slug)
  PROVE  EnvironmentsInd'
<1>1. /\ editing[w] = E!Idle /\ UNCHANGED <<serial, env, auto, used, version>>
      /\ serial => \A v \in Workers : editing[v] = E!Idle
      /\ editing' = [editing EXCEPT ![w] = q]
  BY DEF E!Serve, E!Busy
<1>2. Edits(w, q)
  BY <1>1, EditChanges DEF EnvironmentsInd
<1>3. EditsHold'
  BY <1>2, EditsStep DEF EnvironmentsInd, CatalogRowsHold
<1>4. CatalogRowsHold'
  BY <1>1 DEF EnvironmentsInd, CatalogRowsHold, EnvironmentRows
<1>5. Reserved'
  <2> SUFFICES ASSUME NEW v \in Workers PROVE FreeFor(v, editing[v])'
    BY DEF Reserved
  <2>1. FreeFor(v, editing[v])
    BY DEF EnvironmentsInd, Reserved
  <2>2. CASE v = w
    BY <1>1, <1>2, <2>2 DEF FreeFor, Edits
  <2>3. CASE v # w
    <3>1. Takes(q) /\ Takes(editing[v]) => editing[v].slug # q.slug
      BY <2>3 DEF FreeFor
    <3>2. HasRow(q) /\ Inserts(editing[v]) => editing[v].id # q.id
      BY <2>3
    <3> QED
      BY <1>1, <1>2, <2>1, <2>3, <3>1, <3>2 DEF FreeFor, Edits
  <2> QED
    BY <2>2, <2>3
<1>6. DefaultsHold'
  <2> SUFFICES ASSUME ~clashed' PROVE DefaultsHold'
    BY DEF DefaultsHold
  <2>1. DefaultsHold /\ ~clashed /\ PickHolds(w, q)
    BY DEF EnvironmentsInd
  <2>2. ASSUME NEW v \in Workers PROVE PickHolds(v, editing[v])'
    <3>1. PickHolds(v, editing[v])
      BY <2>1 DEF DefaultsHold
    <3>2. CASE v = w
      BY <1>1, <1>2, <2>1, <3>2 DEF PickHolds, Edits
    <3>3. CASE v # w
      <4>1. Picks(q) => ~Picks(editing[v])
        BY <2>1, <3>3 DEF PickHolds
      <4> QED
        BY <1>1, <1>2, <3>1, <3>3, <4>1 DEF PickHolds, Edits
    <3> QED
      BY <3>2, <3>3
  <2> QED
    BY <1>1, <2>1, <2>2 DEF DefaultsHold
<1>7. NamesHold'
  <2> SUFFICES ASSUME NEW s \in Slugs \ stray', Named(s)' PROVE Found(s)'
    BY DEF NamesHold
  <2>1. Found(s)
    <3>1. Named(s) => Found(s)
      BY DEF EnvironmentsInd, NamesHold
    <3>2. Named(s) \/ NamesSlug(q, s)
      BY <1>1, <1>2 DEF Named, Edits
    <3> QED
      BY <3>1, <3>2
  <2>2. PICK e \in env : e.slug = s /\ \A v \in Workers : ~Loses(editing[v], e.id)
    BY <2>1 DEF Found
  <2>3. ~Loses(q, e.id)
    <3>1. CASE Named(s)
      BY <2>2, <3>1
    <3>2. CASE ~Named(s)
      <4>1. NamesSlug(q, s)
        BY <1>1, <1>2, <3>2 DEF Named, Edits
      <4> QED
        BY <4>1 DEF NamesSlug, Loses
    <3> QED
      BY <3>1, <3>2
  <2>4. \A v \in Workers : ~Loses(editing'[v], e.id)
    BY <1>2, <2>2, <2>3 DEF Edits
  <2> QED
    BY <1>1, <2>2, <2>4 DEF Found
<1>8. VersionHolds'
  <2>1. VersionHolds
    BY DEF EnvironmentsInd
  <2>2. serial => \A v \in Workers \ {w} : editing'[v].op = "none"
    BY <1>1, <1>2, IdleEdits DEF Edits
  <2> QED
    BY <1>1, <1>2, <2>1, <2>2 DEF VersionHolds, Edits, VersionRows
<1> QED
  BY <1>3, <1>4, <1>5, <1>6, <1>7, <1>8 DEF EnvironmentsInd

\* A request commits q, or is lost.
LEMMA EditCommits ==
  ASSUME EnvironmentsInd, NEW w \in Workers, NEW q, q = editing[w], q.op # "none", E!Answered(w),
         UNCHANGED <<serial, inserted, clashed, stray>>,
         env' \subseteq EnvironmentRows,
         \A e, d \in env' : e.id = d.id \/ e.slug = d.slug => e = d,
         \A e \in env' : (\E d \in env : d.slug = e.slug) \/ (Takes(q) /\ e.slug = q.slug),
         \A e \in env' : (\E d \in env : d.id = e.id) \/ (Inserts(q) /\ e.id = q.id),
         \A e \in env' : e.default => (\E d \in env : d.default /\ d.id = e.id) \/ (Picks(q) /\ e.id = q.id),
         Picks(q) => env' = env \/ \A e \in env' : e.default => e.id = q.id \/ e.id \notin q.clears,
         \A d \in env : ~Loses(q, d.id) => \E e \in env' : e.id = d.id /\ e.slug = d.slug,
         \A s \in used' : \/ s \in used
                          \/ NamesSlug(q, s)
                          \/ Inserts(q) /\ s = q.slug /\ (\E e \in env' : e.id = q.id /\ e.slug = s),
         version' \in VersionRows,
         serial => (version'.status = "released" <=> version'.dated)
  PROVE  EnvironmentsInd'
<1>1. editing' = [editing EXCEPT ![w] = E!Idle]
  BY DEF E!Answered
<1>2. Edits(w, E!Idle)
  BY <1>1, EditChanges DEF EnvironmentsInd
<1>3. EditHolds(q) /\ FreeFor(w, q)
  BY DEF EnvironmentsInd, EditsHold, Reserved
<1>4. EditsHold'
  <2>1. EditHolds(E!Idle)'
    BY IdleEdits DEF EditHolds, EditOps, HasRow, Inserts, E!Idle
  <2>2. inserted \in Nat /\ inserted' \in Nat /\ inserted <= inserted'
    BY DEF EnvironmentsInd, CatalogRowsHold
  <2> QED
    BY <1>2, <2>1, <2>2, EditsStep DEF EnvironmentsInd
<1>5. CatalogRowsHold'
  <2>1. used' \subseteq Slugs
    BY <1>3 DEF EditHolds, EnvironmentsInd, CatalogRowsHold, NamesSlug, Inserts
  <2> QED
    BY <2>1 DEF EnvironmentsInd, CatalogRowsHold, EnvironmentRows
<1>6. Reserved'
  <2> SUFFICES ASSUME NEW v \in Workers PROVE FreeFor(v, editing[v])'
    BY DEF Reserved
  <2>1. CASE v = w
    BY <1>2, <2>1, IdleEdits DEF FreeFor, Edits
  <2>2. CASE v # w
    <3>1. FreeFor(v, editing[v]) /\ editing'[v] = editing[v]
      BY <1>2, <2>2 DEF EnvironmentsInd, Reserved, Edits
    <3>2. Takes(editing[v]) => \A e \in env' : e.slug # editing[v].slug
      BY <2>2, <1>3, <3>1 DEF FreeFor
    <3>3. Inserts(editing[v]) => \A e \in env' : e.id # editing[v].id
      BY <2>2, <1>3, <3>1 DEF FreeFor, HasRow
    <3>4. \A u \in Workers \ {v} : (Takes(editing'[u]) => Takes(editing[u]) /\ editing'[u] = editing[u])
                                   /\ (HasRow(editing'[u]) => HasRow(editing[u]) /\ editing'[u] = editing[u])
      BY <1>2, IdleEdits DEF Edits
    <3> QED
      BY <3>1, <3>2, <3>3, <3>4 DEF FreeFor
  <2> QED
    BY <2>1, <2>2
<1>7. DefaultsHold'
  <2> SUFFICES ASSUME ~clashed PROVE DefaultsHold'
    BY DEF DefaultsHold
  <2>1. DefaultsHold /\ PickHolds(w, q)
    BY DEF EnvironmentsInd, DefaultsHold
  <2>2. \A e, d \in env' : e.default /\ d.default => e = d
    <3>1. CASE Picks(q) /\ env' # env
      <4>1. \A e \in env' : e.default => e.id = q.id
        BY <2>1, <3>1 DEF PickHolds
      <4> QED
        BY <4>1
    <3>2. CASE ~Picks(q) \/ env' = env
      BY <2>1, <3>2 DEF DefaultsHold
    <3> QED
      BY <3>1, <3>2
  <2>3. ASSUME NEW v \in Workers PROVE PickHolds(v, editing[v])'
    <3>1. CASE v = w
      BY <1>2, <3>1, IdleEdits DEF PickHolds, Edits
    <3>2. CASE v # w
      <4>1. PickHolds(v, editing[v]) /\ editing'[v] = editing[v]
        BY <1>2, <2>1, <3>2 DEF DefaultsHold, Edits
      <4>2. Picks(editing[v]) => ~Picks(q)
        BY <2>1, <3>2 DEF PickHolds
      <4>3. Picks(editing[v]) => \A e \in env' : e.default => e.id = editing[v].id \/ e.id \in editing[v].clears
        BY <4>1, <4>2 DEF PickHolds
      <4>4. \A u \in Workers \ {v} : Picks(editing'[u]) => Picks(editing[u])
        BY <1>2, IdleEdits DEF Edits
      <4> QED
        BY <4>1, <4>3, <4>4 DEF PickHolds
    <3> QED
      BY <3>1, <3>2
  <2> QED
    BY <2>1, <2>2, <2>3 DEF DefaultsHold
<1>8. NamesHold'
  <2> SUFFICES ASSUME NEW s \in Slugs \ stray, Named(s)' PROVE Found(s)'
    BY DEF NamesHold
  <2>1. CASE Inserts(q) /\ \E e \in env' : e.id = q.id /\ e.slug = s
    <3>1. PICK e \in env' : e.id = q.id /\ e.slug = s
      BY <2>1
    <3>2. Inserts(q)
      BY <2>1
    <3>3. ASSUME NEW v \in Workers, Loses(editing'[v], e.id) PROVE FALSE
      <4>1. v # w /\ editing'[v] = editing[v]
        BY <1>2, <3>3, IdleEdits DEF Edits
      <4>2. HasRow(editing[v]) /\ editing[v].id = q.id
        BY <3>1, <3>3, <4>1 DEF Loses, HasRow
      <4> QED
        BY <1>3, <3>2, <4>1, <4>2 DEF FreeFor
    <3> QED
      BY <3>1, <3>3 DEF Found
  <2>2. CASE ~(Inserts(q) /\ \E e \in env' : e.id = q.id /\ e.slug = s)
    <3>1. Named(s)
      <4>1. CASE s \in used'
        BY <2>2, <4>1 DEF Named
      <4>2. CASE s \notin used'
        <5>1. PICK v \in Workers : NamesSlug(editing'[v], s)
          BY <4>2 DEF Named
        <5>2. editing'[v] = editing[v]
          BY <1>2, <5>1, IdleEdits DEF Edits
        <5> QED
          BY <5>1, <5>2 DEF Named
      <4> QED
        BY <4>1, <4>2
    <3>2. PICK d \in env : d.slug = s /\ \A v \in Workers : ~Loses(editing[v], d.id)
      BY <3>1 DEF EnvironmentsInd, NamesHold, Found
    <3>3. PICK e \in env' : e.id = d.id /\ e.slug = s
      BY <3>2
    <3>4. \A v \in Workers : ~Loses(editing'[v], e.id)
      BY <1>2, <3>2, <3>3, IdleEdits DEF Edits
    <3> QED
      BY <3>3, <3>4 DEF Found
  <2> QED
    BY <2>1, <2>2
<1>9. VersionHolds'
  <2>1. serial => \A v \in Workers : editing'[v].op = "none"
    BY <1>2, IdleEdits DEF Edits, EnvironmentsInd, VersionHolds
  <2> QED
    BY <2>1 DEF VersionHolds, VersionRows
<1> QED
  BY <1>4, <1>5, <1>6, <1>7, <1>8, <1>9 DEF EnvironmentsInd

\* A slug that may be taken is no row's, and nobody else takes it.
LEMMA MayTakeIsFree ==
  ASSUME NEW w, NEW s, E!MayTake(w, s)
  PROVE  /\ \A e \in env : e.slug # s
         /\ \A v \in Workers \ {w} : Takes(editing[v]) => editing[v].slug # s
<1>1. \A e \in env : e.slug # s
  BY DEF E!MayTake, E!SlugsOf
<1>2. ASSUME NEW v \in Workers \ {w}, Takes(editing[v]) PROVE editing[v].slug # s
  <2>1. editing[v] \in E!Others(w)
    BY <1>2, AmongOthers DEF Takes
  <2> QED
    BY <1>2, <2>1 DEF E!MayTake, E!Reserves, Takes
<1> QED
  BY <1>1, <1>2

\* Nobody else chooses the default when a request that does, clashes with none.
LEMMA PicksAlone ==
  ASSUME NEW w, NEW id, ~E!Clashes(w, id, "yes")
  PROVE  \A v \in Workers \ {w} : ~Picks(editing[v])
<1> SUFFICES ASSUME NEW v \in Workers \ {w}, Picks(editing[v]) PROVE FALSE
  OBVIOUS
<1>1. editing[v] \in E!Others(w)
  BY AmongOthers DEF Picks
<1> QED
  BY <1>1 DEF E!Clashes, Picks

\* What a row or a slug that executions name has to lose.
LEMMA NobodyCreates ==
  ASSUME NEW w, NEW s, editing[w] = E!Idle, E!Crossed(w, s) = {}
  PROVE  \A v \in Workers : ~NamesSlug(editing[v], s)
<1> SUFFICES ASSUME NEW v \in Workers, NamesSlug(editing[v], s) PROVE FALSE
  OBVIOUS
<1>1. v # w
  BY IdleEdits
<1>2. editing[v] \in E!Others(w)
  BY <1>1, AmongOthers DEF NamesSlug
<1> QED
  BY <1>2 DEF E!Crossed, NamesSlug

\* What is crossed is the slug.
LEMMA CrossedSlug ==
  ASSUME NEW w, NEW s
  PROVE  E!Crossed(w, s) \subseteq {s}
  BY DEF E!Crossed

\* Where a request of another worker has its row.
LEMMA RowsOfOthers ==
  ASSUME EnvironmentsInd, NEW v \in Workers
  PROVE  HasRow(editing[v]) => editing[v].id \in 1 .. inserted
  BY DEF EnvironmentsInd, EditsHold, EditHolds

\* create_environment takes a slug and an id that are free.
LEMMA CreateBegins ==
  ASSUME EnvironmentsInd, NEW w \in Workers, NEW s \in Slugs, NEW makes \in {"yes", "no"},
         E!BeginCreate(w, s, makes)
  PROVE  EnvironmentsInd'
<1>1. PICK q : q = [op |-> "create", id |-> inserted + 1, slug |-> s, takes |-> TRUE,
                    makes |-> makes, clears |-> E!Cleared(inserted + 1, makes)]
  OBVIOUS
<1>2. /\ q.op = "create" /\ q.id = inserted + 1 /\ q.slug = s /\ q.takes = TRUE
      /\ q.makes = makes /\ q.clears = E!Cleared(inserted + 1, makes)
  BY <1>1
<1>3. /\ E!Serve(w, q) /\ inserted < MaxEnvironments /\ E!MayTake(w, s) /\ inserted' = inserted + 1
      /\ clashed' = (clashed \/ E!Clashes(w, inserted + 1, makes)) /\ stray' = stray
  BY <1>1 DEF E!BeginCreate
<1>4. inserted \in Nat /\ env \subseteq EnvironmentRows /\ stray \subseteq Slugs
  BY DEF EnvironmentsInd, CatalogRowsHold
<1>5. inserted' \in Nat /\ inserted <= inserted' /\ inserted' <= MaxEnvironments
  BY <1>3, <1>4, CatalogBounds
<1>6. EditHolds(q)'
  <2>1. q.id \in 1 .. inserted' /\ q.op # "none" /\ q.op # "update" /\ q.op # "archive" /\ q.op # "version"
    BY <1>2, <1>3, <1>4
  <2> QED
    BY <1>2, <2>1 DEF EditHolds, EditOps
<1>7. \A v \in Workers \ {w} : HasRow(editing[v]) => editing[v].id # q.id
  BY <1>2, <1>4, RowsOfOthers
<1>8. FreeFor(w, q)
  <2>1. \A e \in env : e.id # q.id
    BY <1>2, <1>4 DEF EnvironmentRows
  <2> QED
    BY <1>2, <1>3, <1>7, <2>1, MayTakeIsFree DEF FreeFor
<1>9. HasRow(q) => \A v \in Workers \ {w} : Inserts(editing[v]) => editing[v].id # q.id
  BY <1>7 DEF HasRow
<1>10. ~clashed' => PickHolds(w, q)
  <2> SUFFICES ASSUME ~clashed', Picks(q) PROVE PickHolds(w, q)
    BY DEF PickHolds
  <2>1. makes = "yes"
    BY <1>2 DEF Picks
  <2>2. \A v \in Workers \ {w} : ~Picks(editing[v])
    BY <1>3, <2>1, PicksAlone
  <2>3. \A e \in env : e.default => e.id = q.id \/ e.id \in q.clears
    BY <1>2, <2>1 DEF E!Cleared
  <2> QED
    BY <2>2, <2>3 DEF PickHolds
<1>11. /\ \A t \in Slugs \ stray' : NamesSlug(q, t) => Found(t)
       /\ \A e \in env : e.slug \notin stray' /\ Loses(q, e.id) => ~Named(e.slug)
  BY <1>2 DEF NamesSlug, Loses
<1> QED
  BY <1>2, <1>3, <1>4, <1>5, <1>6, <1>8, <1>9, <1>10, <1>11, EditBegins

\* update_environment takes away no slug that executions name, unless it is stray.
LEMMA UpdateBegins ==
  ASSUME EnvironmentsInd, NEW w \in Workers, NEW e \in env, NEW s \in Slugs, NEW makes \in E!Choices,
         E!BeginUpdate(w, e, s, makes)
  PROVE  EnvironmentsInd'
<1>1. PICK q : q = [op |-> "update", id |-> e.id, slug |-> s, takes |-> s # e.slug,
                    makes |-> makes, clears |-> E!Cleared(e.id, makes), seen |-> e]
  OBVIOUS
<1>2. /\ q.op = "update" /\ q.id = e.id /\ q.slug = s /\ q.takes = (s # e.slug)
      /\ q.makes = makes /\ q.clears = E!Cleared(e.id, makes) /\ q.seen = e
  BY <1>1
<1>3. /\ E!Serve(w, q) /\ ~E!SlugInUse(e, s) /\ (s # e.slug => E!MayTake(w, s)) /\ inserted' = inserted
      /\ clashed' = (clashed \/ E!Clashes(w, e.id, makes))
      /\ stray' = IF s = e.slug THEN stray
                  ELSE stray \union (IF e.archived THEN {e.slug} ELSE {}) \union E!Crossed(w, e.slug)
  BY <1>1 DEF E!BeginUpdate
<1>4. inserted \in Nat /\ inserted <= MaxEnvironments /\ e \in EnvironmentRows /\ stray \subseteq Slugs
  BY DEF EnvironmentsInd, CatalogRowsHold
<1>5. /\ \A d \in env : d.id = e.id => d = e
      /\ editing[w] = E!Idle
  BY <1>3 DEF EnvironmentsInd, CatalogRowsHold, E!Serve, E!Busy
<1>6. stray \subseteq stray' /\ stray' \subseteq Slugs
  BY <1>3, <1>4, CrossedSlug DEF EnvironmentRows
<1>7. EditHolds(q)'
  BY <1>2, <1>3, <1>4 DEF EditHolds, EditOps, HasRow, Inserts, EnvironmentRows
<1>8. FreeFor(w, q)
  BY <1>2, <1>3, MayTakeIsFree DEF FreeFor, Takes, Inserts
<1>9. \A v \in Workers \ {w} : Inserts(editing[v]) => editing[v].id # q.id
  BY <1>2 DEF EnvironmentsInd, Reserved, FreeFor
<1>10. ~clashed' => PickHolds(w, q)
  <2> SUFFICES ASSUME ~clashed', Picks(q) PROVE PickHolds(w, q)
    BY DEF PickHolds
  <2>1. makes = "yes"
    BY <1>2 DEF Picks
  <2>2. \A v \in Workers \ {w} : ~Picks(editing[v])
    BY <1>3, <2>1, PicksAlone
  <2>3. \A d \in env : d.default => d.id = q.id \/ d.id \in q.clears
    BY <1>2, <2>1 DEF E!Cleared
  <2> QED
    BY <2>2, <2>3 DEF PickHolds
<1>11. \A d \in env : d.slug \notin stray' /\ Loses(q, d.id) => ~Named(d.slug)
  <2> SUFFICES ASSUME NEW d \in env, d.slug \notin stray', Loses(q, d.id) PROVE ~Named(d.slug)
    OBVIOUS
  <2>1. d = e /\ s # e.slug
    BY <1>2, <1>5 DEF Loses
  <2>2. ~e.archived /\ e.slug \notin used /\ E!Crossed(w, e.slug) = {}
    BY <1>3, <2>1, CrossedSlug DEF E!SlugInUse
  <2>3. \A v \in Workers : ~NamesSlug(editing[v], e.slug)
    BY <1>5, <2>2, NobodyCreates
  <2> QED
    BY <2>1, <2>2, <2>3 DEF Named
<1>12. \A t \in Slugs \ stray' : NamesSlug(q, t) => Found(t)
  BY <1>2 DEF NamesSlug
<1>13. clashed => clashed'
  BY <1>3
<1>14. q.op # "none" /\ q.op # "version" /\ inserted' \in Nat /\ inserted <= inserted' /\ inserted' <= MaxEnvironments
  BY <1>2, <1>3, <1>4
<1> QED
  BY <1>3, <1>6, <1>7, <1>8, <1>9, <1>10, <1>11, <1>12, <1>13, <1>14, EditBegins

\* archive_environment takes nothing.
LEMMA ArchiveBegins ==
  ASSUME EnvironmentsInd, NEW w \in Workers, NEW e \in env, NEW archived \in BOOLEAN,
         E!BeginArchive(w, e, archived)
  PROVE  EnvironmentsInd'
<1>1. PICK q : q = [op |-> "archive", id |-> e.id, slug |-> e.slug, takes |-> FALSE,
                    makes |-> "unset", to |-> archived, seen |-> e]
  OBVIOUS
<1>2. q.op = "archive" /\ q.id = e.id /\ q.takes = FALSE /\ q.to = archived /\ q.seen = e
  BY <1>1
<1>3. /\ E!Serve(w, q) /\ inserted' = inserted /\ stray' = stray
      /\ clashed' = (clashed \/ E!Clashes(w, e.id, "unset"))
  BY <1>1 DEF E!BeginArchive
<1>4. inserted \in Nat /\ inserted <= MaxEnvironments /\ e \in EnvironmentRows /\ stray \subseteq Slugs
  BY DEF EnvironmentsInd, CatalogRowsHold
<1>5. EditHolds(q)'
  BY <1>2, <1>3, <1>4 DEF EditHolds, EditOps, HasRow, Inserts, EnvironmentRows
<1>6. \A v \in Workers \ {w} : Inserts(editing[v]) => editing[v].id # q.id
  BY <1>2 DEF EnvironmentsInd, Reserved, FreeFor
<1>7. FreeFor(w, q) /\ PickHolds(w, q)
  BY <1>2 DEF FreeFor, PickHolds, Takes, Inserts, Picks
<1>8. /\ \A t \in Slugs \ stray' : NamesSlug(q, t) => Found(t)
      /\ \A d \in env : d.slug \notin stray' /\ Loses(q, d.id) => ~Named(d.slug)
  BY <1>2 DEF NamesSlug, Loses
<1>9. clashed => clashed'
  BY <1>3
<1>10. q.op # "none" /\ q.op # "version" /\ inserted' \in Nat /\ inserted <= inserted' /\ inserted' <= MaxEnvironments
  BY <1>2, <1>3, <1>4
<1> QED
  BY <1>3, <1>4, <1>5, <1>6, <1>7, <1>8, <1>9, <1>10, EditBegins

\* delete_environment takes away no slug that executions name, unless it is stray.
LEMMA DeleteEnvironmentBegins ==
  ASSUME EnvironmentsInd, NEW w \in Workers, NEW e \in env, E!BeginDelete(w, e)
  PROVE  EnvironmentsInd'
<1>1. PICK q : q = [op |-> "delete", id |-> e.id, slug |-> e.slug, takes |-> FALSE, makes |-> "unset"]
  OBVIOUS
<1>2. q.op = "delete" /\ q.id = e.id /\ q.takes = FALSE
  BY <1>1
<1>3. /\ E!Serve(w, q) /\ e.slug \notin used /\ inserted' = inserted /\ clashed' = clashed
      /\ stray' = stray \union E!Crossed(w, e.slug)
  BY <1>1 DEF E!BeginDelete
<1>4. inserted \in Nat /\ inserted <= MaxEnvironments /\ e \in EnvironmentRows /\ stray \subseteq Slugs
  BY DEF EnvironmentsInd, CatalogRowsHold
<1>5. /\ \A d \in env : d.id = e.id => d = e
      /\ editing[w] = E!Idle
  BY <1>3 DEF EnvironmentsInd, CatalogRowsHold, E!Serve, E!Busy
<1>6. stray \subseteq stray' /\ stray' \subseteq Slugs
  BY <1>3, <1>4, CrossedSlug DEF EnvironmentRows
<1>7. EditHolds(q)'
  BY <1>2, <1>3, <1>4 DEF EditHolds, EditOps, HasRow, Inserts, EnvironmentRows
<1>8. \A v \in Workers \ {w} : Inserts(editing[v]) => editing[v].id # q.id
  BY <1>2 DEF EnvironmentsInd, Reserved, FreeFor
<1>9. FreeFor(w, q) /\ PickHolds(w, q)
  BY <1>2 DEF FreeFor, PickHolds, Takes, Inserts, Picks
<1>10. \A d \in env : d.slug \notin stray' /\ Loses(q, d.id) => ~Named(d.slug)
  <2> SUFFICES ASSUME NEW d \in env, d.slug \notin stray', Loses(q, d.id) PROVE ~Named(d.slug)
    OBVIOUS
  <2>1. d = e
    BY <1>2, <1>5 DEF Loses
  <2>2. E!Crossed(w, e.slug) = {}
    BY <1>3, <2>1, CrossedSlug
  <2>3. \A v \in Workers : ~NamesSlug(editing[v], e.slug)
    BY <1>5, <2>2, NobodyCreates
  <2> QED
    BY <1>3, <2>1, <2>3 DEF Named
<1>11. \A t \in Slugs \ stray' : NamesSlug(q, t) => Found(t)
  BY <1>2 DEF NamesSlug
<1>12. clashed => clashed'
  BY <1>3
<1>13. q.op # "none" /\ q.op # "version" /\ inserted' \in Nat /\ inserted <= inserted' /\ inserted' <= MaxEnvironments
  BY <1>2, <1>3, <1>4
<1> QED
  BY <1>3, <1>6, <1>7, <1>8, <1>9, <1>10, <1>11, <1>12, <1>13, EditBegins

\* An execution takes its slug, or names a row that nobody will take away.
LEMMA ExecutionBegins ==
  ASSUME EnvironmentsInd, NEW w \in Workers, NEW s \in Slugs, E!BeginExecution(w, s)
  PROVE  EnvironmentsInd'
<1>1. PICK new : new = (auto /\ s \notin E!SlugsOf(env))
  OBVIOUS
<1>2. PICK losing : losing = {e \in env : \E q \in E!Others(w) : q.id = e.id /\ (q.op = "delete" \/ q.takes)}
  OBVIOUS
<1>3. PICK q : q = [op |-> "execute", id |-> IF new THEN inserted + 1 ELSE 0, slug |-> s,
                    takes |-> new, makes |-> "unset"]
  OBVIOUS
<1>4. /\ q.op = "execute" /\ q.id = (IF new THEN inserted + 1 ELSE 0) /\ q.slug = s /\ q.takes = new
      /\ new \in BOOLEAN
  BY <1>1, <1>3
<1>5. /\ E!Serve(w, q) /\ (new => inserted < MaxEnvironments /\ E!MayTake(w, s))
      /\ inserted' = (IF new THEN inserted + 1 ELSE inserted) /\ clashed' = clashed
      /\ stray' = stray \union ({s} \intersect E!SlugsOf(losing))
                        \union (IF auto \/ s \in E!SlugsOf(env) THEN {} ELSE {s})
  BY <1>1, <1>2, <1>3 DEF E!BeginExecution
<1>6. inserted \in Nat /\ inserted <= MaxEnvironments /\ env \subseteq EnvironmentRows /\ stray \subseteq Slugs
  BY DEF EnvironmentsInd, CatalogRowsHold
<1>7. inserted' \in Nat /\ inserted <= inserted' /\ inserted' <= MaxEnvironments
  BY <1>5, <1>6, CatalogBounds
<1>8. stray \subseteq stray' /\ stray' \subseteq Slugs
  BY <1>5, <1>6
<1>9. EditHolds(q)'
  BY <1>4, <1>5, <1>6 DEF EditHolds, EditOps, HasRow, Inserts
<1>10. new => \A v \in Workers \ {w} : HasRow(editing[v]) => editing[v].id # q.id
  BY <1>4, <1>6, RowsOfOthers
<1>11. FreeFor(w, q)
  <2>1. new => \A e \in env : e.id # q.id
    BY <1>4, <1>6 DEF EnvironmentRows
  <2>2. new => /\ \A e \in env : e.slug # q.slug
               /\ \A v \in Workers \ {w} : Takes(editing[v]) => editing[v].slug # q.slug
    BY <1>4, <1>5, MayTakeIsFree
  <2> QED
    BY <1>4, <1>10, <2>1, <2>2 DEF FreeFor, Takes, Inserts
<1>12. HasRow(q) => \A v \in Workers \ {w} : Inserts(editing[v]) => editing[v].id # q.id
  BY <1>4, <1>10 DEF HasRow, Inserts
<1>13. PickHolds(w, q) /\ \A d \in env : d.slug \notin stray' /\ Loses(q, d.id) => ~Named(d.slug)
  BY <1>4 DEF PickHolds, Picks, Loses
<1>14. \A t \in Slugs \ stray' : NamesSlug(q, t) => Found(t)
  <2> SUFFICES ASSUME s \notin stray', ~new PROVE Found(s)
    BY <1>4 DEF NamesSlug
  <2>1. s \in E!SlugsOf(env) /\ s \notin E!SlugsOf(losing)
    BY <1>1, <1>5
  <2>2. PICK e \in env : e.slug = s
    BY <2>1 DEF E!SlugsOf
  <2>3. e \notin losing
    BY <2>1, <2>2 DEF E!SlugsOf
  <2>4. ASSUME NEW v \in Workers, Loses(editing[v], e.id) PROVE FALSE
    <3>1. v # w
      BY <1>5, <2>4, IdleEdits DEF E!Serve, E!Busy
    <3>2. editing[v] \in E!Others(w)
      BY <2>4, <3>1, AmongOthers DEF Loses
    <3> QED
      BY <1>2, <2>3, <2>4, <3>2 DEF Loses
  <2> QED
    BY <2>2, <2>4 DEF Found
<1>15. clashed => clashed'
  BY <1>5
<1>16. q.op # "none" /\ q.op # "version"
  BY <1>4
<1> QED
  BY <1>5, <1>7, <1>8, <1>9, <1>11, <1>12, <1>13, <1>14, <1>15, <1>16, EditBegins

\* update_version reads the version.
LEMMA VersionBegins ==
  ASSUME EnvironmentsInd, NEW w \in Workers, NEW to \in E!VersionStatuses, E!BeginVersion(w, to)
  PROVE  EnvironmentsInd'
<1>1. PICK q : q = [op |-> "version", id |-> 0, slug |-> "none", takes |-> FALSE, makes |-> "unset",
                    to |-> to, seen |-> version]
  OBVIOUS
<1>2. q.op = "version" /\ q.takes = FALSE /\ q.to = to /\ q.seen = version
  BY <1>1
<1>3. E!Serve(w, q) /\ inserted' = inserted /\ clashed' = clashed /\ stray' = stray
  BY <1>1 DEF E!BeginVersion
<1>4. inserted \in Nat /\ inserted <= MaxEnvironments /\ stray \subseteq Slugs /\ version \in VersionRows
  BY DEF EnvironmentsInd, CatalogRowsHold, VersionHolds
<1>5. EditHolds(q)'
  BY <1>2, <1>3, <1>4 DEF EditHolds, EditOps, HasRow, Inserts
<1>6. FreeFor(w, q) /\ PickHolds(w, q) /\ ~HasRow(q)
  BY <1>2 DEF FreeFor, PickHolds, Takes, Inserts, Picks, HasRow
<1>7. /\ \A t \in Slugs \ stray' : NamesSlug(q, t) => Found(t)
      /\ \A d \in env : d.slug \notin stray' /\ Loses(q, d.id) => ~Named(d.slug)
  BY <1>2 DEF NamesSlug, Loses
<1>8. clashed => clashed'
  BY <1>3
<1>9. q.op # "none" /\ q.seen = version /\ inserted' \in Nat /\ inserted <= inserted' /\ inserted' <= MaxEnvironments
  BY <1>2, <1>3, <1>4
<1> QED
  BY <1>3, <1>4, <1>5, <1>6, <1>7, <1>8, <1>9, EditBegins

\* Rows that lose the default keep the rest.
LEMMA WithoutHas ==
  ASSUME NEW ids
  PROVE  /\ \A e \in E!Without(ids) : \E d \in env : e = IF d.id \in ids THEN [d EXCEPT !.default = FALSE] ELSE d
         /\ \A d \in env : (IF d.id \in ids THEN [d EXCEPT !.default = FALSE] ELSE d) \in E!Without(ids)
  BY DEF E!Without

\* Row d, when it is to lose the default.
LEMMA RowWithout ==
  ASSUME NEW d \in EnvironmentRows, NEW e, NEW ids, e = IF d.id \in ids THEN [d EXCEPT !.default = FALSE] ELSE d
  PROVE  /\ e \in EnvironmentRows /\ e.id = d.id /\ e.slug = d.slug /\ e.archived = d.archived
         /\ e.default => d.default /\ d.id \notin ids
  BY DEF EnvironmentRows

\* The environment is inserted, and others lose the default.
LEMMA CreateCommits ==
  ASSUME EnvironmentsInd, NEW w \in Workers, E!CommitCreate(w)
  PROVE  EnvironmentsInd'
<1>1. PICK q : q = editing[w]
  OBVIOUS
<1>2. PICK n : n = [id |-> q.id, slug |-> q.slug, default |-> q.makes = "yes", archived |-> FALSE]
  OBVIOUS
<1>3. /\ q.op = "create" /\ env' = E!Without(q.clears) \union {n} /\ E!Answered(w)
      /\ UNCHANGED <<serial, used, version, inserted, clashed, stray>>
  BY <1>1, <1>2 DEF E!CommitCreate
<1>4. env \subseteq EnvironmentRows /\ \A e, d \in env : e.id = d.id \/ e.slug = d.slug => e = d
  BY DEF EnvironmentsInd, CatalogRowsHold
<1>5. q.takes /\ q.slug \in Slugs /\ q.id \in 1 .. inserted
  BY <1>1, <1>3 DEF EnvironmentsInd, EditsHold, EditHolds
<1>6. Takes(q) /\ Inserts(q)
  BY <1>3, <1>5 DEF Takes, Inserts
<1>7. \A d \in env : d.slug # q.slug /\ d.id # q.id
  BY <1>1, <1>6 DEF EnvironmentsInd, Reserved, FreeFor
<1>8. n \in EnvironmentRows /\ n.id = q.id /\ n.slug = q.slug /\ (n.default => Picks(q))
  BY <1>2, <1>3, <1>5 DEF EnvironmentRows, Picks
<1>9. \A e \in env' : e = n \/ \E d \in env : e = IF d.id \in q.clears THEN [d EXCEPT !.default = FALSE] ELSE d
  BY <1>3, WithoutHas
<1>10. \A e \in env' : e \in EnvironmentRows
         /\ (e = n \/ \E d \in env : e.id = d.id /\ e.slug = d.slug /\ (e.default => d.default /\ e.id \notin q.clears))
  BY <1>4, <1>8, <1>9, RowWithout
<1>11. \A e, d \in env' : e.id = d.id \/ e.slug = d.slug => e = d
  <2> SUFFICES ASSUME NEW e \in env', NEW d \in env', e.id = d.id \/ e.slug = d.slug PROVE e = d
    OBVIOUS
  <2>1. CASE e = n \/ d = n
    BY <1>7, <1>8, <1>10, <2>1
  <2>2. CASE e # n /\ d # n
    <3>1. PICK a \in env : e = IF a.id \in q.clears THEN [a EXCEPT !.default = FALSE] ELSE a
      BY <1>9, <2>2
    <3>2. PICK b \in env : d = IF b.id \in q.clears THEN [b EXCEPT !.default = FALSE] ELSE b
      BY <1>9, <2>2
    <3>3. e.id = a.id /\ e.slug = a.slug /\ d.id = b.id /\ d.slug = b.slug
      BY <1>4, <3>1, <3>2, RowWithout
    <3>4. a = b
      BY <1>4, <3>3
    <3> QED
      BY <3>1, <3>2, <3>4
  <2> QED
    BY <2>1, <2>2
<1>12. \A d \in env : \E e \in env' : e.id = d.id /\ e.slug = d.slug
  <2> SUFFICES ASSUME NEW d \in env PROVE \E e \in env' : e.id = d.id /\ e.slug = d.slug
    OBVIOUS
  <2>1. PICK e : e = IF d.id \in q.clears THEN [d EXCEPT !.default = FALSE] ELSE d
    OBVIOUS
  <2>2. e \in env'
    BY <1>3, <2>1, WithoutHas
  <2> QED
    BY <1>4, <2>1, <2>2, RowWithout
<1>13. /\ \A e \in env' : (\E d \in env : d.slug = e.slug) \/ (Takes(q) /\ e.slug = q.slug)
       /\ \A e \in env' : (\E d \in env : d.id = e.id) \/ (Inserts(q) /\ e.id = q.id)
       /\ \A e \in env' : e.default => (\E d \in env : d.default /\ d.id = e.id) \/ (Picks(q) /\ e.id = q.id)
       /\ Picks(q) => \A e \in env' : e.default => e.id = q.id \/ e.id \notin q.clears
  BY <1>6, <1>8, <1>10
<1>14. q.op # "none"
  BY <1>3
<1>15. /\ version' \in VersionRows
       /\ serial => (version'.status = "released" <=> version'.dated)
       /\ \A s \in used' : s \in used
  BY <1>3 DEF EnvironmentsInd, VersionHolds
<1>16. env' \subseteq EnvironmentRows
  BY <1>10
<1> QED
  BY <1>1, <1>3, <1>11, <1>12, <1>13, <1>14, <1>15, <1>16, EditCommits

\* The row of an update, as the commit leaves it.
LEMMA RowUpdated ==
  ASSUME NEW d \in EnvironmentRows, NEW q, NEW e, q.op = "update", q.slug \in Slugs,
         q.takes <=> q.slug # q.seen.slug, e = E!Updated(d, q)
  PROVE  /\ e \in EnvironmentRows /\ e.id = d.id
         /\ e.slug = d.slug \/ (q.takes /\ e.slug = q.slug)
         /\ ~q.takes => e.slug = d.slug
         /\ e.default => d.default \/ Picks(q)
  BY DEF EnvironmentRows, E!Updated, E!Chooses, Picks

\* The row of a request to archive, as the commit leaves it.
LEMMA RowArchived ==
  ASSUME NEW d \in EnvironmentRows, NEW q, NEW e, q.to \in BOOLEAN, e = E!Archived(d, q)
  PROVE  e \in EnvironmentRows /\ e.id = d.id /\ e.slug = d.slug /\ (e.default => d.default)
  BY DEF EnvironmentRows, E!Archived

\* An update or an archiving rewrites each row: by g, which changes the slug and the default
\* of its own row only.
LEMMA RowsRewritten ==
  ASSUME EnvironmentsInd, NEW w \in Workers, NEW q, q = editing[w], q.op \in {"update", "archive"},
         E!Answered(w), UNCHANGED <<serial, used, version, inserted, clashed, stray>>, NEW g,
         \A e \in env' : \E d \in env : e = g[d],
         \A d \in env : g[d] \in env' /\ g[d] \in EnvironmentRows /\ g[d].id = d.id,
         \A d \in env : g[d].slug = d.slug \/ (Takes(q) /\ d.id = q.id /\ g[d].slug = q.slug),
         \A d \in env : g[d].default => d.default \/ (Picks(q) /\ d.id = q.id),
         Picks(q) => \A d \in env : g[d].default => d.id = q.id \/ d.id \notin q.clears
  PROVE  EnvironmentsInd'
<1>1. \A e, d \in env : e.id = d.id \/ e.slug = d.slug => e = d
  BY DEF EnvironmentsInd, CatalogRowsHold
<1>2. Takes(q) => \A d \in env : d.slug # q.slug
  BY DEF EnvironmentsInd, Reserved, FreeFor
<1>3. \A e, d \in env' : e.id = d.id \/ e.slug = d.slug => e = d
  <2> SUFFICES ASSUME NEW e \in env', NEW d \in env', e.id = d.id \/ e.slug = d.slug PROVE e = d
    OBVIOUS
  <2>1. PICK a \in env : e = g[a]
    OBVIOUS
  <2>2. PICK b \in env : d = g[b]
    OBVIOUS
  <2>3. a = b
    BY <1>1, <1>2, <2>1, <2>2
  <2> QED
    BY <2>1, <2>2, <2>3
<1>4. env' \subseteq EnvironmentRows
  OBVIOUS
<1>5. /\ \A e \in env' : (\E d \in env : d.slug = e.slug) \/ (Takes(q) /\ e.slug = q.slug)
      /\ \A e \in env' : (\E d \in env : d.id = e.id) \/ (Inserts(q) /\ e.id = q.id)
      /\ \A e \in env' : e.default => (\E d \in env : d.default /\ d.id = e.id) \/ (Picks(q) /\ e.id = q.id)
      /\ Picks(q) => \A e \in env' : e.default => e.id = q.id \/ e.id \notin q.clears
  <2> SUFFICES ASSUME NEW e \in env'
               PROVE  /\ (\E d \in env : d.slug = e.slug) \/ (Takes(q) /\ e.slug = q.slug)
                      /\ \E d \in env : d.id = e.id
                      /\ e.default => (\E d \in env : d.default /\ d.id = e.id) \/ (Picks(q) /\ e.id = q.id)
                      /\ Picks(q) /\ e.default => e.id = q.id \/ e.id \notin q.clears
    OBVIOUS
  <2>1. PICK d \in env : e = g[d]
    OBVIOUS
  <2> QED
    BY <2>1
<1>6. \A d \in env : ~Loses(q, d.id) => \E e \in env' : e.id = d.id /\ e.slug = d.slug
  <2> SUFFICES ASSUME NEW d \in env, ~Loses(q, d.id) PROVE g[d].id = d.id /\ g[d].slug = d.slug
    OBVIOUS
  <2>1. ~(Takes(q) /\ d.id = q.id)
    BY DEF Loses, Takes
  <2> QED
    BY <2>1
<1>7. q.op # "none"
  OBVIOUS
<1>8. /\ version' \in VersionRows
      /\ serial => (version'.status = "released" <=> version'.dated)
      /\ \A s \in used' : s \in used
  BY DEF EnvironmentsInd, VersionHolds
<1> QED
  BY <1>3, <1>4, <1>5, <1>6, <1>7, <1>8, EditCommits

\* A request that leaves the catalog and the executions as they are.
LEMMA CatalogStays ==
  ASSUME EnvironmentsInd, NEW w \in Workers, NEW q, q = editing[w], q.op # "none", E!Answered(w),
         UNCHANGED <<serial, inserted, clashed, stray, env, used>>,
         version' \in VersionRows,
         serial => (version'.status = "released" <=> version'.dated)
  PROVE  EnvironmentsInd'
<1>1. env \subseteq EnvironmentRows /\ \A e, d \in env : e.id = d.id \/ e.slug = d.slug => e = d
  BY DEF EnvironmentsInd, CatalogRowsHold
<1> QED
  BY <1>1, EditCommits

\* The environment is rewritten, if it is still there.
LEMMA UpdateCommits ==
  ASSUME EnvironmentsInd, NEW w \in Workers, E!CommitUpdate(w)
  PROVE  EnvironmentsInd'
<1>1. PICK q : q = editing[w]
  OBVIOUS
<1>2. PICK kept : kept = [d \in env |-> IF d.id \in q.clears THEN [d EXCEPT !.default = FALSE] ELSE d]
  OBVIOUS
<1>3. /\ q.op = "update" /\ E!Answered(w)
      /\ UNCHANGED <<serial, used, version, inserted, clashed, stray>>
      /\ IF q.seen.id \in {e.id : e \in env}
         THEN env' = {IF e.id = q.id THEN E!Updated(e, q) ELSE e : e \in E!Without(q.clears)}
         ELSE env' = IF q.takes \/ E!Chooses(q) THEN env ELSE E!Without(q.clears)
  BY <1>1 DEF E!CommitUpdate
<1>4. /\ q.op \in {"update", "archive"} /\ q.slug \in Slugs /\ q.id = q.seen.id
      /\ q.takes <=> q.slug # q.seen.slug
  BY <1>1, <1>3 DEF EnvironmentsInd, EditsHold, EditHolds
<1>5. env \subseteq EnvironmentRows
  BY DEF EnvironmentsInd, CatalogRowsHold
<1>6. /\ \A e \in E!Without(q.clears) : \E d \in env : e = kept[d]
      /\ \A d \in env : kept[d] \in E!Without(q.clears)
  BY <1>2, WithoutHas
<1>7. \A d \in env : /\ kept[d] \in EnvironmentRows /\ kept[d].id = d.id /\ kept[d].slug = d.slug
                     /\ kept[d].default => d.default /\ d.id \notin q.clears
  <2> SUFFICES ASSUME NEW d \in env
               PROVE  /\ kept[d] \in EnvironmentRows /\ kept[d].id = d.id /\ kept[d].slug = d.slug
                      /\ kept[d].default => d.default /\ d.id \notin q.clears
    OBVIOUS
  <2>1. kept[d] = IF d.id \in q.clears THEN [d EXCEPT !.default = FALSE] ELSE d
    BY <1>2
  <2> QED
    BY <1>5, <2>1, RowWithout
<1>8. CASE q.seen.id \in {e.id : e \in env}
  <2>1. PICK g : g = [d \in env |-> IF d.id = q.id THEN E!Updated(kept[d], q) ELSE kept[d]]
    OBVIOUS
  <2>2. \A d \in env : g[d] = IF d.id = q.id THEN E!Updated(kept[d], q) ELSE kept[d]
    BY <2>1
  <2>3. \A e \in env' : \E d \in env : e = g[d]
    <3> SUFFICES ASSUME NEW e \in env' PROVE \E d \in env : e = g[d]
      OBVIOUS
    <3>1. PICK c \in E!Without(q.clears) : e = IF c.id = q.id THEN E!Updated(c, q) ELSE c
      BY <1>3, <1>8
    <3>2. PICK d \in env : c = kept[d]
      BY <1>6
    <3> QED
      BY <1>7, <2>2, <3>1, <3>2
  <2>4. \A d \in env : g[d] \in env'
    <3> SUFFICES ASSUME NEW d \in env PROVE g[d] \in env'
      OBVIOUS
    <3>1. PICK c \in E!Without(q.clears) : c = kept[d]
      BY <1>6
    <3>2. g[d] = IF c.id = q.id THEN E!Updated(c, q) ELSE c
      BY <1>7, <2>2, <3>1
    <3> QED
      BY <1>3, <1>8, <3>2
  <2>5. \A d \in env : /\ g[d] \in EnvironmentRows /\ g[d].id = d.id
                       /\ g[d].slug = d.slug \/ (Takes(q) /\ d.id = q.id /\ g[d].slug = q.slug)
                       /\ g[d].default => d.default \/ (Picks(q) /\ d.id = q.id)
                       /\ g[d].default => d.id = q.id \/ d.id \notin q.clears
    <3> SUFFICES ASSUME NEW d \in env
                 PROVE  /\ g[d] \in EnvironmentRows /\ g[d].id = d.id
                        /\ g[d].slug = d.slug \/ (Takes(q) /\ d.id = q.id /\ g[d].slug = q.slug)
                        /\ g[d].default => d.default \/ (Picks(q) /\ d.id = q.id)
                        /\ g[d].default => d.id = q.id \/ d.id \notin q.clears
      OBVIOUS
    <3>1. CASE d.id = q.id
      <4>1. PICK c \in EnvironmentRows : c = kept[d]
        BY <1>7
      <4>2. g[d] = E!Updated(c, q)
        BY <2>2, <3>1, <4>1
      <4>3. /\ g[d] \in EnvironmentRows /\ g[d].id = c.id
            /\ g[d].slug = c.slug \/ (q.takes /\ g[d].slug = q.slug)
            /\ g[d].default => c.default \/ Picks(q)
        BY <1>3, <1>4, <4>2, RowUpdated
      <4> QED
        BY <1>3, <1>7, <3>1, <4>1, <4>3 DEF Takes
    <3>2. CASE d.id # q.id
      <4>1. g[d] = kept[d]
        BY <2>2, <3>2
      <4> QED
        BY <1>7, <4>1
    <3> QED
      BY <3>1, <3>2
  <2>6. /\ q.op \in {"update", "archive"} /\ E!Answered(w)
        /\ UNCHANGED <<serial, used, version, inserted, clashed, stray>>
    BY <1>3, <1>4
  <2>7. /\ \A d \in env : g[d] \in env' /\ g[d] \in EnvironmentRows /\ g[d].id = d.id
        /\ \A d \in env : g[d].slug = d.slug \/ (Takes(q) /\ d.id = q.id /\ g[d].slug = q.slug)
        /\ \A d \in env : g[d].default => d.default \/ (Picks(q) /\ d.id = q.id)
        /\ Picks(q) => \A d \in env : g[d].default => d.id = q.id \/ d.id \notin q.clears
    BY <2>4, <2>5
  <2> QED
    BY <1>1, <2>3, <2>6, <2>7, RowsRewritten
<1>9. CASE q.seen.id \notin {e.id : e \in env}
  <2>0. \A d \in env : d.id # q.id
    BY <1>4, <1>9
  <2>1. CASE q.takes \/ E!Chooses(q)
    <3>1. env' = env
      BY <1>3, <1>9, <2>1
    <3> QED
      BY <1>1, <1>3, <3>1, CatalogStays DEF EnvironmentsInd, VersionHolds
  <2>2. CASE ~(q.takes \/ E!Chooses(q))
    <3>1. env' = E!Without(q.clears)
      BY <1>3, <1>9, <2>2
    <3>2. /\ \A e \in env' : \E d \in env : e = kept[d]
          /\ \A d \in env : kept[d] \in env' /\ kept[d] \in EnvironmentRows /\ kept[d].id = d.id
      BY <1>6, <1>7, <3>1
    <3>3. /\ \A d \in env : kept[d].slug = d.slug \/ (Takes(q) /\ d.id = q.id /\ kept[d].slug = q.slug)
          /\ \A d \in env : kept[d].default => d.default \/ (Picks(q) /\ d.id = q.id)
          /\ Picks(q) => \A d \in env : kept[d].default => d.id = q.id \/ d.id \notin q.clears
      BY <1>7
    <3> QED
      BY <1>1, <1>3, <1>4, <3>2, <3>3, RowsRewritten
  <2> QED
    BY <2>1, <2>2
<1> QED
  BY <1>8, <1>9

\* The environment is archived.
LEMMA ArchiveCommits ==
  ASSUME EnvironmentsInd, NEW w \in Workers, E!CommitArchive(w)
  PROVE  EnvironmentsInd'
<1>1. PICK q : q = editing[w]
  OBVIOUS
<1>2. PICK g : g = [d \in env |-> IF d.id = q.id THEN E!Archived(d, q) ELSE d]
  OBVIOUS
<1>3. /\ q.op = "archive" /\ E!Answered(w)
      /\ UNCHANGED <<serial, used, version, inserted, clashed, stray>>
      /\ env' = {IF d.id = q.id THEN E!Archived(d, q) ELSE d : d \in env}
  BY <1>1 DEF E!CommitArchive
<1>4. q.to \in BOOLEAN /\ env \subseteq EnvironmentRows /\ ~Picks(q)
  BY <1>1, <1>3 DEF EnvironmentsInd, EditsHold, EditHolds, CatalogRowsHold, Picks
<1>5. \A d \in env : g[d] = IF d.id = q.id THEN E!Archived(d, q) ELSE d
  BY <1>2
<1>6. /\ \A e \in env' : \E d \in env : e = g[d]
      /\ \A d \in env : g[d] \in env'
  BY <1>3, <1>5
<1>7. \A d \in env : /\ g[d] \in EnvironmentRows /\ g[d].id = d.id /\ g[d].slug = d.slug
                     /\ g[d].default => d.default
  <2> SUFFICES ASSUME NEW d \in env
               PROVE  g[d] \in EnvironmentRows /\ g[d].id = d.id /\ g[d].slug = d.slug /\ (g[d].default => d.default)
    OBVIOUS
  <2>1. CASE d.id = q.id
    <3>1. g[d] = E!Archived(d, q) /\ d \in EnvironmentRows
      BY <1>4, <1>5, <2>1
    <3> QED
      BY <1>4, <3>1, RowArchived
  <2>2. CASE d.id # q.id
    BY <1>4, <1>5, <2>2
  <2> QED
    BY <2>1, <2>2
<1>8. /\ \A d \in env : g[d] \in env' /\ g[d] \in EnvironmentRows /\ g[d].id = d.id
      /\ \A d \in env : g[d].slug = d.slug \/ (Takes(q) /\ d.id = q.id /\ g[d].slug = q.slug)
      /\ \A d \in env : g[d].default => d.default \/ (Picks(q) /\ d.id = q.id)
      /\ Picks(q) => \A d \in env : g[d].default => d.id = q.id \/ d.id \notin q.clears
  BY <1>4, <1>6, <1>7
<1>9. /\ q.op \in {"update", "archive"} /\ E!Answered(w)
      /\ UNCHANGED <<serial, used, version, inserted, clashed, stray>>
  BY <1>3
<1>10. \A e \in env' : \E d \in env : e = g[d]
  BY <1>6
<1> QED
  BY <1>1, <1>8, <1>9, <1>10, RowsRewritten

\* The environment is deleted.
LEMMA DeleteCommits ==
  ASSUME EnvironmentsInd, NEW w \in Workers, E!CommitDelete(w)
  PROVE  EnvironmentsInd'
<1>1. PICK q : q = editing[w]
  OBVIOUS
<1>2. /\ q.op = "delete" /\ env' = {e \in env : e.id # q.id} /\ E!Answered(w)
      /\ UNCHANGED <<serial, used, version, inserted, clashed, stray>>
  BY <1>1 DEF E!CommitDelete
<1>3. env \subseteq EnvironmentRows /\ \A e, d \in env : e.id = d.id \/ e.slug = d.slug => e = d
  BY DEF EnvironmentsInd, CatalogRowsHold
<1>4. /\ env' \subseteq EnvironmentRows
      /\ \A e, d \in env' : e.id = d.id \/ e.slug = d.slug => e = d
      /\ \A e \in env' : e \in env
  BY <1>2, <1>3
<1>5. \A d \in env : ~Loses(q, d.id) => \E e \in env' : e.id = d.id /\ e.slug = d.slug
  BY <1>2 DEF Loses
<1>6. ~Picks(q) /\ q.op # "none"
  BY <1>2 DEF Picks
<1>7. /\ version' \in VersionRows
      /\ serial => (version'.status = "released" <=> version'.dated)
      /\ \A s \in used' : s \in used
  BY <1>2 DEF EnvironmentsInd, VersionHolds
<1> QED
  BY <1>1, <1>2, <1>4, <1>5, <1>6, <1>7, EditCommits

\* The execution is there, and the environment it added.
LEMMA ExecutionCommits ==
  ASSUME EnvironmentsInd, NEW w \in Workers, E!CommitExecution(w)
  PROVE  EnvironmentsInd'
<1>1. PICK q : q = editing[w]
  OBVIOUS
<1>2. PICK n : n = [id |-> q.id, slug |-> q.slug, default |-> FALSE, archived |-> FALSE]
  OBVIOUS
<1>3. /\ q.op = "execute" /\ E!Answered(w) /\ used' = used \union {q.slug}
      /\ env' = env \union (IF q.takes THEN {n} ELSE {})
      /\ UNCHANGED <<serial, version, inserted, clashed, stray>>
  BY <1>1, <1>2 DEF E!CommitExecution
<1>4. env \subseteq EnvironmentRows /\ \A e, d \in env : e.id = d.id \/ e.slug = d.slug => e = d
  BY DEF EnvironmentsInd, CatalogRowsHold
<1>5. q.takes \in BOOLEAN /\ q.slug \in Slugs /\ (q.takes => q.id \in 1 .. inserted)
  BY <1>1, <1>3 DEF EnvironmentsInd, EditsHold, EditHolds, HasRow, Inserts
<1>6. q.takes => Takes(q) /\ Inserts(q) /\ \A d \in env : d.slug # q.slug /\ d.id # q.id
  BY <1>1, <1>3 DEF Takes, Inserts, EnvironmentsInd, Reserved, FreeFor
<1>7. n.id = q.id /\ n.slug = q.slug /\ ~n.default /\ (q.takes => n \in EnvironmentRows)
  BY <1>2, <1>5 DEF EnvironmentRows
<1>8. \A e \in env' : e \in env \/ (q.takes /\ e = n)
  BY <1>3
<1>9. /\ env' \subseteq EnvironmentRows
      /\ \A e, d \in env' : e.id = d.id \/ e.slug = d.slug => e = d
      /\ \A e \in env' : (\E d \in env : d.slug = e.slug) \/ (Takes(q) /\ e.slug = q.slug)
      /\ \A e \in env' : (\E d \in env : d.id = e.id) \/ (Inserts(q) /\ e.id = q.id)
      /\ \A e \in env' : e.default => \E d \in env : d.default /\ d.id = e.id
  BY <1>4, <1>6, <1>7, <1>8
<1>10. \A d \in env : \E e \in env' : e.id = d.id /\ e.slug = d.slug
  BY <1>3
<1>11. \A s \in used' : \/ s \in used
                        \/ NamesSlug(q, s)
                        \/ Inserts(q) /\ s = q.slug /\ (\E e \in env' : e.id = q.id /\ e.slug = s)
  BY <1>3, <1>6, <1>7 DEF NamesSlug
<1>12. ~Picks(q) /\ q.op # "none"
  BY <1>3 DEF Picks
<1>13. version' \in VersionRows /\ (serial => (version'.status = "released" <=> version'.dated))
  BY <1>3 DEF EnvironmentsInd, VersionHolds
<1> QED
  BY <1>1, <1>3, <1>9, <1>10, <1>11, <1>12, <1>13, EditCommits

\* The version is rewritten with its date.
LEMMA VersionCommits ==
  ASSUME EnvironmentsInd, NEW w \in Workers, E!CommitVersion(w)
  PROVE  EnvironmentsInd'
<1>1. PICK q : q = editing[w]
  OBVIOUS
<1>2. /\ q.op = "version" /\ E!Answered(w)
      /\ version' = [status |-> IF q.to = q.seen.status THEN version.status ELSE q.to,
                     dated |-> E!Dated(q.seen, q.to, version.dated)]
      /\ UNCHANGED <<serial, env, used, inserted, clashed, stray>>
  BY <1>1 DEF E!CommitVersion
<1>3. /\ version \in VersionRows /\ q.seen \in VersionRows /\ q.to \in E!VersionStatuses
      /\ serial => q.seen = version /\ (version.status = "released" <=> version.dated)
  BY <1>1, <1>2 DEF EnvironmentsInd, EditsHold, EditHolds, VersionHolds
<1>4. version' \in VersionRows
  BY <1>2, <1>3 DEF VersionRows, E!Dated
<1>5. serial => (version'.status = "released" <=> version'.dated)
  BY <1>2, <1>3 DEF VersionRows, E!Dated
<1>6. q.op # "none"
  BY <1>2
<1> QED
  BY <1>1, <1>2, <1>4, <1>5, <1>6, CatalogStays

\* A worker dies, and its request is lost.
LEMMA EditDies ==
  ASSUME EnvironmentsInd, NEW w \in Workers, E!Die(w)
  PROVE  EnvironmentsInd'
<1>1. PICK q : q = editing[w]
  OBVIOUS
<1>2. /\ q # E!Idle /\ E!Answered(w)
      /\ UNCHANGED <<serial, env, used, version, inserted, clashed, stray>>
  BY <1>1 DEF E!Die, E!Busy
<1>3. q.op # "none"
  BY <1>1, <1>2 DEF EnvironmentsInd, EditsHold, EditHolds
<1>4. version' \in VersionRows /\ (serial => (version'.status = "released" <=> version'.dated))
  BY <1>2 DEF EnvironmentsInd, VersionHolds
<1> QED
  BY <1>1, <1>2, <1>3, <1>4, CatalogStays

\* No execution names the slug any more.
LEMMA ExecutionsDeleted ==
  ASSUME EnvironmentsInd, NEW s \in Slugs, E!DeleteExecutions(s)
  PROVE  EnvironmentsInd'
<1>1. used' \subseteq used /\ UNCHANGED <<serial, env, version, editing, inserted, clashed, stray>>
  BY DEF E!DeleteExecutions
<1>2. EditsHold' /\ CatalogRowsHold' /\ Reserved' /\ DefaultsHold' /\ VersionHolds'
  BY <1>1 DEF EnvironmentsInd, EditsHold, EditHolds, HasRow, Takes, Inserts, Picks, CatalogRowsHold,
     EnvironmentRows, FreeFor, Reserved, PickHolds, DefaultsHold, VersionHolds
<1>3. NamesHold'
  <2> SUFFICES ASSUME NEW t \in Slugs \ stray, Named(t)' PROVE Found(t)'
    BY <1>1 DEF NamesHold
  <2>1. Named(t)
    BY <1>1 DEF Named
  <2>2. Found(t)
    BY <2>1 DEF EnvironmentsInd, NamesHold
  <2> QED
    BY <1>1, <2>2 DEF Found
<1> QED
  BY <1>2, <1>3 DEF EnvironmentsInd

\* The invariant holds at the start.
LEMMA EnvironmentsInit == E!Init => EnvironmentsInd
<1> SUFFICES ASSUME E!Init PROVE EnvironmentsInd
  OBVIOUS
<1>1. /\ env = {} /\ used = {} /\ stray = {} /\ inserted = 0 /\ serial \in BOOLEAN
      /\ version = [status |-> "planned", dated |-> FALSE]
      /\ editing = [w \in Workers |-> E!Idle]
  BY DEF E!Init
<1>2. \A w \in Workers : editing[w] = E!Idle
  BY <1>1
<1>3. EditsHold
  <2>1. EditHolds(E!Idle)
    BY IdleEdits DEF EditHolds, EditOps, E!Idle, HasRow, Inserts
  <2> QED
    BY <1>1, <1>2, <2>1 DEF EditsHold
<1>4. CatalogRowsHold
  BY <1>1, CatalogBounds DEF CatalogRowsHold
<1>5. Reserved
  BY <1>2, IdleEdits DEF Reserved, FreeFor
<1>6. DefaultsHold
  BY <1>1, <1>2, IdleEdits DEF DefaultsHold, PickHolds
<1>7. NamesHold
  BY <1>1, <1>2, IdleEdits DEF NamesHold, Named
<1>8. VersionHolds
  <2>1. version \in VersionRows /\ version.status = "planned" /\ version.dated = FALSE
    BY <1>1 DEF VersionRows, E!VersionStatuses
  <2> QED
    BY <1>2, <2>1, IdleEdits DEF VersionHolds
<1> QED
  BY <1>3, <1>4, <1>5, <1>6, <1>7, <1>8 DEF EnvironmentsInd

\* Every step of the machine keeps it.
LEMMA EnvironmentsNext == EnvironmentsInd /\ [E!Next]_environmentState => EnvironmentsInd'
<1> SUFFICES ASSUME EnvironmentsInd, [E!Next]_environmentState PROVE EnvironmentsInd'
  OBVIOUS
<1>1. CASE UNCHANGED environmentState
  BY <1>1, EnvironmentsStill
<1>2. CASE E!Next
  <2>1. ASSUME NEW w \in Workers, NEW e \in env, NEW s \in Slugs, NEW d \in E!Choices, E!BeginUpdate(w, e, s, d)
        PROVE  EnvironmentsInd'
    BY <2>1, UpdateBegins
  <2>2. ASSUME NEW w \in Workers, NEW s \in Slugs, NEW d \in {"yes", "no"}, E!BeginCreate(w, s, d)
        PROVE  EnvironmentsInd'
    BY <2>2, CreateBegins
  <2> QED
    BY <1>2, <2>1, <2>2, ArchiveBegins, DeleteEnvironmentBegins, ExecutionBegins, VersionBegins, CreateCommits,
       UpdateCommits, ArchiveCommits, DeleteCommits, ExecutionCommits, VersionCommits, EditDies, ExecutionsDeleted
       DEF E!Next
<1> QED
  BY <1>1, <1>2

\* It is what EnvironmentsHold needs.
LEMMA EnvironmentsIndHolds == EnvironmentsInd => E!EnvironmentsHold
<1> SUFFICES ASSUME EnvironmentsInd PROVE E!EnvironmentsHold
  OBVIOUS
<1>1. CatalogRowsHold /\ DefaultsHold /\ NamesHold /\ VersionHolds
  BY DEF EnvironmentsInd
<1>2. E!TypeOK
  BY <1>1, CatalogBounds DEF E!TypeOK, CatalogRowsHold, EnvironmentRows, VersionHolds, VersionRows
<1>3. E!OneDefault
  <2> SUFFICES ASSUME ~clashed PROVE E!Cardinality({e \in env : e.default}) <= 1
    BY DEF E!OneDefault
  <2>1. PICK set : set = {e \in env : e.default}
    OBVIOUS
  <2>2. \A e, d \in set : e = d
    BY <1>1, <2>1 DEF DefaultsHold
  <2>3. Cardinality(set) <= 1
    <3>1. CASE set = {}
      BY <3>1, FS_EmptySet
    <3>2. CASE set # {}
      <4>1. PICK e : set = {e}
        BY <2>2, <3>2
      <4>2. Cardinality({e}) = 1
        BY FS_Singleton
      <4> QED
        BY <4>1, <4>2
    <3> QED
      BY <3>1, <3>2
  <2> QED
    BY <2>1, <2>3, SameSizeOfEnvironments
<1>4. E!NamesResolve
  BY <1>1 DEF E!NamesResolve, E!SlugsOf, NamesHold, Named, Found, CatalogRowsHold
<1>5. E!ReleasesDated
  BY <1>1 DEF E!ReleasesDated, VersionHolds
<1> QED
  BY <1>2, <1>3, <1>4, <1>5 DEF E!EnvironmentsHold

\* Whatever overlaps, and whoever dies: a project keeps one default environment unless two
\* requests that choose it overlapped, the environment that executions name stays under its
\* slug, and served one at a time a version has a date if it is released.  For any number of
\* workers, slugs, rows and requests.
THEOREM NamesKeepTheirEnvironment == Spec => []EnvironmentsHold
<1> DEFINE Kept == part = "environments" => EnvironmentsInd
<1>1. Init => Kept
  BY EnvironmentsInit DEF Init
<1>2. Kept /\ [Next]_catalogVars => Kept'
  <2> SUFFICES ASSUME Kept, [Next]_catalogVars, part' = "environments" PROVE EnvironmentsInd'
    OBVIOUS
  <2>1. CASE UNCHANGED catalogVars
    <3>1. part = "environments" /\ UNCHANGED environmentState
      BY <2>1 DEF catalogVars, environmentVars, environmentState
    <3> QED
      BY <3>1, EnvironmentsNext
  <2>2. CASE EnvironmentStep
    BY <2>2, EnvironmentsNext DEF EnvironmentStep
  <2>3. CASE SuiteStep \/ CaseStep \/ FieldStep \/ FileStep
    BY <2>3 DEF SuiteStep, CaseStep, FieldStep, FileStep
  <2> QED
    BY <2>1, <2>2, <2>3 DEF Next
<1>3. Kept => EnvironmentsHold
  BY EnvironmentsIndHolds DEF EnvironmentsHold
<1> QED
  BY <1>1, <1>2, <1>3, PTL DEF Spec, catalogVars

-----------------------------------------------------------------------------
(* Why SuitesAndCasesHold is kept, for suites.  A move that was decided, and *)
(* that no other has overtaken, still puts no suite below itself.           *)

SuiteOps == {"none", "create", "update", "delete", "reorder", "archive"}
SuiteRows ==
  [id : 1 .. created, parent : 0 .. created, name : Names, order : 0 .. MaxSuites]

\* The places of a list of suites that names none of them twice.
Orders ==
  {order \in UNION {[1 .. n -> 1 .. MaxSuites] : n \in 0 .. MaxSuites} :
     \A i, j \in DOMAIN order : order[i] = order[j] => i = j}

\* What a request is about to write.
WriteHolds(r) ==
  /\ r.op \in SuiteOps
  /\ r.op = "create" => r.parent \in 0 .. created /\ r.name \in Names /\ r.at \in 1 .. MaxSuites
  /\ r.op = "update" =>
       /\ r.id \in 1 .. created /\ r.parent \in 0 .. created
       /\ r.name \in Names \union {"none"} /\ r.at \in 0 .. moves
  /\ r.op = "reorder" => r.order \in Orders
WritesHold == moving = [w \in Workers |-> moving[w]] /\ \A w \in Workers : WriteHolds(moving[w])

SuiteRowsHold ==
  /\ created \in 0 .. MaxSuites /\ requests \in 0 .. SuiteRequests
  /\ moves \in Nat /\ overlapped \in BOOLEAN
  /\ suites \subseteq SuiteRows
  /\ \A r, s \in suites : r.id = s.id => r = s
  /\ live \subseteq S!Ids

\* A move that none has overtaken goes to a suite that is not below the one that moves.
MoveHolds(r) ==
  r.op = "update" /\ r.parent # S!Root /\ r.at = moves /\ {r.id, r.parent} \subseteq S!Ids =>
    r.parent \notin S!Subtree(r.id)
MovesHold == ~overlapped => \A w \in Workers : MoveHolds(moving[w])

\* The name that a request served alone is about to write is free.
NameHolds(r) ==
  /\ r.op = "create" => \A s \in S!Siblings(r.parent) : s.name # r.name
  /\ r.op = "update" /\ r.parent = S!Root /\ r.name # "none" =>
       \A s, t \in suites : t.id = r.id /\ s.parent = t.parent /\ s.name = r.name => s.id = r.id
OneWrites ==
  serial =>
    /\ \A v, w \in Workers : moving[v].op # "none" /\ moving[w].op # "none" => v = w
    /\ moves = 0 => \A w \in Workers : NameHolds(moving[w])

SuitesInd ==
  /\ SuiteRowsHold /\ WritesHold /\ MovesHold /\ OneWrites
  /\ S!NoOrphans /\ S!MovesKeepTree /\ S!SiblingsDiffer

\* The ids of a table of suites.
IdsOf(set) == {r.id : r \in set}
\* Who has a parent among them is among them.
Closed(set, ids) == \A r \in set : r.parent \in ids => r.id \in ids
\* What Subtree is of a table of suites.
Below(set, id) ==
  {i \in IdsOf(set) : \A ids \in SUBSET IdsOf(set) : id \in ids /\ Closed(set, ids) => i \in ids}
\* No suite is below itself.
Tree(set) == \A r \in set : r.parent \notin Below(set, r.id)

\* Subtree is a function of the table.
LEMMA SubtreeIsBelow == \A id : S!Subtree(id) = Below(suites, id)
  BY DEF S!Subtree, S!HasChildren, S!Ids, Below, IdsOf, Closed

\* So it is after a step.
LEMMA SubtreeIsBelowNext == \A id : S!Subtree(id)' = Below(suites', id)
  BY DEF S!Subtree, S!HasChildren, S!Ids, Below, IdsOf, Closed

\* What is below a suite has the suite, and the children of its members.
LEMMA BelowClosed ==
  ASSUME NEW set, NEW id
  PROVE  /\ Below(set, id) \subseteq IdsOf(set) /\ Closed(set, Below(set, id))
         /\ id \in IdsOf(set) => id \in Below(set, id)
<1>1. Below(set, id) \subseteq IdsOf(set) /\ (id \in IdsOf(set) => id \in Below(set, id))
  BY DEF Below
<1>2. ASSUME NEW r \in set, r.parent \in Below(set, id) PROVE r.id \in Below(set, id)
  <2>1. r.id \in IdsOf(set)
    BY DEF IdsOf
  <2>2. ASSUME NEW ids \in SUBSET IdsOf(set), id \in ids, Closed(set, ids) PROVE r.id \in ids
    <3>1. r.parent \in ids
      BY <1>2, <2>2 DEF Below
    <3> QED
      BY <2>2, <3>1 DEF Closed
  <2> QED
    BY <2>1, <2>2 DEF Below
<1> QED
  BY <1>1, <1>2 DEF Closed

\* No set that has them is smaller.
LEMMA BelowLeast ==
  ASSUME NEW set, NEW id, NEW ids, ids \subseteq IdsOf(set), id \in ids, Closed(set, ids)
  PROVE  Below(set, id) \subseteq ids
  BY DEF Below

\* A new suite, which has no children, comes below those above it and is above none.
LEMMA BelowGrows ==
  ASSUME NEW set, NEW n, NEW more, more = set \union {n}, n.id \notin IdsOf(set),
         n.parent # n.id, \A r \in set : r.parent # n.id
  PROVE  /\ \A id \in IdsOf(set) : Below(more, id) \subseteq Below(set, id) \union {n.id}
         /\ Below(more, n.id) \subseteq {n.id}
<1>1. IdsOf(more) = IdsOf(set) \union {n.id}
  BY DEF IdsOf
<1>2. ASSUME NEW id \in IdsOf(set) PROVE Below(more, id) \subseteq Below(set, id) \union {n.id}
  <2>1. PICK ids : ids = Below(set, id) \union {n.id}
    OBVIOUS
  <2>2. Below(set, id) \subseteq IdsOf(set) /\ Closed(set, Below(set, id)) /\ id \in Below(set, id)
    BY BelowClosed
  <2>3. ids \subseteq IdsOf(more) /\ id \in ids
    BY <1>1, <2>1, <2>2
  <2>4. Closed(more, ids)
    BY <2>1, <2>2 DEF Closed
  <2>5. Below(more, id) \subseteq ids
    BY <2>3, <2>4, BelowLeast
  <2> QED
    BY <2>1, <2>5
<1>3. Below(more, n.id) \subseteq {n.id}
  <2>1. {n.id} \subseteq IdsOf(more) /\ n.id \in {n.id}
    BY <1>1
  <2>2. Closed(more, {n.id})
    BY DEF Closed
  <2> QED
    BY <2>1, <2>2, BelowLeast
<1> QED
  BY <1>2, <1>3

\* Nothing comes below a suite as others are deleted.
LEMMA BelowShrinks ==
  ASSUME NEW set, NEW left, left \subseteq set, NEW id \in IdsOf(left)
  PROVE  Below(left, id) \subseteq Below(set, id)
<1>1. PICK ids : ids = Below(set, id) \intersect IdsOf(left)
  OBVIOUS
<1>2. id \in IdsOf(set)
  BY DEF IdsOf
<1>3. Closed(set, Below(set, id)) /\ id \in Below(set, id)
  BY <1>2, BelowClosed
<1>4. ids \subseteq IdsOf(left) /\ id \in ids
  BY <1>1, <1>3
<1>5. Closed(left, ids)
  BY <1>1, <1>3 DEF Closed, IdsOf
<1>6. Below(left, id) \subseteq ids
  BY <1>4, <1>5, BelowLeast
<1> QED
  BY <1>1, <1>6

\* Two tables have the same ids and parents.
SameShape(set, new) ==
  /\ \A r \in new : \E s \in set : s.id = r.id /\ s.parent = r.parent
  /\ \A s \in set : \E r \in new : s.id = r.id /\ s.parent = r.parent

\* Names and orders do not matter to the tree.
LEMMA ShapeKeepsBelow ==
  ASSUME NEW set, NEW new, SameShape(set, new)
  PROVE  IdsOf(new) = IdsOf(set) /\ \A id : Below(new, id) = Below(set, id)
<1>1. IdsOf(new) = IdsOf(set)
  BY DEF SameShape, IdsOf
<1>2. ASSUME NEW ids PROVE Closed(new, ids) = Closed(set, ids)
  BY DEF SameShape, Closed
<1> QED
  BY <1>1, <1>2 DEF Below

\* A suite that moves to one not below it, and what is below it, are not below themselves.
LEMMA MoveKeepsTree ==
  ASSUME NEW set, NEW new, NEW id \in IdsOf(set), NEW parent, parent \notin Below(set, id), Tree(set),
         IdsOf(new) = IdsOf(set),
         \A r \in new : \/ r.id = id /\ r.parent = parent
                        \/ r.id # id /\ \E s \in set : s.id = r.id /\ s.parent = r.parent
  PROVE  Tree(new)
<1> SUFFICES ASSUME NEW r \in new PROVE r.parent \notin Below(new, r.id)
  BY DEF Tree
<1>1. r.id \in IdsOf(set)
  BY DEF IdsOf
<1>2. /\ Below(set, id) \subseteq IdsOf(set) /\ Closed(set, Below(set, id)) /\ id \in Below(set, id)
  BY BelowClosed
<1>3. /\ Below(set, r.id) \subseteq IdsOf(set) /\ Closed(set, Below(set, r.id)) /\ r.id \in Below(set, r.id)
  BY <1>1, BelowClosed
<1>4. CASE r.id \in Below(set, id)
  <2>1. Below(set, r.id) \subseteq Below(set, id)
    BY <1>2, <1>4, BelowLeast
  <2>2. Closed(new, Below(set, r.id))
    BY <1>3, <2>1 DEF Closed
  <2>3. Below(new, r.id) \subseteq Below(set, r.id)
    BY <1>3, <2>2, BelowLeast
  <2>4. CASE r.id = id /\ r.parent = parent
    BY <2>3, <2>4
  <2>5. CASE r.id # id /\ \E s \in set : s.id = r.id /\ s.parent = r.parent
    BY <2>3, <2>5 DEF Tree
  <2> QED
    BY <2>4, <2>5
<1>5. CASE r.id \notin Below(set, id)
  <2>1. PICK ids : ids = Below(set, r.id) \union Below(set, id)
    OBVIOUS
  <2>2. Closed(new, ids)
    BY <1>2, <1>3, <2>1 DEF Closed
  <2>3. ids \subseteq IdsOf(new) /\ r.id \in ids
    BY <1>2, <1>3, <2>1
  <2>4. Below(new, r.id) \subseteq ids
    BY <2>2, <2>3, BelowLeast
  <2>5. PICK s \in set : s.id = r.id /\ s.parent = r.parent
    BY <1>2, <1>5
  <2>6. s.parent \notin Below(set, s.id) /\ s.parent \notin Below(set, id)
    BY <1>2, <1>5, <2>5 DEF Tree, Closed
  <2> QED
    BY <2>1, <2>4, <2>5, <2>6
<1> QED
  BY <1>4, <1>5

\* An id names one suite.
LEMMA SuiteIsThere ==
  ASSUME SuiteRowsHold, NEW id \in S!Ids
  PROVE  S!Suite(id) \in suites /\ S!Suite(id).id = id /\ \A r \in suites : r.id = id => r = S!Suite(id)
<1>1. \E r \in suites : r.id = id
  BY DEF S!Ids
<1>2. S!Suite(id) \in suites /\ S!Suite(id).id = id
  BY <1>1 DEF S!Suite
<1> QED
  BY <1>2 DEF SuiteRowsHold

\* What a request is about to write stays in bounds as others commit.
LEMMA WriteStays ==
  ASSUME NEW r, WriteHolds(r), created \in Nat, created' \in Nat, created <= created',
         moves \in Nat, moves' \in Nat, moves <= moves'
  PROVE  WriteHolds(r)'
<1>1. 0 .. created \subseteq 0 .. created' /\ 1 .. created \subseteq 1 .. created' /\ 0 .. moves \subseteq 0 .. moves'
  OBVIOUS
<1> QED
  BY <1>1 DEF WriteHolds

\* One request goes on, and all are about to write what they may.
LEMMA WritesStep ==
  ASSUME WritesHold, NEW w \in Workers, NEW r, moving' = [moving EXCEPT ![w] = r], WriteHolds(r)',
         created \in Nat, created' \in Nat, created <= created',
         moves \in Nat, moves' \in Nat, moves <= moves'
  PROVE  WritesHold' /\ moving'[w] = r /\ \A v \in Workers \ {w} : moving'[v] = moving[v]
<1>1. /\ moving' = [v \in Workers |-> moving'[v]] /\ moving'[w] = r
      /\ \A v \in Workers \ {w} : moving'[v] = moving[v]
  BY DEF WritesHold
<1>2. ASSUME NEW v \in Workers PROVE WriteHolds(moving[v])'
  <2>1. CASE v = w
    BY <1>1, <2>1
  <2>2. CASE v # w
    <3>1. PICK q : q = moving[v]
      OBVIOUS
    <3>2. WriteHolds(q) /\ moving'[v] = q
      BY <1>1, <2>2, <3>1 DEF WritesHold
    <3>3. WriteHolds(q)'
      BY <3>2, WriteStays
    <3> QED
      BY <3>2, <3>3
  <2> QED
    BY <2>1, <2>2
<1> QED
  BY <1>1, <1>2 DEF WritesHold

\* A request reads the tree, and writes nothing yet.
LEMMA RequestBegins ==
  ASSUME SuitesInd, NEW w \in Workers, NEW r, S!Serve(w), S!Begins(w, r), WriteHolds(r),
         MoveHolds(r), serial /\ moves = 0 => NameHolds(r)
  PROVE  SuitesInd'
<1>1. /\ UNCHANGED <<serial, suites, live, created, moves, overlapped>>
      /\ moving' = [moving EXCEPT ![w] = r] /\ moving[w] = S!Idle
      /\ requests < SuiteRequests /\ requests' = requests + 1
      /\ serial => \A v \in Workers : moving[v] = S!Idle
  BY DEF S!Begins, S!Serve
<1>2. SuiteRowsHold' /\ S!NoOrphans' /\ S!MovesKeepTree' /\ S!SiblingsDiffer'
  <2>1. SuiteRowsHold'
    BY <1>1, CatalogBounds DEF SuitesInd, SuiteRowsHold, SuiteRows, S!Ids
  <2>2. S!NoOrphans' /\ S!SiblingsDiffer'
    BY <1>1 DEF SuitesInd, S!NoOrphans, S!SiblingsDiffer, S!Ids
  <2>3. S!MovesKeepTree'
    BY <1>1, SubtreeIsBelow, SubtreeIsBelowNext DEF SuitesInd, S!MovesKeepTree
  <2> QED
    BY <2>1, <2>2, <2>3
<1>3. WriteHolds(r)'
  BY <1>1 DEF WriteHolds
<1>4. WritesHold' /\ moving'[w] = r /\ \A v \in Workers \ {w} : moving'[v] = moving[v]
  <2>1. WritesHold /\ created \in Nat /\ created' \in Nat /\ created <= created'
        /\ moves \in Nat /\ moves' \in Nat /\ moves <= moves'
    BY <1>1, CatalogBounds DEF SuitesInd, SuiteRowsHold
  <2> QED
    BY <1>1, <1>3, <2>1, WritesStep
<1>5. MovesHold'
  <2>1. \A q : MoveHolds(q)' = MoveHolds(q)
    BY <1>1, SubtreeIsBelow, SubtreeIsBelowNext DEF MoveHolds, S!Ids
  <2>2. ~overlapped => \A v \in Workers : MoveHolds(moving'[v])
    BY <1>4 DEF SuitesInd, MovesHold
  <2> QED
    BY <1>1, <2>1, <2>2 DEF MovesHold
<1>6. OneWrites'
  <2>1. \A q : NameHolds(q)' = NameHolds(q)
    BY <1>1 DEF NameHolds, S!Siblings
  <2>2. serial => \A v \in Workers \ {w} : moving'[v].op = "none"
    BY <1>1, <1>4 DEF S!Idle
  <2>3. serial /\ moves = 0 => \A v \in Workers : NameHolds(moving'[v])
    BY <1>4 DEF SuitesInd, OneWrites
  <2> QED
    BY <1>1, <2>1, <2>2, <2>3 DEF OneWrites
<1> QED
  BY <1>2, <1>4, <1>5, <1>6 DEF SuitesInd

\* A request commits; moves that others decided stay sound, or are overtaken.
LEMMA RequestEnds ==
  ASSUME SuitesInd, NEW w \in Workers, moving[w].op # "none", S!Ends(w),
         serial' = serial, SuiteRowsHold', created <= created', moves <= moves',
         overlapped => overlapped',
         moves' = moves /\ ~overlapped' => \A q : WriteHolds(q) /\ MoveHolds(q) => MoveHolds(q)'
  PROVE  WritesHold' /\ MovesHold' /\ OneWrites'
<1>1. WritesHold' /\ moving'[w] = S!Idle /\ \A v \in Workers \ {w} : moving'[v] = moving[v]
  <2>1. WritesHold /\ created \in Nat /\ created' \in Nat /\ created <= created'
        /\ moves \in Nat /\ moves' \in Nat /\ moves <= moves'
    BY CatalogBounds DEF SuitesInd, SuiteRowsHold
  <2>2. WriteHolds(S!Idle)'
    BY DEF WriteHolds, S!Idle, SuiteOps
  <2>3. moving' = [moving EXCEPT ![w] = S!Idle]
    BY DEF S!Ends
  <2> QED
    BY <2>1, <2>2, <2>3, WritesStep
<1>2. OneWrites'
  <2>1. serial => \A v \in Workers : moving'[v].op = "none"
    <3>1. \A v \in Workers \ {w} : serial => moving[v].op = "none"
      BY DEF SuitesInd, OneWrites
    <3> QED
      BY <1>1, <3>1 DEF S!Idle
  <2> QED
    BY <2>1 DEF OneWrites, NameHolds
<1>3. ASSUME ~overlapped', NEW v \in Workers PROVE MoveHolds(moving[v])'
  <2>1. PICK q : q = moving'[v]
    OBVIOUS
  <2>2. CASE v = w
    BY <1>1, <2>1, <2>2 DEF MoveHolds, S!Idle
  <2>3. CASE v # w /\ moves' = moves
    <3>1. WriteHolds(q) /\ MoveHolds(q)
      BY <1>1, <1>3, <2>1, <2>3 DEF SuitesInd, WritesHold, MovesHold
    <3>2. MoveHolds(q)'
      BY <1>3, <2>3, <3>1
    <3> QED
      BY <2>1, <3>2
  <2>4. CASE v # w /\ moves' # moves
    <3>1. WriteHolds(q)
      BY <1>1, <2>1, <2>4 DEF SuitesInd, WritesHold
    <3>2. q.op = "update" => q.at # moves'
      BY <2>4, <3>1 DEF WriteHolds, SuitesInd, SuiteRowsHold
    <3> QED
      BY <2>1, <3>2 DEF MoveHolds
  <2> QED
    BY <2>2, <2>3, <2>4
<1>4. MovesHold'
  BY <1>3 DEF MovesHold
<1> QED
  BY <1>1, <1>2, <1>4

\* The library and the model of suites count alike.
LEMMA SameSizeOfSuites == \A set : S!Cardinality(set) = Cardinality(set)
  BY DEF Cardinality, S!Cardinality

\* Siblings are no more than the suites created.
LEMMA SiblingsCounted ==
  ASSUME SuiteRowsHold, NEW parent
  PROVE  Cardinality(S!Siblings(parent)) \in 0 .. created
<1>1. PICK set : set = S!Siblings(parent)
  OBVIOUS
<1>2. created \in Nat /\ set \subseteq suites /\ suites \subseteq SuiteRows
      /\ \A r, s \in suites : r.id = s.id => r = s
  BY <1>1, CatalogBounds DEF SuiteRowsHold, S!Siblings
<1>3. PICK f : f = [r \in set |-> r.id]
  OBVIOUS
<1>4. f \in Injection(set, 1 .. created)
  <2>1. \A r \in set : f[r] = r.id /\ r.id \in 1 .. created
    BY <1>2, <1>3 DEF SuiteRows
  <2>2. f \in [set -> 1 .. created]
    BY <1>3, <2>1
  <2>3. \A r, s \in set : f[r] = f[s] => r = s
    BY <1>2, <2>1
  <2> QED
    BY <2>2, <2>3 DEF Injection, IsInjective
<1>5. IsFiniteSet(1 .. created) /\ Cardinality(1 .. created) = created
  <2>1. IsFiniteSet(1 .. created) /\ Cardinality(1 .. created) = IF 1 > created THEN 0 ELSE created - 1 + 1
    BY <1>2, FS_Interval
  <2> QED
    BY <1>2, <2>1
<1>6. IsFiniteSet(set) /\ Cardinality(set) <= Cardinality(1 .. created)
  BY <1>4, <1>5, FS_Injection
<1>7. Cardinality(set) \in Nat
  BY <1>6, FS_CardinalityType
<1> QED
  BY <1>1, <1>2, <1>5, <1>6, <1>7

\* A suite of a list has a place in it.
LEMMA PlaceFound ==
  ASSUME NEW order \in Orders, NEW id \in S!Range(order)
  PROVE  S!Max({i \in DOMAIN order : order[i] = id}) \in 1 .. MaxSuites
<1>1. PICK n \in 0 .. MaxSuites : order \in [1 .. n -> 1 .. MaxSuites]
  BY DEF Orders
<1>2. \A i, j \in 1 .. n : order[i] = order[j] => i = j
  BY <1>1 DEF Orders
<1>3. PICK k \in 1 .. n : order[k] = id
  BY <1>1 DEF S!Range
<1>4. PICK set : set = {i \in DOMAIN order : order[i] = id}
  OBVIOUS
<1>5. set = {k}
  BY <1>1, <1>2, <1>3, <1>4
<1>6. S!Max(set) = k
  BY <1>3, <1>5, CatalogBounds DEF S!Max
<1> QED
  BY <1>3, <1>4, <1>6, CatalogBounds

\* A suite is to be created.
LEMMA SuiteCreateBegins ==
  ASSUME SuitesInd, NEW w \in Workers, NEW parent \in {S!Root} \union S!Ids, NEW name \in Names,
         S!BeginCreate(w, parent, name)
  PROVE  SuitesInd'
<1>1. PICK r : r = [S!Idle EXCEPT !.op = "create", !.parent = parent, !.name = name,
                                  !.at = S!Cardinality(S!Siblings(parent)) + 1]
  OBVIOUS
<1>2. S!Serve(w) /\ S!Begins(w, r) /\ ~S!Duplicate(name, parent, S!Root) /\ created < MaxSuites
  BY <1>1 DEF S!BeginCreate
<1>3. r.op = "create" /\ r.parent = parent /\ r.name = name /\ r.at = Cardinality(S!Siblings(parent)) + 1
  BY <1>1, SameSizeOfSuites DEF S!Idle
<1>4. Cardinality(S!Siblings(parent)) \in 0 .. created
  BY SiblingsCounted DEF SuitesInd
<1>5. created \in Nat /\ parent \in 0 .. created
  BY CatalogBounds DEF SuitesInd, SuiteRowsHold, SuiteRows, S!Ids, S!Root
<1>6. WriteHolds(r)
  BY <1>2, <1>3, <1>4, <1>5, CatalogBounds DEF WriteHolds, SuiteOps
<1>7. NameHolds(r)
  <2>1. \A s \in suites : s.id # S!Root
    BY DEF SuitesInd, SuiteRowsHold, SuiteRows, S!Root
  <2> QED
    BY <1>2, <1>3, <2>1 DEF NameHolds, S!Duplicate, S!Siblings
<1>8. MoveHolds(r)
  BY <1>3 DEF MoveHolds
<1> QED
  BY <1>2, <1>6, <1>7, <1>8, RequestBegins

\* A suite is to be renamed or moved.
LEMMA SuiteUpdateBegins ==
  ASSUME SuitesInd, NEW w \in Workers, NEW id \in S!Ids, NEW parent \in {S!Root} \union S!Ids,
         NEW name \in Names, S!BeginUpdate(w, id, parent, name)
  PROVE  SuitesInd'
<1>1. PICK s : s = S!Suite(id)
  OBVIOUS
<1>2. s \in suites /\ s.id = id /\ \A t \in suites : t.id = id => t = s
  BY <1>1, SuiteIsThere DEF SuitesInd
<1>3. PICK stays : stays = IF parent = S!Root THEN s.parent ELSE parent
  OBVIOUS
<1>4. PICK r : r = [S!Idle EXCEPT !.op = "update", !.id = id, !.at = moves,
                                  !.parent = IF stays = s.parent THEN S!Root ELSE stays,
                                  !.name = IF name = s.name THEN "none" ELSE name]
  OBVIOUS
<1>5. /\ S!Serve(w) /\ S!Begins(w, r) /\ S!ValidParent(id, parent)
      /\ name # s.name => ~S!Duplicate(name, s.parent, id)
  BY <1>1, <1>3, <1>4 DEF S!BeginUpdate
<1>6. /\ r.op = "update" /\ r.id = id /\ r.at = moves
      /\ r.parent = IF stays = s.parent THEN S!Root ELSE stays
      /\ r.name = IF name = s.name THEN "none" ELSE name
  BY <1>4 DEF S!Idle
<1>7. r.parent = S!Root \/ (r.parent = parent /\ parent # S!Root)
  BY <1>3, <1>6
<1>8. WriteHolds(r)
  <2>1. created \in Nat /\ moves \in Nat /\ id \in 1 .. created /\ parent \in 0 .. created
    BY CatalogBounds DEF SuitesInd, SuiteRowsHold, SuiteRows, S!Ids, S!Root
  <2> QED
    BY <1>6, <1>7, <2>1 DEF WriteHolds, SuiteOps, S!Root
<1>9. MoveHolds(r)
  BY <1>5, <1>6, <1>7 DEF MoveHolds, S!ValidParent
<1>10. NameHolds(r)
  BY <1>2, <1>5, <1>6 DEF NameHolds, S!Duplicate, S!Siblings
<1> QED
  BY <1>5, <1>8, <1>9, <1>10, RequestBegins

\* A suite is to be deleted with those below it.
LEMMA SuiteDeleteBegins ==
  ASSUME SuitesInd, NEW w \in Workers, NEW id, S!BeginDelete(w, id)
  PROVE  SuitesInd'
<1>1. PICK r : r = [S!Idle EXCEPT !.op = "delete", !.ids = S!Subtree(id)]
  OBVIOUS
<1>2. S!Serve(w) /\ S!Begins(w, r)
  BY <1>1 DEF S!BeginDelete
<1>3. r.op = "delete"
  BY <1>1 DEF S!Idle
<1>4. WriteHolds(r) /\ MoveHolds(r) /\ NameHolds(r)
  BY <1>3 DEF WriteHolds, MoveHolds, NameHolds, SuiteOps
<1> QED
  BY <1>2, <1>4, RequestBegins

\* The cases below a suite are to be archived.
LEMMA SuiteArchiveBegins ==
  ASSUME SuitesInd, NEW w \in Workers, NEW id, S!BeginArchive(w, id)
  PROVE  SuitesInd'
<1>1. PICK r : r = [S!Idle EXCEPT !.op = "archive", !.ids = S!Subtree(id) \intersect live]
  OBVIOUS
<1>2. S!Serve(w) /\ S!Begins(w, r)
  BY <1>1 DEF S!BeginArchive
<1>3. r.op = "archive"
  BY <1>1 DEF S!Idle
<1>4. WriteHolds(r) /\ MoveHolds(r) /\ NameHolds(r)
  BY <1>3 DEF WriteHolds, MoveHolds, NameHolds, SuiteOps
<1> QED
  BY <1>2, <1>4, RequestBegins

\* Siblings are to be reordered.
LEMMA SuiteReorderBegins ==
  ASSUME SuitesInd, NEW w \in Workers, NEW parent,
         NEW ids \in S!SetToSeqs({s.id : s \in S!Siblings(parent)}), S!BeginReorder(w, parent, ids)
  PROVE  SuitesInd'
<1>1. PICK r : r = [S!Idle EXCEPT !.op = "reorder", !.order = ids]
  OBVIOUS
<1>2. S!Serve(w) /\ S!Begins(w, r)
  BY <1>1 DEF S!BeginReorder
<1>3. r.op = "reorder" /\ r.order = ids
  BY <1>1 DEF S!Idle
<1>4. PICK set : set = {s.id : s \in S!Siblings(parent)}
  OBVIOUS
<1>5. MaxSuites \in Nat /\ set \subseteq 1 .. MaxSuites
  BY <1>4, CatalogBounds DEF SuitesInd, SuiteRowsHold, SuiteRows, S!Siblings
<1>6. Cardinality(set) \in 0 .. MaxSuites
  <2>1. IsFiniteSet(1 .. MaxSuites)
        /\ Cardinality(1 .. MaxSuites) = IF 1 > MaxSuites THEN 0 ELSE MaxSuites - 1 + 1
    BY <1>5, FS_Interval
  <2>2. IsFiniteSet(set) /\ Cardinality(set) <= Cardinality(1 .. MaxSuites)
    BY <1>5, <2>1, FS_Subset
  <2>3. Cardinality(set) \in Nat
    BY <2>2, FS_CardinalityType
  <2> QED
    BY <1>5, <2>1, <2>2, <2>3
<1>7. ids \in Orders
  <2>1. PICK n : n = Cardinality(set)
    OBVIOUS
  <2>2. ids \in [1 .. n -> set] /\ \A i, j \in 1 .. n : i # j => ids[i] # ids[j]
    BY <1>4, <2>1, SameSizeOfSuites DEF S!SetToSeqs
  <2>3. n \in 0 .. MaxSuites /\ ids \in [1 .. n -> 1 .. MaxSuites]
    BY <1>5, <1>6, <2>1, <2>2
  <2>4. \A i, j \in DOMAIN ids : ids[i] = ids[j] => i = j
    BY <2>2
  <2> QED
    BY <2>3, <2>4 DEF Orders
<1>8. WriteHolds(r) /\ MoveHolds(r) /\ NameHolds(r)
  BY <1>3, <1>7 DEF WriteHolds, MoveHolds, NameHolds, SuiteOps
<1> QED
  BY <1>2, <1>8, RequestBegins

\* A move stays sound if nothing comes below the suite that moves.
LEMMA MoveStaysBelow ==
  ASSUME NEW q, WriteHolds(q), MoveHolds(q), moves' = moves,
         q.op = "update" /\ {q.id, q.parent} \subseteq S!Ids' /\ q.parent # S!Root =>
           /\ {q.id, q.parent} \subseteq S!Ids
           /\ q.parent \in Below(suites', q.id) => q.parent \in Below(suites, q.id)
  PROVE  MoveHolds(q)'
  BY SubtreeIsBelow, SubtreeIsBelowNext DEF MoveHolds

\* The suite is created, if its parent is still there.
LEMMA SuiteCreateCommits ==
  ASSUME SuitesInd, NEW w \in Workers, S!CommitCreate(w)
  PROVE  SuitesInd'
<1>1. PICK r : r = moving[w]
  OBVIOUS
<1>2. PICK n : n = S!Row(created + 1, r.parent, r.name, r.at)
  OBVIOUS
<1>3. /\ r.op = "create" /\ S!Ends(w) /\ UNCHANGED <<serial, live, requests, moves, overlapped>>
      /\ IF (r.parent = S!Root \/ r.parent \in S!Ids) /\ created < MaxSuites
         THEN suites' = suites \union {n} /\ created' = created + 1
         ELSE UNCHANGED <<suites, created>>
  BY <1>1, <1>2 DEF S!CommitCreate, S!Does
<1>4. /\ n.id = created + 1 /\ n.parent = r.parent /\ n.name = r.name /\ n.order = r.at
      /\ n = [id |-> created + 1, parent |-> r.parent, name |-> r.name, order |-> r.at]
  BY <1>2 DEF S!Row
<1>5. created \in 0 .. MaxSuites /\ MaxSuites \in Nat /\ suites \subseteq SuiteRows
      /\ r.parent \in 0 .. created /\ r.name \in Names /\ r.at \in 1 .. MaxSuites
  BY <1>1, <1>3, CatalogBounds DEF SuitesInd, SuiteRowsHold, WritesHold, WriteHolds
<1>6. CASE suites' = suites /\ created' = created
  <2>1. SuiteRowsHold' /\ S!NoOrphans' /\ S!SiblingsDiffer'
    BY <1>3, <1>6 DEF SuitesInd, SuiteRowsHold, SuiteRows, S!Ids, S!NoOrphans, S!SiblingsDiffer
  <2>2. S!MovesKeepTree'
    BY <1>3, <1>6, SubtreeIsBelow, SubtreeIsBelowNext DEF SuitesInd, S!MovesKeepTree
  <2>3. \A q : WriteHolds(q) /\ MoveHolds(q) => MoveHolds(q)'
    BY <1>3, <1>6, MoveStaysBelow DEF S!Ids
  <2>4. moving[w].op # "none" /\ S!Ends(w) /\ serial' = serial /\ created <= created' /\ moves <= moves'
        /\ overlapped' = overlapped
    BY <1>1, <1>3, <1>5, <1>6 DEF SuitesInd, SuiteRowsHold
  <2>5. WritesHold' /\ MovesHold' /\ OneWrites'
    BY <2>1, <2>3, <2>4, RequestEnds
  <2> QED
    BY <2>1, <2>2, <2>5 DEF SuitesInd
<1>7. CASE /\ r.parent = S!Root \/ r.parent \in S!Ids
           /\ created < MaxSuites /\ suites' = suites \union {n} /\ created' = created + 1
  <2>1. n \in SuiteRows' /\ SuiteRows \subseteq SuiteRows' /\ suites' \subseteq SuiteRows'
    BY <1>4, <1>5, <1>7 DEF SuiteRows
  <2>2. \A s \in suites : s.id # n.id /\ s.parent # n.id
    BY <1>4, <1>5 DEF SuiteRows
  <2>3. n.id \notin IdsOf(suites) /\ n.parent # n.id
    BY <1>4, <1>5, <2>2 DEF IdsOf
  <2>4. S!Ids' = S!Ids \union {n.id} /\ S!Ids = IdsOf(suites) /\ S!Ids' = IdsOf(suites')
    BY <1>7 DEF S!Ids, IdsOf
  <2>5. SuiteRowsHold'
    <3>1. \A s, t \in suites' : s.id = t.id => s = t
      BY <1>7, <2>2 DEF SuitesInd, SuiteRowsHold
    <3>2. live' \subseteq S!Ids' /\ created' \in 0 .. MaxSuites
      BY <1>3, <1>5, <1>7, <2>4 DEF SuitesInd, SuiteRowsHold
    <3> QED
      BY <1>3, <2>1, <3>1, <3>2 DEF SuitesInd, SuiteRowsHold
  <2>6. S!NoOrphans'
    BY <1>4, <1>7, <2>4 DEF SuitesInd, S!NoOrphans
  <2>7. /\ \A id \in IdsOf(suites) : Below(suites', id) \subseteq Below(suites, id) \union {n.id}
        /\ Below(suites', n.id) \subseteq {n.id}
    BY <1>7, <2>2, <2>3, BelowGrows
  <2>8. S!MovesKeepTree'
    <3> SUFFICES ASSUME ~overlapped, NEW s \in suites' PROVE s.parent \notin Below(suites', s.id)
      BY <1>3, SubtreeIsBelowNext DEF S!MovesKeepTree
    <3>1. CASE s \in suites
      <4>1. s.parent \notin Below(suites, s.id)
        BY <3>1, SubtreeIsBelow DEF SuitesInd, S!MovesKeepTree
      <4>2. s.id \in IdsOf(suites) /\ s.parent # n.id
        BY <2>2, <3>1 DEF IdsOf
      <4> QED
        BY <2>7, <4>1, <4>2
    <3>2. CASE s = n
      BY <2>3, <2>7, <3>2
    <3> QED
      BY <1>7, <3>1, <3>2
  <2>9. S!SiblingsDiffer'
    <3>1. serial /\ moves = 0 => \A s \in suites : s.parent = n.parent => s.name # n.name
      BY <1>1, <1>3, <1>4 DEF SuitesInd, OneWrites, NameHolds, S!Siblings
    <3> QED
      BY <1>3, <1>7, <3>1 DEF SuitesInd, S!SiblingsDiffer
  <2>10. ASSUME NEW q, WriteHolds(q), MoveHolds(q) PROVE MoveHolds(q)'
    <3>1. CASE q.op = "update" /\ {q.id, q.parent} \subseteq S!Ids' /\ q.parent # S!Root
      <4>1. q.id # n.id /\ q.parent # n.id
        BY <1>4, <1>5, <2>10, <3>1 DEF WriteHolds
      <4>2. {q.id, q.parent} \subseteq S!Ids
        BY <2>4, <3>1, <4>1
      <4>3. q.parent \in Below(suites', q.id) => q.parent \in Below(suites, q.id)
        BY <2>4, <2>7, <4>1, <4>2
      <4> QED
        BY <1>3, <2>10, <4>2, <4>3, MoveStaysBelow
    <3>2. CASE ~(q.op = "update" /\ {q.id, q.parent} \subseteq S!Ids' /\ q.parent # S!Root)
      BY <3>2 DEF MoveHolds
    <3> QED
      BY <3>1, <3>2
  <2>11. moving[w].op # "none" /\ S!Ends(w) /\ serial' = serial /\ created <= created' /\ moves <= moves'
         /\ overlapped' = overlapped
    BY <1>1, <1>3, <1>5, <1>7 DEF SuitesInd, SuiteRowsHold
  <2>12. WritesHold' /\ MovesHold' /\ OneWrites'
    BY <2>5, <2>10, <2>11, RequestEnds
  <2> QED
    BY <2>5, <2>6, <2>8, <2>9, <2>12 DEF SuitesInd
<1> QED
  BY <1>3, <1>6, <1>7

\* A commit that moves no suite.
LEMMA ShapeStays ==
  ASSUME SuitesInd, NEW w \in Workers, moving[w].op # "none", S!Ends(w),
         UNCHANGED <<serial, created, requests, moves, overlapped>>, live' \subseteq live,
         suites' \subseteq SuiteRows, SameShape(suites, suites'),
         \A r, s \in suites' : r.id = s.id => r = s,
         serial /\ moves = 0 => \A r, s \in suites' : r.parent = s.parent /\ r.name = s.name => r = s
  PROVE  SuitesInd'
<1>1. IdsOf(suites') = IdsOf(suites) /\ \A id : Below(suites', id) = Below(suites, id)
  BY ShapeKeepsBelow
<1>2. S!Ids' = S!Ids
  BY <1>1 DEF S!Ids, IdsOf
<1>3. SuiteRowsHold'
  BY <1>2 DEF SuitesInd, SuiteRowsHold, SuiteRows
<1>4. S!NoOrphans'
  BY <1>2 DEF SuitesInd, S!NoOrphans, SameShape
<1>5. S!SiblingsDiffer'
  BY DEF S!SiblingsDiffer
<1>6. S!MovesKeepTree'
  BY <1>1, SubtreeIsBelow, SubtreeIsBelowNext DEF SuitesInd, S!MovesKeepTree, SameShape
<1>7. \A q : WriteHolds(q) /\ MoveHolds(q) => MoveHolds(q)'
  BY <1>1, <1>2, MoveStaysBelow
<1>8. created <= created' /\ moves <= moves'
  BY CatalogBounds DEF SuitesInd, SuiteRowsHold
<1>9. WritesHold' /\ MovesHold' /\ OneWrites'
  BY <1>3, <1>7, <1>8, RequestEnds
<1> QED
  BY <1>3, <1>4, <1>5, <1>6, <1>9 DEF SuitesInd

\* The siblings are reordered, if they are still there.
LEMMA SuiteReorderCommits ==
  ASSUME SuitesInd, NEW w \in Workers, S!CommitReorder(w)
  PROVE  SuitesInd'
<1>1. PICK order : order = moving[w].order
  OBVIOUS
<1>2. PICK f : f = [r \in suites |->
                      IF r.id \in S!Range(order)
                      THEN [r EXCEPT !.order = S!Max({i \in DOMAIN order : order[i] = r.id})]
                      ELSE r]
  OBVIOUS
<1>3. /\ moving[w].op = "reorder" /\ S!Ends(w)
      /\ UNCHANGED <<serial, live, created, requests, moves, overlapped>>
      /\ suites' = suites \/ suites' = {f[r] : r \in suites}
  <2>1. {f[r] : r \in suites} =
          {IF r.id \in S!Range(order)
           THEN [r EXCEPT !.order = S!Max({i \in DOMAIN order : order[i] = r.id})] ELSE r : r \in suites}
    BY <1>2
  <2>2. PICK new : new = {f[r] : r \in suites}
    OBVIOUS
  <2>3. suites' = IF S!Range(order) \subseteq S!Ids THEN new ELSE suites
    BY <1>1, <2>1, <2>2 DEF S!CommitReorder
  <2>4. /\ moving[w].op = "reorder" /\ S!Ends(w)
        /\ UNCHANGED <<serial, live, created, requests, moves, overlapped>>
    BY DEF S!CommitReorder, S!Does
  <2> QED
    BY <2>2, <2>3, <2>4
<1>4. order \in Orders
  BY <1>1, <1>3 DEF SuitesInd, WritesHold, WriteHolds
<1>5. ASSUME NEW r \in suites
      PROVE  f[r] \in SuiteRows /\ f[r].id = r.id /\ f[r].parent = r.parent /\ f[r].name = r.name
  <2>1. r \in SuiteRows
    BY DEF SuitesInd, SuiteRowsHold
  <2>2. CASE r.id \in S!Range(order)
    <3>1. PICK i : i = S!Max({j \in DOMAIN order : order[j] = r.id})
      OBVIOUS
    <3>2. i \in 1 .. MaxSuites
      BY <1>4, <2>2, <3>1, PlaceFound
    <3>3. f[r] = [r EXCEPT !.order = i]
      BY <1>2, <2>2, <3>1
    <3>4. i \in 0 .. MaxSuites
      BY <3>2, CatalogBounds
    <3> QED
      BY <2>1, <3>3, <3>4 DEF SuiteRows
  <2>3. CASE r.id \notin S!Range(order)
    BY <1>2, <2>1, <2>3
  <2> QED
    BY <2>2, <2>3
<1>6. CASE suites' = suites
  BY <1>3, <1>6, ShapeStays DEF SuitesInd, SuiteRowsHold, SameShape, S!SiblingsDiffer
<1>7. CASE suites' = {f[r] : r \in suites}
  <2>1. suites' \subseteq SuiteRows /\ SameShape(suites, suites')
    BY <1>5, <1>7 DEF SameShape
  <2>2. \A r, s \in suites' : r.id = s.id => r = s
    BY <1>5, <1>7 DEF SuitesInd, SuiteRowsHold
  <2>3. serial /\ moves = 0 => \A r, s \in suites' : r.parent = s.parent /\ r.name = s.name => r = s
    BY <1>5, <1>7 DEF SuitesInd, S!SiblingsDiffer
  <2>4. moving[w].op # "none" /\ live' \subseteq live
    BY <1>3
  <2> QED
    BY <1>3, <2>1, <2>2, <2>3, <2>4, ShapeStays
<1> QED
  BY <1>3, <1>6, <1>7

\* The cases are archived.
LEMMA SuiteArchiveCommits ==
  ASSUME SuitesInd, NEW w \in Workers, S!CommitArchive(w)
  PROVE  SuitesInd'
<1>1. /\ moving[w].op = "archive" /\ S!Ends(w) /\ live' \subseteq live
      /\ UNCHANGED <<serial, suites, created, requests, moves, overlapped>>
  BY DEF S!CommitArchive, S!Does
<1> QED
  BY <1>1, ShapeStays DEF SuitesInd, SuiteRowsHold, SameShape, S!SiblingsDiffer

\* A suite has a case.
LEMMA CaseAdded ==
  ASSUME SuitesInd, NEW id \in S!Ids, S!AddCase(id)
  PROVE  SuitesInd'
<1>1. live' = live \union {id} /\ UNCHANGED <<serial, suites, created, moving, requests, moves, overlapped>>
  BY DEF S!AddCase
<1>2. S!Ids' = S!Ids /\ \A i : S!Subtree(i)' = S!Subtree(i)
  BY <1>1, SubtreeIsBelow, SubtreeIsBelowNext DEF S!Ids
<1>3. SuiteRowsHold' /\ WritesHold' /\ S!NoOrphans' /\ S!SiblingsDiffer'
  BY <1>1, <1>2 DEF SuitesInd, SuiteRowsHold, SuiteRows, WritesHold, WriteHolds, S!NoOrphans, S!SiblingsDiffer
<1>4. MovesHold' /\ S!MovesKeepTree'
  BY <1>1, <1>2 DEF SuitesInd, MovesHold, MoveHolds, S!MovesKeepTree
<1>5. OneWrites'
  BY <1>1 DEF SuitesInd, OneWrites, NameHolds, S!Siblings
<1> QED
  BY <1>3, <1>4, <1>5 DEF SuitesInd

\* The suites are deleted, with what is below them by now.
LEMMA SuiteDeleteCommits ==
  ASSUME SuitesInd, NEW w \in Workers, S!CommitDelete(w)
  PROVE  SuitesInd'
<1>1. PICK gone : gone = UNION {S!Subtree(id) : id \in moving[w].ids \intersect S!Ids}
  OBVIOUS
<1>2. /\ moving[w].op = "delete" /\ S!Ends(w) /\ UNCHANGED <<serial, created, requests, moves, overlapped>>
      /\ suites' = {r \in suites : r.id \notin gone} /\ live' = live \ gone
  BY <1>1 DEF S!CommitDelete, S!Does
<1>3. \A r \in suites : r.parent \in gone => r.id \in gone
  <2> SUFFICES ASSUME NEW r \in suites, r.parent \in gone PROVE r.id \in gone
    OBVIOUS
  <2>1. PICK id \in moving[w].ids \intersect S!Ids : r.parent \in Below(suites, id)
    BY <1>1, SubtreeIsBelow
  <2>2. r.id \in Below(suites, id)
    BY <2>1, BelowClosed DEF Closed
  <2> QED
    BY <1>1, <2>1, <2>2, SubtreeIsBelow
<1>4. S!Ids' = S!Ids \ gone /\ S!Ids' = IdsOf(suites') /\ suites' \subseteq suites
  BY <1>2 DEF S!Ids, IdsOf
<1>5. \A id \in S!Ids' : Below(suites', id) \subseteq Below(suites, id)
  BY <1>4, BelowShrinks
<1>6. SuiteRowsHold'
  BY <1>2, <1>4 DEF SuitesInd, SuiteRowsHold, SuiteRows
<1>7. S!NoOrphans' /\ S!SiblingsDiffer'
  <2>1. S!NoOrphans'
    BY <1>2, <1>3, <1>4 DEF SuitesInd, S!NoOrphans
  <2>2. S!SiblingsDiffer'
    BY <1>2 DEF SuitesInd, S!SiblingsDiffer
  <2> QED
    BY <2>1, <2>2
<1>8. S!MovesKeepTree'
  <2> SUFFICES ASSUME ~overlapped, NEW r \in suites' PROVE r.parent \notin Below(suites', r.id)
    BY <1>2, SubtreeIsBelowNext DEF S!MovesKeepTree
  <2>1. r.parent \notin Below(suites, r.id)
    BY <1>2, SubtreeIsBelow DEF SuitesInd, S!MovesKeepTree
  <2>2. r.id \in S!Ids'
    BY <1>4 DEF IdsOf
  <2> QED
    BY <1>5, <2>1, <2>2
<1>9. \A q : WriteHolds(q) /\ MoveHolds(q) => MoveHolds(q)'
  <2> SUFFICES ASSUME NEW q, WriteHolds(q), MoveHolds(q) PROVE MoveHolds(q)'
    OBVIOUS
  <2>1. q.op = "update" /\ {q.id, q.parent} \subseteq S!Ids' /\ q.parent # S!Root =>
          /\ {q.id, q.parent} \subseteq S!Ids
          /\ q.parent \in Below(suites', q.id) => q.parent \in Below(suites, q.id)
    BY <1>4, <1>5
  <2> QED
    BY <1>2, <2>1, MoveStaysBelow
<1>10. moving[w].op # "none" /\ serial' = serial /\ created <= created' /\ moves <= moves'
       /\ overlapped' = overlapped
  BY <1>2, CatalogBounds DEF SuitesInd, SuiteRowsHold
<1>11. WritesHold' /\ MovesHold' /\ OneWrites'
  BY <1>2, <1>6, <1>9, <1>10, RequestEnds
<1> QED
  BY <1>6, <1>7, <1>8, <1>11 DEF SuitesInd

\* The suite is renamed or moved, if it and its new parent are still there.
LEMMA SuiteUpdateCommits ==
  ASSUME SuitesInd, NEW w \in Workers, S!CommitUpdate(w)
  PROVE  SuitesInd'
<1>1. PICK r : r = moving[w]
  OBVIOUS
<1>2. PICK s : s = S!Suite(r.id)
  OBVIOUS
<1>3. PICK t : t = [s EXCEPT !.parent = IF r.parent = S!Root THEN @ ELSE r.parent,
                             !.name = IF r.name = "none" THEN @ ELSE r.name]
  OBVIOUS
<1>4. PICK kept : kept = (r.id \in S!Ids /\ (r.parent = S!Root \/ r.parent \in S!Ids))
  OBVIOUS
<1>5. /\ r.op = "update" /\ S!Ends(w) /\ UNCHANGED <<serial, live, created, requests>>
      /\ suites' = IF kept THEN (suites \ {s}) \union {t} ELSE suites
      /\ IF kept /\ r.parent # S!Root
         THEN moves' = moves + 1 /\ overlapped' = (overlapped \/ moves # r.at)
         ELSE UNCHANGED <<moves, overlapped>>
  BY <1>1, <1>2, <1>3, <1>4 DEF S!CommitUpdate, S!Does
<1>6. WriteHolds(r) /\ moving[w].op # "none"
  BY <1>1, <1>5 DEF SuitesInd, WritesHold
<1>7. CASE ~kept
  <2>1. suites' = suites /\ moves' = moves /\ overlapped' = overlapped
    BY <1>5, <1>7
  <2> QED
    BY <1>5, <1>6, <2>1, ShapeStays DEF SuitesInd, SuiteRowsHold, SameShape, S!SiblingsDiffer
<1>8. CASE kept
  <2>1. s \in suites /\ s.id = r.id /\ \A u \in suites : u.id = r.id => u = s
    BY <1>2, <1>4, <1>8, SuiteIsThere DEF SuitesInd
  <2>2. /\ t \in SuiteRows /\ t.id = s.id
        /\ t.parent = IF r.parent = S!Root THEN s.parent ELSE r.parent
        /\ t.name = IF r.name = "none" THEN s.name ELSE r.name
    <3>1. s \in SuiteRows /\ r.parent \in 0 .. created /\ (r.name = "none" \/ r.name \in Names)
      BY <1>5, <1>6, <2>1 DEF SuitesInd, SuiteRowsHold, WriteHolds
    <3> QED
      BY <1>3, <3>1 DEF SuiteRows
  <2>3. suites' = (suites \ {s}) \union {t} /\ suites' \subseteq SuiteRows
    BY <1>5, <1>8, <2>2 DEF SuitesInd, SuiteRowsHold
  <2>4. \A u, v \in suites' : u.id = v.id => u = v
    BY <2>1, <2>2, <2>3 DEF SuitesInd, SuiteRowsHold
  <2>5. CASE r.parent = S!Root
    <3>1. UNCHANGED <<moves, overlapped>> /\ t.parent = s.parent
      BY <1>5, <2>2, <2>5
    <3>2. SameShape(suites, suites')
      BY <2>1, <2>2, <2>3, <3>1 DEF SameShape
    <3>3. serial /\ moves = 0 => \A u \in suites \ {s} : u.parent = t.parent => u.name # t.name
      <4> SUFFICES ASSUME serial, moves = 0, NEW u \in suites \ {s}, u.parent = t.parent PROVE u.name # t.name
        OBVIOUS
      <4>1. CASE r.name = "none"
        BY <2>1, <2>2, <3>1, <4>1 DEF SuitesInd, S!SiblingsDiffer
      <4>2. CASE r.name # "none"
        BY <1>1, <1>5, <2>1, <2>2, <2>5, <3>1, <4>2 DEF SuitesInd, OneWrites, NameHolds
      <4> QED
        BY <4>1, <4>2
    <3>4. serial /\ moves = 0 => \A u, v \in suites' : u.parent = v.parent /\ u.name = v.name => u = v
      BY <2>3, <3>3 DEF SuitesInd, S!SiblingsDiffer
    <3>5. live' \subseteq live
      BY <1>5
    <3> QED
      BY <1>5, <1>6, <2>3, <2>4, <3>1, <3>2, <3>4, <3>5, ShapeStays
  <2>6. CASE r.parent # S!Root
    <3>1. t.parent = r.parent /\ moves' = moves + 1 /\ overlapped' = (overlapped \/ moves # r.at)
      BY <1>5, <1>8, <2>2, <2>6
    <3>2. IdsOf(suites') = IdsOf(suites) /\ S!Ids = IdsOf(suites) /\ S!Ids' = IdsOf(suites')
      BY <2>1, <2>2, <2>3 DEF IdsOf, S!Ids
    <3>3. r.id \in S!Ids /\ r.parent \in S!Ids
      BY <1>4, <1>8, <2>6
    <3>4. moves \in Nat /\ overlapped \in BOOLEAN
      BY DEF SuitesInd, SuiteRowsHold
    <3>5. SuiteRowsHold'
      <4>1. suites' \subseteq SuiteRows' /\ live' \subseteq S!Ids'
        BY <1>5, <2>3, <3>2 DEF SuitesInd, SuiteRowsHold, SuiteRows
      <4>2. moves' \in Nat /\ overlapped' \in BOOLEAN
        BY <3>1, <3>4
      <4> QED
        BY <1>5, <2>4, <4>1, <4>2 DEF SuitesInd, SuiteRowsHold
    <3>6. S!NoOrphans'
      BY <2>2, <2>3, <3>1, <3>2, <3>3 DEF SuitesInd, S!NoOrphans
    <3>7. S!SiblingsDiffer'
      BY <3>1, <3>4 DEF S!SiblingsDiffer
    <3>8. ASSUME ~overlapped' PROVE Tree(suites')
      <4>1. ~overlapped /\ r.at = moves
        BY <3>1, <3>8
      <4>2. MoveHolds(r) /\ Tree(suites)
        BY <1>1, <4>1, SubtreeIsBelow DEF SuitesInd, MovesHold, S!MovesKeepTree, Tree
      <4>3. r.parent \notin Below(suites, r.id)
        BY <1>5, <2>6, <3>3, <4>1, <4>2, SubtreeIsBelow DEF MoveHolds
      <4>4. \A u \in suites' : \/ u.id = r.id /\ u.parent = r.parent
                               \/ u.id # r.id /\ \E v \in suites : v.id = u.id /\ v.parent = u.parent
        BY <2>1, <2>2, <2>3, <3>1
      <4> QED
        BY <3>2, <3>3, <4>2, <4>3, <4>4, MoveKeepsTree
    <3>9. S!MovesKeepTree'
      BY <3>8, SubtreeIsBelowNext DEF S!MovesKeepTree, Tree
    <3>10. /\ created <= created' /\ moves <= moves' /\ moves' # moves
           /\ overlapped => overlapped'
      BY <1>5, <3>1, <3>4, CatalogBounds DEF SuitesInd, SuiteRowsHold
    <3>11. WritesHold' /\ MovesHold' /\ OneWrites'
      BY <1>5, <1>6, <3>5, <3>10, RequestEnds
    <3> QED
      BY <3>5, <3>6, <3>7, <3>9, <3>11 DEF SuitesInd
  <2> QED
    BY <2>5, <2>6
<1> QED
  BY <1>7, <1>8

\* The invariant holds at the start.
LEMMA SuitesStart == Init => SuitesInd
<1> SUFFICES ASSUME Init PROVE SuitesInd
  OBVIOUS
<1>1. S!Init
  BY DEF Init
<1>2. PICK n \in Names, m \in Names : suites = {S!Row(1, S!Root, n, 1), S!Row(2, 1, m, 1)}
  BY <1>1 DEF S!Init
<1>3. PICK a : a = [id |-> 1, parent |-> 0, name |-> n, order |-> 1]
  OBVIOUS
<1>4. PICK b : b = [id |-> 2, parent |-> 1, name |-> m, order |-> 1]
  OBVIOUS
<1>5. /\ suites = {a, b} /\ a.id = 1 /\ b.id = 2 /\ a.parent = 0 /\ b.parent = 1
      /\ a.name = n /\ b.name = m
  BY <1>2, <1>3, <1>4 DEF S!Row, S!Root
<1>6. /\ serial \in BOOLEAN /\ live = {2} /\ created = 2 /\ moving = [w \in Workers |-> S!Idle]
      /\ requests = 0 /\ moves = 0 /\ overlapped = FALSE
  BY <1>1 DEF S!Init
<1>7. S!Ids = {1, 2} /\ IdsOf(suites) = {1, 2}
  BY <1>5 DEF S!Ids, IdsOf
<1>8. SuiteRowsHold
  <2>1. suites \subseteq SuiteRows
    BY <1>3, <1>4, <1>5, <1>6, CatalogBounds DEF SuiteRows
  <2>2. created \in 0 .. MaxSuites /\ requests \in 0 .. SuiteRequests /\ moves \in Nat
    BY <1>6, CatalogBounds
  <2>3. \A r, s \in suites : r.id = s.id => r = s
    BY <1>5
  <2>4. live \subseteq S!Ids /\ overlapped \in BOOLEAN
    BY <1>6, <1>7
  <2> QED
    BY <2>1, <2>2, <2>3, <2>4 DEF SuiteRowsHold
<1>9. \A w \in Workers : moving[w] = S!Idle /\ moving[w].op = "none"
  BY <1>6 DEF S!Idle
<1>10. WritesHold /\ MovesHold /\ OneWrites
  BY <1>6, <1>9 DEF WritesHold, WriteHolds, SuiteOps, MovesHold, MoveHolds, OneWrites, NameHolds
<1>11. S!NoOrphans /\ S!SiblingsDiffer
  BY <1>5, <1>7 DEF S!NoOrphans, S!SiblingsDiffer, S!Root
<1>12. S!MovesKeepTree
  <2>1. Below(suites, 2) \subseteq {2}
    <3>1. Closed(suites, {2})
      BY <1>5 DEF Closed
    <3> QED
      BY <1>7, <3>1, BelowLeast
  <2>2. Below(suites, 1) \subseteq {1, 2}
    BY <1>7, BelowClosed
  <2> QED
    BY <1>5, <2>1, <2>2, SubtreeIsBelow DEF S!MovesKeepTree
<1> QED
  BY <1>8, <1>10, <1>11, <1>12 DEF SuitesInd

\* Every step of the machine keeps it.
LEMMA SuitesStep ==
  ASSUME SuitesInd, S!Next PROVE SuitesInd'
<1>1. ASSUME NEW w \in Workers, NEW p \in {S!Root} \union S!Ids, NEW n \in Names, S!BeginCreate(w, p, n)
      PROVE  SuitesInd'
  BY <1>1, SuiteCreateBegins
<1>2. ASSUME NEW w \in Workers, NEW id \in S!Ids, NEW p \in {S!Root} \union S!Ids, NEW n \in Names,
             S!BeginUpdate(w, id, p, n)
      PROVE  SuitesInd'
  BY <1>2, SuiteUpdateBegins
<1>3. ASSUME NEW w \in Workers, NEW id \in S!Ids, S!BeginDelete(w, id) PROVE SuitesInd'
  BY <1>3, SuiteDeleteBegins
<1>4. ASSUME NEW w \in Workers, NEW id \in S!Ids, S!BeginArchive(w, id) PROVE SuitesInd'
  BY <1>4, SuiteArchiveBegins
<1>5. ASSUME NEW w \in Workers, NEW p \in {S!Root} \union S!Ids,
             NEW ids \in S!SetToSeqs({r.id : r \in S!Siblings(p)}), S!BeginReorder(w, p, ids)
      PROVE  SuitesInd'
  BY <1>5, SuiteReorderBegins
<1>6. ASSUME NEW w \in Workers, S!CommitCreate(w) PROVE SuitesInd'
  BY <1>6, SuiteCreateCommits
<1>7. ASSUME NEW w \in Workers, S!CommitUpdate(w) PROVE SuitesInd'
  BY <1>7, SuiteUpdateCommits
<1>8. ASSUME NEW w \in Workers, S!CommitDelete(w) PROVE SuitesInd'
  BY <1>8, SuiteDeleteCommits
<1>9. ASSUME NEW w \in Workers, S!CommitReorder(w) PROVE SuitesInd'
  BY <1>9, SuiteReorderCommits
<1>10. ASSUME NEW w \in Workers, S!CommitArchive(w) PROVE SuitesInd'
  BY <1>10, SuiteArchiveCommits
<1>11. ASSUME NEW id \in S!Ids, S!AddCase(id) PROVE SuitesInd'
  BY <1>11, CaseAdded
<1> QED
  BY <1>1, <1>2, <1>3, <1>4, <1>5, <1>6, <1>7, <1>8, <1>9, <1>10, <1>11 DEF S!Next

\* So does a step that leaves suites alone.
LEMMA SuitesStay ==
  ASSUME SuitesInd, UNCHANGED <<serial, requests, suiteVars>> PROVE SuitesInd'
<1>1. UNCHANGED <<serial, requests, suites, live, created, moving, moves, overlapped>>
  BY DEF suiteVars
<1>2. S!Ids' = S!Ids /\ \A i : S!Subtree(i)' = S!Subtree(i)
  BY <1>1, SubtreeIsBelow, SubtreeIsBelowNext DEF S!Ids
<1>3. SuiteRowsHold' /\ WritesHold' /\ S!NoOrphans' /\ S!SiblingsDiffer'
  BY <1>1, <1>2 DEF SuitesInd, SuiteRowsHold, SuiteRows, WritesHold, WriteHolds, S!NoOrphans, S!SiblingsDiffer
<1>4. MovesHold' /\ S!MovesKeepTree'
  BY <1>1, <1>2 DEF SuitesInd, MovesHold, MoveHolds, S!MovesKeepTree
<1>5. OneWrites'
  BY <1>1 DEF SuitesInd, OneWrites, NameHolds, S!Siblings
<1> QED
  BY <1>3, <1>4, <1>5 DEF SuitesInd

\* It is what TreeHolds needs.
LEMMA SuitesHold == SuitesInd => S!TreeHolds
<1> SUFFICES ASSUME SuitesInd PROVE S!TypeOK
  BY DEF SuitesInd, S!TreeHolds
<1>1. created \in 0 .. MaxSuites /\ MaxSuites \in Nat
  BY CatalogBounds DEF SuitesInd, SuiteRowsHold
<1>2. 1 .. created \subseteq 1 .. MaxSuites /\ 0 .. created \subseteq 0 .. MaxSuites
  BY <1>1
<1> QED
  BY <1>1, <1>2 DEF SuitesInd, SuiteRowsHold, SuiteRows, S!TypeOK

-----------------------------------------------------------------------------
(* Why SuitesAndCasesHold is kept, for cases.                               *)

CaseSteps == [order : 1 .. MaxSteps + 1, action : Texts]
CaseRows ==
  [id : 1 .. made, suite : C!Suites, name : Names \X (0 .. MaxCases), text : Texts,
   steps : Seq(CaseSteps), archived : BOOLEAN]
Snapshots ==
  [name : Names \X (0 .. MaxCases), text : Texts, steps : SUBSET ((1 .. MaxSteps + 1) \X Texts \X Nat)]

CaseRowsHold ==
  /\ made \in 0 .. MaxCases
  /\ cases \subseteq CaseRows /\ \A c \in cases : Len(c.steps) <= MaxSteps
  /\ \A c, d \in cases : c.id = d.id => c = d
  /\ revisions \in [C!Ids -> Seq(Snapshots) \ {<<>>}]
  /\ plan \subseteq C!Ids /\ untold \subseteq C!Ids /\ unscoped \subseteq plan

CasesInd == CaseRowsHold /\ C!RevisionsTell /\ C!RevisionsDiffer /\ C!PlanStaysHome

\* The library and the model of cases count alike.
LEMMA SameSizeOfSteps == \A set : C!Cardinality(set) = Cardinality(set)
  BY DEF Cardinality, C!Cardinality

\* What a snapshot is.
LEMMA SnapshotTyped ==
  ASSUME NEW c, c.steps \in Seq(CaseSteps), c.name \in Names \X (0 .. MaxCases), c.text \in Texts
  PROVE  C!Snapshot(c) \in Snapshots
<1>1. PICK steps : steps = c.steps
  OBVIOUS
<1>2. steps \in Seq(CaseSteps) /\ c.name \in Names \X (0 .. MaxCases) /\ c.text \in Texts
  BY <1>1
<1>3. ASSUME NEW s \in C!Range(steps)
      PROVE  <<s.order, s.action, C!Cardinality({j \in DOMAIN steps : steps[j] = s})>>
               \in (1 .. MaxSteps + 1) \X Texts \X Nat
  <2>1. s \in CaseSteps
    BY <1>2, <1>3 DEF C!Range
  <2>2. PICK set : set = {j \in DOMAIN steps : steps[j] = s}
    OBVIOUS
  <2>3. Len(steps) \in Nat /\ set \subseteq 1 .. Len(steps)
    BY <1>2, <2>2
  <2>4. IsFiniteSet(1 .. Len(steps))
    BY <2>3, FS_Interval
  <2>5. IsFiniteSet(set)
    BY <2>3, <2>4, FS_Subset
  <2>6. Cardinality(set) \in Nat
    BY <2>5, FS_CardinalityType
  <2>7. C!Cardinality(set) \in Nat
    BY <2>6, SameSizeOfSteps
  <2> QED
    BY <2>1, <2>2, <2>7 DEF CaseSteps
<1>4. C!Sorted(steps) \subseteq (1 .. MaxSteps + 1) \X Texts \X Nat
  BY <1>3 DEF C!Sorted
<1> QED
  BY <1>1, <1>2, <1>4 DEF C!Snapshot, Snapshots

\* The snapshot of a case.
LEMMA SnapshotNextTyped ==
  ASSUME NEW c, c \in CaseRows \/ c \in CaseRows'
  PROVE  C!Snapshot(c) \in Snapshots
<1>1. c.steps \in Seq(CaseSteps) /\ c.name \in Names \X (0 .. MaxCases) /\ c.text \in Texts
  BY DEF CaseRows
<1> QED
  BY <1>1, SnapshotTyped

\* No revision repeats the one before it.
Differ(stored) == \A i \in 2 .. Len(stored) : stored[i] # stored[i - 1]

\* write_revision leaves the snapshot last, and repeats none.
LEMMA RevisionWritten ==
  ASSUME NEW stored \in Seq(Snapshots), Differ(stored), NEW snapshot \in Snapshots
  PROVE  /\ C!write_revision(stored, snapshot) \in Seq(Snapshots) \ {<<>>}
         /\ C!Last(C!write_revision(stored, snapshot)) = snapshot
         /\ Differ(C!write_revision(stored, snapshot))
<1>1. CASE stored # <<>> /\ C!Last(stored) = snapshot
  BY <1>1 DEF C!write_revision
<1>2. CASE ~(stored # <<>> /\ C!Last(stored) = snapshot)
  <2>1. PICK new : new = Append(stored, snapshot)
    OBVIOUS
  <2>2. C!write_revision(stored, snapshot) = new
    BY <1>2, <2>1 DEF C!write_revision
  <2>3. /\ new \in Seq(Snapshots) /\ Len(new) = Len(stored) + 1 /\ Len(stored) \in Nat
        /\ new[Len(new)] = snapshot /\ \A i \in 1 .. Len(stored) : new[i] = stored[i]
    BY <2>1
  <2>4. new # <<>> /\ C!Last(new) = snapshot
    BY <2>3 DEF C!Last
  <2>5. ASSUME NEW i \in 2 .. Len(new) PROVE new[i] # new[i - 1]
    <3>1. CASE i \in 2 .. Len(stored)
      BY <2>3, <3>1 DEF Differ
    <3>2. CASE i = Len(new)
      <4>1. stored # <<>> /\ i - 1 = Len(stored) /\ Len(stored) \in 1 .. Len(stored)
        BY <2>3, <2>5, <3>2
      <4>2. new[i - 1] = C!Last(stored)
        BY <2>3, <4>1 DEF C!Last
      <4> QED
        BY <1>2, <2>3, <3>2, <4>1, <4>2
    <3> QED
      BY <2>3, <3>1, <3>2
  <2> QED
    BY <2>2, <2>3, <2>4, <2>5 DEF Differ
<1> QED
  BY <1>1, <1>2

\* An id names one case.
LEMMA CaseIsThere ==
  ASSUME CaseRowsHold, NEW c \in cases
  PROVE  C!Case(c.id) = c /\ c.id \in C!Ids /\ c \in CaseRows
  BY DEF C!Case, CaseRowsHold, C!Ids

\* What is stored of a case.
LEMMA StoredRevisions ==
  ASSUME CasesInd, NEW id \in C!Ids
  PROVE  revisions[id] \in Seq(Snapshots) \ {<<>>} /\ Differ(revisions[id])
<1>1. PICK c \in cases : c.id = id
  BY DEF C!Ids
<1> QED
  BY <1>1 DEF CasesInd, CaseRowsHold, C!RevisionsDiffer, Differ

\* Case d is what a handler may make of case c.
CaseEdited(c, d) ==
  /\ d \in CaseRows /\ Len(d.steps) <= MaxSteps
  /\ d.id = c.id

\* A handler edits a case and writes its revision.
LEMMA CaseEditHolds ==
  ASSUME CasesInd, NEW c \in cases, NEW d, CaseEdited(c, d), C!Edit(d)
  PROVE  CasesInd'
<1>1. /\ C!Case(d.id) = c /\ c.id \in C!Ids /\ c.id = d.id /\ d \in CaseRows /\ Len(d.steps) <= MaxSteps
  BY CaseIsThere DEF CasesInd, CaseEdited
<1>2. PICK new : new = C!write_revision(revisions[d.id], C!Snapshot(d))
  OBVIOUS
<1>3. /\ cases' = (cases \ {c}) \union {d}
      /\ revisions' = [revisions EXCEPT ![d.id] = new]
      /\ untold' = untold \ {d.id}
      /\ unscoped' = IF d.suite = c.suite THEN unscoped ELSE unscoped \union ({d.id} \intersect plan)
      /\ UNCHANGED <<plan, made>>
  BY <1>1, <1>2 DEF C!Edit
<1>4. /\ new \in Seq(Snapshots) \ {<<>>} /\ C!Last(new) = C!Snapshot(d) /\ Differ(new)
  <2>1. revisions[d.id] \in Seq(Snapshots) /\ Differ(revisions[d.id])
    BY <1>1, StoredRevisions
  <2>2. C!Snapshot(d) \in Snapshots
    BY <1>1, SnapshotNextTyped
  <2> QED
    BY <1>2, <2>1, <2>2, RevisionWritten
<1>5. C!Ids' = C!Ids
  BY <1>1, <1>3 DEF C!Ids
<1>6. /\ revisions' \in [C!Ids -> Seq(Snapshots) \ {<<>>}] /\ revisions'[d.id] = new
      /\ \A id \in C!Ids \ {d.id} : revisions'[id] = revisions[id]
  BY <1>1, <1>3, <1>4 DEF CasesInd, CaseRowsHold
<1>7. \A e \in cases' : e = d \/ (e \in cases /\ e.id # d.id /\ e.id \in C!Ids)
  BY <1>1, <1>3 DEF CasesInd, CaseRowsHold, C!Ids
<1>8. CaseRowsHold'
  <2>1. cases' \subseteq CaseRows' /\ (\A e \in cases' : Len(e.steps) <= MaxSteps)
    BY <1>1, <1>3 DEF CasesInd, CaseRowsHold, CaseRows
  <2>2. \A e, f \in cases' : e.id = f.id => e = f
    BY <1>7 DEF CasesInd, CaseRowsHold
  <2>3. plan' \subseteq C!Ids' /\ untold' \subseteq C!Ids' /\ unscoped' \subseteq plan' /\ made' \in 0 .. MaxCases
    BY <1>3, <1>5 DEF CasesInd, CaseRowsHold
  <2> QED
    BY <1>5, <1>6, <2>1, <2>2, <2>3 DEF CaseRowsHold
<1>9. C!RevisionsTell'
  <2> SUFFICES ASSUME NEW e \in cases', e.id \notin untold'
               PROVE  C!Last(revisions'[e.id]) = C!Snapshot(e)
    BY DEF C!RevisionsTell
  <2>1. CASE e = d
    BY <1>4, <1>6, <2>1
  <2>2. CASE e \in cases /\ e.id # d.id /\ e.id \in C!Ids
    BY <1>3, <1>6, <2>2 DEF CasesInd, C!RevisionsTell
  <2> QED
    BY <1>7, <2>1, <2>2
<1>10. C!RevisionsDiffer'
  <2> SUFFICES ASSUME NEW e \in cases' PROVE Differ(revisions'[e.id])
    BY DEF C!RevisionsDiffer, Differ
  <2>1. CASE e = d
    BY <1>4, <1>6, <2>1
  <2>2. CASE e \in cases /\ e.id # d.id /\ e.id \in C!Ids
    BY <1>6, <2>2, StoredRevisions
  <2> QED
    BY <1>7, <2>1, <2>2
<1>11. C!PlanStaysHome'
  <2> SUFFICES ASSUME NEW e \in cases', e.id \in plan \ unscoped' PROVE e.suite = C!PlanProject
    BY <1>3 DEF C!PlanStaysHome
  <2>1. e.id \notin unscoped
    BY <1>3
  <2>2. CASE e = d
    <3>1. d.suite = c.suite
      BY <1>3, <2>2
    <3> QED
      BY <1>1, <2>1, <2>2, <3>1 DEF CasesInd, C!PlanStaysHome
  <2>3. CASE e \in cases
    BY <2>1, <2>3 DEF CasesInd, C!PlanStaysHome
  <2> QED
    BY <1>7, <2>2, <2>3
<1> QED
  BY <1>8, <1>9, <1>10, <1>11 DEF CasesInd

\* A case is new, with its first revision.
LEMMA CaseIsNew ==
  ASSUME CasesInd, made < MaxCases, NEW c, NEW snapshot, C!NewCase(c, snapshot),
         c.id = made + 1, c \in CaseRows', Len(c.steps) <= MaxSteps, snapshot \in Snapshots,
         UNCHANGED <<plan, unscoped>>,
         untold' = untold \/ untold' = untold \union {c.id},
         c.id \notin untold' => snapshot = C!Snapshot(c)
  PROVE  CasesInd'
<1>1. PICK new : new = C!write_revision(<<>>, snapshot)
  OBVIOUS
<1>2. /\ cases' = cases \union {c} /\ made' = made + 1
      /\ revisions' = [i \in C!Ids \union {c.id} |-> IF i = c.id THEN new ELSE revisions[i]]
  BY <1>1 DEF C!NewCase
<1>3. new \in Seq(Snapshots) \ {<<>>} /\ C!Last(new) = snapshot /\ Differ(new)
  <2>1. <<>> \in Seq(Snapshots) /\ Differ(<<>>)
    BY DEF Differ
  <2> QED
    BY <1>1, <2>1, RevisionWritten
<1>4. made \in 0 .. MaxCases /\ MaxCases \in Nat /\ cases \subseteq CaseRows
  BY CatalogBounds DEF CasesInd, CaseRowsHold
<1>5. C!Ids' = C!Ids \union {c.id} /\ c.id \notin C!Ids
  BY <1>2, <1>4 DEF C!Ids, CaseRows
<1>6. /\ revisions' \in [C!Ids' -> Seq(Snapshots) \ {<<>>}] /\ revisions'[c.id] = new
      /\ \A id \in C!Ids : revisions'[id] = revisions[id]
  <2>1. \A id \in C!Ids : revisions[id] \in Seq(Snapshots) \ {<<>>}
    BY DEF CasesInd, CaseRowsHold
  <2> QED
    BY <1>2, <1>3, <1>5, <2>1
<1>7. \A e \in cases' : e = c \/ (e \in cases /\ e.id \in C!Ids)
  BY <1>2 DEF C!Ids
<1>8. CaseRowsHold'
  <2>1. cases' \subseteq CaseRows' /\ (\A e \in cases' : Len(e.steps) <= MaxSteps)
    BY <1>2, <1>4 DEF CasesInd, CaseRowsHold, CaseRows
  <2>2. \A e, f \in cases' : e.id = f.id => e = f
    BY <1>5, <1>7 DEF CasesInd, CaseRowsHold
  <2>3. plan' \subseteq C!Ids' /\ untold' \subseteq C!Ids' /\ unscoped' \subseteq plan' /\ made' \in 0 .. MaxCases
    BY <1>2, <1>4, <1>5 DEF CasesInd, CaseRowsHold
  <2> QED
    BY <1>6, <2>1, <2>2, <2>3 DEF CaseRowsHold
<1>9. C!RevisionsTell'
  <2> SUFFICES ASSUME NEW e \in cases', e.id \notin untold'
               PROVE  C!Last(revisions'[e.id]) = C!Snapshot(e)
    BY DEF C!RevisionsTell
  <2>1. CASE e = c
    BY <1>3, <1>6, <2>1
  <2>2. CASE e \in cases /\ e.id \in C!Ids
    BY <1>6, <2>2 DEF CasesInd, C!RevisionsTell
  <2> QED
    BY <1>7, <2>1, <2>2
<1>10. C!RevisionsDiffer'
  <2> SUFFICES ASSUME NEW e \in cases' PROVE Differ(revisions'[e.id])
    BY DEF C!RevisionsDiffer, Differ
  <2>1. CASE e = c
    BY <1>3, <1>6, <2>1
  <2>2. CASE e \in cases /\ e.id \in C!Ids
    BY <1>6, <2>2, StoredRevisions
  <2> QED
    BY <1>7, <2>1, <2>2
<1>11. C!PlanStaysHome'
  BY <1>5, <1>7 DEF CasesInd, CaseRowsHold, C!PlanStaysHome
<1> QED
  BY <1>8, <1>9, <1>10, <1>11 DEF CasesInd

\* Numbers have a least.
LEMMA LeastFound ==
  ASSUME NEW set \in SUBSET Nat, set # {}
  PROVE  C!Min(set) \in set
<1>1. PICK n \in set : \A k \in set : <<k, n>> \notin OpToRel(<, Nat)
  BY WFMin, NatLessThanWellFounded, Zenon
<1>2. \A k \in set : ~(k < n)
  BY <1>1, Zenon DEF OpToRel
<1>3. \A k \in set : n <= k
  BY <1>2
<1> QED
  BY <1>3 DEF C!Min

\* Fewer cases than numbers leave a number free.
LEMMA NumberFree ==
  ASSUME CaseRowsHold, made < MaxCases, NEW base
  PROVE  \E n \in 1 .. MaxCases : \A d \in cases : d.name # <<base, n>>
<1> SUFFICES ASSUME \A n \in 1 .. MaxCases : \E d \in cases : d.name = <<base, n>> PROVE FALSE
  OBVIOUS
<1>1. PICK f : f = [n \in 1 .. MaxCases |-> (CHOOSE d \in cases : d.name = <<base, n>>).id]
  OBVIOUS
<1>2. \A n \in 1 .. MaxCases : \E d \in cases : d.name = <<base, n>> /\ f[n] = d.id
  BY <1>1
<1>3. made \in Nat /\ MaxCases \in Nat
  BY CatalogBounds DEF CaseRowsHold
<1>4. f \in [1 .. MaxCases -> 1 .. made]
  <2>1. \A n \in 1 .. MaxCases : f[n] \in 1 .. made
    BY <1>2 DEF CaseRowsHold, CaseRows
  <2> QED
    BY <1>1, <2>1
<1>5. /\ IsFiniteSet(1 .. MaxCases) /\ Cardinality(1 .. MaxCases) = MaxCases
      /\ IsFiniteSet(1 .. made) /\ Cardinality(1 .. made) = made
  <2>1. /\ IsFiniteSet(1 .. MaxCases)
        /\ Cardinality(1 .. MaxCases) = IF 1 > MaxCases THEN 0 ELSE MaxCases - 1 + 1
    BY <1>3, FS_Interval
  <2>2. /\ IsFiniteSet(1 .. made)
        /\ Cardinality(1 .. made) = IF 1 > made THEN 0 ELSE made - 1 + 1
    BY <1>3, FS_Interval
  <2> QED
    BY <1>3, <2>1, <2>2
<1>6. Cardinality(1 .. made) < Cardinality(1 .. MaxCases)
  BY <1>5
<1>7. PICK m \in 1 .. MaxCases, n \in 1 .. MaxCases : m # n /\ f[m] = f[n]
  BY <1>4, <1>5, <1>6, FS_PigeonHole
<1>8. PICK d \in cases : d.name = <<base, m>> /\ f[m] = d.id
  BY <1>2
<1>9. PICK e \in cases : e.name = <<base, n>> /\ f[n] = e.id
  BY <1>2
<1>10. d = e
  BY <1>7, <1>8, <1>9 DEF CaseRowsHold
<1> QED
  BY <1>7, <1>8, <1>9, <1>10

\* A copy gets a name.
LEMMA UniqueNameTyped ==
  ASSUME CaseRowsHold, made < MaxCases, NEW suite, NEW name \in Names \X (0 .. MaxCases)
  PROVE  C!UniqueName(suite, name) \in Names \X (0 .. MaxCases)
<1>1. CASE \A d \in C!InSuite(suite) : d.name # name
  BY <1>1 DEF C!UniqueName
<1>2. CASE ~(\A d \in C!InSuite(suite) : d.name # name)
  <2>1. PICK set : set = {n \in 1 .. MaxCases : \A d \in C!InSuite(suite) : d.name # <<name[1], n>>}
    OBVIOUS
  <2>2. PICK n \in 1 .. MaxCases : \A d \in cases : d.name # <<name[1], n>>
    BY NumberFree
  <2>3. n \in set
    BY <2>1, <2>2 DEF C!InSuite
  <2>4. set \in SUBSET Nat /\ set # {}
    <3>1. \A k \in set : k \in 1 .. MaxCases
      BY <2>1
    <3>2. 1 .. MaxCases \subseteq Nat
      BY CatalogBounds
    <3> QED
      BY <2>3, <3>1, <3>2
  <2>5. C!Min(set) \in set
    BY <2>4, LeastFound
  <2>6. C!Min(set) \in 0 .. MaxCases
    BY <2>1, <2>5, CatalogBounds
  <2>7. C!UniqueName(suite, name) = <<name[1], C!Min(set)>>
    BY <1>2, <2>1 DEF C!UniqueName
  <2> QED
    BY <2>6, <2>7
<1> QED
  BY <1>1, <1>2

\* A case is created.
LEMMA CaseCreated ==
  ASSUME CasesInd, NEW suite \in C!Suites, NEW name \in Names, NEW text \in Texts,
         NEW steps \in Seq(CaseSteps), Len(steps) <= MaxSteps,
         C!CreateCase(suite, <<name, 0>>, text, steps)
  PROVE  CasesInd'
<1>1. PICK c : c = [id |-> made + 1, suite |-> suite, name |-> <<name, 0>>, text |-> text,
                    steps |-> steps, archived |-> FALSE]
  OBVIOUS
<1>2. PICK snapshot : snapshot = C!Snapshot(c)
  OBVIOUS
<1>3. made < MaxCases /\ C!NewCase(c, snapshot) /\ UNCHANGED <<plan, untold, unscoped>>
  BY <1>1, <1>2 DEF C!CreateCase
<1>4. made \in 0 .. MaxCases /\ MaxCases \in Nat /\ made' = made + 1
  BY <1>3, CatalogBounds DEF CasesInd, CaseRowsHold, C!NewCase
<1>5. c.id = made + 1 /\ c \in CaseRows' /\ c.steps = steps
  <2>1. made + 1 \in 1 .. made' /\ <<name, 0>> \in Names \X (0 .. MaxCases)
    BY <1>4
  <2> QED
    BY <1>1, <2>1 DEF CaseRows
<1>6. snapshot \in Snapshots
  <2>1. C!Snapshot(c) \in Snapshots
    BY <1>5, SnapshotNextTyped
  <2> QED
    BY <1>2, <2>1
<1> QED
  BY <1>2, <1>3, <1>5, <1>6, CaseIsNew

\* A case is copied.
LEMMA CaseCopied ==
  ASSUME CasesInd, NEW c \in cases, NEW suite \in C!Suites, C!Copy(c, suite)
  PROVE  CasesInd'
<1>1. PICK name : name = IF suite = c.suite THEN C!UniqueName(suite, c.name) ELSE c.name
  OBVIOUS
<1>2. PICK copy : copy = [c EXCEPT !.id = made + 1, !.suite = suite, !.name = name, !.archived = FALSE]
  OBVIOUS
<1>3. PICK bare : bare = [copy EXCEPT !.steps = <<>>]
  OBVIOUS
<1>4. PICK snapshot : snapshot = C!Snapshot(bare)
  OBVIOUS
<1>5. /\ made < MaxCases /\ C!NewCase(copy, snapshot) /\ UNCHANGED <<plan, unscoped>>
      /\ untold' = IF c.steps = <<>> THEN untold ELSE untold \union {copy.id}
  BY <1>1, <1>2, <1>3, <1>4 DEF C!Copy, C!CopyCase
<1>6. c \in CaseRows /\ Len(c.steps) <= MaxSteps /\ made \in 0 .. MaxCases /\ MaxCases \in Nat
      /\ made' = made + 1
  BY <1>5, CatalogBounds DEF CasesInd, CaseRowsHold, C!NewCase
<1>7. name \in Names \X (0 .. MaxCases)
  <2>1. c.name \in Names \X (0 .. MaxCases)
    BY <1>6 DEF CaseRows
  <2>2. C!UniqueName(suite, c.name) \in Names \X (0 .. MaxCases)
    BY <1>5, <2>1, UniqueNameTyped DEF CasesInd
  <2> QED
    BY <1>1, <2>1, <2>2
<1>8. copy.id = made + 1 /\ copy \in CaseRows' /\ copy.steps = c.steps
  <2>1. made + 1 \in 1 .. made'
    BY <1>6
  <2> QED
    BY <1>2, <1>6, <1>7, <2>1 DEF CaseRows
<1>9. bare \in CaseRows' /\ (c.steps = <<>> => bare = copy)
  <2>1. <<>> \in Seq(CaseSteps)
    OBVIOUS
  <2>2. bare \in CaseRows'
    BY <1>3, <1>8, <2>1 DEF CaseRows
  <2>3. bare.steps = <<>> /\ bare.id = copy.id /\ bare.suite = copy.suite /\ bare.name = copy.name
        /\ bare.text = copy.text /\ bare.archived = copy.archived
    BY <1>3, <1>8 DEF CaseRows
  <2>4. c.steps = <<>> => bare = copy
    BY <1>8, <2>2, <2>3 DEF CaseRows
  <2> QED
    BY <2>2, <2>4
<1>10. snapshot \in Snapshots
  <2>1. C!Snapshot(bare) \in Snapshots
    BY <1>9, SnapshotNextTyped
  <2> QED
    BY <1>4, <2>1
<1>11. copy.id \notin untold' => snapshot = C!Snapshot(copy)
  BY <1>4, <1>5, <1>9
<1>12. untold' = untold \/ untold' = untold \union {copy.id}
  BY <1>5
<1> QED
  BY <1>5, <1>6, <1>8, <1>10, <1>11, <1>12, CaseIsNew

\* The fields of a case are rewritten.
LEMMA CaseUpdated ==
  ASSUME CasesInd, NEW c \in cases, NEW suite \in C!Suites, NEW name \in Names, NEW text \in Texts,
         C!UpdateCase(c, suite, <<name, 0>>, text)
  PROVE  CasesInd'
<1>1. PICK d : d = [c EXCEPT !.suite = suite, !.name = <<name, 0>>, !.text = text]
  OBVIOUS
<1>2. C!Edit(d)
  BY <1>1 DEF C!UpdateCase
<1>3. c \in CaseRows /\ Len(c.steps) <= MaxSteps /\ <<name, 0>> \in Names \X (0 .. MaxCases)
  BY CatalogBounds DEF CasesInd, CaseRowsHold
<1>4. CaseEdited(c, d)
  BY <1>1, <1>3 DEF CaseEdited, CaseRows
<1> QED
  BY <1>2, <1>4, CaseEditHolds

\* The steps of a case are rewritten.
LEMMA StepsEdited ==
  ASSUME CasesInd, NEW c \in cases, NEW steps \in Seq(CaseSteps), Len(steps) <= MaxSteps,
         C!WithSteps(c, steps)
  PROVE  CasesInd'
<1>1. PICK d : d = [c EXCEPT !.steps = steps]
  OBVIOUS
<1>2. C!Edit(d)
  BY <1>1 DEF C!WithSteps
<1>3. c \in CaseRows
  BY DEF CasesInd, CaseRowsHold
<1>4. CaseEdited(c, d)
  BY <1>1, <1>3 DEF CaseEdited, CaseRows
<1> QED
  BY <1>2, <1>4, CaseEditHolds

\* The steps of a case.
LEMMA StepsOf ==
  ASSUME CasesInd, NEW c \in cases
  PROVE  c.steps \in Seq(CaseSteps) /\ Len(c.steps) \in 0 .. MaxSteps /\ DOMAIN c.steps = 1 .. Len(c.steps)
         /\ \A i \in DOMAIN c.steps : c.steps[i] \in CaseSteps
<1>1. c.steps \in Seq(CaseSteps) /\ Len(c.steps) <= MaxSteps
  BY DEF CasesInd, CaseRowsHold, CaseRows
<1> QED
  BY <1>1, CatalogBounds

\* A step is added.
LEMMA StepCreated ==
  ASSUME CasesInd, NEW c \in cases, NEW order \in 0 .. 1, NEW action \in Texts,
         C!CreateStep(c, order, action)
  PROVE  CasesInd'
<1>1. PICK s : s = [order |-> IF order = 0 THEN Len(c.steps) + 1 ELSE order, action |-> action]
  OBVIOUS
<1>2. PICK steps : steps = Append(c.steps, s)
  OBVIOUS
<1>3. Len(c.steps) < MaxSteps /\ C!WithSteps(c, steps)
  BY <1>1, <1>2 DEF C!CreateStep
<1>4. c.steps \in Seq(CaseSteps) /\ Len(c.steps) \in 0 .. MaxSteps /\ MaxSteps \in Nat
  BY StepsOf, CatalogBounds
<1>5. s \in CaseSteps
  BY <1>1, <1>3, <1>4 DEF CaseSteps
<1>6. steps \in Seq(CaseSteps) /\ Len(steps) <= MaxSteps
  BY <1>2, <1>3, <1>4, <1>5
<1> QED
  BY <1>3, <1>6, StepsEdited

\* A step is rewritten.
LEMMA StepUpdated ==
  ASSUME CasesInd, NEW c \in cases, NEW i \in DOMAIN c.steps, NEW order \in 1 .. MaxSteps,
         NEW action \in Texts, C!UpdateStep(c, i, order, action)
  PROVE  CasesInd'
<1>1. PICK s : s = [order |-> order, action |-> action]
  OBVIOUS
<1>2. PICK steps : steps = [c.steps EXCEPT ![i] = s]
  OBVIOUS
<1>3. C!WithSteps(c, steps)
  BY <1>1, <1>2 DEF C!UpdateStep
<1>4. c.steps \in Seq(CaseSteps) /\ Len(c.steps) \in 0 .. MaxSteps /\ DOMAIN c.steps = 1 .. Len(c.steps)
  BY StepsOf
<1>5. s \in CaseSteps
  BY <1>1, CatalogBounds DEF CaseSteps
<1>6. steps \in Seq(CaseSteps) /\ Len(steps) = Len(c.steps)
  BY <1>2, <1>4, <1>5, ExceptSeq
<1>7. Len(steps) <= MaxSteps
  BY <1>4, <1>6, CatalogBounds
<1> QED
  BY <1>3, <1>6, <1>7, StepsEdited

\* A step is deleted.
LEMMA StepDeleted ==
  ASSUME CasesInd, NEW c \in cases, NEW i \in DOMAIN c.steps, C!DeleteStep(c, i)
  PROVE  CasesInd'
<1>1. PICK all : all = c.steps
  OBVIOUS
<1>2. PICK n : n = Len(all)
  OBVIOUS
<1>3. PICK before : before = SubSeq(all, 1, i - 1)
  OBVIOUS
<1>4. PICK after : after = SubSeq(all, i + 1, n)
  OBVIOUS
<1>5. PICK steps : steps = before \o after
  OBVIOUS
<1>6. C!WithSteps(c, steps)
  BY <1>1, <1>2, <1>3, <1>4, <1>5 DEF C!DeleteStep, C!RemoveAt
<1>7. /\ n \in 0 .. MaxSteps /\ i \in 1 .. n /\ \A j \in 1 .. n : all[j] \in CaseSteps
      /\ MaxSteps \in Nat
  BY <1>1, <1>2, StepsOf, CatalogBounds
<1>8. before \in Seq(CaseSteps) /\ Len(before) = i - 1
  <2>1. i - 1 \in Int /\ \A j \in 1 .. i - 1 : all[j] \in CaseSteps
    BY <1>7
  <2>2. before \in Seq(CaseSteps) /\ Len(before) = IF 1 <= i - 1 THEN i - 1 - 1 + 1 ELSE 0
    BY <1>3, <2>1, SubSeqProperties
  <2> QED
    BY <1>7, <2>2
<1>9. after \in Seq(CaseSteps) /\ Len(after) = n - i
  <2>1. i + 1 \in Int /\ n \in Int /\ \A j \in i + 1 .. n : all[j] \in CaseSteps
    BY <1>7
  <2>2. after \in Seq(CaseSteps) /\ Len(after) = IF i + 1 <= n THEN n - (i + 1) + 1 ELSE 0
    BY <1>4, <2>1, SubSeqProperties
  <2> QED
    BY <1>7, <2>2
<1>10. steps \in Seq(CaseSteps) /\ Len(steps) = Len(before) + Len(after)
  BY <1>5, <1>8, <1>9, ConcatProperties
<1>11. Len(steps) <= MaxSteps
  BY <1>7, <1>8, <1>9, <1>10
<1> QED
  BY <1>6, <1>10, <1>11, StepsEdited

\* All steps are deleted.
LEMMA StepsDeleted ==
  ASSUME CasesInd, NEW c \in cases, C!DeleteAllSteps(c)
  PROVE  CasesInd'
<1>1. <<>> \in Seq(CaseSteps) /\ Len(<<>>) <= MaxSteps
  BY CatalogBounds
<1>2. C!WithSteps(c, <<>>)
  BY DEF C!DeleteAllSteps
<1> QED
  BY <1>1, <1>2, StepsEdited

\* The steps are replaced.
LEMMA StepsReplaced ==
  ASSUME CasesInd, NEW c \in cases, NEW actions \in C!Steps(MaxSteps), C!ReplaceSteps(c, actions)
  PROVE  CasesInd'
<1>1. PICK k \in 0 .. MaxSteps : actions \in [1 .. k -> Texts]
  BY DEF C!Steps
<1>2. PICK steps : steps = [i \in 1 .. k |-> [order |-> i, action |-> actions[i]]]
  OBVIOUS
<1>3. C!WithSteps(c, steps)
  BY <1>1, <1>2 DEF C!ReplaceSteps
<1>4. \A i \in 1 .. k : steps[i] \in CaseSteps
  BY <1>1, <1>2, CatalogBounds DEF CaseSteps
<1>5. steps \in [1 .. k -> CaseSteps] /\ k \in Nat /\ k <= MaxSteps
  BY <1>2, <1>4, CatalogBounds
<1>6. steps \in Seq(CaseSteps) /\ Len(steps) <= MaxSteps
  BY <1>5
<1> QED
  BY <1>3, <1>6, StepsEdited

\* The steps are numbered anew.
LEMMA StepsReordered ==
  ASSUME CasesInd, NEW c \in cases, NEW places \in C!SetToSeqs(DOMAIN c.steps),
         C!ReorderSteps(c, places)
  PROVE  CasesInd'
<1>1. PICK all : all = c.steps
  OBVIOUS
<1>2. PICK n : n = Len(all)
  OBVIOUS
<1>3. PICK steps : steps = [i \in 1 .. n |->
                              IF i \in C!Range(places)
                              THEN [all[i] EXCEPT !.order = C!Max({p \in DOMAIN places : places[p] = i})]
                              ELSE all[i]]
  OBVIOUS
<1>4. /\ n \in 0 .. MaxSteps /\ DOMAIN all = 1 .. n /\ \A j \in 1 .. n : all[j] \in CaseSteps
      /\ MaxSteps \in Nat
  BY <1>1, <1>2, StepsOf, CatalogBounds
<1>5. C!WithSteps(c, steps)
  BY <1>1, <1>3, <1>4 DEF C!ReorderSteps
<1>6. IsFiniteSet(1 .. n) /\ Cardinality(1 .. n) = n
  <2>1. IsFiniteSet(1 .. n) /\ Cardinality(1 .. n) = IF 1 > n THEN 0 ELSE n - 1 + 1
    BY <1>4, FS_Interval
  <2> QED
    BY <1>4, <2>1
<1>7. places \in [1 .. n -> 1 .. n] /\ \A i, j \in 1 .. n : i # j => places[i] # places[j]
  <2>1. C!Cardinality(DOMAIN c.steps) = n
    BY <1>1, <1>4, <1>6, SameSizeOfSteps
  <2> QED
    BY <1>1, <1>4, <2>1 DEF C!SetToSeqs
<1>8. ASSUME NEW i \in 1 .. n PROVE steps[i] \in CaseSteps
  <2>1. CASE i \in C!Range(places)
    <3>1. PICK k \in 1 .. n : places[k] = i
      BY <1>7, <2>1 DEF C!Range
    <3>2. PICK set : set = {p \in DOMAIN places : places[p] = i}
      OBVIOUS
    <3>3. set = {k}
      BY <1>7, <3>1, <3>2
    <3>4. C!Max(set) = k
      BY <1>4, <3>1, <3>3 DEF C!Max
    <3>5. steps[i] = [all[i] EXCEPT !.order = k]
      BY <1>3, <2>1, <3>2, <3>4
    <3>6. all[i] \in CaseSteps /\ k \in 1 .. MaxSteps + 1
      BY <1>4, <3>1
    <3> QED
      BY <3>5, <3>6 DEF CaseSteps
  <2>2. CASE i \notin C!Range(places)
    <3>1. steps[i] = all[i]
      BY <1>3, <2>2
    <3> QED
      BY <1>4, <3>1
  <2> QED
    BY <2>1, <2>2
<1>9. steps \in [1 .. n -> CaseSteps] /\ n \in Nat /\ n <= MaxSteps
  <2>1. steps = [i \in 1 .. n |-> steps[i]]
    BY <1>3
  <2>2. n \in Nat /\ n <= MaxSteps
    BY <1>4
  <2> QED
    BY <1>8, <2>1, <2>2
<1>10. steps \in Seq(CaseSteps) /\ Len(steps) <= MaxSteps
  BY <1>9
<1> QED
  BY <1>5, <1>10, StepsEdited

\* A case is archived, or taken from the archive.
LEMMA CaseArchived ==
  ASSUME CasesInd, NEW c \in cases, C!ArchiveCase(c)
  PROVE  CasesInd'
<1>1. PICK d : d = [c EXCEPT !.archived = ~@]
  OBVIOUS
<1>2. cases' = (cases \ {c}) \union {d} /\ UNCHANGED <<revisions, plan, made, untold, unscoped>>
  BY <1>1 DEF C!ArchiveCase
<1>3. c \in CaseRows /\ Len(c.steps) <= MaxSteps
  BY DEF CasesInd, CaseRowsHold
<1>4. /\ d \in CaseRows /\ d.id = c.id /\ d.suite = c.suite /\ d.steps = c.steps
      /\ C!Snapshot(d) = C!Snapshot(c)
  BY <1>1, <1>3 DEF CaseRows, C!Snapshot
<1>5. C!Ids' = C!Ids
  BY <1>2, <1>4 DEF C!Ids
<1>6. \A e \in cases' : \E f \in cases : /\ f.id = e.id /\ f.suite = e.suite
                                         /\ C!Snapshot(f) = C!Snapshot(e)
  BY <1>2, <1>4
<1>7. CaseRowsHold'
  <2>1. cases' \subseteq CaseRows' /\ \A e \in cases' : Len(e.steps) <= MaxSteps
    BY <1>2, <1>3, <1>4 DEF CasesInd, CaseRowsHold, CaseRows
  <2>2. \A e, f \in cases' : e.id = f.id => e = f
    BY <1>2, <1>4 DEF CasesInd, CaseRowsHold
  <2> QED
    BY <1>2, <1>5, <2>1, <2>2 DEF CasesInd, CaseRowsHold
<1>8. C!RevisionsTell'
  BY <1>2, <1>6 DEF CasesInd, C!RevisionsTell
<1>9. C!RevisionsDiffer'
  BY <1>2, <1>6 DEF CasesInd, C!RevisionsDiffer
<1>10. C!PlanStaysHome'
  BY <1>2, <1>6 DEF CasesInd, C!PlanStaysHome
<1> QED
  BY <1>7, <1>8, <1>9, <1>10 DEF CasesInd

\* Cases are deleted with their revisions and their places in the plan.
LEMMA CasesDeleted ==
  ASSUME CasesInd, NEW ids \in SUBSET C!Ids, C!DeleteCases(ids)
  PROVE  CasesInd'
<1>1. /\ cases' = {c \in cases : c.id \notin ids}
      /\ revisions' = [i \in C!Ids \ ids |-> revisions[i]]
      /\ plan' = plan \ ids /\ untold' = untold \ ids /\ unscoped' = unscoped \ ids
      /\ made' = made
  BY DEF C!DeleteCases
<1>2. C!Ids' = C!Ids \ ids
  BY <1>1 DEF C!Ids
<1>3. \A c \in cases' : c \in cases /\ c.id \notin ids /\ revisions'[c.id] = revisions[c.id]
  BY <1>1 DEF C!Ids
<1>4. CaseRowsHold'
  <2>1. revisions' \in [C!Ids' -> Seq(Snapshots) \ {<<>>}]
    BY <1>1, <1>2 DEF CasesInd, CaseRowsHold
  <2>2. cases' \subseteq CaseRows' /\ \A e \in cases' : Len(e.steps) <= MaxSteps
    BY <1>1 DEF CasesInd, CaseRowsHold, CaseRows
  <2> QED
    BY <1>1, <1>2, <1>3, <2>1, <2>2 DEF CasesInd, CaseRowsHold
<1>5. C!RevisionsTell'
  BY <1>1, <1>3 DEF CasesInd, C!RevisionsTell
<1>6. C!RevisionsDiffer'
  BY <1>3 DEF CasesInd, C!RevisionsDiffer
<1>7. C!PlanStaysHome'
  BY <1>1, <1>3 DEF CasesInd, C!PlanStaysHome
<1> QED
  BY <1>4, <1>5, <1>6, <1>7 DEF CasesInd

\* Only the plan changes.
LEMMA CasesUnmoved ==
  ASSUME CasesInd, UNCHANGED <<cases, revisions, made, untold>>,
         plan' \subseteq C!Ids, unscoped' \subseteq plan',
         \A c \in cases : c.id \in plan' \ unscoped' => c.suite = C!PlanProject
  PROVE  CasesInd'
<1>1. C!Ids' = C!Ids /\ CaseRows' = CaseRows
  BY DEF C!Ids, CaseRows
<1>2. CaseRowsHold'
  BY <1>1 DEF CasesInd, CaseRowsHold
<1>3. C!RevisionsTell' /\ C!RevisionsDiffer'
  BY DEF CasesInd, C!RevisionsTell, C!RevisionsDiffer
<1>4. C!PlanStaysHome'
  BY DEF C!PlanStaysHome
<1> QED
  BY <1>2, <1>3, <1>4 DEF CasesInd

\* The plan is created, rewritten or added to.
LEMMA PlanChanged ==
  ASSUME CasesInd, NEW ids \in SUBSET C!Ids, C!CreatePlan(ids) \/ C!UpdatePlan(ids) \/ C!AddToPlan(ids)
  PROVE  CasesInd'
<1>1. \A some : /\ C!scoped_cases(some) \subseteq C!Ids
                /\ \A c \in cases : c.id \in C!scoped_cases(some) => c.suite = C!PlanProject
  BY DEF C!scoped_cases, C!InSuite, C!Ids, CasesInd, CaseRowsHold
<1>2. CASE C!CreatePlan(ids)
  BY <1>2, CasesUnmoved DEF C!CreatePlan
<1>3. CASE C!UpdatePlan(ids)
  BY <1>1, <1>3, CasesUnmoved DEF C!UpdatePlan
<1>4. CASE C!AddToPlan(ids)
  <2>1. plan' = plan \union C!scoped_cases(ids \ plan) /\ UNCHANGED <<cases, revisions, made, untold, unscoped>>
    BY <1>4 DEF C!AddToPlan
  <2>2. plan' \subseteq C!Ids /\ unscoped' \subseteq plan'
    BY <1>1, <2>1 DEF CasesInd, CaseRowsHold
  <2>3. \A c \in cases : c.id \in plan' \ unscoped' => c.suite = C!PlanProject
    BY <1>1, <2>1 DEF CasesInd, C!PlanStaysHome
  <2> QED
    BY <2>1, <2>2, <2>3, CasesUnmoved
<1> QED
  BY <1>2, <1>3, <1>4

\* The invariant holds at the start.
LEMMA CasesStart == Init => CasesInd
<1> SUFFICES ASSUME Init PROVE CasesInd
  OBVIOUS
<1>1. cases = {} /\ revisions = <<>> /\ plan = {} /\ made = 0 /\ untold = {} /\ unscoped = {}
  BY DEF Init, C!Init
<1>2. C!Ids = {}
  BY <1>1 DEF C!Ids
<1>3. revisions \in [C!Ids -> Seq(Snapshots) \ {<<>>}]
  BY <1>1, <1>2
<1>4. CaseRowsHold
  BY <1>1, <1>3, CatalogBounds DEF CaseRowsHold
<1> QED
  BY <1>1, <1>4 DEF CasesInd, C!RevisionsTell, C!RevisionsDiffer, C!PlanStaysHome

\* Every step of the machine keeps it.
LEMMA CasesStep ==
  ASSUME CasesInd, C!Next PROVE CasesInd'
<1>1. ASSUME NEW s \in C!Suites, NEW n \in Names, NEW t \in Texts, C!CreateCase(s, <<n, 0>>, t, <<>>)
      PROVE  CasesInd'
  <2>1. <<>> \in Seq(CaseSteps) /\ Len(<<>>) <= MaxSteps
    BY CatalogBounds
  <2> QED
    BY <1>1, <2>1, CaseCreated
<1>2. ASSUME NEW n \in Names, NEW t \in Texts,
             C!CreateCase("home", <<n, 0>>, t, <<[order |-> 1, action |-> t]>>)
      PROVE  CasesInd'
  <2>1. PICK steps : steps = <<[order |-> 1, action |-> t]>>
    OBVIOUS
  <2>2. [order |-> 1, action |-> t] \in CaseSteps
    BY CatalogBounds DEF CaseSteps
  <2>3. steps \in Seq(CaseSteps) /\ Len(steps) = 1
    BY <2>1, <2>2
  <2>4. Len(steps) <= MaxSteps
    BY <2>3, CatalogBounds
  <2>5. PICK s \in C!Suites : s = "home"
    BY DEF C!Suites
  <2>6. C!CreateCase(s, <<n, 0>>, t, steps)
    BY <1>2, <2>1, <2>5
  <2> QED
    BY <2>3, <2>4, <2>6, CaseCreated
<1>3. ASSUME NEW c \in cases, NEW s \in C!Suites, NEW n \in Names, NEW t \in Texts,
             C!UpdateCase(c, s, <<n, 0>>, t)
      PROVE  CasesInd'
  BY <1>3, CaseUpdated
<1>4. ASSUME NEW c \in cases, NEW s \in C!Suites, C!Copy(c, s) PROVE CasesInd'
  BY <1>4, CaseCopied
<1>5. ASSUME NEW c \in cases, C!ArchiveCase(c) PROVE CasesInd'
  BY <1>5, CaseArchived
<1>6. ASSUME NEW c \in cases, NEW o \in 0 .. 1, NEW t \in Texts, C!CreateStep(c, o, t) PROVE CasesInd'
  BY <1>6, StepCreated
<1>7. ASSUME NEW c \in cases, NEW i \in DOMAIN c.steps, C!DeleteStep(c, i) PROVE CasesInd'
  BY <1>7, StepDeleted
<1>8. ASSUME NEW c \in cases, NEW i \in DOMAIN c.steps, NEW o \in 1 .. MaxSteps, NEW t \in Texts,
             C!UpdateStep(c, i, o, t)
      PROVE  CasesInd'
  BY <1>8, StepUpdated
<1>9. ASSUME NEW c \in cases, C!DeleteAllSteps(c) PROVE CasesInd'
  BY <1>9, StepsDeleted
<1>10. ASSUME NEW c \in cases, NEW a \in C!Steps(MaxSteps), C!ReplaceSteps(c, a) PROVE CasesInd'
  BY <1>10, StepsReplaced
<1>11. ASSUME NEW c \in cases, NEW places \in C!SetToSeqs(DOMAIN c.steps), C!ReorderSteps(c, places)
       PROVE  CasesInd'
  BY <1>11, StepsReordered
<1>12. ASSUME NEW ids \in SUBSET C!Ids, C!DeleteCases(ids) PROVE CasesInd'
  BY <1>12, CasesDeleted
<1>13. ASSUME NEW ids \in SUBSET C!Ids, C!CreatePlan(ids) \/ C!UpdatePlan(ids) \/ C!AddToPlan(ids)
       PROVE  CasesInd'
  BY <1>13, PlanChanged
<1> QED
  BY <1>1, <1>2, <1>3, <1>4, <1>5, <1>6, <1>7, <1>8, <1>9, <1>10, <1>11, <1>12, <1>13 DEF C!Next

\* So does a step that leaves cases alone.
LEMMA CasesStay ==
  ASSUME CasesInd, UNCHANGED caseVars PROVE CasesInd'
<1>1. UNCHANGED <<cases, revisions, made, untold>> /\ plan' = plan /\ unscoped' = unscoped
  BY DEF caseVars
<1>2. plan' \subseteq C!Ids /\ unscoped' \subseteq plan'
      /\ \A c \in cases : c.id \in plan' \ unscoped' => c.suite = C!PlanProject
  BY <1>1 DEF CasesInd, CaseRowsHold, C!PlanStaysHome
<1> QED
  BY <1>1, <1>2, CasesUnmoved

\* It is what CasesHold needs.
LEMMA CasesIndHolds == CasesInd => C!CasesHold
<1> SUFFICES ASSUME CasesInd PROVE C!TypeOK
  BY DEF CasesInd, C!CasesHold
<1>1. ASSUME NEW c \in cases
      PROVE  /\ c.id \in 1 .. made /\ c.suite \in C!Suites /\ c.name \in Names \X (0 .. MaxCases)
             /\ c.text \in Texts /\ Len(c.steps) <= MaxSteps /\ c.archived \in BOOLEAN
             /\ \A i \in DOMAIN c.steps : c.steps[i].order \in 1 .. MaxSteps + 1
  <2>1. c \in CaseRows /\ Len(c.steps) <= MaxSteps /\ \A i \in DOMAIN c.steps : c.steps[i] \in CaseSteps
    BY StepsOf DEF CasesInd, CaseRowsHold
  <2> QED
    BY <2>1 DEF CaseRows, CaseSteps
<1>2. DOMAIN revisions = C!Ids
  BY DEF CasesInd, CaseRowsHold
<1> QED
  BY <1>1, <1>2 DEF CasesInd, CaseRowsHold, C!TypeOK

\* However requests overlap, the parent of a suite exists, and unless two moves overlapped no
\* suite comes to be below itself; the last revision of a case is its definition, but for a
\* copy not edited since, none repeats the one before it, and a plan has cases of its project
\* but for those it was created with or that moved since.  For any number of workers, names,
\* suites, cases, steps and requests.
THEOREM TreesAndHistoriesHold == Spec => []SuitesAndCasesHold
<1> DEFINE Kept == (part = "suites" => SuitesInd) /\ (part = "cases" => CasesInd)
<1>1. Init => Kept
  BY SuitesStart, CasesStart
<1>2. Kept /\ [Next]_catalogVars => Kept'
  <2> SUFFICES ASSUME Kept, [Next]_catalogVars PROVE Kept'
    OBVIOUS
  <2>1. CASE UNCHANGED catalogVars
    BY <2>1, SuitesStay, CasesStay DEF catalogVars
  <2>2. CASE SuiteStep
    BY <2>2, SuitesStep DEF SuiteStep
  <2>3. CASE CaseStep
    BY <2>3, CasesStep DEF CaseStep
  <2>4. CASE FieldStep \/ EnvironmentStep \/ FileStep
    BY <2>4 DEF FieldStep, EnvironmentStep, FileStep
  <2> QED
    BY <2>1, <2>2, <2>3, <2>4 DEF Next
<1>3. Kept => SuitesAndCasesHold
  BY SuitesHold, CasesIndHolds DEF SuitesAndCasesHold
<1> QED
  BY <1>1, <1>2, <1>3, PTL DEF Spec, catalogVars
=============================================================================
