------------------------------ MODULE Schema ------------------------------
(***************************************************************************)
(* The schema of the SQLite database: migrations/ and init_db of           *)
(* db/session.py.                                                          *)
(*                                                                         *)
(* A start runs the migrations that the database has not had, on one       *)
(* connection that is committed at the end.  The driver opens its          *)
(* transaction with the first statement that changes rows: what is created *)
(* or altered before is on the disk at once, what comes later is there     *)
(* with the commit only.                                                   *)
(*                                                                         *)
(* A schema is a set of tables, columns, indexes and constraints, and of   *)
(* the tables that hold the rows of the images.  Of tables and columns     *)
(* that are treated alike there is one.                                    *)
(***************************************************************************)
EXTENDS Integers, SequencesExt

CONSTANTS
  None,
  MaxStarts,   \* bound: starts of the server
  MaxCrashes   \* bound: starts that die

SchemaAssumption == {MaxStarts, MaxCrashes} \subseteq Nat

VARIABLES
  disk,      \* what is committed: the items of the schema and the version
  conn,      \* what the connection of the start sees; None without one
  open,      \* its transaction is open
  todo,      \* the statements of the current migration that are left
  server,    \* "down", "migrating", "serving", "failed"
  starts,    \* starts so far
  crashes,   \* starts that died
  torn,      \* history: the tables a crash left half made
  made       \* history: there have been images

vars == <<disk, conn, open, todo, server, starts, crashes, torn, made>>

(***************************************************************************)
(* The migrations.                                                         *)
(***************************************************************************)
Latest == 5

\* A table, a column or an index that is made when it is not there, on a table
\* or a column that is.
Make(items, needs) == [op |-> "make", items |-> items, needs |-> needs]
Op(op) == [op |-> op, items |-> {}, needs |-> {}]

CurrentSchema ==
  <<Make({"jobs"}, {}), Make({"images", "images.family", "images.fk"}, {}),
    Make({"messages"}, {}), Make({"ix_images_family"}, {"images.family"})>>
MetadataColumns ==
  <<Make({"images.family"}, {"images"}), Make({"images.favorite"}, {"images"}),
    Make({"ix_images_family"}, {"images.family"})>>
PromptSnippets == <<Make({"snippets"}, {}), Make({"ix_snippets"}, {"snippets"})>>
MessageAttachments == <<Make({"messages.attachments"}, {"messages"})>>
DetachHistory(items) ==
  IF "images" \in items THEN <<Op("new table"), Op("copy"), Op("drop"), Op("rename")>> ELSE <<>>
VideoWorkspace(items) ==
  IF "videos" \in items THEN <<>> ELSE <<Make({"videos"}, {}), Make({"ix_videos"}, {})>>

Statements(revision, items) ==
  <<CurrentSchema, MetadataColumns, PromptSnippets, MessageAttachments,
    DetachHistory(items), VideoWorkspace(items)>>[revision + 1]

\* A fault: a migration does not look what is there already.
SkippedUnlooked(s, items) == s.op = "make" /\ ~(s.needs \subseteq items)

Skipped(s, items) == s.op = "make" /\ (s.needs \subseteq items => s.items \cap items # {})

\* "table ... already exists".
Clashes(s, items) ==
  (s.op = "make" /\ s.items \cap items # {}) \/ (s.op = "new table" /\ "tmp" \in items)

OfImages == {"images", "images.family", "images.favorite", "images.fk", "images.rows", "ix_images_family"}

\* batch_alter_table(recreate="always"): a table without the foreign key is made,
\* filled, and takes the place of the one that is dropped.
Effect(s, items) ==
  CASE s.op = "make" -> items \cup s.items
    [] s.op = "new table" -> items \cup {"tmp"}
    [] s.op = "copy" -> items \cup {i \in {"tmp.rows"} : "images.rows" \in items}
    [] s.op = "drop" -> items \ OfImages
    [] s.op = "rename" -> (items \ {"tmp", "tmp.rows"}) \cup (OfImages \ {"images.fk", "images.rows"})
                             \cup {i \in {"images.rows"} : "tmp.rows" \in items}

RowsChange(s) == s.op = "copy"

After(items, revision) ==
  FoldLeft(LAMBDA before, s : IF Skipped(s, before) THEN before ELSE Effect(s, before),
           items, Statements(revision, items))

\* What a release leaves that has the migrations up to a revision.
Released(items, revision) == FoldLeft(After, items, [i \in 1..(revision + 1) |-> i - 1])

-----------------------------------------------------------------------------
\* No database, one made before there were migrations, or one of a release.
Init ==
  /\ disk \in {[items |-> {}, version |-> -1],
               [items |-> {"jobs", "images", "images.fk", "images.rows"}, version |-> -1]}
        \cup {[items |-> Released({}, r) \cup {"images.rows"}, version |-> r] : r \in 0..Latest}
  /\ conn = None /\ open = FALSE /\ todo = <<>> /\ server = "down" /\ starts = 0
  /\ crashes = 0 /\ torn = {} /\ made = ("images.rows" \in disk.items)

\* init_db: a connection, and alembic up to the head.
Start ==
  /\ server \in {"down", "failed"} /\ starts < MaxStarts
  /\ starts' = starts + 1 /\ server' = "migrating" /\ conn' = disk /\ open' = FALSE
  /\ todo' = IF disk.version = Latest THEN <<>> ELSE Statements(disk.version + 1, disk.items)
  /\ UNCHANGED <<disk, torn, crashes, made>>

\* Outside a transaction a statement is committed by itself.
Execute ==
  /\ server = "migrating" /\ todo # <<>>
  /\ LET s == todo[1] IN
       IF Skipped(s, conn.items)
       THEN todo' = Tail(todo) /\ UNCHANGED <<disk, conn, open, server, torn>>
       ELSE IF Clashes(s, conn.items)
       THEN /\ server' = "failed" /\ conn' = None /\ open' = FALSE /\ todo' = <<>>
            /\ UNCHANGED <<disk, torn>>
       ELSE /\ conn' = [conn EXCEPT !.items = Effect(s, @)] /\ todo' = Tail(todo)
            /\ open' = (open \/ RowsChange(s))
            /\ disk' = IF open' THEN disk ELSE conn'
            /\ UNCHANGED <<server, torn>>
  /\ UNCHANGED <<starts, crashes, made>>

\* alembic notes the revision, a row, and goes on with the next migration.
Stamp ==
  /\ server = "migrating" /\ todo = <<>> /\ conn.version < Latest
  /\ conn' = [conn EXCEPT !.version = @ + 1] /\ open' = TRUE
  /\ todo' = IF conn.version + 1 = Latest THEN <<>> ELSE Statements(conn.version + 2, conn.items)
  /\ UNCHANGED <<disk, server, starts, torn, crashes, made>>

\* The end of engine.begin(); then images can be made.
Commit ==
  /\ server = "migrating" /\ todo = <<>> /\ conn.version = Latest
  /\ \E more \in BOOLEAN :
       disk' = [conn EXCEPT !.items = IF more THEN @ \cup {"images.rows"} ELSE @]
  /\ conn' = None /\ open' = FALSE /\ server' = "serving"
  /\ made' = (made \/ "images.rows" \in disk'.items)
  /\ UNCHANGED <<todo, starts, torn, crashes>>

\* The server stops, or it dies and what is not committed is lost.
Stop ==
  /\ server \in {"migrating", "serving"} /\ server' = "down"
  /\ conn' = None /\ open' = FALSE /\ todo' = <<>>
  /\ IF server = "serving" THEN UNCHANGED <<torn, crashes>>
     ELSE /\ crashes < MaxCrashes /\ crashes' = crashes + 1
          /\ torn' = torn \cup ({"tmp"} \cap disk.items)
                     \cup {t \in {"videos"} : t \in disk.items /\ "ix_videos" \notin disk.items}
  /\ UNCHANGED <<disk, starts, made>>

Next == Start \/ Execute \/ Stamp \/ Commit \/ Stop

Spec == Init /\ [][Next]_vars

-----------------------------------------------------------------------------
\* The values of the variables.
TypeOK ==
  /\ disk.version \in -1..Latest /\ open \in BOOLEAN /\ starts \in 0..MaxStarts
  /\ server \in {"down", "migrating", "serving", "failed"} /\ (conn # None) = (server = "migrating")
  /\ crashes \in 0..MaxCrashes /\ torn \subseteq {"tmp", "videos"}

\* The server serves with the whole schema, whatever it started from and wherever
\* earlier starts died, unless one died between a table and its indexes.
SchemaWhole ==
  server = "serving" =>
    /\ disk.version = Latest
    /\ Released({}, Latest) \ {i \in {"ix_videos"} : "videos" \in torn} \subseteq disk.items
    /\ disk.items \cap {"images.fk", "tmp", "tmp.rows"} = {}

\* A start that died can be made again, unless it left the table that was to
\* replace another one.
StartsAgain == server = "failed" => "tmp" \in torn

\* The rows of the images are there all the time, through the replacement of their
\* table and wherever it ends: they go only with the commit that has them again.
RowsKept == made => "images.rows" \in disk.items
=============================================================================
