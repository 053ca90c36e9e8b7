------------------------------ MODULE SqliteOpen ------------------------------
(***************************************************************************)
(* SqliteOpSink::open (persist/sqlite.rs:39-56, 236-339): creating the     *)
(* tables, then initializing, checking or migrating the `meta` table, one  *)
(* autocommitted SQL statement at a time.  An opener may end between any   *)
(* two statements (the process dies, or a statement fails and `?` returns  *)
(* it), and two may be at work on the same file.                           *)
(*                                                                         *)
(* An opener is the list of statements it still has to execute.  The file  *)
(* is the set of its tables and the map of its meta rows; a version stands *)
(* for the text that to_string and parse convert it to.                    *)
(***************************************************************************)
EXTENDS Naturals, Sequences

CONSTANTS Openers,      \* processes that open the file
          Files,        \* what the file may be at the start
          MaxCrashes    \* bound: attempts that end early

DB_SCHEMA_VERSION == 1

(* Versions and the station id, with the values this release writes.       *)
Release == [schema_version |-> DB_SCHEMA_VERSION, op_format_version |-> 1,
            snapshot_format_version |-> 1, station_instance_id |-> 1]

Keys    == DOMAIN Release
Tables  == {"events", "snapshots", "meta"}
Formats == {"op_format_version", "snapshot_format_version"}

Newer(meta, key) == key \in DOMAIN meta /\ meta[key] > Release[key]

(* A file is new or was made by some release.  Every release writes the    *)
(* rows in the order of InitializeMeta, and one with a newer format has no *)
(* older schema.                                                           *)
ASSUME FilesAssumption ==
  /\ MaxCrashes \in Nat
  /\ \A f \in Files :
       /\ f = [tables |-> f.tables, meta |-> f.meta]
       /\ f.tables \subseteq Tables
       /\ DOMAIN f.meta \subseteq Keys /\ f.meta \in [DOMAIN f.meta -> Nat]
       /\ "op_format_version" \in DOMAIN f.meta => "schema_version" \in DOMAIN f.meta
       /\ "snapshot_format_version" \in DOMAIN f.meta => "op_format_version" \in DOMAIN f.meta
       /\ (\E key \in Formats : Newer(f.meta, key)) => f.meta["schema_version"] >= DB_SCHEMA_VERSION

VARIABLES file,     \* the database file
          origin,   \* history: the file before anyone opened it
          opener,   \* per opener: status, and the statements it has left
          crashes

vars == <<file, origin, opener, crashes>>

Init == /\ file \in Files /\ origin = file
        /\ opener = [o \in Openers |-> [status |-> "down", todo |-> << >>]]
        /\ crashes = 0

------------------------------------------------------------------------------
(* Statements                                                              *)

Create(t)   == [do |-> "create", what |-> t]
Branch      == [do |-> "branch", what |-> "schema_version"]
Write(key)  == [do |-> "write", what |-> key]
Ensure(key) == [do |-> "ensure", what |-> key]

SchemaSql == <<Create("events"), Create("snapshots"), Create("meta")>>

(* write_meta of the None branch, schema version first.                    *)
InitializeMeta ==
  <<Write("schema_version"), Write("op_format_version"),
    Write("snapshot_format_version"), Write("station_instance_id")>>

EnsureMetaDefaults ==
  <<Ensure("op_format_version"), Ensure("snapshot_format_version"), Ensure("station_instance_id")>>

MigrateSchema == SchemaSql \o <<Write("schema_version")>>

(* Mutant: a migrated file is not given the rows it lacks.                 *)
BranchOnlyMigrates(meta) ==
  IF "schema_version" \notin DOMAIN meta THEN InitializeMeta
  ELSE CASE meta["schema_version"] = DB_SCHEMA_VERSION -> EnsureMetaDefaults
         [] meta["schema_version"] < DB_SCHEMA_VERSION -> MigrateSchema

(* initialize_or_migrate_meta, after reading the version.                  *)
StatementsFor(meta) ==
  IF "schema_version" \notin DOMAIN meta THEN InitializeMeta
  ELSE CASE meta["schema_version"] = DB_SCHEMA_VERSION -> EnsureMetaDefaults
         [] meta["schema_version"] < DB_SCHEMA_VERSION -> MigrateSchema \o EnsureMetaDefaults

(* Mutant: the snapshot format is not compared with this release.          *)
UnsupportedButSnapshots(meta, key) ==
  /\ key \in DOMAIN meta /\ key \in {"schema_version", "op_format_version"}
  /\ meta[key] > Release[key]

(* Mutant: the format of this release itself is refused.                   *)
UnsupportedFromRelease(meta, key) ==
  /\ key \in DOMAIN meta /\ key # "station_instance_id"
  /\ IF key = "schema_version" THEN meta[key] > Release[key] ELSE meta[key] >= Release[key]

(* A schema or format version newer than this release knows.               *)
Unsupported(meta, key) == key # "station_instance_id" /\ Newer(meta, key)

------------------------------------------------------------------------------
Step(o, todo) == opener' = [opener EXCEPT ![o].todo = todo]

Start(o) ==
  /\ opener[o].status = "down"
  /\ opener' = [opener EXCEPT ![o] = [status |-> "opening", todo |-> SchemaSql \o <<Branch>>]]
  /\ UNCHANGED <<file, origin, crashes>>

CreateTable(o, stmt, rest) ==
  /\ stmt.do = "create"
  /\ file' = [file EXCEPT !.tables = @ \cup {stmt.what}]
  /\ Step(o, rest)

WriteMeta(o, stmt, rest) ==
  /\ stmt.do = "write"
  /\ file' = [file EXCEPT !.meta = [k \in DOMAIN @ \cup {stmt.what} |->
                                      IF k = stmt.what THEN Release[k] ELSE @[k]]]
  /\ Step(o, rest)

ReadVersion(o, stmt, rest) ==
  /\ stmt.do \in {"branch", "ensure"} /\ ~Unsupported(file.meta, stmt.what)
  /\ Step(o, IF stmt.do = "branch" THEN StatementsFor(file.meta)
             ELSE IF stmt.what \in DOMAIN file.meta THEN rest
             ELSE <<Write(stmt.what)>> \o rest)
  /\ UNCHANGED file

Refuse(o, stmt) ==
  /\ stmt.do \in {"branch", "ensure"} /\ Unsupported(file.meta, stmt.what)
  /\ opener' = [opener EXCEPT ![o] = [status |-> "refused", todo |-> << >>]]
  /\ UNCHANGED file

Execute(o) ==
  LET stmt == Head(opener[o].todo)
      rest == Tail(opener[o].todo)
  IN
  /\ opener[o].todo # << >>
  /\ \/ CreateTable(o, stmt, rest)
     \/ WriteMeta(o, stmt, rest)
     \/ ReadVersion(o, stmt, rest)
     \/ Refuse(o, stmt)
  /\ UNCHANGED <<origin, crashes>>

Finish(o) ==
  /\ opener[o].status = "opening" /\ opener[o].todo = << >>
  /\ opener' = [opener EXCEPT ![o].status = "open"]
  /\ UNCHANGED <<file, origin, crashes>>

Crash(o) ==
  /\ opener[o].status = "opening"
  /\ crashes < MaxCrashes /\ crashes' = crashes + 1
  /\ opener' = [opener EXCEPT ![o] = [status |-> "down", todo |-> << >>]]
  /\ UNCHANGED <<file, origin>>

Next == \E o \in Openers : Start(o) \/ Execute(o) \/ Finish(o) \/ Crash(o)

(* An opener that started goes on, and a caller whose open failed tries    *)
(* again.                                                                  *)
Fairness == \A o \in Openers : WF_vars(Start(o) \/ Execute(o) \/ Finish(o))

Spec == Init /\ [][Next]_vars /\ Fairness

------------------------------------------------------------------------------
(* Properties                                                              *)

FromNewerRelease == \E key \in Formats \cup {"schema_version"} : Newer(origin.meta, key)

(* A file that open returned a sink for has all tables and all meta rows,  *)
(* the schema of this release and no newer format, whatever attempts ended *)
(* early before and whoever else is opening it (persist/sqlite.rs:236).    *)
OpenedIsComplete ==
  \A o \in Openers : opener[o].status = "open" =>
    /\ file.tables = Tables
    /\ DOMAIN file.meta = Keys
    /\ file.meta["schema_version"] = DB_SCHEMA_VERSION
    /\ \A key \in Formats : file.meta[key] <= Release[key]

(* A file written by a newer release keeps its meta rows, and is not       *)
(* opened (tests/sqlite_replay.rs:196, persist/sqlite.rs:261, 281, 294).   *)
NewerFileUntouched ==
  FromNewerRelease => /\ file.meta = origin.meta
                      /\ \A o \in Openers : opener[o].status # "open"

(* Every other file is opened in the end: an attempt that ended early,     *)
(* with the schema version written and the formats not yet                 *)
(* (persist/sqlite.rs:240), never leaves a file that later attempts        *)
(* refuse.                                                                 *)
EventuallyOpen == ~FromNewerRelease ~> \A o \in Openers : opener[o].status = "open"

==============================================================================
