----------------------------- MODULE MCSqliteOpen -----------------------------
(***************************************************************************)
(* Constants for checking SqliteOpen with TLC: a new file, a file of the   *)
(* schema before the first (tests/sqlite_replay.rs:143), a file of this    *)
(* release, and files of releases with a newer schema or a newer format.   *)
(***************************************************************************)
EXTENDS SqliteOpen

File(meta) == [tables |-> Tables, meta |-> meta]

Fresh    == [tables |-> {}, meta |-> [k \in {} |-> 0]]
Older    == File([k \in {"schema_version"} |-> 0])
Current  == File(Release)

NewerIn(key) == File([Release EXCEPT ![key] = @ + 1])

SomeFiles == {Fresh, Older, Current} \cup {NewerIn(key) : key \in Formats \cup {"schema_version"}}

==============================================================================
