--------------------------- MODULE MCDaemonLifecycle ---------------------------
(***************************************************************************)
(* Two clients on their first run, two processes, and a database that is   *)
(* absent, of an old version, current, newer or damaged.                   *)
(***************************************************************************)
EXTENDS DaemonLifecycle

CONSTANT Versions

MCOriginals == {Absent, Damaged(SchemaVersion)} \cup {Existing(v) : v \in Versions}
================================================================================
