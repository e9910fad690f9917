----------------------------- MODULE MCProjectReads ----------------------------
(***************************************************************************)
(* Four Cases in two domains with two keys, of which one shared by more    *)
(* than three is too common; graphs of four nodes; and a page that follows *)
(* a project as it is written.                                             *)
(***************************************************************************)
EXTENDS ProjectReads

MCCases == 1..4
Record(domain, status, keys) == [domain |-> domain, status |-> status, keys |-> keys]
MCRecords ==
    {Record("build", "candidate", {"file", "command"}), Record("build", "verified", {"file"}),
     Record("build", "candidate", {"command"}),
     Record("general", "candidate", {"file"})}
MCNodes == 1..4
MCBudgets == [nodes : {1, 2, 4}, edges : {1, 3, 7}]
================================================================================
