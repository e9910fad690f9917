-------------------------- MODULE MCKnowledgeTransfer --------------------------
(***************************************************************************)
(* Two projects; a fingerprint that can be written in two ways, and an      *)
(* empty one; a test report with two failures, one without a name, and a    *)
(* document with a heading.                                                 *)
(***************************************************************************)
EXTENDS KnowledgeTransfer, TLC

CONSTANTS here, there, plain, spaced, blank, o1, o2, k1

MCProjects == {here, there}
MCFingerprints == {plain, blank}
MCSpellings == {plain, spaced, blank}
MCStored == [s \in MCSpellings |-> IF s = blank THEN blank ELSE plain]
Report(op, source, spelling) == [op |-> op, source |-> source, spelling |-> spelling]
MCReports ==
    {Report(op, k1, plain) : op \in {o1, o2}}
        \cup {Report(NoOperation, k1, blank), Report(NoOperation, NoSource, spaced)}
MCMaxRows == One(here, 6) ++ One(there, 4)
TestReport ==
    [json |-> TRUE, headings |-> <<>>, lines |-> <<"{">>,
     tests |-> <<[title |-> "t", failed |-> TRUE], [title |-> "u", failed |-> FALSE],
                [title |-> "", failed |-> TRUE]>>]
Document == [json |-> FALSE, headings |-> <<"h">>, lines |-> <<"h">>, tests |-> <<>>]
MCContents == {TestReport, Document}
MCImporting == {there}
MCSeeded == {here}
MCOperations == {o1, o2}
MCSources == {k1}
Symmetric == Permutations(MCOperations)
================================================================================
