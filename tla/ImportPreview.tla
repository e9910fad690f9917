----------------------------- MODULE ImportPreview -----------------------------
(***************************************************************************)
(* Import of documents and test reports: a preview stores what was found   *)
(* in the files as proposals, an apply turns the proposals a caller has    *)
(* selected into candidate knowledge, once, and only while the files still *)
(* have the content that was previewed.                                    *)
(*                                                                         *)
(* A preview acquires its files under the read lock and is stored under    *)
(* the write lock; an apply compares digests of what it acquired.  A file  *)
(* that changes in between has, for both, the content it had when it was   *)
(* read, so that each is one step here.                                    *)
(***************************************************************************)
EXTENDS ProjectGraphs

CONSTANTS
    Contents,       \* what the file of a project may contain, see FileContents
    Importing,      \* bound: the projects that import files
    MaxPreviews,    \* bound: previews
    MaxProposals    \* bound: proposals of one source, 100 in the code

VARIABLES
    file,       \* file[p]: the content of the file that is imported
    previews    \* the previews in order of creation

importVars == <<file, previews>>

(* A file: whether it parses as JSON, the test results in it, its headings, *)
(* and its first line if it has one.                                        *)
FileContents ==
    [json : BOOLEAN, tests : Seq([title : STRING, failed : BOOLEAN]),
     headings : Seq(STRING), lines : Seq(STRING)]

ASSUME ContentsAssumption ==
    /\ \A c \in Contents : c \in FileContents
    /\ Importing \subseteq Projects
    /\ MaxPreviews \in Nat /\ MaxProposals \in Nat

--------------------------------------------------------------------------------
(* parse_content *)

Draft(type, title) == [type |-> type, title |-> title]
Issue(title) == Draft("Problem", IF title = "" THEN "Imported issue" ELSE title)
UpTo(s, n) == SubSeq(s, 1, IF Len(s) < n THEN Len(s) ELSE n)

(* Positions from first to last *)
Order(s) == [n \in 1 .. Cardinality(s) |-> CHOOSE i \in s : Cardinality({j \in s : j < i}) = n - 1]

(* collect_failures: a Problem and an Attempt for each failure *)
Failures(tests) ==
    LET failed == {i \in DOMAIN tests : tests[i].failed} IN
    [k \in 1 .. 2 * Cardinality(failed) |->
        LET title == tests[Order(failed)[(k + 1) \div 2]].title
        IN IF k % 2 = 1 THEN Issue(title) ELSE Draft("Attempt", title)]
(* parse_text: a Problem for each heading, or for the whole text *)
Sections(content) ==
    LET titles == IF content.headings = <<>> THEN UpTo(content.lines, 1) ELSE content.headings
    IN [k \in DOMAIN titles |-> Issue(titles[k])]
(* Reports without a failure are read as text. *)
ParseContent(content) ==
    UpTo(IF content.json /\ Failures(content.tests) # <<>>
         THEN Failures(content.tests) ELSE Sections(content), MaxProposals)

--------------------------------------------------------------------------------
(* preview_import_content and apply_import_content *)

ImportInit ==
    /\ file \in [Importing -> Contents]
    /\ previews = <<>>

Preview(p, content) ==
    [project |-> p, content |-> content, status |-> "pending", expired |-> FALSE]

PreviewImportContent(p) ==
    /\ Len(previews) < MaxPreviews
    /\ previews' = Append(previews, Preview(p, file[p]))
    /\ UNCHANGED <<graphVars, file>>

(* Twenty-four hours pass; of a preview that is applied nothing depends on it. *)
Expire ==
    \E k \in DOMAIN previews :
        /\ previews[k].status = "pending" /\ ~previews[k].expired
        /\ previews' = [previews EXCEPT ![k].expired = TRUE]
        /\ UNCHANGED <<graphVars, file>>

EditFile(p) ==
    /\ file' \in {[file EXCEPT ![p] = content] : content \in Contents}
    /\ UNCHANGED <<graphVars, previews>>

(* An apply accepts a preview of the project that is pending, has not       *)
(* expired, and still describes the file.                                   *)
Fresh24(k) == previews[k].status = "pending" /\ ~previews[k].expired
ApplicableOften(p, k) ==
    /\ previews[k].project = p
    /\ ~previews[k].expired
    /\ previews[k].content = file[p]
Applicable(p, k) ==
    /\ previews[k].project = p
    /\ Fresh24(k)
    /\ previews[k].content = file[p]

(* The selected proposals, in the preview's order (a caller may list them   *)
(* in any), and their titles: one new Case for each                         *)
Selections(k) == {s \in SUBSET (DOMAIN ParseContent(previews[k].content)) : s # {}}
Drafts(k, s) == [n \in DOMAIN Order(s) |-> ParseContent(previews[k].content)[Order(s)[n]]]
FirstWith(drafts, title) ==
    CHOOSE n \in DOMAIN drafts :
        /\ drafts[n].title = title
        /\ \A m \in DOMAIN drafts : drafts[m].title = title => n <= m
Opens(drafts) == {n \in DOMAIN drafts : FirstWith(drafts, drafts[n].title) = n}

(* validate_proposal: a Problem always has a title, an Attempt may not *)
ValidDraft(draft) == draft.title # "" /\ draft.type \in {"Problem", "Attempt"}

(* The ids the apply makes: those of the Cases, then those of the nodes. *)
CaseOf(p, drafts, n) ==
    Fresh(rows[p], p, Cardinality({m \in Opens(drafts) : m <= FirstWith(drafts, drafts[n].title)}))
NodeOf(p, drafts, n) == Fresh(rows[p], p, Cardinality(Opens(drafts)) + n)

NewCases(p, drafts) ==
    [id \in {CaseOf(p, drafts, n) : n \in Opens(drafts)} |-> Row("Case", id, "candidate", NoFingerprint)]
NewNodes(p, drafts) ==
    [id \in {NodeOf(p, drafts, n) : n \in DOMAIN drafts} |->
        LET n == CHOOSE m \in DOMAIN drafts : NodeOf(p, drafts, m) = id
        IN Row(drafts[n].type, CaseOf(p, drafts, n), "candidate", NoFingerprint)]

InAnyCase(drafts, n, m) == TRUE
InOneCase(drafts, n, m) == drafts[n].title = drafts[m].title

(* link_attempts: an Attempt of the import is about the first Problem of it *)
(* in the same Case.                                                        *)
Links(p, drafts) ==
    LET attempts == {n \in DOMAIN drafts : drafts[n].type = "Attempt"}
        problems(n) == {m \in DOMAIN drafts : drafts[m].type = "Problem" /\ InOneCase(drafts, n, m)}
        first(n) == CHOOSE m \in problems(n) : \A l \in problems(n) : m <= l
        linked == {n \in attempts : problems(n) # {}}
        before(n) == Cardinality({m \in linked : m <= n})
    IN [id \in {Fresh(edges[p], p, before(n)) : n \in linked} |->
           LET n == CHOOSE m \in linked : Fresh(edges[p], p, before(m)) = id
           IN Edge(NodeOf(p, drafts, n), "ATTEMPTS_TO_SOLVE", NodeOf(p, drafts, first(n)))]

ImportKey(k, i) == <<k, i>>    \* source kind 'import', "preview:source key"

Apply(p, op, k, s) ==
    LET drafts == Drafts(k, s) IN
    /\ op \notin DOMAIN results[p]
    /\ Applicable(p, k)
    /\ \A n \in DOMAIN drafts : ValidDraft(drafts[n])
    /\ \A i \in s : ImportKey(k, i) \notin DOMAIN sourceKeys[p]
    /\ Room(p, Len(drafts) + Cardinality(Opens(drafts)))
    /\ rows' = [rows EXCEPT ![p] = @ ++ NewCases(p, drafts) ++ NewNodes(p, drafts)]
    /\ edges' = [edges EXCEPT ![p] = @ ++ Links(p, drafts)]
    /\ sourceKeys' = [sourceKeys EXCEPT ![p] =
                        @ ++ [key \in {ImportKey(k, i) : i \in s} |->
                                NodeOf(p, drafts, Cardinality({i \in s : i <= key[2]}))]]
    /\ results' = [results EXCEPT ![p] = @ ++ One(op, Result("apply_import", <<>>))]
    /\ previews' = [previews EXCEPT ![k].status = "applied"]
    /\ published' = TRUE
    /\ UNCHANGED <<fingerprints, confirmed, file>>

ApplyImportContent(p) ==
    \E op \in Operations, k \in DOMAIN previews : \E s \in Selections(k) : Apply(p, op, k, s)

ImportNext == \E p \in Importing : PreviewImportContent(p) \/ ApplyImportContent(p)
FilesNext == Expire \/ \E p \in Importing : EditFile(p)
================================================================================
