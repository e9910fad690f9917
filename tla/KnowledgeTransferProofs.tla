------------------------ MODULE KnowledgeTransferProofs ------------------------
(***************************************************************************)
(* KnowledgeTransfer for any number of projects, archives, imports and     *)
(* spellings.  An id that has passed through projects still has the type   *)
(* its root has in the project that made it: that is what an import relies *)
(* on when it leaves a row alone because the id is there.                  *)
(***************************************************************************)
EXTENDS KnowledgeTransfer, SequenceTheorems, FiniteSetTheorems, TLAPS

IsId(id) == \E S : id \in Seq(S) /\ Len(id) >= 2
Root(id) == <<id[1], id[2]>>
(* Where c is found after it has passed the projects id has passed *)
Follow(c, id) == c \o SubSeq(id, 3, Len(id))

IsRow(row) ==
    /\ row = Row(row.type, row.case, row.status, row.fingerprint)
    /\ row.type \in Types /\ row.status \in Statuses
    /\ row.fingerprint \in Fingerprints \cup {NoFingerprint}

TrustedTypes == {"Case", "RootCause", "Solution", "Verification"}

(* A row of a table, where all are the graphs of the projects *)
GoodRow(all, table, id) ==
    /\ IsId(id)
    /\ id[2] \in Projects /\ Root(id) \in DOMAIN all[id[2]]
    /\ table[id].type = all[id[2]][Root(id)].type
    /\ IsRow(table[id])
    /\ table[id].case = Follow(all[id[2]][Root(id)].case, id)
    /\ table[id].case \in DOMAIN table /\ table[table[id].case].type = "Case"
    /\ table[id].status = "verified" => table[id].type \in TrustedTypes
GoodTable(all, table) == \A id \in DOMAIN table : GoodRow(all, table, id)

(* A fingerprint in a row is known, and known as that row's. *)
Indexed(table, index) ==
    \A id \in DOMAIN table :
        table[id].fingerprint # NoFingerprint =>
            /\ table[id].fingerprint \in DOMAIN index
            /\ index[table[id].fingerprint] = id

PreviewRecords ==
    [project : Projects, content : Contents, status : {"pending", "applied"}, expired : BOOLEAN]
PerProject(f) == f = [p \in Projects |-> f[p]]
Shape == /\ PerProject(rows) /\ PerProject(edges) /\ PerProject(fingerprints)
         /\ PerProject(sourceKeys) /\ PerProject(results)
         /\ previews \in Seq(PreviewRecords) /\ file \in [Importing -> Contents]

TablesInv ==
    /\ \A p \in Projects : GoodTable(rows, rows[p])
    /\ \A a \in archives : GoodTable(rows, a.rows)
(* What a verified row of p rests on, where C is what has been confirmed *)
Trusted(p, table, es, C, id) ==
    /\ table[id].type = "RootCause" => <<p, id>> \in C
    /\ table[id].type = "Solution" =>
          \E x \in DOMAIN es :
              /\ es[x].source = id /\ es[x].relation = "ADDRESSES"
              /\ es[x].target \in DOMAIN table /\ table[es[x].target].type = "RootCause"
              /\ <<p, es[x].target>> \in C
    /\ table[id].type = "Case" =>
          \E r \in DOMAIN table :
              table[r].type = "RootCause" /\ <<p, r>> \in C /\ table[r].case = id
TrustInv ==
    \A p \in Projects : \A id \in Ids(p) :
        rows[p][id].status = "verified" => Trusted(p, rows[p], edges[p], confirmed, id)
IndexInv ==
    /\ \A p \in Projects : Indexed(rows[p], fingerprints[p])
    /\ \A a \in archives : Indexed(a.rows, a.fingerprints)

(* What came of a preview came when it was applied. *)
KeysInv ==
    \A p \in Projects : \A key \in DOMAIN sourceKeys[p] :
        key \notin Sources => /\ key[1] \in DOMAIN previews
                              /\ previews[key[1]].status = "applied"

TransferInv == Shape /\ TablesInv /\ TrustInv /\ IndexInv /\ KeysInv

(* The rows a project has made are numbered without a gap, so that the next *)
(* number is new; every row of a project has come to it last.               *)
Made(p, a, k) == {<<a + n, p>> : n \in 1 .. k}
Numbered(table, p) == \E m \in Nat : Own(table, p) = Made(p, 0, m)
NumbersInv ==
    \A p \in Projects : /\ Numbered(rows[p], p)
                        /\ \A id \in Ids(p) : id[Len(id)] = p

(* What refers to rows of a project, or of an archive, refers to rows in it. *)
Linked(table, es) ==
    \A x \in DOMAIN es :
        /\ IsId(x) /\ {es[x].source, es[x].target} \subseteq DOMAIN table
        /\ table[es[x].source].case = table[es[x].target].case
Referring(table, index) ==
    \A f \in DOMAIN index : f \in Fingerprints /\ index[f] \in DOMAIN table
RefsInv ==
    /\ \A p \in Projects :
          /\ Linked(rows[p], edges[p]) /\ Referring(rows[p], fingerprints[p])
          /\ \A key \in DOMAIN sourceKeys[p] : sourceKeys[p][key] \in Ids(p)
          /\ DOMAIN results[p] \subseteq Operations
    /\ \A a \in archives : Linked(a.rows, a.edges) /\ Referring(a.rows, a.fingerprints)
    /\ published \in BOOLEAN

(* Graphs change in two ways: they grow, and rows change their status. *)
Grows(all, all2) ==
    \A p \in Projects : \A id \in DOMAIN all[p] :
        /\ id \in DOMAIN all2[p]
        /\ all2[p][id].type = all[p][id].type /\ all2[p][id].case = all[p][id].case

SetStatus(table, id, status) == [table EXCEPT ![id].status = status]
RenamedRows(q, table) == Renamed(q, table, ImportedRow)
Extends(table, table2) ==
    \A id \in DOMAIN table : id \in DOMAIN table2 /\ table2[id] = table[id]

--------------------------------------------------------------------------------
LEMMA PairIsId == ASSUME NEW a, NEW b PROVE IsId(<<a, b>>) /\ Root(<<a, b>>) = <<a, b>>
<1>1. <<a, b>> \in Seq({a, b})
  OBVIOUS
<1>2. Len(<<a, b>>) >= 2
  OBVIOUS
<1> QED
  BY <1>1, <1>2 DEF IsId, Root

LEMMA MappedFacts ==
    ASSUME NEW id, IsId(id), NEW q
    PROVE  /\ IsId(Mapped(q, id)) /\ Root(Mapped(q, id)) = Root(id)
           /\ Mapped(q, id)[2] = id[2] /\ Source(Mapped(q, id)) = id
<1>1. PICK S : id \in Seq(S) /\ Len(id) >= 2
  BY DEF IsId
<1> DEFINE T == S \cup {q}
<1>2. id \in Seq(T) /\ q \in T /\ Len(id) \in Nat
  <2>1. id \in Seq(S) /\ Len(id) \in Nat
    BY <1>1
  <2> QED
    BY <2>1
<1> HIDE DEF T
<1>3. /\ Append(id, q) \in Seq(T) /\ Len(Append(id, q)) = Len(id) + 1
      /\ \A i \in 1 .. Len(id) : Append(id, q)[i] = id[i]
  BY <1>2, AppendProperties
<1>4. Append(id, q)[1] = id[1] /\ Append(id, q)[2] = id[2]
  BY <1>1, <1>2, <1>3
<1>5. SubSeq(Append(id, q), 1, Len(Append(id, q)) - 1) = id
  BY <1>2, <1>3
<1> QED
  BY <1>1, <1>2, <1>3, <1>4, <1>5 DEF IsId, Root, Mapped, Source

LEMMA MappedEnd ==
    ASSUME NEW id, IsId(id), NEW q
    PROVE  /\ Mapped(q, id)[Len(Mapped(q, id))] = q
           /\ \A a, b : Mapped(q, id) # <<a, b>>
<1>1. PICK S : id \in Seq(S) /\ Len(id) >= 2
  BY DEF IsId
<1> DEFINE T == S \cup {q}
<1>2. id \in Seq(T) /\ q \in T /\ Len(id) \in Nat
  <2>1. id \in Seq(S) /\ Len(id) \in Nat
    BY <1>1
  <2> QED
    BY <2>1
<1> HIDE DEF T
<1>3. Len(Append(id, q)) = Len(id) + 1 /\ Append(id, q)[Len(id) + 1] = q
  BY <1>2, AppendProperties
<1>4. \A a, b : Len(<<a, b>>) = 2
  OBVIOUS
<1>5. Len(Append(id, q)) # 2
  BY <1>1, <1>2, <1>3
<1> QED
  BY <1>3, <1>4, <1>5 DEF Mapped

LEMMA FollowOwn ==
    ASSUME NEW c, IsId(c), NEW a, NEW b
    PROVE  Follow(c, <<a, b>>) = c
<1>1. PICK S : c \in Seq(S)
  BY DEF IsId
<1>2. <<a, b>> \in Seq({a, b}) /\ Len(<<a, b>>) = 2
  OBVIOUS
<1>3. SubSeq(<<a, b>>, 3, Len(<<a, b>>)) = <<>>
  BY <1>2
<1> QED
  BY <1>1, <1>3 DEF Follow

LEMMA RestLength ==
    ASSUME NEW l \in Nat, l >= 2, NEW r, r = IF 3 <= l THEN l - 3 + 1 ELSE 0
    PROVE  r = l - 2
<1>1. CASE 3 <= l
  BY <1>1
<1>2. CASE ~(3 <= l)
  <2>1. r = 0 /\ l = 2
    BY <1>2
  <2> QED
    BY <2>1
<1> QED
  BY <1>1, <1>2

LEMMA FollowMapped ==
    ASSUME NEW c, IsId(c), NEW id, IsId(id), NEW q
    PROVE  Follow(c, Mapped(q, id)) = Mapped(q, Follow(c, id))
<1>1. PICK S : c \in Seq(S)
  BY DEF IsId
<1>2. PICK S2 : id \in Seq(S2) /\ Len(id) >= 2
  BY DEF IsId
<1> DEFINE T == S \cup S2 \cup {q}
<1>3. c \in Seq(T) /\ id \in Seq(T) /\ q \in T /\ Len(id) \in Nat /\ Len(c) \in Nat
  <2>1. S \subseteq T /\ S2 \subseteq T /\ q \in T
    OBVIOUS
  <2> HIDE DEF T
  <2> QED
    BY <1>1, <1>2, <2>1
<1> HIDE DEF T
<1> DEFINE long == Append(id, q)
           rest == SubSeq(id, 3, Len(id))
           rest2 == SubSeq(long, 3, Len(long))
<1>4. /\ long \in Seq(T) /\ Len(long) = Len(id) + 1
      /\ \A i \in 1 .. Len(id) : long[i] = id[i]
      /\ long[Len(id) + 1] = q
  BY <1>3, AppendProperties
<1> HIDE DEF long
<1>5. /\ rest \in Seq(T) /\ Len(rest) = Len(id) - 2
      /\ \A i \in 1 .. Len(rest) : rest[i] = id[i + 2]
  <2>1. \A i \in 3 .. Len(id) : id[i] \in T
    BY <1>3
  <2>2. Len(id) \in Int /\ 3 \in Int
    BY <1>3
  <2>3. /\ rest \in Seq(T)
        /\ Len(rest) = IF 3 <= Len(id) THEN Len(id) - 3 + 1 ELSE 0
        /\ \A i \in 1 .. Len(id) - 3 + 1 : rest[i] = id[3 + i - 1]
    BY <2>1, <2>2, SubSeqProperties
  <2> HIDE DEF rest
  <2>6. Len(id) \in Nat /\ Len(id) >= 2
    BY <1>2, <1>3
  <2>7. Len(rest) = IF 3 <= Len(id) THEN Len(id) - 3 + 1 ELSE 0
    BY <2>3
  <2>4. Len(rest) = Len(id) - 2
    <3> DEFINE l == Len(id)
               r == Len(rest)
    <3>1. l \in Nat /\ l >= 2 /\ r = IF 3 <= l THEN l - 3 + 1 ELSE 0
      BY <2>6, <2>7
    <3> HIDE DEF l, r
    <3>2. r = l - 2
      BY <3>1, RestLength
    <3> QED
      BY <3>2 DEF l, r
  <2>5. ASSUME NEW i \in 1 .. Len(rest) PROVE rest[i] = id[i + 2]
    <3>1. i \in 1 .. Len(id) - 3 + 1 /\ 3 + i - 1 = i + 2
      BY <1>2, <1>3, <2>4
    <3> QED
      BY <2>3, <3>1
  <2> QED
    BY <2>3, <2>4, <2>5
<1>6. /\ rest2 \in Seq(T) /\ Len(rest2) = Len(id) - 1
      /\ \A i \in 1 .. Len(rest2) : rest2[i] = long[i + 2]
  <2>1. \A i \in 3 .. Len(long) : long[i] \in T
    BY <1>4
  <2>2. Len(long) \in Int /\ 3 \in Int
    BY <1>3, <1>4
  <2>3. /\ rest2 \in Seq(T)
        /\ Len(rest2) = IF 3 <= Len(long) THEN Len(long) - 3 + 1 ELSE 0
        /\ \A i \in 1 .. Len(long) - 3 + 1 : rest2[i] = long[3 + i - 1]
    BY <2>1, <2>2, SubSeqProperties
  <2> HIDE DEF rest2
  <2>4. Len(rest2) = Len(id) - 1
    BY <1>2, <1>3, <1>4, <2>3
  <2> QED
    BY <1>2, <1>3, <1>4, <2>3, <2>4
<1> HIDE DEF rest, rest2
<1>7. rest2 = Append(rest, q)
  <2>1. /\ Append(rest, q) \in Seq(T) /\ Len(Append(rest, q)) = Len(rest) + 1
        /\ \A i \in 1 .. Len(rest) : Append(rest, q)[i] = rest[i]
        /\ Append(rest, q)[Len(rest) + 1] = q
    BY <1>3, <1>5, AppendProperties
  <2>2. Len(rest2) = Len(Append(rest, q))
    BY <1>2, <1>3, <1>5, <1>6, <2>1
  <2>3. ASSUME NEW i \in 1 .. Len(rest2) PROVE rest2[i] = Append(rest, q)[i]
    <3>1. CASE i <= Len(rest)
      <4>1. i \in 1 .. Len(rest) /\ i + 2 \in 1 .. Len(id)
        BY <1>2, <1>3, <1>5, <1>6, <3>1
      <4> QED
        BY <1>4, <1>5, <1>6, <2>1, <4>1
    <3>2. CASE ~(i <= Len(rest))
      <4>1. i = Len(rest) + 1 /\ i + 2 = Len(id) + 1
        BY <1>2, <1>3, <1>5, <1>6, <3>2
      <4> QED
        BY <1>4, <1>6, <2>1, <4>1
    <3> QED
      BY <3>1, <3>2
  <2> QED
    BY <1>6, <2>1, <2>2, <2>3, SeqEqual
<1>8. c \o Append(rest, q) = Append(c \o rest, q)
  <2> DEFINE l == c \o Append(rest, q)
             m == Append(c \o rest, q)
  <2>1. l \in Seq(T) /\ m \in Seq(T) /\ Len(l) = Len(m)
    BY <1>3, <1>5
  <2>2. \A i \in 1 .. Len(l) : l[i] = m[i]
    BY <1>3, <1>5
  <2> HIDE DEF l, m
  <2>3. l = m
    BY <2>1, <2>2, SeqEqual
  <2> QED
    BY <2>3 DEF l, m
<1> QED
  BY <1>7, <1>8 DEF Follow, Mapped, long, rest, rest2

LEMMA AlsoFacts ==
    ASSUME NEW f, NEW g
    PROVE  /\ DOMAIN (f ++ g) = DOMAIN f \cup DOMAIN g
           /\ \A x \in DOMAIN f : (f ++ g)[x] = f[x]
           /\ \A x \in DOMAIN g \ DOMAIN f : (f ++ g)[x] = g[x]
           /\ Extends(f, f ++ g)
BY DEF ++, Extends

(* A row stays good when its table and the graphs grow. *)
LEMMA StaysGood ==
    ASSUME NEW all, NEW all2, Grows(all, all2), NEW table, GoodTable(all, table)
    PROVE  /\ GoodTable(all2, table)
           /\ \A t : Extends(table, t) => \A id \in DOMAIN table : GoodRow(all2, t, id)
<1>1. \A id \in DOMAIN table : /\ Root(id) \in DOMAIN all2[id[2]]
                               /\ all2[id[2]][Root(id)].type = all[id[2]][Root(id)].type
                               /\ all2[id[2]][Root(id)].case = all[id[2]][Root(id)].case
  BY DEF Grows, GoodTable, GoodRow
<1>2. GoodTable(all2, table)
  BY <1>1 DEF GoodTable, GoodRow
<1>3. ASSUME NEW t, Extends(table, t), NEW id \in DOMAIN table PROVE GoodRow(all2, t, id)
  BY <1>2, <1>3 DEF Extends, GoodTable, GoodRow
<1> QED
  BY <1>2, <1>3

(* A row of its own that a project makes is good, if it is in a Case and    *)
(* claims nothing but to be evidence.                                       *)
LEMMA MadeIsGood ==
    ASSUME NEW all, NEW p \in Projects, NEW n, <<n, p>> \in DOMAIN all[p],
           NEW type \in Types, NEW c \in DOMAIN all[p], IsId(c), all[p][c].type = "Case",
           NEW status \in Statuses, status = "verified" => type = "Verification", NEW f \in Fingerprints \cup {NoFingerprint},
           all[p][<<n, p>>] = Row(type, c, status, f)
    PROVE  GoodRow(all, all[p], <<n, p>>)
<1>1. IsId(<<n, p>>) /\ Root(<<n, p>>) = <<n, p>> /\ <<n, p>>[2] = p
  BY PairIsId
<1>2. IsRow(all[p][<<n, p>>])
  BY DEF IsRow, Row
<1>3. /\ all[p][<<n, p>>].type = type /\ all[p][<<n, p>>].status = status
      /\ all[p][<<n, p>>].case = c
  BY DEF Row
<1>4. c = Follow(c, <<n, p>>)
  BY FollowOwn
<1> QED
  BY <1>1, <1>2, <1>3, <1>4 DEF GoodRow, TrustedTypes

(* What an import makes of a row *)
LEMMA ImportedRowFacts ==
    ASSUME NEW q, NEW row, IsRow(row), row.status = "verified" => row.type \in TrustedTypes
    PROVE  LET new == ImportedRow(q, row) IN
           /\ IsRow(new) /\ new.type = row.type /\ new.case = Mapped(q, row.case)
           /\ new.fingerprint = row.fingerprint
           /\ new.status = "verified" => new.type = "Verification"
<1> DEFINE down(type, status) ==
             IF status = "verified" /\ type \in {"Case", "RootCause", "Solution"} THEN "candidate" ELSE status
<1>1. ASSUME NEW type, NEW c, NEW status \in Statuses, NEW f
      PROVE  ImportedRow(q, Row(type, c, status, f)) = Row(type, Mapped(q, c), down(type, status), f)
  <2>1. CASE status = "verified" /\ type \in {"Case", "RootCause", "Solution"}
    BY <2>1 DEF ImportedRow, Downgraded, Row
  <2>2. CASE ~(status = "verified" /\ type \in {"Case", "RootCause", "Solution"})
    BY <2>2 DEF ImportedRow, Downgraded, Row
  <2> QED
    BY <2>1, <2>2
<1>2. /\ row = Row(row.type, row.case, row.status, row.fingerprint)
      /\ row.status \in Statuses
  BY DEF IsRow
<1>3. ImportedRow(q, Row(row.type, row.case, row.status, row.fingerprint)) =
        Row(row.type, Mapped(q, row.case), down(row.type, row.status), row.fingerprint)
  BY <1>1, <1>2
<1>4. ImportedRow(q, row) =
        Row(row.type, Mapped(q, row.case), down(row.type, row.status), row.fingerprint)
  BY <1>2, <1>3
<1>5. /\ down(row.type, row.status) \in Statuses
      /\ down(row.type, row.status) = "verified" => row.type = "Verification"
  BY <1>2 DEF Statuses, TrustedTypes
<1> HIDE DEF down
<1> QED
  BY <1>2, <1>4, <1>5 DEF IsRow, Row

LEMMA RenamedFacts ==
    ASSUME NEW all, NEW q, NEW table, GoodTable(all, table)
    PROVE  /\ \A id : id \in DOMAIN RenamedRows(q, table) <=> \E y \in DOMAIN table : id = Mapped(q, y)
           /\ \A y \in DOMAIN table : RenamedRows(q, table)[Mapped(q, y)] = ImportedRow(q, table[y])
<1> DEFINE more == RenamedRows(q, table)
<1>1. more = [id \in {Mapped(q, y) : y \in DOMAIN table} |-> ImportedRow(q, table[Source(id)])]
  BY DEF RenamedRows, Renamed
<1>2. \A y \in DOMAIN table : Source(Mapped(q, y)) = y
  BY MappedFacts DEF GoodTable, GoodRow
<1> HIDE DEF more
<1>3. /\ \A id : id \in DOMAIN more <=> \E y \in DOMAIN table : id = Mapped(q, y)
      /\ \A y \in DOMAIN table : more[Mapped(q, y)] = ImportedRow(q, table[y])
  BY <1>1, <1>2
<1> QED
  BY <1>3 DEF more

(* An imported row is good: its type is its root's, its Case has come with  *)
(* it or was there as a Case, and it claims nothing.                        *)
LEMMA ImportedIsGood ==
    ASSUME NEW all, NEW all2, Grows(all, all2), NEW q \in Projects,
           \A r \in Projects : GoodTable(all, all[r]), NEW table, GoodTable(all, table),
           NEW more, all2[q] = all[q] ++ more,
           \A y \in DOMAIN table : /\ Mapped(q, y) \in DOMAIN more
                                   /\ more[Mapped(q, y)] = ImportedRow(q, table[y]),
           NEW x \in DOMAIN table, Mapped(q, x) \notin DOMAIN all[q]
    PROVE  /\ GoodRow(all2, all2[q], Mapped(q, x))
           /\ all2[q][Mapped(q, x)].status = "verified" => all2[q][Mapped(q, x)].type = "Verification"
           /\ all2[q][Mapped(q, x)] = ImportedRow(q, table[x])
<1>8. /\ DOMAIN all2[q] = DOMAIN all[q] \cup DOMAIN more
      /\ \A y \in DOMAIN all[q] : all2[q][y] = all[q][y]
      /\ \A y \in DOMAIN more \ DOMAIN all[q] : all2[q][y] = more[y]
  BY DEF ++
<1> DEFINE row == table[x]
           id == Mapped(q, x)
<1>3. GoodRow(all2, table, x) /\ GoodTable(all2, table)
  BY StaysGood DEF GoodTable
<1>4. all2[q][id] = ImportedRow(q, row) /\ id \in DOMAIN all2[q]
  BY <1>8
<1>5. /\ IsRow(all2[q][id]) /\ all2[q][id].type = row.type
      /\ all2[q][id].case = Mapped(q, row.case)
      /\ all2[q][id].status = "verified" => all2[q][id].type = "Verification"
  <2>1. IsRow(row) /\ (row.status = "verified" => row.type \in TrustedTypes)
    BY <1>3 DEF GoodRow
  <2> HIDE DEF row
  <2> QED
    BY <1>4, <2>1, ImportedRowFacts
<1>6. /\ IsId(id) /\ Root(id) = Root(x) /\ id[2] = x[2]
  BY <1>3, MappedFacts DEF GoodRow
<1>7. /\ Mapped(q, row.case) \in DOMAIN all2[q]
      /\ all2[q][Mapped(q, row.case)].type = "Case"
  <2> DEFINE c == row.case
  <2>1. c \in DOMAIN table /\ table[c].type = "Case"
    BY <1>3 DEF GoodRow
  <2> HIDE DEF c
  <2>2. /\ IsId(c) /\ Root(Mapped(q, c)) = Root(c) /\ Mapped(q, c)[2] = c[2]
        /\ all[c[2]][Root(c)].type = "Case"
    BY <2>1, MappedFacts DEF GoodTable, GoodRow
  <2>3. Mapped(q, c) \in DOMAIN more /\ more[Mapped(q, c)] = ImportedRow(q, table[c])
    BY <2>1
  <2>4. CASE Mapped(q, c) \in DOMAIN all[q]
    <3>1. all[q][Mapped(q, c)].type = "Case"
      BY <2>2, <2>4 DEF GoodTable, GoodRow
    <3> QED
      BY <1>8, <2>4, <3>1 DEF c
  <2>5. CASE Mapped(q, c) \notin DOMAIN all[q]
    <3>1. all2[q][Mapped(q, c)] = ImportedRow(q, table[c]) /\ Mapped(q, c) \in DOMAIN all2[q]
      BY <1>8, <2>3, <2>5
    <3>2. IsRow(table[c]) /\ (table[c].status = "verified" => table[c].type \in TrustedTypes)
      BY <2>1 DEF GoodTable, GoodRow
    <3>3. ImportedRow(q, table[c]).type = table[c].type
      BY <3>2, ImportedRowFacts
    <3> QED
      BY <2>1, <3>1, <3>3 DEF c
  <2> QED
    BY <2>4, <2>5
<1>9. Mapped(q, row.case) = Follow(all2[id[2]][Root(id)].case, id)
  <2> DEFINE c == all[x[2]][Root(x)].case
  <2>1. /\ x[2] \in Projects /\ Root(x) \in DOMAIN all[x[2]] /\ row.case = Follow(c, x) /\ IsId(x)
    BY DEF GoodTable, GoodRow
  <2>2. IsId(c)
    BY <2>1 DEF GoodTable, GoodRow
  <2>3. all2[x[2]][Root(x)].case = c
    BY <2>1 DEF Grows
  <2> HIDE DEF c
  <2>4. Follow(c, id) = Mapped(q, row.case)
    BY <2>1, <2>2, FollowMapped
  <2> QED
    BY <1>6, <2>3, <2>4
<1> QED
  BY <1>3, <1>4, <1>5, <1>6, <1>7, <1>9 DEF GoodRow, TrustedTypes

--------------------------------------------------------------------------------
(* What refers to rows *)
Keeps(table, t) ==
    \A id \in DOMAIN table : id \in DOMAIN t /\ t[id].case = table[id].case
KeysReferring(table, keys) == \A key \in DOMAIN keys : keys[key] \in DOMAIN table

LEMMA ReferencesStay ==
    ASSUME NEW table, NEW t, Keeps(table, t), NEW es, NEW index, NEW keys
    PROVE  /\ Linked(table, es) => Linked(t, es)
           /\ Referring(table, index) => Referring(t, index)
           /\ KeysReferring(table, keys) => KeysReferring(t, keys)
BY DEF Keeps, Linked, Referring, KeysReferring

LEMMA AddedTogether ==
    ASSUME NEW t
    PROVE  /\ \A es, more : Linked(t, es) /\ Linked(t, more) => Linked(t, es ++ more)
           /\ \A es, more : Referring(t, es) /\ Referring(t, more) => Referring(t, es ++ more)
           /\ \A es, more : KeysReferring(t, es) /\ KeysReferring(t, more) => KeysReferring(t, es ++ more)
<1>1. ASSUME NEW es, NEW more, Linked(t, es), Linked(t, more) PROVE Linked(t, es ++ more)
  <2> DEFINE all == es ++ more
  <2>3. /\ DOMAIN all = DOMAIN es \cup DOMAIN more
        /\ \A x \in DOMAIN es : all[x] = es[x]
        /\ \A x \in DOMAIN more \ DOMAIN es : all[x] = more[x]
    BY AlsoFacts
  <2> HIDE DEF all
  <2>1. \A x \in DOMAIN all :
           \/ x \in DOMAIN es /\ all[x] = es[x]
           \/ x \in DOMAIN more /\ all[x] = more[x]
    BY <2>3
  <2>2. Linked(t, all)
    BY <1>1, <2>1 DEF Linked
  <2> QED
    BY <2>2 DEF all
<1>2. ASSUME NEW es, NEW more, Referring(t, es), Referring(t, more) PROVE Referring(t, es ++ more)
  BY <1>2 DEF Referring, ++
<1>3. ASSUME NEW es, NEW more, KeysReferring(t, es), KeysReferring(t, more)
      PROVE  KeysReferring(t, es ++ more)
  BY <1>3 DEF KeysReferring, ++
<1> QED
  BY <1>1, <1>2, <1>3

(* A step of one project *)
LEMMA RefsExtend ==
    ASSUME Shape, RefsInv, NEW p \in Projects,
           NEW t, rows' = [rows EXCEPT ![p] = t], Keeps(rows[p], t),
           NEW es, edges' = [edges EXCEPT ![p] = es], Linked(t, es),
           NEW index, fingerprints' = [fingerprints EXCEPT ![p] = index], Referring(t, index),
           NEW keys, sourceKeys' = [sourceKeys EXCEPT ![p] = keys], KeysReferring(t, keys),
           NEW stored, results' = [results EXCEPT ![p] = stored], DOMAIN stored \subseteq Operations,
           UNCHANGED archives, published' \in BOOLEAN
    PROVE  RefsInv'
<1>1. /\ rows' = [q \in Projects |-> IF q = p THEN t ELSE rows[q]]
      /\ edges' = [q \in Projects |-> IF q = p THEN es ELSE edges[q]]
      /\ fingerprints' = [q \in Projects |-> IF q = p THEN index ELSE fingerprints[q]]
      /\ sourceKeys' = [q \in Projects |-> IF q = p THEN keys ELSE sourceKeys[q]]
      /\ results' = [q \in Projects |-> IF q = p THEN stored ELSE results[q]]
  BY DEF Shape, PerProject
<1>2. ASSUME NEW q \in Projects
      PROVE  /\ Linked(rows'[q], edges'[q]) /\ Referring(rows'[q], fingerprints'[q])
             /\ \A key \in DOMAIN sourceKeys'[q] : sourceKeys'[q][key] \in DOMAIN rows'[q]
             /\ DOMAIN results'[q] \subseteq Operations
  <2>1. CASE q = p
    BY <1>1, <2>1 DEF KeysReferring
  <2>2. CASE q # p
    BY <1>1, <2>2 DEF RefsInv, Ids
  <2> QED
    BY <2>1, <2>2
<1>3. \A a \in archives' : Linked(a.rows, a.edges) /\ Referring(a.rows, a.fingerprints)
  BY DEF RefsInv
<1> QED
  BY <1>2, <1>3 DEF RefsInv, Ids

LEMMA KeepsItself == \A table : Keeps(table, table)
BY DEF Keeps

LEMMA UnchangedParts ==
    ASSUME Shape, NEW p \in Projects
    PROVE  /\ UNCHANGED rows => rows' = [rows EXCEPT ![p] = rows[p]]
           /\ UNCHANGED edges => edges' = [edges EXCEPT ![p] = edges[p]]
           /\ UNCHANGED fingerprints => fingerprints' = [fingerprints EXCEPT ![p] = fingerprints[p]]
           /\ UNCHANGED sourceKeys => sourceKeys' = [sourceKeys EXCEPT ![p] = sourceKeys[p]]
           /\ UNCHANGED results => results' = [results EXCEPT ![p] = results[p]]
<1>1. ASSUME NEW f, PerProject(f) PROVE [f EXCEPT ![p] = f[p]] = f
  BY <1>1 DEF PerProject
<1> QED
  BY <1>1 DEF Shape

LEMMA WithMember ==
    ASSUME NEW table, NEW key, NEW value, NEW none
    PROVE  /\ DOMAIN With(table, key, value, none) \subseteq DOMAIN table \cup ({key} \ {none})
           /\ \A x \in DOMAIN With(table, key, value, none) :
                 \/ x \in DOMAIN table /\ With(table, key, value, none)[x] = table[x]
                 \/ With(table, key, value, none)[x] = value
BY DEF With, ++, One

(* A step that changes the status of rows, or adds evidence *)
LEMMA RestatusRefs ==
    ASSUME TransferInv, RefsInv, NEW p \in Projects,
           NEW t, rows' = [rows EXCEPT ![p] = t], Keeps(rows[p], t),
           NEW es, edges' = [edges EXCEPT ![p] = es], Linked(t, es),
           UNCHANGED <<fingerprints, sourceKeys, results, archives>>, published' \in BOOLEAN
    PROVE  RefsInv'
<1>1. /\ Referring(rows[p], fingerprints[p])
      /\ KeysReferring(rows[p], sourceKeys[p]) /\ DOMAIN results[p] \subseteq Operations
  BY DEF RefsInv, Ids, KeysReferring
<1>2. Referring(t, fingerprints[p]) /\ KeysReferring(t, sourceKeys[p])
  BY <1>1, ReferencesStay
<1>3. Shape
  BY DEF TransferInv
<1>4. /\ fingerprints' = [fingerprints EXCEPT ![p] = fingerprints[p]]
      /\ sourceKeys' = [sourceKeys EXCEPT ![p] = sourceKeys[p]]
      /\ results' = [results EXCEPT ![p] = results[p]]
  BY <1>3, UnchangedParts
<1> QED
  BY <1>1, <1>2, <1>3, <1>4, RefsExtend

(* What is trusted stays trusted while the graph only grows. *)
LEMMA TrustedStays ==
    ASSUME NEW p, NEW table, NEW t, NEW es, NEW es2, Extends(es, es2), NEW C, NEW C2, C \subseteq C2,
           \A id \in DOMAIN table :
              id \in DOMAIN t /\ t[id].type = table[id].type /\ t[id].case = table[id].case,
           NEW id \in DOMAIN table, Trusted(p, table, es, C, id)
    PROVE  Trusted(p, t, es2, C2, id)
<1>1. t[id].type = "Solution" =>
        \E x \in DOMAIN es2 :
            /\ es2[x].source = id /\ es2[x].relation = "ADDRESSES"
            /\ es2[x].target \in DOMAIN t /\ t[es2[x].target].type = "RootCause"
            /\ <<p, es2[x].target>> \in C2
  BY DEF Trusted, Extends
<1>2. t[id].type = "Case" =>
        \E r \in DOMAIN t : t[r].type = "RootCause" /\ <<p, r>> \in C2 /\ t[r].case = id
  BY DEF Trusted
<1>3. t[id].type = "RootCause" => <<p, id>> \in C2
  BY DEF Trusted
<1> QED
  BY <1>1, <1>2, <1>3 DEF Trusted

(* A step that adds rows to one project *)
LEMMA ExtensionGrows ==
    ASSUME PerProject(rows), NEW p \in Projects, NEW t, rows' = [rows EXCEPT ![p] = t], Extends(rows[p], t)
    PROVE  /\ PerProject(rows)' /\ Grows(rows, rows')
           /\ rows'[p] = t /\ \A q \in Projects \ {p} : rows'[q] = rows[q]
<1>1. rows' = [q \in Projects |-> IF q = p THEN t ELSE rows[q]]
  BY DEF PerProject
<1> QED
  BY <1>1 DEF PerProject, Grows, Extends

LEMMA ExtensionKeeps ==
    ASSUME PerProject(rows), PerProject(edges), TablesInv, TrustInv,
           NEW p \in Projects, NEW t, rows' = [rows EXCEPT ![p] = t], Extends(rows[p], t),
           NEW es, edges' = [edges EXCEPT ![p] = es], Extends(edges[p], es),
           \A id \in DOMAIN t \ DOMAIN rows[p] :
              GoodRow(rows', t, id) /\ (t[id].status = "verified" => t[id].type = "Verification"),
           UNCHANGED <<archives, confirmed>>
    PROVE  TablesInv' /\ TrustInv'
<1>1. /\ Grows(rows, rows') /\ rows'[p] = t
      /\ \A q \in Projects \ {p} : rows'[q] = rows[q]
  BY ExtensionGrows
<1>2. ASSUME NEW q \in Projects PROVE GoodTable(rows', rows'[q])
  <2>1. CASE q = p
    <3>1. \A id \in DOMAIN rows[p] : GoodRow(rows', t, id)
      BY <1>1, StaysGood DEF TablesInv
    <3> QED
      BY <1>1, <2>1, <3>1 DEF GoodTable
  <2>2. CASE q # p
    BY <1>1, <2>2, StaysGood DEF TablesInv
  <2> QED
    BY <2>1, <2>2
<1>3. \A a \in archives' : GoodTable(rows', a.rows)
  BY <1>1, StaysGood DEF TablesInv
<1>4. edges'[p] = es /\ \A q \in Projects \ {p} : edges'[q] = edges[q]
  BY DEF PerProject
<1>5. ASSUME NEW id \in DOMAIN t, t[id].status = "verified" PROVE Trusted(p, t, es, confirmed, id)
  <2>1. CASE id \in DOMAIN rows[p]
    <3>1. rows[p][id].status = "verified"
      BY <1>5, <2>1 DEF Extends
    <3>2. Trusted(p, rows[p], edges[p], confirmed, id)
      BY <2>1, <3>1 DEF TrustInv, Ids
    <3>3. \A x \in DOMAIN rows[p] :
             x \in DOMAIN t /\ t[x].type = rows[p][x].type /\ t[x].case = rows[p][x].case
      BY DEF Extends
    <3> QED
      BY <2>1, <3>2, <3>3, TrustedStays
  <2>2. CASE id \notin DOMAIN rows[p]
    BY <1>5, <2>2 DEF Trusted
  <2> QED
    BY <2>1, <2>2
<1>6. TrustInv'
  <2> SUFFICES ASSUME NEW q \in Projects, NEW id \in DOMAIN rows'[q], rows'[q][id].status = "verified"
               PROVE  Trusted(q, rows'[q], edges'[q], confirmed, id)
    BY DEF TrustInv, Ids
  <2> QED
    BY <1>1, <1>4, <1>5 DEF TrustInv, Ids
<1> QED
  BY <1>2, <1>3, <1>6 DEF TablesInv

LEMMA ExtensionIndexed ==
    ASSUME PerProject(rows), PerProject(fingerprints), IndexInv,
           NEW p \in Projects, NEW t, rows' = [rows EXCEPT ![p] = t], Extends(rows[p], t),
           NEW u, fingerprints' = [fingerprints EXCEPT ![p] = u], Extends(fingerprints[p], u),
           \A id \in DOMAIN t \ DOMAIN rows[p] :
              t[id].fingerprint # NoFingerprint => /\ t[id].fingerprint \in DOMAIN u
                                                   /\ u[t[id].fingerprint] = id,
           UNCHANGED archives
    PROVE  IndexInv' /\ PerProject(fingerprints)'
<1>1. rows'[p] = t /\ \A q \in Projects \ {p} : rows'[q] = rows[q]
  BY ExtensionGrows
<1>2. fingerprints' = [q \in Projects |-> IF q = p THEN u ELSE fingerprints[q]]
  BY DEF PerProject
<1>3. Indexed(t, u)
  BY DEF Indexed, IndexInv, Extends
<1>4. \A q \in Projects : Indexed(rows'[q], fingerprints'[q])
  BY <1>1, <1>2, <1>3 DEF IndexInv
<1> QED
  BY <1>2, <1>4 DEF IndexInv, PerProject

(* A step that changes the status of rows of one project, or adds evidence *)
LEMMA RestatusKeeps ==
    ASSUME PerProject(rows), PerProject(edges), TablesInv, TrustInv, IndexInv,
           NEW p \in Projects, NEW t, rows' = [rows EXCEPT ![p] = t],
           NEW es, edges' = [edges EXCEPT ![p] = es], Extends(edges[p], es),
           \A id \in DOMAIN rows[p] :
              /\ id \in DOMAIN t /\ IsRow(t[id])
              /\ t[id].type = rows[p][id].type /\ t[id].case = rows[p][id].case
              /\ t[id].fingerprint = rows[p][id].fingerprint
              /\ t[id].status = "verified" =>
                    \/ rows[p][id].status = "verified"
                    \/ Trusted(p, t, es, confirmed', id) /\ t[id].type \in TrustedTypes,
           \A id \in DOMAIN t \ DOMAIN rows[p] :
              GoodRow(rows', t, id) /\ t[id].type = "Verification" /\ t[id].fingerprint = NoFingerprint,
           confirmed \subseteq confirmed', UNCHANGED <<archives, fingerprints>>
    PROVE  TablesInv' /\ TrustInv' /\ IndexInv' /\ PerProject(rows)'
<1>1. rows' = [q \in Projects |-> IF q = p THEN t ELSE rows[q]]
  BY DEF PerProject
<1>2. Grows(rows, rows')
  BY <1>1 DEF Grows
<1>3. GoodTable(rows, rows[p]) /\ GoodTable(rows', rows[p])
  BY <1>2, StaysGood DEF TablesInv
<1>4. ASSUME NEW id \in DOMAIN t PROVE GoodRow(rows', t, id)
  <2> SUFFICES ASSUME id \in DOMAIN rows[p] PROVE GoodRow(rows', t, id)
    OBVIOUS
  <2>1. GoodRow(rows', rows[p], id) /\ GoodRow(rows, rows[p], id)
    BY <1>3 DEF GoodTable
  <2>2. IsRow(t[id]) /\ t[id].type = rows[p][id].type /\ t[id].case = rows[p][id].case
    OBVIOUS
  <2>3. t[id].case \in DOMAIN t /\ t[t[id].case].type = "Case"
    BY <2>1, <2>2 DEF GoodRow
  <2>4. t[id].status = "verified" => t[id].type \in TrustedTypes
    BY <2>1, <2>2 DEF GoodRow
  <2> QED
    BY <2>1, <2>2, <2>3, <2>4 DEF GoodRow
<1>5. \A q \in Projects : GoodTable(rows', rows'[q])
  BY <1>1, <1>2, <1>4, StaysGood DEF TablesInv, GoodTable
<1>6. \A a \in archives' : GoodTable(rows', a.rows)
  BY <1>2, StaysGood DEF TablesInv
<1>7. TrustInv'
  <2>1. edges'[p] = es /\ \A q \in Projects \ {p} : edges'[q] = edges[q]
    BY DEF PerProject
  <2>2. ASSUME NEW id \in DOMAIN t, t[id].status = "verified"
        PROVE  Trusted(p, t, es, confirmed', id)
    <3>1. CASE id \in DOMAIN rows[p] /\ rows[p][id].status = "verified"
      <4>1. Trusted(p, rows[p], edges[p], confirmed, id)
        BY <3>1 DEF TrustInv, Ids
      <4> QED
        BY <3>1, <4>1, TrustedStays
    <3>2. CASE id \in DOMAIN rows[p] /\ rows[p][id].status # "verified"
      BY <2>2, <3>2
    <3>3. CASE id \notin DOMAIN rows[p]
      BY <3>3 DEF Trusted
    <3> QED
      BY <3>1, <3>2, <3>3
  <2>3. ASSUME NEW q \in Projects, q # p, NEW id \in DOMAIN rows[q], rows[q][id].status = "verified"
        PROVE  Trusted(q, rows[q], edges[q], confirmed', id)
    <3>1. Trusted(q, rows[q], edges[q], confirmed, id)
      BY <2>3 DEF TrustInv, Ids
    <3>2. Extends(edges[q], edges[q])
      BY DEF Extends
    <3> QED
      BY <3>1, <3>2, TrustedStays
  <2> SUFFICES ASSUME NEW q \in Projects, NEW id \in DOMAIN rows'[q], rows'[q][id].status = "verified"
               PROVE  Trusted(q, rows'[q], edges'[q], confirmed', id)
    BY DEF TrustInv, Ids
  <2>4. CASE q = p
    BY <1>1, <2>1, <2>2, <2>4
  <2>5. CASE q # p
    BY <1>1, <2>1, <2>3, <2>5
  <2> QED
    BY <2>4, <2>5
<1>8. IndexInv'
  <2>1. Indexed(t, fingerprints[p])
    <3>1. Indexed(rows[p], fingerprints[p])
      BY DEF IndexInv
    <3> QED
      BY <3>1 DEF Indexed
  <2>2. \A q \in Projects : Indexed(rows'[q], fingerprints'[q])
    BY <1>1, <2>1 DEF IndexInv
  <2> QED
    BY <2>2 DEF IndexInv
<1>9. PerProject(rows)'
  BY <1>1 DEF PerProject
<1> QED
  BY <1>5, <1>6, <1>7, <1>8, <1>9 DEF TablesInv

LEMMA StatusSet ==
    ASSUME NEW table, \A id \in DOMAIN table : IsRow(table[id]),
           NEW s \in DOMAIN table, NEW status \in Statuses
    PROVE  LET t == SetStatus(table, s, status) IN
           /\ DOMAIN t = DOMAIN table
           /\ \A id \in DOMAIN table :
                 /\ IsRow(t[id]) /\ t[id].type = table[id].type /\ t[id].case = table[id].case
                 /\ t[id].fingerprint = table[id].fingerprint
                 /\ t[id].status = IF id = s THEN status ELSE table[id].status
<1> DEFINE t == SetStatus(table, s, status)
<1>1. ASSUME NEW type, NEW c, NEW old, NEW f
      PROVE  [Row(type, c, old, f) EXCEPT !.status = status] = Row(type, c, status, f)
  BY DEF Row
<1> DEFINE row == table[s]
<1>2. row = Row(row.type, row.case, row.status, row.fingerprint)
  BY DEF IsRow
<1> DEFINE new == [row EXCEPT !.status = status]
<1>3. new = Row(row.type, row.case, status, row.fingerprint)
  BY <1>1, <1>2
<1>4. t = [id \in DOMAIN table |-> IF id = s THEN new ELSE table[id]]
  BY DEF SetStatus
<1> HIDE DEF new, t
<1>5. DOMAIN t = DOMAIN table /\ t[s] = new /\ \A id \in DOMAIN table \ {s} : t[id] = table[id]
  BY <1>4
<1>6. /\ DOMAIN t = DOMAIN table
      /\ \A id \in DOMAIN table :
            /\ IsRow(t[id]) /\ t[id].type = table[id].type /\ t[id].case = table[id].case
            /\ t[id].fingerprint = table[id].fingerprint
            /\ t[id].status = IF id = s THEN status ELSE table[id].status
  BY <1>3, <1>5 DEF IsRow, Row
<1> QED
  BY <1>6 DEF t

(* A promotion verifies a Solution that has its evidence, and its Case. *)
LEMMA EvaluatedFacts ==
    ASSUME NEW table, \A id \in DOMAIN table : IsRow(table[id]), NEW es,
           NEW c \in DOMAIN table, NEW t \in Evaluated(table, es, c)
    PROVE  /\ DOMAIN t = DOMAIN table
           /\ \A id \in DOMAIN table :
                 /\ IsRow(t[id]) /\ t[id].type = table[id].type /\ t[id].case = table[id].case
                 /\ t[id].fingerprint = table[id].fingerprint
                 /\ \/ t[id] = table[id]
                    \/ /\ t[id].status = "verified"
                       /\ \E s \in Promotable(table, es, c) : id \in {s, c}
<1>1. CASE t = table
  BY <1>1
<1>2. CASE t # table
  <2>1. PICK s \in Promotable(table, es, c) :
          t = [table EXCEPT ![s].status = "verified", ![c].status = "verified"]
    BY <1>2 DEF Evaluated, Newest
  <2> DEFINE t1 == SetStatus(table, s, "verified")
  <2>2. t = SetStatus(t1, c, "verified")
    BY <2>1 DEF SetStatus
  <2>3. s \in DOMAIN table /\ "verified" \in Statuses
    BY DEF Promotable, Statuses
  <2>4. /\ DOMAIN t1 = DOMAIN table
        /\ \A id \in DOMAIN table :
              /\ IsRow(t1[id]) /\ t1[id].type = table[id].type /\ t1[id].case = table[id].case
              /\ t1[id].fingerprint = table[id].fingerprint
              /\ t1[id].status = IF id = s THEN "verified" ELSE table[id].status
    BY <2>3, StatusSet
  <2>5. \A id \in DOMAIN table \ {s} : t1[id] = table[id]
    BY DEF SetStatus
  <2> HIDE DEF t1
  <2>6. /\ DOMAIN t = DOMAIN t1
        /\ \A id \in DOMAIN t1 :
              /\ IsRow(t[id]) /\ t[id].type = t1[id].type /\ t[id].case = t1[id].case
              /\ t[id].fingerprint = t1[id].fingerprint
              /\ t[id].status = IF id = c THEN "verified" ELSE t1[id].status
    BY <2>2, <2>3, <2>4, StatusSet
  <2>7. \A id \in DOMAIN t1 \ {c} : t[id] = t1[id]
    BY <2>2 DEF SetStatus
  <2> QED
    BY <2>4, <2>5, <2>6, <2>7
<1> QED
  BY <1>1, <1>2

(* The root cause of what may be promoted is verified, and in its Case. *)
LEMMA PromotableCause ==
    ASSUME NEW table, NEW es, Linked(table, es), NEW c, NEW s \in Promotable(table, es, c)
    PROVE  /\ s \in DOMAIN table /\ table[s].type = "Solution" /\ table[s].case = c
           /\ \E x \in DOMAIN es :
                 /\ es[x].source = s /\ es[x].relation = "ADDRESSES" /\ es[x].target \in DOMAIN table
                 /\ table[es[x].target].type = "RootCause" /\ table[es[x].target].status = "verified"
                 /\ table[es[x].target].case = c
<1>1. s \in DOMAIN table /\ table[s].type = "Solution" /\ table[s].case = c /\ Eligible(table, es, s)
  BY DEF Promotable
<1>2. PICK cause \in Range(es) :
        /\ cause.source = s /\ cause.relation = "ADDRESSES"
        /\ table[cause.target].type = "RootCause" /\ table[cause.target].status = "verified"
  BY <1>1 DEF Eligible
<1>3. PICK x \in DOMAIN es : cause = es[x]
  BY DEF Range
<1>4. cause.target \in DOMAIN table /\ table[cause.source].case = table[cause.target].case
  BY <1>3 DEF Linked
<1> QED
  BY <1>1, <1>2, <1>3, <1>4

--------------------------------------------------------------------------------
LEMMA SeedsAreGood ==
    ASSUME NEW p \in Projects, NEW all, all[p] = Seeds(p)
    PROVE  /\ GoodTable(all, all[p])
           /\ DOMAIN all[p] = {<<1, p>>, <<2, p>>, <<3, p>>, <<4, p>>, <<5, p>>}
           /\ \A id \in DOMAIN all[p] :
                 /\ all[p][id].status # "verified" /\ all[p][id].fingerprint = NoFingerprint
                 /\ all[p][id].case = <<1, p>>
<1> DEFINE c == <<1, p>>
           t == all[p]
<1>1. /\ DOMAIN t = {c, <<2, p>>, <<3, p>>, <<4, p>>, <<5, p>>}
      /\ t[c] = Row("Case", c, "open", NoFingerprint)
      /\ t[<<2, p>>] = Row("Problem", c, "open", NoFingerprint)
      /\ t[<<3, p>>] = Row("RootCause", c, "candidate", NoFingerprint)
      /\ \A s \in {<<4, p>>, <<5, p>>} : t[s] = Row("Solution", c, "candidate", NoFingerprint)
  <2> DEFINE first == One(c, Row("Case", c, "open", NoFingerprint))
             second == One(<<2, p>>, Row("Problem", c, "open", NoFingerprint))
             third == One(<<3, p>>, Row("RootCause", c, "candidate", NoFingerprint))
             rest == [s \in {<<4, p>>, <<5, p>>} |-> Row("Solution", c, "candidate", NoFingerprint)]
             two == first ++ second
             three == two ++ third
  <2>1. t = three ++ rest
    BY DEF Seeds
  <2>2. /\ <<1, p>> # <<2, p>> /\ <<1, p>> # <<3, p>> /\ <<1, p>> # <<4, p>> /\ <<1, p>> # <<5, p>>
        /\ <<2, p>> # <<3, p>> /\ <<2, p>> # <<4, p>> /\ <<2, p>> # <<5, p>>
        /\ <<3, p>> # <<4, p>> /\ <<3, p>> # <<5, p>>
    OBVIOUS
  <2> HIDE DEF t
  <2>3. /\ DOMAIN two = {c, <<2, p>>} /\ two[c] = Row("Case", c, "open", NoFingerprint)
        /\ two[<<2, p>>] = Row("Problem", c, "open", NoFingerprint)
    BY <2>2 DEF ++, One
  <2> HIDE DEF two
  <2>4. /\ DOMAIN three = {c, <<2, p>>, <<3, p>>} /\ three[c] = two[c]
        /\ three[<<2, p>>] = two[<<2, p>>]
        /\ three[<<3, p>>] = Row("RootCause", c, "candidate", NoFingerprint)
    BY <2>2, <2>3 DEF ++, One
  <2> HIDE DEF three
  <2>5. /\ DOMAIN t = DOMAIN three \cup {<<4, p>>, <<5, p>>}
        /\ \A id \in DOMAIN three : t[id] = three[id]
        /\ \A s \in {<<4, p>>, <<5, p>>} : t[s] = Row("Solution", c, "candidate", NoFingerprint)
    BY <2>1, <2>2, <2>4 DEF ++
  <2> QED
    BY <2>3, <2>4, <2>5
<1> HIDE DEF t
<1>2. \A id \in DOMAIN t : IsId(id) /\ Root(id) = id /\ id[2] = p
  BY <1>1, PairIsId
<1>3. \A id \in DOMAIN t : /\ IsRow(t[id]) /\ t[id].status # "verified" /\ t[id].case = c
                            /\ t[id].fingerprint = NoFingerprint
  BY <1>1 DEF IsRow, Row, Statuses, Types
<1>4. c \in DOMAIN t /\ t[c].type = "Case"
  BY <1>1 DEF Row
<1>6. \A id \in DOMAIN t : Follow(c, id) = c
  BY <1>1, FollowOwn, PairIsId
<1>5. \A id \in DOMAIN t : GoodRow(all, t, id)
  <2> HIDE DEF c
  <2> QED
    BY <1>2, <1>3, <1>4, <1>6 DEF GoodRow, t
<1> QED
  BY <1>1, <1>3, <1>5 DEF GoodTable, t

LEMMA SeedsAreNumbered ==
    ASSUME NEW p, NEW t, DOMAIN t = {<<1, p>>, <<2, p>>, <<3, p>>, <<4, p>>, <<5, p>>}
    PROVE  DOMAIN t = Made(p, 0, 5)
<1>2. 1 .. 5 = {1, 2, 3, 4, 5}
  OBVIOUS
<1>3. Made(p, 0, 5) = {<<0 + 1, p>>, <<0 + 2, p>>, <<0 + 3, p>>, <<0 + 4, p>>, <<0 + 5, p>>}
  BY <1>2 DEF Made
<1>4. 0 + 1 = 1 /\ 0 + 2 = 2 /\ 0 + 3 = 3 /\ 0 + 4 = 4 /\ 0 + 5 = 5
  OBVIOUS
<1> QED
  BY <1>3, <1>4

LEMMA SeedsAreLinked ==
    ASSUME NEW p, NEW t, DOMAIN t = {<<1, p>>, <<2, p>>, <<3, p>>, <<4, p>>, <<5, p>>},
           \A id \in DOMAIN t : t[id].case = <<1, p>>
    PROVE  Linked(t, SeedEdges(p))
<1>1. ASSUME NEW n, NEW source \in DOMAIN t, NEW relation, NEW target \in DOMAIN t
      PROVE  Linked(t, One(<<n, p>>, Edge(source, relation, target)))
  BY PairIsId DEF Linked, One, Edge
<1> DEFINE first == One(<<1, p>>, Edge(<<3, p>>, "CAUSES", <<2, p>>))
           second == One(<<2, p>>, Edge(<<4, p>>, "ADDRESSES", <<3, p>>))
           third == One(<<3, p>>, Edge(<<5, p>>, "ADDRESSES", <<3, p>>))
<1>2. Linked(t, first) /\ Linked(t, second) /\ Linked(t, third)
  BY <1>1
<1>3. SeedEdges(p) = (first ++ second) ++ third
  BY DEF SeedEdges
<1> HIDE DEF first, second, third
<1>4. Linked(t, first ++ second)
  BY <1>2, AddedTogether
<1> QED
  BY <1>2, <1>3, <1>4, AddedTogether

LEMMA TransferStart == Init => TransferInv /\ NumbersInv /\ RefsInv
<1> SUFFICES ASSUME Init PROVE TransferInv /\ NumbersInv /\ RefsInv
  OBVIOUS
<1>1. /\ rows = [p \in Projects |-> IF p \in Seeded THEN Seeds(p) ELSE Nothing]
      /\ edges = [p \in Projects |-> IF p \in Seeded THEN SeedEdges(p) ELSE Nothing]
      /\ \A p \in Projects : sourceKeys[p] = Nothing /\ fingerprints[p] = Nothing /\ results[p] = Nothing
      /\ previews = <<>> /\ published = FALSE
  BY DEF Init, GraphInit, ImportInit
<1>2. Shape
  BY <1>1 DEF Init, GraphInit, ImportInit, Shape, PerProject
<1>3. ASSUME NEW p \in Projects
      PROVE  /\ GoodTable(rows, rows[p]) /\ Linked(rows[p], edges[p])
             /\ \A id \in Ids(p) : /\ rows[p][id].status # "verified"
                                   /\ rows[p][id].fingerprint = NoFingerprint
             /\ \/ DOMAIN rows[p] = {<<1, p>>, <<2, p>>, <<3, p>>, <<4, p>>, <<5, p>>}
                \/ DOMAIN rows[p] = {}
  <2>1. CASE p \in Seeded
    <3>1. rows[p] = Seeds(p) /\ edges[p] = SeedEdges(p)
      BY <1>1, <2>1
    <3>2. /\ GoodTable(rows, rows[p])
          /\ DOMAIN rows[p] = {<<1, p>>, <<2, p>>, <<3, p>>, <<4, p>>, <<5, p>>}
          /\ \A id \in DOMAIN rows[p] :
                /\ rows[p][id].status # "verified" /\ rows[p][id].fingerprint = NoFingerprint
                /\ rows[p][id].case = <<1, p>>
      BY <3>1, SeedsAreGood
    <3>3. Linked(rows[p], edges[p])
      BY <3>1, <3>2, SeedsAreLinked
    <3> QED
      BY <3>2, <3>3 DEF Ids
  <2>2. CASE p \notin Seeded
    BY <1>1, <2>2 DEF Nothing, GoodTable, Linked, Ids
  <2> QED
    BY <2>1, <2>2
<1>7. \A a \in archives : \E p \in Projects :
         a.rows = rows[p] /\ a.edges = edges[p] /\ a.fingerprints = fingerprints[p]
  BY SpellingsAssumption DEF Init, SnapshotInit, Archive
<1>4. TablesInv /\ TrustInv /\ IndexInv
  <2>1. \A p \in Projects : Indexed(rows[p], fingerprints[p])
    BY <1>3 DEF Indexed, Ids
  <2> QED
    BY <1>3, <1>7, <2>1 DEF TablesInv, TrustInv, IndexInv
<1>5. KeysInv
  BY <1>1 DEF KeysInv, Nothing
<1>6. NumbersInv
  <2> SUFFICES ASSUME NEW p \in Projects
               PROVE  Numbered(rows[p], p) /\ \A id \in DOMAIN rows[p] : id[Len(id)] = p
    BY DEF NumbersInv, Ids
  <2>1. CASE DOMAIN rows[p] = {<<1, p>>, <<2, p>>, <<3, p>>, <<4, p>>, <<5, p>>}
    <3>1. DOMAIN rows[p] = Made(p, 0, 5)
      BY <2>1, SeedsAreNumbered
    <3>2. \A n : <<n, p>> = <<<<n, p>>[1], p>> /\ <<n, p>>[Len(<<n, p>>)] = p
      OBVIOUS
    <3>3. Own(rows[p], p) = Made(p, 0, 5)
      BY <3>1, <3>2 DEF Own, Made
    <3>4. 5 \in Nat
      OBVIOUS
    <3>5. \A id \in DOMAIN rows[p] : id[Len(id)] = p
      BY <3>1, <3>2 DEF Made
    <3> QED
      BY <3>3, <3>4, <3>5 DEF Numbered
  <2>2. CASE DOMAIN rows[p] = {}
    <3>2. Own(rows[p], p) = Made(p, 0, 0) /\ 0 \in Nat
      BY <2>2 DEF Own, Made
    <3> QED
      BY <2>2, <3>2 DEF Numbered
  <2> QED
    BY <1>3, <2>1, <2>2
<1>8. RefsInv
  <2>1. \A p \in Projects : Referring(rows[p], fingerprints[p])
    BY <1>1 DEF Nothing, Referring
  <2> QED
    BY <1>1, <1>3, <1>7, <2>1 DEF RefsInv, Nothing
<1> QED
  BY <1>2, <1>4, <1>5, <1>6, <1>8 DEF TransferInv

LEMMA SeqWith ==
    ASSUME NEW S, NEW s \in Seq(S), NEW k \in DOMAIN s, NEW v \in S
    PROVE  /\ [s EXCEPT ![k] = v] \in Seq(S) /\ DOMAIN [s EXCEPT ![k] = v] = DOMAIN s
           /\ [s EXCEPT ![k] = v][k] = v
           /\ \A j \in DOMAIN s \ {k} : [s EXCEPT ![k] = v][j] = s[j]
<1>1. PICK n \in Nat : s \in [1 .. n -> S]
  BY SeqDef
<1>2. [s EXCEPT ![k] = v] \in [1 .. n -> S]
  BY <1>1
<1>3. [s EXCEPT ![k] = v] \in Seq(S)
  BY <1>2, SeqDef
<1> QED
  BY <1>1, <1>2, <1>3

(* Steps that leave the graphs and the archives alone *)
LEMMA UnchangedGraphs ==
    ASSUME TransferInv, UNCHANGED <<rows, edges, fingerprints, confirmed, archives>>
    PROVE  TablesInv' /\ TrustInv' /\ IndexInv'
BY DEF TransferInv, TablesInv, TrustInv, IndexInv, Ids

LEMMA UnchangedKeys ==
    ASSUME TransferInv, UNCHANGED <<sourceKeys, previews>>
    PROVE  KeysInv'
BY DEF TransferInv, KeysInv

LEMMA KnownProblemKeeps ==
    ASSUME TransferInv, NEW p \in Projects, NEW i, KnownProblem(p, i), UNCHANGED <<archives, importVars>>
    PROVE  TransferInv'
<1>1. Shape'
  BY DEF KnownProblem, TransferInv, Shape, PerProject, importVars
<1> QED
  BY <1>1, UnchangedGraphs, UnchangedKeys DEF KnownProblem, importVars, TransferInv

LEMMA FreshProblem ==
    ASSUME NEW p, NEW i, IsNew(p, i), ~FingerprintTaken(p, i)
    PROVE  \E n : ProblemAnswer(p, i) = <<n, p>>
<1>1. ProblemAnswer(p, i) = Fresh(rows[p], p, IF i.case = NoCase THEN 2 ELSE 1)
  BY DEF IsNew, ProblemAnswer
<1> QED
  BY <1>1 DEF Fresh

LEMMA OwnCounted ==
    ASSUME NEW table, NEW p, NEW m \in Nat, Own(table, p) = Made(p, 0, m)
    PROVE  /\ \A k : Fresh(table, p, k) = <<m + k, p>>
           /\ \A k \in Nat \ {0} : <<m + k, p>> \notin DOMAIN table
<1> DEFINE T == {<<n, p>> : n \in 1 .. m}
           f == [n \in 1 .. m |-> <<n, p>>]
<1>1. f \in Bijection(1 .. m, T)
  <2>1. f \in [1 .. m -> T]
    OBVIOUS
  <2>2. \A a, b \in 1 .. m : f[a] = f[b] => a = b
    OBVIOUS
  <2>3. \A t \in T : \E n \in 1 .. m : f[n] = t
    OBVIOUS
  <2> HIDE DEF f, T
  <2> QED
    BY <2>1, <2>2, <2>3 DEF Bijection, Injection, Surjection, IsInjective
<1>2. Cardinality(T) = m
  <2>1. ExistsBijection(1 .. m, T)
    BY <1>1 DEF ExistsBijection
  <2> HIDE DEF T
  <2> QED
    BY <2>1, FS_CountingElements
<1>0. Own(table, p) = T
  <2>1. \A n \in 1 .. m : 0 + n = n
    OBVIOUS
  <2> QED
    BY <2>1 DEF Made
<1> HIDE DEF T
<1>3. Cardinality(Own(table, p)) = m
  BY <1>0, <1>2
<1>4. ASSUME NEW k \in Nat \ {0}, <<m + k, p>> \in DOMAIN table PROVE FALSE
  <2>1. <<m + k, p>> \in Own(table, p)
    BY <1>4 DEF Own
  <2>2. PICK n \in 1 .. m : <<m + k, p>> = <<n, p>>
    BY <1>0, <2>1 DEF T
  <2>3. m + k = n
    BY <2>2
  <2> QED
    BY <2>3
<1> QED
  BY <1>3, <1>4 DEF Fresh

LEMMA MadeTogether ==
    ASSUME NEW p, NEW a \in Nat, NEW k \in Nat, NEW l \in Nat
    PROVE  Made(p, a, k) \cup Made(p, a + k, l) = Made(p, a, k + l)
<1>1. ASSUME NEW id \in Made(p, a, k) PROVE id \in Made(p, a, k + l)
  <2>1. PICK n \in 1 .. k : id = <<a + n, p>>
    BY DEF Made
  <2>2. n \in 1 .. k + l
    OBVIOUS
  <2> QED
    BY <2>1, <2>2 DEF Made
<1>2. ASSUME NEW id \in Made(p, a + k, l) PROVE id \in Made(p, a, k + l)
  <2>1. PICK n \in 1 .. l : id = <<(a + k) + n, p>>
    BY DEF Made
  <2>2. k + n \in 1 .. k + l /\ (a + k) + n = a + (k + n)
    OBVIOUS
  <2> QED
    BY <2>1, <2>2 DEF Made
<1>3. ASSUME NEW id \in Made(p, a, k + l) PROVE id \in Made(p, a, k) \cup Made(p, a + k, l)
  <2>1. PICK n \in 1 .. k + l : id = <<a + n, p>>
    BY DEF Made
  <2>2. CASE n <= k
    <3>1. n \in 1 .. k
      BY <2>2
    <3> QED
      BY <2>1, <3>1 DEF Made
  <2>3. CASE ~(n <= k)
    <3>1. n - k \in 1 .. l /\ (a + k) + (n - k) = a + n
      BY <2>3
    <3> QED
      BY <2>1, <3>1 DEF Made
  <2> QED
    BY <2>2, <2>3
<1> QED
  BY <1>1, <1>2, <1>3

LEMMA OwnGrows ==
    ASSUME NEW table, NEW p, NEW m \in Nat, Own(table, p) = Made(p, 0, m), NEW k \in Nat,
           NEW t, DOMAIN t = DOMAIN table \cup Made(p, m, k)
    PROVE  Own(t, p) = Made(p, 0, m + k)
<1>1. Own(t, p) = Own(table, p) \cup Made(p, m, k)
  <2>1. \A id \in Made(p, m, k) : id = <<id[1], p>>
    BY DEF Made
  <2> QED
    BY <2>1 DEF Own
<1> DEFINE zero == 0
<1>2. zero \in Nat /\ zero = 0 /\ zero + m = m
  OBVIOUS
<1> HIDE DEF zero
<1>3. Made(p, zero, m) \cup Made(p, zero + m, k) = Made(p, zero, m + k)
  BY <1>2, MadeTogether
<1> QED
  BY <1>1, <1>2, <1>3

(* A step that makes rows in one project, and one that makes none *)
LEMMA NumbersExtend ==
    ASSUME PerProject(rows), NumbersInv, NEW p \in Projects, NEW t, rows' = [rows EXCEPT ![p] = t],
           Numbered(t, p), \A id \in DOMAIN t : id[Len(id)] = p
    PROVE  NumbersInv'
<1>1. rows' = [q \in Projects |-> IF q = p THEN t ELSE rows[q]]
  BY DEF PerProject
<1> QED
  BY <1>1 DEF NumbersInv, Ids

LEMMA NumbersMore ==
    ASSUME PerProject(rows), NumbersInv, NEW p \in Projects, NEW t, rows' = [rows EXCEPT ![p] = t],
           NEW m \in Nat, Own(rows[p], p) = Made(p, 0, m), NEW k \in Nat,
           DOMAIN t = DOMAIN rows[p] \cup Made(p, m, k)
    PROVE  NumbersInv'
<1>1. Numbered(t, p)
  BY OwnGrows DEF Numbered
<1>2. \A id \in Made(p, m, k) : id[Len(id)] = p
  <2>1. \A n : <<n, p>>[Len(<<n, p>>)] = p
    OBVIOUS
  <2> QED
    BY <2>1 DEF Made
<1>3. \A id \in DOMAIN t : id[Len(id)] = p
  BY <1>2 DEF NumbersInv, Ids
<1> QED
  BY <1>1, <1>3, NumbersExtend

LEMMA NumbersSame ==
    ASSUME NumbersInv, \A q \in Projects : DOMAIN rows'[q] = DOMAIN rows[q]
    PROVE  NumbersInv'
BY DEF NumbersInv, Numbered, Own, Ids

LEMMA NewProblemKeeps ==
    ASSUME TransferInv, NumbersInv, NEW p \in Projects, NEW i \in Problems(p), NewProblem(p, i),
           UNCHANGED <<archives, importVars>>
    PROVE  TransferInv' /\ NumbersInv'
<1> DEFINE node == ProblemAnswer(p, i)
           c == IF i.case = NoCase THEN Fresh(rows[p], p, 1) ELSE i.case
           f == IF i.spelling = NoFingerprint THEN NoFingerprint ELSE Stored[i.spelling]
           t == rows[p] ++ One(node, Row("Problem", c, "open", f)) ++ One(c, Row("Case", c, "open", NoFingerprint))
           u == With(fingerprints[p], f, node, NoFingerprint)
<1>1. PICK n : node = <<n, p>>
  BY FreshProblem DEF NewProblem
<1>2. /\ node \notin DOMAIN rows[p] /\ node # c /\ IsId(c)
      /\ \/ c \in DOMAIN rows[p] /\ rows[p][c].type = "Case"
         \/ c \notin DOMAIN rows[p] /\ \E k : c = <<k, p>>
  <2>1. PICK m \in Nat : Own(rows[p], p) = Made(p, 0, m)
    BY DEF NumbersInv, Numbered
  <2>2. /\ \A k : Fresh(rows[p], p, k) = <<m + k, p>>
        /\ \A k \in Nat \ {0} : <<m + k, p>> \notin DOMAIN rows[p]
    BY <2>1, OwnCounted
  <2>3. node = Fresh(rows[p], p, IF i.case = NoCase THEN 2 ELSE 1)
    BY DEF NewProblem, IsNew, ProblemAnswer
  <2>4. CASE i.case = NoCase
    <3>1. c = <<m + 1, p>> /\ node = <<m + 2, p>>
      BY <2>2, <2>3, <2>4
    <3>2. node # c
      BY <3>1
    <3> QED
      BY <2>2, <3>1, <3>2, PairIsId
  <2>5. CASE i.case # NoCase
    <3>1. c \in DOMAIN rows[p] /\ rows[p][c].type = "Case"
      BY <2>5 DEF Problems, Asked, OfType
    <3>2. node \notin DOMAIN rows[p]
      BY <2>2, <2>3, <2>5
    <3> QED
      BY <3>1, <3>2 DEF TransferInv, TablesInv, GoodTable, GoodRow
  <2> QED
    BY <2>4, <2>5
<1>3. /\ rows' = [rows EXCEPT ![p] = t]
      /\ fingerprints' = [fingerprints EXCEPT ![p] = u]
      /\ sourceKeys' = [sourceKeys EXCEPT ![p] = With(sourceKeys[p], i.source, node, NoSource)]
      /\ f # NoFingerprint => f \notin DOMAIN fingerprints[p]
  BY DEF NewProblem, FingerprintTaken
<1>4. i.source \in Sources \cup {NoSource} /\ f \in Fingerprints \cup {NoFingerprint}
  <2>1. i.spelling \in Spellings \cup {NoFingerprint} /\ i.source \in Sources \cup {NoSource}
    BY SpellingsAssumption DEF Problems, Asked
  <2> QED
    BY <2>1, SpellingsAssumption
<1> HIDE DEF node, c, f
<1>5. /\ DOMAIN t = DOMAIN rows[p] \cup {node, c} /\ Extends(rows[p], t)
      /\ node \notin DOMAIN rows[p] => t[node] = Row("Problem", c, "open", f)
      /\ c \notin DOMAIN rows[p] /\ c # node => t[c] = Row("Case", c, "open", NoFingerprint)
  BY DEF ++, One, Extends
<1>6. Extends(fingerprints[p], u) /\ (f # NoFingerprint => f \in DOMAIN u /\ u[f] = node)
  BY <1>3 DEF With, ++, One, Extends
<1> HIDE DEF t, u
<1>7. rows'[p] = t /\ PerProject(rows)'
  BY <1>3, <1>5, ExtensionGrows DEF TransferInv, Shape
<1>8. ASSUME NEW id \in DOMAIN t \ DOMAIN rows[p]
      PROVE  /\ GoodRow(rows', t, id) /\ t[id].status # "verified"
             /\ t[id].fingerprint # NoFingerprint => t[id].fingerprint \in DOMAIN u /\ u[t[id].fingerprint] = id
  <2>1. "open" \in Statuses /\ "Problem" \in Types /\ "Case" \in Types
    BY DEF Statuses, Types
  <2>4. c \in DOMAIN t /\ t[c].type = "Case" /\ IsId(c)
    <3>1. CASE c \in DOMAIN rows[p] /\ rows[p][c].type = "Case"
      BY <1>2, <1>5, <3>1 DEF Extends
    <3>2. CASE c \notin DOMAIN rows[p]
      BY <1>2, <1>5, <3>2 DEF Row
    <3> QED
      BY <1>2, <3>1, <3>2
  <2>2. CASE id = node
    <3>1. t[id] = Row("Problem", c, "open", f)
      BY <1>2, <1>5, <2>2
    <3>2. GoodRow(rows', t, id)
      BY <1>1, <1>4, <1>7, <2>1, <2>2, <2>4, <3>1, MadeIsGood
    <3> QED
      BY <1>6, <2>2, <3>1, <3>2 DEF Row
  <2>3. CASE id # node
    <3>1. id = c /\ t[id] = Row("Case", c, "open", NoFingerprint)
      BY <1>5, <2>3
    <3>2. PICK k : c = <<k, p>>
      BY <1>2, <3>1
    <3>3. GoodRow(rows', t, id)
      BY <1>7, <2>1, <2>4, <3>1, <3>2, MadeIsGood
    <3> QED
      BY <3>1, <3>3 DEF Row
  <2> QED
    BY <2>2, <2>3
<1>9. TablesInv' /\ TrustInv'
  <2>1. /\ PerProject(rows) /\ PerProject(edges) /\ TablesInv /\ TrustInv
        /\ UNCHANGED <<archives, edges, confirmed>>
    BY DEF TransferInv, Shape, NewProblem
  <2>2. edges' = [edges EXCEPT ![p] = edges[p]] /\ Extends(edges[p], edges[p])
    BY <2>1, UnchangedParts DEF TransferInv, Extends
  <2> QED
    BY <1>3, <1>5, <1>8, <2>1, <2>2, ExtensionKeeps
<1>10. IndexInv' /\ PerProject(fingerprints)'
  BY <1>3, <1>5, <1>6, <1>8, ExtensionIndexed DEF TransferInv, Shape
<1>11. KeysInv' /\ PerProject(sourceKeys)'
  <2>1. UNCHANGED previews
    BY DEF importVars
  <2>2. sourceKeys' = [q \in Projects |-> IF q = p THEN With(sourceKeys[p], i.source, node, NoSource) ELSE sourceKeys[q]]
    BY <1>3 DEF TransferInv, Shape, PerProject
  <2>3. ASSUME NEW q \in Projects, NEW key \in DOMAIN sourceKeys'[q], key \notin Sources
        PROVE  key \in DOMAIN sourceKeys[q]
    BY <1>4, <2>2, <2>3 DEF With, ++, One
  <2> QED
    BY <2>1, <2>2, <2>3 DEF KeysInv, TransferInv, PerProject
<1>12. Shape'
  BY <1>7, <1>10, <1>11 DEF NewProblem, TransferInv, Shape, PerProject, importVars
<1>13. NumbersInv'
  <2>1. PICK m \in Nat : Own(rows[p], p) = Made(p, 0, m)
    BY DEF NumbersInv, Numbered
  <2>2. \A k : Fresh(rows[p], p, k) = <<m + k, p>>
    BY <2>1, OwnCounted
  <2>3. node = Fresh(rows[p], p, IF i.case = NoCase THEN 2 ELSE 1)
    BY DEF NewProblem, IsNew, ProblemAnswer, node
  <2>4. c = IF i.case = NoCase THEN Fresh(rows[p], p, 1) ELSE i.case
    BY DEF c
  <2>5. CASE i.case = NoCase
    <3>1. c = <<m + 1, p>> /\ node = <<m + 2, p>>
      BY <2>2, <2>3, <2>4, <2>5
    <3>2. {node, c} = Made(p, m, 2)
      <4>1. 1 .. 2 = {1, 2}
        OBVIOUS
      <4> QED
        BY <3>1, <4>1 DEF Made
    <3> QED
      BY <1>3, <1>5, <2>1, <3>2, NumbersMore DEF TransferInv, Shape
  <2>6. CASE i.case # NoCase
    <3>1. node = <<m + 1, p>> /\ c \in DOMAIN rows[p]
      BY <2>2, <2>3, <2>4, <2>6 DEF Problems, Asked, OfType
    <3>2. {node} = Made(p, m, 1)
      <4>1. 1 .. 1 = {1}
        OBVIOUS
      <4> QED
        BY <3>1, <4>1 DEF Made
    <3>3. DOMAIN t = DOMAIN rows[p] \cup Made(p, m, 1)
      BY <1>5, <3>1, <3>2
    <3> QED
      BY <1>3, <2>1, <3>3, NumbersMore DEF TransferInv, Shape
  <2> QED
    BY <2>5, <2>6
<1> QED
  BY <1>9, <1>10, <1>11, <1>12, <1>13 DEF TransferInv

(* Evidence is recorded, or a root cause confirmed, and the Case evaluated. *)
LEMMA PromotionKeeps ==
    ASSUME TransferInv, NEW p \in Projects,
           NEW es, edges' = [edges EXCEPT ![p] = es], Extends(edges[p], es),
           NEW table, Linked(table, es), NEW c \in DOMAIN rows[p], table[c].type = "Case",
           \A id \in DOMAIN rows[p] :
              /\ id \in DOMAIN table /\ IsRow(table[id])
              /\ table[id].type = rows[p][id].type /\ table[id].case = rows[p][id].case
              /\ table[id].fingerprint = rows[p][id].fingerprint
              /\ table[id].status = "verified" =>
                    \/ rows[p][id].status = "verified"
                    \/ table[id].type = "RootCause" /\ <<p, id>> \in confirmed',
           \A id \in DOMAIN table \ DOMAIN rows[p] :
              \E n : id = <<n, p>> /\ table[id] = Row("Verification", c, "verified", NoFingerprint),
           NEW t \in Evaluated(table, es, c), rows' = [rows EXCEPT ![p] = t],
           confirmed \subseteq confirmed',
           UNCHANGED <<archives, fingerprints, sourceKeys, results, importVars>>
    PROVE  TransferInv' /\ DOMAIN t = DOMAIN table /\ Keeps(rows[p], t) /\ Linked(t, es)
<1>1. /\ PerProject(rows) /\ PerProject(edges) /\ TablesInv /\ TrustInv /\ IndexInv
      /\ IsId(c) /\ c \in DOMAIN table
  BY DEF TransferInv, Shape, TablesInv, GoodTable, GoodRow
<1>2. \A id \in DOMAIN table : IsRow(table[id])
  <2>1. IsRow(Row("Verification", c, "verified", NoFingerprint))
    BY DEF IsRow, Row, Types, Statuses
  <2> QED
    BY <2>1
<1>3. /\ DOMAIN t = DOMAIN table
      /\ \A id \in DOMAIN table :
            /\ IsRow(t[id]) /\ t[id].type = table[id].type /\ t[id].case = table[id].case
            /\ t[id].fingerprint = table[id].fingerprint
            /\ \/ t[id] = table[id]
               \/ /\ t[id].status = "verified"
                  /\ \E s \in Promotable(table, es, c) : id \in {s, c}
  BY <1>1, <1>2, EvaluatedFacts
<1>4. \A id \in DOMAIN table \ DOMAIN rows[p] : table[id].type = "Verification"
  BY DEF Row
<1>5. ASSUME NEW s \in Promotable(table, es, c), NEW id \in {s, c}
      PROVE  Trusted(p, t, es, confirmed', id) /\ t[id].type \in TrustedTypes
  <2>1. /\ s \in DOMAIN table /\ table[s].type = "Solution" /\ table[s].case = c
        /\ \E x \in DOMAIN es :
              /\ es[x].source = s /\ es[x].relation = "ADDRESSES" /\ es[x].target \in DOMAIN table
              /\ table[es[x].target].type = "RootCause" /\ table[es[x].target].status = "verified"
              /\ table[es[x].target].case = c
    BY PromotableCause
  <2>2. PICK x \in DOMAIN es :
              /\ es[x].source = s /\ es[x].relation = "ADDRESSES" /\ es[x].target \in DOMAIN table
              /\ table[es[x].target].type = "RootCause" /\ table[es[x].target].status = "verified"
              /\ table[es[x].target].case = c
    BY <2>1
  <2> DEFINE r == es[x].target
  <2>3. r \in DOMAIN rows[p] /\ r \in DOMAIN t /\ t[r].type = "RootCause" /\ t[r].case = c
    BY <1>3, <1>4, <2>2
  <2>4. <<p, r>> \in confirmed'
    <3>1. CASE rows[p][r].status = "verified"
      <4>1. Trusted(p, rows[p], edges[p], confirmed, r)
        BY <1>1, <2>3, <3>1 DEF TrustInv, Ids
      <4>2. rows[p][r].type = "RootCause"
        BY <2>2, <2>3
      <4> QED
        BY <4>1, <4>2 DEF Trusted
    <3>2. CASE rows[p][r].status # "verified"
      BY <2>2, <2>3, <3>2
    <3> QED
      BY <3>1, <3>2
  <2>5. CASE id = s
    <3>1. t[id].type = "Solution"
      BY <1>3, <2>1, <2>5
    <3>2. \E y \in DOMAIN es :
             /\ es[y].source = id /\ es[y].relation = "ADDRESSES"
             /\ es[y].target \in DOMAIN t /\ t[es[y].target].type = "RootCause"
             /\ <<p, es[y].target>> \in confirmed'
      BY <2>2, <2>3, <2>4, <2>5
    <3> QED
      BY <3>1, <3>2 DEF Trusted, TrustedTypes
  <2>6. CASE id = c
    <3>1. t[id].type = "Case"
      BY <1>1, <1>3, <2>6
    <3>2. \E y \in DOMAIN t : t[y].type = "RootCause" /\ <<p, y>> \in confirmed' /\ t[y].case = id
      BY <2>3, <2>4, <2>6
    <3> QED
      BY <3>1, <3>2 DEF Trusted, TrustedTypes
  <2> QED
    BY <2>5, <2>6
<1>6. ASSUME NEW id \in DOMAIN rows[p]
      PROVE  /\ id \in DOMAIN t /\ IsRow(t[id])
             /\ t[id].type = rows[p][id].type /\ t[id].case = rows[p][id].case
             /\ t[id].fingerprint = rows[p][id].fingerprint
             /\ t[id].status = "verified" =>
                   \/ rows[p][id].status = "verified"
                   \/ Trusted(p, t, es, confirmed', id) /\ t[id].type \in TrustedTypes
  <2>1. /\ id \in DOMAIN t /\ IsRow(t[id])
        /\ t[id].type = rows[p][id].type /\ t[id].case = rows[p][id].case
        /\ t[id].fingerprint = rows[p][id].fingerprint
    BY <1>3
  <2>2. ASSUME t[id].status = "verified", rows[p][id].status # "verified"
        PROVE  Trusted(p, t, es, confirmed', id) /\ t[id].type \in TrustedTypes
    <3>1. CASE \E s \in Promotable(table, es, c) : id \in {s, c}
      BY <1>5, <3>1
    <3>2. CASE ~\E s \in Promotable(table, es, c) : id \in {s, c}
      <4>1. t[id] = table[id]
        BY <1>3, <2>1, <3>2
      <4>2. t[id].type = "RootCause" /\ <<p, id>> \in confirmed'
        BY <2>2, <4>1
      <4> QED
        BY <4>2 DEF Trusted, TrustedTypes
    <3> QED
      BY <3>1, <3>2
  <2> QED
    BY <2>1, <2>2
<1>7. rows'[p] = t
  BY <1>1 DEF PerProject
<1>8. ASSUME NEW id \in DOMAIN t \ DOMAIN rows[p]
      PROVE  GoodRow(rows', t, id) /\ t[id].type = "Verification" /\ t[id].fingerprint = NoFingerprint
  <2>1. PICK n : id = <<n, p>> /\ table[id] = Row("Verification", c, "verified", NoFingerprint)
    BY <1>3
  <2>2. t[id] = Row("Verification", c, "verified", NoFingerprint)
    <3>1. /\ t[id].type = "Verification" /\ t[id].case = c /\ t[id].fingerprint = NoFingerprint
          /\ t[id].status = "verified" /\ IsRow(t[id])
      BY <1>3, <2>1 DEF Row
    <3> QED
      BY <3>1 DEF IsRow
  <2>3. c \in DOMAIN t /\ t[c].type = "Case"
    BY <1>1, <1>3
  <2>4. "Verification" \in Types /\ "verified" \in Statuses
    BY DEF Types, Statuses
  <2>5. GoodRow(rows', t, id)
    <3>1. /\ <<n, p>> \in DOMAIN rows'[p] /\ c \in DOMAIN rows'[p] /\ rows'[p][c].type = "Case"
          /\ rows'[p][<<n, p>>] = Row("Verification", c, "verified", NoFingerprint)
      BY <1>7, <2>1, <2>2, <2>3
    <3>2. NoFingerprint \in Fingerprints \cup {NoFingerprint}
      OBVIOUS
    <3>3. GoodRow(rows', rows'[p], <<n, p>>)
      BY <1>1, <2>4, <3>1, <3>2, MadeIsGood
    <3> QED
      BY <1>7, <2>1, <3>3
  <2> QED
    BY <2>2, <2>5 DEF Row
<1>9. TablesInv' /\ TrustInv' /\ IndexInv' /\ PerProject(rows)'
  BY <1>1, <1>6, <1>8, RestatusKeeps
<1>10. PerProject(edges)'
  BY <1>1 DEF PerProject
<1>11. Shape' /\ KeysInv'
  BY <1>9, <1>10, UnchangedKeys DEF TransferInv, Shape, PerProject, importVars
<1>12. Keeps(rows[p], t)
  BY <1>6 DEF Keeps
<1>13. Linked(t, es)
  <2>1. Keeps(table, t)
    BY <1>3 DEF Keeps
  <2> QED
    BY <2>1, ReferencesStay
<1> QED
  BY <1>3, <1>9, <1>11, <1>12, <1>13 DEF TransferInv

LEMMA PromoteRootCauseKeeps ==
    ASSUME TransferInv, NumbersInv, RefsInv, NEW p \in Projects, PromoteRootCause(p),
           UNCHANGED <<archives, importVars>>
    PROVE  TransferInv' /\ NumbersInv' /\ RefsInv'
<1>1. PICK r \in OfType(p, "RootCause") :
        /\ \E t \in Evaluated([rows[p] EXCEPT ![r].status = "verified"], edges[p], rows[p][r].case) :
              rows' = [rows EXCEPT ![p] = t]
        /\ confirmed' = confirmed \cup {<<p, r>>} /\ published' \in BOOLEAN
        /\ UNCHANGED <<edges, fingerprints, sourceKeys, results>>
  BY DEF PromoteRootCause
<1> DEFINE c == rows[p][r].case
           table == SetStatus(rows[p], r, "verified")
<1>2. PICK t \in Evaluated(table, edges[p], c) : rows' = [rows EXCEPT ![p] = t]
  BY <1>1 DEF SetStatus
<1>3. r \in DOMAIN rows[p] /\ rows[p][r].type = "RootCause" /\ "verified" \in Statuses
  BY DEF OfType, Statuses
<1>4. /\ \A id \in DOMAIN rows[p] : IsRow(rows[p][id])
      /\ c \in DOMAIN rows[p] /\ rows[p][c].type = "Case"
  BY <1>3 DEF TransferInv, TablesInv, GoodTable, GoodRow
<1> HIDE DEF c
<1>5. /\ DOMAIN table = DOMAIN rows[p]
      /\ \A id \in DOMAIN rows[p] :
            /\ IsRow(table[id]) /\ table[id].type = rows[p][id].type /\ table[id].case = rows[p][id].case
            /\ table[id].fingerprint = rows[p][id].fingerprint
            /\ table[id].status = IF id = r THEN "verified" ELSE rows[p][id].status
  BY <1>3, <1>4, StatusSet
<1> HIDE DEF table
<1>6. /\ edges' = [edges EXCEPT ![p] = edges[p]] /\ Extends(edges[p], edges[p])
      /\ Linked(table, edges[p])
  <2>1. Keeps(rows[p], table)
    BY <1>5 DEF Keeps
  <2> QED
    BY <1>1, <2>1, UnchangedParts, ReferencesStay DEF TransferInv, RefsInv, Extends
<1>7. TransferInv' /\ DOMAIN t = DOMAIN table /\ Keeps(rows[p], t) /\ Linked(t, edges[p])
  <2>1. \A id \in DOMAIN rows[p] :
           /\ id \in DOMAIN table /\ IsRow(table[id])
           /\ table[id].type = rows[p][id].type /\ table[id].case = rows[p][id].case
           /\ table[id].fingerprint = rows[p][id].fingerprint
           /\ table[id].status = "verified" =>
                 \/ rows[p][id].status = "verified"
                 \/ table[id].type = "RootCause" /\ <<p, id>> \in confirmed'
    BY <1>1, <1>3, <1>5
  <2>2. table[c].type = "Case" /\ c \in DOMAIN rows[p] /\ DOMAIN table \ DOMAIN rows[p] = {}
    BY <1>4, <1>5
  <2>3. confirmed \subseteq confirmed' /\ UNCHANGED <<archives, fingerprints, sourceKeys, results, importVars>>
    BY <1>1
  <2> QED
    BY <1>2, <1>6, <2>1, <2>2, <2>3, PromotionKeeps
<1>8. NumbersInv'
  <2>1. rows' = [q \in Projects |-> IF q = p THEN t ELSE rows[q]]
    BY <1>2 DEF TransferInv, Shape, PerProject
  <2> QED
    BY <1>5, <1>7, <2>1, NumbersSame
<1>9. RefsInv'
  BY <1>1, <1>2, <1>6, <1>7, RestatusRefs
<1> QED
  BY <1>7, <1>8, <1>9

LEMMA CloseCaseKeeps ==
    ASSUME TransferInv, NumbersInv, RefsInv, NEW p \in Projects, CloseCase(p),
           UNCHANGED <<archives, importVars>>
    PROVE  TransferInv' /\ NumbersInv' /\ RefsInv'
<1>1. PICK c \in OfType(p, "Case") :
        /\ \E t \in Evaluated(rows[p], edges[p], c) : rows' = [rows EXCEPT ![p] = t]
        /\ published' = TRUE
        /\ UNCHANGED <<edges, fingerprints, sourceKeys, results, confirmed>>
  BY DEF CloseCase
<1>2. PICK t \in Evaluated(rows[p], edges[p], c) : rows' = [rows EXCEPT ![p] = t]
  BY <1>1
<1>3. c \in DOMAIN rows[p] /\ rows[p][c].type = "Case" /\ \A id \in DOMAIN rows[p] : IsRow(rows[p][id])
  BY DEF OfType, TransferInv, TablesInv, GoodTable, GoodRow
<1>4. /\ edges' = [edges EXCEPT ![p] = edges[p]] /\ Extends(edges[p], edges[p])
      /\ Linked(rows[p], edges[p])
  BY <1>1, UnchangedParts DEF TransferInv, RefsInv, Extends
<1>5. TransferInv' /\ DOMAIN t = DOMAIN rows[p] /\ Keeps(rows[p], t) /\ Linked(t, edges[p])
  <2>1. confirmed \subseteq confirmed' /\ UNCHANGED <<archives, fingerprints, sourceKeys, results, importVars>>
    BY <1>1
  <2> DEFINE table == rows[p]
  <2>2. /\ \A id \in DOMAIN rows[p] :
              /\ id \in DOMAIN table /\ IsRow(table[id])
              /\ table[id].type = rows[p][id].type /\ table[id].case = rows[p][id].case
              /\ table[id].fingerprint = rows[p][id].fingerprint
              /\ table[id].status = "verified" =>
                    \/ rows[p][id].status = "verified"
                    \/ table[id].type = "RootCause" /\ <<p, id>> \in confirmed'
        /\ \A id \in DOMAIN table \ DOMAIN rows[p] :
              \E n : id = <<n, p>> /\ table[id] = Row("Verification", c, "verified", NoFingerprint)
        /\ table[c].type = "Case" /\ Linked(table, edges[p])
        /\ t \in Evaluated(table, edges[p], c)
    BY <1>2, <1>3, <1>4
  <2>3. table = rows[p]
    OBVIOUS
  <2> HIDE DEF table
  <2>4. TransferInv' /\ DOMAIN t = DOMAIN table /\ Keeps(rows[p], t) /\ Linked(t, edges[p])
    BY <1>2, <1>3, <1>4, <2>1, <2>2, PromotionKeeps
  <2> QED
    BY <2>3, <2>4
<1>6. NumbersInv'
  <2>1. rows' = [q \in Projects |-> IF q = p THEN t ELSE rows[q]]
    BY <1>2 DEF TransferInv, Shape, PerProject
  <2> QED
    BY <1>5, <2>1, NumbersSame
<1>7. RefsInv'
  BY <1>1, <1>2, <1>4, <1>5, RestatusRefs
<1> QED
  BY <1>5, <1>6, <1>7

LEMMA RecordVerificationKeeps ==
    ASSUME TransferInv, NumbersInv, RefsInv, NEW p \in Projects, RecordVerification(p),
           UNCHANGED <<archives, importVars>>
    PROVE  TransferInv' /\ NumbersInv' /\ RefsInv'
<1> DEFINE node == Fresh(rows[p], p, 1)
<1>1. PICK s \in OfType(p, "Solution") :
        LET c == rows[p][s].case
            es == edges[p] ++ One(Fresh(edges[p], p, 1), Edge(s, "VERIFIED_BY", node))
        IN
        /\ edges' = [edges EXCEPT ![p] = es]
        /\ \E t \in Evaluated(rows[p] ++ One(node, Row("Verification", c, "verified", NoFingerprint)), es, c) :
              rows' = [rows EXCEPT ![p] = t]
        /\ published' = TRUE
        /\ UNCHANGED <<fingerprints, sourceKeys, results, confirmed>>
  BY DEF RecordVerification
<1> DEFINE c == rows[p][s].case
           e == Edge(s, "VERIFIED_BY", node)
           es == edges[p] ++ One(Fresh(edges[p], p, 1), e)
           table == rows[p] ++ One(node, Row("Verification", c, "verified", NoFingerprint))
<1>2. PICK t \in Evaluated(table, es, c) : rows' = [rows EXCEPT ![p] = t]
  BY <1>1
<1>3. edges' = [edges EXCEPT ![p] = es] /\ Extends(edges[p], es)
  BY <1>1, AlsoFacts
<1>4. /\ s \in DOMAIN rows[p] /\ c \in DOMAIN rows[p] /\ rows[p][c].type = "Case"
      /\ \A id \in DOMAIN rows[p] : IsRow(rows[p][id])
  BY DEF OfType, TransferInv, TablesInv, GoodTable, GoodRow
<1>5. PICK m \in Nat : Own(rows[p], p) = Made(p, 0, m)
  BY DEF NumbersInv, Numbered
<1>6. node = <<m + 1, p>> /\ node \notin DOMAIN rows[p]
  BY <1>5, OwnCounted
<1> HIDE DEF node, c
<1>7. /\ DOMAIN table = DOMAIN rows[p] \cup {node} /\ Extends(rows[p], table)
      /\ table[node] = Row("Verification", c, "verified", NoFingerprint)
  BY <1>6 DEF ++, One, Extends
<1> HIDE DEF table
<1>8. Linked(table, es)
  <2>1. Keeps(rows[p], table)
    BY <1>7 DEF Keeps, Extends
  <2>2. Linked(table, edges[p])
    BY <2>1, ReferencesStay DEF RefsInv
  <2>3. e.source = s /\ e.target = node
    BY DEF Edge
  <2> HIDE DEF e
  <2>4. {e.source, e.target} \subseteq DOMAIN table /\ table[e.source].case = table[e.target].case
    <3>1. table[s].case = c
      BY <1>4, <1>7 DEF Extends, c
    <3> QED
      BY <1>4, <1>7, <2>3, <3>1 DEF Row
  <2>5. PICK n : Fresh(edges[p], p, 1) = <<n, p>>
    BY DEF Fresh
  <2>6. IsId(<<n, p>>)
    BY PairIsId
  <2>7. Linked(table, One(<<n, p>>, e))
    BY <2>4, <2>6 DEF Linked, One
  <2> QED
    BY <2>2, <2>5, <2>7, AddedTogether
<1> HIDE DEF es
<1>9. TransferInv' /\ DOMAIN t = DOMAIN table /\ Keeps(rows[p], t) /\ Linked(t, es)
  <2>1. \A id \in DOMAIN rows[p] :
           /\ id \in DOMAIN table /\ IsRow(table[id])
           /\ table[id].type = rows[p][id].type /\ table[id].case = rows[p][id].case
           /\ table[id].fingerprint = rows[p][id].fingerprint
           /\ table[id].status = "verified" => rows[p][id].status = "verified"
    BY <1>4, <1>7 DEF Extends
  <2>2. c \in DOMAIN rows[p] /\ table[c].type = "Case"
    BY <1>4, <1>7 DEF Extends
  <2>3. \A id \in DOMAIN table \ DOMAIN rows[p] :
           \E n : id = <<n, p>> /\ table[id] = Row("Verification", c, "verified", NoFingerprint)
    BY <1>6, <1>7
  <2>4. confirmed \subseteq confirmed' /\ UNCHANGED <<archives, fingerprints, sourceKeys, results, importVars>>
    BY <1>1
  <2> QED
    BY <1>2, <1>3, <1>8, <2>1, <2>2, <2>3, <2>4, PromotionKeeps
<1>10. NumbersInv'
  <2>1. {node} = Made(p, m, 1)
    <3>1. 1 .. 1 = {1}
      OBVIOUS
    <3> QED
      BY <1>6, <3>1 DEF Made
  <2>2. DOMAIN t = DOMAIN rows[p] \cup Made(p, m, 1) /\ 1 \in Nat
    BY <1>7, <1>9, <2>1
  <2> QED
    BY <1>2, <1>5, <2>2, NumbersMore DEF TransferInv, Shape
<1>11. RefsInv'
  BY <1>1, <1>2, <1>3, <1>9, RestatusRefs
<1> QED
  BY <1>9, <1>10, <1>11

LEMMA SupersedeKeeps ==
    ASSUME TransferInv, NumbersInv, NEW p \in Projects, Supersede(p), UNCHANGED <<archives, importVars>>
    PROVE  TransferInv' /\ NumbersInv'
<1>1. PICK old \in OfType(p, "Solution"), new \in OfType(p, "Solution") :
        /\ rows' = [rows EXCEPT ![p][old].status = "retired"]
        /\ edges' = [edges EXCEPT ![p] = edges[p] ++ One(Fresh(edges[p], p, 1), Edge(new, "SUPERSEDES", old))]
        /\ UNCHANGED <<fingerprints, sourceKeys, results, confirmed>>
  BY DEF Supersede
<1> DEFINE t == SetStatus(rows[p], old, "retired")
<1>2. rows' = [rows EXCEPT ![p] = t]
  BY <1>1 DEF SetStatus
<1>3. old \in DOMAIN rows[p] /\ "retired" \in Statuses
  BY DEF OfType, Statuses
<1>4. \A id \in DOMAIN rows[p] : IsRow(rows[p][id])
  BY DEF TransferInv, TablesInv, GoodTable, GoodRow
<1>5. /\ DOMAIN t = DOMAIN rows[p]
      /\ \A id \in DOMAIN rows[p] :
            /\ IsRow(t[id]) /\ t[id].type = rows[p][id].type /\ t[id].case = rows[p][id].case
            /\ t[id].fingerprint = rows[p][id].fingerprint
            /\ t[id].status = IF id = old THEN "retired" ELSE rows[p][id].status
  BY <1>3, <1>4, StatusSet
<1> HIDE DEF t
<1>6. TablesInv' /\ TrustInv' /\ IndexInv' /\ PerProject(rows)'
  <2> DEFINE es == edges[p] ++ One(Fresh(edges[p], p, 1), Edge(new, "SUPERSEDES", old))
  <2> HIDE DEF es
  <2>1. /\ \A id \in DOMAIN rows[p] :
              /\ id \in DOMAIN t /\ IsRow(t[id])
              /\ t[id].type = rows[p][id].type /\ t[id].case = rows[p][id].case
              /\ t[id].fingerprint = rows[p][id].fingerprint
              /\ t[id].status = "verified" =>
                    \/ rows[p][id].status = "verified"
                    \/ Trusted(p, t, es, confirmed', id) /\ t[id].type \in TrustedTypes
        /\ \A id \in DOMAIN t \ DOMAIN rows[p] :
              GoodRow(rows', t, id) /\ t[id].type = "Verification" /\ t[id].fingerprint = NoFingerprint
    BY <1>5
  <2>2. confirmed \subseteq confirmed' /\ UNCHANGED <<archives, fingerprints>>
    BY <1>1, <1>5
  <2>3. edges' = [edges EXCEPT ![p] = es] /\ Extends(edges[p], es)
    BY <1>1, AlsoFacts DEF es
  <2>4. PerProject(rows) /\ PerProject(edges) /\ TablesInv /\ TrustInv /\ IndexInv
    BY DEF TransferInv, Shape
  <2> QED
    BY <1>2, <2>1, <2>2, <2>3, <2>4, RestatusKeeps
<1>7. Shape' /\ KeysInv'
  BY <1>1, <1>6, UnchangedKeys DEF TransferInv, Shape, PerProject, importVars
<1>8. NumbersInv'
  <2>1. rows' = [q \in Projects |-> IF q = p THEN t ELSE rows[q]]
    BY <1>2 DEF TransferInv, Shape, PerProject
  <2> QED
    BY <1>5, <2>1, NumbersSame
<1> QED
  BY <1>6, <1>7, <1>8 DEF TransferInv

LEMMA ExportKeeps ==
    ASSUME TransferInv, NEW p \in Projects, ExportProjectGraph(p), UNCHANGED importVars
    PROVE  TransferInv'
<1>1. archives' = archives \cup {Archive(p)} /\ UNCHANGED graphVars
  BY DEF ExportProjectGraph
<1>2. Archive(p).rows = rows[p] /\ Archive(p).fingerprints = fingerprints[p]
  BY DEF Archive
<1>3. Shape'
  BY <1>1 DEF TransferInv, Shape, PerProject, graphVars, importVars
<1>4. TablesInv'
  BY <1>1, <1>2 DEF TransferInv, TablesInv, graphVars
<1>5. IndexInv'
  BY <1>1, <1>2 DEF TransferInv, IndexInv, graphVars
<1>6. TrustInv' /\ KeysInv'
  BY <1>1 DEF TransferInv, TrustInv, KeysInv, Ids, graphVars, importVars
<1> QED
  BY <1>3, <1>4, <1>5, <1>6 DEF TransferInv

LEMMA ImportKeeps ==
    ASSUME TransferInv, NumbersInv, NEW q \in Projects, NEW op, NEW a \in archives,
           ImportProjectGraph(q, op, a), UNCHANGED importVars
    PROVE  TransferInv' /\ NumbersInv'
<1> DEFINE more == RenamedRows(q, a.rows)
           t == rows[q] ++ more
           index == [f \in DOMAIN a.fingerprints |-> Mapped(q, a.fingerprints[f])]
           u == fingerprints[q] ++ index
<1>1. /\ rows' = [rows EXCEPT ![q] = t]
      /\ fingerprints' = [fingerprints EXCEPT ![q] = u]
      /\ edges' = [edges EXCEPT ![q] = Added(edges[q], Renamed(q, a.edges, ImportedEdge))]
      /\ UNCHANGED <<sourceKeys, confirmed, archives>>
  BY DEF ImportProjectGraph, Added, RenamedRows
<1>2. GoodTable(rows, a.rows) /\ Indexed(a.rows, a.fingerprints)
  BY DEF TransferInv, TablesInv, IndexInv
<1>3. /\ \A id : id \in DOMAIN more <=> \E y \in DOMAIN a.rows : id = Mapped(q, y)
      /\ \A y \in DOMAIN a.rows : more[Mapped(q, y)] = ImportedRow(q, a.rows[y])
  BY <1>2, RenamedFacts
<1> HIDE DEF more
<1>4. Extends(rows[q], t) /\ DOMAIN t = DOMAIN rows[q] \cup DOMAIN more /\ Extends(fingerprints[q], u)
  BY AlsoFacts
<1>5. rows'[q] = t /\ Grows(rows, rows') /\ PerProject(rows)'
  BY <1>1, <1>4, ExtensionGrows DEF TransferInv, Shape
<1>6. \A f \in DOMAIN a.fingerprints : f \in DOMAIN u /\ u[f] = Mapped(q, a.fingerprints[f])
  <2>1. \A f \in DOMAIN a.fingerprints :
           f \in DOMAIN fingerprints[q] => fingerprints[q][f] = Mapped(q, a.fingerprints[f])
    BY DEF ImportProjectGraph, FingerprintClash, SameFingerprint
  <2> QED
    BY <2>1 DEF ++
<1>7. ASSUME NEW id \in DOMAIN t \ DOMAIN rows[q]
      PROVE  /\ GoodRow(rows', t, id) /\ (t[id].status = "verified" => t[id].type = "Verification")
             /\ t[id].fingerprint # NoFingerprint => t[id].fingerprint \in DOMAIN u /\ u[t[id].fingerprint] = id
  <2>1. PICK x \in DOMAIN a.rows : id = Mapped(q, x)
    BY <1>3, <1>4
  <2>2. /\ GoodRow(rows', t, id) /\ (t[id].status = "verified" => t[id].type = "Verification")
        /\ t[id] = ImportedRow(q, a.rows[x])
    <3>1. rows'[q] = rows[q] ++ more
      BY <1>5
    <3>2. \A r \in Projects : GoodTable(rows, rows[r])
      BY DEF TransferInv, TablesInv
    <3>3. Mapped(q, x) \notin DOMAIN rows[q]
      BY <2>1
    <3> HIDE DEF t
    <3>4. \A y \in DOMAIN a.rows : /\ Mapped(q, y) \in DOMAIN more
                                  /\ more[Mapped(q, y)] = ImportedRow(q, a.rows[y])
      BY <1>3
    <3>5. /\ GoodRow(rows', rows'[q], Mapped(q, x))
          /\ rows'[q][Mapped(q, x)].status = "verified" => rows'[q][Mapped(q, x)].type = "Verification"
          /\ rows'[q][Mapped(q, x)] = ImportedRow(q, a.rows[x])
      BY <1>2, <1>5, <3>1, <3>2, <3>3, <3>4, ImportedIsGood
    <3> QED
      BY <1>5, <2>1, <3>5
  <2>3. t[id].fingerprint = a.rows[x].fingerprint
    BY <1>2, <2>2, ImportedRowFacts DEF GoodTable, GoodRow
  <2>4. a.rows[x].fingerprint # NoFingerprint =>
          a.rows[x].fingerprint \in DOMAIN a.fingerprints /\ a.fingerprints[a.rows[x].fingerprint] = x
    BY <1>2 DEF Indexed
  <2> QED
    BY <1>6, <2>1, <2>2, <2>3, <2>4
<1> HIDE DEF t, u
<1>8. TablesInv' /\ TrustInv'
  <2> DEFINE es == Added(edges[q], Renamed(q, a.edges, ImportedEdge))
  <2>1. edges' = [edges EXCEPT ![q] = es] /\ Extends(edges[q], es)
    BY <1>1, AlsoFacts DEF Added
  <2> HIDE DEF es
  <2>2. PerProject(rows) /\ PerProject(edges) /\ TablesInv /\ TrustInv
    BY DEF TransferInv, Shape
  <2>3. \A id \in DOMAIN t \ DOMAIN rows[q] :
           GoodRow(rows', t, id) /\ (t[id].status = "verified" => t[id].type = "Verification")
    BY <1>7
  <2>4. rows' = [rows EXCEPT ![q] = t] /\ Extends(rows[q], t) /\ UNCHANGED <<archives, confirmed>>
    BY <1>1, <1>4
  <2> QED
    BY <2>1, <2>2, <2>3, <2>4, ExtensionKeeps
<1>9. IndexInv' /\ PerProject(fingerprints)'
  BY <1>1, <1>4, <1>7, ExtensionIndexed DEF TransferInv, Shape
<1>10. KeysInv'
  BY <1>1, UnchangedKeys DEF importVars
<1>11. PerProject(edges)'
  <2> DEFINE e == Added(edges[q], Renamed(q, a.edges, ImportedEdge))
  <2>1. edges' = [edges EXCEPT ![q] = e]
    BY <1>1
  <2> HIDE DEF e
  <2> QED
    BY <2>1 DEF TransferInv, Shape, PerProject
<1>12. PerProject(results)'
  BY DEF ImportProjectGraph, TransferInv, Shape, PerProject
<1>13. Shape'
  BY <1>1, <1>5, <1>9, <1>11, <1>12 DEF TransferInv, Shape, PerProject, importVars
<1>14. NumbersInv'
  <2>1. \A id \in DOMAIN more : id[Len(id)] = q /\ id # <<id[1], q>>
    BY <1>2, <1>3, MappedEnd DEF GoodTable, GoodRow
  <2>2. Own(t, q) = Own(rows[q], q)
    BY <1>4, <2>1 DEF Own
  <2>3. Numbered(t, q) /\ \A id \in DOMAIN t : id[Len(id)] = q
    BY <1>4, <2>1, <2>2 DEF NumbersInv, Numbered, Ids
  <2> QED
    BY <1>1, <2>3, NumbersExtend DEF TransferInv, Shape
<1> QED
  BY <1>8, <1>9, <1>10, <1>13, <1>14 DEF TransferInv

LEMMA FileStepsKeep ==
    ASSUME TransferInv, UNCHANGED <<graphVars, archives>>,
           (\E p \in Importing : PreviewImportContent(p)) \/ FilesNext \/ UNCHANGED importVars
    PROVE  TransferInv'
<1>1. TablesInv' /\ TrustInv' /\ IndexInv'
  BY UnchangedGraphs DEF graphVars
<1>2. UNCHANGED <<rows, edges, fingerprints, sourceKeys, results>>
  BY DEF graphVars
<1>3. /\ previews \in Seq(PreviewRecords) /\ file \in [Importing -> Contents]
      /\ KeysInv
  BY DEF TransferInv, Shape
<1>4. CASE \E p \in Importing : PreviewImportContent(p)
  <2>1. PICK p \in Importing : previews' = Append(previews, Preview(p, file[p])) /\ UNCHANGED file
    BY <1>4 DEF PreviewImportContent
  <2>2. Preview(p, file[p]) \in PreviewRecords
    BY <1>3, <2>1, ContentsAssumption DEF Preview, PreviewRecords
  <2> DEFINE new == Preview(p, file[p])
  <2> HIDE DEF new
  <2>3. previews' = Append(previews, new) /\ new \in PreviewRecords
    BY <2>1, <2>2 DEF new
  <2>4. previews' \in Seq(PreviewRecords) /\ \A k \in DOMAIN previews : k \in DOMAIN previews' /\ previews'[k] = previews[k]
    BY <1>3, <2>3
  <2>5. Shape'
    BY <1>2, <1>3, <2>1, <2>4 DEF TransferInv, Shape, PerProject
  <2>6. KeysInv'
    BY <1>2, <1>3, <2>4 DEF KeysInv
  <2> QED
    BY <1>1, <2>5, <2>6 DEF TransferInv
<1>5. CASE Expire
  <2>1. PICK k \in DOMAIN previews : previews' = [previews EXCEPT ![k].expired = TRUE] /\ UNCHANGED file
    BY <1>5 DEF Expire
  <2>2. previews' \in Seq(PreviewRecords) /\ DOMAIN previews' = DOMAIN previews
    <3> DEFINE v == [previews[k] EXCEPT !.expired = TRUE]
    <3>1. previews[k] \in PreviewRecords
      BY <1>3
    <3>2. v \in PreviewRecords
      BY <3>1 DEF PreviewRecords
    <3>3. previews' = [previews EXCEPT ![k] = v]
      BY <2>1
    <3> HIDE DEF v
    <3> QED
      BY <1>3, <3>2, <3>3, SeqWith
  <2>3. \A j \in DOMAIN previews : previews'[j].status = previews[j].status
    BY <1>3, <2>1 DEF PreviewRecords
  <2> QED
    BY <1>1, <1>2, <1>3, <2>1, <2>2, <2>3 DEF TransferInv, Shape, PerProject, KeysInv
<1>6. CASE \E p \in Importing : EditFile(p)
  <2>1. UNCHANGED previews /\ file' \in [Importing -> Contents]
    BY <1>3, <1>6 DEF EditFile
  <2> QED
    BY <1>1, <1>2, <1>3, <2>1 DEF TransferInv, Shape, PerProject, KeysInv
<1>7. CASE UNCHANGED importVars
  BY <1>1, <1>2, <1>3, <1>7 DEF TransferInv, Shape, PerProject, KeysInv, importVars
<1> QED
  BY <1>4, <1>5, <1>6, <1>7 DEF FilesNext

(* A set of positions can be counted from its first to its last. *)
LEMMA Ranks ==
    ASSUME NEW N \in Nat, NEW S \in SUBSET (1 .. N)
    PROVE  /\ IsFiniteSet(S) /\ Cardinality(S) \in Nat
           /\ \A x \in S : Cardinality({y \in S : y <= x}) \in 1 .. Cardinality(S)
           /\ \A j \in 1 .. Cardinality(S) : \E x \in S : Cardinality({y \in S : y <= x}) = j
<1> DEFINE below(x) == {y \in S : y <= x}
           rank == [x \in S |-> Cardinality(below(x))]
           o == Cardinality(S)
<1>1. IsFiniteSet(S) /\ o \in Nat
  <2>1. IsFiniteSet(1 .. N)
    BY FS_Interval
  <2>2. IsFiniteSet(S)
    BY <2>1, FS_Subset
  <2> QED
    BY <2>2, FS_CardinalityType
<1>2. ASSUME NEW x \in S
      PROVE  /\ IsFiniteSet(below(x)) /\ Cardinality(below(x)) \in Nat
             /\ Cardinality(below(x)) <= o /\ Cardinality(below(x)) >= 1
  <2>1. below(x) \in SUBSET S /\ x \in below(x)
    OBVIOUS
  <2> HIDE DEF below
  <2>2. IsFiniteSet(below(x)) /\ Cardinality(below(x)) <= o
    BY <1>1, <2>1, FS_Subset
  <2>3. Cardinality(below(x)) \in Nat
    BY <2>2, FS_CardinalityType
  <2>4. Cardinality(below(x)) # 0
    BY <2>1, <2>2, FS_EmptySet
  <2> QED
    BY <2>2, <2>3, <2>4
<1>3. ASSUME NEW x \in S, NEW y \in S, x < y PROVE Cardinality(below(x)) # Cardinality(below(y))
  <2>1. below(x) \in SUBSET below(y) /\ y \in below(y) /\ y \notin below(x)
    <3>1. \A z \in S : z \in Int
      OBVIOUS
    <3>2. \A z \in below(x) : z \in below(y)
      BY <1>3, <3>1
    <3>3. y \in below(y) /\ y \notin below(x)
      BY <1>3, <3>1
    <3> HIDE DEF below
    <3> QED
      BY <3>2, <3>3
  <2>2. IsFiniteSet(below(y))
    BY <1>2
  <2> HIDE DEF below
  <2> QED
    BY <2>1, <2>2, FS_Subset
<1>4. rank \in Injection(S, 1 .. o)
  <2>1. rank \in [S -> 1 .. o]
    BY <1>1, <1>2
  <2>2. ASSUME NEW x \in S, NEW y \in S, rank[x] = rank[y] PROVE x = y
    <3>1. x \in Int /\ y \in Int
      OBVIOUS
    <3>2. Cardinality(below(x)) = Cardinality(below(y))
      BY <2>2
    <3> HIDE DEF below
    <3> QED
      BY <1>3, <3>1, <3>2
  <2> HIDE DEF rank
  <2> QED
    BY <2>1, <2>2 DEF Injection, IsInjective
<1>5. rank \in Surjection(S, 1 .. o)
  <2>1. IsFiniteSet(1 .. o) /\ Cardinality(1 .. o) = o
    BY <1>1, FS_Interval
  <2> HIDE DEF rank, o
  <2> QED
    BY <1>4, <2>1, FS_Injection DEF o
<1>6. \A j \in 1 .. o : \E x \in S : rank[x] = j
  <2> HIDE DEF rank
  <2> QED
    BY <1>5 DEF Surjection
<1>7. \A x \in S : rank[x] \in 1 .. o
  BY <1>1, <1>2
<1> QED
  BY <1>1, <1>6, <1>7

LEMMA Least ==
    ASSUME NEW S \in SUBSET Nat, S # {}
    PROVE  \E x \in S : \A y \in S : x <= y
<1> DEFINE R == StrictSubsetOrdering(Nat)
           U == FiniteSubsetsOf(Nat)
           T == {0 .. x : x \in S}
<1>1. T \subseteq U /\ T # {}
  <2>1. \A x \in S : 0 .. x \subseteq Nat /\ IsFiniteSet(0 .. x)
    BY FS_Interval
  <2> QED
    BY <2>1 DEF FiniteSubsetsOf
<1>2. IsWellFoundedOn(R, U)
  BY FS_StrictSubsetOrderingWellFounded
<1>3. PICK s \in T : \A t \in T : <<t, s>> \notin R
  <2> HIDE DEF R, U, T
  <2> QED
    BY <1>1, <1>2, WFMin
<1>4. PICK x \in S : s = 0 .. x
  OBVIOUS
<1>5. ASSUME NEW y \in S, ~(x <= y) PROVE FALSE
  <2>1. x \in Nat /\ y \in Nat /\ y < x
    BY <1>5
  <2>2. 0 .. y \subseteq 0 .. x /\ x \in 0 .. x /\ x \notin 0 .. y
    BY <2>1
  <2>3. 0 .. y \subseteq Nat /\ 0 .. x \subseteq Nat
    BY <2>1
  <2> DEFINE a == 0 .. y
             b == 0 .. x
  <2> HIDE DEF a, b
  <2>4. <<a, b>> \in R
    BY <2>2, <2>3 DEF StrictSubsetOrdering, a, b
  <2> QED
    BY <1>3, <1>4, <2>4 DEF a, b
<1> QED
  BY <1>5

(* A sequence is what its positions make it. *)
LEMMA PositionsMakeSeq ==
    ASSUME NEW N \in Nat, NEW f, f = [k \in 1 .. N |-> f[k]]
    PROVE  \E S : f \in Seq(S) /\ Len(f) = N
<1> DEFINE S == {f[k] : k \in 1 .. N}
<1>1. f \in [1 .. N -> S]
  OBVIOUS
<1> HIDE DEF S
<1>2. f \in Seq(S) /\ DOMAIN f = 1 .. N
  BY <1>1, SeqDef
<1>3. Len(f) = N
  BY <1>2
<1> QED
  BY <1>2, <1>3

LEMMA UpToPositions ==
    ASSUME NEW S, NEW f \in Seq(S), NEW n \in Nat
    PROVE  \E N \in Nat : DOMAIN UpTo(f, n) = 1 .. N /\ \E S2 : UpTo(f, n) \in Seq(S2)
<1> DEFINE l == IF Len(f) < n THEN Len(f) ELSE n
<1>1. l \in Nat /\ 1 \in Int /\ \A i \in 1 .. l : f[i] \in S
  OBVIOUS
<1>2. SubSeq(f, 1, l) \in Seq(S)
  <2> HIDE DEF l
  <2> QED
    BY <1>1, SubSeqProperties
<1>3. UpTo(f, n) = SubSeq(f, 1, l)
  BY DEF UpTo
<1> HIDE DEF l
<1> DEFINE u == UpTo(f, n)
<1>4. u \in Seq(S)
  BY <1>2, <1>3
<1> HIDE DEF u
<1>5. DOMAIN u = 1 .. Len(u) /\ Len(u) \in Nat
  BY <1>4
<1> QED
  BY <1>4, <1>5 DEF u

(* The proposals of a file have positions. *)
LEMMA ProposalsCounted ==
    ASSUME NEW content \in FileContents, MaxProposals \in Nat
    PROVE  \E N \in Nat : DOMAIN ParseContent(content) = 1 .. N
<1> DEFINE tests == content.tests
           failed == {i \in DOMAIN tests : tests[i].failed}
<1>1. /\ tests \in Seq([title : STRING, failed : BOOLEAN])
      /\ content.headings \in Seq(STRING) /\ content.lines \in Seq(STRING)
  BY DEF FileContents
<1>2. Cardinality(failed) \in Nat
  <2>1. Len(tests) \in Nat /\ failed \in SUBSET (1 .. Len(tests))
    BY <1>1
  <2> HIDE DEF failed
  <2> QED
    BY <2>1, Ranks
<1>3. \E S : Failures(tests) \in Seq(S)
  <2> DEFINE f == Failures(tests)
             N == 2 * Cardinality(failed)
  <2>1. f = [k \in 1 .. N |-> f[k]] /\ N \in Nat
    BY <1>2 DEF Failures
  <2> HIDE DEF f, N
  <2>2. \E S : f \in Seq(S)
    BY <2>1, PositionsMakeSeq
  <2> QED
    BY <2>2 DEF f
<1>4. \E S : Sections(content) \in Seq(S)
  <2> DEFINE titles == IF content.headings = <<>> THEN UpTo(content.lines, 1) ELSE content.headings
             f == Sections(content)
  <2>1. PICK N \in Nat : DOMAIN titles = 1 .. N
    <3>1. CASE content.headings = <<>>
      BY <1>1, <3>1, UpToPositions
    <3>2. CASE content.headings # <<>>
      BY <1>1, <3>2
    <3> QED
      BY <3>1, <3>2
  <2> HIDE DEF titles
  <2>2. f = [k \in 1 .. N |-> f[k]]
    BY <2>1 DEF Sections, titles
  <2> HIDE DEF f
  <2>3. \E S : f \in Seq(S)
    BY <2>2, PositionsMakeSeq
  <2> QED
    BY <2>3 DEF f
<1> DEFINE all == IF content.json /\ Failures(tests) # <<>> THEN Failures(tests) ELSE Sections(content)
<1>5. ParseContent(content) = UpTo(all, MaxProposals)
  BY DEF ParseContent
<1>6. \E S : all \in Seq(S)
  BY <1>3, <1>4
<1> HIDE DEF all
<1> QED
  BY <1>5, <1>6, UpToPositions

(* The first proposal with a title opens a Case for all of that title. *)
LEMMA FirstOpens ==
    ASSUME NEW drafts, NEW d \in Nat, DOMAIN drafts = 1 .. d, NEW n \in 1 .. d
    PROVE  LET f == FirstWith(drafts, drafts[n].title) IN
           f \in Opens(drafts) /\ f \in 1 .. d /\ drafts[f].title = drafts[n].title
<1> DEFINE title == drafts[n].title
           T == {k \in 1 .. d : drafts[k].title = title}
           f == FirstWith(drafts, title)
<1>1. \E x \in T : \A y \in T : x <= y
  <2>1. T \in SUBSET Nat /\ T # {}
    OBVIOUS
  <2> HIDE DEF T
  <2> QED
    BY <2>1, Least
<1>2. \E x \in DOMAIN drafts : /\ drafts[x].title = title
                               /\ \A y \in DOMAIN drafts : drafts[y].title = title => x <= y
  BY <1>1
<1>3. f \in DOMAIN drafts /\ drafts[f].title = title
  <2> HIDE DEF title
  <2> QED
    BY <1>2 DEF FirstWith
<1>4. FirstWith(drafts, drafts[f].title) = f
  BY <1>3
<1> HIDE DEF f
<1>5. f \in Opens(drafts) /\ f \in 1 .. d /\ drafts[f].title = title
  BY <1>3, <1>4 DEF Opens
<1> QED
  BY <1>5 DEF f

(* What an apply makes: Cases numbered after the rows that are there, nodes *)
(* after the Cases, each node in the Case of its title.                     *)
LEMMA AppliedRows ==
    ASSUME NEW p, NEW m \in Nat, Own(rows[p], p) = Made(p, 0, m),
           NEW drafts, NEW d \in Nat, DOMAIN drafts = 1 .. d, NEW o, o = Cardinality(Opens(drafts))
    PROVE  /\ o \in Nat
           /\ DOMAIN NewCases(p, drafts) = Made(p, m, o)
           /\ DOMAIN NewNodes(p, drafts) = Made(p, m + o, d)
           /\ \A id \in DOMAIN NewCases(p, drafts) :
                 NewCases(p, drafts)[id] = Row("Case", id, "candidate", NoFingerprint)
           /\ \A n \in 1 .. d :
                 /\ NodeOf(p, drafts, n) = <<(m + o) + n, p>>
                 /\ CaseOf(p, drafts, n) \in DOMAIN NewCases(p, drafts)
<1> DEFINE opens == Opens(drafts)
           first(n) == FirstWith(drafts, drafts[n].title)
           rank(x) == Cardinality({y \in opens : y <= x})
<1>1. \A k : Fresh(rows[p], p, k) = <<m + k, p>>
  BY OwnCounted
<1>2. /\ o \in Nat /\ \A x \in opens : rank(x) \in 1 .. o
      /\ \A j \in 1 .. o : \E x \in opens : rank(x) = j
  <2>1. opens \in SUBSET (1 .. d) /\ o = Cardinality(opens)
    BY DEF Opens
  <2> HIDE DEF opens
  <2> QED
    BY <2>1, Ranks
<1>3. \A n \in 1 .. d : first(n) \in opens /\ first(first(n)) = first(n)
  BY FirstOpens
<1>4. \A n \in opens : first(n) = n /\ n \in 1 .. d
  BY DEF Opens
<1>5. \A n : CaseOf(p, drafts, n) = <<m + rank(first(n)), p>>
  BY <1>1 DEF CaseOf
<1>6. \A n \in 1 .. d : NodeOf(p, drafts, n) = <<(m + o) + n, p>>
  <2>1. \A n : NodeOf(p, drafts, n) = <<m + (o + n), p>>
    BY <1>1 DEF NodeOf
  <2>2. \A n \in 1 .. d : m + (o + n) = (m + o) + n
    BY <1>2
  <2> QED
    BY <2>1, <2>2
<1> HIDE DEF opens, first, rank
<1>7. DOMAIN NewCases(p, drafts) = {CaseOf(p, drafts, n) : n \in opens}
  BY DEF NewCases, opens
<1>8. DOMAIN NewCases(p, drafts) = Made(p, m, o)
  <2>1. \A n \in opens : CaseOf(p, drafts, n) = <<m + rank(n), p>>
    BY <1>4, <1>5
  <2>2. ASSUME NEW j \in 1 .. o PROVE <<m + j, p>> \in {CaseOf(p, drafts, n) : n \in opens}
    <3>1. PICK x \in opens : rank(x) = j
      BY <1>2
    <3> QED
      BY <2>1, <3>1
  <2>3. \A n \in opens : CaseOf(p, drafts, n) \in Made(p, m, o)
    BY <1>2, <2>1 DEF Made
  <2> QED
    BY <1>7, <2>2, <2>3 DEF Made
<1>9. ASSUME NEW n \in 1 .. d PROVE CaseOf(p, drafts, n) \in DOMAIN NewCases(p, drafts)
  <2>1. CaseOf(p, drafts, first(n)) = CaseOf(p, drafts, n)
    BY <1>3, <1>5
  <2> QED
    BY <1>3, <1>7, <2>1
<1>11. DOMAIN NewNodes(p, drafts) = Made(p, m + o, d)
  BY <1>6 DEF NewNodes, Made
<1>12. \A id \in DOMAIN NewCases(p, drafts) :
          NewCases(p, drafts)[id] = Row("Case", id, "candidate", NoFingerprint)
  BY DEF NewCases
<1> QED
  BY <1>2, <1>6, <1>8, <1>9, <1>11, <1>12

LEMMA AppliedNode ==
    ASSUME NEW p, NEW m \in Nat, Own(rows[p], p) = Made(p, 0, m),
           NEW drafts, NEW d \in Nat, DOMAIN drafts = 1 .. d, NEW n \in 1 .. d
    PROVE  NewNodes(p, drafts)[NodeOf(p, drafts, n)] =
             Row(drafts[n].type, CaseOf(p, drafts, n), "candidate", NoFingerprint)
<1> DEFINE o == Cardinality(Opens(drafts))
           id == NodeOf(p, drafts, n)
           k == CHOOSE k \in DOMAIN drafts : NodeOf(p, drafts, k) = id
<1>1. o = Cardinality(Opens(drafts))
  OBVIOUS
<1>2. id \in DOMAIN NewNodes(p, drafts)
  BY DEF NewNodes
<1>3. NewNodes(p, drafts)[id] = Row(drafts[k].type, CaseOf(p, drafts, k), "candidate", NoFingerprint)
  BY <1>2 DEF NewNodes
<1>4. k \in 1 .. d /\ NodeOf(p, drafts, k) = NodeOf(p, drafts, n)
  OBVIOUS
<1> HIDE DEF k, o, id
<1>5. /\ o \in Nat /\ NodeOf(p, drafts, k) = <<(m + o) + k, p>>
      /\ NodeOf(p, drafts, n) = <<(m + o) + n, p>>
  <2>1. o \in Nat
    BY <1>1, AppliedRows
  <2>2. \A i \in 1 .. d : NodeOf(p, drafts, i) = <<(m + o) + i, p>>
    BY <1>1, AppliedRows
  <2> QED
    BY <1>4, <2>1, <2>2
<1>6. (m + o) + k = (m + o) + n
  <2>1. <<(m + o) + k, p>> = <<(m + o) + n, p>>
    BY <1>4, <1>5
  <2> QED
    BY <2>1
<1>7. k = n
  BY <1>4, <1>5, <1>6
<1> QED
  BY <1>3, <1>7 DEF id

(* The drafts of a selection are as many as the positions selected. *)
LEMMA DraftsCounted ==
    ASSUME Shape, NEW k \in DOMAIN previews, NEW s \in Selections(k)
    PROVE  /\ DOMAIN Drafts(k, s) = 1 .. Cardinality(s) /\ Cardinality(s) \in Nat
           /\ \A i \in s : Cardinality({j \in s : j <= i}) \in 1 .. Cardinality(s)
<1>1. previews[k] \in PreviewRecords
  BY DEF Shape
<1>2. previews[k].content \in FileContents /\ MaxProposals \in Nat
  BY <1>1, ContentsAssumption DEF PreviewRecords
<1>3. PICK N \in Nat : DOMAIN ParseContent(previews[k].content) = 1 .. N
  BY <1>2, ProposalsCounted
<1>4. s \in SUBSET (1 .. N)
  BY <1>3 DEF Selections
<1>5. /\ Cardinality(s) \in Nat
      /\ \A i \in s : Cardinality({j \in s : j <= i}) \in 1 .. Cardinality(s)
  BY <1>4, Ranks
<1>6. DOMAIN Drafts(k, s) = 1 .. Cardinality(s)
  BY DEF Drafts, Order
<1> QED
  BY <1>5, <1>6

LEMMA ApplyKeeps ==
    ASSUME TransferInv, NumbersInv, NEW p \in Projects, NEW op,
           NEW k \in DOMAIN previews, NEW s \in Selections(k), Apply(p, op, k, s),
           UNCHANGED archives
    PROVE  /\ TransferInv' /\ NumbersInv'
           /\ \A n \in DOMAIN Drafts(k, s) :
                 /\ NodeOf(p, Drafts(k, s), n) \in DOMAIN rows'[p]
                 /\ rows'[p][NodeOf(p, Drafts(k, s), n)].case = CaseOf(p, Drafts(k, s), n)
<1> DEFINE drafts == Drafts(k, s)
           t == rows[p] ++ NewCases(p, drafts) ++ NewNodes(p, drafts)
<1>1. rows' = [rows EXCEPT ![p] = t] /\ UNCHANGED <<fingerprints, confirmed, file>>
  BY DEF Apply
<1>2. \A n \in DOMAIN drafts : drafts[n].type \in {"Problem", "Attempt"}
  BY DEF Apply, ValidDraft
<1>3. PICK cases : sourceKeys' = [sourceKeys EXCEPT ![p] =
                      sourceKeys[p] ++ [key \in {ImportKey(k, i) : i \in s} |-> cases[key]]]
  <2> DEFINE value(key) == NodeOf(p, drafts, Cardinality({i \in s : i <= key[2]}))
             cases == [key \in {ImportKey(k, i) : i \in s} |-> value(key)]
  <2>1. sourceKeys' = [sourceKeys EXCEPT ![p] = sourceKeys[p] ++ [key \in {ImportKey(k, i) : i \in s} |-> value(key)]]
    BY DEF Apply
  <2>2. [key \in {ImportKey(k, i) : i \in s} |-> value(key)] = [key \in {ImportKey(k, i) : i \in s} |-> cases[key]]
    OBVIOUS
  <2> QED
    BY <2>1, <2>2
<1>4. previews' = [previews EXCEPT ![k].status = "applied"] /\ previews[k].status = "pending"
  BY DEF Apply, Applicable, Fresh24
<1> HIDE DEF drafts
<1>5. PICK m \in Nat : Own(rows[p], p) = Made(p, 0, m)
  BY DEF NumbersInv, Numbered
<1> DEFINE d == Cardinality(s)
           o == Cardinality(Opens(drafts))
           cases2 == NewCases(p, drafts)
           nodes == NewNodes(p, drafts)
<1>6. /\ d \in Nat /\ o \in Nat
      /\ DOMAIN cases2 = Made(p, m, o)
      /\ DOMAIN nodes = Made(p, m + o, d)
      /\ \A id \in DOMAIN cases2 : cases2[id] = Row("Case", id, "candidate", NoFingerprint)
      /\ \A n \in 1 .. d :
            /\ NodeOf(p, drafts, n) = <<(m + o) + n, p>>
            /\ CaseOf(p, drafts, n) \in DOMAIN cases2
            /\ nodes[NodeOf(p, drafts, n)] =
                 Row(drafts[n].type, CaseOf(p, drafts, n), "candidate", NoFingerprint)
      /\ DOMAIN drafts = 1 .. d
  <2>1. DOMAIN drafts = 1 .. d /\ d \in Nat
    BY DraftsCounted DEF TransferInv, drafts
  <2>2. o = Cardinality(Opens(drafts))
    OBVIOUS
  <2> HIDE DEF d, o, cases2, nodes
  <2>3. /\ o \in Nat
        /\ DOMAIN NewCases(p, drafts) = Made(p, m, o)
        /\ DOMAIN NewNodes(p, drafts) = Made(p, m + o, d)
    BY <1>5, <2>1, <2>2, AppliedRows
  <2>4. \A id \in DOMAIN NewCases(p, drafts) :
           NewCases(p, drafts)[id] = Row("Case", id, "candidate", NoFingerprint)
    BY <1>5, <2>1, <2>2, AppliedRows
  <2>5. \A n \in 1 .. d :
           /\ NodeOf(p, drafts, n) = <<(m + o) + n, p>>
           /\ CaseOf(p, drafts, n) \in DOMAIN NewCases(p, drafts)
           /\ NewNodes(p, drafts)[NodeOf(p, drafts, n)] =
                Row(drafts[n].type, CaseOf(p, drafts, n), "candidate", NoFingerprint)
    <3> SUFFICES ASSUME NEW n \in 1 .. d
                 PROVE  /\ NodeOf(p, drafts, n) = <<(m + o) + n, p>>
                        /\ CaseOf(p, drafts, n) \in DOMAIN NewCases(p, drafts)
                        /\ NewNodes(p, drafts)[NodeOf(p, drafts, n)] =
                             Row(drafts[n].type, CaseOf(p, drafts, n), "candidate", NoFingerprint)
      OBVIOUS
    <3>1. NodeOf(p, drafts, n) = <<(m + o) + n, p>>
      BY <1>5, <2>1, <2>2, AppliedRows
    <3>2. CaseOf(p, drafts, n) \in DOMAIN NewCases(p, drafts)
      BY <1>5, <2>1, <2>2, AppliedRows
    <3>3. NewNodes(p, drafts)[NodeOf(p, drafts, n)] =
            Row(drafts[n].type, CaseOf(p, drafts, n), "candidate", NoFingerprint)
      BY <1>5, <2>1, AppliedNode
    <3> QED
      BY <3>1, <3>2, <3>3
  <2>6. cases2 = NewCases(p, drafts) /\ nodes = NewNodes(p, drafts)
    BY DEF cases2, nodes
  <2>7. /\ d \in Nat /\ o \in Nat /\ DOMAIN drafts = 1 .. d
        /\ DOMAIN cases2 = Made(p, m, o)
        /\ DOMAIN nodes = Made(p, m + o, d)
    BY <2>1, <2>3, <2>6
  <2>8. \A id \in DOMAIN cases2 : cases2[id] = Row("Case", id, "candidate", NoFingerprint)
    BY <2>4, <2>6
  <2>9. \A n \in 1 .. d :
           /\ NodeOf(p, drafts, n) = <<(m + o) + n, p>>
           /\ CaseOf(p, drafts, n) \in DOMAIN cases2
           /\ nodes[NodeOf(p, drafts, n)] =
                Row(drafts[n].type, CaseOf(p, drafts, n), "candidate", NoFingerprint)
    BY <2>5, <2>6
  <2> QED
    BY <2>7, <2>8, <2>9
<1> HIDE DEF d, o, cases2, nodes
<1>16. t = rows[p] ++ cases2 ++ nodes
  BY DEF cases2, nodes
<1>17. \A id \in DOMAIN cases2 \cup DOMAIN nodes :
          id \notin DOMAIN rows[p] /\ \E n : id = <<n, p>>
  <2>1. \A k2 \in Nat \ {0} : <<m + k2, p>> \notin DOMAIN rows[p]
    BY <1>5, OwnCounted
  <2>2. \A j \in 1 .. o : j \in Nat \ {0}
    BY <1>6
  <2>3. \A n \in 1 .. d : o + n \in Nat \ {0}
    BY <1>6
  <2>4. \A n \in 1 .. d : (m + o) + n = m + (o + n)
    BY <1>6
  <2>5. ASSUME NEW id \in DOMAIN cases2 PROVE id \notin DOMAIN rows[p] /\ \E n : id = <<n, p>>
    <3>1. PICK j \in 1 .. o : id = <<m + j, p>>
      BY <1>6 DEF Made
    <3> QED
      BY <2>1, <2>2, <3>1
  <2>6. ASSUME NEW id \in DOMAIN nodes PROVE id \notin DOMAIN rows[p] /\ \E n : id = <<n, p>>
    <3>1. PICK n \in 1 .. d : id = <<(m + o) + n, p>>
      BY <1>6 DEF Made
    <3>2. id = <<m + (o + n), p>> /\ o + n \in Nat \ {0}
      BY <2>3, <2>4, <3>1
    <3> QED
      BY <2>1, <3>2
  <2> QED
    BY <2>5, <2>6
<1>18. \A id \in DOMAIN cases2 : id \notin DOMAIN nodes
  <2> SUFFICES ASSUME NEW j \in 1 .. o, NEW n \in 1 .. d, <<m + j, p>> = <<(m + o) + n, p>>
               PROVE  FALSE
    BY <1>6 DEF Made
  <2>1. m + j = (m + o) + n
    OBVIOUS
  <2> QED
    BY <1>6, <2>1
<1>7. /\ Extends(rows[p], t)
      /\ DOMAIN t = DOMAIN rows[p] \cup DOMAIN cases2 \cup DOMAIN nodes
      /\ \A id \in DOMAIN cases2 : t[id] = cases2[id]
      /\ \A id \in DOMAIN nodes : t[id] = nodes[id]
  BY <1>16, <1>17, <1>18 DEF ++, Extends
<1> HIDE DEF t
<1>8. rows'[p] = t /\ PerProject(rows)'
  BY <1>1, <1>7, ExtensionGrows DEF TransferInv, Shape
<1>9. ASSUME NEW id \in DOMAIN t \ DOMAIN rows[p]
      PROVE  GoodRow(rows', t, id) /\ t[id].status # "verified" /\ t[id].fingerprint = NoFingerprint
  <2>1. /\ "candidate" \in Statuses /\ "candidate" # "verified"
        /\ {"Case", "Problem", "Attempt"} \subseteq Types
        /\ NoFingerprint \in Fingerprints \cup {NoFingerprint}
    BY DEF Statuses, Types
  <2>2. \A c \in DOMAIN cases2 : c \in DOMAIN t /\ t[c].type = "Case" /\ IsId(c)
    <3>1. ASSUME NEW c \in DOMAIN cases2 PROVE c \in DOMAIN t /\ t[c].type = "Case"
      <4>1. c \in DOMAIN t /\ t[c] = cases2[c]
        BY <1>7
      <4>2. cases2[c] = Row("Case", c, "candidate", NoFingerprint)
        BY <1>6
      <4> QED
        BY <4>1, <4>2 DEF Row
    <3>2. \A c \in DOMAIN cases2 : IsId(c)
      BY <1>17, PairIsId
    <3> QED
      BY <3>1, <3>2
  <2>3. PICK type \in Types, c \in DOMAIN cases2 : t[id] = Row(type, c, "candidate", NoFingerprint)
    <3>1. CASE id \in DOMAIN cases2
      BY <1>6, <1>7, <2>1, <3>1
    <3>2. CASE id \in DOMAIN nodes
      <4>1. PICK n \in 1 .. d : id = <<(m + o) + n, p>>
        BY <1>6, <3>2 DEF Made
      <4>2. t[id] = Row(drafts[n].type, CaseOf(p, drafts, n), "candidate", NoFingerprint)
        BY <1>6, <1>7, <3>2, <4>1
      <4>3. drafts[n].type \in Types /\ CaseOf(p, drafts, n) \in DOMAIN cases2
        BY <1>2, <1>6, <2>1
      <4> QED
        BY <4>2, <4>3
    <3> QED
      BY <1>7, <3>1, <3>2
  <2>4. PICK n : id = <<n, p>>
    BY <1>7, <1>17
  <2>5. GoodRow(rows', t, id)
    BY <1>8, <2>1, <2>2, <2>3, <2>4, MadeIsGood
  <2> QED
    BY <2>3, <2>5 DEF Row
<1>10. TablesInv' /\ TrustInv'
  <2> DEFINE e == edges[p] ++ Links(p, drafts)
  <2>1. edges' = [edges EXCEPT ![p] = e] /\ UNCHANGED <<archives, confirmed>>
    BY DEF Apply, drafts
  <2>2. Extends(edges[p], e)
    BY AlsoFacts
  <2> HIDE DEF e
  <2>3. PerProject(rows) /\ PerProject(edges) /\ TablesInv /\ TrustInv
    BY DEF TransferInv, Shape
  <2> QED
    BY <1>1, <1>7, <1>9, <2>1, <2>2, <2>3, ExtensionKeeps
<1>11. IndexInv' /\ PerProject(fingerprints)'
  <2>1. fingerprints' = [fingerprints EXCEPT ![p] = fingerprints[p]]
    <3>1. fingerprints = [q \in Projects |-> fingerprints[q]]
      BY DEF TransferInv, Shape, PerProject
    <3>2. [fingerprints EXCEPT ![p] = fingerprints[p]] = fingerprints
      BY <3>1
    <3> QED
      BY <1>1, <3>2
  <2>2. Extends(fingerprints[p], fingerprints[p])
    BY DEF Extends
  <2> DEFINE u == fingerprints[p]
  <2>3. /\ rows' = [rows EXCEPT ![p] = t] /\ Extends(rows[p], t)
        /\ fingerprints' = [fingerprints EXCEPT ![p] = u] /\ Extends(fingerprints[p], u)
        /\ \A id \in DOMAIN t \ DOMAIN rows[p] :
              t[id].fingerprint # NoFingerprint => /\ t[id].fingerprint \in DOMAIN u
                                                   /\ u[t[id].fingerprint] = id
    BY <1>1, <1>7, <1>9, <2>1, <2>2
  <2>4. PerProject(rows) /\ PerProject(fingerprints) /\ IndexInv
    BY DEF TransferInv, Shape
  <2> HIDE DEF u
  <2> QED
    BY <2>3, <2>4, ExtensionIndexed
<1>12. /\ previews' \in Seq(PreviewRecords) /\ DOMAIN previews' = DOMAIN previews
       /\ previews'[k].status = "applied"
       /\ \A j \in DOMAIN previews \ {k} : previews'[j] = previews[j]
  <2>1. previews \in Seq(PreviewRecords)
    BY DEF TransferInv, Shape
  <2> DEFINE v == [previews[k] EXCEPT !.status = "applied"]
  <2>2. previews[k] \in PreviewRecords
    BY <2>1
  <2>3. v \in PreviewRecords /\ v.status = "applied"
    BY <2>2 DEF PreviewRecords
  <2>4. previews' = [previews EXCEPT ![k] = v]
    BY <1>4
  <2> HIDE DEF v
  <2> QED
    BY <2>1, <2>3, <2>4, SeqWith
<1>13. KeysInv' /\ PerProject(sourceKeys)'
  <2> DEFINE new == [key \in {ImportKey(k, i) : i \in s} |-> cases[key]]
  <2>1. sourceKeys' = [q \in Projects |-> IF q = p THEN sourceKeys[p] ++ new ELSE sourceKeys[q]]
    BY <1>3 DEF TransferInv, Shape, PerProject
  <2>2. \A key \in DOMAIN new : key[1] = k
    BY DEF ImportKey
  <2> HIDE DEF new
  <2>3. \A q \in Projects : \A key \in DOMAIN sourceKeys'[q] : key \in DOMAIN sourceKeys[q] \/ key[1] = k
    BY <2>1, <2>2 DEF ++
  <2>4. KeysInv
    BY DEF TransferInv
  <2> QED
    BY <1>12, <2>1, <2>3, <2>4 DEF KeysInv, PerProject
<1>14. PerProject(edges)' /\ PerProject(results)'
  <2> DEFINE e == edges[p] ++ Links(p, drafts)
             r == results[p] ++ One(op, Result("apply_import", <<>>))
  <2>1. edges' = [edges EXCEPT ![p] = e] /\ results' = [results EXCEPT ![p] = r]
    BY DEF Apply, drafts
  <2> HIDE DEF e, r
  <2> QED
    BY <2>1 DEF TransferInv, Shape, PerProject
<1>15. Shape'
  BY <1>1, <1>8, <1>11, <1>12, <1>13, <1>14 DEF TransferInv, Shape
<1>19. NumbersInv'
  <2>1. DOMAIN t = DOMAIN rows[p] \cup Made(p, m, o + d)
    <3>1. Made(p, m, o) \cup Made(p, m + o, d) = Made(p, m, o + d)
      BY <1>6, MadeTogether
    <3> QED
      BY <1>6, <1>7, <3>1
  <2>2. o + d \in Nat
    BY <1>6
  <2> QED
    BY <1>1, <1>5, <2>1, <2>2, NumbersMore DEF TransferInv, Shape
<1>20. ASSUME NEW n \in DOMAIN drafts
       PROVE  /\ NodeOf(p, drafts, n) \in DOMAIN rows'[p]
              /\ rows'[p][NodeOf(p, drafts, n)].case = CaseOf(p, drafts, n)
  <2>1. /\ n \in 1 .. d /\ NodeOf(p, drafts, n) = <<(m + o) + n, p>>
        /\ nodes[NodeOf(p, drafts, n)] = Row(drafts[n].type, CaseOf(p, drafts, n), "candidate", NoFingerprint)
    BY <1>6
  <2>2. NodeOf(p, drafts, n) \in DOMAIN nodes
    BY <1>6, <2>1 DEF Made
  <2>3. t[NodeOf(p, drafts, n)] = Row(drafts[n].type, CaseOf(p, drafts, n), "candidate", NoFingerprint)
    BY <1>7, <2>1, <2>2
  <2> QED
    BY <1>7, <1>8, <2>2, <2>3 DEF Row
<1> QED
  BY <1>10, <1>11, <1>13, <1>15, <1>19, <1>20 DEF TransferInv, drafts

--------------------------------------------------------------------------------
LEMMA TransferKeeps ==
    ASSUME TransferInv, NumbersInv, RefsInv, [Next]_vars
    PROVE  TransferInv' /\ NumbersInv'
<1>0. UNCHANGED rows => NumbersInv'
  BY NumbersSame
<1>1. CASE UNCHANGED vars
  BY <1>0, <1>1, FileStepsKeep DEF vars, graphVars
<1>2. CASE GraphNext /\ UNCHANGED <<archives, importVars>>
  <2>1. PICK p \in Projects : \/ RecordProblem(p) \/ RecordVerification(p)
                              \/ PromoteRootCause(p) \/ CloseCase(p) \/ Supersede(p)
    BY <1>2 DEF GraphNext
  <2>2. CASE RecordProblem(p)
    <3>1. PICK i \in Problems(p) : KnownProblem(p, i) \/ NewProblem(p, i)
      BY <2>2 DEF RecordProblem
    <3>2. CASE KnownProblem(p, i)
      BY <1>0, <1>2, <3>2, KnownProblemKeeps DEF KnownProblem
    <3>3. CASE NewProblem(p, i)
      BY <1>2, <3>3, NewProblemKeeps
    <3> QED
      BY <3>1, <3>2, <3>3
  <2>3. CASE RecordVerification(p)
    BY <1>2, <2>3, RecordVerificationKeeps
  <2>4. CASE PromoteRootCause(p)
    BY <1>2, <2>4, PromoteRootCauseKeeps
  <2>5. CASE CloseCase(p)
    BY <1>2, <2>5, CloseCaseKeeps
  <2>6. CASE Supersede(p)
    BY <1>2, <2>6, SupersedeKeeps
  <2> QED
    BY <2>1, <2>2, <2>3, <2>4, <2>5, <2>6
<1>3. CASE SnapshotNext /\ UNCHANGED importVars
  <2>1. PICK p \in Projects : \/ ExportProjectGraph(p)
                              \/ \E op \in Operations, a \in archives : ImportProjectGraph(p, op, a)
    BY <1>3 DEF SnapshotNext
  <2>2. CASE ExportProjectGraph(p)
    BY <1>0, <1>3, <2>2, ExportKeeps DEF ExportProjectGraph, graphVars
  <2>3. ASSUME NEW op \in Operations, NEW a \in archives, ImportProjectGraph(p, op, a)
        PROVE  TransferInv' /\ NumbersInv'
    BY <1>3, <2>3, ImportKeeps
  <2> QED
    BY <2>1, <2>2, <2>3
<1>4. CASE ImportNext /\ UNCHANGED archives
  <2>1. PICK p \in Importing : PreviewImportContent(p) \/ ApplyImportContent(p)
    BY <1>4 DEF ImportNext
  <2>2. p \in Projects
    BY ContentsAssumption
  <2>3. CASE PreviewImportContent(p)
    BY <1>0, <1>4, <2>1, <2>3, FileStepsKeep DEF PreviewImportContent, graphVars
  <2>4. CASE ApplyImportContent(p)
    <3>1. PICK op \in Operations, k \in DOMAIN previews : \E s \in Selections(k) : Apply(p, op, k, s)
      BY <2>4 DEF ApplyImportContent
    <3>2. PICK s \in Selections(k) : Apply(p, op, k, s)
      BY <3>1
    <3> QED
      BY <1>4, <2>2, <3>2, ApplyKeeps
  <2> QED
    BY <2>1, <2>3, <2>4
<1>5. CASE FilesNext /\ UNCHANGED archives
  <2>1. UNCHANGED graphVars
    BY <1>5 DEF FilesNext, Expire, EditFile
  <2> QED
    BY <1>0, <1>5, <2>1, FileStepsKeep DEF graphVars
<1> QED
  BY <1>1, <1>2, <1>3, <1>4, <1>5 DEF Next

--------------------------------------------------------------------------------
(* What refers to rows, step by step *)

LEMMA KnownProblemRefs ==
    ASSUME TransferInv, RefsInv, NEW p \in Projects, NEW i \in Problems(p), KnownProblem(p, i),
           UNCHANGED archives
    PROVE  RefsInv'
<1> DEFINE stored == With(results[p], i.op, Result("record_problem", ProblemAnswer(p, i)), NoOperation)
<1>1. /\ results' = [results EXCEPT ![p] = stored] /\ published' = FALSE
      /\ UNCHANGED <<rows, edges, fingerprints, sourceKeys>>
  BY DEF KnownProblem
<1>2. i.op \in Operations \cup {NoOperation}
  BY SpellingsAssumption DEF Problems, Asked
<1>3. DOMAIN stored \subseteq Operations
  BY <1>2, WithMember DEF RefsInv
<1> HIDE DEF stored
<1>4. /\ Linked(rows[p], edges[p]) /\ Referring(rows[p], fingerprints[p])
      /\ KeysReferring(rows[p], sourceKeys[p])
  BY DEF RefsInv, Ids, KeysReferring
<1>5. Shape
  BY DEF TransferInv
<1>6. /\ rows' = [rows EXCEPT ![p] = rows[p]] /\ edges' = [edges EXCEPT ![p] = edges[p]]
      /\ fingerprints' = [fingerprints EXCEPT ![p] = fingerprints[p]]
      /\ sourceKeys' = [sourceKeys EXCEPT ![p] = sourceKeys[p]]
  BY <1>1, <1>5, UnchangedParts
<1>7. Keeps(rows[p], rows[p])
  BY KeepsItself
<1> QED
  BY <1>1, <1>3, <1>4, <1>5, <1>6, <1>7, RefsExtend

LEMMA NewProblemRefs ==
    ASSUME TransferInv, RefsInv, NEW p \in Projects, NEW i \in Problems(p), NewProblem(p, i),
           UNCHANGED archives
    PROVE  RefsInv'
<1> DEFINE node == ProblemAnswer(p, i)
           c == IF i.case = NoCase THEN Fresh(rows[p], p, 1) ELSE i.case
           f == IF i.spelling = NoFingerprint THEN NoFingerprint ELSE Stored[i.spelling]
           t == rows[p] ++ One(node, Row("Problem", c, "open", f)) ++ One(c, Row("Case", c, "open", NoFingerprint))
           index == With(fingerprints[p], f, node, NoFingerprint)
           keys == With(sourceKeys[p], i.source, node, NoSource)
           stored == With(results[p], i.op, Result("record_problem", node), NoOperation)
<1>1. /\ rows' = [rows EXCEPT ![p] = t] /\ fingerprints' = [fingerprints EXCEPT ![p] = index]
      /\ sourceKeys' = [sourceKeys EXCEPT ![p] = keys] /\ results' = [results EXCEPT ![p] = stored]
      /\ published' = TRUE /\ UNCHANGED edges
  BY DEF NewProblem
<1>2. /\ i.op \in Operations \cup {NoOperation} /\ f \in Fingerprints \cup {NoFingerprint}
  <2>1. i.spelling \in Spellings \cup {NoFingerprint} /\ i.op \in Operations \cup {NoOperation}
    BY SpellingsAssumption DEF Problems, Asked
  <2> QED
    BY <2>1, SpellingsAssumption
<1> HIDE DEF node, c, f
<1>3. Keeps(rows[p], t) /\ node \in DOMAIN t
  BY DEF Keeps, ++, One
<1>4. /\ Linked(rows[p], edges[p]) /\ Referring(rows[p], fingerprints[p])
      /\ KeysReferring(rows[p], sourceKeys[p]) /\ DOMAIN results[p] \subseteq Operations
  BY DEF RefsInv, Ids, KeysReferring
<1> HIDE DEF t
<1>5. /\ Linked(t, edges[p]) /\ Referring(t, fingerprints[p]) /\ KeysReferring(t, sourceKeys[p])
  BY <1>3, <1>4, ReferencesStay
<1>6. Referring(t, index)
  BY <1>2, <1>3, <1>5, WithMember DEF Referring
<1>7. KeysReferring(t, keys)
  BY <1>3, <1>5, WithMember DEF KeysReferring
<1>8. DOMAIN stored \subseteq Operations
  BY <1>2, <1>4, WithMember
<1> HIDE DEF index, keys, stored
<1>9. Shape
  BY DEF TransferInv
<1>10. edges' = [edges EXCEPT ![p] = edges[p]]
  BY <1>1, <1>9, UnchangedParts
<1> QED
  BY <1>1, <1>3, <1>5, <1>6, <1>7, <1>8, <1>9, <1>10, RefsExtend

LEMMA SupersedeRefs ==
    ASSUME TransferInv, RefsInv, NEW p \in Projects, Supersede(p), UNCHANGED archives
    PROVE  RefsInv'
<1>1. PICK old \in OfType(p, "Solution"), new \in OfType(p, "Solution") :
        /\ rows[p][old].case = rows[p][new].case
        /\ rows' = [rows EXCEPT ![p][old].status = "retired"]
        /\ edges' = [edges EXCEPT ![p] = edges[p] ++ One(Fresh(edges[p], p, 1), Edge(new, "SUPERSEDES", old))]
        /\ published' = TRUE /\ UNCHANGED <<fingerprints, sourceKeys, results>>
  BY DEF Supersede
<1> DEFINE t == SetStatus(rows[p], old, "retired")
           es == edges[p] ++ One(Fresh(edges[p], p, 1), Edge(new, "SUPERSEDES", old))
<1>2. rows' = [rows EXCEPT ![p] = t] /\ edges' = [edges EXCEPT ![p] = es]
  BY <1>1 DEF SetStatus
<1>3. \A id \in DOMAIN rows[p] : IsRow(rows[p][id])
  BY DEF TransferInv, TablesInv, GoodTable, GoodRow
<1>4. old \in DOMAIN rows[p] /\ new \in DOMAIN rows[p] /\ "retired" \in Statuses
  BY DEF OfType, Statuses
<1>5. /\ DOMAIN t = DOMAIN rows[p]
      /\ \A id \in DOMAIN rows[p] : t[id].case = rows[p][id].case
  BY <1>3, <1>4, StatusSet
<1> HIDE DEF t
<1>6. Keeps(rows[p], t)
  BY <1>5 DEF Keeps
<1>7. Linked(t, edges[p])
  BY <1>6, ReferencesStay DEF RefsInv
<1>8. Linked(t, es)
  <2>1. PICK n : Fresh(edges[p], p, 1) = <<n, p>>
    BY DEF Fresh
  <2>2. IsId(<<n, p>>)
    BY PairIsId
  <2> DEFINE e == Edge(new, "SUPERSEDES", old)
  <2>3. e.source = new /\ e.target = old
    BY DEF Edge
  <2> HIDE DEF e
  <2>4. t[e.source].case = t[e.target].case /\ {e.source, e.target} \subseteq DOMAIN t
    BY <1>1, <1>4, <1>5, <2>3
  <2>5. Linked(t, One(<<n, p>>, e))
    BY <2>2, <2>4 DEF Linked, One
  <2> QED
    BY <1>7, <2>1, <2>5, AddedTogether DEF e
<1> HIDE DEF es
<1> QED
  BY <1>1, <1>2, <1>6, <1>8, RestatusRefs

LEMMA ExportRefs ==
    ASSUME RefsInv, NEW p \in Projects, ExportProjectGraph(p)
    PROVE  RefsInv'
<1>1. /\ archives' = archives \cup {Archive(p)}
      /\ UNCHANGED <<rows, edges, fingerprints, sourceKeys, results, published>>
  BY DEF ExportProjectGraph, graphVars
<1>2. /\ Archive(p).rows = rows[p] /\ Archive(p).edges = edges[p]
      /\ Archive(p).fingerprints = fingerprints[p]
  BY DEF Archive
<1>3. \A a \in archives' : Linked(a.rows, a.edges) /\ Referring(a.rows, a.fingerprints)
  BY <1>1, <1>2 DEF RefsInv
<1> QED
  BY <1>1, <1>3 DEF RefsInv, Ids

(* A row that has come in an archive, now or earlier, is in the Case that   *)
(* has come with it.                                                        *)
LEMMA ImportedCase ==
    ASSUME NEW all, NEW all2, Grows(all, all2), NEW q \in Projects,
           NEW table, GoodTable(all, table), \A r \in Projects : GoodTable(all, all[r]),
           GoodTable(all2, all2[q]),
           NEW x \in DOMAIN table, Mapped(q, x) \in DOMAIN all2[q]
    PROVE  all2[q][Mapped(q, x)].case = Mapped(q, table[x].case)
<1> DEFINE c == all[x[2]][Root(x)].case
<1>1. /\ IsId(x) /\ x[2] \in Projects /\ Root(x) \in DOMAIN all[x[2]]
      /\ table[x].case = Follow(c, x)
  BY DEF GoodTable, GoodRow
<1>2. /\ Root(Mapped(q, x)) = Root(x) /\ Mapped(q, x)[2] = x[2]
  BY <1>1, MappedFacts
<1>3. all2[x[2]][Root(x)].case = c
  BY <1>1 DEF Grows
<1>4. all2[q][Mapped(q, x)].case = Follow(c, Mapped(q, x))
  <2>1. all2[q][Mapped(q, x)].case =
          Follow(all2[Mapped(q, x)[2]][Root(Mapped(q, x))].case, Mapped(q, x))
    BY DEF GoodTable, GoodRow
  <2> QED
    BY <1>2, <1>3, <2>1
<1>5. IsId(c)
  BY <1>1 DEF GoodTable, GoodRow
<1> HIDE DEF c
<1> QED
  BY <1>1, <1>4, <1>5, FollowMapped

LEMMA ImportRefs ==
    ASSUME TransferInv, TransferInv', RefsInv, NEW q \in Projects, NEW op \in Operations,
           NEW a \in archives, ImportProjectGraph(q, op, a)
    PROVE  RefsInv'
<1> DEFINE more == RenamedRows(q, a.rows)
           t == rows[q] ++ more
           links == Renamed(q, a.edges, ImportedEdge)
           es == edges[q] ++ links
           marks == [f \in DOMAIN a.fingerprints |-> Mapped(q, a.fingerprints[f])]
           index == fingerprints[q] ++ marks
           stored == results[q] ++ One(op, Result("import_project_graph", <<>>))
<1>1. /\ rows' = [rows EXCEPT ![q] = t] /\ edges' = [edges EXCEPT ![q] = es]
      /\ fingerprints' = [fingerprints EXCEPT ![q] = index] /\ results' = [results EXCEPT ![q] = stored]
      /\ published' \in BOOLEAN /\ UNCHANGED <<sourceKeys, archives>>
  BY DEF ImportProjectGraph, Added, RenamedRows, ImportPublishes
<1>2. /\ GoodTable(rows, a.rows) /\ Linked(a.rows, a.edges) /\ Referring(a.rows, a.fingerprints)
      /\ Shape /\ \A r \in Projects : GoodTable(rows, rows[r])
      /\ \A r \in Projects : GoodTable(rows', rows'[r])
  BY DEF TransferInv, TablesInv, RefsInv
<1>3. \A id : id \in DOMAIN more <=> \E y \in DOMAIN a.rows : id = Mapped(q, y)
  BY <1>2, RenamedFacts
<1> HIDE DEF more
<1>4. Extends(rows[q], t) /\ DOMAIN t = DOMAIN rows[q] \cup DOMAIN more
  BY AlsoFacts
<1> HIDE DEF t
<1>5. rows'[q] = t /\ Grows(rows, rows')
  BY <1>1, <1>2, <1>4, ExtensionGrows DEF Shape
<1>6. Keeps(rows[q], t)
  BY <1>4 DEF Keeps, Extends
<1>7. \A x \in DOMAIN a.rows : Mapped(q, x) \in DOMAIN t /\ t[Mapped(q, x)].case = Mapped(q, a.rows[x].case)
  <2>1. ASSUME NEW x \in DOMAIN a.rows PROVE Mapped(q, x) \in DOMAIN t
    BY <1>3, <1>4
  <2>2. ASSUME NEW x \in DOMAIN a.rows PROVE t[Mapped(q, x)].case = Mapped(q, a.rows[x].case)
    <3> DEFINE table == a.rows
    <3>1. Mapped(q, x) \in DOMAIN rows'[q] /\ x \in DOMAIN table /\ GoodTable(rows, table)
      BY <1>2, <1>5, <2>1
    <3> HIDE DEF table
    <3>2. rows'[q][Mapped(q, x)].case = Mapped(q, table[x].case)
      BY <1>2, <1>5, <3>1, ImportedCase
    <3> QED
      BY <1>5, <3>2 DEF table
  <2> QED
    BY <2>1, <2>2
<1>8. Linked(t, links)
  <2> SUFFICES ASSUME NEW id \in DOMAIN links
               PROVE  /\ IsId(id) /\ {links[id].source, links[id].target} \subseteq DOMAIN t
                      /\ t[links[id].source].case = t[links[id].target].case
    BY DEF Linked
  <2>1. links = [x2 \in {Mapped(q, x) : x \in DOMAIN a.edges} |-> ImportedEdge(q, a.edges[Source(x2)])]
    BY DEF Renamed
  <2> HIDE DEF links
  <2>2. PICK x \in DOMAIN a.edges : id = Mapped(q, x)
    BY <2>1
  <2> DEFINE e == a.edges[x]
  <2>3. /\ IsId(x) /\ {e.source, e.target} \subseteq DOMAIN a.rows
        /\ a.rows[e.source].case = a.rows[e.target].case
    BY <1>2, <2>2 DEF Linked
  <2>4. IsId(id) /\ Source(id) = x
    BY <2>2, <2>3, MappedFacts
  <2>5. links[id] = ImportedEdge(q, e)
    BY <2>1, <2>4
  <2>6. links[id].source = Mapped(q, e.source) /\ links[id].target = Mapped(q, e.target)
    BY <2>5 DEF ImportedEdge, Edge
  <2> HIDE DEF e
  <2> QED
    BY <1>7, <2>3, <2>4, <2>6
<1>9. Referring(t, marks)
  BY <1>2, <1>7 DEF Referring
<1> HIDE DEF links, marks
<1>10. /\ Linked(t, edges[q]) /\ Referring(t, fingerprints[q]) /\ KeysReferring(t, sourceKeys[q])
  <2>1. /\ Linked(rows[q], edges[q]) /\ Referring(rows[q], fingerprints[q])
        /\ KeysReferring(rows[q], sourceKeys[q])
    BY DEF RefsInv, Ids, KeysReferring
  <2> QED
    BY <1>6, <2>1, ReferencesStay
<1>11. Linked(t, es) /\ Referring(t, index)
  BY <1>8, <1>9, <1>10, AddedTogether
<1>12. DOMAIN stored \subseteq Operations
  BY DEF RefsInv, ++, One
<1> HIDE DEF es, index, stored
<1>13. sourceKeys' = [sourceKeys EXCEPT ![q] = sourceKeys[q]]
  BY <1>1, <1>2, UnchangedParts
<1> QED
  BY <1>1, <1>2, <1>6, <1>10, <1>11, <1>12, <1>13, RefsExtend

(* Attempts are linked to a Problem with their title, and so of their Case. *)
LEMMA LinksInOneCase ==
    ASSUME NEW p, NEW drafts, NEW d \in Nat, DOMAIN drafts = 1 .. d,
           NEW x \in DOMAIN Links(p, drafts)
    PROVE  \E n \in 1 .. d, m \in 1 .. d :
              /\ Links(p, drafts)[x] = Edge(NodeOf(p, drafts, n), "ATTEMPTS_TO_SOLVE", NodeOf(p, drafts, m))
              /\ CaseOf(p, drafts, n) = CaseOf(p, drafts, m)
              /\ IsId(x)
<1> DEFINE attempts == {n \in DOMAIN drafts : drafts[n].type = "Attempt"}
           problems(n) == {m \in DOMAIN drafts : drafts[m].type = "Problem" /\ InOneCase(drafts, n, m)}
           first(n) == CHOOSE m \in problems(n) : \A l \in problems(n) : m <= l
           linked == {n \in attempts : problems(n) # {}}
           before(n) == Cardinality({m \in linked : m <= n})
           ids == {Fresh(edges[p], p, before(n)) : n \in linked}
           n == CHOOSE m \in linked : Fresh(edges[p], p, before(m)) = x
<1>1. Links(p, drafts) =
        [id \in ids |->
           Edge(NodeOf(p, drafts, CHOOSE m \in linked : Fresh(edges[p], p, before(m)) = id),
                "ATTEMPTS_TO_SOLVE",
                NodeOf(p, drafts, first(CHOOSE m \in linked : Fresh(edges[p], p, before(m)) = id)))]
  BY DEF Links
<1>2. /\ x \in ids
      /\ Links(p, drafts)[x] =
           Edge(NodeOf(p, drafts, n), "ATTEMPTS_TO_SOLVE", NodeOf(p, drafts, first(n)))
  <2> HIDE DEF ids, linked, before, first
  <2> QED
    BY <1>1
<1>3. n \in linked /\ IsId(x)
  <2> HIDE DEF linked, before
  <2>1. PICK m \in linked : x = Fresh(edges[p], p, before(m))
    BY <1>2
  <2>2. IsId(x)
    BY <2>1, PairIsId DEF Fresh
  <2> QED
    BY <2>1, <2>2
<1> HIDE DEF n
<1>4. n \in 1 .. d /\ problems(n) # {} /\ problems(n) \in SUBSET Nat
  BY <1>3
<1>5. first(n) \in problems(n)
  <2>1. \E m \in problems(n) : \A l \in problems(n) : m <= l
    <3> HIDE DEF problems
    <3> QED
      BY <1>4, Least
  <2> HIDE DEF problems
  <2> QED
    BY <2>1
<1> HIDE DEF first
<1>6. first(n) \in 1 .. d /\ drafts[n].title = drafts[first(n)].title
  BY <1>5 DEF InOneCase
<1>7. CaseOf(p, drafts, n) = CaseOf(p, drafts, first(n))
  BY <1>6 DEF CaseOf
<1> QED
  BY <1>2, <1>3, <1>4, <1>6, <1>7

LEMMA ApplyRefs ==
    ASSUME TransferInv, NumbersInv, RefsInv, NEW p \in Projects, NEW op \in Operations,
           NEW k \in DOMAIN previews, NEW s \in Selections(k), Apply(p, op, k, s),
           UNCHANGED archives
    PROVE  RefsInv'
<1> DEFINE drafts == Drafts(k, s)
           d == Cardinality(s)
           t == rows[p] ++ NewCases(p, drafts) ++ NewNodes(p, drafts)
           es == edges[p] ++ Links(p, drafts)
           node(key) == NodeOf(p, drafts, Cardinality({i \in s : i <= key[2]}))
           new == [key \in {ImportKey(k, i) : i \in s} |-> node(key)]
           keys == sourceKeys[p] ++ new
           stored == results[p] ++ One(op, Result("apply_import", <<>>))
<1>1. /\ rows' = [rows EXCEPT ![p] = t] /\ edges' = [edges EXCEPT ![p] = es]
      /\ sourceKeys' = [sourceKeys EXCEPT ![p] = keys] /\ results' = [results EXCEPT ![p] = stored]
      /\ published' = TRUE /\ UNCHANGED fingerprints
  BY DEF Apply
<1>2. /\ DOMAIN drafts = 1 .. d /\ d \in Nat
      /\ \A i \in s : Cardinality({j \in s : j <= i}) \in 1 .. d
  BY DraftsCounted DEF TransferInv
<1>3. \A n \in DOMAIN drafts : /\ NodeOf(p, drafts, n) \in DOMAIN rows'[p]
                             /\ rows'[p][NodeOf(p, drafts, n)].case = CaseOf(p, drafts, n)
  BY ApplyKeeps
<1> HIDE DEF drafts
<1>4. Keeps(rows[p], t)
  BY DEF Keeps, ++
<1> HIDE DEF t, d
<1>5. Shape /\ rows'[p] = t
  BY <1>1 DEF TransferInv, Shape, PerProject
<1>6. /\ Linked(t, edges[p]) /\ Referring(t, fingerprints[p]) /\ KeysReferring(t, sourceKeys[p])
  <2>1. /\ Linked(rows[p], edges[p]) /\ Referring(rows[p], fingerprints[p])
        /\ KeysReferring(rows[p], sourceKeys[p])
    BY DEF RefsInv, Ids, KeysReferring
  <2> QED
    BY <1>4, <2>1, ReferencesStay
<1>7. Linked(t, Links(p, drafts))
  <2> DEFINE links == Links(p, drafts)
  <2> SUFFICES ASSUME NEW x \in DOMAIN links
               PROVE  /\ IsId(x) /\ {links[x].source, links[x].target} \subseteq DOMAIN t
                      /\ t[links[x].source].case = t[links[x].target].case
    BY DEF Linked
  <2>1. PICK n \in 1 .. d, m \in 1 .. d :
          /\ links[x] = Edge(NodeOf(p, drafts, n), "ATTEMPTS_TO_SOLVE", NodeOf(p, drafts, m))
          /\ CaseOf(p, drafts, n) = CaseOf(p, drafts, m)
          /\ IsId(x)
    BY <1>2, LinksInOneCase
  <2>2. links[x].source = NodeOf(p, drafts, n) /\ links[x].target = NodeOf(p, drafts, m)
    BY <2>1 DEF Edge
  <2> HIDE DEF links
  <2> QED
    BY <1>2, <1>3, <1>5, <2>1, <2>2
<1>8. Linked(t, es)
  BY <1>6, <1>7, AddedTogether
<1>9. KeysReferring(t, keys)
  <2>1. ASSUME NEW key \in DOMAIN new PROVE new[key] \in DOMAIN t
    <3>1. PICK i \in s : key = ImportKey(k, i)
      OBVIOUS
    <3>2. key[2] = i
      BY <3>1 DEF ImportKey
    <3>3. new[key] = NodeOf(p, drafts, Cardinality({j \in s : j <= i}))
      BY <3>2
    <3> QED
      BY <1>2, <1>3, <1>5, <3>3
  <2> HIDE DEF new
  <2>2. KeysReferring(t, new)
    BY <2>1 DEF KeysReferring
  <2> QED
    BY <1>6, <2>2, AddedTogether
<1>10. DOMAIN stored \subseteq Operations
  BY DEF RefsInv, ++, One
<1> HIDE DEF es, keys, stored
<1>11. fingerprints' = [fingerprints EXCEPT ![p] = fingerprints[p]]
  BY <1>1, <1>5, UnchangedParts
<1> QED
  BY <1>1, <1>4, <1>5, <1>6, <1>8, <1>9, <1>10, <1>11, RefsExtend

LEMMA RefsKeep ==
    ASSUME TransferInv, NumbersInv, RefsInv, [Next]_vars
    PROVE  RefsInv'
<1>0. UNCHANGED <<rows, edges, fingerprints, sourceKeys, results, published, archives>> => RefsInv'
  BY DEF RefsInv, Ids
<1>1. CASE UNCHANGED vars
  BY <1>0, <1>1 DEF vars, graphVars
<1>2. CASE GraphNext /\ UNCHANGED <<archives, importVars>>
  <2>1. PICK p \in Projects : \/ RecordProblem(p) \/ RecordVerification(p)
                              \/ PromoteRootCause(p) \/ CloseCase(p) \/ Supersede(p)
    BY <1>2 DEF GraphNext
  <2>2. CASE RecordProblem(p)
    <3>1. PICK i \in Problems(p) : KnownProblem(p, i) \/ NewProblem(p, i)
      BY <2>2 DEF RecordProblem
    <3> QED
      BY <1>2, <3>1, KnownProblemRefs, NewProblemRefs
  <2> QED
    BY <1>2, <2>1, <2>2, RecordVerificationKeeps, PromoteRootCauseKeeps, CloseCaseKeeps, SupersedeRefs
<1>3. CASE SnapshotNext /\ UNCHANGED importVars
  <2>1. PICK p \in Projects : \/ ExportProjectGraph(p)
                              \/ \E op \in Operations, a \in archives : ImportProjectGraph(p, op, a)
    BY <1>3 DEF SnapshotNext
  <2>2. TransferInv'
    BY TransferKeeps
  <2> QED
    BY <2>1, <2>2, ExportRefs, ImportRefs
<1>4. CASE ImportNext /\ UNCHANGED archives
  <2>1. PICK p \in Importing : PreviewImportContent(p) \/ ApplyImportContent(p)
    BY <1>4 DEF ImportNext
  <2>2. p \in Projects
    BY ContentsAssumption
  <2>3. CASE PreviewImportContent(p)
    BY <1>0, <1>4, <2>3 DEF PreviewImportContent, graphVars
  <2>4. CASE ApplyImportContent(p)
    <3>1. PICK op \in Operations, k \in DOMAIN previews : \E s \in Selections(k) : Apply(p, op, k, s)
      BY <2>4 DEF ApplyImportContent
    <3>2. PICK s \in Selections(k) : Apply(p, op, k, s)
      BY <3>1
    <3> QED
      BY <1>4, <2>2, <3>2, ApplyRefs
  <2> QED
    BY <2>1, <2>3, <2>4
<1>5. CASE FilesNext /\ UNCHANGED archives
  BY <1>0, <1>5 DEF FilesNext, Expire, EditFile, graphVars
<1> QED
  BY <1>1, <1>2, <1>3, <1>4, <1>5 DEF Next

LEMMA TransferInvariance == Spec => [](TransferInv /\ NumbersInv /\ RefsInv)
<1>2. TransferInv /\ NumbersInv /\ RefsInv /\ [Next]_vars => TransferInv' /\ NumbersInv'
  BY TransferKeeps
<1>3. TransferInv /\ NumbersInv /\ RefsInv /\ [Next]_vars => RefsInv'
  BY RefsKeep
<1> QED
  BY <1>2, <1>3, TransferStart, PTL DEF Spec

(* Nothing in a project refers to what is not in it: a Case, the ends of an  *)
(* edge (in one Case), the Problem of a fingerprint, the node of a source   *)
(* key; whatever order recording, imports and applies come in, and however  *)
(* often rows travel (the foreign keys of the schema in schema.rs, and the  *)
(* deterministic ids of snapshot.rs that keep them).                        *)
THEOREM TypesCorrect == Spec => []TypeOK
<1>1. TransferInv /\ NumbersInv /\ RefsInv => TypeOK
  <2> SUFFICES ASSUME TransferInv, NumbersInv, RefsInv PROVE TypeOK
    OBVIOUS
  <2>1. ASSUME NEW p \in Projects, NEW id \in Ids(p)
        PROVE  /\ id[Len(id)] = p
               /\ rows[p][id].type \in Types /\ rows[p][id].status \in Statuses
               /\ rows[p][id].case \in Ids(p) /\ rows[p][rows[p][id].case].type = "Case"
               /\ rows[p][id].fingerprint \in Fingerprints \cup {NoFingerprint}
    <3>1. GoodRow(rows, rows[p], id)
      BY DEF TransferInv, TablesInv, GoodTable, Ids
    <3> QED
      BY <3>1 DEF GoodRow, IsRow, Ids, NumbersInv
  <2>2. ASSUME NEW p \in Projects, NEW e \in Range(edges[p])
        PROVE  /\ {e.source, e.target} \subseteq Ids(p)
               /\ rows[p][e.source].case = rows[p][e.target].case
    BY DEF RefsInv, Linked, Range, Ids
  <2>3. ASSUME NEW p \in Projects
        PROVE  /\ DOMAIN fingerprints[p] \subseteq Fingerprints
               /\ Range(fingerprints[p]) \cup Range(sourceKeys[p]) \subseteq Ids(p)
               /\ DOMAIN results[p] \subseteq Operations
    BY DEF RefsInv, Referring, Range, Ids
  <2>4. published \in BOOLEAN
    BY DEF RefsInv
  <2>5. ASSUME NEW k \in DOMAIN previews PROVE previews[k].status \in {"pending", "applied"}
    <3>1. previews[k] \in PreviewRecords
      BY DEF TransferInv, Shape
    <3> QED
      BY <3>1 DEF PreviewRecords
  <2> QED
    BY <2>1, <2>2, <2>3, <2>4, <2>5 DEF TypeOK
<1> QED
  BY <1>1, TransferInvariance, PTL

(* Whatever way knowledge has come by, over any number of projects and back, *)
(* a root cause is verified only where it has been confirmed, and a Solution *)
(* or a Case only under a root cause that has been confirmed there, imported *)
(* Verifications or not (snapshot.rs, the downgrade on import; write.rs,     *)
(* evaluate_case_promotion; import.rs, candidates).                          *)
THEOREM NoImportedTrust == Spec => []ImportedTrust
<1>1. TransferInv /\ RefsInv => ImportedTrust
  <2> SUFFICES ASSUME TransferInv, RefsInv, NEW p \in Projects, NEW id \in Ids(p),
                      rows[p][id].status = "verified"
               PROVE  OwnTrust(p, id)
    BY DEF ImportedTrust
  <2>1. Trusted(p, rows[p], edges[p], confirmed, id) /\ rows[p][id].type \in TrustedTypes
    BY DEF TransferInv, TrustInv, TablesInv, GoodTable, GoodRow, Ids
  <2>2. CASE rows[p][id].type = "Verification"
    BY <2>2 DEF OwnTrust
  <2>3. CASE rows[p][id].type = "RootCause"
    <3>1. ConfirmedHere(p, id)
      BY <2>1, <2>3 DEF Trusted, ConfirmedHere, IsA, Ids
    <3> QED
      BY <2>3, <3>1 DEF OwnTrust
  <2>4. CASE rows[p][id].type = "Solution"
    <3>1. PICK x \in DOMAIN edges[p] :
              /\ edges[p][x].source = id /\ edges[p][x].relation = "ADDRESSES"
              /\ ConfirmedHere(p, edges[p][x].target)
      BY <2>1, <2>4 DEF Trusted, ConfirmedHere, IsA
    <3>2. edges[p][x] \in Range(edges[p])
      BY DEF Range
    <3>3. \E e \in Range(edges[p]) :
             e.source = id /\ e.relation = "ADDRESSES" /\ ConfirmedHere(p, e.target)
      BY <3>1, <3>2
    <3> QED
      BY <2>4, <3>3 DEF OwnTrust
  <2>5. CASE rows[p][id].type = "Case"
    <3>1. \E r \in Ids(p) : ConfirmedHere(p, r) /\ rows[p][r].case = id
      BY <2>1, <2>5 DEF Trusted, ConfirmedHere, IsA, Ids
    <3> QED
      BY <2>5, <3>1 DEF OwnTrust
  <2> QED
    BY <2>1, <2>2, <2>3, <2>4, <2>5 DEF TrustedTypes
<1> QED
  BY <1>1, TransferInvariance, PTL

(* A known Problem, recorded here or imported, is what its fingerprint is   *)
(* answered with (write.rs, record_problem).                                *)
THEOREM KnownIsAnswered == Spec => []KnownProblemAnswered
<1>1. TransferInv => KnownProblemAnswered
  <2> SUFFICES ASSUME TransferInv, NEW p \in Projects, NEW id \in Ids(p),
                      rows[p][id].fingerprint \notin {NoFingerprint, Empty}
               PROVE  ProblemAnswer(p, Again(rows[p][id].fingerprint)) = id
    BY DEF KnownProblemAnswered
  <2> DEFINE f == rows[p][id].fingerprint
             i == Again(f)
  <2>1. i.op = NoOperation /\ i.source = NoSource /\ i.spelling = f
    BY DEF Again, Asked
  <2>2. f \in DOMAIN fingerprints[p] /\ fingerprints[p][f] = id /\ f # Empty
    BY DEF TransferInv, IndexInv, Indexed, Ids
  <2> HIDE DEF f, i
  <2>3. ~Repeated(p, i) /\ ~SourceKnown(p, i) /\ SpellingKnown(p, i)
    BY <2>1, <2>2 DEF Repeated, SourceKnown, SpellingKnown
  <2>4. ProblemAnswer(p, i) = id
    BY <2>1, <2>2, <2>3 DEF ProblemAnswer
  <2> QED
    BY <2>4 DEF f, i
<1> QED
  BY <1>1, TransferInvariance, PTL

(* The parts of a graph that an operation which is stored leaves as they are *)
LEMMA StoredOperationsAdd ==
    ASSUME TransferInv, [Next]_vars, NEW q \in Projects, results'[q] # results[q]
    PROVE  /\ Extends(rows[q], rows'[q]) /\ Extends(edges[q], edges'[q])
           /\ Extends(fingerprints[q], fingerprints'[q])
<1>0. /\ PerProject(rows) /\ PerProject(edges) /\ PerProject(fingerprints) /\ PerProject(results)
      /\ \A f : Extends(f, f)
  BY DEF TransferInv, Shape, Extends
<1>1. ASSUME NEW p \in Projects, NEW t, rows' = [rows EXCEPT ![p] = t], Extends(rows[p], t)
      PROVE  Extends(rows[q], rows'[q])
  BY <1>0, <1>1 DEF PerProject
<1>2. ASSUME NEW p \in Projects, NEW t, edges' = [edges EXCEPT ![p] = t], Extends(edges[p], t)
      PROVE  Extends(edges[q], edges'[q])
  BY <1>0, <1>2 DEF PerProject
<1>3. ASSUME NEW p \in Projects, NEW t, fingerprints' = [fingerprints EXCEPT ![p] = t], Extends(fingerprints[p], t)
      PROVE  Extends(fingerprints[q], fingerprints'[q])
  BY <1>0, <1>3 DEF PerProject
<1>4. CASE UNCHANGED results
  BY <1>4
<1>5. ASSUME NEW p \in Projects, NEW i, KnownProblem(p, i)
      PROVE  UNCHANGED <<rows, edges, fingerprints>>
  BY <1>5 DEF KnownProblem
<1>6. ASSUME NEW p \in Projects, NEW i, NewProblem(p, i)
      PROVE  /\ Extends(rows[q], rows'[q]) /\ UNCHANGED edges
             /\ Extends(fingerprints[q], fingerprints'[q])
  <2> DEFINE node == ProblemAnswer(p, i)
             c == IF i.case = NoCase THEN Fresh(rows[p], p, 1) ELSE i.case
             f == IF i.spelling = NoFingerprint THEN NoFingerprint ELSE Stored[i.spelling]
             t == rows[p] ++ One(node, Row("Problem", c, "open", f)) ++ One(c, Row("Case", c, "open", NoFingerprint))
             u == With(fingerprints[p], f, node, NoFingerprint)
  <2>1. rows' = [rows EXCEPT ![p] = t] /\ fingerprints' = [fingerprints EXCEPT ![p] = u] /\ UNCHANGED edges
    BY <1>6 DEF NewProblem
  <2> HIDE DEF node, c, f
  <2>2. Extends(rows[p], t) /\ Extends(fingerprints[p], u)
    BY DEF ++, With, Extends
  <2> HIDE DEF t, u
  <2> QED
    BY <1>1, <1>3, <2>1, <2>2
<1>7. ASSUME NEW p \in Projects, NEW op, NEW a \in archives, ImportProjectGraph(p, op, a)
      PROVE  /\ Extends(rows[q], rows'[q]) /\ Extends(edges[q], edges'[q])
             /\ Extends(fingerprints[q], fingerprints'[q])
  <2> DEFINE t == rows[p] ++ Renamed(p, a.rows, ImportedRow)
             e == edges[p] ++ Renamed(p, a.edges, ImportedEdge)
             u == fingerprints[p] ++ [f \in DOMAIN a.fingerprints |-> Mapped(p, a.fingerprints[f])]
  <2>1. /\ rows' = [rows EXCEPT ![p] = t] /\ edges' = [edges EXCEPT ![p] = e]
        /\ fingerprints' = [fingerprints EXCEPT ![p] = u]
    BY <1>7 DEF ImportProjectGraph, Added
  <2>2. Extends(rows[p], t) /\ Extends(edges[p], e) /\ Extends(fingerprints[p], u)
    BY AlsoFacts
  <2> HIDE DEF t, e, u
  <2> QED
    BY <1>1, <1>2, <1>3, <2>1, <2>2
<1>8. ASSUME NEW p \in Projects, NEW op, NEW k, NEW s, Apply(p, op, k, s)
      PROVE  /\ Extends(rows[q], rows'[q]) /\ Extends(edges[q], edges'[q]) /\ UNCHANGED fingerprints
  <2> DEFINE drafts == Drafts(k, s)
             t == rows[p] ++ NewCases(p, drafts) ++ NewNodes(p, drafts)
             e == edges[p] ++ Links(p, drafts)
  <2>1. rows' = [rows EXCEPT ![p] = t] /\ edges' = [edges EXCEPT ![p] = e] /\ UNCHANGED fingerprints
    BY <1>8 DEF Apply
  <2> HIDE DEF drafts
  <2>2. Extends(rows[p], t) /\ Extends(edges[p], e)
    BY DEF ++, Extends
  <2> HIDE DEF t, e
  <2> QED
    BY <1>1, <1>2, <2>1, <2>2
<1>9. \/ UNCHANGED results
      \/ \E p \in Projects : \E i \in Problems(p) : KnownProblem(p, i) \/ NewProblem(p, i)
      \/ \E p \in Projects, op \in Operations, a \in archives : ImportProjectGraph(p, op, a)
      \/ \E p \in Projects : \E op, k, s : Apply(p, op, k, s)
  <2>1. CASE UNCHANGED vars
    BY <2>1 DEF vars, graphVars
  <2>2. CASE GraphNext
    BY <2>2 DEF GraphNext, RecordProblem, RecordVerification, PromoteRootCause, CloseCase, Supersede
  <2>3. CASE SnapshotNext
    BY <2>3 DEF SnapshotNext, ExportProjectGraph, graphVars
  <2>4. CASE ImportNext
    <3>1. PICK p \in Importing : PreviewImportContent(p) \/ ApplyImportContent(p)
      BY <2>4 DEF ImportNext
    <3>2. p \in Projects
      BY ContentsAssumption
    <3>3. CASE PreviewImportContent(p)
      BY <3>3 DEF PreviewImportContent, graphVars
    <3>4. CASE ApplyImportContent(p)
      BY <3>2, <3>4 DEF ApplyImportContent
    <3> QED
      BY <3>1, <3>3, <3>4
  <2>5. CASE FilesNext
    BY <2>5 DEF FilesNext, Expire, EditFile, graphVars
  <2> QED
    BY <2>1, <2>2, <2>3, <2>4, <2>5 DEF Next
<1> QED
  BY <1>0, <1>4, <1>5, <1>6, <1>7, <1>8, <1>9

(* An import, like every operation that is stored, leaves what is there.    *)
THEOREM ImportsOnlyAdd == Spec => ImportKeepsLocal
<1> DEFINE A == \A q \in Projects :
                  results'[q] # results[q] =>
                      /\ \A id \in Ids(q) : rows'[q][id] = rows[q][id]
                      /\ \A id \in DOMAIN edges[q] : edges'[q][id] = edges[q][id]
                      /\ \A f \in DOMAIN fingerprints[q] : fingerprints'[q][f] = fingerprints[q][f]
<1>1. TransferInv /\ [Next]_vars => [A]_vars
  BY StoredOperationsAdd DEF Extends, Ids
<1>2. Spec => [][A]_vars
  BY <1>1, TransferInvariance, PTL DEF Spec
<1> QED
  BY <1>2 DEF ImportKeepsLocal

LEMMA AppliedStaysApplied ==
    ASSUME TransferInv, [Next]_vars, NEW p \in Projects, NEW k \in DOMAIN previews, CameOf(p, k) # {}
    PROVE  CameOf(p, k)' = CameOf(p, k)
<1>0. /\ PerProject(sourceKeys) /\ previews[k].status = "applied"
  BY DEF TransferInv, Shape, KeysInv, CameOf
<1>1. CASE UNCHANGED sourceKeys
  BY <1>1 DEF CameOf
<1>2. ASSUME NEW q \in Projects, NEW i \in Problems(q), NewProblem(q, i)
      PROVE  CameOf(p, k)' = CameOf(p, k)
  <2> DEFINE node == ProblemAnswer(q, i)
  <2>1. sourceKeys' = [sourceKeys EXCEPT ![q] = With(sourceKeys[q], i.source, node, NoSource)]
    BY <1>2 DEF NewProblem
  <2>2. i.source \in Sources \cup {NoSource}
    BY SpellingsAssumption DEF Problems, Asked
  <2> HIDE DEF node
  <2>3. \A key : key \notin Sources => (key \in DOMAIN sourceKeys'[p] <=> key \in DOMAIN sourceKeys[p])
    BY <1>0, <2>1, <2>2 DEF PerProject, With, ++, One
  <2> QED
    BY <2>3 DEF CameOf
<1>3. ASSUME NEW q \in Projects, NEW op, NEW j \in DOMAIN previews, NEW s, Apply(q, op, j, s)
      PROVE  CameOf(p, k)' = CameOf(p, k)
  <2>1. j # k
    BY <1>0, <1>3 DEF Apply, Applicable, Fresh24
  <2> DEFINE value(key) == NodeOf(q, Drafts(j, s), Cardinality({i \in s : i <= key[2]}))
             new == [key \in {ImportKey(j, i) : i \in s} |-> value(key)]
  <2>2. sourceKeys' = [sourceKeys EXCEPT ![q] = sourceKeys[q] ++ new]
    BY <1>3 DEF Apply
  <2>3. \A key \in DOMAIN new : key[1] = j
    BY DEF ImportKey
  <2> HIDE DEF new
  <2>4. \A key : key[1] = k => (key \in DOMAIN sourceKeys'[p] <=> key \in DOMAIN sourceKeys[p])
    BY <1>0, <2>1, <2>2, <2>3 DEF PerProject, ++
  <2> QED
    BY <2>4 DEF CameOf
<1>4. \/ UNCHANGED sourceKeys
      \/ \E q \in Projects : \E i \in Problems(q) : NewProblem(q, i)
      \/ \E q \in Projects : \E j \in DOMAIN previews : \E op, s : Apply(q, op, j, s)
  <2>1. CASE UNCHANGED vars
    BY <2>1 DEF vars, graphVars
  <2>2. CASE GraphNext
    BY <2>2 DEF GraphNext, RecordProblem, KnownProblem, RecordVerification, PromoteRootCause,
                 CloseCase, Supersede
  <2>3. CASE SnapshotNext
    BY <2>3 DEF SnapshotNext, ExportProjectGraph, ImportProjectGraph, graphVars
  <2>4. CASE ImportNext
    <3>1. PICK q \in Importing : PreviewImportContent(q) \/ ApplyImportContent(q)
      BY <2>4 DEF ImportNext
    <3>2. q \in Projects
      BY ContentsAssumption
    <3>3. CASE PreviewImportContent(q)
      BY <3>3 DEF PreviewImportContent, graphVars
    <3>4. CASE ApplyImportContent(q)
      <4>1. PICK op \in Operations, j \in DOMAIN previews : \E s \in Selections(j) : Apply(q, op, j, s)
        BY <3>4 DEF ApplyImportContent
      <4>2. PICK s \in Selections(j) : Apply(q, op, j, s)
        BY <4>1
      <4> QED
        BY <3>2, <4>2
    <3> QED
      BY <3>1, <3>3, <3>4
  <2>5. CASE FilesNext
    BY <2>5 DEF FilesNext, Expire, EditFile, graphVars
  <2> QED
    BY <2>1, <2>2, <2>3, <2>4, <2>5 DEF Next
<1> QED
  BY <1>1, <1>2, <1>3, <1>4

(* What came of a preview is final: no other operation, selection or        *)
(* content of the file adds to it (import.rs, the status and the expiry).   *)
THEOREM AppliedOnce == Spec => SelectionIsFinal
<1> DEFINE A == \A p \in Projects, k \in DOMAIN previews : CameOf(p, k) # {} => CameOf(p, k)' = CameOf(p, k)
<1>1. TransferInv /\ [Next]_vars => [A]_vars
  BY AppliedStaysApplied
<1>2. Spec => [][A]_vars
  BY <1>1, TransferInvariance, PTL DEF Spec
<1> QED
  BY <1>2 DEF SelectionIsFinal

(* What a write makes of a graph without an event *)
LEMMA ChangesPublish ==
    ASSUME TransferInv, RefsInv, [Next]_vars, NEW p \in Projects, ~published'
    PROVE  /\ DOMAIN rows'[p] = Ids(p) /\ edges'[p] = edges[p]
           /\ \A id \in Ids(p) : rows'[p][id] = rows[p][id] \/ Promotes(p, id)
<1>0. PerProject(rows) /\ PerProject(edges) /\ GoodTable(rows, rows[p]) /\ Linked(rows[p], edges[p])
  BY DEF TransferInv, Shape, TablesInv, RefsInv
<1>1. CASE rows'[p] = rows[p] /\ edges'[p] = edges[p]
  BY <1>1 DEF Ids
<1>2. ASSUME NEW q \in Projects, PromoteRootCause(q), q # p
      PROVE  rows'[p] = rows[p] /\ edges'[p] = edges[p]
  <2>1. PICK table : rows' = [rows EXCEPT ![q] = table]
    BY <1>2 DEF PromoteRootCause
  <2> QED
    BY <1>0, <1>2, <2>1 DEF PromoteRootCause, PerProject
<1>3. CASE PromoteRootCause(p)
  <2>1. PICK r \in OfType(p, "RootCause") :
          /\ \E table \in Evaluated([rows[p] EXCEPT ![r].status = "verified"], edges[p], rows[p][r].case) :
                rows' = [rows EXCEPT ![p] = table]
          /\ published' = (rows[p][r].status # "verified")
          /\ UNCHANGED edges
    BY <1>3 DEF PromoteRootCause
  <2> DEFINE c == rows[p][r].case
             table1 == [rows[p] EXCEPT ![r].status = "verified"]
  <2>2. PICK t \in Evaluated(table1, edges[p], c) : rows' = [rows EXCEPT ![p] = t]
    BY <2>1
  <2>3. /\ r \in DOMAIN rows[p] /\ rows[p][r].type = "RootCause" /\ rows[p][r].status = "verified"
        /\ c \in DOMAIN rows[p] /\ \A id \in DOMAIN rows[p] : IsRow(rows[p][id])
    BY <1>0, <2>1 DEF OfType, GoodTable, GoodRow
  <2>4. DOMAIN table1 = DOMAIN rows[p] /\ \A id \in DOMAIN rows[p] : table1[id] = rows[p][id]
    <3>1. ASSUME NEW type, NEW x, NEW f
          PROVE  [Row(type, x, "verified", f) EXCEPT !.status = "verified"] = Row(type, x, "verified", f)
      BY DEF Row
    <3>2. [rows[p][r] EXCEPT !.status = "verified"] = rows[p][r]
      BY <2>3, <3>1 DEF IsRow
    <3> QED
      BY <2>3, <3>2
  <2> HIDE DEF table1
  <2>5. /\ DOMAIN t = DOMAIN rows[p]
        /\ \A id \in DOMAIN rows[p] :
              /\ IsRow(t[id]) /\ t[id].type = rows[p][id].type /\ t[id].case = rows[p][id].case
              /\ t[id].fingerprint = rows[p][id].fingerprint
              /\ \/ t[id] = rows[p][id]
                 \/ /\ t[id].status = "verified"
                    /\ \E s \in Promotable(table1, edges[p], c) : id \in {s, c}
    BY <2>2, <2>3, <2>4, EvaluatedFacts
  <2>6. rows'[p] = t
    BY <1>0, <2>2 DEF PerProject
  <2>7. ConfirmedHere(p, r) /\ rows[p][r].case = c /\ r \in Ids(p)
    <3>1. Trusted(p, rows[p], edges[p], confirmed, r)
      BY <2>3 DEF TransferInv, TrustInv, Ids
    <3> QED
      BY <2>3, <3>1 DEF Trusted, ConfirmedHere, IsA, Ids
  <2>8. ASSUME NEW id \in DOMAIN rows[p], t[id] # rows[p][id] PROVE Promotes(p, id)
    <3>1. PICK s \in Promotable(table1, edges[p], c) : id \in {s, c}
      BY <2>5, <2>8
    <3>2. rows[p][s].type = "Solution" /\ rows[p][s].case = c
      BY <2>4 DEF Promotable
    <3>3. rows[p][c].type = "Case"
      BY <1>0, <2>3 DEF GoodTable, GoodRow
    <3>4. rows[p][id].type \in {"Case", "Solution"} /\ c \in {id, rows[p][id].case}
      BY <3>1, <3>2, <3>3
    <3>5. t[id] = [rows[p][id] EXCEPT !.status = "verified"]
      <4>1. ASSUME NEW type, NEW x, NEW old, NEW f
            PROVE  [Row(type, x, old, f) EXCEPT !.status = "verified"] = Row(type, x, "verified", f)
        BY DEF Row
      <4>2. /\ IsRow(t[id]) /\ IsRow(rows[p][id]) /\ t[id].status = "verified"
            /\ t[id].type = rows[p][id].type /\ t[id].case = rows[p][id].case
            /\ t[id].fingerprint = rows[p][id].fingerprint
        BY <2>3, <2>5, <2>8
      <4> DEFINE row == rows[p][id]
      <4>3. row = Row(row.type, row.case, row.status, row.fingerprint)
        BY <4>2 DEF IsRow
      <4>4. t[id] = Row(row.type, row.case, "verified", row.fingerprint)
        BY <4>2 DEF IsRow
      <4> QED
        BY <4>1, <4>3, <4>4
    <3> QED
      BY <2>6, <2>7, <3>4, <3>5 DEF Promotes
  <2> QED
    BY <2>1, <2>5, <2>6, <2>8 DEF Ids
<1>4. CASE GraphNext
  BY <1>1, <1>2, <1>3, <1>4
     DEF GraphNext, RecordProblem, KnownProblem, NewProblem, RecordVerification, CloseCase, Supersede
<1>5. ASSUME NEW q \in Projects, NEW op, NEW a, ImportProjectGraph(q, op, a)
      PROVE  rows'[p] = rows[p] /\ edges'[p] = edges[p]
  <2> DEFINE t == Added(rows[q], Renamed(q, a.rows, ImportedRow))
             e == Added(edges[q], Renamed(q, a.edges, ImportedEdge))
  <2>1. /\ rows' = [rows EXCEPT ![q] = t] /\ edges' = [edges EXCEPT ![q] = e]
        /\ published' = ImportPublishes(q)
    BY <1>5 DEF ImportProjectGraph
  <2> HIDE DEF t, e
  <2>2. rows'[q] = rows[q] /\ edges'[q] = edges[q]
    BY <2>1 DEF ImportPublishes
  <2> QED
    BY <1>0, <2>1, <2>2 DEF PerProject
<1>6. CASE SnapshotNext
  <2>1. CASE UNCHANGED graphVars
    BY <1>1, <2>1 DEF graphVars
  <2>2. CASE \E q \in Projects, op \in Operations, a \in archives : ImportProjectGraph(q, op, a)
    BY <1>1, <1>5, <2>2
  <2> QED
    BY <1>6, <2>1, <2>2 DEF SnapshotNext, ExportProjectGraph
<1>7. CASE ImportNext
  BY <1>1, <1>7 DEF ImportNext, PreviewImportContent, ApplyImportContent, Apply, graphVars
<1>8. CASE FilesNext \/ UNCHANGED vars
  BY <1>1, <1>8 DEF FilesNext, Expire, EditFile, graphVars, vars
<1> QED
  BY <1>4, <1>6, <1>7, <1>8 DEF Next

(* Whatever changes a graph appends an event, an import that adds an edge    *)
(* between known rows included (snapshot.rs, snapshot.imported), but for the *)
(* promotion of a Solution and its Case under a root cause that was already  *)
(* confirmed and is confirmed once more (write.rs, promote_root_cause).      *)
THEOREM ChangesArePublished == Spec => TransferPublished
<1> DEFINE A == \A p \in Projects :
                  published' \/ /\ DOMAIN rows'[p] = Ids(p) /\ edges'[p] = edges[p]
                                /\ \A id \in Ids(p) : rows'[p][id] = rows[p][id] \/ Promotes(p, id)
<1>1. TransferInv /\ RefsInv /\ [Next]_vars => [A]_vars
  BY ChangesPublish
<1>2. Spec => [][A]_vars
  BY <1>1, TransferInvariance, PTL DEF Spec
<1> QED
  BY <1>2 DEF TransferPublished

================================================================================
