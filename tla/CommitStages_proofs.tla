-------------------------- MODULE CommitStages_proofs --------------------------
(***************************************************************************)
(* Proofs about CommitStages, for any history, diffs, processes and runs:  *)
(* the tables' mirrors agree, a commit's hunks are there as its diff has   *)
(* them or not at all, a hit is shown with its own symbols, what the       *)
(* watermark covers is stored or accounted for, each vector was made from  *)
(* its own text, and HEAD's symbols are one commit's.  Of Extraction: a    *)
(* file's symbols are in its order, each declaration's the best there is.  *)
(***************************************************************************)
EXTENDS CommitStages, Extraction, Ranking_proofs, FiniteSetTheorems, TLAPS

Fields == {"step", "mode", "cached", "out", "todo", "target"}
Steps == {"idle", "take", "prepare", "embed", "cache", "commit", "hunks", "watermark"}
Working == {"prepare", "embed", "cache", "commit", "hunks"}

(* A run works on the first of its commits until it has none. *)
ProcInv ==
  /\ DOMAIN proc = Procs
  /\ \A p \in Procs :
       /\ DOMAIN proc[p] = Fields
       /\ proc[p].step \in Steps /\ proc[p].target \in 0..Newest
       /\ proc[p].todo \in Seq(Commits)
       /\ proc[p].step \in Working => proc[p].todo # <<>>
       /\ proc[p].step \in {"idle", "watermark"} => proc[p].todo = <<>>
       /\ At(p, "hunks") => Current(p) \in commits

TableInv ==
  /\ head \in Commits /\ watermark \in 0..Newest
  /\ commits \subseteq Commits /\ DOMAIN ftsCommit = Commits
  /\ DOMAIN hunk \subseteq Nat \ {0}
  /\ MirrorsAgree

SymbolNames(i) == {s.name : s \in HunkSymbols({i})[i]}
NamesOf(c, n) == {a.name : a \in ToSet(Records(c)[n].symbols)}

(* The hunks of c follow rowid b, each with its row and its symbols; and when
   they are the last ones, b is the largest rowid of the others. *)
BlockAt(c, b) ==
  /\ Ids(c) = b + 1 .. b + Len(Diff[c])
  /\ \A n \in DOMAIN Diff[c] :
       hunk[b + n] = Row(Records(c)[n]) /\ SymbolNames(b + n) = NamesOf(c, n)
  /\ (\A i \in DOMAIN hunk : i <= b + Len(Diff[c])) => b \in DOMAIN hunk \union {0}

BlockInv == \A c \in Commits : Ids(c) = {} \/ \E b \in Nat : BlockAt(c, b)

(* The rowid a hit was read with is still its hunk's, or is gone and, below the
   largest, will not be given again. *)
ReaderInv ==
  reader # None =>
    /\ reader.id \in Nat /\ \E i \in DOMAIN hunk : reader.id <= i
    /\ reader.id \in DOMAIN hunk => hunk[reader.id] = reader.row
    /\ reader.row.sha \in Commits
    /\ \E n \in DOMAIN Diff[reader.row.sha] : reader.row = Row(Records(reader.row.sha)[n])

(* WatermarkCovers' three cases. *)
Stored(c) == c \in commits /\ (Len(Diff[c]) = 0 \/ Ids(c) # {})
Covered(c) ==
  \/ Stored(c)
  \/ c \in gaveUp
  \/ \E p \in Procs : At(p, "hunks") /\ Current(p) = c

(* A commit with a row, one a run has passed, and one the watermark is past is
   covered. *)
CoverInv ==
  /\ \A c \in commits : Covered(c)
  /\ \A p \in Procs : \A c \in 1..proc[p].target :
       Covered(c) \/ \E n \in 1..Len(proc[p].todo) : proc[p].todo[n] = c
  /\ \A c \in 1..watermark : Covered(c)

Inv == ProcInv /\ TableInv /\ BlockInv /\ ReaderInv /\ CoverInv

----------------------------------------------------------------------------
(* The model's operators. *)

LEMMA LargestNatural ==
  ASSUME NEW k \in Nat, NEW M \in SUBSET (1..k), M # {}
  PROVE  \E j \in M : \A l \in M : l <= j
<1> DEFINE S == {d \in 0..k : k - d \in M}
<1>1. PICK m \in M : TRUE
  OBVIOUS
<1>2. k - m \in 0..k /\ k - (k - m) = m
  OBVIOUS
<1>3. S \in SUBSET Nat /\ S # {}
  <2>1. k - m \in S
    BY <1>1, <1>2
  <2>2. S \in SUBSET Nat
    OBVIOUS
  <2> QED
    BY <2>1, <2>2
<1>4. PICK d \in S : \A e \in S : d <= e
  <2> HIDE DEF S
  <2> QED
    BY <1>3, LeastNatural
<1>5. \A l \in M : k - l \in S /\ l \in 1..k
  <2> SUFFICES ASSUME NEW l \in M PROVE k - l \in S
    OBVIOUS
  <2>1. k - l \in 0..k /\ k - (k - l) = l
    OBVIOUS
  <2> QED
    BY <2>1
<1>6. \A l \in M : d <= k - l
  BY <1>4, <1>5
<1>7. k - d \in M /\ d \in 0..k
  OBVIOUS
<1> HIDE DEF S
<1>8. \A l \in M : l <= k - d
  BY <1>5, <1>6, <1>7
<1> QED
  BY <1>7, <1>8

(* INSERT OR REPLACE keeps every name: of the symbols of one name the last. *)
LEMMA SymbolRowsAre ==
  ASSUME NEW i, NEW rec, NEW k \in Nat, DOMAIN rec.symbols = 1..k
  PROVE  /\ \A s \in SymbolRows(i, rec) : s.hunk = i
         /\ {s.name : s \in SymbolRows(i, rec)} = {a.name : a \in ToSet(rec.symbols)}
<1> DEFINE f == rec.symbols
           last == {m \in DOMAIN f : \A l \in DOMAIN f : l > m => f[l].name # f[m].name}
           row(s) == [hunk |-> i, name |-> s.name, qualified |-> s.qualified,
                      attribution |-> s.attribution]
<1>1. SymbolRows(i, rec) = {row(s) : s \in {f[n] : n \in last}}
  BY DEF SymbolRows
<1>2. \A s : row(s).hunk = i /\ row(s).name = s.name
  OBVIOUS
<1>3. \A m \in 1..k : \E j \in last : f[j].name = f[m].name
  <2> SUFFICES ASSUME NEW m \in 1..k PROVE \E j \in last : f[j].name = f[m].name
    OBVIOUS
  <2> DEFINE M == {j \in 1..k : f[j].name = f[m].name}
  <2>1. PICK j \in M : \A l \in M : l <= j
    <3>1. M \in SUBSET (1..k) /\ M # {}
      OBVIOUS
    <3> HIDE DEF M
    <3> QED
      BY <3>1, LargestNatural
  <2>2. j \in 1..k /\ f[j].name = f[m].name
    OBVIOUS
  <2>3. ASSUME NEW l \in 1..k, l > j, f[l].name = f[j].name
        PROVE  FALSE
    <3>1. l \in M
      BY <2>2, <2>3
    <3> QED
      BY <2>1, <2>2, <2>3, <3>1
  <2>4. j \in last
    BY <2>2, <2>3
  <2> QED
    BY <2>2, <2>4
<1>4. ToSet(f) = {f[m] : m \in 1..k}
  BY DEF ToSet
<1>5. last \subseteq 1..k
  OBVIOUS
<1> HIDE DEF last, f, row
<1>6. \A s \in SymbolRows(i, rec) : s.hunk = i /\ \E m \in last : s.name = f[m].name
  BY <1>1, <1>2
<1>7. \A m \in last : \E s \in SymbolRows(i, rec) : s.name = f[m].name
  BY <1>1, <1>2
<1>8. {s.name : s \in SymbolRows(i, rec)} = {a.name : a \in ToSet(f)}
  <2>1. ASSUME NEW s \in SymbolRows(i, rec) PROVE \E a \in ToSet(f) : s.name = a.name
    BY <1>4, <1>5, <1>6
  <2>2. ASSUME NEW a \in ToSet(f) PROVE \E s \in SymbolRows(i, rec) : s.name = a.name
    BY <1>3, <1>4, <1>7
  <2> QED
    BY <2>1, <2>2
<1> QED
  BY <1>6, <1>8 DEF f

LEMMA RecordsAre ==
  ASSUME NEW c \in Commits, NEW n \in DOMAIN Diff[c]
  PROVE  /\ DOMAIN Records(c) = DOMAIN Diff[c]
         /\ Records(c)[n].sha = c /\ Row(Records(c)[n]).sha = c
         /\ \E k \in Nat : DOMAIN Records(c)[n].symbols = 1..k
<1> DEFINE rec == HunkRecords(c)[n]
           atoms == IF rec.path \in TooLarge THEN <<>> ELSE AtomsOf(rec.sha, rec.path)
<1>1. rec.sha = c
  BY DEF HunkRecords
<1>2. \E k \in Nat : DOMAIN atoms = 1..k
  <2>1. CASE rec.path \in TooLarge \/ rec.path \notin DOMAIN Source[c]
    <3>1. atoms = <<>>
      BY <1>1, <2>1 DEF AtomsOf
    <3>2. DOMAIN atoms = 1..0
      BY <3>1
    <3> QED
      BY <3>2
  <2>2. CASE rec.path \notin TooLarge /\ rec.path \in DOMAIN Source[c]
    <3>1. atoms = InSourceOrder(Source[c][rec.path])
      BY <1>1, <2>2 DEF AtomsOf
    <3>2. DOMAIN atoms = DOMAIN Source[c][rec.path]
      BY <3>1 DEF InSourceOrder
    <3> QED
      BY <2>2, <3>2, ListAssumption
  <2> QED
    BY <2>1, <2>2
<1>3. Records(c)[n] = Attributed(rec) /\ DOMAIN Records(c) = DOMAIN Diff[c]
  BY DEF Records
<1> HIDE DEF rec
<1>4. Attributed(rec).sha = c /\ DOMAIN Attributed(rec).symbols = DOMAIN atoms
  BY <1>1 DEF Attributed
<1> HIDE DEF atoms
<1> QED
  BY <1>2, <1>3, <1>4 DEF Row

LEMMA RowsAre ==
  ASSUME NEW c \in Commits, NEW vecs
  PROVE  /\ Len(Diff[c]) \in Nat /\ DOMAIN Rows(c, vecs) = 1..Len(Diff[c])
         /\ Rows(c, vecs) = <<>> <=> Len(Diff[c]) = 0
         /\ \A n \in DOMAIN Diff[c] :
              /\ Rows(c, vecs)[n].sha = c /\ Row(Rows(c, vecs)[n]) = Row(Records(c)[n])
              /\ Rows(c, vecs)[n].path = Records(c)[n].path
              /\ Rows(c, vecs)[n].symbols = Records(c)[n].symbols
<1>1. Len(Diff[c]) \in Nat /\ DOMAIN Diff[c] = 1..Len(Diff[c])
  BY ListAssumption
<1>2. DOMAIN Rows(c, vecs) = DOMAIN Diff[c]
  BY DEF Rows
<1>3. Rows(c, vecs) = <<>> <=> Len(Diff[c]) = 0
  <2>1. Len(Diff[c]) = 0 => Rows(c, vecs) = <<>>
    BY <1>1 DEF Rows
  <2>2. DOMAIN <<>> = {} /\ (Len(Diff[c]) # 0 => 1 \in DOMAIN Rows(c, vecs))
    BY <1>1, <1>2
  <2> QED
    BY <2>1, <2>2
<1>4. ASSUME NEW n \in DOMAIN Diff[c]
      PROVE  /\ Rows(c, vecs)[n].sha = c /\ Row(Rows(c, vecs)[n]) = Row(Records(c)[n])
             /\ Rows(c, vecs)[n].path = Records(c)[n].path
             /\ Rows(c, vecs)[n].symbols = Records(c)[n].symbols
  BY RecordsAre DEF Rows, Row
<1> QED
  BY <1>1, <1>2, <1>3, <1>4

(* What a reader finds of a commit, by rowid. *)
LEMMA ContentIs ==
  ASSUME NEW c \in Commits, Ids(c) = {} \/ \E b \in Nat : BlockAt(c, b)
  PROVE  Content(c) = IF Ids(c) = {} THEN <<>> ELSE WholeOf(c)
<1> DEFINE Nth(n) == CHOOSE i \in Ids(c) : Cardinality({j \in Ids(c) : j <= i}) = n
<1>0. Content(c) = [n \in 1..Cardinality(Ids(c)) |-> hunk[Nth(n)]]
  BY DEF Content
<1>1. CASE Ids(c) = {}
  <2>1. Cardinality(Ids(c)) = 0
    BY <1>1, FS_EmptySet
  <2> QED
    BY <1>0, <1>1, <2>1
<1>2. ASSUME NEW b \in Nat, BlockAt(c, b), Ids(c) # {}
      PROVE  Content(c) = WholeOf(c)
  <2> DEFINE L == Len(Diff[c])
  <2>1. L \in Nat /\ DOMAIN Diff[c] = 1..L /\ Ids(c) = b + 1 .. b + L
    BY <1>2, ListAssumption DEF BlockAt
  <2> HIDE DEF L
  <2>2. \A n \in 0..L : Cardinality(b + 1 .. b + n) = n
    <3> SUFFICES ASSUME NEW n \in 0..L PROVE Cardinality(b + 1 .. b + n) = n
      OBVIOUS
    <3>1. b + 1 \in Int /\ b + n \in Int
      BY <2>1
    <3>2. Cardinality(b + 1 .. b + n) = IF b + 1 > b + n THEN 0 ELSE (b + n) - (b + 1) + 1
      BY <3>1, FS_Interval
    <3> QED
      BY <2>1, <3>2
  <2>3. Cardinality(Ids(c)) = L
    BY <2>1, <2>2
  <2>4. ASSUME NEW n \in 1..L
        PROVE  Nth(n) = b + n
    <3>1. \A m \in 1..L : {j \in Ids(c) : j <= b + m} = b + 1 .. b + m
      BY <2>1
    <3>2. \A m \in 1..L : Cardinality({j \in Ids(c) : j <= b + m}) = m
      <4> SUFFICES ASSUME NEW m \in 1..L PROVE Cardinality({j \in Ids(c) : j <= b + m}) = m
        OBVIOUS
      <4>1. {j \in Ids(c) : j <= b + m} = b + 1 .. b + m /\ m \in 0..L
        BY <2>1, <3>1
      <4> QED
        BY <2>2, <4>1
    <3>3. \A i \in Ids(c) : i - b \in 1..L /\ i = b + (i - b)
      BY <2>1
    <3>4. \A i \in Ids(c) : Cardinality({j \in Ids(c) : j <= i}) = i - b
      BY <3>2, <3>3
    <3>5. b + n \in Ids(c) /\ (b + n) - b = n
      BY <2>1
    <3>6. Nth(n) \in Ids(c) /\ Cardinality({j \in Ids(c) : j <= Nth(n)}) = n
      BY <3>4, <3>5
    <3> HIDE DEF Nth
    <3>7. Nth(n) - b = n /\ Nth(n) = b + (Nth(n) - b)
      BY <3>3, <3>4, <3>6
    <3> QED
      BY <3>7
  <2>5. \A n \in 1..L : hunk[b + n] = Row(Records(c)[n])
    BY <1>2, <2>1 DEF BlockAt
  <2> HIDE DEF Nth
  <2>6. Content(c) = [n \in 1..L |-> Row(Records(c)[n])]
    BY <1>0, <2>3, <2>4, <2>5
  <2> QED
    BY <2>1, <2>6 DEF WholeOf
<1> QED
  BY <1>1, <1>2

----------------------------------------------------------------------------
(* put_hunks. *)

(* The hunks of c are those after rowid base, the others what they were. *)
Replaced(c, base) ==
  /\ base \in Nat /\ base \in (DOMAIN hunk \ Ids(c)) \union {0}
  /\ \A i \in DOMAIN hunk \ Ids(c) : i <= base
  /\ DOMAIN hunk' = (DOMAIN hunk \ Ids(c)) \union (base + 1 .. base + Len(Diff[c]))
  /\ \A i \in DOMAIN hunk \ Ids(c) : hunk'[i] = hunk[i] /\ SymbolNames(i)' = SymbolNames(i)
  /\ \A n \in DOMAIN Diff[c] :
       hunk'[base + n] = Row(Records(c)[n]) /\ SymbolNames(base + n)' = NamesOf(c, n)

LEMMA SymbolNamesAre ==
  ASSUME NEW i
  PROVE  /\ SymbolNames(i) = {s.name : s \in {x \in hunkSymbol : x.hunk = i}}
         /\ SymbolNames(i)' = {s.name : s \in {x \in hunkSymbol' : x.hunk = i}}
BY DEF SymbolNames, HunkSymbols

LEMMA StoreHunksIs ==
  ASSUME Inv, NEW p \in Procs, StoreHunks(p), NEW c \in Commits, c = Current(p)
  PROVE  \/ Len(Diff[c]) = 0 /\ UNCHANGED hunkTables
         \/ Len(Diff[c]) # 0 /\ MirrorsAgree' /\ \E base \in Nat : Replaced(c, base)
<1> DEFINE recs == Rows(c, proc[p].out.hunks)
           L == Len(Diff[c])
<1>1. PutHunks(recs) /\ UNCHANGED commitTables
  BY DEF StoreHunks
<1>2. /\ L \in Nat /\ DOMAIN Diff[c] = 1..L /\ DOMAIN recs = 1..L /\ (recs = <<>> <=> L = 0)
      /\ \A n \in 1..L :
           /\ recs[n].sha = c /\ Row(recs[n]) = Row(Records(c)[n]) /\ Row(recs[n]).sha = c
           /\ recs[n].path = Records(c)[n].path /\ Row(recs[n]).path = recs[n].path
           /\ recs[n].symbols = Records(c)[n].symbols
  <2>1. \A vecs :
          /\ DOMAIN Rows(c, vecs) = 1..L /\ (Rows(c, vecs) = <<>> <=> L = 0)
          /\ \A n \in DOMAIN Diff[c] :
               /\ Rows(c, vecs)[n].sha = c /\ Row(Rows(c, vecs)[n]) = Row(Records(c)[n])
               /\ Rows(c, vecs)[n].path = Records(c)[n].path
               /\ Rows(c, vecs)[n].symbols = Records(c)[n].symbols
    BY RowsAre
  <2>2. L \in Nat /\ DOMAIN Diff[c] = 1..L
    BY ListAssumption
  <2>3. \A r : Row(r).path = r.path /\ Row(r).sha = r.sha
    BY DEF Row
  <2> HIDE DEF L
  <2> QED
    BY <2>1, <2>2, <2>3
<1> HIDE DEF recs, L
<1>3. CASE L = 0
  BY <1>1, <1>2, <1>3 DEF PutHunks, L
<1>4. CASE L # 0
  <2>1. DOMAIN hunk \subseteq Nat \ {0} /\ MirrorsAgree
    BY DEF Inv, TableInv
  <2>2. Dead(recs) = Ids(c)
    <3>1. \A i \in DOMAIN hunk : (\E n \in DOMAIN recs : hunk[i].sha = recs[n].sha) <=> hunk[i].sha = c
      <4>1. 1 \in 1..L
        BY <1>2, <1>4
      <4> QED
        BY <1>2, <4>1
    <3> QED
      BY <3>1 DEF Dead, Ids
  <2>3. PICK base \in DOMAIN hunk \union {0} : Replace(recs, Ids(c), Ids(c), base)
    <3>1. PICK base \in DOMAIN hunk \union {0} : Replace(recs, Dead(recs), Dead(recs), base)
      BY <1>1, <1>2, <1>4 DEF PutHunks
    <3> QED
      BY <2>2, <3>1 DEF Replace
  <2> DEFINE kept == DOMAIN hunk \ Ids(c)
             new == {base + n : n \in DOMAIN recs}
             Rec(i) == recs[i - base]
  <2>4. /\ base \in kept \union {0} /\ \A i \in kept : i <= base
        /\ paths' = paths \union {recs[n].path : n \in DOMAIN recs}
        /\ hunk' = [i \in kept \union new |-> IF i \in new THEN Row(Rec(i)) ELSE hunk[i]]
        /\ DOMAIN vecHunk' = (DOMAIN vecHunk \ Ids(c)) \union new
        /\ ftsText' = {e \in ftsText : e.hunk \notin Ids(c)}
                        \union {Entry(i, Row(Rec(i)).text) : i \in new}
        /\ ftsSemantic' = {e \in ftsSemantic : e.hunk \notin Ids(c)}
                            \union {Entry(i, Row(Rec(i)).semantic) : i \in new}
        /\ hunkSymbol' = {s \in hunkSymbol : s.hunk \notin Ids(c)}
                           \union UNION {SymbolRows(i, Rec(i)) : i \in new}
    BY <2>3 DEF Replace
  <2>5. base \in Nat /\ new = base + 1 .. base + L /\ \A n \in 1..L : base + n \in new /\ Rec(base + n) = recs[n]
    <3>1. base \in Nat
      BY <2>1
    <3>2. \A i \in base + 1 .. base + L : i - base \in 1..L /\ i = base + (i - base)
      BY <1>2, <3>1
    <3>3. \A n \in 1..L : base + n \in base + 1 .. base + L /\ (base + n) - base = n
      BY <1>2, <3>1
    <3> QED
      BY <1>2, <3>1, <3>2, <3>3
  <2>6. \A i \in new : i - base \in 1..L /\ i = base + (i - base) /\ Rec(i) = recs[i - base]
    BY <1>2, <2>5
  <2>7. \A i \in kept : i \in Nat /\ i <= base /\ i \notin new
    BY <1>2, <2>1, <2>4, <2>5
  <2>8. /\ DOMAIN hunk' = kept \union new
        /\ \A i \in kept : hunk'[i] = hunk[i]
        /\ \A i \in new : hunk'[i] = Row(Rec(i))
    BY <2>4, <2>7
  <2>9. \A i \in new : \E k \in Nat : DOMAIN Rec(i).symbols = 1..k
    BY <1>2, <2>6, RecordsAre
  <2> HIDE DEF kept, new, Rec
  <2>10. ASSUME NEW i \in new
         PROVE  /\ \A s \in SymbolRows(i, Rec(i)) : s.hunk = i
                /\ {s.name : s \in SymbolRows(i, Rec(i))} = {a.name : a \in ToSet(Rec(i).symbols)}
    BY <2>9, SymbolRowsAre
  <2>11. \A i \in kept : {x \in hunkSymbol' : x.hunk = i} = {x \in hunkSymbol : x.hunk = i}
    <3> SUFFICES ASSUME NEW i \in kept, NEW x
                 PROVE  x \in hunkSymbol' /\ x.hunk = i <=> x \in hunkSymbol /\ x.hunk = i
      OBVIOUS
    <3>1. i \notin Ids(c) /\ i \notin new
      BY <2>7 DEF kept
    <3> QED
      BY <2>4, <2>10, <3>1
  <2>12. \A i \in new : {x \in hunkSymbol' : x.hunk = i} = SymbolRows(i, Rec(i))
    <3> SUFFICES ASSUME NEW i \in new, NEW x
                 PROVE  x \in hunkSymbol' /\ x.hunk = i <=> x \in SymbolRows(i, Rec(i))
      OBVIOUS
    <3>1. x \in hunkSymbol /\ x.hunk \notin Ids(c) => x.hunk # i
      BY <2>1, <2>7 DEF MirrorsAgree, kept
    <3> QED
      BY <2>4, <2>10, <3>1
  <2>13. MirrorsAgree'
    <3>1. /\ DOMAIN vecCommit' = commits'
          /\ \A d \in Commits : ftsCommit'[d] = IF d \in commits' THEN 1 ELSE 0
      BY <1>1, <2>1 DEF MirrorsAgree, commitTables
    <3>2. DOMAIN vecHunk' = DOMAIN hunk'
      BY <2>1, <2>4, <2>8 DEF MirrorsAgree, kept
    <3>3. ftsText' = {Entry(i, hunk'[i].text) : i \in DOMAIN hunk'}
      <4>1. {e \in ftsText : e.hunk \notin Ids(c)} = {Entry(i, hunk[i].text) : i \in kept}
        BY <2>1 DEF MirrorsAgree, Entry, kept
      <4>2. \A i \in kept : Entry(i, hunk'[i].text) = Entry(i, hunk[i].text)
        BY <2>8
      <4>3. \A i \in new : Entry(i, hunk'[i].text) = Entry(i, Row(Rec(i)).text)
        BY <2>8
      <4>4. ASSUME NEW e PROVE e \in ftsText' <=> \E i \in kept \union new : e = Entry(i, hunk'[i].text)
        BY <2>4, <4>1, <4>2, <4>3
      <4> QED
        BY <2>8, <4>4
    <3>4. ftsSemantic' = {Entry(i, hunk'[i].semantic) : i \in DOMAIN hunk'}
      <4>1. {e \in ftsSemantic : e.hunk \notin Ids(c)} = {Entry(i, hunk[i].semantic) : i \in kept}
        BY <2>1 DEF MirrorsAgree, Entry, kept
      <4>2. \A i \in kept : Entry(i, hunk'[i].semantic) = Entry(i, hunk[i].semantic)
        BY <2>8
      <4>3. \A i \in new : Entry(i, hunk'[i].semantic) = Entry(i, Row(Rec(i)).semantic)
        BY <2>8
      <4>4. ASSUME NEW e PROVE e \in ftsSemantic' <=> \E i \in kept \union new : e = Entry(i, hunk'[i].semantic)
        BY <2>4, <4>1, <4>2, <4>3
      <4> QED
        BY <2>8, <4>4
    <3>5. \A s \in hunkSymbol' : s.hunk \in DOMAIN hunk'
      BY <2>1, <2>4, <2>8, <2>10 DEF MirrorsAgree, kept
    <3>6. \A i \in DOMAIN hunk' : hunk'[i].sha \in commits' /\ hunk'[i].path \in paths'
      <4>1. c \in commits /\ commits' = commits
        BY <1>1 DEF Inv, ProcInv, StoreHunks, commitTables
      <4>2. ASSUME NEW i \in new PROVE hunk'[i].sha = c /\ hunk'[i].path \in paths'
        <5>1. i - base \in DOMAIN recs /\ hunk'[i] = Row(recs[i - base])
          BY <1>2, <2>6, <2>8, <4>2
        <5> QED
          BY <1>2, <2>4, <5>1
      <4>3. ASSUME NEW i \in kept PROVE hunk'[i].sha \in commits /\ hunk'[i].path \in paths'
        BY <2>1, <2>4, <2>8, <4>3 DEF MirrorsAgree, kept
      <4> QED
        BY <2>8, <4>1, <4>2, <4>3
    <3> QED
      BY <3>1, <3>2, <3>3, <3>4, <3>5, <3>6 DEF MirrorsAgree
  <2>14. \A i \in kept : SymbolNames(i)' = SymbolNames(i)
    BY <2>11, SymbolNamesAre
  <2>15. \A n \in 1..L : SymbolNames(base + n)' = NamesOf(c, n)
    <3> SUFFICES ASSUME NEW n \in 1..L PROVE SymbolNames(base + n)' = NamesOf(c, n)
      OBVIOUS
    <3> DEFINE i == base + n
    <3>1. i \in new /\ Rec(i).symbols = Records(c)[n].symbols
      BY <1>2, <2>5
    <3> HIDE DEF i
    <3>2. SymbolNames(i)' = {s.name : s \in SymbolRows(i, Rec(i))}
      BY <2>12, <3>1, SymbolNamesAre
    <3>3. SymbolNames(i)' = NamesOf(c, n)
      BY <2>10, <3>1, <3>2 DEF NamesOf
    <3> QED
      BY <3>3 DEF i
  <2>16. Replaced(c, base)
    <3>1. \A n \in 1..L : hunk'[base + n] = Row(Records(c)[n])
      BY <1>2, <2>5, <2>8
    <3>2. DOMAIN hunk' = kept \union (base + 1 .. base + L)
      BY <2>5, <2>8
    <3> QED
      BY <1>2, <2>4, <2>5, <2>8, <2>14, <2>15, <3>1, <3>2 DEF Replaced, kept, L
  <2> QED
    BY <1>4, <2>5, <2>13, <2>16 DEF L
<1> QED
  BY <1>3, <1>4

(* Only put_hunks touches the hunks, and only put_commit the commits. *)
LEMMA OtherSteps ==
  ASSUME [StagesNext]_vars, \A p \in Procs : ~StoreHunks(p)
  PROVE  /\ UNCHANGED <<hunk, vecHunk, ftsText, ftsSemantic, hunkSymbol>> /\ paths \subseteq paths'
         /\ UNCHANGED commitTables \/ \E p \in Procs : StoreCommit(p)
<1> USE DEF commitTables, hunkTables, symbolTables, tables
<1>1. CASE MoveHead \/ Hydrate \/ UNCHANGED vars \/ \E i \in DOMAIN hunk : Read(i)
  BY <1>1 DEF MoveHead, Hydrate, Read, vars
<1>2. ASSUME NEW p \in Procs, StoreCommit(p)
      PROVE  UNCHANGED hunkTables
  BY <1>2 DEF StoreCommit, PutCommit
<1>3. ASSUME NEW p \in Procs,
             Skip(p) \/ Take(p) \/ Prepare(p) \/ Embed(p) \/ \E mode \in Modes : Begin(p, mode)
      PROVE  UNCHANGED <<commitTables, hunkTables>>
  BY <1>3 DEF Skip, Take, Prepare, Embed, Begin
<1>4. ASSUME NEW p \in Procs, WriteBack(p) \/ Finish(p) \/ Fail(p) \/ Stop(p)
      PROVE  UNCHANGED <<commitTables, hunkTables>>
  BY <1>4 DEF WriteBack, Finish, Fail, Stop
<1>5. ASSUME NEW p \in Procs, StoreSymbols(p)
      PROVE  /\ UNCHANGED <<hunk, vecHunk, ftsText, ftsSemantic, hunkSymbol, commitTables>>
             /\ paths \subseteq paths'
  BY <1>5 DEF StoreSymbols, PutSymbols
<1> QED
  BY <1>1, <1>2, <1>3, <1>4, <1>5 DEF StagesNext

LEMMA IdsAfter ==
  ASSUME TableInv, NEW c \in Commits, NEW base \in Nat, Replaced(c, base)
  PROVE  /\ Ids(c)' = base + 1 .. base + Len(Diff[c])
         /\ \A d \in Commits \ {c} : Ids(d)' = Ids(d)
<1> DEFINE L == Len(Diff[c])
           kept == DOMAIN hunk \ Ids(c)
<1>1. L \in Nat /\ DOMAIN Diff[c] = 1..L /\ DOMAIN hunk \subseteq Nat \ {0}
  BY ListAssumption DEF TableInv
<1>2. \A i \in base + 1 .. base + L : i \notin kept /\ hunk'[i].sha = c
  <2> SUFFICES ASSUME NEW i \in base + 1 .. base + L
               PROVE  i \notin kept /\ hunk'[i].sha = c
    OBVIOUS
  <2>1. i - base \in 1..L /\ base + (i - base) = i /\ ~(i <= base)
    BY <1>1
  <2>2. i \notin kept
    BY <2>1 DEF Replaced
  <2>3. hunk'[base + (i - base)] = Row(Records(c)[i - base])
    BY <1>1, <2>1 DEF Replaced
  <2> QED
    BY <1>1, <2>1, <2>2, <2>3, RecordsAre
<1>3. \A i \in kept : hunk'[i] = hunk[i] /\ hunk[i].sha # c
  BY DEF Replaced, Ids
<1>4. DOMAIN hunk' = kept \union (base + 1 .. base + L)
  BY DEF Replaced
<1>5. \A d : Ids(d)' = {i \in DOMAIN hunk' : hunk'[i].sha = d}
  BY DEF Ids
<1> HIDE DEF L
<1>6. Ids(c)' = base + 1 .. base + L
  BY <1>2, <1>3, <1>4, <1>5
<1>7. ASSUME NEW d \in Commits \ {c}
      PROVE  Ids(d)' = Ids(d)
  <2>1. \A i \in Ids(d) : i \in kept /\ hunk[i].sha = d
    BY DEF Ids
  <2>2. \A i \in kept : hunk[i].sha = d => i \in Ids(d)
    BY DEF Ids
  <2> HIDE DEF kept
  <2> QED
    BY <1>2, <1>3, <1>4, <1>5, <2>1, <2>2
<1> QED
  BY <1>6, <1>7 DEF L

LEMMA BlockInvStep == Inv /\ [StagesNext]_vars => BlockInv'
<1> SUFFICES ASSUME Inv, [StagesNext]_vars PROVE BlockInv'
  OBVIOUS
<1>1. CASE UNCHANGED <<hunk, hunkSymbol>>
  BY <1>1 DEF Inv, BlockInv, BlockAt, Ids, SymbolNames, HunkSymbols
<1>2. ASSUME NEW p \in Procs, StoreHunks(p)
      PROVE  BlockInv'
  <2>1. PICK c \in Commits : c = Current(p)
    BY <1>2 DEF StoreHunks, Inv, ProcInv, TableInv
  <2>2. CASE UNCHANGED hunkTables
    BY <1>1, <2>2 DEF hunkTables
  <2>3. CASE Len(Diff[c]) # 0 /\ \E base \in Nat : Replaced(c, base)
    <3>1. PICK base \in Nat : Replaced(c, base)
      BY <2>3
    <3>2. /\ Ids(c)' = base + 1 .. base + Len(Diff[c])
          /\ \A d \in Commits \ {c} : Ids(d)' = Ids(d)
      BY <3>1, IdsAfter DEF Inv, Replaced
    <3>3. Len(Diff[c]) \in Nat /\ DOMAIN hunk \subseteq Nat \ {0} /\ base + 1 \in DOMAIN hunk'
      BY <2>3, <3>1, ListAssumption DEF Replaced, Inv, TableInv
    <3>4. BlockAt(c, base)'
      <4>1. \A n \in DOMAIN Diff[c] :
              hunk'[base + n] = Row(Records(c)[n]) /\ SymbolNames(base + n)' = NamesOf(c, n)
        BY <3>1 DEF Replaced
      <4>2. base \in DOMAIN hunk' \union {0}
        BY <3>1 DEF Replaced
      <4> QED
        BY <3>2, <4>1, <4>2 DEF BlockAt
    <3>5. ASSUME NEW d \in Commits \ {c}, Ids(d) # {}
          PROVE  \E b \in Nat : BlockAt(d, b)'
      <4>1. PICK b \in Nat : BlockAt(d, b)
        BY <3>5 DEF Inv, BlockInv
      <4>2. /\ Len(Diff[d]) \in Nat /\ DOMAIN Diff[d] = 1..Len(Diff[d])
            /\ Ids(d) = b + 1 .. b + Len(Diff[d]) /\ Len(Diff[d]) # 0
        BY <3>5, <4>1, ListAssumption DEF BlockAt
      <4>3. \A i \in Ids(d) : i \in DOMAIN hunk \ Ids(c)
        BY DEF Ids
      <4>4. \A n \in 1..Len(Diff[d]) : b + n \in Ids(d)
        BY <4>2
      <4>5. \A n \in DOMAIN Diff[d] :
              hunk'[b + n] = Row(Records(d)[n]) /\ SymbolNames(b + n)' = NamesOf(d, n)
        <5> SUFFICES ASSUME NEW n \in 1..Len(Diff[d])
                     PROVE  hunk'[b + n] = Row(Records(d)[n]) /\ SymbolNames(b + n)' = NamesOf(d, n)
          BY <4>2
        <5> DEFINE i == b + n
        <5>1. i \in DOMAIN hunk \ Ids(c)
          BY <4>3, <4>4
        <5>2. hunk[i] = Row(Records(d)[n]) /\ SymbolNames(i) = NamesOf(d, n)
          BY <4>1, <4>2 DEF BlockAt
        <5> HIDE DEF i
        <5>3. hunk'[i] = hunk[i] /\ SymbolNames(i)' = SymbolNames(i)
          BY <3>1, <5>1 DEF Replaced
        <5> QED
          BY <5>2, <5>3 DEF i
      <4>6. ~\A i \in DOMAIN hunk' : i <= b + Len(Diff[d])
        <5>1. b + Len(Diff[d]) \in Ids(d)
          BY <4>2
        <5>2. b + Len(Diff[d]) <= base
          BY <3>1, <4>3, <5>1 DEF Replaced
        <5>3. ~(base + 1 <= b + Len(Diff[d]))
          BY <4>2, <5>2
        <5> QED
          BY <3>3, <5>3
      <4>7. Ids(d)' = b + 1 .. b + Len(Diff[d])
        BY <3>2, <4>2
      <4> QED
        BY <4>5, <4>6, <4>7 DEF BlockAt
    <3>6. \A d \in Commits : Ids(d)' = {} \/ \E b \in Nat : BlockAt(d, b)'
      BY <3>2, <3>4, <3>5
    <3> QED
      BY <3>6 DEF BlockInv
  <2> QED
    BY <1>2, <2>1, <2>2, <2>3, StoreHunksIs
<1> QED
  BY <1>1, <1>2, OtherSteps

(* A rowid below the largest keeps its hunk or is gone for good. *)
LEMMA RowidsStay ==
  ASSUME Inv, [StagesNext]_vars, NEW r \in Nat, \E m \in DOMAIN hunk : r <= m
  PROVE  /\ \E m \in DOMAIN hunk' : r <= m
         /\ r \in DOMAIN hunk' => r \in DOMAIN hunk /\ hunk'[r] = hunk[r]
<1>1. CASE hunk' = hunk
  BY <1>1
<1>2. ASSUME NEW p \in Procs, StoreHunks(p), hunk' # hunk
      PROVE  /\ \E m \in DOMAIN hunk' : r <= m
             /\ r \in DOMAIN hunk' => r \in DOMAIN hunk /\ hunk'[r] = hunk[r]
  <2>1. PICK c \in Commits : c = Current(p)
    BY <1>2 DEF StoreHunks, Inv, ProcInv, TableInv
  <2>2. Len(Diff[c]) # 0 /\ \E base \in Nat : Replaced(c, base)
    BY <1>2, <2>1, StoreHunksIs DEF hunkTables
  <2>3. PICK base \in Nat : Replaced(c, base)
    BY <2>2
  <2> DEFINE L == Len(Diff[c])
             kept == DOMAIN hunk \ Ids(c)
  <2>4. /\ L \in Nat /\ L # 0 /\ DOMAIN Diff[c] = 1..L /\ DOMAIN hunk \subseteq Nat \ {0}
    BY <2>2, ListAssumption DEF Inv, TableInv
  <2>5. /\ base \in kept \union {0} /\ \A i \in kept : i <= base /\ hunk'[i] = hunk[i]
        /\ DOMAIN hunk' = kept \union (base + 1 .. base + L)
        /\ \A n \in 1..L : hunk'[base + n] = Row(Records(c)[n])
    BY <2>3, <2>4 DEF Replaced
  <2>6. PICK m \in DOMAIN hunk : r <= m
    OBVIOUS
  <2>7. Ids(c) \subseteq DOMAIN hunk
    BY DEF Ids
  <2>8. base + 1 \in DOMAIN hunk' /\ base + 1 \notin kept
    BY <2>4, <2>5
  <2> HIDE DEF L
  <2>9. CASE m <= base
    <3>1. r <= base + 1
      BY <2>4, <2>6, <2>9
    <3>2. r \notin base + 1 .. base + L
      BY <2>4, <2>6, <2>9
    <3> QED
      BY <2>5, <2>8, <3>1, <3>2
  <2>10. CASE ~(m <= base)
    <3>1. m \in Ids(c)
      BY <2>5, <2>10
    <3>2. PICK b \in Nat : BlockAt(c, b)
      BY <3>1 DEF Inv, BlockInv
    <3>3. /\ Ids(c) = b + 1 .. b + L /\ \A n \in 1..L : hunk[b + n] = Row(Records(c)[n])
          /\ (\A i \in DOMAIN hunk : i <= b + L) => b \in DOMAIN hunk \union {0}
      BY <2>4, <3>2 DEF BlockAt, L
    <3>4. \A i \in DOMAIN hunk : i <= b + L
      <4> SUFFICES ASSUME NEW i \in DOMAIN hunk, ~(i <= b + L) PROVE FALSE
        OBVIOUS
      <4>1. i \in kept
        BY <2>4, <3>3
      <4>2. i <= base
        BY <2>5, <4>1
      <4> QED
        BY <2>4, <2>10, <3>1, <3>3, <4>2
    <3>5. base = b
      <4>1. base <= b
        <5>1. base \in kept => base <= b + L /\ base \notin b + 1 .. b + L
          BY <3>3, <3>4
        <5> QED
          BY <2>4, <2>5, <5>1
      <4>2. b <= base
        <5>1. b \notin b + 1 .. b + L
          OBVIOUS
        <5>2. b \in kept \/ b = 0
          BY <3>3, <3>4, <5>1
        <5> QED
          BY <2>5, <5>2
      <4> QED
        BY <4>1, <4>2
    <3>6. DOMAIN hunk' = DOMAIN hunk
      BY <2>5, <2>7, <3>3, <3>5
    <3>7. \A i \in base + 1 .. base + L : hunk'[i] = hunk[i]
      <4> SUFFICES ASSUME NEW i \in base + 1 .. base + L PROVE hunk'[i] = hunk[i]
        OBVIOUS
      <4>1. i - base \in 1..L /\ base + (i - base) = i
        BY <2>4
      <4>2. hunk'[base + (i - base)] = hunk[base + (i - base)]
        BY <2>5, <3>3, <3>5, <4>1
      <4> QED
        BY <4>1, <4>2
    <3> QED
      BY <2>5, <2>6, <3>6, <3>7
  <2> QED
    BY <2>9, <2>10
<1> QED
  BY <1>1, <1>2, OtherSteps

----------------------------------------------------------------------------
(* The runs. *)

(* What an action does to the runs: p goes on to a step of its commit, or past
   its commit, or starts, or ends. *)
Others(p) == DOMAIN proc' = Procs /\ \A q \in Procs \ {p} : proc'[q] = proc[q]

Moved(p, step) ==
  /\ Others(p) /\ DOMAIN proc'[p] = Fields
  /\ proc'[p].step = step
  /\ proc'[p].todo = proc[p].todo /\ proc'[p].target = proc[p].target

Passed(p) ==
  /\ Others(p) /\ DOMAIN proc'[p] = Fields
  /\ proc'[p].step = "take"
  /\ proc'[p].todo = Tail(proc[p].todo) /\ proc'[p].target = proc[p].target

Began(p) ==
  /\ Others(p) /\ DOMAIN proc'[p] = Fields
  /\ proc'[p].step = "take"
  /\ proc'[p].target = IF watermark < head THEN head ELSE 0
  /\ proc'[p].todo = [n \in 1..(IF watermark < head THEN head - watermark ELSE 0) |-> watermark + n]

Left(p) == Others(p) /\ proc'[p] = Idle

LEMMA PassedIs ==
  ASSUME ProcInv, NEW p \in Procs, NextCommit(p)
  PROVE  Passed(p)
BY DEF ProcInv, NextCommit, Passed, Others, Fields

LEMMA MovedIs ==
  ASSUME ProcInv, NEW p \in Procs
  PROVE  /\ Take(p) => Moved(p, "prepare")
         /\ Prepare(p) => Moved(p, "embed")
         /\ Embed(p) => Moved(p, "cache") \/ Moved(p, "commit")
         /\ WriteBack(p) => Moved(p, "commit")
         /\ StoreCommit(p) => Moved(p, "hunks")
         /\ StoreSymbols(p) => Moved(p, "watermark")
<1> USE DEF Moved, Others, Fields, ProcInv
<1>1. \A step : Proceed(p, step) => Moved(p, step)
  BY DEF Proceed
<1>2. Take(p) => Moved(p, "prepare")
  BY DEF Take, Proceed
<1>3. Prepare(p) => Moved(p, "embed")
  BY DEF Prepare
<1>4. Embed(p) => Moved(p, "cache") \/ Moved(p, "commit")
  <2> SUFFICES ASSUME Embed(p) PROVE Moved(p, "cache") \/ Moved(p, "commit")
    OBVIOUS
  <2>1. PICK o, s : s \in {"cache", "commit"} /\
          proc' = [proc EXCEPT ![p].out = o, ![p].cached = None, ![p].step = s]
    BY DEF Embed
  <2> QED
    BY <2>1
<1>5. WriteBack(p) => Moved(p, "commit")
  BY DEF WriteBack, Proceed
<1>6. StoreCommit(p) => Moved(p, "hunks")
  BY DEF StoreCommit, Proceed
<1>7. StoreSymbols(p) => Moved(p, "watermark")
  BY DEF StoreSymbols, Proceed
<1> QED
  BY <1>2, <1>3, <1>4, <1>5, <1>6, <1>7

LEMMA BeganIs ==
  ASSUME ProcInv, NEW p \in Procs, NEW mode \in Modes, Begin(p, mode)
  PROVE  Began(p)
BY DEF ProcInv, Begin, Began, Others, Fields

LEMMA LeftIs ==
  ASSUME ProcInv, NEW p \in Procs, Finish(p) \/ Stop(p)
  PROVE  Left(p)
BY DEF ProcInv, Finish, Stop, Left, Others

(* Every step is one of these, or leaves the runs alone. *)
LEMMA RunSteps ==
  ASSUME Inv, [StagesNext]_vars
  PROVE  \/ proc' = proc
         \/ \E p \in Procs :
              \/ Passed(p) /\ At(p, "take") /\ proc[p].todo # <<>> /\ Skip(p)
              \/ Passed(p) /\ proc[p].step \in Working /\ (StoreHunks(p) \/ Fail(p))
              \/ Moved(p, "prepare") /\ At(p, "take") /\ proc[p].todo # <<>> /\ Take(p)
              \/ \E step \in {"embed", "cache", "commit"} :
                   Moved(p, step) /\ proc[p].step \in Working \ {"hunks"}
              \/ Moved(p, "hunks") /\ At(p, "commit") /\ StoreCommit(p)
              \/ Moved(p, "watermark") /\ At(p, "take") /\ proc[p].todo = <<>>
              \/ Began(p) /\ At(p, "idle")
              \/ Left(p) /\ (Finish(p) \/ Stop(p))
<1> USE DEF Inv
<1>1. CASE MoveHead \/ Hydrate \/ UNCHANGED vars \/ \E i \in DOMAIN hunk : Read(i)
  BY <1>1 DEF MoveHead, Hydrate, Read, vars
<1>2. ASSUME NEW p \in Procs, Skip(p)
      PROVE  Passed(p) /\ At(p, "take") /\ proc[p].todo # <<>>
  BY <1>2, PassedIs DEF Skip
<1>3. ASSUME NEW p \in Procs, StoreHunks(p) \/ Fail(p)
      PROVE  Passed(p) /\ proc[p].step \in Working
  BY <1>3, PassedIs DEF StoreHunks, Fail, At, Working
<1>4. ASSUME NEW p \in Procs, Take(p)
      PROVE  Moved(p, "prepare") /\ At(p, "take") /\ proc[p].todo # <<>>
  BY <1>4, MovedIs DEF Take
<1>5. ASSUME NEW p \in Procs, Prepare(p) \/ Embed(p) \/ WriteBack(p)
      PROVE  \E step \in {"embed", "cache", "commit"} :
               Moved(p, step) /\ proc[p].step \in Working \ {"hunks"}
  <2>1. proc[p].step \in Working \ {"hunks"}
    BY <1>5 DEF Prepare, Embed, WriteBack, At, Working
  <2> QED
    BY <1>5, <2>1, MovedIs
<1>6. ASSUME NEW p \in Procs, StoreCommit(p)
      PROVE  Moved(p, "hunks") /\ At(p, "commit")
  BY <1>6, MovedIs DEF StoreCommit
<1>7. ASSUME NEW p \in Procs, StoreSymbols(p)
      PROVE  Moved(p, "watermark") /\ At(p, "take") /\ proc[p].todo = <<>>
  BY <1>7, MovedIs DEF StoreSymbols
<1>8. ASSUME NEW p \in Procs, NEW mode \in Modes, Begin(p, mode)
      PROVE  Began(p) /\ At(p, "idle")
  BY <1>8, BeganIs DEF Begin
<1>9. ASSUME NEW p \in Procs, Finish(p) \/ Stop(p)
      PROVE  Left(p)
  BY <1>9, LeftIs
<1> QED
  BY <1>1, <1>2, <1>3, <1>4, <1>5, <1>6, <1>7, <1>8, <1>9 DEF StagesNext

(* The commits that have a row, and those given up on, stay so. *)
LEMMA CommitsGrow ==
  ASSUME [StagesNext]_vars
  PROVE  /\ commits \subseteq commits' /\ gaveUp \subseteq gaveUp'
         /\ UNCHANGED commitTables \/ \E p \in Procs : StoreCommit(p)
         /\ \A p \in Procs : StoreCommit(p) => commits' = commits \union {Current(p)}
<1>1. UNCHANGED commitTables \/ \E p \in Procs : StoreCommit(p)
  <2>1. (\E p \in Procs : StoreHunks(p)) => UNCHANGED commitTables
    BY DEF StoreHunks
  <2> QED
    BY <2>1, OtherSteps
<1>2. \A p \in Procs : StoreCommit(p) => commits' = commits \union {Current(p)}
  BY DEF StoreCommit, PutCommit
<1>3. commits \subseteq commits'
  BY <1>1, <1>2 DEF commitTables
<1>4. gaveUp \subseteq gaveUp'
  <2>1. CASE MoveHead \/ Hydrate \/ UNCHANGED vars \/ \E i \in DOMAIN hunk : Read(i)
    BY <2>1 DEF MoveHead, Hydrate, Read, vars
  <2>2. ASSUME NEW p \in Procs
        PROVE  /\ Skip(p) \/ Take(p) \/ Prepare(p) \/ Embed(p) \/ WriteBack(p) => gaveUp' = gaveUp
               /\ (\E mode \in Modes : Begin(p, mode)) => gaveUp' = gaveUp
    BY DEF Skip, Take, Prepare, Embed, WriteBack, Begin
  <2>3. ASSUME NEW p \in Procs
        PROVE  /\ StoreCommit(p) \/ StoreHunks(p) \/ StoreSymbols(p) \/ Finish(p) => gaveUp' = gaveUp
               /\ Fail(p) \/ Stop(p) => gaveUp \subseteq gaveUp'
    BY DEF StoreCommit, StoreHunks, StoreSymbols, Finish, Fail, Stop
  <2> QED
    BY <2>1, <2>2, <2>3 DEF StagesNext
<1> QED
  BY <1>1, <1>2, <1>3, <1>4

LEMMA ProcInvStep == Inv /\ [StagesNext]_vars => ProcInv'
<1> SUFFICES ASSUME Inv, [StagesNext]_vars PROVE ProcInv'
  OBVIOUS
<1> DEFINE Good(q) ==
      /\ DOMAIN proc[q] = Fields
      /\ proc[q].step \in Steps /\ proc[q].target \in 0..Newest
      /\ proc[q].todo \in Seq(Commits)
      /\ proc[q].step \in Working => proc[q].todo # <<>>
      /\ proc[q].step \in {"idle", "watermark"} => proc[q].todo = <<>>
      /\ proc[q].step = "hunks" => Head(proc[q].todo) \in commits
<1>1. /\ commits \subseteq commits' /\ DOMAIN proc = Procs /\ \A q \in Procs : Good(q)
  BY CommitsGrow DEF Inv, ProcInv, At, Current
<1>2. \A q \in Procs : proc'[q] = proc[q] => Good(q)'
  BY <1>1
<1>4. ASSUME NEW p \in Procs, Passed(p), proc[p].todo # <<>>
      PROVE  Good(p)'
  <2>1. Tail(proc[p].todo) \in Seq(Commits)
    BY <1>1, <1>4
  <2> QED
    BY <1>1, <1>4, <2>1 DEF Passed, Steps, Working
<1>5. ASSUME NEW p \in Procs, NEW step \in {"prepare", "embed", "cache", "commit"}, Moved(p, step),
             proc[p].todo # <<>>
      PROVE  Good(p)'
  BY <1>1, <1>5 DEF Moved, Steps
<1>6. ASSUME NEW p \in Procs, Moved(p, "hunks"), At(p, "commit"), StoreCommit(p)
      PROVE  Good(p)'
  <2>1. Head(proc[p].todo) \in commits'
    BY <1>6, CommitsGrow DEF Current
  <2>2. proc[p].todo # <<>>
    BY <1>1, <1>6 DEF At, Working
  <2> QED
    BY <1>1, <1>6, <2>1, <2>2 DEF Moved, Steps
<1>7. ASSUME NEW p \in Procs, Moved(p, "watermark"), proc[p].todo = <<>>
      PROVE  Good(p)'
  BY <1>1, <1>7 DEF Moved, Steps, Working
<1>8. ASSUME NEW p \in Procs, Began(p)
      PROVE  Good(p)'
  <2> DEFINE k == IF watermark < head THEN head - watermark ELSE 0
  <2>1. /\ Newest \in Nat /\ Commits = 1..Newest /\ head \in 1..Newest /\ watermark \in 0..Newest
    BY StagesAssumption DEF Inv, TableInv
  <2>2. k \in Nat /\ \A n \in 1..k : watermark + n \in Commits
    BY <2>1
  <2> HIDE DEF k
  <2>3. [n \in 1..k |-> watermark + n] \in Seq(Commits)
    BY <2>2
  <2>4. proc'[p].todo \in Seq(Commits)
    BY <1>8, <2>3 DEF Began, k
  <2>5. proc'[p].target \in 0..Newest
    BY <1>8, <2>1 DEF Began
  <2> QED
    BY <1>8, <2>4, <2>5 DEF Began, Steps, Working
<1>9. ASSUME NEW p \in Procs, Left(p)
      PROVE  Good(p)'
  <2>1. 0 \in 0..Newest /\ <<>> \in Seq(Commits)
    BY StagesAssumption
  <2> QED
    BY <1>9, <2>1 DEF Left, Idle, Fields, Steps, Working
<1>10. ASSUME NEW p \in Procs, Others(p), Good(p)'
       PROVE  DOMAIN proc' = Procs /\ \A q \in Procs : Good(q)'
  <2> HIDE DEF Good
  <2> QED
    BY <1>2, <1>10 DEF Others
<1>11. \A p \in Procs : proc[p].step \in Working => proc[p].todo # <<>>
  BY <1>1
<1>12. \/ proc' = proc
       \/ \E p \in Procs : Others(p) /\ Good(p)'
  <2> HIDE DEF Good
  <2>1. \A p \in Procs : \A step : Passed(p) \/ Moved(p, step) \/ Began(p) \/ Left(p) => Others(p)
    BY DEF Passed, Moved, Began, Left
  <2>2. \A p \in Procs : Passed(p) /\ (proc[p].todo # <<>> \/ proc[p].step \in Working) => Good(p)'
    BY <1>4, <1>11
  <2>3. \A p \in Procs : \A step \in {"embed", "cache", "commit"} :
          Moved(p, step) /\ proc[p].step \in Working \ {"hunks"} => Good(p)'
    BY <1>5, <1>11
  <2>4. \A p \in Procs : Moved(p, "prepare") /\ proc[p].todo # <<>> => Good(p)'
    BY <1>5
  <2> QED
    BY <1>6, <1>7, <1>8, <1>9, <2>1, <2>2, <2>3, <2>4, RunSteps
<1>13. DOMAIN proc' = Procs /\ \A q \in Procs : Good(q)'
  <2> HIDE DEF Good
  <2> QED
    BY <1>1, <1>2, <1>10, <1>12
<1> QED
  BY <1>13 DEF ProcInv, At, Current

LEMMA TableInvStep == Inv /\ [StagesNext]_vars => TableInv'
<1> SUFFICES ASSUME Inv, [StagesNext]_vars PROVE TableInv'
  OBVIOUS
<1>1. head' \in Commits
  <2>1. head' = head \/ MoveHead
    BY DEF StagesNext, vars, Begin, Skip, Take, Prepare, Embed, WriteBack, StoreCommit, StoreHunks,
           StoreSymbols, Finish, Fail, Stop, Read, Hydrate
  <2>2. MoveHead => head' = head + 1 /\ head < Newest
    BY DEF MoveHead
  <2> QED
    BY <2>1, <2>2, StagesAssumption DEF Inv, TableInv
<1>2. watermark' \in 0..Newest
  <2>1. watermark' = watermark \/ \E p \in Procs : Finish(p)
    BY DEF StagesNext, vars, tables, Begin, Skip, Take, Prepare, Embed, WriteBack, StoreCommit,
           StoreHunks, StoreSymbols, Fail, Stop, Read, Hydrate, MoveHead
  <2>2. \A p \in Procs : Finish(p) => watermark' \in {watermark, proc[p].target}
    BY DEF Finish
  <2> QED
    BY <2>1, <2>2 DEF Inv, ProcInv, TableInv
<1>3. CASE ~\E p \in Procs : StoreHunks(p)
  <2>1. /\ UNCHANGED <<hunk, vecHunk, ftsText, ftsSemantic, hunkSymbol>> /\ paths \subseteq paths'
        /\ UNCHANGED commitTables \/ \E p \in Procs : StoreCommit(p)
    BY <1>3, OtherSteps
  <2>2. CASE UNCHANGED commitTables
    BY <1>1, <1>2, <2>1, <2>2 DEF Inv, TableInv, MirrorsAgree, commitTables
  <2>3. ASSUME NEW p \in Procs, StoreCommit(p)
        PROVE  TableInv'
    <3>1. PICK c \in Commits : c = Current(p)
      <4>1. proc[p].todo \in Seq(Commits) /\ proc[p].todo # <<>>
        BY <2>3 DEF StoreCommit, At, Working, Inv, ProcInv
      <4> QED
        BY <4>1 DEF Current
    <3>2. /\ commits' = commits \union {c} /\ ftsCommit' = [ftsCommit EXCEPT ![c] = 1]
          /\ DOMAIN vecCommit' = DOMAIN vecCommit \union {c}
      BY <2>3, <3>1 DEF StoreCommit, PutCommit
    <3> QED
      BY <1>1, <1>2, <2>1, <3>2 DEF Inv, TableInv, MirrorsAgree
  <2> QED
    BY <2>1, <2>2, <2>3
<1>4. ASSUME NEW p \in Procs, StoreHunks(p)
      PROVE  TableInv'
  <2>1. PICK c \in Commits : c = Current(p)
    BY <1>4 DEF StoreHunks, Inv, ProcInv, TableInv
  <2>2. UNCHANGED commitTables
    BY <1>4 DEF StoreHunks
  <2>3. CASE UNCHANGED hunkTables
    BY <1>1, <1>2, <2>2, <2>3 DEF Inv, TableInv, MirrorsAgree, commitTables, hunkTables
  <2>4. ASSUME MirrorsAgree', NEW base \in Nat, Replaced(c, base)
        PROVE  TableInv'
    <3>1. DOMAIN hunk' \subseteq Nat \ {0}
      <4>1. DOMAIN hunk \subseteq Nat \ {0} /\ Len(Diff[c]) \in Nat
        BY ListAssumption DEF Inv, TableInv
      <4>2. \A i \in base + 1 .. base + Len(Diff[c]) : i \in Nat \ {0}
        BY <4>1
      <4> QED
        BY <2>4, <4>1, <4>2 DEF Replaced
    <3> QED
      BY <1>1, <1>2, <2>2, <2>4, <3>1 DEF Inv, TableInv, commitTables
  <2> QED
    BY <1>4, <2>1, <2>3, <2>4, StoreHunksIs
<1> QED
  BY <1>3, <1>4

LEMMA ReaderInvStep == Inv /\ [StagesNext]_vars => ReaderInv'
<1> SUFFICES ASSUME Inv, [StagesNext]_vars PROVE ReaderInv'
  OBVIOUS
<1>1. CASE reader' = reader
  <2> SUFFICES ASSUME reader # None PROVE ReaderInv'
    BY <1>1 DEF ReaderInv
  <2>1. /\ reader.id \in Nat /\ \E i \in DOMAIN hunk : reader.id <= i
        /\ reader.id \in DOMAIN hunk => hunk[reader.id] = reader.row
    BY DEF Inv, ReaderInv
  <2>2. PICK r \in Nat : r = reader.id
    BY <2>1
  <2>3. /\ \E m \in DOMAIN hunk' : r <= m
        /\ r \in DOMAIN hunk' => r \in DOMAIN hunk /\ hunk'[r] = hunk[r]
    BY <2>1, <2>2, RowidsStay
  <2> QED
    BY <1>1, <2>1, <2>2, <2>3 DEF Inv, ReaderInv
<1>2. ASSUME NEW i \in DOMAIN hunk, Read(i)
      PROVE  ReaderInv'
  <2>1. reader' = [id |-> i, row |-> hunk[i]] /\ hunk' = hunk
    BY <1>2 DEF Read, tables, hunkTables
  <2>2. i \in Nat \ {0} /\ hunk[i].sha \in Commits
    BY DEF Inv, TableInv, MirrorsAgree
  <2>3. PICK c \in Commits : c = hunk[i].sha
    BY <2>2
  <2>4. i \in Ids(c)
    BY <2>3 DEF Ids
  <2>5. PICK b \in Nat : BlockAt(c, b)
    BY <2>4 DEF Inv, BlockInv
  <2>6. /\ Len(Diff[c]) \in Nat /\ DOMAIN Diff[c] = 1..Len(Diff[c])
        /\ Ids(c) = b + 1 .. b + Len(Diff[c])
    BY <2>5, ListAssumption DEF BlockAt
  <2>7. i - b \in 1..Len(Diff[c]) /\ b + (i - b) = i
    BY <2>4, <2>6
  <2>8. hunk[b + (i - b)] = Row(Records(c)[i - b])
    BY <2>5, <2>6, <2>7 DEF BlockAt
  <2>9. \E n \in DOMAIN Diff[c] : hunk[i] = Row(Records(c)[n])
    BY <2>6, <2>7, <2>8
  <2>10. i <= i
    BY <2>2
  <2> QED
    BY <2>1, <2>2, <2>3, <2>9, <2>10 DEF ReaderInv
<1>3. CASE Hydrate
  BY <1>3 DEF Hydrate, ReaderInv
<1> QED
  BY <1>1, <1>2, <1>3
  DEF StagesNext, vars, Begin, Skip, Take, Prepare, Embed, WriteBack, StoreCommit, StoreHunks,
      StoreSymbols, Finish, Fail, Stop, MoveHead

----------------------------------------------------------------------------
(* What is covered stays covered. *)

LEMMA HunksStored ==
  ASSUME Inv, NEW p \in Procs, StoreHunks(p), NEW c \in Commits, c = Current(p)
  PROVE  Stored(c)'
<1>1. c \in commits'
  <2>1. c \in commits /\ commits' = commits
    BY DEF StoreHunks, Inv, ProcInv, commitTables
  <2> QED
    BY <2>1
<1>2. CASE Len(Diff[c]) = 0
  BY <1>1, <1>2 DEF Stored
<1>3. CASE Len(Diff[c]) # 0
  <2>1. PICK base \in Nat : Replaced(c, base)
    BY <1>3, StoreHunksIs
  <2>2. Ids(c)' = base + 1 .. base + Len(Diff[c])
    BY <2>1, IdsAfter DEF Inv, Replaced
  <2>3. Len(Diff[c]) \in Nat
    BY ListAssumption
  <2>4. base + 1 \in Ids(c)'
    BY <1>3, <2>2, <2>3
  <2> QED
    BY <1>1, <2>4 DEF Stored
<1> QED
  BY <1>2, <1>3

LEMMA CoverKept ==
  ASSUME Inv, [StagesNext]_vars, NEW c \in Commits, Covered(c)
  PROVE  Covered(c)'
<1>1. CASE Stored(c)
  <2>1. c \in commits'
    BY <1>1, CommitsGrow DEF Stored
  <2>2. Ids(c) # {} => Ids(c)' # {}
    <3>1. CASE hunk' = hunk
      BY <3>1 DEF Ids
    <3>2. ASSUME NEW p \in Procs, StoreHunks(p), hunk' # hunk, Ids(c) # {}
          PROVE  Ids(c)' # {}
      <4>1. PICK d \in Commits : d = Current(p)
        BY <3>2 DEF StoreHunks, Inv, ProcInv, TableInv
      <4>2. CASE d = c
        <5>1. Stored(c)' /\ Len(Diff[c]) # 0
          BY <3>2, <4>1, <4>2, HunksStored, StoreHunksIs DEF hunkTables
        <5> QED
          BY <5>1 DEF Stored
      <4>3. CASE d # c
        <5>1. PICK base \in Nat : Replaced(d, base)
          BY <3>2, <4>1, StoreHunksIs DEF hunkTables
        <5>2. Ids(c)' = Ids(c)
          BY <4>3, <5>1, IdsAfter DEF Inv, Replaced
        <5> QED
          BY <3>2, <5>2
      <4> QED
        BY <4>2, <4>3
    <3> QED
      BY <3>1, <3>2, OtherSteps
  <2> QED
    BY <1>1, <2>1, <2>2 DEF Covered, Stored
<1>2. CASE c \in gaveUp
  BY <1>2, CommitsGrow DEF Covered
<1>3. ASSUME NEW p \in Procs, At(p, "hunks"), Current(p) = c
      PROVE  Covered(c)'
  <2>1. CASE proc'[p] = proc[p]
    <3>1. At(p, "hunks")' /\ Current(p)' = c
      BY <1>3, <2>1 DEF At, Current
    <3> QED
      BY <3>1 DEF Covered
  <2>2. CASE StoreHunks(p)
    BY <1>3, <2>2, HunksStored DEF Covered
  <2>3. CASE Fail(p) \/ Stop(p)
    <3>1. c \in gaveUp'
      BY <1>3, <2>3 DEF Fail, Stop
    <3> QED
      BY <3>1 DEF Covered
  <2>4. \/ proc'[p] = proc[p]
        \/ StoreHunks(p) \/ Fail(p) \/ Stop(p)
    <3>1. CASE proc' = proc
      BY <3>1
    <3>2. ASSUME NEW q \in Procs, q # p, Others(q)
          PROVE  proc'[p] = proc[p]
      BY <3>2 DEF Others
    <3>3. \A q \in Procs : \A step : Passed(q) \/ Moved(q, step) \/ Began(q) \/ Left(q) => Others(q)
      BY DEF Passed, Moved, Began, Left
    <3>4. proc[p].step = "hunks"
      BY <1>3 DEF At
    <3>5. Finish(p) => proc[p].step = "watermark"
      BY DEF Finish, At
    <3> QED
      BY <3>1, <3>2, <3>3, <3>4, <3>5, RunSteps DEF At
  <2> QED
    BY <2>1, <2>2, <2>3, <2>4
<1> QED
  BY <1>1, <1>2, <1>3 DEF Covered

(* A run passes a commit that is covered: it has a row, its hunks are written,
   or it is given up on. *)
LEMMA PassedCovers ==
  ASSUME Inv, [StagesNext]_vars, NEW p \in Procs, NEW c \in Commits, c = Current(p),
         (At(p, "take") /\ Skip(p)) \/ StoreHunks(p) \/ Fail(p)
  PROVE  Covered(c)'
<1>1. CASE Skip(p)
  <2>1. c \in commits
    BY <1>1 DEF Skip
  <2> QED
    BY <2>1, CoverKept DEF Inv, CoverInv
<1>2. CASE StoreHunks(p)
  BY <1>2, HunksStored DEF Covered
<1>3. CASE Fail(p)
  BY <1>3 DEF Fail, Covered
<1> QED
  BY <1>1, <1>2, <1>3

LEMMA CoverInvStep == Inv /\ [StagesNext]_vars => CoverInv'
<1> SUFFICES ASSUME Inv, [StagesNext]_vars PROVE CoverInv'
  OBVIOUS
<1>0. /\ Newest \in Nat /\ Commits = 1..Newest /\ head \in Commits /\ watermark \in 0..Newest
      /\ \A q \in Procs : proc[q].target \in 0..Newest /\ proc[q].todo \in Seq(Commits)
  BY StagesAssumption DEF Inv, TableInv, ProcInv
<1>1. \A c \in Commits : Covered(c) => Covered(c)'
  BY CoverKept
<1>2. \A c \in commits' : Covered(c)'
  <2> SUFFICES ASSUME NEW c \in commits' PROVE Covered(c)'
    OBVIOUS
  <2>1. CASE c \in commits
    BY <1>1, <2>1 DEF Inv, CoverInv, TableInv
  <2>2. CASE c \notin commits
    <3>1. PICK p \in Procs : StoreCommit(p) /\ c = Current(p)
      BY <2>2, CommitsGrow DEF commitTables
    <3>2. Moved(p, "hunks")
      BY <3>1, MovedIs DEF Inv
    <3>3. At(p, "hunks")' /\ Current(p)' = c
      BY <3>1, <3>2 DEF Moved, At, Current
    <3> QED
      BY <3>3 DEF Covered
  <2> QED
    BY <2>1, <2>2
<1> DEFINE Walked(q) == \A c \in 1..proc[q].target :
             Covered(c) \/ \E n \in 1..Len(proc[q].todo) : proc[q].todo[n] = c
<1>3. \A q \in Procs : Walked(q)
  BY DEF Inv, CoverInv
<1>4. ASSUME NEW q \in Procs, proc'[q].todo = proc[q].todo, proc'[q].target = proc[q].target
      PROVE  Walked(q)'
  <2>1. \A c \in 1..proc[q].target : c \in Commits
    BY <1>0
  <2> QED
    BY <1>1, <1>3, <1>4, <2>1
<1>5. ASSUME NEW p \in Procs, Passed(p), proc[p].todo # <<>>,
             (At(p, "take") /\ Skip(p)) \/ StoreHunks(p) \/ Fail(p)
      PROVE  Walked(p)'
  <2> SUFFICES ASSUME NEW c \in 1..proc[p].target
               PROVE  Covered(c)' \/ \E n \in 1..Len(proc'[p].todo) : proc'[p].todo[n] = c
    BY <1>5 DEF Passed
  <2> DEFINE todo == proc[p].todo
  <2>1. /\ c \in Commits /\ todo \in Seq(Commits) /\ Len(todo) \in Nat \ {0}
        /\ Head(todo) = todo[1] /\ proc'[p].todo = Tail(todo) /\ Len(Tail(todo)) = Len(todo) - 1
        /\ \A m \in 1..Len(todo) - 1 : Tail(todo)[m] = todo[m + 1]
    BY <1>0, <1>5 DEF Passed
  <2> HIDE DEF todo
  <2>2. CASE Covered(c)
    BY <1>1, <2>1, <2>2
  <2>3. ASSUME NEW n \in 1..Len(todo), todo[n] = c
        PROVE  Covered(c)' \/ \E m \in 1..Len(proc'[p].todo) : proc'[p].todo[m] = c
    <3>1. CASE n = 1
      <4>1. c = Current(p)
        BY <2>1, <2>3, <3>1 DEF Current, todo
      <4> QED
        BY <1>5, <2>1, <4>1, PassedCovers
    <3>2. CASE n # 1
      <4>1. n - 1 \in 1..Len(todo) - 1 /\ (n - 1) + 1 = n
        BY <2>1, <3>2
      <4> QED
        BY <2>1, <2>3, <4>1
    <3> QED
      BY <3>1, <3>2
  <2> QED
    BY <1>3, <2>2, <2>3 DEF todo
<1>6. ASSUME NEW p \in Procs, Began(p)
      PROVE  Walked(p)'
  <2> DEFINE k == IF watermark < head THEN head - watermark ELSE 0
  <2>1. /\ proc'[p].target = (IF watermark < head THEN head ELSE 0)
        /\ proc'[p].todo = [n \in 1..k |-> watermark + n] /\ k \in Nat
    BY <1>0, <1>6 DEF Began
  <2> SUFFICES ASSUME NEW c \in 1..proc'[p].target
               PROVE  Covered(c)' \/ \E n \in 1..Len(proc'[p].todo) : proc'[p].todo[n] = c
    OBVIOUS
  <2>2. c \in Commits /\ c \in Nat /\ (watermark < c => c - watermark \in 1..k) /\ c \in 1..head
    BY <1>0, <2>1
  <2>3. Len(proc'[p].todo) = k
    <3> HIDE DEF k
    <3> QED
      BY <2>1
  <2>4. CASE c <= watermark
    <3>1. c \in 1..watermark
      BY <1>0, <2>2, <2>4
    <3> QED
      BY <1>1, <2>2, <3>1 DEF Inv, CoverInv
  <2>5. CASE ~(c <= watermark)
    <3>1. c - watermark \in 1..k /\ watermark + (c - watermark) = c
      BY <1>0, <2>2, <2>5
    <3> HIDE DEF k
    <3>2. proc'[p].todo[c - watermark] = watermark + (c - watermark)
      BY <2>1, <3>1
    <3> QED
      BY <2>3, <3>1, <3>2
  <2> QED
    BY <2>4, <2>5
<1>7. ASSUME NEW p \in Procs, Left(p)
      PROVE  Walked(p)'
  <2>1. proc'[p].target = 0
    BY <1>7 DEF Left, Idle
  <2> QED
    BY <2>1
<1>8. \A q \in Procs : Walked(q)'
  <2>1. ASSUME NEW q \in Procs, proc'[q] = proc[q] PROVE Walked(q)'
    <3> HIDE DEF Walked
    <3> QED
      BY <1>4, <2>1
  <2>2. ASSUME NEW q \in Procs, NEW step, Moved(q, step) PROVE Walked(q)'
    <3>1. proc'[q].todo = proc[q].todo /\ proc'[q].target = proc[q].target
      BY <2>2 DEF Moved
    <3> HIDE DEF Walked
    <3> QED
      BY <1>4, <3>1
  <2>3. \A p \in Procs : proc[p].step \in Working => proc[p].todo # <<>>
    BY DEF Inv, ProcInv
  <2> HIDE DEF Walked
  <2>4. proc' = proc \/ \E p \in Procs : Walked(p)' /\ Others(p)
    <3>1. \A p \in Procs : \A step : Passed(p) \/ Moved(p, step) \/ Began(p) \/ Left(p) => Others(p)
      BY DEF Passed, Moved, Began, Left
    <3> QED
      BY <1>5, <1>6, <1>7, <2>2, <2>3, <3>1, RunSteps
  <2>5. ASSUME NEW p \in Procs, Walked(p)', Others(p)
        PROVE  \A q \in Procs : Walked(q)'
    BY <2>1, <2>5 DEF Others
  <2> QED
    BY <2>1, <2>4, <2>5
<1>9. \A c \in 1..watermark' : Covered(c)'
  <2>1. watermark' = watermark \/ \E p \in Procs : Finish(p)
    BY DEF StagesNext, vars, tables, Begin, Skip, Take, Prepare, Embed, WriteBack, StoreCommit,
           StoreHunks, StoreSymbols, Fail, Stop, Read, Hydrate, MoveHead
  <2>2. ASSUME watermark' = watermark, NEW c \in 1..watermark' PROVE Covered(c)'
    <3>1. c \in Commits
      BY <1>0, <2>2
    <3> QED
      BY <1>1, <2>2, <3>1 DEF Inv, CoverInv
  <2>3. ASSUME NEW p \in Procs, Finish(p), watermark' # watermark, NEW c \in 1..watermark'
        PROVE  Covered(c)'
    <3>1. At(p, "watermark") /\ watermark' = proc[p].target
      BY <2>3 DEF Finish
    <3>2. proc[p].todo = <<>>
      BY <3>1 DEF Inv, ProcInv, At
    <3>3. c \in 1..proc[p].target /\ c \in Commits /\ 1..Len(proc[p].todo) = {}
      BY <1>0, <2>3, <3>1, <3>2
    <3> QED
      BY <1>1, <1>3, <3>3
  <2> QED
    BY <2>1, <2>2, <2>3
<1> QED
  BY <1>2, <1>8, <1>9 DEF CoverInv

LEMMA InvInit == StagesInit => Inv
<1> SUFFICES ASSUME StagesInit PROVE Inv
  OBVIOUS
<1> USE StagesAssumption DEF StagesInit, TablesInit
<1>1. /\ DOMAIN hunk = {} /\ DOMAIN vecHunk = {} /\ DOMAIN vecCommit = {}
      /\ watermark = 0 /\ commits = {} /\ ftsText = {} /\ ftsSemantic = {} /\ hunkSymbol = {}
      /\ ftsCommit = [c \in Commits |-> 0]
  BY DEF Empty
<1>2. \A p \in Procs : proc[p] = Idle
  OBVIOUS
<1>3. ProcInv
  <2>1. DOMAIN proc = Procs /\ 0 \in 0..Newest /\ <<>> \in Seq(Commits)
    OBVIOUS
  <2> QED
    BY <1>2, <2>1 DEF ProcInv, Idle, Fields, Steps, Working, At
<1>4. MirrorsAgree
  BY <1>1 DEF MirrorsAgree
<1>5. TableInv
  BY <1>1, <1>4 DEF TableInv
<1>6. BlockInv
  BY <1>1 DEF BlockInv, Ids
<1>7. ReaderInv
  BY DEF ReaderInv
<1>8. CoverInv
  <2>1. \A p \in Procs : proc[p].target = 0
    BY <1>2 DEF Idle
  <2> QED
    BY <1>1, <2>1 DEF CoverInv
<1> QED
  BY <1>3, <1>5, <1>6, <1>7, <1>8 DEF Inv

LEMMA InvAlways == Spec => []Inv
<1>1. Inv /\ [StagesNext]_vars => Inv'
  BY ProcInvStep, TableInvStep, BlockInvStep, ReaderInvStep, CoverInvStep DEF Inv
<1> QED
  BY <1>1, InvInit, PTL DEF Spec

----------------------------------------------------------------------------
(* The embed stage. *)

LEMMA ChunksAre ==
  ASSUME NEW model, NEW S, NEW texts \in Seq(S)
  PROVE  EmbedInChunks(model, texts) = [i \in DOMAIN texts |-> <<model, texts[i]>>]
<1> DEFINE Chunk(n) == SubSeq(texts, n * EmbedBatch + 1, Min({(n + 1) * EmbedBatch, Len(texts)}))
           Vectors(s) == [i \in DOMAIN s |-> <<model, s[i]>>]
<1>1. ASSUME NEW i \in DOMAIN texts
      PROVE  Vectors(Chunk((i - 1) \div EmbedBatch))[1 + ((i - 1) % EmbedBatch)] = <<model, texts[i]>>
  <2>0. EmbedBatch \in Nat \ {0} /\ i - 1 \in Nat
    BY StagesAssumption
  <2>1. PICK n \in Nat, r \in Nat, b \in Nat \ {0} :
          /\ n = (i - 1) \div EmbedBatch /\ r = (i - 1) % EmbedBatch /\ b = EmbedBatch
          /\ i - 1 = b * n + r /\ r < b
    <3>1. PICK x \in Nat, b \in Nat \ {0} : x = i - 1 /\ b = EmbedBatch
      BY <2>0
    <3>2. x \div b \in Nat /\ x % b \in Nat /\ x % b < b /\ x = b * (x \div b) + (x % b)
      OBVIOUS
    <3> QED
      BY <3>1, <3>2
  <2>2. PICK nb \in Nat : nb = n * b /\ nb = b * n /\ (n + 1) * b = nb + b
    <3>1. n * b \in Nat /\ n * b = b * n /\ (n + 1) * b = n * b + b
      OBVIOUS
    <3> QED
      BY <3>1
  <2>3. i = nb + 1 + r /\ i \in 1..Len(texts) /\ Len(texts) \in Nat
    <3>1. i \in 1..Len(texts) /\ Len(texts) \in Nat
      OBVIOUS
    <3>2. i - 1 = nb + r
      BY <2>1, <2>2
    <3> QED
      BY <3>1, <3>2
  <2>4. \A x, y \in Nat : Min({x, y}) = IF x <= y THEN x ELSE y
    BY DEF Min
  <2>5. PICK last \in Nat : last = Min({nb + b, Len(texts)}) /\ i <= last /\ last <= Len(texts)
    <3>1. PICK x \in Nat : x = nb + b /\ i <= x
      BY <2>1, <2>3
    <3>2. Min({x, Len(texts)}) = IF x <= Len(texts) THEN x ELSE Len(texts)
      BY <2>3, <2>4
    <3> QED
      BY <2>3, <3>1, <3>2
  <2>6. Chunk(n) = SubSeq(texts, nb + 1, last)
    BY <2>1, <2>2, <2>5
  <2> HIDE DEF Chunk
  <2>7. 1 + r \in DOMAIN Chunk(n) /\ Chunk(n)[1 + r] = texts[i]
    BY <2>3, <2>5, <2>6
  <2> QED
    BY <2>1, <2>7
<1> HIDE DEF Chunk, Vectors
<1>2. EmbedInChunks(model, texts)
        = [i \in DOMAIN texts |-> Vectors(Chunk((i - 1) \div EmbedBatch))[1 + ((i - 1) % EmbedBatch)]]
  BY DEF EmbedInChunks, Chunk, Vectors
<1> QED
  BY <1>1, <1>2

(* Each input that the cache has not is a miss. *)
LEMMA MissesAre ==
  ASSUME NEW k \in Nat, NEW inputs, DOMAIN inputs = 1..k, NEW cached
  PROVE  /\ Misses(inputs, cached) \in Seq(RangeOf(inputs))
         /\ \A n \in 1..k :
              inputs[n] \in DOMAIN cached \union ToSet(Misses(inputs, cached))
<1> DEFINE firsts == {n \in DOMAIN inputs : /\ inputs[n] \notin DOMAIN cached
                                            /\ \A m \in 1..n - 1 : inputs[m] # inputs[n]}
           order == {p \in firsts \X firsts : p[1] < p[2]}
           places == Listed(firsts, order)
           misses == [n \in DOMAIN places |-> inputs[places[n]]]
<1>1. Misses(inputs, cached) = misses
  BY DEF Misses
<1>2. firsts \subseteq 1..k /\ firsts \subseteq Nat /\ IsFiniteSet(firsts)
  <2>1. firsts \in SUBSET (1..k)
    OBVIOUS
  <2> HIDE DEF firsts
  <2>2. IsFiniteSet(1..k)
    BY FS_Interval
  <2>3. IsFiniteSet(firsts)
    BY <2>1, <2>2, FS_Subset
  <2> QED
    BY <2>1, <2>3
<1>3. IsOrder(order, firsts)
  <2> HIDE DEF firsts
  <2> QED
    BY <1>2 DEF IsOrder
<1>4. places \in Seq(firsts) /\ ToSet(places) = firsts
  <2> HIDE DEF firsts, order
  <2> QED
    BY <1>2, <1>3, ListedIs DEF IsListing
<1>5. misses \in Seq(RangeOf(inputs))
  <2> HIDE DEF firsts, places
  <2>0. \A n \in DOMAIN places : places[n] \in firsts
    BY <1>4
  <2>1. \A n \in DOMAIN places : places[n] \in 1..k
    BY <1>2, <2>0
  <2>2. PICK l \in Nat : DOMAIN places = 1..l
    BY <1>4
  <2>3. \A n \in 1..l : misses[n] \in RangeOf(inputs)
    BY <2>1, <2>2 DEF RangeOf
  <2>4. misses = [n \in 1..l |-> misses[n]]
    BY <2>2
  <2> HIDE DEF misses
  <2> QED
    BY <2>3, <2>4
<1>6. ASSUME NEW n \in 1..k, inputs[n] \notin DOMAIN cached
      PROVE  inputs[n] \in ToSet(misses)
  <2> DEFINE same == {m \in 1..k : inputs[m] = inputs[n]}
  <2>1. same \in SUBSET Nat /\ n \in same
    OBVIOUS
  <2>2. PICK m \in same : \A l \in same : m <= l
    <3> HIDE DEF same
    <3> QED
      BY <2>1, LeastNatural
  <2>3. m \in 1..k /\ inputs[m] = inputs[n]
    OBVIOUS
  <2>4. \A l \in 1..m - 1 : inputs[l] # inputs[m]
    <3> SUFFICES ASSUME NEW l \in 1..m - 1, inputs[l] = inputs[m] PROVE FALSE
      OBVIOUS
    <3>1. l \in same /\ l < m
      BY <2>3
    <3> QED
      BY <2>2, <2>3, <3>1
  <2>5. m \in firsts
    BY <1>6, <2>3, <2>4
  <2> HIDE DEF firsts, places
  <2>6. PICK j \in DOMAIN places : places[j] = m
    BY <1>4, <2>5 DEF ToSet
  <2>7. j \in DOMAIN misses /\ misses[j] = inputs[n]
    BY <2>3, <2>6
  <2> QED
    BY <2>7 DEF ToSet
<1> QED
  BY <1>1, <1>5, <1>6

(* Vectors filed under the texts that model has made them from. *)
Filed(model, vecs) == \A x \in DOMAIN vecs : vecs[x] = <<model, x>>

(* Whatever is a duplicate or known to the cache, each text gets its vector. *)
LEMMA OutputIs ==
  ASSUME NEW model, NEW mode, NEW recs, NEW message, NEW cached,
         \E k \in Nat : DOMAIN recs = 1..k, Filed(model, cached)
  PROVE  LET out == EmbedOutput(model, mode, recs, cached, message)
         IN  /\ out.message = <<model, message>>
             /\ \A n \in DOMAIN recs : out.hunks[n] = <<model, Input(mode, recs[n])>>
             /\ Filed(model, out.entries)
<1>1. PICK k \in Nat : DOMAIN recs = 1..k
  OBVIOUS
<1>2. PICK out : out = EmbedOutput(model, mode, recs, cached, message)
  OBVIOUS
<1> DEFINE inputs == [n \in DOMAIN recs |-> Input(mode, recs[n])]
           misses == Misses(inputs, cached)
           all == RangeOf(inputs)
           texts == <<message>> \o misses
           vecs == EmbedInChunks(model, texts)
           Vector(input) == vecs[1 + CHOOSE n \in DOMAIN misses : misses[n] = input]
<1>3. /\ out.message = vecs[1]
      /\ \A n \in 1..k : out.hunks[n] = IF inputs[n] \in DOMAIN cached THEN cached[inputs[n]]
                                         ELSE Vector(inputs[n])
      /\ DOMAIN out.entries = ToSet(misses)
      /\ \A x \in ToSet(misses) : out.entries[x] = Vector(x)
  BY <1>1, <1>2 DEF EmbedOutput
<1>4. DOMAIN inputs = 1..k /\ \A n \in 1..k : inputs[n] = Input(mode, recs[n])
  BY <1>1
<1> HIDE DEF inputs
<1>5. /\ misses \in Seq(all)
      /\ \A n \in 1..k : inputs[n] \in DOMAIN cached \union ToSet(misses)
  BY <1>4, MissesAre
<1> HIDE DEF misses
<1>6. \A n \in DOMAIN misses : misses[n] \in all \union {message}
  BY <1>5
<1> HIDE DEF all
<1>7. /\ texts \in Seq(all \union {message}) /\ 1 \in DOMAIN texts /\ texts[1] = message
      /\ \A n \in DOMAIN misses : 1 + n \in DOMAIN texts /\ texts[1 + n] = misses[n]
  <2>1. misses \in Seq(all \union {message}) /\ <<message>> \in Seq(all \union {message})
    BY <1>5, <1>6
  <2> QED
    BY <2>1
<1> HIDE DEF texts
<1>8. vecs = [i \in DOMAIN texts |-> <<model, texts[i]>>]
  BY <1>7, ChunksAre
<1> HIDE DEF vecs
<1>9. ASSUME NEW x \in ToSet(misses)
      PROVE  Vector(x) = <<model, x>>
  <2>1. PICK m : m = CHOOSE n \in DOMAIN misses : misses[n] = x
    OBVIOUS
  <2>2. m \in DOMAIN misses /\ misses[m] = x
    BY <2>1 DEF ToSet
  <2> QED
    BY <1>7, <1>8, <2>1, <2>2
<1> HIDE DEF Vector
<1>10. out.message = <<model, message>>
  BY <1>3, <1>7, <1>8
<1>11. \A n \in 1..k : out.hunks[n] = <<model, Input(mode, recs[n])>>
  BY <1>3, <1>4, <1>5, <1>9 DEF Filed
<1>12. Filed(model, out.entries)
  BY <1>3, <1>9 DEF Filed
<1> QED
  BY <1>1, <1>2, <1>10, <1>11, <1>12

(* A row without a semantic text has no text either. *)
LEMMA SemanticIs ==
  ASSUME NEW c \in Commits, NEW n \in DOMAIN Diff[c], NEW mode
  PROVE  Input(mode, Records(c)[n]) \in {Row(Records(c)[n]).text, Row(Records(c)[n]).semantic}
<1> DEFINE rec == HunkRecords(c)[n]
           atoms == IF rec.path \in TooLarge THEN <<>> ELSE AtomsOf(rec.sha, rec.path)
<1>1. rec.text = Diff[c][n].text /\ rec.semantic = Message[c] \o Diff[c][n].text
  BY DEF HunkRecords
<1>2. PICK M : M = RangeOf(Message[c]) \union RangeOf(Diff[c][n].text)
  OBVIOUS
<1>3. Message[c] \in Seq(M) /\ rec.text \in Seq(M)
  <2>1. \A S, T : S \subseteq T => \A s \in Seq(S) : s \in Seq(T)
    OBVIOUS
  <2> QED
    BY <1>1, <1>2, <2>1, ListAssumption
<1>4. rec.semantic \in Seq(M) /\ (rec.semantic = <<>> => rec.text = <<>>)
  BY <1>1, <1>3
<1>5. Records(c)[n] = Attributed(rec)
  BY DEF Records
<1> HIDE DEF rec
<1>6. /\ Attributed(rec).text = rec.text
      /\ Attributed(rec).semantic = IF atoms = <<>> THEN rec.semantic
                                    ELSE <<atoms[1].name>> \o rec.semantic
  BY DEF Attributed
<1> HIDE DEF atoms
<1>7. Attributed(rec).semantic = <<>> => Attributed(rec).text = <<>>
  <2>1. \A x : <<x>> \o rec.semantic # <<>>
    <3> SUFFICES ASSUME NEW x PROVE <<x>> \o rec.semantic # <<>>
      OBVIOUS
    <3>1. <<x>> \in Seq(M \union {x}) /\ rec.semantic \in Seq(M \union {x})
      BY <1>4
    <3>2. Len(<<x>> \o rec.semantic) = 1 + Len(rec.semantic) /\ Len(rec.semantic) \in Nat
      BY <1>4, <3>1
    <3> QED
      BY <3>2
  <2> QED
    BY <1>4, <1>6, <2>1
<1> QED
  BY <1>5, <1>7 DEF Input, Row

----------------------------------------------------------------------------
(* Whose vectors they are. *)

Vec(p, text) == <<Model[p], text>>

(* What a run holds of the embedder's and the cache's vectors is made from the
   texts it is filed under. *)
OutIs(p) ==
  /\ proc[p].out.message = Vec(p, Message[Current(p)])
  /\ \A n \in DOMAIN Diff[Current(p)] :
       proc[p].out.hunks[n] = Vec(p, Input(proc[p].mode, Records(Current(p))[n]))
  /\ Filed(Model[p], proc[p].out.entries)

HeldInv ==
  \A p \in Procs :
    /\ At(p, "embed") => Filed(Model[p], proc[p].cached)
    /\ proc[p].step \in {"cache", "commit", "hunks"} => OutIs(p)

LEMMA CurrentIs ==
  ASSUME ProcInv, NEW p \in Procs, proc[p].step \in Working
  PROVE  Current(p) \in Commits
BY DEF ProcInv, Current

(* Only these steps change what a run holds. *)
LEMMA HeldStep ==
  ASSUME Inv, HeldInv, VectorsAreTheirs, [StagesNext]_vars
  PROVE  HeldInv'
<1> SUFFICES ASSUME NEW q \in Procs
             PROVE  /\ At(q, "embed")' => Filed(Model[q], proc'[q].cached)
                    /\ proc'[q].step \in {"cache", "commit", "hunks"} => OutIs(q)'
  BY DEF HeldInv
<1>0. DOMAIN proc = Procs /\ \A p \in Procs : DOMAIN proc[p] = Fields
  BY DEF Inv, ProcInv
<1>1. CASE proc'[q] = proc[q]
  BY <1>1 DEF HeldInv, At, OutIs, Current
<1>2. CASE proc'[q].step \notin {"embed", "cache", "commit", "hunks"}
  BY <1>2 DEF At
<1>3. ASSUME Prepare(q)
      PROVE  /\ proc'[q].step = "embed"
             /\ Filed(Model[q], proc'[q].cached)
  <2>1. PICK inputs : proc' = [proc EXCEPT
           ![q].cached = IF proc[q].mode = "off" THEN Empty ELSE CacheGet(inputs, Model[q]),
           ![q].step = "embed"]
    BY <1>3 DEF Prepare
  <2>2. /\ proc'[q].step = "embed"
        /\ proc'[q].cached = IF proc[q].mode = "off" THEN Empty ELSE CacheGet(inputs, Model[q])
    BY <1>0, <2>1 DEF Fields
  <2>3. Filed(Model[q], Empty)
    BY DEF Empty, Filed
  <2>4. Filed(Model[q], CacheGet(inputs, Model[q]))
    BY DEF CacheGet, VectorsAreTheirs, Filed
  <2> QED
    BY <2>2, <2>3, <2>4
<1>4. ASSUME Embed(q)
      PROVE  proc'[q].step \in {"cache", "commit"} /\ OutIs(q)'
  <2>1. PICK c \in Commits : c = Current(q)
    BY <1>4, CurrentIs DEF Embed, At, Working, Inv
  <2>2. PICK out, step :
          /\ out = EmbedOutput(Model[q], proc[q].mode, Records(c), proc[q].cached, Message[c])
          /\ step \in {"cache", "commit"}
          /\ proc' = [proc EXCEPT ![q].out = out, ![q].cached = None, ![q].step = step]
    BY <1>4, <2>1 DEF Embed
  <2>3. /\ proc'[q].step = step /\ proc'[q].out = out
        /\ proc'[q].todo = proc[q].todo /\ proc'[q].mode = proc[q].mode
    BY <1>0, <2>2 DEF Fields
  <2>4. Filed(Model[q], proc[q].cached)
    BY <1>4 DEF HeldInv, Embed
  <2>5. DOMAIN Records(c) = DOMAIN Diff[c] /\ \E k \in Nat : DOMAIN Records(c) = 1..k
    BY ListAssumption DEF Records
  <2>6. /\ out.message = <<Model[q], Message[c]>>
        /\ \A n \in DOMAIN Records(c) : out.hunks[n] = <<Model[q], Input(proc[q].mode, Records(c)[n])>>
        /\ Filed(Model[q], out.entries)
    BY <2>2, <2>4, <2>5, OutputIs, SMTT(20)
  <2>7. Current(q)' = c
    BY <2>1, <2>3 DEF Current
  <2> QED
    BY <2>2, <2>3, <2>5, <2>6, <2>7 DEF OutIs, Vec
<1>5. ASSUME WriteBack(q) \/ StoreCommit(q)
      PROVE  proc'[q].step \in {"commit", "hunks"} /\ OutIs(q)'
  <2>1. OutIs(q)
    BY <1>5 DEF HeldInv, WriteBack, StoreCommit, At
  <2>2. PICK step : step \in {"commit", "hunks"} /\ proc' = [proc EXCEPT ![q].step = step]
    BY <1>5 DEF WriteBack, StoreCommit, Proceed
  <2>3. /\ proc'[q].step = step /\ proc'[q].out = proc[q].out
        /\ proc'[q].todo = proc[q].todo /\ proc'[q].mode = proc[q].mode
    BY <1>0, <2>2 DEF Fields
  <2> QED
    BY <2>1, <2>2, <2>3 DEF OutIs, Current
<1>6. \/ proc'[q] = proc[q] \/ proc'[q].step \notin {"embed", "cache", "commit", "hunks"}
      \/ Prepare(q) \/ Embed(q) \/ WriteBack(q) \/ StoreCommit(q)
  <2>1. CASE MoveHead \/ Hydrate \/ UNCHANGED vars \/ \E i \in DOMAIN hunk : Read(i)
    BY <2>1 DEF MoveHead, Hydrate, Read, vars
  <2>2. ASSUME NEW p \in Procs, NextCommit(p) \/ Proceed(p, "prepare") \/ Proceed(p, "watermark")
        PROVE  proc'[q] = proc[q] \/ proc'[q].step \in {"take", "prepare", "watermark"}
    BY <1>0, <2>2 DEF NextCommit, Proceed, Fields
  <2>3. ASSUME NEW p \in Procs, (\E mode \in Modes : Begin(p, mode)) \/ Finish(p) \/ Stop(p)
        PROVE  proc'[q] = proc[q] \/ proc'[q].step \in {"take", "idle"}
    BY <1>0, <2>3 DEF Begin, Finish, Stop, Idle
  <2>4. ASSUME NEW p \in Procs, p # q, Prepare(p) \/ Embed(p) \/ WriteBack(p) \/ StoreCommit(p)
        PROVE  proc'[q] = proc[q]
    BY <1>0, <2>4 DEF Prepare, Embed, WriteBack, StoreCommit, Proceed
  <2>5. \A p \in Procs : /\ Skip(p) \/ StoreHunks(p) \/ Fail(p) => NextCommit(p)
                         /\ Take(p) => Proceed(p, "prepare")
                         /\ StoreSymbols(p) => Proceed(p, "watermark")
    BY DEF Skip, StoreHunks, Fail, Take, StoreSymbols
  <2> QED
    BY <2>1, <2>2, <2>3, <2>4, <2>5 DEF StagesNext
<1> QED
  BY <1>1, <1>2, <1>3, <1>4, <1>5, <1>6 DEF At

LEMMA CommitVectorsStep ==
  ASSUME Inv, HeldInv, VectorsAreTheirs, [StagesNext]_vars, NEW d \in commits'
  PROVE  \E p \in Procs : vecCommit'[d] = Vec(p, Message[d])
<1>1. CASE UNCHANGED commitTables
  BY <1>1 DEF VectorsAreTheirs, Vec, commitTables
<1>2. ASSUME NEW p \in Procs, StoreCommit(p)
      PROVE  \E q \in Procs : vecCommit'[d] = Vec(q, Message[d])
  <2>1. PICK c, vec : c = Current(p) /\ vec = proc[p].out.message
    OBVIOUS
  <2>2. vec = Vec(p, Message[c])
    BY <1>2, <2>1 DEF StoreCommit, At, HeldInv, OutIs
  <2>3. /\ commits' = commits \union {c} /\ DOMAIN vecCommit = commits
        /\ vecCommit' = [e \in DOMAIN vecCommit \union {c} |-> IF e = c THEN vec ELSE vecCommit[e]]
    BY <1>2, <2>1 DEF StoreCommit, PutCommit, Inv, TableInv, MirrorsAgree
  <2>4. CASE d = c
    BY <2>2, <2>3, <2>4
  <2>5. CASE d # c
    <3>1. d \in commits /\ vecCommit'[d] = vecCommit[d]
      BY <2>3, <2>5
    <3> QED
      BY <3>1 DEF VectorsAreTheirs, Vec
  <2> QED
    BY <2>4, <2>5
<1> QED
  BY <1>1, <1>2, CommitsGrow

LEMMA HunkVectorsStep ==
  ASSUME Inv, HeldInv, VectorsAreTheirs, [StagesNext]_vars, NEW i \in DOMAIN hunk'
  PROVE  \E p \in Procs : vecHunk'[i] \in {Vec(p, hunk'[i].text), Vec(p, hunk'[i].semantic)}
<1>1. CASE UNCHANGED <<hunk, vecHunk>>
  BY <1>1 DEF VectorsAreTheirs, Vec
<1>2. ASSUME NEW p \in Procs, StoreHunks(p)
      PROVE  \E q \in Procs : vecHunk'[i] \in {Vec(q, hunk'[i].text), Vec(q, hunk'[i].semantic)}
  <2>0. PICK c \in Commits : c = Current(p)
    BY <1>2, CurrentIs DEF StoreHunks, At, Working, Inv
  <2>1. PICK recs : c = Current(p) /\ recs = Rows(c, proc[p].out.hunks)
    BY <2>0
  <2>2. CASE recs = <<>>
    <3>1. UNCHANGED hunkTables
      BY <1>2, <2>1, <2>2 DEF StoreHunks, PutHunks
    <3> QED
      BY <1>1, <3>1 DEF hunkTables
  <2>3. CASE recs # <<>>
    <3>1. PICK base \in DOMAIN hunk \union {0} : Replace(recs, Dead(recs), Dead(recs), base)
      BY <1>2, <2>1, <2>3 DEF StoreHunks, PutHunks
    <3> DEFINE kept == DOMAIN hunk \ Dead(recs)
               new == {base + n : n \in DOMAIN recs}
    <3>2. /\ hunk' = [j \in kept \union new |-> IF j \in new THEN Row(recs[j - base]) ELSE hunk[j]]
          /\ vecHunk' = [j \in (DOMAIN vecHunk \ Dead(recs)) \union new |->
                           IF j \in new THEN recs[j - base].vec ELSE vecHunk[j]]
          /\ DOMAIN vecHunk = DOMAIN hunk /\ base \in Nat
      BY <3>1 DEF Replace, Inv, TableInv, MirrorsAgree
    <3>3. /\ DOMAIN recs = DOMAIN Diff[c] /\ DOMAIN recs \subseteq Nat
          /\ \A n \in DOMAIN recs :
               recs[n].vec = proc[p].out.hunks[n] /\ Row(recs[n]) = Row(Records(c)[n])
      <4>1. DOMAIN recs \subseteq Nat /\ DOMAIN recs = DOMAIN Diff[c]
        BY <2>1, ListAssumption DEF Rows
      <4>2. \A n \in DOMAIN recs : recs[n].vec = proc[p].out.hunks[n]
        BY <2>1, <4>1 DEF Rows
      <4>3. \A n \in DOMAIN recs : Row(recs[n]) = Row(Records(c)[n])
        BY <2>1, <4>1, RowsAre
      <4> QED
        BY <4>1, <4>2, <4>3
    <3>4. CASE i \in new
      <4>1. PICK n \in DOMAIN recs : i = base + n /\ i - base = n
        BY <3>2, <3>3, <3>4
      <4>2. vecHunk'[i] = proc[p].out.hunks[n] /\ hunk'[i] = Row(Records(c)[n])
        BY <3>2, <3>3, <3>4, <4>1
      <4>3. proc[p].out.hunks[n] = Vec(p, Input(proc[p].mode, Records(c)[n]))
        BY <1>2, <2>1, <3>3, <4>1 DEF StoreHunks, At, HeldInv, OutIs
      <4>4. Input(proc[p].mode, Records(c)[n]) \in {Row(Records(c)[n]).text, Row(Records(c)[n]).semantic}
        BY <3>3, <4>1, SemanticIs
      <4> QED
        BY <4>2, <4>3, <4>4
    <3>5. CASE i \notin new
      <4>1. i \in DOMAIN hunk /\ hunk'[i] = hunk[i] /\ vecHunk'[i] = vecHunk[i]
        BY <3>2, <3>5
      <4> QED
        BY <4>1 DEF VectorsAreTheirs, Vec
    <3> QED
      BY <3>4, <3>5
  <2> QED
    BY <2>2, <2>3
<1> QED
  BY <1>1, <1>2, OtherSteps

LEMMA CacheStep ==
  ASSUME Inv, HeldInv, VectorsAreTheirs, [StagesNext]_vars, NEW k \in DOMAIN cache'
  PROVE  cache'[k] = <<k[2], k[1]>>
<1>1. CASE UNCHANGED cache
  BY <1>1 DEF VectorsAreTheirs
<1>2. ASSUME NEW p \in Procs, WriteBack(p)
      PROVE  cache'[k] = <<k[2], k[1]>>
  <2>1. PICK entries : entries = proc[p].out.entries
    OBVIOUS
  <2>2. Filed(Model[p], entries)
    BY <1>2, <2>1 DEF WriteBack, At, HeldInv, OutIs
  <2>3. cache' = [j \in DOMAIN cache \union {<<input, Model[p]>> : input \in DOMAIN entries} |->
                    IF j \in DOMAIN cache THEN cache[j] ELSE entries[j[1]]]
    BY <1>2, <2>1 DEF WriteBack, CachePut
  <2>4. CASE k \in DOMAIN cache
    BY <2>3, <2>4 DEF VectorsAreTheirs
  <2>5. CASE k \notin DOMAIN cache
    <3>1. PICK input \in DOMAIN entries : k = <<input, Model[p]>>
      BY <2>3, <2>5
    <3>2. cache'[k] = entries[input]
      BY <2>3, <2>5, <3>1
    <3> QED
      BY <2>2, <3>1, <3>2 DEF Filed
  <2> QED
    BY <2>4, <2>5
<1>3. CASE MoveHead \/ Hydrate \/ UNCHANGED vars \/ \E i \in DOMAIN hunk : Read(i)
  BY <1>1, <1>3 DEF MoveHead, Hydrate, Read, vars, tables
<1>4. ASSUME NEW p \in Procs,
             \/ Skip(p) \/ Take(p) \/ Prepare(p) \/ Embed(p) \/ Fail(p) \/ Stop(p)
             \/ \E mode \in Modes : Begin(p, mode)
      PROVE  UNCHANGED cache
  BY <1>4 DEF Skip, Take, Prepare, Embed, Fail, Stop, Begin, tables
<1>5. ASSUME NEW p \in Procs, StoreCommit(p) \/ StoreHunks(p) \/ StoreSymbols(p) \/ Finish(p)
      PROVE  UNCHANGED cache
  BY <1>5 DEF StoreCommit, StoreHunks, StoreSymbols, Finish
<1> QED
  BY <1>1, <1>2, <1>3, <1>4, <1>5 DEF StagesNext

LEMMA VectorsInit == StagesInit => HeldInv /\ VectorsAreTheirs
<1> SUFFICES ASSUME StagesInit PROVE HeldInv /\ VectorsAreTheirs
  OBVIOUS
<1>1. commits = {} /\ DOMAIN hunk = {} /\ DOMAIN cache = {}
  BY DEF StagesInit, TablesInit, Empty
<1>2. \A p \in Procs : proc[p].step = "idle"
  BY DEF StagesInit, Idle
<1> QED
  BY <1>1, <1>2 DEF HeldInv, At, VectorsAreTheirs

LEMMA VectorsAlways == Spec => [](HeldInv /\ VectorsAreTheirs)
<1>1. ASSUME Inv, HeldInv, VectorsAreTheirs, [StagesNext]_vars
      PROVE  VectorsAreTheirs'
  <2>1. \A d \in commits' : \E p \in Procs : vecCommit'[d] = <<Model[p], Message[d]>>
    BY <1>1, CommitVectorsStep DEF Vec
  <2>2. \A i \in DOMAIN hunk' : \E p \in Procs :
          vecHunk'[i] \in {<<Model[p], hunk'[i].text>>, <<Model[p], hunk'[i].semantic>>}
    BY <1>1, HunkVectorsStep DEF Vec
  <2>3. \A k \in DOMAIN cache' : cache'[k] = <<k[2], k[1]>>
    BY <1>1, CacheStep
  <2> QED
    BY <2>1, <2>2, <2>3 DEF VectorsAreTheirs
<1>2. Inv /\ (HeldInv /\ VectorsAreTheirs) /\ [StagesNext]_vars => (HeldInv /\ VectorsAreTheirs)'
  BY <1>1, HeldStep
<1> QED
  BY <1>2, VectorsInit, InvAlways, PTL DEF Spec

----------------------------------------------------------------------------
(* HEAD's symbols. *)

ChunkList(s, V) == \E X : s \in Seq(X) /\ \A x \in X : x.name \in V /\ x.siblings \in Seq(V)
Part(x) == <<x.name>> \o x.siblings
Parts(s) == [n \in DOMAIN s |-> Part(s[n])]

LEMMA PartIs ==
  ASSUME NEW V, NEW x, x.name \in V, x.siblings \in Seq(V)
  PROVE  Part(x) \in Seq(V)
<1>1. <<x.name>> \in Seq(V)
  OBVIOUS
<1> QED
  BY <1>1, ConcatProperties DEF Part

LEMMA PartsAre ==
  ASSUME NEW V, NEW s, ChunkList(s, V)
  PROVE  Parts(s) \in Seq(Seq(V)) /\ Names(s) = FlattenSeq(Parts(s)) /\ Len(Parts(s)) = Len(s)
<1>1. PICK X : s \in Seq(X) /\ \A x \in X : x.name \in V /\ x.siblings \in Seq(V)
  BY DEF ChunkList
<1>2. \A n \in 1..Len(s) : Part(s[n]) \in Seq(V)
  <2> TAKE n \in 1..Len(s)
  <2>1. s[n] \in X
    BY <1>1, ElementOfSeq
  <2> QED
    BY <1>1, <2>1, PartIs
<1>3. DOMAIN s = 1..Len(s) /\ Len(s) \in Nat
  BY <1>1
<1>4. Parts(s) = [n \in 1..Len(s) |-> Part(s[n])]
  BY <1>3 DEF Parts
<1>5. Parts(s) \in Seq(Seq(V)) /\ Len(Parts(s)) = Len(s)
  <2> DEFINE P == [n \in 1..Len(s) |-> Part(s[n])]
  <2>1. P \in [1..Len(s) -> Seq(V)]
    BY <1>2
  <2> HIDE DEF P
  <2>2. P \in Seq(Seq(V)) /\ Len(P) = Len(s)
    BY <1>3, <2>1
  <2> QED
    BY <1>4, <2>2 DEF P
<1>6. Names(s) = FlattenSeq(Parts(s))
  BY DEF Names, Parts, Part
<1> QED
  BY <1>5, <1>6

LEMMA NamesAppend ==
  ASSUME NEW V, NEW s, ChunkList(s, V), NEW x, x.name \in V, x.siblings \in Seq(V)
  PROVE  /\ ChunkList(Append(s, x), V)
         /\ Names(s) \in Seq(V)
         /\ Names(Append(s, x)) = Names(s) \o Part(x)
<1>1. PICK X : s \in Seq(X) /\ \A y \in X : y.name \in V /\ y.siblings \in Seq(V)
  BY DEF ChunkList
<1>2. s \in Seq(X \union {x}) /\ Append(s, x) \in Seq(X \union {x})
  <2>1. s \in Seq(X \union {x})
    BY <1>1, SeqMonotonic
  <2> QED
    BY <2>1
<1>3. ChunkList(Append(s, x), V)
  BY <1>1, <1>2 DEF ChunkList
<1>4. Parts(s) \in Seq(Seq(V)) /\ Part(x) \in Seq(V) /\ Names(s) = FlattenSeq(Parts(s))
  BY PartsAre, PartIs
<1>5. Names(Append(s, x)) = FlattenSeq(Parts(Append(s, x)))
  BY <1>3, PartsAre
<1>6. Parts(Append(s, x)) = Append(Parts(s), Part(x))
  <2> DEFINE t == Append(s, x)
             u == Append(Parts(s), Part(x))
  <2>1. /\ Len(s) \in Nat /\ DOMAIN s = 1..Len(s)
        /\ DOMAIN t = 1..Len(s) + 1 /\ t[Len(s) + 1] = x
        /\ \A n \in 1..Len(s) : t[n] = s[n]
    <3>1. s \in Seq(X \union {x}) /\ x \in X \union {x}
      BY <1>2
    <3> QED
      BY <3>1, AppendIs
  <2>2. /\ Len(Parts(s)) = Len(s) /\ DOMAIN u = 1..Len(s) + 1 /\ u[Len(s) + 1] = Part(x)
        /\ \A n \in 1..Len(s) : u[n] = Parts(s)[n]
        /\ u = [n \in 1..Len(s) + 1 |-> u[n]]
    <3>1. Len(Parts(s)) = Len(s)
      BY PartsAre
    <3> QED
      BY <1>4, <3>1, AppendIs
  <2> HIDE DEF t, u
  <2>3. \A n \in 1..Len(s) : u[n] = Part(t[n])
    BY <2>1, <2>2 DEF Parts
  <2>4. ASSUME NEW n \in 1..Len(s) + 1 PROVE u[n] = Part(t[n])
    <3>1. n \in 1..Len(s) \/ n = Len(s) + 1
      BY <2>1
    <3>2. CASE n = Len(s) + 1
      BY <2>1, <2>2, <3>2
    <3> QED
      BY <2>3, <3>1, <3>2
  <2>5. Parts(t) = [n \in 1..Len(s) + 1 |-> Part(t[n])]
    BY <2>1 DEF Parts
  <2>6. Parts(t) = u
    BY <2>2, <2>4, <2>5
  <2> QED
    BY <2>6 DEF t, u
<1>7. /\ FlattenSeq(Parts(s)) \in Seq(V)
      /\ FlattenSeq(Append(Parts(s), Part(x))) = FlattenSeq(Parts(s)) \o Part(x)
  BY <1>4, FlattenAppend
<1> QED
  BY <1>3, <1>4, <1>5, <1>6, <1>7

LEMMA MergeNames ==
  ASSUME NEW V, NEW chunks, ChunkList(chunks, V), NEW atom, atom.name \in V, NEW path, NEW max
  PROVE  /\ ChunkList(Merge(path, chunks, atom, max), V)
         /\ Names(chunks) \in Seq(V)
         /\ Names(Merge(path, chunks, atom, max)) = Append(Names(chunks), atom.name)
<1>1. PICK X : chunks \in Seq(X) /\ \A y \in X : y.name \in V /\ y.siblings \in Seq(V)
  BY DEF ChunkList
<1>2. PICK start : start = StartChunk(path, atom)
  OBVIOUS
<1>3. start.name \in V /\ start.siblings \in Seq(V) /\ Part(start) = <<atom.name>>
  <2>1. start.name = atom.name /\ start.siblings = <<>>
    BY <1>2 DEF StartChunk
  <2>2. <<atom.name>> \in Seq(V) /\ <<>> \in Seq(V)
    OBVIOUS
  <2>3. <<atom.name>> \o <<>> = <<atom.name>>
    BY <2>2, ConcatEmptySeq
  <2> QED
    BY <2>1, <2>2, <2>3 DEF Part
<1>4. CASE Merge(path, chunks, atom, max) = Append(chunks, StartChunk(path, atom))
  <2>1. Names(chunks) \in Seq(V) /\ ChunkList(Append(chunks, start), V)
        /\ Names(Append(chunks, start)) = Names(chunks) \o <<atom.name>>
    <3>1. ChunkList(chunks, V) /\ start.name \in V /\ start.siblings \in Seq(V)
      BY <1>3
    <3>2. /\ Names(chunks) \in Seq(V) /\ ChunkList(Append(chunks, start), V)
          /\ Names(Append(chunks, start)) = Names(chunks) \o Part(start)
      BY ONLY <3>1, NamesAppend
    <3> QED
      BY <1>3, <3>2
  <2>2. Names(chunks) \o <<atom.name>> = Append(Names(chunks), atom.name)
    BY <2>1
  <2> QED
    BY <1>2, <1>4, <2>1, <2>2
<1>5. CASE /\ chunks # <<>>
           /\ Merge(path, chunks, atom, max) = Append(Front(chunks), Extend(Last(chunks), atom))
  <2>1. /\ Front(chunks) \in Seq(X) /\ Last(chunks) \in X
        /\ chunks = Append(Front(chunks), Last(chunks))
    BY <1>1, <1>5 DEF Front, Last
  <2>2. PICK front, last : front = Front(chunks) /\ last = Last(chunks)
    OBVIOUS
  <2>3. ChunkList(front, V) /\ last.name \in V /\ last.siblings \in Seq(V)
    BY <1>1, <2>1, <2>2 DEF ChunkList
  <2>4. PICK e : e = Extend(last, atom)
    OBVIOUS
  <2>5. e.name = last.name /\ e.siblings = Append(last.siblings, atom.name)
    BY <2>4 DEF Extend
  <2>6. e.name \in V /\ e.siblings \in Seq(V)
    BY <2>3, <2>5
  <2>7. /\ Names(front) \in Seq(V) /\ ChunkList(Append(front, e), V)
        /\ Names(Append(front, e)) = Names(front) \o Part(e)
    BY <2>3, <2>6, NamesAppend
  <2>8. Names(Append(front, last)) = Names(front) \o Part(last) /\ Part(last) \in Seq(V)
    BY <2>3, NamesAppend, PartIs
  <2>9. Part(e) = Append(Part(last), atom.name)
    BY <2>3, <2>5 DEF Part
  <2>10. Names(front) \o Append(Part(last), atom.name)
           = Append(Names(front) \o Part(last), atom.name)
         /\ Names(front) \o Part(last) \in Seq(V)
    BY <2>7, <2>8, ConcatAppend
  <2> QED
    BY <1>5, <2>1, <2>2, <2>4, <2>7, <2>8, <2>9, <2>10
<1> QED
  BY <1>4, <1>5 DEF Merge

(* ChunkSymbols' recursive function, up to k. *)
Merged(f, path, atoms, max, k) ==
  f = [n \in 0..k |-> IF n = 0 THEN <<>> ELSE Merge(path, f[n - 1], atoms[n], max)]

LEMMA MergedExists ==
  ASSUME NEW path, NEW atoms, NEW max
  PROVE  \A k \in Nat : \E f : Merged(f, path, atoms, max, k)
<1> DEFINE S == {k \in Nat : \E f : Merged(f, path, atoms, max, k)}
<1>1. 0 \in S
  <2> DEFINE f == [n \in 0..0 |-> <<>>]
  <2>1. f = [n \in 0..0 |-> IF n = 0 THEN <<>> ELSE Merge(path, f[n - 1], atoms[n], max)]
    OBVIOUS
  <2> HIDE DEF f
  <2>2. Merged(f, path, atoms, max, 0)
    BY <2>1 DEF Merged
  <2> QED
    BY <2>2
<1>2. ASSUME NEW k \in Nat, NEW f, Merged(f, path, atoms, max, k)
      PROVE  \E g : Merged(g, path, atoms, max, k + 1)
  <2> DEFINE g == [n \in 0..k + 1 |->
                     IF n <= k THEN f[n] ELSE Merge(path, f[k], atoms[n], max)]
  <2>1. ASSUME NEW n \in 0..k + 1
        PROVE  g[n] = IF n = 0 THEN <<>> ELSE Merge(path, g[n - 1], atoms[n], max)
    <3>1. CASE n <= k
      <4>1. n \in 0..k /\ (n # 0 => n - 1 \in 0..k /\ n - 1 <= k /\ n - 1 \in 0..k + 1)
        BY <3>1
      <4>2. f[n] = IF n = 0 THEN <<>> ELSE Merge(path, f[n - 1], atoms[n], max)
        BY <1>2, <4>1 DEF Merged
      <4>3. g[n] = f[n] /\ (n # 0 => g[n - 1] = f[n - 1])
        BY <3>1, <4>1
      <4> QED
        BY <4>2, <4>3
    <3>2. CASE n = k + 1
      <4>1. n - 1 = k /\ n # 0 /\ ~(n <= k) /\ k \in 0..k + 1 /\ k <= k
        BY <3>2
      <4>2. g[n] = Merge(path, f[k], atoms[n], max) /\ g[k] = f[k]
        BY <4>1
      <4> QED
        BY <4>1, <4>2
    <3> QED
      BY <3>1, <3>2
  <2>2. g = [n \in 0..k + 1 |-> g[n]]
    OBVIOUS
  <2> HIDE DEF g
  <2>3. g = [n \in 0..k + 1 |-> IF n = 0 THEN <<>> ELSE Merge(path, g[n - 1], atoms[n], max)]
    BY <2>1, <2>2
  <2> QED
    BY <2>3 DEF Merged
<1>3. \A n \in Nat : n \in S => n + 1 \in S
  BY <1>2
<1> HIDE DEF S
<1>4. \A n \in Nat : n \in S
  BY <1>1, <1>3, SetInduction
<1> QED
  BY <1>4 DEF S

LEMMA MergedStep ==
  ASSUME NEW f, NEW path, NEW atoms, NEW max, NEW k \in Nat, Merged(f, path, atoms, max, k)
  PROVE  /\ f[0] = <<>>
         /\ \A n \in Nat : n + 1 <= k => f[n + 1] = Merge(path, f[n], atoms[n + 1], max)
<1>1. 0 \in 0..k
  OBVIOUS
<1>2. f[0] = <<>>
  BY <1>1 DEF Merged
<1>3. ASSUME NEW n \in Nat, n + 1 <= k
      PROVE  f[n + 1] = Merge(path, f[n], atoms[n + 1], max)
  <2>1. PICK i \in 0..k : i = n + 1 /\ i - 1 = n /\ i # 0
    BY <1>3
  <2>2. f[i] = IF i = 0 THEN <<>> ELSE Merge(path, f[i - 1], atoms[i], max)
    BY DEF Merged
  <2> QED
    BY <2>1, <2>2
<1> QED
  BY <1>2, <1>3

AtomNames(atoms) == [n \in 1..Len(atoms) |-> atoms[n].name]

LEMMA ChunkSymbolsAre ==
  ASSUME NEW V, NEW A, \A a \in A : a.name \in V, NEW atoms \in Seq(A), NEW path, NEW max
  PROVE  /\ ChunkList(ChunkSymbols(path, atoms, max), V)
         /\ Names(ChunkSymbols(path, atoms, max)) = AtomNames(atoms)
<1> DEFINE F == CHOOSE f : Merged(f, path, atoms, max, Len(atoms))
           Upto(n) == [i \in 1..n |-> atoms[i].name]
           Holds(n) == ChunkList(F[n], V) /\ Names(F[n]) = Upto(n)
           S == {n \in Nat : n <= Len(atoms) => Holds(n)}
<1>1. Len(atoms) \in Nat
  OBVIOUS
<1>2. Merged(F, path, atoms, max, Len(atoms))
  BY <1>1, MergedExists
<1>3. ChunkSymbols(path, atoms, max) = F[Len(atoms)]
  BY DEF ChunkSymbols, Merged
<1> HIDE DEF F
<1>4. /\ F[0] = <<>>
      /\ \A n \in Nat : n + 1 <= Len(atoms) =>
           F[n + 1] = Merge(path, F[n], atoms[n + 1], max)
  BY <1>1, <1>2, MergedStep
<1>5. 0 \in S
  <2>1. <<>> \in Seq({})
    BY EmptySeq
  <2>2. ChunkList(<<>>, V)
    <3>1. \E X : <<>> \in Seq(X) /\ \A x \in X : x.name \in V /\ x.siblings \in Seq(V)
      <4>1. PICK X : X = {} /\ <<>> \in Seq(X)
        BY <2>1
      <4>2. \A x \in X : x.name \in V /\ x.siblings \in Seq(V)
        BY <4>1
      <4> QED
        BY <4>1, <4>2
    <3> QED
      BY <3>1 DEF ChunkList
  <2>3. Names(<<>>) = <<>>
    <3>1. [n \in DOMAIN <<>> |-> <<(<<>>)[n].name>> \o (<<>>)[n].siblings] = <<>>
      OBVIOUS
    <3>2. FlattenSeq(<<>>) = <<>>
      BY DEF FlattenSeq
    <3> QED
      BY <3>1, <3>2 DEF Names
  <2>4. Upto(0) = <<>>
    OBVIOUS
  <2> HIDE DEF Upto
  <2> QED
    BY <1>4, <2>2, <2>3, <2>4
<1>6. ASSUME NEW n \in Nat, n \in S PROVE n + 1 \in S
  <2> SUFFICES ASSUME n + 1 <= Len(atoms) PROVE Holds(n + 1)
    OBVIOUS
  <2>1. ChunkList(F[n], V) /\ Names(F[n]) = Upto(n)
    BY <1>1, <1>6
  <2>2. PICK a \in A : a = atoms[n + 1] /\ a.name \in V
    <3>1. n + 1 \in 1..Len(atoms)
      BY <1>1
    <3> QED
      BY <3>1, ElementOfSeq
  <2>3. F[n + 1] = Merge(path, F[n], a, max)
    BY <1>4, <2>2
  <2>4. /\ ChunkList(Merge(path, F[n], a, max), V)
        /\ Names(F[n]) \in Seq(V)
        /\ Names(Merge(path, F[n], a, max)) = Append(Names(F[n]), a.name)
    BY <2>1, <2>2, MergeNames
  <2>5. Append(Upto(n), a.name) = Upto(n + 1)
    <3>1. Upto(n) \in Seq(V) /\ Len(Upto(n)) = n
      BY <2>1, <2>4
    <3>2. /\ Append(Upto(n), a.name)[n + 1] = a.name
          /\ \A i \in 1..n : Append(Upto(n), a.name)[i] = Upto(n)[i]
          /\ Append(Upto(n), a.name) = [i \in 1..n + 1 |-> Append(Upto(n), a.name)[i]]
      BY <2>2, <3>1, AppendIs
    <3>3. ASSUME NEW i \in 1..n + 1
          PROVE  Append(Upto(n), a.name)[i] = atoms[i].name
      <4>1. i \in 1..n \/ i = n + 1
        OBVIOUS
      <4> QED
        BY <2>2, <3>2, <4>1
    <3> QED
      BY <3>2, <3>3
  <2> QED
    BY <2>1, <2>3, <2>4, <2>5
<1> HIDE DEF S
<1>7. \A n \in Nat : n \in S
  BY <1>5, <1>6, SetInduction
<1>8. Holds(Len(atoms))
  BY <1>1, <1>7 DEF S
<1> QED
  BY <1>3, <1>8 DEF AtomNames

Joined(s, t) == s \o t

LEMMA NamesConcat ==
  ASSUME NEW V, NEW s, ChunkList(s, V), NEW t, ChunkList(t, V)
  PROVE  ChunkList(Joined(s, t), V) /\ Names(Joined(s, t)) = Joined(Names(s), Names(t))
<1>1. PICK X : s \in Seq(X) /\ \A y \in X : y.name \in V /\ y.siblings \in Seq(V)
  BY DEF ChunkList
<1>2. PICK Y : t \in Seq(Y) /\ \A y \in Y : y.name \in V /\ y.siblings \in Seq(V)
  BY DEF ChunkList
<1>3. PICK Z : /\ s \in Seq(Z) /\ t \in Seq(Z)
               /\ \A y \in Z : y.name \in V /\ y.siblings \in Seq(V)
  <2> DEFINE Z == X \union Y
  <2>1. s \in Seq(Z) /\ t \in Seq(Z)
    BY <1>1, <1>2, SeqMonotonic
  <2>2. \A y \in Z : y.name \in V /\ y.siblings \in Seq(V)
    BY <1>1, <1>2
  <2> HIDE DEF Z
  <2> QED
    BY <2>1, <2>2
<1>4. PICK u : u = s \o t
  OBVIOUS
<1>5. /\ u \in Seq(Z) /\ Len(u) = Len(s) + Len(t)
      /\ \A i \in 1..Len(s) + Len(t) : u[i] = IF i <= Len(s) THEN s[i] ELSE t[i - Len(s)]
  BY <1>3, <1>4, ConcatProperties
<1>6. ChunkList(u, V)
  BY <1>3, <1>5 DEF ChunkList
<1>7. /\ Parts(s) \in Seq(Seq(V)) /\ Len(Parts(s)) = Len(s) /\ Names(s) = FlattenSeq(Parts(s))
      /\ Parts(t) \in Seq(Seq(V)) /\ Len(Parts(t)) = Len(t) /\ Names(t) = FlattenSeq(Parts(t))
      /\ Parts(u) \in Seq(Seq(V)) /\ Len(Parts(u)) = Len(u) /\ Names(u) = FlattenSeq(Parts(u))
  BY <1>6, PartsAre
<1>8. Parts(u) = Parts(s) \o Parts(t)
  <2>0. PICK P, p, q : /\ p = Parts(s) /\ q = Parts(t) /\ p \in Seq(P) /\ q \in Seq(P)
                       /\ Parts(u) \in Seq(P)
    BY <1>7
  <2>1. PICK w : /\ w = Parts(s) \o Parts(t) /\ w \in Seq(P) /\ Len(w) = Len(s) + Len(t)
                 /\ \A i \in 1..Len(s) + Len(t) :
                      w[i] = IF i <= Len(s) THEN Parts(s)[i] ELSE Parts(t)[i - Len(s)]
    <3>1. Len(p) = Len(s) /\ Len(q) = Len(t)
      BY <1>7, <2>0
    <3>2. /\ p \o q \in Seq(P) /\ Len(p \o q) = Len(p) + Len(q)
          /\ \A i \in 1..Len(p) + Len(q) :
               (p \o q)[i] = IF i <= Len(p) THEN p[i] ELSE q[i - Len(p)]
      BY <2>0, ConcatProperties
    <3>3. PICK w : w = p \o q
      OBVIOUS
    <3>4. /\ w \in Seq(P) /\ Len(w) = Len(s) + Len(t)
          /\ \A i \in 1..Len(s) + Len(t) : w[i] = IF i <= Len(s) THEN p[i] ELSE q[i - Len(s)]
      BY ONLY <3>1, <3>2, <3>3
    <3> QED
      BY ONLY <2>0, <3>3, <3>4
  <2>2. /\ Len(s) \in Nat /\ DOMAIN s = 1..Len(s) /\ Len(t) \in Nat /\ DOMAIN t = 1..Len(t)
        /\ DOMAIN u = 1..Len(u)
    BY <1>3, <1>5
  <2>3. ASSUME NEW i \in 1..Len(s) + Len(t) PROVE w[i] = Parts(u)[i]
    <3>1. Parts(u)[i] = Part(u[i])
      BY <1>5, <2>2 DEF Parts
    <3>2. CASE i <= Len(s)
      <4>1. i \in 1..Len(s)
        BY <2>2, <3>2
      <4> QED
        BY <1>5, <2>1, <2>2, <3>1, <3>2, <4>1 DEF Parts
    <3>3. CASE ~(i <= Len(s))
      <4>1. i - Len(s) \in 1..Len(t)
        BY <2>2, <3>3
      <4> QED
        BY <1>5, <2>1, <2>2, <3>1, <3>3, <4>1 DEF Parts
    <3> QED
      BY <3>2, <3>3
  <2>4. Len(w) = Len(Parts(u)) /\ \A i \in 1..Len(w) : w[i] = Parts(u)[i]
    BY <1>5, <1>7, <2>1, <2>3
  <2>5. w = Parts(u)
    BY <2>0, <2>1, <2>4, SeqEqual
  <2> QED
    BY <2>1, <2>5
<1>9. FlattenSeq(Parts(s) \o Parts(t)) = FlattenSeq(Parts(s)) \o FlattenSeq(Parts(t))
  BY <1>7, FlattenConcat
<1> QED
  BY <1>4, <1>6, <1>7, <1>8, <1>9 DEF Joined

LEMMA AtomNamesConcat ==
  ASSUME NEW A, NEW a \in Seq(A), NEW b \in Seq(A)
  PROVE  AtomNames(a \o b) = AtomNames(a) \o AtomNames(b)
<1>1. Len(a) \in Nat /\ Len(b) \in Nat
  OBVIOUS
<1>2. PICK u : /\ u = a \o b /\ Len(u) = Len(a) + Len(b)
               /\ \A i \in 1..Len(a) + Len(b) :
                    u[i] = IF i <= Len(a) THEN a[i] ELSE b[i - Len(a)]
  <2>1. /\ Len(a \o b) = Len(a) + Len(b)
        /\ \A i \in 1..Len(a) + Len(b) :
             (a \o b)[i] = IF i <= Len(a) THEN a[i] ELSE b[i - Len(a)]
    BY ConcatProperties
  <2> QED
    BY <2>1
<1>3. PICK N : AtomNames(a) \in Seq(N) /\ AtomNames(b) \in Seq(N) /\ AtomNames(u) \in Seq(N)
  <2> DEFINE N == {a[n].name : n \in 1..Len(a)} \union {b[n].name : n \in 1..Len(b)}
                    \union {u[n].name : n \in 1..Len(u)}
  <2>1. /\ AtomNames(a) \in [1..Len(a) -> N] /\ AtomNames(b) \in [1..Len(b) -> N]
        /\ AtomNames(u) \in [1..Len(u) -> N]
    BY DEF AtomNames
  <2>2. Len(u) \in Nat
    BY <1>1, <1>2
  <2> HIDE DEF N
  <2>3. /\ AtomNames(a) \in Seq(N) /\ AtomNames(b) \in Seq(N) /\ AtomNames(u) \in Seq(N)
    BY <1>1, <2>1, <2>2, ListIs
  <2> QED
    BY <2>3
<1>4. Len(AtomNames(a)) = Len(a) /\ Len(AtomNames(b)) = Len(b) /\ Len(AtomNames(u)) = Len(u)
  BY <1>1, <1>2 DEF AtomNames
<1>5. PICK w : /\ w = AtomNames(a) \o AtomNames(b) /\ w \in Seq(N) /\ Len(w) = Len(a) + Len(b)
               /\ \A i \in 1..Len(a) + Len(b) :
                    w[i] = IF i <= Len(a) THEN AtomNames(a)[i] ELSE AtomNames(b)[i - Len(a)]
  <2>1. PICK p, q : p = AtomNames(a) /\ q = AtomNames(b) /\ p \in Seq(N) /\ q \in Seq(N)
    BY <1>3
  <2>2. /\ p \o q \in Seq(N) /\ Len(p \o q) = Len(p) + Len(q)
        /\ \A i \in 1..Len(p) + Len(q) :
             (p \o q)[i] = IF i <= Len(p) THEN p[i] ELSE q[i - Len(p)]
    BY <2>1, ConcatProperties
  <2>3. PICK w : w = p \o q
    OBVIOUS
  <2>4. /\ w \in Seq(N) /\ Len(w) = Len(a) + Len(b)
        /\ \A i \in 1..Len(a) + Len(b) : w[i] = IF i <= Len(a) THEN p[i] ELSE q[i - Len(a)]
    BY ONLY <1>4, <2>1, <2>2, <2>3
  <2> QED
    BY ONLY <2>1, <2>3, <2>4
<1>6. ASSUME NEW i \in 1..Len(a) + Len(b) PROVE w[i] = AtomNames(u)[i]
  <2>1. AtomNames(u)[i] = u[i].name
    BY <1>2 DEF AtomNames
  <2>2. CASE i <= Len(a)
    <3>1. i \in 1..Len(a)
      BY <1>1, <2>2
    <3> QED
      BY <1>2, <1>5, <2>1, <2>2, <3>1 DEF AtomNames
  <2>3. CASE ~(i <= Len(a))
    <3>1. i - Len(a) \in 1..Len(b)
      BY <1>1, <2>3
    <3> QED
      BY <1>2, <1>5, <2>1, <2>3, <3>1 DEF AtomNames
  <2> QED
    BY <2>2, <2>3
<1>7. Len(w) = Len(AtomNames(u)) /\ \A i \in 1..Len(w) : w[i] = AtomNames(u)[i]
  BY <1>2, <1>4, <1>5, <1>6
<1>8. w = AtomNames(u)
  BY <1>3, <1>5, <1>7, SeqEqual
<1> QED
  BY <1>2, <1>5, <1>8

AtomsIn(c) == UNION {{AtomsOf(c, Tree[c][n])[i] : i \in 1..Len(AtomsOf(c, Tree[c][n]))} :
                       n \in DOMAIN Tree[c]}

LEMMA AtomsAre ==
  ASSUME NEW c \in Commits, NEW n \in DOMAIN Tree[c]
  PROVE  AtomsOf(c, Tree[c][n]) \in Seq(AtomsIn(c))
<1> DEFINE atoms == AtomsOf(c, Tree[c][n])
<1>1. \E k \in Nat : \E f : atoms = [i \in 1..k |-> f[i]]
  <2>1. CASE Tree[c][n] \in DOMAIN Source[c]
    <3> DEFINE src == Source[c][Tree[c][n]]
               F == InSourceOrder(src)
    <3>1. Len(src) \in Nat /\ DOMAIN src = 1..Len(src)
      BY <2>1, ListAssumption
    <3>2. F = [i \in 1..Len(src) |-> F[i]]
      BY <3>1 DEF InSourceOrder
    <3>3. atoms = F
      BY <2>1 DEF AtomsOf
    <3> HIDE DEF F, src, atoms
    <3> QED
      BY <3>1, <3>2, <3>3
  <2>2. CASE ~(Tree[c][n] \in DOMAIN Source[c])
    <3>1. atoms = [i \in 1..0 |-> <<>>[i]]
      BY <2>2 DEF AtomsOf
    <3> HIDE DEF atoms
    <3> QED
      BY <3>1
  <2> QED
    BY <2>1, <2>2
<1>2. PICK k, g : k \in Nat /\ atoms = [i \in 1..k |-> g[i]]
  BY <1>1
<1> HIDE DEF atoms
<1>3. Len(atoms) = k /\ DOMAIN atoms = 1..k
  BY <1>2
<1>4. \A i \in 1..k : atoms[i] \in AtomsIn(c)
  BY <1>3 DEF AtomsIn, atoms
<1>5. atoms \in [1..k -> AtomsIn(c)]
  BY <1>2, <1>4
<1>6. atoms \in Seq(AtomsIn(c))
  BY <1>2, <1>5, ListIs
<1> QED
  BY <1>6 DEF atoms

(* The chunks of a tree are made of its atoms' names. *)
LEMMA HeadNames ==
  ASSUME NEW c \in Commits
  PROVE  Names(HeadSymbols(c)) = [n \in DOMAIN TreeAtoms(c) |-> TreeAtoms(c)[n].name]
<1> DEFINE K == Len(Tree[c])
           A == AtomsIn(c)
           V == {a.name : a \in A}
           Atoms(n) == AtomsOf(c, Tree[c][n])
           atoms == [n \in 1..K |-> Atoms(n)]
           chunks == [n \in 1..K |-> ChunkSymbols(Tree[c][n], Atoms(n), ChunkMax)]
<1>1. K \in Nat /\ DOMAIN Tree[c] = 1..K
  BY ListAssumption
<1>2. HeadSymbols(c) = FlattenSeq(chunks) /\ TreeAtoms(c) = FlattenSeq(atoms)
  BY <1>1 DEF HeadSymbols, TreeAtoms
<1>3. ASSUME NEW n \in 1..K
      PROVE  /\ atoms[n] \in Seq(A)
             /\ ChunkList(chunks[n], V) /\ Names(chunks[n]) = AtomNames(atoms[n])
  <2>1. Atoms(n) \in Seq(A)
    BY <1>1, AtomsAre
  <2>2. \A a \in A : a.name \in V
    OBVIOUS
  <2>3. atoms[n] = Atoms(n) /\ chunks[n] = ChunkSymbols(Tree[c][n], Atoms(n), ChunkMax)
    OBVIOUS
  <2> HIDE DEF A, V, Atoms, atoms, chunks
  <2>4. /\ ChunkList(ChunkSymbols(Tree[c][n], Atoms(n), ChunkMax), V)
        /\ Names(ChunkSymbols(Tree[c][n], Atoms(n), ChunkMax)) = AtomNames(Atoms(n))
    <3>1. PICK v, s, as : /\ v = V /\ s = A /\ as = Atoms(n)
                          /\ as \in Seq(s) /\ \A a \in s : a.name \in v
      BY <2>1, <2>2
    <3>2. /\ ChunkList(ChunkSymbols(Tree[c][n], as, ChunkMax), v)
          /\ Names(ChunkSymbols(Tree[c][n], as, ChunkMax)) = AtomNames(as)
      <4>1. as \in Seq(s) /\ \A a \in s : a.name \in v
        BY <3>1
      <4> QED
        BY ONLY <4>1, ChunkSymbolsAre
    <3> QED
      BY <3>1, <3>2
  <2> QED
    BY <2>1, <2>3, <2>4
<1>4. Len(atoms) = K /\ Len(chunks) = K
  BY <1>1
<1> HIDE DEF K, A, V, Atoms, atoms, chunks
<1>5. CASE K = 0
  <2>1. atoms = <<>> /\ chunks = <<>>
    BY <1>5 DEF atoms, chunks
  <2>2. FlattenSeq(<<>>) = <<>>
    BY DEF FlattenSeq
  <2>3. Names(<<>>) = <<>>
    BY <2>2 DEF Names
  <2>4. [n \in DOMAIN <<>> |-> (<<>>)[n].name] = <<>>
    OBVIOUS
  <2> QED
    BY <1>2, <2>1, <2>2, <2>3, <2>4
<1>6. CASE K # 0
  <2>1. PICK f : Flattened(f, chunks, K) /\ FlattenSeq(chunks) = f[K]
    BY <1>1, <1>4, <1>6, FlattenIs
  <2>2. PICK g : Flattened(g, atoms, K) /\ FlattenSeq(atoms) = g[K]
    BY <1>1, <1>4, <1>6, FlattenIs
  <2> DEFINE Holds(n) == g[n] \in Seq(A) /\ ChunkList(f[n], V) /\ Names(f[n]) = AtomNames(g[n])
             S == {n \in Nat : n \in 1..K => Holds(n)}
  <2>3. 0 \in S
    OBVIOUS
  <2>4. ASSUME NEW n \in Nat, n \in S PROVE n + 1 \in S
    <3> SUFFICES ASSUME n + 1 \in 1..K PROVE Holds(n + 1)
      OBVIOUS
    <3>1. /\ f[n + 1] = IF n = 0 THEN chunks[n + 1] ELSE f[n] \o chunks[n + 1]
          /\ g[n + 1] = IF n = 0 THEN atoms[n + 1] ELSE g[n] \o atoms[n + 1]
      BY <1>1, <2>1, <2>2, FlattenedStep
    <3>2. CASE n = 0
      BY <1>3, <3>1, <3>2
    <3>3. CASE n # 0
      <4>1. n \in 1..K
        BY <1>1, <3>3
      <4>2. g[n] \in Seq(A) /\ ChunkList(f[n], V) /\ Names(f[n]) = AtomNames(g[n])
        BY <2>4, <4>1
      <4>3. PICK s, t, v : /\ s = f[n] /\ t = chunks[n + 1] /\ v = V
                           /\ ChunkList(s, v) /\ ChunkList(t, v)
                           /\ Names(t) = AtomNames(atoms[n + 1])
        BY <1>3, <4>2
      <4>4. ChunkList(Joined(s, t), v) /\ Names(Joined(s, t)) = Joined(Names(s), Names(t))
        <5>1. ChunkList(s, v) /\ ChunkList(t, v)
          BY <4>3
        <5> QED
          BY ONLY <5>1, NamesConcat
      <4>5. PICK a, b : a = g[n] /\ b = atoms[n + 1] /\ a \in Seq(A) /\ b \in Seq(A)
        BY <1>3, <4>2
      <4>6. a \o b \in Seq(A) /\ AtomNames(a \o b) = AtomNames(a) \o AtomNames(b)
        BY <4>5, ConcatProperties, AtomNamesConcat
      <4> QED
        BY <3>1, <3>3, <4>2, <4>3, <4>4, <4>5, <4>6 DEF Joined
    <3> QED
      BY <3>2, <3>3
  <2> HIDE DEF S
  <2>5. \A n \in Nat : n \in S
    BY <2>3, <2>4, SetInduction
  <2>6. Holds(K)
    <3>1. K \in 1..K
      BY <1>1, <1>6
    <3> QED
      BY <1>1, <2>5, <3>1 DEF S
  <2>7. DOMAIN g[K] = 1..Len(g[K])
    BY <2>6
  <2> QED
    BY <1>2, <2>1, <2>2, <2>6, <2>7 DEF AtomNames
<1> QED
  BY <1>5, <1>6

LEMMA SnapshotStep == Inv /\ OneSnapshot /\ [StagesNext]_vars => OneSnapshot'
<1> SUFFICES ASSUME Inv, OneSnapshot, [StagesNext]_vars PROVE OneSnapshot'
  OBVIOUS
<1>1. CASE UNCHANGED symbolTables
  BY <1>1 DEF OneSnapshot, symbolTables
<1>2. ASSUME NEW p \in Procs, StoreSymbols(p) PROVE OneSnapshot'
  <2>1. symbol' = HeadSymbols(head) /\ ftsSymbol' = HeadSymbols(head)
    BY <1>2 DEF StoreSymbols, PutSymbols
  <2>2. head \in Commits
    BY DEF Inv, TableInv
  <2> QED
    BY <2>1, <2>2, HeadNames DEF OneSnapshot
<1>3. UNCHANGED symbolTables \/ \E p \in Procs : StoreSymbols(p)
  BY DEF StagesNext, vars, tables, symbolTables, MoveHead, Begin, Skip, Take, Prepare, Embed,
         WriteBack, StoreCommit, StoreHunks, Fail, Finish, Stop, Read, Hydrate
<1> QED
  BY <1>1, <1>2, <1>3

LEMMA SnapshotAlways == Spec => []OneSnapshot
<1>1. StagesInit => OneSnapshot
  BY DEF StagesInit, TablesInit, OneSnapshot
<1> QED
  BY <1>1, SnapshotStep, InvAlways, PTL DEF Spec

----------------------------------------------------------------------------
(* The theorems. *)

(* The vector, full-text and symbol tables hold one entry for each hunk and
   commit there is, whatever was replaced. *)
THEOREM MirrorsAgreeHolds == Spec => []MirrorsAgree
<1>1. Inv => MirrorsAgree
  BY DEF Inv, TableInv
<1> QED
  BY <1>1, InvAlways, PTL

(* What is at or before the watermark is stored whole, or a fault struck it, or
   a process is between its two transactions. *)
THEOREM WatermarkCoversHolds == Spec => []WatermarkCovers
<1>1. ASSUME Inv PROVE WatermarkCovers
  <2> SUFFICES ASSUME NEW c \in 1..watermark, Stored(c)
               PROVE  c \in commits /\ Content(c) = WholeOf(c)
    BY <1>1 DEF WatermarkCovers, Inv, CoverInv, Covered
  <2>1. c \in Commits
    BY <1>1, StagesAssumption DEF Inv, TableInv
  <2>2. Content(c) = IF Ids(c) = {} THEN <<>> ELSE WholeOf(c)
    BY <1>1, <2>1, ContentIs DEF Inv, BlockInv
  <2>3. Len(Diff[c]) = 0 => WholeOf(c) = <<>>
    BY <2>1, ListAssumption DEF WholeOf
  <2> QED
    BY <2>2, <2>3 DEF Stored
<1> QED
  BY <1>1, InvAlways, PTL

(* Every stored vector was made from a text of its own hunk or commit, every
   cached one from the text and by the model it is stored under, whatever the
   duplicates in a batch, the cache's answers and the other process's writes. *)
THEOREM VectorsAreTheirsHolds == Spec => []VectorsAreTheirs
BY VectorsAlways, PTL

(* The table of HEAD's symbols is one commit's, whichever process wrote it
   last: each atom of its tree once, in order, as a chunk's own name or one of
   its siblings, however the chunks were cut. *)
THEOREM OneSnapshotHolds == Spec => []OneSnapshot
BY SnapshotAlways, PTL

(* A hit is shown with the symbols of its own hunk, or with none if its rowid is
   gone: a rowid that comes again comes back to the same hunk. *)
THEOREM HydratedSymbolsMatchHolds == Spec => []HydratedSymbolsMatch
<1>1. StagesInit => HydratedSymbolsMatch
  BY DEF StagesInit, HydratedSymbolsMatch
<1>2. ASSUME Inv, HydratedSymbolsMatch, [StagesNext]_vars
      PROVE  HydratedSymbolsMatch'
  <2>1. CASE shown' = shown
    BY <1>2, <2>1 DEF HydratedSymbolsMatch
  <2>2. CASE Hydrate
    <3>1. /\ reader # None /\ shown' = [row |-> reader.row, symbols |-> {s \in hunkSymbol : s.hunk = reader.id}]
      BY <2>2 DEF Hydrate, HunkSymbols
    <3>2. /\ reader.id \in DOMAIN hunk => hunk[reader.id] = reader.row
          /\ reader.row.sha \in Commits
      BY <1>2, <3>1 DEF Inv, ReaderInv
    <3>3. CASE reader.id \notin DOMAIN hunk
      <4>1. shown'.symbols = {}
        BY <1>2, <3>1, <3>3 DEF Inv, TableInv, MirrorsAgree
      <4> QED
        BY <4>1 DEF HydratedSymbolsMatch
    <3>4. CASE reader.id \in DOMAIN hunk
      <4>1. PICK c \in Commits, i \in DOMAIN hunk : c = reader.row.sha /\ i = reader.id
        BY <3>2, <3>4
      <4>2. hunk[i] = reader.row /\ i \in Ids(c)
        BY <3>2, <4>1 DEF Ids
      <4>3. PICK b \in Nat : BlockAt(c, b)
        BY <1>2, <4>2 DEF Inv, BlockInv
      <4>4. /\ Len(Diff[c]) \in Nat /\ DOMAIN Diff[c] = 1..Len(Diff[c])
            /\ Ids(c) = b + 1 .. b + Len(Diff[c])
        BY <4>3, ListAssumption DEF BlockAt
      <4>5. PICK n \in 1..Len(Diff[c]) : i = b + n
        <5>1. i - b \in 1..Len(Diff[c]) /\ i = b + (i - b)
          BY <4>2, <4>4
        <5> QED
          BY <5>1
      <4>6. hunk[i] = Row(Records(c)[n]) /\ SymbolNames(i) = NamesOf(c, n)
        BY <4>3, <4>4, <4>5 DEF BlockAt
      <4>7. {s.name : s \in shown'.symbols} = NamesOf(c, n)
        <5>1. shown'.symbols = {x \in hunkSymbol : x.hunk = i}
          BY <3>1, <4>1
        <5> QED
          BY <4>6, <5>1, SymbolNamesAre
      <4>8. shown'.row = reader.row
        BY <3>1
      <4> QED
        BY <4>1, <4>2, <4>4, <4>6, <4>7, <4>8 DEF HydratedSymbolsMatch, NamesOf
    <3> QED
      BY <3>3, <3>4
  <2> QED
    BY <1>2, <2>1, <2>2
    DEF StagesNext, vars, Begin, Skip, Take, Prepare, Embed, WriteBack, StoreCommit, StoreHunks,
        StoreSymbols, Finish, Fail, Stop, MoveHead, Read
<1> QED
  BY <1>1, <1>2, InvAlways, PTL DEF Spec

LEMMA ContentsAre ==
  BlockInv => \A c \in Commits : Content(c) = IF Ids(c) = {} THEN <<>> ELSE WholeOf(c)
BY ContentIs DEF BlockInv

LEMMA ContentsAreNext ==
  BlockInv' => (\A c \in Commits : Content(c) = IF Ids(c) = {} THEN <<>> ELSE WholeOf(c))'
BY ContentsAre, PTL

(* put_commit is HunkStore's Record, put_hunks its Store, and no other step is
   seen: a reader finds a commit's hunks whole or not at all. *)
LEMMA StoreStep == Inv /\ Inv' /\ [StagesNext]_vars => [Reading!Next]_(Reading!storeVars)
<1> SUFFICES ASSUME Inv, Inv', [StagesNext]_vars PROVE Reading!Next \/ UNCHANGED Reading!storeVars
  OBVIOUS
<1> DEFINE content == [c \in Commits |-> Content(c)]
<1>1. \A c \in Commits :
        /\ Content(c) = IF Ids(c) = {} THEN <<>> ELSE WholeOf(c)
        /\ Content(c)' = IF Ids(c)' = {} THEN <<>> ELSE WholeOf(c)
  BY ContentsAre, ContentsAreNext DEF Inv, WholeOf
<1>2. CASE hunk' = hunk /\ commits' = commits
  <2>1. \A c \in Commits : Ids(c)' = Ids(c)
    BY <1>2 DEF Ids
  <2>2. content' = content
    BY <1>1, <2>1
  <2> QED
    BY <1>2, <2>2 DEF Reading!storeVars
<1>3. ASSUME NEW p \in Procs, StoreCommit(p)
      PROVE  Reading!Next
  <2>1. PICK c \in Commits : c = Current(p)
    <3>1. proc[p].todo \in Seq(Commits) /\ proc[p].todo # <<>>
      BY <1>3 DEF StoreCommit, At, Working, Inv, ProcInv
    <3> QED
      BY <3>1 DEF Current
  <2>2. commits' = commits \union {c} /\ hunk' = hunk
    BY <1>3, <2>1 DEF StoreCommit, PutCommit, hunkTables
  <2>3. \A d \in Commits : Ids(d)' = Ids(d)
    BY <2>2 DEF Ids
  <2>4. content' = content
    BY <1>1, <2>3
  <2> QED
    BY <2>2, <2>4 DEF Reading!Next, Reading!Record
<1>4. ASSUME NEW p \in Procs, StoreHunks(p), hunk' # hunk
      PROVE  Reading!Next
  <2>1. PICK c \in Commits : c = Current(p)
    BY <1>4 DEF StoreHunks, Inv, ProcInv, TableInv
  <2>2. c \in commits /\ commits' = commits
    BY <1>4, <2>1 DEF StoreHunks, Inv, ProcInv, commitTables
  <2>3. Len(Diff[c]) # 0 /\ \E base \in Nat : Replaced(c, base)
    BY <1>4, <2>1, StoreHunksIs DEF hunkTables
  <2>4. PICK base \in Nat : Replaced(c, base)
    BY <2>3
  <2>5. Ids(c)' = base + 1 .. base + Len(Diff[c]) /\ \A d \in Commits \ {c} : Ids(d)' = Ids(d)
    BY <2>4, IdsAfter DEF Inv, Replaced
  <2>6. base + 1 \in Ids(c)'
    BY <2>3, <2>5, ListAssumption
  <2>7. Content(c)' = WholeOf(c) /\ \A d \in Commits \ {c} : Content(d)' = Content(d)
    BY <1>1, <2>5, <2>6
  <2>8. content' = [content EXCEPT ![c] = WholeOf(c)]
    BY <2>7
  <2>9. content' = [content EXCEPT ![c] = [d \in Commits |-> WholeOf(d)][c]]
    BY <2>8
  <2> QED
    BY <2>2, <2>9 DEF Reading!Next, Reading!Store
<1> QED
  BY <1>2, <1>3, <1>4, OtherSteps DEF StoreHunks, commitTables

(* put_hunks' delete and insert make each commit's hunks none or all of its
   diff, in order, whatever either process does: the tables implement HunkStore. *)
THEOREM ImplementsHunkStoreHolds == Spec => ImplementsHunkStore
<1>1. StagesInit => Reading!Init
  <2> SUFFICES ASSUME StagesInit PROVE Reading!Init
    OBVIOUS
  <2>1. commits = {} /\ \A c \in Commits : Ids(c) = {}
    BY DEF StagesInit, TablesInit, Empty, Ids
  <2>2. \A c \in Commits : Content(c) = <<>>
    BY <2>1, InvInit, ContentIs
  <2> QED
    BY <2>1, <2>2 DEF Reading!Init
<1> QED
  BY <1>1, InvAlways, StoreStep, PTL DEF Spec, ImplementsHunkStore, Reading!Spec

----------------------------------------------------------------------------
(* Extraction: what is captured. *)

All == Captures(grammar, nodes)

LEMMA CapturesAre ==
  ASSUME NEW g, NEW text \in Texts
  PROVE  /\ \A c \in Captures(g, text) : c.from \in Nat /\ c.to \in Nat
         /\ \A c, e \in Captures(g, text) : c.from = e.from =>
              /\ c.to = e.to
              /\ g = "kotlin" => c.kind = e.kind
<1>1. ASSUME NEW c \in Captures(g, text)
      PROVE  \E d \in text : /\ c.from = d.from /\ c.to = d.to /\ c.kind \in KindsOf(g, d)
                             /\ d.from \in Nat /\ d.to \in Nat
  <2>1. PICK d \in text :
          c \in {[kind |-> k, name |-> n, from |-> d.from, to |-> d.to] :
                 k \in KindsOf(g, d), n \in d.names}
    BY DEF Captures
  <2>2. PICK k \in KindsOf(g, d), n \in d.names :
          c = [kind |-> k, name |-> n, from |-> d.from, to |-> d.to]
    BY <2>1
  <2> QED
    BY <2>2, TextAssumption
<1>2. ASSUME NEW c \in Captures(g, text), NEW e \in Captures(g, text), c.from = e.from
      PROVE  c.to = e.to /\ (g = "kotlin" => c.kind = e.kind)
  <2>1. PICK d \in text : c.from = d.from /\ c.to = d.to /\ c.kind \in KindsOf(g, d)
    BY <1>1
  <2>2. PICK b \in text : e.from = b.from /\ e.to = b.to /\ e.kind \in KindsOf(g, b)
    BY <1>1
  <2>3. d = b
    BY <1>2, <2>1, <2>2, TextAssumption
  <2>4. ASSUME g = "kotlin" PROVE c.kind = e.kind
    <3>1. c.kind \in KotlinKinds(d) /\ e.kind \in KotlinKinds(d)
      BY <2>1, <2>2, <2>3, <2>4 DEF KindsOf
    <3> QED
      BY <3>1 DEF KotlinKinds
  <2> QED
    BY <2>1, <2>2, <2>3, <2>4
<1> QED
  BY <1>1, <1>2

(* t is the symbol that c has come to. *)
Stands(t, c) == SameSpan(t, c) /\ (t.kind = "Function" => c.kind = "Function")
StandsIn(t, c) == IF grammar \in Deduping THEN Stands(t, c) ELSE t = c

OnceEach(S) == \A s, t \in S : SameSpan(s, t) => s = t

(* Nothing that is captured is missing from s, and nothing there twice that the map
   would have seen. *)
Kept(s) ==
  /\ \A c \in All : \E n \in DOMAIN s : StandsIn(s[n], c)
  /\ grammar \in Deduping => \A m, n \in DOMAIN s : SameSpan(s[m], s[n]) => m = n

ExtractionTypes ==
  /\ nodes \in Texts
  /\ captures \subseteq All /\ pushed \in Seq(All)
  /\ bySpan \subseteq All /\ IsFiniteSet(bySpan) /\ OnceEach(bySpan)

(* A capture is still to come, or pushed, or has its symbol in the map. *)
ExtractionInv ==
  /\ ExtractionTypes
  /\ extracting = "match" => \A c \in All \ captures : \E n \in DOMAIN pushed : pushed[n] = c
  /\ extracting = "dedupe" =>
       /\ grammar \in Deduping
       /\ \A c \in All : \/ \E n \in DOMAIN pushed : pushed[n] = c
                         \/ \E t \in bySpan : Stands(t, c)
  /\ extracting = "sort" => Kept(pushed)
  /\ EachByItsBestKind

LEMMA ExtractionInitially == ExtractionInit => ExtractionInv
<1> SUFFICES ASSUME ExtractionInit PROVE ExtractionInv
  OBVIOUS
<1>1. IsFiniteSet({})
  BY FS_EmptySet
<1> QED
  BY <1>1 DEF ExtractionInit, ExtractionInv, ExtractionTypes, OnceEach, All, EachByItsBestKind

----------------------------------------------------------------------------
(* Extraction: one symbol after another. *)

LEMMA MatchKeeps == ASSUME ExtractionInv, NextMatch PROVE ExtractionInv'
<1>1. PICK c \in captures : captures' = captures \ {c} /\ pushed' = Append(pushed, c)
  BY DEF NextMatch
<1>2. /\ All' = All /\ extracting = "match" /\ extracting' = "match" /\ UNCHANGED <<nodes, bySpan>>
      /\ c \in All /\ pushed \in Seq(All)
  BY <1>1 DEF NextMatch, ExtractionInv, ExtractionTypes, All
<1>3. PICK k \in Nat : Len(pushed) = k /\ DOMAIN pushed = 1..k
  BY <1>2
<1> HIDE DEF All
<1>4. /\ pushed' \in Seq(All) /\ DOMAIN pushed' = 1..k + 1 /\ pushed'[k + 1] = c
      /\ \A n \in 1..k : pushed'[n] = pushed[n]
  BY <1>1, <1>2, <1>3
<1>5. ExtractionTypes'
  BY <1>1, <1>2, <1>4 DEF ExtractionInv, ExtractionTypes, OnceEach
<1>6. ASSUME NEW e \in All \ captures' PROVE \E n \in DOMAIN pushed' : pushed'[n] = e
  <2>1. CASE e = c
    BY <1>3, <1>4, <2>1
  <2>2. CASE e # c
    <3>1. PICK n \in 1..k : pushed[n] = e
      BY <1>1, <1>2, <1>3, <1>6, <2>2 DEF ExtractionInv
    <3> QED
      BY <1>3, <1>4, <3>1
  <2> QED
    BY <2>1, <2>2
<1> QED
  BY <1>2, <1>5, <1>6 DEF ExtractionInv, EachByItsBestKind

LEMMA MatchesEndKeeps == ASSUME ExtractionInv, MatchesEnd PROVE ExtractionInv'
<1>1. /\ All' = All /\ captures = {} /\ extracting = "match"
      /\ UNCHANGED <<grammar, nodes, captures, pushed, bySpan>>
      /\ extracting' = IF grammar \in Deduping THEN "dedupe" ELSE "sort"
  BY DEF MatchesEnd, All
<1> HIDE DEF All
<1>2. ExtractionTypes'
  BY <1>1 DEF ExtractionInv, ExtractionTypes, OnceEach
<1>3. \A c \in All : \E n \in DOMAIN pushed : pushed[n] = c
  BY <1>1 DEF ExtractionInv
<1>4. extracting' = "sort" => Kept(pushed)'
  BY <1>1, <1>3 DEF Kept, StandsIn
<1> QED
  BY <1>1, <1>2, <1>3, <1>4 DEF ExtractionInv, EachByItsBestKind

LEMMA InsertKeeps == ASSUME ExtractionInv, Insert PROVE ExtractionInv'
<1>1. /\ All' = All /\ extracting = "dedupe" /\ extracting' = "dedupe" /\ pushed # <<>>
      /\ UNCHANGED <<grammar, nodes, captures>> /\ pushed' = Tail(pushed)
  BY DEF Insert, All
<1>2. /\ pushed \in Seq(All) /\ bySpan \subseteq All /\ IsFiniteSet(bySpan) /\ OnceEach(bySpan)
      /\ grammar \in Deduping /\ nodes \in Texts
  BY <1>1 DEF ExtractionInv, ExtractionTypes
<1>3. PICK s \in All : s = Head(pushed)
  BY <1>1, <1>2
<1>4. PICK there : there = {t \in bySpan : SameSpan(s, t)}
  OBVIOUS
<1>5. bySpan' = IF \A t \in there : Replaces(s, t) THEN (bySpan \ there) \union {s} ELSE bySpan
  BY <1>3, <1>4 DEF Insert
<1>6. \A c, e \in All : /\ c.from \in Nat /\ c.to \in Nat
                        /\ c.from = e.from => c.to = e.to /\ (grammar = "kotlin" => c.kind = e.kind)
  BY <1>2, CapturesAre DEF All
<1> HIDE DEF All
<1>7. PICK k \in Nat : Len(pushed) = k + 1 /\ DOMAIN pushed = 1..k + 1
  <2>1. Len(pushed) \in Nat \ {0} /\ DOMAIN pushed = 1..Len(pushed)
    BY <1>1, <1>2
  <2>2. Len(pushed) - 1 \in Nat /\ (Len(pushed) - 1) + 1 = Len(pushed)
    BY <2>1
  <2> QED
    BY <2>1, <2>2
<1>8. /\ pushed' \in Seq(All) /\ DOMAIN pushed' = 1..k
      /\ \A n \in 1..k : pushed'[n] = pushed[n + 1]
  BY <1>1, <1>2, <1>7
<1>9. pushed[1] = s
  BY <1>1, <1>2, <1>3
<1>10. bySpan' \subseteq All /\ IsFiniteSet(bySpan') /\ OnceEach(bySpan')
  <2>1. CASE \A t \in there : Replaces(s, t)
    <3>1. bySpan' = (bySpan \ there) \union {s}
      BY <1>5, <2>1
    <3>2. IsFiniteSet(bySpan')
      BY <1>2, <3>1, FS_Subset, FS_AddElement
    <3>3. OnceEach(bySpan')
      BY <1>2, <1>4, <3>1 DEF OnceEach, SameSpan
    <3> QED
      BY <1>2, <3>1, <3>2, <3>3
  <2>2. CASE ~ \A t \in there : Replaces(s, t)
    BY <1>2, <1>5, <2>2
  <2> QED
    BY <2>1, <2>2
<1>11. ASSUME NEW c \in All
       PROVE  (\E n \in DOMAIN pushed' : pushed'[n] = c) \/ (\E t \in bySpan' : Stands(t, c))
  <2>1. CASE \E n \in DOMAIN pushed : pushed[n] = c /\ n # 1
    <3>1. PICK n \in 1..k : pushed[n + 1] = c
      <4>1. PICK m \in 1..k + 1 : pushed[m] = c /\ m # 1
        BY <1>7, <2>1
      <4>2. m - 1 \in 1..k /\ (m - 1) + 1 = m
        BY <4>1
      <4> QED
        BY <4>1, <4>2
    <3> QED
      BY <1>8, <3>1
  <2>2. CASE c = s
    <3>1. CASE \A t \in there : Replaces(s, t)
      BY <1>5, <2>2, <3>1 DEF Stands, SameSpan
    <3>2. CASE ~ \A t \in there : Replaces(s, t)
      <4>1. PICK t \in there : ~ Replaces(s, t)
        BY <3>2
      <4>2. t \in bySpan /\ t \in bySpan' /\ SameSpan(t, s) /\ t \in All
        BY <1>2, <1>4, <1>5, <3>2, <4>1 DEF SameSpan
      <4>3. grammar = "kotlin" => t.kind = s.kind
        BY <1>6, <4>2 DEF SameSpan
      <4>4. t.kind = "Function" => s.kind = "Function"
        BY <4>1, <4>3 DEF Replaces
      <4> QED
        BY <2>2, <4>2, <4>4 DEF Stands
    <3> QED
      BY <3>1, <3>2
  <2>3. CASE \E t \in bySpan : Stands(t, c)
    <3>1. PICK t \in bySpan : Stands(t, c)
      BY <2>3
    <3>2. CASE t \in bySpan'
      BY <3>1, <3>2
    <3>3. CASE t \notin bySpan'
      <4>1. t \in there /\ Replaces(s, t) /\ s \in bySpan'
        BY <1>5, <3>1, <3>3
      <4>2. SameSpan(s, c) /\ c.kind = "Function"
        BY <1>4, <3>1, <4>1 DEF Replaces, Stands, SameSpan
      <4> QED
        BY <4>1, <4>2 DEF Stands
    <3> QED
      BY <3>2, <3>3
  <2>4. (\E n \in DOMAIN pushed : pushed[n] = c) \/ (\E t \in bySpan : Stands(t, c))
    BY <1>1 DEF ExtractionInv
  <2> QED
    BY <1>9, <2>1, <2>2, <2>3, <2>4
<1>12. ExtractionTypes'
  BY <1>1, <1>8, <1>10 DEF ExtractionInv, ExtractionTypes
<1> QED
  BY <1>1, <1>2, <1>11, <1>12 DEF ExtractionInv, EachByItsBestKind

LEMMA ValuesKeep == ASSUME ExtractionInv, IntoValues PROVE ExtractionInv'
<1>1. /\ All' = All /\ extracting = "dedupe" /\ extracting' = "sort" /\ pushed = <<>>
      /\ UNCHANGED <<grammar, nodes, captures, bySpan>> /\ pushed' \in Orders(bySpan)
  BY DEF IntoValues, All
<1>2. /\ bySpan \subseteq All /\ IsFiniteSet(bySpan) /\ OnceEach(bySpan) /\ grammar \in Deduping
      /\ \A c \in All : \E t \in bySpan : Stands(t, c)
  BY <1>1 DEF ExtractionInv, ExtractionTypes
<1> HIDE DEF All
<1>3. PICK k \in Nat : k = Cardinality(bySpan)
  BY <1>2, FS_CardinalityType
<1>4. /\ pushed' \in [1..k -> bySpan] /\ DOMAIN pushed' = 1..k
      /\ \A m, n \in 1..k : pushed'[m] = pushed'[n] => m = n
  BY <1>1, <1>3 DEF Orders
<1>5. pushed' \in Seq(All)
  <2>1. pushed' \in [1..k -> All]
    BY <1>2, <1>4
  <2> QED
    BY <2>1, ListIs
<1>6. \A t \in bySpan : \E n \in 1..k : pushed'[n] = t
  <2>1. IsFiniteSet(1..k) /\ Cardinality(1..k) = k
    BY FS_Interval
  <2>2. pushed' \in Injection(1..k, bySpan)
    BY <1>4 DEF Injection, IsInjective
  <2> QED
    BY <1>2, <1>3, <2>1, <2>2, FS_Injection DEF Surjection
<1>7. Kept(pushed)'
  <2>1. \A c \in All : \E n \in 1..k : Stands(pushed'[n], c)
    BY <1>2, <1>6
  <2>2. ASSUME NEW m \in 1..k, NEW n \in 1..k, SameSpan(pushed'[m], pushed'[n]) PROVE m = n
    BY <1>2, <1>4, <2>2 DEF OnceEach
  <2> QED
    BY <1>1, <1>2, <1>4, <2>1, <2>2 DEF Kept, StandsIn, Stands, SameSpan
<1> QED
  BY <1>1, <1>5, <1>7 DEF ExtractionInv, ExtractionTypes, EachByItsBestKind

----------------------------------------------------------------------------
(* Extraction: in the order of the file. *)

LEMMA StartsBeforeIs ==
  ASSUME NEW s, NEW k \in Nat, DOMAIN s = 1..k, \A n \in 1..k : s[n].from \in Nat
  PROVE  /\ IsOrder(StartsBefore(s), 1..k)
         /\ \A m, n \in 1..k : s[m].from < s[n].from => <<m, n>> \in StartsBefore(s)
<1>1. \A m, n \in 1..k : <<m, n>> \in StartsBefore(s) <=>
        s[m].from < s[n].from \/ (s[m].from = s[n].from /\ m < n)
  BY DEF StartsBefore
<1>2. \A m \in 1..k : <<m, m>> \notin StartsBefore(s)
  BY <1>1
<1>3. ASSUME NEW l \in 1..k, NEW m \in 1..k, NEW n \in 1..k,
             <<l, m>> \in StartsBefore(s), <<m, n>> \in StartsBefore(s)
      PROVE  <<l, n>> \in StartsBefore(s)
  <2>1. PICK x, y, z : x = s[l].from /\ y = s[m].from /\ z = s[n].from
    OBVIOUS
  <2>2. x \in Nat /\ y \in Nat /\ z \in Nat
    BY <2>1
  <2>3. (x < y \/ (x = y /\ l < m)) /\ (y < z \/ (y = z /\ m < n))
    BY <1>1, <1>3, <2>1
  <2>4. x < z \/ (x = z /\ l < n)
    BY <2>2, <2>3
  <2> QED
    BY <1>1, <2>1, <2>4
<1>4. ASSUME NEW m \in 1..k, NEW n \in 1..k
      PROVE  m = n \/ <<m, n>> \in StartsBefore(s) \/ <<n, m>> \in StartsBefore(s)
  <2>1. PICK x, y : x = s[m].from /\ y = s[n].from
    OBVIOUS
  <2>2. x \in Nat /\ y \in Nat /\ m \in Nat /\ n \in Nat
    BY <2>1
  <2>3. x < y \/ y < x \/ (x = y /\ (m < n \/ n < m \/ m = n))
    BY <2>2
  <2> QED
    BY <1>1, <2>1, <2>3
<1> QED
  BY <1>1, <1>2, <1>3, <1>4 DEF IsOrder

(* Sorting: the symbols are where they were listed, and start no earlier than those
   before them. *)
LEMMA SortedByStartIs ==
  ASSUME NEW s, NEW k \in Nat, DOMAIN s = 1..k, \A n \in 1..k : s[n].from \in Nat
  PROVE  /\ DOMAIN SortedByStart(s) = 1..k
         /\ \E f \in [1..k -> 1..k] :
              /\ \A n \in 1..k : SortedByStart(s)[n] = s[f[n]]
              /\ \A n \in 1..k : \E m \in 1..k : f[m] = n
              /\ \A m, n \in 1..k : m < n => f[m] # f[n] /\ s[f[m]].from <= s[f[n]].from
<1>1. PICK order : order = StartsBefore(s)
  OBVIOUS
<1>2. IsOrder(order, 1..k) /\ \A m, n \in 1..k : s[m].from < s[n].from => <<m, n>> \in order
  BY <1>1, StartsBeforeIs
<1>3. IsFiniteSet(1..k) /\ Cardinality(1..k) = k
  <2>1. k \in Int /\ k - 1 + 1 = k /\ (1 > k => k = 0)
    OBVIOUS
  <2>2. IsFiniteSet(1..k) /\ Cardinality(1..k) = IF 1 > k THEN 0 ELSE k - 1 + 1
    BY <2>1, FS_Interval
  <2> QED
    BY <2>1, <2>2
<1>4. PICK f : f = Listed(1..k, order)
  OBVIOUS
<1>5. DOMAIN f = 1..k /\ \A n \in 1..k : f[n] \in 1..k /\ Rank(f[n], 1..k, order) = n - 1
  BY <1>2, <1>3, <1>4, ListedAt
<1>6. f \in [1..k -> 1..k]
  BY <1>4, <1>3, <1>5 DEF Listed
<1>7. \A n \in 1..k : \E m \in 1..k : f[m] = n
  <2>1. IsListing(f, 1..k, order)
    BY <1>2, <1>3, <1>4, ListedIs
  <2>2. ToSet(f) = 1..k
    BY <2>1 DEF IsListing
  <2> QED
    BY <1>5, <2>2 DEF ToSet
<1>8. ASSUME NEW m \in 1..k, NEW n \in 1..k, m < n
      PROVE  f[m] # f[n] /\ s[f[m]].from <= s[f[n]].from
  <2>1. PICK a \in 1..k, b \in 1..k : a = f[m] /\ b = f[n]
    BY <1>5
  <2>2. Rank(a, 1..k, order) = m - 1 /\ Rank(b, 1..k, order) = n - 1
    BY <1>5, <2>1
  <2>3. ~ <<b, a>> \in order
    <3>1. SUFFICES ASSUME <<b, a>> \in order PROVE FALSE
      OBVIOUS
    <3>2. Rank(b, 1..k, order) + 1 <= Rank(a, 1..k, order)
      BY <1>2, <1>3, <3>1, RankGrows
    <3> QED
      BY <1>8, <2>2, <3>2
  <2>4. ~ s[b].from < s[a].from
    BY <1>2, <2>3
  <2>5. s[a].from \in Nat /\ s[b].from \in Nat
    OBVIOUS
  <2> QED
    BY <1>8, <2>1, <2>2, <2>4, <2>5
<1>9. PICK t : t = SortedByStart(s)
  OBVIOUS
<1>10. t = [n \in 1..k |-> s[f[n]]]
  BY <1>1, <1>4, <1>9 DEF SortedByStart
<1>11. DOMAIN t = 1..k /\ \A n \in 1..k : t[n] = s[f[n]]
  BY <1>10
<1> QED
  BY <1>6, <1>7, <1>8, <1>9, <1>11

LEMMA SortKeeps == ASSUME ExtractionInv, SortAtoms PROVE ExtractionInv'
<1>1. /\ All' = All /\ extracting' = "done" /\ extracted' = SortedByStart(pushed)
      /\ UNCHANGED <<grammar, nodes, captures, pushed, bySpan>>
  BY DEF SortAtoms, All
<1>2. pushed \in Seq(All) /\ Kept(pushed) /\ nodes \in Texts
  BY DEF SortAtoms, ExtractionInv, ExtractionTypes
<1>3. \A c, e \in All : c.from \in Nat /\ (c.from = e.from => c.to = e.to)
  BY <1>2, CapturesAre DEF All
<1> HIDE DEF All
<1>4. PICK k \in Nat : DOMAIN pushed = 1..k /\ \A n \in 1..k : pushed[n] \in All
  <2>1. Len(pushed) \in Nat /\ DOMAIN pushed = 1..Len(pushed)
    BY <1>2
  <2>2. \A n \in 1..Len(pushed) : pushed[n] \in All
    BY <1>2
  <2> QED
    BY <2>1, <2>2
<1>5. \A n \in 1..k : pushed[n].from \in Nat
  BY <1>3, <1>4
<1>6. PICK t : t = SortedByStart(pushed)
  OBVIOUS
<1>7. PICK f \in [1..k -> 1..k] :
        /\ \A n \in 1..k : t[n] = pushed[f[n]]
        /\ \A n \in 1..k : \E m \in 1..k : f[m] = n
        /\ \A m, n \in 1..k : m < n => f[m] # f[n] /\ pushed[f[m]].from <= pushed[f[n]].from
  <2> DEFINE Sorts(f) ==
        /\ \A n \in 1..k : SortedByStart(pushed)[n] = pushed[f[n]]
        /\ \A n \in 1..k : \E m \in 1..k : f[m] = n
        /\ \A m, n \in 1..k : m < n => f[m] # f[n] /\ pushed[f[m]].from <= pushed[f[n]].from
  <2>1. \E f \in [1..k -> 1..k] : Sorts(f)
    BY <1>4, <1>5, SortedByStartIs
  <2> QED
    BY <1>6, <2>1
<1>8. DOMAIN t = 1..k
  BY <1>4, <1>5, <1>6, SortedByStartIs
<1>9. \A n \in 1..k : f[n] \in 1..k /\ t[n] \in All
  BY <1>4, <1>7
<1>10. ASSUME NEW c \in All PROVE \E n \in 1..k : StandsIn(t[n], c)
  <2>1. PICK m \in 1..k : StandsIn(pushed[m], c)
    BY <1>2, <1>4 DEF Kept
  <2>2. PICK n \in 1..k : f[n] = m
    BY <1>7
  <2>3. t[n] = pushed[m]
    BY <1>7, <2>2
  <2> QED
    BY <2>1, <2>3
<1>11. ASSUME NEW m \in 1..k, NEW n \in 1..k, m < n
       PROVE  t[m].from <= t[n].from /\ (grammar \in Deduping => t[m].from # t[n].from)
  <2>1. f[m] # f[n] /\ pushed[f[m]].from <= pushed[f[n]].from
    BY <1>7, <1>11
  <2>2. t[m] = pushed[f[m]] /\ t[n] = pushed[f[n]]
    BY <1>7
  <2>3. ASSUME grammar \in Deduping, t[m].from = t[n].from PROVE FALSE
    <3>1. t[m].to = t[n].to
      BY <1>3, <1>9, <2>3
    <3>2. SameSpan(pushed[f[m]], pushed[f[n]])
      BY <2>2, <2>3, <3>1 DEF SameSpan
    <3> QED
      BY <1>2, <1>4, <1>9, <2>1, <2>3, <3>2 DEF Kept
  <2> QED
    BY <2>1, <2>2, <2>3
<1>12. EachByItsBestKind'
  <2>1. extracted' = t /\ Captures(grammar', nodes') = All
    BY <1>1, <1>6 DEF All
  <2>2. \A c \in All : \E n \in 1..k :
          IF grammar \in Deduping
          THEN SameSpan(t[n], c) /\ (t[n].kind = "Function" => c.kind = "Function")
          ELSE t[n] = c
    BY <1>10 DEF StandsIn, Stands
  <2> DEFINE Right(a, e, g) ==
        /\ \A n \in DOMAIN e : e[n] \in a
        /\ \A c \in a : \E n \in DOMAIN e :
             IF g \in Deduping
             THEN SameSpan(e[n], c) /\ (e[n].kind = "Function" => c.kind = "Function")
             ELSE e[n] = c
        /\ \A m, n \in DOMAIN e : m < n =>
             e[m].from <= e[n].from /\ (g \in Deduping => e[m].from # e[n].from)
  <2>3. Right(All, t, grammar)
    BY <1>8, <1>9, <1>11, <2>2
  <2>4. Right(Captures(grammar', nodes'), extracted', grammar')
    BY <1>1, <2>1, <2>3
  <2> QED
    BY <2>4 DEF EachByItsBestKind, SameSpan
<1>13. ExtractionTypes'
  BY <1>1 DEF ExtractionInv, ExtractionTypes, OnceEach
<1> QED
  BY <1>1, <1>12, <1>13 DEF ExtractionInv

LEMMA ExtractionSteps == ExtractionInv /\ [ExtractionNext]_extractionVars => ExtractionInv'
<1> SUFFICES ASSUME ExtractionInv, [ExtractionNext]_extractionVars PROVE ExtractionInv'
  OBVIOUS
<1>1. CASE NextMatch
  BY <1>1, MatchKeeps
<1>2. CASE Unparsed
  <2>1. All' = All /\ extracting' = "failed" /\ UNCHANGED <<nodes, captures, pushed, bySpan>>
    BY <1>2 DEF Unparsed, All
  <2> QED
    BY <2>1 DEF ExtractionInv, ExtractionTypes, OnceEach, EachByItsBestKind
<1>3. CASE MatchesEnd
  BY <1>3, MatchesEndKeeps
<1>4. CASE Insert
  BY <1>4, InsertKeeps
<1>5. CASE IntoValues
  BY <1>5, ValuesKeep
<1>6. CASE SortAtoms
  BY <1>6, SortKeeps
<1>7. CASE UNCHANGED extractionVars
  BY <1>7 DEF extractionVars, ExtractionInv, ExtractionTypes, OnceEach, All, Kept, StandsIn, Stands, SameSpan,
         EachByItsBestKind
<1> QED
  BY <1>1, <1>2, <1>3, <1>4, <1>5, <1>6, <1>7 DEF ExtractionNext

(* A text's symbols are the same in whatever order its declarations match: none is
   missing, each has one, of the best kind, in the order of the file (extract of
   python.rs, extract_atomic_symbols). *)
THEOREM ExtractionHolds == ExtractionSpec => []EachByItsBestKind
<1>1. ExtractionInit => ExtractionInv
  BY ExtractionInitially
<1>2. ExtractionInv /\ [ExtractionNext]_extractionVars => ExtractionInv'
  BY ExtractionSteps
<1>3. ExtractionInv => EachByItsBestKind
  BY DEF ExtractionInv
<1> QED
  BY <1>1, <1>2, <1>3, PTL DEF ExtractionSpec

=============================================================================
