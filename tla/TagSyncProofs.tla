--------------------------- MODULE TagSyncProofs ---------------------------
(***************************************************************************)
(* Proofs about TagSync for any tags and synonyms, any page and chunk      *)
(* sizes, and any number of runs.                                          *)
(*                                                                         *)
(* Whatever keeps its date comes closer to the front of a listing only     *)
(* when another item leaves or falls, and if that takes it past a run it   *)
(* is noted.  So all the rest is on a page that a run has fetched or has   *)
(* still to fetch (TagsFetched, SynonymsFetched), however often the        *)
(* listing changes between two pages.  The date of the last sync only      *)
(* grows, and only when a chunk of tags is inserted.  So what lies before  *)
(* it and is missing is in some run's hands, or that run's end or that     *)
(* chunk has recorded it (TagsCovered, SynonymsCovered).                   *)
(***************************************************************************)
EXTENDS TagSync, FiniteSetTheorems, NaturalsInduction, SequenceTheorems,
        WellFoundedInduction, TLAPS

(***************************************************************************)
(* The inductive invariant.                                                *)
(***************************************************************************)

\* Stack Overflow's listings are sorted, name nothing twice, know no future,
\* and rank every tag.
ListingsOK ==
  /\ \A i, j \in DOMAIN recent : i < j => recent[i].at >= recent[j].at
  /\ \A i, j \in DOMAIN aliases : i < j => aliases[i].at >= aliases[j].at
  /\ \A i, j \in DOMAIN recent : recent[i].tag = recent[j].tag => i = j
  /\ \A i, j \in DOMAIN aliases : aliases[i].from = aliases[j].from => i = j
  /\ \A i \in DOMAIN recent : recent[i].at <= now
  /\ \A i \in DOMAIN aliases : aliases[i].at <= now
  /\ \A i \in DOMAIN recent : \E j \in DOMAIN popular : popular[j] = recent[i].tag

\* No row is younger than now.
DatesOK == \A t \in Tag : tags[t] <= now

\* A readable file has what its run began to fetch, what did not change since
\* and did not slip past that run.
FilesOK ==
  /\ tagsFile # NoFile => tagsFile.begun # Never
  /\ synonymsFile # NoFile => synonymsFile.begun # Never
  /\ tagsFile.begun <= now /\ synonymsFile.begun <= now
  /\ \A e \in Range(recent) :
       e.at < tagsFile.begun /\ e.tag \notin tagsFile.passed =>
         e.tag \in Range(tagsFile.rows)
  /\ \A e \in Range(aliases) :
       e.at < synonymsFile.begun /\ e.from \notin synonymsFile.passed =>
         e \in Range(synonymsFile.rows)

\* Which locals run r has set, by where it is.
Shape(r) ==
  /\ pc[r] \in {"fetchTags", "fetchSynonyms"} => job[r].mode # "file"
  /\ pc[r] \in {"saveTags", "saveSynonyms"} => job[r].mode = "full"
  /\ pc[r] \in {"readTags", "readSynonyms"} => job[r].mode = "file"
  /\ pc[r] = "date" => job[r].mode = "incremental"
  /\ pc[r] = "idle" => job[r] = NewJob
  /\ job[r].mode # "incremental" => job[r].since = 0
  /\ pc[r] \notin {"fetchTags", "fetchSynonyms"} => job[r].page = 1
  /\ pc[r] \in {"date", "readTags"} => job[r].tagsBegun = 0
  /\ pc[r] \in {"date", "fetchTags", "saveTags", "readTags", "readSynonyms"}
       => job[r].synonyms = <<>> /\ job[r].synonymsBegun = 0
  /\ pc[r] = "upsertTags" /\ job[r].mode = "incremental"
       => job[r].synonyms = <<>> /\ job[r].synonymsBegun = 0
  /\ pc[r] = "fetchSynonyms" /\ job[r].page = 1 => job[r].synonyms = <<>>
  /\ pc[r] \in {"resolve", "upsertSynonyms"} => job[r].tags = <<>>
  /\ pc[r] = "fetchSynonyms" /\ job[r].mode = "incremental"
       => job[r].tags = <<>>

\* Run r began to fetch in the past, and an incremental run does not ask for
\* less than what changed since the newest row.
Asks(r) ==
  /\ job[r].tagsBegun <= now
  /\ job[r].synonymsBegun <= now
  /\ job[r].mode = "incremental" /\ pc[r] \notin {"idle", "date"}
       => job[r].since <= LastSyncDate

\* What a listing has on the pages that run r has still to fetch.
TagAhead(r, e) ==
  IF job[r].mode = "incremental"
  THEN \E i \in DOMAIN recent : i > (job[r].page - 1) * PageSize /\ recent[i] = e
  ELSE \E i \in DOMAIN popular :
         i > (job[r].page - 1) * PageSize /\ popular[i] = e.tag

SynonymAhead(r, e) ==
  \E i \in DOMAIN aliases : i > (job[r].page - 1) * PageSize /\ aliases[i] = e

\* A tag that run r asks for, that did not change since it began to fetch and
\* did not slip past it, is with the run, on a later page, or in the table.
TagsFetched(r) ==
  \A e \in Range(recent) :
    /\ job[r].since <= e.at /\ e.at < job[r].tagsBegun
    /\ e.tag \notin job[r].tagsPassed
    => \/ e.tag \in Range(job[r].tags)
       \/ pc[r] = "fetchTags" /\ TagAhead(r, e)
       \/ pc[r] \notin {"fetchTags", "saveTags"} /\ tags[e.tag] # Never

\* The same of a synonym, until those of missing tags are dropped.
SynonymsFetched(r) ==
  \A e \in Range(aliases) :
    /\ job[r].since <= e.at /\ e.at < job[r].synonymsBegun
    /\ e.from \notin job[r].synonymsPassed
    => \/ e \in Range(job[r].synonyms)
       \/ pc[r] = "fetchSynonyms" /\ SynonymAhead(r, e)
       \/ pc[r] = "upsertSynonyms"

\* A synonym that run r holds is the one Stack Overflow has, or that changed.
SynonymsCurrent(r) ==
  pc[r] = "fetchSynonyms" =>
    \A e \in Range(aliases), f \in Range(job[r].synonyms) :
      e.at < job[r].synonymsBegun /\ f.from = e.from => f = e

\* After that, a synonym is with the run or in the table unless its tag was
\* missing; and what the run holds can be inserted.
SynonymsResolved(r) ==
  pc[r] = "upsertSynonyms" =>
    /\ \A e \in Range(job[r].synonyms) : tags[e.to] # Never
    /\ \A e \in Range(aliases) :
         /\ job[r].since <= e.at
         /\ e.at < job[r].synonymsBegun
         /\ e.from \notin job[r].synonymsPassed
         /\ e.to \in DueTags(r) \union KnownTags(r)
         => e \in Range(job[r].synonyms) \/ synonyms[e.from] # NoTag

RunOK(r) ==
  /\ Shape(r)
  /\ Asks(r)
  /\ TagsFetched(r)
  /\ SynonymsFetched(r)
  /\ SynonymsCurrent(r)
  /\ SynonymsResolved(r)

\* What run r is certain to write unless it fails: it has fetched it, or has
\* yet to begin to.
SureTags(r) == IF pc[r] = "upsertTags" THEN Range(job[r].tags) ELSE {}

Fetches(r) ==
  job[r].mode = "incremental" /\ pc[r] \in {"upsertTags", "fetchSynonyms"}

SureSynonyms(r) ==
  IF Fetches(r)
  THEN {e.from : e \in {f \in Range(aliases) :
          /\ job[r].since <= f.at
          /\ job[r].page > 1 => /\ f.at < job[r].synonymsBegun
                                 /\ f.from \notin job[r].synonymsPassed}}
  ELSE IF pc[r] \in {"upsertTags", "resolve", "upsertSynonyms"}
  THEN {e.from : e \in Range(job[r].synonyms)}
  ELSE {}

\* What incremental syncs do not ask for any more is sure to be written or
\* known to be lost.
TagsCovered ==
  \A e \in Range(recent) :
    tags[e.tag] = Never /\ e.at < LastSyncDate =>
      ATag(e.tag) \in gap \/ \E r \in Run : e.tag \in SureTags(r)

SynonymsCovered ==
  \A e \in Range(aliases) :
    synonyms[e.from] = NoTag /\ e.at < LastSyncDate =>
      ASynonym(e.from) \in gap \/ \E r \in Run : e.from \in SureSynonyms(r)

IInv ==
  /\ TypeOK
  /\ ListingsOK
  /\ DatesOK
  /\ FilesOK
  /\ \A r \in Run : RunOK(r)
  /\ TagsCovered
  /\ SynonymsCovered

-----------------------------------------------------------------------------
(***************************************************************************)
(* Sets of numbers.                                                        *)
(***************************************************************************)

\* A set of naturals has a least element.
LEMMA LeastNat ==
  ASSUME NEW T, T \subseteq Nat, T # {}
  PROVE  \E x \in T : \A y \in T : x <= y
<1> DEFINE Less == {p \in Nat \X Nat : p[1] < p[2]}
<1>1. OpToRel(<, Nat) = Less
  BY DEF OpToRel
<1>2. IsWellFoundedOn(Less, Nat)
  BY <1>1, NatLessThanWellFounded
<1>3. PICK x \in T : \A y \in T : <<y, x>> \notin Less
  <2> HIDE DEF Less
  <2> QED
    BY <1>2, WFMin
<1>4. \A y \in T : y \in Nat /\ x \in Nat /\ (y < x => <<y, x>> \in Less)
  OBVIOUS
<1>5. \A y \in T : ~(y < x)
  <2> HIDE DEF Less
  <2> QED
    BY <1>3, <1>4
<1> QED
  BY <1>4, <1>5

\* Induction, for a set in the place of a predicate.
LEMMA Inductive ==
  ASSUME NEW I, 0 \in I, \A n \in Nat : n \in I => n + 1 \in I
  PROVE  Nat \subseteq I
<1> SUFFICES ASSUME Nat \ I # {}
             PROVE  FALSE
  OBVIOUS
<1>1. PICK x \in Nat \ I : \A y \in Nat \ I : x <= y
  BY LeastNat
<1>2. x - 1 \in Nat
  OBVIOUS
<1>3. x - 1 \in I
  BY <1>1, <1>2
<1> QED
  BY <1>2, <1>3

\* A bounded set of integers has a greatest element.
LEMMA GreatestInt ==
  ASSUME NEW D, D \subseteq Int, D # {}, NEW b \in Int, \A d \in D : d <= b
  PROVE  \E d \in D : \A e \in D : e <= d
<1> DEFINE T == {b - d : d \in D}
<1>1. T \subseteq Nat /\ T # {}
  <2>1. \A d \in D : b - d \in Nat
    OBVIOUS
  <2>2. PICK d \in D : TRUE
    OBVIOUS
  <2>3. b - d \in T
    OBVIOUS
  <2> QED
    BY <2>1, <2>3
<1>2. PICK x \in T : \A y \in T : x <= y
  <2> HIDE DEF T
  <2> QED
    BY <1>1, LeastNat
<1>3. PICK d \in D : x = b - d
  OBVIOUS
<1>4. \A e \in D : b - d <= b - e
  BY <1>2, <1>3
<1> QED
  BY <1>4

-----------------------------------------------------------------------------
(***************************************************************************)
(* Sequences.                                                              *)
(***************************************************************************)

\* What the recursive definition of Keep defines.
KeepsTo(kept, m, l, S) ==
  kept = [n \in 0..m |-> IF n = 0 THEN <<>>
                         ELSE IF l[n] \in S THEN Append(kept[n - 1], l[n])
                         ELSE kept[n - 1]]

\* The function that Keep selects exists, by induction on its domain.
LEMMA KeepDef ==
  ASSUME NEW T, NEW l \in Seq(T), NEW S
  PROVE  \E kept : KeepsTo(kept, Len(l), l, S) /\ Keep(l, S) = kept[Len(l)]
<1> DEFINE I == {m \in Nat : \E f : KeepsTo(f, m, l, S)}
<1>1. 0 \in I
  <2>1. KeepsTo([n \in 0..0 |-> <<>>], 0, l, S)
    BY DEF KeepsTo
  <2> QED
    BY <2>1
<1>2. ASSUME NEW m \in Nat, m \in I
      PROVE  m + 1 \in I
  <2>1. PICK f : KeepsTo(f, m, l, S)
    BY <1>2
  <2>2. \A n \in 0..m : f[n] = IF n = 0 THEN <<>>
                               ELSE IF l[n] \in S THEN Append(f[n - 1], l[n])
                               ELSE f[n - 1]
    BY <2>1 DEF KeepsTo
  <2> DEFINE g == [n \in 0..(m + 1) |->
                     IF n <= m THEN f[n]
                     ELSE IF l[n] \in S THEN Append(f[m], l[n]) ELSE f[m]]
  <2>3. KeepsTo(g, m + 1, l, S)
    BY <2>2 DEF KeepsTo
  <2> QED
    BY <2>3
<1>3. Len(l) \in I
  <2> HIDE DEF I
  <2> QED
    BY <1>1, <1>2, Inductive
<1>4. Keep(l, S) = (CHOOSE f : KeepsTo(f, Len(l), l, S))[Len(l)]
  BY DEF Keep, KeepsTo
<1>5. KeepsTo((CHOOSE f : KeepsTo(f, Len(l), l, S)), Len(l), l, S)
  BY <1>3
<1> QED
  BY <1>4, <1>5

\* What a sequence has after Append.
LEMMA RangeAppend ==
  ASSUME NEW T, NEW s \in Seq(T), NEW e \in T
  PROVE  Range(Append(s, e)) = Range(s) \union {e}
<1>1. DOMAIN Append(s, e) = (1..Len(s)) \union {Len(s) + 1}
  BY AppendProperties, LenProperties
<1>2. /\ \A i \in 1..Len(s) : Append(s, e)[i] = s[i]
      /\ Append(s, e)[Len(s) + 1] = e
  BY AppendProperties
<1>3. DOMAIN s = 1..Len(s)
  BY LenProperties
<1> QED
  BY <1>1, <1>2, <1>3 DEF Range

\* Keep keeps what it says.
LEMMA KeepProperties ==
  ASSUME NEW T, NEW l \in Seq(T), NEW S
  PROVE  /\ Keep(l, S) \in Seq(T)
         /\ Range(Keep(l, S)) = Range(l) \intersect S
<1>1. PICK f : KeepsTo(f, Len(l), l, S) /\ Keep(l, S) = f[Len(l)]
  BY KeepDef
<1>2. \A n \in 0..Len(l) : f[n] = IF n = 0 THEN <<>>
                                  ELSE IF l[n] \in S THEN Append(f[n - 1], l[n])
                                  ELSE f[n - 1]
  BY <1>1 DEF KeepsTo
<1> DEFINE P(n) == /\ f[n] \in Seq(T)
                   /\ Range(f[n]) = {l[j] : j \in 1..n} \intersect S
           I == {n \in Nat : n <= Len(l) => P(n)}
<1>3. 0 \in I
  <2>1. f[0] = <<>> /\ 1..0 = {} /\ <<>> \in Seq(T)
    BY <1>2
  <2>2. Range(<<>>) = {}
    BY DEF Range
  <2>3. {l[j] : j \in 1..0} = {}
    BY <2>1
  <2> QED
    BY <2>1, <2>2, <2>3
<1>4. ASSUME NEW n \in Nat, n \in I
      PROVE  n + 1 \in I
  <2> SUFFICES ASSUME n + 1 <= Len(l)
               PROVE  P(n + 1)
    OBVIOUS
  <2>1. P(n)
    BY <1>4
  <2>2. {l[j] : j \in 1..(n + 1)} = {l[j] : j \in 1..n} \union {l[n + 1]}
    <3>1. 1..(n + 1) = (1..n) \union {n + 1}
      OBVIOUS
    <3> QED
      BY <3>1
  <2>3. l[n + 1] \in T
    OBVIOUS
  <2> n + 1 \in 0..Len(l) /\ n + 1 # 0 /\ (n + 1) - 1 = n
    OBVIOUS
  <2>4. CASE l[n + 1] \in S
    <3>1. f[n + 1] = Append(f[n], l[n + 1])
      BY <1>2, <2>4
    <3>2. f[n + 1] \in Seq(T)
      BY <2>1, <2>3, <3>1
    <3>3. Range(f[n + 1]) = Range(f[n]) \union {l[n + 1]}
      BY <2>1, <2>3, <3>1, RangeAppend
    <3> HIDE DEF I
    <3> QED
      BY <2>1, <2>2, <2>4, <3>2, <3>3
  <2>5. CASE l[n + 1] \notin S
    <3>1. f[n + 1] = f[n]
      BY <1>2, <2>5
    <3> QED
      BY <2>1, <2>2, <2>5, <3>1
  <2> QED
    BY <2>4, <2>5
<1>5. Len(l) \in I
  <2> HIDE DEF I
  <2> QED
    BY <1>3, <1>4, Inductive
<1>6. P(Len(l))
  BY <1>5
<1>7. {l[j] : j \in 1..Len(l)} = Range(l)
  BY DEF Range
<1> QED
  BY <1>1, <1>6, <1>7

\* If S is what is in l up to m, Keep is the prefix of l.
LEMMA KeepPrefix ==
  ASSUME NEW T, NEW l \in Seq(T), NEW S, NEW m \in 0..Len(l),
         \A j \in 1..Len(l) : l[j] \in S <=> j <= m
  PROVE  /\ Len(Keep(l, S)) = m
         /\ \A j \in 1..m : Keep(l, S)[j] = l[j]
<1>1. PICK f : KeepsTo(f, Len(l), l, S) /\ Keep(l, S) = f[Len(l)]
  BY KeepDef
<1>2. \A n \in 0..Len(l) : f[n] = IF n = 0 THEN <<>>
                                  ELSE IF l[n] \in S THEN Append(f[n - 1], l[n])
                                  ELSE f[n - 1]
  BY <1>1 DEF KeepsTo
<1> DEFINE P(n) == /\ f[n] \in Seq(T)
                   /\ Len(f[n]) = Smaller(n, m)
                   /\ \A j \in 1..Smaller(n, m) : f[n][j] = l[j]
           I == {n \in Nat : n <= Len(l) => P(n)}
<1>3. 0 \in I
  <2>1. f[0] = <<>> /\ <<>> \in Seq(T) /\ Len(<<>>) = 0
    BY <1>2
  <2>2. Smaller(0, m) = 0 /\ 1..0 = {}
    BY DEF Smaller
  <2> QED
    BY <2>1, <2>2
<1>4. ASSUME NEW n \in Nat, n \in I
      PROVE  n + 1 \in I
  <2> SUFFICES ASSUME n + 1 <= Len(l)
               PROVE  P(n + 1)
    OBVIOUS
  <2>1. P(n)
    BY <1>4
  <2> n + 1 \in 0..Len(l) /\ n + 1 # 0 /\ (n + 1) - 1 = n
    OBVIOUS
  <2>2. l[n + 1] \in T /\ (l[n + 1] \in S <=> n + 1 <= m)
    OBVIOUS
  <2>3. CASE n + 1 <= m
    <3>1. f[n + 1] = Append(f[n], l[n + 1])
      BY <1>2, <2>2, <2>3
    <3>2. Smaller(n, m) = n /\ Smaller(n + 1, m) = n + 1
      BY <2>3 DEF Smaller
    <3> HIDE DEF I
    <3> QED
      BY <2>1, <2>2, <3>1, <3>2, AppendProperties
  <2>4. CASE ~(n + 1 <= m)
    <3>1. f[n + 1] = f[n]
      BY <1>2, <2>2, <2>4
    <3>2. Smaller(n, m) = m /\ Smaller(n + 1, m) = m
      BY <2>4 DEF Smaller
    <3> QED
      BY <2>1, <3>1, <3>2
  <2> QED
    BY <2>3, <2>4
<1>5. Len(l) \in I
  <2> HIDE DEF I
  <2> QED
    BY <1>3, <1>4, Inductive
<1>6. P(Len(l))
  BY <1>5
<1>7. Smaller(Len(l), m) = m
  BY DEF Smaller
<1> QED
  BY <1>1, <1>6, <1>7

\* If S is what is in l but its item k, Keep drops that.
LEMMA KeepRemoves ==
  ASSUME NEW T, NEW l \in Seq(T), NEW S, NEW k \in 1..Len(l),
         \A j \in 1..Len(l) : l[j] \in S <=> j # k
  PROVE  /\ Len(Keep(l, S)) = Len(l) - 1
         /\ \A j \in 1..(Len(l) - 1) :
              Keep(l, S)[j] = IF j < k THEN l[j] ELSE l[j + 1]
<1>1. PICK f : KeepsTo(f, Len(l), l, S) /\ Keep(l, S) = f[Len(l)]
  BY KeepDef
<1>2. \A n \in 0..Len(l) : f[n] = IF n = 0 THEN <<>>
                                  ELSE IF l[n] \in S THEN Append(f[n - 1], l[n])
                                  ELSE f[n - 1]
  BY <1>1 DEF KeepsTo
<1> DEFINE Size(n) == IF n < k THEN n ELSE n - 1
           P(n) == /\ f[n] \in Seq(T)
                   /\ Len(f[n]) = Size(n)
                   /\ \A j \in 1..Size(n) : f[n][j] = IF j < k THEN l[j] ELSE l[j + 1]
           I == {n \in Nat : n <= Len(l) => P(n)}
<1>3. 0 \in I
  <2>1. f[0] = <<>> /\ <<>> \in Seq(T) /\ Len(<<>>) = 0
    BY <1>2
  <2>2. Size(0) = 0 /\ 1..0 = {}
    OBVIOUS
  <2> QED
    BY <2>1, <2>2
<1>4. ASSUME NEW n \in Nat, n \in I
      PROVE  n + 1 \in I
  <2> SUFFICES ASSUME n + 1 <= Len(l)
               PROVE  P(n + 1)
    OBVIOUS
  <2>1. P(n)
    BY <1>4
  <2> n + 1 \in 0..Len(l) /\ n + 1 # 0 /\ (n + 1) - 1 = n
    OBVIOUS
  <2>2. l[n + 1] \in T /\ (l[n + 1] \in S <=> n + 1 # k)
    OBVIOUS
  <2>3. CASE n + 1 # k
    <3>1. f[n + 1] = Append(f[n], l[n + 1])
      BY <1>2, <2>2, <2>3
    <3>2. Size(n) \in Nat /\ Size(n + 1) = Size(n) + 1
      BY <2>3
    <3>3. /\ f[n + 1] \in Seq(T)
          /\ Len(f[n + 1]) = Size(n) + 1
          /\ \A j \in 1..Size(n) : f[n + 1][j] = f[n][j]
          /\ f[n + 1][Size(n) + 1] = l[n + 1]
      <4> HIDE DEF I, Size
      <4> QED
        BY <2>1, <2>2, <3>1, <3>2, AppendProperties
    <3>4. l[n + 1] = IF Size(n) + 1 < k THEN l[Size(n) + 1] ELSE l[Size(n) + 2]
      BY <2>3
    <3>5. Len(f[n + 1]) = Size(n + 1)
      BY <3>2, <3>3
    <3> HIDE DEF I, Size
    <3>6. ASSUME NEW j \in 1..Size(n + 1)
          PROVE  f[n + 1][j] = IF j < k THEN l[j] ELSE l[j + 1]
      <4>1. CASE j \in 1..Size(n)
        BY <2>1, <3>3, <4>1
      <4>2. CASE j = Size(n) + 1
        <5>1. j + 1 = Size(n) + 2
          BY <3>2, <4>2
        <5> QED
          BY <3>3, <3>4, <4>2, <5>1
      <4>3. j \in 1..Size(n) \/ j = Size(n) + 1
        BY <3>2
      <4> QED
        BY <4>1, <4>2, <4>3
    <3> QED
      BY <3>3, <3>5, <3>6
  <2>4. CASE n + 1 = k
    <3>1. f[n + 1] = f[n]
      BY <1>2, <2>2, <2>4
    <3>2. Size(n + 1) = Size(n)
      BY <2>4
    <3> QED
      BY <2>1, <3>1, <3>2
  <2> QED
    BY <2>3, <2>4
<1>5. Len(l) \in I
  <2> HIDE DEF I
  <2> QED
    BY <1>3, <1>4, Inductive
<1>6. P(Len(l))
  BY <1>5
<1> QED
  BY <1>1, <1>6

\* In a list sorted by date, latest first, what is no older than d is a prefix.
LEMMA KeepSince ==
  ASSUME NEW T, NEW l \in Seq(T), NEW d \in Int,
         \A e \in T : e.at \in Int,
         \A i, j \in DOMAIN l : i < j => l[i].at >= l[j].at
  PROVE  \E m \in 0..Len(l) :
           LET k == Keep(l, {e \in Range(l) : e.at >= d})
           IN  /\ Len(k) = m
               /\ \A j \in 1..m : k[j] = l[j]
               /\ \A j \in DOMAIN l : l[j].at >= d <=> j <= m
<1> DEFINE Old == {j \in 1..Len(l) : l[j].at < d}
<1>1. /\ DOMAIN l = 1..Len(l)
      /\ \A j \in DOMAIN l : l[j] \in T /\ l[j].at \in Int
  BY LenProperties
<1>2. PICK m \in 0..Len(l) : \A j \in DOMAIN l : l[j].at >= d <=> j <= m
  <2>1. CASE Old = {}
    <3>1. \A j \in DOMAIN l : l[j].at >= d
      BY <1>1, <2>1
    <3> QED
      BY <1>1, <3>1
  <2>2. CASE Old # {}
    <3>1. Old \subseteq Nat
      OBVIOUS
    <3>2. PICK x \in Old : \A y \in Old : x <= y
      BY <2>2, <3>1, LeastNat
    <3>3. x - 1 \in 0..Len(l)
      OBVIOUS
    <3>4. ASSUME NEW j \in DOMAIN l
          PROVE  l[j].at >= d <=> j <= x - 1
      BY <1>1, <3>2
    <3> QED
      BY <3>3, <3>4
  <2> QED
    BY <2>1, <2>2
<1> DEFINE S == {e \in Range(l) : e.at >= d}
<1>3. \A j \in 1..Len(l) : l[j] \in S <=> j <= m
  BY <1>1, <1>2 DEF Range
<1>4. Len(Keep(l, S)) = m /\ \A j \in 1..m : Keep(l, S)[j] = l[j]
  <2> HIDE DEF S
  <2> QED
    BY <1>3, KeepPrefix
<1> QED
  BY <1>2, <1>4

\* The items of a list are in its range.
LEMMA Items ==
  ASSUME NEW T, NEW l \in Seq(T)
  PROVE  /\ Len(l) \in Nat /\ DOMAIN l = 1..Len(l)
         /\ \A i \in DOMAIN l : l[i] \in T /\ l[i] \in Range(l)
         /\ \A e \in Range(l) : e \in T /\ \E i \in DOMAIN l : l[i] = e
  BY LenProperties DEF Range

\* The first items of a list and the rest of it.
LEMMA FirstRest ==
  ASSUME NEW T, NEW l \in Seq(T), NEW n \in Nat
  PROVE  /\ First(n, l) \in Seq(T)
         /\ Rest(n, l) \in Seq(T)
         /\ Range(l) = Range(First(n, l)) \union Range(Rest(n, l))
         /\ \A i \in 1..Len(l) : i > n => Len(Rest(n, l)) >= i - n /\ Rest(n, l)[i - n] = l[i]
         /\ \A i \in 1..Len(l) : i <= n => l[i] \in Range(First(n, l))
<1> DEFINE k == Smaller(n, Len(l))
<1>1. Len(l) \in Nat /\ DOMAIN l = 1..Len(l) /\ \A i \in 1..Len(l) : l[i] \in T
  BY LenProperties
<1>2. k \in 0..Len(l) /\ k <= n /\ (n < Len(l) => k = n) /\ (k < Len(l) => k = n)
  <2>1. \A a, b \in Nat : (Smaller(a, b) = a /\ a <= b) \/ (Smaller(a, b) = b /\ b <= a)
    BY DEF Smaller
  <2>2. (k = n /\ n <= Len(l)) \/ (k = Len(l) /\ Len(l) <= n)
    BY <1>1, <2>1
  <2> HIDE DEF k
  <2> QED
    BY <1>1, <2>2
<1> HIDE DEF k
<1>3. /\ First(n, l) = SubSeq(l, 1, k)
      /\ Rest(n, l) = SubSeq(l, k + 1, Len(l))
  BY DEF First, Rest, k
<1>4. /\ First(n, l) \in Seq(T) /\ Len(First(n, l)) = k
      /\ \A i \in 1..k : First(n, l)[i] = l[i]
  BY <1>1, <1>2, <1>3, SubSeqProperties
<1>5. /\ Rest(n, l) \in Seq(T) /\ Len(Rest(n, l)) = Len(l) - k
      /\ \A i \in 1..(Len(l) - k) : Rest(n, l)[i] = l[k + i]
  <2>1. \A i \in (k + 1)..Len(l) : l[i] \in T
    BY <1>1, <1>2
  <2>2. \A i \in 1..(Len(l) - (k + 1) + 1) : Rest(n, l)[i] = l[(k + 1) + i - 1]
    BY <1>2, <1>3, <2>1, SubSeqProperties
  <2>3. \A i \in 1..(Len(l) - k) :
          i \in 1..(Len(l) - (k + 1) + 1) /\ (k + 1) + i - 1 = k + i
    BY <1>1, <1>2
  <2> QED
    BY <1>1, <1>2, <1>3, <2>1, <2>2, <2>3, SubSeqProperties
<1>6. Range(l) = Range(First(n, l)) \union Range(Rest(n, l))
  <2>1. DOMAIN First(n, l) = 1..k /\ DOMAIN Rest(n, l) = 1..(Len(l) - k)
    BY <1>4, <1>5, LenProperties
  <2>2. \A i \in 1..Len(l) : i <= k \/ (i - k \in 1..(Len(l) - k) /\ k + (i - k) = i)
    BY <1>1, <1>2
  <2>3. ASSUME NEW i \in 1..Len(l)
        PROVE  l[i] \in Range(First(n, l)) \union Range(Rest(n, l))
    <3>1. CASE i <= k
      <4>1. i \in 1..k /\ First(n, l)[i] = l[i]
        BY <1>2, <1>4, <3>1
      <4> QED
        BY <2>1, <4>1 DEF Range
    <3>2. CASE i - k \in 1..(Len(l) - k) /\ k + (i - k) = i
      <4>1. Rest(n, l)[i - k] = l[i]
        BY <1>5, <3>2
      <4> QED
        BY <2>1, <3>2, <4>1 DEF Range
    <3> QED
      BY <2>2, <3>1, <3>2
  <2>4. ASSUME NEW i \in 1..k
        PROVE  First(n, l)[i] \in Range(l)
    BY <1>1, <1>2, <1>4 DEF Range
  <2>5. ASSUME NEW i \in 1..(Len(l) - k)
        PROVE  Rest(n, l)[i] \in Range(l)
    <3>1. k + i \in 1..Len(l)
      BY <1>1, <1>2
    <3>2. Rest(n, l)[i] = l[k + i]
      BY <1>5
    <3> QED
      BY <1>1, <3>1, <3>2 DEF Range
  <2> QED
    BY <1>1, <2>1, <2>3, <2>4, <2>5 DEF Range
<1>7. ASSUME NEW i \in 1..Len(l), i > n
      PROVE  Len(Rest(n, l)) >= i - n /\ Rest(n, l)[i - n] = l[i]
  <2>1. k = n /\ i - k \in 1..(Len(l) - k) /\ k + (i - k) = i
    BY <1>1, <1>2, <1>7
  <2> QED
    BY <1>5, <2>1
<1>8. ASSUME NEW i \in 1..Len(l), i <= n
      PROVE  l[i] \in Range(First(n, l))
  <2>1. i \in 1..k
    BY <1>1, <1>2, <1>8
  <2> QED
    BY <1>4, <2>1, LenProperties DEF Range
<1> QED
  BY <1>4, <1>5, <1>6, <1>7, <1>8

\* Page n of a list holds its items from (n - 1) * PageSize + 1 to n * PageSize.
LEMMA PageProperties ==
  ASSUME NEW T, NEW l \in Seq(T), NEW n \in Nat \ {0}
  PROVE  /\ PageOf(l, n) \in Seq(T)
         /\ Range(PageOf(l, n)) \subseteq Range(l)
         /\ \A i \in 1..Len(l) : i > (n - 1) * PageSize /\ i <= n * PageSize =>
              l[i] \in Range(PageOf(l, n))
<1> DEFINE k == (n - 1) * PageSize
           rest == Rest(k, l)
<1>1. PageSize \in Nat /\ k \in Nat /\ n * PageSize = k + PageSize
  BY SizeAssumption
<1> HIDE DEF k
<1>2. PageOf(l, n) = First(PageSize, rest)
  BY DEF PageOf, k
<1>3. /\ rest \in Seq(T) /\ Range(rest) \subseteq Range(l)
      /\ \A i \in 1..Len(l) : i > k => Len(rest) >= i - k /\ rest[i - k] = l[i]
  <2>1. Range(l) = Range(First(k, l)) \union Range(Rest(k, l))
    BY <1>1, FirstRest
  <2>2. rest \in Seq(T)
    BY <1>1, FirstRest
  <2>3. \A i \in 1..Len(l) : i > k => Len(rest) >= i - k /\ rest[i - k] = l[i]
    BY <1>1, FirstRest
  <2> QED
    BY <2>1, <2>2, <2>3
<1> HIDE DEF rest
<1>4. /\ First(PageSize, rest) \in Seq(T)
      /\ Range(First(PageSize, rest)) \subseteq Range(rest)
      /\ \A i \in 1..Len(rest) : i <= PageSize => rest[i] \in Range(First(PageSize, rest))
  <2>1. Range(rest) = Range(First(PageSize, rest)) \union Range(Rest(PageSize, rest))
    BY <1>1, <1>3, FirstRest
  <2>2. First(PageSize, rest) \in Seq(T)
    BY <1>1, <1>3, FirstRest
  <2>3. \A i \in 1..Len(rest) : i <= PageSize => rest[i] \in Range(First(PageSize, rest))
    BY <1>1, <1>3, FirstRest
  <2> QED
    BY <2>1, <2>2, <2>3
<1>5. ASSUME NEW i \in 1..Len(l), i > k, i <= k + PageSize
      PROVE  l[i] \in Range(First(PageSize, rest))
  <2>1. Len(rest) \in Nat /\ Len(l) \in Nat
    BY <1>3, LenProperties
  <2>2. i - k \in 1..Len(rest) /\ i - k <= PageSize /\ rest[i - k] = l[i]
    BY <1>1, <1>3, <1>5, <2>1
  <2> QED
    BY <1>4, <2>2
<1> QED
  BY <1>1, <1>2, <1>3, <1>4, <1>5 DEF k

\* One item of a list is replaced by a new one in front: the others keep
\* their order, and none comes closer to the front.
Front(new, l, S) == <<new>> \o Keep(l, S)

Moved(T, m, new, l, S) ==
  /\ m \in Seq(T) /\ Len(m) >= 1 /\ m[1] = new
  /\ \E h \in [2..Len(m) -> 1..Len(l)] :
       \A i \in 2..Len(m) : /\ m[i] = l[h[i]] /\ l[h[i]] \in S
                            /\ \A j \in 2..Len(m) : i < j => h[i] < h[j]
  /\ \A j \in 1..Len(l) : l[j] \in S => \E i \in 1..Len(m) : i >= j /\ m[i] = l[j]

\* Front moves new to the front of l.
LEMMA MovedToFront ==
  ASSUME NEW T, NEW l \in Seq(T), NEW new \in T, NEW S,
         \A i, j \in 1..Len(l) : l[i] \notin S /\ l[j] \notin S => i = j
  PROVE  Moved(T, Front(new, l, S), new, l, S)
<1> DEFINE kept == Keep(l, S)
           m == Front(new, l, S)
<1>1. Len(l) \in Nat /\ kept \in Seq(T) /\ Len(kept) \in Nat
  BY KeepProperties, LenProperties
<1>2. /\ m \in Seq(T) /\ Len(m) = Len(kept) + 1 /\ m[1] = new
      /\ \A i \in 2..Len(m) : m[i] = kept[i - 1]
  <2> HIDE DEF kept
  <2>1. <<new>> \in Seq(T) /\ Len(<<new>>) = 1 /\ <<new>>[1] = new
    OBVIOUS
  <2> QED
    BY <1>1, <2>1, ConcatProperties DEF Front, kept
<1>3. CASE \E k \in 1..Len(l) : l[k] \notin S
  <2>1. PICK k \in 1..Len(l) : l[k] \notin S
    BY <1>3
  <2>2. \A j \in 1..Len(l) : l[j] \in S <=> j # k
    BY <2>1
  <2>3. /\ Len(kept) = Len(l) - 1
        /\ \A j \in 1..(Len(l) - 1) : kept[j] = IF j < k THEN l[j] ELSE l[j + 1]
    BY <2>2, KeepRemoves
  <2> DEFINE h == [i \in 2..Len(m) |-> IF i - 1 < k THEN i - 1 ELSE i]
  <2> HIDE DEF m, kept
  <2>4. Len(m) = Len(l)
    BY <1>1, <1>2, <2>3
  <2>5. h \in [2..Len(m) -> 1..Len(l)]
    BY <1>1, <2>4
  <2>6. ASSUME NEW i \in 2..Len(m)
        PROVE  /\ m[i] = l[h[i]] /\ l[h[i]] \in S
               /\ \A j \in 2..Len(m) : i < j => h[i] < h[j]
    <3>1. i - 1 \in 1..(Len(l) - 1) /\ m[i] = kept[i - 1] /\ (i - 1) + 1 = i
      BY <1>1, <1>2, <2>4
    <3>2. m[i] = l[h[i]]
      BY <2>3, <3>1
    <3>3. h[i] # k /\ h[i] \in 1..Len(l)
      BY <1>1, <2>4, <2>5
    <3> QED
      BY <1>1, <2>2, <2>4, <3>2, <3>3
  <2>7. ASSUME NEW j \in 1..Len(l), l[j] \in S
        PROVE  \E i \in 1..Len(m) : i >= j /\ m[i] = l[j]
    <3>1. j # k
      BY <2>1, <2>7
    <3>2. CASE j < k
      <4>1. j + 1 \in 2..Len(m) /\ (j + 1) - 1 = j /\ j \in 1..(Len(l) - 1)
        BY <1>1, <2>4, <3>2
      <4> QED
        BY <1>2, <2>3, <3>2, <4>1
    <3>3. CASE j > k
      <4>1. j \in 2..Len(m) /\ j - 1 \in 1..(Len(l) - 1) /\ ~(j - 1 < k) /\ (j - 1) + 1 = j
        BY <1>1, <2>4, <3>3
      <4> QED
        BY <1>2, <2>3, <4>1
    <3> QED
      BY <3>1, <3>2, <3>3
  <2>8. \E f \in [2..Len(m) -> 1..Len(l)] :
          \A i \in 2..Len(m) : /\ m[i] = l[f[i]] /\ l[f[i]] \in S
                               /\ \A j \in 2..Len(m) : i < j => f[i] < f[j]
    <3> HIDE DEF h
    <3> QED
      BY <2>5, <2>6
  <2>9. Len(m) >= 1
    BY <2>4
  <2> QED
    BY <1>2, <2>7, <2>8, <2>9 DEF Moved, m
<1>4. CASE \A k \in 1..Len(l) : l[k] \in S
  <2>1. Len(kept) = Len(l) /\ \A j \in 1..Len(l) : kept[j] = l[j]
    <3>1. \A j \in 1..Len(l) : l[j] \in S <=> j <= Len(l)
      BY <1>4
    <3> QED
      BY <1>1, <3>1, KeepPrefix
  <2> DEFINE h == [i \in 2..Len(m) |-> i - 1]
  <2> HIDE DEF m, kept
  <2>2. Len(m) = Len(l) + 1
    BY <1>2, <2>1
  <2>3. \A i \in 2..Len(m) : i - 1 \in 1..Len(l)
    BY <1>1, <2>2
  <2>4. h \in [2..Len(m) -> 1..Len(l)]
    BY <2>3
  <2>5. ASSUME NEW i \in 2..Len(m)
        PROVE  /\ m[i] = l[h[i]] /\ l[h[i]] \in S
               /\ \A j \in 2..Len(m) : i < j => h[i] < h[j]
    BY <1>2, <1>4, <2>1, <2>3
  <2>6. ASSUME NEW j \in 1..Len(l)
        PROVE  \E i \in 1..Len(m) : i >= j /\ m[i] = l[j]
    <3>1. j + 1 \in 2..Len(m) /\ j + 1 \in 1..Len(m) /\ (j + 1) - 1 = j /\ j + 1 >= j
      BY <1>1, <2>2
    <3>2. m[j + 1] = l[j]
      BY <1>2, <2>1, <3>1
    <3> QED
      BY <3>1, <3>2
  <2>7. \E f \in [2..Len(m) -> 1..Len(l)] :
          \A i \in 2..Len(m) : /\ m[i] = l[f[i]] /\ l[f[i]] \in S
                               /\ \A j \in 2..Len(m) : i < j => f[i] < f[j]
    <3> HIDE DEF h
    <3> QED
      BY <2>4, <2>5
  <2>8. Len(m) >= 1
    BY <1>1, <2>2
  <2> QED
    BY <1>2, <2>6, <2>7, <2>8 DEF Moved, m
<1> QED
  BY <1>3, <1>4

\* get_last_sync_date: no row is newer.
Newest(table) ==
  CHOOSE d \in {Never} \union Range(table) :
    \A e \in {Never} \union Range(table) : e <= d

\* The newest of the dates is one of them and not older than any.
LEMMA NewestIsMax ==
  ASSUME NEW table \in [Tag -> Moment \union {Never}]
  PROVE  /\ Newest(table) \in Moment \union {Never}
         /\ \A t \in Tag : table[t] <= Newest(table)
         /\ \A d \in Int : d >= Never /\ (\A t \in Tag : table[t] <= d) => Newest(table) <= d
<1> DEFINE dates == {Never} \union Range(table)
<1>1. dates \subseteq Int /\ dates \subseteq Moment \union {Never} /\ dates # {}
  BY BoundAssumption DEF Range, Moment, Never
<1>2. \A d \in dates : d <= Horizon
  BY <1>1, BoundAssumption DEF Moment, Never
<1>3. \E d \in dates : \A e \in dates : e <= d
  <2>1. Horizon \in Int
    BY BoundAssumption
  <2> HIDE DEF dates
  <2> QED
    BY <1>1, <1>2, <2>1, GreatestInt
<1>4. Newest(table) \in dates /\ \A e \in dates : e <= Newest(table)
  BY <1>3 DEF Newest
<1>5. \A t \in Tag : table[t] \in dates
  BY DEF Range
<1>6. \A d \in Int : d >= Never /\ (\A t \in Tag : table[t] <= d) => \A e \in dates : e <= d
  BY DEF Range
<1> QED
  BY <1>1, <1>4, <1>5, <1>6

-----------------------------------------------------------------------------
(***************************************************************************)
(* The listings.                                                           *)
(***************************************************************************)

\* get_last_sync_date is the newest date.
LEMMA LastSyncDateIsNewest == LastSyncDate = Newest(tags)
  BY DEF LastSyncDate, Newest

\* What is in the lists and the locals.
LEMMA ElementTypes ==
  ASSUME TypeOK
  PROVE  /\ \A e \in Range(recent) : e.tag \in Tag /\ e.at \in Int /\ e.at >= 0
         /\ Range(popular) \subseteq Tag
         /\ \A e \in Range(aliases) : e \in SynonymRow /\ e.from \in Synonym
                                     /\ e.to \in Tag /\ e.at \in Int /\ e.at >= 0
         /\ \A q \in Run : /\ Range(job[q].tags) \subseteq Tag
                           /\ \A e \in Range(job[q].synonyms) : e.from \in Synonym /\ e.to \in Tag
         /\ now \in Int /\ now >= 0
<1>1. Moment \subseteq {n \in Int : n >= 0}
  BY BoundAssumption DEF Moment
<1>2. Range(recent) \subseteq [tag : Tag, at : Moment]
  BY RangeOfSeq DEF TypeOK
<1>3. Range(popular) \subseteq Tag
  BY RangeOfSeq DEF TypeOK
<1>4. Range(aliases) \subseteq SynonymRow
  BY RangeOfSeq DEF TypeOK
<1>5. \A q \in Run : job[q].tags \in Seq(Tag) /\ job[q].synonyms \in Seq(SynonymRow)
  BY DEF TypeOK, Job
<1>6. \A q \in Run : /\ Range(job[q].tags) \subseteq Tag
                    /\ Range(job[q].synonyms) \subseteq SynonymRow
  BY <1>5, RangeOfSeq
<1>7. \A e \in SynonymRow : e.from \in Synonym /\ e.to \in Tag /\ e.at \in Moment
  BY DEF SynonymRow
<1>8. \A e \in Range(recent) : e.tag \in Tag /\ e.at \in Moment
  BY <1>2
<1>9. now \in Moment
  BY DEF TypeOK
<1> QED
  BY <1>1, <1>3, <1>4, <1>6, <1>7, <1>8, <1>9

\* An item that is asked for is at its own place in what is answered.
LEMMA TagListingProperties ==
  ASSUME TypeOK, ListingsOK, NEW r \in Run
  PROVE  /\ TagListing(r) \in Seq(Tag)
         /\ job[r].mode # "incremental" => TagListing(r) = popular
         /\ job[r].mode = "incremental" =>
              \A i \in DOMAIN recent : recent[i].at >= job[r].since =>
                i \in DOMAIN TagListing(r) /\ TagListing(r)[i] = recent[i].tag
<1> DEFINE Item == [tag : Tag, at : Moment]
           asked == Keep(recent, {e \in Range(recent) : e.at >= job[r].since})
<1>1. /\ recent \in Seq(Item) /\ popular \in Seq(Tag)
      /\ job[r].since \in Int
      /\ \A e \in Item : e.at \in Int
  BY BoundAssumption DEF TypeOK, Job, Moment
<1>2. \A i, j \in DOMAIN recent : i < j => recent[i].at >= recent[j].at
  BY DEF ListingsOK
<1>3. asked \in Seq(Item)
  <2> HIDE DEF Item
  <2> QED
    BY <1>1, KeepProperties
<1>4. PICK m \in 0..Len(recent) :
        /\ Len(asked) = m
        /\ \A j \in 1..m : asked[j] = recent[j]
        /\ \A j \in DOMAIN recent : recent[j].at >= job[r].since <=> j <= m
  <2> HIDE DEF Item
  <2> QED
    BY <1>1, <1>2, KeepSince
<1> DEFINE names == [i \in DOMAIN asked |-> asked[i].tag]
<1>5. DOMAIN asked = 1..m /\ \A i \in 1..m : asked[i] \in Item
  <2> HIDE DEF Item, asked
  <2> QED
    BY <1>3, <1>4, LenProperties
<1>6. names \in Seq(Tag)
  <2> HIDE DEF asked
  <2> QED
    BY <1>5
<1>7. TagListing(r) = IF job[r].mode = "incremental" THEN names ELSE popular
  BY DEF TagListing
<1>8. \A i \in DOMAIN recent : recent[i].at >= job[r].since =>
        i \in DOMAIN names /\ names[i] = recent[i].tag
  <2>1. DOMAIN recent = 1..Len(recent)
    BY <1>1, LenProperties
  <2>2. DOMAIN names = 1..m
    BY <1>5
  <2> HIDE DEF asked
  <2> QED
    BY <1>4, <2>1, <2>2
<1> HIDE DEF names
<1> QED
  BY <1>1, <1>6, <1>7, <1>8

\* run_incremental_sync is served a prefix of the synonyms with all it asks
\* for; the other modes are served all.
LEMMA SynonymListingProperties ==
  ASSUME TypeOK, ListingsOK, NEW r \in Run
  PROVE  /\ SynonymListing(r) \in Seq(SynonymRow)
         /\ Range(SynonymListing(r)) \subseteq Range(aliases)
         /\ \A i \in DOMAIN aliases : aliases[i].at >= job[r].since =>
              i \in DOMAIN SynonymListing(r) /\ SynonymListing(r)[i] = aliases[i]
<1>1. /\ aliases \in Seq(SynonymRow)
      /\ job[r].since \in Int
      /\ \A e \in SynonymRow : e.at \in Int
  BY BoundAssumption DEF TypeOK, Job, Moment, SynonymRow
<1>2. \A i, j \in DOMAIN aliases : i < j => aliases[i].at >= aliases[j].at
  BY DEF ListingsOK
<1>3. /\ SynonymListing(r) \in Seq(SynonymRow)
      /\ Range(SynonymListing(r)) \subseteq Range(aliases)
  BY <1>1, KeepProperties DEF SynonymListing
<1>4. PICK m \in 0..Len(aliases) :
        /\ Len(SynonymListing(r)) = m
        /\ \A j \in 1..m : SynonymListing(r)[j] = aliases[j]
        /\ \A j \in DOMAIN aliases : aliases[j].at >= job[r].since <=> j <= m
  BY <1>1, <1>2, KeepSince DEF SynonymListing
<1>5. DOMAIN aliases = 1..Len(aliases) /\ DOMAIN SynonymListing(r) = 1..m
  BY <1>1, <1>3, <1>4, LenProperties
<1> QED
  BY <1>3, <1>4, <1>5

-----------------------------------------------------------------------------
(***************************************************************************)
(* What a step of one run leaves alone.                                    *)
(***************************************************************************)

\* A step of run r is a step of no other run.
OnlyRun(r) == \A q \in Run \ {r} : job'[q] = job[q] /\ pc'[q] = pc[q]

\* A row keeps its date, a new one has today's, and no synonym goes away.
TablesGrow ==
  /\ \A t \in Tag : tags'[t] = tags[t] \/ (tags[t] = Never /\ tags'[t] = now)
  /\ \A s \in Synonym : synonyms[s] # NoTag => synonyms'[s] # NoTag

\* get_last_sync_date never goes back while rows keep their dates.
LEMMA SyncDateGrows ==
  ASSUME TypeOK, TypeOK', TablesGrow
  PROVE  LastSyncDate <= LastSyncDate'
<1>1. /\ tags \in [Tag -> Moment \union {Never}]
      /\ tags' \in [Tag -> Moment \union {Never}]
      /\ now \in Moment
  BY DEF TypeOK
<1>2. \A d \in Moment \union {Never} : d \in Int /\ d >= Never
  BY BoundAssumption DEF Moment, Never
<1>3. \A t \in Tag : tags[t] <= tags'[t]
  BY <1>1, <1>2 DEF TablesGrow
<1>4. /\ Newest(tags') \in Moment \union {Never}
      /\ \A t \in Tag : tags'[t] <= Newest(tags')
  BY <1>1, NewestIsMax
<1>5. \A t \in Tag : tags[t] <= Newest(tags')
  BY <1>1, <1>2, <1>3, <1>4
<1>6. Newest(tags) <= Newest(tags')
  BY <1>1, <1>2, <1>4, <1>5, NewestIsMax
<1>7. LastSyncDate' = Newest(tags')
  BY DEF LastSyncDate, Newest
<1> QED
  BY <1>6, <1>7, LastSyncDateIsNewest

\* Run q keeps its part of the invariant while others grow the tables.
LEMMA OtherRun ==
  ASSUME TypeOK, TypeOK', NEW q \in Run, RunOK(q), TablesGrow,
         job'[q] = job[q], pc'[q] = pc[q], UNCHANGED <<now, soVars>>
  PROVE  RunOK(q)'
<1>1. UNCHANGED recent /\ UNCHANGED popular /\ UNCHANGED aliases
  BY DEF soVars
<1>2. /\ \A t \in Tag : tags[t] # Never => tags'[t] = tags[t]
      /\ \A e \in Range(recent) : e.tag \in Tag
      /\ \A e \in Range(aliases) : e.from \in Synonym /\ e.to \in Tag
      /\ \A e \in Range(job[q].synonyms) : e.to \in Tag
  BY ElementTypes DEF TablesGrow
<1>3. Shape(q)'
  BY DEF RunOK, Shape
<1>4. Asks(q)'
  <2>1. /\ LastSyncDate \in Int /\ LastSyncDate' \in Int
        /\ LastSyncDate <= LastSyncDate'
    <3>1. LastSyncDate' = Newest(tags')
      BY DEF LastSyncDate, Newest
    <3>2. Moment \union {Never} \subseteq Int
      BY BoundAssumption DEF Moment, Never
    <3> QED
      BY <3>1, <3>2, SyncDateGrows, LastSyncDateIsNewest, NewestIsMax DEF TypeOK
  <2>2. job[q].since \in Int
    BY BoundAssumption DEF TypeOK, Job, Moment
  <2> QED
    BY <2>1, <2>2 DEF RunOK, Asks
<1>5. TagsFetched(q)'
  BY <1>1, <1>2 DEF RunOK, TagsFetched, TagAhead
<1>6. SynonymsFetched(q)'
  BY <1>1 DEF RunOK, SynonymsFetched, SynonymAhead
<1>7. SynonymsCurrent(q)'
  BY <1>1 DEF RunOK, SynonymsCurrent
<1>8. SynonymsResolved(q)'
  <2>1. DueTags(q)' = DueTags(q)
    BY <1>1 DEF DueTags
  <2>2. KnownTags(q)' \subseteq KnownTags(q)
    <3>1. now \in Int /\ job[q].synonymsBegun \in Int /\ job[q].synonymsBegun <= now
      BY BoundAssumption DEF RunOK, Asks, TypeOK, Job, Moment
    <3> QED
      BY <3>1 DEF KnownTags, TablesGrow
  <2>3. ASSUME pc[q] = "upsertSynonyms"
        PROVE  SynonymsResolved(q)'
    <3>1. SynonymsResolved(q)
      BY DEF RunOK
    <3>2. \A e \in Range(job[q].synonyms) : tags'[e.to] # Never
      BY <1>2, <2>3, <3>1 DEF SynonymsResolved
    <3>3. \A e \in Range(aliases) : synonyms[e.from] # NoTag => synonyms'[e.from] # NoTag
      BY <1>2 DEF TablesGrow
    <3> QED
      BY <1>1, <2>1, <2>2, <2>3, <3>1, <3>2, <3>3 DEF SynonymsResolved
  <2> QED
    BY <2>3 DEF SynonymsResolved
<1> QED
  BY <1>3, <1>4, <1>5, <1>6, <1>7, <1>8 DEF RunOK

\* A step of run r that leaves the tables alone keeps what is covered if r
\* does, or admits the loss.
LEMMA StillCovered ==
  ASSUME TagsCovered, SynonymsCovered, NEW r \in Run, OnlyRun(r),
         UNCHANGED <<soVars, dbVars>>, gap \subseteq gap',
         \A e \in Range(recent) :
           tags[e.tag] = Never /\ e.at < LastSyncDate /\ e.tag \in SureTags(r) =>
             ATag(e.tag) \in gap' \/ e.tag \in SureTags(r)',
         \A e \in Range(aliases) :
           synonyms[e.from] = NoTag /\ e.at < LastSyncDate /\ e.from \in SureSynonyms(r) =>
             ASynonym(e.from) \in gap' \/ e.from \in SureSynonyms(r)'
  PROVE  TagsCovered' /\ SynonymsCovered'
<1>1. /\ UNCHANGED recent /\ UNCHANGED aliases
      /\ UNCHANGED tags /\ UNCHANGED synonyms /\ UNCHANGED LastSyncDate
  BY DEF soVars, dbVars, LastSyncDate
<1>2. \A q \in Run \ {r} : SureTags(q)' = SureTags(q)
  BY DEF SureTags, OnlyRun
<1>3. \A q \in Run \ {r} : SureSynonyms(q)' = SureSynonyms(q)
  BY <1>1 DEF SureSynonyms, Fetches, OnlyRun
<1>4. TagsCovered'
  BY <1>1, <1>2 DEF TagsCovered
<1>5. SynonymsCovered'
  BY <1>1, <1>3 DEF SynonymsCovered
<1> QED
  BY <1>4, <1>5

-----------------------------------------------------------------------------
(***************************************************************************)
(* The clock and Stack Overflow.                                           *)
(***************************************************************************)

\* Moments are integers.
LEMMA MomentIsInt ==
  /\ Moment \subseteq Int /\ \A d \in Moment : d >= 0 /\ d <= Horizon
  /\ Moment \union {Never} \subseteq Int
  BY BoundAssumption DEF Moment, Never

\* The clock.
LEMMA TickKeeps ==
  ASSUME IInv, Tick
  PROVE  IInv'
<1>1. /\ now \in Int /\ now' = now + 1 /\ now' \in Moment
      /\ UNCHANGED <<recent, popular, aliases, changes>> /\ UNCHANGED <<tags, synonyms>>
      /\ UNCHANGED <<tagsFile, synonymsFile>> /\ UNCHANGED <<starts, pc, job>>
      /\ UNCHANGED <<synced, gap>>
  BY BoundAssumption DEF Tick, IInv, TypeOK, Moment, soVars, dbVars, fileVars, cliVars, history
<1>2. /\ \A d \in Int : d <= now => d <= now'
      /\ UNCHANGED LastSyncDate
  BY <1>1 DEF LastSyncDate
<1>3. TypeOK'
  BY <1>1 DEF IInv, TypeOK
<1>4. ListingsOK'
  <2>1. /\ \A i \in DOMAIN recent : recent[i].at \in Int
        /\ \A i \in DOMAIN aliases : aliases[i].at \in Int
    BY ElementTypes DEF IInv, Range
  <2> QED
    BY <1>1, <1>2, <2>1 DEF IInv, ListingsOK
<1>5. DatesOK'
  <2>1. \A t \in Tag : tags[t] \in Int
    BY MomentIsInt DEF IInv, TypeOK
  <2> QED
    BY <1>1, <1>2, <2>1 DEF IInv, DatesOK
<1>6. FilesOK'
  <2>1. tagsFile.begun \in Int /\ synonymsFile.begun \in Int
    <3>1. /\ tagsFile.begun \in Moment \union {Never}
          /\ synonymsFile.begun \in Moment \union {Never}
      BY DEF IInv, TypeOK, File
    <3> QED
      BY <3>1, MomentIsInt
  <2> QED
    BY <1>1, <1>2, <2>1 DEF IInv, FilesOK
<1>7. ASSUME NEW r \in Run
      PROVE  RunOK(r)'
  <2>1. RunOK(r)
    BY DEF IInv
  <2>2. Shape(r)'
    BY <1>1, <2>1 DEF RunOK, Shape
  <2>3. Asks(r)'
    <3>1. job[r].tagsBegun \in Int /\ job[r].synonymsBegun \in Int
      BY MomentIsInt DEF IInv, TypeOK, Job
    <3> QED
      BY <1>1, <1>2, <2>1, <3>1 DEF RunOK, Asks
  <2>4. TagsFetched(r)'
    BY <1>1, <2>1 DEF RunOK, TagsFetched, TagAhead
  <2>5. SynonymsFetched(r)' /\ SynonymsCurrent(r)'
    BY <1>1, <2>1 DEF RunOK, SynonymsFetched, SynonymsCurrent, SynonymAhead
  <2>6. SynonymsResolved(r)'
    BY <1>1, <2>1 DEF RunOK, SynonymsResolved, DueTags, KnownTags
  <2> QED
    BY <2>2, <2>3, <2>4, <2>5, <2>6 DEF RunOK
<1>8. TagsCovered'
  BY <1>1, <1>2 DEF IInv, TagsCovered, SureTags
<1>9. SynonymsCovered'
  BY <1>1, <1>2 DEF IInv, SynonymsCovered, SureSynonyms, Fetches
<1> QED
  BY <1>3, <1>4, <1>5, <1>6, <1>7, <1>8, <1>9 DEF IInv

\* A step that changes nothing.
LEMMA StutterKeeps ==
  ASSUME IInv, UNCHANGED vars
  PROVE  IInv'
<1>1. /\ UNCHANGED now /\ UNCHANGED <<recent, popular, aliases, changes>>
      /\ UNCHANGED <<tags, synonyms>> /\ UNCHANGED <<tagsFile, synonymsFile>>
      /\ UNCHANGED <<starts, pc, job>> /\ UNCHANGED <<synced, gap>>
  BY DEF vars, soVars, dbVars, fileVars, cliVars, history
<1>2. UNCHANGED LastSyncDate
  BY <1>1 DEF LastSyncDate
<1>3. \A r \in Run : RunOK(r)'
  <2> SUFFICES ASSUME NEW r \in Run PROVE RunOK(r)'
    OBVIOUS
  <2>1. RunOK(r)
    BY DEF IInv
  <2>2. Shape(r)' /\ Asks(r)'
    BY <1>1, <1>2, <2>1 DEF RunOK, Shape, Asks
  <2>3. TagsFetched(r)' /\ SynonymsFetched(r)' /\ SynonymsCurrent(r)'
    BY <1>1, <2>1 DEF RunOK, TagsFetched, TagAhead, SynonymsFetched, SynonymsCurrent, SynonymAhead
  <2>4. SynonymsResolved(r)'
    BY <1>1, <2>1 DEF RunOK, SynonymsResolved, DueTags, KnownTags
  <2> QED
    BY <2>2, <2>3, <2>4 DEF RunOK
<1>4. TypeOK' /\ ListingsOK'
  BY <1>1 DEF IInv, TypeOK, ListingsOK
<1>5. DatesOK' /\ FilesOK'
  BY <1>1 DEF IInv, DatesOK, FilesOK
<1>6. TagsCovered'
  BY <1>1, <1>2 DEF IInv, TagsCovered, SureTags
<1>7. SynonymsCovered'
  <2>1. \A r \in Run : Fetches(r)' = Fetches(r)
    BY <1>1 DEF Fetches
  <2>2. \A r \in Run : SureSynonyms(r)' = SureSynonyms(r)
    BY <1>1, <2>1 DEF SureSynonyms
  <2> QED
    BY <1>1, <1>2, <2>2 DEF IInv, SynonymsCovered
<1> QED
  BY <1>3, <1>4, <1>5, <1>6, <1>7 DEF IInv

\* A listing that is sorted, names nothing twice and knows no future.
InOrder(l, Key, clock) ==
  /\ \A i \in DOMAIN l : l[i].at <= clock
  /\ \A i, j \in DOMAIN l : i < j => l[i].at >= l[j].at
  /\ \A i, j \in DOMAIN l : Key[l[i]] = Key[l[j]] => i = j

\* m is l with new in front, in place of the item of its name.
Fronted(T, m, new, l, Key) ==
  /\ m \in Seq(T) /\ 1 \in DOMAIN m /\ m[1] = new
  /\ \A e \in Range(m) : e = new \/ (e \in Range(l) /\ Key[e] # Key[new])
  /\ \A j \in DOMAIN l : Key[l[j]] # Key[new] =>
       \E i \in DOMAIN m : i >= j /\ m[i] = l[j]

\* A listing stays in order when its newest item is put in front.
LEMMA FrontKeepsOrder ==
  ASSUME NEW T, NEW l \in Seq(T), NEW new \in T, NEW Key, NEW clock \in Int,
         \A e \in T : e.at \in Int,
         new.at = clock,
         InOrder(l, Key, clock),
         NEW S, \A i \in DOMAIN l : l[i] \in S <=> Key[l[i]] # Key[new]
  PROVE  /\ InOrder(Front(new, l, S), Key, clock)
         /\ Fronted(T, Front(new, l, S), new, l, Key)
<1> DEFINE m == Front(new, l, S)
<1>1. /\ Len(l) \in Nat /\ DOMAIN l = 1..Len(l)
      /\ \A i \in 1..Len(l) : l[i] \in T /\ l[i].at \in Int /\ l[i] \in Range(l)
  BY LenProperties DEF Range
<1>2. \A i \in 1..Len(l) : l[i] \in S <=> Key[l[i]] # Key[new]
  BY <1>1
<1>3. \A i, j \in 1..Len(l) : l[i] \notin S /\ l[j] \notin S => i = j
  BY <1>1, <1>2 DEF InOrder
<1>m. Moved(T, m, new, l, S)
  BY <1>3, MovedToFront
<1> HIDE DEF m
<1>4. /\ m \in Seq(T) /\ Len(m) >= 1 /\ m[1] = new
      /\ \E h \in [2..Len(m) -> 1..Len(l)] :
           \A i \in 2..Len(m) :
             /\ m[i] = l[h[i]] /\ l[h[i]] \in S
             /\ \A j \in 2..Len(m) : i < j => h[i] < h[j]
      /\ \A j \in 1..Len(l) : l[j] \in S =>
           \E i \in 1..Len(m) : i >= j /\ m[i] = l[j]
  BY <1>m DEF Moved
<1>5. Len(m) \in Nat /\ DOMAIN m = 1..Len(m) /\ 1 \in DOMAIN m
  BY <1>4, LenProperties
<1>6. PICK h \in [2..Len(m) -> 1..Len(l)] :
           \A i \in 2..Len(m) :
         /\ m[i] = l[h[i]] /\ l[h[i]] \in S
         /\ \A j \in 2..Len(m) : i < j => h[i] < h[j]
  BY <1>4
<1>7. \A i \in 2..Len(m) :
        /\ h[i] \in DOMAIN l /\ m[i] = l[h[i]] /\ m[i] \in Range(l)
        /\ Key[m[i]] # Key[new] /\ m[i].at \in Int /\ m[i].at <= clock
  BY <1>1, <1>2, <1>6 DEF InOrder
<1>8. \A i \in DOMAIN m : i = 1 \/ i \in 2..Len(m)
  BY <1>5
<1>9. \A i \in DOMAIN m : m[i].at <= clock
  BY <1>4, <1>7, <1>8
<1>10. ASSUME NEW i \in DOMAIN m, NEW j \in DOMAIN m, i < j
       PROVE  m[i].at >= m[j].at
  <2>1. j \in 2..Len(m)
    BY <1>5, <1>10
  <2>2. CASE i = 1
    BY <1>4, <1>7, <2>1, <2>2
  <2>3. CASE i \in 2..Len(m)
    <3>1. h[i] < h[j]
      BY <1>6, <1>10, <2>1, <2>3
    <3> QED
      BY <1>7, <2>1, <2>3, <3>1 DEF InOrder
  <2> QED
    BY <1>8, <2>2, <2>3
<1>11. ASSUME NEW i \in DOMAIN m, NEW j \in DOMAIN m, Key[m[i]] = Key[m[j]]
       PROVE  i = j
  <2>1. CASE i = 1 \/ j = 1
    BY <1>4, <1>7, <1>8, <1>11, <2>1
  <2>2. CASE i \in 2..Len(m) /\ j \in 2..Len(m)
    <3>1. h[i] = h[j]
      BY <1>7, <1>11, <2>2 DEF InOrder
    <3>2. h[i] \in Int /\ ~(h[i] < h[j]) /\ ~(h[j] < h[i])
      BY <1>1, <1>7, <3>1, <2>2
    <3>3. ~(i < j) /\ ~(j < i)
      BY <1>6, <2>2, <3>2
    <3> QED
      BY <1>5, <2>2, <3>3
  <2> QED
    BY <1>8, <2>1, <2>2
<1>12. \A e \in Range(m) : e = new \/ (e \in Range(l) /\ Key[e] # Key[new])
  BY <1>4, <1>7, <1>8 DEF Range
<1>13. \A j \in DOMAIN l : Key[l[j]] # Key[new] =>
         \E i \in DOMAIN m : i >= j /\ m[i] = l[j]
  BY <1>1, <1>2, <1>4, <1>5
<1> QED
  BY <1>4, <1>5, <1>9, <1>10, <1>11, <1>12, <1>13 DEF InOrder, Fronted, m

\* The newest row is not from the future.
LEMMA SyncDatePast ==
  ASSUME TypeOK, DatesOK
  PROVE  LastSyncDate \in Int /\ LastSyncDate >= Never /\ LastSyncDate <= now
<1>1. tags \in [Tag -> Moment \union {Never}] /\ now \in Int /\ now >= Never
  BY MomentIsInt DEF TypeOK, Never
<1>2. Newest(tags) \in Moment \union {Never} /\ Newest(tags) <= now
  BY <1>1, NewestIsMax DEF DatesOK
<1> QED
  BY <1>2, BoundAssumption, LastSyncDateIsNewest DEF Moment, Never

\* Activity moves one tag to the front of one listing, and may move one ahead
\* in the other: no other tag comes closer to the front of either.
LEMMA ActivityMoves ==
  ASSUME TypeOK, ListingsOK, NEW t \in Tag, Activity(t)
  PROVE  /\ TypeOK' /\ ListingsOK'
         /\ \A e \in Range(recent') : e.at = now \/ (e \in Range(recent) /\ e.tag # t)
         /\ \A j \in DOMAIN recent : recent[j].tag # t =>
              \E i \in DOMAIN recent' : i >= j /\ recent'[i] = recent[j]
         /\ \A j \in DOMAIN popular : popular[j] # t =>
              \E i \in DOMAIN popular' : i >= j /\ popular'[i] = popular[j]
<1> DEFINE Item == [tag : Tag, at : Moment]
           new == [tag |-> t, at |-> now]
           Key == [e \in Item |-> e.tag]
           S == {e \in Range(recent) : Key[e] # Key[new]}
<1>1. /\ recent \in Seq(Item) /\ new \in Item /\ new.tag = t /\ new.at = now /\ now \in Int
      /\ \A e \in Item : e.at \in Int
      /\ \A e \in Item : Key[e] = e.tag
      /\ Key[new] = t
      /\ popular \in Seq(Tag)
  BY MomentIsInt DEF TypeOK
<1>2. /\ UNCHANGED now /\ UNCHANGED aliases /\ UNCHANGED tags /\ UNCHANGED synonyms
      /\ UNCHANGED tagsFile /\ UNCHANGED synonymsFile /\ UNCHANGED starts
      /\ UNCHANGED pc /\ UNCHANGED job /\ UNCHANGED synced /\ UNCHANGED gap
      /\ changes' \in 0..MaxChanges
  <2>1. MaxChanges \in Nat /\ changes \in 0..MaxChanges
    BY BoundAssumption DEF TypeOK
  <2> QED
    BY <2>1 DEF Activity, dbVars, fileVars, cliVars, history
<1>3. \A i \in DOMAIN recent : recent[i] \in Item /\ recent[i] \in Range(recent)
  <2> HIDE DEF Item
  <2> QED
    BY <1>1, Items
<1>4. recent' = Front(new, recent, S)
  <2>1. Range(recent) \subseteq Item
    BY <1>1, RangeOfSeq
  <2>2. S = {e \in Range(recent) : e.tag # t}
    BY <1>1, <2>1
  <2>3. recent' = <<new>> \o Keep(recent, {e \in Range(recent) : e.tag # t})
    BY DEF Activity
  <2> HIDE DEF new, Key, S
  <2> QED
    BY <2>2, <2>3 DEF Front
<1>5. InOrder(recent, Key, now)
  BY <1>1, <1>3 DEF ListingsOK, InOrder
<1>s. \A i \in DOMAIN recent : recent[i] \in S <=> Key[recent[i]] # Key[new]
  BY <1>3
<1> HIDE DEF Item, new, Key, S
<1>6. /\ recent' \in Seq(Item) /\ 1 \in DOMAIN recent' /\ recent'[1] = new
      /\ \A i, j \in DOMAIN recent' : i < j => recent'[i].at >= recent'[j].at
      /\ \A i, j \in DOMAIN recent' : Key[recent'[i]] = Key[recent'[j]] => i = j
      /\ \A i \in DOMAIN recent' : recent'[i].at <= now
      /\ \A e \in Range(recent') : e = new \/ (e \in Range(recent) /\ Key[e] # Key[new])
      /\ \A j \in DOMAIN recent : Key[recent[j]] # Key[new] =>
           \E i \in DOMAIN recent' : i >= j /\ recent'[i] = recent[j]
  <2>1. InOrder(recent', Key, now)
    BY <1>s, <1>1, <1>4, <1>5, FrontKeepsOrder
  <2>2. Fronted(Item, recent', new, recent, Key)
    BY <1>s, <1>1, <1>4, <1>5, FrontKeepsOrder
  <2> QED
    BY <2>1, <2>2 DEF InOrder, Fronted
<1>7. \A i \in DOMAIN recent' : recent'[i] \in Item /\ recent'[i] \in Range(recent')
  BY <1>6, Items
<1>8. /\ \A i, j \in DOMAIN recent' : recent'[i].tag = recent'[j].tag => i = j
      /\ \A e \in Range(recent') : e = new \/ (e \in Range(recent) /\ e.tag # t)
      /\ \A j \in DOMAIN recent : recent[j].tag # t =>
           \E i \in DOMAIN recent' : i >= j /\ recent'[i] = recent[j]
  <2>1. \A i, j \in DOMAIN recent' : recent'[i].tag = recent'[j].tag => i = j
    BY <1>1, <1>6, <1>7
  <2>2. \A e \in Range(recent') : e = new \/ (e \in Range(recent) /\ e.tag # t)
    <3>1. \A e \in Range(recent') : e \in Item
      BY <1>7 DEF Range
    <3> QED
      BY <1>1, <1>6, <3>1
  <2>3. \A j \in DOMAIN recent : recent[j].tag # t =>
           \E i \in DOMAIN recent' : i >= j /\ recent'[i] = recent[j]
    BY <1>1, <1>3, <1>6
  <2> QED
    BY <2>1, <2>2, <2>3
<1>9. /\ popular' \in Seq(Tag)
      /\ \A j \in DOMAIN popular : popular[j] # t =>
           \E i \in DOMAIN popular' : i >= j /\ popular'[i] = popular[j]
      /\ \E i \in DOMAIN popular' : popular'[i] = t
  <2>1. /\ Len(popular) \in Nat /\ DOMAIN popular = 1..Len(popular)
        /\ \A i \in 1..Len(popular) : popular[i] \in Tag
    BY <1>1, LenProperties
  <2>2. CASE t \notin Listed /\ popular' = Append(popular, t)
    <3>1. /\ popular' \in Seq(Tag) /\ Len(popular') = Len(popular) + 1
          /\ popular'[Len(popular) + 1] = t
          /\ \A j \in 1..Len(popular) : popular'[j] = popular[j]
      BY <1>1, <2>2, AppendProperties
    <3>2. DOMAIN popular' = 1..(Len(popular) + 1)
      BY <3>1, LenProperties
    <3>3. /\ Len(popular) + 1 \in DOMAIN popular'
          /\ \A j \in DOMAIN popular : j \in DOMAIN popular' /\ j >= j
      BY <2>1, <3>2
    <3> QED
      BY <2>1, <3>1, <3>3
  <2>3. CASE t \in Listed /\ UNCHANGED popular
    <3>1. \E i \in DOMAIN recent : recent[i].tag = t
      BY <2>3 DEF Listed, Range
    <3>2. \E i \in DOMAIN popular : popular[i] = t
      BY <3>1 DEF ListingsOK
    <3>3. \A j \in DOMAIN popular : j >= j
      BY <2>1
    <3> QED
      BY <1>1, <2>3, <3>2, <3>3
  <2>4. CASE \E i \in 2..Len(popular) :
               /\ popular[i] = t
               /\ popular' = [popular EXCEPT ![i] = popular[i - 1], ![i - 1] = t]
    <3>1. PICK k \in 2..Len(popular) :
               /\ popular[k] = t
               /\ popular' = [popular EXCEPT ![k] = popular[k - 1], ![k - 1] = t]
      BY <2>4
    <3>2. k \in 1..Len(popular) /\ k - 1 \in 1..Len(popular) /\ k # k - 1 /\ k >= k - 1
      BY <2>1, <3>1
    <3>3. /\ popular' \in [1..Len(popular) -> Tag]
          /\ popular'[k] = popular[k - 1] /\ popular'[k - 1] = t
          /\ \A j \in 1..Len(popular) : j # k /\ j # k - 1 => popular'[j] = popular[j]
      <4>1. popular \in [1..Len(popular) -> Tag]
        BY <1>1, <2>1
      <4> QED
        BY <2>1, <3>1, <3>2, <4>1
    <3>4. popular' \in Seq(Tag) /\ DOMAIN popular' = 1..Len(popular)
      BY <2>1, <3>3, SeqDef
    <3>5. ASSUME NEW j \in DOMAIN popular, popular[j] # t
          PROVE  \E i \in DOMAIN popular' : i >= j /\ popular'[i] = popular[j]
      <4>1. CASE j = k - 1
        BY <3>2, <3>3, <3>4, <4>1
      <4>2. CASE j # k - 1
        <5>1. j # k /\ j >= j
          BY <2>1, <3>1, <3>5
        <5> QED
          BY <2>1, <3>3, <3>4, <4>2, <5>1
      <4> QED
        BY <4>1, <4>2
    <3> QED
      BY <3>2, <3>3, <3>4, <3>5
  <2> QED
    BY <2>2, <2>3, <2>4 DEF Activity
<1>10. TypeOK'
  BY <1>2, <1>6, <1>9 DEF TypeOK, Item
<1>11. ListingsOK'
  <2>1. ASSUME NEW i \in DOMAIN recent'
        PROVE  \E j \in DOMAIN popular' : popular'[j] = recent'[i].tag
    <3>1. CASE recent'[i] = new
      BY <1>1, <1>9, <3>1
    <3>2. CASE recent'[i] \in Range(recent) /\ recent'[i].tag # t
      <4>1. PICK k \in DOMAIN recent : recent[k] = recent'[i]
        BY <3>2 DEF Range
      <4>2. PICK j \in DOMAIN popular : popular[j] = recent[k].tag
        BY DEF ListingsOK
      <4> QED
        BY <1>9, <3>2, <4>1, <4>2
    <3> QED
      BY <1>7, <1>8, <3>1, <3>2
  <2> QED
    BY <1>2, <1>6, <1>8, <2>1 DEF ListingsOK
<1>12. \A e \in Range(recent') : e.at = now \/ (e \in Range(recent) /\ e.tag # t)
  BY <1>1, <1>8
<1> QED
  BY <1>8, <1>9, <1>10, <1>11, <1>12

\* A question is asked or answered on Stack Overflow.
LEMMA ActivityKeeps ==
  ASSUME IInv, NEW t \in Tag, Activity(t)
  PROVE  IInv'
<1>1. TypeOK /\ ListingsOK /\ DatesOK /\ FilesOK /\ TagsCovered /\ SynonymsCovered
  BY DEF IInv
<1>2. /\ TypeOK' /\ ListingsOK'
      /\ \A e \in Range(recent') : e.at = now \/ (e \in Range(recent) /\ e.tag # t)
      /\ \A j \in DOMAIN recent : recent[j].tag # t =>
           \E i \in DOMAIN recent' : i >= j /\ recent'[i] = recent[j]
      /\ \A j \in DOMAIN popular : popular[j] # t =>
           \E i \in DOMAIN popular' : i >= j /\ popular'[i] = popular[j]
  BY <1>1, ActivityMoves
<1>3. /\ UNCHANGED now /\ UNCHANGED aliases /\ UNCHANGED tags /\ UNCHANGED synonyms
      /\ UNCHANGED tagsFile /\ UNCHANGED synonymsFile
      /\ UNCHANGED pc /\ UNCHANGED job /\ UNCHANGED gap
      /\ UNCHANGED LastSyncDate
  BY DEF Activity, dbVars, fileVars, cliVars, history, LastSyncDate
<1>4. now \in Int
  BY <1>1, ElementTypes
<1>5. DatesOK'
  BY <1>1, <1>3 DEF DatesOK
<1>6. FilesOK'
  <2>1. tagsFile.begun \in Int /\ tagsFile.begun <= now
    <3>1. tagsFile.begun \in Moment \union {Never}
      BY <1>1 DEF TypeOK, File
    <3> QED
      BY <1>1, <3>1, MomentIsInt DEF FilesOK
  <2>2. \A e \in Range(recent') : e.at < tagsFile.begun => e \in Range(recent)
    BY <1>2, <1>4, <2>1
  <2> QED
    BY <1>1, <1>3, <2>2 DEF FilesOK
<1>7. ASSUME NEW r \in Run
      PROVE  RunOK(r)'
  <2>1. RunOK(r)
    BY DEF IInv
  <2>2. /\ job[r].tagsBegun \in Int /\ job[r].tagsBegun <= now /\ job[r].page \in Nat \ {0}
        /\ job[r].page - 1 \in Int /\ PageSize \in Nat
    <3>1. job[r].tagsBegun \in Moment /\ job[r].page \in Nat \ {0}
      BY <1>1 DEF TypeOK, Job
    <3>2. job[r].tagsBegun <= now
      BY <2>1 DEF RunOK, Asks
    <3> QED
      BY <3>1, <3>2, MomentIsInt, SizeAssumption
  <2>3. Shape(r)' /\ Asks(r)' /\ SynonymsFetched(r)' /\ SynonymsCurrent(r)'
    BY <1>3, <2>1 DEF RunOK, Shape, Asks, SynonymsFetched, SynonymsCurrent, SynonymAhead
  <2>4. \A e \in Range(recent') : e.at < job[r].tagsBegun => e \in Range(recent) /\ e.tag # t
    BY <1>2, <1>4, <2>2
  <2>5. TagsFetched(r)'
    <3>1. ASSUME NEW e \in Range(recent'), e \in Range(recent), e.tag # t, TagAhead(r, e)
          PROVE  TagAhead(r, e)'
      <4> DEFINE k == (job[r].page - 1) * PageSize
      <4>1. k \in Int /\ DOMAIN recent \subseteq Int /\ DOMAIN recent' \subseteq Int
            /\ DOMAIN popular \subseteq Int /\ DOMAIN popular' \subseteq Int
        <5>1. k \in Int
          BY <2>2
        <5>2. DOMAIN recent \subseteq Int /\ DOMAIN popular \subseteq Int
          BY <1>1, LenProperties DEF TypeOK
        <5>3. DOMAIN recent' \subseteq Int /\ DOMAIN popular' \subseteq Int
          BY <1>2, LenProperties DEF TypeOK
        <5> QED
          BY <5>1, <5>2, <5>3
      <4>2. k' = k
        BY <1>3
      <4> HIDE DEF k
      <4>3. CASE job[r].mode = "incremental"
        <5>1. PICK j \in DOMAIN recent : j > k /\ recent[j] = e
          BY <3>1, <4>3 DEF TagAhead, k
        <5>2. PICK i \in DOMAIN recent' : i >= j /\ recent'[i] = e
          BY <1>2, <3>1, <5>1
        <5>3. i > k'
          BY <4>1, <4>2, <5>1, <5>2
        <5> QED
          BY <1>3, <4>3, <5>2, <5>3 DEF TagAhead, k
      <4>4. CASE job[r].mode # "incremental"
        <5>1. PICK j \in DOMAIN popular : j > k /\ popular[j] = e.tag
          BY <3>1, <4>4 DEF TagAhead, k
        <5>2. PICK i \in DOMAIN popular' : i >= j /\ popular'[i] = e.tag
          BY <1>2, <3>1, <5>1
        <5>3. i > k'
          BY <4>1, <4>2, <5>1, <5>2
        <5> QED
          BY <1>3, <4>4, <5>2, <5>3 DEF TagAhead, k
      <4> QED
        BY <4>3, <4>4
    <3> QED
      BY <1>3, <2>1, <2>4, <3>1 DEF RunOK, TagsFetched
  <2>6. SynonymsResolved(r)'
    <3>1. DueTags(r)' \subseteq DueTags(r)
      BY <1>3, <2>4 DEF DueTags
    <3> QED
      BY <1>3, <2>1, <3>1 DEF RunOK, SynonymsResolved, KnownTags
  <2> QED
    BY <2>3, <2>5, <2>6 DEF RunOK
<1>8. TagsCovered'
  <2>1. LastSyncDate \in Int /\ LastSyncDate <= now
    BY <1>1, SyncDatePast
  <2>2. \A e \in Range(recent') : e.at < LastSyncDate => e \in Range(recent)
    BY <1>2, <1>4, <2>1
  <2> QED
    BY <1>1, <1>3, <2>2 DEF TagsCovered, SureTags
<1>9. SynonymsCovered'
  BY <1>1, <1>3 DEF SynonymsCovered, SureSynonyms, Fetches
<1> QED
  BY <1>2, <1>5, <1>6, <1>7, <1>8, <1>9 DEF IInv

\* A synonym is made, or given to another tag, at the front of its listing.
LEMMA AliasMoves ==
  ASSUME TypeOK, ListingsOK, NEW s \in Synonym, NEW t \in Tag, Alias(s, t)
  PROVE  /\ TypeOK' /\ ListingsOK'
         /\ \A e \in Range(aliases') : e.at = now \/ (e \in Range(aliases) /\ e.from # s)
         /\ \A j \in DOMAIN aliases : aliases[j].from # s =>
              \E i \in DOMAIN aliases' : i >= j /\ aliases'[i] = aliases[j]
         /\ \E e \in Range(aliases') : e.from = s /\ e.at = now
<1> DEFINE new == [from |-> s, to |-> t, at |-> now]
           Key == [e \in SynonymRow |-> e.from]
           S == {e \in Range(aliases) : e.from # s}
<1>1. /\ aliases \in Seq(SynonymRow) /\ new \in SynonymRow
      /\ new.from = s /\ new.at = now /\ now \in Int
      /\ \A e \in SynonymRow : e.at \in Int
      /\ \A e \in SynonymRow : Key[e] = e.from
      /\ Key[new] = s
  BY MomentIsInt DEF TypeOK, SynonymRow
<1>2. /\ UNCHANGED now /\ UNCHANGED recent /\ UNCHANGED popular /\ UNCHANGED tags /\ UNCHANGED synonyms
      /\ UNCHANGED tagsFile /\ UNCHANGED synonymsFile /\ UNCHANGED starts
      /\ UNCHANGED pc /\ UNCHANGED job /\ UNCHANGED synced /\ UNCHANGED gap
      /\ changes' \in 0..MaxChanges
  <2>1. MaxChanges \in Nat /\ changes \in 0..MaxChanges
    BY BoundAssumption DEF TypeOK
  <2> QED
    BY <2>1 DEF Alias, dbVars, fileVars, cliVars, history
<1>3. \A i \in DOMAIN aliases : aliases[i] \in SynonymRow /\ aliases[i] \in Range(aliases)
  BY <1>1, Items
<1>4. aliases' = Front(new, aliases, S)
  BY DEF Alias, Front
<1>5. InOrder(aliases, Key, now)
  BY <1>1, <1>3 DEF ListingsOK, InOrder
<1>6. \A i \in DOMAIN aliases : aliases[i] \in S <=> Key[aliases[i]] # Key[new]
  BY <1>1, <1>3
<1> HIDE DEF new, Key, S
<1>7. InOrder(aliases', Key, now) /\ Fronted(SynonymRow, aliases', new, aliases, Key)
  BY <1>1, <1>4, <1>5, <1>6, FrontKeepsOrder
<1>8. /\ aliases' \in Seq(SynonymRow) /\ 1 \in DOMAIN aliases' /\ aliases'[1] = new
      /\ \A i \in DOMAIN aliases' : aliases'[i].at <= now
      /\ \A i, j \in DOMAIN aliases' : i < j => aliases'[i].at >= aliases'[j].at
  BY <1>7 DEF InOrder, Fronted
<1>9. /\ \A i \in DOMAIN aliases' : aliases'[i] \in SynonymRow /\ aliases'[i] \in Range(aliases')
      /\ \A e \in Range(aliases') : e \in SynonymRow
  BY <1>8, Items
<1>10. \A i, j \in DOMAIN aliases' : aliases'[i].from = aliases'[j].from => i = j
  BY <1>1, <1>7, <1>9 DEF InOrder
<1>11. \A e \in Range(aliases') : e.at = now \/ (e \in Range(aliases) /\ e.from # s)
  BY <1>1, <1>7, <1>9 DEF Fronted
<1>12. \A j \in DOMAIN aliases : aliases[j].from # s =>
              \E i \in DOMAIN aliases' : i >= j /\ aliases'[i] = aliases[j]
  BY <1>1, <1>3, <1>7 DEF Fronted
<1>13. \E e \in Range(aliases') : e.from = s /\ e.at = now
  BY <1>1, <1>8, <1>9
<1>14. TypeOK'
  BY <1>2, <1>8 DEF TypeOK
<1>15. ListingsOK'
  BY <1>2, <1>8, <1>10 DEF ListingsOK
<1> QED
  BY <1>11, <1>12, <1>13, <1>14, <1>15

\* A synonym is made on Stack Overflow.
LEMMA AliasKeeps ==
  ASSUME IInv, NEW s \in Synonym, NEW t \in Tag, Alias(s, t)
  PROVE  IInv'
<1>1. TypeOK /\ ListingsOK /\ DatesOK /\ FilesOK /\ TagsCovered /\ SynonymsCovered
  BY DEF IInv
<1>2. /\ TypeOK' /\ ListingsOK'
      /\ \A e \in Range(aliases') : e.at = now \/ (e \in Range(aliases) /\ e.from # s)
      /\ \A j \in DOMAIN aliases : aliases[j].from # s =>
           \E i \in DOMAIN aliases' : i >= j /\ aliases'[i] = aliases[j]
  BY <1>1, AliasMoves
<1>3. /\ UNCHANGED now /\ UNCHANGED recent /\ UNCHANGED popular
      /\ UNCHANGED tags /\ UNCHANGED synonyms
      /\ UNCHANGED tagsFile /\ UNCHANGED synonymsFile
      /\ UNCHANGED pc /\ UNCHANGED job /\ UNCHANGED gap
      /\ UNCHANGED LastSyncDate
  BY DEF Alias, dbVars, fileVars, cliVars, history, LastSyncDate
<1>4. now \in Int
  BY <1>1, ElementTypes
<1>5. DatesOK'
  BY <1>1, <1>3 DEF DatesOK
<1>6. FilesOK'
  <2>1. synonymsFile.begun \in Int /\ synonymsFile.begun <= now
    <3>1. synonymsFile.begun \in Moment \union {Never}
      BY <1>1 DEF TypeOK, File
    <3> QED
      BY <1>1, <3>1, MomentIsInt DEF FilesOK
  <2>2. \A e \in Range(aliases') : e.at < synonymsFile.begun => e \in Range(aliases)
    BY <1>2, <1>4, <2>1
  <2> QED
    BY <1>1, <1>3, <2>2 DEF FilesOK
<1>7. ASSUME NEW r \in Run
      PROVE  RunOK(r)'
  <2>1. RunOK(r)
    BY DEF IInv
  <2>2. /\ job[r].synonymsBegun \in Int /\ job[r].synonymsBegun <= now
        /\ job[r].page \in Nat \ {0} /\ job[r].page - 1 \in Int /\ PageSize \in Nat
    <3>1. job[r].synonymsBegun \in Moment /\ job[r].page \in Nat \ {0}
      BY <1>1 DEF TypeOK, Job
    <3>2. job[r].synonymsBegun <= now
      BY <2>1 DEF RunOK, Asks
    <3> QED
      BY <3>1, <3>2, MomentIsInt, SizeAssumption
  <2>3. Shape(r)' /\ Asks(r)' /\ TagsFetched(r)'
    BY <1>3, <2>1 DEF RunOK, Shape, Asks, TagsFetched, TagAhead
  <2>4. \A e \in Range(aliases') : e.at < job[r].synonymsBegun =>
          e \in Range(aliases) /\ e.from # s
    BY <1>2, <1>4, <2>2
  <2>5. SynonymsFetched(r)'
    <3>1. ASSUME NEW e \in Range(aliases'), e \in Range(aliases), e.from # s, SynonymAhead(r, e)
          PROVE  SynonymAhead(r, e)'
      <4> DEFINE k == (job[r].page - 1) * PageSize
      <4>1. k \in Int /\ DOMAIN aliases \subseteq Int /\ DOMAIN aliases' \subseteq Int
        <5>1. k \in Int
          BY <2>2
        <5>2. DOMAIN aliases \subseteq Int
          BY <1>1, LenProperties DEF TypeOK
        <5>3. DOMAIN aliases' \subseteq Int
          BY <1>2, LenProperties DEF TypeOK
        <5> QED
          BY <5>1, <5>2, <5>3
      <4>2. k' = k
        BY <1>3
      <4> HIDE DEF k
      <4>3. PICK j \in DOMAIN aliases : j > k /\ aliases[j] = e
        BY <3>1 DEF SynonymAhead, k
      <4>4. PICK i \in DOMAIN aliases' : i >= j /\ aliases'[i] = e
        BY <1>2, <3>1, <4>3
      <4>5. i > k'
        BY <4>1, <4>2, <4>3, <4>4
      <4> QED
        BY <4>4, <4>5 DEF SynonymAhead, k
    <3> QED
      BY <1>3, <2>1, <2>4, <3>1 DEF RunOK, SynonymsFetched
  <2>6. SynonymsCurrent(r)'
    BY <1>3, <2>1, <2>4 DEF RunOK, SynonymsCurrent
  <2>7. SynonymsResolved(r)'
    BY <1>3, <2>1, <2>4 DEF RunOK, SynonymsResolved, KnownTags, DueTags
  <2> QED
    BY <2>3, <2>5, <2>6, <2>7 DEF RunOK
<1>8. TagsCovered'
  BY <1>1, <1>3 DEF TagsCovered, SureTags
<1>9. SynonymsCovered'
  <2>1. LastSyncDate \in Int /\ LastSyncDate <= now
    BY <1>1, SyncDatePast
  <2>2. \A e \in Range(aliases') : e.at < LastSyncDate => e \in Range(aliases) /\ e.from # s
    BY <1>2, <1>4, <2>1
  <2>3. \A e \in Range(aliases) : e.from # s => e \in Range(aliases')
    <3>1. aliases \in Seq(SynonymRow) /\ aliases' \in Seq(SynonymRow)
      BY <1>1, <1>2 DEF TypeOK
    <3> QED
      BY <1>2, <3>1, Items
  <2>4. ASSUME NEW r \in Run, NEW x, x # s, x \in SureSynonyms(r)
        PROVE  x \in SureSynonyms(r)'
    BY <1>3, <2>3, <2>4 DEF SureSynonyms, Fetches
  <2> QED
    BY <1>1, <1>3, <2>2, <2>4 DEF SynonymsCovered
<1> QED
  BY <1>2, <1>5, <1>6, <1>7, <1>8, <1>9 DEF IInv

-----------------------------------------------------------------------------
(***************************************************************************)
(* The steps of a run that write no table.                                 *)
(***************************************************************************)

\* What is left to show of a step of run r.
LEMMA RunStepKeeps ==
  ASSUME IInv, NEW r \in Run, TypeOK', OnlyRun(r), TablesGrow,
         UNCHANGED <<now, soVars>>, FilesOK', RunOK(r)', TagsCovered', SynonymsCovered'
  PROVE  IInv'
<1>1. UNCHANGED now /\ UNCHANGED recent /\ UNCHANGED popular /\ UNCHANGED aliases
  BY DEF soVars
<1>2. ListingsOK'
  BY <1>1 DEF IInv, ListingsOK
<1>3. DatesOK'
  <2>1. \A t \in Tag : tags[t] <= now
    BY DEF IInv, DatesOK
  <2>2. now <= now
    BY ElementTypes DEF IInv
  <2> QED
    BY <1>1, <2>1, <2>2 DEF DatesOK, TablesGrow
<1>4. \A q \in Run : RunOK(q)'
  <2>1. ASSUME NEW q \in Run, q # r
        PROVE  RunOK(q)'
    <3>1. job'[q] = job[q] /\ pc'[q] = pc[q]
      BY <2>1 DEF OnlyRun
    <3> QED
      BY <3>1, OtherRun DEF IInv
  <2> QED
    BY <2>1
<1> QED
  BY <1>2, <1>3, <1>4 DEF IInv

\* A step of run r writes pc and job there only.
LEMMA LocalStep ==
  ASSUME TypeOK, NEW r \in Run, NEW label, NEW j,
         pc' = [pc EXCEPT ![r] = label], job' = [job EXCEPT ![r] = j]
  PROVE  pc'[r] = label /\ job'[r] = j /\ OnlyRun(r)
  BY DEF TypeOK, OnlyRun

Label == {"idle", "date", "fetchTags", "saveTags", "fetchSynonyms",
          "saveSynonyms", "readTags", "readSynonyms", "upsertTags",
          "resolve", "upsertSynonyms"}

\* A move of one run to a label with well-typed locals keeps the types.
LEMMA LocalTypes ==
  ASSUME TypeOK, NEW r \in Run, NEW label \in Label, NEW j \in Job,
         pc' = [pc EXCEPT ![r] = label], job' = [job EXCEPT ![r] = j]
  PROVE  pc' \in [Run -> Label] /\ job' \in [Run -> Job]
  BY DEF TypeOK, Label

\* The locals of a run that has not started have their types.
LEMMA NewJobType == NewJob \in Job
<1>1. 0 \in Moment /\ 1 \in Nat \ {0} /\ "incremental" \in Mode
  BY BoundAssumption DEF Moment, Mode
<1>2. <<>> \in Seq(Tag) /\ <<>> \in Seq(SynonymRow)
  OBVIOUS
<1> QED
  BY <1>1, <1>2 DEF NewJob, Job

\* A process that has ended owes nothing.
LEMMA ExitedRunOK ==
  ASSUME TypeOK', NEW r \in Run, pc'[r] = "idle", job'[r] = NewJob
  PROVE  RunOK(r)'
<1>1. /\ job'[r].tagsBegun = 0 /\ job'[r].synonymsBegun = 0 /\ job'[r].since = 0
      /\ job'[r].page = 1 /\ job'[r].tags = <<>> /\ job'[r].synonyms = <<>>
      /\ job'[r].mode = "incremental"
  BY DEF NewJob
<1>2. now' >= 0 /\ now' \in Int
  BY MomentIsInt DEF TypeOK
<1>3. /\ \A e \in Range(recent') : ~(e.at < 0)
      /\ \A e \in Range(aliases') : ~(e.at < 0)
  <2>1. recent' \in Seq([tag : Tag, at : Moment]) /\ aliases' \in Seq(SynonymRow)
    BY DEF TypeOK
  <2>2. \A e \in [tag : Tag, at : Moment] \union SynonymRow : e.at \in Moment
    BY DEF SynonymRow
  <2>3. \A d \in Moment : ~(d < 0)
    BY MomentIsInt
  <2>4. /\ Range(recent') \subseteq [tag : Tag, at : Moment]
        /\ Range(aliases') \subseteq SynonymRow
    BY <2>1, RangeOfSeq
  <2> QED
    BY <2>2, <2>3, <2>4
<1>4. Shape(r)'
  BY <1>1 DEF Shape
<1>5. Asks(r)'
  BY <1>1, <1>2 DEF Asks
<1>6. TagsFetched(r)' /\ SynonymsFetched(r)'
  BY <1>1, <1>3 DEF TagsFetched, SynonymsFetched
<1>7. SynonymsCurrent(r)' /\ SynonymsResolved(r)'
  BY DEF SynonymsCurrent, SynonymsResolved
<1> QED
  BY <1>4, <1>5, <1>6, <1>7 DEF RunOK

\* The command is given.
LEMMA StartKeeps ==
  ASSUME IInv, NEW r \in Run, Start(r)
  PROVE  IInv'
<1>1. PICK m \in Mode, d \in BOOLEAN :
       /\ job' = [job EXCEPT ![r].mode = m, ![r].dry = d]
       /\ Goto(r, CASE m = "incremental" -> "date"
                    [] m = "full" -> "fetchTags"
                    [] m = "file" -> "readTags")
  BY DEF Start
<1> DEFINE j == [job[r] EXCEPT !.mode = m, !.dry = d]
           label == CASE m = "incremental" -> "date"
                      [] m = "full" -> "fetchTags"
                      [] m = "file" -> "readTags"
<1>2. TypeOK /\ RunOK(r) /\ pc[r] = "idle" /\ job[r] = NewJob
  BY DEF IInv, RunOK, Shape, Start, Running
<1>3. UNCHANGED <<now, soVars, dbVars, fileVars, history>>
  BY DEF Start
<1>4. /\ label \in Label
      /\ m = "incremental" => label = "date"
      /\ m = "full" => label = "fetchTags"
      /\ m = "file" => label = "readTags"
  BY DEF Mode, Label
<1>5. /\ j \in Job /\ j.mode = m
      /\ j.tagsBegun = 0 /\ j.synonymsBegun = 0 /\ j.since = 0
      /\ j.page = 1 /\ j.tags = <<>> /\ j.synonyms = <<>>
  <2>1. job[r] \in Job
    BY <1>2 DEF TypeOK
  <2>2. j \in Job
    BY <2>1 DEF Job
  <2>3. j = [NewJob EXCEPT !.mode = m, !.dry = d]
    BY <1>2
  <2>4. /\ j.mode = m
        /\ j.tagsBegun = 0 /\ j.synonymsBegun = 0 /\ j.since = 0
        /\ j.page = 1 /\ j.tags = <<>> /\ j.synonyms = <<>>
    <3> HIDE DEF j
    <3> QED
      BY <2>3 DEF NewJob
  <2> QED
    BY <2>2, <2>4
<1>6. pc' = [pc EXCEPT ![r] = label] /\ job' = [job EXCEPT ![r] = j]
  <2>1. job \in [Run -> Job]
    BY <1>2 DEF TypeOK
  <2>2. pc' = [pc EXCEPT ![r] = label]
    BY <1>1 DEF Goto
  <2>3. job' = [job EXCEPT ![r] = j]
    BY <1>1, <2>1
  <2> QED
    BY <2>2, <2>3
<1> HIDE DEF j, label
<1>7. pc'[r] = label /\ job'[r] = j /\ OnlyRun(r)
  BY <1>2, <1>6, LocalStep
<1>8. TypeOK'
  <2>1. starts' \in 0..MaxStarts
    BY <1>2, BoundAssumption DEF Start, TypeOK
  <2>2. pc' \in [Run -> Label] /\ job' \in [Run -> Job]
    BY <1>2, <1>4, <1>5, <1>6, LocalTypes
  <2> QED
    BY <1>2, <1>3, <2>1, <2>2 DEF TypeOK, Label, soVars, dbVars, fileVars, history
<1>9. RunOK(r)'
  <2>1. Shape(r)'
    BY <1>4, <1>5, <1>7 DEF Shape, Mode
  <2>2. Asks(r)'
    <3>1. now' >= 0
      BY <1>2, <1>3, MomentIsInt DEF TypeOK
    <3> QED
      BY <1>4, <1>5, <1>7, <3>1 DEF Asks
  <2>3. /\ \A e \in Range(recent') : ~(e.at < 0)
        /\ \A e \in Range(aliases') : ~(e.at < 0)
    BY <1>2, <1>3, ElementTypes DEF soVars
  <2>4. TagsFetched(r)' /\ SynonymsFetched(r)'
    BY <1>5, <1>7, <2>3 DEF TagsFetched, SynonymsFetched
  <2>5. SynonymsCurrent(r)' /\ SynonymsResolved(r)'
    BY <1>4, <1>7 DEF SynonymsCurrent, SynonymsResolved, Mode
  <2> QED
    BY <2>1, <2>2, <2>4, <2>5 DEF RunOK
<1>10. FilesOK' /\ TablesGrow
  <2>1. FilesOK
    BY DEF IInv
  <2> QED
    BY <1>3, <2>1 DEF FilesOK, TablesGrow, soVars, dbVars, fileVars
<1>11. TagsCovered' /\ SynonymsCovered'
  <2>1. SureTags(r) = {} /\ SureSynonyms(r) = {}
    BY <1>2 DEF SureTags, SureSynonyms, Fetches
  <2>2. gap \subseteq gap' /\ UNCHANGED <<soVars, dbVars>>
    BY <1>3 DEF history
  <2>3. TagsCovered /\ SynonymsCovered
    BY DEF IInv
  <2> QED
    BY <1>7, <2>1, <2>2, <2>3, StillCovered
<1> QED
  BY <1>3, <1>7, <1>8, <1>9, <1>10, <1>11, RunStepKeeps

\* A process that ends keeps no locals and disturbs no other.
LEMMA ExitStep ==
  ASSUME TypeOK, NEW r \in Run, Exit(r)
  PROVE  /\ pc'[r] = "idle" /\ job'[r] = NewJob /\ OnlyRun(r)
         /\ pc' \in [Run -> Label] /\ job' \in [Run -> Job]
<1>1. pc' = [pc EXCEPT ![r] = "idle"] /\ job' = [job EXCEPT ![r] = NewJob]
  BY DEF Exit, Goto
<1>2. "idle" \in Label
  BY DEF Label
<1> QED
  BY <1>1, <1>2, LocalStep, LocalTypes, NewJobType

\* Nothing is listed before time 0, nor fetched before the fetch begins.
LEMMA NothingEarlier ==
  ASSUME TypeOK
  PROVE  /\ \A e \in Range(recent) : ~(e.at < 0) /\ 0 <= e.at
         /\ \A e \in Range(aliases) : ~(e.at < 0) /\ 0 <= e.at
  BY ElementTypes

\* run_incremental_sync reads the date of the last sync.
LEMMA TakeDateKeeps ==
  ASSUME IInv, NEW r \in Run, TakeDate(r)
  PROVE  IInv'
<1>1. /\ TypeOK /\ RunOK(r) /\ FilesOK /\ TagsCovered /\ SynonymsCovered /\ DatesOK
      /\ pc[r] = "date"
      /\ UNCHANGED <<now, starts, soVars, dbVars, fileVars, history>>
  BY DEF IInv, TakeDate
<1>2. /\ UNCHANGED LastSyncDate /\ UNCHANGED now /\ UNCHANGED recent /\ UNCHANGED aliases
      /\ UNCHANGED tags /\ UNCHANGED synonyms /\ UNCHANGED gap
      /\ FilesOK' /\ TablesGrow
  BY <1>1 DEF soVars, dbVars, history, fileVars, LastSyncDate, FilesOK, TablesGrow
<1>3. SureTags(r) = {} /\ SureSynonyms(r) = {}
  BY <1>1 DEF SureTags, SureSynonyms, Fetches
<1>4. ASSUME pc' \in [Run -> Label], job' \in [Run -> Job], OnlyRun(r), RunOK(r)'
      PROVE  IInv'
  <2>1. TypeOK'
    BY <1>1, <1>4 DEF TypeOK, Label, soVars, dbVars, fileVars, history
  <2>2. TagsCovered' /\ SynonymsCovered'
    BY <1>1, <1>2, <1>3, <1>4, StillCovered
  <2> QED
    BY <1>1, <1>2, <1>4, <2>1, <2>2, RunStepKeeps
<1>5. CASE LastSyncDate = Never /\ Exit(r)
  <2>1. /\ pc'[r] = "idle" /\ job'[r] = NewJob /\ OnlyRun(r)
        /\ pc' \in [Run -> Label] /\ job' \in [Run -> Job]
    BY <1>1, <1>5, ExitStep
  <2>2. TypeOK'
    BY <1>1, <2>1 DEF TypeOK, Label, soVars, dbVars, fileVars, history
  <2>3. RunOK(r)'
    BY <2>1, <2>2, ExitedRunOK
  <2> QED
    BY <1>4, <2>1, <2>3
<1>6. CASE /\ LastSyncDate # Never
           /\ job' = [job EXCEPT ![r].since = LastSyncDate]
           /\ Goto(r, "fetchTags")
  <2> DEFINE j == [job[r] EXCEPT !.since = LastSyncDate]
  <2>1. job[r] \in Job
    BY <1>1 DEF TypeOK
  <2>2. LastSyncDate \in Moment
    BY <1>1, <1>6, LastSyncDateIsNewest, NewestIsMax DEF TypeOK
  <2>3. /\ j \in Job /\ j.mode = job[r].mode /\ j.since = LastSyncDate
        /\ j.page = job[r].page /\ j.tagsBegun = job[r].tagsBegun
        /\ j.synonyms = job[r].synonyms /\ j.synonymsBegun = job[r].synonymsBegun
    BY <2>1, <2>2 DEF Job
  <2>4. job' = [job EXCEPT ![r] = j] /\ pc' = [pc EXCEPT ![r] = "fetchTags"]
    BY <1>6 DEF Goto
  <2> HIDE DEF j
  <2>5. /\ pc'[r] = "fetchTags" /\ job'[r] = j /\ OnlyRun(r)
        /\ pc' \in [Run -> Label] /\ job' \in [Run -> Job]
    <3>1. "fetchTags" \in Label
      BY DEF Label
    <3> QED
      BY <1>1, <2>3, <2>4, <3>1, LocalStep, LocalTypes
  <2>6. RunOK(r)'
    <3>1. Shape(r) /\ Asks(r)
      BY <1>1 DEF RunOK
    <3>2. /\ job[r].mode = "incremental" /\ job[r].tagsBegun = 0 /\ job[r].page = 1
          /\ job[r].synonyms = <<>> /\ job[r].synonymsBegun = 0
      BY <1>1, <3>1 DEF Shape
    <3>3. Shape(r)'
      BY <2>3, <2>5, <3>2 DEF Shape
    <3>4. Asks(r)'
      <4>1. LastSyncDate <= LastSyncDate
        BY <2>2, MomentIsInt
      <4> QED
        BY <1>2, <2>3, <2>5, <3>1, <4>1 DEF Asks
    <3>5. TagsFetched(r)' /\ SynonymsFetched(r)'
      BY <1>1, <1>2, <2>3, <2>5, <3>2, NothingEarlier DEF TagsFetched, SynonymsFetched
    <3>6. SynonymsCurrent(r)' /\ SynonymsResolved(r)'
      BY <2>5 DEF SynonymsCurrent, SynonymsResolved
    <3> QED
      BY <3>3, <3>4, <3>5, <3>6 DEF RunOK
  <2> QED
    BY <1>4, <2>5, <2>6
<1> QED
  BY <1>5, <1>6 DEF TakeDate

\* run_full_sync saves the tags.
LEMMA SaveTagsKeeps ==
  ASSUME IInv, NEW r \in Run, SaveTags(r)
  PROVE  IInv'
<1>1. /\ TypeOK /\ RunOK(r) /\ FilesOK /\ TagsCovered /\ SynonymsCovered
      /\ pc[r] = "saveTags" /\ pc' = [pc EXCEPT ![r] = "fetchSynonyms"]
      /\ UNCHANGED <<now, starts, soVars, dbVars, synonymsFile, job, history>>
      /\ tagsFile' = [rows |-> job[r].tags, begun |-> job[r].tagsBegun,
                      passed |-> job[r].tagsPassed]
  BY DEF IInv, SaveTags, Goto
<1>2. /\ UNCHANGED LastSyncDate /\ UNCHANGED now /\ UNCHANGED recent /\ UNCHANGED aliases
      /\ UNCHANGED tags /\ UNCHANGED synonyms /\ UNCHANGED gap /\ UNCHANGED job
      /\ UNCHANGED synonymsFile /\ TablesGrow
  BY <1>1 DEF soVars, dbVars, history, LastSyncDate, TablesGrow
<1>3. /\ job[r] \in Job /\ job[r].tags \in Seq(Tag) /\ job[r].tagsBegun \in Moment
      /\ job[r].tagsPassed \subseteq Tag
      /\ pc'[r] = "fetchSynonyms" /\ OnlyRun(r) /\ pc' \in [Run -> Label]
  BY <1>1, <1>2 DEF TypeOK, Job, OnlyRun, Label
<1>4. TypeOK'
  <2>1. tagsFile' \in File(Tag, Tag)
    BY <1>1, <1>3 DEF File
  <2> QED
    BY <1>1, <1>3, <2>1 DEF TypeOK, Label, soVars, dbVars, history
<1>5. /\ Shape(r) /\ Asks(r) /\ TagsFetched(r)
      /\ job[r].mode = "full" /\ job[r].page = 1 /\ job[r].since = 0
      /\ job[r].synonyms = <<>> /\ job[r].synonymsBegun = 0
  BY <1>1 DEF RunOK, Shape
<1>6. FilesOK'
  <2>1. /\ tagsFile'.begun = job[r].tagsBegun /\ tagsFile'.rows = job[r].tags
        /\ tagsFile'.passed = job[r].tagsPassed
    BY <1>1
  <2>2. \A e \in Range(recent) :
          e.at < job[r].tagsBegun /\ e.tag \notin job[r].tagsPassed =>
            e.tag \in Range(job[r].tags)
    BY <1>1, <1>5, NothingEarlier DEF TagsFetched
  <2>3. tagsFile'.begun # Never /\ tagsFile'.begun <= now
    BY <1>3, <1>5, <2>1, BoundAssumption DEF Moment, Never, Asks
  <2> QED
    BY <1>1, <1>2, <2>1, <2>2, <2>3 DEF FilesOK
<1>7. RunOK(r)'
  <2>1. Shape(r)' /\ Asks(r)'
    BY <1>2, <1>3, <1>5 DEF Shape, Asks
  <2>2. TagsFetched(r)'
    BY <1>1, <1>2, <1>3, <1>5 DEF TagsFetched
  <2>3. SynonymsFetched(r)'
    BY <1>1, <1>2, <1>5, NothingEarlier DEF SynonymsFetched
  <2>4. SynonymsCurrent(r)' /\ SynonymsResolved(r)'
    BY <1>1, <1>2, <1>3, <1>5, NothingEarlier DEF SynonymsCurrent, SynonymsResolved
  <2> QED
    BY <2>1, <2>2, <2>3, <2>4 DEF RunOK
<1>8. TagsCovered' /\ SynonymsCovered'
  <2>1. SureTags(r) = {} /\ SureSynonyms(r) = {}
    BY <1>1, <1>5 DEF SureTags, SureSynonyms, Fetches
  <2> QED
    BY <1>1, <1>2, <1>3, <2>1, StillCovered
<1> QED
  BY <1>1, <1>2, <1>3, <1>4, <1>6, <1>7, <1>8, RunStepKeeps

\* The listing of synonyms that a run fetched goes into its file.
LEMMA SaveSynonymsKeeps ==
  ASSUME IInv, NEW r \in Run, SaveSynonyms(r)
  PROVE  IInv'
<1>1. /\ TypeOK /\ RunOK(r) /\ FilesOK /\ TagsCovered /\ SynonymsCovered
      /\ pc[r] = "saveSynonyms"
      /\ UNCHANGED <<now, starts, soVars, dbVars, tagsFile, history>>
      /\ synonymsFile' = [rows |-> job[r].synonyms, begun |-> job[r].synonymsBegun,
                          passed |-> job[r].synonymsPassed]
  BY DEF IInv, SaveSynonyms
<1>2. /\ UNCHANGED LastSyncDate /\ UNCHANGED now /\ UNCHANGED recent /\ UNCHANGED aliases
      /\ UNCHANGED tags /\ UNCHANGED synonyms /\ UNCHANGED gap
      /\ UNCHANGED tagsFile /\ TablesGrow
  BY <1>1 DEF soVars, dbVars, history, LastSyncDate, TablesGrow
<1>3. /\ job[r] \in Job /\ job[r].synonyms \in Seq(SynonymRow)
      /\ job[r].synonymsBegun \in Moment /\ job[r].synonymsPassed \subseteq Synonym
  BY <1>1 DEF TypeOK, Job
<1>4. /\ Shape(r) /\ Asks(r) /\ TagsFetched(r) /\ SynonymsFetched(r)
      /\ job[r].mode = "full" /\ job[r].page = 1 /\ job[r].since = 0
  BY <1>1 DEF RunOK, Shape
<1>5. FilesOK' /\ synonymsFile' \in File(SynonymRow, Synonym)
  <2>1. /\ synonymsFile'.begun = job[r].synonymsBegun /\ synonymsFile'.rows = job[r].synonyms
        /\ synonymsFile'.passed = job[r].synonymsPassed
    BY <1>1
  <2>2. \A e \in Range(aliases) :
          e.at < job[r].synonymsBegun /\ e.from \notin job[r].synonymsPassed =>
            e \in Range(job[r].synonyms)
    BY <1>1, <1>4, NothingEarlier DEF SynonymsFetched
  <2>3. synonymsFile'.begun # Never /\ synonymsFile'.begun <= now
    BY <1>3, <1>4, <2>1, BoundAssumption DEF Moment, Never, Asks
  <2>4. synonymsFile' \in File(SynonymRow, Synonym)
    BY <1>1, <1>3 DEF File
  <2> QED
    BY <1>1, <1>2, <2>1, <2>2, <2>3, <2>4 DEF FilesOK
<1>6. ASSUME pc' \in [Run -> Label], job' \in [Run -> Job], OnlyRun(r), RunOK(r)'
      PROVE  IInv'
  <2>1. TypeOK'
    BY <1>1, <1>5, <1>6 DEF TypeOK, Label, soVars, dbVars, history
  <2>2. SureTags(r) = {} /\ SureSynonyms(r) = {}
    BY <1>1, <1>4 DEF SureTags, SureSynonyms, Fetches
  <2>3. TagsCovered' /\ SynonymsCovered'
    BY <1>1, <1>2, <1>6, <2>2, StillCovered
  <2> QED
    BY <1>1, <1>2, <1>5, <1>6, <2>1, <2>3, RunStepKeeps
<1>7. CASE job[r].dry /\ Exit(r)
  <2>1. /\ pc'[r] = "idle" /\ job'[r] = NewJob /\ OnlyRun(r)
        /\ pc' \in [Run -> Label] /\ job' \in [Run -> Job]
    BY <1>1, <1>7, ExitStep
  <2>2. TypeOK'
    BY <1>1, <1>5, <2>1 DEF TypeOK, Label, soVars, dbVars, history
  <2> QED
    BY <1>6, <2>1, <2>2, ExitedRunOK
<1>8. CASE ~job[r].dry /\ Goto(r, "upsertTags") /\ UNCHANGED job
  <2>1. /\ pc'[r] = "upsertTags" /\ job' = job /\ OnlyRun(r)
        /\ pc' \in [Run -> Label] /\ job' \in [Run -> Job]
    BY <1>1, <1>8 DEF Goto, TypeOK, Label, OnlyRun
  <2>2. Shape(r)' /\ Asks(r)'
    BY <1>2, <1>4, <2>1 DEF Shape, Asks
  <2>3. TagsFetched(r)' /\ SynonymsFetched(r)'
    BY <1>1, <1>2, <1>4, <2>1 DEF TagsFetched, SynonymsFetched
  <2>4. SynonymsCurrent(r)' /\ SynonymsResolved(r)'
    BY <2>1 DEF SynonymsCurrent, SynonymsResolved
  <2> QED
    BY <1>6, <2>1, <2>2, <2>3, <2>4 DEF RunOK
<1> QED
  BY <1>7, <1>8 DEF SaveSynonyms

\* run_from_file reads the tags.
LEMMA ReadTagsKeeps ==
  ASSUME IInv, NEW r \in Run, ReadTags(r)
  PROVE  IInv'
<1> DEFINE j == [job[r] EXCEPT !.tags = tagsFile.rows, !.tagsBegun = tagsFile.begun,
                               !.tagsPassed = tagsFile.passed]
<1>1. /\ TypeOK /\ RunOK(r) /\ FilesOK /\ TagsCovered /\ SynonymsCovered
      /\ pc[r] = "readTags" /\ tagsFile # NoFile
      /\ UNCHANGED <<now, starts, soVars, dbVars, fileVars, history>>
      /\ pc' = [pc EXCEPT ![r] = "readSynonyms"]
  BY DEF IInv, ReadTags, Goto
<1>2. /\ UNCHANGED LastSyncDate /\ UNCHANGED now /\ UNCHANGED recent /\ UNCHANGED aliases
      /\ UNCHANGED tags /\ UNCHANGED synonyms /\ UNCHANGED gap
      /\ FilesOK' /\ TablesGrow
  BY <1>1 DEF soVars, dbVars, history, fileVars, LastSyncDate, FilesOK, TablesGrow
<1>3. /\ job[r] \in Job /\ tagsFile.rows \in Seq(Tag) /\ tagsFile.begun \in Moment
      /\ tagsFile.passed \subseteq Tag
  BY <1>1 DEF TypeOK, FilesOK, File
<1>4. /\ j \in Job /\ j.tags = tagsFile.rows /\ j.tagsBegun = tagsFile.begun
      /\ j.tagsPassed = tagsFile.passed
      /\ j.mode = job[r].mode /\ j.since = job[r].since /\ j.page = job[r].page
      /\ j.synonyms = job[r].synonyms /\ j.synonymsBegun = job[r].synonymsBegun
  BY <1>3 DEF Job
<1>5. job' = [job EXCEPT ![r] = j]
  <2>1. job \in [Run -> Job]
    BY <1>1 DEF TypeOK
  <2> QED
    BY <2>1 DEF ReadTags
<1> HIDE DEF j
<1>6. /\ pc'[r] = "readSynonyms" /\ job'[r] = j /\ OnlyRun(r)
      /\ pc' \in [Run -> Label] /\ job' \in [Run -> Job]
  <2>1. "readSynonyms" \in Label
    BY DEF Label
  <2> QED
    BY <1>1, <1>4, <1>5, <2>1, LocalStep, LocalTypes
<1>7. TypeOK'
  BY <1>1, <1>6 DEF TypeOK, Label, soVars, dbVars, fileVars, history
<1>8. RunOK(r)'
  <2>1. Shape(r) /\ Asks(r)
    BY <1>1 DEF RunOK
  <2>2. /\ job[r].mode = "file" /\ job[r].since = 0 /\ job[r].page = 1
        /\ job[r].synonyms = <<>> /\ job[r].synonymsBegun = 0
    BY <1>1, <2>1 DEF Shape
  <2>3. Shape(r)'
    BY <1>4, <1>6, <2>2 DEF Shape
  <2>4. Asks(r)'
    BY <1>1, <1>2, <1>4, <1>6, <2>1, <2>2 DEF Asks, FilesOK
  <2>5. TagsFetched(r)'
    BY <1>1, <1>2, <1>4, <1>6 DEF TagsFetched, FilesOK
  <2>6. SynonymsFetched(r)'
    BY <1>1, <1>2, <1>4, <1>6, <2>2, NothingEarlier DEF SynonymsFetched
  <2>7. SynonymsCurrent(r)' /\ SynonymsResolved(r)'
    BY <1>6 DEF SynonymsCurrent, SynonymsResolved
  <2> QED
    BY <2>3, <2>4, <2>5, <2>6, <2>7 DEF RunOK
<1>9. TagsCovered' /\ SynonymsCovered'
  <2>1. SureTags(r) = {} /\ SureSynonyms(r) = {}
    BY <1>1 DEF SureTags, SureSynonyms, Fetches
  <2> QED
    BY <1>1, <1>2, <1>6, <2>1, StillCovered
<1> QED
  BY <1>1, <1>2, <1>6, <1>7, <1>8, <1>9, RunStepKeeps

\* run_from_file reads the synonyms.
LEMMA ReadSynonymsKeeps ==
  ASSUME IInv, NEW r \in Run, ReadSynonyms(r)
  PROVE  IInv'
<1>1. /\ TypeOK /\ RunOK(r) /\ FilesOK /\ TagsCovered /\ SynonymsCovered
      /\ pc[r] = "readSynonyms" /\ synonymsFile # NoFile
      /\ UNCHANGED <<now, starts, soVars, dbVars, fileVars, history>>
  BY DEF IInv, ReadSynonyms
<1>2. /\ UNCHANGED LastSyncDate /\ UNCHANGED now /\ UNCHANGED recent /\ UNCHANGED aliases
      /\ UNCHANGED tags /\ UNCHANGED synonyms /\ UNCHANGED gap
      /\ FilesOK' /\ TablesGrow
  BY <1>1 DEF soVars, dbVars, history, fileVars, LastSyncDate, FilesOK, TablesGrow
<1>3. ASSUME pc' \in [Run -> Label], job' \in [Run -> Job], OnlyRun(r), RunOK(r)'
      PROVE  IInv'
  <2>1. TypeOK'
    BY <1>1, <1>3 DEF TypeOK, Label, soVars, dbVars, fileVars, history
  <2>2. SureTags(r) = {} /\ SureSynonyms(r) = {}
    BY <1>1 DEF SureTags, SureSynonyms, Fetches
  <2>3. TagsCovered' /\ SynonymsCovered'
    BY <1>1, <1>2, <1>3, <2>2, StillCovered
  <2> QED
    BY <1>1, <1>2, <1>3, <2>1, <2>3, RunStepKeeps
<1>4. CASE job[r].dry /\ Exit(r)
  <2>1. /\ pc'[r] = "idle" /\ job'[r] = NewJob /\ OnlyRun(r)
        /\ pc' \in [Run -> Label] /\ job' \in [Run -> Job]
    BY <1>1, <1>4, ExitStep
  <2>2. TypeOK'
    BY <1>1, <2>1 DEF TypeOK, Label, soVars, dbVars, fileVars, history
  <2> QED
    BY <1>3, <2>1, <2>2, ExitedRunOK
<1>5. CASE /\ ~job[r].dry
           /\ job' = [job EXCEPT ![r].synonyms = synonymsFile.rows,
                                 ![r].synonymsBegun = synonymsFile.begun,
                                 ![r].synonymsPassed = synonymsFile.passed]
           /\ Goto(r, "upsertTags")
  <2> DEFINE j == [job[r] EXCEPT !.synonyms = synonymsFile.rows,
                                 !.synonymsBegun = synonymsFile.begun,
                                 !.synonymsPassed = synonymsFile.passed]
  <2>1. /\ job[r] \in Job /\ synonymsFile.rows \in Seq(SynonymRow)
        /\ synonymsFile.begun \in Moment /\ synonymsFile.passed \subseteq Synonym
    BY <1>1 DEF TypeOK, FilesOK, File
  <2>2. /\ j \in Job /\ j.synonyms = synonymsFile.rows /\ j.synonymsBegun = synonymsFile.begun
        /\ j.mode = job[r].mode /\ j.since = job[r].since /\ j.page = job[r].page
        /\ j.tags = job[r].tags /\ j.tagsBegun = job[r].tagsBegun
        /\ j.tagsPassed = job[r].tagsPassed /\ j.synonymsPassed = synonymsFile.passed
    BY <2>1 DEF Job
  <2>3. job' = [job EXCEPT ![r] = j] /\ pc' = [pc EXCEPT ![r] = "upsertTags"]
    <3>1. job \in [Run -> Job]
      BY <1>1 DEF TypeOK
    <3>2. job' = [job EXCEPT ![r] = j]
      BY <1>5, <3>1
    <3> QED
      BY <1>5, <3>2 DEF Goto
  <2> HIDE DEF j
  <2>4. /\ pc'[r] = "upsertTags" /\ job'[r] = j /\ OnlyRun(r)
        /\ pc' \in [Run -> Label] /\ job' \in [Run -> Job]
    <3>1. "upsertTags" \in Label
      BY DEF Label
    <3> QED
      BY <1>1, <2>2, <2>3, <3>1, LocalStep, LocalTypes
  <2>5. Shape(r) /\ Asks(r) /\ TagsFetched(r)
    BY <1>1 DEF RunOK
  <2>6. job[r].mode = "file" /\ job[r].since = 0 /\ job[r].page = 1
    BY <1>1, <2>5 DEF Shape
  <2>7. Shape(r)'
    BY <2>2, <2>4, <2>6 DEF Shape
  <2>8. Asks(r)'
    BY <1>1, <1>2, <2>2, <2>4, <2>5, <2>6 DEF Asks, FilesOK
  <2>9. TagsFetched(r)'
    BY <1>1, <1>2, <2>2, <2>4, <2>5 DEF TagsFetched
  <2>10. SynonymsFetched(r)'
    BY <1>1, <1>2, <2>2, <2>4 DEF SynonymsFetched, FilesOK
  <2>11. SynonymsCurrent(r)' /\ SynonymsResolved(r)'
    BY <2>4 DEF SynonymsCurrent, SynonymsResolved
  <2> QED
    BY <1>3, <2>4, <2>7, <2>8, <2>9, <2>10, <2>11 DEF RunOK
<1> QED
  BY <1>4, <1>5 DEF ReadSynonyms

\* A synonym is behind under its name only once.
LEMMA BehindSynonym ==
  ASSUME NEW e \in Range(aliases), synonyms[e.from] = NoTag, e.at < LastSyncDate
  PROVE  ASynonym(e.from) \in Behind
  BY DEF Behind

\* A tag that is missing and older than the date is behind.
LEMMA BehindTag ==
  ASSUME NEW e \in Range(recent), tags[e.tag] = Never, e.at < LastSyncDate
  PROVE  ATag(e.tag) \in Behind
  BY DEF Behind

\* What a run is certain to write is pending.
LEMMA SureIsPending ==
  ASSUME NEW r \in Run
  PROVE  /\ \A t \in SureTags(r) : ATag(t) \in Pending(r)
         /\ \A s \in SureSynonyms(r) : ASynonym(s) \in Pending(r)
<1>1. \A t \in SureTags(r) : ATag(t) \in Pending(r)
  BY DEF SureTags, Pending
<1>2. \A s \in SureSynonyms(r) : ASynonym(s) \in Pending(r)
  <2>1. CASE Fetches(r)
    <3>1. \A s \in SureSynonyms(r) : \E f \in Range(aliases) : f.at >= job[r].since /\ f.from = s
      BY <2>1 DEF SureSynonyms
    <3> QED
      BY <2>1, <3>1 DEF Fetches, Pending
  <2>2. CASE ~Fetches(r)
    BY <2>2 DEF SureSynonyms, Pending
  <2> QED
    BY <2>1, <2>2
<1> QED
  BY <1>1, <1>2

\* A run fails: what it was certain to write is pending, and so recorded.
LEMMA FailKeeps ==
  ASSUME IInv, NEW r \in Run, Fail(r)
  PROVE  IInv'
<1>1. /\ TypeOK /\ FilesOK /\ TagsCovered /\ SynonymsCovered
      /\ UNCHANGED <<now, starts, soVars, dbVars, synced>>
      /\ tagsFile' \in {tagsFile, NoFile} /\ synonymsFile' \in {synonymsFile, NoFile}
      /\ gap' = gap \union (Behind \intersect Pending(r))
      /\ Exit(r)
  BY DEF IInv, Fail
<1>2. /\ UNCHANGED LastSyncDate /\ UNCHANGED now /\ UNCHANGED recent /\ UNCHANGED aliases
      /\ UNCHANGED tags /\ UNCHANGED synonyms /\ TablesGrow
  BY <1>1 DEF soVars, dbVars, LastSyncDate, TablesGrow
<1>3. /\ pc'[r] = "idle" /\ job'[r] = NewJob /\ OnlyRun(r)
      /\ pc' \in [Run -> Label] /\ job' \in [Run -> Job]
  BY <1>1, ExitStep
<1>4. /\ NoFile \in File(Tag, Tag) /\ NoFile \in File(SynonymRow, Synonym)
      /\ NoFile.begun = Never /\ Never <= now
  <2>1. <<>> \in Seq(Tag) /\ <<>> \in Seq(SynonymRow)
    OBVIOUS
  <2>2. Never <= now
    BY <1>1, MomentIsInt DEF TypeOK, Never
  <2> QED
    BY <2>1, <2>2 DEF NoFile, File
<1>5. tagsFile' \in File(Tag, Tag) /\ synonymsFile' \in File(SynonymRow, Synonym)
  BY <1>1, <1>4 DEF TypeOK
<1>6. Behind \subseteq {ATag(t) : t \in Tag} \union {ASynonym(s) : s \in Synonym}
  BY <1>1, ElementTypes DEF Behind
<1>7. TypeOK'
  BY <1>1, <1>3, <1>5, <1>6 DEF TypeOK, Label, soVars, dbVars
<1>8. FilesOK'
  <2>1. /\ \A e \in Range(recent) : ~(e.at < Never)
        /\ \A e \in Range(aliases) : ~(e.at < Never)
    BY <1>1, ElementTypes DEF Never
  <2>2. /\ tagsFile' # NoFile => tagsFile'.begun # Never
        /\ tagsFile'.begun <= now
        /\ \A e \in Range(recent) :
             e.at < tagsFile'.begun /\ e.tag \notin tagsFile'.passed =>
               e.tag \in Range(tagsFile'.rows)
    BY <1>1, <1>4, <2>1 DEF FilesOK
  <2>3. /\ synonymsFile' # NoFile => synonymsFile'.begun # Never
        /\ synonymsFile'.begun <= now
        /\ \A e \in Range(aliases) :
             e.at < synonymsFile'.begun /\ e.from \notin synonymsFile'.passed =>
               e \in Range(synonymsFile'.rows)
    BY <1>1, <1>4, <2>1 DEF FilesOK
  <2> QED
    BY <1>2, <2>2, <2>3 DEF FilesOK
<1>9. TagsCovered' /\ SynonymsCovered'
  BY <1>1, <1>2, <1>3, BehindTag, BehindSynonym, SureIsPending, StillCovered
<1> QED
  BY <1>1, <1>2, <1>3, <1>7, <1>8, <1>9, ExitedRunOK, RunStepKeeps

\* One page later: n pages hold n * PageSize items.
LEMMA PageArithmetic ==
  ASSUME NEW n \in Nat \ {0}
  PROVE  /\ (n - 1) * PageSize \in Nat /\ n * PageSize \in Nat
         /\ ((n + 1) - 1) * PageSize = n * PageSize
         /\ n + 1 \in Nat \ {0} /\ n + 1 # 1 /\ n + 1 > 1
         /\ (1 - 1) * PageSize = 0
<1>1. PageSize \in Nat /\ n - 1 \in Nat /\ (n + 1) - 1 = n /\ 1 - 1 = 0
  BY SizeAssumption
<1> QED
  BY <1>1

\* What fetching a page of tags does to the locals.
LEMMA FetchTagsEffect ==
  ASSUME TypeOK, ListingsOK, NEW r \in Run, FetchTags(r)
  PROVE  LET n == job[r].page
             l == TagListing(r)
         IN  /\ pc' \in [Run -> Label] /\ job' \in [Run -> Job] /\ OnlyRun(r)
             /\ Range(job'[r].tags) \subseteq Tag
             /\ Range(job[r].tags) \subseteq Range(job'[r].tags)
             /\ Range(PageOf(l, n)) \subseteq Range(job'[r].tags)
             /\ job'[r].tagsBegun = IF n = 1 THEN now ELSE job[r].tagsBegun
             /\ job'[r].tagsPassed = IF n = 1 THEN {} ELSE job[r].tagsPassed
             /\ job'[r].page = IF HasMore(l, n) THEN n + 1 ELSE 1
             /\ pc'[r] = IF HasMore(l, n) THEN "fetchTags"
                         ELSE IF job[r].mode = "full" THEN "saveTags" ELSE "upsertTags"
             /\ job'[r].mode = job[r].mode /\ job'[r].since = job[r].since
             /\ job'[r].synonyms = job[r].synonyms
             /\ job'[r].synonymsBegun = job[r].synonymsBegun
             /\ job'[r].synonymsPassed = job[r].synonymsPassed
<1> DEFINE n == job[r].page
           l == TagListing(r)
           more == HasMore(l, n)
           fresh == Keep(PageOf(l, n), Tag \ Range(job[r].tags))
           ts == job[r].tags \o fresh
           begun == IF n = 1 THEN now ELSE job[r].tagsBegun
           passed == IF n = 1 THEN {} ELSE job[r].tagsPassed
           next == IF more THEN n + 1 ELSE 1
           j == [job[r] EXCEPT !.tags = ts, !.tagsBegun = begun,
                               !.tagsPassed = passed, !.page = next]
           label == IF more THEN "fetchTags"
                    ELSE IF job[r].mode = "full" THEN "saveTags" ELSE "upsertTags"
<1>1. /\ job[r] \in Job /\ n \in Nat \ {0} /\ job[r].tags \in Seq(Tag)
      /\ job[r].tagsBegun \in Moment /\ now \in Moment /\ n + 1 \in Nat \ {0}
      /\ job[r].tagsPassed \subseteq Tag
  BY DEF TypeOK, Job
<1>2. l \in Seq(Tag)
  BY TagListingProperties
<1> HIDE DEF l
<1>3. PageOf(l, n) \in Seq(Tag)
  <2> HIDE DEF n
  <2> QED
    BY <1>1, <1>2, PageProperties
<1>4. fresh \in Seq(Tag) /\ Range(fresh) = Range(PageOf(l, n)) \intersect (Tag \ Range(job[r].tags))
  BY <1>3, KeepProperties
<1> HIDE DEF fresh
<1>5. ts \in Seq(Tag) /\ Range(ts) = Range(job[r].tags) \union Range(fresh)
  BY <1>1, <1>4, RangeConcatenation
<1>6. Range(PageOf(l, n)) \subseteq Tag /\ Range(ts) \subseteq Tag
  BY <1>3, <1>5, RangeOfSeq
<1> HIDE DEF ts, more
<1>7. begun \in Moment /\ next \in Nat \ {0} /\ passed \subseteq Tag
  BY <1>1
<1> HIDE DEF begun, next, passed
<1>8. /\ j \in Job /\ j.tags = ts /\ j.tagsBegun = begun /\ j.page = next
      /\ j.mode = job[r].mode /\ j.since = job[r].since
      /\ j.synonyms = job[r].synonyms /\ j.synonymsBegun = job[r].synonymsBegun
      /\ j.tagsPassed = passed /\ j.synonymsPassed = job[r].synonymsPassed
  BY <1>1, <1>5, <1>7 DEF Job
<1>9. job' = [job EXCEPT ![r] = j]
  <2>1. job' = [job EXCEPT ![r].tags = @ \o fresh, ![r].tagsBegun = begun,
                           ![r].tagsPassed = passed, ![r].page = next]
    BY DEF FetchTags, fresh, more, begun, passed, next, l
  <2>2. job \in [Run -> Job]
    BY DEF TypeOK
  <2> QED
    BY <1>1, <2>1, <2>2 DEF ts
<1>10. pc' = [pc EXCEPT ![r] = label] /\ label \in Label
  <2>1. pc[r] = "fetchTags" /\ pc \in [Run -> Label]
    BY DEF FetchTags, TypeOK, Label
  <2>2. CASE more
    <3>1. pc' = pc
      BY <2>2 DEF FetchTags, more, l
    <3> QED
      BY <2>1, <2>2, <3>1 DEF Label
  <2>3. CASE ~more
    <3>1. pc' = [pc EXCEPT ![r] = IF job[r].mode = "full" THEN "saveTags" ELSE "upsertTags"]
      BY <2>3 DEF FetchTags, more, l, Goto
    <3> QED
      BY <2>3, <3>1 DEF Label
  <2> QED
    BY <2>2, <2>3
<1> HIDE DEF j, label
<1>11. /\ pc'[r] = label /\ job'[r] = j /\ OnlyRun(r)
       /\ pc' \in [Run -> Label] /\ job' \in [Run -> Job]
  BY <1>8, <1>9, <1>10, LocalStep, LocalTypes
<1>12. Range(job[r].tags) \subseteq Range(ts) /\ Range(PageOf(l, n)) \subseteq Range(ts)
  BY <1>4, <1>5, <1>6
<1> QED
  BY <1>6, <1>8, <1>11, <1>12 DEF begun, passed, next, label, more, l

\* A run fetches a page of tags.
LEMMA FetchTagsKeeps ==
  ASSUME IInv, NEW r \in Run, FetchTags(r)
  PROVE  IInv'
<1> DEFINE n == job[r].page
           l == TagListing(r)
           more == HasMore(l, n)
<1>1. /\ TypeOK /\ ListingsOK /\ RunOK(r) /\ FilesOK /\ TagsCovered /\ SynonymsCovered
      /\ pc[r] = "fetchTags"
      /\ UNCHANGED <<now, starts, soVars, dbVars, fileVars, history>>
  BY DEF IInv, FetchTags
<1>2. /\ UNCHANGED LastSyncDate /\ UNCHANGED now /\ UNCHANGED recent /\ UNCHANGED aliases
      /\ UNCHANGED popular /\ UNCHANGED tags /\ UNCHANGED synonyms /\ UNCHANGED gap
      /\ FilesOK' /\ TablesGrow
  BY <1>1 DEF soVars, dbVars, history, fileVars, LastSyncDate, FilesOK, TablesGrow
<1>3. /\ pc' \in [Run -> Label] /\ job' \in [Run -> Job] /\ OnlyRun(r)
      /\ Range(job[r].tags) \subseteq Range(job'[r].tags)
      /\ Range(PageOf(l, n)) \subseteq Range(job'[r].tags)
      /\ job'[r].tagsBegun = IF n = 1 THEN now ELSE job[r].tagsBegun
      /\ job'[r].tagsPassed = IF n = 1 THEN {} ELSE job[r].tagsPassed
      /\ job'[r].page = IF more THEN n + 1 ELSE 1
      /\ pc'[r] = IF more THEN "fetchTags"
                  ELSE IF job[r].mode = "full" THEN "saveTags" ELSE "upsertTags"
      /\ job'[r].mode = job[r].mode /\ job'[r].since = job[r].since
      /\ job'[r].synonyms = job[r].synonyms
      /\ job'[r].synonymsBegun = job[r].synonymsBegun
  BY <1>1, FetchTagsEffect
<1>4. /\ n \in Nat \ {0} /\ l \in Seq(Tag) /\ now \in Int /\ now <= now
      /\ PageSize \in Nat
  <2>1. job[r] \in Job
    BY <1>1 DEF TypeOK
  <2>2. l \in Seq(Tag)
    BY <1>1, TagListingProperties
  <2>3. now \in Int
    BY <1>1, ElementTypes
  <2> QED
    BY <2>1, <2>2, <2>3, SizeAssumption DEF Job
<1>5. /\ Shape(r) /\ Asks(r) /\ TagsFetched(r)
      /\ job[r].mode # "file" /\ job[r].synonyms = <<>> /\ job[r].synonymsBegun = 0
  BY <1>1 DEF RunOK, Shape
<1>6. TypeOK'
  BY <1>1, <1>3 DEF TypeOK, Label, soVars, dbVars, fileVars, history
<1> HIDE DEF l, n, more
<1>7. ASSUME NEW e \in Range(recent), job[r].since <= e.at, e.at < job'[r].tagsBegun,
             e.tag \notin job'[r].tagsPassed
      PROVE  e.tag \in Range(job'[r].tags) \/ (more /\ TagAhead(r, e)')
  <2>1. CASE e.tag \in Range(job[r].tags)
    BY <1>3, <2>1
  <2>2. CASE \E i \in 1..Len(l) : i > (n - 1) * PageSize /\ l[i] = e.tag
                 /\ (i > n * PageSize /\ more => TagAhead(r, e)')
    <3>1. PICK i \in 1..Len(l) : i > (n - 1) * PageSize /\ l[i] = e.tag
                 /\ (i > n * PageSize /\ more => TagAhead(r, e)')
      BY <2>2
    <3>2. n * PageSize \in Int /\ Len(l) \in Nat
      BY <1>4, PageArithmetic, LenProperties
    <3>3. CASE i <= n * PageSize
      <4>1. l[i] \in Range(PageOf(l, n))
        BY <1>4, <3>1, <3>3, PageProperties
      <4> QED
        BY <1>3, <3>1, <4>1
    <3>4. CASE i > n * PageSize
      <4>1. Len(l) > n * PageSize
        BY <3>2, <3>4
      <4>2. more
        BY <4>1 DEF more, HasMore
      <4> QED
        BY <3>1, <3>4, <4>2
    <3> QED
      BY <3>2, <3>3, <3>4
  <2>3. CASE TagAhead(r, e)
    <3> DEFINE k == (n - 1) * PageSize
               k2 == n * PageSize
    <3>1. more => (job'[r].page - 1) * PageSize = k2
      BY <1>3, <1>4, PageArithmetic
    <3> HIDE DEF k, k2
    <3>2. CASE job[r].mode = "incremental"
      <4>1. PICK i \in DOMAIN recent : i > k /\ recent[i] = e
        BY <2>3, <3>2 DEF TagAhead, k, n
      <4>2. i \in DOMAIN l /\ l[i] = e.tag
        BY <1>1, <1>7, <3>2, <4>1, TagListingProperties DEF l
      <4>3. i \in 1..Len(l)
        BY <1>4, <4>2, LenProperties
      <4>4. i > k2 /\ more => TagAhead(r, e)'
        BY <1>2, <1>3, <3>1, <3>2, <4>1 DEF TagAhead
      <4> QED
        BY <2>2, <4>1, <4>2, <4>3, <4>4 DEF k, k2
    <3>3. CASE job[r].mode # "incremental"
      <4>1. PICK i \in DOMAIN popular : i > k /\ popular[i] = e.tag
        BY <2>3, <3>3 DEF TagAhead, k, n
      <4>2. l = popular
        BY <1>1, <3>3, TagListingProperties DEF l
      <4>3. i \in 1..Len(l) /\ l[i] = e.tag
        BY <1>4, <4>1, <4>2, LenProperties
      <4>4. i > k2 /\ more => TagAhead(r, e)'
        BY <1>2, <1>3, <3>1, <3>3, <4>1 DEF TagAhead
      <4> QED
        BY <2>2, <4>1, <4>3, <4>4 DEF k, k2
    <3> QED
      BY <3>2, <3>3
  <2>4. CASE n = 1
    <3>1. (n - 1) * PageSize = 0
      BY <2>4, PageArithmetic, <1>4
    <3>2. PICK i \in DOMAIN recent : recent[i] = e
      BY DEF Range
    <3>3. /\ \A m \in DOMAIN recent : m > 0
          /\ \A m \in DOMAIN popular : m > 0
      <4>1. recent \in Seq([tag : Tag, at : Moment]) /\ popular \in Seq(Tag)
        BY <1>1 DEF TypeOK
      <4> QED
        BY <4>1, Items
    <3>4. \E m \in DOMAIN popular : popular[m] = e.tag
      BY <1>1, <3>2 DEF ListingsOK
    <3>5. TagAhead(r, e)
      BY <3>1, <3>2, <3>3, <3>4 DEF TagAhead, n
    <3> QED
      BY <2>3, <3>5
  <2>5. CASE n # 1
    <3>1. e.at < job[r].tagsBegun /\ e.tag \notin job[r].tagsPassed
      BY <1>3, <1>7, <2>5
    <3>2. e.tag \in Range(job[r].tags) \/ TagAhead(r, e)
      BY <1>1, <1>5, <1>7, <3>1 DEF TagsFetched
    <3> QED
      BY <2>1, <2>3, <3>2
  <2> QED
    BY <2>4, <2>5
<1>8. RunOK(r)'
  <2>1. Shape(r)'
    BY <1>3, <1>5 DEF Shape
  <2>2. Asks(r)'
    BY <1>1, <1>2, <1>3, <1>4, <1>5 DEF Asks
  <2>3. TagsFetched(r)'
    BY <1>2, <1>3, <1>7 DEF TagsFetched
  <2>4. SynonymsFetched(r)'
    BY <1>1, <1>2, <1>3, <1>5, NothingEarlier DEF SynonymsFetched
  <2>5. SynonymsCurrent(r)' /\ SynonymsResolved(r)'
    BY <1>3 DEF SynonymsCurrent, SynonymsResolved
  <2> QED
    BY <2>1, <2>2, <2>3, <2>4, <2>5 DEF RunOK
<1>9. TagsCovered' /\ SynonymsCovered'
  <2>1. SureTags(r) = {} /\ SureSynonyms(r) = {}
    BY <1>1 DEF SureTags, SureSynonyms, Fetches
  <2> QED
    BY <1>1, <1>2, <1>3, <2>1, StillCovered
<1> QED
  BY <1>1, <1>2, <1>3, <1>6, <1>8, <1>9, RunStepKeeps

\* What fetching a page of synonyms does to the locals.
LEMMA FetchSynonymsEffect ==
  ASSUME TypeOK, ListingsOK, NEW r \in Run, FetchSynonyms(r)
  PROVE  LET n == job[r].page
             l == SynonymListing(r)
         IN  /\ pc' \in [Run -> Label] /\ job' \in [Run -> Job] /\ OnlyRun(r)
             /\ Range(job[r].synonyms) \subseteq Range(job'[r].synonyms)
             /\ \A e \in Range(PageOf(l, n)) :
                  \/ e \in Range(job'[r].synonyms)
                  \/ \E f \in Range(job[r].synonyms) : f.from = e.from
             /\ \A e \in Range(job'[r].synonyms) :
                  e \in Range(job[r].synonyms) \/ e \in Range(aliases)
             /\ job'[r].synonymsBegun = IF n = 1 THEN now ELSE job[r].synonymsBegun
             /\ job'[r].synonymsPassed = IF n = 1 THEN {} ELSE job[r].synonymsPassed
             /\ job'[r].page = IF HasMore(l, n) THEN n + 1 ELSE 1
             /\ pc'[r] = IF HasMore(l, n) THEN "fetchSynonyms"
                         ELSE IF job[r].mode = "full" THEN "saveSynonyms" ELSE "resolve"
             /\ job'[r].mode = job[r].mode /\ job'[r].since = job[r].since
             /\ job'[r].tags = job[r].tags
             /\ job'[r].tagsBegun = job[r].tagsBegun
             /\ job'[r].tagsPassed = job[r].tagsPassed
<1> DEFINE n == job[r].page
           l == SynonymListing(r)
           more == HasMore(l, n)
           S == {e \in Range(aliases) : \A f \in Range(job[r].synonyms) : f.from # e.from}
           fresh == Keep(PageOf(l, n), S)
           ss == job[r].synonyms \o fresh
           begun == IF n = 1 THEN now ELSE job[r].synonymsBegun
           passed == IF n = 1 THEN {} ELSE job[r].synonymsPassed
           next == IF more THEN n + 1 ELSE 1
           j == [job[r] EXCEPT !.synonyms = ss, !.synonymsBegun = begun,
                               !.synonymsPassed = passed, !.page = next]
           label == IF more THEN "fetchSynonyms"
                    ELSE IF job[r].mode = "full" THEN "saveSynonyms" ELSE "resolve"
<1>1. /\ job[r] \in Job /\ n \in Nat \ {0} /\ job[r].synonyms \in Seq(SynonymRow)
      /\ job[r].synonymsBegun \in Moment /\ now \in Moment /\ n + 1 \in Nat \ {0}
      /\ job[r].synonymsPassed \subseteq Synonym
  BY DEF TypeOK, Job
<1>2. l \in Seq(SynonymRow) /\ Range(l) \subseteq Range(aliases)
  BY SynonymListingProperties
<1> HIDE DEF l
<1>3. PageOf(l, n) \in Seq(SynonymRow) /\ Range(PageOf(l, n)) \subseteq Range(l)
  <2> HIDE DEF n
  <2> QED
    BY <1>1, <1>2, PageProperties
<1>s. /\ S \subseteq Range(aliases)
      /\ \A e \in Range(aliases) :
           e \in S \/ \E f \in Range(job[r].synonyms) : f.from = e.from
  OBVIOUS
<1> HIDE DEF S
<1>4. fresh \in Seq(SynonymRow) /\ Range(fresh) = Range(PageOf(l, n)) \intersect S
  BY <1>3, KeepProperties
<1> HIDE DEF fresh
<1>5. ss \in Seq(SynonymRow) /\ Range(ss) = Range(job[r].synonyms) \union Range(fresh)
  BY <1>1, <1>4, RangeConcatenation
<1> HIDE DEF ss, more
<1>7. begun \in Moment /\ next \in Nat \ {0} /\ passed \subseteq Synonym
  BY <1>1
<1> HIDE DEF begun, next, passed
<1>8. /\ j \in Job /\ j.synonyms = ss /\ j.synonymsBegun = begun /\ j.page = next
      /\ j.mode = job[r].mode /\ j.since = job[r].since
      /\ j.tags = job[r].tags /\ j.tagsBegun = job[r].tagsBegun
      /\ j.synonymsPassed = passed /\ j.tagsPassed = job[r].tagsPassed
  BY <1>1, <1>5, <1>7 DEF Job
<1>9. job' = [job EXCEPT ![r] = j]
  <2>1. job' = [job EXCEPT ![r].synonyms = @ \o fresh, ![r].synonymsBegun = begun,
                           ![r].synonymsPassed = passed, ![r].page = next]
    BY DEF FetchSynonyms, fresh, S, more, begun, passed, next, l
  <2>2. job \in [Run -> Job]
    BY DEF TypeOK
  <2> QED
    BY <1>1, <2>1, <2>2 DEF ss
<1>10. pc' = [pc EXCEPT ![r] = label] /\ label \in Label
  <2>1. pc[r] = "fetchSynonyms" /\ pc \in [Run -> Label]
    BY DEF FetchSynonyms, TypeOK, Label
  <2>2. CASE more
    <3>1. pc' = pc
      BY <2>2 DEF FetchSynonyms, more, l
    <3> QED
      BY <2>1, <2>2, <3>1 DEF Label
  <2>3. CASE ~more
    <3>1. pc' = [pc EXCEPT ![r] = IF job[r].mode = "full" THEN "saveSynonyms" ELSE "resolve"]
      BY <2>3 DEF FetchSynonyms, more, l, Goto
    <3> QED
      BY <2>3, <3>1 DEF Label
  <2> QED
    BY <2>2, <2>3
<1> HIDE DEF j, label
<1>11. /\ pc'[r] = label /\ job'[r] = j /\ OnlyRun(r)
       /\ pc' \in [Run -> Label] /\ job' \in [Run -> Job]
  BY <1>8, <1>9, <1>10, LocalStep, LocalTypes
<1>12. Range(job[r].synonyms) \subseteq Range(ss)
  BY <1>5
<1>13. \A e \in Range(PageOf(l, n)) :
         e \in Range(ss) \/ \E f \in Range(job[r].synonyms) : f.from = e.from
  BY <1>2, <1>3, <1>s, <1>4, <1>5
<1>14. \A e \in Range(ss) : e \in Range(job[r].synonyms) \/ e \in Range(aliases)
  BY <1>s, <1>4, <1>5
<1> QED
  BY <1>8, <1>11, <1>12, <1>13, <1>14 DEF begun, passed, next, label, more, l

\* A run fetches a page of synonyms.
LEMMA FetchSynonymsKeeps ==
  ASSUME IInv, NEW r \in Run, FetchSynonyms(r)
  PROVE  IInv'
<1> DEFINE n == job[r].page
           l == SynonymListing(r)
           more == HasMore(l, n)
<1>1. /\ TypeOK /\ ListingsOK /\ DatesOK /\ RunOK(r) /\ FilesOK
      /\ TagsCovered /\ SynonymsCovered /\ pc[r] = "fetchSynonyms"
      /\ UNCHANGED <<now, starts, soVars, dbVars, fileVars, history>>
  BY DEF IInv, FetchSynonyms
<1>2. /\ UNCHANGED LastSyncDate /\ UNCHANGED now /\ UNCHANGED recent /\ UNCHANGED aliases
      /\ UNCHANGED popular /\ UNCHANGED tags /\ UNCHANGED synonyms /\ UNCHANGED gap
      /\ FilesOK' /\ TablesGrow
  BY <1>1 DEF soVars, dbVars, history, fileVars, LastSyncDate, FilesOK, TablesGrow
<1>3. /\ pc' \in [Run -> Label] /\ job' \in [Run -> Job] /\ OnlyRun(r)
      /\ Range(job[r].synonyms) \subseteq Range(job'[r].synonyms)
      /\ \A e \in Range(PageOf(l, n)) :
           \/ e \in Range(job'[r].synonyms)
           \/ \E f \in Range(job[r].synonyms) : f.from = e.from
      /\ \A e \in Range(job'[r].synonyms) :
           e \in Range(job[r].synonyms) \/ e \in Range(aliases)
      /\ job'[r].synonymsBegun = IF n = 1 THEN now ELSE job[r].synonymsBegun
      /\ job'[r].synonymsPassed = IF n = 1 THEN {} ELSE job[r].synonymsPassed
      /\ job'[r].page = IF more THEN n + 1 ELSE 1
      /\ pc'[r] = IF more THEN "fetchSynonyms"
                  ELSE IF job[r].mode = "full" THEN "saveSynonyms" ELSE "resolve"
      /\ job'[r].mode = job[r].mode /\ job'[r].since = job[r].since
      /\ job'[r].tags = job[r].tags
      /\ job'[r].tagsBegun = job[r].tagsBegun
      /\ job'[r].tagsPassed = job[r].tagsPassed
  BY <1>1, FetchSynonymsEffect
<1>4. /\ n \in Nat \ {0} /\ l \in Seq(SynonymRow) /\ now \in Int /\ now <= now
      /\ PageSize \in Nat /\ n + 1 # 1 /\ n + 1 > 1
      /\ job[r].mode \in Mode
  <2>1. job[r] \in Job
    BY <1>1 DEF TypeOK
  <2>2. l \in Seq(SynonymRow)
    BY <1>1, SynonymListingProperties
  <2>3. now \in Int
    BY <1>1, ElementTypes
  <2> QED
    BY <2>1, <2>2, <2>3, SizeAssumption DEF Job
<1>5. /\ Shape(r) /\ Asks(r) /\ TagsFetched(r) /\ SynonymsFetched(r) /\ SynonymsCurrent(r)
      /\ job[r].mode # "file" /\ (n = 1 => job[r].synonyms = <<>>)
      /\ job[r].mode = "incremental" => job[r].tags = <<>>
  BY <1>1 DEF RunOK, Shape
<1>6. TypeOK'
  BY <1>1, <1>3 DEF TypeOK, Label, soVars, dbVars, fileVars, history
<1>u. \A e, f \in Range(aliases) : e.from = f.from => e = f
  BY <1>1 DEF ListingsOK, Range
<1> HIDE DEF l, n, more
<1>7. ASSUME NEW e \in Range(aliases), job[r].since <= e.at, e.at < job'[r].synonymsBegun,
             e.from \notin job'[r].synonymsPassed
      PROVE  e \in Range(job'[r].synonyms) \/ (more /\ SynonymAhead(r, e)')
  <2>1. CASE e \in Range(job[r].synonyms)
    BY <1>3, <2>1
  <2>2. CASE SynonymAhead(r, e)
    <3> DEFINE k == (n - 1) * PageSize
               k2 == n * PageSize
    <3>1. /\ k2 \in Int
          /\ more => (job'[r].page - 1) * PageSize = k2
      BY <1>3, <1>4, PageArithmetic
    <3>2. PICK i \in DOMAIN aliases : i > k /\ aliases[i] = e
      BY <2>2 DEF SynonymAhead, n
    <3>3. i \in DOMAIN l /\ l[i] = e
      BY <1>1, <1>7, <3>2, SynonymListingProperties DEF l
    <3>4. i \in 1..Len(l) /\ Len(l) \in Nat
      BY <1>4, <3>3, LenProperties
    <3>5. CASE i <= k2
      <4>1. l[i] \in Range(PageOf(l, n))
        BY <1>4, <3>2, <3>4, <3>5, PageProperties
      <4>2. CASE e \in Range(job'[r].synonyms)
        BY <4>2
      <4>3. CASE \E f \in Range(job[r].synonyms) : f.from = e.from
        <5>1. PICK f \in Range(job[r].synonyms) : f.from = e.from
          BY <4>3
        <5>2. n # 1
          BY <1>5, <5>1 DEF Range
        <5>3. f = e
          BY <1>1, <1>3, <1>5, <1>7, <5>1, <5>2 DEF SynonymsCurrent
        <5> QED
          BY <2>1, <5>3
      <4> QED
        BY <1>3, <3>3, <4>1, <4>2, <4>3
    <3>6. CASE i > k2
      <4>1. Len(l) > k2
        BY <3>1, <3>4, <3>6
      <4>2. more
        BY <4>1 DEF more, HasMore
      <4>3. (job'[r].page - 1) * PageSize = k2
        BY <3>1, <4>2
      <4> HIDE DEF k, k2
      <4>4. SynonymAhead(r, e)'
        BY <1>2, <3>2, <3>6, <4>3 DEF SynonymAhead
      <4> QED
        BY <4>2, <4>4
    <3> HIDE DEF k2
    <3> QED
      BY <3>1, <3>4, <3>5, <3>6
  <2>3. CASE n = 1
    <3>1. (n - 1) * PageSize = 0
      BY <2>3, PageArithmetic, <1>4
    <3>2. PICK i \in DOMAIN aliases : aliases[i] = e
      BY DEF Range
    <3>3. i > 0
      <4>1. aliases \in Seq(SynonymRow)
        BY <1>1 DEF TypeOK
      <4> QED
        BY <4>1, Items
    <3>4. SynonymAhead(r, e)
      BY <3>1, <3>2, <3>3 DEF SynonymAhead, n
    <3> QED
      BY <2>2, <3>4
  <2>4. CASE n # 1
    <3>1. e.at < job[r].synonymsBegun /\ e.from \notin job[r].synonymsPassed
      BY <1>3, <1>7, <2>4
    <3>2. e \in Range(job[r].synonyms) \/ SynonymAhead(r, e)
      BY <1>1, <1>5, <1>7, <3>1 DEF SynonymsFetched
    <3> QED
      BY <2>1, <2>2, <3>2
  <2> QED
    BY <2>3, <2>4
<1>8. RunOK(r)'
  <2>1. Shape(r)'
    <3>1. job[r].mode # "full" => job[r].mode = "incremental"
      BY <1>4, <1>5 DEF Mode
    <3> QED
      BY <1>1, <1>3, <1>4, <1>5, <3>1 DEF Shape
  <2>2. Asks(r)'
    BY <1>1, <1>2, <1>3, <1>4, <1>5 DEF Asks
  <2>3. TagsFetched(r)'
    BY <1>1, <1>2, <1>3, <1>5 DEF TagsFetched
  <2>4. SynonymsFetched(r)'
    BY <1>2, <1>3, <1>7 DEF SynonymsFetched
  <2>5. SynonymsCurrent(r)'
    <3>1. ASSUME NEW e \in Range(aliases), NEW f \in Range(job'[r].synonyms),
                 e.at < job'[r].synonymsBegun, f.from = e.from
          PROVE  f = e
      <4>1. CASE f \in Range(aliases)
        BY <1>u, <3>1, <4>1
      <4>2. CASE f \in Range(job[r].synonyms)
        <5>1. n # 1
          BY <1>5, <4>2 DEF Range
        <5> QED
          BY <1>1, <1>3, <1>5, <3>1, <4>2, <5>1 DEF SynonymsCurrent
      <4> QED
        BY <1>3, <4>1, <4>2
    <3> QED
      BY <1>2, <3>1 DEF SynonymsCurrent
  <2>6. SynonymsResolved(r)'
    BY <1>3 DEF SynonymsResolved
  <2> QED
    BY <2>1, <2>2, <2>3, <2>4, <2>5, <2>6 DEF RunOK
<1>9. TagsCovered' /\ SynonymsCovered'
  <2>1. SureTags(r) = {}
    BY <1>1 DEF SureTags
  <2>2. ASSUME NEW e \in Range(aliases), e.at < LastSyncDate, e.from \in SureSynonyms(r)
        PROVE  e.from \in SureSynonyms(r)'
    <3>1. Fetches(r) /\ job[r].mode = "incremental"
      BY <1>1, <2>2 DEF SureSynonyms, Fetches
    <3>2. PICK f \in Range(aliases) : /\ job[r].since <= f.at
                                      /\ n > 1 => /\ f.at < job[r].synonymsBegun
                                                   /\ f.from \notin job[r].synonymsPassed
                                      /\ f.from = e.from
      BY <2>2, <3>1 DEF SureSynonyms, n
    <3>3. f = e
      BY <1>u, <3>2
    <3>4. e.at < now
      <4>1. e.at \in Int
        BY <1>1, ElementTypes
      <4> QED
        BY <1>1, <2>2, <4>1, <1>4, SyncDatePast
    <3>5. e.at < job'[r].synonymsBegun /\ e.from \notin job'[r].synonymsPassed
      <4>1. n = 1 \/ n > 1
        BY <1>4
      <4> QED
        BY <1>3, <3>2, <3>3, <3>4, <4>1
    <3>6. CASE more
      <4>1. Fetches(r)'
        BY <1>3, <3>1, <3>6 DEF Fetches
      <4> QED
        BY <1>2, <1>3, <3>2, <3>3, <3>5, <4>1 DEF SureSynonyms
    <3>7. CASE ~more
      <4>1. pc'[r] = "resolve" /\ e \in Range(job'[r].synonyms)
        BY <1>3, <1>7, <3>1, <3>2, <3>3, <3>5, <3>7
      <4> QED
        BY <4>1 DEF SureSynonyms, Fetches
    <3> QED
      BY <3>6, <3>7
  <2> QED
    BY <1>1, <1>2, <1>3, <2>1, <2>2, StillCovered
<1> QED
  BY <1>1, <1>2, <1>3, <1>6, <1>8, <1>9, RunStepKeeps

-----------------------------------------------------------------------------
(***************************************************************************)
(* The steps of a run that write the tables, and the one between them.     *)
(***************************************************************************)

\* What upserting a chunk of tags does to the table and the locals.
LEMMA UpsertTagsEffect ==
  ASSUME TypeOK, NEW r \in Run, UpsertTags(r)
  PROVE  /\ pc' \in [Run -> Label] /\ job' \in [Run -> Job] /\ OnlyRun(r)
         /\ tags' \in [Tag -> Moment \union {Never}]
         /\ \A t \in Tag : tags'[t] = tags[t] \/ (tags[t] = Never /\ tags'[t] = now)
         /\ \A t \in Range(job[r].tags) : tags'[t] # Never \/ t \in Range(job'[r].tags)
         /\ Range(job'[r].tags) \subseteq Range(job[r].tags)
         /\ job'[r].tags # <<>> => pc'[r] = "upsertTags"
         /\ job'[r].tags = <<>> => pc'[r] = IF job[r].mode = "incremental"
                                            THEN "fetchSynonyms" ELSE "resolve"
         /\ job'[r].mode = job[r].mode /\ job'[r].since = job[r].since
         /\ job'[r].page = job[r].page /\ job'[r].tagsBegun = job[r].tagsBegun
         /\ job'[r].synonyms = job[r].synonyms
         /\ job'[r].synonymsBegun = job[r].synonymsBegun
         /\ job'[r].tagsPassed = job[r].tagsPassed
         /\ job'[r].synonymsPassed = job[r].synonymsPassed
<1> DEFINE first == First(TagChunk, job[r].tags)
           rest == Rest(TagChunk, job[r].tags)
           j == [job[r] EXCEPT !.tags = rest]
           label == IF rest # <<>> THEN "upsertTags"
                    ELSE IF job[r].mode = "incremental" THEN "fetchSynonyms" ELSE "resolve"
<1>1. /\ job[r] \in Job /\ job[r].tags \in Seq(Tag) /\ now \in Moment /\ now # Never
      /\ TagChunk \in Nat
  <2>1. job[r] \in Job /\ now \in Moment
    BY DEF TypeOK
  <2>2. now # Never
    BY <2>1, BoundAssumption DEF Moment, Never
  <2> QED
    BY <2>1, <2>2, SizeAssumption DEF Job
<1>2. rest \in Seq(Tag) /\ Range(job[r].tags) = Range(first) \union Range(rest)
  BY <1>1, FirstRest
<1>3. Range(job[r].tags) \subseteq Tag
  BY <1>1, RangeOfSeq
<1> HIDE DEF first, rest
<1>4. /\ j \in Job /\ j.tags = rest
      /\ j.mode = job[r].mode /\ j.since = job[r].since /\ j.page = job[r].page
      /\ j.tagsBegun = job[r].tagsBegun
      /\ j.synonyms = job[r].synonyms /\ j.synonymsBegun = job[r].synonymsBegun
      /\ j.tagsPassed = job[r].tagsPassed /\ j.synonymsPassed = job[r].synonymsPassed
  BY <1>1, <1>2 DEF Job
<1>5. job' = [job EXCEPT ![r] = j]
  <2>1. job \in [Run -> Job]
    BY DEF TypeOK
  <2> QED
    BY <2>1 DEF UpsertTags, rest
<1> HIDE DEF j
<1>6. job'[r] = j
  BY <1>5 DEF TypeOK
<1>7. pc' = [pc EXCEPT ![r] = label] /\ label \in Label
  <2>1. pc[r] = "upsertTags" /\ pc \in [Run -> Label]
    BY DEF UpsertTags, TypeOK, Label
  <2>2. CASE rest # <<>>
    <3>1. pc' = pc
      BY <1>4, <1>6, <2>2 DEF UpsertTags
    <3> QED
      BY <2>1, <2>2, <3>1 DEF Label
  <2>3. CASE rest = <<>>
    <3>1. pc' = [pc EXCEPT ![r] = IF job[r].mode = "incremental" THEN "fetchSynonyms" ELSE "resolve"]
      BY <1>4, <1>6, <2>3 DEF UpsertTags, Goto
    <3> QED
      BY <2>3, <3>1 DEF Label
  <2> QED
    BY <2>2, <2>3
<1> HIDE DEF label
<1>8. /\ pc'[r] = label /\ OnlyRun(r)
      /\ pc' \in [Run -> Label] /\ job' \in [Run -> Job]
  BY <1>4, <1>5, <1>7, LocalStep, LocalTypes
<1>9. tags' = [t \in Tag |-> IF tags[t] = Never /\ t \in Range(first) THEN now ELSE tags[t]]
  BY DEF UpsertTags, first
<1>10. /\ tags' \in [Tag -> Moment \union {Never}]
       /\ \A t \in Tag : tags'[t] = tags[t] \/ (tags[t] = Never /\ tags'[t] = now)
  BY <1>1, <1>9 DEF TypeOK
<1>11. \A t \in Range(job[r].tags) : tags'[t] # Never \/ t \in Range(rest)
  BY <1>1, <1>2, <1>3, <1>9
<1>12. Range(rest) \subseteq Range(job[r].tags)
  BY <1>2
<1> QED
  BY <1>4, <1>6, <1>8, <1>10, <1>11, <1>12 DEF label

\* upsert_tags inserts a chunk, which may move the date of the last sync: the
\* window that this closes is recorded.
LEMMA UpsertTagsKeeps ==
  ASSUME IInv, NEW r \in Run, UpsertTags(r)
  PROVE  IInv'
<1>1. /\ TypeOK /\ ListingsOK /\ DatesOK /\ RunOK(r) /\ FilesOK
      /\ TagsCovered /\ SynonymsCovered /\ pc[r] = "upsertTags"
      /\ UNCHANGED <<now, starts, soVars, synonyms, fileVars, synced>>
      /\ gap' = gap \union ((Behind' \intersect Window(r)) \ Pending(r)')
  BY DEF IInv, UpsertTags
<1>2. /\ UNCHANGED now /\ UNCHANGED recent /\ UNCHANGED aliases
      /\ UNCHANGED synonyms /\ FilesOK'
  BY <1>1 DEF soVars, fileVars, FilesOK
<1>3. /\ pc' \in [Run -> Label] /\ job' \in [Run -> Job] /\ OnlyRun(r)
      /\ tags' \in [Tag -> Moment \union {Never}]
      /\ \A t \in Tag : tags'[t] = tags[t] \/ (tags[t] = Never /\ tags'[t] = now)
      /\ \A t \in Range(job[r].tags) : tags'[t] # Never \/ t \in Range(job'[r].tags)
      /\ Range(job'[r].tags) \subseteq Range(job[r].tags)
      /\ job'[r].tags # <<>> => pc'[r] = "upsertTags"
      /\ job'[r].tags = <<>> => pc'[r] = IF job[r].mode = "incremental"
                                         THEN "fetchSynonyms" ELSE "resolve"
      /\ job'[r].mode = job[r].mode /\ job'[r].since = job[r].since
      /\ job'[r].page = job[r].page /\ job'[r].tagsBegun = job[r].tagsBegun
      /\ job'[r].synonyms = job[r].synonyms
      /\ job'[r].synonymsBegun = job[r].synonymsBegun
      /\ job'[r].tagsPassed = job[r].tagsPassed
      /\ job'[r].synonymsPassed = job[r].synonymsPassed
  BY <1>1, UpsertTagsEffect
<1>4. TablesGrow
  BY <1>2, <1>3 DEF TablesGrow
<1>5. /\ Shape(r) /\ Asks(r) /\ TagsFetched(r) /\ SynonymsFetched(r)
      /\ job[r].page = 1 /\ (job[r].mode # "incremental" => job[r].since = 0)
      /\ job[r].mode = "incremental" => job[r].synonyms = <<>> /\ job[r].synonymsBegun = 0
  BY <1>1 DEF RunOK, Shape
<1>6. /\ \A e \in Range(recent) : e.tag \in Tag /\ e.at \in Int /\ 0 <= e.at
      /\ \A e \in Range(aliases) : e.from \in Synonym /\ e.at \in Int /\ 0 <= e.at
      /\ \A t \in Tag : tags'[t] = Never => tags[t] = Never
      /\ job[r].since \in Int /\ job[r].tagsBegun \in Int /\ job[r].synonymsBegun \in Int
  <2>1. job[r] \in Job /\ now # Never
    BY <1>1, BoundAssumption DEF TypeOK, Moment, Never
  <2> QED
    BY <1>1, <1>3, <2>1, ElementTypes, MomentIsInt DEF Job
<1>7. TypeOK'
  <2>1. Behind' \subseteq {ATag(t) : t \in Tag} \union {ASynonym(s) : s \in Synonym}
    BY <1>2, <1>6 DEF Behind
  <2> QED
    BY <1>1, <1>3, <2>1 DEF TypeOK, Label, soVars, fileVars
<1>8. LastSyncDate \in Int /\ LastSyncDate' \in Int /\ LastSyncDate <= LastSyncDate'
  <2>1. LastSyncDate' = Newest(tags')
    BY DEF LastSyncDate, Newest
  <2> QED
    BY <1>1, <1>3, <1>4, <1>7, <2>1, SyncDateGrows, LastSyncDateIsNewest, NewestIsMax, MomentIsInt DEF TypeOK
<1>9. RunOK(r)'
  <2>1. Shape(r)'
    BY <1>3, <1>5 DEF Shape
  <2>2. Asks(r)'
    BY <1>1, <1>2, <1>3, <1>5, <1>6, <1>8 DEF Asks
  <2>3. TagsFetched(r)'
    <3>1. \A t \in Tag : tags[t] # Never => tags'[t] # Never
      BY <1>3
    <3>2. pc'[r] \notin {"fetchTags", "saveTags"}
      BY <1>3
    <3> QED
      BY <1>1, <1>2, <1>3, <1>5, <1>6, <3>1, <3>2 DEF TagsFetched
  <2>4. SynonymsFetched(r)'
    BY <1>1, <1>2, <1>3, <1>5 DEF SynonymsFetched
  <2>5. SynonymsCurrent(r)'
    <3>1. pc'[r] = "fetchSynonyms" => job'[r].synonyms = <<>>
      BY <1>3, <1>5
    <3>2. Range(<<>>) = {}
      BY DEF Range
    <3> QED
      BY <3>1, <3>2 DEF SynonymsCurrent
  <2>6. SynonymsResolved(r)'
    BY <1>3 DEF SynonymsResolved
  <2> QED
    BY <2>1, <2>2, <2>3, <2>4, <2>5, <2>6 DEF RunOK
<1>10. TagsFetched(r)' /\ SynonymsFetched(r)'
  BY <1>9 DEF RunOK
<1>11. \A x : x \in Range(job'[r].tags) => pc'[r] = "upsertTags"
  <2>1. Range(<<>>) = {}
    BY DEF Range
  <2> QED
    BY <1>3, <2>1
<1>12. TagsCovered'
  <2> SUFFICES ASSUME NEW e \in Range(recent), tags'[e.tag] = Never, e.at < LastSyncDate'
               PROVE  ATag(e.tag) \in gap' \/ \E q \in Run : e.tag \in SureTags(q)'
    BY <1>2 DEF TagsCovered
  <2>1. e.tag \in Range(job'[r].tags) => e.tag \in SureTags(r)'
    BY <1>11 DEF SureTags
  <2>2. CASE e.at < LastSyncDate
    <3>1. ATag(e.tag) \in gap \/ \E q \in Run : e.tag \in SureTags(q)
      BY <1>1, <1>6, <2>2 DEF TagsCovered
    <3>2. ASSUME NEW q \in Run, e.tag \in SureTags(q)
          PROVE  e.tag \in SureTags(q)'
      <4>1. CASE q = r
        BY <1>1, <1>3, <2>1, <3>2, <4>1 DEF SureTags
      <4>2. CASE q # r
        BY <1>3, <3>2, <4>2 DEF SureTags, OnlyRun
      <4> QED
        BY <4>1, <4>2
    <3> QED
      BY <1>1, <3>1, <3>2
  <2>3. CASE ~(e.at < LastSyncDate)
    <3>1. job[r].since <= e.at
      BY <1>1, <1>5, <1>6, <1>8, <2>3 DEF Asks
    <3>2. CASE e.at >= job[r].tagsBegun \/ e.tag \in job[r].tagsPassed
      <4>1. ATag(e.tag) \in Behind' /\ ATag(e.tag) \in Window(r)
        BY <1>2, <3>2 DEF Behind, Window
      <4>2. CASE ATag(e.tag) \in Pending(r)'
        <5>1. e.tag \in Range(job'[r].tags)
          BY <4>2 DEF Pending, ATag, ASynonym
        <5> QED
          BY <2>1, <5>1
      <4> QED
        BY <1>1, <4>1, <4>2
    <3>3. CASE e.at < job[r].tagsBegun /\ e.tag \notin job[r].tagsPassed
      BY <1>2, <1>3, <1>10, <2>1, <3>1, <3>3 DEF TagsFetched
    <3> QED
      BY <1>6, <3>2, <3>3
  <2> QED
    BY <2>2, <2>3
<1>13. SynonymsCovered'
  <2> SUFFICES ASSUME NEW e \in Range(aliases), synonyms[e.from] = NoTag, e.at < LastSyncDate'
               PROVE  ASynonym(e.from) \in gap' \/ \E q \in Run : e.from \in SureSynonyms(q)'
    BY <1>2 DEF SynonymsCovered
  <2>1. CASE e.at < LastSyncDate
    <3>1. ASynonym(e.from) \in gap \/ \E q \in Run : e.from \in SureSynonyms(q)
      BY <1>1, <2>1 DEF SynonymsCovered
    <3>2. ASSUME NEW q \in Run, e.from \in SureSynonyms(q)
          PROVE  e.from \in SureSynonyms(q)'
      <4>1. CASE q = r /\ job[r].mode = "incremental"
        <5>1. Fetches(r) /\ Fetches(r)'
          BY <1>1, <1>3, <4>1 DEF Fetches
        <5> QED
          BY <1>2, <1>3, <3>2, <4>1, <5>1 DEF SureSynonyms
      <4>2. CASE q = r /\ job[r].mode # "incremental"
        <5>1. ~Fetches(r) /\ ~Fetches(r)' /\ pc'[r] \in {"upsertTags", "resolve"}
          BY <1>1, <1>3, <4>2 DEF Fetches
        <5> QED
          BY <1>1, <1>3, <3>2, <4>2, <5>1 DEF SureSynonyms
      <4>3. CASE q # r
        BY <1>2, <1>3, <3>2, <4>3 DEF SureSynonyms, Fetches, OnlyRun
      <4> QED
        BY <4>1, <4>2, <4>3
    <3> QED
      BY <1>1, <3>1, <3>2
  <2>2. CASE ~(e.at < LastSyncDate)
    <3>1. job[r].since <= e.at
      BY <1>1, <1>5, <1>6, <1>8, <2>2 DEF Asks
    <3>2. CASE job[r].mode = "incremental"
      <4>1. Fetches(r)' /\ ~(job'[r].page > 1)
        BY <1>1, <1>3, <1>5, <3>2 DEF Fetches
      <4>2. e.from \in SureSynonyms(r)'
        BY <1>2, <1>3, <3>1, <4>1 DEF SureSynonyms
      <4> QED
        BY <4>2
    <3>3. CASE job[r].mode # "incremental"
      <4>1. ~Fetches(r)' /\ pc'[r] \in {"upsertTags", "resolve"}
        BY <1>3, <3>3 DEF Fetches
      <4>2. \A f \in Range(job'[r].synonyms) : f.from \in SureSynonyms(r)'
        BY <4>1 DEF SureSynonyms
      <4>3. CASE e.at >= job[r].synonymsBegun \/ e.from \in job[r].synonymsPassed
        <5>1. ASynonym(e.from) \in Behind' /\ ASynonym(e.from) \in Window(r)
          BY <1>2, <3>3, <4>3 DEF Behind, Window
        <5>2. CASE ASynonym(e.from) \in Pending(r)'
          <6>1. \E f \in Range(job'[r].synonyms) : f.from = e.from
            BY <1>3, <3>3, <5>2 DEF Pending, ATag, ASynonym
          <6> QED
            BY <4>2, <6>1
        <5> QED
          BY <1>1, <5>1, <5>2
      <4>4. CASE e.at < job[r].synonymsBegun /\ e.from \notin job[r].synonymsPassed
        <5>1. e \in Range(job'[r].synonyms)
          BY <1>2, <1>3, <1>10, <3>1, <4>1, <4>4 DEF SynonymsFetched
        <5> QED
          BY <4>2, <5>1
      <4> QED
        BY <1>6, <4>3, <4>4
    <3> QED
      BY <3>2, <3>3
  <2> QED
    BY <2>1, <2>2
<1> QED
  BY <1>1, <1>2, <1>3, <1>4, <1>7, <1>9, <1>12, <1>13, RunStepKeeps

\* upsert_synonyms drops the synonyms whose tag is missing, and they are
\* recorded.
LEMMA ResolveKeeps ==
  ASSUME IInv, NEW r \in Run, Resolve(r)
  PROVE  IInv'
<1> DEFINE S == {e \in Range(job[r].synonyms) : tags[e.to] # Never}
           ss == Keep(job[r].synonyms, S)
           j == [job[r] EXCEPT !.synonyms = ss]
<1>1. /\ TypeOK /\ RunOK(r) /\ FilesOK /\ TagsCovered /\ SynonymsCovered
      /\ pc[r] = "resolve" /\ pc' = [pc EXCEPT ![r] = "upsertSynonyms"]
      /\ UNCHANGED <<now, starts, soVars, dbVars, fileVars, synced>>
      /\ gap' = gap \union (Behind \intersect (Pending(r) \ Pending(r)'))
  BY DEF IInv, Resolve, Goto
<1>2. /\ UNCHANGED LastSyncDate /\ UNCHANGED now /\ UNCHANGED recent /\ UNCHANGED aliases
      /\ UNCHANGED tags /\ UNCHANGED synonyms /\ FilesOK' /\ TablesGrow
  BY <1>1 DEF soVars, dbVars, fileVars, LastSyncDate, FilesOK, TablesGrow
<1>3. /\ job[r] \in Job /\ job[r].synonyms \in Seq(SynonymRow)
      /\ ss \in Seq(SynonymRow) /\ Range(ss) = Range(job[r].synonyms) \intersect S
  <2>1. job[r] \in Job /\ job[r].synonyms \in Seq(SynonymRow)
    BY <1>1 DEF TypeOK, Job
  <2> HIDE DEF S
  <2> QED
    BY <2>1, KeepProperties
<1>4. Range(ss) = {e \in Range(job[r].synonyms) : tags[e.to] # Never}
  BY <1>3
<1> HIDE DEF S, ss
<1>5. /\ j \in Job /\ j.synonyms = ss /\ j.synonymsBegun = job[r].synonymsBegun
      /\ j.mode = job[r].mode /\ j.since = job[r].since /\ j.page = job[r].page
      /\ j.tags = job[r].tags /\ j.tagsBegun = job[r].tagsBegun
      /\ j.tagsPassed = job[r].tagsPassed /\ j.synonymsPassed = job[r].synonymsPassed
  BY <1>3 DEF Job
<1>6. job' = [job EXCEPT ![r] = j]
  <2>1. job \in [Run -> Job]
    BY <1>1 DEF TypeOK
  <2> QED
    BY <2>1 DEF Resolve, ss, S
<1> HIDE DEF j
<1>7. /\ pc'[r] = "upsertSynonyms" /\ job'[r] = j /\ OnlyRun(r)
      /\ pc' \in [Run -> Label] /\ job' \in [Run -> Job]
  <2>1. "upsertSynonyms" \in Label
    BY DEF Label
  <2> QED
    BY <1>1, <1>5, <1>6, <2>1, LocalStep, LocalTypes
<1>8. TypeOK'
  <2>1. Behind \subseteq {ATag(t) : t \in Tag} \union {ASynonym(s) : s \in Synonym}
    BY <1>1, ElementTypes DEF Behind
  <2> QED
    BY <1>1, <1>7, <2>1 DEF TypeOK, Label, soVars, dbVars, fileVars
<1>9. /\ Shape(r) /\ Asks(r) /\ TagsFetched(r) /\ SynonymsFetched(r)
      /\ job[r].tags = <<>>
  BY <1>1 DEF RunOK, Shape
<1>10. RunOK(r)'
  <2>1. Shape(r)'
    BY <1>1, <1>5, <1>7, <1>9 DEF Shape
  <2>2. Asks(r)'
    BY <1>1, <1>2, <1>5, <1>7, <1>9 DEF Asks
  <2>3. TagsFetched(r)'
    BY <1>1, <1>2, <1>5, <1>7, <1>9 DEF TagsFetched
  <2>4. SynonymsFetched(r)' /\ SynonymsCurrent(r)'
    BY <1>7 DEF SynonymsFetched, SynonymsCurrent
  <2>5. SynonymsResolved(r)'
    <3>1. \A e \in Range(job'[r].synonyms) : tags'[e.to] # Never
      BY <1>2, <1>4, <1>5, <1>7
    <3>2. DueTags(r)' = DueTags(r) /\ KnownTags(r)' = KnownTags(r)
      BY <1>2, <1>5, <1>7 DEF DueTags, KnownTags
    <3>3. \A t \in DueTags(r) \union KnownTags(r) : tags[t] # Never
      <4>1. Range(<<>>) = {}
        BY DEF Range
      <4>2. \A t \in DueTags(r) : tags[t] # Never
        BY <1>1, <1>9, <4>1 DEF DueTags, TagsFetched
      <4> QED
        BY <4>2 DEF KnownTags
    <3>4. \A e \in Range(aliases) :
            /\ job[r].since <= e.at /\ e.at < job[r].synonymsBegun
            /\ e.from \notin job[r].synonymsPassed
            => e \in Range(job[r].synonyms)
      BY <1>1, <1>9 DEF SynonymsFetched
    <3>5. \A e \in Range(aliases) :
            /\ job[r].since <= e.at
            /\ e.at < job[r].synonymsBegun
            /\ e.from \notin job[r].synonymsPassed
            /\ e.to \in DueTags(r) \union KnownTags(r)
            => e \in Range(ss)
      BY <1>4, <3>3, <3>4
    <3> QED
      BY <1>2, <1>5, <1>7, <3>1, <3>2, <3>5 DEF SynonymsResolved
  <2> QED
    BY <2>1, <2>2, <2>3, <2>4, <2>5 DEF RunOK
<1>11. TagsCovered' /\ SynonymsCovered'
  <2>1. SureTags(r) = {}
    BY <1>1 DEF SureTags
  <2>2. ASSUME NEW e \in Range(aliases), synonyms[e.from] = NoTag, e.at < LastSyncDate,
               e.from \in SureSynonyms(r)
        PROVE  ASynonym(e.from) \in gap' \/ e.from \in SureSynonyms(r)'
    <3>1. ASynonym(e.from) \in Behind /\ ASynonym(e.from) \in Pending(r)
      BY <2>2, BehindSynonym, SureIsPending
    <3>2. CASE ASynonym(e.from) \in Pending(r)'
      <4>1. \E f \in Range(job'[r].synonyms) : f.from = e.from
        BY <1>7, <3>2 DEF Pending, ATag, ASynonym
      <4> QED
        BY <1>7, <4>1 DEF SureSynonyms, Fetches
    <3> QED
      BY <1>1, <3>1, <3>2
  <2>3. gap \subseteq gap'
    BY <1>1
  <2> QED
    BY <1>1, <1>2, <1>7, <2>1, <2>2, <2>3, StillCovered
<1> QED
  BY <1>1, <1>2, <1>7, <1>8, <1>10, <1>11, RunStepKeeps

\* What upserting a chunk of synonyms does to the table and the locals.
LEMMA UpsertSynonymsEffect ==
  ASSUME TypeOK, NEW r \in Run, UpsertSynonyms(r)
  PROVE  /\ pc' \in [Run -> Label] /\ job' \in [Run -> Job] /\ OnlyRun(r)
         /\ synonyms' \in [Synonym -> Tag \union {NoTag}]
         /\ \A s \in Synonym : synonyms[s] # NoTag => synonyms'[s] = synonyms[s]
         /\ \A s \in Synonym : synonyms'[s] = synonyms[s]
              \/ (synonyms[s] = NoTag /\ \E e \in Range(job[r].synonyms) :
                                           e.from = s /\ synonyms'[s] = e.to)
         /\ \/ /\ pc'[r] = "idle" /\ job'[r] = NewJob /\ synced' = now
               /\ \A e \in Range(job[r].synonyms) : synonyms'[e.from] # NoTag
            \/ /\ pc'[r] = "upsertSynonyms" /\ UNCHANGED synced
               /\ \A e \in Range(job[r].synonyms) :
                    synonyms'[e.from] # NoTag \/ e \in Range(job'[r].synonyms)
               /\ Range(job'[r].synonyms) \subseteq Range(job[r].synonyms)
               /\ job'[r].mode = job[r].mode /\ job'[r].since = job[r].since
               /\ job'[r].page = job[r].page /\ job'[r].tagsBegun = job[r].tagsBegun
               /\ job'[r].tags = job[r].tags
               /\ job'[r].synonymsBegun = job[r].synonymsBegun
               /\ job'[r].tagsPassed = job[r].tagsPassed
               /\ job'[r].synonymsPassed = job[r].synonymsPassed
<1> DEFINE first == First(SynonymChunk, job[r].synonyms)
           rest == Rest(SynonymChunk, job[r].synonyms)
           chunk == Range(first)
           Chosen(s) == CHOOSE e \in chunk : e.from = s
           j == [job[r] EXCEPT !.synonyms = rest]
<1>1. /\ job[r] \in Job /\ job[r].synonyms \in Seq(SynonymRow) /\ SynonymChunk \in Nat
      /\ synonyms \in [Synonym -> Tag \union {NoTag}]
      /\ pc[r] = "upsertSynonyms"
  BY SizeAssumption DEF TypeOK, Job, UpsertSynonyms
<1>2. rest \in Seq(SynonymRow) /\ Range(job[r].synonyms) = chunk \union Range(rest)
  <2> DEFINE l == job[r].synonyms
  <2>1. l \in Seq(SynonymRow) /\ SynonymChunk \in Nat
    BY <1>1
  <2> HIDE DEF l
  <2>2. Range(l) = Range(First(SynonymChunk, l)) \union Range(Rest(SynonymChunk, l))
    BY <2>1, FirstRest
  <2>3. Rest(SynonymChunk, l) \in Seq(SynonymRow)
    BY <2>1, FirstRest
  <2> QED
    BY <2>2, <2>3 DEF l
<1>3. \A e \in Range(job[r].synonyms) : e.from \in Synonym /\ e.to \in Tag
  BY ElementTypes
<1> HIDE DEF first, rest, chunk
<1>4. synonyms' = [s \in Synonym |->
              IF synonyms[s] = NoTag /\ \E e \in chunk : e.from = s
              THEN Chosen(s).to
              ELSE synonyms[s]]
  BY DEF UpsertSynonyms, chunk, first
<1>5. ASSUME NEW s \in Synonym, \E e \in chunk : e.from = s
      PROVE  /\ Chosen(s) \in Range(job[r].synonyms) /\ Chosen(s).from = s
             /\ Chosen(s).to \in Tag /\ Chosen(s).to # NoTag
  <2>1. Chosen(s) \in chunk /\ Chosen(s).from = s
    BY <1>5
  <2> HIDE DEF Chosen
  <2> QED
    BY <1>2, <1>3, <2>1, NoTagAssumption
<1> HIDE DEF Chosen
<1>6. /\ synonyms' \in [Synonym -> Tag \union {NoTag}]
      /\ \A s \in Synonym : synonyms[s] # NoTag => synonyms'[s] = synonyms[s]
      /\ \A s \in Synonym : synonyms'[s] = synonyms[s]
              \/ (synonyms[s] = NoTag /\ \E e \in Range(job[r].synonyms) :
                                           e.from = s /\ synonyms'[s] = e.to)
      /\ \A e \in chunk : synonyms'[e.from] # NoTag
  <2>1. synonyms' \in [Synonym -> Tag \union {NoTag}]
    BY <1>1, <1>4, <1>5
  <2>2. \A s \in Synonym : synonyms[s] # NoTag => synonyms'[s] = synonyms[s]
    BY <1>4
  <2>3. \A s \in Synonym : synonyms'[s] = synonyms[s]
              \/ (synonyms[s] = NoTag /\ \E e \in Range(job[r].synonyms) :
                                           e.from = s /\ synonyms'[s] = e.to)
    BY <1>4, <1>5
  <2>4. ASSUME NEW e \in chunk
        PROVE  synonyms'[e.from] # NoTag
    <3>1. e.from \in Synonym
      BY <1>2, <1>3
    <3> QED
      BY <1>4, <1>5, <3>1
  <2> QED
    BY <2>1, <2>2, <2>3, <2>4
<1>7. CASE rest # <<>>
  <2>1. /\ j \in Job /\ j.synonyms = rest /\ j.synonymsBegun = job[r].synonymsBegun
        /\ j.mode = job[r].mode /\ j.since = job[r].since /\ j.page = job[r].page
        /\ j.tags = job[r].tags /\ j.tagsBegun = job[r].tagsBegun
        /\ j.tagsPassed = job[r].tagsPassed /\ j.synonymsPassed = job[r].synonymsPassed
    BY <1>1, <1>2 DEF Job
  <2>2. UNCHANGED pc /\ UNCHANGED synced /\ job' = [job EXCEPT ![r] = j]
    <3>1. job \in [Run -> Job]
      BY DEF TypeOK
    <3> QED
      BY <1>7, <3>1 DEF UpsertSynonyms, rest
  <2> HIDE DEF j
  <2>3. /\ job'[r] = j /\ OnlyRun(r) /\ pc' \in [Run -> Label] /\ job' \in [Run -> Job]
    BY <2>1, <2>2 DEF TypeOK, OnlyRun, Label
  <2> QED
    BY <1>1, <1>2, <1>6, <2>1, <2>2, <2>3
<1>8. CASE rest = <<>>
  <2>1. Exit(r) /\ synced' = now
    BY <1>8 DEF UpsertSynonyms, rest
  <2>2. Range(job[r].synonyms) = chunk
    BY <1>2, <1>8 DEF Range
  <2> QED
    BY <1>6, <2>1, <2>2, ExitStep
<1> QED
  BY <1>7, <1>8

\* upsert_synonyms inserts a chunk.
LEMMA UpsertSynonymsKeeps ==
  ASSUME IInv, NEW r \in Run, UpsertSynonyms(r)
  PROVE  IInv'
<1>1. /\ TypeOK /\ RunOK(r) /\ FilesOK /\ TagsCovered /\ SynonymsCovered
      /\ pc[r] = "upsertSynonyms"
      /\ UNCHANGED <<now, starts, soVars, tags, fileVars, gap>>
  BY DEF IInv, UpsertSynonyms
<1>2. /\ UNCHANGED LastSyncDate /\ UNCHANGED now /\ UNCHANGED recent /\ UNCHANGED aliases
      /\ UNCHANGED tags /\ UNCHANGED gap /\ FilesOK'
  BY <1>1 DEF soVars, fileVars, LastSyncDate, FilesOK
<1>3. /\ pc' \in [Run -> Label] /\ job' \in [Run -> Job] /\ OnlyRun(r)
      /\ synonyms' \in [Synonym -> Tag \union {NoTag}]
      /\ \A s \in Synonym : synonyms[s] # NoTag => synonyms'[s] = synonyms[s]
  BY <1>1, UpsertSynonymsEffect
<1>4. \/ /\ pc'[r] = "idle" /\ job'[r] = NewJob /\ synced' = now
         /\ \A e \in Range(job[r].synonyms) : synonyms'[e.from] # NoTag
      \/ /\ pc'[r] = "upsertSynonyms" /\ UNCHANGED synced
         /\ \A e \in Range(job[r].synonyms) :
              synonyms'[e.from] # NoTag \/ e \in Range(job'[r].synonyms)
         /\ Range(job'[r].synonyms) \subseteq Range(job[r].synonyms)
         /\ job'[r].mode = job[r].mode /\ job'[r].since = job[r].since
         /\ job'[r].page = job[r].page /\ job'[r].tagsBegun = job[r].tagsBegun
         /\ job'[r].tags = job[r].tags
         /\ job'[r].synonymsBegun = job[r].synonymsBegun
         /\ job'[r].tagsPassed = job[r].tagsPassed
         /\ job'[r].synonymsPassed = job[r].synonymsPassed
  BY <1>1, UpsertSynonymsEffect
<1>5. TablesGrow
  BY <1>2, <1>3 DEF TablesGrow
<1>6. TypeOK'
  <2>1. synced' \in Moment \union {Never}
    BY <1>1, <1>4 DEF TypeOK
  <2> QED
    BY <1>1, <1>3, <2>1 DEF TypeOK, Label, soVars, fileVars
<1>7. /\ Shape(r) /\ Asks(r) /\ TagsFetched(r) /\ SynonymsResolved(r)
      /\ \A e \in Range(aliases) : e.from \in Synonym
  BY <1>1, ElementTypes DEF RunOK
<1>8. \A e \in Range(aliases) : synonyms[e.from] # NoTag => synonyms'[e.from] # NoTag
  BY <1>3, <1>7
<1>9. RunOK(r)'
  <2>1. CASE pc'[r] = "idle" /\ job'[r] = NewJob
    BY <1>6, <2>1, ExitedRunOK
  <2>2. CASE /\ pc'[r] = "upsertSynonyms"
             /\ \A e \in Range(job[r].synonyms) :
                  synonyms'[e.from] # NoTag \/ e \in Range(job'[r].synonyms)
             /\ Range(job'[r].synonyms) \subseteq Range(job[r].synonyms)
             /\ job'[r].mode = job[r].mode /\ job'[r].since = job[r].since
             /\ job'[r].page = job[r].page /\ job'[r].tagsBegun = job[r].tagsBegun
             /\ job'[r].tags = job[r].tags
             /\ job'[r].synonymsBegun = job[r].synonymsBegun
             /\ job'[r].tagsPassed = job[r].tagsPassed
             /\ job'[r].synonymsPassed = job[r].synonymsPassed
    <3>1. Shape(r)' /\ Asks(r)'
      BY <1>1, <1>2, <1>7, <2>2 DEF Shape, Asks
    <3>2. TagsFetched(r)' /\ SynonymsFetched(r)' /\ SynonymsCurrent(r)'
      BY <1>1, <1>2, <1>7, <2>2 DEF TagsFetched, SynonymsFetched, SynonymsCurrent
    <3>3. SynonymsResolved(r)'
      <4>1. DueTags(r)' = DueTags(r) /\ KnownTags(r)' = KnownTags(r)
        BY <1>2, <2>2 DEF DueTags, KnownTags
      <4>2. \A e \in Range(job'[r].synonyms) : tags'[e.to] # Never
        BY <1>1, <1>2, <1>7, <2>2 DEF SynonymsResolved
      <4> QED
        BY <1>1, <1>2, <1>7, <1>8, <2>2, <4>1, <4>2 DEF SynonymsResolved
    <3> QED
      BY <3>1, <3>2, <3>3 DEF RunOK
  <2> QED
    BY <1>4, <2>1, <2>2
<1>10. TagsCovered'
  <2>1. SureTags(r) = {}
    BY <1>1 DEF SureTags
  <2>2. \A q \in Run \ {r} : SureTags(q)' = SureTags(q)
    BY <1>3 DEF SureTags, OnlyRun
  <2> QED
    BY <1>1, <1>2, <2>1, <2>2 DEF TagsCovered
<1>11. SynonymsCovered'
  <2> SUFFICES ASSUME NEW e \in Range(aliases), synonyms'[e.from] = NoTag, e.at < LastSyncDate
               PROVE  ASynonym(e.from) \in gap' \/ \E q \in Run : e.from \in SureSynonyms(q)'
    BY <1>2 DEF SynonymsCovered
  <2>1. ASynonym(e.from) \in gap \/ \E q \in Run : e.from \in SureSynonyms(q)
    BY <1>1, <1>8 DEF SynonymsCovered
  <2>2. ASSUME NEW q \in Run, e.from \in SureSynonyms(q)
        PROVE  e.from \in SureSynonyms(q)'
    <3>1. CASE q # r
      BY <1>2, <1>3, <2>2, <3>1 DEF SureSynonyms, Fetches, OnlyRun
    <3>2. CASE q = r
      <4>1. \E f \in Range(job[r].synonyms) : f.from = e.from
        BY <1>1, <2>2, <3>2 DEF SureSynonyms, Fetches
      <4>2. pc'[r] = "upsertSynonyms" /\ \E f \in Range(job'[r].synonyms) : f.from = e.from
        BY <1>4, <4>1
      <4> QED
        BY <3>2, <4>2 DEF SureSynonyms, Fetches
    <3> QED
      BY <3>1, <3>2
  <2> QED
    BY <1>2, <2>1, <2>2
<1> QED
  BY <1>1, <1>2, <1>3, <1>5, <1>6, <1>9, <1>10, <1>11, RunStepKeeps

-----------------------------------------------------------------------------
(***************************************************************************)
(* Listings that shrink or are reordered.                                  *)
(***************************************************************************)

\* A listing stays in order when one of its items leaves it.
LEMMA RemovalKeepsOrder ==
  ASSUME NEW T, NEW l \in Seq(T), NEW Key, NEW clock \in Int,
         \A e \in T : e.at \in Int,
         InOrder(l, Key, clock),
         NEW S, NEW k \in 1..Len(l), \A j \in 1..Len(l) : l[j] \in S <=> j # k
  PROVE  InOrder(Keep(l, S), Key, clock)
<1> DEFINE m == Keep(l, S)
           h(j) == IF j < k THEN j ELSE j + 1
<1>1. Len(l) \in Nat /\ DOMAIN l = 1..Len(l) /\ \A i \in 1..Len(l) : l[i].at \in Int
  BY LenProperties
<1>2. /\ Len(m) = Len(l) - 1
      /\ \A j \in 1..(Len(l) - 1) : m[j] = IF j < k THEN l[j] ELSE l[j + 1]
  BY KeepRemoves
<1>3. m \in Seq(T)
  BY KeepProperties
<1> HIDE DEF m
<1>4. DOMAIN m = 1..(Len(l) - 1)
  BY <1>2, <1>3, LenProperties
<1>5. \A j \in DOMAIN m : h(j) \in DOMAIN l /\ m[j] = l[h(j)]
  BY <1>1, <1>2, <1>4
<1>6. \A i, j \in DOMAIN m : (i < j => h(i) < h(j)) /\ (h(i) = h(j) => i = j)
  BY <1>1, <1>4
<1> HIDE DEF h
<1> QED
  BY <1>5, <1>6 DEF InOrder, m

\* What Shift leaves alone, and what it notes.
LEMMA ShiftEffect ==
  ASSUME TypeOK, Shift
  PROVE  /\ UNCHANGED <<now, tags, synonyms, tagsFile, synonymsFile, starts, pc, synced>>
         /\ UNCHANGED LastSyncDate
         /\ changes' \in 0..MaxChanges
         /\ job' \in [Run -> Job]
         /\ \A r \in Run :
              /\ job'[r].mode = job[r].mode /\ job'[r].since = job[r].since
              /\ job'[r].page = job[r].page
              /\ job'[r].tags = job[r].tags /\ job'[r].synonyms = job[r].synonyms
              /\ job'[r].tagsBegun = job[r].tagsBegun
              /\ job'[r].synonymsBegun = job[r].synonymsBegun
              /\ job'[r].tagsPassed = job[r].tagsPassed \union SlippedTags(r)
              /\ job'[r].synonymsPassed = job[r].synonymsPassed \union SlippedSynonyms(r)
              /\ pc[r] \notin {"fetchTags", "fetchSynonyms"} => job'[r] = job[r]
         /\ \A x \in gap' : x \in gap \/ x \in Behind
         /\ gap \subseteq gap'
         /\ \A r \in Run : \A s \in SlippedSynonyms(r) :
              ASynonym(s) \in Behind => ASynonym(s) \in gap'
<1>1. /\ UNCHANGED <<now, tags, synonyms, tagsFile, synonymsFile, starts, pc, synced>>
      /\ UNCHANGED LastSyncDate
  BY DEF Shift, dbVars, fileVars, LastSyncDate
<1>2. changes' \in 0..MaxChanges
  <2>1. changes < MaxChanges /\ changes' = changes + 1
    BY DEF Shift
  <2> QED
    BY <2>1, BoundAssumption DEF TypeOK
<1>3. ASSUME NEW r \in Run
      PROVE  SlippedTags(r) \subseteq Tag /\ SlippedSynonyms(r) \subseteq Synonym
  <2>1. \A i \in DOMAIN recent : recent[i] \in Range(recent)
    BY DEF Range
  <2>2. \A i \in DOMAIN popular : popular[i] \in Range(popular)
    BY DEF Range
  <2>3. \A i \in DOMAIN aliases : aliases[i] \in Range(aliases)
    BY DEF Range
  <2> QED
    BY <2>1, <2>2, <2>3, ElementTypes DEF SlippedTags, SlippedSynonyms, Slipped
<1> DEFINE J(r) == [job[r] EXCEPT !.tagsPassed = @ \union SlippedTags(r),
                                  !.synonymsPassed = @ \union SlippedSynonyms(r)]
<1>4. job' = [r \in Run |-> J(r)]
  BY DEF Shift
<1>5. ASSUME NEW r \in Run
      PROVE  /\ J(r) \in Job
             /\ J(r).mode = job[r].mode /\ J(r).since = job[r].since
             /\ J(r).page = job[r].page
             /\ J(r).tags = job[r].tags /\ J(r).synonyms = job[r].synonyms
             /\ J(r).tagsBegun = job[r].tagsBegun
             /\ J(r).synonymsBegun = job[r].synonymsBegun
             /\ J(r).tagsPassed = job[r].tagsPassed \union SlippedTags(r)
             /\ J(r).synonymsPassed = job[r].synonymsPassed \union SlippedSynonyms(r)
             /\ pc[r] \notin {"fetchTags", "fetchSynonyms"} => J(r) = job[r]
  <2>1. job[r] \in Job
    BY DEF TypeOK
  <2>2. /\ job[r].tagsPassed \union SlippedTags(r) \in SUBSET Tag
        /\ job[r].synonymsPassed \union SlippedSynonyms(r) \in SUBSET Synonym
    BY <1>3, <2>1 DEF Job
  <2>3. pc[r] \notin {"fetchTags", "fetchSynonyms"} =>
          SlippedTags(r) = {} /\ SlippedSynonyms(r) = {}
    BY DEF SlippedTags, SlippedSynonyms
  <2> QED
    BY <2>1, <2>2, <2>3 DEF Job
<1> HIDE DEF J
<1>6. job' \in [Run -> Job] /\ \A r \in Run : job'[r] = J(r)
  BY <1>4, <1>5
<1>7. /\ \A x \in gap' : x \in gap \/ x \in Behind
      /\ gap \subseteq gap'
      /\ \A r \in Run : \A s \in SlippedSynonyms(r) :
           ASynonym(s) \in Behind => ASynonym(s) \in gap'
  <2> DEFINE P == UNION {{ASynonym(s) : s \in SlippedSynonyms(r)} : r \in Run}
  <2>1. gap' = gap \union {x \in P : x \in Behind}
    BY DEF Shift
  <2>2. \A r \in Run : \A s \in SlippedSynonyms(r) : ASynonym(s) \in P
    OBVIOUS
  <2> HIDE DEF P
  <2> QED
    BY <2>1, <2>2
<1> QED
  BY <1>1, <1>2, <1>5, <1>6, <1>7

\* A listing of Stack Overflow shrinks or is reordered: what was ahead of a run
\* is ahead still or noted as passed, and what an incremental run was sure to
\* fetch is so still or noted as lost.
LEMMA ShiftKeeps ==
  ASSUME IInv, Shift, ListingsOK',
         recent' \in Seq([tag : Tag, at : Moment]), popular' \in Seq(Tag),
         aliases' \in Seq(SynonymRow),
         Range(recent') \subseteq Range(recent), Range(aliases') \subseteq Range(aliases)
  PROVE  IInv'
<1>1. TypeOK /\ ListingsOK /\ DatesOK /\ FilesOK /\ TagsCovered /\ SynonymsCovered
  BY DEF IInv
<1>2. /\ UNCHANGED now /\ UNCHANGED tags /\ UNCHANGED synonyms
      /\ UNCHANGED tagsFile /\ UNCHANGED synonymsFile /\ UNCHANGED starts
      /\ UNCHANGED pc /\ UNCHANGED synced /\ UNCHANGED LastSyncDate
      /\ changes' \in 0..MaxChanges /\ job' \in [Run -> Job]
      /\ \A x \in gap' : x \in gap \/ x \in Behind
      /\ gap \subseteq gap'
  BY <1>1, ShiftEffect
<1>3. \A r \in Run :
         /\ job'[r].mode = job[r].mode /\ job'[r].since = job[r].since
         /\ job'[r].page = job[r].page
         /\ job'[r].tags = job[r].tags /\ job'[r].synonyms = job[r].synonyms
         /\ job'[r].tagsBegun = job[r].tagsBegun
         /\ job'[r].synonymsBegun = job[r].synonymsBegun
         /\ job'[r].tagsPassed = job[r].tagsPassed \union SlippedTags(r)
         /\ job'[r].synonymsPassed = job[r].synonymsPassed \union SlippedSynonyms(r)
         /\ pc[r] \notin {"fetchTags", "fetchSynonyms"} => job'[r] = job[r]
  BY <1>1, ShiftEffect
<1>4. TypeOK'
  <2>1. Behind \subseteq {ATag(t) : t \in Tag} \union {ASynonym(s) : s \in Synonym}
    BY <1>1, ElementTypes DEF Behind
  <2>2. gap' \subseteq {ATag(t) : t \in Tag} \union {ASynonym(s) : s \in Synonym}
    BY <1>1, <1>2, <2>1 DEF TypeOK
  <2> QED
    BY <1>1, <1>2, <2>2 DEF TypeOK
<1>5. DatesOK' /\ FilesOK'
  BY <1>1, <1>2 DEF DatesOK, FilesOK
<1>6. ASSUME NEW r \in Run
      PROVE  RunOK(r)'
  <2> DEFINE k == (job[r].page - 1) * PageSize
  <2>1. RunOK(r)
    BY DEF IInv
  <2>2. k \in Int
    <3>1. job[r].page \in Nat \ {0}
      BY <1>1 DEF TypeOK, Job
    <3> QED
      BY <3>1, SizeAssumption
  <2>3. k' = k
    BY <1>3
  <2>4. DOMAIN recent' \subseteq Int /\ DOMAIN popular' \subseteq Int /\ DOMAIN aliases' \subseteq Int
    BY LenProperties
  <2> HIDE DEF k
  <2>5. Shape(r)' /\ Asks(r)'
    BY <1>2, <1>3, <2>1 DEF RunOK, Shape, Asks
  <2>6. ASSUME NEW e \in Range(recent'), pc[r] = "fetchTags", TagAhead(r, e),
               e.tag \notin job'[r].tagsPassed
        PROVE  TagAhead(r, e)'
    <3>1. e.tag \notin SlippedTags(r)
      BY <1>3, <2>6
    <3>2. PICK j \in DOMAIN recent' : recent'[j] = e
      BY DEF Range
    <3>3. CASE job[r].mode = "incremental"
      <4>1. PICK i \in DOMAIN recent : i > k /\ recent[i] = e
        BY <2>6, <3>3 DEF TagAhead, k
      <4>2. ~(j <= k)
        <5> SUFFICES ASSUME j <= k PROVE e \in Slipped(r, recent, recent')
          BY <2>6, <3>1, <3>3 DEF SlippedTags
        <5> QED
          BY <3>2, <4>1 DEF Slipped, k
      <4> QED
        BY <1>3, <2>2, <2>3, <2>4, <3>2, <3>3, <4>2 DEF TagAhead, k
    <3>4. CASE job[r].mode # "incremental"
      <4>1. PICK i \in DOMAIN popular : i > k /\ popular[i] = e.tag
        BY <2>6, <3>4 DEF TagAhead, k
      <4>2. PICK m \in DOMAIN popular' : popular'[m] = e.tag
        BY <3>2 DEF ListingsOK
      <4>3. ~(m <= k)
        <5> SUFFICES ASSUME m <= k PROVE e.tag \in Slipped(r, popular, popular')
          BY <2>6, <3>1, <3>4 DEF SlippedTags
        <5> QED
          BY <4>1, <4>2 DEF Slipped, k
      <4> QED
        BY <1>3, <2>2, <2>3, <2>4, <3>4, <4>2, <4>3 DEF TagAhead, k
    <3> QED
      BY <3>3, <3>4
  <2>7. ASSUME NEW e \in Range(aliases'), pc[r] = "fetchSynonyms", SynonymAhead(r, e),
               e.from \notin job'[r].synonymsPassed
        PROVE  SynonymAhead(r, e)'
    <3>1. PICK j \in DOMAIN aliases' : aliases'[j] = e
      BY DEF Range
    <3>2. PICK i \in DOMAIN aliases : i > k /\ aliases[i] = e
      BY <2>7 DEF SynonymAhead, k
    <3>3. ~(j <= k)
      <4> SUFFICES ASSUME j <= k PROVE e \in Slipped(r, aliases, aliases')
        BY <1>3, <2>7 DEF SlippedSynonyms
      <4> QED
        BY <3>1, <3>2 DEF Slipped, k
    <3> QED
      BY <2>2, <2>3, <2>4, <3>1, <3>3 DEF SynonymAhead, k
  <2>8. TagsFetched(r)'
    BY <1>2, <1>3, <2>1, <2>6 DEF RunOK, TagsFetched
  <2>9. SynonymsFetched(r)'
    BY <1>2, <1>3, <2>1, <2>7 DEF RunOK, SynonymsFetched
  <2>10. SynonymsCurrent(r)'
    BY <1>2, <1>3, <2>1 DEF RunOK, SynonymsCurrent
  <2>11. SynonymsResolved(r)'
    <3>1. DueTags(r)' \subseteq DueTags(r) /\ KnownTags(r)' = KnownTags(r)
      BY <1>2, <1>3 DEF DueTags, KnownTags
    <3> QED
      BY <1>2, <1>3, <2>1, <3>1 DEF RunOK, SynonymsResolved
  <2> QED
    BY <2>5, <2>8, <2>9, <2>10, <2>11 DEF RunOK
<1>7. TagsCovered'
  <2>1. \A r \in Run : SureTags(r)' = SureTags(r)
    BY <1>2, <1>3 DEF SureTags
  <2> QED
    BY <1>1, <1>2, <2>1 DEF TagsCovered
<1>8. SynonymsCovered'
  <2> SUFFICES ASSUME NEW e \in Range(aliases'), synonyms[e.from] = NoTag, e.at < LastSyncDate
               PROVE  ASynonym(e.from) \in gap' \/ \E r \in Run : e.from \in SureSynonyms(r)'
    BY <1>2 DEF SynonymsCovered
  <2>1. e \in Range(aliases) /\ ASynonym(e.from) \in Behind
    BY BehindSynonym
  <2>2. ASSUME NEW r \in Run, e.from \in SureSynonyms(r)
        PROVE  ASynonym(e.from) \in gap' \/ e.from \in SureSynonyms(r)'
    <3>1. CASE ~Fetches(r)
      BY <1>2, <1>3, <2>2, <3>1 DEF SureSynonyms, Fetches
    <3>2. CASE Fetches(r)
      <4>1. PICK f \in Range(aliases) :
              /\ job[r].since <= f.at
              /\ job[r].page > 1 => /\ f.at < job[r].synonymsBegun
                                     /\ f.from \notin job[r].synonymsPassed
              /\ f.from = e.from
        BY <2>2, <3>2 DEF SureSynonyms
      <4>2. f = e
        BY <1>1, <2>1, <4>1 DEF ListingsOK, Range
      <4>3. CASE e.from \in SlippedSynonyms(r)
        BY <1>1, <2>1, <4>3, ShiftEffect
      <4>4. CASE e.from \notin SlippedSynonyms(r)
        <5>1. Fetches(r)'
          BY <1>2, <1>3, <3>2 DEF Fetches
        <5> QED
          BY <1>3, <4>1, <4>2, <4>4, <5>1 DEF SureSynonyms
      <4> QED
        BY <4>3, <4>4
    <3> QED
      BY <3>1, <3>2
  <2> QED
    BY <1>1, <1>2, <2>1, <2>2 DEF SynonymsCovered
<1> QED
  BY <1>4, <1>5, <1>6, <1>7, <1>8 DEF IInv

\* A tag loses questions, and its place to the next one.
LEMMA DeclineKeeps ==
  ASSUME IInv, NEW t \in Tag, Decline(t)
  PROVE  IInv'
<1>1. TypeOK /\ ListingsOK /\ popular \in Seq(Tag)
  BY DEF IInv, TypeOK
<1>2. UNCHANGED recent /\ UNCHANGED aliases /\ Shift /\ UNCHANGED now
  BY DEF Decline, Shift
<1>3. PICK i \in 1..Len(popular) - 1 :
        popular' = [popular EXCEPT ![i] = popular[i + 1], ![i + 1] = popular[i]]
  BY DEF Decline
<1>4. /\ Len(popular) \in Nat /\ DOMAIN popular = 1..Len(popular)
      /\ popular \in [1..Len(popular) -> Tag]
  BY <1>1, LenProperties
<1>5. i \in 1..Len(popular) /\ i + 1 \in 1..Len(popular) /\ i # i + 1
  BY <1>4
<1>6. /\ popular' \in [1..Len(popular) -> Tag]
      /\ popular'[i] = popular[i + 1] /\ popular'[i + 1] = popular[i]
      /\ \A j \in 1..Len(popular) : j # i /\ j # i + 1 => popular'[j] = popular[j]
  BY <1>3, <1>4, <1>5
<1>7. popular' \in Seq(Tag) /\ DOMAIN popular' = 1..Len(popular)
  BY <1>4, <1>6, SeqDef
<1>8. \A j \in DOMAIN popular : \E m \in DOMAIN popular' : popular'[m] = popular[j]
  BY <1>4, <1>5, <1>6, <1>7
<1>9. ListingsOK'
  BY <1>1, <1>2, <1>8 DEF ListingsOK
<1>10. recent' \in Seq([tag : Tag, at : Moment]) /\ aliases' \in Seq(SynonymRow)
  BY <1>1, <1>2 DEF TypeOK
<1> QED
  BY <1>2, <1>7, <1>9, <1>10, ShiftKeeps

\* A tag leaves both listings of tags.
LEMMA LeaveKeeps ==
  ASSUME IInv, NEW t \in Tag, Leave(t)
  PROVE  IInv'
<1> DEFINE Item == [tag : Tag, at : Moment]
           Key == [e \in Item |-> e.tag]
           S == {e \in Range(recent) : e.tag # t}
<1>1. /\ TypeOK /\ ListingsOK /\ popular \in Seq(Tag) /\ recent \in Seq(Item) /\ now \in Int
      /\ \A e \in Item : e.at \in Int /\ Key[e] = e.tag
  BY MomentIsInt DEF IInv, TypeOK
<1>2. /\ UNCHANGED aliases /\ Shift /\ UNCHANGED now
      /\ recent' = Keep(recent, S) /\ popular' = Keep(popular, Tag \ {t})
  BY DEF Leave, Shift
<1>3. /\ Len(recent) \in Nat /\ DOMAIN recent = 1..Len(recent)
      /\ \A i \in 1..Len(recent) : recent[i] \in Item /\ recent[i] \in Range(recent)
  <2> HIDE DEF Item
  <2> QED
    BY <1>1, Items
<1>4. PICK k \in 1..Len(recent) : recent[k].tag = t
  BY <1>3 DEF Leave, Listed, Range
<1>5. \A j \in 1..Len(recent) : recent[j] \in S <=> j # k
  BY <1>1, <1>3, <1>4 DEF ListingsOK
<1>6. InOrder(recent, Key, now)
  BY <1>1, <1>3 DEF ListingsOK, InOrder
<1>s. \A e \in S : e.tag # t
  OBVIOUS
<1> HIDE DEF Item, Key, S
<1>7. InOrder(recent', Key, now)
  BY <1>1, <1>2, <1>5, <1>6, RemovalKeepsOrder
<1>8. /\ recent' \in Seq(Item) /\ Range(recent') = Range(recent) \intersect S
      /\ popular' \in Seq(Tag) /\ Range(popular') = Range(popular) \intersect (Tag \ {t})
  BY <1>1, <1>2, KeepProperties
<1>9. \A i \in DOMAIN recent' : recent'[i] \in Item /\ recent'[i] \in Range(recent')
  BY <1>8, Items
<1>10. ASSUME NEW i \in DOMAIN recent'
       PROVE  \E j \in DOMAIN popular' : popular'[j] = recent'[i].tag
  <2>1. recent'[i] \in Range(recent) /\ recent'[i].tag # t
    BY <1>8, <1>9, <1>s
  <2>2. PICK m \in DOMAIN recent : recent[m] = recent'[i]
    BY <2>1 DEF Range
  <2>3. PICK n \in DOMAIN popular : popular[n] = recent'[i].tag
    BY <1>1, <2>2 DEF ListingsOK
  <2>4. recent'[i].tag \in Range(popular) /\ recent'[i].tag \in Tag
    BY <1>1, <2>1, <2>3, ElementTypes DEF Range
  <2>5. recent'[i].tag \in Range(popular')
    BY <1>8, <2>1, <2>4
  <2> QED
    BY <2>5 DEF Range
<1>11. ListingsOK'
  <2>1. \A i, j \in DOMAIN recent' : recent'[i].tag = recent'[j].tag => i = j
    BY <1>1, <1>7, <1>9 DEF InOrder
  <2> QED
    BY <1>1, <1>2, <1>7, <1>10, <2>1 DEF ListingsOK, InOrder
<1>12. recent' \in Seq([tag : Tag, at : Moment]) /\ aliases' \in Seq(SynonymRow)
  BY <1>1, <1>2, <1>8 DEF TypeOK, Item
<1> QED
  BY <1>2, <1>8, <1>11, <1>12, ShiftKeeps

\* A synonym leaves its listing.
LEMMA WithdrawKeeps ==
  ASSUME IInv, NEW s \in Synonym, Withdraw(s)
  PROVE  IInv'
<1> DEFINE Key == [e \in SynonymRow |-> e.from]
           S == {e \in Range(aliases) : e.from # s}
<1>1. /\ TypeOK /\ ListingsOK /\ aliases \in Seq(SynonymRow) /\ now \in Int
      /\ \A e \in SynonymRow : e.at \in Int /\ Key[e] = e.from
  BY MomentIsInt DEF IInv, TypeOK, SynonymRow
<1>2. /\ UNCHANGED recent /\ UNCHANGED popular /\ Shift /\ UNCHANGED now
      /\ aliases' = Keep(aliases, S)
  BY DEF Withdraw, Shift
<1>3. /\ Len(aliases) \in Nat /\ DOMAIN aliases = 1..Len(aliases)
      /\ \A i \in 1..Len(aliases) : aliases[i] \in SynonymRow /\ aliases[i] \in Range(aliases)
  BY <1>1, Items
<1>4. PICK k \in 1..Len(aliases) : aliases[k].from = s
  BY <1>3 DEF Withdraw, Range
<1>5. \A j \in 1..Len(aliases) : aliases[j] \in S <=> j # k
  BY <1>1, <1>3, <1>4 DEF ListingsOK
<1>6. InOrder(aliases, Key, now)
  BY <1>1, <1>3 DEF ListingsOK, InOrder
<1> HIDE DEF Key, S
<1>7. InOrder(aliases', Key, now)
  BY <1>1, <1>2, <1>5, <1>6, RemovalKeepsOrder
<1>8. aliases' \in Seq(SynonymRow) /\ Range(aliases') = Range(aliases) \intersect S
  BY <1>1, <1>2, KeepProperties
<1>9. \A i \in DOMAIN aliases' : aliases'[i] \in SynonymRow
  BY <1>8, Items
<1>10. ListingsOK'
  <2>1. \A i, j \in DOMAIN aliases' : aliases'[i].from = aliases'[j].from => i = j
    BY <1>1, <1>7, <1>9 DEF InOrder
  <2> QED
    BY <1>1, <1>2, <1>7, <2>1 DEF ListingsOK, InOrder
<1>11. recent' \in Seq([tag : Tag, at : Moment]) /\ popular' \in Seq(Tag)
  BY <1>1, <1>2 DEF TypeOK
<1> QED
  BY <1>2, <1>8, <1>10, <1>11, ShiftKeeps

-----------------------------------------------------------------------------
(***************************************************************************)
(* The initial states, and the invariant.                                  *)
(***************************************************************************)

\* A list of all items of a finite set, each once.
LEMMA Listing ==
  ASSUME NEW S, IsFiniteSet(S), NEW T \in SUBSET S,
         NEW list \in Bijection(1..Cardinality(T), T)
  PROVE  /\ Cardinality(T) \in Nat
         /\ list \in [1..Cardinality(T) -> T]
         /\ list \in Seq(T)
         /\ \A i, j \in 1..Cardinality(T) : list[i] = list[j] => i = j
         /\ \A x \in T : \E i \in 1..Cardinality(T) : list[i] = x
<1>1. Cardinality(T) \in Nat
  BY FS_Subset, FS_CardinalityType
<1>2. list \in [1..Cardinality(T) -> T]
  BY DEF Bijection, Injection
<1>3. \A i, j \in 1..Cardinality(T) : list[i] = list[j] => i = j
  BY <1>2 DEF Bijection, Injection, IsInjective
<1>4. \A x \in T : \E i \in 1..Cardinality(T) : list[i] = x
  BY DEF Bijection, Surjection
<1>5. list \in Seq(T)
  BY <1>1, <1>2, SeqDef
<1> QED
  BY <1>1, <1>2, <1>3, <1>4, <1>5

\* The listings at the migration have their types and are in order.
LEMMA InitListings ==
  ASSUME Init
  PROVE  /\ recent \in Seq([tag : Tag, at : Moment]) /\ popular \in Seq(Tag)
         /\ aliases \in Seq(SynonymRow)
         /\ ListingsOK
<1> DEFINE Item == [tag : Tag, at : Moment]
<1>1. now = 1 /\ now \in Moment /\ 0 \in Moment
  BY BoundAssumption DEF Init, Moment
<1>2. PICK T \in SUBSET Tag :
       /\ SeedTags \subseteq T
       /\ popular \in Bijection(1..Cardinality(T), T)
       /\ \E order \in Bijection(1..Cardinality(T), T), k \in 0..Cardinality(T) :
            recent = [i \in DOMAIN order |->
                        [tag |-> order[i], at |-> IF i <= k THEN now ELSE 0]]
       /\ \E S \in SUBSET Synonym :
            \E order \in Bijection(1..Cardinality(S), S), to \in [S -> T],
               k \in 0..Cardinality(S) :
              aliases = [i \in DOMAIN order |->
                           [from |-> order[i], to |-> to[order[i]],
                            at |-> IF i <= k THEN now ELSE 0]]
  BY DEF Init
<1>3. /\ Cardinality(T) \in Nat
      /\ popular \in [1..Cardinality(T) -> T] /\ popular \in Seq(T)
      /\ \A x \in T : \E i \in 1..Cardinality(T) : popular[i] = x
  BY <1>2, FiniteAssumption, Listing
<1>4. PICK order \in Bijection(1..Cardinality(T), T), k \in 0..Cardinality(T) :
            recent = [i \in DOMAIN order |->
                        [tag |-> order[i], at |-> IF i <= k THEN now ELSE 0]]
  BY <1>2
<1>5. /\ order \in [1..Cardinality(T) -> T]
      /\ \A i, j \in 1..Cardinality(T) : order[i] = order[j] => i = j
  BY <1>4, FiniteAssumption, Listing
<1>6. /\ DOMAIN recent = 1..Cardinality(T)
      /\ \A i \in 1..Cardinality(T) :
           /\ recent[i] = [tag |-> order[i], at |-> IF i <= k THEN now ELSE 0]
           /\ recent[i].tag = order[i] /\ order[i] \in T
           /\ recent[i].at = IF i <= k THEN 1 ELSE 0
  BY <1>1, <1>4, <1>5
<1>7. recent \in Seq(Item)
  <2>1. \A i \in 1..Cardinality(T) : recent[i] \in Item
    <3>1. \A i \in 1..Cardinality(T) : (IF i <= k THEN now ELSE 0) \in Moment
      BY <1>1
    <3>2. \A i \in 1..Cardinality(T) : order[i] \in Tag
      BY <1>6
    <3>3. \A i \in 1..Cardinality(T) :
            [tag |-> order[i], at |-> IF i <= k THEN now ELSE 0] \in Item
      BY <3>1, <3>2
    <3> HIDE DEF Item
    <3> QED
      BY <1>6, <3>3
  <2>2. recent \in [1..Cardinality(T) -> Item]
    <3>1. \A i \in 1..Cardinality(T) :
            [tag |-> order[i], at |-> IF i <= k THEN now ELSE 0] \in Item
      BY <1>6, <2>1
    <3>2. DOMAIN order = 1..Cardinality(T)
      BY <1>5
    <3> HIDE DEF Item
    <3> QED
      BY <1>4, <3>1, <3>2
  <2>3. Cardinality(T) \in Nat
    BY <1>3
  <2> HIDE DEF Item
  <2> QED
    BY <2>2, <2>3, SeqDef
<1>8. PICK S \in SUBSET Synonym :
            \E list \in Bijection(1..Cardinality(S), S), to \in [S -> T],
               m \in 0..Cardinality(S) :
              aliases = [i \in DOMAIN list |->
                           [from |-> list[i], to |-> to[list[i]],
                            at |-> IF i <= m THEN now ELSE 0]]
  BY <1>2
<1>9. PICK list \in Bijection(1..Cardinality(S), S), to \in [S -> T],
           m \in 0..Cardinality(S) :
              aliases = [i \in DOMAIN list |->
                           [from |-> list[i], to |-> to[list[i]],
                            at |-> IF i <= m THEN now ELSE 0]]
  BY <1>8
<1>10. /\ Cardinality(S) \in Nat
       /\ list \in [1..Cardinality(S) -> S]
       /\ \A i, j \in 1..Cardinality(S) : list[i] = list[j] => i = j
  <2>1. IsFiniteSet(Synonym)
    BY FiniteAssumption
  <2> QED
    BY <2>1, Listing
<1>11. /\ DOMAIN aliases = 1..Cardinality(S)
       /\ \A i \in 1..Cardinality(S) :
            /\ aliases[i] = [from |-> list[i], to |-> to[list[i]],
                             at |-> IF i <= m THEN now ELSE 0]
            /\ aliases[i].from = list[i]
            /\ aliases[i].at = IF i <= m THEN 1 ELSE 0
            /\ list[i] \in S /\ to[list[i]] \in T
  BY <1>1, <1>9, <1>10
<1>12. aliases \in Seq(SynonymRow)
  <2>1. \A i \in 1..Cardinality(S) : aliases[i] \in SynonymRow
    <3>1. \A i \in 1..Cardinality(S) : list[i] \in Synonym /\ to[list[i]] \in Tag
      BY <1>11
    <3> QED
      BY <1>1, <1>11, <3>1 DEF SynonymRow
  <2>2. aliases \in [1..Cardinality(S) -> SynonymRow]
    BY <1>9, <1>10, <1>11, <2>1
  <2> QED
    BY <1>10, <2>2, SeqDef
<1>13. popular \in Seq(Tag)
  BY <1>2, <1>3, SeqMonotonic
<1>14. ListingsOK
  <2>1. \A i, j \in DOMAIN recent : i < j => recent[i].at >= recent[j].at
    BY <1>3, <1>6
  <2>2. \A i, j \in DOMAIN aliases : i < j => aliases[i].at >= aliases[j].at
    BY <1>10, <1>11
  <2>3. \A i, j \in DOMAIN recent : recent[i].tag = recent[j].tag => i = j
    BY <1>5, <1>6
  <2>4. \A i, j \in DOMAIN aliases : aliases[i].from = aliases[j].from => i = j
    BY <1>10, <1>11
  <2>5. /\ \A i \in DOMAIN recent : recent[i].at <= now
        /\ \A i \in DOMAIN aliases : aliases[i].at <= now
    BY <1>1, <1>6, <1>11
  <2>6. \A i \in DOMAIN recent : \E j \in DOMAIN popular : popular[j] = recent[i].tag
    BY <1>3, <1>6
  <2> QED
    BY <2>1, <2>2, <2>3, <2>4, <2>5, <2>6 DEF ListingsOK
<1> QED
  BY <1>7, <1>12, <1>13, <1>14

\* The inductive invariant holds at first.
LEMMA InitIInv ==
  ASSUME Init
  PROVE  IInv
<1>1. /\ now = 1 /\ now \in Moment /\ 1 \in Moment /\ 0 \in Moment /\ Never # 1 /\ Never <= 1
      /\ 1 <= 1 /\ 0 <= 1
  BY BoundAssumption DEF Init, Moment, Never
<1>2. /\ recent \in Seq([tag : Tag, at : Moment]) /\ popular \in Seq(Tag)
      /\ aliases \in Seq(SynonymRow)
      /\ ListingsOK
  BY InitListings
<1>3. /\ tags \in [Tag -> Moment \union {Never}]
      /\ \A t \in Tag : tags[t] <= now
      /\ synonyms \in [Synonym -> Tag \union {NoTag}]
  BY <1>1, SeedAssumption DEF Init
<1>4. gap \subseteq {ATag(t) : t \in Tag} \union {ASynonym(s) : s \in Synonym}
  <2>1. /\ Range(recent) \subseteq [tag : Tag, at : Moment]
        /\ Range(aliases) \subseteq SynonymRow
    BY <1>2, RangeOfSeq
  <2>2. /\ \A e \in Range(recent) : e.tag \in Tag
        /\ \A e \in Range(aliases) : e.from \in Synonym
    BY <2>1 DEF SynonymRow
  <2> QED
    BY <2>2 DEF Init, Behind
<1>5. TypeOK
  <2>1. NoFile \in File(Tag, Tag) /\ NoFile \in File(SynonymRow, Synonym)
    <3>1. <<>> \in Seq(Tag) /\ <<>> \in Seq(SynonymRow)
      OBVIOUS
    <3> QED
      BY <3>1 DEF NoFile, File
  <2>2. changes \in 0..MaxChanges /\ starts \in 0..MaxStarts
    BY BoundAssumption DEF Init
  <2>3. pc \in [Run -> Label] /\ job \in [Run -> Job]
    BY NewJobType DEF Init, Label
  <2>4. tagsFile = NoFile /\ synonymsFile = NoFile /\ synced = Never
    BY DEF Init
  <2> QED
    BY <1>1, <1>2, <1>3, <1>4, <2>1, <2>2, <2>3, <2>4 DEF TypeOK, Label
<1>6. DatesOK
  BY <1>3 DEF DatesOK
<1>7. FilesOK
  <2>1. /\ \A e \in Range(recent) : ~(e.at < Never)
        /\ \A e \in Range(aliases) : ~(e.at < Never)
    BY <1>5, ElementTypes DEF Never
  <2>2. tagsFile = NoFile /\ synonymsFile = NoFile /\ NoFile.begun = Never
    BY DEF Init, NoFile
  <2> QED
    BY <1>1, <2>1, <2>2 DEF FilesOK
<1>8. ASSUME NEW r \in Run
      PROVE  RunOK(r)
  <2>1. pc[r] = "idle" /\ job[r] = NewJob
    BY DEF Init
  <2>2. /\ job[r].tagsBegun = 0 /\ job[r].synonymsBegun = 0 /\ job[r].since = 0
        /\ job[r].page = 1 /\ job[r].tags = <<>> /\ job[r].synonyms = <<>>
        /\ job[r].mode = "incremental"
    BY <2>1 DEF NewJob
  <2>3. Shape(r)
    BY <2>1, <2>2 DEF Shape
  <2>4. Asks(r)
    BY <1>1, <2>1, <2>2 DEF Asks
  <2>5. TagsFetched(r) /\ SynonymsFetched(r)
    BY <1>5, <2>2, NothingEarlier DEF TagsFetched, SynonymsFetched
  <2>6. SynonymsCurrent(r) /\ SynonymsResolved(r)
    BY <2>1 DEF SynonymsCurrent, SynonymsResolved
  <2> QED
    BY <2>3, <2>4, <2>5, <2>6 DEF RunOK
<1>9. TagsCovered /\ SynonymsCovered
  <2>1. gap = Behind
    BY DEF Init
  <2> QED
    BY <2>1, BehindTag, BehindSynonym DEF TagsCovered, SynonymsCovered
<1> QED
  BY <1>2, <1>5, <1>6, <1>7, <1>8, <1>9 DEF IInv

\* No step leaves the invariant.
LEMMA NextKeeps ==
  ASSUME IInv, [Next]_vars
  PROVE  IInv'
<1>1. CASE Tick
  BY <1>1, TickKeeps
<1>2. ASSUME NEW t \in Tag, Activity(t) PROVE IInv'
  BY <1>2, ActivityKeeps
<1>3. ASSUME NEW s \in Synonym, NEW t \in Tag, Alias(s, t) PROVE IInv'
  BY <1>3, AliasKeeps
<1>l. ASSUME NEW t \in Tag, Decline(t) \/ Leave(t) PROVE IInv'
  BY <1>l, DeclineKeeps, LeaveKeeps
<1>w. ASSUME NEW s \in Synonym, Withdraw(s) PROVE IInv'
  BY <1>w, WithdrawKeeps
<1>4. ASSUME NEW r \in Run, Start(r) PROVE IInv'
  BY <1>4, StartKeeps
<1>5. ASSUME NEW r \in Run, Fail(r) PROVE IInv'
  BY <1>5, FailKeeps
<1>6. ASSUME NEW r \in Run, Step(r) PROVE IInv'
  <2>1. CASE TakeDate(r)
    BY <2>1, TakeDateKeeps
  <2>2. CASE FetchTags(r)
    BY <2>2, FetchTagsKeeps
  <2>3. CASE SaveTags(r)
    BY <2>3, SaveTagsKeeps
  <2>4. CASE FetchSynonyms(r)
    BY <2>4, FetchSynonymsKeeps
  <2>5. CASE SaveSynonyms(r)
    BY <2>5, SaveSynonymsKeeps
  <2>6. CASE ReadTags(r)
    BY <2>6, ReadTagsKeeps
  <2>7. CASE ReadSynonyms(r)
    BY <2>7, ReadSynonymsKeeps
  <2>8. CASE UpsertTags(r)
    BY <2>8, UpsertTagsKeeps
  <2>9. CASE Resolve(r)
    BY <2>9, ResolveKeeps
  <2>10. CASE UpsertSynonyms(r)
    BY <2>10, UpsertSynonymsKeeps
  <2> QED
    BY <1>6, <2>1, <2>2, <2>3, <2>4, <2>5, <2>6, <2>7, <2>8, <2>9, <2>10 DEF Step
<1>7. CASE UNCHANGED vars
  BY <1>7, StutterKeeps
<1> QED
  BY <1>1, <1>2, <1>3, <1>l, <1>w, <1>4, <1>5, <1>6, <1>7 DEF Next

-----------------------------------------------------------------------------
(***************************************************************************)
(* The theorems.                                                           *)
(***************************************************************************)

\* The inductive invariant holds in every state: main.rs keeps its locals as
\* each of its steps needs them, whatever Stack Overflow, other runs and
\* failures do in between.
THEOREM Invariance == Spec => []IInv
<1>1. Init => IInv
  BY InitIInv
<1>2. IInv /\ [Next]_vars => IInv'
  BY NextKeeps
<1> QED
  BY <1>1, <1>2, PTL DEF Spec

\* Every table, file and local of the command has its type at every step.
THEOREM TypeCorrect == Spec => []TypeOK
<1>1. IInv => TypeOK
  BY DEF IInv
<1> QED
  BY <1>1, Invariance, PTL

\* However run_incremental_sync, run_full_sync and run_from_file overlap and
\* fail, what incremental syncs no longer ask for is on its way to the
\* database or was lost in one of the ways that gap records.
THEOREM LossesKnown == Spec => []OnlyKnownGaps
<1>1. ASSUME IInv
      PROVE  OnlyKnownGaps
  <2>1. TagsCovered /\ SynonymsCovered
    BY <1>1 DEF IInv
  <2>2. ASSUME NEW e \in Range(recent), tags[e.tag] = Never, e.at < LastSyncDate
        PROVE  ATag(e.tag) \in gap \union UNION {Pending(r) : r \in Run}
    BY <2>1, <2>2, SureIsPending DEF TagsCovered
  <2>3. ASSUME NEW e \in Range(aliases), synonyms[e.from] = NoTag, e.at < LastSyncDate
        PROVE  ASynonym(e.from) \in gap \union UNION {Pending(r) : r \in Run}
    BY <2>1, <2>3, SureIsPending DEF SynonymsCovered
  <2> QED
    BY <2>2, <2>3 DEF OnlyKnownGaps, Behind
<1> QED
  BY <1>1, Invariance, PTL

\* A run that ends well has in the tables all it asked for that did not
\* change or slip past it while it fetched page after page: upsert_tags and
\* upsert_synonyms skip nothing else.
THEOREM EndsComplete == Spec => SyncedIsComplete
<1>1. ASSUME IInv, NEW r \in Run, Completes(r)
      PROVE  /\ \A t \in DueTags(r) : tags[t] # Never
             /\ \A e \in Range(aliases) :
                  /\ job[r].since <= e.at
                  /\ e.at < job[r].synonymsBegun
                  /\ e.from \notin job[r].synonymsPassed
                  /\ e.to \in DueTags(r) \union KnownTags(r)
                  => synonyms'[e.from] # NoTag
  <2>1. /\ TypeOK /\ RunOK(r) /\ UpsertSynonyms(r) /\ pc[r] = "upsertSynonyms"
        /\ pc'[r] = "idle"
    BY <1>1 DEF IInv, Completes, UpsertSynonyms, Running
  <2>2. /\ \A s \in Synonym : synonyms[s] # NoTag => synonyms'[s] = synonyms[s]
        /\ \A e \in Range(job[r].synonyms) : synonyms'[e.from] # NoTag
    BY <2>1, UpsertSynonymsEffect
  <2>3. Shape(r) /\ TagsFetched(r) /\ SynonymsResolved(r) /\ job[r].tags = <<>>
    BY <2>1 DEF RunOK, Shape
  <2>4. \A t \in DueTags(r) : tags[t] # Never
    <3>1. Range(<<>>) = {}
      BY DEF Range
    <3> QED
      BY <2>1, <2>3, <3>1 DEF DueTags, TagsFetched
  <2>5. \A e \in Range(aliases) : e.from \in Synonym
    BY <2>1, ElementTypes
  <2> QED
    BY <2>1, <2>2, <2>3, <2>4, <2>5 DEF SynonymsResolved
<1>2. IInv /\ [Next]_vars =>
        [\A r \in Run : Completes(r) =>
           /\ \A t \in DueTags(r) : tags[t] # Never
           /\ \A e \in Range(aliases) :
                /\ job[r].since <= e.at
                /\ e.at < job[r].synonymsBegun
                /\ e.from \notin job[r].synonymsPassed
                /\ e.to \in DueTags(r) \union KnownTags(r)
                => synonyms'[e.from] # NoTag]_vars
  BY <1>1
<1> QED
  BY <1>2, Invariance, PTL DEF Spec, SyncedIsComplete

\* A chunk of tags inserts tags.
LEMMA UpsertTagsInserts ==
  ASSUME IInv, NEW r \in Run, UpsertTags(r), dbVars' # dbVars
  PROVE  Tables!InsertTags
<1> DEFINE rows == {t \in Tag : tags[t] # Never}
           T == {t \in Tag : tags'[t] # Never} \ rows
<1>1. /\ tags' \in [Tag -> Moment \union {Never}]
      /\ tags \in [Tag -> Moment \union {Never}]
      /\ \A t \in Tag : tags'[t] = tags[t] \/ (tags[t] = Never /\ tags'[t] = now)
      /\ UNCHANGED synonyms
  BY UpsertTagsEffect DEF IInv, TypeOK, UpsertTags
<1>2. now # Never
  BY BoundAssumption DEF IInv, TypeOK, Moment, Never
<1>3. PICK t \in Tag : tags'[t] # tags[t]
  BY <1>1 DEF dbVars
<1>4. T \subseteq Tag \ rows /\ t \in T
  BY <1>1, <1>2, <1>3
<1>5. rows' = rows \union T
  BY <1>1
<1> HIDE DEF T, rows
<1>6. \E X \in (SUBSET (Tag \ rows)) \ {{}} : rows' = rows \union X /\ UNCHANGED synonyms
  <2>1. T \in (SUBSET (Tag \ rows)) \ {{}}
    BY <1>4
  <2> QED
    BY <1>1, <1>5, <2>1
<1> QED
  BY <1>6 DEF Tables!InsertTags, rows

\* A chunk of synonyms inserts synonyms of tags that have a row.
LEMMA UpsertSynonymsInserts ==
  ASSUME IInv, NEW r \in Run, UpsertSynonyms(r), dbVars' # dbVars
  PROVE  Tables!InsertSynonyms
<1> DEFINE rows == {t \in Tag : tags[t] # Never}
           New == {p \in Synonym \X Tag : synonyms[p[1]] = NoTag /\ p[2] \in rows}
           changed == {s \in Synonym : synonyms'[s] # synonyms[s]}
           S == {<<s, synonyms'[s]>> : s \in changed}
<1>1. /\ TypeOK /\ RunOK(r) /\ pc[r] = "upsertSynonyms" /\ UNCHANGED tags
  BY DEF IInv, UpsertSynonyms
<1>2. /\ synonyms' \in [Synonym -> Tag \union {NoTag}]
      /\ synonyms \in [Synonym -> Tag \union {NoTag}]
      /\ \A s \in Synonym : synonyms'[s] = synonyms[s]
              \/ (synonyms[s] = NoTag /\ \E e \in Range(job[r].synonyms) :
                                           e.from = s /\ synonyms'[s] = e.to)
  BY <1>1, UpsertSynonymsEffect DEF TypeOK
<1>3. \A e \in Range(job[r].synonyms) : e.to \in rows
  BY <1>1, ElementTypes DEF RunOK, SynonymsResolved
<1>4. \A s \in changed : synonyms[s] = NoTag /\ synonyms'[s] \in rows
  BY <1>2, <1>3
<1>5. changed # {}
  BY <1>1, <1>2 DEF dbVars
<1>6. S \subseteq New /\ S # {}
  <2>1. ASSUME NEW s \in changed
        PROVE  <<s, synonyms'[s]>> \in New
    <3>1. s \in Synonym /\ synonyms[s] = NoTag /\ synonyms'[s] \in rows /\ synonyms'[s] \in Tag
      BY <1>4
    <3> HIDE DEF rows, changed
    <3> QED
      BY <3>1
  <2>2. PICK s \in changed : TRUE
    BY <1>5
  <2>3. <<s, synonyms'[s]>> \in S
    BY <2>2
  <2> HIDE DEF New, changed
  <2> QED
    BY <2>1, <2>3
<1>7. \A s \in Synonym : (IF \E t \in rows : <<s, t>> \in S
                          THEN CHOOSE t \in rows : <<s, t>> \in S
                          ELSE synonyms[s]) = synonyms'[s]
  <2> SUFFICES ASSUME NEW s \in Synonym
               PROVE  (IF \E t \in rows : <<s, t>> \in S
                       THEN CHOOSE t \in rows : <<s, t>> \in S
                       ELSE synonyms[s]) = synonyms'[s]
    OBVIOUS
  <2>1. \A t \in rows : <<s, t>> \in S <=> s \in changed /\ t = synonyms'[s]
    OBVIOUS
  <2> HIDE DEF S, rows, changed
  <2>2. CASE s \in changed
    <3>1. synonyms'[s] \in rows
      BY <1>4, <2>2
    <3> QED
      BY <2>1, <2>2, <3>1
  <2>3. CASE s \notin changed
    BY <2>1, <2>3 DEF changed
  <2> QED
    BY <2>2, <2>3
<1>8. synonyms' = [s \in Synonym |-> IF \E t \in rows : <<s, t>> \in S
                                    THEN CHOOSE t \in rows : <<s, t>> \in S
                                    ELSE synonyms[s]]
  <2> HIDE DEF S, rows, changed
  <2> QED
    BY <1>2, <1>7
<1>9. rows' = rows
  BY <1>1
<1> HIDE DEF S, rows, New
<1>10. \E X \in (SUBSET New) \ {{}} :
         /\ synonyms' = [s \in Synonym |-> IF \E t \in rows : <<s, t>> \in X
                                          THEN CHOOSE t \in rows : <<s, t>> \in X
                                          ELSE synonyms[s]]
         /\ rows' = rows
  <2>1. S \in (SUBSET New) \ {{}}
    BY <1>6
  <2> QED
    BY <1>8, <1>9, <2>1
<1> QED
  BY <1>10 DEF Tables!InsertSynonyms, Tables!New, New, rows

\* However the runs overlap, fail and load old files, they use the two tables
\* as TagTables allows: no statement deletes or changes a row, and the tag of
\* a synonym is in the table before it.
THEOREM TablesImplemented == Spec => ImplementsTables
<1>1. Init => Tables!Init
  <2> SUFFICES ASSUME Init PROVE Tables!Init
    OBVIOUS
  <2>1. now = 1 /\ 1 # Never
    BY DEF Init, Never
  <2>2. CASE /\ tags = [t \in Tag |-> IF t \in SeedTags THEN now ELSE Never]
             /\ synonyms = SeedSynonyms
    <3>1. {t \in Tag : tags[t] # Never} = SeedTags
      BY <2>1, <2>2, SeedAssumption
    <3> QED
      BY <2>2, <3>1, SeedAssumption DEF Tables!Init
  <2>3. CASE /\ tags = [t \in Tag |-> Never]
             /\ synonyms = [s \in Synonym |-> NoTag]
    BY <2>3 DEF Tables!Init
  <2> QED
    BY <2>2, <2>3 DEF Init
<1>2. ASSUME IInv, Next, dbVars' # dbVars
      PROVE  Tables!Next
  <2>1. \A r \in Run : Start(r) \/ Fail(r) => UNCHANGED dbVars
    BY DEF Start, Fail
  <2>2. \A t \in Tag : Activity(t) \/ Decline(t) \/ Leave(t) => UNCHANGED dbVars
    BY DEF Activity, Decline, Leave, Shift
  <2>3. \A s \in Synonym : Withdraw(s) \/ (\E t \in Tag : Alias(s, t)) => UNCHANGED dbVars
    BY DEF Alias, Withdraw, Shift
  <2>4. Tick => UNCHANGED dbVars
    BY DEF Tick
  <2>5. \A r \in Run : TakeDate(r) \/ FetchTags(r) \/ SaveTags(r) \/ FetchSynonyms(r) => UNCHANGED dbVars
    BY DEF TakeDate, FetchTags, SaveTags, FetchSynonyms
  <2>6. \A r \in Run : SaveSynonyms(r) \/ ReadTags(r) \/ ReadSynonyms(r) \/ Resolve(r) => UNCHANGED dbVars
    BY DEF SaveSynonyms, ReadTags, ReadSynonyms, Resolve
  <2>7. \E r \in Run : UpsertTags(r) \/ UpsertSynonyms(r)
    BY <1>2, <2>1, <2>2, <2>3, <2>4, <2>5, <2>6 DEF Next, Step
  <2> QED
    BY <1>2, <2>7, UpsertTagsInserts, UpsertSynonymsInserts DEF Tables!Next
<1>3. IInv /\ [Next]_vars => [dbVars' # dbVars => Tables!Next]_vars
  BY <1>2
<1> QED
  BY <1>1, <1>3, Invariance, PTL DEF Spec, ImplementsTables
=============================================================================
