------------------------- MODULE LedgerSearchProofs -------------------------
(***************************************************************************)
(* What a search, an extraction and a paged listing promise while other     *)
(* requests register rows, for any rows, hashes, accounts and limits.  The  *)
(* invariant says of every answer, and of the hits kept between the two     *)
(* statements of a search, which statement results they were made from;    *)
(* the properties follow from what the operators make of such results.     *)
(***************************************************************************)
EXTENDS LedgerSearch, Arithmetic, FiniteSetTheorems

-----------------------------------------------------------------------------
(* The invariant *)

SearchHashes == Hashes \cup {NoHash, NotHex}

\* A request has what its statements use; until it is answered there is no answer.
RequestInv ==
    /\ req.kind \in {"none", "search", "extract", "list"}
    /\ req.kind = "search" =>
          req.phash \in SearchHashes /\ req.dhash \in SearchHashes /\ req.limit \in Nat
    /\ req.kind = "extract" =>
          \E s \in Suspects : req.phash = s.phash /\ req.dhash = s.dhash
    /\ req.kind = "list" => req.limit \in Nat
    /\ pc \in {"idle", "phash", "dhash", "payload", "fuzzy", "page"}
    /\ pc \in {"phash", "dhash"} => req.kind = "search"
    /\ pc \in {"payload", "fuzzy"} => req.kind = "extract"
    /\ pc = "page" => req.kind = "list"
    /\ pc # "idle" => answer = Silent
    /\ answer.status \in {"none", "ok", "match", "payload", "nothing", "bad", "error"}
    /\ req.kind = "none" => answer = Silent
    /\ answer.status = "match" => req.kind = "extract"
    /\ answer.status \notin {"ok", "match"} => answer.hits = <<>>

TableInv ==
    /\ indexed \in BOOLEAN
    /\ table \in SUBSET Rows
    /\ listed \in Seq(Rows)
    /\ seen \in [Statements -> SUBSET Rows]
    /\ \A s \in Statements : seen[s] \subseteq table
    /\ \A h \in ToSet(merged) : h.row \in Rows /\ h.phash \in Nat /\ h.dhash \in Nat

\* What the statement of a search may have found when it was executed.
FoundAt(statement, column, hash, limit) ==
    IF IsHex(hash) THEN SearchFallback(column, hash, Candidates(statement), limit)
                   ELSE {<<>>}

\* The hits made of the rows s a pHash search has found.
HitsFor(hash, s) ==
    LET near == Nearness(PHash, hash)
    IN  [i \in DOMAIN s |-> Hit(s[i], near[s[i]], 0)]

PhashHits(s) == HitsFor(req.phash, s)

\* The hits kept, and the hits answered, come from what the statements found.
SearchInv ==
    req.kind = "search" =>
       /\ pc = "dhash" =>
             \E s \in FoundAt("phash", PHash, req.phash, req.limit) :
                merged = PhashHits(s)
       /\ answer.status = "ok" =>
             \E s \in FoundAt("phash", PHash, req.phash, req.limit),
                t \in FoundAt("dhash", DHash, req.dhash, req.limit) :
                answer.hits = Cut(Merge(PhashHits(s), t, Nearness(DHash, req.dhash)),
                                  0, req.limit)

Exact == {r \in seen["payload"] : Payload[r] = req.payload}

\* The row reported comes from the rows with the payload, or, when there were
\* none, is the first of those found by their hash.
ExtractInv ==
    req.kind = "extract" =>
       /\ pc = "fuzzy" => Exact = {}
       /\ answer.status = "ok" => answer.hits = <<>>
       /\ answer.status = "match" =>
             \/ \E matches \in OrderBy(Exact, Recency) :
                   /\ matches # <<>>
                   /\ answer.hits = <<LedgerMatch(Choose(matches, req.account))>>
             \/ /\ Exact = {}
                /\ \E s \in FoundAt("fuzzy", PHash, req.phash, FuzzyLimit) :
                      s # <<>> /\ answer.hits = <<LedgerMatch(s[1])>>

\* A row that shares its created_at with no other.
Lone(r) == \A other \in Rows \ {r} : Created[other] # Created[r]

\* The rows of a listing that come before r.
Newer(r) == {c \in OfAccount(table, req.account) : Created[c] > Created[r]}

\* What a listing has not yet given lies behind what it has given: rows that are
\* registered meanwhile can only move it further back.
PagingInv ==
    req.kind = "list" =>
       /\ answer.hits = <<>>
       /\ \A r \in Candidates("ask") :
             Lone(r) => \/ r \in ToSet(listed)
                        \/ pc = "page" /\ Cardinality(Newer(r)) >= Len(listed)

IInv ==
    /\ RequestInv
    /\ TableInv
    /\ SearchInv
    /\ ExtractInv
    /\ PagingInv

-----------------------------------------------------------------------------
(* Distances and orders *)

\* Distances between hashes are numbers.
LEMMA DistanceIsNat ==
    ASSUME NEW a, NEW b, a.width \in Nat, b.width \in Nat,
           a.bits \subseteq 1..4 * a.width, b.bits \subseteq 1..4 * b.width
    PROVE  HexHamming(a, b) \in Nat
  <1>1. IsFiniteSet(1..4 * a.width) /\ IsFiniteSet(1..4 * b.width)
    <2>1. 1 \in Int /\ 4 * a.width \in Int /\ 4 * b.width \in Int OBVIOUS
    <2> QED BY <2>1, FS_Interval
  <1>2. IsFiniteSet(a.bits) /\ IsFiniteSet(b.bits)
    BY <1>1, FS_Subset
  <1>3. IsFiniteSet(a.bits \ b.bits) /\ IsFiniteSet(b.bits \ a.bits)
    <2>1. a.bits \ b.bits \in SUBSET a.bits /\ b.bits \ a.bits \in SUBSET b.bits OBVIOUS
    <2> QED BY <1>2, <2>1, FS_Subset
  <1>4. HexDistance(a, b) \in Nat
    BY <1>3, FS_Union, FS_CardinalityType DEF HexDistance
  <1> QED BY <1>4 DEF HexHamming

LEMMA NearnessType ==
    ASSUME NEW column \in {PHash, DHash},
           NEW hash \in Hashes \cup {s.phash : s \in Suspects} \cup {s.dhash : s \in Suspects}
    PROVE  \A r \in Rows : /\ Nearness(column, hash)[r] = HexHamming(column[r], hash)
                           /\ Nearness(column, hash)[r] \in Nat
  <1> SUFFICES ASSUME NEW r \in Rows PROVE HexHamming(column[r], hash) \in Nat
    BY DEF Nearness
  <1>1. column[r] \in {PHash[q] : q \in Rows} \cup {DHash[q] : q \in Rows} OBVIOUS
  <1>2. /\ hash.width \in Nat /\ hash.bits \subseteq 1..4 * hash.width
        /\ column[r].width \in Nat /\ column[r].bits \subseteq 1..4 * column[r].width
    BY <1>1, SearchAssumption
  <1> QED BY <1>2, DistanceIsNat

\* An ordering of a set has each of its members once, by key.
LEMMA OrderByIs ==
    ASSUME NEW S, IsFiniteSet(S), NEW key, NEW s \in OrderBy(S, key)
    PROVE  /\ s \in Seq(S) /\ Len(s) = Cardinality(S) /\ Len(s) \in Nat
           /\ \A i, j \in 1..Len(s) : i # j => s[i] # s[j]
           /\ \A i, j \in 1..Len(s) : i < j => key[s[i]] <= key[s[j]]
           /\ \A r \in S : \E i \in 1..Len(s) : s[i] = r
  <1>1. PICK n \in Nat : n = Cardinality(S) BY FS_CardinalityType
  <1>2. /\ s \in [1..n -> S]
        /\ \A i, j \in 1..n : i # j => s[i] # s[j]
        /\ \A i, j \in DOMAIN s : i < j => key[s[i]] <= key[s[j]]
    BY <1>1 DEF OrderBy, SetToSeqs
  <1>3. s \in Seq(S) /\ Len(s) = n BY <1>2
  <1>4. s \in Injection(1..n, S) BY <1>2 DEF Injection, IsInjective
  <1>5. Cardinality(1..n) = n BY FS_Interval
  <1>6. s \in Surjection(1..n, S) BY <1>1, <1>4, <1>5, FS_Injection
  <1>7. \A r \in S : \E i \in 1..n : s[i] = r BY <1>6 DEF Surjection
  <1> QED BY <1>1, <1>2, <1>3, <1>7

\* Fewer than i members come strictly before the i-th.
LEMMA OrderRank ==
    ASSUME NEW S, IsFiniteSet(S), NEW key, \A r \in S : key[r] \in Int,
           NEW s \in OrderBy(S, key), NEW i \in 1..Len(s)
    PROVE  /\ IsFiniteSet({c \in S : key[c] < key[s[i]]})
           /\ Cardinality({c \in S : key[c] < key[s[i]]}) < i
  <1> DEFINE before == {c \in S : key[c] < key[s[i]]}
             front == {s[j] : j \in 1..i - 1}
  <1>1. /\ s \in Seq(S) /\ Len(s) \in Nat
        /\ \A j, k \in 1..Len(s) : j < k => key[s[j]] <= key[s[k]]
        /\ \A r \in S : \E j \in 1..Len(s) : s[j] = r
    BY OrderByIs
  <1>2. i \in Nat /\ i >= 1 /\ \A j \in 1..Len(s) : s[j] \in S BY <1>1
  <1>3. IsFiniteSet(1..i - 1) /\ Cardinality(1..i - 1) = i - 1
    BY <1>2, FS_Interval
  <1>4. IsFiniteSet(front) /\ Cardinality(front) <= i - 1
    <2> DEFINE f == [j \in 1..i - 1 |-> s[j]]
    <2>1. f \in Surjection(1..i - 1, front) BY DEF Surjection
    <2> HIDE DEF f, front
    <2> QED BY <1>3, <2>1, FS_Surjection
  <1>5. before \subseteq front
    <2> SUFFICES ASSUME NEW c \in before PROVE c \in front OBVIOUS
    <2>1. c \in S /\ key[c] < key[s[i]] OBVIOUS
    <2>2. PICK j \in 1..Len(s) : s[j] = c BY <1>1, <2>1
    <2>3. s[i] \in S /\ key[s[i]] \in Int /\ key[c] \in Int
      <3>1. s[i] \in S BY <1>2
      <3> QED BY <2>1, <3>1
    <2>4. j < i
      <3>1. ASSUME j = i PROVE FALSE BY <2>1, <2>2, <2>3, <3>1
      <3>2. ASSUME i < j PROVE FALSE
        <4>1. key[s[i]] <= key[s[j]] BY <1>1, <3>2
        <4> QED BY <2>1, <2>2, <2>3, <4>1
      <3> QED BY <1>1, <3>1, <3>2
    <2>5. j \in 1..i - 1 BY <1>1, <2>4
    <2> QED BY <2>2, <2>5
  <1> HIDE DEF before, front
  <1>6. IsFiniteSet(before) /\ Cardinality(before) <= Cardinality(front)
        /\ Cardinality(before) \in Nat /\ Cardinality(front) \in Nat
    BY <1>4, <1>5, FS_Subset, FS_CardinalityType
  <1>7. Cardinality(before) < i BY <1>2, <1>4, <1>6
  <1> QED BY <1>6, <1>7 DEF before

\* A cut of a sequence.
LEMMA CutIs ==
    ASSUME NEW T, NEW s \in Seq(T), NEW from \in Nat, NEW n \in Nat
    PROVE  /\ Cut(s, from, n) \in Seq(T)
           /\ Len(Cut(s, from, n)) =
                 IF from + n < Len(s) THEN n ELSE IF from < Len(s) THEN Len(s) - from ELSE 0
           /\ \A i \in 1..Len(Cut(s, from, n)) : Cut(s, from, n)[i] = s[from + i]
  <1>1. PICK l \in Nat : l = Len(s) OBVIOUS
  <1>2. PICK m \in Nat : m = IF from + n < l THEN from + n ELSE l OBVIOUS
  <1>3. Cut(s, from, n) = SubSeq(s, from + 1, m) BY <1>1, <1>2 DEF Cut
  <1>4. PICK k \in Nat : k = IF from < m THEN m - from ELSE 0
    <2>1. from < m => m - from \in Nat OBVIOUS
    <2> QED BY <2>1
  <1>5. Len(SubSeq(s, from + 1, m)) = k /\ SubSeq(s, from + 1, m) \in Seq(T)
        /\ \A i \in 1..k : SubSeq(s, from + 1, m)[i] = s[from + i]
    <2>1. SubSeq(s, from + 1, m) = [i \in 1..k |-> s[from + i]]
      <3>1. CASE from < m BY <1>4, <3>1
      <3>2. CASE ~(from < m) BY <1>4, <3>2
      <3> QED BY <3>1, <3>2
    <2>2. \A i \in 1..k : from + i \in 1..l BY <1>2, <1>4
    <2>3. s \in [1..l -> T] BY <1>1
    <2> DEFINE g == [i \in 1..k |-> s[from + i]]
    <2>4. g \in [1..k -> T]
      <3>1. \A i \in 1..k : s[from + i] \in T BY <2>2, <2>3
      <3> QED BY <3>1
    <2>5. \A i \in 1..k : g[i] = s[from + i] OBVIOUS
    <2> HIDE DEF g
    <2>6. g \in Seq(T) /\ Len(g) = k BY <2>4
    <2> QED BY <2>1, <2>5, <2>6 DEF g
  <1>6. k = IF from + n < l THEN n ELSE IF from < l THEN l - from ELSE 0
    BY <1>2, <1>4
  <1> QED BY <1>1, <1>3, <1>5, <1>6

\* A cut from the front.
LEMMA CutFront ==
    ASSUME NEW T, NEW s, s \in Seq(T), NEW n \in Nat
    PROVE  /\ Cut(s, 0, n) \in Seq(T)
           /\ Len(Cut(s, 0, n)) = IF n < Len(s) THEN n ELSE Len(s)
           /\ \A i \in 1..Len(Cut(s, 0, n)) : i \in 1..Len(s) /\ Cut(s, 0, n)[i] = s[i]
  <1> DEFINE c == Cut(s, 0, n)
  <1>1. PICK z \in Nat : z = 0 OBVIOUS
  <1>2. Len(s) \in Nat OBVIOUS
  <1>3. /\ c \in Seq(T)
        /\ Len(c) = IF z + n < Len(s) THEN n ELSE IF z < Len(s) THEN Len(s) - z ELSE 0
        /\ \A i \in 1..Len(c) : c[i] = s[z + i]
    BY <1>1, CutIs
  <1> HIDE DEF c
  <1>4. Len(c) = (IF n < Len(s) THEN n ELSE Len(s)) /\ Len(c) \in Nat /\ Len(c) <= Len(s)
    BY <1>1, <1>2, <1>3
  <1>5. ASSUME NEW i \in 1..Len(c) PROVE i \in 1..Len(s) /\ c[i] = s[i]
    BY <1>1, <1>2, <1>3, <1>4
  <1> QED BY <1>3, <1>4, <1>5 DEF c

\* A search result: rows of the set, none twice, nearest first, as many as the
\* limit allows.
NearestOf(S, key, limit, s) ==
    /\ s \in Seq(S) /\ Len(s) \in Nat /\ Len(s) <= limit
    /\ Cardinality(S) \in Nat
    /\ Len(s) = IF limit < Cardinality(S) THEN limit ELSE Cardinality(S)
    /\ \A i, j \in 1..Len(s) : i # j => s[i] # s[j]
    /\ \A i \in 1..Len(s) : Cardinality({c \in S : key[c] < key[s[i]]}) < i
    /\ Cardinality(S) <= limit => \A r \in S : \E i \in 1..Len(s) : s[i] = r

\* That is what the portable search returns.
LEMMA FallbackIs ==
    ASSUME NEW column \in {PHash, DHash},
           NEW hash \in Hashes \cup {s.phash : s \in Suspects} \cup {s.dhash : s \in Suspects},
           NEW S \in SUBSET Rows, NEW limit \in Nat,
           NEW s \in SearchFallback(column, hash, S, limit)
    PROVE  NearestOf(S, Nearness(column, hash), limit, s)
  <1> DEFINE key == Nearness(column, hash)
             n == Cardinality(S)
  <1>1. IsFiniteSet(S) /\ n \in Nat
    BY SearchAssumption, FS_Subset, FS_CardinalityType
  <1>2. \A r \in S : key[r] \in Int
    <2> HIDE DEF key
    <2> QED BY NearnessType DEF key
  <1>3. PICK f \in OrderBy(S, key) : s = Cut(f, 0, limit)
    BY DEF SearchFallback
  <1> HIDE DEF key
  <1>4. /\ f \in Seq(S) /\ Len(f) = n
        /\ \A i, j \in 1..n : i # j => f[i] # f[j]
        /\ \A r \in S : \E i \in 1..n : f[i] = r
    BY <1>1, <1>3, OrderByIs
  <1>5. \A i \in 1..n : Cardinality({c \in S : key[c] < key[f[i]]}) < i
    BY <1>1, <1>2, <1>3, <1>4, OrderRank
  <1>6. f \in Seq(S) BY <1>4
  <1>7. /\ s \in Seq(S) /\ Len(s) = IF limit < Len(f) THEN limit ELSE Len(f)
        /\ \A i \in 1..Len(s) : i \in 1..Len(f) /\ s[i] = f[i]
    BY <1>3, <1>6, CutFront, Zenon
  <1> HIDE DEF n
  <1>8. Len(s) = (IF limit < n THEN limit ELSE n) /\ Len(s) <= n /\ Len(s) <= limit
    BY <1>1, <1>4, <1>7
  <1>9. \A i \in 1..Len(s) : i \in 1..n /\ s[i] = f[i] BY <1>4, <1>7
  <1>10. n <= limit => \A r \in S : \E i \in 1..Len(s) : s[i] = r
    BY <1>1, <1>4, <1>8, <1>9
  <1>11. \A i, j \in 1..Len(s) : i # j => s[i] # s[j] BY <1>4, <1>9
  <1>12. \A i \in 1..Len(s) : Cardinality({c \in S : key[c] < key[s[i]]}) < i
    BY <1>5, <1>9
  <1>13. NearestOf(S, key, limit, s)
    <2> HIDE DEF key
    <2> QED BY <1>1, <1>7, <1>8, <1>10, <1>11, <1>12 DEF n, NearestOf
  <1> QED BY <1>13 DEF key

-----------------------------------------------------------------------------
(* The merge of the two searches of a request *)

HitType == [row : Rows, phash : Nat, dhash : Nat]

\* hits are those of the first search, in front and in order, with the rows that
\* the second has found so far: every row once, with the distances of the
\* searches that found it, and the stub 0 for the other.
Joined(first, second, near, n, hits) ==
    /\ hits \in Seq(HitType) /\ Len(hits) >= Len(first)
    /\ \A i \in 1..Len(first) : hits[i].row = first[i].row /\ hits[i].phash = first[i].phash
    /\ \A i \in 1..Len(hits) : i > Len(first) => hits[i].phash = 0
    /\ \A i, j \in 1..Len(hits) : i # j => hits[i].row # hits[j].row
    /\ \A i \in 1..Len(hits) :
          \/ /\ hits[i].dhash = near[hits[i].row]
             /\ \E k \in 1..n : second[k] = hits[i].row
          \/ /\ i <= Len(first) /\ hits[i].dhash = first[i].dhash
             /\ \A k \in 1..n : second[k] # hits[i].row
    /\ \A k \in 1..n : \E i \in 1..Len(hits) : hits[i].row = second[k]
    /\ \A i \in 1..Len(hits) : \/ \E j \in 1..Len(first) : hits[i].row = first[j].row
                               \/ \E k \in 1..n : hits[i].row = second[k]
    /\ Len(first) = 0 => Len(hits) = n /\ \A i \in 1..n : hits[i].row = second[i]

\* One row more.
LEMMA AddJoins ==
    ASSUME NEW first \in Seq(HitType), NEW second \in Seq(Rows), NEW near,
           NEW n \in Nat, n + 1 <= Len(second), near[second[n + 1]] \in Nat,
           \A i, j \in 1..Len(second) : i # j => second[i] # second[j],
           NEW hits, Joined(first, second, near, n, hits)
    PROVE  Joined(first, second, near, n + 1, Add(hits, second[n + 1], near[second[n + 1]]))
  <1>1. PICK m \in Nat : m = n + 1 OBVIOUS
  <1>2. PICK r \in Rows : r = second[m] BY <1>1
  <1>3. PICK d \in Nat : d = near[r] BY <1>1, <1>2
  <1>4. PICK a \in Nat : a = Len(first) OBVIOUS
  <1>5. hits \in Seq(HitType) /\ Len(hits) >= a BY <1>4 DEF Joined
  <1>6. PICK l \in Nat : l = Len(hits) BY <1>5
  <1>7. \A k \in 1..m : k \in 1..n \/ k = m BY <1>1
  <1>8. hits \in [1..l -> HitType] /\ l >= a /\ \A i \in 1..a : i \in 1..l BY <1>5, <1>6
  <1>a. \A i \in 1..a : hits[i].row = first[i].row /\ hits[i].phash = first[i].phash
    BY <1>4 DEF Joined
  <1>b. \A i \in 1..l : i > a => hits[i].phash = 0 BY <1>4, <1>6 DEF Joined
  <1>c. \A i, j \in 1..l : i # j => hits[i].row # hits[j].row BY <1>6 DEF Joined
  <1>d. \A i \in 1..l : \/ /\ hits[i].dhash = near[hits[i].row]
                           /\ \E k \in 1..n : second[k] = hits[i].row
                        \/ /\ i <= a /\ hits[i].dhash = first[i].dhash
                           /\ \A k \in 1..n : second[k] # hits[i].row
    BY <1>4, <1>6 DEF Joined
  <1>e. \A k \in 1..n : \E i \in 1..l : hits[i].row = second[k] BY <1>6 DEF Joined
  <1>f. \A i \in 1..l : \/ \E j \in 1..a : hits[i].row = first[j].row
                        \/ \E k \in 1..n : hits[i].row = second[k]
    BY <1>4, <1>6 DEF Joined
  <1>g. a = 0 => l = n /\ \A i \in 1..n : hits[i].row = second[i] BY <1>4, <1>6 DEF Joined
  <1>9. SUFFICES Joined(first, second, near, m, Add(hits, r, d))
    BY <1>1, <1>2, <1>3
  <1>10. CASE \E i \in 1..l : hits[i].row = r
    <2> DEFINE new == [i \in 1..l |-> IF hits[i].row = r THEN [hits[i] EXCEPT !.dhash = d]
                                                        ELSE hits[i]]
    <2>1. Add(hits, r, d) = new BY <1>8, <1>10 DEF Add, WithDhash
    <2>2. \A i \in 1..l : /\ new[i] \in HitType
                          /\ new[i].row = hits[i].row /\ new[i].phash = hits[i].phash
                          /\ hits[i].row = r => new[i].dhash = d
                          /\ hits[i].row # r => new[i].dhash = hits[i].dhash
      <3> SUFFICES ASSUME NEW i \in 1..l
                   PROVE  /\ new[i] \in HitType
                          /\ new[i].row = hits[i].row /\ new[i].phash = hits[i].phash
                          /\ hits[i].row = r => new[i].dhash = d
                          /\ hits[i].row # r => new[i].dhash = hits[i].dhash
        OBVIOUS
      <3>1. hits[i] \in HitType BY <1>8
      <3>2. new[i] = IF hits[i].row = r THEN [hits[i] EXCEPT !.dhash = d] ELSE hits[i] OBVIOUS
      <3> HIDE DEF new
      <3> QED BY <3>1, <3>2 DEF HitType
    <2>3. new \in [1..l -> HitType]
      <3>1. new = [i \in 1..l |-> new[i]] OBVIOUS
      <3> HIDE DEF new
      <3> QED BY <2>2, <3>1
    <2> HIDE DEF new
    <2>4. new \in Seq(HitType) /\ Len(new) = l BY <2>3
    <2>5. a # 0
      <3>1. PICK i \in 1..l : hits[i].row = second[m] BY <1>2, <1>10
      <3>2. ASSUME a = 0 PROVE FALSE
        <4>1. i \in 1..n /\ second[i] = second[m] BY <1>g, <3>1, <3>2
        <4>2. i \in 1..Len(second) /\ m \in 1..Len(second) /\ i # m BY <1>1, <4>1
        <4> QED BY <4>1, <4>2
      <3> QED BY <3>2
    <2>6. \A i \in 1..l :
              \/ /\ new[i].dhash = near[new[i].row]
                 /\ \E k \in 1..m : second[k] = new[i].row
              \/ /\ i <= a /\ new[i].dhash = first[i].dhash
                 /\ \A k \in 1..m : second[k] # new[i].row
      <3> SUFFICES ASSUME NEW i \in 1..l
                   PROVE  \/ /\ new[i].dhash = near[new[i].row]
                             /\ \E k \in 1..m : second[k] = new[i].row
                          \/ /\ i <= a /\ new[i].dhash = first[i].dhash
                             /\ \A k \in 1..m : second[k] # new[i].row
        OBVIOUS
      <3>1. CASE hits[i].row = r
        <4>1. m \in 1..m BY <1>1
        <4> QED BY <1>2, <1>3, <2>2, <3>1, <4>1
      <3>2. CASE hits[i].row # r
        <4>1. new[i].dhash = hits[i].dhash /\ new[i].row = hits[i].row BY <2>2, <3>2
        <4>2. \/ /\ hits[i].dhash = near[hits[i].row]
                 /\ \E k \in 1..n : second[k] = hits[i].row
              \/ /\ i <= a /\ hits[i].dhash = first[i].dhash
                 /\ \A k \in 1..n : second[k] # hits[i].row
          BY <1>d
        <4>3. \A k \in 1..n : k \in 1..m BY <1>1
        <4> QED BY <1>2, <1>7, <3>2, <4>1, <4>2, <4>3
      <3> QED BY <3>1, <3>2
    <2>7. \A k \in 1..m : \E i \in 1..l : new[i].row = second[k]
      BY <1>2, <1>7, <1>e, <1>10, <2>2
    <2>8. \A i \in 1..l : \/ \E j \in 1..a : new[i].row = first[j].row
                          \/ \E k \in 1..m : new[i].row = second[k]
      <3>1. \A k \in 1..n : k \in 1..m BY <1>1
      <3> SUFFICES ASSUME NEW i \in 1..l
                   PROVE  \/ \E j \in 1..a : hits[i].row = first[j].row
                          \/ \E k \in 1..m : hits[i].row = second[k]
        BY <2>2
      <3> QED BY <1>f, <3>1
    <2>9. /\ \A i \in 1..a : new[i].row = first[i].row /\ new[i].phash = first[i].phash
          /\ \A i \in 1..l : i > a => new[i].phash = 0
          /\ \A i, j \in 1..l : i # j => new[i].row # new[j].row
      <3>1. /\ \A i \in 1..a : new[i].row = first[i].row /\ new[i].phash = first[i].phash
            /\ \A i \in 1..l : i > a => new[i].phash = 0
        BY <1>8, <1>a, <1>b, <2>2
      <3>2. \A i, j \in 1..l : i # j => new[i].row # new[j].row
        BY <1>c, <2>2
      <3> QED BY <3>1, <3>2
    <2> QED BY <1>4, <1>8, <2>1, <2>4, <2>5, <2>6, <2>7, <2>8, <2>9 DEF Joined
  <1>11. CASE ~ \E i \in 1..l : hits[i].row = r
    <2> DEFINE new == Append(hits, Hit(r, 0, d))
    <2>1. Add(hits, r, d) = new BY <1>8, <1>11 DEF Add
    <2>2. Hit(r, 0, d) \in HitType /\ Hit(r, 0, d).row = r
          /\ Hit(r, 0, d).phash = 0 /\ Hit(r, 0, d).dhash = d
      BY DEF Hit, HitType
    <2>3. PICK q \in Nat : q = l + 1 OBVIOUS
    <2>4. /\ new \in Seq(HitType) /\ Len(new) = q
          /\ \A i \in 1..l : new[i] = hits[i]
          /\ new[q] = Hit(r, 0, d)
      <3> HIDE DEF Hit
      <3> QED BY <1>5, <1>6, <2>2, <2>3
    <2> HIDE DEF new
    <2>5. \A i \in 1..q : i \in 1..l \/ i = q BY <2>3
    <2>6. q \in 1..q /\ q > a /\ \A i \in 1..l : i \in 1..q BY <1>8, <2>3
    <2>7. new[q].row = r /\ new[q].phash = 0 /\ new[q].dhash = d BY <2>2, <2>4
    <2>8. \A i \in 1..q :
              \/ /\ new[i].dhash = near[new[i].row]
                 /\ \E k \in 1..m : second[k] = new[i].row
              \/ /\ i <= a /\ new[i].dhash = first[i].dhash
                 /\ \A k \in 1..m : second[k] # new[i].row
      <3>1. ASSUME NEW i \in 1..l
            PROVE  \/ /\ new[i].dhash = near[new[i].row]
                      /\ \E k \in 1..m : second[k] = new[i].row
                   \/ /\ i <= a /\ new[i].dhash = first[i].dhash
                      /\ \A k \in 1..m : second[k] # new[i].row
        <4>1. \/ /\ hits[i].dhash = near[hits[i].row]
                 /\ \E k \in 1..n : second[k] = hits[i].row
              \/ /\ i <= a /\ hits[i].dhash = first[i].dhash
                 /\ \A k \in 1..n : second[k] # hits[i].row
          BY <1>d
        <4>2. new[i] = hits[i] /\ hits[i].row # r BY <1>11, <2>4
        <4>3. \A k \in 1..n : k \in 1..m BY <1>1
        <4> QED BY <1>2, <1>7, <4>1, <4>2, <4>3
      <3>2. m \in 1..m BY <1>1
      <3> QED BY <1>2, <1>3, <2>5, <2>7, <3>1, <3>2
    <2>9. \A k \in 1..m : \E i \in 1..q : new[i].row = second[k]
      <3>1. \A k \in 1..n : \E i \in 1..q : new[i].row = second[k] BY <1>e, <2>4, <2>6
      <3> QED BY <1>2, <1>7, <2>6, <2>7, <3>1
    <2>10. \A i \in 1..q : \/ \E j \in 1..a : new[i].row = first[j].row
                           \/ \E k \in 1..m : new[i].row = second[k]
      <3>1. m \in 1..m /\ \A k \in 1..n : k \in 1..m BY <1>1
      <3>2. \A i \in 1..l : \/ \E j \in 1..a : new[i].row = first[j].row
                            \/ \E k \in 1..m : new[i].row = second[k]
        BY <1>f, <2>4, <3>1
      <3> QED BY <1>2, <2>5, <2>7, <3>1, <3>2
    <2>11. /\ \A i \in 1..a : new[i].row = first[i].row /\ new[i].phash = first[i].phash
           /\ \A i \in 1..q : i > a => new[i].phash = 0
      <3>1. \A i \in 1..a : new[i].row = first[i].row /\ new[i].phash = first[i].phash
        BY <1>8, <1>a, <2>4
      <3>2. \A i \in 1..l : i > a => new[i].phash = 0 BY <1>b, <2>4
      <3> QED BY <2>5, <2>7, <3>1, <3>2
    <2>12. \A i, j \in 1..q : i # j => new[i].row # new[j].row
      <3>1. \A i, j \in 1..l : i # j => new[i].row # new[j].row BY <1>c, <2>4
      <3>2. \A i \in 1..l : new[i].row # new[q].row BY <1>11, <2>4, <2>7
      <3> QED BY <2>5, <3>1, <3>2
    <2>13. a = 0 => q = m /\ \A i \in 1..m : new[i].row = second[i]
      <3> SUFFICES ASSUME a = 0 PROVE q = m /\ \A i \in 1..m : new[i].row = second[i]
        OBVIOUS
      <3>1. l = n /\ q = m BY <1>1, <1>g, <2>3
      <3>2. \A i \in 1..n : new[i].row = second[i] BY <1>g, <2>4, <3>1
      <3> QED BY <1>2, <1>7, <2>7, <3>1, <3>2
    <2>14. q >= a BY <2>6
    <2> QED BY <1>4, <2>1, <2>4, <2>8, <2>9, <2>10, <2>11, <2>12, <2>13, <2>14 DEF Joined
  <1> QED BY <1>10, <1>11

\* The merge of the hits of one search with the rows of another.
LEMMA MergeIs ==
    ASSUME NEW first \in Seq(HitType), NEW second \in Seq(Rows), NEW near,
           \A i \in 1..Len(first) : first[i].dhash = 0,
           \A i, j \in 1..Len(first) : i # j => first[i].row # first[j].row,
           \A k \in 1..Len(second) : near[second[k]] \in Nat,
           \A i, j \in 1..Len(second) : i # j => second[i] # second[j]
    PROVE  Joined(first, second, near, Len(second), Merge(first, second, near))
  <1>1. PICK l \in Nat : l = Len(second) OBVIOUS
  <1> DEFINE Values(v) == v = [n \in 0..l |-> IF n = 0 THEN first
                                  ELSE Add(v[n - 1], second[n], near[second[n]])]
             Sound(n) == \E v : /\ DOMAIN v = 0..n /\ v[0] = first
                                /\ \A k \in 1..n : v[k] = Add(v[k - 1], second[k], near[second[k]])
  <1>2. \A n \in Nat : n <= l => Sound(n)
    <2> DEFINE S == {n \in Nat : n <= l => Sound(n)}
    <2>1. 0 \in S
      <3> DEFINE v == [k \in {0} |-> first]
      <3>1. DOMAIN v = 0..0 /\ v[0] = first OBVIOUS
      <3> HIDE DEF v
      <3> QED BY <3>1
    <2>2. ASSUME NEW n \in Nat, n \in S PROVE n + 1 \in S
      <3>1. PICK m \in Nat : m = n + 1 OBVIOUS
      <3>2. SUFFICES ASSUME m <= l PROVE Sound(m) BY <3>1
      <3>3. n <= l BY <3>1, <3>2
      <3>4. PICK v : /\ DOMAIN v = 0..n /\ v[0] = first
                     /\ \A k \in 1..n : v[k] = Add(v[k - 1], second[k], near[second[k]])
        BY <2>2, <3>3
      <3> DEFINE last == Add(v[n], second[m], near[second[m]])
                 w == [k \in 0..m |-> IF k = m THEN last ELSE v[k]]
      <3> HIDE DEF last
      <3>5. DOMAIN w = 0..m /\ w[m] = last /\ \A k \in 0..n : w[k] = v[k] BY <3>1
      <3> HIDE DEF w
      <3>6. w[0] = first BY <3>4, <3>5
      <3>7. ASSUME NEW k \in 1..m PROVE w[k] = Add(w[k - 1], second[k], near[second[k]])
        <4>1. CASE k = m
          <5>1. k - 1 = n /\ n \in 0..n BY <3>1, <4>1
          <5>2. w[k - 1] = v[n] /\ w[k] = last BY <3>5, <4>1, <5>1
          <5> QED BY <4>1, <5>2 DEF last
        <4>2. CASE k # m
          <5>1. k \in 1..n /\ k \in 0..n /\ k - 1 \in 0..n BY <3>1, <4>2
          <5>2. w[k - 1] = v[k - 1] /\ w[k] = v[k] BY <3>5, <5>1
          <5> QED BY <3>4, <5>1, <5>2
        <4> QED BY <4>1, <4>2
      <3> QED BY <3>5, <3>6, <3>7
    <2> HIDE DEF S
    <2>3. Nat \subseteq S BY <2>1, <2>2, SetInduction
    <2> QED BY <2>3 DEF S
  <1>3. \E v : Values(v)
    <2>1. PICK v : /\ DOMAIN v = 0..l /\ v[0] = first
                   /\ \A k \in 1..l : v[k] = Add(v[k - 1], second[k], near[second[k]])
      <3>1. Sound(l) BY <1>2
      <3> QED BY <3>1
    <2> DEFINE w == [n \in 0..l |-> v[n]]
    <2>2. DOMAIN w = 0..l /\ \A n \in 0..l : w[n] = v[n] OBVIOUS
    <2>3. w = [n \in 0..l |-> IF n = 0 THEN first
                              ELSE Add(w[n - 1], second[n], near[second[n]])]
      <3>1. ASSUME NEW n \in 0..l
            PROVE  v[n] = IF n = 0 THEN first ELSE Add(w[n - 1], second[n], near[second[n]])
        <4>1. n # 0 => n \in 1..l /\ n - 1 \in 0..l OBVIOUS
        <4>2. n # 0 => w[n - 1] = v[n - 1] BY <2>2, <4>1
        <4> HIDE DEF w
        <4> QED BY <2>1, <4>1, <4>2
      <3> QED BY <3>1
    <2> QED BY <2>3
  <1> DEFINE v == CHOOSE v : Values(v)
  <1>4. Values(v) BY <1>3, Zenon
  <1>5. Merge(first, second, near) = v[l] BY <1>1, Zenon DEF Merge
  <1> HIDE DEF v
  <1>6. v[0] = first /\ \A n \in 1..l : v[n] = Add(v[n - 1], second[n], near[second[n]])
    BY <1>4
  <1> DEFINE S == {n \in Nat : n <= l => Joined(first, second, near, n, v[n])}
  <1>7. 0 \in S
    <2>1. Joined(first, second, near, 0, first)
      <3>1. \A i \in 1..Len(first) : i <= Len(first) OBVIOUS
      <3> QED BY <3>1 DEF Joined
    <2> QED BY <1>6, <2>1
  <1>8. ASSUME NEW n \in Nat, n \in S PROVE n + 1 \in S
    <2>1. PICK m \in Nat : m = n + 1 OBVIOUS
    <2>2. SUFFICES ASSUME m <= l PROVE Joined(first, second, near, m, v[m]) BY <2>1
    <2>3. n <= l /\ m \in 1..l /\ m - 1 = n BY <2>1, <2>2
    <2>4. Joined(first, second, near, n, v[n]) BY <1>8, <2>3
    <2>5. v[m] = Add(v[n], second[m], near[second[m]]) BY <1>6, <2>3
    <2>6. m <= Len(second) /\ near[second[m]] \in Nat BY <1>1, <2>3
    <2> HIDE DEF Joined
    <2> QED BY <2>1, <2>4, <2>5, <2>6, AddJoins
  <1> HIDE DEF S
  <1>9. Nat \subseteq S BY <1>7, <1>8, SetInduction
  <1>10. Joined(first, second, near, l, v[l]) BY <1>9 DEF S
  <1> QED BY <1>1, <1>5, <1>10

\* Nothing is merged into the hits of a single search, which fit the limit.
LEMMA MergeNothing ==
    ASSUME NEW T, NEW hits \in Seq(T), NEW near, NEW limit \in Nat, Len(hits) <= limit
    PROVE  Cut(Merge(hits, <<>>, near), 0, limit) = hits
  <1> DEFINE Values(v) == v = [n \in 0..0 |-> IF n = 0 THEN hits
                                  ELSE Add(v[n - 1], <<>>[n], near[<<>>[n]])]
             v == CHOOSE v : Values(v)
  <1>1. \E u : Values(u)
    <2> DEFINE u == [n \in 0..0 |-> hits]
    <2>1. u = [n \in 0..0 |-> IF n = 0 THEN hits ELSE Add(u[n - 1], <<>>[n], near[<<>>[n]])]
      OBVIOUS
    <2> QED BY <2>1
  <1>2. Values(v) BY <1>1, Zenon
  <1>3. Merge(hits, <<>>, near) = v[0]
    <2>1. Len(<<>>) = 0 OBVIOUS
    <2> QED BY <2>1, Zenon DEF Merge
  <1> HIDE DEF v
  <1>4. v[0] = hits BY <1>2
  <1>5. PICK l \in Nat : l = Len(hits) OBVIOUS
  <1>6. Cut(hits, 0, limit) = SubSeq(hits, 1, l) BY <1>5 DEF Cut
  <1>7. SubSeq(hits, 1, l) = hits BY <1>5
  <1> QED BY <1>3, <1>4, <1>6, <1>7

\* What a statement of a search may find, whether or not its hash is well formed.
LEMMA StatementFinds ==
    ASSUME NEW column \in {PHash, DHash}, NEW hash \in SearchHashes,
           NEW S \in SUBSET Rows, NEW limit \in Nat,
           NEW s \in IF IsHex(hash) THEN SearchFallback(column, hash, S, limit) ELSE {<<>>}
    PROVE  /\ s \in Seq(S) /\ s \in Seq(Rows) /\ Len(s) \in Nat /\ Len(s) <= limit
           /\ \A i, j \in 1..Len(s) : i # j => s[i] # s[j]
           /\ IsHex(hash) => NearestOf(S, Nearness(column, hash), limit, s)
           /\ ~ IsHex(hash) => s = <<>>
  <1>1. CASE IsHex(hash)
    <2>1. hash \in Hashes \cup {q.phash : q \in Suspects} \cup {q.dhash : q \in Suspects}
      BY <1>1 DEF IsHex, SearchHashes
    <2>2. s \in SearchFallback(column, hash, S, limit) BY <1>1
    <2>3. NearestOf(S, Nearness(column, hash), limit, s) BY <2>1, <2>2, FallbackIs
    <2>4. s \in Seq(S) BY <2>3 DEF NearestOf
    <2>5. s \in Seq(Rows) BY <2>4
    <2> QED BY <1>1, <2>3, <2>5 DEF NearestOf
  <1>2. CASE ~ IsHex(hash)
    <2>1. s = <<>> BY <1>2
    <2> QED BY <1>2, <2>1
  <1> QED BY <1>1, <1>2

\* The distances of what it finds.
LEMMA FoundDistances ==
    ASSUME NEW column \in {PHash, DHash}, NEW hash \in SearchHashes,
           NEW S \in SUBSET Rows, NEW limit \in Nat,
           NEW s \in IF IsHex(hash) THEN SearchFallback(column, hash, S, limit) ELSE {<<>>}
    PROVE  \A k \in 1..Len(s) : /\ s[k] \in S
                                /\ Nearness(column, hash)[s[k]] \in Nat
                                /\ Nearness(column, hash)[s[k]] = HexHamming(column[s[k]], hash)
  <1>1. s \in Seq(S) /\ (~ IsHex(hash) => s = <<>>) BY StatementFinds
  <1>2. SUFFICES ASSUME NEW k \in 1..Len(s)
                 PROVE  /\ s[k] \in S
                        /\ Nearness(column, hash)[s[k]] \in Nat
                        /\ Nearness(column, hash)[s[k]] = HexHamming(column[s[k]], hash)
    OBVIOUS
  <1>3. s[k] \in S /\ s[k] \in Rows BY <1>1
  <1>4. IsHex(hash) BY <1>1
  <1>5. hash \in Hashes \cup {q.phash : q \in Suspects} \cup {q.dhash : q \in Suspects}
    BY <1>4 DEF IsHex, SearchHashes
  <1> QED BY <1>3, <1>5, NearnessType

LEMMA HitIs ==
    ASSUME NEW r \in Rows, NEW p \in Nat, NEW d \in Nat
    PROVE  /\ Hit(r, p, d) \in HitType
           /\ Hit(r, p, d).row = r /\ Hit(r, p, d).phash = p /\ Hit(r, p, d).dhash = d
  BY DEF Hit, HitType

\* Hits of rows of S, each once, with its pHash distance and the stub 0.
Stubbed(hash, S, limit, s, hits) ==
    /\ hits \in Seq(HitType) /\ Len(hits) = Len(s) /\ Len(hits) \in Nat
    /\ Len(hits) <= limit
    /\ \A i \in 1..Len(s) : /\ s[i] \in S /\ hits[i].row = s[i] /\ hits[i].dhash = 0
                            /\ hits[i].phash = HexHamming(PHash[s[i]], hash)
    /\ \A i, j \in 1..Len(s) : i # j => hits[i].row # hits[j].row

\* These are the hits of a pHash search.
LEMMA PhashHitsAre ==
    ASSUME NEW hash \in SearchHashes, NEW S \in SUBSET Rows, NEW limit \in Nat,
           NEW s \in IF IsHex(hash) THEN SearchFallback(PHash, hash, S, limit) ELSE {<<>>},
           NEW hits, hits = HitsFor(hash, s)
    PROVE  Stubbed(hash, S, limit, s, hits)
  <1> DEFINE near == Nearness(PHash, hash)
  <1>1. s \in Seq(S) /\ s \in Seq(Rows) /\ Len(s) \in Nat /\ Len(s) <= limit BY StatementFinds
  <1>2. \A i, j \in 1..Len(s) : i # j => s[i] # s[j] BY StatementFinds
  <1>3. \A k \in 1..Len(s) : /\ s[k] \in S /\ near[s[k]] \in Nat
                             /\ near[s[k]] = HexHamming(PHash[s[k]], hash)
    BY FoundDistances
  <1>4. hits = [i \in 1..Len(s) |-> Hit(s[i], near[s[i]], 0)] BY <1>1 DEF HitsFor
  <1> HIDE DEF near
  <1>5. \A i \in 1..Len(s) : hits[i] = Hit(s[i], near[s[i]], 0) BY <1>4
  <1>6. \A i \in 1..Len(s) :
            /\ hits[i] \in HitType /\ hits[i].row = s[i]
            /\ hits[i].dhash = 0 /\ hits[i].phash = near[s[i]]
    <2> SUFFICES ASSUME NEW i \in 1..Len(s)
                 PROVE  /\ hits[i] \in HitType /\ hits[i].row = s[i]
                        /\ hits[i].dhash = 0 /\ hits[i].phash = near[s[i]]
      OBVIOUS
    <2>1. s[i] \in Rows /\ near[s[i]] \in Nat BY <1>1, <1>3
    <2>2. Hit(s[i], near[s[i]], 0) \in HitType /\ Hit(s[i], near[s[i]], 0).row = s[i]
          /\ Hit(s[i], near[s[i]], 0).phash = near[s[i]]
          /\ Hit(s[i], near[s[i]], 0).dhash = 0
      <3>1. 0 \in Nat OBVIOUS
      <3> QED BY <2>1, <3>1, HitIs
    <2>3. hits[i] = Hit(s[i], near[s[i]], 0) BY <1>5
    <2> QED BY <2>2, <2>3, Zenon
  <1>7. hits \in Seq(HitType) /\ Len(hits) = Len(s)
    <2>1. hits \in [1..Len(s) -> HitType] BY <1>4, <1>6
    <2> QED BY <1>1, <2>1
  <1>8. \A i \in 1..Len(s) : hits[i].phash = HexHamming(PHash[s[i]], hash) BY <1>3, <1>6
  <1>9. \A i, j \in 1..Len(s) : i # j => hits[i].row # hits[j].row
    <2> SUFFICES ASSUME NEW i \in 1..Len(s), NEW j \in 1..Len(s), i # j
                 PROVE  hits[i].row # hits[j].row
      OBVIOUS
    <2>1. hits[i].row = s[i] /\ hits[j].row = s[j] BY <1>6
    <2>2. s[i] # s[j] BY <1>2
    <2> QED BY <2>1, <2>2
  <1>10. Len(hits) \in Nat /\ Len(hits) <= limit BY <1>1, <1>7
  <1>11. \A i \in 1..Len(s) : s[i] \in S /\ hits[i].row = s[i] /\ hits[i].dhash = 0 BY <1>3, <1>6
  <1> QED BY <1>7, <1>8, <1>9, <1>10, <1>11 DEF Stubbed

-----------------------------------------------------------------------------
(* The steps *)

LEMMA Starts == Init => IInv
  <1> SUFFICES ASSUME Init PROVE IInv OBVIOUS
  <1> USE DEF Init, None, Silent
  <1>1. RequestInv BY DEF RequestInv
  <1>2. TableInv
    <2>1. \A s \in Statements : seen[s] = {} OBVIOUS
    <2>2. ToSet(merged) = {} BY DEF ToSet
    <2> QED BY <2>1, <2>2 DEF TableInv
  <1>3. SearchInv /\ ExtractInv /\ PagingInv
    <2>1. req.kind = "none" OBVIOUS
    <2> QED BY <2>1 DEF SearchInv, ExtractInv, PagingInv
  <1> QED BY <1>1, <1>2, <1>3 DEF IInv

\* A statement that is executed sees the table.
LEMMA LookSees ==
    ASSUME TableInv, NEW statement \in Statements, Look(statement), table' = table
    PROVE  /\ seen' \in [Statements -> SUBSET Rows]
           /\ \A s \in Statements : seen'[s] \subseteq table'
           /\ seen'[statement] = table
           /\ \A s \in Statements \ {statement} : seen'[s] = seen[s]
  BY DEF TableInv, Look

\* Another request registers a row.
LEMMA RegisterStep ==
    ASSUME IInv, NEW r \in Rows, Register(r)
    PROVE  IInv'
  <1>1. UNCHANGED <<indexed, pc, req, merged, answer, listed, seen>> /\ table' = table \cup {r}
    BY DEF Register
  <1>2. RequestInv' BY <1>1 DEF IInv, RequestInv, Silent
  <1>3. TableInv' BY <1>1 DEF IInv, TableInv
  <1>4. SearchInv'
    <2>1. /\ FoundAt("phash", PHash, req.phash, req.limit)'
             = FoundAt("phash", PHash, req.phash, req.limit)
          /\ FoundAt("dhash", DHash, req.dhash, req.limit)'
             = FoundAt("dhash", DHash, req.dhash, req.limit)
      BY <1>1 DEF FoundAt, Candidates
    <2>2. \A s : PhashHits(s)' = PhashHits(s) BY <1>1 DEF PhashHits
    <2> QED BY <1>1, <2>1, <2>2 DEF IInv, SearchInv
  <1>5. ExtractInv'
    BY <1>1 DEF IInv, ExtractInv, FoundAt, Candidates, Exact, LedgerMatch
  <1>6. PagingInv'
    <2> SUFFICES ASSUME req.kind = "list",
                        NEW q \in Candidates("ask"), Lone(q), q \notin ToSet(listed)
                 PROVE  pc = "page" /\ Cardinality(Newer(q)') >= Len(listed)
      <3>1. req.kind = "list" => answer.hits = <<>> BY DEF IInv, PagingInv
      <3>2. \A s \in Candidates("ask")' : s \in Candidates("ask") BY <1>1 DEF Candidates
      <3> QED BY <1>1, <3>1, <3>2 DEF PagingInv
    <2>1. pc = "page" /\ Cardinality(Newer(q)) >= Len(listed) BY DEF IInv, PagingInv
    <2>2. Newer(q) \subseteq Newer(q)' BY <1>1 DEF Newer, OfAccount
    <2>3. Newer(q)' \subseteq Rows /\ Newer(q) \subseteq Rows
      BY <1>3 DEF IInv, TableInv, Newer, OfAccount
    <2>4. PICK old, new : old = Newer(q) /\ new = Newer(q)' OBVIOUS
    <2>5. IsFiniteSet(new) BY <2>3, <2>4, FS_Subset, SearchAssumption
    <2>6. Cardinality(old) <= Cardinality(new) /\ Cardinality(old) \in Nat
          /\ Cardinality(new) \in Nat
      BY <2>2, <2>4, <2>5, FS_Subset, FS_CardinalityType
    <2>7. Len(listed) \in Nat BY DEF IInv, TableInv
    <2> QED BY <2>1, <2>4, <2>6, <2>7
  <1> QED BY <1>2, <1>3, <1>4, <1>5, <1>6 DEF IInv

\* A request arrives.
LEMMA AskKeepsTable ==
    ASSUME TableInv, NEW request, NEW first, Ask(request, first)
    PROVE  TableInv'
  <1>1. /\ indexed' = indexed /\ table' = table /\ merged' = <<>> /\ listed' = <<>>
        /\ seen' = [s \in Statements |-> IF s = "ask" THEN table ELSE {}]
    BY DEF Ask
  <1>2. seen' \in [Statements -> SUBSET Rows] /\ \A s \in Statements : seen'[s] \subseteq table'
    BY <1>1 DEF TableInv
  <1>3. ToSet(merged)' = {} BY <1>1 DEF ToSet
  <1>4. listed' \in Seq(Rows) BY <1>1
  <1> QED BY <1>1, <1>2, <1>3, <1>4 DEF TableInv

LEMMA AskSearchStep ==
    ASSUME IInv, NEW a \in Accounts \cup {NoAccount}, NEW p \in SearchHashes,
           NEW d \in SearchHashes, NEW l \in Limits, NEW m \in Distances,
           AskSearch(p, d, a, l, m)
    PROVE  IInv'
  <1> DEFINE request == [kind |-> "search", phash |-> p, dhash |-> d,
                         account |-> a, limit |-> l, max |-> m]
             neither == p = NoHash /\ d = NoHash
             first == IF neither THEN "idle" ELSE IF p # NoHash THEN "phash" ELSE "dhash"
  <1>1. Ask(request, first) /\ answer' = IF neither THEN [status |-> "bad", hits |-> <<>>]
                                                    ELSE Silent
    BY DEF AskSearch
  <1>2. /\ req'.kind = "search" /\ req'.phash = p /\ req'.dhash = d /\ req'.limit = l
        /\ pc' = first /\ merged' = <<>>
    BY <1>1 DEF Ask
  <1>3. /\ pc' \in {"idle", "phash", "dhash"}
        /\ pc' = "idle" => answer'.status = "bad" /\ answer'.hits = <<>>
        /\ pc' # "idle" => answer' = Silent
        /\ pc' = "dhash" => p = NoHash
    BY <1>1, <1>2
  <1> HIDE DEF first, request, neither
  <1>4. l \in Nat BY SearchAssumption
  <1>5. RequestInv'
    BY <1>2, <1>3, <1>4 DEF RequestInv, Silent
  <1>6. TableInv' BY <1>1, AskKeepsTable DEF IInv
  <1>7. SearchInv'
    <2>1. answer'.status # "ok" BY <1>3 DEF Silent
    <2>2. ASSUME pc' = "dhash"
          PROVE  \E s \in FoundAt("phash", PHash, req.phash, req.limit)' : merged' = PhashHits(s)'
      <3>1. ~ IsHex(req'.phash) BY <1>2, <1>3, <2>2 DEF IsHex
      <3>2. <<>> \in FoundAt("phash", PHash, req.phash, req.limit)' BY <3>1 DEF FoundAt
      <3>3. PhashHits(<<>>)' = <<>> BY DEF PhashHits, HitsFor
      <3> QED BY <1>2, <3>2, <3>3
    <2> QED BY <2>1, <2>2 DEF SearchInv
  <1>8. ExtractInv' /\ PagingInv' BY <1>2 DEF ExtractInv, PagingInv
  <1> QED BY <1>5, <1>6, <1>7, <1>8 DEF IInv

LEMMA AskExtractStep ==
    ASSUME IInv, NEW a \in Accounts \cup {NoAccount}, NEW s \in Suspects, AskExtract(s, a)
    PROVE  IInv'
  <1> DEFINE request == [kind |-> "extract", payload |-> s.payload,
                         phash |-> s.phash, dhash |-> s.dhash, account |-> a]
             empty == s.payload = NoPayload
             first == IF empty THEN "idle" ELSE "payload"
  <1>1. Ask(request, first) /\ answer' = IF empty THEN [status |-> "nothing", hits |-> <<>>]
                                                  ELSE Silent
    BY DEF AskExtract
  <1>2. /\ req'.kind = "extract" /\ req'.phash = s.phash /\ req'.dhash = s.dhash
        /\ pc' = first
    BY <1>1 DEF Ask
  <1>3. /\ pc' \in {"idle", "payload"}
        /\ pc' = "idle" => answer'.status = "nothing" /\ answer'.hits = <<>>
        /\ pc' # "idle" => answer' = Silent
    BY <1>1, <1>2
  <1> HIDE DEF first, request, empty
  <1>4. RequestInv' BY <1>2, <1>3 DEF RequestInv, Silent
  <1>5. TableInv' BY <1>1, AskKeepsTable DEF IInv
  <1>6. ExtractInv' BY <1>2, <1>3 DEF ExtractInv, Silent
  <1>7. SearchInv' /\ PagingInv' BY <1>2 DEF SearchInv, PagingInv
  <1> QED BY <1>4, <1>5, <1>6, <1>7 DEF IInv

LEMMA AskListStep ==
    ASSUME IInv, NEW a \in Accounts \cup {NoAccount}, NEW l \in PageSizes, AskList(a, l)
    PROVE  IInv'
  <1> DEFINE request == [kind |-> "list", account |-> a, limit |-> l]
  <1>1. Ask(request, "page") /\ answer' = Silent BY DEF AskList
  <1>2. /\ req'.kind = "list" /\ req'.limit = l /\ req'.account = a
        /\ pc' = "page" /\ listed' = <<>>
    BY <1>1 DEF Ask
  <1> HIDE DEF request
  <1>3. l \in Nat BY SearchAssumption
  <1>4. RequestInv' BY <1>1, <1>2, <1>3 DEF RequestInv, Silent
  <1>5. TableInv' BY <1>1, AskKeepsTable DEF IInv
  <1>6. PagingInv'
    <2>1. answer'.hits = <<>> BY <1>1 DEF Silent
    <2>2. ASSUME NEW r PROVE Cardinality(Newer(r)') >= Len(listed')
      <3>1. Newer(r)' \subseteq Rows BY <1>5 DEF TableInv, Newer, OfAccount
      <3>2. PICK new : new = Newer(r)' OBVIOUS
      <3>3. Cardinality(new) \in Nat
        BY <3>1, <3>2, FS_Subset, FS_CardinalityType, SearchAssumption
      <3>4. Len(listed') = 0 BY <1>2
      <3> QED BY <3>2, <3>3, <3>4
    <2> QED BY <1>2, <2>1, <2>2 DEF PagingInv
  <1>7. SearchInv' /\ ExtractInv' BY <1>2 DEF SearchInv, ExtractInv
  <1> QED BY <1>4, <1>5, <1>6, <1>7 DEF IInv

\* A statement of a search, on the migrated database.
LEMMA RaisesStep ==
    ASSUME IInv, SearchRaises
    PROVE  IInv'
  <1>1. /\ pc \in {"phash", "dhash", "fuzzy"} /\ Look(pc)
        /\ pc' = "idle" /\ answer' = [status |-> "error", hits |-> <<>>]
        /\ UNCHANGED <<indexed, table, req, merged, listed>>
    BY DEF SearchRaises, Answer
  <1>2. RequestInv' BY <1>1 DEF IInv, RequestInv
  <1>3. TableInv'
    <2>1. PICK st \in Statements : st = pc BY <1>1 DEF Statements
    <2>2. /\ seen' \in [Statements -> SUBSET Rows]
          /\ \A s \in Statements : seen'[s] \subseteq table'
      BY <1>1, <2>1, LookSees DEF IInv
    <2> QED BY <1>1, <2>2 DEF IInv, TableInv
  <1>4. req'.kind \in {"search", "extract"} BY <1>1 DEF IInv, RequestInv
  <1>5. SearchInv' BY <1>1 DEF SearchInv
  <1>6. ExtractInv' BY <1>1 DEF ExtractInv
  <1>7. PagingInv' BY <1>4 DEF PagingInv
  <1> QED BY <1>2, <1>3, <1>5, <1>6, <1>7 DEF IInv

\* A statement finds its rows in the table it sees.
LEMMA FoundIsFoundAt ==
    ASSUME TableInv, NEW statement \in Statements, Look(statement), UNCHANGED <<table, req>>,
           NEW column, NEW hash, NEW limit
    PROVE  Found(column, hash, req.account, limit) = FoundAt(statement, column, hash, limit)'
  <1>1. seen'[statement] = table BY LookSees
  <1>2. Candidates(statement)' = OfAccount(table, req.account)
    BY <1>1 DEF Candidates, OfAccount
  <1> QED BY <1>2 DEF Found, FoundAt

LEMMA LookKeepsTable ==
    ASSUME TableInv, NEW statement \in Statements, Look(statement),
           UNCHANGED <<indexed, table, listed>>,
           \A h \in ToSet(merged') : h.row \in Rows /\ h.phash \in Nat /\ h.dhash \in Nat
    PROVE  TableInv'
  <1>1. seen' \in [Statements -> SUBSET Rows] /\ \A s \in Statements : seen'[s] \subseteq table'
    BY LookSees
  <1> QED BY <1>1 DEF TableInv

LEMMA CandidatesAreRows ==
    ASSUME TableInv, NEW statement \in Statements
    PROVE  Candidates(statement) \in SUBSET Rows
  BY DEF TableInv, Candidates

LEMMA HitsOfSequence ==
    ASSUME NEW hits \in Seq(HitType)
    PROVE  \A h \in ToSet(hits) : h.row \in Rows /\ h.phash \in Nat /\ h.dhash \in Nat
  <1>1. \A i \in DOMAIN hits : hits[i] \in HitType OBVIOUS
  <1>2. ToSet(hits) = {hits[i] : i \in DOMAIN hits} BY DEF ToSet
  <1>3. \A h \in ToSet(hits) : h \in HitType BY <1>1, <1>2
  <1> QED BY <1>3 DEF HitType

\* The pHash search.
LEMMA PhashStep ==
    ASSUME IInv, SearchPhash
    PROVE  IInv'
  <1>1. /\ pc = "phash" /\ Look("phash") /\ UNCHANGED <<indexed, table, req, listed>>
        /\ req.kind = "search" /\ req.phash \in SearchHashes /\ req.limit \in Nat
        /\ answer = Silent
    BY DEF SearchPhash, IInv, RequestInv
  <1>2. PICK s \in Found(PHash, req.phash, req.account, req.limit) :
            LET near == Nearness(PHash, req.phash)
                hits == [i \in DOMAIN s |-> Hit(s[i], near[s[i]], 0)]
            IN  IF req.dhash = NoHash
                THEN Answer("ok", hits) /\ UNCHANGED merged
                ELSE merged' = hits /\ pc' = "dhash" /\ UNCHANGED answer
    BY DEF SearchPhash
  <1>3. /\ req.dhash = NoHash => /\ pc' = "idle" /\ merged' = merged
                                 /\ answer'.status = "ok" /\ answer'.hits = PhashHits(s)
        /\ req.dhash # NoHash => pc' = "dhash" /\ merged' = PhashHits(s) /\ answer' = answer
    BY <1>2 DEF Answer, PhashHits, HitsFor
  <1>4. "phash" \in Statements /\ TableInv BY DEF Statements, IInv
  <1>5. s \in FoundAt("phash", PHash, req.phash, req.limit)'
    BY <1>1, <1>4, FoundIsFoundAt
  <1>6. /\ PhashHits(s) \in Seq(HitType) /\ Len(PhashHits(s)) \in Nat
        /\ Len(PhashHits(s)) <= req.limit
    <2>1. PICK hash \in SearchHashes : hash = req.phash BY <1>1
    <2>2. PICK limit \in Nat : limit = req.limit BY <1>1
    <2>3. PICK S \in SUBSET Rows : S = OfAccount(table, req.account)
      BY <1>4 DEF TableInv, OfAccount
    <2>4. s \in Found(PHash, req.phash, req.account, req.limit) BY <1>2
    <2>5. s \in IF IsHex(hash) THEN SearchFallback(PHash, hash, S, limit) ELSE {<<>>}
      BY <2>1, <2>2, <2>3, <2>4 DEF Found
    <2>6. PICK hits : hits = HitsFor(hash, s) OBVIOUS
    <2>7. Stubbed(hash, S, limit, s, hits) BY <2>5, <2>6, PhashHitsAre
    <2> QED BY <2>1, <2>2, <2>6, <2>7 DEF PhashHits, Stubbed
  <1>7. \A h \in ToSet(PhashHits(s)) : h.row \in Rows /\ h.phash \in Nat /\ h.dhash \in Nat
    BY <1>6, HitsOfSequence
  <1>8. TableInv'
    <2>1. \A h \in ToSet(merged') : h.row \in Rows /\ h.phash \in Nat /\ h.dhash \in Nat
      BY <1>3, <1>4, <1>7 DEF TableInv
    <2> QED BY <1>1, <1>4, <2>1, LookKeepsTable
  <1>9. RequestInv' BY <1>1, <1>3 DEF IInv, RequestInv, Silent
  <1>10. SearchInv'
    <2>1. PhashHits(s)' = PhashHits(s) BY <1>1 DEF PhashHits
    <2>2. CASE req.dhash # NoHash
      <3>1. pc' = "dhash" /\ merged' = PhashHits(s)' /\ answer'.status # "ok"
        BY <1>1, <1>3, <2>1, <2>2 DEF Silent
      <3> QED BY <1>5, <3>1 DEF SearchInv
    <2>3. CASE req.dhash = NoHash
      <3>1. <<>> \in FoundAt("dhash", DHash, req.dhash, req.limit)'
        BY <1>1, <2>3 DEF FoundAt, IsHex
      <3>2. Cut(Merge(PhashHits(s), <<>>, Nearness(DHash, req.dhash)), 0, req.limit)
            = PhashHits(s)
        BY <1>1, <1>6, MergeNothing
      <3>3. answer'.hits = Cut(Merge(PhashHits(s)', <<>>, Nearness(DHash, req'.dhash)),
                               0, req'.limit)
        BY <1>1, <1>3, <2>1, <2>3, <3>2
      <3>4. pc' = "idle" BY <1>3, <2>3
      <3> QED BY <1>5, <3>1, <3>3, <3>4 DEF SearchInv
    <2> QED BY <2>2, <2>3
  <1>11. ExtractInv' /\ PagingInv' BY <1>1 DEF ExtractInv, PagingInv
  <1> QED BY <1>8, <1>9, <1>10, <1>11 DEF IInv

\* The dHash search.
LEMMA DhashStep ==
    ASSUME IInv, SearchDhash
    PROVE  IInv'
  <1>1. /\ pc = "dhash" /\ Look("dhash") /\ UNCHANGED <<indexed, table, req, merged, listed>>
        /\ req.kind = "search"
    BY DEF SearchDhash, IInv, RequestInv
  <1>2. PICK t \in Found(DHash, req.dhash, req.account, req.limit) :
            Answer("ok", Cut(Merge(merged, t, Nearness(DHash, req.dhash)), 0, req.limit))
    BY DEF SearchDhash
  <1>3. /\ pc' = "idle" /\ answer'.status = "ok"
        /\ answer'.hits = Cut(Merge(merged, t, Nearness(DHash, req.dhash)), 0, req.limit)
    BY <1>2 DEF Answer
  <1>4. "phash" \in Statements /\ "dhash" \in Statements /\ TableInv BY DEF Statements, IInv
  <1>5. t \in FoundAt("dhash", DHash, req.dhash, req.limit)'
    BY <1>1, <1>4, FoundIsFoundAt
  <1>6. PICK s \in FoundAt("phash", PHash, req.phash, req.limit) : merged = PhashHits(s)
    BY <1>1 DEF IInv, SearchInv
  <1>7. s \in FoundAt("phash", PHash, req.phash, req.limit)' /\ PhashHits(s)' = PhashHits(s)
    <2>1. seen'["phash"] = seen["phash"] BY <1>1, <1>4, LookSees
    <2>2. Candidates("phash")' = Candidates("phash") BY <1>1, <2>1 DEF Candidates
    <2>3. FoundAt("phash", PHash, req.phash, req.limit)'
          = FoundAt("phash", PHash, req.phash, req.limit)
      BY <1>1, <2>2 DEF FoundAt
    <2> QED BY <1>1, <1>6, <2>3 DEF PhashHits
  <1>8. TableInv'
    <2>1. \A h \in ToSet(merged') : h.row \in Rows /\ h.phash \in Nat /\ h.dhash \in Nat
      BY <1>1, <1>4 DEF TableInv
    <2> QED BY <1>1, <1>4, <2>1, LookKeepsTable
  <1>9. RequestInv' BY <1>1, <1>3 DEF IInv, RequestInv
  <1>10. SearchInv'
    <2>1. answer'.hits = Cut(Merge(PhashHits(s)', t, Nearness(DHash, req'.dhash)), 0, req'.limit)
      BY <1>1, <1>3, <1>6, <1>7
    <2> QED BY <1>3, <1>5, <1>7, <2>1 DEF SearchInv
  <1>11. ExtractInv' /\ PagingInv' BY <1>1 DEF ExtractInv, PagingInv
  <1> QED BY <1>8, <1>9, <1>10, <1>11 DEF IInv

\* The lookup by payload.
LEMMA PayloadStep ==
    ASSUME IInv, PayloadLookup
    PROVE  IInv'
  <1>1. /\ pc = "payload" /\ Look("payload") /\ UNCHANGED <<indexed, table, req, merged, listed>>
        /\ req.kind = "extract" /\ answer = Silent
    BY DEF PayloadLookup, IInv, RequestInv
  <1>2. PICK matches \in OrderBy({r \in table : Payload[r] = req.payload}, Recency) :
            IF matches = <<>>
            THEN pc' = "fuzzy" /\ UNCHANGED answer
            ELSE Answer("match", <<LedgerMatch(Choose(matches, req.account))>>)
    BY DEF PayloadLookup
  <1>3. /\ matches = <<>> => pc' = "fuzzy" /\ answer' = answer
        /\ matches # <<>> =>
              /\ pc' = "idle" /\ answer'.status = "match"
              /\ answer'.hits = <<LedgerMatch(Choose(matches, req.account))>>
    BY <1>2 DEF Answer
  <1>4. "payload" \in Statements /\ TableInv BY DEF Statements, IInv
  <1>5. Exact' = {r \in table : Payload[r] = req.payload}
    <2>1. seen'["payload"] = table BY <1>1, <1>4, LookSees
    <2> QED BY <1>1, <2>1 DEF Exact
  <1>6. matches = <<>> => Exact' = {}
    <2>1. PICK S : S = {r \in table : Payload[r] = req.payload} OBVIOUS
    <2>2. IsFiniteSet(S) BY <1>4, <2>1, FS_Subset, SearchAssumption DEF TableInv
    <2>3. matches \in OrderBy(S, Recency) BY <1>2, <2>1
    <2>4. \A r \in S : \E i \in 1..Len(matches) : matches[i] = r BY <2>2, <2>3, OrderByIs
    <2>5. matches = <<>> => S = {} BY <2>4
    <2> QED BY <1>5, <2>1, <2>5
  <1>7. RequestInv' BY <1>1, <1>3 DEF IInv, RequestInv, Silent
  <1>8. TableInv'
    <2>1. \A h \in ToSet(merged') : h.row \in Rows /\ h.phash \in Nat /\ h.dhash \in Nat
      BY <1>1, <1>4 DEF TableInv
    <2> QED BY <1>1, <1>4, <2>1, LookKeepsTable
  <1>9. ExtractInv'
    <2>1. CASE matches = <<>> BY <1>1, <1>3, <1>6, <2>1 DEF ExtractInv, Silent
    <2>2. CASE matches # <<>>
      <3>1. matches \in OrderBy(Exact', Recency) BY <1>2, <1>5
      <3>2. LedgerMatch(Choose(matches, req.account))' = LedgerMatch(Choose(matches, req.account))
        BY <1>1 DEF LedgerMatch
      <3>3. answer'.hits = <<LedgerMatch(Choose(matches, req.account))'>>
        BY <1>3, <2>2, <3>2
      <3>4. pc' = "idle" /\ answer'.status = "match" BY <1>3, <2>2
      <3> QED BY <2>2, <3>1, <3>3, <3>4 DEF ExtractInv
    <2> QED BY <2>1, <2>2
  <1>10. SearchInv' /\ PagingInv' BY <1>1 DEF SearchInv, PagingInv
  <1> QED BY <1>7, <1>8, <1>9, <1>10 DEF IInv

\* The lookup by pHash, after no row had the payload.
LEMMA FuzzyStep ==
    ASSUME IInv, FuzzyLookup
    PROVE  IInv'
  <1>1. /\ pc = "fuzzy" /\ Look("fuzzy") /\ UNCHANGED <<indexed, table, req, merged, listed>>
        /\ req.kind = "extract" /\ Exact = {}
    BY DEF FuzzyLookup, IInv, RequestInv, ExtractInv
  <1>2. PICK s \in Found(PHash, req.phash, req.account, FuzzyLimit) :
            IF s = <<>> THEN Answer("payload", <<>>) ELSE Answer("match", <<LedgerMatch(s[1])>>)
    BY DEF FuzzyLookup
  <1>3. /\ pc' = "idle"
        /\ s = <<>> => answer'.status = "payload" /\ answer'.hits = <<>>
        /\ s # <<>> => answer'.status = "match" /\ answer'.hits = <<LedgerMatch(s[1])>>
    BY <1>2 DEF Answer
  <1>4. "payload" \in Statements /\ "fuzzy" \in Statements /\ TableInv BY DEF Statements, IInv
  <1>5. s \in FoundAt("fuzzy", PHash, req.phash, FuzzyLimit)'
    <2>1. s \in Found(PHash, req.phash, req.account, FuzzyLimit) BY <1>2
    <2>2. PICK hash, limit : hash = req.phash /\ limit = FuzzyLimit OBVIOUS
    <2>3. Found(PHash, hash, req.account, limit) = FoundAt("fuzzy", PHash, hash, limit)'
      BY <1>1, <1>4, FoundIsFoundAt
    <2> QED BY <1>1, <2>1, <2>2, <2>3
  <1>6. Exact' = {}
    <2>1. seen'["payload"] = seen["payload"] BY <1>1, <1>4, LookSees
    <2> QED BY <1>1, <2>1 DEF Exact
  <1>7. RequestInv' BY <1>1, <1>3 DEF IInv, RequestInv
  <1>8. TableInv'
    <2>1. \A h \in ToSet(merged') : h.row \in Rows /\ h.phash \in Nat /\ h.dhash \in Nat
      BY <1>1, <1>4 DEF TableInv
    <2> QED BY <1>1, <1>4, <2>1, LookKeepsTable
  <1>9. ExtractInv'
    <2>1. CASE s = <<>> BY <1>3, <2>1 DEF ExtractInv
    <2>2. CASE s # <<>>
      <3>1. LedgerMatch(s[1])' = LedgerMatch(s[1]) BY <1>1 DEF LedgerMatch
      <3> QED BY <1>3, <1>5, <1>6, <2>2, <3>1 DEF ExtractInv
    <2> QED BY <2>1, <2>2
  <1>10. SearchInv' /\ PagingInv' BY <1>1 DEF SearchInv, PagingInv
  <1> QED BY <1>7, <1>8, <1>9, <1>10 DEF IInv

\* The place of a row that shares its created_at with no other: behind the rows
\* that are newer.
LEMMA LonePlace ==
    ASSUME NEW S \in SUBSET Rows, NEW s \in OrderBy(S, Recency), NEW r \in S, Lone(r)
    PROVE  \E p \in 1..Len(s) : /\ s[p] = r
                                /\ Cardinality({c \in S : Created[c] > Created[r]}) = p - 1
  <1> DEFINE newer == {c \in S : Created[c] > Created[r]}
  <1>1. IsFiniteSet(S) BY SearchAssumption, FS_Subset
  <1>2. \A c \in Rows : Created[c] \in Nat /\ Recency[c] = -Created[c]
    BY SearchAssumption DEF Recency
  <1>3. /\ s \in Seq(S) /\ Len(s) \in Nat
        /\ \A i, j \in 1..Len(s) : i # j => s[i] # s[j]
        /\ \A i, j \in 1..Len(s) : i < j => Recency[s[i]] <= Recency[s[j]]
        /\ \A c \in S : \E i \in 1..Len(s) : s[i] = c
    <2>1. PICK key : key = Recency OBVIOUS
    <2>2. s \in OrderBy(S, key) BY <2>1
    <2>3. /\ s \in Seq(S) /\ Len(s) \in Nat
          /\ \A i, j \in 1..Len(s) : i # j => s[i] # s[j]
          /\ \A i, j \in 1..Len(s) : i < j => key[s[i]] <= key[s[j]]
          /\ \A c \in S : \E i \in 1..Len(s) : s[i] = c
      BY <1>1, <2>2, OrderByIs
    <2> QED BY <2>1, <2>3
  <1>4. \A i \in 1..Len(s) : s[i] \in S /\ s[i] \in Rows BY <1>3
  <1>5. PICK p \in 1..Len(s) : s[p] = r BY <1>3
  <1> DEFINE front == [i \in 1..p - 1 |-> s[i]]
  <1>6. p \in Nat /\ p >= 1 /\ \A i \in 1..p - 1 : i \in 1..Len(s) /\ i < p BY <1>3
  <1>7. \A i \in 1..p - 1 : s[i] \in newer
    <2> SUFFICES ASSUME NEW i \in 1..p - 1 PROVE s[i] \in S /\ Created[s[i]] > Created[r]
      OBVIOUS
    <2>1. i \in 1..Len(s) /\ i < p BY <1>6
    <2>2. s[i] \in S /\ s[i] \in Rows /\ r \in Rows BY <1>4, <2>1
    <2>3. s[i] # r
      <3>1. i # p BY <1>6, <2>1
      <3>2. \A j, k \in 1..Len(s) : j # k => s[j] # s[k] BY <1>3
      <3> QED BY <1>5, <2>1, <3>1, <3>2
    <2>4. Created[s[i]] # Created[r] BY <2>2, <2>3 DEF Lone
    <2>5. Recency[s[i]] <= Recency[r] BY <1>3, <1>5, <2>1
    <2> QED BY <1>2, <2>2, <2>4, <2>5
  <1>8. \A c \in newer : \E i \in 1..p - 1 : s[i] = c
    <2> SUFFICES ASSUME NEW c \in S, Created[c] > Created[r] PROVE \E i \in 1..p - 1 : s[i] = c
      OBVIOUS
    <2>1. PICK i \in 1..Len(s) : s[i] = c BY <1>3
    <2>2. c \in Rows /\ r \in Rows OBVIOUS
    <2>3. i # p BY <1>2, <1>5, <2>1, <2>2
    <2>4. ~ (p < i)
      <3> SUFFICES ASSUME p < i PROVE FALSE OBVIOUS
      <3>1. Recency[r] <= Recency[c] BY <1>3, <1>5, <2>1
      <3> QED BY <1>2, <2>2, <3>1
    <2>5. i \in 1..p - 1 BY <1>3, <2>3, <2>4
    <2> QED BY <2>1, <2>5
  <1>9. front \in Bijection(1..p - 1, newer)
    <2>1. \A i, j \in 1..p - 1 : s[i] = s[j] => i = j BY <1>3, <1>6
    <2>2. front \in [1..p - 1 -> newer]
      <3> HIDE DEF newer
      <3> QED BY <1>7
    <2>3. \A i \in 1..p - 1 : front[i] = s[i] OBVIOUS
    <2> HIDE DEF front, newer
    <2>4. front \in Injection(1..p - 1, newer)
      BY <2>1, <2>2, <2>3 DEF Injection, IsInjective
    <2>5. front \in Surjection(1..p - 1, newer) BY <1>8, <2>2, <2>3 DEF Surjection
    <2> QED BY <2>4, <2>5 DEF Bijection
  <1>10. IsFiniteSet(1..p - 1) /\ Cardinality(1..p - 1) = p - 1 BY <1>6, FS_Interval
  <1> HIDE DEF front, newer
  <1>11. Cardinality(newer) = p - 1
    <2>1. ExistsBijection(1..p - 1, newer) BY <1>9 DEF ExistsBijection
    <2> QED BY <1>10, <2>1, FS_Bijection
  <1> QED BY <1>5, <1>11 DEF newer

\* A page: a row that is alone with its created_at and has not been given yet is
\* in the page, or the page is full and the row lies behind it.
LEMMA PageGives ==
    ASSUME NEW S \in SUBSET Rows, NEW s \in OrderBy(S, Recency), NEW r \in S, Lone(r),
           NEW offset \in Nat, NEW limit \in Nat,
           NEW newer, newer = Cardinality({c \in S : Created[c] > Created[r]}), newer >= offset,
           NEW page, page = Cut(s, offset, limit)
    PROVE  \/ \E i \in 1..Len(page) : page[i] = r
           \/ Len(page) = limit /\ newer >= offset + limit
  <1>1. PICK p \in 1..Len(s) : s[p] = r /\ newer = p - 1 BY LonePlace
  <1>2. s \in Seq(S)
    <2>1. IsFiniteSet(S) BY SearchAssumption, FS_Subset
    <2>2. PICK key : key = Recency OBVIOUS
    <2>3. s \in OrderBy(S, key) BY <2>2
    <2> QED BY <2>1, <2>3, OrderByIs
  <1>3. PICK l \in Nat : l = Len(s) BY <1>2
  <1>4. PICK m : m = Len(page) OBVIOUS
  <1>5. /\ m = IF offset + limit < l THEN limit ELSE IF offset < l THEN l - offset ELSE 0
        /\ \A i \in 1..m : page[i] = s[offset + i]
    <2>1. /\ Len(Cut(s, offset, limit)) = IF offset + limit < Len(s) THEN limit
                                          ELSE IF offset < Len(s) THEN Len(s) - offset ELSE 0
          /\ \A i \in 1..Len(Cut(s, offset, limit)) : Cut(s, offset, limit)[i] = s[offset + i]
      BY <1>2, CutIs
    <2>2. Cut(s, offset, limit) = page OBVIOUS
    <2> QED BY <1>3, <1>4, <2>1, <2>2, Zenon
  <1>6. p \in Nat /\ p >= offset + 1 /\ p <= l BY <1>1, <1>3
  <1>7. CASE p <= offset + limit
    <2>1. PICK i \in Nat : i = p - offset BY <1>6
    <2>2. i \in 1..m /\ offset + i = p BY <1>5, <1>6, <1>7, <2>1
    <2>3. page[i] = r BY <1>1, <1>5, <2>2
    <2> QED BY <1>4, <2>2, <2>3
  <1>8. CASE ~ (p <= offset + limit)
    BY <1>1, <1>4, <1>5, <1>6, <1>8
  <1> QED BY <1>7, <1>8

\* The next page of a listing.
LEMMA PageStep ==
    ASSUME IInv, ListPage
    PROVE  IInv'
  <1>1. /\ pc = "page" /\ UNCHANGED <<indexed, table, req, merged, seen>>
        /\ req.kind = "list" /\ req.limit \in Nat /\ answer = Silent
        /\ answer.hits = <<>>
    BY DEF ListPage, IInv, RequestInv, Silent
  <1>2. TableInv BY DEF IInv
  <1>3. PICK page \in Page(OfAccount(table, req.account), Len(listed), req.limit) :
            /\ listed' = listed \o page
            /\ IF Len(page) < req.limit THEN Answer("ok", <<>>) ELSE UNCHANGED <<pc, answer>>
    BY DEF ListPage
  <1>4. PICK S \in SUBSET Rows : S = OfAccount(table, req.account)
    BY <1>2 DEF TableInv, OfAccount
  <1>5. PICK s \in OrderBy(S, Recency) : page = Cut(s, Len(listed), req.limit)
    BY <1>3, <1>4 DEF Page
  <1>6. PICK offset \in Nat, limit \in Nat : offset = Len(listed) /\ limit = req.limit
    BY <1>1, <1>2 DEF TableInv
  <1>7. page \in Seq(Rows) /\ Len(page) \in Nat
    <2>1. IsFiniteSet(S) BY SearchAssumption, FS_Subset
    <2>2. PICK key : key = Recency OBVIOUS
    <2>3. s \in OrderBy(S, key) BY <1>5, <2>2
    <2>4. s \in Seq(S) BY <2>1, <2>3, OrderByIs
    <2>5. s \in Seq(Rows) BY <2>4
    <2>6. Cut(s, offset, limit) \in Seq(Rows) BY <2>5, CutIs
    <2> QED BY <1>5, <1>6, <2>6
  <1>8. listed \in Seq(Rows) BY <1>2 DEF TableInv
  <1>9. /\ listed' \in Seq(Rows) /\ Len(listed') = offset + Len(page)
        /\ \A i \in 1..offset : listed'[i] = listed[i]
        /\ \A i \in 1..Len(page) : listed'[offset + i] = page[i]
    BY <1>3, <1>6, <1>7, <1>8
  <1>10. /\ Len(page) < limit => /\ pc' = "idle" /\ answer'.status = "ok"
                                 /\ answer'.hits = <<>>
         /\ ~ (Len(page) < limit) => pc' = "page" /\ answer' = answer
    BY <1>1, <1>3, <1>6 DEF Answer
  <1>11. RequestInv' BY <1>1, <1>10 DEF IInv, RequestInv, Silent
  <1>12. TableInv' BY <1>1, <1>2, <1>9 DEF TableInv
  <1>13. PagingInv'
    <2>1. answer'.hits = <<>> BY <1>1, <1>10
    <2>2. ASSUME NEW r \in Candidates("ask"), Lone(r)
          PROVE  r \in ToSet(listed') \/ (pc' = "page" /\ Cardinality(Newer(r)') >= Len(listed'))
      <3>1. CASE r \in ToSet(listed)
        <4>1. PICK i \in 1..offset : listed[i] = r BY <1>6, <1>8, <3>1 DEF ToSet
        <4>2. listed'[i] = r /\ i \in DOMAIN listed' BY <1>7, <1>9, <4>1
        <4> QED BY <4>2 DEF ToSet
      <3>2. CASE r \notin ToSet(listed)
        <4>1. Cardinality(Newer(r)) >= offset
          BY <1>1, <1>6, <2>2, <3>2 DEF IInv, PagingInv
        <4>2. r \in S
          <5>1. seen["ask"] \subseteq table BY <1>2 DEF TableInv, Statements
          <5> QED BY <1>4, <5>1 DEF Candidates, OfAccount
        <4>3. Newer(r)' = {c \in S : Created[c] > Created[r]}
              /\ Newer(r) = {c \in S : Created[c] > Created[r]}
          BY <1>1, <1>4 DEF Newer, OfAccount
        <4>4. PICK newer : newer = Cardinality({c \in S : Created[c] > Created[r]}) OBVIOUS
        <4>5. newer >= offset BY <4>1, <4>3, <4>4
        <4>6. page = Cut(s, offset, limit) BY <1>5, <1>6
        <4>7. \/ \E i \in 1..Len(page) : page[i] = r
              \/ Len(page) = limit /\ newer >= offset + limit
          BY <2>2, <4>2, <4>4, <4>5, <4>6, PageGives
        <4>8. CASE \E i \in 1..Len(page) : page[i] = r
          <5>1. PICK i \in 1..Len(page) : page[i] = r BY <4>8
          <5>2. listed'[offset + i] = r /\ offset + i \in DOMAIN listed'
            BY <1>7, <1>9, <5>1
          <5> QED BY <5>2 DEF ToSet
        <4>9. CASE Len(page) = limit /\ newer >= offset + limit
          <5>1. pc' = "page" BY <1>10, <4>9
          <5>2. Len(listed') = offset + limit BY <1>9, <4>9
          <5> QED BY <4>3, <4>4, <4>9, <5>1, <5>2
        <4> QED BY <4>7, <4>8, <4>9
      <3> QED BY <3>1, <3>2
    <2>3. Candidates("ask")' = Candidates("ask") BY <1>1 DEF Candidates
    <2> QED BY <2>1, <2>2, <2>3 DEF PagingInv
  <1>14. SearchInv' /\ ExtractInv' BY <1>1 DEF SearchInv, ExtractInv
  <1> QED BY <1>11, <1>12, <1>13, <1>14 DEF IInv

\* A step that changes nothing.
LEMMA StutterStep ==
    ASSUME IInv, UNCHANGED vars
    PROVE  IInv'
  <1>1. UNCHANGED <<indexed, table, pc, req, merged, answer, listed, seen>> BY DEF vars
  <1>2. RequestInv' BY <1>1 DEF IInv, RequestInv, Silent
  <1>3. TableInv' BY <1>1 DEF IInv, TableInv
  <1>4. SearchInv'
    <2>1. /\ FoundAt("phash", PHash, req.phash, req.limit)'
             = FoundAt("phash", PHash, req.phash, req.limit)
          /\ FoundAt("dhash", DHash, req.dhash, req.limit)'
             = FoundAt("dhash", DHash, req.dhash, req.limit)
      BY <1>1 DEF FoundAt, Candidates
    <2>2. \A s : PhashHits(s)' = PhashHits(s) BY <1>1 DEF PhashHits
    <2> QED BY <1>1, <2>1, <2>2 DEF IInv, SearchInv
  <1>5. ExtractInv' BY <1>1 DEF IInv, ExtractInv, FoundAt, Candidates, Exact, LedgerMatch
  <1>6. PagingInv' BY <1>1 DEF IInv, PagingInv, Candidates, Newer, OfAccount
  <1> QED BY <1>2, <1>3, <1>4, <1>5, <1>6 DEF IInv

\* The invariant holds of every reachable state.
THEOREM SearchInvariance == Spec => []IInv
  <1>1. Init => IInv BY Starts
  <1>2. IInv /\ [Next]_vars => IInv'
    <2> SUFFICES ASSUME IInv, [Next]_vars PROVE IInv' OBVIOUS
    <2>1. ASSUME NEW r \in Rows, Register(r) PROVE IInv' BY <2>1, RegisterStep
    <2>2. ASSUME NEW a \in Accounts \cup {NoAccount},
                 NEW p \in Hashes \cup {NoHash, NotHex}, NEW d \in Hashes \cup {NoHash, NotHex},
                 NEW l \in Limits, NEW m \in Distances, AskSearch(p, d, a, l, m)
          PROVE  IInv'
      BY <2>2, AskSearchStep DEF SearchHashes
    <2>3. ASSUME NEW a \in Accounts \cup {NoAccount}, NEW s \in Suspects, AskExtract(s, a)
          PROVE  IInv'
      BY <2>3, AskExtractStep
    <2>4. ASSUME NEW a \in Accounts \cup {NoAccount}, NEW l \in PageSizes, AskList(a, l)
          PROVE  IInv'
      BY <2>4, AskListStep
    <2>5. CASE SearchRaises BY <2>5, RaisesStep
    <2>6. CASE SearchPhash BY <2>6, PhashStep
    <2>7. CASE SearchDhash BY <2>7, DhashStep
    <2>8. CASE PayloadLookup BY <2>8, PayloadStep
    <2>9. CASE FuzzyLookup BY <2>9, FuzzyStep
    <2>10. CASE ListPage BY <2>10, PageStep
    <2>11. CASE UNCHANGED vars BY <2>11, StutterStep
    <2> QED
      BY <2>1, <2>2, <2>3, <2>4, <2>5, <2>6, <2>7, <2>8, <2>9, <2>10, <2>11 DEF Next
  <1> QED BY <1>1, <1>2, PTL DEF Spec

-----------------------------------------------------------------------------
(* What the invariant says of an answer *)

\* A search found s by pHash and t by dHash; the answer is cut from hits, which
\* it joined from both.
AnswerMadeOf(s, t, hits) ==
    /\ Stubbed(req.phash, Candidates("phash"), req.limit, s, PhashHits(s))
    /\ IsHex(req.phash) =>
          NearestOf(Candidates("phash"), Nearness(PHash, req.phash), req.limit, s)
    /\ ~ IsHex(req.phash) => s = <<>>
    /\ t \in Seq(Candidates("dhash"))
    /\ IsHex(req.dhash) =>
          NearestOf(Candidates("dhash"), Nearness(DHash, req.dhash), req.limit, t)
    /\ ~ IsHex(req.dhash) => t = <<>>
    /\ \A k \in 1..Len(t) : Nearness(DHash, req.dhash)[t[k]] = HexHamming(DHash[t[k]], req.dhash)
    /\ Joined(PhashHits(s), t, Nearness(DHash, req.dhash), Len(t), hits)
    /\ answer.hits = Cut(hits, 0, req.limit)

\* Every answer to a search is made so.
LEMMA AnswerOfSearch ==
    ASSUME IInv, Searched
    PROVE  \E s, t, hits : AnswerMadeOf(s, t, hits)
  <1>1. /\ req.kind = "search" /\ req.phash \in SearchHashes /\ req.dhash \in SearchHashes
        /\ req.limit \in Nat /\ TableInv
    BY DEF IInv, RequestInv, Searched
  <1>2. PICK s \in FoundAt("phash", PHash, req.phash, req.limit),
             t \in FoundAt("dhash", DHash, req.dhash, req.limit) :
            answer.hits = Cut(Merge(PhashHits(s), t, Nearness(DHash, req.dhash)), 0, req.limit)
    BY <1>1 DEF IInv, SearchInv, Searched
  <1>3. PICK p \in SearchHashes, d \in SearchHashes, limit \in Nat :
            p = req.phash /\ d = req.dhash /\ limit = req.limit
    BY <1>1
  <1>4. PICK P \in SUBSET Rows, D \in SUBSET Rows :
            P = Candidates("phash") /\ D = Candidates("dhash")
    BY <1>1, CandidatesAreRows DEF Statements
  <1>5. s \in IF IsHex(p) THEN SearchFallback(PHash, p, P, limit) ELSE {<<>>}
    BY <1>3, <1>4 DEF FoundAt
  <1>6. t \in IF IsHex(d) THEN SearchFallback(DHash, d, D, limit) ELSE {<<>>}
    BY <1>3, <1>4 DEF FoundAt
  <1>7. PICK first : first = HitsFor(p, s) OBVIOUS
  <1>8. first = PhashHits(s) BY <1>3, <1>7 DEF PhashHits
  <1>9. PICK near : near = Nearness(DHash, d) OBVIOUS
  <1>10. /\ first \in Seq(HitType) /\ Len(first) = Len(s)
         /\ \A i \in 1..Len(s) : first[i].dhash = 0
         /\ \A i, j \in 1..Len(s) : i # j => first[i].row # first[j].row
    <2>1. Stubbed(p, P, limit, s, first) BY <1>5, <1>7, PhashHitsAre
    <2> QED BY <2>1 DEF Stubbed
  <1>11. t \in Seq(Rows) /\ \A i, j \in 1..Len(t) : i # j => t[i] # t[j]
    BY <1>6, StatementFinds
  <1>12. \A k \in 1..Len(t) : near[t[k]] \in Nat BY <1>6, <1>9, FoundDistances
  <1>13. /\ \A i \in 1..Len(first) : first[i].dhash = 0
         /\ \A i, j \in 1..Len(first) : i # j => first[i].row # first[j].row
    BY <1>10, Zenon
  <1>14. first \in Seq(HitType) BY <1>10
  <1>15. PICK hits : hits = Merge(first, t, near) OBVIOUS
  <1>16. Joined(first, t, near, Len(t), hits) BY <1>11, <1>12, <1>13, <1>14, <1>15, MergeIs
  <1>17. answer.hits = Cut(hits, 0, req.limit) BY <1>2, <1>3, <1>8, <1>9, <1>15
  <1>18. Joined(PhashHits(s), t, Nearness(DHash, req.dhash), Len(t), hits)
    BY <1>3, <1>8, <1>9, <1>16
  <1>19. /\ Stubbed(p, P, limit, s, first)
         /\ IsHex(p) => NearestOf(P, Nearness(PHash, p), limit, s)
         /\ ~ IsHex(p) => s = <<>>
    BY <1>5, <1>7, PhashHitsAre, StatementFinds
  <1>20. /\ t \in Seq(D)
         /\ IsHex(d) => NearestOf(D, Nearness(DHash, d), limit, t)
         /\ ~ IsHex(d) => t = <<>>
    BY <1>6, StatementFinds
  <1>21. \A k \in 1..Len(t) : near[t[k]] = HexHamming(DHash[t[k]], d)
    BY <1>6, <1>9, FoundDistances
  <1>22. AnswerMadeOf(s, t, hits)
    BY <1>3, <1>4, <1>8, <1>9, <1>17, <1>18, <1>19, <1>20, <1>21 DEF AnswerMadeOf
  <1> QED BY <1>22

\* The matches of a lookup, newest first, and the one that is chosen.
LEMMA ChooseIs ==
    ASSUME NEW S \in SUBSET Rows, NEW matches \in OrderBy(S, Recency), matches # <<>>,
           NEW account, NEW r, r = Choose(matches, account),
           NEW own, own = {m \in S : Account[m] = account},
           NEW best, best = IF own # {} THEN own ELSE S
    PROVE  r \in best /\ r \in Rows /\ S # {} /\ \A m \in best : Created[m] <= Created[r]
  <1>1. IsFiniteSet(S) BY SearchAssumption, FS_Subset
  <1>2. \A c \in Rows : Created[c] \in Nat /\ Recency[c] = -Created[c]
    BY SearchAssumption DEF Recency
  <1>3. /\ matches \in Seq(S) /\ Len(matches) \in Nat
        /\ \A i, j \in 1..Len(matches) : i < j => Recency[matches[i]] <= Recency[matches[j]]
        /\ \A c \in S : \E i \in 1..Len(matches) : matches[i] = c
    <2>1. PICK key : key = Recency OBVIOUS
    <2>2. matches \in OrderBy(S, key) BY <2>1
    <2>3. /\ matches \in Seq(S) /\ Len(matches) \in Nat
          /\ \A i, j \in 1..Len(matches) : i < j => key[matches[i]] <= key[matches[j]]
          /\ \A c \in S : \E i \in 1..Len(matches) : matches[i] = c
      BY <1>1, <2>2, OrderByIs
    <2> QED BY <2>1, <2>3
  <1>4. \A i \in 1..Len(matches) : matches[i] \in S /\ matches[i] \in Rows BY <1>3
  <1>5. 1 \in 1..Len(matches) BY <1>3
  \* A member that is first among those of a set it belongs to is its newest.
  <1>6. ASSUME NEW T \in SUBSET S, NEW i \in 1..Len(matches),
               \A j \in 1..Len(matches) : matches[j] \in T => i <= j
        PROVE  \A m \in T : Created[m] <= Created[matches[i]]
    <2> SUFFICES ASSUME NEW m \in T PROVE Created[m] <= Created[matches[i]] OBVIOUS
    <2>1. m \in S /\ m \in Rows OBVIOUS
    <2>2. PICK j \in 1..Len(matches) : matches[j] = m BY <1>3, <2>1
    <2>3. i <= j BY <1>6, <2>2
    <2>4. matches[i] \in Rows BY <1>4
    <2>5. i = j \/ i < j BY <2>3
    <2>6. CASE i = j BY <1>2, <2>1, <2>2, <2>6
    <2>7. CASE i < j
      <3>1. Recency[matches[i]] <= Recency[m] BY <1>3, <2>2, <2>7
      <3> QED BY <1>2, <2>1, <2>4, <3>1
    <2> QED BY <2>5, <2>6, <2>7
  <1> DEFINE I == {i \in DOMAIN matches : Account[matches[i]] = account}
  <1>7. I = {i \in 1..Len(matches) : Account[matches[i]] = account} BY <1>3
  <1>8. r = IF I # {} THEN matches[Min(I)] ELSE matches[1] BY DEF Choose
  <1> HIDE DEF I
  <1>9. CASE I # {}
    <2>1. I \in SUBSET Nat BY <1>7
    <2>2. PICK i : i = Min(I) OBVIOUS
    <2>3. i \in I /\ \A j \in I : i <= j
      <3>1. \E m \in I : \A k \in I : m <= k BY <1>9, <2>1, LeastElement
      <3> QED BY <2>2, <3>1 DEF Min
    <2>4. i \in 1..Len(matches) /\ r = matches[i] /\ Account[r] = account
      BY <1>7, <1>8, <1>9, <2>2, <2>3
    <2>5. r \in own /\ best = own BY <1>4, <2>4
    <2>6. \A j \in 1..Len(matches) : matches[j] \in own => i <= j
      <3>1. \A j \in 1..Len(matches) : matches[j] \in own => j \in I BY <1>7
      <3> QED BY <2>3, <3>1
    <2>7. own \in SUBSET S OBVIOUS
    <2>8. \A m \in own : Created[m] <= Created[matches[i]] BY <1>6, <2>4, <2>6, <2>7
    <2> QED BY <2>4, <2>5, <2>8
  <1>10. CASE I = {}
    <2>1. r = matches[1] /\ r \in S BY <1>4, <1>5, <1>8, <1>10
    <2>2. own = {}
      <3>1. ASSUME NEW m \in own PROVE FALSE
        <4>1. PICK i \in 1..Len(matches) : matches[i] = m BY <1>3
        <4>2. i \in I BY <1>7, <4>1
        <4> QED BY <1>10, <4>2
      <3> QED BY <3>1
    <2>3. best = S BY <2>2
    <2>4. \A j \in 1..Len(matches) : matches[j] \in S => 1 <= j BY <1>3
    <2>5. S \in SUBSET S OBVIOUS
    <2>6. \A m \in S : Created[m] <= Created[matches[1]] BY <1>5, <1>6, <2>4, <2>5
    <2> QED BY <2>1, <2>3, <2>6
  <1> QED BY <1>9, <1>10

\* a is the front of hits, as long as the limit allows, and lists no row twice.
CutWell(hits, limit, a) ==
    /\ a \in Seq(HitType) /\ Len(a) \in Nat
    /\ Len(a) = IF limit < Len(hits) THEN limit ELSE Len(hits)
    /\ \A i \in 1..Len(a) : i \in 1..Len(hits) /\ a[i] = hits[i]
    /\ \A i, j \in 1..Len(a) : i # j => a[i].row # a[j].row

\* What is cut from hits whose rows differ.
LEMMA AnswerCut ==
    ASSUME NEW first, NEW second, NEW near, NEW n, NEW hits, Joined(first, second, near, n, hits),
           NEW limit \in Nat, NEW a, a = Cut(hits, 0, limit)
    PROVE  CutWell(hits, limit, a)
  <1>1. hits \in Seq(HitType) /\ \A i, j \in 1..Len(hits) : i # j => hits[i].row # hits[j].row
    BY DEF Joined
  <1>2. /\ Cut(hits, 0, limit) \in Seq(HitType)
        /\ Len(Cut(hits, 0, limit)) = IF limit < Len(hits) THEN limit ELSE Len(hits)
        /\ \A i \in 1..Len(Cut(hits, 0, limit)) :
              i \in 1..Len(hits) /\ Cut(hits, 0, limit)[i] = hits[i]
    BY <1>1, CutFront
  <1>3. /\ a \in Seq(HitType) /\ Len(a) = IF limit < Len(hits) THEN limit ELSE Len(hits)
        /\ \A i \in 1..Len(a) : i \in 1..Len(hits) /\ a[i] = hits[i]
    BY <1>2, Zenon
  <1>4. Len(a) \in Nat BY <1>3
  <1>5. \A i, j \in 1..Len(a) : i # j => a[i].row # a[j].row BY <1>1, <1>3
  <1> QED BY <1>3, <1>4, <1>5 DEF CutWell

\* There are hits only in the answer to a search and in the match of an extraction.
LEMMA HitsComeFrom ==
    ASSUME IInv
    PROVE  \/ Searched
           \/ req.kind = "extract" /\ answer.status = "match"
           \/ answer.hits = <<>>
  BY DEF IInv, RequestInv, ExtractInv, PagingInv, Searched, Silent

\* The match of an extraction is one row: the one chosen among those with the
\* payload, or, when no row has it, one as near as any by pHash.
LEMMA MatchOfExtract ==
    ASSUME IInv, req.kind = "extract", answer.status = "match"
    PROVE  \E r \in Rows :
              /\ answer.hits = <<LedgerMatch(r)>>
              /\ \/ Exact # {} /\ \E matches \in OrderBy(Exact, Recency) :
                                     matches # <<>> /\ r = Choose(matches, req.account)
                 \/ /\ Exact = {} /\ r \in Candidates("fuzzy")
                    /\ \A c \in Candidates("fuzzy") :
                          HexHamming(PHash[r], req.phash) <= HexHamming(PHash[c], req.phash)
  <1>1. \/ \E matches \in OrderBy(Exact, Recency) :
              matches # <<>> /\ answer.hits = <<LedgerMatch(Choose(matches, req.account))>>
        \/ Exact = {} /\ \E s \in FoundAt("fuzzy", PHash, req.phash, FuzzyLimit) :
                            s # <<>> /\ answer.hits = <<LedgerMatch(s[1])>>
    BY DEF IInv, ExtractInv
  <1>2. TableInv BY DEF IInv
  <1>3. CASE \E matches \in OrderBy(Exact, Recency) :
                matches # <<>> /\ answer.hits = <<LedgerMatch(Choose(matches, req.account))>>
    <2>1. PICK matches \in OrderBy(Exact, Recency) :
              matches # <<>> /\ answer.hits = <<LedgerMatch(Choose(matches, req.account))>>
      BY <1>3
    <2>2. PICK S \in SUBSET Rows : S = Exact
      BY <1>2 DEF TableInv, Exact, Statements
    <2>3. PICK account : account = req.account OBVIOUS
    <2>4. PICK r : r = Choose(matches, account) OBVIOUS
    <2>5. matches \in OrderBy(S, Recency) BY <2>1, <2>2
    <2>6. PICK own, best : own = {m \in S : Account[m] = account}
                           /\ best = IF own # {} THEN own ELSE S
      OBVIOUS
    <2>7. r \in best /\ r \in Rows /\ S # {} /\ \A m \in best : Created[m] <= Created[r]
      BY <2>1, <2>4, <2>5, <2>6, ChooseIs
    <2> QED BY <2>1, <2>2, <2>3, <2>4, <2>7
  <1>4. CASE Exact = {} /\ \E s \in FoundAt("fuzzy", PHash, req.phash, FuzzyLimit) :
                              s # <<>> /\ answer.hits = <<LedgerMatch(s[1])>>
    <2>1. PICK s \in FoundAt("fuzzy", PHash, req.phash, FuzzyLimit) :
              s # <<>> /\ answer.hits = <<LedgerMatch(s[1])>>
      BY <1>4
    <2>2. PICK hash \in {q.phash : q \in Suspects} : hash = req.phash
      BY DEF IInv, RequestInv
    <2>3. PICK S \in SUBSET Rows : S = Candidates("fuzzy")
      BY <1>2, CandidatesAreRows DEF Statements
    <2>4. FuzzyLimit \in Nat BY SearchAssumption
    <2>5. s \in SearchFallback(PHash, hash, S, FuzzyLimit)
      <3>1. s # <<>> /\ s \in FoundAt("fuzzy", PHash, req.phash, FuzzyLimit) BY <2>1
      <3> QED BY <2>2, <2>3, <3>1 DEF FoundAt
    <2>6. PICK near : near = Nearness(PHash, hash) OBVIOUS
    <2>7. NearestOf(S, near, FuzzyLimit, s)
      <3>1. hash \in Hashes \cup {q.phash : q \in Suspects} \cup {q.dhash : q \in Suspects}
        OBVIOUS
      <3> QED BY <2>4, <2>5, <2>6, <3>1, FallbackIs
    <2>8. \A r \in Rows : near[r] = HexHamming(PHash[r], hash) /\ near[r] \in Nat
      <3>1. hash \in Hashes \cup {q.phash : q \in Suspects} \cup {q.dhash : q \in Suspects}
        OBVIOUS
      <3> QED BY <2>6, <3>1, NearnessType
    <2>9. 1 \in 1..Len(s) /\ s[1] \in S BY <2>1, <2>7 DEF NearestOf
    <2>10. PICK r \in S : r = s[1] BY <2>9
    <2>11. \A c \in S : near[r] <= near[c]
      <3> DEFINE nearer == {c \in S : near[c] < near[r]}
      <3>1. Cardinality(nearer) < 1 BY <2>7, <2>9, <2>10 DEF NearestOf
      <3>2. IsFiniteSet(nearer) BY SearchAssumption, FS_Subset
      <3> HIDE DEF nearer
      <3>3. Cardinality(nearer) \in Nat BY <3>2, FS_CardinalityType
      <3>4. Cardinality(nearer) = 0 BY <3>1, <3>3
      <3>5. nearer = {} BY <3>2, <3>4, FS_EmptySet
      <3>6. \A c \in S : ~(near[c] < near[r]) BY <3>5 DEF nearer
      <3>7. \A c \in S : near[c] \in Nat BY <2>8
      <3>8. near[r] \in Nat BY <3>7
      <3> QED BY <3>6, <3>7, <3>8
    <2>12. \A c \in S : HexHamming(PHash[r], hash) <= HexHamming(PHash[c], hash)
      <3>1. \A c \in S : near[c] = HexHamming(PHash[c], hash) BY <2>8
      <3> QED BY <2>11, <3>1
    <2> QED BY <1>4, <2>1, <2>2, <2>3, <2>10, <2>12
  <1> QED BY <1>1, <1>3, <1>4

-----------------------------------------------------------------------------
(* The properties *)

\* Every reachable state has its type: the hits are of registered rows, and
\* their distances, also those of hashes of different lengths, are numbers.
LEMMA TypeFollows == IInv => TypeOK
  <1> SUFFICES ASSUME IInv PROVE TypeOK OBVIOUS
  <1>1. TableInv /\ RequestInv BY DEF IInv
  <1>2. \A h \in ToSet(answer.hits) : h.row \in Rows /\ h.phash \in Nat /\ h.dhash \in Nat
    <2>1. CASE Searched
      <3>1. PICK s, t, hits : AnswerMadeOf(s, t, hits) BY <2>1, AnswerOfSearch
      <3>2. PICK first, near, n : /\ Joined(first, t, near, n, hits)
                                  /\ answer.hits = Cut(hits, 0, req.limit)
        BY <3>1 DEF AnswerMadeOf
      <3>3. PICK limit \in Nat : limit = req.limit BY <1>1, <2>1 DEF RequestInv, Searched
      <3>4. PICK a : a = answer.hits /\ a = Cut(hits, 0, limit) BY <3>2, <3>3
      <3>5. CutWell(hits, limit, a) BY <3>2, <3>4, AnswerCut
      <3>6. a \in Seq(HitType) BY <3>5 DEF CutWell
      <3> QED BY <3>4, <3>6, HitsOfSequence
    <2>2. CASE req.kind = "extract" /\ answer.status = "match"
      <3>1. PICK r \in Rows : answer.hits = <<LedgerMatch(r)>> BY <2>2, MatchOfExtract
      <3>2. PICK q \in Suspects : req.phash = q.phash /\ req.dhash = q.dhash
        BY <1>1, <2>2 DEF RequestInv
      <3>3. HexHamming(q.phash, PHash[r]) \in Nat /\ HexHamming(q.dhash, DHash[r]) \in Nat
        <4>1. /\ q.phash.width \in Nat /\ q.phash.bits \subseteq 1..4 * q.phash.width
              /\ q.dhash.width \in Nat /\ q.dhash.bits \subseteq 1..4 * q.dhash.width
              /\ PHash[r].width \in Nat /\ PHash[r].bits \subseteq 1..4 * PHash[r].width
              /\ DHash[r].width \in Nat /\ DHash[r].bits \subseteq 1..4 * DHash[r].width
          BY SearchAssumption
        <4> QED BY <4>1, DistanceIsNat
      <3>4. LedgerMatch(r).row \in Rows /\ LedgerMatch(r).phash \in Nat
            /\ LedgerMatch(r).dhash \in Nat
        BY <3>2, <3>3 DEF LedgerMatch, Hit
      <3>5. ToSet(answer.hits) = {LedgerMatch(r)}
        <4>1. PICK h : h = LedgerMatch(r) OBVIOUS
        <4>2. ToSet(<<h>>) = {h} BY DEF ToSet
        <4> QED BY <3>1, <4>1, <4>2
      <3> QED BY <3>4, <3>5
    <2>3. CASE answer.hits = <<>>
      <3>1. ToSet(answer.hits) = {} BY <2>3 DEF ToSet
      <3> QED BY <3>1
    <2> QED BY <2>1, <2>2, <2>3, HitsComeFrom
  <1>3. \A h \in ToSet(merged) \cup ToSet(answer.hits) :
            h.row \in Rows /\ h.phash \in Nat /\ h.dhash \in Nat
    BY <1>1, <1>2 DEF TableInv
  <1> QED BY <1>1, <1>3 DEF TypeOK, TableInv, RequestInv

\* No row is listed twice.
LEMMA NoDuplicatesFollow == IInv => NoDuplicateHits
  <1> SUFFICES ASSUME IInv PROVE NoDuplicateHits OBVIOUS
  <1>1. CASE Searched
    <2>1. PICK s, t, hits : AnswerMadeOf(s, t, hits) BY <1>1, AnswerOfSearch
    <2>2. PICK first, near, n : /\ Joined(first, t, near, n, hits)
                                /\ answer.hits = Cut(hits, 0, req.limit)
      BY <2>1 DEF AnswerMadeOf
    <2>3. PICK limit \in Nat : limit = req.limit BY <1>1 DEF IInv, RequestInv, Searched
    <2>4. PICK a : a = answer.hits /\ a = Cut(hits, 0, limit) BY <2>2, <2>3
    <2>5. CutWell(hits, limit, a) BY <2>2, <2>4, AnswerCut
    <2>6. DOMAIN a = 1..Len(a) BY <2>5 DEF CutWell
    <2> QED BY <2>4, <2>5, <2>6 DEF NoDuplicateHits, CutWell
  <1>2. CASE req.kind = "extract" /\ answer.status = "match"
    <2>1. PICK r \in Rows : answer.hits = <<LedgerMatch(r)>> BY <1>2, MatchOfExtract
    <2>2. \A i, j \in DOMAIN answer.hits : i = j
      <3>1. PICK h : h = LedgerMatch(r) OBVIOUS
      <3>2. DOMAIN answer.hits = {1} BY <2>1, <3>1
      <3> QED BY <3>2
    <2> QED BY <2>2 DEF NoDuplicateHits
  <1>3. CASE answer.hits = <<>> BY <1>3 DEF NoDuplicateHits
  <1> QED BY <1>1, <1>2, <1>3, HitsComeFrom

\* The exact match wins over the one that merely looks alike.
LEMMA ExactFollows == IInv => ExactMatchWins
  <1> SUFFICES ASSUME IInv, req.kind = "extract", answer.status = "match"
               PROVE  ExactMatchWins
    BY DEF ExactMatchWins
  <1>1. PICK r \in Rows :
            /\ answer.hits = <<LedgerMatch(r)>>
            /\ \/ Exact # {} /\ \E matches \in OrderBy(Exact, Recency) :
                                   matches # <<>> /\ r = Choose(matches, req.account)
               \/ /\ Exact = {} /\ r \in Candidates("fuzzy")
                  /\ \A c \in Candidates("fuzzy") :
                        HexHamming(PHash[r], req.phash) <= HexHamming(PHash[c], req.phash)
    BY MatchOfExtract
  <1>2. answer.hits[1].row = r BY <1>1 DEF LedgerMatch, Hit
  <1>3. CASE Exact # {}
    <2>1. PICK matches \in OrderBy(Exact, Recency) :
              matches # <<>> /\ r = Choose(matches, req.account)
      BY <1>1, <1>3
    <2>2. PICK S \in SUBSET Rows : S = Exact BY DEF IInv, TableInv, Exact, Statements
    <2>3. PICK account : account = req.account OBVIOUS
    <2>4. PICK own, best : own = {m \in S : Account[m] = account}
                           /\ best = IF own # {} THEN own ELSE S
      OBVIOUS
    <2>5. matches \in OrderBy(S, Recency) /\ r = Choose(matches, account) BY <2>1, <2>2, <2>3
    <2>6. r \in best /\ \A m \in best : Created[m] <= Created[r]
      BY <2>1, <2>4, <2>5, ChooseIs
    <2> QED BY <1>2, <1>3, <2>2, <2>3, <2>4, <2>6 DEF ExactMatchWins, Exact
  <1>4. CASE Exact = {}
    BY <1>1, <1>2, <1>4 DEF ExactMatchWins, Exact
  <1> QED BY <1>3, <1>4

\* A listing misses no row that shares its created_at with no other.
LEMMA PagingFollows == IInv => PagingMissesNothing
  <1> SUFFICES ASSUME IInv, req.kind = "list", answer.status = "ok",
                      NEW r \in Candidates("ask")
               PROVE  \/ r \in ToSet(listed)
                      \/ \E other \in Rows \ {r} : Created[other] = Created[r]
    BY DEF PagingMissesNothing
  <1>1. pc # "page" BY DEF IInv, RequestInv, Silent
  <1>2. Lone(r) => r \in ToSet(listed) BY <1>1 DEF IInv, PagingInv
  <1> QED BY <1>2 DEF Lone

\* The first size hits are rows of S, nearest first.
LedBy(S, key, limit, size, a) ==
    /\ Len(a) \in size..limit
    /\ \A i \in 1..size : /\ a[i].row \in S
                          /\ Cardinality({c \in S : key[c] < key[a[i].row]}) < i

\* So is an answer that begins with the rows a search has found.
LEMMA Leads ==
    ASSUME NEW S, NEW key, NEW limit \in Nat, NEW s, NearestOf(S, key, limit, s),
           NEW hits, Len(hits) \in Nat, Len(hits) >= Len(s),
           \A i \in 1..Len(s) : hits[i].row = s[i],
           NEW a, Len(a) = IF limit < Len(hits) THEN limit ELSE Len(hits),
           \A i \in 1..Len(a) : a[i] = hits[i],
           NEW size, size = IF limit < Cardinality(S) THEN limit ELSE Cardinality(S)
    PROVE  LedBy(S, key, limit, size, a)
  <1>1. Len(s) = size /\ Len(s) \in Nat /\ Len(s) <= limit BY DEF NearestOf
  <1>2. Len(a) \in size..limit BY <1>1
  <1>3. ASSUME NEW i \in 1..size
        PROVE  a[i].row \in S /\ Cardinality({c \in S : key[c] < key[a[i].row]}) < i
    <2>1. i \in 1..Len(s) /\ i \in 1..Len(a) BY <1>1, <1>2
    <2>2. a[i].row = s[i] BY <2>1
    <2>3. s[i] \in S /\ Cardinality({c \in S : key[c] < key[s[i]]}) < i
      BY <2>1 DEF NearestOf
    <2> QED BY <2>2, <2>3
  <1> QED BY <1>2, <1>3 DEF LedBy

\* The answer to a search begins with the rows its leading statement found.
LEMMA NearestFollows == IInv => NearestFirst
  <1> SUFFICES ASSUME IInv, Searched, IsHex(req.phash) \/ IsHex(req.dhash)
               PROVE  NearestFirst
    BY DEF NearestFirst
  <1>1. PICK s, t, hits : AnswerMadeOf(s, t, hits) BY AnswerOfSearch
  <1>2. TableInv BY DEF IInv
  <1>3. PICK p \in SearchHashes, d \in SearchHashes, limit \in Nat :
            p = req.phash /\ d = req.dhash /\ limit = req.limit
    BY DEF IInv, RequestInv, Searched
  <1>4. PICK P \in SUBSET Rows, D \in SUBSET Rows :
            P = Candidates("phash") /\ D = Candidates("dhash")
    BY <1>2, CandidatesAreRows DEF Statements
  <1>5. PICK first, near : first = PhashHits(s) /\ near = Nearness(DHash, d) OBVIOUS
  <1>6. Joined(first, t, near, Len(t), hits) BY <1>1, <1>3, <1>5 DEF AnswerMadeOf
  <1>7. PICK a : a = answer.hits /\ a = Cut(hits, 0, limit) BY <1>1, <1>3 DEF AnswerMadeOf
  <1>8. /\ Len(a) = IF limit < Len(hits) THEN limit ELSE Len(hits)
        /\ \A i \in 1..Len(a) : a[i] = hits[i]
    <2>1. CutWell(hits, limit, a) BY <1>6, <1>7, AnswerCut
    <2> QED BY <2>1 DEF CutWell
  <1>9. Stubbed(p, P, limit, s, first) BY <1>1, <1>3, <1>4, <1>5 DEF AnswerMadeOf
  <1>10. Len(hits) \in Nat /\ Len(hits) >= Len(first) BY <1>6 DEF Joined
  <1>11. CASE IsHex(p)
    <2>1. PICK key : key = Nearness(PHash, p) OBVIOUS
    <2>2. NearestOf(P, key, limit, s) BY <1>1, <1>3, <1>4, <1>11, <2>1 DEF AnswerMadeOf
    <2>3. PICK size : size = IF limit < Cardinality(P) THEN limit ELSE Cardinality(P) OBVIOUS
    <2>4. Len(first) = Len(s) /\ \A i \in 1..Len(s) : first[i].row = s[i] BY <1>9 DEF Stubbed
    <2>5. \A i \in 1..Len(first) : hits[i].row = first[i].row BY <1>6 DEF Joined
    <2>6. Len(hits) >= Len(s) /\ \A i \in 1..Len(s) : hits[i].row = s[i]
      BY <1>10, <2>4, <2>5, Zenon
    <2>7. /\ Len(a) \in size..limit
          /\ \A i \in 1..size : /\ a[i].row \in P
                                /\ Cardinality({c \in P : key[c] < key[a[i].row]}) < i
      <3>1. LedBy(P, key, limit, size, a)
        BY <1>8, <1>10, <2>2, <2>3, <2>6, Leads
      <3> QED BY <3>1 DEF LedBy
    <2>8. \A c \in P : key[c] = Near(c) BY <1>3, <1>11, <2>1 DEF Nearness, Near, Leading
    <2>9. \A i \in 1..size : {c \in P : key[c] < key[a[i].row]}
                             = {c \in P : Near(c) < Near(a[i].row)}
      BY <2>7, <2>8
    <2>10. Leading = "phash" BY <1>3, <1>11 DEF Leading
    <2>11. \A i \in 1..size : /\ a[i].row \in P
                              /\ Cardinality({c \in P : Near(c) < Near(a[i].row)}) < i
      BY <2>7, <2>9
    <2> HIDE DEF Near
    <2> QED BY <1>3, <1>4, <1>7, <2>3, <2>7, <2>10, <2>11 DEF NearestFirst
  <1>12. CASE ~ IsHex(p)
    <2>1. PICK key : key = Nearness(DHash, d) OBVIOUS
    <2>2. NearestOf(D, key, limit, t) BY <1>1, <1>3, <1>4, <1>12, <2>1 DEF AnswerMadeOf
    <2>3. PICK size : size = IF limit < Cardinality(D) THEN limit ELSE Cardinality(D) OBVIOUS
    <2>4. Len(first) = 0
      <3>1. s = <<>> BY <1>1, <1>3, <1>12 DEF AnswerMadeOf
      <3> QED BY <1>9, <3>1 DEF Stubbed
    <2>5. Len(hits) = Len(t) /\ \A i \in 1..Len(t) : hits[i].row = t[i]
      BY <1>6, <2>4 DEF Joined
    <2>6. Len(hits) >= Len(t) BY <1>10, <2>5
    <2>7. /\ Len(a) \in size..limit
          /\ \A i \in 1..size : /\ a[i].row \in D
                                /\ Cardinality({c \in D : key[c] < key[a[i].row]}) < i
      <3>1. LedBy(D, key, limit, size, a)
        BY <1>8, <1>10, <2>2, <2>3, <2>5, <2>6, Leads
      <3> QED BY <3>1 DEF LedBy
    <2>8. \A c \in D : key[c] = Near(c) BY <1>3, <1>12, <2>1 DEF Nearness, Near, Leading
    <2>9. \A i \in 1..size : {c \in D : key[c] < key[a[i].row]}
                             = {c \in D : Near(c) < Near(a[i].row)}
      BY <2>7, <2>8
    <2>10. Leading = "dhash" BY <1>3, <1>12 DEF Leading
    <2>11. \A i \in 1..size : /\ a[i].row \in D
                              /\ Cardinality({c \in D : Near(c) < Near(a[i].row)}) < i
      BY <2>7, <2>9
    <2> HIDE DEF Near
    <2> QED BY <1>3, <1>4, <1>7, <2>3, <2>7, <2>10, <2>11 DEF NearestFirst
  <1> QED BY <1>11, <1>12

\* The distances of a hit are those of its row; a statement that did not find the
\* row, because it came later or lay beyond the limit, leaves the stub.
LEMMA DistancesFollow == IInv => DistancesBelongToRow
  <1> SUFFICES ASSUME IInv, Searched, NEW h \in ToSet(answer.hits)
               PROVE  LET p == IF IsHex(req.phash) THEN HexHamming(PHash[h.row], req.phash) ELSE 0
                          d == IF IsHex(req.dhash) THEN HexHamming(DHash[h.row], req.dhash) ELSE 0
                          whole(statement) == h.row \in seen[statement]
                                              /\ Cardinality(Candidates(statement)) <= req.limit
                      IN  /\ h.phash \in {0, p} /\ (whole("phash") => h.phash = p)
                          /\ h.dhash \in {0, d} /\ (whole("dhash") => h.dhash = d)
    BY DEF DistancesBelongToRow
  <1>1. PICK s, t, hits : AnswerMadeOf(s, t, hits) BY AnswerOfSearch
  <1>2. TableInv BY DEF IInv
  <1>3. PICK p \in SearchHashes, d \in SearchHashes, limit \in Nat :
            p = req.phash /\ d = req.dhash /\ limit = req.limit
    BY DEF IInv, RequestInv, Searched
  <1>4. PICK P \in SUBSET Rows, D \in SUBSET Rows :
            P = Candidates("phash") /\ D = Candidates("dhash")
    BY <1>2, CandidatesAreRows DEF Statements
  <1>5. PICK first, near : first = PhashHits(s) /\ near = Nearness(DHash, d) OBVIOUS
  <1>6. Joined(first, t, near, Len(t), hits) BY <1>1, <1>3, <1>5 DEF AnswerMadeOf
  <1>7. PICK a : a = answer.hits /\ a = Cut(hits, 0, limit) BY <1>1, <1>3 DEF AnswerMadeOf
  <1>8. PICK i \in 1..Len(hits) : h = hits[i]
    <2>1. CutWell(hits, limit, a) BY <1>6, <1>7, AnswerCut
    <2>2. PICK k \in 1..Len(a) : h = a[k] BY <1>7, <2>1 DEF ToSet, CutWell
    <2> QED BY <2>1, <2>2 DEF CutWell
  <1>9. Stubbed(p, P, limit, s, first) BY <1>1, <1>3, <1>4, <1>5 DEF AnswerMadeOf
  <1>10. Len(first) = Len(s) /\ Len(s) \in Nat BY <1>9 DEF Stubbed
  <1>11. \A j \in 1..Len(s) : /\ s[j] \in P /\ first[j].row = s[j] /\ first[j].dhash = 0
                              /\ first[j].phash = HexHamming(PHash[s[j]], p)
    BY <1>9 DEF Stubbed
  <1>12. t \in Seq(D) BY <1>1, <1>4 DEF AnswerMadeOf
  <1>13. \A j \in 1..Len(s) : j \in 1..Len(hits) /\ hits[j].row = s[j]
                              /\ hits[j].phash = HexHamming(PHash[s[j]], p)
    <2>1. \A j \in 1..Len(first) : hits[j].row = first[j].row /\ hits[j].phash = first[j].phash
      BY <1>6 DEF Joined
    <2>2. Len(hits) >= Len(first) /\ Len(hits) \in Nat BY <1>6 DEF Joined
    <2> SUFFICES ASSUME NEW j \in 1..Len(s)
                 PROVE  j \in 1..Len(hits) /\ hits[j].row = s[j]
                        /\ hits[j].phash = HexHamming(PHash[s[j]], p)
      OBVIOUS
    <2> QED BY <1>10, <1>11, <2>1, <2>2
  <1>14. \A j \in 1..Len(hits) : j # i => hits[j].row # h.row BY <1>6, <1>8 DEF Joined
  \* The account of a hit is one the request asked for.
  <1>15. h.row \in P \/ h.row \in D
    <2>1. \/ \E j \in 1..Len(first) : hits[i].row = first[j].row
          \/ \E k \in 1..Len(t) : hits[i].row = t[k]
      BY <1>6 DEF Joined
    <2>2. ASSUME NEW j \in 1..Len(first), hits[i].row = first[j].row PROVE h.row \in P
      BY <1>8, <1>10, <1>11, <2>2
    <2>3. ASSUME NEW k \in 1..Len(t), hits[i].row = t[k] PROVE h.row \in D
      BY <1>8, <1>12, <2>3
    <2> QED BY <2>1, <2>2, <2>3
  <1>16. /\ h.row \in seen["phash"] => h.row \in P
         /\ h.row \in seen["dhash"] => h.row \in D
    BY <1>4, <1>15 DEF Candidates
  <1>17. h.row \in Rows BY <1>15
  <1>18. /\ ~ IsHex(p) => Len(s) = 0
         /\ ~ IsHex(d) => Len(t) = 0
    BY <1>1, <1>3 DEF AnswerMadeOf
  <1>19. i <= Len(s) => /\ h.row = s[i] /\ IsHex(p)
                        /\ h.phash = HexHamming(PHash[h.row], p)
    <2> SUFFICES ASSUME i <= Len(s)
                 PROVE  h.row = s[i] /\ IsHex(p) /\ h.phash = HexHamming(PHash[h.row], p)
      OBVIOUS
    <2>1. i \in 1..Len(s) BY <1>10
    <2> QED BY <1>8, <1>13, <1>18, <2>1
  <1>20. ~ (i <= Len(s)) => h.phash = 0
    <2>1. \A j \in 1..Len(hits) : j > Len(first) => hits[j].phash = 0 BY <1>6 DEF Joined
    <2> QED BY <1>8, <1>10, <2>1
  <1>21. ASSUME IsHex(p), h.row \in seen["phash"], Cardinality(P) <= limit
         PROVE  i <= Len(s)
    <2>1. NearestOf(P, Nearness(PHash, p), limit, s)
      BY <1>1, <1>3, <1>4, <1>21 DEF AnswerMadeOf
    <2>2. PICK j \in 1..Len(s) : s[j] = h.row BY <1>16, <1>21, <2>1 DEF NearestOf
    <2>3. j = i BY <1>13, <1>14, <2>2
    <2> QED BY <1>10, <2>2, <2>3
  <1>22. \/ /\ h.dhash = HexHamming(DHash[h.row], d)
            /\ \E k \in 1..Len(t) : t[k] = h.row
         \/ h.dhash = 0 /\ \A k \in 1..Len(t) : t[k] # h.row
    <2>1. \/ /\ hits[i].dhash = near[hits[i].row]
             /\ \E k \in 1..Len(t) : t[k] = hits[i].row
          \/ /\ i <= Len(first) /\ hits[i].dhash = first[i].dhash
             /\ \A k \in 1..Len(t) : t[k] # hits[i].row
      BY <1>6 DEF Joined
    <2>2. near[h.row] = HexHamming(DHash[h.row], d) BY <1>5, <1>17 DEF Nearness
    <2>3. i <= Len(first) => first[i].dhash = 0 BY <1>10, <1>11
    <2> QED BY <1>8, <2>1, <2>2, <2>3
  <1>23. ASSUME IsHex(d), h.row \in seen["dhash"], Cardinality(D) <= limit
         PROVE  \E k \in 1..Len(t) : t[k] = h.row
    <2>1. NearestOf(D, Nearness(DHash, d), limit, t)
      BY <1>1, <1>3, <1>4, <1>23 DEF AnswerMadeOf
    <2> QED BY <1>16, <1>23, <2>1 DEF NearestOf
  <1> DEFINE pd == IF IsHex(p) THEN HexHamming(PHash[h.row], p) ELSE 0
             dd == IF IsHex(d) THEN HexHamming(DHash[h.row], d) ELSE 0
  <1>24. h.phash \in {0, pd}
         /\ (h.row \in seen["phash"] /\ Cardinality(P) <= limit => h.phash = pd)
    BY <1>19, <1>20, <1>21
  <1>25. ~ IsHex(d) => h.dhash = 0
    <2>1. ~ IsHex(d) => \A k \in 1..Len(t) : FALSE BY <1>18
    <2> QED BY <1>22, <2>1
  <1>26. h.dhash \in {0, dd}
         /\ (h.row \in seen["dhash"] /\ Cardinality(D) <= limit => h.dhash = dd)
    BY <1>22, <1>23, <1>25
  <1> QED BY <1>3, <1>4, <1>24, <1>26

-----------------------------------------------------------------------------
(* The theorems *)

\* Every reachable state has its type.
THEOREM SearchTypes == Spec => []TypeOK
  BY SearchInvariance, TypeFollows, PTL

\* A search returns as many of the account's rows as the limit allows, nearest
\* first by the hash that ranks it (_search_fallback and the merge).
THEOREM SearchIsNearestFirst == Spec => []NearestFirst
  BY SearchInvariance, NearestFollows, PTL

\* A row found by both statements of a search is listed once, whatever was
\* registered between them (the seen set of search_ledger).
THEOREM SearchListsRowsOnce == Spec => []NoDuplicateHits
  BY SearchInvariance, NoDuplicatesFollow, PTL

\* A hit has the distances of its own row (the merge of search_ledger).
THEOREM SearchDistancesBelong == Spec => []DistancesBelongToRow
  BY SearchInvariance, DistancesFollow, PTL

\* An extraction prefers the payload to the resemblance, and the caller's own
\* newest row among those with the payload (extract_and_lookup).
THEOREM ExactMatchIsPreferred == Spec => []ExactMatchWins
  BY SearchInvariance, ExactFollows, PTL

\* Paging by offset loses no row while others are registered, but for rows that
\* share their created_at (list_all and list_for_account).
THEOREM PagingIsComplete == Spec => []PagingMissesNothing
  BY SearchInvariance, PagingFollows, PTL

=============================================================================
