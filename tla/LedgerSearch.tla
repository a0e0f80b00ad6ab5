---------------------------- MODULE LedgerSearch ----------------------------
(***************************************************************************)
(* The read side of the ledger: the search by perceptual hash, the         *)
(* extraction that looks a suspect image up, and the paged listing.  One   *)
(* client asks; meanwhile other requests register rows, so that two        *)
(* statements of one request (Postgres at READ COMMITTED) and two pages of *)
(* one listing see different tables.                                       *)
(***************************************************************************)
EXTENDS Integers, FiniteSets, SequencesExt

CONSTANTS
    Rows,            \* rows that may be registered
    PHash, DHash,    \* the perceptual hashes of a row
    Payload,         \* the payload of a row
    Account,         \* the account of a row
    Created,         \* the clock of the worker that inserted the row
    Hashes,          \* hashes a client searches for
    Suspects,        \* images a client submits: [payload, phash, dhash]
    Limits,          \* limits of a search
    Distances,       \* values of max_distance
    PageSizes,       \* limits of a listing
    FuzzyLimit,      \* default limit of search_by_phash
    FuzzyDistance,   \* its default max_distance
    NoHash, NotHex,  \* an absent search hash, and one that is not hexadecimal
    NoPayload,       \* what is extracted from an image without a watermark
    NoAccount        \* no account was given

Accounts == {Account[r] : r \in Rows}

ASSUME SearchAssumption ==
    /\ IsFiniteSet(Rows)
    /\ Created \in [Rows -> Nat]
    /\ Limits \cup PageSizes \cup {FuzzyLimit} \subseteq Nat \ {0}
    /\ Distances \cup {FuzzyDistance} \subseteq Nat
    /\ NoAccount \notin Accounts
    /\ {NoHash, NotHex} \cap (Hashes \cup {PHash[r] : r \in Rows} \cup {DHash[r] : r \in Rows}) = {}
    /\ NoPayload \notin {Payload[r] : r \in Rows}
    /\ \A h \in Hashes \cup {PHash[r] : r \in Rows} \cup {DHash[r] : r \in Rows}
              \cup {s.phash : s \in Suspects} \cup {s.dhash : s \in Suspects} :
          h.width \in Nat /\ h.bits \subseteq 1..4 * h.width

VARIABLES
    indexed,  \* Postgres with migration 0002: hamming_hex exists
    table,    \* committed rows
    pc,       \* the statement the request has come to
    req,      \* the request
    merged,   \* hits of the pHash search, kept while the dHash search runs
    answer,   \* the last response: [status, hits]
    listed,   \* the pages received so far
    seen      \* history: the table when the request, and each statement, began

vars == <<indexed, table, pc, req, merged, answer, listed, seen>>

-----------------------------------------------------------------------------
(* Hashes and orders *)

\* A hash is [width, bits]: hexadecimal digits, and the bits that are set.
HexDistance(a, b) == Cardinality((a.bits \ b.bits) \cup (b.bits \ a.bits))

\* Mutant: hashes of different lengths give an error value.
HexHammingSentinel(a, b) == IF a.width # b.width THEN -1 ELSE HexDistance(a, b)

HexHamming(a, b) ==
    IF a.width # b.width
    THEN 4 * (IF a.width > b.width THEN a.width ELSE b.width)
    ELSE HexDistance(a, b)

Nearness(column, hash) == [r \in Rows |-> HexHamming(column[r], hash)]

Recency == [r \in Rows |-> -Created[r]]

\* S ordered by key; rows with equal keys come as the database gives them.
OrderBy(S, key) ==
    {s \in SetToSeqs(S) : \A i, j \in DOMAIN s : i < j => key[s[i]] <= key[s[j]]}

Cut(s, from, n) == SubSeq(s, from + 1, IF from + n < Len(s) THEN from + n ELSE Len(s))

OfAccount(rows, account) == {r \in rows : account \in {NoAccount, Account[r]}}

\* Mutant: the scan is cut before it is ranked.
SearchFallbackCutFirst(column, hash, rows, limit) ==
    UNION {OrderBy(ToSet(Cut(s, 0, limit)), Nearness(column, hash)) : s \in SetToSeqs(rows)}

\* What the portable search may return: max_distance does not reach it.
SearchFallback(column, hash, rows, limit) ==
    {Cut(s, 0, limit) : s \in OrderBy(rows, Nearness(column, hash))}

\* Mutant: the account plays no part.
ChooseNewest(matches, account) == matches[1]

\* Of a payload's rows, newest first, the one an extraction reports.
Choose(matches, account) ==
    LET own == {i \in DOMAIN matches : Account[matches[i]] = account}
    IN  IF own # {} THEN matches[Min(own)] ELSE matches[1]

Hit(r, p, d) == [row |-> r, phash |-> p, dhash |-> d]

\* The hits with the dHash distance of their row r.
WithDhash(hits, r, d) ==
    [i \in DOMAIN hits |-> IF hits[i].row = r THEN [hits[i] EXCEPT !.dhash = d] ELSE hits[i]]

\* Mutant: a row found twice keeps the dHash stub.
AddKeepsStub(hits, r, d) ==
    IF \E i \in DOMAIN hits : hits[i].row = r THEN hits ELSE Append(hits, Hit(r, 0, d))

\* Mutant: rows already seen are appended again.
AddAlways(hits, r, d) == Append(hits, Hit(r, 0, d))

\* What the dHash search adds to the hits with a row it has found.
Add(hits, r, d) ==
    IF \E i \in DOMAIN hits : hits[i].row = r THEN WithDhash(hits, r, d)
                                              ELSE Append(hits, Hit(r, 0, d))

\* The pHash hits, to which the dHash search adds its rows one after another.
Merge(first, second, near) ==
    LET merge[n \in 0..Len(second)] ==
            IF n = 0 THEN first ELSE Add(merge[n - 1], second[n], near[second[n]])
    IN  merge[Len(second)]

-----------------------------------------------------------------------------
(* State *)

None == [kind |-> "none"]
Silent == [status |-> "none", hits |-> <<>>]
Statements == {"ask", "phash", "dhash", "payload", "fuzzy"}

TypeOK ==
    /\ indexed \in BOOLEAN
    /\ table \subseteq Rows
    /\ pc \in {"idle", "phash", "dhash", "payload", "fuzzy", "page"}
    /\ req.kind \in {"none", "search", "extract", "list"}
    /\ answer.status \in {"none", "ok", "match", "payload", "nothing", "bad", "error"}
    /\ \A h \in ToSet(merged) \cup ToSet(answer.hits) :
          h.row \in Rows /\ h.phash \in Nat /\ h.dhash \in Nat
    /\ listed \in Seq(Rows)
    /\ seen \in [Statements -> SUBSET Rows]

Init ==
    /\ indexed \in BOOLEAN
    /\ table = {}
    /\ pc = "idle"
    /\ req = None
    /\ merged = <<>>
    /\ answer = Silent
    /\ listed = <<>>
    /\ seen = [s \in Statements |-> {}]

\* Another request commits a row.  created_at is a worker's clock at the
\* INSERT, so rows need not be committed in its order.
Register(r) ==
    /\ r \notin table
    /\ table' = table \cup {r}
    /\ UNCHANGED <<indexed, pc, req, merged, answer, listed, seen>>

Answer(status, hits) == pc' = "idle" /\ answer' = [status |-> status, hits |-> hits]

Look(statement) == seen' = [seen EXCEPT ![statement] = table]

\* A request arrives; its first statement is at first, or it is refused.
Ask(request, first) ==
    /\ pc = "idle"
    /\ req' = request
    /\ merged' = <<>>
    /\ listed' = <<>>
    /\ seen' = [s \in Statements |-> IF s = "ask" THEN table ELSE {}]
    /\ pc' = first
    /\ UNCHANGED <<indexed, table>>

-----------------------------------------------------------------------------
(* GET /ledger/search *)

IsHex(hash) == hash \notin {NoHash, NotHex}

AskSearch(phash, dhash, account, limit, max) ==
    LET request == [kind |-> "search", phash |-> phash, dhash |-> dhash,
                    account |-> account, limit |-> limit, max |-> max]
        neither == phash = NoHash /\ dhash = NoHash
    IN  /\ Ask(request, IF neither THEN "idle"
                        ELSE IF phash # NoHash THEN "phash" ELSE "dhash")
        /\ answer' = IF neither THEN [status |-> "bad", hits |-> <<>>] ELSE Silent

\* The rows a search may return.  A hash that is not hexadecimal finds none,
\* before any statement is executed.
Found(column, hash, account, limit) ==
    IF IsHex(hash)
    THEN SearchFallback(column, hash, OfAccount(table, account), limit)
    ELSE {<<>>}

\* On the migrated database _search_indexed renders an operator Postgres
\* cannot parse: the statement raises and the request ends as a 500.
SearchRaises ==
    /\ indexed
    /\ \/ pc = "phash" /\ IsHex(req.phash)
       \/ pc = "dhash" /\ IsHex(req.dhash)
       \/ pc = "fuzzy"
    /\ Look(pc)
    /\ Answer("error", <<>>)
    /\ UNCHANGED <<indexed, table, req, merged, listed>>

SearchPhash ==
    /\ pc = "phash"
    /\ ~ (indexed /\ IsHex(req.phash))
    /\ Look("phash")
    /\ \E s \in Found(PHash, req.phash, req.account, req.limit) :
          LET near == Nearness(PHash, req.phash)
              hits == [i \in DOMAIN s |-> Hit(s[i], near[s[i]], 0)]
          IN  IF req.dhash = NoHash
              THEN Answer("ok", hits) /\ UNCHANGED merged
              ELSE merged' = hits /\ pc' = "dhash" /\ UNCHANGED answer
    /\ UNCHANGED <<indexed, table, req, listed>>

SearchDhash ==
    /\ pc = "dhash"
    /\ ~ (indexed /\ IsHex(req.dhash))
    /\ Look("dhash")
    /\ \E s \in Found(DHash, req.dhash, req.account, req.limit) :
          Answer("ok", Cut(Merge(merged, s, Nearness(DHash, req.dhash)), 0, req.limit))
    /\ UNCHANGED <<indexed, table, req, merged, listed>>

-----------------------------------------------------------------------------
(* POST /extract *)

\* Without a payload nothing is looked up.
AskExtract(suspect, account) ==
    LET request == [kind |-> "extract", payload |-> suspect.payload,
                    phash |-> suspect.phash, dhash |-> suspect.dhash, account |-> account]
        empty == suspect.payload = NoPayload
    IN  /\ Ask(request, IF empty THEN "idle" ELSE "payload")
        /\ answer' = IF empty THEN [status |-> "nothing", hits |-> <<>>] ELSE Silent

LedgerMatch(r) ==
    Hit(r, HexHamming(req.phash, PHash[r]), HexHamming(req.dhash, DHash[r]))

PayloadLookup ==
    /\ pc = "payload"
    /\ Look("payload")
    /\ \E matches \in OrderBy({r \in table : Payload[r] = req.payload}, Recency) :
          IF matches = <<>>
          THEN pc' = "fuzzy" /\ UNCHANGED answer
          ELSE Answer("match", <<LedgerMatch(Choose(matches, req.account))>>)
    /\ UNCHANGED <<indexed, table, req, merged, listed>>

FuzzyLookup ==
    /\ pc = "fuzzy"
    /\ ~ indexed
    /\ Look("fuzzy")
    /\ \E s \in Found(PHash, req.phash, req.account, FuzzyLimit) :
          IF s = <<>> THEN Answer("payload", <<>>)
                      ELSE Answer("match", <<LedgerMatch(s[1])>>)
    /\ UNCHANGED <<indexed, table, req, merged, listed>>

-----------------------------------------------------------------------------
(* GET /ledger: the client asks for pages until one is not full *)

AskList(account, limit) ==
    /\ Ask([kind |-> "list", account |-> account, limit |-> limit], "page")
    /\ answer' = Silent

\* Mutant: no ORDER BY.
PageUnordered(rows, offset, limit) == {Cut(s, offset, limit) : s \in SetToSeqs(rows)}

\* The rows of the page at offset.
Page(rows, offset, limit) == {Cut(s, offset, limit) : s \in OrderBy(rows, Recency)}

\* The client's offset is what it has received: it asks for full pages only.
ListPage ==
    /\ pc = "page"
    /\ \E page \in Page(OfAccount(table, req.account), Len(listed), req.limit) :
          /\ listed' = listed \o page
          /\ IF Len(page) < req.limit THEN Answer("ok", <<>>) ELSE UNCHANGED <<pc, answer>>
    /\ UNCHANGED <<indexed, table, req, merged, seen>>

-----------------------------------------------------------------------------
Next ==
    \/ \E r \in Rows : Register(r)
    \/ \E a \in Accounts \cup {NoAccount} :
          \/ \E p, d \in Hashes \cup {NoHash, NotHex}, l \in Limits, m \in Distances :
                AskSearch(p, d, a, l, m)
          \/ \E s \in Suspects : AskExtract(s, a)
          \/ \E l \in PageSizes : AskList(a, l)
    \/ SearchRaises
    \/ SearchPhash
    \/ SearchDhash
    \/ PayloadLookup
    \/ FuzzyLookup
    \/ ListPage

Spec == Init /\ [][Next]_vars

-----------------------------------------------------------------------------
(* Properties *)

Searched == req.kind = "search" /\ answer.status = "ok"

\* The search that ranks the answer, and what it ranks.
Leading == IF IsHex(req.phash) THEN "phash" ELSE "dhash"

Near(r) == IF Leading = "phash" THEN HexHamming(PHash[r], req.phash)
                                ELSE HexHamming(DHash[r], req.dhash)

Candidates(statement) ==
    {r \in seen[statement] : req.account \in {NoAccount, Account[r]}}

\* A search returns, nearest first, as many of the account's rows as the limit
\* allows: the i-th hit has fewer than i strictly nearer candidates, and no
\* candidate is left out while there is room (_search_fallback's sort and cut,
\* and the merge, which keeps the pHash hits in front and in order).
NearestFirst ==
    Searched /\ (IsHex(req.phash) \/ IsHex(req.dhash)) =>
        LET rows == Candidates(Leading)
            size == IF req.limit < Cardinality(rows) THEN req.limit ELSE Cardinality(rows)
        IN  /\ Len(answer.hits) \in size .. req.limit
            /\ \A i \in 1..size :
                  LET r == answer.hits[i].row
                  IN  r \in rows /\ Cardinality({c \in rows : Near(c) < Near(r)}) < i

\* No row is listed twice, although it may be found by two statements
\* between which other rows were committed (the seen set of search_ledger).
NoDuplicateHits ==
    \A i, j \in DOMAIN answer.hits : i # j => answer.hits[i].row # answer.hits[j].row

\* The distances of a hit are those of its row, whichever statements found it.
\* A row committed after the pHash search, or left out by the limit, has the
\* stub 0 of the search that did not see it, and only that.
DistancesBelongToRow ==
    Searched =>
        \A h \in ToSet(answer.hits) :
            LET p == IF IsHex(req.phash) THEN HexHamming(PHash[h.row], req.phash) ELSE 0
                d == IF IsHex(req.dhash) THEN HexHamming(DHash[h.row], req.dhash) ELSE 0
                whole(statement) == h.row \in seen[statement]
                                    /\ Cardinality(Candidates(statement)) <= req.limit
            IN  /\ h.phash \in {0, p} /\ (whole("phash") => h.phash = p)
                /\ h.dhash \in {0, d} /\ (whole("dhash") => h.dhash = d)

\* An extraction reports a row with the extracted payload whenever one was
\* committed, the newest of the caller's own account if there is one; a row
\* that merely looks like the image is reported only when no row had the
\* payload, and is then of the account asked for and as near as any
\* (extract_and_lookup).
ExactMatchWins ==
    req.kind = "extract" /\ answer.status = "match" =>
        LET r == answer.hits[1].row
            exact == {m \in seen["payload"] : Payload[m] = req.payload}
            own == {m \in exact : Account[m] = req.account}
            best == IF own # {} THEN own ELSE exact
        IN  IF exact # {}
            THEN r \in best /\ \A m \in best : Created[m] <= Created[r]
            ELSE /\ r \in Candidates("fuzzy")
                 /\ \A c \in Candidates("fuzzy") :
                       HexHamming(PHash[r], req.phash) <= HexHamming(PHash[c], req.phash)

\* A client that pages through the ledger gets every row that was there when it
\* began, whatever is registered meanwhile, unless the row shares its created_at
\* with another (list_all and list_for_account, by offset).  It may get a row
\* twice, when newer ones have pushed it onto the next page.
PagingMissesNothing ==
    req.kind = "list" /\ answer.status = "ok" =>
        \A r \in Candidates("ask") :
            \/ r \in ToSet(listed)
            \/ \E other \in Rows \ {r} : Created[other] = Created[r]

\* What _search_hash promises: entries "whose perceptual hash is within
\* max_distance bits of the query", and extract_and_lookup: the payload, or a
\* "perceptual hash (pHash) within Hamming distance threshold".
HitsAreWithinDistance ==
    \A h \in ToSet(answer.hits) :
        CASE req.kind = "search" ->
                \/ IsHex(req.phash) /\ HexHamming(PHash[h.row], req.phash) <= req.max
                \/ IsHex(req.dhash) /\ HexHamming(DHash[h.row], req.dhash) <= req.max
          [] req.kind = "extract" ->
                \/ Payload[h.row] = req.payload
                \/ HexHamming(PHash[h.row], req.phash) <= FuzzyDistance

=============================================================================
