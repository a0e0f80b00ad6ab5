# DEEP-TRACE: a TLA+ development

DEEP-TRACE is an HTTP service that embeds a provenance watermark in an image,
registers the result in a ledger (one Postgres table), and later finds, serves
and verifies what it registered. This directory models the service beside its
code: TLA+ modules translated from `src/app`, TLC runs that check them on small
instances, and theorems that TLAPS proves for every instance.

Run everything from this directory:

    tlc -workers 2 -config ledger_safety.cfg MCLedgerRequests
    tlapm LedgerRequestsProofs.tla

`PROJECT.json` is the index: the components, the runs, the lines of code behind
each definition, the hazards and the theorems.

## 1. Inventory

| Part | State | Operations | Made correct by |
|---|---|---|---|
| Request transactions (`database.py`, `api/deps.py`) | one engine and pool per process; a session per request | `get_db`: commit on return, roll back on exception, close always | what is answered agrees with what is committed; no connection is lost |
| Ledger service (`services/ledger.py`, `models/asset.py`) | the table `asset_provenance_ledger` (insert only) | `register`, `get_by_id`, `get_by_payload`, hash searches, listings | a row is whole or absent; a search returns what it says, in order |
| Forensics service (`services/forensics.py`) | none | `embed_and_register`, `extract_and_lookup`, `verify` | errors say what happened; a match is a match |
| C2PA wrapper (`engine/c2pa_wrapper.py`) | `manifests/<uuid>.c2pa` | `generate_manifest`, `validate_reference` | a reference in a row can be followed |
| HTTP endpoints (`api/v1/*`) | none | embed, extract, verify, ledger search and listing, public asset, challenge, health | each status code means what the integration guide says |
| Access control (`core/security.py`, `services/auth.py`) | the shared secret; no record of challenges | API key, issue and verify a challenge | a challenge is good for its account and its time |
| Rate limits (`core/rate_limit.py`) | counters in the memory of each process | a fixed window per header value or address | the configured number of calls per minute |
| Watermark engine (`engine/watermark.py`, `ecc.py`; `prng.py` has no caller) | none | embed, extract, gain estimate | extraction inverts embedding |
| Commitments (`engine/zkp.py`) | cached group | commit, verify, hex form | an opening verifies, and only for its value |
| Perceptual hashes (`engine/perceptual.py`) | none | hashes, Hamming distance, nearest match | distances are a metric on equal lengths |
| Processes (`main.py`, `Procfile`, `render.yaml`) | two uvicorn workers | start, `create_all`, shut down | restarts find the ledger as it was |
| Velo client (`examples/velo`) | a cached API-key promise | calls with a 60 s time-out | a page shows the asset it created |

**Interactions.** A request enters one worker and runs as a coroutine on that
worker's event loop. FastAPI builds the session (`get_db`), the ledger service
around it and the forensics service around that; the handler runs; and, in the
pinned FastAPI 0.110, `get_db` is resumed *before* the response is sent, to
commit or to roll back. The workers share the Postgres server, the manifest
directory and nothing else: each has its own pool and its own rate counters.
The client sees responses only, and may stop listening.

**What is hard.** Coroutines interleave at every `await`. The success response
is built before the commit that makes it true. A COMMIT can succeed after its
connection, its process or its client has gone. The manifest file is not part of
the transaction, is opened before it is written, and lives on a disk that a
deployment replaces. Connections are few, and every error path has to return one.
On SQLite, which the tests use, all sessions share one connection. Time is read
in different units by different parts: the challenge truncates it to seconds, the
limiter counts in windows that start with a request. The watermark is written
with a step computed from the image and read with a step computed from what is
left of it. On the page, handlers overlap, share a promise and wait for a service
that goes on when they have given up. The hazards in `PROJECT.json` list these,
each at its line.

## 2. What is modelled

### LedgerRequests: the requests of the deployed service

The core module. The state of a request is where its coroutine stands (`pc`),
the process that took it (`worker`), its transaction *as the server sees it*
(`txn`), the response it is heading for (`status`) and the one the client
received (`heard`). The state of the service is which processes run (`up`), the
connections each pool has out (`pool`) and the committed rows (`rows`). Two
variables only remember: `raised`, the requests whose handler raised, and
`atStart`, whether the row a read asks for was there when the read arrived.

| Action | Code |
|---|---|
| `Accept` | a worker takes the request; `get_db` makes a session, without a connection yet |
| `Refuse` | a 4xx (or any exception) before the first statement |
| `Prepare` | `embed_and_register` up to the ledger call |
| `Lookup` | a read handler reaches `get_by_id` |
| `Checkout`, `CheckoutFails` | the first statement takes a connection from the pool, or times out |
| `Insert`, `Refresh` | `register`: `flush`, then `refresh`; the 200 is built |
| `Found`, `NotFound`, `BadUpload` | the result of `get_by_id` and what the handler makes of it (200, 404, 410, 400) |
| `StatementFails` | a statement raises |
| `SendCommit`, `DbCommit`, `DbAbort`, `CommitReturns`, `CommitRaises` | `session.commit()`: sent, decided by the server, and the answer heard or not |
| `Rollback` | the `except` and `finally` of `get_db` |
| `Respond` | the response goes out; the client may have gone |
| `Crash`, `Restart` | a worker dies; the platform starts the service again |

An action is what runs between two awaits. `DbCommit` and `DbAbort` belong to
the server and are taken whoever still listens; they, and the process's death,
are modelled from how the code uses them. The embed's image work (decoding, the
watermark, the hashes, the commitment, the manifest) is one step without a database
call here; its own steps, and what fails between them, are in `Evidence`.

Not in this module: the metadata and thumbnail routes (they take the path of
the image route), the searches and listings (read-only, in `LedgerSearch`), and
the kinds of 4xx, which are all `Refuse`.

### AtomicLedger and LedgerRefinement: what the service promises

`AtomicLedger` has no workers, sessions or commits: an embed request is decided
once, `in` or `out`; SUCCESS is said only of a row that is in; a look-up never
denies a row that was in when it was asked; an error or silence promises
nothing. `LedgerRefinement` maps the service to it: the fate of an embed is the
fate of its transaction at the server, and of nothing else.

Verifications are outside the mapping. They would break it: see
`ledger_verify_404` below.

### SharedConnection: the SQLite configuration

`get_engine` gives SQLite a `StaticPool`, that is one connection for all
sessions. The module has the same handlers on that connection: one open
transaction (`flushed`) and the committed rows. `Commit` commits what anybody
has flushed; `Rollback` drops it; and `Close` is the ROLLBACK with which the
pool resets a connection each time a session returns it, also after a commit
(`reset_on_return` of the pinned SQLAlchemy 2.0.28). `MaxInFlight` is the number
of requests the clients have under way.

### LedgerSearch: the read side

One client searches (`/ledger/search`), has a suspect image looked up
(`/extract`) or pages through `/ledger`, while `Register` commits rows at any
moment, in any order of their `created_at` (a worker's clock at the INSERT). Each
statement reads the table as it then is. `pc` is the statement the request has
come to, `merged` the pHash hits kept while the dHash search runs, `listed` the
pages received, `seen` the tables the statements saw.

| Action | Code |
|---|---|
| `AskSearch`, `SearchPhash`, `SearchDhash` | `search_ledger`: the 400, one statement per hash, `Merge` and the final cut |
| `SearchRaises` | `_search_indexed`, taken when `hamming_hex` exists (`indexed`) |
| `AskExtract`, `PayloadLookup`, `FuzzyLookup` | `extract_and_lookup`: NO_PAYLOAD, the exact look-up and `Choose`, else the nearest row |
| `AskList`, `ListPage` | `list_entries`, called until a page is not full |
| `Register` | any embed that commits meanwhile |

A hash is its number of digits and its set bits; an order that the code leaves to
the database (the scan before a stable sort, rows with one `created_at`) is any
order. `Merge` is the loop that adds the dHash rows, one after another, to the
pHash hits. The two statements of `_search_hash` on Postgres, the probe of `pg_proc`
and the search, are one step, for the function does not come and go. The
`within_threshold` flag and the manifest of a match are left out.

### AccessControl: what stands before the handlers

Three modules on one clock. `Clock` counts ticks finer than a second. `RateLimit`
is the slowapi limiter: a fixed window per worker, route and name (`window`), where
the name is the `X-API-Key` header, checked or not, or else the address.
`Challenges` is the HMAC challenge: the service keeps nothing but its `secret`;
`issued` remembers for the properties. `AccessControl` puts them in the order in
which FastAPI resolves them: key, form or headers, challenge, and the limiter
last, for it wraps the endpoint.

| Action | Code |
|---|---|
| `Embed` | `require_api_key`, the form, `embed_limit` |
| `GetPublic` | `public_limit` of the asset routes; any header that is sent is counted under |
| `AskChallenge`, `Issue` | `POST /auth/challenge`, `issue_challenge` |
| `Verify`, `Verdict` | `require_challenge_for_verify`, `verify_challenge` with the 500 of a MAC that is not hexadecimal |
| `TimePasses` | the clock; the storage drops windows that have ended |
| `Redeploy` | a deployment or start, perhaps with another SECRET_KEY: all counters are gone |

The MAC is taken to be injective in its key and its text, and no nonce to be drawn
twice. The text is what the code makes of it: account and nonce joined by `|`
(`Joined`), in account ids that are any text and tokens whose nonce nothing checks;
only drawn nonces are free of the separator. What clients present as tokens is any
mixture of the times and MACs of issued ones, with any nonce of `TokenNonces`. A
single worker is never replaced: the pinned uvicorn does not do it.

### Evidence: a mark, its commitment, its manifest, and what is left of them

`QimLattice` is the arithmetic of one coefficient on integers: quantising to a
multiple of the step with the bit's parity, the step that follows from a block's
energy, the snap of a synchronisation value. `WatermarkCodec` is the image: blocks
in raster order, the first `SyncBlocks` for the gain, the rest for the codeword's
bits; `Embed`, `Extract`, and what a channel does to an image (`Damage`, `Scale`,
`CropBottom`, `CropRight`). `Pedersen` is `zkp.py` over any group of prime order,
`Manifests` the files of `c2pa_wrapper.py` and the references to them. `Evidence`
composes them as `ForensicsService` does.

| Action | Code |
|---|---|
| `Mark`, `MarkRefused` | `embed_watermark`, or `_check_capacity` refuses the image |
| `Bind` | the hashes, `_commitment_input`, `commit` |
| `Sign` | `generate_manifest` signs, or falls back to a URL |
| `Open`, `Write`, `WriteFails` | the file is opened, written; or one of the two fails, which is logged |
| `Store` | `register` and the commit of its row |
| `Deliver` | the response with the marked image |
| `Fails` | an exception, a death of the process or a lost response, at any of these steps |
| `Extract` | `extract_watermark` |
| `Redeploy` | perhaps another SECRET_KEY, an empty `manifests/`, no registration at work |

A block is its data coefficients, its synchronisation coefficient and the energy
of the rest; what the DCT, colour conversion and clipping do on the way back to
pixels is the rounding in `Marked`, a noise `e`, and `Damage`. Reed-Solomon is any
code with the promised distance, decoded within half of it. A gain may be zero.

The registration at work is `job`, one at a time: registrations share only the disk,
on which each writes a file of its own (`LedgerRequests` has them side by side).
Meanwhile the image in circulation is the upload; the marked one takes its place
when it is delivered. A file is whole or not: a failed write leaves it opened and
truncated, and `ValidateReference` returns what is there, or nothing if reading
fails. A row commits to payload, hashes and account (`CommitmentInput`); `written`
and `deployment` are not columns but what the properties remember of it.

### VeloClient: the page

The handlers of `page-code.js` with the functions of `deep_trace_client.jsw` they
call, over `AtomicLedger`: the service is used by its specification, which
`LedgerRefinement` shows the server implements. `stage` is the promise a click's
handler awaits, `promise` the cached `_apiKeyPromise` of each load of the backend
module, `sent` the network, and `status`, `shownId`, `shownImage` the page.

| Action | Code |
|---|---|
| `ClickEmbed`, `ClickExtract`, `ClickInVain` | the handlers up to `uploadFiles`, and their early returns |
| `Uploaded`, `GetApiKey`, `Settles`, `KeyReady`, `KeyFails` | the upload is done; `getApiKey` and what becomes of its promise |
| `SourceArrives`, `SourceFails` | the picture is fetched back; then the POST goes out |
| `EmbedAnswered`, `ExtractAnswered`, `TimeOut` | the answer, or none in 60 s, or a broken connection |
| `ImageArrives`, `ImageFails` | `getWatermarkedImage` and the preview |
| `Verify`, `LookUp` | the whole verify handler, which throws at once; the end of a look-up |
| `Reload` | the platform loads the backend module anew |
| `ServiceStep` | a step of `AtomicLedger` on a request that was sent |

The buttons stay active and nothing remembers which picture was embedded: a click
comes at any time and on any picture, so a double click registers one picture twice
and both are told success. A text that is no success is one value of `status`. What
an extraction finds is `LedgerSearch`'s, so here it ends with any text.

## 3. What is checked

Passing runs:

| Run | Instance | Shows |
|---|---|---|
| `ledger_safety` | 2 embeds, 1 fetch, 2 workers, 1 connection each (0.3 M states) | `SuccessIsDurable`, `FailureLeavesNoRow`, `NoLeak`, `ReadsAreRegular`, `ImplementsAtomicLedger`, `TypeOK` |
| `ledger_liveness` | 1 embed, 1 verification, 1 fetch of a row without an image, 1 worker, 1 connection (20 k) | `EveryRequestSettles`, `ImplementsAtomicLedger` |
| `shared_serial` | 2 embeds, 2 look-ups, one at a time | `ImplementsAtomicLedger` |
| `ledger_search` | 3 rows of 2 accounts, two with one payload, two with one `created_at`; hashes of 1 and 2 digits; limits 1 to 3 (46 k) | `NearestFirst`, `NoDuplicateHits`, `DistancesBelongToRow`, `ExactMatchWins`, `PagingMissesNothing`, `TypeOK` |
| `rate_limit` | 2 workers, 2 limited routes, a key, a header that is none, no header, 1 address, 3 half-second ticks, 1 deployment (0.6 M) | `RefusedOnlyAtLimit`, `BurstBounded`, `TypeOK` |
| `challenges` | 2 accounts, `a` and `a\|b`, 2 drawn nonces and one with a separator, 2 secrets, 5 half-second ticks, 2 deployments (15 k) | `AcceptedWasIssued`, `FreshIsAccepted` |
| `evidence` | an image of 16 blocks and one too small, payloads of 4 bits in 3 bytes with one correctable, 2 accounts, 2 secrets, a group of order 3, 3 events (0.2 M) | `GainWithinIntact`, `RecoveredWithinCapacity`, `MarksAreRegistered`, `OpensUnderItsSecretOnly`, `ManifestIsTheRows`, `TypeOK` |
| `velo_client` | 2 embed clicks, 1 extract click, 1 reload (0.1 M) | `SuccessIsRegistered`, `FailurePlaceTellsFate`, `ReadOnce`, `PreviewMatchesId`, `EveryClickIsTold`, `TypeOK` |

* `SuccessIsDurable`: who is told SUCCESS owns a committed row. The hazard is the
  order of response and commit, and a commit whose outcome is not known.
* `FailureLeavesNoRow`: a handler that raised, wherever it did, has no row and
  never gets one. An exception of the *commit* is excepted: the row may be there
  behind a 500, and no code could tell.
* `NoLeak`: every connection out and every open transaction belongs to a running
  request of a live process. (That a pool keeps its bound is the pool's own guard,
  and no property.)
* `ReadsAreRegular`: the image route never answers 404 for a row committed before
  the request, and never shows a row that could still vanish.
* `ImplementsAtomicLedger`: what the clients of the embed and image routes see is a
  behaviour of `AtomicLedger`; in `ledger_liveness` with the 410 of a row without an
  image, which must not be a 404.
* `EveryRequestSettles`: whatever was accepted ends.
* `NearestFirst`: the answer of a search is a reference ranking of the account's
  rows as the leading statement saw them, cut at the limit. With both hashes given
  the pHash hits lead, so that on a ledger larger than the limit the dHash search
  only adds distances, never a row.
* `NoDuplicateHits`, `DistancesBelongToRow`: the merge of two searches between which
  rows were committed. The stub 0 for a distance that was not computed stays in the
  answer, and the property says exactly when.
* `ExactMatchWins`: which row an extraction reports, of those with its payload or,
  failing that, of those that look like the image.
* `PagingMissesNothing`: paging by offset over a growing ledger loses no row, except
  among rows that share a `created_at`, where ORDER BY decides nothing; it may
  repeat rows.
* `RefusedOnlyAtLimit`: a 429 is deserved: the process that refuses allowed the whole
  amount under that name less than a window ago. No refusal prolongs another, and
  no other name's or process's calls count.
* `BurstBounded`: around the end of a window a *name* (a header value, or the address
  of who sends none) gets less than twice the amount from one process in one window's
  time. It does get almost twice, and that from each process. Of a client, who may
  change its header on the public routes, it says nothing: see `public_per_address`.
* `AcceptedWasIssued`, `FreshIsAccepted`: which challenges pass, from both sides.
  What passes has the times, the MAC and the signed text of a challenge issued under
  the secret in force, younger than TTL + 1 seconds; it *is* that challenge, for its
  account, wherever the text can be cut in one way only, that is unless both the
  nonce presented and one of the accounts contain the separator. And every challenge
  of at most TTL passes.
* `GainWithinIntact`: while fewer than half of the synchronisation blocks are
  destroyed or misread, the estimate lies among the ratios of the others.
* `RecoveredWithinCapacity`: while the bytes with a misread block are within the
  code's reach, extraction says OK with the payload of the *last* registration.
* `MarksAreRegistered`: whatever is in circulation carries the payload of a row, made
  under that row's secret, wherever between mark, commitment, manifest, row, commit
  and answer a registration failed or the service was deployed anew.
* `OpensUnderItsSecretOnly`: the opening in a row opens its commitment for its value
  under the secret of its time, and not under one with another generator.
* `ManifestIsTheRows`: a reference never leads to another registration's manifest nor
  to one still being written; what it leads to is whole unless its write failed, and
  a manifest written whole is there as long as its disk.
* `SuccessIsRegistered`: what the page shows as registered is in the ledger.
* `FailurePlaceTellsFate`: a click that failed before its request went out never gets
  a row, however late the service acts; one that failed at its preview has its row,
  though the page says that the embed failed. In between, at the time-out, it may be
  either, and a user who clicks again may register the picture twice, for an embed
  has no idempotency key.
* `ReadOnce`: handlers that need the key together read the secret once.
* `PreviewMatchesId`: image and id beside each other belong together, unless the
  id's image is on its way or failed, or two handlers overlapped.
* `EveryClickIsTold`: every click ends in success or failure on the page though the
  service may be silent for good.

**Bounds.** One connection per pool makes every request find the pool empty in
some behaviour; two workers are what it takes for an embed and a fetch to meet
without sharing anything but the server. Two embeds can each be the one that
fails while the other succeeds; a third adds no new kind of meeting, as embeds
touch different rows. Crashes and restarts are not bounded, since a dead request
does not come back. Workers are interchangeable, and the runs that check safety
use that symmetry.

**Fairness.** `FairSpec` asks weak fairness of `Progress(r)` for each request:
the event loop runs every ready coroutine, and the server answers a statement or
decides a COMMIT. Nothing is asked of the failures: no crash, time-out, error or
restart is owed to anyone, and no request is owed to arrive. Weak fairness
suffices for the pool: requests are finitely many, each leaves it for good, so a
waiting one is eventually enabled for good.

`VeloClient` asks weak fairness of `Advance(c)`, the next step of a handler before
or at its request: storage and fetches of the Wix platform end one way or the
other, and the `timeout` given with the POST runs out. It asks the same of
`Settles`, the secret store's promise, and nothing of the service or the network.
The fetch of the preview has no time-out, so nothing is claimed of it.

`rate_limit` has an amount of 2 on the embed route, to tell an exhausted window
from one in use, and of 1 on the other; its clock runs into a second window, so that
hits of two are within one `Period`. `challenges` runs past the expiry of a
challenge issued in the middle of a second, and over two deployments, so that a
secret can come back; a worker keeps nothing of a challenge, so one stands for all.
Of its nonces one is what follows the first separator of a text, which is the other
way to cut it. The limiter and the challenges share nothing but the clock and the
deployment that resets them, hence two runs. `evidence` has four synchronisation
blocks as the code has, so that medians of even and odd numbers of them occur; one
byte in three is correctable, and three events are a registration, damage or a
crop, and a second registration or a gain; the steps of a registration, and its
failures, are not counted. The third of the codeword's bytes and
a payload whose bits read differently backwards make order visible. In
`velo_client` two clicks are what it takes for a retry and for an overlap.

Three rows are enough for `ledger_search`: one to be found, one nearer or newer,
one committed in between; limits below, at and above their number occur.

Runs that show a disagreement:

* `ledger_verify_404`: `verify` turns every exception of its look-up into
  `AssetNotFoundError`. A pool time-out is answered 404, "asset not found", for a
  row that is there; the integration guide gives 500 for server errors.
* `shared_concurrent`: with two requests in flight on SQLite's one connection, one
  request's rollback drops the row of another, which then commits an empty
  transaction and answers SUCCESS. `get_db` "commits on clean exit" only where
  every session has its own connection.
* `search_distance`: `_search_fallback` never receives `max_distance`: the hits, and
  the row an extraction reports as MATCH_FOUND, may be at any distance.
* `public_per_address`: `rate_limit.py` gives the public routes "60 req/min per IP".
  The limiter counts under the `X-API-Key` header, which those routes never check: an
  address that sends a second value gets a second counter.

Every property of a passing run has a mutant: a definition of the module named
in `PROJECT.json` that changes the code's behaviour the way a bug would, and
under which TLC finds that property violated.

## 4. What is proved

Every safety invariant of every passing run is a theorem, and so is the refinement
that three of the runs check. `PROJECT.json` lists which theorem states which property.

| Module | Proves | Its inductive invariant says |
|---|---|---|
| `LedgerRequestsProofs` | the five properties of `LedgerRequests` that its runs pass; `Refinement` | how a coroutine's place, its transaction and its connection go together |
| `SharedConnectionProofs` | serial requests implement the atomic ledger | whose row the one transaction holds |
| `LedgerSearchProofs` | the six properties of `LedgerSearch` | what statement results each answer was made of |
| `AccessControlProofs` | the five properties of `AccessControl` that its runs pass | how windows, history and challenges are dated |
| `WatermarkCodecProofs` | facts about quantisation, bits, medians and the code | (no state) |
| `EvidenceProofs` | the six properties of `Evidence`; what a commitment binds to | what the registration at work, rows, files, images, plans and verdicts are |
| `VeloClientProofs` | the five safety properties of `VeloClient` | where a handler is whose request is out, and what it showed |
| `Arithmetic` | induction and recursion on numbers, division, remainders | (no state) |

**Requests.** The theorems hold for any sets of requests and workers, any pool size
and any `Asked`, from the module's three assumptions (embeds, images, verifications
and legacy rows are disjoint and finite; a pool has at least one connection; there is
a worker). None of the properties is inductive. `IInv` has six parts: `PhaseInv`
ties `pc` to the transaction's state (which is the heart of it: a coroutine may only
be past its commit if the server committed, and a rollback can only meet a
transaction that is open, sent or decided); `ConnectionInv` ties it to the pool;
`DurableInv` says that a row is committed exactly when its transaction is; `RaisedInv`
that a request that raised never sent a COMMIT; `ReadInv` carries what a look-up saw;
`AnswerInv` that the client heard what the coroutine had. `InvStep` proves the parts
action by action. In `Refinement` (`Spec => ImplementsAtomicLedger`) `DbCommit` is the abstract `Register`,
an abort (of one transaction, or of all those of a dying process) is `Drop`, `Accept`
of a fetch is `Ask`, `Respond` is the answer, and everything else stutters.

**The shared connection.** With `MaxInFlight = 1`, and any number of requests, it
implements `AtomicLedger` too, by `SerialInv` with `FlushedInv`: the open transaction
holds the running request's row and nobody else's. `shared_concurrent` is what
happens without it.

**Searches.** The theorems hold for any finite set of rows, any hashes, accounts,
limits and page sizes. `SearchAssumption` says that the rows are finitely many,
clocks and distances are numbers, limits at least one, a hash's bits are among its
digits, and that the markers for "no hash", "no payload" and "no account" are no
value of a row; the routes' `Query(ge=1)` and the columns' types are behind it.
`IInv` has `RequestInv` (which fields a request has, and that it has no answer before
its last statement), `TableInv` (what a statement saw is still in the table, which
only grows), `SearchInv` and `ExtractInv` (the hits kept, and the answer, are made of
results that the statements could have, of the tables *they* saw) and `PagingInv`.
The properties are then facts about operators. `OrderRank`: in a sorted sequence the
i-th has fewer than i nearer ones. `FallbackIs`: what sort and cut return is that of
the whole, up to the limit. `AddJoins` and `MergeIs`: merging keeps the first hits in
front, lists no row twice, and leaves of each distance the row's or the stub.
`PagingInv` carries the argument about pages: a row that was there at the start and
is not yet listed has at least as many newer rows as the client has received, and a
registration can only add to them; this is where rows that share a `created_at` must
be excepted.

**Access control.** For any workers, addresses, headers, amounts and periods, any TTL
and tick, and any account ids and nonces.
The invariant ties each window to the history of what it allowed: its k-th hit is
remembered as such, no earlier than a `Period` before its end; and each challenge to
the second of its issue. `BurstInv` adds what `BurstsBounded` needs: within the last
`Period` the hits under one name at one process belong to the open window or to the
one before it, each number occurs at most once in either, and number one of the older
window is gone. So the hits can be numbered from 1 to `2 * Limit - 1`.
`AcceptedChallenges` rests on where a joined text can be cut: at its first separator
if the accounts have none (`CutAtFirst`), at its last if the nonces have none
(`CutAtLast`).

**The watermark.** `WatermarkCodecProofs` proves for all integers that quantisation
leaves the bit's parity at a cost of at most a step and a half
(`EmbeddingCarriesBit`); that a value nearer than half a step gives its bit
(`BitSurvives`), also when read with the step that marking has changed
(`EnergyChangeTolerated`, with an exact bound); and which synchronisation values are
taken for their multiple (`SnapsToItsMultiple`) and which are not though they are
nearest to it (`SnapsAwayFromZero`, a finding). `BytesOfBits` says that packing bits
inverts unpacking, `MarkedBlockIsRead` that a block fresh from `Marked` gives its bits
under that bound (which 380 of the 384 cases of the `evidence` instance meet),
`MedianWithin` that a median lies within any majority of its ratios,
`DecodesWithinRadius` that at most one payload is within the code's reach.
The median is stated by ranks: the k-th smallest is a value with fewer than k below
it and at least k up to it, which is what sorting and indexing give.

**Evidence.** `CodecInv` says that an image keeps its shape under every event, that a
plan has an odd index on every synchronisation block and the bits of the payload's
codeword on the others, that only blocks of the image are harmed, and that a verdict
is what the image decodes to. With the lemmas above, `GainIsWithinIntact` follows, and
`RecoversWithinCapacity`: each byte without an unsteady block is read as it was
written, so the codeword read is within the radius. `MarksRegistered` and
`CommitmentsOpen` rest on `IInv`: what the registration at work has done by each of
its steps (`JobInv`: made under the secret in force, its row in the ledger once it
is stored), that every row is what those steps make, and that the payload in
circulation is one of a row. `ManifestsAreTheRows` rests on `DiskInv`: each uuid was
given to one registration, the file under it is its own, and it is whole for a row
whose write did not fail. `TypeCorrect` needs `CountInv`, that there is a marking
behind every uuid.
`OpenUnderTheirSecretOnly` rests on number theory that `EvidenceProofs` derives from
the definition of `Power`: the exponents below Q give different powers
(`GeneratorOrder`, `PowerTellsApart`), so a commitment has one value per randomness
(`CommitmentBinds`) and one second generator per opening (`CommitmentBindsSecret`).

What these assume of the constants is named where the constants are:

* `CodecAssumption`: codewords of different payloads differ in more than `EccBytes`
  bytes, and a byte has `ByteBits` bits. It is what reedsolo promises for
  `RSCodec(nsym)`; the algebra behind it is not modelled.
* `ImageAssumption`: images, and what a damaged block becomes, are blocks of integer
  coefficients; an amplitude change is a fraction, which may be zero.
* `GroupAssumption`, `GeneratorAssumption`: P = 2 Q + 1 with both prime and
  G^Q = 1 (mod P), as `zkp.py` says of RFC 3526's group 14 and g = 2. Primality is
  stated without division: no two smaller numbers have a product that P divides.
* `SizeAssumption`: the codeword fills its blocks exactly, as the code's 384 bits fill
  96 blocks of 4.

**The client.** For any number of clicks and reloads. The invariant says where a
handler must be for its request to be out, and that the service acts on no other
(`Network`, from which `FailurePlaceDecides` follows), that a promise not made was
not asked for (`Keys`), and that an awaited image belongs to the id shown or to a
handler that overlapped it (`Page`).

**Induction.** The definitions by recursion that the proofs need are recursive
functions over numbers. `Arithmetic` gives them what the library's induction rules,
whose parameter is an operator, cannot give here: `SetInduction` is about a *set* of
numbers that holds zero and is closed under successor, and `Recursion` says that a
function from numbers to numbers that follows a step exists. `Power`, `Shift`, `Byte`
and `Energy` are shown to follow theirs, and `Merge` to be one `Add` after another.

**Model-checked only.** Liveness (`EveryRequestSettles`, `EveryClickIsTold`) rests on
fairness and ENABLED, which the prover does not treat. The four runs that show a
disagreement are counterexamples, and need no proof.

## 5. Plan

What is left, in this order.

1. `EvidenceProofs`: the bound of `MarkedBlockIsRead` from the texture of the block
   alone, by bounding how much marking adds to its energy, and with it that every
   untouched image of such blocks is read.
2. `VeloClient` shown to use the service only as `AtomicLedger` allows: its steps on
   the ledger's variables are steps of it or stutters, as a theorem.
3. `Startup`: two workers running `create_all` at a first deployment, with and
   without the migrations of `Procfile` before it.
4. `LedgerRequests` with the refusals of its endpoints told apart, and the metadata
   and thumbnail routes.
5. `LedgerSearch` with the `within_threshold` flag and the manifest of a match.

## 6. What is not modelled, and why

DCT, floating-point hashes, Reed-Solomon algebra and C2PA signing are numerics
and libraries outside TLC's reach; the models take their outcomes as choices or
as assumptions. `KeyedPRNG` (`engine/prng.py`) has no caller in the service: the
engine walks the blocks in raster order, and a model of it would be of code that
does not run. The same holds of `authed_limit`, `verify_payload`, `commit_hash`,
`from_hex`, `get_by_commitment` and `session_scope`. In the client,
`verifyAgainstAsset` is never reached. How a response model writes the raw bytes of
a manifest is the library's. Migrations are DDL in a transaction of their own, run
before the workers start. Logging, schemas, health and the scripts keep no state.
The status of each part is in `PROJECT.json`.

Findings without a run are in `PROJECT.json`: the search on a database with migration
0002, a statement that Postgres cannot parse (`SearchRaises`), the replay of challenges, limits the
guide names and nothing enforces, the snap of the gain estimate, the width of a
commitment's hex form, the manifest's `pending` asset id and its unwritten or
truncated file, the separator in the text of a challenge's MAC, and the client's
missing import and header.
