---------------------------- MODULE VeloClient -----------------------------
(* The Wix page and its backend module, src/examples/velo, as a client of the *)
(* service: handlers of clicks run side by side, share the page and the       *)
(* cached promise of the API key, and wait for answers that may never come.   *)
(* The service is what AtomicLedger says of it.                               *)
EXTENDS Integers

CONSTANTS
    Embeds,          \* clicks of the embed button, on whatever picture
    Extracts,        \* clicks of the extract button
    NoClick,
    MaxReloads       \* bound: how often the backend module is loaded anew

Clicks == Embeds \cup Extracts

\* The request for the image of the asset that a click registered.
ImageOf(e) == <<"image", e>>
Fetches == {ImageOf(e) : e \in Embeds}

ASSUME ClientAssumption ==
    /\ Embeds \cap Extracts = {}
    /\ Clicks \cap Fetches = {}
    /\ NoClick \notin Clicks
    /\ MaxReloads \in Nat

VARIABLES
    stage,           \* what the handler of a click is waiting for
    failedAt,        \* where it failed: before its request was sent, or at which request
    sent,            \* the requests that were sent to the service
    loaded,          \* how often the backend module was loaded anew
    module,          \* the load of it that serves the click
    promise,         \* _apiKeyPromise of each load
    reads,           \* calls of getSecret in each load
    status,          \* #txtStatus: the click whose success it reports, if any
    shownId,         \* #txtAssetId
    shownImage,      \* #imgResult
    beside,          \* pairs of embeds whose handlers were at work together
    fate, began, answer     \* the service

Ledger == INSTANCE AtomicLedger
          WITH Lookups <- Fetches, Legacy <- {}, Asked <- [q \in Fetches |-> q[2]]

serviceVars == <<fate, began, answer>>
keyVars == <<loaded, promise, reads>>
pageVars == <<status, shownId, shownImage>>
vars == <<stage, failedAt, sent, keyVars, module, pageVars, beside, serviceVars>>

Loads == 0..MaxReloads
Waiting == {"upload", "key", "source", "posted", "image"}

Init ==
    /\ stage = [c \in Clicks |-> "idle"]
    /\ failedAt = [c \in Clicks |-> "nowhere"]
    /\ sent = {}
    /\ loaded = 0
    /\ module = [c \in Clicks |-> 0]
    /\ promise = [l \in Loads |-> "none"]
    /\ reads = [l \in Loads |-> 0]
    /\ status = NoClick
    /\ shownId = NoClick
    /\ shownImage = NoClick
    /\ beside = {}
    /\ Ledger!Init

AtWork == {e \in Embeds : stage[e] \in Waiting}

\* What failing at a stage is remembered as.
Place(s) == IF s \in {"posted", "image"} THEN s ELSE "before"

\* Progress, an error, or anything else that is not an asset's registration.
SaysElse == status' = NoClick

\* Mutant: the error is shown and the handler goes on.
FailOn(c) ==
    /\ failedAt' = [failedAt EXCEPT ![c] = Place(stage[c])]
    /\ SaysElse
    /\ UNCHANGED <<stage, shownId, shownImage>>

\* An exception reaches the handler's catch. What the page showed stays.
Fail(c) ==
    /\ stage' = [stage EXCEPT ![c] = "failed"]
    /\ failedAt' = [failedAt EXCEPT ![c] = Place(stage[c])]
    /\ SaysElse
    /\ UNCHANGED <<shownId, shownImage>>

-----------------------------------------------------------------------------
(* The key *)

\* Mutant: only what getSecret returned is kept, so others ask meanwhile.
GetApiKeyLate ==
    IF promise[loaded] \in {"none", "pending"}
    THEN /\ promise' = [promise EXCEPT ![loaded] = "pending"]
         /\ reads' = [reads EXCEPT ![loaded] = @ + 1]
    ELSE UNCHANGED <<promise, reads>>

\* The promise is kept as soon as it is made, whatever becomes of it.
GetApiKey ==
    IF promise[loaded] = "none"
    THEN /\ promise' = [promise EXCEPT ![loaded] = "pending"]
         /\ reads' = [reads EXCEPT ![loaded] = @ + 1]
    ELSE UNCHANGED <<promise, reads>>

Settles(l) ==
    /\ promise[l] = "pending"
    /\ \E outcome \in {"ok", "rejected"} : promise' = [promise EXCEPT ![l] = outcome]
    /\ UNCHANGED <<stage, failedAt, sent, loaded, reads, module, pageVars, beside, serviceVars>>

\* The platform loads the module anew; handlers of the old one go on with it.
Reload ==
    /\ loaded < MaxReloads
    /\ loaded' = loaded + 1
    /\ UNCHANGED <<stage, failedAt, sent, promise, reads, module, pageVars, beside, serviceVars>>

-----------------------------------------------------------------------------
(* Embed and extract, which share their first steps *)

\* The buttons stay as they are during a handler and nothing remembers what was
\* embedded: the next click, on the same picture or another, may come at any time.
ClickEmbed(e) ==
    /\ stage[e] = "idle"
    /\ stage' = [stage EXCEPT ![e] = "upload"]
    /\ beside' = beside \cup {{d, e} : d \in AtWork}
    /\ SaysElse
    /\ UNCHANGED <<failedAt, sent, keyVars, module, shownId, shownImage, serviceVars>>

ClickExtract(c) ==
    /\ stage[c] = "idle"
    /\ stage' = [stage EXCEPT ![c] = "upload"]
    /\ SaysElse
    /\ UNCHANGED <<failedAt, sent, keyVars, module, shownId, shownImage, beside,
                   serviceVars>>

\* No file is selected, or no id entered.
ClickInVain ==
    /\ SaysElse
    /\ UNCHANGED <<stage, failedAt, sent, keyVars, module, shownId, shownImage, beside,
                   serviceVars>>

\* The picture is in the platform's storage: the backend function asks for the key.
Uploaded(c) ==
    /\ stage[c] = "upload"
    /\ stage' = [stage EXCEPT ![c] = "key"]
    /\ module' = [module EXCEPT ![c] = loaded]
    /\ GetApiKey
    /\ IF c \in Embeds THEN SaysElse ELSE UNCHANGED status
    /\ UNCHANGED <<failedAt, sent, loaded, shownId, shownImage, beside, serviceVars>>

UploadFails(c) ==
    /\ stage[c] = "upload"
    /\ Fail(c)
    /\ UNCHANGED <<sent, keyVars, module, beside, serviceVars>>

KeyReady(c) ==
    /\ stage[c] = "key"
    /\ promise[module[c]] = "ok"
    /\ stage' = [stage EXCEPT ![c] = "source"]
    /\ UNCHANGED <<failedAt, sent, keyVars, module, pageVars, beside, serviceVars>>

\* A rejected promise is kept like any other: each later await throws again.
KeyFails(c) ==
    /\ stage[c] = "key"
    /\ promise[module[c]] = "rejected"
    /\ Fail(c)
    /\ UNCHANGED <<sent, keyVars, module, beside, serviceVars>>

\* The stored picture is fetched back: the request to the service goes out.
SourceArrives(c) ==
    /\ stage[c] = "source"
    /\ stage' = [stage EXCEPT ![c] = "posted"]
    /\ sent' = sent \cup {c}
    /\ UNCHANGED <<failedAt, keyVars, module, pageVars, beside, serviceVars>>

\* Mutant: the request goes out before the answer's status is looked at.
SourceFailsLate(c) ==
    /\ stage[c] = "source"
    /\ Fail(c)
    /\ sent' = sent \cup {c}
    /\ UNCHANGED <<keyVars, module, beside, serviceVars>>

SourceFails(c) ==
    /\ stage[c] = "source"
    /\ Fail(c)
    /\ UNCHANGED <<sent, keyVars, module, beside, serviceVars>>

\* Mutant: no time-out is given with the request.
NoTimeOut(c) ==
    /\ stage[c] = "posted"
    /\ c \in Embeds /\ answer[c] = "error"
    /\ Fail(c)
    /\ UNCHANGED <<sent, keyVars, module, beside, serviceVars>>

\* The request takes longer than REQUEST_TIMEOUT_SECONDS, or its connection
\* fails. The service knows nothing of it.
TimeOut(c) ==
    /\ stage[c] = "posted"
    /\ Fail(c)
    /\ UNCHANGED <<sent, keyVars, module, beside, serviceVars>>

-----------------------------------------------------------------------------
(* What an embed ends with *)

\* Mutant: the asset id is not put on the page.
ShowSuccessOnly(e) ==
    /\ status' = e
    /\ UNCHANGED shownId

\* The id of the asset is the click's in the model.
ShowSuccess(e) ==
    /\ status' = e
    /\ shownId' = e

\* Mutant: response.ok is not looked at.
EmbedAnsweredAnyhow(e) ==
    /\ stage[e] = "posted"
    /\ answer[e] # "none"
    /\ stage' = [stage EXCEPT ![e] = "image"]
    /\ ShowSuccess(e)
    /\ sent' = sent \cup {ImageOf(e)}
    /\ UNCHANGED <<failedAt, shownImage, keyVars, module, beside, serviceVars>>

\* The answer arrives: a success is shown at once and the image is asked for,
\* with no time-out.
EmbedAnswered(e) ==
    /\ stage[e] = "posted"
    /\ \/ /\ answer[e] = "success"
          /\ stage' = [stage EXCEPT ![e] = "image"]
          /\ ShowSuccess(e)
          /\ sent' = sent \cup {ImageOf(e)}
          /\ UNCHANGED <<failedAt, shownImage>>
       \/ /\ answer[e] = "error"
          /\ Fail(e)
          /\ UNCHANGED sent
    /\ UNCHANGED <<keyVars, module, beside, serviceVars>>

\* The image arrives.
ImageArrives(e) ==
    /\ stage[e] = "image"
    /\ answer[ImageOf(e)] = "success"
    /\ stage' = [stage EXCEPT ![e] = "done"]
    /\ shownImage' = e
    /\ UNCHANGED <<failedAt, sent, keyVars, module, status, shownId, beside, serviceVars>>

\* The image is refused or the connection fails: the page says that the embed did.
ImageFails(e) ==
    /\ stage[e] = "image"
    /\ Fail(e)
    /\ UNCHANGED <<sent, keyVars, module, beside, serviceVars>>

-----------------------------------------------------------------------------
(* The other handlers *)

\* An extraction is answered: a match by payload, a match without, or none.
ExtractAnswered(c) ==
    /\ stage[c] = "posted"
    /\ stage' = [stage EXCEPT ![c] = "done"]
    /\ SaysElse
    /\ UNCHANGED <<failedAt, sent, keyVars, module, shownId, shownImage, beside, serviceVars>>

\* The page code does not import wixUsers: the handler throws on its first use.
Verify ==
    /\ SaysElse
    /\ UNCHANGED <<stage, failedAt, sent, keyVars, module, shownId, shownImage, beside,
                   serviceVars>>

\* The assets whose id a user has seen.
Known == {e \in Embeds : stage[e] \in {"image", "done"} \/ failedAt[e] = "image"}

\* A look-up ends: its metadata arrives; or something else does, or the connection
\* fails, and the page says "asset not found" whatever it was.
LookUp(e) ==
    /\ e \in Known
    /\ SaysElse
    /\ UNCHANGED <<stage, failedAt, sent, keyVars, module, shownId, shownImage, beside,
                   serviceVars>>

-----------------------------------------------------------------------------
(* Together with the service *)

\* What the service does with the requests it was sent, and what a process of
\* it takes along when it dies.
ServiceStep ==
    /\ \/ \E e \in Embeds \cap sent : Ledger!Register(e) \/ Ledger!AnswerEmbed(e)
       \/ \E S \in SUBSET (Embeds \cap sent) : Ledger!Drop(S)
       \/ \E q \in Fetches \cap sent : Ledger!Ask(q) \/ Ledger!AnswerLookup(q)
    /\ UNCHANGED <<stage, failedAt, sent, keyVars, module, pageVars, beside>>

\* The handler of a click goes on, up to the answer of its request.
Advance(c) ==
    \/ Uploaded(c)
    \/ UploadFails(c)
    \/ KeyReady(c)
    \/ KeyFails(c)
    \/ SourceArrives(c)
    \/ SourceFails(c)
    \/ TimeOut(c)

EmbedStep(e) ==
    \/ ClickEmbed(e)
    \/ EmbedAnswered(e)
    \/ ImageArrives(e)
    \/ ImageFails(e)
    \/ LookUp(e)

Next ==
    \/ \E c \in Clicks : Advance(c)
    \/ \E e \in Embeds : EmbedStep(e)
    \/ \E c \in Extracts : ClickExtract(c) \/ ExtractAnswered(c)
    \/ \E l \in Loads : Settles(l)
    \/ Reload
    \/ ClickInVain
    \/ Verify
    \/ ServiceStep

\* Promises of the platform settle and the time-out of a request runs out.
\* Nothing is assumed of the service or of the connection to it.
Fairness ==
    /\ \A c \in Clicks : WF_vars(Advance(c))
    /\ \A l \in Loads : WF_vars(Settles(l))

Spec == Init /\ [][Next]_vars /\ Fairness

-----------------------------------------------------------------------------
(* Properties *)

\* The values of the variables are of their kinds; a handler ends when its
\* exception is shown (the catch of each handler).
TypeOK ==
    /\ stage \in [Clicks -> Waiting \cup {"idle", "done", "failed"}]
    /\ failedAt \in [Clicks -> {"nowhere", "before", "posted", "image"}]
    /\ \A c \in Clicks : stage[c] = "failed" <=> failedAt[c] # "nowhere"
    /\ sent \subseteq Clicks \cup Fetches
    /\ loaded \in Loads
    /\ module \in [Clicks -> Loads]
    /\ promise \in [Loads -> {"none", "pending", "ok", "rejected"}]
    /\ reads \in [Loads -> Nat]
    /\ {status, shownId, shownImage} \subseteq Embeds \cup {NoClick}
    /\ beside \subseteq SUBSET Embeds
    /\ fate \in [Embeds -> {"open", "in", "out"}]

\* An asset that the page says was registered, or shows the id or the image of,
\* is in the ledger for good, whatever other handlers, time-outs and crashes of
\* the service did meanwhile (embedWatermark, btnEmbed_onClick).
SuccessIsRegistered ==
    \A e \in Embeds :
       e \in {status, shownId, shownImage} => fate[e] = "in"

\* Where a handler failed tells what became of its picture. A click told a failure
\* before its request went out leaves no row, however late the service acts; one
\* told a failure when only the preview was missing has its row, though the page
\* says that the embed failed. Between the two, at the time-out or a lost answer,
\* it may be either, and whoever clicks again may register the picture twice.
FailurePlaceTellsFate ==
    \A e \in Embeds :
       /\ failedAt[e] = "before" => fate[e] # "in"
       /\ failedAt[e] = "image" => fate[e] = "in"

\* However many handlers need the key at once, a load of the module reads the
\* secret once (getApiKey: "Read once at module load and cache").
ReadOnce == \A l \in Loads : reads[l] <= 1

\* The image on the page belongs to the id beside it; or the id's own image is
\* under way or failed; or the handlers of the two were at work together, and
\* the older one's image came last (btnEmbed_onClick).
PreviewMatchesId ==
    \/ shownImage \in {NoClick, shownId}
    \/ /\ shownId \in Embeds
       /\ \/ stage[shownId] = "image"
          \/ failedAt[shownId] = "image"
          \/ {shownId, shownImage} \in beside

\* Every click is told something, though the service may never answer: the
\* time-out ends the wait for it, and a shared promise that is rejected ends
\* the wait of all who share it.
EveryClickIsTold ==
    \A c \in Clicks : stage[c] = "upload" ~> stage[c] \in {"image", "done", "failed"}

=============================================================================
