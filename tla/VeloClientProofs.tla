-------------------------- MODULE VeloClientProofs --------------------------
(* The safety properties of the client for any number of clicks and of loads   *)
(* of its module.                                                             *)
EXTENDS VeloClient, TLAPS

Answers == {"none", "success", "error", "gone", "missing"}

\* What was sent follows from where a handler is, and the service registers and
\* answers only what was sent.
Network ==
    /\ answer \in [Embeds \cup Fetches -> Answers]
    /\ \A c \in Clicks :
          c \in sent => stage[c] \in {"posted", "image", "done"}
                        \/ failedAt[c] \in {"posted", "image"}
    /\ \A e \in Embeds :
          /\ fate[e] = "in" => e \in sent
          /\ answer[e] = "success" => fate[e] = "in"

\* A promise that was not made was not asked for, and every other was, once.
Keys == \A l \in Loads : reads[l] = IF promise[l] = "none" THEN 0 ELSE 1

\* Handlers at work together are remembered; an image that is still awaited
\* belongs to the id that is shown or to a handler that the id's met.
Page ==
    /\ NoClick \notin Embeds
    /\ \A d, e \in Embeds :
          d # e /\ stage[d] \in Waiting /\ stage[e] \in Waiting => {d, e} \in beside
    /\ \A e \in Embeds :
          /\ stage[e] = "image" =>
                \/ shownId = e
                \/ shownId \in Embeds /\ {shownId, e} \in beside
          /\ e \in {status, shownId, shownImage} => fate[e] = "in"
          /\ stage[e] \in {"image", "done"} => fate[e] = "in"
          /\ failedAt[e] = "image" => fate[e] = "in"
    /\ shownImage # NoClick => shownId # NoClick

IInv == TypeOK /\ Network /\ Keys /\ Page /\ PreviewMatchesId

LEMMA InitInv == Init => IInv
  <1> SUFFICES ASSUME Init PROVE IInv
    OBVIOUS
  <1> USE DEF Init, Ledger!Init, Clicks, Loads, Waiting
  <1>1. TypeOK
    BY ClientAssumption DEF TypeOK
  <1>2. Network
    BY DEF Network, Answers
  <1>3. Keys
    BY DEF Keys
  <1>4. Page /\ PreviewMatchesId
    BY ClientAssumption DEF Page, PreviewMatchesId
  <1> QED BY <1>1, <1>2, <1>3, <1>4 DEF IInv

-----------------------------------------------------------------------------
(* Steps of the handlers *)

\* An exception, wherever it comes from, only ends the handler.
LEMMA FailInv ==
    ASSUME IInv, NEW c \in Clicks, stage[c] \in Waiting, Fail(c),
           UNCHANGED <<sent, keyVars, module, beside, serviceVars>>
    PROVE  IInv'
  <1>1. Place(stage[c]) \in {"before", "posted", "image"}
    BY Zenon DEF Place
  <1> USE DEF IInv, Fail, SaysElse, keyVars, serviceVars
  <1>2. TypeOK'
    <2>1. failedAt' \in [Clicks -> {"nowhere", "before", "posted", "image"}]
      <3> HIDE DEF Place
      <3> QED BY <1>1 DEF TypeOK
    <2>2. stage' \in [Clicks -> Waiting \cup {"idle", "done", "failed"}]
      BY DEF TypeOK
    <2>3. stage'[c] = "failed" /\ failedAt'[c] # "nowhere"
      BY <1>1 DEF TypeOK
    <2>4. \A d \in Clicks : d # c => stage'[d] = stage[d] /\ failedAt'[d] = failedAt[d]
      BY DEF TypeOK
    <2> HIDE DEF Fail
    <2>5. UNCHANGED <<sent, loaded, module, promise, reads, shownId, shownImage, beside, fate>>
          /\ status' = NoClick
      BY DEF Fail
    <2> QED BY <2>1, <2>2, <2>3, <2>4, <2>5 DEF TypeOK
  <1>3. Network'
    BY DEF TypeOK, Network, Place, Waiting, Clicks
  <1>4. Keys'
    BY DEF Keys
  <1>5. Page'
    <2>1. ASSUME NEW e \in Embeds, stage'[e] # "failed" PROVE stage'[e] = stage[e]
      BY <2>1 DEF TypeOK, Clicks
    <2>2. UNCHANGED <<shownId, shownImage, beside, fate>> /\ status' = NoClick
      OBVIOUS
    <2>3. "failed" \notin Waiting
      BY DEF Waiting
    <2>4. ASSUME NEW e \in Embeds, failedAt'[e] = "image"
          PROVE  failedAt[e] = "image" \/ stage[e] = "image"
      BY <2>4 DEF TypeOK, Place, Clicks
    <2> QED BY <2>1, <2>2, <2>3, <2>4 DEF Page
  <1>6. PreviewMatchesId'
    <2>1. shownId \in Embeds /\ stage[shownId] = "image" =>
             stage'[shownId] = "image" \/ failedAt'[shownId] = "image"
      BY DEF TypeOK, Place, Clicks
    <2>2. shownId \in Embeds /\ failedAt[shownId] = "image" => failedAt'[shownId] = "image"
      <3>1. failedAt[c] = "nowhere"
        BY DEF TypeOK, Waiting
      <3> QED BY <3>1 DEF TypeOK, Clicks
    <2> QED BY <2>1, <2>2 DEF PreviewMatchesId
  <1> QED BY <1>2, <1>3, <1>4, <1>5, <1>6

LEMMA ClickEmbedInv == ASSUME IInv, NEW e \in Embeds, ClickEmbed(e) PROVE IInv'
  <1> USE DEF IInv, ClickEmbed, SaysElse, keyVars, serviceVars
  <1>1. TypeOK'
    <2>1. e \in Clicks /\ AtWork \subseteq Embeds
      BY DEF Clicks, AtWork
    <2>2. beside' \subseteq SUBSET Embeds
      <3>1. \A d \in AtWork : {d, e} \in SUBSET Embeds
        BY <2>1
      <3> QED BY <3>1 DEF TypeOK
    <2>3. stage' \in [Clicks -> Waiting \cup {"idle", "done", "failed"}]
      BY <2>1 DEF TypeOK, Waiting
    <2>4. \A c \in Clicks : stage'[c] = "failed" <=> failedAt'[c] # "nowhere"
      BY <2>1 DEF TypeOK
    <2>5. UNCHANGED <<failedAt, sent, loaded, module, promise, reads, shownId, shownImage, fate>>
          /\ status' = NoClick
      OBVIOUS
    <2> HIDE DEF ClickEmbed
    <2> QED BY <2>2, <2>3, <2>4, <2>5 DEF TypeOK
  <1>2. Network'
    BY DEF TypeOK, Network, Clicks
  <1>3. Keys'
    BY DEF Keys
  <1>4. Page'
    <2>1. ASSUME NEW d1 \in Embeds, NEW d2 \in Embeds, d1 # d2,
                 stage'[d1] \in Waiting, stage'[d2] \in Waiting
          PROVE  {d1, d2} \in beside'
      <3>1. \A d \in Embeds : d # e => stage'[d] = stage[d]
        BY DEF TypeOK, Clicks
      <3>2. CASE d1 = e
        BY <2>1, <3>1, <3>2 DEF AtWork
      <3>3. CASE d2 = e
        BY <2>1, <3>1, <3>3 DEF AtWork
      <3>4. CASE d1 # e /\ d2 # e
        BY <2>1, <3>1, <3>4 DEF Page
      <3> QED BY <3>2, <3>3, <3>4
    <2>2. beside \subseteq beside' /\ \A d \in Embeds : d # e => stage'[d] = stage[d]
      BY DEF TypeOK, Clicks
    <2>3. stage'[e] = "upload"
      BY DEF TypeOK, Clicks
    <2> QED BY <2>1, <2>2, <2>3 DEF Page
  <1>5. PreviewMatchesId'
    BY DEF TypeOK, Page, PreviewMatchesId, Clicks
  <1> QED BY <1>1, <1>2, <1>3, <1>4, <1>5

\* A step of an extraction touches nothing of the embeds but the status.
LEMMA ExtractInv ==
    ASSUME IInv, NEW c \in Extracts, ClickExtract(c) \/ ExtractAnswered(c)
    PROVE  IInv'
  <1>1. c \in Clicks /\ c \notin Embeds
    BY ClientAssumption DEF Clicks
  <1>2. /\ stage' = [stage EXCEPT ![c] = IF stage[c] = "idle" THEN "upload" ELSE "done"]
        /\ stage[c] \in {"idle", "posted"}
        /\ status' = NoClick
        /\ UNCHANGED <<failedAt, sent, loaded, promise, reads, module, shownId, shownImage,
                       beside, fate, began, answer>>
    BY DEF ClickExtract, ExtractAnswered, SaysElse, keyVars, serviceVars
  <1>3. stage' \in [Clicks -> Waiting \cup {"idle", "done", "failed"}]
    BY <1>2 DEF IInv, TypeOK, Waiting
  <1>4. \A e \in Embeds : stage'[e] = stage[e]
    BY <1>1, <1>2 DEF IInv, TypeOK, Clicks
  <1>5. TypeOK'
    BY <1>1, <1>2, <1>3, <1>4 DEF IInv, TypeOK
  <1>6. Network'
    BY <1>1, <1>2 DEF IInv, TypeOK, Network
  <1>7. Keys' /\ PreviewMatchesId'
    BY <1>2, <1>4 DEF IInv, Keys, PreviewMatchesId
  <1>8. Page'
    BY <1>2, <1>4 DEF IInv, Page
  <1> QED BY <1>5, <1>6, <1>7, <1>8 DEF IInv

\* Up to the request, only the handler's place and the key are touched.
LEMMA UploadedInv == ASSUME IInv, NEW c \in Clicks, Uploaded(c) PROVE IInv'
  <1> USE DEF IInv
  <1>1. /\ stage[c] = "upload" /\ stage' = [stage EXCEPT ![c] = "key"]
        /\ module' = [module EXCEPT ![c] = loaded]
        /\ status' \in {status, NoClick}
        /\ GetApiKey
        /\ UNCHANGED <<failedAt, sent, loaded, shownId, shownImage, beside,
                       fate, began, answer>>
    BY DEF Uploaded, SaysElse, serviceVars
  <1>2. loaded \in Loads
    BY DEF TypeOK
  <1>3. /\ promise' \in [Loads -> {"none", "pending", "ok", "rejected"}]
        /\ reads' \in [Loads -> Nat]
        /\ Keys'
    BY <1>1, <1>2 DEF GetApiKey, TypeOK, Keys
  <1>4. /\ stage' \in [Clicks -> Waiting \cup {"idle", "done", "failed"}]
        /\ module' \in [Clicks -> Loads]
        /\ stage'[c] = "key"
        /\ \A d \in Clicks : d # c => stage'[d] = stage[d]
    BY <1>1, <1>2 DEF TypeOK, Waiting
  <1>5. TypeOK'
    BY <1>1, <1>3, <1>4 DEF TypeOK, Clicks
  <1>6. Network'
    BY <1>1, <1>4 DEF TypeOK, Network, Clicks
  <1>7. PreviewMatchesId'
    BY <1>1, <1>4 DEF Page, PreviewMatchesId, Clicks
  <1>8. Page'
    BY <1>1, <1>4 DEF Page, Clicks, Waiting
  <1> QED BY <1>3, <1>5, <1>6, <1>7, <1>8

LEMMA KeyReadyInv == ASSUME IInv, NEW c \in Clicks, KeyReady(c) PROVE IInv'
  <1> USE DEF IInv
  <1>1. /\ stage[c] = "key" /\ stage' = [stage EXCEPT ![c] = "source"]
        /\ UNCHANGED <<failedAt, sent, loaded, promise, reads, module, status, shownId,
                       shownImage, beside, fate, began, answer>>
    BY DEF KeyReady, keyVars, pageVars, serviceVars
  <1>2. /\ stage' \in [Clicks -> Waiting \cup {"idle", "done", "failed"}]
        /\ stage'[c] = "source"
        /\ \A d \in Clicks : d # c => stage'[d] = stage[d]
    BY <1>1 DEF TypeOK, Waiting
  <1>3. TypeOK'
    BY <1>1, <1>2 DEF TypeOK, Clicks
  <1>4. Network'
    BY <1>1, <1>2 DEF Network, Clicks
  <1>5. Keys' /\ PreviewMatchesId'
    BY <1>1, <1>2 DEF Keys, Page, PreviewMatchesId, Clicks
  <1>6. Page'
    BY <1>1, <1>2 DEF Page, Clicks, Waiting
  <1> QED BY <1>3, <1>4, <1>5, <1>6

LEMMA SourceArrivesInv == ASSUME IInv, NEW c \in Clicks, SourceArrives(c) PROVE IInv'
  <1> USE DEF IInv
  <1>1. /\ stage[c] = "source" /\ stage' = [stage EXCEPT ![c] = "posted"]
        /\ sent' = sent \cup {c}
        /\ UNCHANGED <<failedAt, loaded, promise, reads, module, status, shownId,
                       shownImage, beside, fate, began, answer>>
    BY DEF SourceArrives, keyVars, pageVars, serviceVars
  <1>2. /\ stage' \in [Clicks -> Waiting \cup {"idle", "done", "failed"}]
        /\ stage'[c] = "posted"
        /\ \A d \in Clicks : d # c => stage'[d] = stage[d]
    BY <1>1 DEF TypeOK, Waiting
  <1>3. TypeOK'
    BY <1>1, <1>2 DEF TypeOK, Clicks
  <1>4. Network'
    BY <1>1, <1>2 DEF Network, Clicks
  <1>5. Keys' /\ PreviewMatchesId'
    BY <1>1, <1>2 DEF Keys, Page, PreviewMatchesId, Clicks
  <1>6. Page'
    BY <1>1, <1>2 DEF Page, Clicks, Waiting
  <1> QED BY <1>3, <1>4, <1>5, <1>6

\* A success of the service is shown while other handlers are at work.
LEMMA EmbedAnsweredInv == ASSUME IInv, NEW e \in Embeds, EmbedAnswered(e) PROVE IInv'
  <1>1. e \in Clicks
    BY DEF Clicks
  <1>2. CASE answer[e] = "success"
    <2> USE DEF IInv
    <2>1. /\ stage[e] = "posted" /\ stage' = [stage EXCEPT ![e] = "image"]
          /\ status' = e /\ shownId' = e
          /\ sent' = sent \cup {ImageOf(e)}
          /\ UNCHANGED <<failedAt, shownImage, loaded, promise, reads, module, beside, fate, began, answer>>
      BY <1>2 DEF EmbedAnswered, ShowSuccess, keyVars, serviceVars
    <2>2. /\ stage' \in [Clicks -> Waiting \cup {"idle", "done", "failed"}]
          /\ stage'[e] = "image"
          /\ \A d \in Clicks : d # e => stage'[d] = stage[d]
      BY <1>1, <2>1 DEF TypeOK, Waiting
    <2>3. fate[e] = "in"
      BY <1>2 DEF Network
    <2>4. ImageOf(e) \in Fetches
      BY DEF Fetches
    <2>5. TypeOK'
      BY <1>1, <2>1, <2>2, <2>4 DEF TypeOK, Clicks
    <2>6. Network'
      <3>1. \A c \in Clicks : c \in sent' <=> c \in sent
        BY <2>1, <2>4, ClientAssumption
      <3> QED BY <1>1, <2>1, <2>2, <3>1 DEF Network, Clicks
    <2>7. Keys' /\ PreviewMatchesId'
      BY <1>1, <2>1, <2>2 DEF Keys, Page, PreviewMatchesId, Clicks
    <2>8. Page'
      <3>1. \A d \in Embeds : stage'[d] \in Waiting <=> stage[d] \in Waiting
        BY <1>1, <2>1, <2>2 DEF Clicks, Waiting
      <3>2. \A d1, d2 \in Embeds :
               d1 # d2 /\ stage[d1] \in Waiting /\ stage[d2] \in Waiting
                  => {d1, d2} \in beside
        BY DEF Page
      <3>3. ASSUME NEW d \in Embeds, d # e, stage'[d] = "image" PROVE {shownId', d} \in beside'
        BY <2>1, <2>2, <3>1, <3>2, <3>3 DEF Waiting
      <3>4. \A d \in Embeds :
               /\ d \in {status', shownId', shownImage'} => fate'[d] = "in"
               /\ stage'[d] \in {"image", "done"} => fate'[d] = "in"
               /\ failedAt'[d] = "image" => fate'[d] = "in"
        BY <1>1, <2>1, <2>2, <2>3 DEF Page, Clicks
      <3>5. NoClick \notin Embeds /\ shownId' # NoClick /\ shownId' \in Embeds
        BY <2>1 DEF Page
      <3>6. \A d \in Embeds : stage'[d] = "image" =>
               \/ shownId' = d
               \/ shownId' \in Embeds /\ {shownId', d} \in beside'
        BY <2>1, <3>3, <3>5
      <3>7. \A d1, d2 \in Embeds :
               d1 # d2 /\ stage'[d1] \in Waiting /\ stage'[d2] \in Waiting
                  => {d1, d2} \in beside'
        BY <2>1, <3>1, <3>2
      <3> QED BY <3>4, <3>5, <3>6, <3>7 DEF Page
    <2> QED BY <2>5, <2>6, <2>7, <2>8
  <1>3. CASE answer[e] # "success"
    BY <1>1, <1>3, FailInv DEF EmbedAnswered, Waiting
  <1> QED BY <1>2, <1>3

LEMMA ImageArrivesInv == ASSUME IInv, NEW e \in Embeds, ImageArrives(e) PROVE IInv'
  <1> USE DEF IInv
  <1>1. /\ stage[e] = "image" /\ stage' = [stage EXCEPT ![e] = "done"]
        /\ shownImage' = e
        /\ UNCHANGED <<failedAt, sent, loaded, promise, reads, module, status, shownId,
                       beside, fate, began, answer>>
    BY DEF ImageArrives, keyVars, serviceVars
  <1>2. /\ stage' \in [Clicks -> Waiting \cup {"idle", "done", "failed"}]
        /\ stage'[e] = "done"
        /\ \A d \in Clicks : d # e => stage'[d] = stage[d]
    BY <1>1 DEF TypeOK, Clicks
  <1>3. fate[e] = "in" /\ shownId # NoClick
    BY <1>1 DEF Page
  <1>4. TypeOK'
    BY <1>1, <1>2 DEF TypeOK, Clicks
  <1>5. Network'
    BY <1>1, <1>2 DEF Network, Clicks
  <1>6. Keys'
    BY <1>1, <1>2 DEF Keys, Clicks
  <1>7. PreviewMatchesId'
    BY <1>1 DEF Page, PreviewMatchesId
  <1>8. Page'
    BY <1>1, <1>2, <1>3 DEF Page, Clicks, Waiting
  <1> QED BY <1>4, <1>5, <1>6, <1>7, <1>8

\* Other handlers, and a promise that settles.
LEMMA OtherInv ==
    ASSUME IInv,
           Verify \/ ClickInVain \/ Reload \/ (\E e \in Embeds : LookUp(e))
                  \/ (\E l \in Loads : Settles(l))
    PROVE  IInv'
  <1> USE DEF IInv
  <1>1. /\ UNCHANGED <<stage, failedAt, sent, reads, module, shownId, shownImage,
                       beside, fate, began, answer>>
        /\ status' \in {status, NoClick}
    BY DEF Verify, ClickInVain, Reload, LookUp, Settles, SaysElse, keyVars, pageVars,
           serviceVars
  <1>2. loaded' \in Loads
    BY ClientAssumption
       DEF Verify, ClickInVain, Reload, LookUp, Settles, keyVars, Loads, TypeOK
  <1>3. /\ promise' \in [Loads -> {"none", "pending", "ok", "rejected"}]
        /\ \A l \in Loads : promise'[l] = "none" <=> promise[l] = "none"
    BY DEF Verify, ClickInVain, Reload, LookUp, Settles, keyVars, TypeOK
  <1>4. TypeOK'
    BY <1>1, <1>2, <1>3 DEF TypeOK
  <1>5. Network' /\ Keys' /\ PreviewMatchesId'
    BY <1>1, <1>3 DEF Network, Keys, PreviewMatchesId
  <1>6. Page'
    BY <1>1 DEF Page
  <1> QED BY <1>4, <1>5, <1>6

-----------------------------------------------------------------------------
(* Steps of the service *)

LEMMA ServiceInv == IInv /\ ServiceStep => IInv'
  <1> SUFFICES ASSUME IInv, ServiceStep PROVE IInv'
    OBVIOUS
  <1> USE DEF IInv
  <1>1. UNCHANGED <<stage, failedAt, sent, loaded, promise, reads, module, status,
                    shownId, shownImage, beside>>
    BY DEF ServiceStep, keyVars, pageVars
  <1>2. /\ fate' \in [Embeds -> {"open", "in", "out"}]
        /\ answer' \in [Embeds \cup Fetches -> Answers]
        /\ \A e \in Embeds : /\ fate[e] = "in" => fate'[e] = "in"
                             /\ fate'[e] = "in" => fate[e] = "in" \/ e \in sent
                             /\ answer'[e] = "success" => fate'[e] = "in"
    <2>1. ASSUME NEW e \in Embeds \cap sent, Ledger!Register(e) PROVE <1>2
      BY <2>1 DEF Ledger!Register, TypeOK, Network
    <2>2. ASSUME NEW e \in Embeds \cap sent, Ledger!AnswerEmbed(e) PROVE <1>2
      BY <2>2 DEF Ledger!AnswerEmbed, TypeOK, Network, Answers
    <2>3. ASSUME NEW S \in SUBSET (Embeds \cap sent), Ledger!Drop(S) PROVE <1>2
      BY <2>3 DEF Ledger!Drop, TypeOK, Network
    <2>4. ASSUME NEW q \in Fetches \cap sent, Ledger!Ask(q) PROVE <1>2
      BY <2>4 DEF Ledger!Ask, TypeOK, Network
    <2>5. ASSUME NEW q \in Fetches \cap sent, Ledger!AnswerLookup(q) PROVE <1>2
      <3>1. q \notin Embeds
        BY ClientAssumption DEF Clicks
      <3> QED BY <2>5, <3>1 DEF Ledger!AnswerLookup, TypeOK, Network, Answers
    <2> QED BY <2>1, <2>2, <2>3, <2>4, <2>5 DEF ServiceStep
  <1>3. TypeOK'
    BY <1>1, <1>2 DEF TypeOK
  <1>4. Network'
    BY <1>1, <1>2 DEF Network
  <1>5. Keys' /\ PreviewMatchesId'
    BY <1>1 DEF Keys, PreviewMatchesId
  <1>6. Page'
    BY <1>1, <1>2 DEF Page
  <1> QED BY <1>3, <1>4, <1>5, <1>6

-----------------------------------------------------------------------------
(* The theorems *)

LEMMA StepInv == IInv /\ [Next]_vars => IInv'
  <1> SUFFICES ASSUME IInv, [Next]_vars PROVE IInv'
    OBVIOUS
  <1>1. ASSUME NEW c \in Clicks, Advance(c) PROVE IInv'
    <2>1. CASE UploadFails(c)
      BY <2>1, FailInv DEF UploadFails, Waiting
    <2>2. CASE KeyFails(c)
      BY <2>2, FailInv DEF KeyFails, Waiting
    <2>3. CASE SourceFails(c)
      BY <2>3, FailInv DEF SourceFails, Waiting
    <2>4. CASE TimeOut(c)
      BY <2>4, FailInv DEF TimeOut, Waiting
    <2> QED BY <1>1, <2>1, <2>2, <2>3, <2>4, UploadedInv, KeyReadyInv, SourceArrivesInv
            DEF Advance
  <1>2. ASSUME NEW e \in Embeds, EmbedStep(e) PROVE IInv'
    <2>1. CASE ImageFails(e)
      BY <2>1, FailInv DEF ImageFails, Waiting, Clicks
    <2> QED BY <1>2, <2>1, ClickEmbedInv, EmbedAnsweredInv, ImageArrivesInv, OtherInv
            DEF EmbedStep
  <1>3. CASE UNCHANGED vars
    BY <1>3 DEF vars, IInv, TypeOK, Network, Keys, Page, PreviewMatchesId,
                keyVars, pageVars, serviceVars
  <1> QED BY <1>1, <1>2, <1>3, ExtractInv, OtherInv, ServiceInv DEF Next

THEOREM InductiveInvariant == Spec => []IInv
  BY InitInv, StepInv, PTL DEF Spec

\* The type invariant of the client and of the service behind it.
THEOREM TypeCorrect == Spec => []TypeOK
  <1>1. IInv => TypeOK
    BY DEF IInv
  <1> QED BY <1>1, InductiveInvariant, PTL

\* What the page shows as registered is in the ledger, for good.
THEOREM SuccessRegistered == Spec => []SuccessIsRegistered
  <1>1. IInv => SuccessIsRegistered
    BY DEF IInv, Page, SuccessIsRegistered
  <1> QED BY <1>1, InductiveInvariant, PTL

\* Where a handler failed tells what became of its picture: no row before the
\* request went out, a row when only the preview was missing.
THEOREM FailurePlaceDecides == Spec => []FailurePlaceTellsFate
  <1>1. ASSUME IInv PROVE FailurePlaceTellsFate
    <2> SUFFICES ASSUME NEW e \in Embeds
                 PROVE  /\ failedAt[e] = "before" => fate[e] # "in"
                        /\ failedAt[e] = "image" => fate[e] = "in"
      BY DEF FailurePlaceTellsFate
    <2>1. failedAt[e] = "before" => stage[e] = "failed" /\ e \in Clicks
      BY <1>1 DEF IInv, TypeOK, Clicks
    <2> QED BY <1>1, <2>1 DEF IInv, Network, Page
  <1> QED BY <1>1, InductiveInvariant, PTL

\* A load of the module reads the secret at most once.
THEOREM SecretReadOnce == Spec => []ReadOnce
  <1>1. IInv => ReadOnce
    BY DEF IInv, Keys, ReadOnce
  <1> QED BY <1>1, InductiveInvariant, PTL

\* The preview belongs to the id beside it, but for the cases that are named.
THEOREM PreviewMatches == Spec => []PreviewMatchesId
  <1>1. IInv => PreviewMatchesId
    BY DEF IInv
  <1> QED BY <1>1, InductiveInvariant, PTL

=============================================================================
