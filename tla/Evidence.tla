------------------------------ MODULE Evidence -----------------------------
(* An image from its registration to the reading of what is left of it:       *)
(* ForensicsService.embed_and_register marks it and commits to what it marked *)
(* it with, the image goes through its channel, extract_watermark reads it    *)
(* and the ledger is asked. Deployments may change SECRET_KEY in between.     *)
EXTENDS WatermarkCodec, Pedersen, Manifests

CONSTANTS
    Claims,          \* account, timestamp in microseconds and device of an embed
    PayloadOf,       \* generate_payload: the truncated HMAC of a claim under a secret
    Hashes,          \* what PerceptualHasher may say of an upload
    Digest,          \* the SHA-256 that _commitment_input takes, below Q
    FirstSecret,     \* SECRET_KEY of the first deployment
    Randomness       \* what secrets.randbelow(Q) may return in the model

ASSUME EvidenceAssumption ==
    /\ PayloadOf \in [Secrets \X Claims -> Payloads]
    /\ Digest \in [Payloads \X Hashes \X Claims -> 0..Q - 1]
    /\ Randomness \subseteq 0..Q - 1
    /\ FirstSecret \in Secrets

VARIABLES
    secret,          \* SECRET_KEY of the deployment
    deployment,      \* how often the service was deployed anew
    uuids,           \* how many manifests were given a uuid
    job,             \* the registration at work
    rows             \* the ledger, in the order of registration

serviceVars == <<secret, deployment, uuids, job, rows, disk>>
vars == <<imageVars, verdict, serviceVars>>

\* The payload of a claim under a secret.
Payload(s, claim) == PayloadOf[<<s, claim>>]

\* What a row commits to: the payload, the hashes and the account.
CommitmentInput(p, hashes, claim) == Digest[<<p, hashes, claim>>]

NoJob == [step |-> "idle"]
NoCommitment == [c |-> 0, v |-> 0, r |-> 0]
NoReference == [uuid |-> 0, kind |-> "none"]

Init ==
    /\ CodecInit
    /\ secret = FirstSecret
    /\ deployment = 0
    /\ uuids = 0
    /\ job = NoJob
    /\ rows = <<>>
    /\ ManifestInit

-----------------------------------------------------------------------------
(* embed_and_register, step by step. The image in circulation is the upload   *)
(* meanwhile: what marking makes of it is settled by the claim and the noise  *)
(* and takes its place when it goes out.                                      *)

\* embed_watermark: the image is large enough, and is marked in memory.
Mark(claim, e) ==
    /\ job = NoJob
    /\ Enough(image.blocks)
    /\ job' = [step |-> "marked", claim |-> claim, noise |-> e,
               commitment |-> NoCommitment, reference |-> NoReference, written |-> "no"]
    /\ verdict' = NoVerdict
    /\ Happens
    /\ UNCHANGED <<image, payload, plan, gain, harmed, secret, deployment, uuids, rows, disk>>

\* _check_capacity refuses the image.
MarkRefused ==
    /\ job = NoJob
    /\ ~Enough(image.blocks)
    /\ verdict' = [NoVerdict EXCEPT !.status = "capacity"]
    /\ UNCHANGED <<imageVars, serviceVars>>

\* The commitment is made, if commit does not refuse its arguments.
Bind(hashes, r) ==
    LET v == CommitmentInput(Payload(secret, job.claim), hashes, job.claim) IN
    /\ job.step = "marked"
    /\ ~CommitRaises(v, r)
    /\ job' = [job EXCEPT !.step = "bound", !.commitment = Commit(secret, v, r)]
    /\ UNCHANGED <<imageVars, verdict, secret, deployment, uuids, rows, disk>>

\* Mutant: the manifest's file is named after the claim.
SignByClaim(kind) ==
    /\ job.step = "bound"
    /\ job' = [job EXCEPT !.step = IF kind = "path" THEN "signed" ELSE "manifested",
                          !.reference = [uuid |-> job.claim, kind |-> kind]]
    /\ UNCHANGED <<imageVars, verdict, secret, deployment, uuids, rows, disk>>

\* generate_manifest signs, or falls back to a URL when it cannot.
Sign(kind) ==
    /\ job.step = "bound"
    /\ uuids' = uuids + 1
    /\ job' = [job EXCEPT !.step = IF kind = "path" THEN "signed" ELSE "manifested",
                          !.reference = [uuid |-> uuids', kind |-> kind]]
    /\ UNCHANGED <<imageVars, verdict, secret, deployment, rows, disk>>

Open ==
    /\ job.step = "signed"
    /\ OpenFile(job.reference, Payload(secret, job.claim))
    /\ job' = [job EXCEPT !.step = "opened"]
    /\ UNCHANGED <<imageVars, verdict, secret, deployment, uuids, rows>>

Write ==
    /\ job.step = "opened"
    /\ WriteFile(job.reference)
    /\ job' = [job EXCEPT !.step = "manifested", !.written = "whole"]
    /\ UNCHANGED <<imageVars, verdict, secret, deployment, uuids, rows>>

\* The directory or the file cannot be made, or not be written to the end: an
\* OSError that is logged. What was written stays, and the reference too.
WriteFails ==
    /\ job.step \in {"signed", "opened"}
    /\ job' = [job EXCEPT !.step = "manifested", !.written = "failed"]
    /\ UNCHANGED <<imageVars, verdict, secret, deployment, uuids, rows, disk>>

\* The row that a registration leaves.
RowOf(j) ==
    [claim |-> j.claim, payload |-> Payload(secret, j.claim), secret |-> secret,
     deployment |-> deployment, commitment |-> j.commitment,
     reference |-> j.reference, written |-> j.written]

\* Mutant: the row is stored before the manifest is on the disk.
StoreEarly ==
    /\ job.step \in {"signed", "opened", "manifested"}
    /\ rows' = Append(rows, RowOf(job))
    /\ job' = [job EXCEPT !.step = "stored"]
    /\ UNCHANGED <<imageVars, verdict, secret, deployment, uuids, disk>>

\* ledger.register, and the commit at the end of the request.
Store ==
    /\ job.step = "manifested"
    /\ rows' = Append(rows, RowOf(job))
    /\ job' = [job EXCEPT !.step = "stored"]
    /\ UNCHANGED <<imageVars, verdict, secret, deployment, uuids, disk>>

\* Mutant: the answer goes out before the row is committed.
DeliverEarly ==
    /\ job.step \in {"manifested", "stored"}
    /\ Embed(Payload(secret, job.claim), job.noise)
    /\ job' = NoJob
    /\ UNCHANGED <<secret, deployment, uuids, rows, disk>>

\* The response with the marked image goes out.
Deliver ==
    /\ job.step = "stored"
    /\ Embed(Payload(secret, job.claim), job.noise)
    /\ job' = NoJob
    /\ UNCHANGED <<secret, deployment, uuids, rows, disk>>

\* An exception, the death of the process, a connection that breaks: the request
\* ends where it is. What it wrote to the disk or committed stays.
Fails ==
    /\ job # NoJob
    /\ job' = NoJob
    /\ verdict' = [NoVerdict EXCEPT !.status = "raised"]
    /\ UNCHANGED <<imageVars, secret, deployment, uuids, rows, disk>>

\* A new deployment, with this or another SECRET_KEY.
Redeploy(s) ==
    /\ secret' = s
    /\ deployment' = deployment + 1
    /\ job' = NoJob
    /\ Reprovision
    /\ Happens
    /\ UNCHANGED <<image, payload, plan, gain, harmed, verdict, uuids, rows>>

ServiceStep ==
    \/ \E claim \in Claims, e \in Noise : Mark(claim, e)
    \/ MarkRefused
    \/ \E hashes \in Hashes, r \in Randomness : Bind(hashes, r)
    \/ \E kind \in {"path", "url"} : Sign(kind)
    \/ Open
    \/ Write
    \/ WriteFails
    \/ Store
    \/ Deliver
    \/ Fails
    \/ \E s \in Secrets : Redeploy(s)

\* What happens to an image outside the service, and its extraction there.
ChannelStep ==
    /\ job = NoJob
    /\ \/ Extract
       \/ \E b \in 1..SyncBlocks + DataBlocks, junk \in Junk : Damage(b, junk)
       \/ \E g \in Gains : Scale(g)
       \/ CropBottom
       \/ CropRight
    /\ UNCHANGED serviceVars

Next == ServiceStep \/ ChannelStep

Spec == Init /\ [][Next]_vars

-----------------------------------------------------------------------------
(* Properties *)

\* The values of the variables are of their kinds; a synchronisation coefficient
\* is put on an odd multiple (_qim_embed).
TypeOK ==
    /\ image.width \in Nat \ {0}
    /\ \A b \in 1..Len(image.blocks) :
          /\ DOMAIN image.blocks[b].data = 1..BitsPerBlock
          /\ image.blocks[b].rest >= 0
    /\ payload \in Payloads \cup {NoPayload}
    /\ payload # NoPayload =>
          \A b \in 1..SyncBlocks + DataBlocks :
             IF b <= SyncBlocks THEN plan[b][1] % 2 = 1
             ELSE DOMAIN plan[b] = 1..BitsPerBlock
    /\ gain \in Gains \cup {<<1, 1>>}
    /\ harmed \subseteq 1..Len(image.blocks)
    /\ events \in 0..MaxEvents
    /\ verdict.status \in {"none", "ok", "failed", "capacity", "raised"}
    /\ verdict.status = "ok" <=> verdict.payload \in Payloads
    /\ verdict.errors \in 0..CodewordBytes
    /\ secret \in Secrets
    /\ deployment \in 0..MaxEvents
    /\ uuids \in 0..events
    /\ job # NoJob => job.step \in {"marked", "bound", "signed", "opened", "manifested", "stored"}

Read == payload # NoPayload /\ Enough(image.blocks)

\* The synchronisation blocks the estimate takes for what they are.
Right == {b \in 1..SyncBlocks : /\ b \notin harmed
                                /\ image.blocks[b].sync # 0
                                /\ Snap(image.blocks[b].sync) = plan[b][1]}

\* While fewer than half of the synchronisation blocks are destroyed or taken
\* for another multiple, however wrong those are, the gain that extraction
\* corrects by lies among the gains the others show (_estimate_gain: "Median is
\* robust to outliers").
GainWithinIntact ==
    Read /\ 2 * (SyncBlocks - Cardinality(Right)) < SyncBlocks =>
       LET est == Estimate(image.blocks)
           ratio(b) == Ratio(image.blocks[b].sync)
       IN /\ \E b \in Right : RatioLeq(ratio(b), est)
          /\ \E b \in Right : RatioLeq(est, ratio(b))

\* An extraction while the bytes with misread blocks are within what the code
\* corrects says OK, with the payload of the last registration, whatever mark the
\* image carried before, and reports no more errors than there are bad bytes: an
\* asset is neither missed nor taken for another.
RecoveredWithinCapacity ==
    /\ verdict.status \in {"ok", "failed"}
    /\ payload # NoPayload
    /\ Cardinality(BadBytes) <= Radius
    => /\ verdict.status = "ok"
       /\ verdict.payload = payload
       /\ verdict.errors <= Cardinality(BadBytes)

\* No marked image leaves embed_and_register without its row: wherever between
\* marking, commitment, manifest, insert and commit a registration fails, what is
\* in circulation carries the payload of a row, made under that row's secret.
MarksAreRegistered ==
    payload # NoPayload =>
       \E i \in 1..Len(rows) :
          /\ rows[i].payload = payload
          /\ payload = Payload(rows[i].secret, rows[i].claim)

\* The opening in a row opens its commitment under the secret of the deployment
\* that made it and under no secret with another generator, for its own value
\* and no other (commit, verify; zkp.py: "The same secret must be used to verify a
\* commitment later").
OpensUnderItsSecretOnly ==
    \A i \in 1..Len(rows), s \in Secrets, v \in 0..Q - 1 :
       LET com == rows[i].commitment
           same == DeriveH(s) = DeriveH(rows[i].secret)
       IN IF same THEN Opens(s, com.c, v, com.r) <=> v = com.v
          ELSE v = com.v => ~Opens(s, com.c, v, com.r)

\* What a row's reference leads to (validate_reference) is never the manifest of
\* another row, nor one that is still being written: it is the row's own, whole
\* unless its write failed; and if it was written whole it is there as long as
\* the disk is, whatever failed before or after it. That written is no column of
\* the row is why no reader can tell (deployment and written are kept for this).
ManifestIsTheRows ==
    \A i \in 1..Len(rows) :
       LET row == rows[i]
           whole == [of |-> row.payload, whole |-> TRUE]
           found == ValidateReference(row.reference)
       IN /\ \A m \in found \ {NoManifest, whole} :
                m.of = row.payload /\ row.written = "failed"
          /\ row.written = "whole" /\ row.deployment = deployment => whole \in found

=============================================================================
