--------------------------- MODULE EvidenceProofs ---------------------------
(* What the rows of Evidence keep, what an extraction makes of an image that  *)
(* was damaged, cropped or scaled on its way, and what a commitment binds to, *)
(* for any images, codes, channels, secrets and groups.                       *)
EXTENDS Evidence, WatermarkCodecProofs

Steps == {"marked", "bound", "signed", "opened", "manifested", "stored"}
Kinds == {"path", "url"}
Writes == {"no", "failed", "whole"}

\* The commitments that can be made under a secret.
Commitments(s) == {Commit(s, v, r) : v \in 0..Q - 1, r \in 1..Q - 1}

AnyCommitment == {NoCommitment} \cup UNION {Commitments(s) : s \in Secrets}
AnyReference == [uuid : Nat, kind : Kinds \cup {"none"}]

\* RowOf under any secret and in any deployment.
RowUnder(s, d, claim, com, reference, written) ==
    [claim |-> claim, payload |-> Payload(s, claim), secret |-> s, deployment |-> d,
     commitment |-> com, reference |-> reference, written |-> written]

\* The rows that embed_and_register can write.
RowsUnder(s) ==
    {RowUnder(s, d, claim, com, reference, written) :
        d \in Nat, claim \in Claims, com \in Commitments(s),
        reference \in AnyReference, written \in Writes}

GoodRows == UNION {RowsUnder(s) : s \in Secrets}

Jobs == [step : Steps, claim : Claims, noise : Noise, commitment : AnyCommitment,
         reference : AnyReference, written : Writes]

LEMMA RowIsGood ==
    ASSUME NEW s \in Secrets, NEW d \in Nat, NEW claim \in Claims, NEW com \in Commitments(s),
           NEW reference \in AnyReference, NEW written \in Writes
    PROVE  RowUnder(s, d, claim, com, reference, written) \in GoodRows
  <1>1. PICK row : row = RowUnder(s, d, claim, com, reference, written) OBVIOUS
  <1>2. row \in RowsUnder(s) BY <1>1, SMT DEF RowsUnder
  <1>3. row \in GoodRows BY <1>2, SMT DEF GoodRows
  <1> QED BY <1>1, <1>3

\* The registration at work has a commitment under the secret once it is bound,
\* and its row once that is stored.
Stored ==
    \E i \in 1..Len(rows) :
       /\ rows[i].payload = Payload(secret, job.claim)
       /\ rows[i].secret = secret /\ rows[i].claim = job.claim

JobInv ==
    \/ job = NoJob
    \/ /\ job \in Jobs
       /\ job.step # "marked" => job.commitment \in Commitments(secret)
       /\ job.step = "stored" => Stored

IInv ==
    /\ secret \in Secrets
    /\ deployment \in Nat
    /\ uuids \in Nat
    /\ rows \in Seq(GoodRows)
    /\ JobInv
    /\ MarksAreRegistered

LEMMA InitInv == Init => IInv
  BY EvidenceAssumption DEF Init, CodecInit, IInv, JobInv, MarksAreRegistered

\* Steps up to the row change the registration at work alone.
LEMMA ProgressInv ==
    ASSUME IInv, UNCHANGED <<payload, secret, deployment, rows>>, uuids' \in Nat,
           job' \in Jobs, job'.step \notin {"marked", "stored"},
           job'.commitment \in Commitments(secret)
    PROVE  IInv'
  <1>1. JobInv'
    <2>1. Commitments(secret)' = Commitments(secret)
      BY DEF Commitments, Commit, Combine, Group
    <2> QED BY <2>1 DEF JobInv
  <1>2. MarksAreRegistered' BY DEF IInv, MarksAreRegistered, Payload
  <1> QED BY <1>1, <1>2 DEF IInv

LEMMA MarkInv ==
    ASSUME IInv, NEW claim \in Claims, NEW e \in Noise, Mark(claim, e)
    PROVE  IInv'
  <1>1. /\ job' = [step |-> "marked", claim |-> claim, noise |-> e,
                   commitment |-> NoCommitment, reference |-> NoReference, written |-> "no"]
        /\ UNCHANGED <<payload, secret, deployment, uuids, rows>>
    BY DEF Mark
  <1>2. job' \in Jobs /\ job'.step = "marked"
    <2>1. NoCommitment \in AnyCommitment BY DEF AnyCommitment
    <2>2. NoReference \in AnyReference BY DEF NoReference, AnyReference
    <2> HIDE DEF NoCommitment, NoReference
    <2> QED BY <1>1, <2>1, <2>2 DEF Jobs, Steps, Writes
  <1>3. MarksAreRegistered' BY <1>1 DEF IInv, MarksAreRegistered, Payload
  <1> QED BY <1>1, <1>2, <1>3 DEF IInv, JobInv

\* A commitment that commit did not refuse is one of those there are.
LEMMA BindInv ==
    ASSUME IInv, NEW hashes \in Hashes, NEW r \in Randomness, Bind(hashes, r)
    PROVE  IInv'
  <1>1. job \in Jobs BY DEF IInv, JobInv, Bind, NoJob
  <1>2. PICK v \in 0..Q - 1 : v = CommitmentInput(Payload(secret, job.claim), hashes, job.claim)
    BY <1>1, EvidenceAssumption DEF IInv, Jobs, CommitmentInput, Payload
  <1>3. /\ ~CommitRaises(v, r)
        /\ job' = [job EXCEPT !.step = "bound", !.commitment = Commit(secret, v, r)]
        /\ UNCHANGED <<payload, secret, deployment, uuids, rows>>
    BY <1>2 DEF Bind, imageVars
  <1>4. r \in 1..Q - 1 BY <1>3 DEF CommitRaises, GoodRandomness
  <1>5. PICK com \in Commitments(secret) : com = Commit(secret, v, r)
    BY <1>4, SMT DEF Commitments
  <1>6. com \in AnyCommitment BY Zenon DEF AnyCommitment, IInv
  <1>7. job' \in Jobs /\ job'.step = "bound" /\ job'.commitment = com
    BY <1>1, <1>3, <1>5, <1>6 DEF Jobs, Steps
  <1> QED BY <1>3, <1>7, ProgressInv DEF IInv

LEMMA SignInv == ASSUME IInv, NEW kind \in Kinds, Sign(kind) PROVE IInv'
  <1>1. job \in Jobs /\ job.commitment \in Commitments(secret)
    BY DEF IInv, JobInv, Sign, NoJob
  <1>2. /\ job' = [job EXCEPT !.step = IF kind = "path" THEN "signed" ELSE "manifested",
                              !.reference = [uuid |-> uuids', kind |-> kind]]
        /\ uuids' \in Nat
        /\ UNCHANGED <<payload, secret, deployment, rows>>
    BY DEF Sign, imageVars, IInv
  <1>3. [uuid |-> uuids', kind |-> kind] \in AnyReference BY <1>2 DEF AnyReference
  <1>4. /\ job' \in Jobs /\ job'.step \in {"signed", "manifested"}
        /\ job'.commitment = job.commitment
    BY <1>1, <1>2, <1>3 DEF Jobs, Steps
  <1> QED BY <1>1, <1>2, <1>4, ProgressInv

LEMMA FileInv == ASSUME IInv, Open \/ Write \/ WriteFails PROVE IInv'
  <1>1. job \in Jobs /\ job.commitment \in Commitments(secret)
    BY DEF IInv, JobInv, Open, Write, WriteFails, NoJob
  <1>2. /\ \/ job' = [job EXCEPT !.step = "opened"]
           \/ job' = [job EXCEPT !.step = "manifested", !.written = "whole"]
           \/ job' = [job EXCEPT !.step = "manifested", !.written = "failed"]
        /\ UNCHANGED <<payload, secret, deployment, uuids, rows>>
    BY DEF Open, Write, WriteFails, imageVars
  <1>3. /\ job' \in Jobs /\ job'.step \in {"opened", "manifested"}
        /\ job'.commitment = job.commitment
    BY <1>1, <1>2 DEF Jobs, Steps, Writes
  <1> QED BY <1>1, <1>2, <1>3, ProgressInv DEF IInv

\* Appending the row of the registration keeps every row that is there.
LEMMA StoreRows ==
    ASSUME IInv, Store
    PROVE  /\ rows' = Append(rows, RowOf(job)) /\ rows' \in Seq(GoodRows)
           /\ Len(rows) \in Nat /\ Len(rows') = Len(rows) + 1
           /\ \A i \in 1..Len(rows) : rows'[i] = rows[i]
           /\ rows'[Len(rows) + 1] = RowOf(job)
  <1>1. job \in Jobs /\ job.commitment \in Commitments(secret) /\ rows \in Seq(GoodRows)
    BY DEF IInv, JobInv, Store, NoJob
  <1>2. PICK row : row = RowOf(job) OBVIOUS
  <1>3. row \in GoodRows
    <2>1. row = RowUnder(secret, deployment, job.claim, job.commitment, job.reference, job.written)
      BY <1>2 DEF RowOf, RowUnder
    <2>2. job.claim \in Claims /\ job.reference \in AnyReference /\ job.written \in Writes
      BY <1>1 DEF Jobs
    <2> QED BY <1>1, <2>1, <2>2, RowIsGood DEF IInv
  <1>4. rows' = Append(rows, row) BY <1>2 DEF Store
  <1> HIDE DEF GoodRows, IInv, RowOf
  <1> QED BY <1>1, <1>2, <1>3, <1>4

LEMMA StoreInv == ASSUME IInv, Store PROVE IInv'
  <1>1. job \in Jobs /\ job.commitment \in Commitments(secret)
    BY DEF IInv, JobInv, Store, NoJob
  <1>2. /\ job' = [job EXCEPT !.step = "stored"]
        /\ UNCHANGED <<payload, secret, deployment, uuids>>
    BY DEF Store, imageVars
  <1>3. /\ job' \in Jobs /\ job'.step = "stored" /\ job'.claim = job.claim
        /\ job'.commitment = job.commitment
    BY <1>1, <1>2 DEF Jobs, Steps
  <1>4. PICK n \in Nat : /\ n = Len(rows) /\ Len(rows') = n + 1
                         /\ \A i \in 1..n : rows'[i] = rows[i]
                         /\ rows'[n + 1] = RowOf(job)
                         /\ rows' \in Seq(GoodRows)
    BY StoreRows
  <1>5. Stored'
    <2>1. n + 1 \in 1..Len(rows') BY <1>4
    <2>2. /\ rows'[n + 1].payload = Payload(secret, job.claim)
          /\ rows'[n + 1].secret = secret /\ rows'[n + 1].claim = job.claim
      BY <1>4 DEF RowOf
    <2>3. Payload(secret', job'.claim) = Payload(secret, job.claim) BY <1>2, <1>3
    <2> QED BY <1>2, <1>3, <2>1, <2>2, <2>3 DEF Stored, Payload
  <1>6. JobInv'
    <2>1. Commitments(secret)' = Commitments(secret)
      BY <1>2 DEF Commitments, Commit, Combine, Group
    <2> QED BY <1>1, <1>3, <1>5, <2>1 DEF JobInv
  <1>7. MarksAreRegistered'
    <2> SUFFICES ASSUME payload' # NoPayload
                 PROVE  \E i \in 1..Len(rows') :
                           /\ rows'[i].payload = payload'
                           /\ payload' = Payload(rows'[i].secret, rows'[i].claim)
      BY DEF MarksAreRegistered, Payload
    <2>1. PICK i \in 1..n : /\ rows[i].payload = payload
                            /\ payload = Payload(rows[i].secret, rows[i].claim)
      BY <1>2, <1>4 DEF IInv, MarksAreRegistered
    <2>2. i \in 1..Len(rows') /\ rows'[i] = rows[i] BY <1>4
    <2> QED BY <1>2, <2>1, <2>2
  <1> QED BY <1>2, <1>4, <1>6, <1>7 DEF IInv

\* What goes out carries the payload of the row that was stored before.
LEMMA DeliverInv == ASSUME IInv, Deliver PROVE IInv'
  <1>1. /\ job \in Jobs /\ Stored
    BY DEF IInv, JobInv, Deliver, NoJob
  <1>2. /\ payload' = Payload(secret, job.claim) /\ job' = NoJob
        /\ UNCHANGED <<secret, deployment, uuids, rows>>
    BY DEF Deliver, Embed
  <1>3. MarksAreRegistered'
    <2>1. PICK i \in 1..Len(rows) : /\ rows[i].payload = Payload(secret, job.claim)
                                    /\ rows[i].secret = secret /\ rows[i].claim = job.claim
      BY <1>1 DEF Stored
    <2> QED BY <1>2, <2>1 DEF MarksAreRegistered, Payload
  <1> QED BY <1>2, <1>3 DEF IInv, JobInv

LEMMA StepInv == IInv /\ [Next]_vars => IInv'
  <1> SUFFICES ASSUME IInv, [Next]_vars PROVE IInv'
    OBVIOUS
  <1>1. ASSUME UNCHANGED <<payload, secret, deployment, uuids, job, rows>> PROVE IInv'
    BY <1>1 DEF IInv, JobInv, Stored, MarksAreRegistered, Payload, Commitments, Commit,
                Combine, Group
  <1>2. ASSUME UNCHANGED <<payload, rows, uuids>>, job' = NoJob, secret' \in Secrets,
               deployment' \in Nat
        PROVE  IInv'
    BY <1>2 DEF IInv, JobInv, MarksAreRegistered, Payload
  <1>3. CASE ServiceStep
    <2>1. CASE MarkRefused
      BY <1>1, <2>1 DEF MarkRefused, imageVars, serviceVars
    <2>2. CASE Fails
      BY <1>2, <2>2 DEF Fails, imageVars, IInv
    <2>3. ASSUME NEW s \in Secrets, Redeploy(s) PROVE IInv'
      BY <1>2, <2>3 DEF Redeploy, IInv
    <2> QED BY <1>3, <2>1, <2>2, <2>3, MarkInv, BindInv, SignInv, FileInv, StoreInv, DeliverInv
            DEF ServiceStep, Kinds
  <1>4. CASE ChannelStep
    <2>1. UNCHANGED payload
      BY <1>4 DEF ChannelStep, Extract, Damage, Scale, CropBottom, CropRight, imageVars
    <2> QED BY <1>1, <1>4, <2>1 DEF ChannelStep, serviceVars
  <1>5. CASE UNCHANGED vars
    BY <1>1, <1>5 DEF vars, imageVars, serviceVars
  <1> QED BY <1>3, <1>4, <1>5 DEF Next

THEOREM Invariance == Spec => []IInv
  BY InitInv, StepInv, PTL DEF Spec

\* Wherever a registration fails, between marking and the commit or after it, no
\* marked image goes out without its row: a payload in circulation is a row's,
\* made from the row's claim under the row's secret.
THEOREM MarksRegistered == Spec => []MarksAreRegistered
  <1>1. IInv => MarksAreRegistered BY DEF IInv
  <1> QED BY <1>1, Invariance, PTL

\* What a row commits to, under its secret.
LEMMA RowCommits ==
    ASSUME NEW row \in GoodRows
    PROVE  \E v \in 0..Q - 1, r \in 1..Q - 1 :
              row.secret \in Secrets /\ row.commitment = Commit(row.secret, v, r)
  <1>1. PICK s \in Secrets : row \in RowsUnder(s)
    BY SMT DEF GoodRows
  <1>2. PICK com \in Commitments(s) : row.secret = s /\ row.commitment = com
    BY <1>1 DEF RowsUnder, RowUnder
  <1>3. PICK v \in 0..Q - 1, r \in 1..Q - 1 : com = Commit(s, v, r)
    BY SMT DEF Commitments
  <1> QED BY <1>2, <1>3

\* The opening kept in a row opens the row's commitment under the secret that
\* made it, however often the secret changed since.
RowsOpen ==
    \A i \in 1..Len(rows) :
       LET com == rows[i].commitment IN Opens(rows[i].secret, com.c, com.v, com.r)

\* A row verifies (zkp.py commit and verify): the value that was committed to and
\* its randomness are in range, and combine to the commitment that was stored.
THEOREM CommitmentsOpen == Spec => []RowsOpen
  <1>1. ASSUME IInv, NEW i \in 1..Len(rows)
        PROVE  LET com == rows[i].commitment
               IN Opens(rows[i].secret, com.c, com.v, com.r)
    <2>1. rows[i] \in GoodRows BY <1>1 DEF IInv
    <2>2. PICK v \in 0..Q - 1, r \in 1..Q - 1 :
              /\ rows[i].secret \in Secrets
              /\ rows[i].commitment = Commit(rows[i].secret, v, r)
      BY <2>1, RowCommits
    <2>3. Opens(rows[i].secret, Combine(rows[i].secret, v, r), v, r)
      BY DEF Opens, GoodValue, GoodRandomness
    <2> QED BY <2>2, <2>3 DEF Commit
  <1>2. IInv => RowsOpen BY <1>1 DEF RowsOpen
  <1> QED BY <1>2, Invariance, PTL

-----------------------------------------------------------------------------
(* Manifests *)

Files == [of : Payloads, whole : BOOLEAN]

\* What is found by a uuid is what was made for the payload, whole unless its
\* write failed.
Kept(uuid, p, written) ==
    uuid \in DOMAIN disk =>
       disk[uuid].of = p /\ (disk[uuid].whole \/ written = "failed")

\* A manifest that was written is there.
There(reference) ==
    /\ reference.kind = "path" /\ reference.uuid \in DOMAIN disk
    /\ disk[reference.uuid].whole

\* The uuid of the registration at work is no row's, and its file is as far as
\* the registration is.
AtWork ==
    LET uuid == job.reference.uuid IN
    /\ uuid \in 1..uuids
    /\ \A i \in 1..Len(rows) : rows[i].reference.uuid # uuid
    /\ job.step = "signed" =>
          uuid \notin DOMAIN disk /\ job.reference.kind = "path"
    /\ job.step = "opened" =>
          /\ uuid \in DOMAIN disk /\ disk[uuid].of = Payload(secret, job.claim)
          /\ job.reference.kind = "path"
    /\ job.step = "manifested" =>
          /\ Kept(uuid, Payload(secret, job.claim), job.written)
          /\ job.written = "whole" => There(job.reference)

RowFile(row) ==
    /\ row.reference.uuid \in 1..uuids
    /\ row.deployment \in Nat /\ row.deployment <= deployment
    /\ Kept(row.reference.uuid, row.payload, row.written)
    /\ row.written = "whole" /\ row.deployment = deployment => There(row.reference)

DiskInv ==
    /\ DOMAIN disk \subseteq 1..uuids
    /\ disk \in [DOMAIN disk -> Files]
    /\ \A i \in 1..Len(rows) : RowFile(rows[i])
    /\ job # NoJob /\ job.step \in {"signed", "opened", "manifested"} => AtWork
    /\ job # NoJob /\ job.step \in {"marked", "bound"} => job.written = "no"

\* A step that leaves the disk, and counts no deployment.
LEMMA SameDisk ==
    ASSUME DiskInv, UNCHANGED <<disk, deployment, rows>>, uuids \in Nat, uuids' \in Nat,
           uuids <= uuids',
           job' # NoJob /\ job'.step \in {"signed", "opened", "manifested"} => AtWork',
           job' # NoJob /\ job'.step \in {"marked", "bound"} => job'.written = "no"
    PROVE  DiskInv'
  <1>1. DOMAIN disk' \subseteq 1..uuids' BY DEF DiskInv
  <1>2. (\A i \in 1..Len(rows) : RowFile(rows[i]))'
    BY DEF DiskInv, RowFile, Kept, There
  <1> QED BY <1>1, <1>2 DEF DiskInv

\* A step that changes one file, of the registration at work.
LEMMA OneFile ==
    ASSUME DiskInv, AtWork, UNCHANGED <<uuids, deployment, rows>>,
           DOMAIN disk' = DOMAIN disk \cup {job.reference.uuid},
           disk' \in [DOMAIN disk' -> Files],
           \A u \in DOMAIN disk : u # job.reference.uuid => disk'[u] = disk[u],
           job' # NoJob, job'.step \in {"opened", "manifested"}, AtWork'
    PROVE  DiskInv'
  <1>1. PICK own : own = job.reference.uuid OBVIOUS
  <1>2. DOMAIN disk' \subseteq 1..uuids' BY DEF DiskInv, AtWork
  <1>3. ASSUME NEW i \in 1..Len(rows) PROVE RowFile(rows[i])'
    <2>1. RowFile(rows[i]) /\ rows[i].reference.uuid # own BY <1>1 DEF DiskInv, AtWork
    <2>2. PICK row, u : row = rows[i] /\ u = row.reference.uuid OBVIOUS
    <2>3. u \in DOMAIN disk' <=> u \in DOMAIN disk BY <1>1, <2>1, <2>2
    <2>4. u \in DOMAIN disk => disk'[u] = disk[u] BY <1>1, <2>1, <2>2
    <2> QED BY <2>1, <2>2, <2>3, <2>4 DEF RowFile, Kept, There
  <1> QED BY <1>2, <1>3 DEF DiskInv

LEMMA SignDisk ==
    ASSUME IInv, DiskInv, NEW kind \in Kinds, Sign(kind)
    PROVE  DiskInv'
  <1>1. job \in Jobs /\ job.written = "no" /\ uuids \in Nat
    BY DEF IInv, JobInv, Sign, NoJob, DiskInv
  <1>2. /\ job' = [job EXCEPT !.step = IF kind = "path" THEN "signed" ELSE "manifested",
                              !.reference = [uuid |-> uuids', kind |-> kind]]
        /\ uuids' = uuids + 1
        /\ UNCHANGED <<disk, secret, deployment, rows>>
    BY DEF Sign
  <1>3. /\ job'.reference = [uuid |-> uuids + 1, kind |-> kind]
        /\ job'.written = "no"
        /\ job'.step = IF kind = "path" THEN "signed" ELSE "manifested"
    BY <1>1, <1>2 DEF Jobs
  <1>4. uuids + 1 \notin DOMAIN disk BY <1>1 DEF DiskInv
  <1>5. \A i \in 1..Len(rows) : rows[i].reference.uuid # uuids + 1
    BY <1>1 DEF DiskInv, RowFile
  <1>6. AtWork' BY <1>1, <1>2, <1>3, <1>4, <1>5 DEF AtWork, Kept
  <1> QED BY <1>1, <1>2, <1>3, <1>6, SameDisk

LEMMA OpenDisk == ASSUME IInv, DiskInv, Open PROVE DiskInv'
  <1>1. job \in Jobs /\ AtWork /\ job.step = "signed"
    BY DEF IInv, JobInv, Open, NoJob, DiskInv
  <1>2. /\ job' = [job EXCEPT !.step = "opened"]
        /\ UNCHANGED <<secret, deployment, uuids, rows>>
    BY DEF Open
  <1>3. /\ job'.step = "opened" /\ job'.reference = job.reference
        /\ job'.claim = job.claim /\ job' # NoJob
    BY <1>1, <1>2 DEF Jobs, NoJob
  <1>4. PICK p \in Payloads : p = Payload(secret, job.claim)
    BY <1>1, EvidenceAssumption DEF Payload, IInv, Jobs
  <1>5. PICK u : u = job.reference.uuid OBVIOUS
  <1>6. disk' = [x \in DOMAIN disk \cup {u} |-> IF x = u THEN [of |-> p, whole |-> FALSE]
                                               ELSE disk[x]]
    BY <1>4, <1>5 DEF Open, OpenFile
  <1>7. /\ DOMAIN disk' = DOMAIN disk \cup {u}
        /\ disk' \in [DOMAIN disk' -> Files]
        /\ disk'[u] = [of |-> p, whole |-> FALSE]
        /\ \A x \in DOMAIN disk : x # u => disk'[x] = disk[x]
    BY <1>6 DEF DiskInv, Files
  <1>8. AtWork'
    BY <1>1, <1>2, <1>3, <1>4, <1>5, <1>7 DEF AtWork, Payload
  <1> QED BY <1>1, <1>2, <1>3, <1>5, <1>7, <1>8, OneFile

LEMMA WriteDisk == ASSUME IInv, DiskInv, Write PROVE DiskInv'
  <1>1. job \in Jobs /\ AtWork /\ job.step = "opened"
    BY DEF IInv, JobInv, Write, NoJob, DiskInv
  <1>2. /\ job' = [job EXCEPT !.step = "manifested", !.written = "whole"]
        /\ UNCHANGED <<secret, deployment, uuids, rows>>
    BY DEF Write
  <1>3. /\ job'.step = "manifested" /\ job'.reference = job.reference
        /\ job'.claim = job.claim /\ job'.written = "whole" /\ job' # NoJob
    BY <1>1, <1>2 DEF Jobs, NoJob
  <1>4. PICK u : u = job.reference.uuid OBVIOUS
  <1>5. disk' = [disk EXCEPT ![u].whole = TRUE] BY <1>4 DEF Write, WriteFile
  <1>6. u \in DOMAIN disk /\ disk[u] \in Files BY <1>1, <1>4 DEF AtWork, DiskInv
  <1>7. /\ DOMAIN disk' = DOMAIN disk \cup {u}
        /\ disk' \in [DOMAIN disk' -> Files]
        /\ disk'[u].of = disk[u].of /\ disk'[u].whole
        /\ \A x \in DOMAIN disk : x # u => disk'[x] = disk[x]
    BY <1>5, <1>6 DEF DiskInv, Files
  <1>8. AtWork'
    BY <1>1, <1>2, <1>3, <1>4, <1>6, <1>7 DEF AtWork, Payload, Kept, There
  <1> QED BY <1>1, <1>2, <1>3, <1>4, <1>7, <1>8, OneFile

LEMMA WriteFailsDisk == ASSUME IInv, DiskInv, WriteFails PROVE DiskInv'
  <1>1. job \in Jobs /\ AtWork /\ job.step \in {"signed", "opened"}
    BY DEF IInv, JobInv, WriteFails, NoJob, DiskInv
  <1>2. /\ job' = [job EXCEPT !.step = "manifested", !.written = "failed"]
        /\ UNCHANGED <<disk, secret, deployment, uuids, rows>>
    BY DEF WriteFails
  <1>3. /\ job'.step = "manifested" /\ job'.reference = job.reference
        /\ job'.claim = job.claim /\ job'.written = "failed"
    BY <1>1, <1>2 DEF Jobs
  <1>4. AtWork' BY <1>1, <1>2, <1>3 DEF AtWork, Payload, Kept
  <1> QED BY <1>2, <1>3, <1>4, SameDisk DEF IInv

LEMMA StoreDisk == ASSUME IInv, DiskInv, Store PROVE DiskInv'
  <1>1. job \in Jobs /\ AtWork /\ job.step = "manifested" /\ deployment \in Nat
    BY DEF IInv, JobInv, Store, NoJob, DiskInv
  <1>2. /\ job' = [job EXCEPT !.step = "stored"]
        /\ UNCHANGED <<disk, secret, deployment, uuids>>
    BY DEF Store
  <1>3. job'.step = "stored" BY <1>1, <1>2 DEF Jobs
  <1>4. PICK n \in Nat : /\ n = Len(rows) /\ Len(rows') = n + 1
                         /\ \A i \in 1..n : rows'[i] = rows[i]
                         /\ rows'[n + 1] = RowOf(job)
    BY StoreRows
  <1>5. RowFile(RowOf(job)) BY <1>1 DEF AtWork, RowFile, RowOf, Kept
  <1>6. \A i \in 1..n : RowFile(rows[i]) BY <1>4 DEF DiskInv
  <1>7. \A i \in 1..n + 1 : RowFile(rows'[i])
    BY <1>4, <1>5, <1>6
  <1>8. (\A i \in 1..Len(rows) : RowFile(rows[i]))'
    BY <1>2, <1>4, <1>7 DEF RowFile, Kept, There
  <1> QED BY <1>2, <1>3, <1>8 DEF DiskInv

LEMMA RedeployDisk ==
    ASSUME IInv, DiskInv, NEW s \in Secrets, Redeploy(s)
    PROVE  DiskInv'
  <1>1. /\ deployment' = deployment + 1 /\ disk' = <<>> /\ job' = NoJob
        /\ UNCHANGED <<uuids, rows>>
    BY DEF Redeploy, Reprovision
  <1>2. deployment \in Nat BY DEF IInv
  <1>3. \A i \in 1..Len(rows) : RowFile(rows[i])'
    BY <1>1, <1>2 DEF DiskInv, RowFile, Kept
  <1> QED BY <1>1, <1>3 DEF DiskInv

LEMMA StepDisk == IInv /\ DiskInv /\ [Next]_vars => DiskInv'
  <1> SUFFICES ASSUME IInv, DiskInv, [Next]_vars PROVE DiskInv'
    OBVIOUS
  <1>1. ASSUME UNCHANGED serviceVars PROVE DiskInv'
    BY <1>1 DEF DiskInv, AtWork, RowFile, Kept, There, Payload, serviceVars
  <1>2. ASSUME UNCHANGED <<disk, deployment, uuids, rows>>,
               job' = NoJob \/ (job'.step \in {"marked", "bound"} /\ job'.written = "no")
        PROVE  DiskInv'
    BY <1>2, SameDisk DEF IInv
  <1>3. CASE ServiceStep
    <2>1. CASE MarkRefused
      BY <1>1, <2>1 DEF MarkRefused
    <2>2. ASSUME NEW claim \in Claims, NEW e \in Noise, Mark(claim, e) PROVE DiskInv'
      BY <1>2, <2>2 DEF Mark
    <2>3. ASSUME NEW hashes \in Hashes, NEW r \in Randomness, Bind(hashes, r) PROVE DiskInv'
      <3>1. job \in Jobs /\ job.written = "no" BY <2>3 DEF IInv, JobInv, Bind, NoJob, DiskInv
      <3>2. job'.step = "bound" /\ job'.written = "no" BY <2>3, <3>1 DEF Bind, Jobs
      <3> QED BY <1>2, <2>3, <3>2 DEF Bind
    <2>4. CASE Deliver
      BY <1>2, <2>4 DEF Deliver
    <2>5. CASE Fails
      BY <1>2, <2>5 DEF Fails
    <2> QED BY <1>3, <2>1, <2>2, <2>3, <2>4, <2>5, SignDisk, OpenDisk, WriteDisk,
               WriteFailsDisk, StoreDisk, RedeployDisk DEF ServiceStep, Kinds
  <1>4. CASE ChannelStep
    BY <1>1, <1>4 DEF ChannelStep
  <1>5. CASE UNCHANGED vars
    BY <1>1, <1>5 DEF vars
  <1> QED BY <1>3, <1>4, <1>5 DEF Next

\* What a row's reference leads to (validate_reference) is the row's own manifest,
\* truncated only if its write failed, or nothing; and a manifest that was written
\* whole before its row is found as long as the disk is the same, whatever failed.
THEOREM ManifestsAreTheRows == Spec => []ManifestIsTheRows
  <1>1. Init => DiskInv
    BY DEF Init, ManifestInit, DiskInv
  <1>2. ASSUME DiskInv, IInv PROVE ManifestIsTheRows
    <2>1. ASSUME NEW i \in 1..Len(rows)
          PROVE  LET row == rows[i]
                     whole == [of |-> row.payload, whole |-> TRUE]
                     found == ValidateReference(row.reference)
                 IN /\ \A m \in found \ {NoManifest, whole} :
                          m.of = row.payload /\ row.written = "failed"
                    /\ row.written = "whole" /\ row.deployment = deployment => whole \in found
      <3>1. PICK row : row = rows[i] OBVIOUS
      <3>2. PICK u : u = row.reference.uuid OBVIOUS
      <3> DEFINE whole == [of |-> row.payload, whole |-> TRUE]
      <3>3. RowFile(row) BY <1>2, <3>1 DEF DiskInv
      <3>4. u \in DOMAIN disk => disk[u] \in Files BY <1>2 DEF DiskInv
      <3>5. u \in DOMAIN disk /\ disk[u].whole => disk[u] = whole
        BY <3>2, <3>3, <3>4 DEF RowFile, Kept, Files
      <3>6. ASSUME NEW m \in ValidateReference(row.reference), m \notin {NoManifest, whole}
            PROVE  m.of = row.payload /\ row.written = "failed"
        <4>1. u \in DOMAIN disk /\ m = disk[u] BY <3>2, <3>6 DEF ValidateReference
        <4> QED BY <3>2, <3>3, <3>5, <3>6, <4>1 DEF RowFile, Kept
      <3>7. ASSUME row.written = "whole", row.deployment = deployment
            PROVE  whole \in ValidateReference(row.reference)
        <4>1. row.reference.kind = "path" /\ u \in DOMAIN disk /\ disk[u].whole
          BY <3>2, <3>3, <3>7 DEF RowFile, There
        <4> HIDE DEF whole
        <4> QED BY <3>2, <3>5, <4>1 DEF ValidateReference
      <3> QED BY <3>1, <3>6, <3>7
    <2> QED BY <2>1, Zenon DEF ManifestIsTheRows
  <1> QED BY <1>1, <1>2, InitInv, StepInv, StepDisk, PTL DEF Spec

-----------------------------------------------------------------------------
(* The image, what the last marking planned, and the last verdict *)

\* The last marking planned the bits of the payload's codeword.
PlanInv ==
    payload # NoPayload =>
       \A b \in 1..SyncBlocks + DataBlocks :
          /\ b <= SyncBlocks => plan[b][1] \in Int /\ plan[b][1] % 2 = 1
          /\ b > SyncBlocks =>
                /\ DOMAIN plan[b] = 1..BitsPerBlock
                /\ \A k \in 1..BitsPerBlock :
                      /\ plan[b][k] \in Int
                      /\ plan[b][k] % 2 = Bit(Codeword(payload), Position(b, k))

\* A verdict about a payload is about the image in circulation.
VerdictInv ==
    /\ verdict.status \in {"none", "ok", "failed", "capacity", "raised"}
    /\ verdict.status = "ok" <=> verdict.payload \in Payloads
    /\ verdict.errors \in 0..CodewordBytes
    /\ verdict.status \in {"ok", "failed"} =>
          /\ Enough(image.blocks)
          /\ verdict = Decode(ReadCodeword(image.blocks))

CodecInv ==
    /\ image \in [width : Nat \ {0}, blocks : Seq(Block)]
    /\ payload \in Payloads \cup {NoPayload}
    /\ PlanInv
    /\ gain \in Gains \cup {<<1, 1>>}
    /\ harmed \in SUBSET (1..Len(image.blocks))
    /\ events \in 0..MaxEvents
    /\ deployment \in 0..events
    /\ VerdictInv

LEMMA BlocksType ==
    ASSUME NEW n \in Nat, NEW f, DOMAIN f = 1..n, f = [i \in 1..n |-> f[i]],
           \A i \in 1..n : f[i] \in Block
    PROVE  f \in Seq(Block) /\ Len(f) = n
  <1>1. f \in [1..n -> Block] BY Zenon
  <1> HIDE DEF Block
  <1> QED BY <1>1

LEMMA UsedBlocks == SyncBlocks + DataBlocks \in Nat /\ SyncBlocks \in Nat /\ DataBlocks \in Nat
  <1>1. PICK t \in Nat, n \in Nat \ {0} : t = CodewordBytes * ByteBits /\ n = BitsPerBlock
    BY SizeAssumption
  <1>2. t \div n \in Nat OBVIOUS
  <1> QED BY <1>1, <1>2, SizeAssumption DEF DataBlocks

\* A verdict of the decoder is one of its two kinds.
LEMMA DecodeType ==
    ASSUME NEW codeword
    PROVE  /\ Decode(codeword).status \in {"ok", "failed"}
           /\ Decode(codeword).status = "ok" <=> Decode(codeword).payload \in Payloads
           /\ Decode(codeword).errors \in 0..CodewordBytes
  <1> DEFINE near == {p \in Payloads : Within(p, codeword)}
             pick == CHOOSE p \in near : TRUE
  <1>1. CodewordBytes \in Nat /\ NoPayload \notin Payloads
    BY SizeAssumption, CodecAssumption
  <1>2. CASE near = {}
    <2>1. Decode(codeword) = [status |-> "failed", payload |-> NoPayload, errors |-> 0]
      BY <1>2, Zenon DEF Decode
    <2> QED BY <1>1, <2>1
  <1>3. CASE near # {}
    <2>1. pick \in Payloads
      <3>1. pick \in near
        <4> HIDE DEF near
        <4> QED BY <1>3
      <3> HIDE DEF pick
      <3> QED BY <3>1
    <2>2. Decode(codeword) = [status |-> "ok", payload |-> pick,
                              errors |-> Distance(Codeword(pick), codeword)]
      BY <1>3, Zenon DEF Decode
    <2> HIDE DEF pick
    <2> QED BY <2>1, <2>2, DistanceType
  <1> QED BY <1>2, <1>3

LEMMA NoVerdictInv == verdict' = NoVerdict => VerdictInv'
  <1>1. CodewordBytes \in Nat /\ NoPayload \notin Payloads
    BY SizeAssumption, CodecAssumption
  <1> QED BY <1>1 DEF NoVerdict, VerdictInv

LEMMA InitCodec == Init => CodecInv
  <1> SUFFICES ASSUME Init PROVE CodecInv OBVIOUS
  <1>1. /\ image \in [width : Nat \ {0}, blocks : Seq(Block)]
        /\ payload = NoPayload /\ gain = <<1, 1>> /\ harmed = {} /\ events = 0
        /\ verdict = NoVerdict /\ deployment = 0
    BY ImageAssumption DEF Init, CodecInit
  <1>2. CodewordBytes \in Nat /\ NoPayload \notin Payloads /\ MaxEvents \in Nat
    BY SizeAssumption, CodecAssumption
  <1>3. PlanInv BY <1>1 DEF PlanInv
  <1>4. VerdictInv BY <1>1, <1>2 DEF VerdictInv, NoVerdict
  <1> QED BY <1>1, <1>2, <1>3, <1>4 DEF CodecInv

\* Marking leaves an image of blocks, with the bits of the codeword planned.
LEMMA EmbedCodec ==
    ASSUME CodecInv, NEW p \in Payloads, NEW e \in Noise, Embed(p, e),
           UNCHANGED deployment
    PROVE  CodecInv'
  <1> DEFINE used == 1..SyncBlocks + DataBlocks
             blocks == image.blocks
             marking == [b \in used |-> Marking(blocks[b], b, Codeword(p))]
             after == [b \in 1..Len(blocks) |->
                          IF b \in used THEN Marked(blocks[b], b, marking[b], e)
                          ELSE blocks[b]]
  <1>1. /\ image \in [width : Nat \ {0}, blocks : Seq(Block)]
        /\ events \in 0..MaxEvents /\ deployment \in 0..events /\ MaxEvents \in Nat
    BY SizeAssumption DEF CodecInv
  <1>2. /\ Enough(blocks)
        /\ plan' = [b \in used |-> marking[b].index]
        /\ image' = [image EXCEPT !.blocks = after]
        /\ payload' = p /\ gain' = <<1, 1>> /\ harmed' = {} /\ verdict' = NoVerdict
        /\ events' = events
    BY Zenon DEF Embed
  <1>3. blocks \in Seq(Block) /\ Len(blocks) \in Nat /\ used \subseteq 1..Len(blocks)
    <2>1. blocks \in Seq(Block) BY <1>1
    <2>2. Len(blocks) >= SyncBlocks + DataBlocks BY <1>2 DEF Enough
    <2> HIDE DEF blocks
    <2> QED BY <2>1, <2>2, UsedBlocks
  <1>4. e \in Int BY ImageAssumption
  <1> HIDE DEF blocks, used
  <1>5. \A b \in 1..Len(blocks) : blocks[b] \in Block BY <1>3
  <1>6. \A b \in used : marking[b] = Marking(blocks[b], b, Codeword(p)) OBVIOUS
  <1> HIDE DEF marking
  <1>7. after \in Seq(Block) /\ Len(after) = Len(blocks)
    <2>1. ASSUME NEW b \in 1..Len(blocks) PROVE after[b] \in Block
      <3>1. CASE b \in used
        <4>1. Marked(blocks[b], b, Marking(blocks[b], b, Codeword(p)), e) \in Block
          BY <1>4, <1>5, <3>1, MarkedType DEF used
        <4> QED BY <1>6, <3>1, <4>1
      <3>2. CASE b \notin used BY <1>5, <3>2
      <3> QED BY <3>1, <3>2
    <2>2. DOMAIN after = 1..Len(blocks) /\ after = [b \in 1..Len(blocks) |-> after[b]]
      OBVIOUS
    <2> HIDE DEF after
    <2> QED BY <1>3, <2>1, <2>2, BlocksType
  <1> HIDE DEF after
  <1>8. image' \in [width : Nat \ {0}, blocks : Seq(Block)]
    BY <1>1, <1>2, <1>7
  <1>9. PlanInv'
    <2>1. ASSUME NEW b \in used
          PROVE  /\ b <= SyncBlocks => plan'[b][1] \in Int /\ plan'[b][1] % 2 = 1
                 /\ b > SyncBlocks =>
                       /\ DOMAIN plan'[b] = 1..BitsPerBlock
                       /\ \A k \in 1..BitsPerBlock :
                             /\ plan'[b][k] \in Int
                             /\ plan'[b][k] % 2 = Bit(Codeword(p), Position(b, k))
      <3>1. plan'[b] = Marking(blocks[b], b, Codeword(p)).index BY <1>2, <1>6
      <3>2. blocks[b] \in Block /\ b \in 1..SyncBlocks + DataBlocks
        BY <1>3, <1>5 DEF used
      <3> QED BY <3>1, <3>2, MarkingType
    <2> QED BY <1>2, <2>1, Zenon DEF PlanInv, used
  <1>10. VerdictInv' BY <1>2, NoVerdictInv
  <1>11. events' \in 0..MaxEvents /\ deployment' \in 0..events' BY <1>1, <1>2
  <1> QED BY <1>2, <1>8, <1>9, <1>10, <1>11 DEF CodecInv

\* Rounding keeps what is not negative so.
LEMMA RoundNat ==
    ASSUME NEW n \in Nat, NEW d \in Nat \ {0}
    PROVE  Round(n, d) \in Nat
  <1>1. PICK r \in Int : r = Round(n, d) /\ 2 * n - d <= 2 * (d * r)
    <2>1. n \in Int /\ d \in Int /\ d > 0 OBVIOUS
    <2> QED BY <2>1, RoundIsNear
  <1>2. ASSUME r <= -1 PROVE FALSE
    <2>1. d * r <= d * (-1) BY <1>2
    <2> QED BY <1>1, <2>1
  <1> QED BY <1>1, <1>2

\* What the channel does to an image leaves it one, and makes no verdict about it.
LEMMA ChannelCodec ==
    ASSUME CodecInv, UNCHANGED <<payload, plan>>, UNCHANGED deployment,
           events < MaxEvents, events' = events + 1, verdict' = NoVerdict,
           image' \in [width : Nat \ {0}, blocks : Seq(Block)],
           gain' \in Gains \cup {<<1, 1>>},
           harmed' \in SUBSET (1..Len(image'.blocks))
    PROVE  CodecInv'
  <1>1. VerdictInv' BY NoVerdictInv
  <1>2. PlanInv' BY DEF CodecInv, PlanInv
  <1>3. events' \in 0..MaxEvents /\ deployment' \in 0..events'
    BY SizeAssumption DEF CodecInv
  <1> QED BY <1>1, <1>2, <1>3 DEF CodecInv

LEMMA DamageCodec ==
    ASSUME CodecInv, NEW b \in 1..SyncBlocks + DataBlocks, NEW junk \in Junk,
           Damage(b, junk), UNCHANGED deployment
    PROVE  CodecInv'
  <1>1. /\ image \in [width : Nat \ {0}, blocks : Seq(Block)]
        /\ gain \in Gains \cup {<<1, 1>>} /\ harmed \in SUBSET (1..Len(image.blocks))
    BY DEF CodecInv
  <1>2. b \in 1..Len(image.blocks) /\ junk \in Block
    BY <1>1, ImageAssumption, UsedBlocks DEF Damage
  <1>3. /\ image' = [image EXCEPT !.blocks[b] = junk]
        /\ harmed' = harmed \cup {b} /\ gain' = gain
        /\ UNCHANGED <<payload, plan>> /\ verdict' = NoVerdict
        /\ events < MaxEvents /\ events' = events + 1
    BY DEF Damage, Happens
  <1>4. /\ image' \in [width : Nat \ {0}, blocks : Seq(Block)]
        /\ Len(image'.blocks) = Len(image.blocks)
    BY <1>1, <1>2, <1>3
  <1>5. harmed' \in SUBSET (1..Len(image'.blocks)) BY <1>1, <1>2, <1>3, <1>4
  <1> QED BY <1>1, <1>3, <1>4, <1>5, ChannelCodec

LEMMA ScaleCodec ==
    ASSUME CodecInv, NEW g \in Gains, Scale(g), UNCHANGED deployment
    PROVE  CodecInv'
  <1> DEFINE scaled(v) == Round(v * g[1], g[2])
             blocks == image.blocks
             after == [b \in 1..Len(blocks) |->
                          [data |-> [k \in 1..BitsPerBlock |-> scaled(blocks[b].data[k])],
                           sync |-> scaled(blocks[b].sync),
                           rest |-> scaled(blocks[b].rest)]]
  <1>1. /\ image \in [width : Nat \ {0}, blocks : Seq(Block)]
        /\ harmed \in SUBSET (1..Len(blocks))
    BY DEF CodecInv
  <1>2. PICK m \in Nat, n \in Nat \ {0} : m = g[1] /\ n = g[2] BY ImageAssumption
  <1>3. /\ image' = [image EXCEPT !.blocks = after]
        /\ gain' = g /\ harmed' = harmed
        /\ UNCHANGED <<payload, plan>> /\ verdict' = NoVerdict
        /\ events < MaxEvents /\ events' = events + 1
    BY Zenon DEF Scale, Happens
  <1>4. /\ \A v \in Int : scaled(v) \in Int
        /\ \A v \in Nat : scaled(v) \in Nat
    <2>1. ASSUME NEW v \in Int PROVE scaled(v) \in Int
      <3>1. PICK x \in Int : x = v * m OBVIOUS
      <3>2. n \in Int /\ n > 0 OBVIOUS
      <3> QED BY <1>2, <3>1, <3>2, RoundIsNear
    <2>2. ASSUME NEW v \in Nat PROVE scaled(v) \in Nat
      <3>1. PICK x \in Nat : x = v * m OBVIOUS
      <3> QED BY <1>2, <3>1, RoundNat
    <2> QED BY <2>1, <2>2
  <1>5. blocks \in Seq(Block) /\ Len(blocks) \in Nat BY <1>1
  <1> HIDE DEF scaled, blocks
  <1>6. after \in Seq(Block) /\ Len(after) = Len(blocks)
    <2>1. ASSUME NEW b \in 1..Len(blocks) PROVE after[b] \in Block
      <3>1. blocks[b] \in Block BY <1>5
      <3>2. /\ blocks[b].sync \in Int /\ blocks[b].rest \in Nat
            /\ \A k \in 1..BitsPerBlock : blocks[b].data[k] \in Int
        BY <3>1 DEF Block
      <3> QED BY <1>4, <3>2 DEF Block
    <2>2. DOMAIN after = 1..Len(blocks) /\ after = [b \in 1..Len(blocks) |-> after[b]]
      OBVIOUS
    <2> HIDE DEF after
    <2> QED BY <1>5, <2>1, <2>2, BlocksType
  <1> HIDE DEF after
  <1>7. /\ image' \in [width : Nat \ {0}, blocks : Seq(Block)]
        /\ Len(image'.blocks) = Len(blocks)
    BY <1>1, <1>3, <1>6
  <1>8. harmed' \in SUBSET (1..Len(image'.blocks)) BY <1>1, <1>3, <1>7
  <1> QED BY <1>3, <1>7, <1>8, ChannelCodec

LEMMA CropBottomCodec ==
    ASSUME CodecInv, CropBottom, UNCHANGED deployment
    PROVE  CodecInv'
  <1>1. /\ image \in [width : Nat \ {0}, blocks : Seq(Block)]
        /\ gain \in Gains \cup {<<1, 1>>}
    BY DEF CodecInv
  <1>2. /\ image' = [image EXCEPT !.blocks =
                        SubSeq(image.blocks, 1, Len(image.blocks) - image.width)]
        /\ Len(image.blocks) > image.width
        /\ harmed' = harmed \cap 1..Len(image'.blocks) /\ gain' = gain
        /\ UNCHANGED <<payload, plan>> /\ verdict' = NoVerdict
        /\ events < MaxEvents /\ events' = events + 1
    BY DEF CropBottom, Happens
  <1>3. SubSeq(image.blocks, 1, Len(image.blocks) - image.width) \in Seq(Block)
    <2>1. image.blocks \in Seq(Block) /\ image.width \in Nat BY <1>1
    <2>2. PICK s \in Seq(Block), n \in Nat :
              s = image.blocks /\ n = Len(s) - image.width /\ n <= Len(s)
      BY <1>2, <2>1
    <2> HIDE DEF Block
    <2>3. SubSeq(s, 1, n) \in Seq(Block)
      <3>1. \A i \in 1..n : s[i] \in Block BY <2>2
      <3> QED BY <2>2, <3>1
    <2> QED BY <2>2, <2>3
  <1>4. image' \in [width : Nat \ {0}, blocks : Seq(Block)] BY <1>1, <1>2, <1>3
  <1> QED BY <1>1, <1>2, <1>4, ChannelCodec

LEMMA CropRightCodec ==
    ASSUME CodecInv, CropRight, UNCHANGED deployment
    PROVE  CodecInv'
  <1> DEFINE w == image.width - 1
             rows0 == Len(image.blocks) \div image.width
             from(i) == i + (i - 1) \div w
             after == [i \in 1..w * rows0 |-> image.blocks[from(i)]]
  <1>1. /\ image \in [width : Nat \ {0}, blocks : Seq(Block)]
        /\ gain \in Gains \cup {<<1, 1>>}
    BY DEF CodecInv
  <1>2. /\ image.width > 1
        /\ image' = [width |-> w, blocks |-> after]
        /\ harmed' = {i \in 1..w * rows0 : from(i) # i \/ i \in harmed} /\ gain' = gain
        /\ UNCHANGED <<payload, plan>> /\ verdict' = NoVerdict
        /\ events < MaxEvents /\ events' = events + 1
    BY Zenon DEF CropRight, Happens
  <1>3. PICK s \in Seq(Block), n \in Nat \ {0} :
            s = image.blocks /\ n = w /\ image.width = n + 1
    BY <1>1, <1>2
  <1>4. PICK l \in Nat, h \in Int : /\ l = Len(s) /\ h = rows0 /\ h >= 0
                                    /\ (n + 1) * h <= l
    <2>1. PICK l \in Nat : l = Len(s) BY <1>3
    <2>2. PICK m \in Int : m = n + 1 /\ m > 0 OBVIOUS
    <2>3. l \div m \in Int /\ m * (l \div m) <= l /\ l < m * (l \div m) + m
      BY <2>2, Division
    <2>4. PICK h \in Int : h = l \div m BY <2>3
    <2>5. ~(h <= -1)
      <3>1. ASSUME h <= -1 PROVE m * h <= m * (-1) BY <2>2, <3>1
      <3> QED BY <2>2, <2>3, <2>4, <3>1
    <2> QED BY <1>3, <2>1, <2>2, <2>3, <2>4, <2>5
  <1>5. PICK t \in Nat : t = n * h /\ t = w * rows0
    <2>1. n * h >= 0 BY <1>4
    <2> HIDE DEF w, rows0
    <2> QED BY <1>3, <1>4, <2>1
  <1>6. ASSUME NEW i \in 1..t PROVE from(i) \in 1..l
    <2>1. PICK j \in Int : /\ j = (i - 1) \div n
                           /\ n * j <= i - 1 /\ i - 1 < n * j + n
      <3>1. n \in Int /\ n > 0 /\ i - 1 \in Int OBVIOUS
      <3> QED BY <3>1, Division
    <2>2. 0 <= j
      <3>1. ASSUME j <= -1 PROVE FALSE
        <4>1. n * j <= n * (-1) BY <3>1
        <4> QED BY <2>1, <4>1
      <3> QED BY <3>1
    <2>3. j <= h - 1
      <3>1. ASSUME j >= h PROVE FALSE
        <4>1. n * j >= n * h BY <3>1
        <4> QED BY <1>5, <2>1, <4>1
      <3> QED BY <3>1
    <2>4. (n + 1) * h = n * h + h OBVIOUS
    <2>5. from(i) = i + j BY <1>3, <2>1
    <2> HIDE DEF from
    <2> QED BY <1>4, <1>5, <2>2, <2>3, <2>4, <2>5
  <1>7. after = [i \in 1..t |-> s[from(i)]]
    <2> HIDE DEF from, w, rows0
    <2> QED BY <1>3, <1>5
  <1>8. after \in Seq(Block) /\ Len(after) = t
    <2> HIDE DEF after, from
    <2>1. \A i \in 1..t : after[i] \in Block BY <1>4, <1>6, <1>7
    <2>2. DOMAIN after = 1..t /\ after = [i \in 1..t |-> after[i]] BY <1>7
    <2> QED BY <2>1, <2>2, BlocksType
  <1>9. /\ image' \in [width : Nat \ {0}, blocks : Seq(Block)]
        /\ Len(image'.blocks) = t
    <2> HIDE DEF after, w
    <2> QED BY <1>2, <1>3, <1>8
  <1>10. harmed' \in SUBSET (1..Len(image'.blocks))
    <2> HIDE DEF from, w, rows0
    <2> QED BY <1>2, <1>5, <1>9
  <1> QED BY <1>1, <1>2, <1>9, <1>10, ChannelCodec

LEMMA ExtractCodec ==
    ASSUME CodecInv, Extract, UNCHANGED deployment
    PROVE  CodecInv'
  <1>1. UNCHANGED imageVars BY DEF Extract
  <1>2. VerdictInv'
    <2>1. CASE Enough(image.blocks)
      <3>1. verdict' = Decode(ReadCodeword(image.blocks)) BY <2>1 DEF Extract
      <3>2. image' = image BY <1>1 DEF imageVars
      <3>3. /\ verdict'.status \in {"ok", "failed"}
            /\ verdict'.status = "ok" <=> verdict'.payload \in Payloads
            /\ verdict'.errors \in 0..CodewordBytes
        BY <3>1, DecodeType
      <3> QED BY <2>1, <3>1, <3>2, <3>3 DEF VerdictInv
    <2>2. CASE ~Enough(image.blocks)
      <3>1. verdict' = [status |-> "capacity", payload |-> NoPayload, errors |-> 0]
        BY <2>2 DEF Extract
      <3>2. CodewordBytes \in Nat /\ NoPayload \notin Payloads
        BY SizeAssumption, CodecAssumption
      <3> QED BY <3>1, <3>2 DEF VerdictInv
    <2> QED BY <2>1, <2>2
  <1> QED BY <1>1, <1>2 DEF CodecInv, PlanInv, imageVars

LEMMA StepCodec == IInv /\ CodecInv /\ [Next]_vars => CodecInv'
  <1> SUFFICES ASSUME IInv, CodecInv, [Next]_vars PROVE CodecInv'
    OBVIOUS
  <1>1. ASSUME UNCHANGED <<imageVars, deployment>>,
               \/ UNCHANGED verdict
               \/ verdict' = [NoVerdict EXCEPT !.status = "raised"]
               \/ verdict' = [NoVerdict EXCEPT !.status = "capacity"]
        PROVE  CodecInv'
    <2>1. CodewordBytes \in Nat /\ NoPayload \notin Payloads
      BY SizeAssumption, CodecAssumption
    <2>2. VerdictInv'
      <3>1. CASE UNCHANGED verdict
        BY <1>1, <3>1 DEF CodecInv, VerdictInv, imageVars
      <3>2. CASE ~UNCHANGED verdict
        BY <1>1, <2>1, <3>2 DEF VerdictInv, NoVerdict
      <3> QED BY <3>1, <3>2
    <2> QED BY <1>1, <2>2 DEF CodecInv, PlanInv, imageVars
  <1>2. CASE ServiceStep
    <2>1. ASSUME NEW claim \in Claims, NEW e \in Noise, Mark(claim, e) PROVE CodecInv'
      <3>1. /\ UNCHANGED <<image, payload, plan, gain, harmed, deployment>>
            /\ verdict' = NoVerdict /\ events < MaxEvents /\ events' = events + 1
        BY <2>1 DEF Mark, Happens
      <3>2. /\ image' \in [width : Nat \ {0}, blocks : Seq(Block)]
            /\ gain' \in Gains \cup {<<1, 1>>}
            /\ harmed' \in SUBSET (1..Len(image'.blocks))
        BY <3>1 DEF CodecInv
      <3> QED BY <3>1, <3>2, ChannelCodec
    <2>2. CASE Deliver
      <3>1. job \in Jobs BY <2>2 DEF IInv, JobInv, Deliver, NoJob
      <3>2. Payload(secret, job.claim) \in Payloads /\ job.noise \in Noise
        BY <3>1, EvidenceAssumption DEF IInv, Payload, Jobs
      <3>3. PICK p \in Payloads, e \in Noise : p = Payload(secret, job.claim) /\ e = job.noise
        BY <3>2
      <3>4. Embed(p, e) /\ UNCHANGED deployment BY <2>2, <3>3 DEF Deliver
      <3> QED BY <3>4, EmbedCodec
    <2>3. ASSUME NEW s \in Secrets, Redeploy(s) PROVE CodecInv'
      <3>1. /\ UNCHANGED <<image, payload, plan, gain, harmed, verdict>>
            /\ events < MaxEvents /\ events' = events + 1
            /\ deployment' = deployment + 1
        BY <2>3 DEF Redeploy, Happens
      <3>2. events' \in 0..MaxEvents /\ deployment' \in 0..events'
        BY <3>1, SizeAssumption DEF CodecInv
      <3> QED BY <3>1, <3>2 DEF CodecInv, PlanInv, VerdictInv
    <2>4. ASSUME ~ \E claim \in Claims, e \in Noise : Mark(claim, e), ~Deliver,
                 ~ \E s \in Secrets : Redeploy(s)
          PROVE  CodecInv'
      BY <1>1, <1>2, <2>4
         DEF ServiceStep, MarkRefused, Bind, Sign, Open, Write, WriteFails, Store, Fails,
             serviceVars
    <2> QED BY <2>1, <2>2, <2>3, <2>4
  <1>3. CASE ChannelStep
    <2>1. UNCHANGED deployment BY <1>3 DEF ChannelStep, serviceVars
    <2> QED BY <1>3, <2>1, ExtractCodec, DamageCodec, ScaleCodec, CropBottomCodec,
               CropRightCodec DEF ChannelStep
  <1>4. CASE UNCHANGED vars
    BY <1>1, <1>4 DEF vars, serviceVars
  <1> QED BY <1>2, <1>3, <1>4 DEF Next

\* A registration draws a uuid at most.
CountInv ==
    /\ uuids \in Nat /\ events \in Nat
    /\ IF job # NoJob /\ job.step \in {"marked", "bound"} THEN uuids < events
       ELSE uuids <= events

LEMMA StepCount == IInv /\ CountInv /\ [Next]_vars => CountInv'
  <1> SUFFICES ASSUME IInv, CountInv, [Next]_vars PROVE CountInv'
    OBVIOUS
  <1> USE DEF CountInv
  <1>1. ASSUME uuids' = uuids, events' \in {events, events + 1}, job' \in {job, NoJob}
        PROVE  CountInv'
    BY <1>1
  <1>2. CASE ServiceStep
    <2>1. ASSUME NEW claim \in Claims, NEW e \in Noise, Mark(claim, e) PROVE CountInv'
      BY <2>1 DEF Mark, Happens
    <2>2. CASE job \in Jobs
      <3>1. ASSUME NEW hashes \in Hashes, NEW r \in Randomness, Bind(hashes, r)
            PROVE  CountInv'
        BY <2>2, <3>1 DEF Bind, imageVars, Jobs, NoJob
      <3>2. ASSUME NEW kind \in Kinds, Sign(kind) PROVE CountInv'
        <4>1. job'.step \notin {"marked", "bound"} /\ job.step = "bound" /\ job # NoJob
          BY <2>2, <3>2 DEF Sign, Jobs, NoJob
        <4> QED BY <3>2, <4>1 DEF Sign, imageVars
      <3>3. CASE Open \/ Write \/ WriteFails \/ Store
        <4>1. job'.step \notin {"marked", "bound"}
          BY <2>2, <3>3 DEF Open, Write, WriteFails, Store, Jobs
        <4> QED BY <3>3, <4>1 DEF Open, Write, WriteFails, Store, imageVars
      <3>4. CASE Deliver \/ Fails
        BY <1>1, <3>4 DEF Deliver, Fails, Embed, imageVars
      <3>5. CASE MarkRefused
        BY <1>1, <3>5 DEF MarkRefused, imageVars, serviceVars
      <3>6. ASSUME NEW s \in Secrets, Redeploy(s) PROVE CountInv'
        BY <1>1, <3>6 DEF Redeploy, Happens
      <3> QED BY <1>2, <2>1, <3>1, <3>2, <3>3, <3>4, <3>5, <3>6 DEF ServiceStep, Kinds
    <2>3. CASE job = NoJob
      <3>1. CASE MarkRefused
        BY <1>1, <3>1 DEF MarkRefused, imageVars, serviceVars
      <3>2. ASSUME NEW s \in Secrets, Redeploy(s) PROVE CountInv'
        BY <1>1, <3>2 DEF Redeploy, Happens
      <3> QED BY <1>2, <2>1, <2>3, <3>1, <3>2
              DEF ServiceStep, Bind, Sign, Open, Write, WriteFails, Store, Deliver, Fails, NoJob
    <2> QED BY <2>2, <2>3 DEF IInv, JobInv
  <1>3. CASE ChannelStep
    BY <1>1, <1>3 DEF ChannelStep, serviceVars, Extract, Damage, Scale, CropBottom, CropRight,
                      Happens, imageVars
  <1>4. CASE UNCHANGED vars
    BY <1>1, <1>4 DEF vars, imageVars, serviceVars
  <1> QED BY <1>2, <1>3, <1>4 DEF Next

\* The three parts hold of every run.
THEOREM CodecInvariance == Spec => [](IInv /\ CodecInv /\ CountInv)
  <1>1. Init => CountInv BY DEF Init, CodecInit, CountInv, NoJob
  <1> QED BY <1>1, InitInv, InitCodec, StepInv, StepCodec, StepCount, PTL DEF Spec

\* The variables hold values of their kinds, after any marking, damage, change of
\* contrast and cut; synchronisation is always planned on odd multiples.
THEOREM TypeCorrect == Spec => []TypeOK
  <1>1. ASSUME IInv, CodecInv, CountInv PROVE TypeOK
    <2>1. /\ image \in [width : Nat \ {0}, blocks : Seq(Block)]
          /\ events \in 0..MaxEvents /\ deployment \in 0..events /\ MaxEvents \in Nat
          /\ harmed \in SUBSET (1..Len(image.blocks))
      BY <1>1, SizeAssumption DEF CodecInv
    <2>2. ASSUME NEW b \in 1..Len(image.blocks)
          PROVE  /\ DOMAIN image.blocks[b].data = 1..BitsPerBlock
                 /\ image.blocks[b].rest >= 0
      <3>1. image.blocks[b] \in Block BY <2>1
      <3> QED BY <3>1 DEF Block
    <2>3. payload # NoPayload =>
            \A b \in 1..SyncBlocks + DataBlocks :
               IF b <= SyncBlocks THEN plan[b][1] % 2 = 1
               ELSE DOMAIN plan[b] = 1..BitsPerBlock
      BY <1>1, UsedBlocks DEF CodecInv, PlanInv
    <2>4. deployment \in 0..MaxEvents BY <2>1
    <2>5. uuids \in 0..events BY <1>1 DEF CountInv
    <2>6. job # NoJob => job.step \in Steps BY <1>1 DEF IInv, JobInv, Jobs
    <2> QED BY <1>1, <2>1, <2>2, <2>3, <2>4, <2>5, <2>6
            DEF TypeOK, IInv, CodecInv, VerdictInv, Steps
  <1> QED BY <1>1, CodecInvariance, PTL

-----------------------------------------------------------------------------
(* Reading what is left *)

\* Whatever the other synchronisation blocks have become, while more than half
\* of them are taken for what they are, the estimated gain lies among the gains
\* those show: the steps of extract_watermark follow the true contrast.
THEOREM GainIsWithinIntact == Spec => []GainWithinIntact
  <1>1. ASSUME CodecInv, Read, 2 * (SyncBlocks - Cardinality(Right)) < SyncBlocks
        PROVE  LET est == Estimate(image.blocks)
                   ratio(b) == Ratio(image.blocks[b].sync)
               IN /\ \E b \in Right : RatioLeq(ratio(b), est)
                  /\ \E b \in Right : RatioLeq(est, ratio(b))
    <2> DEFINE blocks == image.blocks
               D == Lit(blocks)
               r == [b \in D |-> Ratio(blocks[b].sync)]
    <2>1. blocks \in Seq(Block) /\ Enough(blocks)
      BY <1>1 DEF CodecInv, Read
    <2>2. SyncBlocks \in Nat /\ SyncBlocks <= Len(blocks) /\ Len(blocks) \in Nat
      <3> HIDE DEF blocks
      <3> QED BY <2>1, UsedBlocks DEF Enough
    <2>3. Right \in SUBSET D /\ D \in SUBSET (1..SyncBlocks)
      BY DEF Right, Lit
    <2> HIDE DEF blocks
    <2>4. IsFiniteSet(1..SyncBlocks) /\ Cardinality(1..SyncBlocks) = SyncBlocks
      BY <2>2, FS_Interval
    <2> HIDE DEF D
    <2>5. /\ IsFiniteSet(D) /\ Cardinality(D) \in Nat /\ Cardinality(D) <= SyncBlocks
          /\ IsFiniteSet(Right) /\ Cardinality(Right) \in Nat
      BY <2>3, <2>4, FS_Subset, FS_CardinalityType
    <2>6. 2 * Cardinality(Right) > Cardinality(D) BY <1>1, <2>2, <2>5
    <2>7. r \in [D -> Fractions]
      <3>1. ASSUME NEW b \in D PROVE Ratio(blocks[b].sync) \in Fractions
        <4>1. b \in 1..Len(blocks) /\ blocks[b].sync # 0 BY <2>2 DEF D, Lit
        <4>2. blocks[b] \in Block BY <2>1, <4>1
        <4>3. blocks[b].sync \in Int BY <4>2 DEF Block
        <4> QED BY <4>1, <4>3, RatioType
      <3> QED BY <3>1
    <2>8. D # {}
      <3>1. Right # {} BY <2>5, <2>6, FS_EmptySet
      <3> QED BY <2>3, <3>1
    <2>9. Estimate(blocks) = Median(r) BY <2>8, Zenon DEF Estimate, D
    <2>10. \A b \in Right : r[b] = Ratio(blocks[b].sync) BY <2>3
    <2> HIDE DEF r
    <2>11. /\ \E b \in Right : RatioLeq(r[b], Median(r))
           /\ \E b \in Right : RatioLeq(Median(r), r[b])
      BY <2>3, <2>5, <2>6, <2>7, MedianWithin
    <2> QED BY <2>9, <2>10, <2>11 DEF blocks
  <1>2. IInv /\ CodecInv => GainWithinIntact BY <1>1, Zenon DEF GainWithinIntact
  <1> QED BY <1>2, CodecInvariance, PTL

\* A byte none of whose blocks is misread is read as it was written.
LEMMA ByteIsRead ==
    ASSUME CodecInv, payload # NoPayload, Enough(image.blocks),
           NEW i \in (1..CodewordBytes) \ BadBytes
    PROVE  ReadCodeword(image.blocks)[i] = Codeword(payload)[i]
  <1> DEFINE blocks == image.blocks
             bits == ReadBits(blocks)
             g == Estimate(blocks)
  <1>1. blocks \in Seq(Block) /\ Enough(blocks) /\ payload \in Payloads /\ PlanInv
    BY DEF CodecInv
  <1>2. /\ Codeword(payload) \in [1..CodewordBytes -> Nat]
        /\ Shift(Codeword(payload)[i], ByteBits) = 0
    BY <1>1, CodecAssumption DEF Codeword
  <1>3. ASSUME NEW j \in 1..ByteBits
        PROVE  bits[(i - 1) * ByteBits + j]
                  = Bit(Codeword(payload), (i - 1) * ByteBits + j)
    <2> DEFINE p == (i - 1) * ByteBits + j
               b == BlockOf(p)
               k == PlaceOf(p)
    <2>1. /\ p \in 1..CodewordBytes * ByteBits
          /\ b \in SyncBlocks + 1 .. SyncBlocks + DataBlocks
          /\ k \in 1..BitsPerBlock
          /\ Position(b, k) = p /\ 1 + (p - 1) \div ByteBits = i
      BY BitPlace
    <2> HIDE DEF p, b, k
    <2>2. Steady(b, g)
      <3> SUFFICES ASSUME ~Steady(b, g) PROVE FALSE OBVIOUS
      <3>1. 1 + (Position(b, k) - 1) \div ByteBits \in BadBytes
        BY <2>1 DEF BadBytes
      <3> QED BY <2>1, <3>1
    <2>3. b \in 1..SyncBlocks + DataBlocks /\ b > SyncBlocks /\ b \in 1..Len(blocks)
      <3>1. SyncBlocks + DataBlocks <= Len(blocks) /\ Len(blocks) \in Nat
        <4> HIDE DEF blocks
        <4> QED BY <1>1, UsedBlocks DEF Enough
      <3> HIDE DEF blocks
      <3> QED BY <2>1, <3>1, UsedBlocks
    <2>4. plan[b][k] \in Int /\ plan[b][k] % 2 = Bit(Codeword(payload), p)
      BY <1>1, <2>1, <2>3 DEF PlanInv
    <2>5. 2 * Abs(ReadNum(blocks[b], k, g) - plan[b][k] * ReadDen(blocks[b], g))
             < ReadDen(blocks[b], g)
      BY <2>1, <2>2, Zenon DEF Steady
    <2>6. PICK q \in Int : q = plan[b][k] BY <2>4
    <2> HIDE DEF blocks
    <2>7. bits[p] = q % 2
      BY <1>1, <2>1, <2>3, <2>5, <2>6, BitRead DEF b, k
    <2> QED BY <2>4, <2>6, <2>7 DEF p
  <1> HIDE DEF bits
  <1>4. Byte(bits, i) = Codeword(payload)[i] BY <1>2, <1>3, BytesOfBits
  <1>5. ReadCodeword(blocks)[i] = Byte(bits, i) BY Zenon DEF ReadCodeword, bits
  <1> QED BY <1>4, <1>5

\* An image is read as what it was marked with last while the misread blocks
\* reach no more bytes than the code corrects, and no more errors are reported
\* than there are such bytes: it is neither missed nor taken for another.
THEOREM RecoversWithinCapacity == Spec => []RecoveredWithinCapacity
  <1>1. ASSUME CodecInv, verdict.status \in {"ok", "failed"}, payload # NoPayload,
               Cardinality(BadBytes) <= Radius
        PROVE  /\ verdict.status = "ok"
               /\ verdict.payload = payload
               /\ verdict.errors <= Cardinality(BadBytes)
    <2> DEFINE word == ReadCodeword(image.blocks)
    <2>1. /\ payload \in Payloads /\ Enough(image.blocks) /\ verdict = Decode(word)
      BY <1>1 DEF CodecInv, VerdictInv
    <2>2. IsFiniteSet(BadBytes) /\ Cardinality(BadBytes) \in Nat
      <3>1. BadBytes \in SUBSET (1..CodewordBytes)
        BY PositionByte DEF BadBytes
      <3>2. IsFiniteSet(1..CodewordBytes) BY SizeAssumption, FS_Interval
      <3> QED BY <3>1, <3>2, FS_Subset, FS_CardinalityType
    <2>3. \A i \in 1..CodewordBytes : Codeword(payload)[i] # word[i] => i \in BadBytes
      BY <1>1, <2>1, ByteIsRead
    <2> HIDE DEF word
    <2>4. /\ Distance(Codeword(payload), word) \in Nat
          /\ Distance(Codeword(payload), word) <= Cardinality(BadBytes)
      BY <2>2, <2>3, DistanceWithin
    <2>5. Radius \in Int BY SizeAssumption DEF Radius
    <2>6. Distance(Codeword(payload), word) <= Radius BY <1>1, <2>2, <2>4, <2>5
    <2>7. verdict = [status |-> "ok", payload |-> payload,
                     errors |-> Distance(Codeword(payload), word)]
      BY <2>1, <2>6, DecodesWithinRadius
    <2> QED BY <2>4, <2>7
  <1>2. IInv /\ CodecInv => RecoveredWithinCapacity
    BY <1>1 DEF RecoveredWithinCapacity
  <1> QED BY <1>2, CodecInvariance, PTL

-----------------------------------------------------------------------------
(* Powers modulo P *)

LEMMA GroupTypes ==
    /\ P \in Nat /\ P > 1 /\ Q \in Nat /\ Q > 2 /\ G \in 2..P - 1
    /\ \A a, b \in 1..P - 1 : (a * b) % P # 0
    /\ \A a, b \in 1..Q - 1 : (a * b) % Q # 0
  <1>1. Q \in Nat /\ Q > 2 /\ P = 2 * Q + 1 /\ G \in 2..P - 1 BY GroupAssumption
  <1>2. P \in Nat /\ P > 1 BY <1>1
  <1> QED BY <1>1, <1>2, GroupAssumption DEF IsPrime

\* Power is the recursion it is written as.
LEMMA PowerSteps ==
    ASSUME NEW base \in Nat
    PROVE  /\ Power(base, 0) = 1
           /\ \A n \in Nat :
                 /\ Power(base, n) \in Nat
                 /\ Power(base, n + 1) = (base * Power(base, n)) % P
  <1> DEFINE step == [x \in Nat \X Nat |-> (base * x[2]) % P]
             Values(v) == v = [n \in Nat |-> IF n = 0 THEN 1
                                             ELSE (base * v[n - 1]) % P]
  <1>1. P \in Nat /\ P > 1 BY GroupTypes
  <1>2. step \in [Nat \X Nat -> Nat]
    <2>1. ASSUME NEW x \in Nat \X Nat PROVE (base * x[2]) % P \in Nat
      <3>1. PICK m \in Nat : m = base * x[2]
        <4>1. PICK y \in Nat : y = x[2] OBVIOUS
        <4> QED BY <4>1
      <3> QED BY <1>1, <3>1
    <2> QED BY <2>1
  <1>3. \A j, v \in Nat : step[<<j, v>>] = (base * v) % P OBVIOUS
  <1> HIDE DEF step
  <1>4. PICK f \in [Nat -> Nat] :
            f[0] = 1 /\ \A j \in Nat : f[j + 1] = step[<<j + 1, f[j]>>]
    <2>1. 1 \in Nat OBVIOUS
    <2> QED BY <1>2, <2>1, Recursion, Zenon
  <1>5. ASSUME NEW j \in Nat
        PROVE  f[j] \in Nat /\ f[j + 1] = (base * f[j]) % P
    <2>1. f[j] \in Nat /\ j + 1 \in Nat BY <1>4
    <2> QED BY <1>3, <1>4, <2>1
  <1>6. Values(f)
    <2>1. \A n \in Nat : n # 0 => f[n] = (base * f[n - 1]) % P
      <3> TAKE n \in Nat
      <3>1. ASSUME n # 0 PROVE f[n] = (base * f[n - 1]) % P
        <4>1. n - 1 \in Nat /\ (n - 1) + 1 = n BY <3>1
        <4> QED BY <1>5, <4>1
      <3> QED BY <3>1
    <2>2. f = [n \in Nat |-> f[n]] OBVIOUS
    <2> QED BY <1>4, <2>1, <2>2
  <1> DEFINE v == CHOOSE v : Values(v)
  <1>7. Values(v) BY <1>6, Zenon
  <1>8. \A n \in Nat : Power(base, n) = v[n] BY Zenon DEF Power
  <1> HIDE DEF v
  <1>9. v[0] = 1 /\ \A j \in Nat : v[j + 1] = (base * v[j]) % P
    <2>1. \A n \in Nat : v[n] = IF n = 0 THEN 1 ELSE (base * v[n - 1]) % P
      BY <1>7, Zenon
    <2>2. v[0] = 1
      <3>1. 0 \in Nat OBVIOUS
      <3> QED BY <2>1, <3>1
    <2>3. ASSUME NEW j \in Nat PROVE v[j + 1] = (base * v[j]) % P
      <3>1. j + 1 \in Nat /\ j + 1 # 0 /\ (j + 1) - 1 = j OBVIOUS
      <3> QED BY <2>1, <3>1
    <2> QED BY <2>2, <2>3
  <1> DEFINE S == {n \in Nat : v[n] = f[n]}
  <1>10. 0 \in S BY <1>4, <1>9
  <1>11. ASSUME NEW n \in Nat, n \in S PROVE n + 1 \in S
    BY <1>5, <1>9, <1>11
  <1> HIDE DEF S
  <1>12. Nat \subseteq S BY <1>10, <1>11, SetInduction
  <1>13. \A n \in Nat : v[n] = f[n] BY <1>12 DEF S
  <1>14. \A n \in Nat : n + 1 \in Nat OBVIOUS
  <1>15. Power(base, 0) = 1
    <2>1. 0 \in Nat OBVIOUS
    <2> QED BY <1>4, <1>8, <1>13, <2>1
  <1>16. ASSUME NEW n \in Nat
         PROVE  /\ Power(base, n) \in Nat
                /\ Power(base, n + 1) = (base * Power(base, n)) % P
    <2>1. Power(base, n) = f[n] BY <1>8, <1>13
    <2>2. Power(base, n + 1) = f[n + 1] BY <1>8, <1>13, <1>14
    <2> QED BY <1>5, <2>1, <2>2
  <1> QED BY <1>15, <1>16

\* A power of what is not a multiple of P is none.
LEMMA PowerUnit ==
    ASSUME NEW base \in 1..P - 1
    PROVE  \A n \in Nat : Power(base, n) \in 1..P - 1
  <1> DEFINE S == {n \in Nat : Power(base, n) \in 1..P - 1}
  <1>1. P \in Nat /\ P > 1 /\ base \in Nat BY GroupTypes
  <1>2. 0 \in S BY <1>1, PowerSteps
  <1>3. ASSUME NEW n \in Nat, n \in S PROVE n + 1 \in S
    <2>1. PICK y \in 1..P - 1 : y = Power(base, n) BY <1>3
    <2>2. (base * y) % P # 0 BY <2>1, GroupTypes
    <2>3. PICK m \in Nat : m = base * y BY <1>1
    <2>4. m % P \in 1..P - 1 BY <1>1, <2>2, <2>3
    <2>5. Power(base, n + 1) = (base * y) % P BY <1>1, <2>1, PowerSteps
    <2> QED BY <2>3, <2>4, <2>5
  <1> HIDE DEF S
  <1>4. Nat \subseteq S BY <1>2, <1>3, SetInduction
  <1> QED BY <1>4 DEF S

\* What is no multiple of P cancels.
LEMMA Cancel ==
    ASSUME NEW a \in 1..P - 1, NEW x \in 0..P - 1, NEW y \in 0..P - 1,
           (a * x) % P = (a * y) % P
    PROVE  x = y
  <1>1. P \in Nat /\ P > 1 BY GroupTypes
  <1>2. PICK m \in Int, n \in Int : m = a * x /\ n = a * y BY <1>1
  <1>3. ASSUME x < y PROVE FALSE
    <2>1. (n - m) % P = 0 BY <1>1, <1>2, ModuloEqual
    <2>2. PICK z \in 1..P - 1 : z = y - x BY <1>1, <1>3
    <2>3. n - m = a * z BY <1>1, <1>2, <2>2
    <2>4. (a * z) % P # 0 BY GroupTypes
    <2> QED BY <2>1, <2>3, <2>4
  <1>4. ASSUME y < x PROVE FALSE
    <2>1. (m - n) % P = 0 BY <1>1, <1>2, ModuloEqual
    <2>2. PICK z \in 1..P - 1 : z = x - y BY <1>1, <1>4
    <2>3. m - n = a * z BY <1>1, <1>2, <2>2
    <2>4. (a * z) % P # 0 BY GroupTypes
    <2> QED BY <2>1, <2>3, <2>4
  <1> QED BY <1>1, <1>3, <1>4

\* Exponents add.
LEMMA PowerSum ==
    ASSUME NEW base \in Nat, NEW m \in Nat
    PROVE  \A n \in Nat :
              Power(base, m + n) = (Power(base, m) * Power(base, n)) % P
  <1> DEFINE S == {n \in Nat : Power(base, m + n)
                                  = (Power(base, m) * Power(base, n)) % P}
  <1>1. P \in Nat /\ P > 1 BY GroupTypes
  <1>2. \A n \in Nat : Power(base, n) \in 0..P - 1
    <2>1. Power(base, 0) \in 0..P - 1 BY <1>1, PowerSteps
    <2>2. ASSUME NEW n \in Nat PROVE Power(base, n + 1) \in 0..P - 1
      <3>1. PICK y \in Nat : y = Power(base, n) BY PowerSteps
      <3>2. PICK z \in Nat : z = base * y OBVIOUS
      <3>3. z % P \in 0..P - 1 BY <1>1
      <3> QED BY <3>1, <3>2, <3>3, PowerSteps
    <2>3. \A n \in Nat : n = 0 \/ (n - 1 \in Nat /\ (n - 1) + 1 = n) OBVIOUS
    <2> QED BY <2>1, <2>2, <2>3
  <1>3. 0 \in S
    <2>1. PICK y \in 0..P - 1 : y = Power(base, m) BY <1>2
    <2>2. (y * 1) % P = y BY <1>1
    <2> QED BY <2>1, <2>2, PowerSteps
  <1>4. ASSUME NEW n \in Nat, n \in S PROVE n + 1 \in S
    <2>1. PICK x, y \in Nat : x = Power(base, m) /\ y = Power(base, n) BY PowerSteps
    <2>2. Power(base, m + n) = (x * y) % P BY <1>4, <2>1
    <2>3. Power(base, m + (n + 1)) = (base * ((x * y) % P)) % P
      <3>1. m + (n + 1) = (m + n) + 1 /\ m + n \in Nat OBVIOUS
      <3> QED BY <2>2, <3>1, PowerSteps
    <2>4. PICK z \in Nat : z = x * y OBVIOUS
    <2>5. (base * (z % P)) % P = (base * z) % P
      <3>1. P \in Int /\ P > 0 /\ base \in Int /\ z \in Int BY <1>1
      <3> QED BY <3>1, ModuloFactor
    <2>6. PICK u \in Nat : u = base * y OBVIOUS
    <2>7. (x * (u % P)) % P = (x * u) % P
      <3>1. P \in Int /\ P > 0 /\ x \in Int /\ u \in Int BY <1>1
      <3> QED BY <3>1, ModuloFactor
    <2>8. base * z = x * u BY <2>4, <2>6
    <2>9. Power(base, n + 1) = u % P BY <2>1, <2>6, PowerSteps
    <2> QED BY <2>1, <2>3, <2>4, <2>5, <2>7, <2>8, <2>9
  <1> HIDE DEF S
  <1>5. Nat \subseteq S BY <1>3, <1>4, SetInduction
  <1> QED BY <1>5 DEF S

\* Exponents multiply.
LEMMA PowerPower ==
    ASSUME NEW base \in Nat, NEW x \in Nat
    PROVE  \A r \in Nat : Power(Power(base, x), r) = Power(base, x * r)
  <1> DEFINE S == {r \in Nat : Power(Power(base, x), r) = Power(base, x * r)}
  <1>1. PICK h \in Nat : h = Power(base, x) BY PowerSteps
  <1>2. 0 \in S
    <2>1. x * 0 = 0 OBVIOUS
    <2> QED BY <1>1, <2>1, PowerSteps
  <1>3. ASSUME NEW r \in Nat, r \in S PROVE r + 1 \in S
    <2>1. PICK n \in Nat : n = x * r OBVIOUS
    <2>2. x * (r + 1) = x + n BY <2>1
    <2>3. Power(base, x + n) = (h * Power(base, n)) % P BY <1>1, PowerSum
    <2>4. Power(h, r + 1) = (h * Power(h, r)) % P BY PowerSteps
    <2>5. Power(h, r) = Power(base, n) BY <1>1, <1>3, <2>1
    <2> QED BY <1>1, <2>2, <2>3, <2>4, <2>5
  <1> HIDE DEF S
  <1>4. Nat \subseteq S BY <1>2, <1>3, SetInduction
  <1> QED BY <1>4 DEF S

-----------------------------------------------------------------------------
(* Commitments *)

\* Exponents of the generator count modulo Q.
LEMMA PowerCycle ==
    ASSUME NEW n \in Nat
    PROVE  n % Q \in 0..Q - 1 /\ Power(G, n) = Power(G, n % Q)
  <1>1. /\ P \in Nat /\ P > 1 /\ Q \in Int /\ Q > 0 /\ G \in Nat /\ G \in 1..P - 1
        /\ Q \in Nat
    BY GroupTypes
  <1> DEFINE S == {k \in Nat : Power(G, Q * k) = 1}
  <1>2. 0 \in S
    <2>1. Q * 0 = 0 BY <1>1
    <2> QED BY <1>1, <2>1, PowerSteps
  <1>3. ASSUME NEW k \in Nat, k \in S PROVE k + 1 \in S
    <2>1. PICK m \in Nat : m = Q * k BY <1>1
    <2>2. Q * (k + 1) = m + Q BY <1>1, <2>1
    <2>3. Power(G, m + Q) = (Power(G, m) * Power(G, Q)) % P
      BY <1>1, PowerSum
    <2>4. Power(G, m) = 1 /\ Power(G, Q) = 1 BY <1>3, <2>1, GeneratorAssumption
    <2>5. (1 * 1) % P = 1 BY <1>1
    <2> QED BY <2>2, <2>3, <2>4, <2>5
  <1> HIDE DEF S
  <1>4. Nat \subseteq S BY <1>2, <1>3, SetInduction
  <1>5. PICK k \in Int, t \in Int : k = n \div Q /\ t = n % Q
    BY <1>1, Division
  <1>6. n = Q * k + t /\ 0 <= t /\ t < Q BY <1>1, <1>5, Division
  <1>7. k \in Nat
    <2>1. ASSUME k <= -1 PROVE FALSE
      <3>1. Q * k <= Q * (-1) BY <1>1, <2>1
      <3> QED BY <1>1, <1>6, <3>1
    <2> QED BY <2>1
  <1>8. PICK m \in Nat : m = Q * k BY <1>1, <1>7
  <1>9. Power(G, m) = 1 BY <1>4, <1>7, <1>8 DEF S
  <1>10. Power(G, m + t) = (Power(G, m) * Power(G, t)) % P
    BY <1>1, <1>6, PowerSum
  <1>11. PICK y \in 1..P - 1 : y = Power(G, t) BY <1>1, <1>6, PowerUnit
  <1>12. (1 * y) % P = y BY <1>1
  <1> QED BY <1>1, <1>5, <1>6, <1>8, <1>9, <1>10, <1>11, <1>12

\* Below Q no power of the generator is 1: Q is prime, and the generator is not 1.
LEMMA GeneratorOrder ==
    ASSUME NEW n \in 1..Q - 1, Power(G, n) = 1
    PROVE  FALSE
  <1>1. /\ P \in Nat /\ P > 1 /\ Q \in Nat /\ Q > 2 /\ G \in Nat /\ G \in 2..P - 1
    BY GroupTypes
  <1> DEFINE T == {m \in Nat \ {0} : Power(G, m) = 1}
  <1>2. n \in T BY <1>1
  <1>3. PICK least \in T : \A k \in T : least <= k
    <2>1. T \in SUBSET Nat /\ T # {} BY <1>2
    <2> HIDE DEF T
    <2> QED BY <2>1, LeastElement
  <1>4. PICK m \in 1..Q - 1 : m = least /\ Power(G, m) = 1 BY <1>1, <1>2, <1>3
  <1>5. \A k \in Nat : k < m /\ Power(G, k) = 1 => k = 0 BY <1>3, <1>4
  <1> HIDE DEF T
  <1>6. PICK k \in Int, t \in Int : k = Q \div m /\ t = Q % m
    BY <1>1, <1>4, Division
  <1>7. Q = m * k + t /\ 0 <= t /\ t < m BY <1>1, <1>4, <1>6, Division
  <1>8. k \in 1..Q
    <2>1. ASSUME k <= 0 PROVE FALSE
      <3>1. m * k <= m * 0 BY <1>4, <2>1
      <3> QED BY <1>1, <1>4, <1>7, <3>1
    <2>2. ASSUME k >= Q + 1 PROVE FALSE
      <3>1. m * k >= 1 * k BY <1>1, <1>4, <2>2
      <3> QED BY <1>1, <1>7, <2>2, <3>1
    <2> QED BY <1>1, <2>1, <2>2
  <1> DEFINE S == {j \in Nat : Power(G, m * j) = 1}
  <1>9. 0 \in S
    <2>1. m * 0 = 0 BY <1>4
    <2> QED BY <1>1, <2>1, PowerSteps
  <1>10. ASSUME NEW j \in Nat, j \in S PROVE j + 1 \in S
    <2>1. PICK i \in Nat : i = m * j BY <1>4
    <2>2. m * (j + 1) = i + m BY <1>4, <2>1
    <2>3. Power(G, i + m) = (Power(G, i) * Power(G, m)) % P
      BY <1>1, <1>4, PowerSum
    <2>4. (1 * 1) % P = 1 BY <1>1
    <2> QED BY <1>4, <1>10, <2>1, <2>2, <2>3, <2>4
  <1> HIDE DEF S
  <1>11. Nat \subseteq S BY <1>9, <1>10, SetInduction
  <1>12. PICK i \in Nat : i = m * k BY <1>4, <1>8
  <1>13. Power(G, i) = 1
    <2>1. k \in Nat BY <1>8
    <2> QED BY <1>11, <1>12, <2>1 DEF S
  <1>14. t = 0
    <2>1. Power(G, i + t) = (Power(G, i) * Power(G, t)) % P
      BY <1>1, <1>7, PowerSum
    <2>2. PICK y \in 1..P - 1 : y = Power(G, t)
      <3>1. G \in 1..P - 1 /\ t \in Nat BY <1>1, <1>7
      <3> QED BY <3>1, PowerUnit
    <2>3. (1 * y) % P = y BY <1>1
    <2>4. Power(G, Q) = 1 BY GeneratorAssumption
    <2>5. Power(G, t) = 1 BY <1>7, <1>12, <1>13, <2>1, <2>2, <2>3, <2>4
    <2> QED BY <1>5, <1>7, <2>5
  <1>15. m # 1
    <2>1. Power(G, 0) = 1 /\ Power(G, 0 + 1) = (G * Power(G, 0)) % P
      BY <1>1, PowerSteps
    <2>2. (G * 1) % P = G BY <1>1
    <2>3. Power(G, 1) = G BY <2>1, <2>2
    <2> QED BY <1>1, <1>4, <2>3
  <1>16. k \in 1..Q - 1
    <2>1. ASSUME k = Q PROVE FALSE
      <3>1. m * Q >= 2 * Q BY <1>1, <1>4, <1>15
      <3> QED BY <1>1, <1>7, <1>14, <2>1, <3>1
    <2> QED BY <1>1, <1>8, <2>1
  <1>17. (m * k) % Q # 0 BY <1>4, <1>16, GroupTypes
  <1>18. Q % Q = 0 BY <1>1
  <1> QED BY <1>7, <1>14, <1>17, <1>18

\* Exponents below Q are told apart by their powers.
LEMMA PowerTellsApart ==
    ASSUME NEW x \in 0..Q - 1, NEW y \in 0..Q - 1, Power(G, x) = Power(G, y)
    PROVE  x = y
  <1>1. /\ P \in Nat /\ P > 1 /\ Q \in Nat /\ G \in Nat /\ G \in 1..P - 1
    BY GroupTypes
  <1>2. ASSUME NEW a \in 0..Q - 1, NEW b \in 0..Q - 1, a < b,
               Power(G, a) = Power(G, b)
        PROVE  FALSE
    <2>1. PICK d \in 1..Q - 1 : b = a + d
      <3>1. b - a \in 1..Q - 1 /\ b = a + (b - a) BY <1>1, <1>2
      <3> QED BY <3>1
    <2>2. Power(G, a + d) = (Power(G, a) * Power(G, d)) % P
      BY <1>1, PowerSum
    <2>3. PICK u, v \in 1..P - 1 : u = Power(G, a) /\ v = Power(G, d)
      <3>1. a \in Nat /\ d \in Nat BY <1>1
      <3> QED BY <1>1, <3>1, PowerUnit
    <2>4. (u * 1) % P = u BY <1>1
    <2>5. (u * v) % P = (u * 1) % P BY <1>2, <2>1, <2>2, <2>3, <2>4
    <2>6. v = 1
      <3>1. v \in 0..P - 1 /\ 1 \in 0..P - 1 BY <1>1
      <3> QED BY <2>5, <3>1, Cancel
    <2> QED BY <2>3, <2>6, GeneratorOrder
  <1>3. ~(x < y) /\ ~(y < x) BY <1>2
  <1> QED BY <1>1, <1>3

\* The second generator is a power of the first, but not 1.
LEMMA DeriveHIs ==
    ASSUME NEW s \in Secrets
    PROVE  \E x \in 1..Q - 1 : DeriveH(s) = Power(G, x)
  <1>1. Q \in Nat /\ Q > 2 /\ HSecret[s] \in Nat BY GroupTypes, GroupAssumption
  <1>2. PICK x \in 0..Q - 1 : x = HSecret[s] % Q BY <1>1
  <1>3. DeriveH(s) = Power(G, IF x = 0 THEN 1 ELSE x) BY <1>2 DEF DeriveH
  <1>4. (IF x = 0 THEN 1 ELSE x) \in 1..Q - 1 BY <1>1
  <1> QED BY <1>3, <1>4

\* A commitment binds to its value: with one second generator and one randomness
\* no other value has the same commitment (zkp.py commit, verify).
THEOREM CommitmentBinds ==
    ASSUME NEW s \in Secrets, NEW t \in Secrets, DeriveH(s) = DeriveH(t),
           NEW v \in 0..Q - 1, NEW w \in 0..Q - 1, NEW r \in 1..Q - 1,
           Combine(s, v, r) = Combine(t, w, r)
    PROVE  v = w
  <1>1. /\ P \in Nat /\ P > 1 /\ Q \in Nat /\ G \in Nat /\ G \in 1..P - 1
    BY GroupTypes
  <1>2. PICK x \in 1..Q - 1 : DeriveH(s) = Power(G, x) BY DeriveHIs
  <1>3. PICK h \in 1..P - 1 : h = DeriveH(s)
    <2>1. x \in Nat BY <1>1
    <2> QED BY <1>1, <1>2, <2>1, PowerUnit
  <1>4. r \in Nat /\ v \in Nat /\ w \in Nat BY <1>1
  <1>5. PICK a, b, c \in 1..P - 1 :
            a = Power(h, r) /\ b = Power(G, v) /\ c = Power(G, w)
    BY <1>1, <1>4, PowerUnit
  <1>6. (b * a) % P = (c * a) % P BY <1>3, <1>5 DEF Combine, Group
  <1>7. b * a = a * b /\ c * a = a * c BY <1>1
  <1>8. b \in 0..P - 1 /\ c \in 0..P - 1 BY <1>1
  <1>9. b = c BY <1>6, <1>7, <1>8, Cancel
  <1> QED BY <1>5, <1>9, PowerTellsApart

\* A commitment binds to the secret: under another second generator the value
\* and the randomness it was made from do not open it.
THEOREM CommitmentBindsSecret ==
    ASSUME NEW s \in Secrets, NEW t \in Secrets,
           NEW v \in 0..Q - 1, NEW r \in 1..Q - 1,
           Combine(s, v, r) = Combine(t, v, r)
    PROVE  DeriveH(s) = DeriveH(t)
  <1>1. /\ P \in Nat /\ P > 1 /\ Q \in Nat /\ Q > 2 /\ G \in Nat /\ G \in 1..P - 1
    BY GroupTypes
  <1>2. PICK x \in 1..Q - 1 : DeriveH(s) = Power(G, x) BY DeriveHIs
  <1>3. PICK y \in 1..Q - 1 : DeriveH(t) = Power(G, y) BY DeriveHIs
  <1>4. r \in Nat /\ v \in Nat /\ x \in Nat /\ y \in Nat BY <1>1
  <1>5. PICK m, n \in Nat : m = x * r /\ n = y * r BY <1>4
  <1>6. Power(DeriveH(s), r) = Power(G, m) /\ Power(DeriveH(t), r) = Power(G, n)
    BY <1>1, <1>2, <1>3, <1>4, <1>5, PowerPower
  <1>7. PICK a, b, c \in 1..P - 1 :
            a = Power(G, v) /\ b = Power(G, m) /\ c = Power(G, n)
    BY <1>1, <1>4, <1>5, PowerUnit
  <1>8. (a * b) % P = (a * c) % P BY <1>6, <1>7 DEF Combine, Group
  <1>9. b \in 0..P - 1 /\ c \in 0..P - 1 BY <1>1
  <1>10. b = c BY <1>8, <1>9, Cancel
  <1>11. m % Q = n % Q
    <2>1. m % Q \in 0..Q - 1 /\ Power(G, m) = Power(G, m % Q) BY PowerCycle
    <2>2. n % Q \in 0..Q - 1 /\ Power(G, n) = Power(G, n % Q) BY PowerCycle
    <2> QED BY <1>7, <1>10, <2>1, <2>2, PowerTellsApart
  <1>12. ASSUME NEW i \in 1..Q - 1, NEW j \in 1..Q - 1, i < j,
                (i * r) % Q = (j * r) % Q
         PROVE  FALSE
    <2>1. PICK d \in 1..Q - 1 : d = j - i BY <1>1, <1>12
    <2>2. PICK k, l \in Nat : k = i * r /\ l = j * r BY <1>4
    <2>3. (l - k) % Q = 0 BY <1>1, <1>12, <2>2, ModuloEqual
    <2>4. l - k = d * r BY <1>4, <2>1, <2>2
    <2> QED BY <2>3, <2>4, GroupTypes
  <1>13. ~(x < y) /\ ~(y < x) BY <1>5, <1>11, <1>12
  <1>14. x = y BY <1>4, <1>13
  <1> QED BY <1>2, <1>3, <1>14

\* What a row commits to opens under a secret with the same second generator for
\* its own value only, and under no other: rows of an earlier SECRET_KEY do not
\* verify after it has changed (zkp.py: "The same secret must be used to verify a
\* commitment later").
THEOREM OpenUnderTheirSecretOnly == Spec => []OpensUnderItsSecretOnly
  <1>1. ASSUME IInv, NEW i \in 1..Len(rows), NEW s \in Secrets, NEW v \in 0..Q - 1
        PROVE  LET com == rows[i].commitment
                   same == DeriveH(s) = DeriveH(rows[i].secret)
               IN IF same THEN Opens(s, com.c, v, com.r) <=> v = com.v
                  ELSE v = com.v => ~Opens(s, com.c, v, com.r)
    <2>1. rows[i] \in GoodRows BY <1>1 DEF IInv
    <2>2. PICK w \in 0..Q - 1, r \in 1..Q - 1 :
              /\ rows[i].secret \in Secrets
              /\ rows[i].commitment = Commit(rows[i].secret, w, r)
      BY <2>1, RowCommits
    <2>3. PICK t \in Secrets : t = rows[i].secret BY <2>2
    <2>4. rows[i].secret = t /\ rows[i].commitment = Commit(t, w, r)
      BY <2>2, <2>3
    <2>5. /\ rows[i].commitment.c = Combine(t, w, r)
          /\ rows[i].commitment.v = w /\ rows[i].commitment.r = r
      BY <2>4 DEF Commit
    <2>6. Opens(s, Combine(t, w, r), v, r) <=> Combine(s, v, r) = Combine(t, w, r)
      BY DEF Opens, GoodValue, GoodRandomness
    <2>7. CASE DeriveH(s) = DeriveH(t)
      <3>1. v = w => Combine(s, v, r) = Combine(t, w, r)
        BY <2>7 DEF Combine, Group
      <3>2. Combine(s, v, r) = Combine(t, w, r) => v = w
        BY <2>7, CommitmentBinds
      <3> QED BY <2>4, <2>5, <2>6, <2>7, <3>1, <3>2
    <2>8. CASE DeriveH(s) # DeriveH(t)
      <3>1. v = w => Combine(s, v, r) # Combine(t, w, r)
        BY <2>8, CommitmentBindsSecret
      <3> QED BY <2>4, <2>5, <2>6, <2>8, <3>1
    <2> QED BY <2>7, <2>8
  <1>2. IInv => OpensUnderItsSecretOnly
    BY <1>1, Zenon DEF OpensUnderItsSecretOnly
  <1> QED BY <1>2, Invariance, PTL

=============================================================================
