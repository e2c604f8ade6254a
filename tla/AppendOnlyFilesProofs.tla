------------------------ MODULE AppendOnlyFilesProofs ------------------------
(***************************************************************************)
(* What is proved about the two directories that only grow: the store of   *)
(* rejected attempts, for any number of writers, ids, kills, disk errors   *)
(* and losses of power, and the status mailbox, for any number of          *)
(* processes, workers and calls, whatever is killed and however often      *)
(* power is lost.                                                          *)
(***************************************************************************)
EXTENDS EvidenceStore, StatusMailbox, FiniteSetTheorems, TLAPS

\* An artifact of the attempt in hand has been written as it should be.
Written(w, a) == job[w].staged.files[a] = ToWrite(a, job[w].generation[a])

\* What a writer has done at each point: it stages in order, flushes what is whole,
\* and takes an attempt for stored when the disk has it.
Local(w) ==
    /\ pc[w] = "stage" =>
          /\ job[w].next > 1 => Written(w, "provider")
          /\ job[w].next > 2 => Written(w, "assistant")
          /\ job[w].next > 3 => Written(w, "candidate")
    /\ pc[w] \in {"flush", "lock", "publish"} => Whole(job[w].staged)
    /\ pc[w] \in {"lock", "publish"} => job[w].staged.flushed
    /\ pc[w] = "sync" => published[job[w].id] # NoEntry
    /\ pc[w] \in {"stage", "flush", "lock", "publish", "sync"} => ~job[w].stored
    /\ pc[w] = "unlock" /\ job[w].stored => durable[job[w].id] # NoEntry

\* A directory of the archive, as programs and as the disk see it.
Kept(i) ==
    /\ published[i] # NoEntry => Whole(published[i]) /\ published[i].flushed
    /\ durable[i] # NoEntry => durable[i] = published[i]

\* The inductive invariant.
Inv ==
    /\ TypeOK
    /\ \A w \in Writer : Local(w)
    /\ \A i \in AttemptId : Kept(i)
    /\ \A r \in receipts : durable[r[1]] # NoEntry

-----------------------------------------------------------------------------
LEMMA InitInv == ASSUME EvidenceAssumption, Init PROVE Inv
<1>1. NoJob.id \notin AttemptId
  BY DEF EvidenceAssumption, NoJob
<1>2. TypeOK
  BY DEF EvidenceAssumption, Init, TypeOK
<1> QED
  BY <1>2 DEF Init, Inv, Local, Kept

\* The attempt in hand has every field.
LEMMA InHand ==
    ASSUME TypeOK, NEW w \in Writer, pc[w] # "idle"
    PROVE  /\ job[w].id \in AttemptId /\ job[w].generation \in Generation
           /\ job[w].staged \in Entry /\ job[w].next \in 1..4 /\ job[w].stored \in BOOLEAN
           /\ job[w] = [id |-> job[w].id, generation |-> job[w].generation,
                        staged |-> job[w].staged, next |-> job[w].next, stored |-> job[w].stored]
BY DEF TypeOK, Job

\* One writer moves; the archive grows or stays.
LEMMA WriterStep ==
    ASSUME Inv, NEW w \in Writer, TypeOK', Local(w)',
           \A q \in Writer \ {w} : pc'[q] = pc[q] /\ job'[q] = job[q],
           \A i \in AttemptId : published[i] # NoEntry => published'[i] # NoEntry,
           \A i \in AttemptId : durable[i] # NoEntry => durable'[i] # NoEntry,
           \A i \in AttemptId : Kept(i)',
           \A r \in receipts' : durable'[r[1]] # NoEntry
    PROVE  Inv'
<1>1. ASSUME NEW q \in Writer PROVE Local(q)'
  <2>1. CASE q # w
    <3>1. pc'[q] = pc[q] /\ job'[q] = job[q] /\ Local(q)
      BY <2>1 DEF Inv
    <3>2. pc[q] # "idle" => job[q].id \in AttemptId
      BY InHand DEF Inv
    <3> QED
      BY <3>1, <3>2 DEF Local, Written
  <2> QED
    BY <2>1
<1> QED
  BY <1>1 DEF Inv

\* Most steps leave the archive as it is.
LEMMA PrivateStep ==
    ASSUME Inv, NEW w \in Writer, TypeOK', Local(w)', UNCHANGED <<published, durable, receipts>>,
           \A q \in Writer \ {w} : pc'[q] = pc[q] /\ job'[q] = job[q]
    PROVE  Inv'
<1>1. (\A i \in AttemptId : Kept(i))'
  BY DEF Inv, Kept
<1>2. \A r \in receipts' : durable'[r[1]] # NoEntry
  BY DEF Inv
<1> QED
  BY <1>1, <1>2, WriterStep

\* A call that ends leaves nothing of it.
LEMMA Returned ==
    ASSUME TypeOK, NEW w \in Writer, NEW outcome, Return(w, outcome)
    PROVE  /\ Local(w)' /\ \A q \in Writer \ {w} : pc'[q] = pc[q] /\ job'[q] = job[q]
           /\ pc' = [pc EXCEPT ![w] = "idle"] /\ job' = [job EXCEPT ![w] = NoJob]
BY DEF Return, Goto, TypeOK, Local

\* A writer that moves to a point with a job that fits it keeps the types.
LEMMA MoveType ==
    ASSUME TypeOK, NEW w \in Writer, NEW j,
           NEW point \in {"idle", "stage", "flush", "lock", "publish", "sync", "unlock"},
           NEW outcome \in {"none", "stored", "failed"},
           pc' = [pc EXCEPT ![w] = point], job' = [job EXCEPT ![w] = j],
           result' = result \/ result' = [result EXCEPT ![w] = outcome],
           j \in Job \/ (point = "idle" /\ j = NoJob),
           published' \in [AttemptId -> Entry \cup {NoEntry}],
           durable' \in [AttemptId -> Entry \cup {NoEntry}],
           locks' \subseteq AttemptId, receipts' \subseteq AttemptId \X Entry,
           mishaps' \in 0..MaxMishaps
    PROVE  TypeOK'
<1>1. pc' \in [Writer -> {"idle", "stage", "flush", "lock", "publish", "sync", "unlock"}]
  BY DEF TypeOK
<1>2. job' \in [Writer -> Job \cup {NoJob}]
  BY DEF TypeOK
<1>3. ASSUME NEW q \in Writer, pc'[q] # "idle" PROVE job'[q] \in Job
  BY <1>3 DEF TypeOK
<1>4. result' \in [Writer -> {"none", "stored", "failed"}]
  BY DEF TypeOK
<1> QED
  BY <1>1, <1>2, <1>3, <1>4 DEF TypeOK

LEMMA MishapType == ASSUME EvidenceAssumption, TypeOK, NEW kind, Mishap(kind) PROVE mishaps' \in 0..MaxMishaps
BY DEF EvidenceAssumption, TypeOK, Mishap

\* How a job is changed field by field.
LEMMA OneByOne ==
    ASSUME NEW r, NEW a, NEW x, NEW k
    PROVE  [r EXCEPT !.staged.files[a] = x, !.next = k]
           = [[r EXCEPT !.staged = [r.staged EXCEPT !.files[a] = x]] EXCEPT !.next = k]
OBVIOUS

LEMMA PutStaged ==
    ASSUME NEW i, NEW g, NEW s, NEW n, NEW t, NEW x, NEW r,
           r = [id |-> i, generation |-> g, staged |-> s, next |-> n, stored |-> t]
    PROVE  [r EXCEPT !.staged = x] = [id |-> i, generation |-> g, staged |-> x, next |-> n, stored |-> t]
OBVIOUS

LEMMA PutNext ==
    ASSUME NEW i, NEW g, NEW s, NEW n, NEW t, NEW x, NEW r,
           r = [id |-> i, generation |-> g, staged |-> s, next |-> n, stored |-> t]
    PROVE  [r EXCEPT !.next = x] = [id |-> i, generation |-> g, staged |-> s, next |-> x, stored |-> t]
OBVIOUS

LEMMA PutStored ==
    ASSUME NEW i, NEW g, NEW s, NEW n, NEW t, NEW x, NEW r,
           r = [id |-> i, generation |-> g, staged |-> s, next |-> n, stored |-> t]
    PROVE  [r EXCEPT !.stored = x]
           = [id |-> i, generation |-> g, staged |-> s, next |-> n, stored |-> x]
OBVIOUS

LEMMA PutFlushed ==
    ASSUME NEW e \in Entry, NEW x
    PROVE  [e EXCEPT !.flushed = x]
           = [files |-> e.files, listed |-> e.listed, manifest |-> e.manifest, flushed |-> x]
BY DEF Entry

\* Staging.
LEMMA CallStep ==
    ASSUME EvidenceAssumption, Inv, NEW w \in Writer, NEW i \in AttemptId, NEW g \in Observed, Call(w, i, g)
    PROVE  Inv'
<1> DEFINE j == [id |-> i, generation |-> g, staged |-> Empty, next |-> 1, stored |-> FALSE]
<1>1. CASE published[i] # NoEntry
  <2>1. Return(w, "failed") /\ UNCHANGED <<published, durable, locks, receipts, mishaps>>
    BY <1>1 DEF Call
  <2>2. TypeOK'
    BY <2>1, MoveType DEF Inv, TypeOK, Return, Goto
  <2> QED
    BY <2>1, <2>2, Returned, PrivateStep DEF Inv
<1>2. CASE published[i] = NoEntry
  <2>1. /\ pc' = [pc EXCEPT ![w] = "stage"] /\ job' = [job EXCEPT ![w] = j]
        /\ result' = [result EXCEPT ![w] = "none"]
        /\ UNCHANGED <<published, durable, locks, receipts, mishaps>>
    BY <1>2 DEF Call, Goto
  <2>2. Empty \in Entry
    BY DEF Empty, Entry, Content, Record
  <2>3. j \in Job /\ j.next = 1 /\ j.stored = FALSE
    BY <2>2 DEF Job, EvidenceAssumption
  <2> HIDE DEF j
  <2>4. TypeOK'
    BY <2>1, <2>3, MoveType DEF Inv, TypeOK
  <2>5. pc'[w] = "stage" /\ job'[w] = j /\ \A q \in Writer \ {w} : pc'[q] = pc[q] /\ job'[q] = job[q]
    BY <2>1 DEF Inv, TypeOK
  <2>6. Local(w)'
    BY <2>3, <2>5 DEF Local
  <2> QED
    BY <2>1, <2>4, <2>5, <2>6, PrivateStep
<1> QED
  BY <1>1, <1>2

LEMMA StageArtifactStep ==
    ASSUME Inv, NEW w \in Writer, StageArtifact(w) PROVE Inv'
<1> DEFINE n == job[w].next
           a == Stage[n]
           j == [job[w] EXCEPT !.staged.files[a] = ToWrite(a, job[w].generation[a]), !.next = n + 1]
<1>1. pc[w] = "stage" /\ n \in 1..3 /\ TypeOK /\ Local(w)
  BY DEF StageArtifact, Inv
<1>2. a \in Artifact /\ (n = 1 => a = "provider") /\ (n = 2 => a = "assistant") /\ (n = 3 => a = "candidate")
  BY <1>1 DEF Stage, Artifact
<1>3. job' = [job EXCEPT ![w] = j] /\ UNCHANGED <<published, durable, locks, pc, result, receipts, mishaps>>
  BY DEF StageArtifact
<1>4. /\ job[w].id \in AttemptId /\ job[w].generation \in Generation
      /\ job[w].staged \in Entry /\ job[w].stored \in BOOLEAN
      /\ job[w] = [id |-> job[w].id, generation |-> job[w].generation,
                   staged |-> job[w].staged, next |-> n, stored |-> job[w].stored]
  BY <1>1, InHand
<1> DEFINE s == [files |-> [job[w].staged.files EXCEPT ![a] = ToWrite(a, job[w].generation[a])],
                 listed |-> job[w].staged.listed, manifest |-> job[w].staged.manifest,
                 flushed |-> job[w].staged.flushed]
<1>5. job[w].staged.files \in [Artifact -> Content] /\ ToWrite(a, job[w].generation[a]) \in Content
  BY <1>2, <1>4 DEF Entry, ToWrite, Generation, Content
<1>6. s \in Entry
  BY <1>4, <1>5 DEF Entry
<1>7. j = [id |-> job[w].id, generation |-> job[w].generation, staged |-> s,
          next |-> n + 1, stored |-> job[w].stored]
  <2>1. s = [job[w].staged EXCEPT !.files[a] = ToWrite(a, job[w].generation[a])]
    BY <1>4 DEF Entry
  <2> HIDE DEF s
  <2> DEFINE r == [job[w] EXCEPT !.staged = s]
  <2>2. j = [r EXCEPT !.next = n + 1]
    BY <2>1, OneByOne
  <2>3. r = [id |-> job[w].id, generation |-> job[w].generation,
             staged |-> s, next |-> n, stored |-> job[w].stored]
    BY <1>4, PutStaged
  <2> HIDE DEF r, j, n
  <2> QED
    BY <2>2, <2>3, PutNext
<1> HIDE DEF s, j
<1>8. /\ j.id = job[w].id /\ j.generation = job[w].generation /\ j.staged = s
      /\ j.next = n + 1 /\ j.stored = job[w].stored /\ j \in Job
  BY <1>1, <1>4, <1>6, <1>7 DEF Job
<1>9. pc' = [pc EXCEPT ![w] = "stage"]
  BY <1>1, <1>3 DEF TypeOK
<1>10. TypeOK'
  BY <1>1, <1>3, <1>8, <1>9, MoveType DEF TypeOK
<1>11. job'[w] = j /\ pc'[w] = "stage" /\ \A q \in Writer \ {w} : pc'[q] = pc[q] /\ job'[q] = job[q]
  BY <1>1, <1>3, <1>9 DEF TypeOK
<1>12. /\ s.files[a] = ToWrite(a, job[w].generation[a])
       /\ \A b \in Artifact \ {a} : s.files[b] = job[w].staged.files[b]
  BY <1>2, <1>5 DEF s
<1>13. Local(w)'
  BY <1>1, <1>2, <1>8, <1>11, <1>12 DEF Local, Written, Artifact
<1> QED
  BY <1>3, <1>10, <1>11, <1>13, PrivateStep

\* Of a generation whose artifacts are all written, the manifest lists what is there.
LEMMA StageManifestStep ==
    ASSUME Inv, NEW w \in Writer, StageManifest(w) PROVE Inv'
<1> DEFINE m == Sanitized(job[w].generation["metadata"])
           l == [a \in Artifact |-> RecordOf(job[w].generation[a])]
           s == [files |-> job[w].staged.files, listed |-> l, manifest |-> m,
                 flushed |-> job[w].staged.flushed]
           j == [job[w] EXCEPT !.staged = s]
<1>1. pc[w] = "stage" /\ job[w].next = 4 /\ TypeOK /\ Local(w)
  BY DEF StageManifest, Inv
<1>2. /\ job' = [job EXCEPT ![w] = j] /\ pc' = [pc EXCEPT ![w] = "flush"]
      /\ UNCHANGED <<published, durable, locks, result, receipts, mishaps>>
  BY DEF StageManifest, Goto
<1>3. /\ job[w].id \in AttemptId /\ job[w].generation \in Generation
      /\ job[w].staged \in Entry /\ job[w].stored \in BOOLEAN
      /\ job[w] = [id |-> job[w].id, generation |-> job[w].generation,
                   staged |-> job[w].staged, next |-> 4, stored |-> job[w].stored]
  BY <1>1, InHand
<1>4. \A a \in Artifact : Written(w, a)
  BY <1>1 DEF Local, Artifact
<1>5. m \in Content /\ m \notin {"none", "secret"} /\ l \in [Artifact -> Record]
  BY <1>3 DEF Generation, Sanitized, Content, RecordOf, Record
<1>6. s \in Entry /\ Whole(s)
  <2>1. s \in Entry
    BY <1>3, <1>5 DEF Entry
  <2>2. ASSUME NEW a \in Artifact
        PROVE  s.files[a] # "secret" /\ (s.files[a] = "plain" <=> s.listed[a] = "kept")
    <3>1. s.files[a] = ToWrite(a, job[w].generation[a]) /\ s.listed[a] = RecordOf(job[w].generation[a])
      BY <1>4 DEF Written
    <3>2. job[w].generation[a] \in Content
      BY <1>3 DEF Generation
    <3> HIDE DEF s
    <3> QED
      BY <3>1, <3>2 DEF ToWrite, RecordOf, Content
  <2>3. s.manifest = m
    OBVIOUS
  <2> QED
    BY <1>5, <2>1, <2>2, <2>3 DEF Whole
<1>7. j = [id |-> job[w].id, generation |-> job[w].generation, staged |-> s,
          next |-> 4, stored |-> job[w].stored]
  <2> HIDE DEF s
  <2> QED
    BY <1>3, PutStaged
<1> HIDE DEF s, j, m, l
<1>8. j.id = job[w].id /\ j.staged = s /\ j.stored = job[w].stored /\ j \in Job
  BY <1>3, <1>6, <1>7 DEF Job
<1>9. TypeOK'
  BY <1>1, <1>2, <1>8, MoveType DEF TypeOK
<1>10. job'[w] = j /\ pc'[w] = "flush" /\ \A q \in Writer \ {w} : pc'[q] = pc[q] /\ job'[q] = job[q]
  BY <1>1, <1>2 DEF TypeOK
<1>11. Local(w)'
  BY <1>1, <1>6, <1>8, <1>10 DEF Local, Whole
<1> QED
  BY <1>2, <1>9, <1>10, <1>11, PrivateStep

\* Publication.
LEMMA FlushStep == ASSUME Inv, NEW w \in Writer, Flush(w) PROVE Inv'
<1> DEFINE s == [files |-> job[w].staged.files, listed |-> job[w].staged.listed,
                 manifest |-> job[w].staged.manifest, flushed |-> TRUE]
           j == [job[w] EXCEPT !.staged = s]
<1>1. pc[w] = "flush" /\ TypeOK /\ Local(w)
  BY DEF Flush, Inv
<1>2. /\ job[w].id \in AttemptId /\ job[w].generation \in Generation
      /\ job[w].staged \in Entry /\ job[w].next \in 1..4 /\ job[w].stored \in BOOLEAN
      /\ job[w] = [id |-> job[w].id, generation |-> job[w].generation,
                   staged |-> job[w].staged, next |-> job[w].next, stored |-> job[w].stored]
  BY <1>1, InHand
<1>3. s = [job[w].staged EXCEPT !.flushed = TRUE]
  BY <1>2, PutFlushed
<1>4. /\ job' = [job EXCEPT ![w] = j] /\ pc' = [pc EXCEPT ![w] = "lock"] /\ durable' = published
      /\ UNCHANGED <<published, locks, result, receipts, mishaps>>
  BY <1>3 DEF Flush, Goto
<1>5. s \in Entry /\ Whole(s) /\ s.flushed
  BY <1>1, <1>2 DEF Entry, Local, Whole
<1> HIDE DEF s
<1>6. j = [id |-> job[w].id, generation |-> job[w].generation, staged |-> s,
          next |-> job[w].next, stored |-> job[w].stored]
  BY <1>2, PutStaged
<1> HIDE DEF j
<1>7. j.id = job[w].id /\ j.staged = s /\ j.stored = job[w].stored /\ j \in Job
  BY <1>2, <1>5, <1>6 DEF Job
<1>8. TypeOK'
  BY <1>1, <1>4, <1>7, MoveType DEF TypeOK
<1>9. job'[w] = j /\ pc'[w] = "lock" /\ \A q \in Writer \ {w} : pc'[q] = pc[q] /\ job'[q] = job[q]
  BY <1>1, <1>4 DEF TypeOK
<1>10. Local(w)'
  BY <1>1, <1>5, <1>7, <1>9 DEF Local, Whole
<1>11. \A i \in AttemptId : durable[i] # NoEntry => durable'[i] # NoEntry
  BY <1>4 DEF Inv, Kept
<1>12. (\A i \in AttemptId : Kept(i))'
  BY <1>4 DEF Inv, Kept
<1>13. \A r \in receipts' : durable'[r[1]] # NoEntry
  <2>1. \A r \in receipts : r[1] \in AttemptId
    BY <1>1 DEF TypeOK
  <2> QED
    BY <1>4, <1>11, <2>1 DEF Inv
<1> QED
  BY <1>4, <1>8, <1>9, <1>10, <1>11, <1>12, <1>13, WriterStep

LEMMA LockStep == ASSUME Inv, NEW w \in Writer, Lock(w) PROVE Inv'
<1>1. pc[w] = "lock" /\ TypeOK /\ Local(w) /\ job[w].id \in AttemptId
  BY InHand DEF Lock, Inv
<1>2. CASE job[w].id \in locks
  <2>1. Return(w, "failed") /\ UNCHANGED <<published, durable, locks, receipts, mishaps>>
    BY <1>2 DEF Lock
  <2>2. TypeOK'
    BY <1>1, <2>1, MoveType DEF TypeOK, Return, Goto
  <2> QED
    BY <1>1, <2>1, <2>2, Returned, PrivateStep
<1>3. CASE job[w].id \notin locks
  <2>1. /\ pc' = [pc EXCEPT ![w] = "publish"] /\ locks' = locks \cup {job[w].id}
        /\ UNCHANGED <<published, durable, job, result, receipts, mishaps>>
    BY <1>3 DEF Lock, Goto
  <2>2. job[w] \in Job /\ job' = [job EXCEPT ![w] = job[w]]
    BY <1>1, <2>1 DEF TypeOK
  <2>3. TypeOK'
    BY <1>1, <2>1, <2>2, MoveType DEF TypeOK
  <2>4. pc'[w] = "publish" /\ \A q \in Writer \ {w} : pc'[q] = pc[q] /\ job'[q] = job[q]
    BY <1>1, <2>1 DEF TypeOK
  <2>5. Local(w)'
    BY <1>1, <2>1, <2>4 DEF Local, Whole
  <2> QED
    BY <2>1, <2>3, <2>4, <2>5, PrivateStep
<1> QED
  BY <1>2, <1>3

LEMMA RenameStep == ASSUME EvidenceAssumption, Inv, NEW w \in Writer, Rename(w) PROVE Inv'
<1>1. pc[w] = "publish" /\ TypeOK /\ Local(w)
  BY DEF Rename, Inv
<1>2. job[w].id \in AttemptId /\ job[w].staged \in Entry /\ job[w].staged # NoEntry
  BY <1>1, InHand DEF EvidenceAssumption
<1>3. job[w] \in Job /\ job' = [job EXCEPT ![w] = job[w]] /\ job' = job
  BY <1>1 DEF TypeOK, Rename
<1>4. CASE published[job[w].id] # NoEntry
  <2>1. pc' = [pc EXCEPT ![w] = "unlock"] /\ UNCHANGED <<published, durable, locks, result, receipts, mishaps>>
    BY <1>4 DEF Rename, Goto
  <2>2. TypeOK'
    BY <1>1, <1>3, <2>1, MoveType DEF TypeOK
  <2>3. pc'[w] = "unlock" /\ \A q \in Writer \ {w} : pc'[q] = pc[q] /\ job'[q] = job[q]
    BY <1>1, <1>3, <2>1 DEF TypeOK
  <2>4. Local(w)'
    BY <1>1, <1>3, <2>3 DEF Local
  <2> QED
    BY <2>1, <2>2, <2>3, <2>4, PrivateStep
<1>5. CASE published[job[w].id] = NoEntry
  <2>1. /\ pc' = [pc EXCEPT ![w] = "sync"] /\ published' = [published EXCEPT ![job[w].id] = job[w].staged]
        /\ UNCHANGED <<durable, locks, result, receipts, mishaps>>
    BY <1>5 DEF Rename, Goto
  <2>2. published' \in [AttemptId -> Entry \cup {NoEntry}]
    BY <1>1, <1>2, <2>1 DEF TypeOK
  <2>3. TypeOK'
    BY <1>1, <1>3, <2>1, <2>2, MoveType DEF TypeOK
  <2>4. pc'[w] = "sync" /\ \A q \in Writer \ {w} : pc'[q] = pc[q] /\ job'[q] = job[q]
    BY <1>1, <1>3, <2>1 DEF TypeOK
  <2>5. published'[job[w].id] = job[w].staged
        /\ \A i \in AttemptId \ {job[w].id} : published'[i] = published[i]
    BY <1>1, <1>2, <2>1 DEF TypeOK
  <2>6. Local(w)'
    BY <1>1, <1>2, <1>3, <2>4, <2>5 DEF Local
  <2>7. durable[job[w].id] = NoEntry
    BY <1>2, <1>5 DEF Inv, Kept
  <2>8. ASSUME NEW i \in AttemptId PROVE Kept(i)'
    <3>1. CASE i = job[w].id
      BY <1>1, <2>1, <2>5, <2>7, <3>1 DEF Kept, Local, Whole
    <3>2. CASE i # job[w].id
      <4>1. published'[i] = published[i] /\ durable'[i] = durable[i] /\ Kept(i)
        BY <2>1, <2>5, <3>2 DEF Inv
      <4> QED
        BY <4>1 DEF Kept, Whole
    <3> QED
      BY <3>1, <3>2
  <2>9. \A i \in AttemptId : published[i] # NoEntry => published'[i] # NoEntry
    BY <1>2, <2>5
  <2>10. \A r \in receipts' : durable'[r[1]] # NoEntry
    BY <2>1 DEF Inv
  <2> QED
    BY <2>1, <2>3, <2>4, <2>6, <2>8, <2>9, <2>10, WriterStep
<1> QED
  BY <1>4, <1>5

LEMMA SyncStep == ASSUME Inv, NEW w \in Writer, SyncRoot(w) PROVE Inv'
<1> DEFINE j == [job[w] EXCEPT !.stored = TRUE]
<1>1. pc[w] = "sync" /\ TypeOK /\ Local(w)
  BY DEF SyncRoot, Inv
<1>2. /\ job[w].id \in AttemptId /\ job[w].generation \in Generation
      /\ job[w].staged \in Entry /\ job[w].next \in 1..4
      /\ job[w] = [id |-> job[w].id, generation |-> job[w].generation,
                   staged |-> job[w].staged, next |-> job[w].next, stored |-> job[w].stored]
  BY <1>1, InHand
<1>3. /\ job' = [job EXCEPT ![w] = j] /\ pc' = [pc EXCEPT ![w] = "unlock"] /\ durable' = published
      /\ UNCHANGED <<published, locks, result, receipts, mishaps>>
  BY DEF SyncRoot, Goto
<1>4. j = [id |-> job[w].id, generation |-> job[w].generation, staged |-> job[w].staged,
          next |-> job[w].next, stored |-> TRUE]
  <2>1. ASSUME NEW x
        PROVE  [job[w] EXCEPT !.stored = x]
               = [id |-> job[w].id, generation |-> job[w].generation, staged |-> job[w].staged,
                  next |-> job[w].next, stored |-> x]
    BY <1>2, PutStored
  <2> QED
    BY <2>1, Zenon
<1> HIDE DEF j
<1>5. j.id = job[w].id /\ j \in Job
  BY <1>2, <1>4 DEF Job
<1>6. TypeOK'
  BY <1>1, <1>3, <1>5, MoveType DEF TypeOK
<1>7. job'[w] = j /\ pc'[w] = "unlock" /\ \A q \in Writer \ {w} : pc'[q] = pc[q] /\ job'[q] = job[q]
  BY <1>1, <1>3 DEF TypeOK
<1>8. Local(w)'
  BY <1>1, <1>3, <1>5, <1>7 DEF Local
<1>9. \A i \in AttemptId : durable[i] # NoEntry => durable'[i] # NoEntry
  BY <1>3 DEF Inv, Kept
<1>10. (\A i \in AttemptId : Kept(i))'
  BY <1>3 DEF Inv, Kept
<1>11. \A r \in receipts' : durable'[r[1]] # NoEntry
  <2>1. \A r \in receipts : r[1] \in AttemptId
    BY <1>1 DEF TypeOK
  <2> QED
    BY <1>3, <1>9, <2>1 DEF Inv
<1> QED
  BY <1>3, <1>6, <1>7, <1>8, <1>9, <1>10, <1>11, WriterStep

LEMMA UnlockStep == ASSUME Inv, NEW w \in Writer, Unlock(w) PROVE Inv'
<1>1. pc[w] = "unlock" /\ TypeOK /\ Local(w)
  BY DEF Unlock, Inv
<1>2. job[w].id \in AttemptId
  BY <1>1, InHand
<1>3. /\ \E outcome \in {"stored", "failed"} : Return(w, outcome)
      /\ locks' = locks \ {job[w].id} /\ UNCHANGED <<published, durable, mishaps>>
      /\ receipts' = receipts \/ (job[w].stored /\ receipts' = receipts \cup {<<job[w].id, published[job[w].id]>>})
  BY DEF Unlock
<1>4. job[w].stored => durable[job[w].id] # NoEntry /\ published[job[w].id] \in Entry
  BY <1>1, <1>2 DEF Local, Inv, Kept, TypeOK
<1>5. receipts' \subseteq AttemptId \X Entry
  BY <1>1, <1>2, <1>3, <1>4 DEF TypeOK
<1>6. PICK outcome \in {"stored", "failed"} : Return(w, outcome)
  BY <1>3
<1>7. TypeOK'
  BY <1>1, <1>3, <1>5, <1>6, MoveType DEF TypeOK, Return, Goto
<1>8. Local(w)' /\ \A q \in Writer \ {w} : pc'[q] = pc[q] /\ job'[q] = job[q]
  BY <1>1, <1>6, Returned
<1>9. (\A i \in AttemptId : Kept(i))'
  BY <1>3 DEF Inv, Kept
<1>10. \A r \in receipts' : durable'[r[1]] # NoEntry
  BY <1>3, <1>4 DEF Inv
<1> QED
  BY <1>3, <1>7, <1>8, <1>9, <1>10, WriterStep

\* What may go wrong.
LEMMA TroubleStep ==
    ASSUME EvidenceAssumption, Inv, NEW w \in Writer, DiskError(w) \/ Kill(w) PROVE Inv'
<1>1. TypeOK /\ Local(w) /\ mishaps' \in 0..MaxMishaps /\ UNCHANGED <<published, durable, locks, receipts>>
  BY MishapType DEF Inv, DiskError, Kill
<1>2. ASSUME NEW outcome \in {"none", "failed"}, Return(w, outcome) PROVE Inv'
  <2>1. TypeOK'
    BY <1>1, <1>2, MoveType DEF TypeOK, Return, Goto
  <2> QED
    BY <1>1, <1>2, <2>1, Returned, PrivateStep
<1>3. CASE /\ pc[w] \in {"publish", "sync"} /\ pc' = [pc EXCEPT ![w] = "unlock"]
           /\ UNCHANGED <<job, result>>
  <2>1. job[w] \in Job /\ job' = [job EXCEPT ![w] = job[w]]
    BY <1>1, <1>3 DEF TypeOK
  <2>2. TypeOK'
    BY <1>1, <1>3, <2>1, MoveType DEF TypeOK
  <2>3. pc'[w] = "unlock" /\ \A q \in Writer \ {w} : pc'[q] = pc[q] /\ job'[q] = job[q]
    BY <1>1, <1>3 DEF TypeOK
  <2>4. Local(w)'
    BY <1>1, <1>3, <2>3 DEF Local
  <2> QED
    BY <1>1, <2>2, <2>3, <2>4, PrivateStep
<1> QED
  BY <1>2, <1>3 DEF DiskError, Kill, Goto

\* Every directory of the archive was flushed before it got its name, so that what a
\* loss of power leaves of it is all of it.
LEMMA PowerLossStep ==
    ASSUME EvidenceAssumption, Inv, NEW kept, NEW stale, PowerLoss(kept, stale) PROVE Inv'
<1>1. TypeOK /\ mishaps' \in 0..MaxMishaps
  BY MishapType DEF Inv, PowerLoss
<1>2. /\ published' = [i \in AttemptId |->
             IF durable[i] # NoEntry \/ i \in kept THEN published[i] ELSE NoEntry]
      /\ durable' = published'
  <2>1. ASSUME NEW i \in AttemptId PROVE Survivor(published[i]) = published[i]
    BY DEF Inv, Kept, Survivor
  <2> QED
    BY <2>1 DEF PowerLoss
<1>3. /\ pc' = [w \in Writer |-> "idle"] /\ job' = [w \in Writer |-> NoJob]
      /\ result' = [w \in Writer |-> "none"] /\ receipts' = receipts /\ locks' \subseteq AttemptId
  BY <1>1 DEF PowerLoss, TypeOK
<1>4. TypeOK'
  <2>1. published' \in [AttemptId -> Entry \cup {NoEntry}]
    BY <1>1, <1>2 DEF TypeOK
  <2> QED
    BY <1>1, <1>2, <1>3, <2>1 DEF TypeOK
<1>5. (\A w \in Writer : Local(w))'
  BY <1>3 DEF Local
<1>6. ASSUME NEW i \in AttemptId PROVE Kept(i)'
  <2>1. Kept(i) /\ durable'[i] = published'[i] /\ published'[i] \in {published[i], NoEntry}
    BY <1>2 DEF Inv
  <2>2. CASE published'[i] = NoEntry
    BY <2>1, <2>2 DEF Kept
  <2>3. CASE published'[i] = published[i]
    BY <2>1, <2>3 DEF Kept, Whole
  <2> QED
    BY <2>1, <2>2, <2>3
<1>7. ASSUME NEW r \in receipts' PROVE durable'[r[1]] # NoEntry
  <2>1. r[1] \in AttemptId /\ durable[r[1]] # NoEntry
    BY <1>1, <1>3 DEF TypeOK, Inv
  <2> QED
    BY <1>2, <2>1 DEF Inv, Kept
<1> QED
  BY <1>4, <1>5, <1>6, <1>7 DEF Inv

LEMMA NextInv == ASSUME EvidenceAssumption, Inv, [Next]_vars PROVE Inv'
<1>1. ASSUME NEW w \in Writer, NEW i \in AttemptId, NEW g \in Observed, Call(w, i, g) PROVE Inv'
  BY <1>1, CallStep
<1>2. ASSUME NEW w \in Writer, Step(w) PROVE Inv'
  BY <1>2, StageArtifactStep, StageManifestStep, FlushStep, LockStep, RenameStep, SyncStep, UnlockStep DEF Step
<1>3. ASSUME NEW w \in Writer, DiskError(w) \/ Kill(w) PROVE Inv'
  BY <1>3, TroubleStep
<1>4. ASSUME NEW kept, NEW stale, PowerLoss(kept, stale) PROVE Inv'
  BY <1>4, PowerLossStep
<1>5. CASE UNCHANGED vars
  <2>1. TypeOK'
    BY <1>5 DEF vars, Inv, TypeOK
  <2>2. (\A w \in Writer : Local(w))'
    BY <1>5 DEF vars, Inv, Local, Written, Whole
  <2>3. (\A i \in AttemptId : Kept(i))'
    BY <1>5 DEF vars, Inv, Kept, Whole
  <2>4. (\A r \in receipts : durable[r[1]] # NoEntry)'
    BY <1>5 DEF vars, Inv
  <2> QED
    BY <2>1, <2>2, <2>3, <2>4 DEF Inv
<1> QED
  BY <1>1, <1>2, <1>3, <1>4, <1>5 DEF Next

LEMMA Invariance == ASSUME EvidenceAssumption PROVE Spec => []Inv
<1>1. Init => Inv
  BY InitInv
<1>2. Inv /\ [Next]_vars => Inv'
  BY NextInv
<1> QED
  BY <1>1, <1>2, PTL DEF Spec

\* The directories, the writers and what they report keep their types.
THEOREM EvidenceTypeCorrect == EvidenceAssumption => (Spec => []TypeOK)
<1> SUFFICES ASSUME EvidenceAssumption PROVE Spec => []TypeOK
  OBVIOUS
<1>1. Inv => TypeOK
  BY DEF Inv
<1> QED
  BY <1>1, Invariance, PTL

\* A directory with an ATT-* name is a complete attempt without the credential,
\* whichever writers were killed and whenever the power went.
THEOREM EveryAttemptIsWhole == EvidenceAssumption => (Spec => []PublishedIsWhole)
<1> SUFFICES ASSUME EvidenceAssumption PROVE Spec => []PublishedIsWhole
  OBVIOUS
<1>1. Inv => PublishedIsWhole
  BY DEF Inv, Kept, PublishedIsWhole
<1> QED
  BY <1>1, Invariance, PTL

-----------------------------------------------------------------------------
LEMMA ArchiveStep == ASSUME EvidenceAssumption, Inv, [Next]_vars PROVE [Archive!Next]_(Archive!vars)
<1>1. ASSUME NEW w \in Writer, Rename(w) PROVE [Archive!Next]_(Archive!vars)
  <2>1. job[w].id \in AttemptId /\ job[w].staged \in Entry
    BY <1>1, InHand DEF Inv, Rename
  <2>2. CASE published[job[w].id] = NoEntry
    <3>1. published' = [published EXCEPT ![job[w].id] = job[w].staged] /\ receipts' = receipts
      BY <1>1, <2>2 DEF Rename
    <3>2. published'[job[w].id] = job[w].staged
      BY <2>1, <3>1 DEF Inv, TypeOK
    <3>3. Archive!Publish(job[w].id)
      BY <2>1, <2>2, <3>1, <3>2 DEF Archive!Publish
    <3> QED
      BY <2>1, <3>3 DEF Archive!Next
  <2>3. CASE published[job[w].id] # NoEntry
    BY <1>1, <2>3 DEF Rename, Archive!vars
  <2> QED
    BY <2>2, <2>3
<1>2. ASSUME NEW w \in Writer, Unlock(w) PROVE [Archive!Next]_(Archive!vars)
  <2>1. pc[w] = "unlock" /\ job[w].id \in AttemptId
    BY <1>2, InHand DEF Inv, Unlock
  <2>2. CASE job[w].stored
    <3>1. published[job[w].id] # NoEntry
      BY <2>1, <2>2 DEF Inv, Local, Kept
    <3>2. Archive!Report(job[w].id)
      BY <1>2, <2>2, <3>1 DEF Unlock, Archive!Report
    <3> QED
      BY <2>1, <3>2 DEF Archive!Next
  <2>3. CASE ~job[w].stored
    BY <1>2, <2>3 DEF Unlock, Archive!vars
  <2> QED
    BY <2>2, <2>3
<1>3. ASSUME NEW kept, NEW stale, PowerLoss(kept, stale) PROVE [Archive!Next]_(Archive!vars)
  <2> DEFINE left == {i \in AttemptId : durable[i] # NoEntry \/ i \in kept}
  <2>1. \A i \in AttemptId : Survivor(published[i]) = published[i]
    BY DEF Inv, Kept, Survivor
  <2>2. published' = [i \in AttemptId |-> IF i \in left THEN published[i] ELSE NoEntry]
    BY <1>3, <2>1 DEF PowerLoss
  <2>3. \A r \in receipts : r[1] \in left
    BY DEF Inv, TypeOK
  <2>4. Archive!Lose(left)
    BY <1>3, <2>2, <2>3 DEF PowerLoss, Archive!Lose
  <2>5. left \in SUBSET AttemptId
    OBVIOUS
  <2> HIDE DEF left
  <2> QED
    BY <2>4, <2>5 DEF Archive!Next
<1>4. ASSUME NEW w \in Writer,
             \/ \E i \in AttemptId, g \in Observed : Call(w, i, g)
             \/ StageArtifact(w) \/ StageManifest(w) \/ Flush(w) \/ Lock(w) \/ SyncRoot(w)
             \/ DiskError(w) \/ Kill(w)
      PROVE  UNCHANGED <<published, receipts>>
  BY <1>4 DEF Call, StageArtifact, StageManifest, Flush, Lock, SyncRoot, DiskError, Kill
<1>5. CASE UNCHANGED vars
  BY <1>5 DEF vars, Archive!vars
<1> QED
  BY <1>1, <1>2, <1>3, <1>4, <1>5 DEF Next, Step, Archive!vars

\* The store keeps the promise of AttemptArchive: an id stands for one attempt for
\* ever, and what was reported as stored survives kills, disk errors and the loss of
\* power.
THEOREM StoreIsAnArchive == EvidenceAssumption => (Spec => ImplementsArchive)
<1> SUFFICES ASSUME EvidenceAssumption PROVE Spec => Archive!Spec
  BY DEF ImplementsArchive
<1>1. Init => Archive!Init
  BY DEF Init, Archive!Init
<1>2. Inv /\ [Next]_vars => [Archive!Next]_(Archive!vars)
  BY ArchiveStep
<1> QED
  BY <1>1, <1>2, Invariance, PTL DEF Spec, Archive!Spec

-----------------------------------------------------------------------------
(* The status mailbox. *)

\* The points at which a process has the lock, and those before its event is there.
Locked == {"load", "write", "replace", "sync"}
Unwritten == {"lock", "load", "write", "replace"}

\* Every event has an identity of its own.
Numbered ==
    /\ \A p \in Process : at[p] # "idle" => call[p].worker \in Worker /\ call[p].id \in 1..calls
    /\ \A p, q \in Process : at[p] # "idle" /\ at[q] # "idle" /\ call[p].id = call[q].id => p = q
    /\ \A w \in Worker, n \in Slot : dir[w][n].id <= calls
    /\ \A w \in Worker, n \in Slot, p \in Process :
          at[p] \in Unwritten => dir[w][n].id # call[p].id
    /\ \A w \in Worker, m, n \in Slot :
          dir[w][m] # Absent /\ dir[w][n] # Absent /\ dir[w][m].id = dir[w][n].id => m = n

\* What is in a worker's directory is whole and linked, and the disk has a first part of it.
Linked(w) ==
    /\ \E k \in 0..MaxCalls + 1 : \A n \in Slot : dir[w][n] # Absent <=> n <= k
    /\ \E k \in 0..MaxCalls + 1 : \A n \in Slot : onDisk[w][n] # Absent <=> n <= k
    /\ \A n \in Slot : dir[w][n] # Absent =>
          dir[w][n].id > 0 /\ dir[w][n].flushed /\ dir[w][n].prev = LinkTo(w, n)
    /\ \A n \in Slot : onDisk[w][n] # Absent => onDisk[w][n] = dir[w][n]

\* n is where the next event of w goes.
IsNext(w, n) == n \in Slot /\ dir[w][n] = Absent /\ \A m \in 1..n - 1 : dir[w][m] # Absent

\* What a process knows of the directory at each point.
MailLocal(p) ==
    /\ at[p] \in Locked => lock = p
    /\ at[p] \in {"write", "replace"} =>
          /\ IsNext(call[p].worker, call[p].slot)
          /\ call[p].prev = LinkTo(call[p].worker, call[p].slot)
    /\ at[p] = "replace" => call[p].flushed
    /\ at[p] \in {"sync", "report"} => dir[call[p].worker][call[p].slot].id = call[p].id
    /\ at[p] = "report" => onDisk[call[p].worker][call[p].slot].id = call[p].id

\* What was acknowledged is on the disk.
MailKept == \A r \in printed : r.id > 0 /\ onDisk[r.worker][r.slot].id = r.id

MailInv ==
    /\ MailTypeOK /\ Numbered /\ MailKept
    /\ \A w \in Worker : Linked(w)
    /\ \A p \in Process : MailLocal(p)

USE MailboxAssumption

-----------------------------------------------------------------------------

\* There is always a free number: the identities of a worker's events differ.
LEMMA RoomLeft == ASSUME MailInv, NEW w \in Worker PROVE IsNext(w, NextSlot(w))
<1>1. PICK k \in 0..MaxCalls + 1 : \A n \in Slot : dir[w][n] # Absent <=> n <= k
  BY DEF MailInv, Linked
<1>2. k # MaxCalls + 1
  <2> SUFFICES ASSUME k = MaxCalls + 1 PROVE FALSE
    OBVIOUS
  <2> DEFINE id == [n \in Slot |-> dir[w][n].id]
  <2>1. \A n \in Slot : dir[w][n] # Absent
    BY <1>1 DEF Slot
  <2>2. ASSUME NEW n \in Slot PROVE id[n] \in 1..MaxCalls
    <3>1. dir[w][n] \in Event /\ dir[w][n].id > 0
      BY <2>1 DEF MailInv, MailTypeOK, Linked
    <3> QED
      BY <3>1 DEF Event
  <2>3. id \in [Slot -> 1..MaxCalls]
    BY <2>2
  <2>4. /\ IsFiniteSet(Slot) /\ Cardinality(Slot) = MaxCalls + 1
        /\ IsFiniteSet(1..MaxCalls) /\ Cardinality(1..MaxCalls) = MaxCalls
    BY FS_Interval DEF Slot
  <2>5. PICK m \in Slot, n \in Slot : m # n /\ id[m] = id[n]
    <3> HIDE DEF id
    <3> QED
      BY <2>3, <2>4, FS_PigeonHole
  <2> QED
    BY <2>1, <2>5 DEF MailInv, Numbered
<1>3. IsNext(w, k + 1)
  BY <1>1, <1>2 DEF IsNext, Slot
<1>4. ASSUME NEW n \in Slot, n \notin Files(w), 1..(n - 1) \subseteq Files(w) PROVE IsNext(w, n)
  BY <1>4 DEF IsNext, Files
<1>5. k + 1 \in Slot /\ k + 1 \notin Files(w) /\ 1..(k + 1 - 1) \subseteq Files(w)
  BY <1>1, <1>3 DEF IsNext, Files, Slot
<1> QED
  BY <1>4, <1>5 DEF NextSlot

LEMMA MailInitInv == ASSUME MailInit PROVE MailInv
<1>1. MailTypeOK
  BY DEF MailInit, MailTypeOK, Event, Absent, CallState, NoCall
<1>2. Numbered /\ MailKept
  <2>1. \A w \in Worker, n \in Slot : dir[w][n] = Absent
    BY DEF MailInit
  <2>2. \A p \in Process : at[p] = "idle"
    BY DEF MailInit
  <2> QED
    BY <2>1, <2>2 DEF MailInit, Numbered, MailKept, Absent, Unwritten
<1>3. ASSUME NEW w \in Worker PROVE Linked(w)
  <2>1. 0 \in 0..MaxCalls + 1 /\ \A n \in Slot : ~(n <= 0)
    BY DEF Slot
  <2> QED
    BY <2>1 DEF MailInit, Linked
<1>4. ASSUME NEW p \in Process PROVE MailLocal(p)
  BY DEF MailInit, MailLocal, Locked
<1> QED
  BY <1>1, <1>2, <1>3, <1>4 DEF MailInv

\* A process moves on with its call, or gives it up, and the files stay as they are.
LEMMA QuietStep ==
    ASSUME MailInv, NEW p \in Process, NEW x, NEW c \in CallState,
           UNCHANGED <<dir, onDisk, printed, calls>>, MailTypeOK',
           at' = [at EXCEPT ![p] = x], call' = [call EXCEPT ![p] = c],
           \A q \in Process \ {p} : lock = q => lock' = q,
           x # "idle" =>
               at[p] # "idle" /\ c.id = call[p].id /\ c.worker = call[p].worker,
           x \in Unwritten => at[p] \in Unwritten,
           MailLocal(p)'
    PROVE  MailInv'
<1>1. /\ at'[p] = x /\ call'[p] = c
      /\ \A q \in Process \ {p} : at'[q] = at[q] /\ call'[q] = call[q]
  BY DEF MailInv, MailTypeOK
<1>2. Numbered'
  <2>1. ASSUME NEW q \in Process
        PROVE  /\ at'[q] # "idle" => /\ at[q] # "idle" /\ call'[q].id = call[q].id
                                    /\ call'[q].worker = call[q].worker
               /\ at'[q] \in Unwritten => at[q] \in Unwritten
    BY <1>1
  <2>3. ASSUME NEW q \in Process, at'[q] # "idle"
        PROVE  /\ call'[q].worker \in Worker /\ call'[q].id \in 1..calls'
               /\ \A r \in Process : at'[r] # "idle" /\ call'[q].id = call'[r].id => q = r
    BY <2>1, <2>3 DEF MailInv, Numbered
  <2>4. ASSUME NEW w \in Worker, NEW n \in Slot, NEW q \in Process, at'[q] \in Unwritten
        PROVE  dir'[w][n].id # call'[q].id
    <3>1. at[q] \in Unwritten /\ call'[q].id = call[q].id
      BY <2>1, <2>4 DEF Unwritten
    <3> QED
      BY <3>1 DEF MailInv, Numbered
  <2>5. \A w \in Worker, n \in Slot : dir'[w][n].id <= calls'
    BY DEF MailInv, Numbered
  <2>6. \A w \in Worker, m, n \in Slot :
           dir'[w][m] # Absent /\ dir'[w][n] # Absent /\ dir'[w][m].id = dir'[w][n].id => m = n
    BY DEF MailInv, Numbered
  <2> QED
    BY <2>3, <2>4, <2>5, <2>6 DEF Numbered
<1>3. ASSUME NEW w \in Worker PROVE Linked(w)'
  BY DEF MailInv, Linked, LinkTo
<1>4. ASSUME NEW q \in Process \ {p} PROVE MailLocal(q)'
  BY <1>1 DEF MailInv, MailLocal, IsNext, LinkTo
<1>5. MailKept'
  BY DEF MailInv, MailKept
<1> QED
  BY <1>2, <1>3, <1>4, <1>5 DEF MailInv

\* A call that ends without a receipt gives the lock back, if it had it.
LEMMA EndStep ==
    ASSUME MailInv, NEW p \in Process, UNCHANGED <<dir, onDisk, printed, calls>>,
           End(p), Release(p)
    PROVE  MailInv'
<1>1. NoCall \in CallState
  BY DEF NoCall, CallState
<1>2. at' = [at EXCEPT ![p] = "idle"] /\ call' = [call EXCEPT ![p] = NoCall]
  BY DEF End, Move
<1>3. MailTypeOK'
  BY <1>1, <1>2 DEF MailInv, MailTypeOK, Release
<1>4. MailLocal(p)'
  BY <1>2 DEF MailLocal, Locked, MailInv, MailTypeOK
<1>5. \A q \in Process \ {p} : lock = q => lock' = q
  BY DEF Release
<1>6. "idle" \notin Unwritten
  BY DEF Unwritten
<1> QED
  BY <1>1, <1>2, <1>3, <1>4, <1>5, <1>6, QuietStep

LEMMA BeginStep == ASSUME MailInv, NEW p \in Process, NEW w \in Worker, Begin(p, w) PROVE MailInv'
<1> DEFINE c == [NoCall EXCEPT !.worker = w, !.id = calls + 1]
<1>1. calls \in Nat /\ calls + 1 \in 0..MaxCalls
  BY DEF MailInv, MailTypeOK, Begin
<1>2. c \in CallState /\ c.worker = w /\ c.id = calls + 1
  <2>1. NoCall \in CallState
    BY DEF NoCall, CallState
  <2> QED
    BY <1>1, <2>1 DEF CallState
<1> HIDE DEF c
<1>3. /\ at[p] = "idle" /\ calls' = calls + 1
      /\ at' = [at EXCEPT ![p] = "lock"] /\ call' = [call EXCEPT ![p] = c]
      /\ UNCHANGED <<dir, onDisk, lock, printed>>
  BY DEF Begin, Move, c
<1>4. MailTypeOK'
  BY <1>1, <1>2, <1>3 DEF MailInv, MailTypeOK
<1>5. /\ at'[p] = "lock" /\ call'[p] = c
      /\ \A q \in Process \ {p} : at'[q] = at[q] /\ call'[q] = call[q]
  BY <1>3 DEF MailInv, MailTypeOK
<1>6. Numbered'
  <2>1. ASSUME NEW q \in Process, at'[q] # "idle"
        PROVE  call'[q].worker \in Worker /\ call'[q].id \in 1..calls'
    BY <1>1, <1>2, <1>3, <1>5, <2>1 DEF MailInv, Numbered
  <2>2. ASSUME NEW q \in Process, NEW r \in Process, at'[q] # "idle", at'[r] # "idle",
               call'[q].id = call'[r].id
        PROVE  q = r
    <3>1. \A o \in Process \ {p} : at'[o] # "idle" => call'[o].id # calls + 1
      BY <1>1, <1>5 DEF MailInv, Numbered
    <3> QED
      BY <1>2, <1>5, <2>2, <3>1 DEF MailInv, Numbered
  <2>3. ASSUME NEW v \in Worker, NEW n \in Slot
        PROVE  /\ dir'[v][n].id <= calls'
               /\ \A q \in Process : at'[q] \in Unwritten => dir'[v][n].id # call'[q].id
    <3>1. dir'[v][n] = dir[v][n] /\ dir[v][n].id \in Nat /\ dir[v][n].id <= calls
      BY <1>3 DEF MailInv, Numbered, MailTypeOK, Event
    <3> QED
      BY <1>1, <1>2, <1>3, <1>5, <3>1 DEF MailInv, Numbered
  <2>4. \A v \in Worker, m, n \in Slot :
           dir'[v][m] # Absent /\ dir'[v][n] # Absent /\ dir'[v][m].id = dir'[v][n].id => m = n
    BY <1>3 DEF MailInv, Numbered
  <2> QED
    BY <2>1, <2>2, <2>3, <2>4 DEF Numbered
<1>7. ASSUME NEW v \in Worker PROVE Linked(v)'
  BY <1>3 DEF MailInv, Linked, LinkTo
<1>8. ASSUME NEW q \in Process PROVE MailLocal(q)'
  BY <1>3, <1>5 DEF MailInv, MailLocal, IsNext, LinkTo, Locked
<1>9. MailKept'
  BY <1>3 DEF MailInv, MailKept
<1> QED
  BY <1>4, <1>6, <1>7, <1>8, <1>9 DEF MailInv

LEMMA AcquireStep == ASSUME MailInv, NEW p \in Process, Acquire(p) PROVE MailInv'
<1>1. /\ at[p] = "lock" /\ lock = Nobody /\ lock' = p
      /\ at' = [at EXCEPT ![p] = "load"] /\ call' = [call EXCEPT ![p] = call[p]]
      /\ UNCHANGED <<dir, onDisk, printed, calls>>
  BY DEF Acquire, Move, MailInv, MailTypeOK
<1>2. MailTypeOK' /\ call[p] \in CallState
  BY <1>1 DEF MailInv, MailTypeOK
<1>3. MailLocal(p)'
  BY <1>1 DEF MailLocal, Locked, MailInv, MailTypeOK
<1>4. \A q \in Process : lock # q
  BY <1>1
<1>5. "lock" \in Unwritten
  BY DEF Unwritten
<1> QED
  BY <1>1, <1>2, <1>3, <1>4, <1>5, QuietStep

\* The chain is valid: there is a next number, and the call is given it.
LEMMA LoadStep == ASSUME MailInv, NEW p \in Process, Load(p) PROVE MailInv'
<1> DEFINE w == call[p].worker
           n == NextSlot(w)
           c == [call[p] EXCEPT !.slot = n, !.prev = LinkTo(w, n)]
<1>1. CASE ValidChain(w)
  <2>1. /\ at[p] = "load" /\ lock' = lock
        /\ at' = [at EXCEPT ![p] = "write"]
        /\ UNCHANGED <<dir, onDisk, printed, calls>>
    BY <1>1 DEF Load, Move
  <2>2. call[p] \in CallState /\ w \in Worker
    BY <2>1 DEF MailInv, MailTypeOK, Numbered
  <2>3. call' = [call EXCEPT ![p] = c]
    BY <1>1 DEF Load, MailInv, MailTypeOK
  <2>4. IsNext(w, n) /\ n \in Slot
    BY <2>2, RoomLeft DEF IsNext
  <2>5. LinkTo(w, n) \in 0..MaxCalls
    <3>1. CASE n > 1
      <4>1. n - 1 \in Slot
        BY <2>4, <3>1 DEF Slot
      <4>2. dir[w][n - 1] \in Event
        BY <2>2, <4>1 DEF MailInv, MailTypeOK
      <4> QED
        BY <2>4, <3>1, <4>2 DEF LinkTo, Event, Slot
    <3>2. CASE ~(n > 1)
      BY <2>4, <3>2 DEF LinkTo, Slot
    <3> QED
      BY <3>1, <3>2
  <2>6. /\ c \in CallState /\ c.worker = w /\ c.id = call[p].id /\ c.slot = n
        /\ c.prev = LinkTo(w, n)
    <3>1. n \in 0..MaxCalls + 1
      BY <2>4 DEF Slot
    <3> HIDE DEF n
    <3> QED
      BY <2>2, <2>5, <3>1 DEF CallState
  <2> HIDE DEF n, c
  <2>7. at'[p] = "write" /\ call'[p] = c
    BY <2>1, <2>3 DEF MailInv, MailTypeOK
  <2>8. MailTypeOK'
    BY <2>1, <2>3, <2>4, <2>6, <2>7 DEF MailInv, MailTypeOK
  <2>9. MailLocal(p)'
    <3>1. lock' = p
      BY <2>1 DEF MailInv, MailLocal, Locked
    <3>2. \A v, m : (IsNext(v, m)' <=> IsNext(v, m)) /\ LinkTo(v, m)' = LinkTo(v, m)
      BY <2>1 DEF IsNext, LinkTo
    <3> QED
      BY <2>4, <2>6, <2>7, <3>1, <3>2 DEF MailLocal
  <2>10. "load" \in Unwritten
    BY DEF Unwritten
  <2> QED
    BY <2>1, <2>3, <2>6, <2>8, <2>9, <2>10, QuietStep
<1>2. CASE ~ValidChain(w)
  BY <1>2, EndStep DEF Load
<1> QED
  BY <1>1, <1>2

LEMMA WriteStep == ASSUME MailInv, NEW p \in Process, Write(p) PROVE MailInv'
<1> DEFINE c == [call[p] EXCEPT !.flushed = TRUE]
<1>1. /\ at[p] = "write" /\ at' = [at EXCEPT ![p] = "replace"]
      /\ call' = [call EXCEPT ![p] = c]
      /\ UNCHANGED <<dir, onDisk, lock, printed, calls>>
  BY DEF Write, Move, MailInv, MailTypeOK
<1>2. /\ c \in CallState /\ c.worker = call[p].worker /\ c.id = call[p].id
      /\ c.slot = call[p].slot /\ c.prev = call[p].prev /\ c.flushed
  BY DEF MailInv, MailTypeOK, CallState
<1> HIDE DEF c
<1>3. at'[p] = "replace" /\ call'[p] = c
  BY <1>1 DEF MailInv, MailTypeOK
<1>4. MailTypeOK'
  BY <1>1, <1>2, <1>3 DEF MailInv, MailTypeOK
<1>5. MailLocal(p)'
  <2>1. MailLocal(p)
    BY DEF MailInv
  <2> QED
    BY <1>1, <1>2, <1>3, <2>1 DEF MailLocal, Locked, IsNext, LinkTo
<1>6. "write" \in Unwritten
  BY DEF Unwritten
<1> QED
  BY <1>1, <1>2, <1>4, <1>5, <1>6, QuietStep

\* The event appears at the number that was free, after the last one; no other process
\* has the lock, and so none relies on that number.
LEMMA ReplaceStep == ASSUME MailInv, NEW p \in Process, Replace(p) PROVE MailInv'
<1>1. PICK w \in Worker, s \in Slot, e \in Event :
         /\ w = call[p].worker /\ s = call[p].slot
         /\ e.id = call[p].id /\ e.prev = call[p].prev /\ e.flushed
         /\ dir' = [dir EXCEPT ![w][s] = e]
  <2> DEFINE e == [id |-> call[p].id, prev |-> call[p].prev, flushed |-> call[p].flushed]
  <2>1. call[p] \in CallState /\ call[p].worker \in Worker /\ call[p].slot \in Slot
    BY DEF Replace, MailInv, MailTypeOK, Numbered
  <2>2. e \in Event /\ e.flushed
    BY <2>1 DEF CallState, Event, Replace, MailInv, MailLocal
  <2> QED
    BY <2>1, <2>2 DEF Replace
<1>2. /\ at[p] = "replace" /\ at' = [at EXCEPT ![p] = "sync"]
      /\ UNCHANGED <<onDisk, lock, call, printed, calls>>
  BY DEF Replace, Move
<1>3. /\ at'[p] = "sync" /\ \A q \in Process \ {p} : at'[q] = at[q]
      /\ dir'[w][s] = e
      /\ \A v \in Worker, n \in Slot : v # w \/ n # s => dir'[v][n] = dir[v][n]
  BY <1>1, <1>2 DEF MailInv, MailTypeOK
<1>4. /\ lock = p /\ IsNext(w, s) /\ e.prev = LinkTo(w, s)
      /\ e.id \in 1..calls /\ calls \in Nat
      /\ \A v \in Worker, n \in Slot : dir[v][n].id # e.id
  BY <1>1, <1>2 DEF MailInv, MailLocal, Locked, Numbered, Unwritten, MailTypeOK
<1>5. MailTypeOK'
  BY <1>1, <1>2, <1>3 DEF MailInv, MailTypeOK
<1>6. Numbered'
  <2>1. e.id # 0 /\ e # Absent
    BY <1>4 DEF Absent
  <2>2. ASSUME NEW q \in Process, at'[q] # "idle"
        PROVE  /\ call'[q].worker \in Worker /\ call'[q].id \in 1..calls'
               /\ \A r \in Process : at'[r] # "idle" /\ call'[q].id = call'[r].id => q = r
    BY <1>2, <1>3, <2>2 DEF MailInv, Numbered
  <2>3. ASSUME NEW v \in Worker, NEW n \in Slot
        PROVE  /\ dir'[v][n].id <= calls'
               /\ \A q \in Process : at'[q] \in Unwritten => dir'[v][n].id # call'[q].id
    <3>1. CASE v = w /\ n = s
      <4>1. \A q \in Process \ {p} : at[q] # "idle" => call[q].id # call[p].id
        BY <1>2 DEF MailInv, Numbered
      <4> QED
        BY <1>1, <1>2, <1>3, <1>4, <3>1, <4>1 DEF Unwritten
    <3>2. CASE v # w \/ n # s
      BY <1>2, <1>3, <3>2 DEF MailInv, Numbered, Unwritten
    <3> QED
      BY <3>1, <3>2
  <2>4. ASSUME NEW v \in Worker, NEW m \in Slot, NEW n \in Slot,
               dir'[v][m] # Absent, dir'[v][n] # Absent, dir'[v][m].id = dir'[v][n].id
        PROVE  m = n
    BY <1>3, <1>4, <2>4 DEF MailInv, Numbered
  <2> QED
    BY <2>2, <2>3, <2>4 DEF Numbered
<1>7. ASSUME NEW v \in Worker PROVE Linked(v)'
  <2>1. CASE v # w
    BY <1>1, <1>2, <1>3, <2>1 DEF MailInv, Linked, LinkTo, Slot
  <2>2. CASE v = w
    <3>1. PICK k \in 0..MaxCalls + 1 : \A n \in Slot : dir[w][n] # Absent <=> n <= k
      BY DEF MailInv, Linked
    <3>2. s = k + 1 /\ k \in Nat
      <4>1. s \in Nat /\ s > k
        BY <1>4, <3>1 DEF IsNext, Slot
      <4>2. ASSUME s > k + 1 PROVE FALSE
        <5>1. k + 1 \in 1..s - 1 /\ k + 1 \in Slot
          BY <1>1, <3>1, <4>1, <4>2 DEF Slot
        <5> QED
          BY <1>4, <3>1, <5>1 DEF IsNext
      <4> QED
        BY <3>1, <4>1, <4>2
    <3>3. e # Absent
      BY <1>4 DEF Absent
    <3>4. k + 1 \in 0..MaxCalls + 1 /\ \A n \in Slot : dir'[w][n] # Absent <=> n <= k + 1
      BY <1>1, <1>3, <3>1, <3>2, <3>3 DEF Slot
    <3>5. ASSUME NEW n \in Slot, dir'[w][n] # Absent
          PROVE  dir'[w][n].id > 0 /\ dir'[w][n].flushed /\ dir'[w][n].prev = LinkTo(w, n)'
      <4>1. n <= s
        BY <3>2, <3>4, <3>5 DEF Slot
      <4>2. LinkTo(w, n)' = LinkTo(w, n)
        BY <1>3, <4>1 DEF LinkTo, Slot
      <4> QED
        BY <1>1, <1>3, <1>4, <3>5, <4>2 DEF MailInv, Linked
    <3>6. ASSUME NEW n \in Slot, onDisk'[w][n] # Absent PROVE onDisk'[w][n] = dir'[w][n]
      BY <1>2, <1>3, <1>4, <3>6 DEF MailInv, Linked, IsNext
    <3>7. \E i \in 0..MaxCalls + 1 : \A n \in Slot : onDisk'[w][n] # Absent <=> n <= i
      BY <1>2 DEF MailInv, Linked
    <3> QED
      BY <2>2, <3>4, <3>5, <3>6, <3>7 DEF Linked
  <2> QED
    BY <2>1, <2>2
<1>8. ASSUME NEW q \in Process PROVE MailLocal(q)'
  <2>1. CASE q = p
    BY <1>1, <1>2, <1>3, <1>4, <2>1 DEF MailLocal
  <2>2. CASE q # p
    <3>1. at'[q] = at[q] /\ at[q] \notin Locked
      BY <1>3, <1>4, <2>2 DEF MailInv, MailLocal
    <3>2. CASE at[q] = "report"
      <4>1. /\ call[q].worker \in Worker /\ call[q].slot \in Slot /\ call[q].id > 0
            /\ dir[call[q].worker][call[q].slot].id = call[q].id
            /\ onDisk[call[q].worker][call[q].slot].id = call[q].id
        BY <3>2 DEF MailInv, MailLocal, MailTypeOK, Numbered
      <4>2. dir[w][s].id = 0
        BY <1>4 DEF IsNext, Absent
      <4> QED
        BY <1>2, <1>3, <3>1, <3>2, <4>1, <4>2 DEF MailLocal, Locked
    <3> QED
      BY <3>1, <3>2 DEF MailLocal, Locked
  <2> QED
    BY <2>1, <2>2
<1>9. MailKept'
  BY <1>2 DEF MailInv, MailKept
<1> QED
  BY <1>5, <1>6, <1>7, <1>8, <1>9 DEF MailInv

\* Everything in the worker's directory comes to be on the disk; nothing leaves it.
LEMMA MailSyncStep == ASSUME MailInv, NEW p \in Process, Sync(p) PROVE MailInv'
<1>1. PICK w \in Worker :
         /\ w = call[p].worker /\ call[p].slot \in Slot
         /\ onDisk' = [onDisk EXCEPT ![w] = dir[w]]
  BY DEF Sync, MailInv, MailTypeOK, Numbered
<1>2. /\ at[p] = "sync" /\ at' = [at EXCEPT ![p] = "report"] /\ Release(p)
      /\ UNCHANGED <<dir, call, printed, calls>>
  BY DEF Sync, Move
<1>3. at'[p] = "report" /\ \A q \in Process \ {p} : at'[q] = at[q]
  BY <1>2 DEF MailInv, MailTypeOK
<1>4. MailTypeOK'
  BY <1>1, <1>2, <1>3 DEF MailInv, MailTypeOK, Release
<1>5. Numbered'
  <2>1. ASSUME NEW q \in Process
        PROVE  /\ at'[q] # "idle" => at[q] # "idle"
               /\ at'[q] \in Unwritten => at[q] \in Unwritten
    BY <1>2, <1>3 DEF Unwritten
  <2>2. ASSUME NEW q \in Process, at'[q] # "idle"
        PROVE  /\ call'[q].worker \in Worker /\ call'[q].id \in 1..calls'
               /\ \A r \in Process : at'[r] # "idle" /\ call'[q].id = call'[r].id => q = r
    BY <1>2, <2>1, <2>2 DEF MailInv, Numbered
  <2>3. ASSUME NEW v \in Worker, NEW n \in Slot, NEW q \in Process, at'[q] \in Unwritten
        PROVE  dir'[v][n].id # call'[q].id
    BY <1>2, <2>1, <2>3 DEF MailInv, Numbered
  <2>4. \A v \in Worker, m, n \in Slot :
           /\ dir'[v][n].id <= calls'
           /\ dir'[v][m] # Absent /\ dir'[v][n] # Absent /\ dir'[v][m].id = dir'[v][n].id => m = n
    BY <1>2 DEF MailInv, Numbered
  <2> QED
    BY <2>2, <2>3, <2>4 DEF Numbered
<1>6. ASSUME NEW v \in Worker, NEW n \in Slot
      PROVE  /\ onDisk'[v][n] = onDisk[v][n] \/ (v = w /\ onDisk'[v][n] = dir[v][n])
             /\ onDisk[v][n].id > 0 => onDisk'[v][n] = onDisk[v][n]
  <2>1. onDisk[v][n].id > 0 => onDisk[v][n] = dir[v][n]
    BY DEF MailInv, Linked, Absent
  <2> QED
    BY <1>1, <2>1 DEF MailInv, MailTypeOK
<1>7. ASSUME NEW v \in Worker PROVE Linked(v)'
  <2>1. CASE v = w
    BY <1>1, <1>2, <2>1 DEF MailInv, Linked, LinkTo, MailTypeOK
  <2>2. CASE v # w
    BY <1>1, <1>2, <2>2 DEF MailInv, Linked, LinkTo, MailTypeOK
  <2> QED
    BY <2>1, <2>2
<1>8. ASSUME NEW q \in Process PROVE MailLocal(q)'
  <2>1. CASE q = p
    <3>1. dir[w][call[p].slot].id = call[p].id
      BY <1>1, <1>2 DEF MailInv, MailLocal
    <3>2. onDisk'[w] = dir[w]
      BY <1>1 DEF MailInv, MailTypeOK
    <3> QED
      BY <1>1, <1>2, <1>3, <2>1, <3>1, <3>2 DEF MailLocal, Locked
  <2>2. CASE q # p
    <3>1. at'[q] = at[q] /\ at[q] \notin Locked
      BY <1>2, <1>3, <2>2 DEF MailInv, MailLocal, Locked
    <3>2. CASE at[q] = "report"
      <4>1. /\ call[q].worker \in Worker /\ call[q].slot \in Slot /\ call[q].id > 0
            /\ dir[call[q].worker][call[q].slot].id = call[q].id
            /\ onDisk[call[q].worker][call[q].slot].id = call[q].id
        BY <3>2 DEF MailInv, MailLocal, MailTypeOK, Numbered
      <4> QED
        BY <1>2, <1>6, <3>1, <3>2, <4>1 DEF MailLocal, Locked
    <3> QED
      BY <3>1, <3>2 DEF MailLocal, Locked
  <2> QED
    BY <2>1, <2>2
<1>9. MailKept'
  BY <1>2, <1>6 DEF MailInv, MailKept, MailTypeOK
<1> QED
  BY <1>4, <1>5, <1>7, <1>8, <1>9 DEF MailInv

LEMMA ReportStep == ASSUME MailInv, NEW p \in Process, Report(p) PROVE MailInv'
<1> DEFINE r == [worker |-> call[p].worker, id |-> call[p].id, slot |-> call[p].slot]
<1>1. /\ at[p] = "report" /\ printed' = printed \cup {r}
      /\ at' = [at EXCEPT ![p] = "idle"] /\ call' = [call EXCEPT ![p] = NoCall]
      /\ UNCHANGED <<dir, onDisk, lock, calls>>
  BY DEF Report, End, Move
<1>2. /\ at'[p] = "idle"
      /\ \A q \in Process \ {p} : at'[q] = at[q] /\ call'[q] = call[q]
  BY <1>1 DEF MailInv, MailTypeOK
<1>3. /\ r.worker \in Worker /\ r.id \in 0..MaxCalls /\ r.slot \in Slot /\ r.id > 0
      /\ onDisk[r.worker][r.slot].id = r.id
  BY <1>1 DEF MailInv, MailTypeOK, Numbered, MailLocal, CallState
<1>4. MailTypeOK'
  <2>1. NoCall \in CallState /\ r \in [worker : Worker, id : 0..MaxCalls, slot : Slot]
    BY <1>3 DEF NoCall, CallState
  <2> QED
    BY <1>1, <1>2, <2>1 DEF MailInv, MailTypeOK
<1>5. Numbered'
  <2>1. "idle" \notin Unwritten
    BY DEF Unwritten
  <2> QED
    BY <1>1, <1>2, <2>1 DEF MailInv, Numbered
<1>6. ASSUME NEW w \in Worker PROVE Linked(w)'
  BY <1>1 DEF MailInv, Linked, LinkTo
<1>7. ASSUME NEW q \in Process PROVE MailLocal(q)'
  BY <1>1, <1>2 DEF MailInv, MailLocal, IsNext, LinkTo, Locked
<1>8. MailKept'
  BY <1>1, <1>3 DEF MailInv, MailKept
<1> QED
  BY <1>4, <1>5, <1>6, <1>7, <1>8 DEF MailInv

\* A first part of a worker's events survives, with all that was on the disk.
LEMMA OutageStep == ASSUME MailInv, Outage PROVE MailInv'
<1>1. PICK last \in [Worker -> 0..MaxCalls] : dir' = [w \in Worker |-> Surviving(w, last[w])]
  BY DEF Outage
<1>2. /\ onDisk' = dir' /\ lock' = Nobody /\ UNCHANGED <<calls, printed>>
      /\ at' = [p \in Process |-> "idle"] /\ call' = [p \in Process |-> NoCall]
  BY DEF Outage
<1>3. ASSUME NEW w \in Worker, NEW n \in Slot
      PROVE  /\ dir'[w][n] \in {dir[w][n], Absent}
             /\ dir'[w][n] # Absent <=>
                   onDisk[w][n] # Absent \/ (n <= last[w] /\ dir[w][n] # Absent)
             /\ dir'[w] \in [Slot -> Event]
  <2>1. \A m \in Slot :
           /\ dir[w][m] # Absent => dir[w][m].flushed
           /\ onDisk[w][m] # Absent => onDisk[w][m] = dir[w][m]
           /\ dir[w][m] \in Event /\ onDisk[w][m] \in Event
    BY DEF MailInv, Linked, MailTypeOK
  <2>2. dir'[w] = [k \in Slot |-> IF onDisk[w][k] # Absent \/ k > last[w] THEN onDisk[w][k]
                                   ELSE IF dir[w][k] # Absent /\ ~dir[w][k].flushed THEN Torn
                                   ELSE dir[w][k]]
    BY <1>1 DEF Surviving
  <2>3. n \in Nat /\ last[w] \in Nat
    BY DEF Slot
  <2>4. \A k \in Slot : dir'[w][k] = onDisk[w][k] \/ dir'[w][k] = dir[w][k]
    BY <2>1, <2>2
  <2>5. dir'[w] \in [Slot -> Event]
    BY <2>1, <2>2, <2>4
  <2> QED
    BY <2>1, <2>2, <2>3, <2>5
<1>4. MailTypeOK'
  <2>1. NoCall \in CallState
    BY DEF NoCall, CallState
  <2>2. dir' \in [Worker -> [Slot -> Event]]
    <3>1. Slot # {}
      BY DEF Slot
    <3> QED
      BY <1>1, <1>3, <3>1
  <2> QED
    BY <1>2, <2>1, <2>2 DEF MailInv, MailTypeOK
<1>5. Numbered'
  <2>1. \A p \in Process : at'[p] = "idle"
    BY <1>2
  <2>2. ASSUME NEW w \in Worker, NEW n \in Slot PROVE dir'[w][n].id <= calls'
    <3>1. calls' = calls /\ calls \in Nat /\ dir[w][n].id <= calls
      BY <1>2 DEF MailInv, Numbered, MailTypeOK
    <3>2. CASE dir'[w][n] = dir[w][n]
      BY <3>1, <3>2
    <3>3. CASE dir'[w][n] = Absent
      <4>1. dir'[w][n].id = 0
        BY <3>3 DEF Absent
      <4> QED
        BY <3>1, <4>1
    <3> QED
      BY <1>3, <3>2, <3>3
  <2>3. \A w \in Worker, m, n \in Slot :
           dir'[w][m] # Absent /\ dir'[w][n] # Absent /\ dir'[w][m].id = dir'[w][n].id => m = n
    BY <1>3 DEF MailInv, Numbered
  <2> QED
    BY <2>1, <2>2, <2>3 DEF Numbered, Unwritten
<1>6. ASSUME NEW w \in Worker PROVE Linked(w)'
  <2>1. PICK k \in 0..MaxCalls + 1 : \A n \in Slot : dir[w][n] # Absent <=> n <= k
    BY DEF MailInv, Linked
  <2>2. PICK d \in 0..MaxCalls + 1 : \A n \in Slot : onDisk[w][n] # Absent <=> n <= d
    BY DEF MailInv, Linked
  <2>3. d <= k
    <3>1. \A n \in Slot : n <= d => n <= k
      BY <2>1, <2>2 DEF MailInv, Linked
    <3> QED
      BY <2>1, <2>2, <3>1 DEF Slot
  <2>4. \A n \in Slot : dir'[w][n] # Absent <=> n <= d \/ (n <= last[w] /\ n <= k)
    BY <1>3, <2>1, <2>2
  <2>5. \E i \in 0..MaxCalls + 1 : \A n \in Slot : dir'[w][n] # Absent <=> n <= i
    <3>1. last[w] \in Nat /\ d \in Nat /\ k \in Nat /\ \A n \in Slot : n \in Nat
      BY <2>1, <2>2 DEF Slot
    <3>2. CASE last[w] <= d
      BY <2>2, <2>3, <2>4, <3>1, <3>2
    <3>3. CASE last[w] > d /\ last[w] <= k
      <4>1. last[w] \in 0..MaxCalls + 1
        BY <2>1, <3>1, <3>3
      <4>2. \A n \in Slot : dir'[w][n] # Absent <=> n <= last[w]
        BY <2>4, <3>1, <3>3
      <4> QED
        BY <4>1, <4>2
    <3>4. CASE last[w] > k
      <4>1. \A n \in Slot : dir'[w][n] # Absent <=> n <= k
        BY <2>3, <2>4, <3>1, <3>4
      <4> QED
        BY <2>1, <4>1
    <3> QED
      BY <3>1, <3>2, <3>3, <3>4
  <2>6. ASSUME NEW n \in Slot, dir'[w][n] # Absent
        PROVE  dir'[w][n].id > 0 /\ dir'[w][n].flushed /\ dir'[w][n].prev = LinkTo(w, n)'
    <3>1. dir'[w][n] = dir[w][n] /\ dir[w][n] # Absent
      BY <1>3, <2>6
    <3>2. LinkTo(w, n)' = LinkTo(w, n)
      <4>1. CASE n > 1
        <5>1. n - 1 \in Slot /\ n - 1 <= n
          BY <4>1 DEF Slot
        <5>2. dir'[w][n - 1] # Absent
          BY <2>4, <2>6, <5>1, <2>1, <2>2 DEF Slot
        <5> QED
          BY <1>3, <4>1, <5>1, <5>2 DEF LinkTo, Slot
      <4>2. CASE ~(n > 1)
        BY <4>2 DEF LinkTo, Slot
      <4> QED
        BY <4>1, <4>2
    <3> QED
      BY <3>1, <3>2 DEF MailInv, Linked
  <2> QED
    BY <1>2, <2>5, <2>6 DEF Linked
<1>7. ASSUME NEW p \in Process PROVE MailLocal(p)'
  BY <1>2 DEF MailLocal, Locked
<1>8. MailKept'
  <2>1. ASSUME NEW r \in printed
        PROVE  onDisk'[r.worker][r.slot].id = r.id /\ r.id > 0
    <3>1. r.worker \in Worker /\ r.slot \in Slot
      BY DEF MailInv, MailTypeOK
    <3>2. onDisk[r.worker][r.slot] # Absent /\ onDisk[r.worker][r.slot].id = r.id /\ r.id > 0
      BY DEF MailInv, MailKept, Absent
    <3>3. onDisk[r.worker][r.slot] = dir[r.worker][r.slot]
      BY <3>1, <3>2 DEF MailInv, Linked
    <3> QED
      BY <1>2, <1>3, <3>1, <3>2, <3>3
  <2> QED
    BY <1>2, <2>1 DEF MailKept
<1> QED
  BY <1>4, <1>5, <1>6, <1>7, <1>8 DEF MailInv

LEMMA MailNextInv == ASSUME MailInv, [MailNext]_mailbox PROVE MailInv'
<1>1. ASSUME NEW p \in Process, AppendError(p) \/ KillProcess(p) PROVE MailInv'
  BY <1>1, EndStep DEF AppendError, KillProcess
<1>2. CASE UNCHANGED mailbox
  <2>1. UNCHANGED <<dir, onDisk, lock, at, call, calls, printed>>
    BY <1>2 DEF mailbox
  <2>2. MailTypeOK' /\ Numbered' /\ MailKept'
    BY <2>1 DEF MailInv, MailTypeOK, Numbered, MailKept
  <2>3. ASSUME NEW w \in Worker PROVE Linked(w)'
    BY <2>1 DEF MailInv, Linked, LinkTo
  <2>4. ASSUME NEW p \in Process PROVE MailLocal(p)'
    BY <2>1 DEF MailInv, MailLocal, IsNext, LinkTo
  <2> QED
    BY <2>2, <2>3, <2>4 DEF MailInv
<1> QED
  BY <1>1, <1>2, BeginStep, AcquireStep, LoadStep, WriteStep, ReplaceStep, MailSyncStep, ReportStep,
     OutageStep DEF MailNext, Recording

LEMMA MailInvariance == MailSpec => []MailInv
BY MailInitInv, MailNextInv, PTL DEF MailSpec

-----------------------------------------------------------------------------

\* The files, the lock and the calls stay of their kinds, and a process that has read
\* the chain always found a number to write to.
THEOREM MailboxTypeCorrect == MailSpec => []MailTypeOK
<1>1. MailInv => MailTypeOK
  BY DEF MailInv
<1> QED
  BY <1>1, MailInvariance, PTL

\* "atomic immutable append": whichever processes record at once, wherever one is killed
\* and whenever power is lost, every reader finds complete and linked chains.
THEOREM ChainsAreValid == MailSpec => []ChainStaysValid
<1>1. MailInv => ChainStaysValid
  <2> SUFFICES ASSUME MailInv, NEW w \in Worker, NEW n \in Files(w)
               PROVE  /\ dir[w][n] # Torn
                      /\ n > 1 => n - 1 \in Files(w)
                      /\ dir[w][n].prev = LinkTo(w, n)
    BY DEF ChainStaysValid, ValidChain
  <2>1. n \in Slot /\ dir[w][n] # Absent
    BY DEF Files
  <2>2. dir[w][n].id > 0 /\ dir[w][n].prev = LinkTo(w, n)
    BY <2>1 DEF MailInv, Linked
  <2>3. dir[w][n] # Torn
    BY <2>2 DEF Torn
  <2>4. n > 1 => n - 1 \in Files(w)
    <3>1. PICK k \in 0..MaxCalls + 1 : \A m \in Slot : dir[w][m] # Absent <=> m <= k
      BY DEF MailInv, Linked
    <3> QED
      BY <2>1, <3>1 DEF Files, Slot
  <2> QED
    BY <2>2, <2>3, <2>4
<1> QED
  BY <1>1, MailInvariance, PTL

\* An event whose receipt was printed is found at its number for ever, by whoever reads
\* and after any loss of power.
THEOREM ReceiptsHold == MailSpec => []ReceiptsAreKept
<1>1. MailInv => ReceiptsAreKept
  <2> SUFFICES ASSUME MailInv, NEW r \in printed PROVE dir[r.worker][r.slot].id = r.id
    BY DEF ReceiptsAreKept
  <2>1. r.worker \in Worker /\ r.slot \in Slot
    BY DEF MailInv, MailTypeOK
  <2>2. onDisk[r.worker][r.slot] # Absent /\ onDisk[r.worker][r.slot].id = r.id
    BY DEF MailInv, MailKept, Absent
  <2> QED
    BY <2>1, <2>2 DEF MailInv, Linked
<1> QED
  BY <1>1, MailInvariance, PTL
==============================================================================
