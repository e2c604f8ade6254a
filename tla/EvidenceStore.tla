--------------------------- MODULE EvidenceStore ---------------------------
(***************************************************************************)
(* The append-only store of rejected CASE model attempts                   *)
(* (tools/case_attempt_evidence.py, DEF-0014): every attempt is staged in  *)
(* a private directory, flushed, and renamed to its ATT-* name under an    *)
(* O_EXCL lock file, by writers that may fail or be killed at any point,   *)
(* on a machine that may lose its power.                                   *)
(*                                                                         *)
(* An artifact is told apart by whether the provider sent it and whether   *)
(* it holds the configured credential; "metadata" stands for all that goes *)
(* into the manifest itself.                                               *)
(***************************************************************************)
EXTENDS Naturals

CONSTANTS
    Writer,       \* concurrent calls of write_rejected_attempt
    AttemptId, NoAttempt,
    Observed,     \* generations: what a call may be given to preserve
    NoEntry,      \* no directory of that name
    Faults, MaxMishaps

Artifact == {"provider", "assistant", "candidate"}
Content  == {"none", "plain", "secret"}
Record   == {"absent", "kept", "suppressed"}
\* A manifest always has metadata of its own.
Generation == {g \in [Artifact \cup {"metadata"} -> Content] : g["metadata"] # "none"}

FaultKinds == {"kill", "disk", "power"}

\* A directory: the bytes of each artifact, and the manifest that lists them.
Entry == [files : [Artifact -> Content],
          listed : [Artifact -> Record], manifest : Content, flushed : BOOLEAN]

Empty == [files |-> [a \in Artifact |-> "none"], listed |-> [a \in Artifact |-> "absent"],
          manifest |-> "none", flushed |-> FALSE]

ASSUME EvidenceAssumption ==
    /\ NoAttempt \notin AttemptId /\ NoEntry \notin Entry
    /\ Observed \subseteq Generation
    /\ Faults \subseteq FaultKinds
    /\ MaxMishaps \in Nat

VARIABLES
    published,  \* ROOT/ATT-*, as running programs see them
    durable,    \* as they would be after a loss of power
    locks,      \* the ids whose .publish-*.lock exists
    pc, job,    \* control point and locals of each writer
    result,     \* how each writer's last call ended
    receipts,   \* history: what was reported as stored
    mishaps

vars == <<published, durable, locks, pc, job, result, receipts, mishaps>>

Stage == <<"provider", "assistant", "candidate">>

Job == [id : AttemptId, generation : Generation, staged : Entry,
        next : 1..4, stored : BOOLEAN]

NoJob == [id |-> NoAttempt, next |-> 0]

Goto(w, point) == pc' = [pc EXCEPT ![w] = point]

Return(w, outcome) ==
    /\ Goto(w, "idle")
    /\ job' = [job EXCEPT ![w] = NoJob]
    /\ result' = [result EXCEPT ![w] = outcome]

Mishap(kind) ==
    /\ kind \in Faults /\ mishaps < MaxMishaps
    /\ mishaps' = mishaps + 1

-----------------------------------------------------------------------------
(* Staging.                                                                *)

\* An attempt id that is taken is refused at once.
Call(w, i, g) ==
    /\ pc[w] = "idle"
    /\ IF published[i] # NoEntry
       THEN Return(w, "failed")
       ELSE /\ job' = [job EXCEPT ![w] =
                 [id |-> i, generation |-> g, staged |-> Empty, next |-> 1, stored |-> FALSE]]
            /\ result' = [result EXCEPT ![w] = "none"]
            /\ Goto(w, "stage")
    /\ UNCHANGED <<published, durable, locks, receipts, mishaps>>

\* _artifact_record: bytes that hold the credential are not written at all.
ToWrite(a, c) == IF c = "secret" THEN "none" ELSE c

RecordOf(c) == IF c = "none" THEN "absent" ELSE IF c = "secret" THEN "suppressed" ELSE "kept"

\* The next artifact is created, written and flushed.
StageArtifact(w) ==
    /\ pc[w] = "stage" /\ job[w].next \in 1..3
    /\ LET a == Stage[job[w].next]
       IN  job' = [job EXCEPT ![w].staged.files[a] = ToWrite(a, job[w].generation[a]),
                              ![w].next = @ + 1]
    /\ UNCHANGED <<published, durable, locks, pc, result, receipts, mishaps>>

\* _sanitize_manifest_value
Sanitized(c) == IF c = "secret" THEN "plain" ELSE c

\* The manifest is written last.
StageManifest(w) ==
    /\ pc[w] = "stage" /\ job[w].next = 4
    /\ LET g == job[w].generation
       IN  job' = [job EXCEPT ![w].staged =
                     [files |-> @.files, listed |-> [a \in Artifact |-> RecordOf(g[a])],
                      manifest |-> Sanitized(g["metadata"]), flushed |-> @.flushed]]
    /\ Goto(w, "flush")
    /\ UNCHANGED <<published, durable, locks, result, receipts, mishaps>>

\* Mutant: only the parent directory is flushed.
FlushParentOnly(w) ==
    /\ pc[w] = "flush"
    /\ durable' = published
    /\ Goto(w, "lock")
    /\ UNCHANGED <<published, locks, job, result, receipts, mishaps>>

\* fsync of the staging directory, and of the root: with it of every earlier rename.
Flush(w) ==
    /\ pc[w] = "flush"
    /\ job' = [job EXCEPT ![w].staged.flushed = TRUE]
    /\ durable' = published
    /\ Goto(w, "lock")
    /\ UNCHANGED <<published, locks, result, receipts, mishaps>>

-----------------------------------------------------------------------------
(* _publish_staged_attempt                                                 *)

\* O_CREAT | O_EXCL: the call fails when the lock file exists.
Lock(w) ==
    /\ pc[w] = "lock"
    /\ IF job[w].id \in locks
       THEN Return(w, "failed") /\ UNCHANGED locks
       ELSE locks' = locks \cup {job[w].id} /\ Goto(w, "publish") /\ UNCHANGED <<job, result>>
    /\ UNCHANGED <<published, durable, receipts, mishaps>>

\* The name is free, or the call fails; rename would refuse to replace a
\* directory that is not empty.
Rename(w) ==
    /\ pc[w] = "publish"
    /\ IF published[job[w].id] # NoEntry
       THEN Goto(w, "unlock") /\ UNCHANGED published
       ELSE /\ published' = [published EXCEPT ![job[w].id] = job[w].staged]
            /\ Goto(w, "sync")
    /\ UNCHANGED <<durable, locks, job, result, receipts, mishaps>>

\* Mutant: the rename is not flushed.
SyncSkipped(w) ==
    /\ pc[w] = "sync"
    /\ job' = [job EXCEPT ![w].stored = TRUE]
    /\ Goto(w, "unlock")
    /\ UNCHANGED <<published, durable, locks, result, receipts, mishaps>>

SyncRoot(w) ==
    /\ pc[w] = "sync"
    /\ durable' = published
    /\ job' = [job EXCEPT ![w].stored = TRUE]
    /\ Goto(w, "unlock")
    /\ UNCHANGED <<published, locks, result, receipts, mishaps>>

\* The finally clause; then the call returns or its exception goes on.
Unlock(w) ==
    /\ pc[w] = "unlock"
    /\ locks' = locks \ {job[w].id}
    /\ Return(w, IF job[w].stored THEN "stored" ELSE "failed")
    /\ receipts' = IF job[w].stored
                   THEN receipts \cup {<<job[w].id, published[job[w].id]>>} ELSE receipts
    /\ UNCHANGED <<published, durable, mishaps>>

-----------------------------------------------------------------------------
(* What may go wrong.                                                      *)

\* An OSError.  Under the lock the finally clause still runs.
DiskError(w) ==
    /\ Mishap("disk")
    /\ \/ pc[w] \in {"stage", "flush", "lock", "unlock"} /\ Return(w, "failed")
       \/ pc[w] \in {"publish", "sync"} /\ Goto(w, "unlock") /\ UNCHANGED <<job, result>>
    /\ UNCHANGED <<published, durable, locks, receipts>>

\* The process is killed; its lock file stays behind.
Kill(w) ==
    /\ pc[w] # "idle"
    /\ Mishap("kill")
    /\ Return(w, "none")
    /\ UNCHANGED <<published, durable, locks, receipts>>

\* What a directory is after a loss of power.
Survivor(e) == IF e = NoEntry \/ e.flushed THEN e ELSE Empty

\* Renames and lock files that were not flushed may be there afterwards or not.
PowerLoss(kept, stale) ==
    /\ Mishap("power")
    /\ stale \subseteq locks \cup {i \in AttemptId : published[i] # NoEntry}
    /\ published' = [i \in AttemptId |->
          IF durable[i] # NoEntry \/ i \in kept THEN Survivor(published[i]) ELSE NoEntry]
    /\ durable' = published'
    /\ locks' = stale
    /\ pc' = [w \in Writer |-> "idle"]
    /\ job' = [w \in Writer |-> NoJob]
    /\ result' = [w \in Writer |-> "none"]
    /\ UNCHANGED receipts

Init ==
    /\ published = [i \in AttemptId |-> NoEntry]
    /\ durable = published
    /\ locks = {}
    /\ pc = [w \in Writer |-> "idle"]
    /\ job = [w \in Writer |-> NoJob]
    /\ result = [w \in Writer |-> "none"]
    /\ receipts = {}
    /\ mishaps = 0

Step(w) ==
    \/ StageArtifact(w) \/ StageManifest(w) \/ Flush(w)
    \/ Lock(w) \/ Rename(w) \/ SyncRoot(w) \/ Unlock(w)

Next ==
    \/ \E w \in Writer :
          \/ \E i \in AttemptId, g \in Observed : Call(w, i, g)
          \/ Step(w) \/ DiskError(w) \/ Kill(w)
    \/ \E kept, stale \in SUBSET AttemptId : PowerLoss(kept, stale)

Spec == Init /\ [][Next]_vars

-----------------------------------------------------------------------------
(* Properties.                                                             *)

\* A writer past its first check has an attempt in hand.
TypeOK ==
    /\ published \in [AttemptId -> Entry \cup {NoEntry}]
    /\ durable \in [AttemptId -> Entry \cup {NoEntry}]
    /\ locks \subseteq AttemptId
    /\ pc \in [Writer -> {"idle", "stage", "flush", "lock", "publish", "sync", "unlock"}]
    /\ job \in [Writer -> Job \cup {NoJob}]
    /\ \A w \in Writer : pc[w] # "idle" => job[w] \in Job
    /\ result \in [Writer -> {"none", "stored", "failed"}]
    /\ receipts \subseteq AttemptId \X Entry
    /\ mishaps \in 0..MaxMishaps

Whole(e) ==
    /\ e.manifest \notin {"none", "secret"}
    /\ \A a \in Artifact :
          e.files[a] # "secret" /\ (e.files[a] = "plain" <=> e.listed[a] = "kept")

\* DEF-0014: a directory with an ATT-* name is a complete attempt, whoever was
\* killed while writing it and whenever the power went; what held the credential
\* is listed as suppressed, whichever artifact it came back in.
PublishedIsWhole == \A i \in AttemptId : published[i] # NoEntry => Whole(published[i])

\* The refinement mapping: what the disk would keep, the lock files and the
\* writers' own state are hidden.
Archive == INSTANCE AttemptArchive WITH published <- published, receipts <- receipts

\* Exactly one of the calls that use the same id publishes it, its attempt is
\* never replaced, and what was reported as stored survives everything.

ImplementsArchive == Archive!Spec

=============================================================================
