---------------------------- MODULE CaseService ----------------------------
(***************************************************************************)
(* A CASE v5 analysis from the REST request to the answer:                 *)
(* the request threads of CaseRESTServer behind their research gate, the   *)
(* order of steps in analyze_case_v5, the identity it computes for its     *)
(* bundle, and BundlePublication on a SQLite database in WAL mode that     *)
(* other processes hold open too.                                          *)
(*                                                                         *)
(* A bundle_ref is a hash of the case, of what was found, and of the       *)
(* snapshot fingerprint of the database: here <<case, snapshot>>, the      *)
(* legal corpus and the intake draft being the same in every run.  The     *)
(* timestamp generated_at is part of the body and not of the ref.          *)
(***************************************************************************)
EXTENDS BundlePublication

CONSTANTS
    Case, NoCase,
    NoSnapshot,      \* corpus_snapshot_sha256 = None
    Served,          \* publishers that are request threads of the REST server
    MaxRequests, MaxCommits, MaxTime    \* bounds of the instance

\* A version of the main database file for every change to its bytes.
Snapshot == (0..(MaxRequests + MaxCommits)) \cup {NoSnapshot}

ASSUME ServiceAssumption ==
    /\ NoCase \notin Case
    /\ MaxRequests \in Nat /\ MaxCommits \in Nat /\ MaxTime \in Nat
    /\ NoSnapshot \notin 0..(MaxRequests + MaxCommits)
    /\ Served \subseteq Publisher
    /\ Ref = Case \X Snapshot
    /\ Body = 0..MaxTime

VARIABLES
    stage, case, at,   \* per thread: where it is, for which case, generated_at
    gate,              \* threads inside `with research_gate`
    reply,             \* the HTTP code family each thread answered last
    main, wal,         \* version of the database file; is its WAL non-empty?
    worker,            \* another process has the database open
    requests, commits, clock

service == <<stage, case, at, gate, reply, main, wal, worker, requests, commits, clock>>
everything == <<vars, service>>

-----------------------------------------------------------------------------
(* The database file.                                                      *)

\* Points of a publication at which its connection is open.
Connected == {"insert", "confirm", "load"}

Open == {p \in Publisher : pc[p] \in Connected \/ stage[p] = "researching"}

\* The last connection to close copies the WAL into the main file and drops it.
\* `closing`: a writable connection closes in this step.
Settle(dirty, closing) ==
    IF closing /\ dirty /\ Open' = {} /\ ~worker'
    THEN main' = main + 1 /\ wal' = FALSE
    ELSE wal' = dirty /\ UNCHANGED main

\* _corpus_snapshot_sha256: unavailable while the WAL is not empty.
CurrentSnapshot == IF wal THEN NoSnapshot ELSE main

\* A crawler or another tool uses the same database; none of its commits touches
\* what the analyses read.
WorkerOpen ==
    /\ ~worker /\ worker' = TRUE
    /\ UNCHANGED <<vars, stage, case, at, gate, reply, main, wal, requests, commits, clock>>

WorkerCommit ==
    /\ worker /\ commits < MaxCommits
    /\ commits' = commits + 1 /\ wal' = TRUE
    /\ UNCHANGED <<vars, stage, case, at, gate, reply, main, worker, requests, clock>>

WorkerClose ==
    /\ worker /\ worker' = FALSE
    /\ UNCHANGED <<vars, stage, case, at, gate, reply, requests, commits, clock>>
    /\ Settle(wal, TRUE)

-----------------------------------------------------------------------------
(* One request.                                                            *)

At(p, next) == stage' = [stage EXCEPT ![p] = next]

\* A valid request; only the REST server has a gate.
Request(p, c) ==
    /\ stage[p] = "free" /\ requests < MaxRequests
    /\ requests' = requests + 1
    /\ case' = [case EXCEPT ![p] = c]
    /\ reply' = [reply EXCEPT ![p] = "none"]
    /\ At(p, IF p \in Served THEN "waiting" ELSE "structuring")
    /\ UNCHANGED <<vars, at, gate, main, wal, worker, commits, clock>>

\* Mutant: the threads no longer wait for each other.
Ungated(p) ==
    /\ stage[p] = "waiting"
    /\ gate' = gate \cup {p}
    /\ At(p, "structuring")
    /\ UNCHANGED <<vars, case, at, reply, main, wal, worker, requests, commits, clock>>

Admit(p) ==
    /\ stage[p] = "waiting" /\ gate = {}
    /\ gate' = {p}
    /\ At(p, "structuring")
    /\ UNCHANGED <<vars, case, at, reply, main, wal, worker, requests, commits, clock>>

\* The exception handlers of do_POST, outside the gate.
Answer(p, code) ==
    /\ reply' = [reply EXCEPT ![p] = code]
    /\ gate' = gate \ {p}
    /\ case' = [case EXCEPT ![p] = NoCase]
    /\ at' = [at EXCEPT ![p] = 0]
    /\ At(p, "free")

\* Mutant: an early return that keeps the gate.
AnswerHolding(p, code) ==
    /\ stage[p] = "structuring"
    /\ reply' = [reply EXCEPT ![p] = code]
    /\ case' = [case EXCEPT ![p] = NoCase]
    /\ At(p, "free")
    /\ UNCHANGED <<vars, at, gate, main, wal, worker, requests, commits, clock>>

\* The intake model is unavailable, too slow, or gives nothing usable.
StructuringFails(p, code) ==
    /\ stage[p] = "structuring"
    /\ Answer(p, code)
    /\ UNCHANGED <<vars, main, wal, worker, requests, commits, clock>>

\* The draft is there: generated_at is taken, and research opens the database.
Structured(p) ==
    /\ stage[p] = "structuring"
    /\ at' = [at EXCEPT ![p] = clock]
    /\ At(p, "researching")
    /\ UNCHANGED <<vars, case, gate, reply, main, wal, worker, requests, commits, clock>>

\* A database or integrity error in planning, retrieval or the evidence graph, or
\* an exception nobody expected; the read-only connection is closed.
ResearchFails(p, code) ==
    /\ stage[p] = "researching"
    /\ Answer(p, code)
    /\ UNCHANGED <<vars, main, wal, worker, requests, commits, clock>>

\* Research ends with the fingerprint of the database and closes its read-only
\* connection; the bundle gets its ref and is handed over for publication.
Researched(p) ==
    /\ stage[p] = "researching"
    /\ Begin(p, <<case[p], CurrentSnapshot>>, at[p], FALSE)
    /\ At(p, "publishing")
    /\ UNCHANGED <<case, at, gate, reply, main, wal, worker, requests, commits, clock>>

\* A step of the publication, its connection and the WAL with it.
Publication(p) ==
    /\ stage[p] = "publishing"
    /\ Step(p) \/ Busy(p) \/ DiskError(p)
    /\ UNCHANGED <<stage, case, at, gate, reply, worker, requests, commits, clock>>
    /\ Settle(wal \/ store' # store,
              pc[p] \in Connected \cup {"lookup"} /\ pc'[p] \notin Connected)

\* Mutant: a bundle that is stored counts as published.
CodeStored(a) == CASE a \in {"written", "materialization"} -> "ok"
                   [] a \in {"integrity", "persistence"} -> "integrity"
                   [] OTHER -> "internal"

Code(a) == CASE a = "written" -> "ok"
             [] a \in {"integrity", "persistence", "materialization"} -> "integrity"
             [] OTHER -> "internal"

\* The gate is left, and only then is the answer sent.
Respond(p) ==
    /\ stage[p] = "publishing" /\ pc[p] = "idle"
    /\ Answer(p, Code(answer[p]))
    /\ UNCHANGED <<vars, main, wal, worker, requests, commits, clock>>

Tick ==
    /\ clock < MaxTime /\ clock' = clock + 1
    /\ UNCHANGED <<vars, stage, case, at, gate, reply, main, wal, worker, requests, commits>>

ServiceInit ==
    /\ Init
    /\ stage = [p \in Publisher |-> "free"]
    /\ case = [p \in Publisher |-> NoCase]
    /\ at = [p \in Publisher |-> 0]
    /\ gate = {}
    /\ reply = [p \in Publisher |-> "none"]
    /\ main = 0 /\ wal = FALSE /\ worker = FALSE
    /\ requests = 0 /\ commits = 0 /\ clock = 0

Handling(p) ==
    \/ Admit(p) \/ Structured(p) \/ Researched(p) \/ Publication(p) \/ Respond(p)
    \/ \E code \in {"integrity", "unavailable", "timeout", "internal"} : StructuringFails(p, code)
    \/ \E code \in {"integrity", "internal"} : ResearchFails(p, code)

ServiceNext ==
    \/ \E p \in Publisher : Handling(p) \/ \E c \in Case : Request(p, c)
    \/ WorkerOpen \/ WorkerCommit \/ WorkerClose \/ Tick

ServiceSpec == ServiceInit /\ [][ServiceNext]_everything

\* A thread that can go on does; the provider call has a time-out of its own.
FairService == ServiceSpec /\ \A p \in Publisher : WF_everything(Handling(p))

-----------------------------------------------------------------------------
(* Properties.                                                             *)

Conflict(p) ==
    /\ pc[p] = "lookup"
    /\ store[job[p].ref] \notin {NoBody, job[p].body}

\* The gate and the snapshot keep a server's own runs apart: two of them compute
\* the same bundle_ref with different contents only when the snapshot was
\* unavailable, that is, while another process kept the WAL alive.
ConflictNeedsLiveWal == \A p \in Publisher : Conflict(p) => job[p].ref[2] = NoSnapshot

\* The client is told "ok" only for a bundle that is stored and has its file.
OkIsPublished ==
    [][\A p \in Publisher :
         reply[p] # "ok" /\ reply'[p] = "ok" =>
            \E r \in Ref : /\ r[1] = case[p] /\ store[r] = at[p] /\ files[r] = at[p]]_everything

\* The gate is given back on every path: every request is answered.
EveryRequestAnswered ==
    \A p \in Publisher : stage[p] # "free" ~> stage[p] = "free"

=============================================================================
