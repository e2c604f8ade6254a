------------------------- MODULE BundlePublication -------------------------
(***************************************************************************)
(* Durable publication of a CASE v5 legal research bundle                  *)
(* (tools/case_bundle_persistence_v5.py and the helpers it shares with v4):*)
(* the SQLite rows first, then the standalone file, written to a temporary *)
(* name and renamed.  Any number of publishers - the REST server's request *)
(* threads, the command line - share the database and the case directory.  *)
(*                                                                         *)
(* Validation, canonical JSON and hashing are abstracted: a bundle is its  *)
(* bundle_ref and a body, two bodies being equal exactly when the stored   *)
(* metadata and the canonical JSON are.                                    *)
(***************************************************************************)
EXTENDS Naturals

CONSTANTS
    Publisher,
    Ref, NoRef,      \* bundle_refs
    Body,            \* contents a validated bundle may have
    NoBody,          \* no row, no file
    Foreign,         \* file contents no publisher wrote
    Faults,          \* what may go wrong in this instance
    MaxMishaps       \* and how often, in all

FaultKinds == {"crash", "disk", "busy", "tamper"}

ASSUME PublicationAssumption ==
    /\ NoRef \notin Ref /\ NoBody \notin Body /\ Foreign \notin Body /\ NoBody # Foreign
    /\ Faults \subseteq FaultKinds
    /\ MaxMishaps \in Nat

VARIABLES
    store,    \* case_v5_bundles with its artifacts
    files,    \* <case_root>/v5/<token>/legal_research_bundle.json
    pc, job,  \* control point and locals of each publisher
    answer,   \* how each publisher's last call ended
    acked,    \* history: what was acknowledged in write mode
    edited,   \* history: the refs whose file was edited since it was last written
    mishaps   \* faults so far

vars == <<store, files, pc, job, answer, acked, edited, mishaps>>

Answers == {"none", "written", "preview", "integrity", "persistence",
            "materialization", "unexpected"}

Control == {"idle", "lookup", "insert", "confirm", "load",
            "plan", "write", "rename", "verify"}

\* The caller's bundle, and the one the file is to hold.
Job == [ref : Ref, body : Body, held : Body, dry : BOOLEAN]

NoJob == [ref |-> NoRef, body |-> NoBody, held |-> NoBody, dry |-> FALSE]

-----------------------------------------------------------------------------

Goto(p, point) ==
    /\ pc' = [pc EXCEPT ![p] = point]
    /\ UNCHANGED <<job, answer>>

Return(p, result) ==
    /\ pc' = [pc EXCEPT ![p] = "idle"]
    /\ job' = [job EXCEPT ![p] = NoJob]
    /\ answer' = [answer EXCEPT ![p] = result]

Mishap(kind) ==
    /\ kind \in Faults /\ mishaps < MaxMishaps
    /\ mishaps' = mishaps + 1

\* A call with a bundle that passed validation.
Begin(p, r, b, d) ==
    /\ pc[p] = "idle"
    /\ job' = [job EXCEPT ![p] = [ref |-> r, body |-> b, held |-> b, dry |-> d]]
    /\ answer' = [answer EXCEPT ![p] = "none"]
    /\ pc' = [pc EXCEPT ![p] = "lookup"]
    /\ UNCHANGED <<store, files, acked, edited, mishaps>>

\* The row found is the one this bundle would have written.
SameRow(p) == store[job[p].ref] = job[p].body

\* Mutant: what is already stored needs no second look at its file.
ReuseIsDone(p) ==
    /\ pc[p] = "lookup"
    /\ IF store[job[p].ref] = NoBody
       THEN Goto(p, IF job[p].dry THEN "plan" ELSE "insert")
       ELSE Return(p, IF SameRow(p) THEN "written" ELSE "integrity")
    /\ UNCHANGED <<store, files, acked, edited, mishaps>>

\* persist: SELECT, and compare what is already there.  In a dry run the call
\* goes on with the caller's bundle, otherwise with the stored one.
Lookup(p) ==
    /\ pc[p] = "lookup"
    /\ IF store[job[p].ref] = NoBody
       THEN Goto(p, IF job[p].dry THEN "plan" ELSE "insert")
       ELSE IF SameRow(p)
            THEN Goto(p, IF job[p].dry THEN "plan" ELSE "load")
            ELSE Return(p, "integrity")
    /\ UNCHANGED <<store, files, acked, edited, mishaps>>

\* One transaction writes the bundle row and every artifact; the primary key
\* refuses it when another publisher was faster.
Insert(p) ==
    /\ pc[p] = "insert"
    /\ IF store[job[p].ref] = NoBody
       THEN /\ store' = [store EXCEPT ![job[p].ref] = job[p].body]
            /\ Goto(p, "confirm")
       ELSE Return(p, "persistence") /\ UNCHANGED store
    /\ UNCHANGED <<files, acked, edited, mishaps>>

\* The database is locked for longer than the connection waits.
Busy(p) ==
    /\ pc[p] = "insert"
    /\ Mishap("busy")
    /\ Return(p, "persistence")
    /\ UNCHANGED <<store, files, acked, edited>>

\* What was persisted must reconstruct to what was validated.
Confirm(p) ==
    /\ pc[p] = "confirm"
    /\ IF SameRow(p) THEN Goto(p, "load")
       ELSE Return(p, "integrity")
    /\ UNCHANGED <<store, files, acked, edited, mishaps>>

\* The file is made from the rows, not from the caller's bundle.
Load(p) ==
    /\ pc[p] = "load"
    /\ IF store[job[p].ref] = NoBody
       THEN Return(p, "persistence")
       ELSE /\ job' = [job EXCEPT ![p].held = store[job[p].ref]]
            /\ pc' = [pc EXCEPT ![p] = "plan"]
            /\ UNCHANGED answer
    /\ UNCHANGED <<store, files, acked, edited, mishaps>>

Current(p) == files[job[p].ref] = job[p].held

\* materialize: is the file already what it should be?
PlanFile(p) ==
    /\ pc[p] = "plan"
    /\ Goto(p, IF job[p].dry \/ Current(p) THEN "verify" ELSE "write")
    /\ UNCHANGED <<store, files, acked, edited, mishaps>>

\* Mutant: the file is written under its own name.
InPlace(p) ==
    /\ pc[p] = "write"
    /\ files' = [files EXCEPT ![job[p].ref] = Foreign]
    /\ Goto(p, "rename")
    /\ UNCHANGED <<store, acked, edited, mishaps>>

\* _atomic_write_text: the temporary file, under a name of its own ...
WriteTemp(p) ==
    /\ pc[p] = "write"
    /\ Goto(p, "rename")
    /\ UNCHANGED <<store, files, acked, edited, mishaps>>

\* ... takes the place of the file.
Rename(p) ==
    /\ pc[p] = "rename"
    /\ files' = [files EXCEPT ![job[p].ref] = job[p].held]
    /\ edited' = edited \ {job[p].ref}
    /\ Goto(p, "verify")
    /\ UNCHANGED <<store, acked, mishaps>>

\* The second plan must find the file current; a preview only reports.
Verify(p) ==
    /\ pc[p] = "verify"
    /\ Return(p, IF job[p].dry THEN "preview"
                 ELSE IF Current(p) THEN "written" ELSE "materialization")
    /\ acked' = IF ~job[p].dry /\ Current(p)
                THEN acked \cup {<<job[p].ref, job[p].body>>} ELSE acked
    /\ UNCHANGED <<store, files, edited, mishaps>>

\* An OSError: wrapped while writing, not while planning.  The temporary file is
\* left behind (delete=False) under a name nobody reads again.
DiskError(p) ==
    /\ pc[p] \in {"plan", "write", "rename", "verify"}
    /\ Mishap("disk")
    /\ Return(p, IF pc[p] \in {"write", "rename"} THEN "materialization" ELSE "unexpected")
    /\ UNCHANGED <<store, files, acked, edited>>

Crash(p) ==
    /\ pc[p] # "idle"
    /\ Mishap("crash")
    /\ Return(p, "none")
    /\ UNCHANGED <<store, files, acked, edited>>

\* Somebody edits or removes the file.
Tamper(r, found) ==
    /\ Mishap("tamper")
    /\ files' = [files EXCEPT ![r] = found]
    /\ edited' = edited \cup {r}
    /\ UNCHANGED <<store, pc, job, answer, acked>>

Init ==
    /\ store = [r \in Ref |-> NoBody]
    /\ files = [r \in Ref |-> NoBody]
    /\ pc = [p \in Publisher |-> "idle"]
    /\ job = [p \in Publisher |-> NoJob]
    /\ answer = [p \in Publisher |-> "none"]
    /\ acked = {}
    /\ edited = {}
    /\ mishaps = 0

Step(p) ==
    \/ Lookup(p) \/ Insert(p) \/ Confirm(p) \/ Load(p) \/ PlanFile(p)
    \/ WriteTemp(p) \/ Rename(p) \/ Verify(p)

Trouble(p) == Busy(p) \/ DiskError(p) \/ Crash(p)

Call(p) == \E r \in Ref, b \in Body, d \in BOOLEAN : Begin(p, r, b, d)

Next ==
    \/ \E p \in Publisher : Call(p) \/ Step(p) \/ Trouble(p)
    \/ \E r \in Ref, found \in {NoBody, Foreign} : Tamper(r, found)

Spec == Init /\ [][Next]_vars

-----------------------------------------------------------------------------
(* Properties.                                                             *)

\* A row or a file that is there is a whole bundle - no half-written artifact set
\* or file is ever to be seen under its name - and a busy publisher has a call.
TypeOK ==
    /\ store \in [Ref -> Body \cup {NoBody}]
    /\ files \in [Ref -> Body \cup {NoBody, Foreign}]
    /\ pc \in [Publisher -> Control]
    /\ job \in [Publisher -> Job \cup {NoJob}]
    /\ \A p \in Publisher : pc[p] # "idle" => job[p] \in Job
    /\ answer \in [Publisher -> Answers]
    /\ acked \subseteq Ref \X Body
    /\ edited \subseteq Ref
    /\ mishaps \in 0..MaxMishaps

\* The refinement mapping: the rows are the store, and what publishers keep of
\* their own - control points, locals, temporary files - is hidden.
Abstract == INSTANCE WriteOnceBundles WITH
    store <- store, files <- files, acked <- acked, edited <- edited

\* The promise of WriteOnceBundles: every step of the protocol commits, copies,
\* acknowledges or changes nothing.
ImplementsWriteOnce == Abstract!Spec

\* Stored bundles are append-only: whatever races, crashes or disk errors
\* happen, and whatever becomes of the files, a row never changes.
StoredForEver ==
    [][\A r \in Ref : store[r] # NoBody => store'[r] = store[r]]_vars

\* Past the comparison with the database, a publisher that writes holds exactly
\* what is stored: no interleaving lets two contents reach one file name.
HoldsStored ==
    \A p \in Publisher :
        pc[p] \in {"confirm", "load", "plan", "write", "rename", "verify"} /\ ~job[p].dry
        => /\ store[job[p].ref] = job[p].body
           /\ pc[p] \notin {"confirm", "load"} => job[p].held = job[p].body

\* Nothing is needed to run each of a publisher's steps but the publisher.
FairSpec == Spec /\ \A p \in Publisher : WF_vars(Step(p))

\* A crash between the commit and the rename leaves a bundle without its file.
\* Publishing the same bundle again repairs it, as long as it is tried again.
RetriesMaterialize ==
    \A r \in Ref, b \in Body :
        ([]<><<\E p \in Publisher : Begin(p, r, b, FALSE)>>_vars)
        => (store[r] = b ~> files[r] = b)
=============================================================================
