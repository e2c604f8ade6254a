------------------------- MODULE PullRequestControl -------------------------
(***************************************************************************)
(* The repository's own control loop around one autonomous pull request:   *)
(* the lifecycle controller of agent_control.py, run by the inspection of  *)
(* pull-request events and by every CI run that passes, the policy and the *)
(* gate of the CI workflow, and the label that shows a blocked issue.      *)
(*                                                                         *)
(* A head is a number; its base is the length of main it was last brought  *)
(* up to, and it may add one SQL migration.  main is the sequence of       *)
(* merged changes, each the number of the migration it adds or 0.          *)
(* GitHub itself - who may push, what a merge request is refused for - is  *)
(* modelled from the calls the code makes.                                 *)
(***************************************************************************)
EXTENDS Naturals, Sequences, FiniteSets, FiniteSetsExt

CONSTANTS
    CIRun,          \* CI runs that may be in progress at once
    NoHead,
    MaxRetries,     \* MAX_RETRIES
    MaxHeads, MaxMain, MaxQueued,   \* bounds: pushes, merges, CI runs waiting
    MaxAsked        \* bound: requests of one kind after which nobody edits the pull request

Inspector == "inspect"    \* the one concurrency group of pull-request events
Runner == CIRun \cup {Inspector}
Heads == 1..MaxHeads
Reason == {"NEEDS_REBASE", "MERGE_CONFLICT", "CI_FAILED", "CHECKS_OUTDATED"}
State == {"NEEDS_REBASE", "CHECKS_OUTDATED", "READY_FOR_MERGE", "MERGED", "CI_VALIDATING", "BLOCKED"}

ASSUME ControlAssumption ==
    /\ NoHead \notin Heads /\ Inspector \notin CIRun /\ IsFiniteSet(CIRun)
    /\ MaxRetries \in Nat \ {0} /\ MaxHeads \in Nat \ {0}
    /\ MaxMain \in Nat /\ MaxQueued \in Nat /\ MaxAsked \in Nat

VARIABLES
    ruleset,              \* is the col-taxdata-autonomous-main ruleset applied?
    main,                 \* the changes merged into main
    head, base, adds,     \* the PR's head; base and migration of each head
    conflict,             \* head does not merge into main
    merged,               \* the head that was merged, or NoHead
    gate, passed,         \* latest CI Gate status of each head; did one run pass?
    queued, wake,         \* CI runs dispatched; an event not yet inspected
    run,                  \* per runner: what it is doing
    resumes, sent,        \* per reason and head: markers posted, events dispatched
    full,                 \* are there a hundred comments on the issue?
    seen, notes,          \* among the first hundred, per reason and head: the markers,
                          \* and is a blocker noted?
    blockers,             \* per reason and head: blocker issues
    label,                \* is status:blocked on the issue?
    killed                \* a runner died or an API call failed

pull == <<ruleset, main, head, base, adds, conflict, merged, gate, passed, queued, wake,
          run, resumes, sent, full, seen, notes, blockers, label, killed>>

Github == <<ruleset, main, head, base, adds, conflict, merged>>
Checks == <<gate, passed, queued, wake>>
Thread == <<resumes, sent, full, seen, notes, blockers, label>>

-----------------------------------------------------------------------------
(* What GitHub answers.                                                    *)

\* Mutant: verify_ruleset would accept a ruleset without current-base checks.
NotStrict == FALSE

\* desired_ruleset: the CI Gate is required, and on a head that holds all of main.
Strict == ruleset

Behind == base[head] < Len(main)

\* pulls/N: mergeable and mergeable_state.  Both may be unknown while GitHub
\* computes them, and a check that has passed may not have arrived yet.
Views ==
    {"unknown"} \cup
    IF merged # NoHead THEN {}
    ELSE IF conflict THEN {"dirty"}
    ELSE IF Behind /\ Strict THEN {"behind"}
    ELSE IF ruleset /\ gate[head] # "success" THEN {"blocked"}
    ELSE IF ruleset THEN {"clean", "blocked"} ELSE {"clean"}

\* PUT pulls/N/merge with `sha`.
Accepts(h) ==
    /\ merged = NoHead /\ head = h /\ ~conflict
    /\ Strict => ~Behind
    /\ ruleset => gate[h] = "success"

\* The number after the migrations of a stretch of main.
Following(changes) == Max({0} \cup {changes[i] : i \in DOMAIN changes}) + 1

-----------------------------------------------------------------------------
(* The lifecycle controller: handle_lifecycle.                             *)

\* A run at work on head h, and one that tests h or reports what its test came to.
Doing(pc, h, reason, state, next) ==
    [pc |-> pc, cause |-> "none", tested |-> NoHead, head |-> h,
     reason |-> reason, state |-> state, next |-> next]
OnTest(pc, h, cause) ==
    [pc |-> pc, cause |-> cause, tested |-> h, head |-> NoHead,
     reason |-> "none", state |-> "none", next |-> "idle"]
Idle == Doing("idle", NoHead, "none", "none", "idle")

Goto(r, rec) == run' = [run EXCEPT ![r] = rec]
Move(r, pc) == Goto(r, [run[r] EXCEPT !.pc = pc])
At(r, pc) == run[r].pc = pc
Key(r) == <<run[r].reason, run[r].head>>

\* post_state_comment(state) and then on to `next`; or request_resume(reason).
Post(rec, state, next) == Doing("post", rec.head, rec.reason, state, next)
Ask(rec, reason) == Doing("count", rec.head, reason, "none", "idle")

\* What a run does after reading the pull request.
Decide(rec, view) ==
    IF rec.cause = "failure" THEN Ask(rec, "CI_FAILED")
    ELSE IF view = "dirty" THEN Ask(rec, "MERGE_CONFLICT")
    ELSE IF view = "behind" THEN Post(rec, "NEEDS_REBASE", "update")
    ELSE IF rec.cause = "none" THEN Post(rec, "CI_VALIDATING", "check")
    ELSE IF rec.tested # rec.head THEN Ask(rec, "NEEDS_REBASE")
    ELSE IF view = "blocked" THEN [rec EXCEPT !.pc = "settle"]
    ELSE IF view = "clean" THEN Post(rec, "READY_FOR_MERGE", "merge") ELSE Idle

\* fetch_pr and the branches of handle_lifecycle on it.
Fetch(r) ==
    /\ At(r, "fetch")
    /\ \E view \in Views : Goto(r, Decide([run[r] EXCEPT !.head = head], view))
    /\ UNCHANGED <<Github, Checks, Thread, killed>>

\* settle_mergeability_after_success: the last of its bounded re-reads.
Settle(r) ==
    /\ At(r, "settle")
    /\ \E view \in Views : LET rec == [run[r] EXCEPT !.head = head] IN
         Goto(r, IF rec.tested # head THEN Ask(rec, "NEEDS_REBASE")
                 ELSE IF view = "blocked" THEN Doing("post", head, "CHECKS_OUTDATED", "CHECKS_OUTDATED", "count")
                 ELSE IF view = "clean" THEN Post(rec, "READY_FOR_MERGE", "merge") ELSE Idle)
    /\ UNCHANGED <<Github, Checks, Thread, killed>>

\* The comment, and apply_visible_state on the label.
PostState(r) ==
    /\ At(r, "post") /\ label' = (run[r].state = "BLOCKED")
    /\ Goto(r, IF run[r].next = "idle" THEN Idle
               ELSE Doing(run[r].next, run[r].head, run[r].reason, "none", "idle"))
    /\ UNCHANGED <<Github, Checks, resumes, sent, full, seen, notes, blockers, killed>>

\* update-branch with expected_head_sha merges main into the head, or GitHub
\* refuses it; the new head is checked, and a resume is asked for the old one.
UpdateBranch(r) ==
    /\ At(r, "update")
    /\ \/ /\ head = run[r].head /\ merged = NoHead /\ ~conflict /\ head < MaxHeads
          /\ head' = head + 1
          /\ base' = [base EXCEPT ![head + 1] = Len(main)]
          /\ adds' = [adds EXCEPT ![head + 1] = adds[head]]
          /\ UNCHANGED <<ruleset, main, conflict, merged>>
          /\ Goto(r, Doing("check", run[r].head, "NEEDS_REBASE", "none", "idle"))
       \/ UNCHANGED Github /\ Goto(r, Ask(run[r], "NEEDS_REBASE"))
    /\ UNCHANGED <<Checks, Thread, killed>>

\* Mutant: the inspection posts its state and leaves CI to somebody else.
NoDispatch(r) ==
    /\ At(r, "check") /\ UNCHANGED queued
    /\ Goto(r, IF run[r].reason = "none" THEN Idle ELSE [run[r] EXCEPT !.pc = "count"])
    /\ UNCHANGED <<Github, gate, passed, wake, Thread, killed>>

\* dispatch_ci; an inspection ends here, a rebase goes on to its resume, also when
\* the dispatch failed.  Runs waiting beyond the bound would test the same head.
DispatchCI(r) ==
    /\ At(r, "check")
    /\ \/ queued' = (IF queued < MaxQueued THEN queued + 1 ELSE queued) /\ UNCHANGED killed
       \/ run[r].reason # "none" /\ ~killed /\ killed' = TRUE /\ UNCHANGED queued
    /\ Goto(r, IF run[r].reason = "none" THEN Idle ELSE [run[r] EXCEPT !.pc = "count"])
    /\ UNCHANGED <<Github, gate, passed, wake, Thread>>

\* Mutant: the merge request does not name the head that was tested.
MergeAny(r) ==
    /\ At(r, "merge") /\ Accepts(head) /\ head \in Heads
    /\ merged' = head /\ main' = Append(main, adds[head])
    /\ Goto(r, Post(run[r], "MERGED", "converge"))
    /\ UNCHANGED <<ruleset, head, base, adds, conflict, Checks, Thread, killed>>

\* A merge GitHub refuses with an error ends the run, one it reports as not
\* merged becomes a rebase.
Merge(r) ==
    /\ At(r, "merge")
    /\ \/ /\ Accepts(run[r].head)
          /\ merged' = head /\ main' = Append(main, adds[head])
          /\ Goto(r, Post(run[r], "MERGED", "converge"))
          /\ UNCHANGED <<ruleset, head, base, adds, conflict>>
       \/ /\ ~Accepts(run[r].head)
          /\ Goto(r, Idle) \/ Goto(r, Ask(run[r], "NEEDS_REBASE"))
          /\ UNCHANGED Github
    /\ UNCHANGED <<Checks, Thread, killed>>

\* dispatch_convergence and the deletion of the branch: see IssueLifecycle.
Converge(r) ==
    /\ At(r, "converge") /\ Goto(r, Idle)
    /\ UNCHANGED <<Github, Checks, Thread, killed>>

-----------------------------------------------------------------------------
(* request_resume and create_blocker.  fetch_comments reads one page, the   *)
(* oldest hundred comments: what is posted after them is never read back.   *)

\* Mutant: the limit is compared with the attempt before this one.
CountLate(r) ==
    /\ At(r, "count") /\ Move(r, IF seen[Key(r)] <= MaxRetries THEN "resume" ELSE "blocker")
    /\ UNCHANGED <<Github, Checks, Thread, killed>>

\* retry_count over the comments fetch_comments reads now.
Count(r) ==
    /\ At(r, "count") /\ Move(r, IF seen[Key(r)] < MaxRetries THEN "resume" ELSE "blocker")
    /\ UNCHANGED <<Github, Checks, Thread, killed>>

\* The comment that consumes an attempt, then the event that is the attempt.
PostResume(r) ==
    /\ At(r, "resume") /\ resumes' = [resumes EXCEPT ![Key(r)] = @ + 1]
    /\ seen' = IF full THEN seen ELSE [seen EXCEPT ![Key(r)] = @ + 1]
    /\ Move(r, "dispatch")
    /\ UNCHANGED <<Github, Checks, sent, full, notes, blockers, label, killed>>

DispatchResume(r) ==
    /\ At(r, "dispatch") /\ sent' = [sent EXCEPT ![Key(r)] = @ + 1] /\ Goto(r, Idle)
    /\ UNCHANGED <<Github, Checks, resumes, full, seen, notes, blockers, label, killed>>

\* A blocker noted for this reason and head among those comments is reused.
CheckBlocker(r) ==
    /\ At(r, "blocker")
    /\ Goto(r, IF notes[Key(r)] THEN Post(run[r], "BLOCKED", "idle")
               ELSE [run[r] EXCEPT !.pc = "open"])
    /\ UNCHANGED <<Github, Checks, Thread, killed>>

OpenBlocker(r) ==
    /\ At(r, "open") /\ blockers' = [blockers EXCEPT ![Key(r)] = @ + 1] /\ Move(r, "note")
    /\ UNCHANGED <<Github, Checks, resumes, sent, full, seen, notes, label, killed>>

NoteBlocker(r) ==
    /\ At(r, "note") /\ notes' = IF full THEN notes ELSE [notes EXCEPT ![Key(r)] = TRUE]
    /\ Goto(r, Post(run[r], "BLOCKED", "idle"))
    /\ UNCHANGED <<Github, Checks, resumes, sent, full, seen, blockers, label, killed>>

-----------------------------------------------------------------------------
(* The workflows.                                                          *)

\* pull_request_target, serialized per pull request.
Inspect ==
    /\ wake /\ At(Inspector, "idle") /\ wake' = FALSE
    /\ Goto(Inspector, Doing("fetch", NoHead, "none", "none", "idle"))
    /\ UNCHANGED <<Github, gate, passed, queued, Thread, killed>>

\* migration_sequence_violations: a new migration follows those of main.
Sequence(h) == adds[h] = 0 \/ adds[h] = Following(main)

\* col-taxdata CI resolves the head and the current main, and applies policy.py
\* first.  What else it asks - ownership, scope, immutable files, secrets,
\* documentation - and the test suites either pass or they do not.
StartCI(c) ==
    /\ queued > 0 /\ At(c, "idle") /\ queued' = queued - 1
    /\ Goto(c, OnTest(IF Sequence(head) THEN "testing" ELSE "refused", head, "none"))
    /\ UNCHANGED <<Github, gate, passed, wake, Thread, killed>>

Publish(c, verdict) ==
    /\ gate' = [gate EXCEPT ![run[c].tested] = verdict]
    /\ passed' = [passed EXCEPT ![run[c].tested] = @ \/ verdict = "success"]
    /\ UNCHANGED <<Github, queued, wake, Thread, killed>>

\* complete-dispatched-lifecycle re-enters the controller.
CIPasses(c) ==
    /\ At(c, "testing") /\ Publish(c, "success")
    /\ Goto(c, OnTest("fetch", run[c].tested, "success"))

\* handle-ci-result finds the pull request only of a run somebody started on the
\* branch; the runs the controller starts belong to main.
CIFails(c) ==
    /\ At(c, "testing") \/ At(c, "refused")
    /\ Publish(c, "failure")
    /\ Goto(c, Idle) \/ Goto(c, OnTest("fetch", run[c].tested, "failure"))

-----------------------------------------------------------------------------
(* Everybody else.                                                         *)

\* The developer pushes, on the old base or on all of main.
Push(onto, m) ==
    /\ merged = NoHead /\ head < MaxHeads /\ onto \in {base[head], Len(main)}
    /\ m \in {0, Following(SubSeq(main, 1, onto))}
    /\ head' = head + 1 /\ wake' = TRUE
    /\ base' = [base EXCEPT ![head + 1] = onto] /\ adds' = [adds EXCEPT ![head + 1] = m]
    /\ conflict' = (conflict /\ onto < Len(main))
    /\ UNCHANGED <<ruleset, main, merged, gate, passed, queued, run, Thread, killed>>

\* The pull request is edited, reopened or marked ready: an event without a push.
Edit ==
    /\ ~wake /\ wake' = TRUE /\ \A k \in DOMAIN resumes : resumes[k] + blockers[k] < MaxAsked
    /\ UNCHANGED <<Github, gate, passed, queued, run, Thread, killed>>

\* With the comments of developers, reviewers and the controller itself the page of
\* a hundred is full at some time, or never; which comment was the last one on it
\* matters to nobody.
Fill ==
    /\ ~full /\ full' = TRUE
    /\ UNCHANGED <<Github, Checks, run, resumes, sent, seen, notes, blockers, label, killed>>

\* Another pull request is merged by the same rules.
Advance(m, clash) ==
    /\ merged = NoHead /\ Len(main) < MaxMain /\ m \in {0, Following(main)}
    /\ main' = Append(main, m) /\ conflict' = (conflict \/ clash)
    /\ UNCHANGED <<ruleset, head, base, adds, merged, Checks, run, Thread, killed>>

\* A runner is lost, or a call fails with an error nobody catches.
Kill(r) ==
    /\ ~killed /\ ~At(r, "idle") /\ Goto(r, Idle) /\ killed' = TRUE
    /\ UNCHANGED <<Github, Checks, Thread>>

\* A pull request with one head, which an event announces or not; earlier events
\* may have used up its attempts, and left a CI run waiting.
Opened(event) ==
    /\ ruleset \in BOOLEAN /\ main = <<>> /\ head = 1 /\ merged = NoHead
    /\ base = [h \in Heads |-> 0] /\ adds \in {[h \in Heads |-> 0], [h \in Heads |-> IF h = 1 THEN 1 ELSE 0]}
    /\ conflict = FALSE /\ gate = [h \in Heads |-> "none"] /\ passed = [h \in Heads |-> FALSE]
    /\ wake = event /\ queued \in 0..(IF event THEN MaxQueued ELSE 0) /\ run = [r \in Runner |-> Idle]
    /\ \E used \in {0, MaxRetries} :
         resumes = [k \in Reason \X Heads |-> IF k[2] = 1 THEN used ELSE 0]
    /\ sent = resumes /\ seen = resumes /\ full = FALSE /\ blockers = [k \in Reason \X Heads |-> 0]
    /\ notes = [k \in Reason \X Heads |-> FALSE]
    /\ label = FALSE /\ killed = FALSE

PullInit == Opened(TRUE)

Control(r) ==
    \/ Fetch(r) \/ Settle(r) \/ PostState(r)
    \/ UpdateBranch(r) \/ DispatchCI(r) \/ Merge(r) \/ Converge(r)
    \/ Count(r) \/ PostResume(r) \/ DispatchResume(r)
    \/ CheckBlocker(r) \/ OpenBlocker(r) \/ NoteBlocker(r)

PullNext ==
    \/ \E r \in Runner : Control(r) \/ Kill(r)
    \/ Inspect
    \/ \E c \in CIRun : StartCI(c) \/ CIPasses(c) \/ CIFails(c)
    \/ \E onto \in 0..MaxMain, m \in 0..(MaxMain + 1) : Push(onto, m)
    \/ Edit \/ Fill
    \/ \E m \in 0..MaxMain, clash \in BOOLEAN : Advance(m, clash)

-----------------------------------------------------------------------------
(* Properties.                                                             *)

\* Whatever is pushed, merged elsewhere or tested at the same time, the head that
\* handle_lifecycle merges is one a CI run passed: the success it acts on is for
\* the head it read, and the merge request names that head.
MergedIsTested == merged # NoHead => passed[merged]

\* policy.py compares a new migration with main as it was when CI ran; the strict
\* ruleset of repository_governance.py makes that the main it is merged into, so
\* two pull requests that both add the next migration never both land.
MigrationsContiguous ==
    LET adding == {i \in DOMAIN main : main[i] # 0} IN
    ruleset => \A i \in adding : main[i] = Cardinality({j \in adding : j <= i})

\* request_resume reads the attempts and posts one more in two calls, so runs that
\* overlap may each add one to the budget of a reason and head - and no more, as
\* long as the page of comments is not full.  No event is sent that no comment
\* announced, and the label stands only while there is a blocker.
RetriesBounded ==
    /\ \A k \in Reason \X Heads :
          /\ sent[k] <= resumes[k]
          /\ ~full => resumes[k] <= MaxRetries + Cardinality(Runner) - 1
    /\ label => \E k \in Reason \X Heads : blockers[k] > 0

\* Disagrees with the code: after MaxRetries recorded requests for a reason and head,
\* another one creates a blocker and does not continue the loop.
RetriesStop == \A k \in Reason \X Heads : resumes[k] <= MaxRetries

\* As long as no run is lost, the head an event announced, or the one that replaced
\* it, is judged in the end: checked by CI, merged, or handed back to a developer.
EveryHeadIsJudged ==
    wake ~> \/ gate[head] # "none" \/ merged # NoHead \/ killed
            \/ \E reason \in Reason : sent[<<reason, head>>] > 0 \/ blockers[<<reason, head>>] > 0

\* GitHub starts what is queued, and a job that runs goes on.
PullFairness ==
    /\ WF_pull(Inspect \/ Control(Inspector))
    /\ \A c \in CIRun : WF_pull(StartCI(c) \/ CIPasses(c) \/ CIFails(c) \/ Control(c))

PullSpec == PullInit /\ [][PullNext]_pull /\ PullFairness
=============================================================================
