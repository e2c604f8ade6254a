--------------------------- MODULE IssueLifecycle ---------------------------
(***************************************************************************)
(* From the merge of an issue's pull request to the closed issue: what the *)
(* lifecycle controller does after its merge, the convergence workflow     *)
(* with its queue of one, and convergence.py finalize, which completes the *)
(* issue and those that earlier runs left stranded.  IssueClaims gives the *)
(* issues, their branches and the claims on them; PullRequestControl says  *)
(* how a pull request comes to be merged.                                  *)
(*                                                                         *)
(* A revision of main is its number; every revision contains the earlier   *)
(* ones.                                                                   *)
(***************************************************************************)
EXTENDS IssueClaims

CONSTANTS
    Nobody,                  \* the change of another project's pull request
    MaxListed                \* closed pull requests of one page, 30 in the code

Owner == Issue \cup {Nobody}
Mode == {"convergence", "post_merge_acceptance"}

ASSUME LifecycleAssumption == Nobody \notin Issue /\ MaxListed \in Nat

VARIABLES
    mode,                    \* completion_mode of each issue's pull request
    merge,                   \* the revision that merged it, or 0
    after,                   \* what its lifecycle run has left to do
    pending,                 \* the convergence that waits, or none
    conv,                    \* the convergence in progress
    validated,               \* revisions whose integration suite passed
    reopened                 \* issues reopened since their merge

landing == <<mode, merge, after, pending, conv, validated, reopened>>
issues == <<board, landing>>

Run(pc, owner, sha, left, target) ==
    [pc |-> pc, owner |-> owner, sha |-> sha, left |-> left, target |-> target]
NoRun == Run("idle", Nobody, 0, {}, Nobody)
Nothing == [owner |-> Nobody, sha |-> 0]

-----------------------------------------------------------------------------
(* The end of handle_lifecycle.                                            *)

\* The merge; GitHub may close an issue the pull request names as fixed.
MergePull(b) ==
    /\ b \in pulls \cap branches /\ merge[b.issue] = 0 /\ open[b.issue] /\ tip < MaxTip
    /\ tip' = tip + 1 /\ merge' = [merge EXCEPT ![b.issue] = tip + 1]
    /\ after' = [after EXCEPT ![b.issue] = "dispatch"]
    /\ \/ open' = open
       \/ mode[b.issue] = "convergence" /\ open' = [open EXCEPT ![b.issue] = FALSE]
    /\ UNCHANGED <<evidence, branches, pulls, claims, plan, mode, pending, conv, validated, reopened>>

\* GitHub keeps one waiting run of a concurrency group: a newer one replaces it.
DispatchConvergence(i) ==
    /\ after[i] = "dispatch" /\ after' = [after EXCEPT ![i] = "delete"]
    /\ pending' = [owner |-> i, sha |-> merge[i]]
    /\ UNCHANGED <<board, mode, merge, conv, validated, reopened>>

DeleteBranch(i) ==
    /\ after[i] = "delete" /\ after' = [after EXCEPT ![i] = "off"]
    /\ branches' = branches \ Of(pulls, i)
    /\ UNCHANGED <<tip, open, evidence, pulls, claims, plan, mode, merge, pending, conv, validated, reopened>>

LoseLifecycle(i) ==
    /\ after[i] # "off" /\ after' = [after EXCEPT ![i] = "off"]
    /\ UNCHANGED <<board, mode, merge, pending, conv, validated, reopened>>

\* A push to main by a person, of a pull request that owns no issue here.
OtherMerge ==
    /\ tip < MaxTip /\ tip' = tip + 1 /\ pending' = [owner |-> Nobody, sha |-> tip + 1]
    /\ UNCHANGED <<open, evidence, branches, pulls, claims, plan, mode, merge, after, conv, validated, reopened>>

\* Somebody runs the workflow of the latest revision again.
Rerun ==
    /\ tip > 0 /\ pending = Nothing /\ conv.pc = "idle"
    /\ pending' = [owner |-> IF \E i \in Issue : merge[i] = tip
                             THEN CHOOSE i \in Issue : merge[i] = tip ELSE Nobody, sha |-> tip]
    /\ UNCHANGED <<board, mode, merge, after, conv, validated, reopened>>

-----------------------------------------------------------------------------
(* convergence.yml and convergence.py.                                     *)

Conv(rec) == conv' = rec
On(pc, left, target) == Run(pc, conv.owner, conv.sha, left, target)
OnlyConv == UNCHANGED <<board, mode, merge, after, pending, validated, reopened>>

StartConvergence ==
    /\ pending # Nothing /\ conv.pc = "idle" /\ pending' = Nothing
    /\ Conv(Run("suite", pending.owner, pending.sha, {}, Nobody))
    /\ UNCHANGED <<board, mode, merge, after, validated, reopened>>

\* The integration suite on the merged revision; a failure ends in a corrective
\* issue and leaves the owning one as it is.
SuiteFails == conv.pc = "suite" /\ Conv(NoRun) /\ OnlyConv

\* It passes, and cmd_finalize turns to its own issue: the marker
\* POST_MERGE_ACCEPTANCE_PENDING, or close_issue_completed if it is still open.
Finalize ==
    /\ conv.pc = "suite" /\ validated' = validated \cup {conv.sha}
    /\ Conv(IF conv.owner # Nobody /\ mode[conv.owner] = "convergence" /\ open[conv.owner]
            THEN On("close", {}, conv.owner) ELSE On("list", {}, Nobody))
    /\ UNCHANGED <<board, mode, merge, after, pending, reopened>>

\* reconcile_stranded_merged_issues: the other merged pull requests.
Merged == {i \in Issue \ {conv.owner} : merge[i] # 0 /\ mode[i] = "convergence"}

\* Those on the page of the most recently updated closed pull requests: all while one
\* page holds what was merged, then whichever were commented on or edited last.
Listings ==
    {{i \in Merged : merge[i] \in page} : page \in kSubset(Min({tip, MaxListed}), 1..tip)}

ListMerged ==
    /\ conv.pc = "list" /\ OnlyConv
    /\ \E listed \in Listings : Conv(On("next", listed, Nobody))

\* Mutant: any open issue is completed by any passing revision.
StrandedAnywhere(i) == open[i] /\ i \notin reopened

\* Mutant: only the merge that is the validated revision itself.
StrandedHere(i) == merge[i] = conv.sha /\ open[i] /\ i \notin reopened

\* Merged within the validated history, still open, and not reopened since.
Stranded(i) == merge[i] <= conv.sha /\ open[i] /\ i \notin reopened

Recover(i) ==
    /\ conv.pc = "next" /\ i \in conv.left
    /\ Conv(IF Stranded(i) THEN On("close", conv.left \ {i}, i) ELSE On("next", conv.left \ {i}, Nobody))
    /\ OnlyConv

\* On to the other merged pull requests, or to the next of them.
Completed == On(IF conv.target = conv.owner THEN "list" ELSE "next", conv.left, Nobody)

\* close_issue_completed: reads the issue, closes it, then posts the DONE marker.
Close ==
    /\ conv.pc = "close"
    /\ IF open[conv.target]
       THEN open' = [open EXCEPT ![conv.target] = FALSE] /\ Conv(On("done", conv.left, conv.target))
       ELSE UNCHANGED open /\ Conv(Completed)
    /\ UNCHANGED <<tip, evidence, branches, pulls, claims, plan, mode, merge, after, pending, validated, reopened>>

PostDone ==
    /\ conv.pc = "done" /\ evidence' = evidence \cup {conv.target}
    /\ Conv(Completed)
    /\ UNCHANGED <<tip, open, branches, pulls, claims, plan, mode, merge, after, pending, validated, reopened>>

\* The success status, when nothing is left.
FinishConvergence == conv.pc = "next" /\ conv.left = {} /\ Conv(NoRun) /\ OnlyConv

LoseConvergence == conv.pc \notin {"idle", "suite"} /\ Conv(NoRun) /\ OnlyConv

Converging ==
    \/ StartConvergence \/ SuiteFails \/ Finalize \/ ListMerged
    \/ \E i \in Issue : Recover(i)
    \/ Close \/ PostDone \/ FinishConvergence

-----------------------------------------------------------------------------
(* People.                                                                 *)

\* The developer's post-merge acceptance passed: DONE marker and closure.
Accept(i) ==
    /\ mode[i] = "post_merge_acceptance" /\ open[i]
    /\ merge[i] # 0 /\ merge[i] \in validated
    /\ open' = [open EXCEPT ![i] = FALSE] /\ evidence' = evidence \cup {i}
    /\ UNCHANGED <<tip, branches, pulls, claims, plan, landing>>

Reopen(i) ==
    /\ ~open[i] /\ merge[i] # 0 /\ open' = [open EXCEPT ![i] = TRUE]
    /\ reopened' = reopened \cup {i}
    /\ UNCHANGED <<tip, evidence, branches, pulls, claims, plan, mode, merge, after, pending, conv, validated>>

IssueInit ==
    /\ ClaimsInit /\ mode \in [Issue -> Mode]
    /\ merge = [i \in Issue |-> 0] /\ after = [i \in Issue |-> "off"]
    /\ pending = Nothing /\ conv = NoRun /\ validated = {} /\ reopened = {}

IssueNext ==
    \/ (\E w \in Worker : Working(w)) /\ UNCHANGED landing
    \/ \E b \in Branch : MergePull(b)
    \/ \E i \in Issue : DispatchConvergence(i) \/ DeleteBranch(i) \/ LoseLifecycle(i)
    \/ OtherMerge \/ Rerun \/ Converging \/ LoseConvergence
    \/ \E i \in Issue : Accept(i) \/ Reopen(i)

-----------------------------------------------------------------------------
(* Properties.                                                             *)

\* Lost dispatches, replaced convergence runs and recovery by a later run mix up
\* who completes an issue when; still a DONE marker is only ever posted on an
\* issue whose merge lies in a revision that converged, and automation leaves an
\* issue that awaits its acceptance open.
DoneIsConverged ==
    /\ \A i \in evidence : merge[i] # 0 /\ \E sha \in validated : merge[i] <= sha
    /\ \A i \in Issue : mode[i] = "post_merge_acceptance" /\ ~open[i] => i \in evidence

\* A developer never holds two issues, whatever was merged, completed or claimed by
\* others between its snapshot and its claim - except through issues that were
\* reopened, whose old claims come back.
OneClaimPerWorker ==
    \A w \in Worker :
        Cardinality({c \in Own(w) : c.branch.issue \notin reopened}) <= 1

\* A merged issue that GitHub did not close and whose own convergence was lost is
\* completed by a later one, as long as the latest revision keeps converging and one
\* page lists what was merged.
StrandedAreRecovered ==
    []<>(conv.pc = "next" /\ conv.left = {} /\ conv.sha = tip /\ tip <= MaxListed) =>
        []<>(\A i \in Issue : merge[i] # 0 /\ mode[i] = "convergence" /\ open[i] => i \in reopened)

\* Disagrees with the code: a claim on an open issue that nobody disputes can be
\* resumed by its owner.
ClaimsCanBeResumed ==
    \A i \in Issue \ reopened : open[i] /\ Cardinality(Active(i)) = 1 => ~Contradicts(i)

IssueFairness == WF_issues(Converging)

IssueSpec == IssueInit /\ [][IssueNext]_issues /\ IssueFairness
=============================================================================
