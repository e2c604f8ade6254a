---------------------------- MODULE IssueClaims ----------------------------
(***************************************************************************)
(* How the scheduled developers claim issues: each activation takes a      *)
(* snapshot of the repository, developer_admission.py turns it into one    *)
(* decision, and the worker carries it out in separate calls to GitHub - a *)
(* branch, whose creation is atomic, then a CLAIMED comment.               *)
(*                                                                         *)
(* A branch is named by its issue, its attempt and the main revision it    *)
(* was cut from.  What the snapshot may get wrong in form (incomplete      *)
(* inventories, broken markers) ends in the same refusal as what is        *)
(* modelled and is left out.                                               *)
(***************************************************************************)
EXTENDS Naturals, FiniteSets, FiniteSetsExt

CONSTANTS
    Worker,
    MaxIssue,                \* issues 1..MaxIssue, in order of priority
    NoBranch,
    MaxTip, MaxAttempt       \* bounds: revisions of main, attempts per issue

Issue == 1..MaxIssue
Branch == [issue : Issue, attempt : 1..MaxAttempt, base : 0..MaxTip]
Channel == {"verified", "denied", "unknown"}

ASSUME ClaimsAssumption ==
    /\ IsFiniteSet(Worker) /\ NoBranch \notin Branch
    /\ MaxIssue \in Nat /\ MaxTip \in Nat /\ MaxAttempt \in Nat

VARIABLES
    tip,                     \* the current revision of main
    open,                    \* per issue: is it open?
    evidence,                \* issues with a DONE state marker
    branches, pulls,         \* branches that exist; those with commits and a PR
    claims,                  \* the claims the comments add up to
    plan                     \* per worker: the step it is at, on which branch

board == <<tip, open, evidence, branches, pulls, claims, plan>>

-----------------------------------------------------------------------------
(* reconcile.                                                              *)

Of(set, i) == {x \in set : x.issue = i}
ClaimsOf(i) == {c \in claims : c.branch.issue = i}

\* _terminal: withdrawn, or closed with a DONE marker.
Terminal(c) ==
    \/ c.state = "WITHDRAWN"
    \/ ~open[c.branch.issue] /\ (c.state = "DONE" \/ c.branch.issue \in evidence)

Active(i) == {c \in ClaimsOf(i) : c.state = "CLAIMED" /\ ~Terminal(c)}

Own(w) == {c \in claims : c.worker = w /\ c \in Active(c.branch.issue)}

\* A branch nobody claimed and no pull request uses.
Orphans(i) == Of(branches \ pulls, i) \ {c.branch : c \in claims}

\* _branch_attempts: the highest attempt of a branch or a claim.
LastAttempt(i) ==
    Max({0} \cup {b.attempt : b \in Of(branches, i)} \cup {c.branch.attempt : c \in ClaimsOf(i)})

\* The contradictions that make reconcile refuse a snapshot for every worker.
Contradicts(i) ==
    \/ Cardinality(Active(i)) > 1
    \/ \E c \in Active(i) : ~open[i] \/ c.branch \notin branches
    \/ \E c \in ClaimsOf(i) : c.state = "DONE" /\ open[i]

Candidates == {i \in Issue : open[i] /\ Active(i) = {}}

Decision(kind, b) == [kind |-> kind, branch |-> b]

\* Mutant: a developer's own claim is not looked for.
AlwaysNew(w, channel) ==
    IF (\E i \in Issue : Contradicts(i)) \/ Candidates = {} \/ channel = "denied"
    THEN Decision("NO_OP", NoBranch)
    ELSE Decision("CREATE_CLAIM", [issue |-> Min(Candidates), base |-> tip,
                                   attempt |-> LastAttempt(Min(Candidates)) + 1])

\* The decision for worker w; which eligible issues are safe side by side is the
\* operator's judgement, and all of them are here.
Reconcile(w, channel) ==
    IF (\E i \in Issue : Contradicts(i)) \/ Cardinality(Own(w)) > 1
    THEN Decision("refused", NoBranch)
    ELSE IF Own(w) # {} THEN Decision("RESUME", (CHOOSE c \in Own(w) : TRUE).branch)
    ELSE IF Candidates = {} THEN Decision("NO_OP", NoBranch)
    ELSE LET i == Min(Candidates) IN
         IF channel = "denied" \/ (channel = "unknown" /\ Orphans(i) # {})
         THEN Decision("BLOCKED", NoBranch)
         ELSE Decision("CREATE_CLAIM",
                       [issue |-> i, attempt |-> LastAttempt(i) + 1, base |-> tip])

-----------------------------------------------------------------------------
(* An activation.                                                          *)

Off == [step |-> "off", branch |-> NoBranch]
Plan(w, step) == plan' = [plan EXCEPT ![w].step = step]

\* The snapshot and the decision; the steps that follow may find it out of date.
Activate(w, channel) ==
    LET d == Reconcile(w, channel)
    IN  /\ plan[w].step = "off"
        /\ \/ d.kind = "RESUME"
              /\ plan' = [plan EXCEPT ![w] = [step |-> "work", branch |-> d.branch]]
           \/ d.kind = "CREATE_CLAIM" /\ d.branch \in Branch
              /\ plan' = [plan EXCEPT ![w] = [step |-> "create", branch |-> d.branch]]
        /\ UNCHANGED <<tip, open, evidence, branches, pulls, claims>>

\* Creating a branch fails if it exists: a lost race.
CreateBranch(w) ==
    /\ plan[w].step = "create"
    /\ IF plan[w].branch \in branches
       THEN plan' = [plan EXCEPT ![w] = Off] /\ UNCHANGED branches
       ELSE branches' = branches \cup {plan[w].branch} /\ Plan(w, "comment")
    /\ UNCHANGED <<tip, open, evidence, pulls, claims>>

Comment(w) ==
    /\ plan[w].step = "comment" /\ Plan(w, "work")
    /\ claims' = claims \cup {[branch |-> plan[w].branch, worker |-> w, state |-> "CLAIMED"]}
    /\ UNCHANGED <<tip, open, evidence, branches, pulls>>

\* Commits and the pull request.
Develop(w) ==
    /\ plan[w].step = "work" /\ plan[w].branch \in branches
    /\ pulls' = pulls \cup {plan[w].branch} /\ plan' = [plan EXCEPT ![w] = Off]
    /\ UNCHANGED <<tip, open, evidence, branches, claims>>

\* Terminal claim events: given up, or done once the issue is.
Terminate(w, c) ==
    /\ c \in claims /\ c.worker = w /\ c.state = "CLAIMED"
    /\ \E state \in {"WITHDRAWN", "DONE"} :
         /\ state = "WITHDRAWN" => plan[w] = [step |-> "work", branch |-> c.branch] /\ c.branch \notin pulls
         /\ state = "DONE" => plan[w] = Off /\ ~open[c.branch.issue] /\ c.branch.issue \in evidence
         /\ claims' = (claims \ {c}) \cup {[c EXCEPT !.state = state]}
    /\ plan' = [plan EXCEPT ![w] = Off]
    /\ UNCHANGED <<tip, open, evidence, branches, pulls>>

\* The activation is cut off; a comment that was not posted never is.
CutOff(w) ==
    /\ plan[w].step \in {"create", "comment", "work"} /\ plan' = [plan EXCEPT ![w] = Off]
    /\ UNCHANGED <<tip, open, evidence, branches, pulls, claims>>

ClaimsInit ==
    /\ tip = 0 /\ open = [i \in Issue |-> TRUE] /\ evidence = {}
    /\ branches = {} /\ pulls = {} /\ claims = {} /\ plan = [w \in Worker |-> Off]

Working(w) ==
    \/ \E channel \in Channel : Activate(w, channel)
    \/ CreateBranch(w) \/ Comment(w) \/ Develop(w) \/ CutOff(w)
    \/ \E c \in claims : Terminate(w, c)
=============================================================================
