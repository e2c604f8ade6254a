--------------------------- MODULE MCControlPlane ---------------------------
(***************************************************************************)
(* The control plane for TLC.  A pull request under its controller and the *)
(* issues with their developers share no state in these modules, so an     *)
(* instance runs one of them: its scenario says which, and within which    *)
(* bounds.                                                                 *)
(***************************************************************************)
EXTENDS PullRequestControl, IssueLifecycle

VARIABLE scenario

plane == <<pull, issues, scenario>>

\* A new pull request that is never edited; one whose attempts are used up and that gets
\* no new head; one that keeps its head and is edited until MaxAsked requests were made,
\* while its CI runs wait.
\* One developer and every revision of main; two developers and one merge; two developers
\* who may need a second attempt at an issue before anything is merged.
Pulls == {"new", "late", "edited"}
Issues == {"alone", "pair", "retry"}

First == CHOOSE w \in Worker : TRUE
Unedited == wake' => wake \/ head' # head
Within ==
    CASE scenario = "new" -> Unedited
      [] scenario = "late" -> head' = 1 /\ Unedited
      [] scenario = "edited" -> head' = 1 /\ \A c \in CIRun : run'[c] = Idle
      [] scenario = "alone" -> \A w \in Worker \ {First} : plan'[w] = Off
      [] scenario = "pair" -> tip' = Cardinality({i \in Issue : merge'[i] # 0}) /\ tip' <= 1
      [] scenario = "retry" -> tip' = 0
FirstAttempts == scenario = "retry" \/ \A b \in branches' : b.attempt = 1

MCInit ==
    /\ scenario \in Pulls \cup Issues /\ IssueInit /\ Opened(scenario \in Pulls)
    /\ IF scenario = "late" THEN queued = 1 /\ resumes[<<"NEEDS_REBASE", 1>>] = MaxRetries
       ELSE queued = 0 /\ resumes[<<"NEEDS_REBASE", 1>>] = 0
    /\ scenario # "new" => ruleset /\ adds[1] = 0
    /\ \A i \in Issue : mode[i] = "post_merge_acceptance" => i = MaxIssue /\ scenario = "alone"

MCNext ==
    /\ \/ scenario \in Pulls /\ PullNext /\ UNCHANGED issues
       \/ scenario \in Issues /\ IssueNext /\ FirstAttempts /\ UNCHANGED pull
    /\ Within /\ UNCHANGED scenario

MCSpec == MCInit /\ [][MCNext]_plane /\ PullFairness /\ IssueFairness
=============================================================================
