-------------------------- MODULE ControlPlaneProofs --------------------------
(***************************************************************************)
(* What is proved about the control plane: the controller of a pull        *)
(* request, for any number of CI runs at once, any bound on retries, and   *)
(* whatever is pushed, merged elsewhere, lost or reordered; and the claims *)
(* and the completion of issues, for any number of developers and issues.  *)
(***************************************************************************)
EXTENDS PullRequestControl, IssueLifecycle, FiniteSetTheorems, SequenceTheorems, TLAPS

Keys == Reason \X Heads

Points == {"idle", "fetch", "settle", "post", "update", "check", "merge", "converge", "count",
           "resume", "dispatch", "blocker", "open", "note", "testing", "refused"}

Rec == [pc : Points, cause : {"none", "failure", "success"}, tested : Heads \cup {NoHead},
        head : Heads \cup {NoHead}, reason : Reason \cup {"none"}, state : State \cup {"none"},
        next : {"idle", "update", "check", "merge", "count", "converge"}]

\* Points at which a run has read the pull request, and those of a retry.
Aware == {"post", "update", "check", "merge", "count", "resume", "dispatch", "blocker", "open", "note"}
Retrying == {"count", "resume", "dispatch", "blocker", "open", "note"}

\* What a run knows at each point.
Sound(rec) ==
    /\ rec \in Rec
    /\ rec.pc \in Aware => rec.head \in Heads
    /\ rec.pc \in Retrying => rec.reason \in Reason
    /\ rec.pc \in {"testing", "refused"} => rec.tested \in Heads
    /\ rec.cause = "success" => rec.tested \in Heads /\ passed[rec.tested]
    /\ rec.pc = "settle" => rec.cause = "success"
    /\ rec.pc = "merge" => passed[rec.head]
    /\ rec.pc = "note" => blockers[<<rec.reason, rec.head>>] > 0
    /\ rec.pc = "post" =>
          /\ rec.next = "count" => rec.reason \in Reason
          /\ rec.next = "merge" => passed[rec.head]
          /\ rec.state = "BLOCKED" => rec.reason \in Reason /\ blockers[<<rec.reason, rec.head>>] > 0

\* The runs about to post a resume for a reason and head, and to send its event.
Posting(k) == {r \in Runner : At(r, "resume") /\ Key(r) = k}
Sending(k) == {r \in Runner : At(r, "dispatch") /\ Key(r) = k}

TypeOK ==
    /\ head \in Heads /\ merged \in Heads \cup {NoHead}
    /\ passed \in [Heads -> BOOLEAN] /\ run \in [Runner -> Rec]
    /\ resumes \in [Keys -> Nat] /\ sent \in [Keys -> Nat] /\ blockers \in [Keys -> Nat]
    /\ notes \in [Keys -> BOOLEAN] /\ seen \in [Keys -> Nat] /\ full \in BOOLEAN

Blocked == \E k \in Keys : blockers[k] > 0

\* Until the page is full, what request_resume reads is what was posted.
Counted == ~full => seen = resumes

\* The attempts it reads, with those that will be posted, and the events sent, with those
\* that will be.
WithinBudget(k) == seen[k] + Cardinality(Posting(k)) <= MaxRetries + Cardinality(Runner) - 1
NoMoreSent(k) == sent[k] + Cardinality(Sending(k)) <= resumes[k]

\* The inductive invariant.
Inv ==
    /\ TypeOK
    /\ \A r \in Runner : Sound(run[r])
    /\ MergedIsTested
    /\ \A k \in Keys : notes[k] => blockers[k] > 0
    /\ label => Blocked
    /\ Counted
    /\ \A k \in Keys : WithinBudget(k) /\ NoMoreSent(k)

-----------------------------------------------------------------------------
(* The forms a run takes.                                                  *)

LEMMA IdleForm == Sound(Idle) /\ Idle.pc = "idle"
BY DEF Sound, Idle, Doing, Rec, Points, Aware, Retrying, State

LEMMA MoveForm ==
    ASSUME NEW rec \in Rec, NEW p \in Points
    PROVE  /\ [rec EXCEPT !.pc = p] \in Rec /\ [rec EXCEPT !.pc = p].pc = p
           /\ [rec EXCEPT !.pc = p].cause = rec.cause /\ [rec EXCEPT !.pc = p].tested = rec.tested
           /\ [rec EXCEPT !.pc = p].head = rec.head /\ [rec EXCEPT !.pc = p].reason = rec.reason
           /\ [rec EXCEPT !.pc = p].state = rec.state /\ [rec EXCEPT !.pc = p].next = rec.next
BY DEF Rec

LEMMA AskForm ==
    ASSUME NEW rec, rec.head \in Heads, NEW reason \in Reason
    PROVE  Sound(Ask(rec, reason)) /\ Ask(rec, reason).pc = "count"
<1>1. Ask(rec, reason) = [pc |-> "count", cause |-> "none", tested |-> NoHead, head |-> rec.head,
                         reason |-> reason, state |-> "none", next |-> "idle"]
  BY DEF Ask, Doing
<1> QED
  BY <1>1 DEF Sound, Rec, Points, Aware, Retrying

LEMMA PostForm ==
    ASSUME NEW rec, rec.head \in Heads, rec.reason \in Reason \cup {"none"}, NEW state \in State,
           NEW next \in {"idle", "update", "check", "merge", "count", "converge"},
           next = "count" => rec.reason \in Reason,
           next = "merge" => passed[rec.head],
           state = "BLOCKED" => rec.reason \in Reason /\ blockers[<<rec.reason, rec.head>>] > 0
    PROVE  Sound(Post(rec, state, next)) /\ Post(rec, state, next).pc = "post"
<1>1. Post(rec, state, next) = [pc |-> "post", cause |-> "none", tested |-> NoHead, head |-> rec.head,
                               reason |-> rec.reason, state |-> state, next |-> next]
  BY DEF Post, Doing
<1> QED
  BY <1>1 DEF Sound, Rec, Points, Aware, Retrying

LEMMA TestForm ==
    ASSUME NEW h \in Heads, NEW p \in {"testing", "refused", "fetch"}, NEW cause \in {"none", "failure", "success"},
           cause = "success" => passed[h]
    PROVE  Sound(OnTest(p, h, cause)) /\ OnTest(p, h, cause).pc = p
<1>1. OnTest(p, h, cause) = [pc |-> p, cause |-> cause, tested |-> h, head |-> NoHead,
                            reason |-> "none", state |-> "none", next |-> "idle"]
  BY DEF OnTest
<1> QED
  BY <1>1 DEF Sound, Rec, Points, Aware, Retrying

-----------------------------------------------------------------------------
(* The budgets.                                                            *)

\* The runners are finitely many, and there is one at least.
LEMMA Runners == ASSUME ControlAssumption PROVE IsFiniteSet(Runner) /\ Cardinality(Runner) \in Nat \ {0}
<1>1. IsFiniteSet(CIRun \cup {Inspector}) /\ Cardinality(CIRun) \in Nat
      /\ Cardinality(CIRun \cup {Inspector}) = Cardinality(CIRun) + 1
  BY FS_AddElement, FS_CardinalityType DEF ControlAssumption
<1> QED
  BY <1>1 DEF Runner

LEMMA SomeRunners ==
    ASSUME ControlAssumption, NEW k
    PROVE  /\ IsFiniteSet(Posting(k)) /\ Cardinality(Posting(k)) \in Nat
           /\ Cardinality(Posting(k)) <= Cardinality(Runner)
           /\ IsFiniteSet(Sending(k)) /\ Cardinality(Sending(k)) \in Nat
<1>1. Posting(k) \subseteq Runner /\ Sending(k) \subseteq Runner
  BY DEF Posting, Sending
<1> QED
  BY <1>1, Runners, FS_Subset, FS_CardinalityType

\* A run that is not about to post or to send takes nobody's place.
LEMMA BudgetKept ==
    ASSUME ControlAssumption, Inv, NEW r \in Runner, NEW rec, Goto(r, rec), NEW k \in Keys,
           resumes'[k] = resumes[k], sent'[k] = sent[k], seen'[k] = seen[k],
           rec.pc \notin {"resume", "dispatch"} \/ k # <<rec.reason, rec.head>>
    PROVE  WithinBudget(k)' /\ NoMoreSent(k)'
<1>1. \A q \in Runner : run'[q] = IF q = r THEN rec ELSE run[q]
  BY DEF Goto, Inv, TypeOK
<1>2. Posting(k)' \subseteq Posting(k) /\ Sending(k)' \subseteq Sending(k)
  BY <1>1 DEF Posting, Sending, At, Key
<1>3. /\ Cardinality(Posting(k)') <= Cardinality(Posting(k)) /\ Cardinality(Posting(k)') \in Nat
      /\ Cardinality(Sending(k)') <= Cardinality(Sending(k)) /\ Cardinality(Sending(k)') \in Nat
      /\ Cardinality(Posting(k)) \in Nat /\ Cardinality(Sending(k)) \in Nat
  BY <1>2, SomeRunners, FS_Subset, FS_CardinalityType
<1>4. WithinBudget(k) /\ NoMoreSent(k) /\ resumes[k] \in Nat /\ sent[k] \in Nat /\ seen[k] \in Nat
  BY DEF Inv, TypeOK
<1> QED
  BY <1>3, <1>4, Runners DEF WithinBudget, NoMoreSent, ControlAssumption

\* A run that read fewer attempts than the limit is one more that will post.
LEMMA BudgetTaken ==
    ASSUME ControlAssumption, Inv, NEW r \in Runner, NEW rec, Goto(r, rec), NEW k \in Keys,
           resumes' = resumes, sent' = sent, seen' = seen, rec.pc = "resume", seen[k] < MaxRetries
    PROVE  WithinBudget(k)' /\ NoMoreSent(k)'
<1>1. \A q \in Runner : run'[q] = IF q = r THEN rec ELSE run[q]
  BY DEF Goto, Inv, TypeOK
<1>2. Posting(k)' \subseteq Runner /\ Sending(k)' \subseteq Sending(k)
  BY <1>1 DEF Posting, Sending, At, Key
<1>3. /\ Cardinality(Posting(k)') <= Cardinality(Runner) /\ Cardinality(Posting(k)') \in Nat
      /\ Cardinality(Sending(k)') <= Cardinality(Sending(k)) /\ Cardinality(Sending(k)') \in Nat
      /\ Cardinality(Sending(k)) \in Nat
  BY <1>2, Runners, SomeRunners, FS_Subset, FS_CardinalityType
<1>4. NoMoreSent(k) /\ resumes[k] \in Nat /\ sent[k] \in Nat /\ seen[k] \in Nat
  BY DEF Inv, TypeOK
<1> QED
  BY <1>3, <1>4, Runners DEF WithinBudget, NoMoreSent, ControlAssumption

-----------------------------------------------------------------------------
\* What is passed stays passed and what is blocked stays blocked, so what was sound is.
LEMMA SoundKept ==
    ASSUME NEW rec, Sound(rec),
           \A h \in Heads : passed[h] => passed'[h],
           \A k \in Keys : blockers[k] > 0 => blockers'[k] > 0
    PROVE  Sound(rec)'
<1>1. rec.pc \in Aware => rec.head \in Heads
  BY DEF Sound
<1>2. rec.pc = "merge" => passed'[rec.head]
  BY <1>1 DEF Sound, Aware
<1>3. rec.cause = "success" => rec.tested \in Heads /\ passed'[rec.tested]
  BY DEF Sound
<1>4. rec.pc = "note" => blockers'[<<rec.reason, rec.head>>] > 0
  BY <1>1 DEF Sound, Aware, Retrying, Keys
<1>5. rec.pc = "post" /\ rec.next = "merge" => passed'[rec.head]
  BY <1>1 DEF Sound, Aware
<1>6. rec.pc = "post" /\ rec.state = "BLOCKED" => blockers'[<<rec.reason, rec.head>>] > 0
  BY <1>1 DEF Sound, Aware, Keys
<1> QED
  BY <1>1, <1>2, <1>3, <1>4, <1>5, <1>6 DEF Sound

\* What is passed stays passed, what is blocked stays blocked, and the others know
\* what they knew.
LEMMA RunStep ==
    ASSUME ControlAssumption, Inv, NEW r \in Runner, NEW rec, Goto(r, rec), Sound(rec)',
           TypeOK',
           \A h \in Heads : passed[h] => passed'[h],
           \A k \in Keys : blockers[k] > 0 => blockers'[k] > 0,
           MergedIsTested', Counted', \A k \in Keys : notes'[k] => blockers'[k] > 0, label' => Blocked',
           \A k \in Keys : WithinBudget(k)' /\ NoMoreSent(k)'
    PROVE  Inv'
<1>1. ASSUME NEW q \in Runner PROVE Sound(run[q])'
  <2>1. run'[q] = IF q = r THEN rec ELSE run[q]
    BY DEF Goto, Inv, TypeOK
  <2>2. CASE q = r
    <3>1. run'[q] = rec
      BY <2>1, <2>2
    <3> QED
      BY <3>1, Sound(rec)' DEF Sound
  <2>3. CASE q # r
    <3>1. Sound(run[q]) /\ run'[q] = run[q]
      BY <2>1, <2>3 DEF Inv
    <3>2. \A x : Sound(x) => Sound(x)'
      BY SoundKept
    <3> QED
      BY <3>1, <3>2
  <2> QED
    BY <2>2, <2>3
<1> QED
  BY <1>1 DEF Inv

\* A step of a run that changes neither the checks of a head nor a counter.
LEMMA QuietStep ==
    ASSUME ControlAssumption, Inv, NEW r \in Runner, NEW rec, Goto(r, rec), Sound(rec),
           rec.pc \notin {"resume", "dispatch"},
           UNCHANGED <<merged, passed, resumes, sent, full, seen, blockers, notes>>, head' \in Heads,
           label' => label \/ Blocked
    PROVE  Inv'
<1>1. Sound(rec)'
  BY DEF Sound
<1>2. TypeOK'
  BY DEF Inv, TypeOK, Goto, Sound
<1>3. MergedIsTested' /\ Counted' /\ (label' => Blocked') /\ (\A k \in Keys : notes'[k] => blockers'[k] > 0)
  BY DEF Inv, MergedIsTested, Counted, Blocked
<1>4. \A k \in Keys : WithinBudget(k)' /\ NoMoreSent(k)'
  BY BudgetKept
<1> QED
  BY <1>1, <1>2, <1>3, <1>4, RunStep

\* A step of somebody else, that no run notices yet.
LEMMA OutsideStep ==
    ASSUME Inv, UNCHANGED <<run, merged, passed, resumes, sent, seen, blockers, notes, label>>, head' \in Heads,
           full' \in {full, TRUE}
    PROVE  Inv'
<1>1. (full => full') /\ full' \in BOOLEAN
  BY DEF Inv, TypeOK
<1>2. TypeOK' /\ MergedIsTested' /\ (\A k \in Keys : notes'[k] => blockers'[k] > 0)
  BY <1>1 DEF Inv, TypeOK, MergedIsTested
<1>3. Counted'
  BY <1>1 DEF Inv, Counted
<1>4. (label' => Blocked') /\ (\A k \in Keys : WithinBudget(k)' /\ NoMoreSent(k)')
  BY DEF Inv, Blocked, WithinBudget, NoMoreSent, Posting, Sending, At, Key
<1>5. \A r \in Runner : Sound(run[r])'
  BY SoundKept DEF Inv
<1> QED
  BY <1>2, <1>4, <1>5, <1>3 DEF Inv

-----------------------------------------------------------------------------
(* Each action keeps the invariant: the controller.                        *)

LEMMA HeadForm ==
    ASSUME NEW rec \in Rec, NEW h \in Heads
    PROVE  /\ [rec EXCEPT !.head = h] \in Rec /\ [rec EXCEPT !.head = h].pc = rec.pc
           /\ [rec EXCEPT !.head = h].cause = rec.cause /\ [rec EXCEPT !.head = h].tested = rec.tested
           /\ [rec EXCEPT !.head = h].head = h
BY DEF Rec

\* A run keeps what it knows when it moves to a point that asks for no more.
LEMMA MoveSound ==
    ASSUME NEW rec, Sound(rec), NEW p \in Points \ {"post", "merge", "testing", "refused"},
           p = "settle" => rec.cause = "success",
           p \in Aware => rec.head \in Heads, p \in Retrying => rec.reason \in Reason,
           p = "note" => blockers[<<rec.reason, rec.head>>] > 0
    PROVE  Sound([rec EXCEPT !.pc = p]) /\ [rec EXCEPT !.pc = p].pc = p
<1>1. rec \in Rec /\ (rec.cause = "success" => rec.tested \in Heads /\ passed[rec.tested])
  BY DEF Sound
<1> DEFINE x == [rec EXCEPT !.pc = p]
<1>2. x \in Rec /\ x.pc = p /\ x.cause = rec.cause /\ x.tested = rec.tested /\ x.head = rec.head
      /\ x.reason = rec.reason /\ x.state = rec.state /\ x.next = rec.next
  BY <1>1, MoveForm
<1> HIDE DEF x
<1>3. Sound(x)
  BY <1>1, <1>2 DEF Sound
<1> QED
  BY <1>2, <1>3 DEF x

\* The branches of handle_lifecycle: only a success for the head read leads to a merge.
LEMMA DecideForm ==
    ASSUME NEW rec \in Rec, rec.head \in Heads, NEW view,
           rec.cause = "success" => rec.tested \in Heads /\ passed[rec.tested]
    PROVE  Sound(Decide(rec, view)) /\ Decide(rec, view).pc \notin {"resume", "dispatch"}
<1> DEFINE d == Decide(rec, view)
<1>0. rec.reason \in Reason \cup {"none"} /\ rec.cause \in {"none", "failure", "success"}
  BY DEF Rec
<1>1. CASE \E reason \in Reason : d = Ask(rec, reason)
  BY <1>1, AskForm
<1>2. CASE d = Post(rec, "NEEDS_REBASE", "update") \/ d = Post(rec, "CI_VALIDATING", "check")
  BY <1>2, <1>0, PostForm DEF State
<1>3. CASE d = [rec EXCEPT !.pc = "settle"] /\ rec.cause = "success"
  <2>1. Sound([rec EXCEPT !.pc = "settle"]) /\ [rec EXCEPT !.pc = "settle"].pc = "settle"
    <3> DEFINE x == [rec EXCEPT !.pc = "settle"]
    <3>1. "settle" \in Points
      BY DEF Points
    <3>2. x \in Rec /\ x.pc = "settle" /\ x.cause = rec.cause /\ x.tested = rec.tested
      BY <3>1, MoveForm
    <3> HIDE DEF x
    <3>3. Sound(x)
      BY <3>2, <1>3 DEF Sound, Aware, Retrying
    <3> QED
      BY <3>2, <3>3 DEF x
  <2> QED
    BY <1>3, <2>1
<1>4. CASE d = Post(rec, "READY_FOR_MERGE", "merge") /\ rec.cause = "success" /\ rec.tested = rec.head
  BY <1>4, <1>0, PostForm DEF State
<1>5. CASE d = Idle
  BY <1>5, IdleForm
<1>6. \/ \E reason \in Reason : d = Ask(rec, reason)
      \/ d = Post(rec, "NEEDS_REBASE", "update") \/ d = Post(rec, "CI_VALIDATING", "check")
      \/ d = [rec EXCEPT !.pc = "settle"] /\ rec.cause = "success"
      \/ d = Post(rec, "READY_FOR_MERGE", "merge") /\ rec.cause = "success" /\ rec.tested = rec.head
      \/ d = Idle
  BY <1>0 DEF Decide, Reason
<1> QED
  BY <1>1, <1>2, <1>3, <1>4, <1>5, <1>6

LEMMA FetchInv == ASSUME ControlAssumption, Inv, NEW r \in Runner, Fetch(r) PROVE Inv'
<1>1. PICK view \in Views : Goto(r, Decide([run[r] EXCEPT !.head = head], view))
  BY DEF Fetch
<1>2. Sound(run[r]) /\ head \in Heads
  BY DEF Inv, TypeOK
<1>3. /\ [run[r] EXCEPT !.head = head] \in Rec
      /\ [run[r] EXCEPT !.head = head].head \in Heads
      /\ [run[r] EXCEPT !.head = head].cause = "success" =>
            /\ [run[r] EXCEPT !.head = head].tested \in Heads
            /\ passed[[run[r] EXCEPT !.head = head].tested]
  BY <1>2, HeadForm DEF Sound
<1>4. /\ Sound(Decide([run[r] EXCEPT !.head = head], view))
      /\ Decide([run[r] EXCEPT !.head = head], view).pc \notin {"resume", "dispatch"}
  BY <1>3, DecideForm
<1>5. UNCHANGED <<merged, passed, resumes, sent, full, seen, blockers, notes>> /\ head' \in Heads /\ (label' => label)
  BY <1>2 DEF Fetch, Github, Checks, Thread
<1> QED
  BY <1>1, <1>4, <1>5, QuietStep

LEMMA SettleInv == ASSUME ControlAssumption, Inv, NEW r \in Runner, Settle(r) PROVE Inv'
<1> DEFINE rec == [run[r] EXCEPT !.head = head]
<1>1. PICK view \in Views :
         Goto(r, IF rec.tested # head THEN Ask(rec, "NEEDS_REBASE")
                 ELSE IF view = "blocked" THEN Doing("post", head, "CHECKS_OUTDATED", "CHECKS_OUTDATED", "count")
                 ELSE IF view = "clean" THEN Post(rec, "READY_FOR_MERGE", "merge") ELSE Idle)
  BY DEF Settle
<1>2. Sound(run[r]) /\ head \in Heads
  BY DEF Inv, TypeOK
<1>3. rec \in Rec /\ rec.head = head /\ rec.tested = run[r].tested
  BY <1>2, HeadForm DEF Sound
<1>4. run[r].tested \in Heads /\ passed[run[r].tested] /\ rec.reason \in Reason \cup {"none"}
  BY <1>2, <1>3 DEF Settle, At, Sound, Rec
<1> HIDE DEF rec
<1>5. UNCHANGED <<merged, passed, resumes, sent, full, seen, blockers, notes>> /\ head' \in Heads /\ (label' => label)
  BY <1>2 DEF Settle, Github, Checks, Thread
<1>6. CASE Goto(r, Ask(rec, "NEEDS_REBASE"))
  <2>1. Sound(Ask(rec, "NEEDS_REBASE")) /\ Ask(rec, "NEEDS_REBASE").pc = "count"
    BY <1>2, <1>3, AskForm DEF Reason
  <2> QED
    BY <1>5, <1>6, <2>1, QuietStep
<1>7. CASE Goto(r, Doing("post", head, "CHECKS_OUTDATED", "CHECKS_OUTDATED", "count"))
  <2>1. /\ Sound(Doing("post", head, "CHECKS_OUTDATED", "CHECKS_OUTDATED", "count"))
        /\ Doing("post", head, "CHECKS_OUTDATED", "CHECKS_OUTDATED", "count").pc = "post"
    BY <1>2 DEF Doing, Sound, Rec, Points, Aware, Retrying, State, Reason
  <2> QED
    BY <1>5, <1>7, <2>1, QuietStep
<1>8. CASE Goto(r, Post(rec, "READY_FOR_MERGE", "merge")) /\ rec.tested = head
  <2>1. Sound(Post(rec, "READY_FOR_MERGE", "merge")) /\ Post(rec, "READY_FOR_MERGE", "merge").pc = "post"
    BY <1>2, <1>3, <1>4, <1>8, PostForm DEF State
  <2> QED
    BY <1>5, <1>8, <2>1, QuietStep
<1>9. CASE Goto(r, Idle)
  BY <1>5, <1>9, IdleForm, QuietStep
<1> QED
  BY <1>1, <1>6, <1>7, <1>8, <1>9

LEMMA PostStateInv == ASSUME ControlAssumption, Inv, NEW r \in Runner, PostState(r) PROVE Inv'
<1> DEFINE d == Doing(run[r].next, run[r].head, run[r].reason, "none", "idle")
<1>1. Sound(run[r]) /\ run[r].pc = "post" /\ head \in Heads
  BY DEF Inv, TypeOK, PostState, At
<1>2. UNCHANGED <<merged, passed, resumes, sent, full, seen, blockers, notes>> /\ head' \in Heads
  BY <1>1 DEF PostState, Github, Checks
<1>3. label' => Blocked
  <2>1. run[r].state = "BLOCKED" => <<run[r].reason, run[r].head>> \in Keys /\ blockers[<<run[r].reason, run[r].head>>] > 0
    BY <1>1 DEF Sound, Keys, Aware
  <2> QED
    BY <2>1 DEF PostState, Blocked
<1>4. CASE run[r].next = "idle"
  <2>1. Goto(r, Idle)
    BY <1>4 DEF PostState
  <2> QED
    BY <1>2, <1>3, <2>1, IdleForm, QuietStep
<1>5. CASE run[r].next # "idle"
  <2>1. Goto(r, d)
    BY <1>5 DEF PostState
  <2>2. d = [pc |-> run[r].next, cause |-> "none", tested |-> NoHead, head |-> run[r].head,
             reason |-> run[r].reason, state |-> "none", next |-> "idle"]
    BY DEF Doing
  <2>3. run[r].next \in {"update", "check", "merge", "count", "converge"} /\ run[r].head \in Heads
        /\ run[r].reason \in Reason \cup {"none"}
        /\ (run[r].next = "count" => run[r].reason \in Reason) /\ (run[r].next = "merge" => passed[run[r].head])
    BY <1>1, <1>5 DEF Sound, Rec, Aware
  <2> HIDE DEF d
  <2>4. Sound(d) /\ d.pc \notin {"resume", "dispatch"}
    BY <2>2, <2>3 DEF Sound, Rec, Points, Aware, Retrying
  <2> QED
    BY <1>2, <1>3, <2>1, <2>4, QuietStep
<1> QED
  BY <1>4, <1>5

LEMMA UpdateInv == ASSUME ControlAssumption, Inv, NEW r \in Runner, UpdateBranch(r) PROVE Inv'
<1>1. Sound(run[r]) /\ run[r].pc = "update" /\ head \in Heads
  BY DEF Inv, TypeOK, UpdateBranch, At
<1>2. run[r].head \in Heads
  BY <1>1 DEF Sound, Aware
<1>3. UNCHANGED <<merged, passed, resumes, sent, full, seen, blockers, notes>> /\ head' \in Heads /\ (label' => label)
  BY <1>1 DEF UpdateBranch, Github, Checks, Thread, Heads
<1>4. CASE Goto(r, Ask(run[r], "NEEDS_REBASE"))
  <2>1. Sound(Ask(run[r], "NEEDS_REBASE")) /\ Ask(run[r], "NEEDS_REBASE").pc = "count"
    BY <1>2, AskForm DEF Reason
  <2> QED
    BY <1>3, <1>4, <2>1, QuietStep
<1>5. CASE Goto(r, Doing("check", run[r].head, "NEEDS_REBASE", "none", "idle"))
  <2>1. /\ Sound(Doing("check", run[r].head, "NEEDS_REBASE", "none", "idle"))
        /\ Doing("check", run[r].head, "NEEDS_REBASE", "none", "idle").pc = "check"
    BY <1>2 DEF Doing, Sound, Rec, Points, Aware, Retrying, State, Reason
  <2> QED
    BY <1>3, <1>5, <2>1, QuietStep
<1> QED
  BY <1>4, <1>5 DEF UpdateBranch

LEMMA DispatchCIInv == ASSUME ControlAssumption, Inv, NEW r \in Runner, DispatchCI(r) PROVE Inv'
<1>1. Sound(run[r]) /\ run[r].pc = "check" /\ head \in Heads
  BY DEF Inv, TypeOK, DispatchCI, At
<1>2. UNCHANGED <<merged, passed, resumes, sent, full, seen, blockers, notes>> /\ head' \in Heads /\ (label' => label)
  BY <1>1 DEF DispatchCI, Github, Thread
<1>3. CASE run[r].reason = "none"
  <2>1. Goto(r, Idle)
    BY <1>3 DEF DispatchCI
  <2> QED
    BY <1>2, <2>1, IdleForm, QuietStep
<1>4. CASE run[r].reason # "none"
  <2>1. Goto(r, [run[r] EXCEPT !.pc = "count"])
    BY <1>4 DEF DispatchCI
  <2>2. run[r].head \in Heads /\ run[r].reason \in Reason
    BY <1>1, <1>4 DEF Sound, Aware, Rec
  <2>3. Sound([run[r] EXCEPT !.pc = "count"]) /\ [run[r] EXCEPT !.pc = "count"].pc = "count"
    BY <1>1, <2>2, MoveSound DEF Points
  <2> QED
    BY <1>2, <2>1, <2>3, QuietStep
<1> QED
  BY <1>3, <1>4

LEMMA MergeInv == ASSUME ControlAssumption, Inv, NEW r \in Runner, Merge(r) PROVE Inv'
<1>1. Sound(run[r]) /\ run[r].pc = "merge" /\ TypeOK
  BY DEF Inv, Merge, At
<1>2. run[r].head \in Heads /\ passed[run[r].head] /\ run[r].reason \in Reason \cup {"none"}
  BY <1>1 DEF Sound, Aware, Rec
<1>3. UNCHANGED <<head, passed, resumes, sent, full, seen, blockers, notes, label>>
  BY DEF Merge, Github, Checks, Thread
<1>4. CASE /\ Accepts(run[r].head) /\ merged' = head
           /\ Goto(r, Post(run[r], "MERGED", "converge"))
  <2>1. PICK rec : rec = Post(run[r], "MERGED", "converge")
    OBVIOUS
  <2>2. Sound(rec) /\ rec.pc = "post"
    BY <1>2, <2>1, PostForm DEF State
  <2>3. Goto(r, rec) /\ merged' = run[r].head
    BY <1>4, <2>1 DEF Accepts
  <2>4. Sound(rec)'
    BY <1>3, <2>2, SoundKept
  <2>5. TypeOK' /\ MergedIsTested'
    BY <1>1, <1>2, <1>3, <2>2, <2>3 DEF TypeOK, MergedIsTested, Goto, Sound
  <2>6. (\A k \in Keys : notes'[k] => blockers'[k] > 0) /\ Counted' /\ (label' => Blocked')
    BY <1>3 DEF Inv, Counted, Blocked
  <2>7. \A k \in Keys : WithinBudget(k)' /\ NoMoreSent(k)'
    BY <1>3, <2>2, <2>3, BudgetKept
  <2> QED
    BY <1>3, <2>3, <2>4, <2>5, <2>6, <2>7, RunStep
<1>5. CASE merged' = merged /\ Goto(r, Idle)
  BY <1>1, <1>3, <1>5, IdleForm, QuietStep DEF TypeOK
<1>6. CASE merged' = merged /\ Goto(r, Ask(run[r], "NEEDS_REBASE"))
  <2>1. Sound(Ask(run[r], "NEEDS_REBASE")) /\ Ask(run[r], "NEEDS_REBASE").pc = "count"
    BY <1>2, AskForm DEF Reason
  <2> QED
    BY <1>1, <1>3, <1>6, <2>1, QuietStep DEF TypeOK
<1> QED
  BY <1>4, <1>5, <1>6 DEF Merge, Github

LEMMA ConvergeInv == ASSUME ControlAssumption, Inv, NEW r \in Runner, Converge(r) PROVE Inv'
<1>1. /\ UNCHANGED <<merged, passed, resumes, sent, full, seen, blockers, notes>>
      /\ head' \in Heads /\ (label' => label) /\ Goto(r, Idle)
  BY DEF Converge, Github, Checks, Thread, Inv, TypeOK
<1> QED
  BY <1>1, IdleForm, QuietStep

-----------------------------------------------------------------------------
(* The controller's retries and blockers.                                  *)

\* A run that asks for a resume knows the reason and the head it asks for.
LEMMA KeyForm ==
    ASSUME Inv, NEW r \in Runner, run[r].pc \in Retrying
    PROVE  /\ Sound(run[r]) /\ run[r].head \in Heads /\ run[r].reason \in Reason
           /\ Key(r) \in Keys /\ Key(r) = <<run[r].reason, run[r].head>>
<1>1. Sound(run[r])
  BY DEF Inv
<1>2. run[r].head \in Heads /\ run[r].reason \in Reason
  BY <1>1 DEF Sound, Retrying, Aware
<1> QED
  BY <1>1, <1>2 DEF Key, Keys

LEMMA CountInv == ASSUME ControlAssumption, Inv, NEW r \in Runner, Count(r) PROVE Inv'
<1>1. run[r].pc \in Retrying /\ TypeOK
  BY DEF Count, At, Retrying, Inv
<1>2. /\ Sound(run[r]) /\ run[r].head \in Heads /\ run[r].reason \in Reason
      /\ Key(r) \in Keys /\ Key(r) = <<run[r].reason, run[r].head>>
  BY <1>1, KeyForm
<1>3. UNCHANGED <<head, merged, passed, resumes, sent, full, seen, blockers, notes, label>>
  BY DEF Count, Github, Checks, Thread
<1>4. CASE seen[Key(r)] < MaxRetries
  <2>1. PICK rec : rec = [run[r] EXCEPT !.pc = "resume"]
    OBVIOUS
  <2>2. Goto(r, rec)
    BY <1>4, <2>1 DEF Count, Move
  <2>3. Sound(rec) /\ rec.pc = "resume"
    BY <1>2, <2>1, MoveSound DEF Points
  <2>4. rec.reason = run[r].reason /\ rec.head = run[r].head
    BY <2>1
  <2>5. Sound(rec)'
    BY <1>3, <2>3, SoundKept
  <2>6. TypeOK' /\ MergedIsTested'
    BY <1>1, <1>3, <2>2, <2>3 DEF TypeOK, MergedIsTested, Goto, Sound, Inv
  <2>7. (\A k \in Keys : notes'[k] => blockers'[k] > 0) /\ Counted' /\ (label' => Blocked')
    BY <1>3 DEF Inv, Counted, Blocked
  <2>8. ASSUME NEW k \in Keys PROVE WithinBudget(k)' /\ NoMoreSent(k)'
    <3>1. CASE k = Key(r)
      BY <1>3, <1>4, <2>2, <2>3, <3>1, BudgetTaken
    <3>2. CASE k # Key(r)
      BY <1>2, <1>3, <2>2, <2>4, <3>2, BudgetKept
    <3> QED
      BY <3>1, <3>2
  <2> QED
    BY <1>3, <2>2, <2>5, <2>6, <2>7, <2>8, RunStep
<1>5. CASE ~(seen[Key(r)] < MaxRetries)
  <2>1. Goto(r, [run[r] EXCEPT !.pc = "blocker"])
    BY <1>5 DEF Count, Move
  <2>2. Sound([run[r] EXCEPT !.pc = "blocker"]) /\ [run[r] EXCEPT !.pc = "blocker"].pc = "blocker"
    BY <1>2, MoveSound DEF Points
  <2> QED
    BY <1>1, <1>3, <2>1, <2>2, QuietStep DEF TypeOK
<1> QED
  BY <1>4, <1>5

LEMMA PostResumeInv == ASSUME ControlAssumption, Inv, NEW r \in Runner, PostResume(r) PROVE Inv'
<1>1. run[r].pc = "resume" /\ run[r].pc \in Retrying /\ TypeOK
  BY DEF PostResume, At, Retrying, Inv
<1>2. /\ Sound(run[r]) /\ run[r].head \in Heads /\ run[r].reason \in Reason
      /\ Key(r) \in Keys /\ Key(r) = <<run[r].reason, run[r].head>>
  BY <1>1, KeyForm
<1>3. UNCHANGED <<head, merged, passed, sent, full, blockers, notes, label>>
      /\ resumes' = [resumes EXCEPT ![Key(r)] = @ + 1]
      /\ seen' = IF full THEN seen ELSE [seen EXCEPT ![Key(r)] = @ + 1]
  BY DEF PostResume, Github, Checks
<1>4. PICK rec : rec = [run[r] EXCEPT !.pc = "dispatch"]
  OBVIOUS
<1>5. Goto(r, rec)
  BY <1>4 DEF PostResume, Move
<1>6. Sound(rec) /\ rec.pc = "dispatch"
  BY <1>2, <1>4, MoveSound DEF Points
<1>7. rec.reason = run[r].reason /\ rec.head = run[r].head
  BY <1>4
<1>8. Sound(rec)'
  BY <1>3, <1>6, SoundKept
<1>9. TypeOK' /\ MergedIsTested'
  BY <1>1, <1>2, <1>3, <1>5, <1>6 DEF TypeOK, MergedIsTested, Goto, Sound, Inv
<1>10. (\A k \in Keys : notes'[k] => blockers'[k] > 0) /\ Counted' /\ (label' => Blocked')
  BY <1>3 DEF Inv, Counted, Blocked
<1>11. ASSUME NEW k \in Keys PROVE WithinBudget(k)' /\ NoMoreSent(k)'
  <2>1. CASE k # Key(r)
    <3>1. resumes'[k] = resumes[k] /\ seen'[k] = seen[k]
      BY <1>1, <1>2, <1>3, <2>1 DEF TypeOK
    <3> QED
      BY <1>2, <1>3, <1>5, <1>7, <2>1, <3>1, BudgetKept
  <2>2. CASE k = Key(r)
    <3>1. \A q \in Runner : run'[q] = IF q = r THEN rec ELSE run[q]
      BY <1>1, <1>5 DEF Goto, TypeOK
    <3>2. r \in Posting(k) /\ Posting(k)' = Posting(k) \ {r}
      BY <1>1, <1>6, <2>2, <3>1 DEF Posting, At, Key
    <3>3. r \notin Sending(k) /\ Sending(k)' = Sending(k) \cup {r}
      BY <1>1, <1>2, <1>6, <1>7, <2>2, <3>1 DEF Sending, At, Key
    <3>4. /\ Cardinality(Posting(k)') = Cardinality(Posting(k)) - 1
          /\ Cardinality(Sending(k)') = Cardinality(Sending(k)) + 1
      <4>1. IsFiniteSet(Posting(k)) /\ IsFiniteSet(Sending(k))
        BY SomeRunners
      <4>2. Cardinality(Posting(k) \ {r}) = Cardinality(Posting(k)) - 1
        BY <3>2, <4>1, FS_RemoveElement
      <4>3. Cardinality(Sending(k) \cup {r}) = Cardinality(Sending(k)) + 1
        BY <3>3, <4>1, FS_AddElement
      <4> QED
        BY <3>2, <3>3, <4>2, <4>3
    <3>5. /\ resumes'[k] = resumes[k] + 1 /\ resumes[k] \in Nat /\ sent[k] \in Nat
          /\ seen'[k] \in {seen[k], seen[k] + 1} /\ seen[k] \in Nat
      BY <1>1, <1>2, <1>3, <2>2 DEF TypeOK
    <3>6. WithinBudget(k) /\ NoMoreSent(k)
      BY DEF Inv
    <3> QED
      BY <1>3, <3>4, <3>5, <3>6, SomeRunners, Runners DEF WithinBudget, NoMoreSent, ControlAssumption
  <2> QED
    BY <2>1, <2>2
<1> QED
  BY <1>3, <1>5, <1>8, <1>9, <1>10, <1>11, RunStep

LEMMA DispatchResumeInv == ASSUME ControlAssumption, Inv, NEW r \in Runner, DispatchResume(r) PROVE Inv'
<1>1. run[r].pc = "dispatch" /\ run[r].pc \in Retrying /\ TypeOK
  BY DEF DispatchResume, At, Retrying, Inv
<1>2. Key(r) \in Keys /\ Key(r) = <<run[r].reason, run[r].head>>
  BY <1>1, KeyForm
<1>3. UNCHANGED <<head, merged, passed, resumes, full, seen, blockers, notes, label>>
      /\ sent' = [sent EXCEPT ![Key(r)] = @ + 1]
  BY DEF DispatchResume, Github, Checks
<1>4. PICK rec : rec = Idle
  OBVIOUS
<1>5. Goto(r, rec) /\ Sound(rec) /\ rec.pc = "idle"
  BY <1>4, IdleForm DEF DispatchResume
<1>6. Sound(rec)'
  BY <1>3, <1>5, SoundKept
<1>7. TypeOK' /\ MergedIsTested'
  BY <1>1, <1>2, <1>3, <1>5 DEF TypeOK, MergedIsTested, Goto, Sound, Inv
<1>8. (\A k \in Keys : notes'[k] => blockers'[k] > 0) /\ Counted' /\ (label' => Blocked')
  BY <1>3 DEF Inv, Counted, Blocked
<1>9. ASSUME NEW k \in Keys PROVE WithinBudget(k)' /\ NoMoreSent(k)'
  <2>1. CASE k # Key(r)
    <3>1. sent'[k] = sent[k]
      BY <1>1, <1>2, <1>3, <2>1 DEF TypeOK
    <3> QED
      BY <1>3, <1>5, <3>1, BudgetKept
  <2>2. CASE k = Key(r)
    <3>1. \A q \in Runner : run'[q] = IF q = r THEN rec ELSE run[q]
      BY <1>1, <1>5 DEF Goto, TypeOK
    <3>2. Posting(k)' = Posting(k)
      BY <1>1, <1>5, <3>1 DEF Posting, At, Key
    <3>3. r \in Sending(k) /\ Sending(k)' = Sending(k) \ {r}
      BY <1>1, <1>5, <2>2, <3>1 DEF Sending, At, Key
    <3>4. Cardinality(Sending(k)') = Cardinality(Sending(k)) - 1
      <4>1. IsFiniteSet(Sending(k))
        BY SomeRunners
      <4>2. Cardinality(Sending(k) \ {r}) = Cardinality(Sending(k)) - 1
        BY <3>3, <4>1, FS_RemoveElement
      <4> QED
        BY <3>3, <4>2
    <3>5. sent'[k] = sent[k] + 1 /\ resumes[k] \in Nat /\ sent[k] \in Nat /\ seen[k] \in Nat
      BY <1>1, <1>2, <1>3, <2>2 DEF TypeOK
    <3>6. WithinBudget(k) /\ NoMoreSent(k)
      BY DEF Inv
    <3> QED
      BY <1>3, <3>2, <3>4, <3>5, <3>6, SomeRunners, Runners DEF WithinBudget, NoMoreSent, ControlAssumption
  <2> QED
    BY <2>1, <2>2
<1> QED
  BY <1>3, <1>5, <1>6, <1>7, <1>8, <1>9, RunStep

LEMMA CheckBlockerInv == ASSUME ControlAssumption, Inv, NEW r \in Runner, CheckBlocker(r) PROVE Inv'
<1>1. run[r].pc \in Retrying /\ TypeOK
  BY DEF CheckBlocker, At, Retrying, Inv
<1>2. /\ Sound(run[r]) /\ run[r].head \in Heads /\ run[r].reason \in Reason
      /\ Key(r) \in Keys /\ Key(r) = <<run[r].reason, run[r].head>>
  BY <1>1, KeyForm
<1>3. UNCHANGED <<head, merged, passed, resumes, sent, full, seen, blockers, notes, label>>
  BY DEF CheckBlocker, Github, Checks, Thread
<1>4. CASE notes[Key(r)]
  <2>1. Goto(r, Post(run[r], "BLOCKED", "idle"))
    BY <1>4 DEF CheckBlocker
  <2>2. blockers[<<run[r].reason, run[r].head>>] > 0
    BY <1>2, <1>4 DEF Inv
  <2>3. Sound(Post(run[r], "BLOCKED", "idle")) /\ Post(run[r], "BLOCKED", "idle").pc = "post"
    BY <1>2, <2>2, PostForm DEF State
  <2> QED
    BY <1>1, <1>3, <2>1, <2>3, QuietStep DEF TypeOK
<1>5. CASE ~notes[Key(r)]
  <2>1. Goto(r, [run[r] EXCEPT !.pc = "open"])
    BY <1>5 DEF CheckBlocker
  <2>2. Sound([run[r] EXCEPT !.pc = "open"]) /\ [run[r] EXCEPT !.pc = "open"].pc = "open"
    BY <1>2, MoveSound DEF Points
  <2> QED
    BY <1>1, <1>3, <2>1, <2>2, QuietStep DEF TypeOK
<1> QED
  BY <1>4, <1>5

LEMMA OpenBlockerInv == ASSUME ControlAssumption, Inv, NEW r \in Runner, OpenBlocker(r) PROVE Inv'
<1>1. run[r].pc \in Retrying /\ TypeOK
  BY DEF OpenBlocker, At, Retrying, Inv
<1>2. /\ Sound(run[r]) /\ run[r].head \in Heads /\ run[r].reason \in Reason
      /\ Key(r) \in Keys /\ Key(r) = <<run[r].reason, run[r].head>>
  BY <1>1, KeyForm
<1>3. UNCHANGED <<head, merged, passed, resumes, sent, full, seen, notes, label>>
      /\ blockers' = [blockers EXCEPT ![Key(r)] = @ + 1]
  BY DEF OpenBlocker, Github, Checks
<1>4. PICK rec : rec = [run[r] EXCEPT !.pc = "note"]
  OBVIOUS
<1>5. Goto(r, rec)
  BY <1>4 DEF OpenBlocker, Move
<1>6. \A k \in Keys : blockers'[k] = IF k = Key(r) THEN blockers[k] + 1 ELSE blockers[k]
  BY <1>1, <1>3 DEF TypeOK
<1>7. (\A k \in Keys : blockers[k] > 0 => blockers'[k] > 0) /\ blockers'[<<run[r].reason, run[r].head>>] > 0
  BY <1>1, <1>2, <1>6 DEF TypeOK
<1>8. "note" \in Points /\ run[r] \in Rec
  BY <1>2 DEF Points, Sound
<1>9. /\ rec \in Rec /\ rec.pc = "note" /\ rec.cause = run[r].cause /\ rec.tested = run[r].tested
      /\ rec.head = run[r].head /\ rec.reason = run[r].reason
  BY <1>4, <1>8, MoveForm
<1>10. Sound(rec)'
  <2>1. run[r].cause = "success" => run[r].tested \in Heads /\ passed[run[r].tested]
    BY <1>2 DEF Sound
  <2> QED
    BY <1>2, <1>3, <1>7, <1>9, <2>1 DEF Sound
<1>11. TypeOK' /\ MergedIsTested'
  BY <1>1, <1>2, <1>3, <1>5, <1>9 DEF TypeOK, MergedIsTested, Goto, Inv
<1>12. (\A k \in Keys : notes'[k] => blockers'[k] > 0) /\ Counted' /\ (label' => Blocked')
  BY <1>3, <1>7 DEF Inv, Counted, Blocked
<1>13. \A k \in Keys : WithinBudget(k)' /\ NoMoreSent(k)'
  BY <1>3, <1>5, <1>9, BudgetKept
<1> QED
  BY <1>3, <1>5, <1>7, <1>10, <1>11, <1>12, <1>13, RunStep

LEMMA NoteBlockerInv == ASSUME ControlAssumption, Inv, NEW r \in Runner, NoteBlocker(r) PROVE Inv'
<1>1. run[r].pc = "note" /\ run[r].pc \in Retrying /\ TypeOK
  BY DEF NoteBlocker, At, Retrying, Inv
<1>2. /\ Sound(run[r]) /\ run[r].head \in Heads /\ run[r].reason \in Reason
      /\ Key(r) \in Keys /\ Key(r) = <<run[r].reason, run[r].head>>
  BY <1>1, KeyForm
<1>3. UNCHANGED <<head, merged, passed, resumes, sent, full, seen, blockers, label>>
      /\ notes' = IF full THEN notes ELSE [notes EXCEPT ![Key(r)] = TRUE]
  BY DEF NoteBlocker, Github, Checks
<1>4. PICK rec : rec = Post(run[r], "BLOCKED", "idle")
  OBVIOUS
<1>5. Goto(r, rec)
  BY <1>4 DEF NoteBlocker
<1>6. blockers[<<run[r].reason, run[r].head>>] > 0
  BY <1>1, <1>2 DEF Sound
<1>7. Sound(rec) /\ rec.pc = "post"
  BY <1>2, <1>4, <1>6, PostForm DEF State
<1>8. Sound(rec)'
  BY <1>3, <1>7, SoundKept
<1>9. TypeOK' /\ MergedIsTested'
  BY <1>1, <1>2, <1>3, <1>5, <1>7 DEF TypeOK, MergedIsTested, Goto, Sound, Inv
<1>10. (\A k \in Keys : notes'[k] => blockers'[k] > 0) /\ (label' => Blocked') /\ Counted'
  <2>1. ASSUME NEW k \in Keys, notes'[k] PROVE blockers'[k] > 0
    <3>1. CASE k = Key(r)
      BY <1>2, <1>3, <1>6, <3>1
    <3>2. CASE k # Key(r)
      BY <1>1, <1>3, <2>1, <3>2 DEF Inv, TypeOK
    <3> QED
      BY <3>1, <3>2
  <2> QED
    BY <1>3, <2>1 DEF Inv, Blocked, Counted
<1>11. \A k \in Keys : WithinBudget(k)' /\ NoMoreSent(k)'
  BY <1>3, <1>5, <1>7, BudgetKept
<1> QED
  BY <1>3, <1>5, <1>8, <1>9, <1>10, <1>11, RunStep

LEMMA ControlInv == ASSUME ControlAssumption, Inv, NEW r \in Runner, Control(r) PROVE Inv'
BY FetchInv, SettleInv, PostStateInv, UpdateInv, DispatchCIInv, MergeInv, ConvergeInv, CountInv,
   PostResumeInv, DispatchResumeInv, CheckBlockerInv, OpenBlockerInv, NoteBlockerInv DEF Control

-----------------------------------------------------------------------------
(* The workflows and everybody else.                                       *)

LEMMA KillInv == ASSUME ControlAssumption, Inv, NEW r \in Runner, Kill(r) PROVE Inv'
<1>1. /\ UNCHANGED <<merged, passed, resumes, sent, full, seen, blockers, notes>>
      /\ head' \in Heads /\ (label' => label) /\ Goto(r, Idle)
  BY DEF Kill, Github, Checks, Thread, Inv, TypeOK
<1> QED
  BY <1>1, IdleForm, QuietStep

LEMMA InspectInv == ASSUME ControlAssumption, Inv, Inspect PROVE Inv'
<1>1. /\ UNCHANGED <<merged, passed, resumes, sent, full, seen, blockers, notes>>
      /\ head' \in Heads /\ (label' => label) /\ Inspector \in Runner
      /\ Goto(Inspector, Doing("fetch", NoHead, "none", "none", "idle"))
  BY DEF Inspect, Github, Thread, Inv, TypeOK, Runner
<1>2. /\ Sound(Doing("fetch", NoHead, "none", "none", "idle"))
      /\ Doing("fetch", NoHead, "none", "none", "idle").pc = "fetch"
  BY DEF Doing, Sound, Rec, Points, Aware, Retrying, State
<1> QED
  BY <1>1, <1>2, QuietStep

LEMMA StartCIInv == ASSUME ControlAssumption, Inv, NEW c \in CIRun, StartCI(c) PROVE Inv'
<1>1. /\ UNCHANGED <<merged, passed, resumes, sent, full, seen, blockers, notes>>
      /\ head' \in Heads /\ head \in Heads /\ (label' => label) /\ c \in Runner
  BY DEF StartCI, Github, Thread, Inv, TypeOK, Runner
<1>2. PICK p \in {"testing", "refused"} : Goto(c, OnTest(p, head, "none"))
  BY DEF StartCI
<1>3. Sound(OnTest(p, head, "none")) /\ OnTest(p, head, "none").pc = p
  BY <1>1, <1>2, TestForm
<1> QED
  BY <1>1, <1>2, <1>3, QuietStep

\* The verdict of a run, and where it goes with it.
LEMMA PublishStep ==
    ASSUME ControlAssumption, Inv, NEW c \in CIRun, NEW verdict \in {"success", "failure"},
           Publish(c, verdict), At(c, "testing") \/ At(c, "refused"), NEW rec, Goto(c, rec),
           rec = Idle \/ \E h \in Heads : h = run[c].tested /\ rec = OnTest("fetch", h, verdict)
    PROVE  Inv'
<1>1. TypeOK /\ run[c].tested \in Heads /\ c \in Runner
  BY DEF Inv, Sound, At, Runner
<1>2. UNCHANGED <<head, merged, resumes, sent, full, seen, blockers, notes, label>>
      /\ passed' = [passed EXCEPT ![run[c].tested] = @ \/ verdict = "success"]
  BY DEF Publish, Github, Thread
<1>3. \A h \in Heads : passed[h] => passed'[h]
  BY <1>1, <1>2 DEF TypeOK
<1>4. verdict = "success" => passed'[run[c].tested]
  BY <1>1, <1>2 DEF TypeOK
<1>5. Sound(rec)' /\ rec.pc \in {"idle", "fetch"} /\ rec \in Rec
  <2>1. CASE rec = Idle
    <3>1. Sound(rec) /\ rec.pc = "idle"
      BY <2>1, IdleForm
    <3> QED
      BY <1>2, <1>3, <3>1, SoundKept DEF Sound
  <2>2. CASE \E h \in Heads : h = run[c].tested /\ rec = OnTest("fetch", h, verdict)
    <3>1. PICK h \in Heads : h = run[c].tested /\ rec = OnTest("fetch", h, verdict)
      BY <2>2
    <3>2. rec = [pc |-> "fetch", cause |-> verdict, tested |-> h, head |-> NoHead,
                 reason |-> "none", state |-> "none", next |-> "idle"]
      BY <3>1 DEF OnTest
    <3>3. verdict = "success" => passed'[h]
      BY <1>4, <3>1
    <3> QED
      BY <3>2, <3>3 DEF Sound, Rec, Points, Aware, Retrying
  <2> QED
    BY <2>1, <2>2
<1>6. TypeOK'
  BY <1>1, <1>2, <1>5 DEF TypeOK, Goto
<1>7. MergedIsTested'
  BY <1>1, <1>2, <1>3 DEF Inv, TypeOK, MergedIsTested
<1>8. (\A k \in Keys : notes'[k] => blockers'[k] > 0) /\ Counted' /\ (label' => Blocked')
  BY <1>2 DEF Inv, Counted, Blocked
<1>9. \A k \in Keys : WithinBudget(k)' /\ NoMoreSent(k)'
  BY <1>1, <1>2, <1>5, BudgetKept
<1> QED
  BY <1>1, <1>2, <1>3, <1>5, <1>6, <1>7, <1>8, <1>9, RunStep

LEMMA VerdictInv == ASSUME ControlAssumption, Inv, NEW c \in CIRun, CIPasses(c) \/ CIFails(c) PROVE Inv'
<1>1. At(c, "testing") \/ At(c, "refused")
  BY DEF CIPasses, CIFails
<1>2. PICK h : h = run[c].tested
  OBVIOUS
<1>3. h \in Heads
  BY <1>1, <1>2 DEF Inv, Sound, At, Runner
<1>4. CASE Publish(c, "success") /\ Goto(c, OnTest("fetch", h, "success"))
  BY <1>1, <1>2, <1>3, <1>4, PublishStep
<1>5. CASE Publish(c, "failure") /\ Goto(c, Idle)
  BY <1>1, <1>5, PublishStep
<1>6. CASE Publish(c, "failure") /\ Goto(c, OnTest("fetch", h, "failure"))
  BY <1>1, <1>2, <1>3, <1>6, PublishStep
<1> QED
  BY <1>2, <1>4, <1>5, <1>6 DEF CIPasses, CIFails

LEMMA PushInv == ASSUME ControlAssumption, Inv, NEW onto, NEW m, Push(onto, m) PROVE Inv'
<1>1. UNCHANGED <<run, merged, passed, resumes, sent, seen, blockers, notes, label>> /\ head' \in Heads
      /\ full' \in {full, TRUE}
  <2>1. head \in 1..MaxHeads /\ MaxHeads \in Nat /\ head < MaxHeads /\ head' = head + 1
    BY DEF Push, Inv, TypeOK, Heads, ControlAssumption
  <2>2. UNCHANGED <<run, merged, passed, resumes, sent, seen, blockers, notes, label, full>>
    BY DEF Push, Thread
  <2> QED
    BY <2>1, <2>2 DEF Heads
<1> QED
  BY <1>1, OutsideStep

LEMMA AdvanceInv == ASSUME Inv, NEW m, NEW clash, Advance(m, clash) PROVE Inv'
<1>1. UNCHANGED <<run, merged, passed, resumes, sent, seen, blockers, notes, label>> /\ head' \in Heads
      /\ full' \in {full, TRUE}
  BY DEF Advance, Checks, Thread, Inv, TypeOK, Heads
<1> QED
  BY <1>1, OutsideStep

LEMMA EditInv == ASSUME Inv, Edit \/ Fill PROVE Inv'
<1>1. UNCHANGED <<run, merged, passed, resumes, sent, seen, blockers, notes, label>> /\ head' \in Heads
      /\ full' \in {full, TRUE}
  BY DEF Edit, Fill, Github, Checks, Thread, Inv, TypeOK
<1> QED
  BY <1>1, OutsideStep

-----------------------------------------------------------------------------
(* The theorems.                                                           *)

LEMMA InitInv == ASSUME ControlAssumption, PullInit PROVE Inv
<1>1. head = 1 /\ head \in Heads /\ merged = NoHead
  BY DEF PullInit, Opened, Heads, ControlAssumption
<1>2. /\ passed = [h \in Heads |-> FALSE] /\ run = [r \in Runner |-> Idle]
      /\ blockers = [k \in Keys |-> 0] /\ notes = [k \in Keys |-> FALSE] /\ label = FALSE
  BY DEF PullInit, Opened, Keys
<1>3. PICK used \in {0, MaxRetries} : resumes = [k \in Keys |-> IF k[2] = 1 THEN used ELSE 0]
  BY DEF PullInit, Opened, Keys
<1>4. sent = resumes /\ seen = resumes /\ full = FALSE /\ used \in Nat /\ used <= MaxRetries
  BY <1>3 DEF PullInit, Opened, ControlAssumption
<1>5. resumes \in [Keys -> Nat] /\ \A k \in Keys : resumes[k] <= MaxRetries
  BY <1>3, <1>4 DEF ControlAssumption
<1>6. Sound(Idle) /\ Idle \in Rec /\ Idle.pc = "idle"
  BY IdleForm DEF Sound
<1>7. TypeOK
  BY <1>1, <1>2, <1>4, <1>5, <1>6 DEF TypeOK
<1>8. \A k \in Keys : Posting(k) = {} /\ Sending(k) = {}
  BY <1>2, <1>6 DEF Posting, Sending, At
<1>9. ASSUME NEW k \in Keys PROVE WithinBudget(k) /\ NoMoreSent(k)
  <2>1. Cardinality(Posting(k)) = 0 /\ Cardinality(Sending(k)) = 0
    BY <1>8, FS_EmptySet
  <2>2. resumes[k] \in Nat /\ resumes[k] <= MaxRetries /\ sent[k] = resumes[k]
        /\ seen[k] = resumes[k] /\ MaxRetries \in Nat
    BY <1>4, <1>5 DEF ControlAssumption
  <2>3. Cardinality(Runner) \in Nat \ {0}
    BY Runners
  <2> QED
    BY <2>1, <2>2, <2>3 DEF WithinBudget, NoMoreSent
<1> QED
  BY <1>1, <1>2, <1>4, <1>6, <1>7, <1>9 DEF Inv, MergedIsTested, Counted

LEMMA NextInv == ASSUME ControlAssumption, Inv, [PullNext]_pull PROVE Inv'
<1>1. CASE \E r \in Runner : Control(r) \/ Kill(r)
  BY <1>1, ControlInv, KillInv
<1>2. CASE Inspect
  BY <1>2, InspectInv
<1>3. CASE \E c \in CIRun : StartCI(c) \/ CIPasses(c) \/ CIFails(c)
  BY <1>3, StartCIInv, VerdictInv
<1>4. CASE \E onto \in 0..MaxMain, m \in 0..(MaxMain + 1) : Push(onto, m)
  BY <1>4, PushInv
<1>5. CASE Edit \/ Fill
  BY <1>5, EditInv
<1>6. CASE \E m \in 0..MaxMain, clash \in BOOLEAN : Advance(m, clash)
  BY <1>6, AdvanceInv
<1>7. CASE UNCHANGED pull
  <2>1. UNCHANGED <<run, merged, passed, resumes, sent, seen, blockers, notes, label>> /\ head' \in Heads
        /\ full' \in {full, TRUE}
    BY <1>7 DEF pull, Inv, TypeOK
  <2> QED
    BY <2>1, OutsideStep
<1> QED
  BY <1>1, <1>2, <1>3, <1>4, <1>5, <1>6, <1>7 DEF PullNext

LEMMA Budgets == ASSUME ControlAssumption, Inv PROVE RetriesBounded
<1>1. ASSUME NEW k \in Keys
      PROVE  /\ sent[k] <= resumes[k]
             /\ ~full => resumes[k] <= MaxRetries + Cardinality(Runner) - 1
  <2>1. WithinBudget(k) /\ NoMoreSent(k) /\ resumes[k] \in Nat /\ sent[k] \in Nat
        /\ (~full => seen[k] = resumes[k])
    BY DEF Inv, TypeOK, Counted
  <2> QED
    BY <2>1, SomeRunners, Runners DEF WithinBudget, NoMoreSent, ControlAssumption
<1> QED
  BY <1>1 DEF Inv, RetriesBounded, Blocked, Keys

LEMMA AlwaysInv == ControlAssumption => (PullSpec => []Inv)
<1> SUFFICES ASSUME ControlAssumption PROVE PullSpec => []Inv
  OBVIOUS
<1>1. PullInit => Inv
  BY InitInv
<1>2. Inv /\ [PullNext]_pull => Inv'
  BY NextInv
<1> QED
  BY <1>1, <1>2, PTL DEF PullSpec

\* Whatever is pushed, merged elsewhere or lost, for any number of CI runs at once:
\* the head that handle_lifecycle merges is one that a CI run passed.
THEOREM OnlyTestedIsMerged == ControlAssumption => (PullSpec => []MergedIsTested)
<1>1. Inv => MergedIsTested
  BY DEF Inv
<1> QED
  BY <1>1, AlwaysInv, PTL

\* While one page holds the comments of the issue, runs that overlap exceed the limit of
\* request_resume by one each at most; on any thread no event is sent that no comment
\* announced, and the label stands only while a blocker does.
THEOREM ResumesAreBounded == ControlAssumption => (PullSpec => []RetriesBounded)
<1> SUFFICES ASSUME ControlAssumption PROVE PullSpec => []RetriesBounded
  OBVIOUS
<1>1. Inv => RetriesBounded
  BY Budgets
<1> QED
  BY <1>1, AlwaysInv, PTL

-----------------------------------------------------------------------------
(* The order of the migrations.                                            *)

\* The changes of main that add a migration, those up to the i-th, and their numbers.
Adding == {i \in DOMAIN main : main[i] # 0}
Upto(i) == {j \in Adding : j <= i}
Numbers == {main[i] : i \in Adding}

MainOrder ==
    /\ main \in Seq(Nat)
    /\ ruleset => Numbers = 1..Cardinality(Adding) /\ \A i \in Adding : main[i] = Cardinality(Upto(i))

\* If the head holds all of main, its migration is the next one.
Sealed(h) == base[h] = Len(main) => Sequence(h)

\* Heads are made from main, and those that CI tests or has passed are sealed: for a head
\* that lags behind, and will be refused, main may have gone on.
Order ==
    /\ MainOrder
    /\ head \in Heads /\ base \in [Heads -> Nat] /\ adds \in [Heads -> Nat]
    /\ \A h \in Heads : h <= head => base[h] <= Len(main)
    /\ gate \in [Heads -> {"none", "success", "failure"}]
    /\ \A h \in Heads : gate[h] = "success" => h <= head /\ Sealed(h)
    /\ \A r \in Runner : At(r, "testing") => run[r].tested \in Heads
    /\ \A r \in Runner, h \in Heads : At(r, "testing") /\ run[r].tested = h => h <= head /\ Sealed(h)

LEMMA Stretch == ASSUME main \in Seq(Nat)
                 PROVE  /\ IsFiniteSet(Adding) /\ Cardinality(Adding) \in Nat
                        /\ \A i \in Adding : i \in 1..Len(main)
<1>1. DOMAIN main = 1..Len(main) /\ Len(main) \in Nat
  OBVIOUS
<1>2. Adding \subseteq 1..Len(main) /\ IsFiniteSet(1..Len(main))
  BY <1>1, FS_Interval DEF Adding
<1> QED
  BY <1>2, FS_Subset, FS_CardinalityType

\* The number that follows n migrations in order is n + 1.
LEMMA NextNumber ==
    ASSUME main \in Seq(Nat), Numbers = 1..Cardinality(Adding)
    PROVE  Following(main) = Cardinality(Adding) + 1
<1> DEFINE n == Cardinality(Adding)
           S == {0} \cup {main[i] : i \in DOMAIN main}
<1>1. n \in Nat
  BY Stretch
<1>2. S = 0..n
  <2>1. \A x \in S : x = 0 \/ x \in Numbers
    BY DEF Numbers, Adding
  <2>2. \A x \in Numbers : x \in S
    BY DEF Numbers, Adding
  <2> HIDE DEF S
  <2>3. \A x \in S : x \in 0..n
    BY <1>1, <2>1
  <2>4. 0 \in S
    BY DEF S
  <2>5. \A x \in 0..n : x \in S
    BY <1>1, <2>2, <2>4
  <2> QED
    BY <2>3, <2>5
<1> HIDE DEF S, n
<1>3. n \in 0..n /\ \A y \in 0..n : n >= y
  BY <1>1
<1>4. Max(0..n) = n
  <2>1. Max(0..n) \in 0..n /\ \A y \in 0..n : Max(0..n) >= y
    BY <1>3 DEF Max
  <2> QED
    BY <1>1, <1>3, <2>1
<1> QED
  BY <1>2, <1>4 DEF Following, S, n

\* A change with the next number, or with none, keeps main in order.
LEMMA MainGrows ==
    ASSUME MainOrder, NEW m \in Nat, ruleset => m = 0 \/ m = Following(main),
           main' = Append(main, m), ruleset' = ruleset
    PROVE  MainOrder' /\ Len(main') = Len(main) + 1 /\ Len(main) \in Nat
<1>0. PICK last \in Nat : last = Len(main) + 1
  BY DEF MainOrder
<1>1. /\ main \in Seq(Nat) /\ main' \in Seq(Nat) /\ Len(main') = last /\ Len(main) \in Nat
      /\ DOMAIN main = 1..Len(main) /\ DOMAIN main' = 1..last
      /\ \A i \in 1..Len(main) : main'[i] = main[i]
      /\ main'[last] = m
  BY <1>0, AppendProperties DEF MainOrder
<1>2. IsFiniteSet(Adding) /\ Cardinality(Adding) \in Nat /\ \A i \in Adding : i \in 1..Len(main)
  BY <1>1, Stretch
<1>3. Adding' = IF m = 0 THEN Adding ELSE Adding \cup {last}
  BY <1>1 DEF Adding
<1>4. \A i \in Adding : Upto(i)' = Upto(i)
  <2>1. \A i \in Adding, j \in Adding' : j <= i => j \in Adding
    BY <1>1, <1>2, <1>3
  <2>2. \A j \in Adding : j \in Adding'
    BY <1>3
  <2> QED
    BY <2>1, <2>2 DEF Upto
<1>5. last \notin Adding
  BY <1>0, <1>1, <1>2
<1>6. ASSUME ruleset
      PROVE  Numbers' = 1..Cardinality(Adding') /\ \A i \in Adding' : main'[i] = Cardinality(Upto(i)')
  <2>1. Numbers = 1..Cardinality(Adding) /\ \A i \in Adding : main[i] = Cardinality(Upto(i))
    BY <1>6 DEF MainOrder
  <2>2. CASE m = 0
    <3>1. Adding' = Adding /\ Numbers' = Numbers
      BY <1>1, <1>2, <1>3, <2>2 DEF Numbers
    <3> QED
      BY <1>1, <1>2, <1>4, <2>1, <3>1
  <2>3. CASE m # 0
    <3>1. m = Cardinality(Adding) + 1
      BY <1>1, <1>6, <2>1, <2>3, NextNumber
    <3>2. Adding' = Adding \cup {last} /\ Cardinality(Adding') = m
      BY <1>2, <1>3, <1>5, <2>3, <3>1, FS_AddElement
    <3>3. Numbers' = Numbers \cup {m}
      BY <1>1, <1>2, <3>2 DEF Numbers
    <3>4. Numbers' = 1..m
      BY <1>2, <2>1, <3>1, <3>3
    <3>5. Upto(last)' = Adding'
      <4>1. \A j \in Adding' : j <= last
        BY <1>0, <1>1, <1>2, <3>2
      <4> QED
        BY <4>1 DEF Upto
    <3>6. ASSUME NEW i \in Adding' PROVE main'[i] = Cardinality(Upto(i)')
      <4>1. CASE i = last
        BY <1>1, <3>2, <3>5, <4>1
      <4>2. CASE i \in Adding
        BY <1>1, <1>2, <1>4, <2>1, <4>2
      <4> QED
        BY <3>2, <4>1, <4>2
    <3> QED
      BY <3>2, <3>4, <3>6
  <2> QED
    BY <2>2, <2>3
<1>7. MainOrder'
  BY <1>1, <1>6 DEF MainOrder
<1> QED
  BY <1>0, <1>1, <1>7

\* Heads keep their base and migration; when main grows, every head lags behind.
LEMMA Frame ==
    ASSUME Order, MainOrder', head' \in Heads, head <= head',
           main' = main \/ Len(main') > Len(main),
           base' \in [Heads -> Nat], adds' \in [Heads -> Nat],
           gate' \in [Heads -> {"none", "success", "failure"}],
           \A h \in Heads : h <= head => base'[h] = base[h] /\ adds'[h] = adds[h],
           \A h \in Heads : h <= head' /\ ~(h <= head) => base'[h] <= Len(main'),
           \A h \in Heads : gate'[h] = "success" =>
               gate[h] = "success" \/ \E r \in Runner : At(r, "testing") /\ run[r].tested = h,
           \A r \in Runner : At(r, "testing")' =>
               \/ run'[r] = run[r]
               \/ run'[r].tested = head /\ head' = head /\ main' = main /\ Sequence(head)
    PROVE  Order'
<1>1. /\ head \in Nat /\ head' \in Nat /\ Len(main) \in Nat /\ Len(main') \in Nat
      /\ \A h \in Heads : h \in Nat /\ base[h] \in Nat /\ base'[h] \in Nat
  <2>1. head \in Heads /\ base \in [Heads -> Nat] /\ main \in Seq(Nat) /\ main' \in Seq(Nat)
    BY DEF Order, MainOrder
  <2>2. \A h \in Heads : h \in Nat
    BY DEF Heads
  <2> QED
    BY <2>1, <2>2
<1>2. \A h \in Heads : h <= head => base[h] <= Len(main)
  BY DEF Order
<1>3. \A h \in Heads : h <= head' => base'[h] <= Len(main')
  BY <1>1, <1>2
<1>4. \A h \in Heads : h <= head /\ Sequence(h) /\ main' = main => Sequence(h)'
  BY DEF Sequence
<1>5. ASSUME NEW h \in Heads, h <= head, Sealed(h) PROVE Sealed(h)'
  <2>1. CASE main' = main
    BY <1>4, <1>5, <2>1 DEF Sealed
  <2>2. CASE Len(main') > Len(main)
    BY <1>1, <1>2, <1>5, <2>2 DEF Sealed
  <2> QED
    BY <2>1, <2>2
<1>6. ASSUME NEW r \in Runner, At(r, "testing")
      PROVE  run[r].tested \in Heads /\ \A h \in Heads : run[r].tested = h => h <= head /\ Sealed(h)
  BY <1>6 DEF Order
<1>7. ASSUME NEW h \in Heads, gate'[h] = "success" PROVE h <= head' /\ Sealed(h)'
  <2>1. h <= head /\ Sealed(h)
    BY <1>6, <1>7 DEF Order
  <2> QED
    BY <1>1, <1>5, <2>1
<1>8. ASSUME NEW r \in Runner, At(r, "testing")', NEW h \in Heads, run'[r].tested = h
      PROVE  h <= head' /\ Sealed(h)'
  <2>1. CASE run'[r] = run[r]
    <3>1. At(r, "testing") /\ run[r].tested = h
      BY <1>8, <2>1 DEF At
    <3>2. h <= head /\ Sealed(h)
      BY <1>6, <3>1
    <3> QED
      BY <1>1, <1>5, <3>2
  <2>2. CASE run'[r].tested = head /\ head' = head /\ main' = main /\ Sequence(head)
    <3>1. h = head
      BY <1>8, <2>2
    <3>2. h <= head /\ Sequence(h)
      BY <1>1, <2>2, <3>1
    <3>3. Sequence(h)'
      BY <1>4, <2>2, <3>2
    <3> QED
      BY <1>1, <2>2, <3>2, <3>3 DEF Sealed
  <2> QED
    BY <1>8, <2>1, <2>2
<1>9. ASSUME NEW r \in Runner, At(r, "testing")'
      PROVE  run'[r].tested \in Heads
  <2>1. CASE run'[r] = run[r]
    BY <1>6, <1>9, <2>1 DEF At
  <2>2. CASE run'[r].tested = head
    BY <2>2 DEF Order
  <2> QED
    BY <1>9, <2>1, <2>2
<1> QED
  BY <1>3, <1>7, <1>8, <1>9 DEF Order

\* A step in which a run at most goes on to something else than a test.
LEMMA OtherRun ==
    ASSUME Order, UNCHANGED <<ruleset, main, head, base, adds, gate>>,
           \A r \in Runner : At(r, "testing")' => run'[r] = run[r]
    PROVE  Order'
<1>1. MainOrder'
  BY DEF Order, MainOrder, Numbers, Upto, Adding
<1>2. head <= head' /\ \A h \in Heads : h <= head' => h <= head
  BY DEF Order, Heads
<1> QED
  BY <1>1, <1>2, Frame DEF Order

LEMMA ControlRuns ==
    ASSUME Inv, NEW r \in Runner,
           Control(r) \/ Kill(r) \/ (Inspect /\ r = Inspector) \/ \E c \in CIRun : r = c /\ (CIPasses(c) \/ CIFails(c))
    PROVE  \A q \in Runner : At(q, "testing")' => run'[q] = run[q]
<1>0. run \in [Runner -> Rec]
  BY DEF Inv, TypeOK
<1> SUFFICES \E rec : Goto(r, rec) /\ rec.pc # "testing"
  BY <1>0 DEF Goto, At
<1>1. Idle.pc = "idle" /\ \A rec, reason : Ask(rec, reason).pc = "count"
  BY DEF Idle, Ask, Doing
<1>2. \A rec, state, next : Post(rec, state, next).pc = "post"
  BY DEF Post, Doing
<1>3. \A p, h, reason, state, next : Doing(p, h, reason, state, next).pc = p
  BY DEF Doing
<1>4. \A p, h, cause : OnTest(p, h, cause).pc = p
  BY DEF OnTest
<1>5. \A p : [run[r] EXCEPT !.pc = p].pc = p
  BY <1>0 DEF Rec
<1>6. CASE Fetch(r)
  <2>1. \A h : [run[r] EXCEPT !.head = h] = [pc |-> run[r].pc, cause |-> run[r].cause,
            tested |-> run[r].tested, head |-> h, reason |-> run[r].reason,
            state |-> run[r].state, next |-> run[r].next]
    BY <1>0 DEF Rec
  <2>2. PICK view \in Views : Goto(r, Decide([run[r] EXCEPT !.head = head], view))
    BY <1>6 DEF Fetch
  <2> DEFINE rec == [run[r] EXCEPT !.head = head]
  <2>3. [rec EXCEPT !.pc = "settle"].pc = "settle"
    BY <2>1
  <2> HIDE DEF rec
  <2>4. Decide(rec, view).pc \in {"count", "post", "settle", "idle"}
    BY <1>1, <1>2, <2>3 DEF Decide
  <2> QED
    BY <2>2, <2>4 DEF rec
<1>7. CASE Settle(r)
  BY <1>1, <1>2, <1>3, <1>7 DEF Settle
<1>8. CASE PostState(r)
  <2>1. Sound(run[r]) /\ run[r].next \in {"idle", "update", "check", "merge", "count", "converge"}
    BY <1>0 DEF Inv, Rec
  <2> QED
    BY <1>1, <1>3, <1>8, <2>1 DEF PostState
<1>9. CASE UpdateBranch(r) \/ DispatchCI(r) \/ Merge(r) \/ Converge(r)
  <2>1. CASE UpdateBranch(r)
    BY <1>1, <1>3, <2>1 DEF UpdateBranch
  <2>2. CASE DispatchCI(r)
    BY <1>1, <1>5, <2>2 DEF DispatchCI
  <2>3. CASE Merge(r)
    BY <1>1, <1>2, <2>3 DEF Merge
  <2>4. CASE Converge(r)
    BY <1>1, <2>4 DEF Converge
  <2> QED
    BY <1>9, <2>1, <2>2, <2>3, <2>4
<1>10. CASE Count(r) \/ PostResume(r) \/ DispatchResume(r) \/ CheckBlocker(r) \/ OpenBlocker(r) \/ NoteBlocker(r)
  BY <1>1, <1>2, <1>5, <1>10
     DEF Count, PostResume, DispatchResume, CheckBlocker, OpenBlocker, NoteBlocker, Move
<1>11. CASE Kill(r) \/ (Inspect /\ r = Inspector)
  BY <1>1, <1>3, <1>11 DEF Kill, Inspect
<1>12. CASE \E c \in CIRun : r = c /\ (CIPasses(c) \/ CIFails(c))
  BY <1>1, <1>4, <1>12 DEF CIPasses, CIFails
<1> QED
  BY <1>6, <1>7, <1>8, <1>9, <1>10, <1>11, <1>12 DEF Control

\* A change to main follows the rule of the ruleset.
LEMMA MainGoesOn ==
    ASSUME Order, NEW m \in Nat, ruleset => m = 0 \/ m = Following(main),
           main' = Append(main, m), UNCHANGED <<ruleset, head, base, adds, gate>>,
           \A r \in Runner : At(r, "testing")' => run'[r] = run[r]
    PROVE  Order'
<1>1. MainOrder' /\ Len(main') = Len(main) + 1 /\ Len(main) \in Nat
  BY MainGrows DEF Order
<1>2. head' = head /\ head \in Nat /\ \A h \in Heads : h \in Nat
  BY DEF Order, Heads
<1>3. Len(main') > Len(main) /\ \A h \in Heads : h <= head' => h <= head
  BY <1>1, <1>2
<1>4. /\ head \in Heads /\ base \in [Heads -> Nat] /\ adds \in [Heads -> Nat]
      /\ gate \in [Heads -> {"none", "success", "failure"}] /\ head <= head
  BY <1>2 DEF Order
<1> QED
  BY <1>1, <1>2, <1>3, <1>4, Frame

\* The branch gets a new head: made from a stretch of main, not yet tested.
LEMMA NewHead ==
    ASSUME ControlAssumption, Order, head < MaxHeads, NEW b \in 0..Len(main), NEW m \in Nat,
           head' = head + 1, base' = [base EXCEPT ![head + 1] = b],
           adds' = [adds EXCEPT ![head + 1] = m], UNCHANGED <<ruleset, main, gate>>,
           \A r \in Runner : At(r, "testing")' => run'[r] = run[r]
    PROVE  Order'
<1>1. /\ head \in Nat /\ head \in Heads /\ base \in [Heads -> Nat] /\ adds \in [Heads -> Nat]
      /\ main \in Seq(Nat) /\ gate \in [Heads -> {"none", "success", "failure"}]
  BY DEF Order, MainOrder, Heads
<1>2. Len(main) \in Nat /\ b \in Nat /\ b <= Len(main)
  BY <1>1
<1>3. head + 1 \in Heads
  BY <1>1 DEF Heads, ControlAssumption
<1>4. \A h \in Heads : h \in Nat /\ (h <= head => h # head + 1) /\ (h <= head + 1 /\ ~(h <= head) => h = head + 1)
  BY <1>1 DEF Heads
<1>5. base' \in [Heads -> Nat] /\ adds' \in [Heads -> Nat]
  BY <1>1, <1>2
<1>6. \A h \in Heads : h <= head => base'[h] = base[h] /\ adds'[h] = adds[h]
  BY <1>1, <1>4
<1>7. \A h \in Heads : h <= head' /\ ~(h <= head) => base'[h] <= Len(main')
  BY <1>1, <1>2, <1>4
<1>8. MainOrder'
  BY DEF Order, MainOrder, Numbers, Upto, Adding
<1>9. head' \in Heads /\ head <= head'
  BY <1>1 DEF Heads, ControlAssumption
<1> QED
  BY <1>1, <1>5, <1>6, <1>7, <1>8, <1>9, Frame

LEMMA UpdateOrder == ASSUME ControlAssumption, Inv, Order, NEW r \in Runner, UpdateBranch(r) PROVE Order'
<1>1. \A q \in Runner : At(q, "testing")' => run'[q] = run[q]
  BY ControlRuns DEF Control
<1>2. CASE UNCHANGED Github
  BY <1>1, <1>2, OtherRun DEF Github, Checks, UpdateBranch
<1>3. CASE /\ head = run[r].head /\ merged = NoHead /\ ~conflict /\ head < MaxHeads
           /\ head' = head + 1
           /\ base' = [base EXCEPT ![head + 1] = Len(main)]
           /\ adds' = [adds EXCEPT ![head + 1] = adds[head]]
           /\ UNCHANGED <<ruleset, main, conflict, merged>>
  <2>1. Len(main) \in 0..Len(main) /\ adds[head] \in Nat
    BY DEF Order, MainOrder
  <2>2. gate' = gate
    BY DEF UpdateBranch, Checks
  <2> QED
    BY <1>1, <1>3, <2>1, <2>2, NewHead
<1> QED
  BY <1>2, <1>3 DEF UpdateBranch

LEMMA MergeOrder == ASSUME ControlAssumption, Inv, Order, NEW r \in Runner, Merge(r) PROVE Order'
<1>1. \A q \in Runner : At(q, "testing")' => run'[q] = run[q]
  BY ControlRuns DEF Control
<1>2. gate' = gate
  BY DEF Merge, Checks
<1>3. CASE UNCHANGED Github
  BY <1>1, <1>2, <1>3, OtherRun DEF Github
<1>4. CASE /\ Accepts(run[r].head) /\ main' = Append(main, adds[head])
           /\ UNCHANGED <<ruleset, head, base, adds, conflict>>
  <2>1. head \in Heads /\ head <= head /\ base[head] <= Len(main) /\ base[head] \in Nat
        /\ Len(main) \in Nat /\ adds[head] \in Nat
    BY DEF Order, MainOrder, Heads
  <2>2. ASSUME ruleset PROVE adds[head] = 0 \/ adds[head] = Following(main)
    <3>1. ~Behind /\ gate[head] = "success"
      BY <1>4, <2>2 DEF Accepts, Strict
    <3>2. base[head] = Len(main)
      BY <2>1, <3>1 DEF Behind
    <3>3. Sealed(head)
      BY <2>1, <3>1 DEF Order
    <3> QED
      BY <3>2, <3>3 DEF Sealed, Sequence
  <2> QED
    BY <1>1, <1>2, <1>4, <2>1, <2>2, MainGoesOn
<1> QED
  BY <1>3, <1>4 DEF Merge

LEMMA ControlOrder == ASSUME ControlAssumption, Inv, Order, NEW r \in Runner, Control(r) PROVE Order'
<1>1. \A q \in Runner : At(q, "testing")' => run'[q] = run[q]
  BY ControlRuns
<1>2. CASE Fetch(r) \/ Settle(r) \/ PostState(r) \/ DispatchCI(r) \/ Converge(r)
  BY <1>1, <1>2, OtherRun DEF Fetch, Settle, PostState, DispatchCI, Converge, Github, Checks
<1>3. CASE Count(r) \/ PostResume(r) \/ DispatchResume(r) \/ CheckBlocker(r) \/ OpenBlocker(r) \/ NoteBlocker(r)
  BY <1>1, <1>3, OtherRun
     DEF Count, PostResume, DispatchResume, CheckBlocker, OpenBlocker, NoteBlocker, Github, Checks
<1> QED
  BY <1>2, <1>3, UpdateOrder, MergeOrder DEF Control

\* A CI run starts with the head and the main of now.
LEMMA StartCIOrder == ASSUME ControlAssumption, Inv, Order, NEW c \in CIRun, StartCI(c) PROVE Order'
<1>1. run \in [Runner -> Rec] /\ c \in Runner
  BY DEF Inv, TypeOK, Runner
<1>2. run' = [run EXCEPT ![c] = OnTest(IF Sequence(head) THEN "testing" ELSE "refused", head, "none")]
  BY DEF StartCI, Goto
<1>3. UNCHANGED <<ruleset, main, head, base, adds, gate>>
  BY DEF StartCI, Github
<1>4. run'[c].tested = head /\ (run'[c].pc = "testing" => Sequence(head))
  BY <1>1, <1>2 DEF OnTest
<1>5. \A r \in Runner : r # c => run'[r] = run[r]
  BY <1>1, <1>2
<1>6. \A r \in Runner : At(r, "testing")' => run'[r] = run[r] \/ (run'[r].tested = head /\ Sequence(head))
  BY <1>4, <1>5 DEF At
<1>7. MainOrder'
  BY <1>3 DEF Order, MainOrder, Numbers, Upto, Adding
<1>8. head <= head' /\ \A h \in Heads : h <= head' => h <= head
  BY <1>3 DEF Order, Heads
<1> QED
  BY <1>3, <1>6, <1>7, <1>8, Frame DEF Order

LEMMA VerdictOrder == ASSUME ControlAssumption, Inv, Order, NEW c \in CIRun, CIPasses(c) \/ CIFails(c) PROVE Order'
<1>1. c \in Runner /\ \A q \in Runner : At(q, "testing")' => run'[q] = run[q]
  BY ControlRuns DEF Runner
<1>2. PICK verdict \in {"success", "failure"} :
          Publish(c, verdict) /\ (verdict = "success" => At(c, "testing"))
  BY DEF CIPasses, CIFails
<1>3. UNCHANGED <<ruleset, main, head, base, adds>> /\ gate' = [gate EXCEPT ![run[c].tested] = verdict]
  BY <1>2 DEF Publish, Github
<1>4. gate \in [Heads -> {"none", "success", "failure"}]
  BY DEF Order
<1>5. gate' \in [Heads -> {"none", "success", "failure"}]
  BY <1>3, <1>4
<1>6. \A h \in Heads : gate'[h] = "success" =>
          gate[h] = "success" \/ \E r \in Runner : At(r, "testing") /\ run[r].tested = h
  BY <1>1, <1>2, <1>3, <1>4
<1>7. MainOrder'
  BY <1>3 DEF Order, MainOrder, Numbers, Upto, Adding
<1>8. head <= head' /\ \A h \in Heads : h <= head' => h <= head
  BY <1>3 DEF Order, Heads
<1> QED
  BY <1>1, <1>3, <1>5, <1>6, <1>7, <1>8, Frame DEF Order

LEMMA PushOrder == ASSUME ControlAssumption, Order, NEW onto, NEW m \in Nat, Push(onto, m) PROVE Order'
<1>1. onto \in 0..Len(main)
  <2>1. onto \in {base[head], Len(main)}
    BY DEF Push
  <2>2. base[head] \in Nat /\ base[head] <= Len(main) /\ Len(main) \in Nat
    BY DEF Order, MainOrder, Heads
  <2> QED
    BY <2>1, <2>2
<1>2. \A r \in Runner : At(r, "testing")' => run'[r] = run[r]
  BY DEF Push
<1> QED
  BY <1>1, <1>2, NewHead DEF Push

LEMMA AdvanceOrder == ASSUME Order, NEW m \in Nat, NEW clash, Advance(m, clash) PROVE Order'
<1>1. \A r \in Runner : At(r, "testing")' => run'[r] = run[r]
  BY DEF Advance
<1> QED
  BY <1>1, MainGoesOn DEF Advance, Checks

LEMMA OrderInit == ASSUME ControlAssumption, PullInit PROVE Order
<1>1. main = <<>> /\ base \in [Heads -> Nat] /\ adds \in [Heads -> Nat] /\ head \in Heads
      /\ gate = [h \in Heads |-> "none"] /\ run = [r \in Runner |-> Idle]
      /\ \A h \in Heads : base[h] = 0
  BY DEF PullInit, Opened, ControlAssumption, Heads
<1>2. Adding = {} /\ Numbers = {}
  BY <1>1 DEF Adding, Numbers
<1>3. MainOrder
  BY <1>1, <1>2, FS_EmptySet DEF MainOrder
<1>4. \A r \in Runner : ~At(r, "testing")
  BY <1>1 DEF At, Idle, Doing
<1> QED
  BY <1>1, <1>3, <1>4 DEF Order

LEMMA OrderNext == ASSUME ControlAssumption, Inv, Order, [PullNext]_pull PROVE Order'
<1>1. CASE \E r \in Runner : Control(r)
  BY <1>1, ControlOrder
<1>2. CASE \E r \in Runner : Kill(r)
  <2>1. PICK r \in Runner : Kill(r)
    BY <1>2
  <2>2. \A q \in Runner : At(q, "testing")' => run'[q] = run[q]
    BY <2>1, ControlRuns
  <2> QED
    BY <2>1, <2>2, OtherRun DEF Kill, Github, Checks
<1>3. CASE Inspect
  <2>1. \A q \in Runner : At(q, "testing")' => run'[q] = run[q]
    BY <1>3, ControlRuns DEF Runner
  <2> QED
    BY <1>3, <2>1, OtherRun DEF Inspect, Github
<1>4. CASE \E c \in CIRun : StartCI(c) \/ CIPasses(c) \/ CIFails(c)
  BY <1>4, StartCIOrder, VerdictOrder
<1>5. CASE \E onto \in 0..MaxMain, m \in 0..(MaxMain + 1) : Push(onto, m)
  <2>1. \A m \in 0..(MaxMain + 1) : m \in Nat
    BY DEF ControlAssumption
  <2> QED
    BY <1>5, <2>1, PushOrder
<1>6. CASE \E m \in 0..MaxMain, clash \in BOOLEAN : Advance(m, clash)
  <2>1. \A m \in 0..MaxMain : m \in Nat
    BY DEF ControlAssumption
  <2> QED
    BY <1>6, <2>1, AdvanceOrder
<1>7. CASE Edit \/ Fill
  BY <1>7, OtherRun DEF Edit, Fill, Github, Checks, At
<1>8. CASE UNCHANGED pull
  BY <1>8, OtherRun DEF pull, At
<1> QED
  BY <1>1, <1>2, <1>3, <1>4, <1>5, <1>6, <1>7, <1>8 DEF PullNext

\* Whatever is pushed, tested and merged at the same time, the migrations that land in main
\* are numbered one after the other, as long as the strict ruleset is applied: policy.py
\* looks at main when CI starts, and a merge needs that main to be the current one.
THEOREM MigrationsLandInOrder == ControlAssumption => (PullSpec => []MigrationsContiguous)
<1> SUFFICES ASSUME ControlAssumption PROVE PullSpec => []MigrationsContiguous
  OBVIOUS
<1>1. PullInit => Inv /\ Order
  BY InitInv, OrderInit
<1>2. Inv /\ Order /\ [PullNext]_pull => (Inv /\ Order)'
  BY NextInv, OrderNext
<1>3. Inv /\ Order => MigrationsContiguous
  BY DEF Order, MainOrder, MigrationsContiguous, Adding, Upto
<1> QED
  BY <1>1, <1>2, <1>3, PTL DEF PullSpec

-----------------------------------------------------------------------------
(* The claims of the developers.                                           *)

Claim == [branch : Branch, worker : Worker, state : {"CLAIMED", "WITHDRAWN", "DONE"}]
Planned == [step : {"off", "create", "comment", "work"}, branch : Branch \cup {NoBranch}]

\* The live claims of a developer on issues that were not reopened.
Held(w) == {c \in Own(w) : c.branch.issue \notin reopened}

\* A developer claims when it holds nothing, and nothing revives an old claim but the
\* reopening of its issue.
ClaimsInv ==
    /\ claims \subseteq Claim /\ plan \in [Worker -> Planned]
    /\ \A w \in Worker : plan[w].step # "off" => plan[w].branch \in Branch
    /\ \A w \in Worker : plan[w].step \in {"create", "comment"} => Held(w) = {}
    /\ \A w \in Worker : \A c, d \in Held(w) : c = d

LEMMA HeldForm ==
    \A w, c : c \in Held(w) <=>
        /\ c \in claims /\ c.worker = w /\ c.state = "CLAIMED" /\ c.branch.issue \notin reopened
        /\ open[c.branch.issue] \/ c.branch.issue \notin evidence
BY Zenon DEF Held, Own, Active, ClaimsOf, Terminal

\* What completes, reopens or terminates only takes claims away.
LEMMA HeldShrinks ==
    ASSUME \A c \in claims' : c \in claims \/ c.state # "CLAIMED",
           evidence \subseteq evidence', reopened \subseteq reopened',
           \A i \in Issue : open'[i] => open[i] \/ i \in reopened',
           claims' \subseteq Claim
    PROVE  \A w : Held(w)' \subseteq Held(w)
<1> SUFFICES ASSUME NEW w, NEW c, c \in Held(w)' PROVE c \in Held(w)
  BY Zenon
<1>1. /\ c \in claims' /\ c.worker = w /\ c.state = "CLAIMED" /\ c.branch.issue \notin reopened'
      /\ open'[c.branch.issue] \/ c.branch.issue \notin evidence'
  BY Zenon DEF Held, Own, Active, ClaimsOf, Terminal
<1>2. c.branch.issue \in Issue
  BY <1>1 DEF Claim, Branch
<1>3. open[c.branch.issue] \/ c.branch.issue \notin evidence
  BY <1>1, <1>2
<1> QED
  BY <1>1, <1>3, HeldForm

\* A step that leaves the developers' plans alone.
LEMMA ClaimsKept ==
    ASSUME ClaimsInv, UNCHANGED <<claims, plan>>,
           evidence \subseteq evidence', reopened \subseteq reopened',
           \A i \in Issue : open'[i] => open[i] \/ i \in reopened'
    PROVE  ClaimsInv'
<1>1. \A w : Held(w)' \subseteq Held(w)
  BY HeldShrinks DEF ClaimsInv
<1>2. claims' \subseteq Claim /\ plan' \in [Worker -> Planned]
      /\ \A w \in Worker : plan'[w].step # "off" => plan'[w].branch \in Branch
  BY DEF ClaimsInv
<1>3. \A w \in Worker : plan'[w].step \in {"create", "comment"} => Held(w)' = {}
  BY <1>1 DEF ClaimsInv
<1>4. \A w \in Worker : \A c, d \in Held(w)' : c = d
  BY <1>1 DEF ClaimsInv
<1> QED
  BY <1>2, <1>3, <1>4 DEF ClaimsInv

\* A developer's own step, which at most takes claims away and plans a claim only if
\* the developer holds nothing.
LEMMA OwnStep ==
    ASSUME ClaimsInv, NEW w \in Worker, NEW p \in Planned, plan' = [plan EXCEPT ![w] = p],
           p.step # "off" => p.branch \in Branch,
           p.step \in {"create", "comment"} => Held(w) = {},
           claims' \subseteq Claim, \A c \in claims' : c \in claims \/ c.state # "CLAIMED",
           UNCHANGED <<evidence, reopened, open>>
    PROVE  ClaimsInv'
<1>1. \A v : Held(v)' \subseteq Held(v)
  BY HeldShrinks
<1>2. plan \in [Worker -> Planned]
  BY DEF ClaimsInv
<1>3. plan' \in [Worker -> Planned] /\ plan'[w] = p /\ \A v \in Worker : v # w => plan'[v] = plan[v]
  BY <1>2
<1>4. \A v \in Worker : plan'[v].step # "off" => plan'[v].branch \in Branch
  BY <1>3 DEF ClaimsInv
<1>5. \A v \in Worker : plan'[v].step \in {"create", "comment"} => Held(v)' = {}
  BY <1>1, <1>3 DEF ClaimsInv
<1>6. \A v \in Worker : \A c, d \in Held(v)' : c = d
  BY <1>1 DEF ClaimsInv
<1> QED
  BY <1>3, <1>4, <1>5, <1>6 DEF ClaimsInv

LEMMA OffForm == Off \in Planned /\ Off.step = "off"
  BY DEF Off, Planned

LEMMA PlanForm ==
    ASSUME ClaimsInv, NEW w \in Worker, NEW step \in {"off", "create", "comment", "work"}, Plan(w, step)
    PROVE  /\ [step |-> step, branch |-> plan[w].branch] \in Planned
           /\ plan' = [plan EXCEPT ![w] = [step |-> step, branch |-> plan[w].branch]]
<1>1. plan[w] \in Planned
  BY DEF ClaimsInv
<1>2. [plan[w] EXCEPT !.step = step] = [step |-> step, branch |-> plan[w].branch]
  BY <1>1 DEF Planned
<1>3. plan' = [plan EXCEPT ![w] = [plan[w] EXCEPT !.step = step]]
  BY DEF Plan
<1> QED
  BY <1>1, <1>2, <1>3 DEF Planned

LEMMA ActivateClaims ==
    ASSUME ClaimsInv, NEW w \in Worker, NEW channel, Activate(w, channel), UNCHANGED reopened
    PROVE  ClaimsInv'
<1>1. UNCHANGED <<evidence, open, claims>>
  BY DEF Activate
<1>2. claims' \subseteq Claim /\ \A c \in claims' : c \in claims \/ c.state # "CLAIMED"
  BY <1>1 DEF ClaimsInv
<1> DEFINE d == Reconcile(w, channel)
<1>3. CASE /\ d.kind = "RESUME"
           /\ plan' = [plan EXCEPT ![w] = [step |-> "work", branch |-> d.branch]]
  <2>1. Own(w) # {} /\ d.branch = (CHOOSE c \in Own(w) : TRUE).branch
    BY <1>3 DEF Reconcile, Decision
  <2>2. (CHOOSE c \in Own(w) : TRUE) \in Own(w)
    BY <2>1
  <2>3. d.branch \in Branch
    BY <2>1, <2>2 DEF Own, ClaimsInv, Claim
  <2>4. [step |-> "work", branch |-> d.branch] \in Planned
    BY <2>3 DEF Planned
  <2> HIDE DEF d
  <2> QED
    BY <1>1, <1>2, <1>3, <2>3, <2>4, OwnStep
<1>4. CASE /\ d.kind = "CREATE_CLAIM" /\ d.branch \in Branch
           /\ plan' = [plan EXCEPT ![w] = [step |-> "create", branch |-> d.branch]]
  <2>1. Own(w) = {}
    BY <1>4 DEF Reconcile, Decision
  <2>2. Held(w) = {}
    BY <2>1 DEF Held
  <2>3. [step |-> "create", branch |-> d.branch] \in Planned
    BY <1>4 DEF Planned
  <2> HIDE DEF d
  <2> QED
    BY <1>1, <1>2, <1>4, <2>2, <2>3, OwnStep
<1> QED
  BY <1>3, <1>4 DEF Activate

LEMMA CreateClaims ==
    ASSUME ClaimsInv, NEW w \in Worker, CreateBranch(w), UNCHANGED reopened
    PROVE  ClaimsInv'
<1>1. UNCHANGED <<evidence, open, claims>> /\ plan[w].step = "create"
  BY DEF CreateBranch
<1>2. claims' \subseteq Claim /\ \A c \in claims' : c \in claims \/ c.state # "CLAIMED"
  BY <1>1 DEF ClaimsInv
<1>3. CASE plan' = [plan EXCEPT ![w] = Off]
  BY <1>1, <1>2, <1>3, OffForm, OwnStep
<1>4. CASE Plan(w, "comment")
  <2>1. Held(w) = {} /\ plan[w].branch \in Branch
    BY <1>1 DEF ClaimsInv
  <2>2. /\ [step |-> "comment", branch |-> plan[w].branch] \in Planned
        /\ plan' = [plan EXCEPT ![w] = [step |-> "comment", branch |-> plan[w].branch]]
    BY <1>4, PlanForm
  <2> QED
    BY <1>1, <1>2, <2>1, <2>2, OwnStep
<1> QED
  BY <1>3, <1>4 DEF CreateBranch

\* The claim itself: it becomes the only one its developer holds.
LEMMA CommentClaims ==
    ASSUME ClaimsInv, NEW w \in Worker, Comment(w), UNCHANGED reopened
    PROVE  ClaimsInv'
<1> DEFINE new == [branch |-> plan[w].branch, worker |-> w, state |-> "CLAIMED"]
           p == [step |-> "work", branch |-> plan[w].branch]
<1>1. /\ plan[w].step = "comment" /\ UNCHANGED <<evidence, open>> /\ claims' = claims \cup {new}
      /\ p \in Planned /\ plan' = [plan EXCEPT ![w] = p]
  BY PlanForm DEF Comment
<1>2. Held(w) = {} /\ plan[w].branch \in Branch /\ plan \in [Worker -> Planned] /\ claims \subseteq Claim
  BY <1>1 DEF ClaimsInv
<1>3. new \in Claim /\ new.worker = w
  BY <1>2 DEF Claim
<1>4. p.step = "work" /\ p.branch \in Branch
  BY <1>2
<1> HIDE DEF new, p
<1>5. \A v, c : c \in Held(v)' => c \in Held(v) \/ (c = new /\ v = w)
  <2>1. \A v, c : c \in Held(v)' =>
            /\ c \in claims' /\ c.worker = v /\ c.state = "CLAIMED" /\ c.branch.issue \notin reopened
            /\ open[c.branch.issue] \/ c.branch.issue \notin evidence
    BY <1>1, Zenon DEF Held, Own, Active, ClaimsOf, Terminal
  <2> QED
    BY <1>1, <1>3, <2>1, HeldForm
<1>6. plan' \in [Worker -> Planned] /\ plan'[w] = p /\ \A v \in Worker : v # w => plan'[v] = plan[v]
  BY <1>1, <1>2
<1>7. claims' \subseteq Claim
  BY <1>1, <1>2, <1>3
<1>8. \A v \in Worker : plan'[v].step # "off" => plan'[v].branch \in Branch
  BY <1>4, <1>6 DEF ClaimsInv
<1>9. \A v \in Worker : plan'[v].step \in {"create", "comment"} => Held(v)' = {}
  <2> SUFFICES ASSUME NEW v \in Worker, plan'[v].step \in {"create", "comment"}, NEW c, c \in Held(v)'
               PROVE  FALSE
    OBVIOUS
  <2>1. v # w
    BY <1>4, <1>6
  <2> QED
    BY <1>5, <1>6, <2>1 DEF ClaimsInv
<1>10. \A v \in Worker : \A c, d \in Held(v)' : c = d
  BY <1>2, <1>5 DEF ClaimsInv
<1> QED
  BY <1>6, <1>7, <1>8, <1>9, <1>10 DEF ClaimsInv

LEMMA RestClaims ==
    ASSUME ClaimsInv, NEW w \in Worker, Develop(w) \/ CutOff(w), UNCHANGED reopened
    PROVE  ClaimsInv'
<1>1. UNCHANGED <<evidence, open, claims>> /\ plan' = [plan EXCEPT ![w] = Off]
  BY DEF Develop, CutOff
<1>2. claims' \subseteq Claim /\ \A c \in claims' : c \in claims \/ c.state # "CLAIMED"
  BY <1>1 DEF ClaimsInv
<1> QED
  BY <1>1, <1>2, OffForm, OwnStep

LEMMA TerminateClaims ==
    ASSUME ClaimsInv, NEW w \in Worker, NEW c \in claims, Terminate(w, c), UNCHANGED reopened
    PROVE  ClaimsInv'
<1>1. UNCHANGED <<evidence, open>> /\ plan' = [plan EXCEPT ![w] = Off]
  BY DEF Terminate
<1>2. PICK state \in {"WITHDRAWN", "DONE"} : claims' = (claims \ {c}) \cup {[c EXCEPT !.state = state]}
  BY DEF Terminate
<1>3. c \in Claim /\ claims \subseteq Claim
  BY DEF ClaimsInv
<1>4. [c EXCEPT !.state = state] \in Claim /\ [c EXCEPT !.state = state].state # "CLAIMED"
  BY <1>3 DEF Claim
<1>5. claims' \subseteq Claim /\ \A d \in claims' : d \in claims \/ d.state # "CLAIMED"
  BY <1>2, <1>3, <1>4
<1> QED
  BY <1>1, <1>5, OffForm, OwnStep

LEMMA WorkingClaims ==
    ASSUME ClaimsInv, NEW w \in Worker, Working(w), UNCHANGED landing
    PROVE  ClaimsInv'
<1>1. UNCHANGED reopened
  BY DEF landing
<1> QED
  BY <1>1, ActivateClaims, CreateClaims, CommentClaims, RestClaims, TerminateClaims DEF Working

-----------------------------------------------------------------------------
(* The issues that are completed.                                          *)

Waiting == [owner : Owner, sha : Nat]
ConvRuns == [pc : {"idle", "suite", "list", "next", "close", "done"}, owner : Owner, sha : Nat,
             left : SUBSET Issue, target : Owner]

LandingTypeOK ==
    /\ tip \in Nat /\ open \in [Issue -> BOOLEAN] /\ evidence \subseteq Issue
    /\ mode \in [Issue -> Mode] /\ merge \in [Issue -> Nat]
    /\ after \in [Issue -> {"off", "dispatch", "delete"}]
    /\ pending \in Waiting /\ conv \in ConvRuns

\* What waits and what runs was merged, at the revision it names.
OwnersAreMerged ==
    /\ \A i \in Issue : after[i] = "dispatch" => merge[i] # 0
    /\ pending.owner \in Issue => merge[pending.owner] # 0 /\ merge[pending.owner] = pending.sha
    /\ conv.owner \in Issue => merge[conv.owner] # 0 /\ merge[conv.owner] = conv.sha

\* A run past its suite is at a validated revision, and turns only to issues that are
\* merged and completed by convergence.
ConvIsValidated(rec) ==
    /\ rec.pc \in {"list", "next", "close", "done"} => rec.sha \in validated
    /\ \A i \in rec.left : merge[i] # 0 /\ mode[i] = "convergence"
    /\ rec.pc \in {"close", "done"} =>
          /\ rec.target \in Issue /\ mode[rec.target] = "convergence"
          /\ merge[rec.target] # 0 /\ merge[rec.target] <= rec.sha

LandingInv == LandingTypeOK /\ OwnersAreMerged /\ ConvIsValidated(conv) /\ DoneIsConverged

LEMMA NoRunForm == /\ NoRun \in ConvRuns /\ NoRun.pc = "idle" /\ NoRun.owner = Nobody /\ NoRun.left = {}
                   /\ Nothing \in Waiting /\ Nothing.owner = Nobody
  BY DEF NoRun, Run, Nothing, ConvRuns, Waiting, Owner

\* A step of the convergence that touches nothing else.
LEMMA ConvStep ==
    ASSUME LifecycleAssumption, LandingInv, NEW rec \in ConvRuns, Conv(rec), OnlyConv,
           rec = NoRun \/ (rec.owner = conv.owner /\ rec.sha = conv.sha /\ ConvIsValidated(rec))
    PROVE  LandingInv'
<1>1. /\ conv' = rec
      /\ UNCHANGED <<tip, open, evidence, mode, merge, after, pending, validated>>
  BY DEF Conv, OnlyConv, board
<1>2. LandingTypeOK' /\ DoneIsConverged'
  BY <1>1 DEF LandingInv, LandingTypeOK, DoneIsConverged
<1>3. OwnersAreMerged'
  BY <1>1, NoRunForm DEF LandingInv, OwnersAreMerged, LifecycleAssumption
<1>4. ConvIsValidated(conv)'
  BY <1>1, NoRunForm DEF ConvIsValidated
<1> QED
  BY <1>2, <1>3, <1>4 DEF LandingInv

LEMMA RunForm ==
    \A pc, owner, sha, left, target : LET rec == Run(pc, owner, sha, left, target) IN
        /\ rec.pc = pc /\ rec.owner = owner /\ rec.sha = sha /\ rec.left = left /\ rec.target = target
        /\ pc \in {"idle", "suite", "list", "next", "close", "done"} /\ owner \in Owner /\ sha \in Nat
           /\ left \subseteq Issue /\ target \in Owner => rec \in ConvRuns
  BY DEF Run, ConvRuns

\* A convergence that goes on to another step.
LEMMA OnForm ==
    ASSUME LandingInv, NEW pc \in {"list", "next", "close", "done"},
           NEW left \in SUBSET Issue, NEW target \in Owner,
           conv.sha \in validated, \A i \in left : merge[i] # 0 /\ mode[i] = "convergence",
           pc \in {"close", "done"} => /\ target \in Issue /\ mode[target] = "convergence"
                                       /\ merge[target] # 0 /\ merge[target] <= conv.sha
    PROVE  /\ On(pc, left, target) \in ConvRuns
           /\ On(pc, left, target).owner = conv.owner /\ On(pc, left, target).sha = conv.sha
           /\ ConvIsValidated(On(pc, left, target))
<1>1. conv.owner \in Owner /\ conv.sha \in Nat
  BY DEF LandingInv, LandingTypeOK, ConvRuns
<1> QED
  BY <1>1, RunForm DEF On, ConvIsValidated

LEMMA MergePullLands ==
    ASSUME LandingInv, NEW b \in Branch, MergePull(b) PROVE LandingInv'
<1> DEFINE j == b.issue
<1>1. /\ j \in Issue /\ merge[j] = 0 /\ tip' = tip + 1 /\ merge' = [merge EXCEPT ![j] = tip + 1]
      /\ after' = [after EXCEPT ![j] = "dispatch"]
      /\ open' = open \/ (mode[j] = "convergence" /\ open' = [open EXCEPT ![j] = FALSE])
      /\ UNCHANGED <<evidence, mode, pending, conv, validated>>
  BY DEF MergePull, Branch
<1> HIDE DEF j
<1>2. /\ tip \in Nat /\ open \in [Issue -> BOOLEAN] /\ merge \in [Issue -> Nat]
      /\ after \in [Issue -> {"off", "dispatch", "delete"}]
  BY DEF LandingInv, LandingTypeOK
<1>3. merge' \in [Issue -> Nat] /\ merge'[j] # 0 /\ \A i \in Issue : merge[i] # 0 => merge'[i] = merge[i]
  BY <1>1, <1>2
<1>4. LandingTypeOK'
  BY <1>1, <1>2, <1>3 DEF LandingInv, LandingTypeOK
<1>5. OwnersAreMerged'
  BY <1>1, <1>2, <1>3 DEF LandingInv, OwnersAreMerged
<1>6. ConvIsValidated(conv)'
  BY <1>1, <1>3 DEF LandingInv, ConvIsValidated, LandingTypeOK, ConvRuns
<1>7. \A i \in evidence' : merge'[i] # 0 /\ \E sha \in validated' : merge'[i] <= sha
  BY <1>1, <1>3 DEF LandingInv, DoneIsConverged, LandingTypeOK
<1>8. \A i \in Issue : mode'[i] = "post_merge_acceptance" /\ ~open'[i] => i \in evidence'
  BY <1>1, <1>2 DEF LandingInv, DoneIsConverged
<1> QED
  BY <1>4, <1>5, <1>6, <1>7, <1>8 DEF LandingInv, DoneIsConverged

\* A step that at most lines up another convergence.
LEMMA LinedUp ==
    ASSUME LandingInv, UNCHANGED <<open, evidence, mode, merge, conv, validated>>,
           tip' \in Nat, after' \in [Issue -> {"off", "dispatch", "delete"}],
           \A i \in Issue : after'[i] = "dispatch" => after[i] = "dispatch",
           pending' \in Waiting,
           pending' = pending \/ (pending'.owner \in Issue =>
               merge[pending'.owner] # 0 /\ merge[pending'.owner] = pending'.sha)
    PROVE  LandingInv'
<1>1. LandingTypeOK' /\ DoneIsConverged'
  BY DEF LandingInv, LandingTypeOK, DoneIsConverged
<1>2. ConvIsValidated(conv)'
  BY DEF LandingInv, ConvIsValidated
<1>3. OwnersAreMerged'
  BY DEF LandingInv, OwnersAreMerged
<1> QED
  BY <1>1, <1>2, <1>3 DEF LandingInv

LEMMA LifecycleLands ==
    ASSUME LandingInv, NEW i \in Issue, DispatchConvergence(i) \/ DeleteBranch(i) \/ LoseLifecycle(i)
    PROVE  LandingInv'
<1>1. /\ tip \in Nat /\ merge \in [Issue -> Nat] /\ pending \in Waiting
      /\ after \in [Issue -> {"off", "dispatch", "delete"}]
  BY DEF LandingInv, LandingTypeOK
<1>2. CASE DispatchConvergence(i)
  <2>1. [owner |-> i, sha |-> merge[i]] \in Waiting
    BY <1>1 DEF Waiting, Owner
  <2>2. merge[i] # 0
    BY <1>2 DEF LandingInv, OwnersAreMerged, DispatchConvergence
  <2> QED
    BY <1>1, <1>2, <2>1, <2>2, LinedUp DEF DispatchConvergence, board
<1>3. CASE DeleteBranch(i)
  BY <1>1, <1>3, LinedUp DEF DeleteBranch
<1>4. CASE LoseLifecycle(i)
  BY <1>1, <1>4, LinedUp DEF LoseLifecycle, board
<1> QED
  BY <1>2, <1>3, <1>4

LEMMA OthersLand ==
    ASSUME LifecycleAssumption, LandingInv, OtherMerge \/ Rerun PROVE LandingInv'
<1>1. /\ tip \in Nat /\ merge \in [Issue -> Nat] /\ pending \in Waiting
      /\ after \in [Issue -> {"off", "dispatch", "delete"}]
  BY DEF LandingInv, LandingTypeOK
<1>2. CASE OtherMerge
  <2>1. [owner |-> Nobody, sha |-> tip + 1] \in Waiting
    BY <1>1 DEF Waiting, Owner
  <2> QED
    BY <1>1, <1>2, <2>1, LinedUp DEF OtherMerge, LifecycleAssumption
<1>3. CASE Rerun
  <2> DEFINE i == IF \E k \in Issue : merge[k] = tip THEN CHOOSE k \in Issue : merge[k] = tip ELSE Nobody
  <2>1. i \in Owner /\ (i \in Issue => merge[i] = tip)
    BY DEF Owner, LifecycleAssumption
  <2>2. pending' = [owner |-> i, sha |-> tip] /\ tip > 0
    BY <1>3 DEF Rerun
  <2> HIDE DEF i
  <2>3. pending' \in Waiting /\ pending'.owner = i /\ pending'.sha = tip
    BY <1>1, <2>1, <2>2 DEF Waiting
  <2>4. i \in Issue => merge[i] # 0
    BY <1>1, <2>1, <2>2
  <2> QED
    BY <1>1, <1>3, <2>1, <2>3, <2>4, LinedUp DEF Rerun, board
<1> QED
  BY <1>2, <1>3

LEMMA StartLands == ASSUME LifecycleAssumption, LandingInv, StartConvergence PROVE LandingInv'
<1>1. /\ pending' = Nothing /\ conv' = Run("suite", pending.owner, pending.sha, {}, Nobody)
      /\ UNCHANGED <<tip, open, evidence, mode, merge, after, validated>>
  BY DEF StartConvergence, Conv, board
<1>2. pending.owner \in Owner /\ pending.sha \in Nat
  BY DEF LandingInv, LandingTypeOK, Waiting
<1>3. /\ conv' \in ConvRuns /\ pending' \in Waiting /\ pending'.owner = Nobody
      /\ conv'.pc = "suite" /\ conv'.owner = pending.owner /\ conv'.sha = pending.sha /\ conv'.left = {}
  BY <1>1, <1>2, NoRunForm, RunForm DEF Owner
<1>4. LandingTypeOK' /\ DoneIsConverged'
  BY <1>1, <1>3 DEF LandingInv, LandingTypeOK, DoneIsConverged
<1>5. ConvIsValidated(conv)'
  BY <1>3 DEF ConvIsValidated
<1>6. OwnersAreMerged'
  BY <1>1, <1>3 DEF LandingInv, OwnersAreMerged, LifecycleAssumption
<1> QED
  BY <1>4, <1>5, <1>6 DEF LandingInv

\* The suite passes: the revision is validated from now on.
LEMMA FinalizeLands == ASSUME LifecycleAssumption, LandingInv, Finalize PROVE LandingInv'
<1>1. /\ validated' = validated \cup {conv.sha}
      /\ UNCHANGED <<tip, open, evidence, mode, merge, after, pending>>
  BY DEF Finalize, board
<1>2. conv \in ConvRuns /\ merge \in [Issue -> Nat] /\ conv.owner \in Owner /\ conv.sha \in Nat
  BY DEF LandingInv, LandingTypeOK, ConvRuns
<1>3. \/ /\ conv.owner \in Issue /\ mode[conv.owner] = "convergence"
         /\ conv' = Run("close", conv.owner, conv.sha, {}, conv.owner)
      \/ conv' = Run("list", conv.owner, conv.sha, {}, Nobody)
  BY <1>2 DEF Finalize, Conv, On, Owner
<1>4. conv' \in ConvRuns /\ conv'.owner = conv.owner /\ conv'.sha = conv.sha /\ conv'.left = {}
      /\ (conv'.pc \in {"close", "done"} =>
            conv'.target = conv.owner /\ conv.owner \in Issue /\ mode[conv.owner] = "convergence")
  BY <1>2, <1>3, RunForm DEF Owner
<1>5. LandingTypeOK'
  BY <1>1, <1>4 DEF LandingInv, LandingTypeOK
<1>6. OwnersAreMerged'
  BY <1>1, <1>4 DEF LandingInv, OwnersAreMerged
<1>7. ConvIsValidated(conv)'
  <2>1. conv'.sha \in validated'
    BY <1>1, <1>4
  <2>2. conv.owner \in Issue => merge[conv.owner] # 0 /\ merge[conv.owner] <= conv.sha
    BY <1>2 DEF LandingInv, OwnersAreMerged
  <2> QED
    BY <1>1, <1>4, <2>1, <2>2 DEF ConvIsValidated
<1>8. DoneIsConverged'
  BY <1>1 DEF LandingInv, DoneIsConverged
<1> QED
  BY <1>5, <1>6, <1>7, <1>8 DEF LandingInv

LEMMA SearchLands ==
    ASSUME LifecycleAssumption, LandingInv,
           SuiteFails \/ ListMerged \/ FinishConvergence \/ LoseConvergence \/ \E i \in Issue : Recover(i)
    PROVE  LandingInv'
<1>1. conv \in ConvRuns /\ conv.left \subseteq Issue /\ ConvIsValidated(conv) /\ Nobody \in Owner
  BY DEF LandingInv, LandingTypeOK, ConvRuns, Owner
<1>2. CASE SuiteFails \/ FinishConvergence \/ LoseConvergence
  BY <1>2, NoRunForm, ConvStep DEF SuiteFails, FinishConvergence, LoseConvergence
<1>3. CASE ListMerged
  <2>1. PICK listed \in Listings : Conv(On("next", listed, Nobody))
    BY <1>3 DEF ListMerged
  <2>2. listed \subseteq Issue /\ \A i \in listed : merge[i] # 0 /\ mode[i] = "convergence"
    BY DEF Listings, Merged
  <2>3. OnlyConv /\ conv.sha \in validated
    BY <1>1, <1>3 DEF ListMerged, ConvIsValidated
  <2> QED
    BY <1>1, <2>1, <2>2, <2>3, OnForm, ConvStep
<1>4. CASE \E i \in Issue : Recover(i)
  <2>1. PICK i \in Issue : Recover(i)
    BY <1>4
  <2>2. conv.pc = "next" /\ i \in conv.left /\ OnlyConv
    BY <2>1 DEF Recover
  <2>3. conv.sha \in validated /\ \A j \in conv.left : merge[j] # 0 /\ mode[j] = "convergence"
    BY <1>1, <2>2 DEF ConvIsValidated
  <2>4. i \in Owner /\ conv.left \ {i} \in SUBSET Issue
    BY <1>1 DEF Owner
  <2>5. CASE Stranded(i)
    <3>1. Conv(On("close", conv.left \ {i}, i)) /\ merge[i] <= conv.sha
      BY <2>1, <2>5 DEF Recover, Stranded
    <3> QED
      BY <2>2, <2>3, <2>4, <3>1, OnForm, ConvStep
  <2>6. CASE ~Stranded(i)
    <3>1. Conv(On("next", conv.left \ {i}, Nobody))
      BY <2>1, <2>6 DEF Recover
    <3> QED
      BY <1>1, <2>2, <2>3, <2>4, <3>1, OnForm, ConvStep
  <2> QED
    BY <2>5, <2>6
<1> QED
  BY <1>2, <1>3, <1>4

\* On to the next issue is a step of a validated convergence.
LEMMA CompletedForm ==
    ASSUME LandingInv, conv.pc \in {"close", "done"}
    PROVE  /\ Completed \in ConvRuns /\ Completed.owner = conv.owner /\ Completed.sha = conv.sha
           /\ ConvIsValidated(Completed)
<1>1. conv.left \in SUBSET Issue /\ Nobody \in Owner
  BY DEF LandingInv, LandingTypeOK, ConvRuns, Owner
<1>2. conv.sha \in validated /\ \A i \in conv.left : merge[i] # 0 /\ mode[i] = "convergence"
  BY DEF LandingInv, ConvIsValidated
<1>3. PICK pc \in {"list", "next"} : Completed = On(pc, conv.left, Nobody)
  BY DEF Completed
<1> QED
  BY <1>1, <1>2, <1>3, OnForm

LEMMA CloseLands == ASSUME LifecycleAssumption, LandingInv, Close PROVE LandingInv'
<1> DEFINE t == conv.target
<1>1. /\ conv.pc = "close" /\ t \in Issue /\ mode[t] = "convergence"
      /\ conv \in ConvRuns /\ open \in [Issue -> BOOLEAN]
  BY DEF Close, LandingInv, LandingTypeOK, ConvIsValidated
<1>2. UNCHANGED <<tip, evidence, mode, merge, after, pending, validated>>
  BY DEF Close
<1>3. /\ conv' \in ConvRuns /\ conv'.owner = conv.owner /\ conv'.sha = conv.sha
      /\ ConvIsValidated(conv')
      /\ open' = open \/ open' = [open EXCEPT ![t] = FALSE]
  <2>1. CASE open[t]
    <3>1. open' = [open EXCEPT ![t] = FALSE] /\ conv' = On("done", conv.left, t)
      BY <2>1 DEF Close, Conv
    <3>2. /\ conv.left \in SUBSET Issue /\ t \in Owner /\ conv.sha \in validated
          /\ \A i \in conv.left : merge[i] # 0 /\ mode[i] = "convergence"
          /\ merge[t] # 0 /\ merge[t] <= conv.sha
      BY <1>1 DEF LandingInv, ConvIsValidated, ConvRuns, Owner
    <3> QED
      BY <1>1, <3>1, <3>2, OnForm
  <2>2. CASE ~open[t]
    BY <1>1, <2>2, CompletedForm DEF Close, Conv
  <2> QED
    BY <2>1, <2>2
<1>4. LandingTypeOK'
  BY <1>1, <1>2, <1>3 DEF LandingInv, LandingTypeOK
<1>5. OwnersAreMerged'
  BY <1>2, <1>3 DEF LandingInv, OwnersAreMerged
<1>6. ConvIsValidated(conv)'
  BY <1>2, <1>3 DEF ConvIsValidated
<1>7. \A i \in Issue : mode'[i] = "post_merge_acceptance" /\ ~open'[i] => i \in evidence'
  <2> SUFFICES ASSUME NEW i \in Issue, mode[i] = "post_merge_acceptance", ~open'[i] PROVE i \in evidence
    BY <1>2
  <2>1. i # t
    BY <1>1
  <2>2. open'[i] = open[i]
    BY <1>1, <1>3, <2>1
  <2> QED
    BY <2>2 DEF LandingInv, DoneIsConverged
<1>8. \A i \in evidence' : merge'[i] # 0 /\ \E sha \in validated' : merge'[i] <= sha
  BY <1>2 DEF LandingInv, DoneIsConverged
<1> QED
  BY <1>4, <1>5, <1>6, <1>7, <1>8 DEF LandingInv, DoneIsConverged

LEMMA PostDoneLands == ASSUME LifecycleAssumption, LandingInv, PostDone PROVE LandingInv'
<1>1. /\ conv' = Completed /\ evidence' = evidence \cup {conv.target} /\ conv.pc = "done"
      /\ UNCHANGED <<tip, open, mode, merge, after, pending, validated>>
  BY DEF PostDone, Conv
<1>2. /\ conv.target \in Issue /\ merge[conv.target] # 0 /\ merge[conv.target] <= conv.sha
      /\ conv.sha \in validated
  BY <1>1 DEF LandingInv, ConvIsValidated
<1>3. /\ conv' \in ConvRuns /\ conv'.owner = conv.owner /\ conv'.sha = conv.sha /\ ConvIsValidated(conv')
  BY <1>1, CompletedForm
<1>4. LandingTypeOK'
  BY <1>1, <1>2, <1>3 DEF LandingInv, LandingTypeOK
<1>5. OwnersAreMerged'
  BY <1>1, <1>3 DEF LandingInv, OwnersAreMerged
<1>6. ConvIsValidated(conv)'
  BY <1>1, <1>3 DEF ConvIsValidated
<1>7. DoneIsConverged'
  BY <1>1, <1>2 DEF LandingInv, DoneIsConverged
<1> QED
  BY <1>4, <1>5, <1>6, <1>7 DEF LandingInv

\* People complete and reopen issues.
LEMMA PeopleLand ==
    ASSUME LandingInv, NEW i \in Issue, Accept(i) \/ Reopen(i) PROVE LandingInv'
<1>1. merge \in [Issue -> Nat] /\ open \in [Issue -> BOOLEAN]
  BY DEF LandingInv, LandingTypeOK
<1>2. /\ UNCHANGED <<tip, mode, merge, after, pending, conv, validated>>
      /\ \/ /\ open' = [open EXCEPT ![i] = FALSE] /\ evidence' = evidence \cup {i}
            /\ merge[i] # 0 /\ merge[i] \in validated
         \/ open' = [open EXCEPT ![i] = TRUE] /\ evidence' = evidence
  BY DEF Accept, Reopen, landing
<1>3. LandingTypeOK'
  BY <1>1, <1>2 DEF LandingInv, LandingTypeOK
<1>4. OwnersAreMerged' /\ ConvIsValidated(conv)'
  BY <1>2 DEF LandingInv, OwnersAreMerged, ConvIsValidated
<1>5. \A k \in evidence' : merge'[k] # 0 /\ \E sha \in validated' : merge'[k] <= sha
  BY <1>1, <1>2 DEF LandingInv, DoneIsConverged
<1>6. \A k \in Issue : mode'[k] = "post_merge_acceptance" /\ ~open'[k] => k \in evidence'
  BY <1>1, <1>2 DEF LandingInv, DoneIsConverged
<1> QED
  BY <1>3, <1>4, <1>5, <1>6 DEF LandingInv, DoneIsConverged

LEMMA WorkingLands == ASSUME LandingInv, NEW w, Working(w), UNCHANGED landing PROVE LandingInv'
<1>1. UNCHANGED <<tip, open, evidence, mode, merge, after, pending, conv, validated>>
  BY DEF Working, Activate, CreateBranch, Comment, Develop, CutOff, Terminate, landing
<1> QED
  BY <1>1 DEF LandingInv, LandingTypeOK, OwnersAreMerged, ConvIsValidated, DoneIsConverged

-----------------------------------------------------------------------------
(* The specification of the issues.                                        *)

IssueInv == ClaimsInv /\ LandingInv

\* The steps of the landing, as the claims see them.
LEMMA LandingClaims ==
    ASSUME IssueInv,
           \/ \E b \in Branch : MergePull(b)
           \/ \E i \in Issue : DispatchConvergence(i) \/ DeleteBranch(i) \/ LoseLifecycle(i)
           \/ OtherMerge \/ Rerun \/ Converging \/ LoseConvergence
           \/ \E i \in Issue : Accept(i) \/ Reopen(i)
    PROVE  ClaimsInv'
<1> ClaimsInv /\ open \in [Issue -> BOOLEAN]
  BY DEF IssueInv, LandingInv, LandingTypeOK
<1>1. CASE \E b \in Branch : MergePull(b)
  BY <1>1, ClaimsKept DEF MergePull
<1>2. CASE \E i \in Issue : DispatchConvergence(i) \/ DeleteBranch(i) \/ LoseLifecycle(i)
  BY <1>2, ClaimsKept DEF DispatchConvergence, DeleteBranch, LoseLifecycle, board
<1>3. CASE OtherMerge \/ Rerun
  BY <1>3, ClaimsKept DEF OtherMerge, Rerun, board
<1>4. CASE StartConvergence \/ SuiteFails \/ Finalize \/ ListMerged \/ FinishConvergence \/ LoseConvergence
  BY <1>4, ClaimsKept DEF StartConvergence, SuiteFails, Finalize, ListMerged, FinishConvergence,
                          LoseConvergence, OnlyConv, board
<1>5. CASE \E i \in Issue : Recover(i)
  BY <1>5, ClaimsKept DEF Recover, OnlyConv, board
<1>6. CASE Close
  BY <1>6, ClaimsKept DEF Close
<1>7. CASE PostDone
  BY <1>7, ClaimsKept DEF PostDone
<1>8. CASE \E i \in Issue : Accept(i) \/ Reopen(i)
  BY <1>8, ClaimsKept DEF Accept, Reopen, landing
<1> QED
  BY <1>1, <1>2, <1>3, <1>4, <1>5, <1>6, <1>7, <1>8 DEF Converging

LEMMA IssueInvInit == ASSUME LifecycleAssumption, IssueInit PROVE IssueInv
<1>1. ClaimsInv
  BY OffForm, HeldForm DEF IssueInit, ClaimsInit, ClaimsInv
<1>2. LandingInv
  BY NoRunForm DEF IssueInit, ClaimsInit, LandingInv, LandingTypeOK, OwnersAreMerged, ConvIsValidated,
                   DoneIsConverged, LifecycleAssumption
<1> QED
  BY <1>1, <1>2 DEF IssueInv

LEMMA IssueInvNext == ASSUME LifecycleAssumption, IssueInv, [IssueNext]_issues PROVE IssueInv'
<1>1. CASE (\E w \in Worker : Working(w)) /\ UNCHANGED landing
  BY <1>1, WorkingClaims, WorkingLands DEF IssueInv
<1>2. CASE \/ \E b \in Branch : MergePull(b)
           \/ \E i \in Issue : DispatchConvergence(i) \/ DeleteBranch(i) \/ LoseLifecycle(i)
           \/ OtherMerge \/ Rerun \/ Converging \/ LoseConvergence
           \/ \E i \in Issue : Accept(i) \/ Reopen(i)
  <2>1. ClaimsInv'
    BY <1>2, LandingClaims
  <2>2. LandingInv'
    BY <1>2, MergePullLands, LifecycleLands, OthersLand, StartLands, FinalizeLands, SearchLands,
       CloseLands, PostDoneLands, PeopleLand DEF IssueInv, Converging
  <2> QED
    BY <2>1, <2>2 DEF IssueInv
<1>3. CASE UNCHANGED issues
  <2>1. ClaimsInv'
    BY <1>3, ClaimsKept DEF IssueInv, issues, board, landing
  <2>2. LandingInv'
    BY <1>3 DEF IssueInv, LandingInv, LandingTypeOK, OwnersAreMerged, ConvIsValidated, DoneIsConverged,
                issues, board, landing
  <2> QED
    BY <2>1, <2>2 DEF IssueInv
<1> QED
  BY <1>1, <1>2, <1>3 DEF IssueNext

\* A DONE marker is only ever posted on an issue whose merge lies in a revision that
\* converged, and automation leaves an issue that awaits its acceptance open, whichever
\* convergence runs are lost, replaced or repeated.
THEOREM IssuesAreDoneOnce == LifecycleAssumption => (IssueSpec => []DoneIsConverged)
<1> SUFFICES ASSUME LifecycleAssumption PROVE IssueSpec => []DoneIsConverged
  OBVIOUS
<1>1. IssueInit => IssueInv
  BY IssueInvInit
<1>2. IssueInv /\ [IssueNext]_issues => IssueInv'
  BY IssueInvNext
<1>3. IssueInv => DoneIsConverged
  BY DEF IssueInv, LandingInv
<1> QED
  BY <1>1, <1>2, <1>3, PTL DEF IssueSpec

\* A developer never holds two live claims on issues that were not reopened.
THEOREM ClaimsAreExclusive == LifecycleAssumption => (IssueSpec => []OneClaimPerWorker)
<1> SUFFICES ASSUME LifecycleAssumption PROVE IssueSpec => []OneClaimPerWorker
  OBVIOUS
<1>1. IssueInit => IssueInv
  BY IssueInvInit
<1>2. IssueInv /\ [IssueNext]_issues => IssueInv'
  BY IssueInvNext
<1>3. IssueInv => OneClaimPerWorker
  <2> SUFFICES ASSUME IssueInv, NEW w \in Worker PROVE Cardinality(Held(w)) <= 1
    BY DEF OneClaimPerWorker, Held
  <2>1. \A c, d \in Held(w) : c = d
    BY DEF IssueInv, ClaimsInv
  <2>2. CASE Held(w) = {}
    BY <2>2, FS_EmptySet
  <2>3. CASE Held(w) # {}
    <3>1. PICK c : c \in Held(w)
      BY <2>3
    <3>2. Held(w) = {c}
      BY <2>1, <3>1
    <3> QED
      BY <3>2, FS_Singleton
  <2> QED
    BY <2>2, <2>3
<1> QED
  BY <1>1, <1>2, <1>3, PTL DEF IssueSpec
=============================================================================
