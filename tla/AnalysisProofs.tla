---------------------------- MODULE AnalysisProofs ----------------------------
(*****************************************************************************)
(* What is proved around an analysis: for every set of configurations, the   *)
(* intake policy has an error to raise whenever it ends without a draft,     *)
(* repeats and reviews only what it may, and reports an outage only when the *)
(* provider brought no output; for every corpus, plan and answer of a search,*)
(* the research keeps its budgets and says complete only of what is whole    *)
(* and in force; and the record of controlled validations, for any number of *)
(* attempts, any classes of failure and any bound on retries.                *)
(*****************************************************************************)
EXTENDS IntakeStructuring, ResearchContract, ValidationAttempts, PlanningProofs

-----------------------------------------------------------------------------
(* The policy of the intake.                                               *)

Kept(a) == a.evidence # "lost"

\* An attempt after which the primary model may be called again.
Repeatable(a) == a.outcome \in Invalid \cup {"timeout", "unavailable"} /\ Kept(a)

\* Output of the model was rejected, and stored as such.
Output(a) == a.outcome \in Invalid /\ Kept(a)

Running == {"check", "primary", "decide", "review"}

\* Where the run is and what it has to show for it.
Control ==
    /\ pc = "check" => log = <<>>
    /\ rejected # "none" => pc \in {"primary", "review"}
    /\ rejected # "none" /\ pc = "primary" => AttemptsLeft
    /\ pc \in {"check", "primary"} => providerError # "evidence"
    /\ pc = "decide" => providerError # "none"
    /\ pc \in {"review", "finish"} => lastInvalid # "none" \/ providerError # "none"
    /\ pc = "review" => config.review /\ ShouldReview

\* The primary attempts come first, each but the last one repeatable.
History ==
    /\ Primaries <= config.attempts
    /\ \A i \in 1..Len(log) - 1 : log[i].role = "primary"
    /\ pc \in Running => \A i \in 1..Len(log) : log[i].role = "primary"
    /\ \A i \in 1..Len(log) - 1 : log[i + 1].role = "primary" => Repeatable(log[i])
    /\ pc = "primary" /\ log # <<>> =>
          /\ Repeatable(log[Len(log)])
          /\ lastInvalid # "none" \/ providerError # "none"

\* What the two error variables remember of the log.
Memory ==
    /\ pc \in Running =>
          (lastInvalid # "none" <=> \E i \in 1..Len(log) : Output(log[i]))
    /\ lastInvalid = "none" /\ providerError # "evidence" /\ answer \notin {"draft", "limit"} =>
          \A i \in 1..Len(log) :
              /\ log[i].role = "primary"
              /\ log[i].outcome \notin {"valid", "output"} \cup Invalid

PolicyInv == TypeOK /\ Control /\ History /\ Memory /\ ReviewIsConfigured /\ OutageMeansNoOutput
-----------------------------------------------------------------------------
\* What one more attempt makes of the log.
LEMMA Grown ==
    ASSUME TypeOK, NEW a \in Attempt, log' = Append(log, a)
    PROVE  /\ log' \in Seq(Attempt) /\ Len(log') = Len(log) + 1
           /\ \A i \in 1..Len(log) : log'[i] = log[i]
           /\ log'[Len(log) + 1] = a
           /\ Primaries \in Nat
           /\ Primaries' = Primaries + (IF a.role = "primary" THEN 1 ELSE 0)
<1> DEFINE P == {i \in 1..Len(log) : log[i].role = "primary"}
<1>1. log \in Seq(Attempt) /\ Len(log) \in Nat
  BY DEF TypeOK
<1>2. /\ log' \in Seq(Attempt) /\ Len(log') = Len(log) + 1
      /\ \A i \in 1..Len(log) : log'[i] = log[i]
      /\ log'[Len(log) + 1] = a
  BY <1>1, SMT
<1>3. IsFiniteSet(P)
  BY <1>1, FS_Interval, FS_Subset, 1 \in Int, Len(log) \in Int
<1>4. Len(log) + 1 \notin P
  BY <1>1
<1>5. P' = IF a.role = "primary" THEN P \cup {Len(log) + 1} ELSE P
  BY <1>1, <1>2
<1>6. Cardinality(P) \in Nat
  BY <1>3, FS_CardinalityType
<1>7. Cardinality(P \cup {Len(log) + 1}) = Cardinality(P) + 1
  BY <1>3, <1>4, FS_AddElement
<1>8. Primaries = Cardinality(P) /\ Primaries' = Cardinality(P')
  BY DEF Primaries
<1> HIDE DEF P
<1>9. Primaries' = Primaries + (IF a.role = "primary" THEN 1 ELSE 0)
  BY <1>5, <1>6, <1>7, <1>8
<1> QED
  BY <1>2, <1>6, <1>8, <1>9

\* No attempt has been made when the log is empty.
LEMMA NoneYet == log = <<>> => Primaries = 0
<1> SUFFICES ASSUME log = <<>> PROVE Primaries = 0
  OBVIOUS
<1>1. {i \in 1..Len(log) : log[i].role = "primary"} = {}
  OBVIOUS
<1> QED
  BY <1>1, FS_EmptySet DEF Primaries

\* The policy starts with nothing done.
LEMMA PolicyInit == ASSUME ConfigAssumption, Init PROVE PolicyInv
<1>1. config \in Config /\ config.attempts \in Nat \ {0} /\ log = <<>> /\ Len(log) = 0
  BY DEF Init, ConfigAssumption
<1>2. TypeOK
  BY <1>1 DEF Init, TypeOK, Invalid
<1>3. Control /\ Memory /\ ReviewIsConfigured /\ OutageMeansNoOutput
  BY <1>1 DEF Init, Control, Memory, ReviewIsConfigured, OutageMeansNoOutput, Running
<1>4. History
  BY <1>1, NoneYet DEF Init, History
<1> QED
  BY <1>2, <1>3, <1>4 DEF PolicyInv

\* The steps that make no attempt: they only move on, and Finish has an error.
LEMMA QuietInv == ASSUME ConfigAssumption, PolicyInv, Check \/ Decide \/ Finish PROVE PolicyInv'
<1> USE DEF PolicyInv, Running
<1>1. UNCHANGED <<config, rejected, lastInvalid, providerError, log>>
  BY DEF Check, Decide, Finish
<1>2. config.attempts \in Nat \ {0} /\ Primaries' = Primaries
  BY <1>1 DEF ConfigAssumption, TypeOK, Primaries
<1>3. CASE Check
  <2>1. log = <<>> /\ Len(log) = 0
    BY <1>3 DEF Check, Control
  <2>2. TypeOK'
    BY <1>1, <1>3 DEF Check, Answer, TypeOK, Control
  <2>3. Control' /\ Memory' /\ ReviewIsConfigured' /\ OutageMeansNoOutput'
    BY <1>1, <1>3, <2>1 DEF Check, Answer, Control, Memory, TypeOK,
       ReviewIsConfigured, OutageMeansNoOutput
  <2>4. History'
    BY <1>1, <1>2, <1>3, <2>1 DEF Check, Answer, History
  <2> QED
    BY <2>2, <2>3, <2>4
<1>4. CASE Decide
  <2>1. lastInvalid # "none" \/ providerError # "none"
    BY <1>2, <1>4, NoneYet DEF Decide, Control, History, AttemptsLeft
  <2>2. TypeOK'
    BY <1>1, <1>4 DEF Decide, TypeOK
  <2>3. Control'
    BY <1>1, <1>4, <2>1 DEF Decide, Control, ShouldReview
  <2>4. History'
    BY <1>1, <1>2, <1>4 DEF Decide, History, Repeatable, Kept
  <2>5. Memory' /\ ReviewIsConfigured' /\ OutageMeansNoOutput'
    BY <1>1, <1>4 DEF Decide, Memory, Output, Kept, TypeOK, ReviewIsConfigured, OutageMeansNoOutput
  <2> QED
    BY <2>2, <2>3, <2>4, <2>5
<1>5. CASE Finish
  <2>1. pc = "finish" /\ pc' = "done" /\ answer' = Verdict /\ answer = "none"
    BY <1>5 DEF Finish, Answer, TypeOK
  <2>2. Verdict # "none" /\ Verdict \in {"invalid", "timeout", "unavailable", "evidence"}
    BY <2>1 DEF Verdict, Control, TypeOK
  <2>3. TypeOK' /\ Control'
    BY <1>1, <2>1, <2>2 DEF TypeOK, Control
  <2>4. History'
    BY <1>1, <1>2, <2>1 DEF History, Repeatable, Kept
  <2>5. Memory' /\ ReviewIsConfigured' /\ OutageMeansNoOutput'
    BY <1>1, <2>1, <2>2 DEF Verdict, Memory, Output, Kept, TypeOK,
       ReviewIsConfigured, OutageMeansNoOutput
  <2> QED
    BY <2>3, <2>4, <2>5
<1> QED
  BY <1>3, <1>4, <1>5

\* A call that is accepted ends the run; one that is rejected is remembered.
LEMMA CallInv == ASSUME ConfigAssumption, PolicyInv, NEW o \in Outcome, Call(o) PROVE PolicyInv'
<1> USE DEF PolicyInv, Running
<1>1. /\ rejected = "none" /\ pc \in {"primary", "review"} /\ answer = "none"
      /\ pc = "primary" => AttemptsLeft
      /\ UNCHANGED <<config, lastInvalid, providerError>>
  BY DEF Call, TypeOK
<1>2. config.attempts \in Nat \ {0}
  BY DEF ConfigAssumption, TypeOK
<1>3. CASE o = "valid"
  <2> DEFINE a == [role |-> pc, outcome |-> o, evidence |-> "none"]
  <2>1. log' = Append(log, a) /\ pc' = "done" /\ answer' = "draft" /\ UNCHANGED rejected
    BY <1>3 DEF Call, Answer
  <2>2. a \in Attempt /\ a.role = pc /\ a.outcome = "valid"
    BY <1>1, <1>3 DEF Attempt
  <2> HIDE DEF a
  <2>3. /\ log' \in Seq(Attempt) /\ Len(log') = Len(log) + 1 /\ Len(log) \in Nat
        /\ \A i \in 1..Len(log) : log'[i] = log[i]
        /\ log'[Len(log) + 1] = a
        /\ Primaries \in Nat
        /\ Primaries' = Primaries + (IF a.role = "primary" THEN 1 ELSE 0)
    BY <2>1, <2>2, Grown DEF TypeOK
  <2>4. TypeOK' /\ Control'
    BY <1>1, <2>1, <2>3 DEF TypeOK, Control
  <2>5. History'
    BY <1>1, <1>2, <2>1, <2>2, <2>3 DEF History, AttemptsLeft, Repeatable, Kept
  <2>6. Memory' /\ OutageMeansNoOutput'
    BY <2>1 DEF Memory, OutageMeansNoOutput
  <2>7. ReviewIsConfigured'
    BY <1>1, <2>1, <2>2, <2>3 DEF ReviewIsConfigured, History, Memory, Control, ShouldReview, Output, Kept
  <2> QED
    BY <2>4, <2>5, <2>6, <2>7
<1>4. CASE o # "valid"
  <2>1. rejected' = o /\ UNCHANGED <<pc, log, answer>> /\ Primaries' = Primaries
    BY <1>4 DEF Call, Primaries
  <2>2. TypeOK' /\ Control'
    BY <1>1, <1>4, <2>1 DEF TypeOK, Control, AttemptsLeft, ShouldReview, Outcome
  <2>3. History'
    BY <1>1, <2>1 DEF History, Repeatable, Kept
  <2>4. Memory' /\ ReviewIsConfigured' /\ OutageMeansNoOutput'
    BY <1>1, <2>1 DEF Memory, Output, Kept, ReviewIsConfigured, OutageMeansNoOutput
  <2> QED
    BY <2>2, <2>3, <2>4
<1> QED
  BY <1>3, <1>4

\* A rejection ends the run, goes to review, or leaves the primary model with
\* an attempt that may be repeated.
LEMMA RejectInv ==
    ASSUME ConfigAssumption, PolicyInv, NEW e \in {"none", "kept", "lost"}, Reject(e)
    PROVE  PolicyInv'
<1> USE DEF PolicyInv, Running
<1> DEFINE a == [role |-> pc, outcome |-> rejected, evidence |-> e]
           error == ErrorOf(rejected, e)
<1>1. /\ rejected \in Outcome \ {"valid"} /\ rejected' = "none"
      /\ pc \in {"primary", "review"} /\ answer = "none"
      /\ pc = "primary" => AttemptsLeft
      /\ config' = config /\ log' = Append(log, a)
  BY DEF Reject, Control, TypeOK
<1>2. /\ a \in Attempt /\ a.role = pc
      /\ a.outcome = rejected /\ a.evidence = e
  BY <1>1 DEF Attempt
<1>3. /\ e = "lost" => error = "evidence"
      /\ e # "lost" /\ rejected \in {"refused", "unsendable"} => error = "unavailable"
      /\ e # "lost" /\ rejected \notin {"refused", "unsendable"} => error = rejected
      /\ error \in Limit \cup Invalid \cup {"timeout", "unavailable", "evidence"}
  <2>1. /\ e = "lost" => error = "evidence"
        /\ e # "lost" /\ rejected \in {"refused", "unsendable"} => error = "unavailable"
        /\ e # "lost" /\ rejected \notin {"refused", "unsendable"} => error = rejected
    BY DEF ErrorOf
  <2> HIDE DEF error
  <2> QED
    BY <1>1, <2>1 DEF Outcome, Limit, Invalid
<1>4. \/ error \in Limit /\ pc' = "done" /\ answer' = "limit"
         /\ UNCHANGED <<lastInvalid, providerError>>
      \/ error \notin Limit /\ pc = "review" /\ pc' = "finish"
         /\ lastInvalid' = error /\ UNCHANGED <<providerError, answer>>
      \/ error \in Invalid /\ pc = "primary"
         /\ lastInvalid' = error /\ UNCHANGED <<pc, providerError, answer>>
      \/ error \notin Limit \cup Invalid /\ pc = "primary" /\ providerError' = error
         /\ pc' = (IF Retryable(rejected, e) THEN "primary" ELSE "decide")
         /\ UNCHANGED <<lastInvalid, answer>>
  BY DEF Reject, Answer
<1> HIDE DEF a, error
<1>5. /\ log' \in Seq(Attempt) /\ Len(log') = Len(log) + 1 /\ Len(log) \in Nat
      /\ \A i \in 1..Len(log) : log'[i] = log[i]
      /\ log'[Len(log) + 1] = a
      /\ Primaries \in Nat
      /\ Primaries' = Primaries + (IF a.role = "primary" THEN 1 ELSE 0)
  BY <1>1, <1>2, Grown DEF TypeOK
<1>6. config.attempts \in Nat \ {0} /\ log' # <<>>
  BY <1>5 DEF ConfigAssumption, TypeOK
<1>7. TypeOK'
  BY <1>1, <1>3, <1>4, <1>5 DEF TypeOK, Limit
<1>8. Control'
  BY <1>1, <1>3, <1>4, <1>6 DEF Control, Limit, Invalid, Retryable
<1>9. History'
  <2>1. Primaries' <= config'.attempts
    BY <1>1, <1>2, <1>5, <1>6 DEF History, AttemptsLeft
  <2>2. \A i \in 1..Len(log) : log'[i].role = "primary"
    BY <1>1, <1>5 DEF History
  <2>3. pc' \in Running => pc = "primary"
    BY <1>4
  <2>4. \A i \in 1..Len(log') - 1 : log'[i + 1].role = "primary" => Repeatable(log'[i])
    <3> SUFFICES ASSUME NEW i \in 1..Len(log), log'[i + 1].role = "primary"
                 PROVE  Repeatable(log[i])
      BY <1>5
    <3>1. CASE i < Len(log)
      BY <1>5, <3>1 DEF History
    <3>2. CASE i = Len(log)
      <4>1. pc = "primary" /\ log # <<>>
        BY <1>2, <1>5, <3>2
      <4> QED
        BY <4>1, <3>2 DEF History
    <3> QED
      BY <3>1, <3>2
  <2>5. pc' = "primary" => Repeatable(a) /\ (lastInvalid' # "none" \/ providerError' # "none")
    BY <1>2, <1>3, <1>4 DEF Repeatable, Kept, Retryable, Invalid, Limit
  <2>6. \A i \in 1..Len(log') - 1 : log'[i].role = "primary"
    BY <1>5, <2>2
  <2>7. pc' \in Running => \A i \in 1..Len(log') : log'[i].role = "primary"
    BY <1>2, <1>5, <2>2, <2>3
  <2>8. Repeatable(log'[Len(log')]) <=> Repeatable(a)
    BY <1>5
  <2> QED
    BY <2>1, <2>4, <2>5, <2>6, <2>7, <2>8 DEF History, Repeatable, Kept
<1>10. Memory'
  <2>1. Output(a) <=> rejected \in Invalid /\ e # "lost"
    BY <1>2 DEF Output, Kept
  <2>2. (\E i \in 1..Len(log') : Output(log'[i]))
           <=> Output(a) \/ \E i \in 1..Len(log) : Output(log[i])
    BY <1>5
  <2>3. pc' \in Running => pc = "primary" /\ (lastInvalid' # "none" <=> lastInvalid # "none" \/ Output(a))
    BY <1>1, <1>3, <1>4, <2>1 DEF Invalid, Limit, Outcome
  <2>4. pc' \in Running =>
          (lastInvalid' # "none" <=> \E i \in 1..Len(log') : Output(log'[i]))
    BY <2>2, <2>3 DEF Memory
  <2>5. ASSUME lastInvalid' = "none", providerError' # "evidence", answer' \notin {"draft", "limit"}
        PROVE  \A i \in 1..Len(log') :
                  /\ log'[i].role = "primary"
                  /\ log'[i].outcome \notin {"valid", "output"} \cup Invalid
    <3>1. pc = "primary" /\ lastInvalid = "none" /\ providerError # "evidence"
      BY <1>3, <1>4, <2>5 DEF Control, Invalid, Limit
    <3>2. rejected \notin {"valid", "output"} \cup Invalid
      BY <1>1, <1>3, <1>4, <2>5 DEF Invalid, Limit
    <3>3. \A i \in 1..Len(log) :
             /\ log[i].role = "primary"
             /\ log[i].outcome \notin {"valid", "output"} \cup Invalid
      BY <1>1, <3>1 DEF Memory
    <3> QED
      BY <1>2, <1>5, <3>1, <3>2, <3>3
  <2> QED
    BY <2>4, <2>5 DEF Memory, Output, Kept
<1>11. ReviewIsConfigured'
  <2>1. CASE pc = "primary"
    BY <1>1, <1>2, <1>5, <2>1 DEF ReviewIsConfigured, History
  <2>2. CASE pc = "review"
    <3>1. \A i \in 1..Len(log) : log'[i].role = "primary"
      BY <1>5, <2>2 DEF History
    <3>2. config.review /\ ShouldReview
      BY <2>2 DEF Control
    <3>3. (\E j \in 1..Len(log) : log'[j].outcome \in Invalid /\ log'[j].evidence # "lost")
             <=> lastInvalid # "none"
      BY <1>5, <2>2 DEF Memory, Output, Kept
    <3> QED
      BY <1>1, <1>5, <3>1, <3>2, <3>3 DEF ReviewIsConfigured, ShouldReview
  <2> QED
    BY <1>1, <2>1, <2>2
<1>12. OutageMeansNoOutput'
  BY <1>1, <1>4 DEF OutageMeansNoOutput
<1> QED
  BY <1>7, <1>8, <1>9, <1>10, <1>11, <1>12

-----------------------------------------------------------------------------
\* The invariant of the policy.
LEMMA Invariance == ASSUME ConfigAssumption PROVE Spec => []PolicyInv
<1>1. Init => PolicyInv
  BY PolicyInit
<1>2. PolicyInv /\ [Next]_vars => PolicyInv'
  <2> SUFFICES ASSUME PolicyInv, [Next]_vars PROVE PolicyInv'
    OBVIOUS
  <2>1. CASE Check \/ Decide \/ Finish
    BY <2>1, QuietInv
  <2>2. ASSUME NEW o \in Outcome, Call(o) PROVE PolicyInv'
    BY <2>2, CallInv
  <2>3. ASSUME NEW e \in {"none", "kept", "lost"}, Reject(e) PROVE PolicyInv'
    BY <2>3, RejectInv
  <2>4. CASE UNCHANGED vars
    BY <2>4 DEF vars, PolicyInv, TypeOK, Control, History, Memory, Running, Primaries, AttemptsLeft,
       ShouldReview, Repeatable, Output, Kept, ReviewIsConfigured, OutageMeansNoOutput
  <2> QED
    BY <2>1, <2>2, <2>3, <2>4 DEF Next
<1> QED
  BY <1>1, <1>2, PTL DEF Spec

\* Whenever the policy ends without a draft there is an error to answer with:
\* the final raise of structure() never has nothing to raise.
THEOREM StructuringTypeCorrect == ASSUME ConfigAssumption PROVE Spec => []TypeOK
<1>1. PolicyInv => TypeOK
  BY DEF PolicyInv
<1> QED
  BY <1>1, Invariance, PTL

\* The primary model is called at most as often as configured, and again only
\* after an attempt that may be repeated.
THEOREM RepeatsAllowed == ASSUME ConfigAssumption PROVE Spec => []RepeatsAreAllowed
<1>1. PolicyInv => RepeatsAreAllowed
  BY DEF PolicyInv, History, Repeatable, Kept, RepeatsAreAllowed
<1> QED
  BY <1>1, Invariance, PTL

\* The review model is the last one called and only for the kind of failure it
\* is configured for.
THEOREM ReviewConfigured == ASSUME ConfigAssumption PROVE Spec => []ReviewIsConfigured
<1>1. PolicyInv => ReviewIsConfigured
  BY DEF PolicyInv
<1> QED
  BY <1>1, Invariance, PTL

\* A case is reported as an outage of the provider only if no call brought output.
THEOREM OutageWithoutOutput == ASSUME ConfigAssumption PROVE Spec => []OutageMeansNoOutput
<1>1. PolicyInv => OutageMeansNoOutput
  BY DEF PolicyInv
<1> QED
  BY <1>1, Invariance, PTL

-----------------------------------------------------------------------------
(* The record of controlled validations.                                   *)

Entry ==
    [parent : Validation, class : Class, canonical : BOOLEAN,
     kind : {"initial", "diagnostic", "same_envelope", "post_fix", "amended", "new_baseline"},
     previous : Nat, retry : Nat, envelope : [Field -> {0, 1}]]

\* The failures a bounded retry may follow.
Retriable == {"A", "B", "D"}

\* Attempt b, recorded after a: a retry repeats a failure that allows one, and what the
\* kind of b keeps is kept.
Linked(a, b) ==
    /\ b.kind # "initial" /\ (b.canonical => b.kind # "diagnostic")
    /\ b.kind = "same_envelope" => a.class \in Retriable
    /\ \A f \in Stable(b.kind) : b.envelope[f] = a.envelope[f]

\* An attempt comes after its predecessor, and only the first of a validation or a
\* diagnostic has none.
Allowed(k) ==
    /\ attempts[k].previous \in 0..k - 1
    /\ attempts[k].previous = 0 => attempts[k].kind \in {"initial", "diagnostic"}
    /\ attempts[k].previous # 0 => Linked(attempts[attempts[k].previous], attempts[k])

\* What a disposition says of an attempt is what the attempt says.
Matches(d) ==
    /\ IsDisposition(d)
    /\ d.attempt \in DOMAIN attempts /\ d.class = attempts[d.attempt].class

\* The inductive invariant: neither a recorded attempt nor what is said of it changes.
RecordsInv ==
    /\ attempts \in Seq(Entry)
    /\ \A k \in DOMAIN attempts : Allowed(k)
    /\ \A d \in dispositions : Matches(d)

\* An attempt that is recorded leaves the earlier ones as they are.
LEMMA Appended ==
    ASSUME NEW S, NEW s \in Seq(S), NEW b \in S
    PROVE  /\ Append(s, b) \in Seq(S) /\ Len(s) \in Nat
           /\ DOMAIN s = 1..Len(s) /\ DOMAIN Append(s, b) = 1..Len(s) + 1
           /\ Append(s, b)[Len(s) + 1] = b
           /\ \A k \in DOMAIN s : k \in DOMAIN Append(s, b) /\ Append(s, b)[k] = s[k]
OBVIOUS

\* Nothing is recorded at first.
LEMMA RecordsInit == ASSUME AttemptsInit PROVE RecordsInv
<1>1. attempts \in Seq(Entry) /\ DOMAIN attempts = {} /\ dispositions = {}
  BY DEF AttemptsInit
<1> QED
  BY <1>1 DEF RecordsInv

\* A new attempt leaves those before it, and what was said of them, as they were.
LEMMA Added ==
    ASSUME RecordsInv, NEW b \in Entry, attempts' = Append(attempts, b), dispositions' = dispositions,
           b.previous \in 0..Len(attempts),
           b.previous = 0 => b.kind \in {"initial", "diagnostic"},
           b.previous # 0 => Linked(attempts[b.previous], b)
    PROVE  RecordsInv'
<1>1. attempts \in Seq(Entry)
  BY DEF RecordsInv
<1>2. /\ attempts' \in Seq(Entry) /\ Len(attempts) \in Nat
      /\ DOMAIN attempts = 1..Len(attempts) /\ DOMAIN attempts' = 1..Len(attempts) + 1
      /\ attempts'[Len(attempts) + 1] = b
      /\ \A k \in DOMAIN attempts : k \in DOMAIN attempts' /\ attempts'[k] = attempts[k]
  BY <1>1, Appended
<1>3. ASSUME NEW k \in DOMAIN attempts' PROVE Allowed(k)'
  <2>1. CASE k = Len(attempts) + 1
    <3>1. attempts'[k] = b /\ b.previous \in 0..k - 1
      BY <1>2, <2>1
    <3>2. b.previous # 0 => b.previous \in DOMAIN attempts /\ attempts'[b.previous] = attempts[b.previous]
      BY <1>2
    <3> QED
      BY <3>1, <3>2 DEF Allowed
  <2>2. CASE k \in DOMAIN attempts
    <3>1. Allowed(k)
      BY <2>2 DEF RecordsInv
    <3>2. k \in Nat /\ 1..k - 1 \subseteq DOMAIN attempts
      BY <1>2, <2>2
    <3> QED
      BY <1>2, <2>2, <3>1, <3>2 DEF Allowed
  <2> QED
    BY <1>2, <2>1, <2>2
<1>4. ASSUME NEW d \in dispositions' PROVE Matches(d)'
  BY <1>2 DEF RecordsInv, Matches
<1> QED
  BY <1>2, <1>3, <1>4 DEF RecordsInv

\* Every action on the records keeps what is known of them.
LEMMA RecordsStep == ASSUME RecordsInv, [AttemptsNext]_records PROVE RecordsInv'
<1>1. ASSUME NEW v \in Validation, NEW c \in Class, NEW k \in {"initial", "diagnostic"},
             Begin(v, c, k)
      PROVE  RecordsInv'
  <2> DEFINE a == NewAttempt(v, c, k, 0, 0, [f \in Field |-> 0])
  <2>1. a \in Entry /\ a.kind \in {"initial", "diagnostic"} /\ a.previous = 0
    BY DEF NewAttempt, Entry
  <2>3. 0 \in 0..Len(attempts)
    BY DEF RecordsInv
  <2>2. attempts' = Append(attempts, a) /\ dispositions' = dispositions
    BY <1>1 DEF Begin
  <2> HIDE DEF a
  <2> QED
    BY <2>1, <2>2, <2>3, Added
<1>2. ASSUME NEW n \in DOMAIN attempts, NEW c \in Class, NEW r \in 0..RetryLimit + 1,
             NEW k \in {"same_envelope", "post_fix", "amended", "new_baseline", "diagnostic"},
             NEW changed, Rerun(n, c, k, r, changed)
      PROVE  RecordsInv'
  <2> DEFINE b == NewAttempt(attempts[n].parent, c, k, n, r,
                     [f \in Field |-> IF f \in changed THEN 1 - attempts[n].envelope[f]
                                      ELSE attempts[n].envelope[f]])
  <2>1. /\ attempts' = Append(attempts, b) /\ dispositions' = dispositions
        /\ \E fixed, operational \in BOOLEAN : Succeeds(attempts[n], b, fixed, operational)
    BY <1>2 DEF Rerun
  <2>2. b.previous = n
    BY DEF NewAttempt
  <2>3. b \in Entry
    <3>1. attempts[n] \in Entry /\ n \in Nat /\ r \in Nat
      BY AttemptsAssumption DEF RecordsInv
    <3>2. attempts[n].parent \in Validation /\ attempts[n].envelope \in [Field -> {0, 1}]
      BY <3>1 DEF Entry
    <3>3. [f \in Field |-> IF f \in changed THEN 1 - attempts[n].envelope[f]
                           ELSE attempts[n].envelope[f]] \in [Field -> {0, 1}]
      BY <3>2
    <3> QED
      BY <3>1, <3>2, <3>3 DEF NewAttempt, Entry
  <2> HIDE DEF b
  <2>4. Linked(attempts[n], b)
    BY <2>1 DEF Succeeds, IsManifest, MayRepeat, Retriable, Linked
  <2>5. n \in 0..Len(attempts) /\ n # 0
    BY DEF RecordsInv
  <2> QED
    BY <2>1, <2>2, <2>3, <2>4, <2>5, Added
<1>3. ASSUME NEW n \in DOMAIN attempts, NEW resume, NEW b, NEW s, Dispose(n, resume, b, s)
      PROVE  RecordsInv'
  <2> DEFINE d == [attempt |-> n, parent |-> attempts[n].parent, class |-> attempts[n].class,
                   resume |-> resume, blockers |-> b, successor |-> s]
  <2>1. IsDisposition(d) /\ dispositions' = dispositions \cup {d} /\ attempts' = attempts
    BY <1>3 DEF Dispose
  <2>2. d.attempt = n /\ d.class = attempts[n].class
    OBVIOUS
  <2> HIDE DEF d
  <2>3. ASSUME NEW e \in dispositions' PROVE Matches(e)'
    BY <2>1, <2>2 DEF RecordsInv, Matches
  <2> QED
    BY <2>1, <2>3 DEF RecordsInv, Allowed
<1>4. CASE UNCHANGED records
  BY <1>4 DEF records, RecordsInv, Allowed, Matches
<1> QED
  BY <1>1, <1>2, <1>3, <1>4 DEF AttemptsNext

\* No validation that was closed for a systemic cause has been, or will be, repeated
\* unchanged unless that cause was operational: the two validators, which never look at
\* each other's records, agree in this.
THEOREM ClosedStaysClosed == AttemptsSpec => []ClosedForCause
<1>1. RecordsInv => ClosedForCause
  <2> SUFFICES ASSUME RecordsInv, NEW d \in dispositions, NEW k \in DOMAIN attempts, ~d.resume,
                      attempts[k].previous = d.attempt, attempts[k].kind = "same_envelope"
               PROVE  attempts[d.attempt].class = "D"
    BY DEF ClosedForCause
  <2>1. attempts[d.attempt].class \in Retriable
    <3>1. d.attempt \in DOMAIN attempts /\ DOMAIN attempts = 1..Len(attempts)
      BY DEF RecordsInv, Matches
    <3> QED
      BY <3>1 DEF RecordsInv, Allowed, Linked
  <2>2. attempts[d.attempt].class \in Systemic
    BY DEF RecordsInv, Matches, IsDisposition
  <2> QED
    BY <2>1, <2>2 DEF Retriable, Systemic
<1> QED
  BY <1>1, RecordsInit, RecordsStep, PTL DEF AttemptsSpec

\* A lineage is what its definition says: no attempt precedes itself.
LEMMA SinceForm ==
    ASSUME RecordsInv, NEW m \in Nat
    PROVE  \A k \in 0..Len(attempts) :
               Since(m)[k] = IF k <= m THEN {} ELSE {k} \cup Since(m)[attempts[k].previous]
<1> DEFINE L == Len(attempts)
           Solves(g, n) == g = [k \in 0..n |-> IF k <= m THEN {} ELSE {k} \cup g[attempts[k].previous]]
           G == {n \in Nat : n <= L => \E g : Solves(g, n)}
<1>1. L \in Nat /\ \A k \in 1..L : attempts[k].previous \in 0..k - 1
  BY DEF RecordsInv, Allowed
<1> HIDE DEF L
<1>2. 0 \in G
  <2>1. Solves([k \in 0..0 |-> {}], 0)
    OBVIOUS
  <2> QED
    BY <2>1
<1>3. ASSUME NEW n \in Nat, n \in G, n + 1 <= L PROVE \E g : Solves(g, n + 1)
  <2>1. PICK g : Solves(g, n)
    BY <1>1, <1>3
  <2> DEFINE h == [k \in 0..n + 1 |-> IF k <= n THEN g[k]
                                      ELSE IF k <= m THEN {} ELSE {k} \cup g[attempts[k].previous]]
  <2>2. /\ \A k \in 0..n : h[k] = g[k]
        /\ h[n + 1] = IF n + 1 <= m THEN {} ELSE {n + 1} \cup g[attempts[n + 1].previous]
        /\ h = [k \in 0..n + 1 |-> h[k]]
    <3>1. n + 1 \in 0..n + 1 /\ ~(n + 1 <= n)
      OBVIOUS
    <3> QED
      BY <3>1
  <2> HIDE DEF h
  <2>3. \A k \in 0..n : g[k] = IF k <= m THEN {} ELSE {k} \cup g[attempts[k].previous]
    BY <2>1
  <2>4. \A k \in 1..n + 1 : attempts[k].previous \in 0..n
    BY <1>1, <1>3
  <2>5. ASSUME NEW k \in 0..n + 1
        PROVE  h[k] = IF k <= m THEN {} ELSE {k} \cup h[attempts[k].previous]
    <3>1. ~(k <= m) => k \in 1..n + 1
      OBVIOUS
    <3>2. ~(k <= m) => h[attempts[k].previous] = g[attempts[k].previous]
      BY <2>2, <2>4, <3>1
    <3>3. CASE k = n + 1
      BY <2>2, <3>2, <3>3
    <3>4. CASE k \in 0..n
      BY <2>2, <2>3, <3>2, <3>4
    <3> QED
      BY <3>3, <3>4
  <2>6. Solves(h, n + 1)
    BY <2>2, <2>5
  <2> QED
    BY <2>6
<1>4. \A n \in Nat : n \in G
  <2> HIDE DEF G, Solves
  <2>1. \A n \in Nat : n \in G => n + 1 \in G
    BY <1>3 DEF G
  <2> QED
    BY <1>2, <2>1, NatSet
<1>5. \E g : Solves(g, L)
  <2>1. L \in G
    BY <1>1, <1>4
  <2> QED
    BY <1>1, <2>1
<1>6. Since(m) = CHOOSE g : Solves(g, L)
  BY DEF Since, L
<1>7. Solves(Since(m), L)
  BY <1>5, <1>6
<1> QED
  BY <1>7 DEF L

\* What differs between two attempts is accounted for by the attempts of a path.
Differs(m, n, f) == attempts[m].envelope[f] # attempts[n].envelope[f]
Declared(path, kinds) == \E k \in path : attempts[k].kind \in kinds
Accounted(m, n, path) ==
    /\ ~Differs(m, n, "input") /\ ~Differs(m, n, "provider")
    /\ (\E f \in {"profile_id", "profile_sha", "generation"} : Differs(m, n, f))
          => Declared(path, {"amended"})
    /\ Differs(m, n, "baseline") \/ Differs(m, n, "raw_evidence") => Declared(path, {"new_baseline"})
    /\ Differs(m, n, "code") => Declared(path, {"post_fix", "amended", "new_baseline"})

AllCanonical(path) == \A k \in path : attempts[k].canonical

\* One step of a lineage: a canonical attempt declares what it changed by its kind.
LEMMA StepAccounted ==
    ASSUME RecordsInv, NEW n \in DOMAIN attempts, attempts[n].previous # 0, attempts[n].canonical
    PROVE  Accounted(attempts[n].previous, n, {n})
<1>1. Linked(attempts[attempts[n].previous], attempts[n]) /\ attempts[n] \in Entry
  BY DEF RecordsInv, Allowed
<1>2. attempts[n].kind \in {"same_envelope", "post_fix", "amended", "new_baseline"}
  BY <1>1 DEF Linked, Entry
<1>3. \A f \in Stable(attempts[n].kind) : ~Differs(attempts[n].previous, n, f)
  BY <1>1 DEF Linked, Differs
<1>4. CASE attempts[n].kind = "same_envelope"
  BY <1>3, <1>4 DEF Accounted, Stable, Field
<1>5. CASE attempts[n].kind = "post_fix"
  BY <1>3, <1>5 DEF Accounted, Declared, Stable, Field
<1>6. CASE attempts[n].kind = "amended"
  BY <1>3, <1>6 DEF Accounted, Declared, Stable
<1>7. CASE attempts[n].kind = "new_baseline"
  BY <1>3, <1>7 DEF Accounted, Declared, Stable
<1> QED
  BY <1>2, <1>4, <1>5, <1>6, <1>7

\* What was declared on the way to an attempt and by it is declared behind it.
LEMMA AccountedOn ==
    ASSUME NEW m, NEW p, NEW n, NEW path, Accounted(m, p, path), Accounted(p, n, {n})
    PROVE  Accounted(m, n, {n} \cup path)
<1>1. \A f : Differs(m, n, f) => Differs(m, p, f) \/ Differs(p, n, f)
  BY DEF Differs
<1>2. \A kinds : Declared(path, kinds) \/ Declared({n}, kinds) => Declared({n} \cup path, kinds)
  BY DEF Declared
<1> QED
  BY <1>1, <1>2 DEF Accounted

\* By induction along the lineage.
LEMMA LineageAccounted ==
    ASSUME RecordsInv
    PROVE  \A n \in DOMAIN attempts : \A m \in 1..n - 1 :
               Lineage(m, n) # {} /\ AllCanonical(Lineage(m, n) \cup {m}) => Accounted(m, n, Lineage(m, n))
<1> DEFINE Good(n) == \A m \in 1..n - 1 :
               Lineage(m, n) # {} /\ AllCanonical(Lineage(m, n) \cup {m}) => Accounted(m, n, Lineage(m, n))
           G == {n \in Nat : \A j \in 1..n : j \in DOMAIN attempts => Good(j)}
<1>1. DOMAIN attempts = 1..Len(attempts) /\ Len(attempts) \in Nat
  BY DEF RecordsInv
<1>2. ASSUME NEW n \in DOMAIN attempts, \A j \in 1..n - 1 : j \in DOMAIN attempts => Good(j)
      PROVE  Good(n)
  <2> SUFFICES ASSUME NEW m \in 1..n - 1, Lineage(m, n) # {}, AllCanonical(Lineage(m, n) \cup {m})
               PROVE  Accounted(m, n, Lineage(m, n))
    OBVIOUS
  <2> DEFINE p == attempts[n].previous
  <2>1. /\ m \in Nat /\ n \in Nat /\ ~(n <= m) /\ n \in 0..Len(attempts)
        /\ p \in 0..n - 1 /\ p \in 0..Len(attempts) /\ (p # 0 => p \in DOMAIN attempts)
    BY <1>1 DEF RecordsInv, Allowed
  <2> HIDE DEF p
  <2>2. /\ Since(m)[n] = {n} \cup Since(m)[p]
        /\ p <= m => Since(m)[p] = {}
        /\ ~(p <= m) => p \in Since(m)[p]
    <3>1. \A k \in 0..Len(attempts) :
              Since(m)[k] = IF k <= m THEN {} ELSE {k} \cup Since(m)[attempts[k].previous]
      BY <2>1, SinceForm
    <3>2. Since(m)[n] = {n} \cup Since(m)[attempts[n].previous]
      BY <2>1, <3>1
    <3>3. Since(m)[p] = IF p <= m THEN {} ELSE {p} \cup Since(m)[attempts[p].previous]
      BY <2>1, <3>1
    <3> QED
      BY <3>2, <3>3 DEF p
  <2>3. Lineage(m, n) = {n} \cup Since(m)[p] /\ \E k \in {n} \cup Since(m)[p] : attempts[k].previous = m
    BY <2>2 DEF Lineage
  <2>4. attempts[n].canonical
    BY <2>3 DEF AllCanonical
  <2>5. CASE p <= m
    <3>1. p = m /\ Lineage(m, n) = {n}
      BY <2>2, <2>3, <2>5 DEF p
    <3>2. p # 0
      BY <3>1
    <3> QED
      BY <2>4, <3>1, <3>2, StepAccounted DEF p
  <2>6. CASE ~(p <= m)
    <3>1. p # 0 /\ p # m /\ p \in 1..n - 1 /\ m \in 1..p - 1 /\ p \in DOMAIN attempts
      BY <2>1, <2>6
    <3>2. Lineage(m, p) = Since(m)[p] /\ Lineage(m, p) # {}
      <4>1. \E k \in Since(m)[p] : attempts[k].previous = m
        BY <2>3, <3>1 DEF p
      <4> QED
        BY <4>1 DEF Lineage
    <3>3. AllCanonical(Lineage(m, p) \cup {m})
      BY <2>3, <3>2 DEF AllCanonical
    <3>4. Accounted(m, p, Lineage(m, p))
      BY <1>2, <3>1, <3>2, <3>3
    <3>5. Accounted(p, n, {n})
      BY <2>4, <3>1, StepAccounted DEF p
    <3> QED
      BY <2>3, <3>2, <3>4, <3>5, AccountedOn
  <2> QED
    BY <2>5, <2>6
<1> HIDE DEF Good
<1>3. 0 \in G
  OBVIOUS
<1>4. \A n \in Nat : n \in G => n + 1 \in G
  <2> SUFFICES ASSUME NEW n \in Nat, n \in G PROVE n + 1 \in G
    OBVIOUS
  <2>1. \A j \in 1..n : j \in DOMAIN attempts => Good(j)
    OBVIOUS
  <2>2. n + 1 \in DOMAIN attempts => Good(n + 1)
    <3>1. (n + 1) - 1 = n
      OBVIOUS
    <3> QED
      BY <1>2, <2>1, <3>1
  <2>3. \A j \in 1..n + 1 : j \in 1..n \/ j = n + 1
    OBVIOUS
  <2> QED
    BY <2>1, <2>2, <2>3
<1> HIDE DEF G
<1>5. \A n \in Nat : n \in G
  BY <1>3, <1>4, NatSet
<1> QED
  BY <1>1, <1>5 DEF G, Good

\* However long a lineage of canonical attempts is, what its last attempt changed since
\* any of them was declared by the kind of one in between.
THEOREM EveryChangeIsDeclared == AttemptsSpec => []ChangesAreDeclared
<1>1. RecordsInv => ChangesAreDeclared
  <2> SUFFICES ASSUME RecordsInv PROVE ChangesAreDeclared
    OBVIOUS
  <2>1. \A n \in DOMAIN attempts : \A m \in 1..n - 1 :
               Lineage(m, n) # {} /\ AllCanonical(Lineage(m, n) \cup {m}) => Accounted(m, n, Lineage(m, n))
    BY LineageAccounted
  <2> QED
    BY <2>1 DEF ChangesAreDeclared, AllCanonical, Accounted, Declared, Differs
<1> QED
  BY <1>1, RecordsInit, RecordsStep, PTL DEF AttemptsSpec

-----------------------------------------------------------------------------
(* The research.  What a search may bring, and the trace step of a task.   *)
Offered == UNION {Range(all) : all \in Findings}
Named == {hit.doc : hit \in Offered}
Cited == {hit.span : hit \in Offered} \cup (UNION {Range(hit.context) : hit \in Offered})

Steps == [outcome : {"hits", "no_hits", "budget_exhausted"}, retrieved : SUBSET Named,
          selected : SUBSET Named, spans : SUBSET Cited]

\* The tasks that were begun, the one being read included, and what is known of them.
Begun == DOMAIN found
StepOf(t) == IF t \in DOMAIN trace THEN trace[t] ELSE step

\* Where the research is: a plan is executed task by task, in its order.
Progress ==
    /\ intake \in Intakes /\ corpus \in Corpora /\ date \in Dates
    /\ stage \in {"plan", "search", "read", "ended", "failed"}
    /\ found \in Seq(Findings) /\ hits \in Seq(Offered)
    /\ trace \in Seq(Steps) /\ step \in Steps
    /\ stage \in {"plan", "failed"} => found = <<>> /\ trace = <<>> /\ chosen = <<>> /\ plan = NoPlan
    /\ stage \in {"search", "read", "ended"} =>
          /\ plan = BuildPlan(intake) /\ PlanAccepted(intake, plan)
          /\ DOMAIN chosen = DOMAIN plan.aspects
    /\ Len(found) = IF stage = "read" THEN Len(trace) + 1 ELSE Len(trace)
    /\ Len(found) <= Len(plan.tasks)
    /\ stage = "ended" => Len(trace) = Len(plan.tasks) /\ result = Result

\* What was chosen is part of the evidence, and no budget is exceeded.
Within ==
    /\ IsFiniteSet(authorities) /\ Cardinality(authorities) <= MaxAuthorities
    /\ IsFiniteSet(evidence) /\ Cardinality(evidence) <= MaxSpans
    /\ chosen \in [DOMAIN chosen -> SUBSET evidence]
    /\ expansions \in [DOMAIN chosen -> Nat]
    /\ \A a \in DOMAIN chosen :
          Cardinality(chosen[a]) <= MaxEvidence /\ expansions[a] <= MaxContext

\* Trace and evidence name admitted documents only, and those are in the corpus.
Owned ==
    /\ authorities \subseteq DOMAIN corpus.documents
    /\ \A span \in evidence : span.doc \in authorities
    /\ \A t \in Begun : /\ StepOf(t).retrieved \cup StepOf(t).selected \subseteq authorities
                        /\ StepOf(t).spans \subseteq evidence

\* A selection says of its document what the corpus says of it.
Attested ==
    \A s \in selections :
      /\ s.task \in Begun /\ s.aspect = plan.tasks[s.task].aspect
      /\ s.authority \in StepOf(s.task).selected
      /\ s.spans \subseteq chosen[s.aspect]
      /\ \A span \in s.spans : span.doc = s.authority
      /\ s.temporal = TemporalOf(s.authority) /\ s.standing = AuthorityOf(s.authority)

\* Items of a task have the category their cause calls for.
Unidentified == {"segment", "span"}
Filed ==
    \A i \in items : i.task # 0 =>
      (i.category = "unresolved_identity" <=> i.why[1] \in Unidentified)

\* A hit of a task that was begun is selected with its context, or the task has something
\* to say against itself, or the hit is still to be read.
Doubted(t) ==
    \/ StepOf(t).outcome = "budget_exhausted"
    \/ \E i \in items : i.task = t /\ i.category = "unresolved_identity"
    \/ \E s \in selections : s.task = t /\ s.context = "incomplete"

Whole(st, hit) ==
    /\ hit.doc # NoDoc /\ hit.span # NoSpan /\ (hit.cites => ~hit.gap)
    /\ ({hit.span} \cup (IF hit.cites THEN Range(hit.context) ELSE {})) \subseteq st.spans

Heard ==
    \A t \in Begun : \A hit \in Range(found[t]) :
      \/ Whole(StepOf(t), hit)
      \/ Doubted(t)
      \/ stage = "read" /\ t = Current /\ hit \in Range(hits)

ResearchInv ==
    Progress /\ Within /\ Owned /\ Attested /\ Filed /\ Heard

-----------------------------------------------------------------------------
\* The least and the greatest of two numbers.
LEMMA OfTwo ==
    ASSUME NEW a \in Int, NEW b \in Int
    PROVE  /\ Min({a, b}) = IF a <= b THEN a ELSE b
           /\ Max({a, b}) = IF a >= b THEN a ELSE b
<1>1. PICK m \in {a, b} : m = IF a <= b THEN a ELSE b
  OBVIOUS
<1>2. \A x \in {a, b} : (\A y \in {a, b} : x <= y) <=> x = m
  BY <1>1
<1>3. PICK n \in {a, b} : n = IF a >= b THEN a ELSE b
  OBVIOUS
<1>4. \A x \in {a, b} : (\A y \in {a, b} : x >= y) <=> x = n
  BY <1>3
<1> QED
  BY <1>1, <1>2, <1>3, <1>4 DEF Min, Max

\* What a search brings is a sequence of hits that were offered.
LEMMA Answers ==
    ASSUME NEW all \in Findings
    PROVE  /\ all \in Seq(Offered) /\ Len(all) \in Nat /\ Len(all) <= MaxHits + 1
           /\ Range(all) \subseteq Offered
           /\ MaxHits \in Nat
           /\ Len(all) > MaxHits => SubSeq(all, 1, MaxHits) \in Seq(Offered)
<1>1. Range(all) \subseteq Offered
  BY DEF Offered
<1>2. all \in Seq(Range(all)) /\ Len(all) <= MaxHits + 1 /\ MaxHits \in Nat
  BY ResearchAssumption
<1>3. all \in Seq(Offered) /\ Len(all) \in Nat
  BY <1>1, <1>2, SeqMonotonic
<1>4. Len(all) > MaxHits => SubSeq(all, 1, MaxHits) \in Seq(Offered)
  <2>1. \A i \in 1..MaxHits : Len(all) > MaxHits => all[i] \in Offered
    BY <1>2, <1>3
  <2> QED
    BY <1>2, <1>3, <2>1, SubSeqProperties
<1> QED
  BY <1>1, <1>2, <1>3, <1>4

\* A hit that was offered.
LEMMA HitForm ==
    ASSUME NEW hit \in Offered
    PROVE  /\ hit.cites \in BOOLEAN /\ hit.gap \in BOOLEAN
           /\ hit.context \in Seq(Range(hit.context)) /\ Len(hit.context) \in Nat
           /\ hit.doc \in Named /\ hit.span \in Cited /\ Range(hit.context) \subseteq Cited
           /\ hit.doc # NoDoc => \A known \in Corpora : hit.doc \in DOMAIN known.documents
           /\ hit.doc # NoDoc /\ hit.span # NoSpan => hit.span.doc = hit.doc
<1>1. PICK all \in Findings : hit \in Range(all)
  BY DEF Offered
<1>2. /\ hit.cites \in BOOLEAN /\ hit.gap \in BOOLEAN
      /\ hit.context \in Seq(Range(hit.context))
      /\ hit.doc # NoDoc =>
            /\ \A known \in Corpora : hit.doc \in DOMAIN known.documents
            /\ hit.span # NoSpan => hit.span.doc = hit.doc
  BY <1>1, ResearchAssumption
<1>3. hit.doc \in Named /\ hit.span \in Cited /\ Range(hit.context) \subseteq Cited
  BY DEF Named, Cited
<1> QED
  BY <1>2, <1>3

\* What is offered, and what a step records of it.
LEMMA StepForm ==
    ASSUME NEW st \in Steps, NEW hit \in Offered
    PROVE  /\ [st EXCEPT !.outcome = "budget_exhausted"] \in Steps
           /\ [st EXCEPT !.retrieved = @ \cup {hit.doc}] \in Steps
           /\ \A spans \in SUBSET Cited :
                 [outcome |-> st.outcome, retrieved |-> st.retrieved \cup {hit.doc},
                  selected |-> st.selected \cup {hit.doc}, spans |-> st.spans \cup spans] \in Steps
<1>1. hit.doc \in Named
  BY DEF Named
<1> QED
  BY <1>1 DEF Steps

\* A step that reads a hit reads the first, and leaves the other ones.
LEMMA Read1 ==
    ASSUME Progress, NEW hit, Reading(hit)
    PROVE  /\ stage = "read" /\ hits # <<>> /\ hit = hits[1] /\ hit \in Offered
           /\ hits' = Tail(hits) /\ hits' \in Seq(Offered)
           /\ \A other \in Range(hits) : other = hit \/ other \in Range(hits')
<1>1. hits \in Seq(Offered) /\ hits # <<>> /\ hit = hits[1] /\ hits' = Tail(hits) /\ stage = "read"
  BY DEF Progress, Reading
<1>2. /\ Len(hits) \in Nat \ {0} /\ hits' \in Seq(Offered) /\ Len(hits') = Len(hits) - 1
      /\ \A i \in 1..Len(hits') : hits'[i] = hits[i + 1]
  BY <1>1, HeadTailProperties
<1>3. hit \in Offered
  BY <1>1, <1>2
<1>4. ASSUME NEW other \in Range(hits) PROVE other = hit \/ other \in Range(hits')
  <2>1. PICK i \in 1..Len(hits) : other = hits[i]
    BY <1>1 DEF Range
  <2>2. CASE i = 1
    BY <2>1, <2>2, <1>1
  <2>3. CASE i # 1
    <3>1. i - 1 \in DOMAIN hits' /\ hits'[i - 1] = other
      BY <2>1, <2>3, <1>2
    <3> QED
      BY <3>1 DEF Range
  <2> QED
    BY <2>2, <2>3
<1> QED
  BY <1>1, <1>2, <1>3, <1>4

\* While a task is read, it is a task of the plan, of an aspect of the plan.
LEMMA TaskForm ==
    ASSUME Progress, stage = "read"
    PROVE  /\ Len(trace) \in Nat /\ Current \in DOMAIN plan.tasks /\ Current \in Begun
           /\ Current \notin DOMAIN trace /\ Current # 0
           /\ Task = plan.tasks[Current] /\ Aspect = plan.tasks[Current].aspect
           /\ Aspect \in DOMAIN plan.aspects /\ Aspect \in DOMAIN chosen
<1>1. /\ PlanAccepted(intake, plan) /\ DOMAIN chosen = DOMAIN plan.aspects
      /\ trace \in Seq(Steps) /\ found \in Seq(Findings)
      /\ Len(found) = Len(trace) + 1 /\ Len(found) <= Len(plan.tasks)
  BY DEF Progress
<1>2. plan.tasks \in Seq(Range(plan.tasks)) /\ Len(plan.tasks) \in Nat /\ Len(trace) \in Nat
  <2>1. plan.tasks \in Seq(Range(plan.tasks))
    BY <1>1, Zenon DEF PlanAccepted
  <2> QED
    BY <1>1, <2>1, Zenon, LenProperties
<1>3. Current \in DOMAIN plan.tasks /\ Current \in Begun /\ Current \notin DOMAIN trace /\ Current # 0
  BY <1>1, <1>2 DEF Current, Begun
<1>4. plan.tasks[Current] \in Range(plan.tasks)
  BY <1>3 DEF Range
<1>5. plan.tasks[Current].aspect \in DOMAIN plan.aspects
  BY <1>1, <1>4 DEF PlanAccepted
<1> QED
  BY <1>1, <1>2, <1>3, <1>5 DEF Task, Aspect

\* The room that is left, and what it leaves for the context of a hit.
LEMMA RoomForm ==
    ASSUME Progress, Within, stage = "read"
    PROVE  /\ EvidenceLeft \in Int /\ SpansLeft \in Int /\ ContextLimit \in Nat
           /\ Cardinality(evidence) + SpansLeft = MaxSpans
           /\ Cardinality(chosen[Aspect]) + EvidenceLeft = MaxEvidence
           /\ expansions[Aspect] + ContextLimit <= MaxContext
           /\ EvidenceLeft > 0 /\ SpansLeft > 0 =>
                 ContextLimit < EvidenceLeft /\ ContextLimit < SpansLeft
<1>1. Aspect \in DOMAIN chosen
  BY TaskForm
<1>2. chosen[Aspect] \subseteq evidence /\ expansions[Aspect] \in Nat
      /\ expansions[Aspect] <= MaxContext
  BY <1>1 DEF Within
<1>3. Cardinality(evidence) \in Nat /\ Cardinality(chosen[Aspect]) \in Nat
  BY <1>2, FS_CardinalityType, FS_Subset DEF Within
<1>4. MaxContext \in Nat /\ MaxSpans \in Nat /\ MaxEvidence \in Nat
  BY ResearchAssumption
<1>5. /\ EvidenceLeft \in Int /\ SpansLeft \in Int
      /\ Cardinality(evidence) + SpansLeft = MaxSpans
      /\ Cardinality(chosen[Aspect]) + EvidenceLeft = MaxEvidence
  BY <1>3, <1>4 DEF EvidenceLeft, SpansLeft
<1>6. PICK l \in Int : l = Min({EvidenceLeft, SpansLeft}) /\ l <= EvidenceLeft /\ l <= SpansLeft
                       /\ (l = EvidenceLeft \/ l = SpansLeft)
  BY <1>5, OfTwo
<1>7. PICK m \in Nat : m = Max({0, l - 1}) /\ (m = 0 \/ m = l - 1)
  <2>1. l - 1 \in Int /\ 0 \in Int
    BY <1>6
  <2> QED
    BY <2>1, OfTwo
<1>8. PICK n \in Nat : n = Max({0, MaxContext - expansions[Aspect]})
                       /\ n = MaxContext - expansions[Aspect]
  <2>1. PICK n \in Nat : n = MaxContext - expansions[Aspect]
    BY <1>2, <1>4
  <2>2. Max({0, n}) = IF 0 >= n THEN 0 ELSE n
    BY OfTwo, 0 \in Int, n \in Int
  <2>3. Max({0, n}) = n
    BY <2>2
  <2> QED
    BY <2>1, <2>3
<1>9. PICK k \in Nat : k = Min({n, m}) /\ k <= n /\ k <= m
  <2>1. Min({n, m}) = IF n <= m THEN n ELSE m
    BY OfTwo, n \in Int, m \in Int
  <2> QED
    BY <2>1
<1>10. ContextLimit = k
  BY <1>6, <1>7, <1>8, <1>9 DEF ContextLimit
<1> QED
  <2>1. expansions[Aspect] + k <= MaxContext
    <3>1. PICK e \in Nat : e = expansions[Aspect]
      BY <1>2
    <3>2. n = MaxContext - e /\ k <= n
      BY <3>1, <1>8, <1>9
    <3>3. e + k <= MaxContext
      BY <3>2, <1>4
    <3> QED
      BY <3>1, <3>3
  <2>2. EvidenceLeft > 0 /\ SpansLeft > 0 => k < EvidenceLeft /\ k < SpansLeft
    BY <1>5, <1>6, <1>7, <1>9
  <2> QED
    BY <1>5, <1>10, <2>1, <2>2

\* The context of a hit is as much of what it needs as there is room for.
LEMMA ContextForm ==
    ASSUME Progress, Within, stage = "read", NEW hit \in Offered
    PROVE  /\ IsFiniteSet(Own(hit)) /\ Cardinality(Own(hit)) <= ContextLimit
           /\ Len(ContextOf(hit)) \in Nat /\ Len(ContextOf(hit)) <= ContextLimit
           /\ Own(hit) \subseteq Cited
           /\ \A span \in Own(hit) : span.doc = hit.doc
           /\ hit.cites /\ ~Cut(hit) => Range(ContextOf(hit)) = Range(hit.context)
<1>1. ContextLimit \in Nat
  BY RoomForm
<1>2. PICK all : all = hit.context
  OBVIOUS
<1>3. /\ all \in Seq(Range(all)) /\ Len(all) \in Nat /\ Range(all) \subseteq Cited
      /\ hit.cites \in BOOLEAN
  BY <1>2, HitForm
<1>4. PICK n \in Nat : n = Min({Len(all), ContextLimit}) /\ n <= Len(all) /\ n <= ContextLimit
                       /\ (n = Len(all) \/ n = ContextLimit)
  BY <1>1, <1>3, OfTwo
<1>5. PICK part \in Seq(Range(all)) : /\ part = ContextOf(hit) /\ Len(part) <= n
                                      /\ hit.cites => part = SubSeq(all, 1, n)
  <2>1. SubSeq(all, 1, n) \in Seq(Range(all)) /\ Len(SubSeq(all, 1, n)) = n
    <3>1. \A i \in 1..n : all[i] \in Range(all)
      BY <1>3, <1>4
    <3> QED
      <4>1. SubSeq(all, 1, n) \in Seq(Range(all)) /\ Len(SubSeq(all, 1, n)) = IF 1 <= n THEN n - 1 + 1 ELSE 0
        BY <3>1, 1 \in Int, n \in Int, SubSeqProperties
      <4> QED
        BY <4>1
  <2>2. <<>> \in Seq(Range(all)) /\ Len(<<>>) = 0
    OBVIOUS
  <2>3. CASE hit.cites
    BY <2>1, <2>3, <1>2, <1>4 DEF ContextOf
  <2>4. CASE ~hit.cites
    <3>1. ContextOf(hit) = <<>>
      BY <2>4 DEF ContextOf
    <3> WITNESS <<>> \in Seq(Range(all))
    <3> QED
      BY <2>2, <2>4, <3>1, <1>4
  <2> QED
    BY <2>3, <2>4
<1>6. Range(part) \subseteq Range(all) /\ IsFiniteSet(Range(part)) /\ Cardinality(Range(part)) <= Len(part)
  <2>1. Len(part) \in Nat /\ part \in Surjection(1..Len(part), Range(part))
    BY <1>5 DEF Range, Surjection
  <2>2. IsFiniteSet(1..Len(part)) /\ Cardinality(1..Len(part)) = Len(part)
    <3>1. PICK k \in Nat : k = Len(part)
      BY <2>1
    <3>2. IsFiniteSet(1..k) /\ Cardinality(1..k) = k
      BY FS_Interval
    <3> QED
      BY <3>1, <3>2
  <2>3. IsFiniteSet(Range(part)) /\ Cardinality(Range(part)) <= Cardinality(1..Len(part))
    BY <2>1, <2>2, FS_Surjection
  <2>4. Range(part) \subseteq Range(all)
    BY <1>5 DEF Range
  <2> QED
    BY <2>2, <2>3, <2>4
<1>7. Own(hit) \in SUBSET Range(part) /\ \A span \in Own(hit) : span.doc = hit.doc
  BY <1>5 DEF Own
<1>8. IsFiniteSet(Own(hit)) /\ Cardinality(Own(hit)) <= Cardinality(Range(part))
      /\ Cardinality(Own(hit)) \in Nat /\ Cardinality(Range(part)) \in Nat
  BY <1>6, <1>7, FS_Subset, FS_CardinalityType
<1>9. ASSUME hit.cites, ~Cut(hit) PROVE Range(part) = Range(all)
  <2>1. n = Len(all)
    BY <1>1, <1>2, <1>3, <1>4, <1>9 DEF Cut
  <2>2. part = SubSeq(all, 1, Len(all))
    BY <2>1, <1>5, <1>9
  <2>3. part = all
    BY <2>2, <1>3
  <2> QED
    BY <2>3
<1> QED
  BY <1>1, <1>2, <1>3, <1>4, <1>5, <1>6, <1>7, <1>8, <1>9

\* What the step of the task being read becomes.
LEMMA ReadSteps ==
    ASSUME Progress, Within, NEW hit,
           \/ ReadUnidentified(hit) \/ ReadOverAuthorities(hit) \/ ReadUnspanned(hit)
           \/ ReadOverEvidence(hit) \/ ReadSelected(hit)
    PROVE  /\ Reading(hit) /\ Untouched /\ step' \in Steps
           /\ step.retrieved \subseteq step'.retrieved
           /\ step.selected \subseteq step'.selected
           /\ step.spans \subseteq step'.spans
           /\ step.outcome = "budget_exhausted" => step'.outcome = "budget_exhausted"
<1>1. Reading(hit) /\ step \in Steps
  BY DEF Progress, ReadUnidentified, ReadOverAuthorities, ReadUnspanned, ReadOverEvidence,
         ReadSelected
<1>2. hit \in Offered /\ stage = "read"
  BY <1>1, Read1
<1>3. CASE ReadUnidentified(hit)
  BY <1>1, <1>3 DEF ReadUnidentified
<1>4. CASE ReadOverAuthorities(hit)
  BY <1>1, <1>2, <1>4, StepForm DEF ReadOverAuthorities, Exhausted, Steps
<1>5. CASE ReadUnspanned(hit)
  BY <1>1, <1>2, <1>5, StepForm DEF ReadUnspanned, Retrieving, Steps
<1>6. CASE ReadOverEvidence(hit)
  <2>1. PICK st \in Steps : st = Retrieving(hit.doc)
    BY <1>1, <1>2, StepForm DEF Retrieving
  <2>2. step.retrieved \subseteq st.retrieved /\ step.selected = st.selected /\ step.spans = st.spans
    BY <2>1, <1>1 DEF Retrieving, Steps
  <2>3. step' = [st EXCEPT !.outcome = "budget_exhausted"]
    BY <2>1, <1>6 DEF ReadOverEvidence
  <2> QED
    BY <1>1, <1>2, <1>6, <2>2, <2>3, StepForm DEF ReadOverEvidence, Steps
<1>7. CASE ReadSelected(hit)
  <2>1. hit.span \in Cited /\ Own(hit) \subseteq Cited
    BY <1>2, HitForm, ContextForm
  <2>2. PICK spans \in SUBSET Cited : spans = {hit.span} \cup Own(hit)
    BY <2>1
  <2>3. step' = [outcome |-> step.outcome, retrieved |-> step.retrieved \cup {hit.doc},
                 selected |-> step.selected \cup {hit.doc}, spans |-> step.spans \cup spans]
    BY <2>2, <1>7 DEF ReadSelected
  <2>4. step' \in Steps
    BY <1>1, <1>2, <2>3, StepForm
  <2> QED
    BY <1>1, <1>7, <2>3, <2>4 DEF ReadSelected
<1> QED
  BY <1>3, <1>4, <1>5, <1>6, <1>7

\* A research starts before its plan.
LEMMA ProgressInit == ResearchInit => Progress
<1> SUFFICES ASSUME ResearchInit PROVE Progress
  OBVIOUS
<1>1. NoStep \in Steps
  BY DEF NoStep, Steps
<1>2. NoPlan.tasks = <<>>
  BY DEF NoPlan
<1> QED
  BY <1>1, <1>2 DEF ResearchInit, Progress

\* Planning, searching and concluding, and reading: the tasks are executed in their order.
LEMMA ProgressPlan ==
    ASSUME Progress, MakePlan
    PROVE  Progress'
<1>1. stage = "plan" /\ found = <<>> /\ trace = <<>> /\ chosen = <<>> /\ plan = NoPlan
  BY DEF Progress, MakePlan
<1>2. /\ intake' = intake /\ corpus' = corpus /\ date' = date /\ found' = found /\ trace' = trace
      /\ hits' = hits /\ step' = step /\ result' = result
  BY DEF MakePlan, case
<1>3. CASE Plannable(intake) /\ PlanAccepted(intake, BuildPlan(intake))
  <2>1. plan' = BuildPlan(intake) /\ stage' = "search" /\ PlanAccepted(intake, plan')
        /\ chosen' = [a \in DOMAIN Aspects(intake) |-> {}]
    BY <1>3 DEF MakePlan
  <2>2. BuildPlan(intake).aspects = Aspects(intake)
    BY DEF BuildPlan
  <2>3. DOMAIN chosen' = DOMAIN plan'.aspects
    BY <2>1, <2>2
  <2>4. Len(plan'.tasks) \in Nat
    <3>1. plan'.tasks \in Seq(Range(plan'.tasks))
      BY <2>1, Zenon DEF PlanAccepted
    <3> QED
      BY <3>1, LenProperties
  <2>5. PlanAccepted(intake, plan)'
    BY <2>1, <1>2
  <2>6. BuildPlan(intake)' = BuildPlan(intake)
    BY <1>2
  <2> QED
    BY <1>1, <1>2, <2>1, <2>3, <2>4, <2>5, <2>6 DEF Progress
<1>4. CASE ~ (Plannable(intake) /\ PlanAccepted(intake, BuildPlan(intake)))
  <2>1. stage' = "failed" /\ plan' = plan /\ chosen' = chosen
    BY <1>4 DEF MakePlan
  <2>2. NoPlan.tasks = <<>> /\ Len(<<>>) = 0
    BY DEF NoPlan
  <2> QED
    BY <1>1, <1>2, <2>1, <2>2 DEF Progress
<1> QED
  BY <1>3, <1>4

\* The clauses that do not change while the plan and the case stay.
LEMMA PlanStays ==
    ASSUME Progress, UNCHANGED case, plan' = plan, stage \in {"search", "read", "ended"},
           DOMAIN chosen' = DOMAIN chosen
    PROVE  /\ intake' \in Intakes /\ corpus' \in Corpora /\ date' \in Dates
           /\ plan' = BuildPlan(intake)' /\ PlanAccepted(intake, plan)'
           /\ DOMAIN chosen' = DOMAIN plan'.aspects
<1>1. intake' = intake /\ corpus' = corpus /\ date' = date
  BY DEF case
<1>2. BuildPlan(intake)' = BuildPlan(intake)
  BY <1>1
<1>3. PlanAccepted(intake, plan)' <=> PlanAccepted(intake, plan)
  BY <1>1
<1> QED
  BY <1>1, <1>2, <1>3 DEF Progress

\* A search begins the next task of the plan, and keeps what it may read.
LEMMA ProgressSearch ==
    ASSUME Progress, NEW all \in Findings, Search(all)
    PROVE  /\ Progress'
           /\ found' = Append(found, all) /\ stage' = "read"
           /\ Len(all) > MaxHits => step'.outcome = "budget_exhausted"
           /\ ~ (Len(all) > MaxHits) => hits' = all
<1>1. /\ stage = "search" /\ Current <= Len(plan.tasks) /\ stage' = "read"
      /\ found' = Append(found, all) /\ UNCHANGED case /\ plan' = plan /\ trace' = trace
      /\ chosen' = chosen
  BY DEF Search
<1>2. hits' = IF Len(all) > MaxHits THEN SubSeq(all, 1, MaxHits) ELSE all
  BY DEF Search
<1>3. PICK o \in {"hits", "no_hits", "budget_exhausted"} :
        /\ step' = [outcome |-> o, retrieved |-> {}, selected |-> {}, spans |-> {}]
        /\ Len(all) > MaxHits => o = "budget_exhausted"
  BY DEF Search
<1>4. step' \in Steps /\ (Len(all) > MaxHits => step'.outcome = "budget_exhausted")
  BY <1>3 DEF Steps
<1>5. hits' \in Seq(Offered)
  BY <1>2, Answers
<1>6. /\ found' \in Seq(Findings) /\ Len(found') = Len(found) + 1 /\ Len(found) = Len(trace)
      /\ trace \in Seq(Steps) /\ Len(trace) \in Nat
  BY <1>1, AppendProperties DEF Progress
<1>7. Len(found') <= Len(plan.tasks)
  BY <1>1, <1>6 DEF Current
<1>8. Progress'
  BY <1>1, <1>4, <1>5, <1>6, <1>7, PlanStays DEF Progress
<1> QED
  BY <1>1, <1>2, <1>4, <1>8

\* Reading a hit stays in its task.
LEMMA ProgressRead ==
    ASSUME Progress, Within, NEW hit,
           \/ ReadUnidentified(hit) \/ ReadOverAuthorities(hit) \/ ReadUnspanned(hit)
           \/ ReadOverEvidence(hit) \/ ReadSelected(hit)
    PROVE  Progress' /\ DOMAIN chosen' = DOMAIN chosen
<1>1. Reading(hit) /\ Untouched /\ step' \in Steps
  BY ReadSteps
<1>2. stage = "read" /\ hits' \in Seq(Offered)
  BY <1>1, Read1
<1>3. DOMAIN chosen' = DOMAIN chosen
  BY DEF ReadUnidentified, ReadOverAuthorities, ReadUnspanned, ReadOverEvidence, ReadSelected
<1>4. UNCHANGED case /\ plan' = plan /\ stage' = stage /\ found' = found /\ trace' = trace
      /\ result' = result
  BY <1>1 DEF Untouched
<1> QED
  BY <1>1, <1>2, <1>3, <1>4, PlanStays DEF Progress

\* A task that ends leaves its step in the trace.
LEMMA ProgressEnd ==
    ASSUME Progress, EndTask
    PROVE  /\ Progress' /\ stage = "read" /\ hits = <<>>
           /\ trace' = Append(trace, step) /\ found' = found
           /\ Len(trace) \in Nat /\ Len(trace') = Len(trace) + 1
           /\ \A i \in 1..Len(trace) : trace'[i] = trace[i]
           /\ trace'[Len(trace) + 1] = step
<1>1. /\ stage = "read" /\ hits = <<>> /\ trace' = Append(trace, step) /\ stage' = "search"
      /\ UNCHANGED case /\ plan' = plan /\ found' = found /\ chosen' = chosen
      /\ hits' = hits /\ step' = step
  BY DEF EndTask, reading
<1>2. trace \in Seq(Steps) /\ step \in Steps
  BY DEF Progress
<1>3. /\ trace' \in Seq(Steps) /\ Len(trace') = Len(trace) + 1 /\ Len(trace) \in Nat
      /\ \A i \in 1..Len(trace) : trace'[i] = trace[i]
      /\ trace'[Len(trace) + 1] = step
  BY <1>1, <1>2, AppendProperties
<1>4. Progress'
  BY <1>1, <1>3, PlanStays DEF Progress
<1> QED
  BY <1>1, <1>3, <1>4

\* The result is read off what the research has gathered, which no longer changes.
LEMMA ResultStays ==
    ASSUME UNCHANGED <<case, plan, trace, reading>>
    PROVE  Result' = Result
<1>1. /\ intake' = intake /\ corpus' = corpus /\ date' = date /\ plan' = plan /\ trace' = trace
      /\ authorities' = authorities /\ evidence' = evidence /\ items' = items
      /\ selections' = selections
  BY DEF case, reading
<1>2. \A a : /\ TasksOf(a)' = TasksOf(a) /\ RequiredOf(a)' = RequiredOf(a)
             /\ SelectionsOf(a)' = SelectionsOf(a)
  BY <1>1 DEF TasksOf, RequiredOf, SelectionsOf
<1>3. \A a : Categories(a)' = Categories(a)
  BY <1>1, <1>2 DEF Categories, LocalItems
<1>4. \A a : FactStatus(a)' = FactStatus(a) /\ ExecutionStatus(a)' = ExecutionStatus(a)
  BY <1>1, <1>2 DEF FactStatus, ExecutionStatus
<1>5. \A a : EvidenceStatus(a)' = EvidenceStatus(a)
  BY <1>1, <1>2, <1>3 DEF EvidenceStatus
<1>6. \A a : AuthorityStatus(a)' = AuthorityStatus(a)
  BY <1>2, <1>3 DEF AuthorityStatus
<1>7. \A a : TemporalStatus(a)' = TemporalStatus(a)
  BY <1>1, <1>2 DEF TemporalStatus
<1>8. \A a : SynthesisStatus(a)' = SynthesisStatus(a)
  BY <1>4, <1>5 DEF SynthesisStatus
<1>9. \A a : Relations(a)' = Relations(a)
  BY <1>1, <1>2 DEF Relations
<1>10. Omissions' = Omissions
  BY <1>1, <1>9 DEF Omissions
<1>11. \A a : OmissionsOf(a)' = OmissionsOf(a)
  BY <1>10 DEF OmissionsOf
<1>12. \A a : Limitations(a)' = Limitations(a)
  BY <1>1, <1>3, <1>4, <1>5, <1>6, <1>11 DEF Limitations
<1>13. \A a : SupportClosure(a)' = SupportClosure(a)
  BY <1>1, <1>2, <1>3, <1>4, <1>5, <1>6, <1>7, <1>8, <1>11 DEF SupportClosure
<1>14. \A a : Coverage(a)' = Coverage(a)
  BY <1>4, <1>5, <1>6, <1>7, <1>8, <1>12, <1>13 DEF Coverage
<1>15. ResultStatus' = ResultStatus
  BY <1>1, <1>10, <1>13 DEF ResultStatus
<1>16. ConflictItems' = ConflictItems
  BY <1>1 DEF ConflictItems
<1>17. Selected' = Selected
  BY <1>1, <1>9 DEF Selected
<1> QED
  BY <1>1, <1>10, <1>14, <1>15, <1>16, <1>17 DEF Result

\* The research ends with the last task.
LEMMA ProgressConclude ==
    ASSUME Progress, Conclude
    PROVE  Progress'
<1>1. /\ stage = "search" /\ Current > Len(plan.tasks) /\ stage' = "ended"
      /\ UNCHANGED <<case, plan, found, trace, reading>>
  BY DEF Conclude
<1>2. result' = Result'
  BY <1>1, ResultStays DEF Conclude
<1>3. /\ hits' = hits /\ step' = step /\ chosen' = chosen /\ found' = found /\ trace' = trace
      /\ plan' = plan
  BY <1>1 DEF reading
<1>4. Len(trace) = Len(plan.tasks)
  <2>1. Len(found) = Len(trace) /\ Len(found) <= Len(plan.tasks) /\ trace \in Seq(Steps)
    BY <1>1 DEF Progress
  <2>2. Len(trace) \in Nat /\ Len(plan.tasks) \in Nat
    <3>1. plan.tasks \in Seq(Range(plan.tasks))
      BY <1>1, Zenon DEF PlanAccepted, Progress
    <3> QED
      BY <2>1, <3>1, LenProperties
  <2> QED
    BY <1>1, <2>1, <2>2 DEF Current
<1> QED
  BY <1>1, <1>2, <1>3, <1>4, PlanStays DEF Progress

\* Nothing is known better by standing still.
LEMMA ProgressStays ==
    ASSUME Progress, UNCHANGED research
    PROVE  Progress'
<1>1. /\ UNCHANGED <<case, plan, found, trace, reading>> /\ stage' = stage /\ result' = result
  BY DEF research
<1>2. Result' = Result
  BY <1>1, ResultStays
<1>3. /\ hits' = hits /\ step' = step /\ chosen' = chosen /\ found' = found /\ trace' = trace
      /\ plan' = plan /\ intake' = intake /\ corpus' = corpus /\ date' = date
  BY <1>1 DEF reading, case
<1>4. BuildPlan(intake)' = BuildPlan(intake) /\ PlanAccepted(intake, plan)' = PlanAccepted(intake, plan)
  BY <1>3
<1> QED
  BY <1>1, <1>2, <1>3, <1>4 DEF Progress

-----------------------------------------------------------------------------
\* Budgets.
LEMMA WithinInit == ResearchInit => Within
<1>1. 0 <= MaxAuthorities /\ 0 <= MaxSpans
  BY ResearchAssumption
<1> QED
  BY <1>1, FS_EmptySet DEF ResearchInit, Within

\* A plan starts with all of its budgets.
LEMMA WithinPlan ==
    ASSUME Within, MakePlan
    PROVE  Within'
<1>1. authorities' = authorities /\ evidence' = evidence
  BY DEF MakePlan
<1>2. CASE Plannable(intake) /\ PlanAccepted(intake, BuildPlan(intake))
  <2>1. PICK D : /\ chosen' = [a \in D |-> {}] /\ expansions' = [a \in D |-> 0]
    BY <1>2 DEF MakePlan
  <2>2. Cardinality({}) = 0 /\ 0 <= MaxEvidence /\ 0 <= MaxContext
    BY FS_EmptySet, ResearchAssumption
  <2> QED
    BY <1>1, <2>1, <2>2 DEF Within
<1>3. CASE ~ (Plannable(intake) /\ PlanAccepted(intake, BuildPlan(intake)))
  <2>1. chosen' = chosen /\ expansions' = expansions
    BY <1>3 DEF MakePlan
  <2> QED
    BY <1>1, <2>1 DEF Within
<1> QED
  BY <1>2, <1>3

\* There is room for a document that is admitted.
LEMMA Admits ==
    ASSUME Within, NEW hit, Admit(hit)
    PROVE  IsFiniteSet(authorities') /\ Cardinality(authorities') <= MaxAuthorities
<1>1. /\ authorities' = authorities \cup {hit.doc}
      /\ hit.doc \in authorities \/ ~ (Cardinality(authorities) >= MaxAuthorities)
  BY DEF Admit, Full
<1>2. IsFiniteSet(authorities) /\ Cardinality(authorities) <= MaxAuthorities
      /\ Cardinality(authorities) \in Nat /\ MaxAuthorities \in Nat
  BY FS_CardinalityType, ResearchAssumption DEF Within
<1> QED
  BY <1>1, <1>2, FS_AddElement

\* How many elements two sets have together, and a set with one more.
LEMMA UnionBound ==
    ASSUME NEW S, NEW T, IsFiniteSet(S), IsFiniteSet(T)
    PROVE  IsFiniteSet(S \cup T) /\ Cardinality(S \cup T) <= Cardinality(S) + Cardinality(T)
<1>1. /\ IsFiniteSet(S \cup T)
      /\ Cardinality(S \cup T) = Cardinality(S) + Cardinality(T) - Cardinality(S \cap T)
  BY FS_Union
<1>2. IsFiniteSet(S \cap T)
  BY FS_Intersection
<1>3. Cardinality(S) \in Nat /\ Cardinality(T) \in Nat /\ Cardinality(S \cap T) \in Nat
  BY <1>2, FS_CardinalityType
<1> QED
  BY <1>1, <1>3

LEMMA AddedBound ==
    ASSUME NEW S, NEW x, NEW n \in Nat, IsFiniteSet(S), Cardinality(S) <= n
    PROVE  /\ IsFiniteSet(S \cup {x}) /\ Cardinality(S \cup {x}) \in Nat
           /\ Cardinality(S \cup {x}) <= n + 1
<1>1. Cardinality(S) \in Nat
  BY FS_CardinalityType
<1> QED
  BY <1>1, FS_AddElement

\* There is room for a hit that is selected, and for its context.
LEMMA WithinSelected ==
    ASSUME Progress, Within, NEW hit, ReadSelected(hit)
    PROVE  Within'
<1>1. hit \in Offered /\ stage = "read"
  BY Read1 DEF ReadSelected
<1>2. PICK spans : spans = {hit.span} \cup Own(hit) /\ spans = Own(hit) \cup {hit.span}
  OBVIOUS
<1>3. PICK context \in Nat : context = Len(ContextOf(hit))
  BY <1>1, ContextForm
<1>4. PICK aspect \in DOMAIN chosen : aspect = Aspect
  BY <1>1, TaskForm
<1>5. /\ EvidenceLeft > 0 /\ SpansLeft > 0
      /\ evidence' = evidence \cup spans
      /\ chosen' = [chosen EXCEPT ![aspect] = @ \cup spans]
      /\ expansions' = [expansions EXCEPT ![aspect] = @ + context]
      /\ Admit(hit)
  BY <1>2, <1>3, <1>4 DEF ReadSelected
<1>6. /\ IsFiniteSet(Own(hit)) /\ Cardinality(Own(hit)) \in Nat
      /\ Cardinality(Own(hit)) <= ContextLimit /\ context <= ContextLimit /\ ContextLimit \in Nat
  BY <1>1, <1>3, ContextForm, RoomForm, FS_CardinalityType
<1>7. IsFiniteSet(spans) /\ Cardinality(spans) \in Nat /\ Cardinality(spans) <= ContextLimit + 1
  BY <1>2, <1>6, AddedBound
<1>8. /\ EvidenceLeft \in Int /\ SpansLeft \in Int
      /\ Cardinality(evidence) + SpansLeft = MaxSpans
      /\ Cardinality(chosen[aspect]) + EvidenceLeft = MaxEvidence
      /\ expansions[aspect] + ContextLimit <= MaxContext
      /\ ContextLimit < EvidenceLeft /\ ContextLimit < SpansLeft
  BY <1>1, <1>4, <1>5, RoomForm
<1>9. /\ IsFiniteSet(evidence) /\ chosen[aspect] \subseteq evidence
      /\ IsFiniteSet(chosen[aspect]) /\ Cardinality(chosen[aspect]) \in Nat
      /\ Cardinality(evidence) \in Nat /\ expansions[aspect] \in Nat /\ MaxContext \in Nat
      /\ MaxSpans \in Nat /\ MaxEvidence \in Nat
  BY <1>4, FS_Subset, FS_CardinalityType, ResearchAssumption DEF Within
<1>10. IsFiniteSet(evidence') /\ Cardinality(evidence') <= MaxSpans
  <2>1. /\ IsFiniteSet(evidence \cup spans)
        /\ Cardinality(evidence \cup spans) <= Cardinality(evidence) + Cardinality(spans)
    BY <1>7, <1>9, UnionBound
  <2>2. Cardinality(evidence) + Cardinality(spans) <= MaxSpans
    BY <1>6, <1>7, <1>8, <1>9
  <2>3. Cardinality(evidence \cup spans) \in Nat
    BY <2>1, FS_CardinalityType
  <2> QED
    BY <1>5, <1>7, <1>9, <2>1, <2>2, <2>3
<1>11. Cardinality(chosen[aspect] \cup spans) <= MaxEvidence
  <2>1. /\ IsFiniteSet(chosen[aspect] \cup spans)
        /\ Cardinality(chosen[aspect] \cup spans) <= Cardinality(chosen[aspect]) + Cardinality(spans)
    BY <1>7, <1>9, UnionBound
  <2>2. Cardinality(chosen[aspect]) + Cardinality(spans) <= MaxEvidence
    BY <1>6, <1>7, <1>8, <1>9
  <2>3. Cardinality(chosen[aspect] \cup spans) \in Nat
    BY <2>1, FS_CardinalityType
  <2> QED
    BY <1>7, <1>9, <2>1, <2>2, <2>3
<1>12. expansions[aspect] + context \in Nat /\ expansions[aspect] + context <= MaxContext
  BY <1>6, <1>8, <1>9
<1>13. /\ chosen' \in [DOMAIN chosen -> SUBSET (evidence \cup spans)]
       /\ expansions' \in [DOMAIN chosen -> Nat] /\ DOMAIN chosen' = DOMAIN chosen
       /\ \A a \in DOMAIN chosen :
            /\ chosen'[a] = IF a = aspect THEN chosen[aspect] \cup spans ELSE chosen[a]
            /\ expansions'[a] = IF a = aspect THEN expansions[aspect] + context ELSE expansions[a]
  <2>1. chosen \in [DOMAIN chosen -> SUBSET evidence] /\ expansions \in [DOMAIN chosen -> Nat]
    BY DEF Within
  <2> QED
    BY <1>5, <1>12, <2>1
<1>14. \A a \in DOMAIN chosen : Cardinality(chosen'[a]) <= MaxEvidence /\ expansions'[a] <= MaxContext
  BY <1>11, <1>12, <1>13 DEF Within
<1>15. IsFiniteSet(authorities') /\ Cardinality(authorities') <= MaxAuthorities
  BY <1>5, Admits
<1> QED
  BY <1>5, <1>10, <1>13, <1>14, <1>15 DEF Within

\* No hit is read over a budget.
LEMMA WithinRead ==
    ASSUME Progress, Within, NEW hit,
           \/ ReadUnidentified(hit) \/ ReadOverAuthorities(hit) \/ ReadUnspanned(hit)
           \/ ReadOverEvidence(hit) \/ ReadSelected(hit)
    PROVE  Within'
<1>1. CASE ReadUnidentified(hit) \/ ReadOverAuthorities(hit)
  <2>1. UNCHANGED <<authorities, evidence, chosen, expansions>>
    BY <1>1 DEF ReadUnidentified, ReadOverAuthorities
  <2> QED
    BY <2>1 DEF Within
<1>2. CASE ReadUnspanned(hit) \/ ReadOverEvidence(hit)
  <2>1. UNCHANGED <<evidence, chosen, expansions>> /\ Admit(hit)
    BY <1>2 DEF ReadUnspanned, ReadOverEvidence
  <2> QED
    BY <2>1, Admits DEF Within
<1> QED
  BY <1>1, <1>2, WithinSelected

\* The budgets hold whatever is searched and found.
LEMMA WithinStep ==
    ASSUME Progress, Within, [ResearchNext]_research
    PROVE  Within'
<1>1. ASSUME UNCHANGED <<authorities, evidence, chosen, expansions>> PROVE Within'
  BY <1>1 DEF Within
<1>2. CASE MakePlan
  BY <1>2, WithinPlan
<1>3. ASSUME NEW all \in Findings, Search(all) PROVE Within'
  BY <1>1, <1>3 DEF Search
<1>4. CASE Read
  <2>1. PICK hit : \/ ReadUnidentified(hit) \/ ReadOverAuthorities(hit) \/ ReadUnspanned(hit)
                   \/ ReadOverEvidence(hit) \/ ReadSelected(hit)
    BY <1>4 DEF Read
  <2> QED
    BY <2>1, WithinRead
<1>5. CASE EndTask
  BY <1>1, <1>5 DEF EndTask, reading
<1>6. CASE Conclude
  BY <1>1, <1>6 DEF Conclude, reading
<1>7. CASE UNCHANGED research
  BY <1>1, <1>7 DEF research, reading
<1> QED
  BY <1>2, <1>3, <1>4, <1>5, <1>6, <1>7 DEF ResearchNext

\* Every action keeps to the plan.
LEMMA ProgressStep ==
    ASSUME Progress, Within, [ResearchNext]_research
    PROVE  Progress'
<1>1. CASE Read
  <2>1. PICK hit : \/ ReadUnidentified(hit) \/ ReadOverAuthorities(hit) \/ ReadUnspanned(hit)
                   \/ ReadOverEvidence(hit) \/ ReadSelected(hit)
    BY <1>1 DEF Read
  <2> QED
    BY <2>1, ProgressRead
<1> QED
  BY <1>1, ProgressPlan, ProgressSearch, ProgressEnd, ProgressConclude, ProgressStays
  DEF ResearchNext

-----------------------------------------------------------------------------
\* The tasks that were begun are tasks of the plan.
LEMMA TaskRange ==
    ASSUME Progress
    PROVE  \A t \in Begun : t \in DOMAIN plan.tasks
<1>1. CASE stage \in {"plan", "failed"}
  BY <1>1 DEF Progress, Begun
<1>2. CASE stage \notin {"plan", "failed"}
  <2>1. PlanAccepted(intake, plan) /\ found \in Seq(Findings) /\ Len(found) <= Len(plan.tasks)
    BY <1>2 DEF Progress
  <2>2. plan.tasks \in Seq(Range(plan.tasks))
    BY <2>1, Zenon DEF PlanAccepted
  <2>3. /\ DOMAIN plan.tasks = 1..Len(plan.tasks) /\ Len(plan.tasks) \in Nat
        /\ DOMAIN found = 1..Len(found) /\ Len(found) \in Nat
    BY <2>1, <2>2, LenProperties
  <2> QED
    BY <2>1, <2>3 DEF Begun
<1> QED
  BY <1>1, <1>2

\* What a step makes of the tasks that were begun.
LEMMA StepsOfSearch ==
    ASSUME Progress, NEW all \in Findings, Search(all)
    PROVE  /\ Begun' = Begun \cup {Current} /\ Current \notin Begun /\ Current' = Current
           /\ \A t \in Begun : StepOf(t)' = StepOf(t) /\ found'[t] = found[t]
           /\ \A t : t = Current => StepOf(t)' = step' /\ found'[t] = all
<1>1. /\ stage = "search" /\ found' = Append(found, all) /\ trace' = trace
      /\ found \in Seq(Findings) /\ trace \in Seq(Steps) /\ Len(found) = Len(trace)
  BY DEF Progress, Search
<1>2. /\ Len(trace) \in Nat /\ DOMAIN found = 1..Len(trace) /\ DOMAIN trace = 1..Len(trace)
      /\ DOMAIN found' = 1..Len(trace) + 1
      /\ \A t \in 1..Len(trace) : found'[t] = found[t]
      /\ found'[Len(trace) + 1] = all
  BY <1>1, AppendProperties, LenProperties
<1>3. Current = Len(trace) + 1 /\ Current' = Current
  BY <1>1 DEF Current
<1>4. Current \notin DOMAIN trace' /\ \A t \in Begun : t \in DOMAIN trace /\ t \in DOMAIN trace'
  BY <1>1, <1>2, <1>3 DEF Begun
<1>5. \A t : t = Current => StepOf(t)' = step'
  BY <1>4 DEF StepOf
<1>6. \A t \in Begun : StepOf(t)' = StepOf(t)
  BY <1>1, <1>4 DEF StepOf
<1> QED
  BY <1>2, <1>3, <1>5, <1>6 DEF Begun

\* Reading a hit changes the step of its task only.
LEMMA StepsOfRead ==
    ASSUME Progress, stage = "read", Untouched
    PROVE  /\ Begun' = Begun /\ Current \in Begun /\ Current' = Current /\ found' = found
           /\ \A t \in Begun \ {Current} : StepOf(t)' = StepOf(t)
           /\ \A t : t = Current => StepOf(t) = step /\ StepOf(t)' = step'
<1>1. found' = found /\ trace' = trace /\ Current \in Begun /\ Current \notin DOMAIN trace
  BY TaskForm DEF Untouched
<1>2. Current' = Current
  BY <1>1 DEF Current
<1>3. \A t : t = Current => StepOf(t) = step /\ StepOf(t)' = step'
  BY <1>1 DEF StepOf
<1>4. ASSUME NEW t \in Begun \ {Current} PROVE StepOf(t)' = StepOf(t)
  <2>1. t \in DOMAIN trace
    <3>1. DOMAIN found = 1..Len(found) /\ DOMAIN trace = 1..Len(trace) /\ Len(trace) \in Nat
          /\ Len(found) = Len(trace) + 1
      BY LenProperties DEF Progress
    <3> QED
      BY <3>1 DEF Begun, Current
  <2> QED
    BY <1>1, <2>1 DEF StepOf
<1> QED
  BY <1>1, <1>2, <1>3, <1>4 DEF Begun

\* The other actions gather nothing.
LEMMA StepsOfOthers ==
    ASSUME Progress, MakePlan \/ EndTask \/ Conclude \/ UNCHANGED research
    PROVE  /\ Begun' = Begun /\ UNCHANGED <<case, authorities, evidence, items, selections, found>>
           /\ \A t \in Begun : StepOf(t)' = StepOf(t)
           /\ Begun = {} \/ (plan' = plan /\ chosen' = chosen)
<1>1. CASE MakePlan
  <2>1. found = <<>> /\ UNCHANGED <<case, authorities, evidence, items, selections, found>>
    BY <1>1 DEF Progress, MakePlan
  <2> QED
    BY <2>1 DEF Begun
<1>2. CASE EndTask
  <2>1. /\ stage = "read" /\ found' = found /\ Len(trace) \in Nat /\ Len(trace') = Len(trace) + 1
        /\ \A i \in 1..Len(trace) : trace'[i] = trace[i]
        /\ trace'[Len(trace) + 1] = step
        /\ trace' \in Seq(Steps) /\ trace \in Seq(Steps) /\ found \in Seq(Findings)
        /\ Len(found) = Len(trace) + 1
    BY <1>2, ProgressEnd DEF Progress
  <2>2. DOMAIN trace = 1..Len(trace) /\ DOMAIN trace' = 1..Len(trace) + 1 /\ Begun = 1..Len(trace) + 1
    BY <2>1, LenProperties DEF Begun
  <2>3. ASSUME NEW t \in Begun PROVE StepOf(t)' = StepOf(t)
    <3>1. StepOf(t)' = trace'[t]
      BY <2>2 DEF StepOf
    <3>2. CASE t \in DOMAIN trace
      BY <2>1, <2>2, <3>1, <3>2 DEF StepOf
    <3>3. CASE t \notin DOMAIN trace
      <4>1. t = Len(trace) + 1
        BY <2>1, <2>2, <3>3
      <4> QED
        BY <2>1, <3>1, <3>3, <4>1 DEF StepOf
    <3> QED
      BY <3>2, <3>3
  <2> QED
    BY <1>2, <2>1, <2>3 DEF EndTask, reading, Begun
<1>3. CASE Conclude \/ UNCHANGED research
  <2>1. UNCHANGED <<case, plan, found, trace, reading>>
    BY <1>3 DEF Conclude, research
  <2> QED
    BY <2>1 DEF reading, StepOf, Begun
<1> QED
  BY <1>1, <1>2, <1>3

\* What reading a hit gathers.
LEMMA Gathered ==
    ASSUME Progress, Within, NEW hit,
           \/ ReadUnidentified(hit) \/ ReadOverAuthorities(hit) \/ ReadUnspanned(hit)
           \/ ReadOverEvidence(hit) \/ ReadSelected(hit)
    PROVE  /\ authorities \subseteq authorities' /\ evidence \subseteq evidence'
           /\ authorities' \subseteq authorities \cup {hit.doc}
           /\ hit.doc = NoDoc => authorities' = authorities
           /\ step'.retrieved \cup step'.selected
                \subseteq step.retrieved \cup step.selected \cup authorities'
           /\ step'.spans \subseteq step.spans \cup evidence'
           /\ \A span \in evidence' \ evidence : span.doc = hit.doc /\ hit.doc \in authorities'
           /\ \A a \in DOMAIN chosen : chosen[a] \subseteq chosen'[a]
           /\ selections \subseteq selections'
           /\ \A s \in selections' \ selections :
                /\ s.aspect = Aspect /\ s.task = Current /\ s.authority = hit.doc
                /\ s.authority \in step'.selected
                /\ s.spans \subseteq chosen'[Aspect]
                /\ \A span \in s.spans : span.doc = hit.doc
                /\ s.standing = AuthorityOf(hit.doc) /\ s.temporal = TemporalOf(hit.doc)
<1>1. Reading(hit) /\ step \in Steps /\ hit \in Offered /\ stage = "read"
  <2>1. Reading(hit)
    BY ReadSteps
  <2> QED
    BY <2>1, Read1 DEF Progress
<1>2. CASE ReadUnidentified(hit)
  BY <1>2 DEF ReadUnidentified
<1>3. CASE ReadOverAuthorities(hit)
  BY <1>1, <1>3 DEF ReadOverAuthorities, Exhausted, Steps
<1>4. CASE ReadUnspanned(hit)
  BY <1>1, <1>4 DEF ReadUnspanned, Retrieving, Steps, Admit
<1>5. CASE ReadOverEvidence(hit)
  <2>1. PICK st : st = Retrieving(hit.doc)
    OBVIOUS
  <2>2. /\ st \in Steps
        /\ st.retrieved = step.retrieved \cup {hit.doc} /\ st.selected = step.selected
        /\ st.spans = step.spans
    BY <1>1, <2>1, StepForm DEF Retrieving, Steps
  <2>3. step' = [st EXCEPT !.outcome = "budget_exhausted"]
    BY <2>1, <1>5 DEF ReadOverEvidence
  <2>4. /\ step'.retrieved = step.retrieved \cup {hit.doc} /\ step'.selected = step.selected
        /\ step'.spans = step.spans
    BY <2>2, <2>3 DEF Steps
  <2> QED
    BY <1>5, <2>4 DEF ReadOverEvidence, Admit
<1>6. CASE ReadSelected(hit)
  <2>1. PICK spans : spans = {hit.span} \cup Own(hit)
    OBVIOUS
  <2>2. PICK aspect \in DOMAIN chosen : aspect = Aspect
    BY <1>1, TaskForm
  <2>3. PICK selection : selection = Selection(hit, spans)
    OBVIOUS
  <2>4. /\ evidence' = evidence \cup spans /\ Admit(hit) /\ hit.span # NoSpan
        /\ chosen' = [chosen EXCEPT ![aspect] = @ \cup spans]
        /\ step' = [outcome |-> step.outcome, retrieved |-> step.retrieved \cup {hit.doc},
                    selected |-> step.selected \cup {hit.doc}, spans |-> step.spans \cup spans]
        /\ selections' = selections \cup {selection}
    BY <1>6, <2>1, <2>2, <2>3 DEF ReadSelected
  <2>5. authorities' = authorities \cup {hit.doc} /\ hit.doc # NoDoc
    BY <2>4 DEF Admit
  <2>6. \A span \in spans : span.doc = hit.doc
    BY <1>1, <2>1, <2>4, <2>5, HitForm, ContextForm
  <2>7. /\ selection.aspect = aspect /\ selection.task = Current /\ selection.authority = hit.doc
        /\ selection.spans = spans /\ selection.standing = AuthorityOf(hit.doc)
        /\ selection.temporal = TemporalOf(hit.doc)
    BY <2>2, <2>3 DEF Selection
  <2>8. chosen'[aspect] = chosen[aspect] \cup spans
        /\ \A a \in DOMAIN chosen : chosen[a] \subseteq chosen'[a]
    <3>1. chosen \in [DOMAIN chosen -> SUBSET evidence]
      BY DEF Within
    <3> QED
      BY <2>4, <3>1
  <2> QED
    BY <2>2, <2>4, <2>5, <2>6, <2>7, <2>8
<1> QED
  BY <1>2, <1>3, <1>4, <1>5, <1>6

-----------------------------------------------------------------------------
\* Nothing is gathered before the plan.
LEMMA OwnedInit == ResearchInit => Owned /\ Attested /\ Filed /\ Heard
BY DEF ResearchInit, Owned, Attested, Filed, Heard, Begun

\* What a task names is admitted and in the corpus, and so is what is evidence.
LEMMA OwnedRead ==
    ASSUME Progress, Within, Owned, NEW hit,
           \/ ReadUnidentified(hit) \/ ReadOverAuthorities(hit) \/ ReadUnspanned(hit)
           \/ ReadOverEvidence(hit) \/ ReadSelected(hit)
    PROVE  Owned'
<1>1. Reading(hit) /\ Untouched
  BY ReadSteps
<1>2. stage = "read" /\ hit \in Offered
  BY <1>1, Read1
<1>3. /\ Begun' = Begun /\ Current \in Begun
      /\ \A t \in Begun \ {Current} : StepOf(t)' = StepOf(t)
      /\ \A t : t = Current => StepOf(t) = step /\ StepOf(t)' = step'
  BY <1>1, <1>2, StepsOfRead
<1>4. corpus' = corpus /\ corpus \in Corpora
  BY <1>1 DEF Untouched, case, Progress
<1>5. authorities' \subseteq DOMAIN corpus.documents
  BY <1>2, <1>4, Gathered, HitForm DEF Owned
<1>6. \A span \in evidence' : span.doc \in authorities'
  BY Gathered DEF Owned
<1>7. ASSUME NEW t \in Begun
      PROVE  /\ StepOf(t)'.retrieved \cup StepOf(t)'.selected \subseteq authorities'
             /\ StepOf(t)'.spans \subseteq evidence'
  <2>1. CASE t = Current
    <3>1. StepOf(t) = step /\ StepOf(t)' = step'
      BY <1>3, <2>1
    <3>2. step.retrieved \cup step.selected \subseteq authorities /\ step.spans \subseteq evidence
      BY <3>1 DEF Owned
    <3>3. /\ step'.retrieved \cup step'.selected
                \subseteq step.retrieved \cup step.selected \cup authorities'
          /\ step'.spans \subseteq step.spans \cup evidence'
          /\ authorities \subseteq authorities' /\ evidence \subseteq evidence'
      BY Gathered
    <3> QED
      BY <3>1, <3>2, <3>3
  <2>2. CASE t # Current
    BY <1>3, <2>2, Gathered DEF Owned
  <2> QED
    BY <2>1, <2>2
<1> QED
  BY <1>3, <1>4, <1>5, <1>6, <1>7 DEF Owned

\* Every action keeps documents and evidence together.
LEMMA OwnedStep ==
    ASSUME Progress, Within, Owned, [ResearchNext]_research
    PROVE  Owned'
<1>1. CASE MakePlan \/ EndTask \/ Conclude \/ UNCHANGED research
  <2>1. /\ Begun' = Begun /\ UNCHANGED <<case, authorities, evidence>>
        /\ \A t \in Begun : StepOf(t)' = StepOf(t)
    BY <1>1, StepsOfOthers
  <2> QED
    BY <2>1 DEF Owned, case
<1>2. ASSUME NEW all \in Findings, Search(all) PROVE Owned'
  <2>1. /\ Begun' = Begun \cup {Current} /\ \A t \in Begun : StepOf(t)' = StepOf(t)
        /\ \A t : t = Current => StepOf(t)' = step'
    BY <1>2, StepsOfSearch
  <2>2. UNCHANGED <<case, authorities, evidence>>
    BY <1>2 DEF Search
  <2>3. step'.retrieved = {} /\ step'.selected = {} /\ step'.spans = {}
    BY <1>2 DEF Search
  <2>4. ASSUME NEW t \in Begun'
        PROVE  /\ StepOf(t)'.retrieved \cup StepOf(t)'.selected \subseteq authorities'
               /\ StepOf(t)'.spans \subseteq evidence'
    <3>1. CASE t \in Begun
      BY <2>1, <2>2, <3>1 DEF Owned
    <3>2. CASE t = Current
      BY <2>1, <2>3, <3>2
    <3> QED
      BY <2>1, <3>1, <3>2
  <2> QED
    BY <2>2, <2>4 DEF Owned, case
<1>3. CASE Read
  <2>1. PICK hit : \/ ReadUnidentified(hit) \/ ReadOverAuthorities(hit) \/ ReadUnspanned(hit)
                   \/ ReadOverEvidence(hit) \/ ReadSelected(hit)
    BY <1>3 DEF Read
  <2> QED
    BY <2>1, OwnedRead
<1> QED
  BY <1>1, <1>2, <1>3 DEF ResearchNext

\* What the corpus says of a document does not change.
LEMMA CorpusStays ==
    ASSUME UNCHANGED case
    PROVE  \A doc : TemporalOf(doc)' = TemporalOf(doc) /\ AuthorityOf(doc)' = AuthorityOf(doc)
BY DEF case, TemporalOf, AuthorityOf

\* A selection belongs to its task, its aspect and its document.
LEMMA AttestedStep ==
    ASSUME Progress, Within, Attested, [ResearchNext]_research
    PROVE  Attested'
<1>1. CASE MakePlan \/ EndTask \/ Conclude \/ UNCHANGED research
  <2>1. /\ Begun' = Begun /\ UNCHANGED <<case, selections>>
        /\ \A t \in Begun : StepOf(t)' = StepOf(t)
        /\ Begun = {} \/ (plan' = plan /\ chosen' = chosen)
    BY <1>1, StepsOfOthers
  <2> QED
    BY <2>1, CorpusStays DEF Attested
<1>2. ASSUME NEW all \in Findings, Search(all) PROVE Attested'
  <2>1. Begun' = Begun \cup {Current} /\ \A t \in Begun : StepOf(t)' = StepOf(t)
    BY <1>2, StepsOfSearch
  <2>2. UNCHANGED <<case, selections, plan, chosen>>
    BY <1>2 DEF Search
  <2> QED
    BY <2>1, <2>2, CorpusStays DEF Attested
<1>3. CASE Read
  <2>1. PICK hit : \/ ReadUnidentified(hit) \/ ReadOverAuthorities(hit) \/ ReadUnspanned(hit)
                   \/ ReadOverEvidence(hit) \/ ReadSelected(hit)
    BY <1>3 DEF Read
  <2>2. Reading(hit) /\ Untouched /\ step.selected \subseteq step'.selected
    BY <2>1, ReadSteps
  <2>3. stage = "read"
    BY <2>2, Read1
  <2>4. /\ Begun' = Begun /\ Current \in Begun
        /\ \A t \in Begun \ {Current} : StepOf(t)' = StepOf(t)
        /\ \A t : t = Current => StepOf(t) = step /\ StepOf(t)' = step'
    BY <2>2, <2>3, StepsOfRead
  <2>5. UNCHANGED case /\ plan' = plan
    BY <2>2 DEF Untouched
  <2>6. Aspect = plan.tasks[Current].aspect /\ PlanAccepted(intake, plan)
        /\ DOMAIN chosen = DOMAIN plan.aspects
    BY <2>3, TaskForm DEF Progress
  <2>7. ASSUME NEW s \in selections' PROVE
          /\ s.task \in Begun /\ s.aspect = plan.tasks[s.task].aspect
          /\ s.authority \in StepOf(s.task)'.selected
          /\ s.spans \subseteq chosen'[s.aspect]
          /\ \A span \in s.spans : span.doc = s.authority
          /\ s.temporal = TemporalOf(s.authority) /\ s.standing = AuthorityOf(s.authority)
    <3>1. CASE s \in selections
      <4>1. /\ s.task \in Begun /\ s.aspect = plan.tasks[s.task].aspect
            /\ s.authority \in StepOf(s.task).selected
            /\ s.spans \subseteq chosen[s.aspect]
            /\ \A span \in s.spans : span.doc = s.authority
            /\ s.temporal = TemporalOf(s.authority) /\ s.standing = AuthorityOf(s.authority)
        BY <3>1 DEF Attested
      <4>2. s.authority \in StepOf(s.task)'.selected
        BY <2>2, <2>4, <4>1
      <4>3. s.aspect \in DOMAIN chosen
        <5>1. s.task \in DOMAIN plan.tasks
          BY <4>1, TaskRange
        <5>2. plan.tasks[s.task] \in Range(plan.tasks)
          BY <5>1 DEF Range
        <5> QED
          BY <2>6, <4>1, <5>2 DEF PlanAccepted
      <4>4. s.spans \subseteq chosen'[s.aspect]
        BY <2>1, <4>1, <4>3, Gathered
      <4> QED
        BY <4>1, <4>2, <4>4
    <3>2. CASE s \notin selections
      <4>1. /\ s.aspect = Aspect /\ s.task = Current /\ s.authority = hit.doc
            /\ s.authority \in step'.selected
            /\ s.spans \subseteq chosen'[Aspect]
            /\ \A span \in s.spans : span.doc = hit.doc
            /\ s.standing = AuthorityOf(hit.doc) /\ s.temporal = TemporalOf(hit.doc)
        BY <2>1, <3>2, Gathered
      <4> QED
        BY <2>4, <2>6, <4>1
    <3> QED
      BY <3>1, <3>2
  <2> QED
    BY <2>4, <2>5, <2>7, CorpusStays DEF Attested
<1> QED
  BY <1>1, <1>2, <1>3 DEF ResearchNext

-----------------------------------------------------------------------------
\* Items.
Unresolved(noted, t) == \E i \in noted : i.task = t /\ i.category = "unresolved_identity"

Proper(i) == i.task # 0 => (i.category = "unresolved_identity" <=> i.why[1] \in Unidentified)

\* Noting an item forgets no text that could not be identified.
LEMMA Noted ==
    ASSUME Filed, NEW item, Proper(item), item.task # 0
    PROVE  /\ \A i \in Note(item) : Proper(i)
           /\ \A t : t # 0 /\ Unresolved(items, t) => Unresolved(Note(item), t)
           /\ item.category = "unresolved_identity" => Unresolved(Note(item), item.task)
<1>1. \A i \in items : Proper(i)
  BY DEF Filed, Proper
<1>2. item \in Note(item) /\ \A i \in Note(item) : i \in items \/ i = item
  BY DEF Note
<1>3. ASSUME NEW t, t # 0, Unresolved(items, t) PROVE Unresolved(Note(item), t)
  <2>1. PICK i \in items : i.task = t /\ i.category = "unresolved_identity"
    BY <1>3 DEF Unresolved
  <2>2. CASE <<i.task, i.why>> # <<item.task, item.why>>
    <3>1. i \in Note(item)
      BY <2>2 DEF Note
    <3> QED
      BY <2>1, <3>1 DEF Unresolved
  <2>3. CASE <<i.task, i.why>> = <<item.task, item.why>>
    <3>1. i.task = item.task /\ i.why = item.why
      BY <2>3
    <3>2. item.category = "unresolved_identity"
      BY <1>1, <1>3, <2>1, <3>1 DEF Proper
    <3> QED
      BY <1>2, <2>1, <3>1, <3>2 DEF Unresolved
  <2> QED
    BY <2>2, <2>3
<1> QED
  BY <1>1, <1>2, <1>3 DEF Unresolved

\* An item of the task that is read, and those a document brings.
LEMMA ItemForm ==
    ASSUME NEW category, NEW why, NEW doc, NEW span
    PROVE  /\ Item(category, why, doc, span).task = Current
           /\ Item(category, why, doc, span).category = category
           /\ Item(category, why, doc, span).why = why
BY DEF Item

\* The items a document brings concern no task.
LEMMA AdmitForm ==
    ASSUME NEW doc
    PROVE  \A i \in AdmitItems(doc) : i.task = 0
BY DEF AdmitItems, ClassifierItems

\* A search notes that it found too much or nothing.
LEMMA ItemsOfSearch ==
    ASSUME Progress, Filed, NEW all \in Findings, Search(all)
    PROVE  /\ Filed'
           /\ \A t : t # 0 /\ Unresolved(items, t) => Unresolved(items', t)
<1>1. Current # 0
  BY LenProperties DEF Search, Progress, Current
<1>2. ASSUME NEW item, item.task = Current, item.category # "unresolved_identity",
             item.why[1] \notin Unidentified, items' = Note(item)
      PROVE  /\ Filed'
             /\ \A t : t # 0 /\ Unresolved(items, t) => Unresolved(items', t)
  <2>1. Proper(item)
    BY <1>2 DEF Proper
  <2>2. /\ \A i \in Note(item) : Proper(i)
        /\ \A t : t # 0 /\ Unresolved(items, t) => Unresolved(Note(item), t)
    BY <1>1, <1>2, <2>1, Noted
  <2> QED
    BY <1>2, <2>2 DEF Filed, Proper
<1>3. CASE Len(all) > MaxHits
  <2>1. PICK item : item = Item("budget_exhausted", <<"hits", NoDoc>>, NoDoc, NoSpan)
    OBVIOUS
  <2>2. items' = Note(item)
    BY <1>3, <2>1 DEF Search
  <2>3. item.task = Current /\ item.category = "budget_exhausted" /\ item.why = <<"hits", NoDoc>>
    BY <2>1, ItemForm
  <2> QED
    BY <1>2, <2>2, <2>3 DEF Unidentified
<1>4. CASE ~ (Len(all) > MaxHits) /\ all = <<>>
  <2>1. PICK item : item = Item("no_relevant_corpus_evidence", <<"none", NoDoc>>, NoDoc, NoSpan)
    OBVIOUS
  <2>2. items' = Note(item)
    BY <1>4, <2>1 DEF Search
  <2>3. item.task = Current /\ item.category = "no_relevant_corpus_evidence"
        /\ item.why = <<"none", NoDoc>>
    BY <2>1, ItemForm
  <2> QED
    BY <1>2, <2>2, <2>3 DEF Unidentified
<1>5. CASE ~ (Len(all) > MaxHits) /\ all # <<>>
  <2>1. items' = items
    BY <1>5 DEF Search
  <2> QED
    BY <2>1 DEF Filed
<1> QED
  BY <1>3, <1>4, <1>5

\* Reading a hit notes what could not be identified and forgets nothing of it.
LEMMA ItemsOfRead ==
    ASSUME Progress, Within, Filed, NEW hit,
           \/ ReadUnidentified(hit) \/ ReadOverAuthorities(hit) \/ ReadUnspanned(hit)
           \/ ReadOverEvidence(hit) \/ ReadSelected(hit)
    PROVE  /\ Filed'
           /\ \A t : t # 0 /\ Unresolved(items, t) => Unresolved(items', t)
           /\ ReadUnidentified(hit) \/ ReadUnspanned(hit) => Unresolved(items', Current)
<1>1. Reading(hit)
  BY ReadSteps
<1>2. stage = "read"
  BY <1>1, Read1
<1>3. Current # 0
  BY <1>2, TaskForm
<1>4. ASSUME NEW item, item.task = Current,
             item.category = "unresolved_identity" <=> item.why[1] \in Unidentified,
             NEW more, \A i \in more : i.task = 0, items' = Note(item) \cup more
      PROVE  /\ Filed'
             /\ \A t : t # 0 /\ Unresolved(items, t) => Unresolved(items', t)
             /\ item.category = "unresolved_identity" => Unresolved(items', Current)
  <2>1. Proper(item)
    BY <1>4 DEF Proper
  <2>2. /\ \A i \in Note(item) : Proper(i)
        /\ \A t : t # 0 /\ Unresolved(items, t) => Unresolved(Note(item), t)
        /\ item.category = "unresolved_identity" => Unresolved(Note(item), Current)
    BY <1>3, <1>4, <2>1, Noted
  <2>3. \A t : Unresolved(Note(item), t) => Unresolved(items', t)
    BY <1>4 DEF Unresolved
  <2>4. \A i \in items' : Proper(i)
    BY <1>4, <2>2 DEF Proper
  <2> QED
    BY <2>2, <2>3, <2>4 DEF Filed, Proper
<1>5. CASE ReadUnidentified(hit)
  <2>1. PICK item : item = Item("unresolved_identity", <<"segment", hit>>, NoDoc, NoSpan)
    OBVIOUS
  <2>0. PICK more : more = {}
    OBVIOUS
  <2>2. items' = Note(item) \cup more
    BY <1>5, <2>0, <2>1 DEF ReadUnidentified
  <2>3. item.task = Current /\ item.category = "unresolved_identity" /\ item.why = <<"segment", hit>>
    BY <2>1, ItemForm
  <2>4. item.category = "unresolved_identity" <=> item.why[1] \in Unidentified
    BY <2>3 DEF Unidentified
  <2>5. \A i \in more : i.task = 0
    BY <2>0
  <2> QED
    BY <1>4, <2>2, <2>3, <2>4, <2>5
<1>6. CASE ReadOverAuthorities(hit)
  <2>1. PICK item : item = Item("budget_exhausted", <<"authorities", hit.doc>>, hit.doc, NoSpan)
    OBVIOUS
  <2>0. PICK more : more = {}
    OBVIOUS
  <2>2. items' = Note(item) \cup more /\ ~ReadUnidentified(hit) /\ ~ReadUnspanned(hit)
    BY <1>6, <2>0, <2>1 DEF ReadOverAuthorities, ReadUnidentified, ReadUnspanned, Admit
  <2>3. item.task = Current /\ item.category = "budget_exhausted"
        /\ item.why = <<"authorities", hit.doc>>
    BY <2>1, ItemForm
  <2>4. item.category = "unresolved_identity" <=> item.why[1] \in Unidentified
    BY <2>3 DEF Unidentified
  <2>5. \A i \in more : i.task = 0
    BY <2>0
  <2> QED
    BY <1>4, <2>2, <2>3, <2>4, <2>5
<1>7. CASE ReadUnspanned(hit)
  <2>1. PICK item : item = Item("unresolved_identity", <<"span", hit>>, hit.doc, NoSpan)
    OBVIOUS
  <2>2. items' = Note(item) \cup AdmitItems(hit.doc)
    BY <1>7, <2>1 DEF ReadUnspanned
  <2>3. item.task = Current /\ item.category = "unresolved_identity" /\ item.why = <<"span", hit>>
    BY <2>1, ItemForm
  <2>4. item.category = "unresolved_identity" <=> item.why[1] \in Unidentified
    BY <2>3 DEF Unidentified
  <2>5. \A i \in AdmitItems(hit.doc) : i.task = 0
    BY AdmitForm
  <2> QED
    BY <1>4, <2>2, <2>3, <2>4, <2>5
<1>8. CASE ReadOverEvidence(hit)
  <2>1. PICK item : item = Item("budget_exhausted", <<"evidence", NoDoc>>, hit.doc, NoSpan)
    OBVIOUS
  <2>2. items' = Note(item) \cup AdmitItems(hit.doc) /\ ~ReadUnidentified(hit) /\ ~ReadUnspanned(hit)
    BY <1>8, <2>1 DEF ReadOverEvidence, ReadUnidentified, ReadUnspanned, Admit
  <2>3. item.task = Current /\ item.category = "budget_exhausted" /\ item.why = <<"evidence", NoDoc>>
    BY <2>1, ItemForm
  <2>4. item.category = "unresolved_identity" <=> item.why[1] \in Unidentified
    BY <2>3 DEF Unidentified
  <2>5. \A i \in AdmitItems(hit.doc) : i.task = 0
    BY AdmitForm
  <2> QED
    BY <1>4, <2>2, <2>3, <2>4, <2>5
<1>9. CASE ReadSelected(hit)
  <2>1. items' = ContextItems(hit) \cup AdmitItems(hit.doc) /\ ~ReadUnidentified(hit)
        /\ ~ReadUnspanned(hit)
    BY <1>9 DEF ReadSelected, ReadUnidentified, ReadUnspanned, Admit
  <2>2. CASE ContextStatus(hit) # "incomplete"
    <3>1. ContextItems(hit) = items
      BY <2>2 DEF ContextItems
    <3>2. \A i \in items' : i \in items \/ i.task = 0
      BY <2>1, <3>1, AdmitForm
    <3> QED
      BY <2>1, <3>1, <3>2 DEF Filed, Unresolved
  <2>3. CASE ContextStatus(hit) = "incomplete"
    <3>1. PICK category : category = IF Cut(hit) THEN "budget_exhausted" ELSE "context_incomplete"
      OBVIOUS
    <3>2. PICK item : item = Item(category, <<"context", hit>>, hit.doc, hit.span)
      OBVIOUS
    <3>3. items' = Note(item) \cup AdmitItems(hit.doc)
      BY <2>1, <2>3, <3>1, <3>2 DEF ContextItems
    <3>4. item.task = Current /\ item.category = category /\ item.why = <<"context", hit>>
      BY <3>2, ItemForm
    <3>5. category # "unresolved_identity"
      BY <3>1
    <3>6. item.category = "unresolved_identity" <=> item.why[1] \in Unidentified
      BY <3>4, <3>5 DEF Unidentified
    <3>7. \A i \in AdmitItems(hit.doc) : i.task = 0
      BY AdmitForm
    <3> QED
      BY <1>4, <2>1, <3>3, <3>4, <3>6, <3>7
  <2> QED
    BY <2>2, <2>3
<1> QED
  BY <1>5, <1>6, <1>7, <1>8, <1>9

\* A hit that is read is selected with its context, or the task says why it is not.
LEMMA HeardRead ==
    ASSUME Progress, Within, Filed, NEW hit,
           \/ ReadUnidentified(hit) \/ ReadOverAuthorities(hit) \/ ReadUnspanned(hit)
           \/ ReadOverEvidence(hit) \/ ReadSelected(hit)
    PROVE  \/ Whole(step', hit)
           \/ step'.outcome = "budget_exhausted"
           \/ Unresolved(items', Current)
           \/ \E s \in selections' : s.task = Current /\ s.context = "incomplete"
<1>1. Reading(hit) /\ step \in Steps /\ hit \in Offered /\ stage = "read"
  <2>1. Reading(hit)
    BY ReadSteps
  <2> QED
    BY <2>1, Read1 DEF Progress
<1>2. CASE ReadUnidentified(hit) \/ ReadUnspanned(hit)
  BY <1>2, ItemsOfRead
<1>3. CASE ReadOverAuthorities(hit)
  BY <1>1, <1>3 DEF ReadOverAuthorities, Exhausted, Steps
<1>4. CASE ReadOverEvidence(hit)
  <2>1. PICK st : st = Retrieving(hit.doc)
    OBVIOUS
  <2>2. st \in Steps
    BY <1>1, <2>1, StepForm DEF Retrieving
  <2>3. step' = [st EXCEPT !.outcome = "budget_exhausted"]
    BY <2>1, <1>4 DEF ReadOverEvidence
  <2> QED
    BY <2>2, <2>3 DEF Steps
<1>5. CASE ReadSelected(hit)
  <2>1. PICK spans : spans = {hit.span} \cup Own(hit)
    OBVIOUS
  <2>2. PICK selection : selection = Selection(hit, spans)
    OBVIOUS
  <2>3. /\ Admit(hit) /\ hit.span # NoSpan
        /\ step' = [outcome |-> step.outcome, retrieved |-> step.retrieved \cup {hit.doc},
                    selected |-> step.selected \cup {hit.doc}, spans |-> step.spans \cup spans]
        /\ selections' = selections \cup {selection}
    BY <1>5, <2>1, <2>2 DEF ReadSelected
  <2>4. CASE ContextStatus(hit) = "incomplete"
    <3>1. selection.task = Current /\ selection.context = "incomplete"
      BY <2>2, <2>4 DEF Selection
    <3> QED
      BY <2>3, <3>1
  <2>5. CASE ContextStatus(hit) # "incomplete"
    <3>1. hit.cites =>
            /\ ~hit.gap /\ ~Cut(hit)
            /\ \A s \in Range(ContextOf(hit)) : s.doc = hit.doc
      BY <2>5 DEF ContextStatus
    <3>2. hit.cites => Range(hit.context) \subseteq Own(hit)
      BY <1>1, <3>1, ContextForm DEF Own
    <3>3. spans \subseteq step'.spans /\ hit.doc # NoDoc
      BY <2>3 DEF Admit
    <3> QED
      BY <2>1, <2>3, <3>1, <3>2, <3>3 DEF Whole
  <2> QED
    BY <2>4, <2>5
<1> QED
  BY <1>2, <1>3, <1>4, <1>5

\* No action passes over a hit in silence.
LEMMA HeardStep ==
    ASSUME Progress, Within, Filed, Heard, [ResearchNext]_research
    PROVE  Filed' /\ Heard'
<1>1. CASE MakePlan \/ EndTask \/ Conclude \/ UNCHANGED research
  <2>1. /\ Begun' = Begun /\ UNCHANGED <<items, selections, found>>
        /\ \A t \in Begun : StepOf(t)' = StepOf(t)
    BY <1>1, StepsOfOthers
  <2>2. Filed'
    BY <2>1 DEF Filed
  <2>3. ASSUME NEW t \in Begun, NEW hit \in Range(found[t])
        PROVE  \/ Whole(StepOf(t)', hit)
               \/ Doubted(t)'
               \/ stage' = "read" /\ t = Current' /\ hit \in Range(hits')
    <3>1. Doubted(t) => Doubted(t)'
      BY <2>1 DEF Doubted
    <3>2. CASE stage = "read" /\ t = Current /\ hit \in Range(hits)
      <4>1. CASE UNCHANGED research
        <5>1. stage' = stage /\ hits' = hits /\ trace' = trace
          BY <4>1 DEF research, reading
        <5> QED
          BY <3>2, <5>1 DEF Current
      <4>2. CASE EndTask
        BY <3>2, <4>2 DEF EndTask, Range
      <4>3. CASE MakePlan \/ Conclude
        BY <3>2, <4>3 DEF MakePlan, Conclude
      <4> QED
        BY <1>1, <4>1, <4>2, <4>3
    <3> QED
      BY <2>1, <3>1, <3>2 DEF Heard
  <2> QED
    BY <2>1, <2>2, <2>3 DEF Heard
<1>2. ASSUME NEW all \in Findings, Search(all) PROVE Filed' /\ Heard'
  <2>1. /\ Begun' = Begun \cup {Current} /\ Current' = Current
        /\ \A t \in Begun : StepOf(t)' = StepOf(t) /\ found'[t] = found[t]
        /\ \A t : t = Current => StepOf(t)' = step' /\ found'[t] = all
    BY <1>2, StepsOfSearch
  <2>2. stage = "search" /\ selections' = selections
    BY <1>2 DEF Search
  <2>3. /\ Filed'
        /\ \A t : t # 0 /\ Unresolved(items, t) => Unresolved(items', t)
    BY <1>2, ItemsOfSearch
  <2>4. ASSUME NEW t \in Begun, NEW hit \in Range(found'[t])
        PROVE  Whole(StepOf(t)', hit) \/ Doubted(t)'
    <3>1. t # 0
      BY LenProperties DEF Begun, Progress
    <3>2. Whole(StepOf(t), hit) \/ Doubted(t)
      BY <2>1, <2>2 DEF Heard
    <3>3. Doubted(t) => Doubted(t)'
      BY <2>1, <2>2, <2>3, <3>1 DEF Doubted, Unresolved
    <3> QED
      BY <2>1, <3>2, <3>3
  <2>5. ASSUME NEW t, t = Current, NEW hit \in Range(found'[t])
        PROVE  Doubted(t)' \/ (stage' = "read" /\ t = Current' /\ hit \in Range(hits'))
    <3>1. /\ stage' = "read" /\ StepOf(t)' = step' /\ found'[t] = all
          /\ Len(all) > MaxHits => step'.outcome = "budget_exhausted"
          /\ ~ (Len(all) > MaxHits) => hits' = all
      BY <1>2, <2>1, <2>5, ProgressSearch
    <3> QED
      BY <2>1, <2>5, <3>1 DEF Doubted
  <2> QED
    BY <2>1, <2>3, <2>4, <2>5 DEF Heard
<1>3. CASE Read
  <2>1. PICK read : \/ ReadUnidentified(read) \/ ReadOverAuthorities(read) \/ ReadUnspanned(read)
                    \/ ReadOverEvidence(read) \/ ReadSelected(read)
    BY <1>3 DEF Read
  <2>2. /\ Reading(read) /\ Untouched /\ step.spans \subseteq step'.spans
        /\ step.outcome = "budget_exhausted" => step'.outcome = "budget_exhausted"
    BY <2>1, ReadSteps
  <2>3. stage = "read" /\ \A other \in Range(hits) : other = read \/ other \in Range(hits')
    BY <2>2, Read1
  <2>4. /\ Begun' = Begun /\ Current' = Current /\ found' = found
        /\ \A t \in Begun \ {Current} : StepOf(t)' = StepOf(t)
        /\ \A t : t = Current => StepOf(t) = step /\ StepOf(t)' = step'
    BY <2>2, <2>3, StepsOfRead
  <2>5. /\ Filed'
        /\ \A t : t # 0 /\ Unresolved(items, t) => Unresolved(items', t)
    BY <2>1, ItemsOfRead
  <2>6. selections \subseteq selections'
    BY <2>1, Gathered
  <2>7. ASSUME NEW t \in Begun, NEW hit \in Range(found[t])
        PROVE  \/ Whole(StepOf(t)', hit)
               \/ Doubted(t)'
               \/ stage' = "read" /\ t = Current' /\ hit \in Range(hits')
    <3>1. t # 0
      BY LenProperties DEF Begun, Progress
    <3>2. Doubted(t) => Doubted(t)'
      <4>1. StepOf(t).outcome = "budget_exhausted" => StepOf(t)'.outcome = "budget_exhausted"
        BY <2>2, <2>4
      <4> QED
        BY <2>5, <2>6, <3>1, <4>1 DEF Doubted, Unresolved
    <3>3. Whole(StepOf(t), hit) => Whole(StepOf(t)', hit)
      <4>1. StepOf(t).spans \subseteq StepOf(t)'.spans
        BY <2>2, <2>4
      <4> QED
        BY <4>1 DEF Whole
    <3>4. CASE stage = "read" /\ t = Current /\ hit \in Range(hits)
      <4>1. CASE hit = read
        <5>1. \/ Whole(step', hit)
              \/ step'.outcome = "budget_exhausted"
              \/ Unresolved(items', t)
              \/ \E s \in selections' : s.task = t /\ s.context = "incomplete"
          BY <2>1, <3>4, <4>1, HeardRead
        <5> QED
          BY <2>4, <3>4, <5>1 DEF Doubted, Unresolved
      <4>2. CASE hit # read
        BY <2>2, <2>3, <2>4, <3>4, <4>2 DEF Untouched
      <4> QED
        BY <4>1, <4>2
    <3> QED
      BY <3>2, <3>3, <3>4 DEF Heard
  <2> QED
    BY <2>4, <2>5, <2>7 DEF Heard
<1> QED
  BY <1>1, <1>2, <1>3 DEF ResearchNext

-----------------------------------------------------------------------------
\* The invariant of the research.
THEOREM ResearchInvariant == ResearchSpec => []ResearchInv
<1>1. ResearchInit => ResearchInv
  BY ProgressInit, WithinInit, OwnedInit DEF ResearchInv
<1>2. ResearchInv /\ [ResearchNext]_research => ResearchInv'
  BY ProgressStep, WithinStep, OwnedStep, AttestedStep, HeardStep DEF ResearchInv
<1> QED
  BY <1>1, <1>2, PTL DEF ResearchSpec

\* A plan is the planner's own, and an analysis fails only when there is no room for one.
Planned ==
    /\ intake \in Intakes
    /\ stage = "failed" => ~Plannable(intake)
    /\ plan # NoPlan => plan = BuildPlan(intake) /\ Plannable(intake)

\* The validator of plans refuses none that the planner makes.
LEMMA PlansAreMade == ResearchSpec => []Planned
<1>1. ResearchInit => Planned
  BY DEF ResearchInit, Planned
<1>2. ASSUME Planned, MakePlan PROVE Planned'
  <2>1. IntakeAccepted(intake)
    BY <1>2, ResearchAssumption DEF Planned
  <2>2. CASE Plannable(intake)
    <3>1. PlanAccepted(intake, BuildPlan(intake))
      BY <2>1, <2>2, PlansFit, PlanningAssumption
    <3>2. plan' = BuildPlan(intake) /\ stage' = "search" /\ intake' = intake
      BY <1>2, <2>2, <3>1 DEF MakePlan, case
    <3>3. BuildPlan(intake)' = BuildPlan(intake) /\ Plannable(intake)' = Plannable(intake)
      BY <3>2
    <3> QED
      BY <1>2, <2>2, <3>2, <3>3 DEF Planned
  <2>3. CASE ~Plannable(intake)
    <3>1. plan' = plan /\ intake' = intake
      BY <1>2, <2>3 DEF MakePlan, case
    <3>2. BuildPlan(intake)' = BuildPlan(intake) /\ Plannable(intake)' = Plannable(intake)
      BY <3>1
    <3> QED
      BY <1>2, <2>3, <3>1, <3>2 DEF Planned
  <2> QED
    BY <2>2, <2>3
<1>3. ASSUME Planned, UNCHANGED <<intake, plan>>, stage' # "failed" \/ stage' = stage
      PROVE  Planned'
  <2>1. BuildPlan(intake)' = BuildPlan(intake) /\ Plannable(intake)' = Plannable(intake)
    BY <1>3
  <2> QED
    BY <1>3, <2>1 DEF Planned
<1>4. ASSUME NEW all \in Findings, Search(all)
      PROVE  UNCHANGED <<intake, plan>> /\ stage' # "failed"
  BY <1>4 DEF Search, case
<1>5. ASSUME Read PROVE UNCHANGED <<intake, plan>> /\ stage' = stage
  <2>1. ASSUME NEW hit PROVE /\ ReadUnidentified(hit) => Untouched
                             /\ ReadOverAuthorities(hit) => Untouched
                             /\ ReadUnspanned(hit) => Untouched
                             /\ ReadOverEvidence(hit) => Untouched
                             /\ ReadSelected(hit) => Untouched
    BY DEF ReadUnidentified, ReadOverAuthorities, ReadUnspanned, ReadOverEvidence, ReadSelected
  <2>2. Untouched
    BY <1>5, <2>1 DEF Read
  <2> QED
    BY <2>2 DEF Untouched, case
<1>6. ASSUME EndTask \/ Conclude PROVE UNCHANGED <<intake, plan>> /\ stage' # "failed"
  BY <1>6 DEF EndTask, Conclude, case
<1>7. ASSUME UNCHANGED research PROVE UNCHANGED <<intake, plan>> /\ stage' = stage
  BY <1>7 DEF research, case
<1>8. Planned /\ [ResearchNext]_research => Planned'
  BY <1>2, <1>3, <1>4, <1>5, <1>6, <1>7 DEF ResearchNext
<1> QED
  BY <1>1, <1>8, PTL DEF ResearchSpec

(* For every catalogue, every intake and all budgets: the planner refuses   *)
(* an intake only for want of room; a plan puts its required tasks first,   *)
(* and in each part no question waits while another has two turns, nor an   *)
(* aspect while another of its question has (schedule_research_tasks).      *)
THEOREM PlansAreFair == ResearchSpec => []PlanIsFair
<1>1. Planned => PlanIsFair
  BY PlansFair, PlanningAssumption, ResearchAssumption DEF Planned, PlanIsFair
<1> QED
  BY <1>1, PlansAreMade, PTL

(* Whatever the corpus, the plan and the searches: no budget is exceeded at *)
(* any step of a research, so that the second check of _execute_research    *)
(* never refuses anything.                                                  *)
THEOREM BudgetsAreKept == ResearchSpec => []BudgetsKept
<1>1. ResearchInv => BudgetsKept
  BY DEF ResearchInv, Within, BudgetsKept
<1> QED
  BY <1>1, ResearchInvariant, PTL

\* What support that is called complete implies (_support_closure).
LEMMA ClosureForm ==
    ASSUME NEW a, SupportClosure(a) = "complete"
    PROVE  /\ plan.aspects[a].scope # "generic_limited"
           /\ \A t \in RequiredOf(a) : trace[t].outcome # "budget_exhausted"
           /\ ExecutionStatus(a) = "complete" /\ EvidenceStatus(a) = "context_ready"
           /\ AuthorityStatus(a) = "resolved" /\ SynthesisStatus(a) # "unsupported"
           /\ SelectionsOf(a) # {}
           /\ \A s \in SelectionsOf(a) : /\ s.context # "incomplete"
                                         /\ s.standing \notin {"ambiguous", "unassessed"}
           /\ "unresolved_identity" \notin Categories(a)
           /\ OmissionsOf(a) = {}
           /\ Categories(a) \cap {"context_incomplete", "conflicting_authority"} = {}
           /\ date # 0 => /\ TemporalStatus(a) = "assessed"
                          /\ \A s \in SelectionsOf(a) : s.temporal = "effective_as_of"
<1>1. /\ plan.aspects[a].scope # "generic_limited"
      /\ ExecutionStatus(a) = "complete" /\ EvidenceStatus(a) = "context_ready"
      /\ AuthorityStatus(a) = "resolved" /\ SynthesisStatus(a) # "unsupported"
      /\ OmissionsOf(a) = {}
      /\ Categories(a) \cap {"context_incomplete", "conflicting_authority"} = {}
      /\ date # 0 => /\ TemporalStatus(a) = "assessed"
                     /\ \A s \in SelectionsOf(a) : s.temporal = "effective_as_of"
  BY DEF SupportClosure
<1>2. \A t \in RequiredOf(a) : trace[t].outcome # "budget_exhausted"
  BY <1>1 DEF ExecutionStatus
<1>3. SelectionsOf(a) # {} /\ \A s \in SelectionsOf(a) : s.context # "incomplete"
  BY <1>1 DEF EvidenceStatus
<1>4. /\ "unresolved_identity" \notin Categories(a)
      /\ LET values == {s.standing : s \in SelectionsOf(a)}
         IN "ambiguous" \notin values /\ "unassessed" \notin values
  BY <1>1 DEF AuthorityStatus
<1> QED
  BY <1>1, <1>2, <1>3, <1>4

\* Of a result: it is what the research has gathered.
LEMMA EndForm ==
    ASSUME Progress, Ended
    PROVE  /\ result = Result /\ PlanAccepted(intake, plan)
           /\ Begun = DOMAIN plan.tasks /\ Begun = DOMAIN trace
           /\ \A t \in Begun : StepOf(t) = trace[t]
           /\ \A t \in Begun : plan.tasks[t].aspect \in DOMAIN plan.aspects
<1>1. /\ result = Result /\ PlanAccepted(intake, plan) /\ Len(trace) = Len(plan.tasks)
      /\ Len(found) = Len(trace) /\ found \in Seq(Findings) /\ trace \in Seq(Steps)
  BY DEF Progress, Ended
<1>2. plan.tasks \in Seq(Range(plan.tasks))
  BY <1>1, Zenon DEF PlanAccepted
<1>3. Begun = DOMAIN plan.tasks /\ Begun = DOMAIN trace
  <2>1. /\ DOMAIN plan.tasks = 1..Len(plan.tasks) /\ DOMAIN trace = 1..Len(trace)
        /\ DOMAIN found = 1..Len(found)
    BY <1>1, <1>2, LenProperties
  <2> QED
    BY <1>1, <2>1 DEF Begun
<1>4. \A t \in Begun : plan.tasks[t].aspect \in DOMAIN plan.aspects
  <2>1. \A t \in DOMAIN plan.tasks : plan.tasks[t] \in Range(plan.tasks)
    BY DEF Range
  <2>2. \A task \in Range(plan.tasks) : task.aspect \in DOMAIN plan.aspects
    BY <1>1 DEF PlanAccepted
  <2> QED
    BY <1>3, <2>1, <2>2
<1> QED
  BY <1>1, <1>3, <1>4 DEF StepOf

\* The parts of the result, and of the coverage of an aspect.
LEMMA ResultForm ==
    /\ \A a \in DOMAIN plan.aspects : Result.coverage[a] = Coverage(a)
    /\ Result.status = ResultStatus /\ Result.omissions = Omissions /\ Result.relations = Selected
    /\ Result.authorities = SupportAuthorities(corpus.relations, Selected, authorities)
    /\ Result.evidence = evidence \cup SupportSpans(corpus.relations, Selected)
BY DEF Result

LEMMA CoverageForm ==
    ASSUME NEW a
    PROVE  /\ Coverage(a).closure = SupportClosure(a) /\ Coverage(a).execution = ExecutionStatus(a)
           /\ Coverage(a).evidence = EvidenceStatus(a) /\ Coverage(a).authority = AuthorityStatus(a)
           /\ Coverage(a).temporal = TemporalStatus(a) /\ Coverage(a).fact = FactStatus(a)
           /\ Coverage(a).synthesis = SynthesisStatus(a) /\ Coverage(a).limitations = Limitations(a)
BY DEF Coverage

\* The closure of an aspect in the result.
LEMMA ClosureOfResult ==
    ASSUME Progress, Ended, NEW a \in DOMAIN plan.aspects
    PROVE  result.coverage[a] = Coverage(a) /\ result.coverage[a].closure = SupportClosure(a)
BY EndForm, ResultForm, CoverageForm

\* A document that takes effect at a date has one interval that holds it.
LEMMA Effective ==
    ASSUME NEW known \in Corpora, NEW doc \in DOMAIN known.documents, date \in Dates,
           Effect(known.documents[doc], date) = "effective", ~Ambiguous(known.documents[doc])
    PROVE  InForce(known.documents[doc])
<1>1. PICK document : document = known.documents[doc]
  OBVIOUS
<1>2. /\ document.starts \cup document.ends \cup document.terminated \subseteq Nat
      /\ IsFiniteSet(document.starts) /\ IsFiniteSet(document.ends) /\ date \in Nat
  BY <1>1, ResearchAssumption
<1>3. /\ ~ \E t \in document.terminated : t <= date
      /\ Cardinality(document.starts) = 1 /\ ~ (date < Min(document.starts))
      /\ Cardinality(document.ends) = 1 /\ date <= Min(document.ends)
  BY <1>1 DEF Effect
<1>4. PICK start \in document.starts : document.starts = {start}
  BY <1>2, <1>3, FS_Singleton
<1>5. PICK end \in document.ends : document.ends = {end}
  BY <1>2, <1>3, FS_Singleton
<1>6. start \in Nat /\ end \in Nat
  BY <1>2
<1>7. Min({start}) = start /\ Min({end}) = end
  BY <1>6 DEF Min
<1>8. start <= date /\ date <= end
  BY <1>2, <1>3, <1>4, <1>5, <1>6, <1>7
<1>9. \A t \in document.terminated : date < t
  BY <1>2, <1>3
<1> QED
  BY <1>1, <1>4, <1>5, <1>8, <1>9 DEF InForce

(* Support that is called complete for a date rests on documents in force   *)
(* at that date: each of its selections names a document with one known     *)
(* beginning and end around it, whose signals do not disagree.              *)
THEOREM CompleteSupportIsInForce == ResearchSpec => []CompleteIsInForce
<1>1. ResearchInv => CompleteIsInForce
  <2> SUFFICES ASSUME ResearchInv, Ended, date # 0, NEW s \in selections,
                      result.coverage[s.aspect].closure = "complete"
               PROVE  InForce(corpus.documents[s.authority])
    BY DEF CompleteIsInForce
  <2>1. Progress /\ Owned /\ Attested
    BY DEF ResearchInv
  <2>2. /\ s.task \in Begun /\ s.aspect = plan.tasks[s.task].aspect
        /\ s.authority \in StepOf(s.task).selected
        /\ s.temporal = TemporalOf(s.authority) /\ s.standing = AuthorityOf(s.authority)
    BY <2>1 DEF Attested
  <2>3. s.aspect \in DOMAIN plan.aspects
    BY <2>1, <2>2, EndForm
  <2>4. SupportClosure(s.aspect) = "complete" /\ s \in SelectionsOf(s.aspect)
    BY <2>1, <2>3, ClosureOfResult DEF SelectionsOf
  <2>5. s.temporal = "effective_as_of" /\ s.standing \notin {"ambiguous", "unassessed"}
    BY <2>4, ClosureForm
  <2>6. s.authority \in DOMAIN corpus.documents
    BY <2>1, <2>2 DEF Owned
  <2>7. Effect(corpus.documents[s.authority], date) = "effective"
    BY <2>2, <2>5 DEF TemporalOf
  <2>8. ~Ambiguous(corpus.documents[s.authority])
    <3>1. Classification(corpus.documents[s.authority]) # "ambiguous"
      BY <2>2, <2>5 DEF AuthorityOf
    <3> QED
      BY <3>1 DEF Classification
  <2> QED
    BY <2>1, <2>6, <2>7, <2>8, Effective DEF Progress
<1> QED
  BY <1>1, ResearchInvariant, PTL

\* The relationships that matter to an aspect are some of those of the corpus.
LEMMA RelationsForm ==
    ASSUME Progress, NEW a
    PROVE  Relations(a) \subseteq Int /\ IsFiniteSet(Relations(a))
<1>1. corpus.relations \in Seq(Range(corpus.relations))
  BY ResearchAssumption DEF Progress
<1>2. PICK n \in Nat : n = Len(corpus.relations) /\ DOMAIN corpus.relations = 1..n
  BY <1>1, LenProperties
<1>3. Relations(a) \subseteq 1..n
  BY <1>2 DEF Relations, RelevantOf, Touching
<1>4. IsFiniteSet(1..n)
  BY FS_Interval
<1> QED
  BY <1>3, <1>4, FS_Subset

\* Nothing is left out when the relationships fit their budget.
LEMMA AllAdmitted ==
    ASSUME NEW relevant \in SUBSET Int, IsFiniteSet(relevant), ~Overflowing(relevant)
    PROVE  relevant \subseteq Admitted(relevant)
<1> SUFFICES ASSUME NEW r \in relevant PROVE r \in Admitted(relevant)
  OBVIOUS
<1>1. PICK before : before = {q \in relevant : q < r}
  OBVIOUS
<1>2. before \in SUBSET (relevant \ {r})
  BY <1>1
<1>3. /\ IsFiniteSet(relevant \ {r}) /\ Cardinality(relevant \ {r}) = Cardinality(relevant) - 1
      /\ Cardinality(relevant) \in Nat
  BY FS_RemoveElement, FS_CardinalityType
<1>4. IsFiniteSet(before) /\ Cardinality(before) <= Cardinality(relevant) - 1
  BY <1>2, <1>3, FS_Subset
<1>5. Cardinality(relevant) <= MaxRelations /\ Cardinality(before) \in Nat /\ MaxRelations \in Nat
  BY <1>3, <1>4, FS_CardinalityType, AuthoritiesAssumption DEF Overflowing
<1> QED
  BY <1>1, <1>3, <1>4, <1>5 DEF Admitted

(* Support is called complete only when nothing that was found for it was   *)
(* left out: every hit of the required tasks was selected with all of its   *)
(* context, and every relationship that matters is in the bundle.           *)
THEOREM CompleteSupportIsWhole == ResearchSpec => []CompleteIsWhole
<1>1. ResearchInv => CompleteIsWhole
  <2> SUFFICES ASSUME ResearchInv, Ended, NEW a \in DOMAIN plan.aspects,
                      result.coverage[a].closure = "complete"
               PROVE  /\ \A t \in RequiredOf(a) : \A hit \in Range(found[t]) : WhollySelected(t, hit)
                      /\ Relations(a) \subseteq result.relations
    BY DEF CompleteIsWhole
  <2>1. Progress /\ Attested /\ Heard
    BY DEF ResearchInv
  <2>2. SupportClosure(a) = "complete"
    BY <2>1, ClosureOfResult
  <2>3. ASSUME NEW t \in RequiredOf(a), NEW hit \in Range(found[t])
        PROVE  WhollySelected(t, hit)
    <3>1. t \in Begun /\ t \in TasksOf(a) /\ plan.tasks[t].aspect = a /\ StepOf(t) = trace[t]
      BY <2>1, EndForm DEF RequiredOf, TasksOf
    <3>2. Whole(trace[t], hit) \/ Doubted(t)
      BY <2>1, <3>1 DEF Heard, Ended
    <3>3. trace[t].outcome # "budget_exhausted"
      BY <2>2, ClosureForm
    <3>4. ~ \E i \in items : i.task = t /\ i.category = "unresolved_identity"
      BY <2>2, <3>1, ClosureForm DEF Categories, LocalItems
    <3>5. ~ \E s \in selections : s.task = t /\ s.context = "incomplete"
      <4> SUFFICES ASSUME NEW s \in selections, s.task = t PROVE s.context # "incomplete"
        OBVIOUS
      <4>1. s.aspect = a
        BY <2>1, <3>1 DEF Attested
      <4>2. s \in SelectionsOf(a)
        BY <4>1 DEF SelectionsOf
      <4> QED
        BY <2>2, <4>2, ClosureForm
    <3> QED
      BY <3>1, <3>2, <3>3, <3>4, <3>5 DEF Doubted, Whole, WhollySelected
  <2>4. Relations(a) \subseteq result.relations
    <3>1. ~Overflowing(Relations(a))
      <4> SUFFICES ASSUME Overflowing(Relations(a)) PROVE FALSE
        OBVIOUS
      <4>1. PICK o : o = Omission(a, 0, "support", "budget_exhausted")
        OBVIOUS
      <4>2. o \in Omissions
        BY <4>1 DEF Omissions
      <4>3. o.aspect = a
        BY <4>1 DEF Omission
      <4>4. OmissionsOf(a) = {}
        BY <2>2, ClosureForm
      <4> QED
        BY <4>2, <4>3, <4>4 DEF OmissionsOf
    <3>2. Relations(a) \subseteq Admitted(Relations(a))
      BY <2>1, <3>1, RelationsForm, AllAdmitted
    <3>3. result.relations = Selected
      BY <2>1, EndForm, ResultForm
    <3> QED
      BY <3>2, <3>3 DEF Selected
  <2> QED
    BY <2>3, <2>4
<1> QED
  BY <1>1, ResearchInvariant, PTL

-----------------------------------------------------------------------------
(* What the validator of results asks, clause by clause.                   *)

\* Authorities: those the trace names were admitted, and the bundle has them.
LEMMA AuthoritiesAccepted ==
    ASSUME ResearchInv, Ended
    PROVE  /\ Cardinality(AuthorityRefs) <= MaxAuthorities
           /\ AuthorityRefs \subseteq result.authorities
<1>1. Begun = DOMAIN trace /\ \A t \in Begun : StepOf(t) = trace[t]
  BY EndForm DEF ResearchInv
<1>2. AuthorityRefs \subseteq authorities
  BY <1>1 DEF ResearchInv, Owned, AuthorityRefs
<1>3. /\ IsFiniteSet(authorities) /\ Cardinality(authorities) <= MaxAuthorities
      /\ MaxAuthorities \in Nat
  BY ResearchAssumption DEF ResearchInv, Within
<1>4. IsFiniteSet(AuthorityRefs) /\ Cardinality(AuthorityRefs) <= Cardinality(authorities)
  BY <1>2, <1>3, FS_Subset
<1>5. Cardinality(AuthorityRefs) \in Nat /\ Cardinality(authorities) \in Nat
  BY <1>3, <1>4, FS_CardinalityType
<1>6. authorities \subseteq result.authorities
  BY EndForm, ResultForm DEF ResearchInv, SupportAuthorities
<1> QED
  BY <1>2, <1>3, <1>4, <1>5, <1>6

\* Trace and selections stay inside the plan, the budgets and the evidence.
LEMMA StepsAreAccepted ==
    ASSUME ResearchInv, Ended, Planned
    PROVE  StepsAccepted
<1>1. /\ Begun = DOMAIN trace /\ Begun = DOMAIN plan.tasks
      /\ \A t \in Begun : StepOf(t) = trace[t] /\ plan.tasks[t].aspect \in DOMAIN plan.aspects
      /\ result = Result
  BY EndForm DEF ResearchInv
<1>2. evidence \subseteq result.evidence
  BY <1>1, ResultForm
<1>3. ASSUME NEW t \in DOMAIN trace PROVE Min({Len(found[t]), MaxHits}) <= MaxHits
  <2>1. found[t] \in Findings
    BY <1>1, <1>3 DEF ResearchInv, Progress, Begun
  <2>2. Len(found[t]) \in Int /\ MaxHits \in Int
    BY <2>1, Answers
  <2>3. PICK n \in Int : n = Len(found[t])
    BY <2>2
  <2>4. Min({n, MaxHits}) = IF n <= MaxHits THEN n ELSE MaxHits
    BY <2>2, OfTwo
  <2> QED
    BY <2>2, <2>3, <2>4
<1>4. ASSUME NEW t \in DOMAIN trace PROVE QueriesOf(plan.tasks[t].aspect) <= MaxQueries
  <2>1. plan = BuildPlan(intake) /\ PlanAccepted(intake, plan)
    BY DEF ResearchInv, Progress, Ended
  <2>2. plan # NoPlan
    <3>1. Len(plan.tasks) = Len(trace) /\ trace \in Seq(Steps) /\ t \in DOMAIN trace
      BY <1>4 DEF ResearchInv, Progress, Ended
    <3>2. t \in 1..Len(trace)
      BY <3>1
    <3> QED
      BY <3>1, <3>2 DEF NoPlan
  <2>3. QueriesFit(plan)
    BY <2>1, <2>2, PlansFit, PlanningAssumption, ResearchAssumption DEF Planned
  <2> QED
    BY <1>1, <1>4, <2>3 DEF QueriesFit, QueriesOf, TasksOf
<1>5. \A t \in DOMAIN trace : trace[t].spans \subseteq result.evidence
  BY <1>1, <1>2 DEF ResearchInv, Owned
<1> QED
  BY <1>3, <1>4, <1>5 DEF StepsAccepted

\* Selections name their task, their aspect and evidence of the bundle.
LEMMA SelectionsAreAccepted ==
    ASSUME ResearchInv, Ended
    PROVE  SelectionsAccepted
<1> SUFFICES ASSUME NEW s \in selections
             PROVE  /\ plan.tasks[s.task].aspect = s.aspect
                    /\ s.authority \in AuthorityRefs
                    /\ \A span \in s.spans : span \in result.evidence /\ span.doc = s.authority
                    /\ date = 0 => s.temporal = "unassessed"
  BY DEF SelectionsAccepted
<1>1. /\ Begun = DOMAIN trace
      /\ \A t \in Begun : StepOf(t) = trace[t] /\ plan.tasks[t].aspect \in DOMAIN plan.aspects
      /\ result = Result
  BY EndForm DEF ResearchInv
<1>2. /\ s.task \in Begun /\ s.aspect = plan.tasks[s.task].aspect
      /\ s.authority \in StepOf(s.task).selected
      /\ s.spans \subseteq chosen[s.aspect]
      /\ \A span \in s.spans : span.doc = s.authority
      /\ s.temporal = TemporalOf(s.authority)
  BY DEF ResearchInv, Attested
<1>3. s.authority \in AuthorityRefs
  BY <1>1, <1>2 DEF AuthorityRefs
<1>4. s.aspect \in DOMAIN chosen
  BY <1>1, <1>2 DEF ResearchInv, Progress, Ended
<1>5. chosen[s.aspect] \subseteq evidence
  BY <1>4 DEF ResearchInv, Within
<1>6. evidence \subseteq result.evidence
  BY <1>1, ResultForm
<1>7. date = 0 => s.temporal = "unassessed"
  BY <1>2 DEF TemporalOf
<1> QED
  BY <1>2, <1>3, <1>5, <1>6, <1>7

\* Omissions name the aspect of their task and have the class of their reason.
LEMMA OmissionsAreAccepted ==
    ASSUME ResearchInv, Ended
    PROVE  OmissionsAccepted
<1> SUFFICES ASSUME NEW o \in Omissions
             PROVE  /\ o.task # 0 => plan.tasks[o.task].aspect = o.aspect
                    /\ o.reason = "context_unavailable" => o.class = "support"
                    /\ o.reason = "unsupported_scope" => o.class = "research"
  BY EndForm, ResultForm DEF ResearchInv, OmissionsAccepted
<1>1. \A s \in selections : plan.tasks[s.task].aspect = s.aspect
  BY DEF ResearchInv, Attested
<1>2. \/ \E a : o = Omission(a, 0, "research", "unsupported_scope")
      \/ \E t : o = Omission(plan.tasks[t].aspect, t, "research", "budget_exhausted")
      \/ \E s \in selections : o = Omission(s.aspect, s.task, "support", "context_unavailable")
      \/ \E a : o = Omission(a, 0, "support", "budget_exhausted")
  BY DEF Omissions
<1>3. \A a, t, class, reason :
         /\ Omission(a, t, class, reason).aspect = a /\ Omission(a, t, class, reason).task = t
         /\ Omission(a, t, class, reason).class = class
         /\ Omission(a, t, class, reason).reason = reason
  BY DEF Omission
<1> QED
  BY <1>1, <1>2, <1>3

\* Selected spans are chosen ones, for which the budgets hold.
LEMMA SpansAreAccepted ==
    ASSUME ResearchInv, Ended
    PROVE  /\ \A a \in DOMAIN plan.aspects : Cardinality(SelectedSpans(a)) <= MaxEvidence
           /\ Cardinality(UNION {SelectedSpans(a) : a \in DOMAIN plan.aspects}) <= MaxSpans
<1>1. DOMAIN chosen = DOMAIN plan.aspects
  BY DEF ResearchInv, Progress, Ended
<1>2. \A a \in DOMAIN plan.aspects : SelectedSpans(a) \subseteq chosen[a] /\ chosen[a] \subseteq evidence
  BY <1>1 DEF ResearchInv, Attested, Within, SelectedSpans, SelectionsOf
<1>3. IsFiniteSet(evidence) /\ Cardinality(evidence) <= MaxSpans /\ MaxSpans \in Nat /\ MaxEvidence \in Nat
  BY ResearchAssumption DEF ResearchInv, Within
<1>4. ASSUME NEW a \in DOMAIN plan.aspects PROVE Cardinality(SelectedSpans(a)) <= MaxEvidence
  <2>1. IsFiniteSet(chosen[a]) /\ Cardinality(chosen[a]) <= MaxEvidence
    BY <1>1, <1>2, <1>3, <1>4, FS_Subset DEF ResearchInv, Within
  <2>2. IsFiniteSet(SelectedSpans(a)) /\ Cardinality(SelectedSpans(a)) <= Cardinality(chosen[a])
    BY <1>2, <1>4, <2>1, FS_Subset
  <2> QED
    BY <1>3, <2>1, <2>2, FS_CardinalityType
<1>5. PICK all : all = UNION {SelectedSpans(a) : a \in DOMAIN plan.aspects}
  OBVIOUS
<1>6. all \subseteq evidence
  BY <1>2, <1>5
<1>7. IsFiniteSet(all) /\ Cardinality(all) <= Cardinality(evidence)
  BY <1>3, <1>6, FS_Subset
<1>8. Cardinality(all) <= MaxSpans
  BY <1>3, <1>7, FS_CardinalityType
<1> QED
  BY <1>4, <1>5, <1>8

\* Coverage says complete only with what a complete coverage must show.
LEMMA CoverageIsAccepted ==
    ASSUME ResearchInv, Ended, NEW a \in DOMAIN plan.aspects
    PROVE  CoverageAccepted(a)
<1>1. /\ result.coverage[a] = Coverage(a) /\ result.omissions = Omissions
  BY EndForm, ResultForm, ClosureOfResult DEF ResearchInv
<1>2. PICK coverage : coverage = result.coverage[a]
  OBVIOUS
<1>3. /\ coverage.closure = SupportClosure(a) /\ coverage.execution = ExecutionStatus(a)
      /\ coverage.evidence = EvidenceStatus(a) /\ coverage.authority = AuthorityStatus(a)
      /\ coverage.temporal = TemporalStatus(a) /\ coverage.fact = FactStatus(a)
      /\ coverage.synthesis = SynthesisStatus(a) /\ coverage.limitations = Limitations(a)
  BY <1>1, <1>2, CoverageForm
<1>4. plan.aspects[a].scope = "generic_limited" => "generic_scope" \in Limitations(a)
  BY DEF Limitations
<1>5. ASSUME FactStatus(a) \in {"missing", "ambiguous"}
      PROVE  /\ "missing_facts" \in Limitations(a) /\ SynthesisStatus(a) = "requires_facts"
             /\ \E f \in plan.aspects[a].facts : intake.facts[f] = FactStatus(a)
  <2>1. "missing_facts" \in Limitations(a) /\ SynthesisStatus(a) = "requires_facts"
    BY <1>5 DEF Limitations, SynthesisStatus
  <2>2. \E f \in plan.aspects[a].facts : intake.facts[f] = FactStatus(a)
    BY <1>5 DEF FactStatus
  <2> QED
    BY <2>1, <2>2
<1>6. ASSUME coverage.closure = "complete" PROVE CompleteAccepted(a)
  <2>1. SupportClosure(a) = "complete"
    BY <1>3, <1>6
  <2>2. /\ plan.aspects[a].scope # "generic_limited"
        /\ ExecutionStatus(a) = "complete" /\ EvidenceStatus(a) = "context_ready"
        /\ AuthorityStatus(a) = "resolved" /\ SynthesisStatus(a) # "unsupported"
        /\ SelectionsOf(a) # {}
        /\ \A s \in SelectionsOf(a) : s.context # "incomplete"
        /\ OmissionsOf(a) = {}
        /\ Categories(a) \cap {"context_incomplete", "conflicting_authority"} = {}
        /\ date # 0 => TemporalStatus(a) = "assessed"
    BY <2>1, ClosureForm
  <2>3. \A o \in result.omissions : o.aspect # a
    BY <1>1, <2>2 DEF OmissionsOf
  <2>4. date = 0 => TemporalStatus(a) = "unassessed" /\ "temporal_unassessed" \in Limitations(a)
    BY DEF TemporalStatus, Limitations
  <2> QED
    BY <1>2, <1>3, <2>2, <2>3, <2>4 DEF CompleteAccepted
<1> QED
  BY <1>2, <1>3, <1>4, <1>5, <1>6 DEF CoverageAccepted

\* A result says complete only if each of its aspects does.
LEMMA StatusIsAccepted ==
    ASSUME ResearchInv, Ended
    PROVE  StatusAccepted
<1>1. result.status = ResultStatus /\ result.omissions = Omissions
  BY EndForm, ResultForm DEF ResearchInv
<1> SUFFICES ASSUME result.status = "complete"
             PROVE  /\ result.omissions = {}
                    /\ \A a \in DOMAIN plan.aspects :
                         plan.aspects[a].scope # "generic_limited"
                         /\ result.coverage[a].closure = "complete"
  BY DEF StatusAccepted
<1>2. Omissions = {} /\ \A a \in DOMAIN plan.aspects : SupportClosure(a) = "complete"
  BY <1>1 DEF ResultStatus
<1> QED
  BY <1>1, <1>2, ClosureOfResult, ClosureForm DEF ResearchInv

\* The relationships and the evidence of the bundle have their documents in it.
LEMMA GraphIsAccepted ==
    ASSUME ResearchInv, Ended
    PROVE  GraphAccepted
<1>1. /\ result.relations = Selected
      /\ result.authorities = SupportAuthorities(corpus.relations, Selected, authorities)
      /\ result.evidence = evidence \cup SupportSpans(corpus.relations, Selected)
  BY EndForm, ResultForm DEF ResearchInv
<1>2. PICK support : support = SupportSpans(corpus.relations, Selected)
  OBVIOUS
<1>3. /\ \A r \in Selected : /\ {e.doc : e \in Ends(corpus.relations[r])} \subseteq result.authorities
                             /\ corpus.relations[r].evidence \in support
      /\ authorities \subseteq result.authorities
      /\ \A span \in support : span.doc \in result.authorities
  BY <1>1, <1>2 DEF SupportAuthorities, SupportSpans
<1>4. \A span \in evidence : span.doc \in authorities
  BY DEF ResearchInv, Owned
<1> QED
  BY <1>1, <1>2, <1>3, <1>4 DEF GraphAccepted

(* What build_research_result_v5 builds is what validate_research_result,   *)
(* which was written separately, accepts, and the graph of the bundle       *)
(* refers only to what the bundle contains.                                 *)
THEOREM ResultsAreAccepted == ResearchSpec => []ResultIsAccepted
<1>1. ResearchInv /\ Planned => ResultIsAccepted
  BY AuthoritiesAccepted, StepsAreAccepted, SelectionsAreAccepted, OmissionsAreAccepted,
     SpansAreAccepted, CoverageIsAccepted, StatusIsAccepted, GraphIsAccepted
  DEF ResultIsAccepted, ResultAccepted
<1> QED
  BY <1>1, ResearchInvariant, PlansAreMade, PTL
=============================================================================
