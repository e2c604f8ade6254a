------------------------- MODULE IntakeStructuring -------------------------
(***************************************************************************)
(* The retry and review policy around the intake model                     *)
(* (CaseStructuringService.structure, tools/llm_client.py): a bounded      *)
(* number of calls of the primary model, perhaps one of the review model,  *)
(* and for every answer that is rejected an attempt to preserve it         *)
(* (EvidenceStore) which may itself fail.                                  *)
(*                                                                         *)
(* What a call came to is told apart as far as the policy tells it apart.  *)
(***************************************************************************)
EXTENDS Naturals, Sequences, FiniteSets

CONSTANTS
    Config       \* platform configurations: [attempts : Nat, and switches: review,
                 \*  onInvalid, onProvider, store, capable : BOOLEAN]

Outcome == {
    "valid",          \* a draft that passes validation
    "contract",       \* a draft that does not: CaseContractError
    "malformed",      \* no draft in the answer: INVALID_INTAKE_DRAFT
    "timeout",        \* no answer in time
    "unavailable",    \* HTTP 5xx, connection or read error
    "refused",        \* HTTP 4xx, or another model than the one asked for
    "unsendable",     \* request_options override a field of the request
    "context",        \* the request does not fit the context
    "output" }        \* the answer reached the output ceiling

\* What every configuration satisfies that load_platform_config accepts.
ConfigAssumption ==
    \A c \in Config :
        /\ c.attempts \in Nat \ {0}   \* max(1, ...) in load_platform_config
        /\ {c.review, c.onInvalid, c.onProvider, c.store, c.capable} \subseteq BOOLEAN

VARIABLES
    config,
    pc,             \* "check", "primary", "review", "decide", "finish" or "done"
    rejected,       \* the outcome being preserved, or "none"
    lastInvalid, providerError,
    log,            \* the attempts so far: [role, outcome, evidence]
    answer          \* the draft, the code of the error, or "none"

vars == <<config, pc, rejected, lastInvalid, providerError, log, answer>>

\* The primary attempts made so far: the loop counter of structure().
Primaries == Cardinality({i \in 1..Len(log) : log[i].role = "primary"})

Answer(code) == answer' = code /\ pc' = "done"

-----------------------------------------------------------------------------
\* _require_generation_compatibility: fail closed before the first call.
Check ==
    /\ pc = "check"
    /\ IF config.capable THEN pc' = "primary" /\ UNCHANGED answer ELSE Answer("unavailable")
    /\ UNCHANGED <<config, rejected, lastInvalid, providerError, log>>

AttemptsLeft == Primaries < config.attempts

\* One call of the model; a draft that is accepted ends the run.
Call(outcome) ==
    /\ rejected = "none"
    /\ pc = "review" \/ (pc = "primary" /\ AttemptsLeft)
    /\ IF outcome = "valid"
       THEN /\ log' = Append(log, [role |-> pc, outcome |-> outcome, evidence |-> "none"])
            /\ Answer("draft")
            /\ UNCHANGED rejected
       ELSE /\ rejected' = outcome
            /\ UNCHANGED <<log, pc, answer>>
    /\ UNCHANGED <<config, lastInvalid, providerError>>

Contacted(outcome) == outcome \notin {"context", "unsendable"}

\* Nothing is written without a store or when the provider was not contacted.
EvidenceOf(outcome) ==
    IF config.store /\ Contacted(outcome) THEN {"kept", "lost"} ELSE {"none"}

\* EvidencePersistenceError takes the place of the original error.
ErrorOf(outcome, evidence) ==
    IF evidence = "lost" THEN "evidence"
    ELSE IF outcome \in {"refused", "unsendable"} THEN "unavailable"
    ELSE outcome

Limit   == {"context", "output"}
Invalid == {"contract", "malformed"}

Retryable(outcome, evidence) == outcome \in {"timeout", "unavailable"} /\ evidence # "lost"

\* The rejection is preserved, or not, and the policy takes note of it.
Reject(evidence) ==
    /\ rejected # "none" /\ evidence \in EvidenceOf(rejected)
    /\ log' = Append(log, [role |-> pc, outcome |-> rejected, evidence |-> evidence])
    /\ rejected' = "none"
    /\ LET error == ErrorOf(rejected, evidence)
       IN  \/ /\ error \in Limit
              /\ Answer("limit")
              /\ UNCHANGED <<lastInvalid, providerError>>
           \/ /\ error \notin Limit /\ pc = "review"
              /\ lastInvalid' = error /\ pc' = "finish"
              /\ UNCHANGED <<providerError, answer>>
           \/ /\ error \in Invalid /\ pc = "primary"
              /\ lastInvalid' = error
              /\ UNCHANGED <<pc, providerError, answer>>
           \/ /\ error \notin Limit \cup Invalid /\ pc = "primary"
              /\ providerError' = error
              /\ pc' = IF Retryable(rejected, evidence) THEN "primary" ELSE "decide"
              /\ UNCHANGED <<lastInvalid, answer>>
    /\ UNCHANGED config

ShouldReview ==
    IF lastInvalid # "none" THEN config.onInvalid ELSE config.onProvider

Decide ==
    /\ rejected = "none"
    /\ pc = "decide" \/ (pc = "primary" /\ ~AttemptsLeft)
    /\ pc' = IF ShouldReview /\ config.review THEN "review" ELSE "finish"
    /\ UNCHANGED <<config, rejected, lastInvalid, providerError, log, answer>>

\* Mutant: the provider's error comes first.
ProviderFirst == IF providerError # "none" THEN providerError ELSE "invalid"

\* An invalid answer outweighs an error of the provider.  All that the review
\* call raised counts as an invalid answer.
Verdict == IF lastInvalid # "none" THEN "invalid" ELSE providerError

Finish ==
    /\ pc = "finish"
    /\ Answer(Verdict)
    /\ UNCHANGED <<config, rejected, lastInvalid, providerError, log>>

Init ==
    /\ config \in Config
    /\ pc = "check" /\ rejected = "none"
    /\ lastInvalid = "none" /\ providerError = "none"
    /\ log = <<>> /\ answer = "none"

Next ==
    \/ Check \/ Decide \/ Finish
    \/ \E o \in Outcome : Call(o)
    \/ \E e \in {"none", "kept", "lost"} : Reject(e)

Spec == Init /\ [][Next]_vars

-----------------------------------------------------------------------------
(* Properties.                                                             *)

Attempt == [role : {"primary", "review"}, outcome : Outcome, evidence : {"none", "kept", "lost"}]

\* The error that an answer is made of exists when it is needed.
TypeOK ==
    /\ config \in Config
    /\ pc \in {"check", "primary", "review", "decide", "finish", "done"}
    /\ rejected \in (Outcome \ {"valid"}) \cup {"none"}
    /\ lastInvalid \in Invalid \cup {"none", "timeout", "unavailable", "evidence"}
    /\ providerError \in {"none", "timeout", "unavailable", "evidence"}
    /\ log \in Seq(Attempt)
    /\ answer \in {"none", "draft", "invalid", "limit", "timeout", "unavailable", "evidence"}
    /\ pc = "done" <=> answer # "none"

\* The primary model is called again only after an attempt that may be repeated
\* (output that was rejected, a time-out, a backend that was unavailable) and
\* whose evidence was not lost, and never more often than configured.
RepeatsAreAllowed ==
    /\ Primaries <= config.attempts
    /\ \A i \in 1..Len(log) - 1 :
          log[i + 1].role = "primary" =>
             /\ log[i].outcome \in Invalid \cup {"timeout", "unavailable"}
             /\ log[i].evidence # "lost"

\* The review model is the last one called, at most once, and only for the kind
\* of failure it is configured for: rejected output if there was any.
ReviewIsConfigured ==
    \A i \in 1..Len(log) :
        log[i].role = "review" =>
           /\ i = Len(log) /\ config.review
           /\ IF \E j \in 1..i - 1 : log[j].outcome \in Invalid /\ log[j].evidence # "lost"
              THEN config.onInvalid ELSE config.onProvider

\* "unavailable" and "timeout" are said of the provider only if it answered none
\* of the calls: once output was rejected the case is reported as invalid.
OutageMeansNoOutput ==
    answer \in {"timeout", "unavailable"} =>
        \A i \in 1..Len(log) :
            log[i].role = "primary" /\ log[i].outcome \notin {"valid", "output"} \cup Invalid

\* DEF-0014: a store that fails surfaces as CASE_EVIDENCE_PERSISTENCE_FAILED.
EvidenceFailureSurfaces ==
    answer # "none" /\ (\E i \in 1..Len(log) : log[i].evidence = "lost") => answer = "evidence"

=============================================================================
