-------------------------- MODULE ResearchContract --------------------------
(***************************************************************************)
(* What a CASE v5 research result and its bundle must satisfy to be        *)
(* published (tools/case_contract_validation_v5.py, validate_research_     *)
(* result and validate_legal_research_bundle), stated over the outcome of  *)
(* CaseResearch, and the properties of the research.  The validator was    *)
(* written separately from the code that builds results; a result it       *)
(* refuses makes the analysis fail.                                        *)
(***************************************************************************)
EXTENDS CaseResearch

AuthorityRefs == UNION {trace[t].retrieved \cup trace[t].selected : t \in DOMAIN trace}

SelectedSpans(a) == UNION {s.spans : s \in SelectionsOf(a)}

QueriesOf(a) == Cardinality(TasksOf(a))

StepsAccepted ==
    \A t \in DOMAIN trace :
      /\ Min({Len(found[t]), MaxHits}) <= MaxHits
      /\ QueriesOf(plan.tasks[t].aspect) <= MaxQueries
      /\ trace[t].spans \subseteq result.evidence

SelectionsAccepted ==
    \A s \in selections :
      /\ plan.tasks[s.task].aspect = s.aspect
      /\ s.authority \in AuthorityRefs
      /\ \A span \in s.spans : span \in result.evidence /\ span.doc = s.authority
      /\ date = 0 => s.temporal = "unassessed"

OmissionsAccepted ==
    \A o \in result.omissions :
      /\ o.task # 0 => plan.tasks[o.task].aspect = o.aspect
      /\ o.reason = "context_unavailable" => o.class = "support"
      /\ o.reason = "unsupported_scope" => o.class = "research"

(* What a coverage that claims complete support must show.                 *)
CompleteAccepted(a) ==
    LET coverage == result.coverage[a]
    IN /\ plan.aspects[a].scope # "generic_limited"
       /\ coverage.execution = "complete"
       /\ coverage.evidence = "context_ready"
       /\ coverage.authority = "resolved"
       /\ coverage.synthesis # "unsupported"
       /\ \A o \in result.omissions : o.aspect # a
       /\ SelectionsOf(a) # {}
       /\ \A s \in SelectionsOf(a) : s.context # "incomplete"
       /\ IF date = 0
            THEN coverage.temporal = "unassessed" /\ "temporal_unassessed" \in coverage.limitations
            ELSE coverage.temporal = "assessed"
       /\ Categories(a) \cap {"context_incomplete", "conflicting_authority"} = {}

CoverageAccepted(a) ==
    LET coverage == result.coverage[a]
        blocked == coverage.fact \in {"missing", "ambiguous"}
    IN /\ plan.aspects[a].scope = "generic_limited" => "generic_scope" \in coverage.limitations
       /\ blocked => /\ "missing_facts" \in coverage.limitations
                     /\ coverage.synthesis = "requires_facts"
                     /\ \E f \in plan.aspects[a].facts : intake.facts[f] = coverage.fact
       /\ coverage.closure = "complete" => CompleteAccepted(a)

StatusAccepted ==
    result.status = "complete" =>
      /\ result.omissions = {}
      /\ \A a \in DOMAIN plan.aspects :
           plan.aspects[a].scope # "generic_limited" /\ result.coverage[a].closure = "complete"

ResultAccepted ==
    /\ Cardinality(AuthorityRefs) <= MaxAuthorities
    /\ AuthorityRefs \subseteq result.authorities
    /\ StepsAccepted
    /\ SelectionsAccepted
    /\ OmissionsAccepted
    /\ \A a \in DOMAIN plan.aspects : Cardinality(SelectedSpans(a)) <= MaxEvidence
    /\ Cardinality(UNION {SelectedSpans(a) : a \in DOMAIN plan.aspects}) <= MaxSpans
    /\ \A a \in DOMAIN plan.aspects : CoverageAccepted(a)
    /\ StatusAccepted

(* The references inside the bundle.                                       *)
GraphAccepted ==
    /\ \A r \in result.relations :
         /\ {e.doc : e \in Ends(corpus.relations[r])} \subseteq result.authorities
         /\ corpus.relations[r].evidence \in result.evidence
    /\ \A span \in result.evidence : span.doc \in result.authorities

ItemsAccepted ==
    \A i \in result.items :
      /\ i.authority = NoDoc \/ i.authority \in result.authorities
      /\ i.span = NoSpan \/ i.span \in result.evidence

Ended == stage = "ended"

---------------------------------------------------------------------------
(* Plans are fair.  No task is lost or repeated, every required task comes *)
(* before every optional one, and inside each of these two groups nobody   *)
(* waits while another has two turns: neither a question while it has      *)
(* tasks left, nor an aspect of a question.  This is what the cursors and  *)
(* lanes of schedule_research_tasks are for.  And the planner only refuses *)
(* for want of room: its plans always pass the plan validator.             *)
PlanIsFair ==
    /\ stage = "failed" => ~Plannable(intake)
    /\ plan # NoPlan => Fair(plan)

(* The budgets hold at every step of the research, not only in its result: *)
(* the spans chosen for each aspect and in all, context included, the      *)
(* context used by an aspect and the authorities.  _execute_research       *)
(* checks the evidence budgets again after it has added the context; this  *)
(* says that the second check never refuses anything.                      *)
BudgetsKept ==
    /\ Cardinality(authorities) <= MaxAuthorities
    /\ Cardinality(evidence) <= MaxSpans
    /\ \A a \in DOMAIN chosen :
         /\ Cardinality(chosen[a]) <= MaxEvidence
         /\ expansions[a] <= MaxContext

(* What build_research_result_v5 builds is what validate_research_result   *)
(* accepts, and the graph around it refers only to what it contains.       *)
ResultIsAccepted == Ended => ResultAccepted /\ GraphAccepted

(* Support is called complete only when nothing that was found for it was  *)
(* left out: every hit of the required tasks of the aspect was selected    *)
(* with all of its context, and every relationship that matters to it is   *)
(* in the bundle.                                                          *)
WhollySelected(t, hit) ==
    /\ hit.doc # NoDoc /\ hit.span # NoSpan /\ (hit.cites => ~hit.gap)
    /\ ({hit.span} \cup (IF hit.cites THEN Range(hit.context) ELSE {})) \subseteq trace[t].spans

CompleteIsWhole ==
    Ended =>
      \A a \in DOMAIN plan.aspects :
        result.coverage[a].closure = "complete" =>
          /\ \A t \in RequiredOf(a) : \A hit \in Range(found[t]) : WhollySelected(t, hit)
          /\ Relations(a) \subseteq result.relations

(* Support that is called complete for a date rests on documents in force: *)
(* each began on one known date, ends on one known date, and the date of   *)
(* the case lies between them and before any event that ends its effect.   *)
InForce(document) ==
    /\ \E start \in document.starts : document.starts = {start} /\ start <= date
    /\ \E end \in document.ends : document.ends = {end} /\ date <= end
    /\ \A t \in document.terminated : date < t
    /\ ~Ambiguous(document)

CompleteIsInForce ==
    Ended /\ date # 0 =>
      \A s \in selections :
        result.coverage[s.aspect].closure = "complete" => InForce(corpus.documents[s.authority])

(* A research that meets a budget is still published, with a result that   *)
(* is partial: its bundle passes the validator of bundles.                 *)
PartialIsPublished == Ended => ItemsAccepted
=============================================================================
