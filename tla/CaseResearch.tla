---------------------------- MODULE CaseResearch ----------------------------
(***************************************************************************)
(* The research of a CASE v5 analysis                                      *)
(* (tools/case_research_runtime_v5.py, _execute_research): the tasks of    *)
(* the plan are executed one after the other, each hit is admitted or      *)
(* refused under the budgets of the plan, and the outcome is turned into a *)
(* result that says for each aspect whether its support is complete        *)
(* (tools/case_research_coverage_v5.py).  What a search finds is any of    *)
(* the sequences in Findings; texts, references and time stamps are left   *)
(* out.                                                                    *)
(*                                                                         *)
(* Every aspect of the planner is required and every task has depth 0, so  *)
(* the budget of rounds never binds and has no place here.  Left out are   *)
(* the items the intake itself brings, the spans that only show where a    *)
(* document was published, and evidence whose owner cannot be resolved.    *)
(*                                                                         *)
(* A hit is [doc, span, cites, context, gap]: the document it belongs to   *)
(* (or NoDoc), its exact span (or NoSpan), whether it cites other          *)
(* provisions and, if so, the spans its context needs, in order, and       *)
(* whether some of it cannot be had.                                       *)
(***************************************************************************)
EXTENDS ResearchPlanning, ResearchAuthorities

CONSTANTS
    NoDoc, NoSpan,      \* a hit without a document, without an exact span
    Intakes,            \* accepted intakes: [questions, hints, facts]
    Corpora,            \* corpora: [documents, relations]
    Dates,              \* dates a case may ask about, 0 for none
    Findings,           \* what a search may find, at most one hit over the budget
    MaxHits,            \* budget of hits per query
    MaxAuthorities,     \* budget of authorities in the research
    MaxEvidence,        \* budget of selected spans per aspect
    MaxSpans,           \* budget of selected spans in all
    MaxContext          \* budget of context spans per aspect

(* A search answers with a sequence of hits, one more than the budget at   *)
(* most; a hit is of a document of the corpus, and its exact span is one   *)
(* of that document; dates are numbers.                                    *)
ASSUME ResearchAssumption ==
    /\ MaxHits \in Nat /\ MaxAuthorities \in Nat /\ MaxEvidence \in Nat
    /\ MaxSpans \in Nat /\ MaxContext \in Nat /\ Dates \subseteq Nat
    /\ \A i \in Intakes : IntakeAccepted(i)
    /\ \A all \in Findings :
          /\ all \in Seq(Range(all)) /\ Len(all) <= MaxHits + 1
          /\ \A hit \in Range(all) :
                /\ hit.cites \in BOOLEAN /\ hit.gap \in BOOLEAN
                /\ hit.context \in Seq(Range(hit.context))
                /\ hit.doc # NoDoc =>
                      /\ \A known \in Corpora : hit.doc \in DOMAIN known.documents
                      /\ hit.span # NoSpan => hit.span.doc = hit.doc
    /\ \A known \in Corpora :
          /\ known.relations \in Seq(Range(known.relations))
          /\ \A doc \in DOMAIN known.documents :
                LET document == known.documents[doc]
                IN /\ document.starts \cup document.ends \cup document.terminated \subseteq Nat
                   /\ IsFiniteSet(document.starts) /\ IsFiniteSet(document.ends)

VARIABLES
    intake, corpus, date,   \* the case, and the corpus it is researched in
    plan,                   \* [aspects, tasks]
    stage,                  \* plan, search, read, ended, failed
    found,                  \* by task executed: what its search found
    hits,                   \* hits of the current task that are still to be read
    step,                   \* trace step of the current task
    trace,                  \* trace steps of the tasks that were executed
    authorities,            \* documents admitted
    evidence,               \* spans selected
    chosen,                 \* by aspect: spans selected for it
    expansions,             \* by aspect: context spans it has used
    items,                  \* unresolved items
    selections,             \* evidence selections
    result                  \* what the research says, once it has ended

case == <<intake, corpus, date>>
reading == <<hits, step, authorities, evidence, chosen, expansions, items, selections>>
research == <<case, plan, stage, found, trace, reading, result>>

---------------------------------------------------------------------------
(* The task being executed, its number and its aspect.                     *)
Current == Len(trace) + 1
Task == plan.tasks[Current]
Aspect == Task.aspect

Item(category, why, doc, span) ==
    [task |-> Current, category |-> category, why |-> why, authority |-> doc, span |-> span]

(* An item with the same reference replaces the earlier one.               *)
Note(item) == {i \in items : <<i.task, i.why>> # <<item.task, item.why>>} \cup {item}

Exhausted == [step EXCEPT !.outcome = "budget_exhausted"]

Retrieving(doc) == [step EXCEPT !.retrieved = @ \cup {doc}]

(* Documents that are admitted bring the unresolved items of their         *)
(* classification, which concern the document and no task; those of        *)
(* category "other" make no difference and are left out.                   *)
ClassifierItems(doc) ==
    LET document == corpus.documents[doc]
        Of(category) == [task |-> 0, category |-> category, why |-> <<category, doc>>,
                         authority |-> doc, span |-> NoSpan]
    IN (IF Classification(document) = "ambiguous" THEN {Of("conflicting_authority")} ELSE {})
         \cup (IF date # 0 /\ Effect(document, date) = "unknown"
                 THEN {Of("temporal_uncertainty")} ELSE {})

AdmitItems(doc) == IF doc \in authorities THEN {} ELSE ClassifierItems(doc)

Full(doc) == doc \notin authorities /\ Cardinality(authorities) >= MaxAuthorities

EvidenceLeft == MaxEvidence - Cardinality(chosen[Aspect])
SpansLeft == MaxSpans - Cardinality(evidence)

---------------------------------------------------------------------------
(* The planner: it refuses an intake whose aspects do not fit the budget,  *)
(* and a plan of its own that the validator of plans refuses.              *)
MakePlan ==
    /\ stage = "plan"
    /\ IF Plannable(intake) /\ PlanAccepted(intake, BuildPlan(intake))
         THEN /\ plan' = BuildPlan(intake)
              /\ stage' = "search"
              /\ chosen' = [a \in DOMAIN Aspects(intake) |-> {}]
              /\ expansions' = [a \in DOMAIN Aspects(intake) |-> 0]
         ELSE stage' = "failed" /\ UNCHANGED <<plan, chosen, expansions>>
    /\ UNCHANGED <<case, found, trace, hits, step, authorities, evidence, items,
                   selections, result>>

(* The search of the next task.  One hit more than the budget is asked for *)
(* to know whether there were more; it is not read.                        *)
Search(all) ==
    LET kept == SubSeq(all, 1, MaxHits)
        outcome == IF Len(all) > MaxHits THEN "budget_exhausted"
                   ELSE IF all = <<>> THEN "no_hits" ELSE "hits"
    IN /\ stage = "search"
       /\ Current <= Len(plan.tasks)
       /\ stage' = "read"
       /\ found' = Append(found, all)
       /\ hits' = IF Len(all) > MaxHits THEN kept ELSE all
       /\ step' = [outcome |-> outcome, retrieved |-> {}, selected |-> {}, spans |-> {}]
       /\ items' = CASE outcome = "budget_exhausted" ->
                          Note(Item("budget_exhausted", <<"hits", NoDoc>>, NoDoc, NoSpan))
                     [] outcome = "no_hits" ->
                          Note(Item("no_relevant_corpus_evidence", <<"none", NoDoc>>, NoDoc, NoSpan))
                     [] OTHER -> items
       /\ UNCHANGED <<case, plan, trace, authorities, evidence, chosen, expansions,
                      selections, result>>

Reading(hit) == stage = "read" /\ hits # <<>> /\ hit = hits[1] /\ hits' = Tail(hits)

Untouched == UNCHANGED <<case, plan, stage, found, trace, result>>

(* Text whose document is not identified.                                  *)
ReadUnidentified(hit) ==
    /\ Reading(hit)
    /\ hit.doc = NoDoc
    /\ items' = Note(Item("unresolved_identity", <<"segment", hit>>, NoDoc, NoSpan))
    /\ Untouched /\ UNCHANGED <<step, authorities, evidence, chosen, expansions, selections>>

(* A document for which there is no room.                                  *)
ReadOverAuthorities(hit) ==
    /\ Reading(hit)
    /\ hit.doc # NoDoc /\ Full(hit.doc)
    /\ items' = Note(Item("budget_exhausted", <<"authorities", hit.doc>>, hit.doc, NoSpan))
    /\ step' = Exhausted
    /\ Untouched /\ UNCHANGED <<authorities, evidence, chosen, expansions, selections>>

Admit(hit) ==
    /\ hit.doc # NoDoc /\ ~Full(hit.doc)
    /\ authorities' = authorities \cup {hit.doc}

(* A document whose text cannot be cited exactly.                          *)
ReadUnspanned(hit) ==
    /\ Reading(hit)
    /\ Admit(hit)
    /\ hit.span = NoSpan
    /\ items' = Note(Item("unresolved_identity", <<"span", hit>>, hit.doc, NoSpan))
                  \cup AdmitItems(hit.doc)
    /\ step' = Retrieving(hit.doc)
    /\ Untouched /\ UNCHANGED <<evidence, chosen, expansions, selections>>

(* A span for which there is no room.                                      *)
ReadOverEvidence(hit) ==
    /\ Reading(hit)
    /\ Admit(hit)
    /\ hit.span # NoSpan
    /\ EvidenceLeft <= 0 \/ SpansLeft <= 0
    /\ items' = Note(Item("budget_exhausted", <<"evidence", NoDoc>>, hit.doc, NoSpan))
                  \cup AdmitItems(hit.doc)
    /\ step' = [Retrieving(hit.doc) EXCEPT !.outcome = "budget_exhausted"]
    /\ Untouched /\ UNCHANGED <<evidence, chosen, expansions, selections>>

---------------------------------------------------------------------------
(* The context of a hit that cites others, bounded by the context budget   *)
(* and by the room for evidence that is left beside the hit itself.        *)
(* Mutant: the room of the hit itself is given to its context. *)
ContextLimitWhole ==
    Min({Max({0, MaxContext - expansions[Aspect]}), Min({EvidenceLeft, SpansLeft})})

ContextLimit ==
    Min({Max({0, MaxContext - expansions[Aspect]}),
         Max({0, Min({EvidenceLeft, SpansLeft}) - 1})})

ContextOf(hit) ==
    IF hit.cites THEN SubSeq(hit.context, 1, Min({Len(hit.context), ContextLimit})) ELSE <<>>

(* Spans of other documents are not selected: they need research of their  *)
(* own, and leave the hit without its context.                             *)
Own(hit) == {s \in Range(ContextOf(hit)) : s.doc = hit.doc}

Cut(hit) == Len(hit.context) > ContextLimit

ContextStatus(hit) ==
    IF ~hit.cites THEN "exact_sufficient"
    ELSE IF /\ ContextOf(hit) # <<>> /\ ~hit.gap /\ ~Cut(hit)
            /\ \A s \in Range(ContextOf(hit)) : s.doc = hit.doc
           THEN "expanded_verified" ELSE "incomplete"

ContextItems(hit) ==
    IF ContextStatus(hit) # "incomplete" THEN items
    ELSE Note(Item(IF Cut(hit) THEN "budget_exhausted" ELSE "context_incomplete",
                   <<"context", hit>>, hit.doc, hit.span))

TemporalOf(doc) ==
    IF date = 0 THEN "unassessed"
    ELSE CASE Effect(corpus.documents[doc], date) = "effective" -> "effective_as_of"
           [] Effect(corpus.documents[doc], date) = "ended" -> "not_effective_as_of"
           [] OTHER -> "ambiguous"

AuthorityOf(doc) ==
    LET state == Classification(corpus.documents[doc])
    IN IF state \in {"resolved", "ambiguous"} THEN state ELSE "unassessed"

Selection(hit, spans) ==
    [aspect |-> Aspect, task |-> Current, authority |-> hit.doc, spans |-> spans,
     context |-> ContextStatus(hit), standing |-> AuthorityOf(hit.doc),
     temporal |-> TemporalOf(hit.doc)]

(* A hit that is selected, with its context.                               *)
ReadSelected(hit) ==
    LET spans == {hit.span} \cup Own(hit)
    IN /\ Reading(hit)
       /\ Admit(hit)
       /\ hit.span # NoSpan
       /\ EvidenceLeft > 0 /\ SpansLeft > 0
       /\ items' = ContextItems(hit) \cup AdmitItems(hit.doc)
       /\ evidence' = evidence \cup spans
       /\ chosen' = [chosen EXCEPT ![Aspect] = @ \cup spans]
       /\ expansions' = [expansions EXCEPT ![Aspect] = @ + Len(ContextOf(hit))]
       /\ step' = [outcome |-> step.outcome, retrieved |-> step.retrieved \cup {hit.doc},
                   selected |-> step.selected \cup {hit.doc}, spans |-> step.spans \cup spans]
       /\ selections' = selections \cup {Selection(hit, spans)}
       /\ Untouched

EndTask ==
    /\ stage = "read" /\ hits = <<>>
    /\ trace' = Append(trace, step)
    /\ stage' = "search"
    /\ UNCHANGED <<case, plan, found, reading, result>>

---------------------------------------------------------------------------
(* The coverage of an aspect, from the trace of its tasks, its selections, *)
(* the work that was omitted for it and the items that name it.            *)
TasksOf(a) == {t \in DOMAIN plan.tasks : plan.tasks[t].aspect = a}
RequiredOf(a) == {t \in TasksOf(a) : plan.tasks[t].required}
SelectionsOf(a) == {s \in selections : s.aspect = a}
LocalItems(a) == {i \in items : i.task \in TasksOf(a)}
Categories(a) == {i.category : i \in LocalItems(a)}

FactStatus(a) ==
    LET states == {intake.facts[f] : f \in plan.aspects[a].facts}
    IN IF states = {} THEN "not_required"
       ELSE IF "ambiguous" \in states THEN "ambiguous"
       ELSE IF "missing" \in states THEN "missing" ELSE "sufficient"

ExecutionStatus(a) ==
    IF \E t \in RequiredOf(a) : trace[t].outcome = "budget_exhausted"
      THEN "budget_exhausted" ELSE "complete"

EvidenceStatus(a) ==
    IF \/ "context_incomplete" \in Categories(a)
       \/ \E s \in SelectionsOf(a) : s.context = "incomplete"
      THEN "context_incomplete"
    ELSE IF SelectionsOf(a) # {} THEN "context_ready"
    ELSE IF \E t \in TasksOf(a) : trace[t].outcome = "hits" \/ trace[t].retrieved # {}
      THEN "candidate_only"
    ELSE IF \E t \in TasksOf(a) : trace[t].outcome = "no_hits" THEN "none_found"
    ELSE "not_assessed"

(* Mutant: items about text that could not be identified do not count. *)
StandingOfSelected(a) ==
    LET values == {s.standing : s \in SelectionsOf(a)}
    IN IF values = {} THEN "unassessed"
       ELSE IF "ambiguous" \in values THEN "ambiguous"
       ELSE IF "unassessed" \in values THEN "unassessed" ELSE "resolved"

AuthorityStatus(a) ==
    LET values == {s.standing : s \in SelectionsOf(a)}
    IN IF "conflicting_authority" \in Categories(a) THEN "conflicting"
       ELSE IF "unresolved_identity" \in Categories(a) THEN "ambiguous"
       ELSE IF values = {} THEN "unassessed"
       ELSE IF "ambiguous" \in values THEN "ambiguous"
       ELSE IF "unassessed" \in values THEN "unassessed" ELSE "resolved"

TemporalStatus(a) ==
    LET values == {s.temporal : s \in SelectionsOf(a)}
    IN IF date = 0 THEN "unassessed"
       ELSE IF values = {} THEN "unassessed"
       ELSE IF "ambiguous" \in values THEN "ambiguous"
       ELSE IF Cardinality(values) > 1 THEN "mixed" ELSE "assessed"

SynthesisStatus(a) ==
    IF FactStatus(a) \in {"missing", "ambiguous"} THEN "requires_facts"
    ELSE IF EvidenceStatus(a) = "context_ready" THEN "requires_interpretive_synthesis"
    ELSE "unsupported"

---------------------------------------------------------------------------
(* Work that was omitted: aspects without a finite scope, required tasks   *)
(* that met a budget, selections without their context, and relationships  *)
(* beyond the budget of an aspect.                                         *)
Omission(a, t, class, reason) == [aspect |-> a, task |-> t, class |-> class, reason |-> reason]

Relations(a) == RelevantOf(corpus.relations,
                           UNION {Touching(corpus.relations, d) : d \in authorities},
                           UNION {s.spans : s \in SelectionsOf(a)})

Omissions ==
    LET aspects == DOMAIN plan.aspects
    IN {Omission(a, 0, "research", "unsupported_scope") :
          a \in {b \in aspects : plan.aspects[b].scope = "generic_limited"}}
       \cup {Omission(plan.tasks[t].aspect, t, "research", "budget_exhausted") :
               t \in {u \in DOMAIN plan.tasks : /\ plan.tasks[u].required
                                                /\ trace[u].outcome = "budget_exhausted"}}
       \cup {Omission(s.aspect, s.task, "support", "context_unavailable") :
               s \in {x \in selections : x.context = "incomplete"}}
       \cup {Omission(a, 0, "support", "budget_exhausted") :
               a \in {b \in aspects : Overflowing(Relations(b))}}

OmissionsOf(a) == {o \in Omissions : o.aspect = a}

Limitations(a) ==
    {code \in {"generic_scope", "missing_facts", "temporal_unassessed", "context_gap",
               "authority_conflict", "budget_exhausted", "no_evidence"} :
       CASE code = "generic_scope" -> plan.aspects[a].scope = "generic_limited"
         [] code = "missing_facts" -> FactStatus(a) \in {"missing", "ambiguous"}
         [] code = "temporal_unassessed" -> date = 0
         [] code = "context_gap" -> EvidenceStatus(a) = "context_incomplete"
         [] code = "authority_conflict" -> AuthorityStatus(a) \in {"ambiguous", "conflicting"}
         [] code = "budget_exhausted" ->
              \/ ExecutionStatus(a) = "budget_exhausted"
              \/ \E o \in OmissionsOf(a) : o.reason = "budget_exhausted"
              \/ "budget_exhausted" \in Categories(a)
         [] code = "no_evidence" -> EvidenceStatus(a) = "none_found"}

(* Mutant: the relationships that were left out are forgotten. *)
ClosureOfEvidence(a) ==
    IF plan.aspects[a].scope = "generic_limited" THEN "unsupported_scope"
    ELSE IF /\ ExecutionStatus(a) = "complete"
            /\ EvidenceStatus(a) = "context_ready"
            /\ AuthorityStatus(a) = "resolved"
            /\ date # 0 => {s.temporal : s \in SelectionsOf(a)} = {"effective_as_of"}
           THEN "complete" ELSE "incomplete"

SupportClosure(a) ==
    IF plan.aspects[a].scope = "generic_limited" THEN "unsupported_scope"
    ELSE IF /\ ExecutionStatus(a) = "complete"
            /\ EvidenceStatus(a) = "context_ready"
            /\ AuthorityStatus(a) = "resolved"
            /\ OmissionsOf(a) = {}
            /\ Categories(a) \cap {"context_incomplete", "conflicting_authority"} = {}
            /\ SynthesisStatus(a) # "unsupported"
            /\ date # 0 => /\ TemporalStatus(a) = "assessed"
                           /\ \A s \in SelectionsOf(a) : s.temporal = "effective_as_of"
           THEN "complete" ELSE "incomplete"

Coverage(a) ==
    [execution |-> ExecutionStatus(a), evidence |-> EvidenceStatus(a),
     authority |-> AuthorityStatus(a), temporal |-> TemporalStatus(a),
     fact |-> FactStatus(a), synthesis |-> SynthesisStatus(a),
     closure |-> SupportClosure(a), limitations |-> Limitations(a)]

ResultStatus ==
    LET aspects == DOMAIN plan.aspects
    IN IF /\ aspects # {} /\ Omissions = {}
          /\ \A a \in aspects : SupportClosure(a) = "complete"
         THEN "complete" ELSE "partial"

(* Conflicts the corpus states between documents that were found: they are *)
(* items of the bundle, and of no aspect.                                  *)
ConflictItems ==
    {[task |-> 0, category |-> "conflicting_authority", why |-> <<"conflict", r>>,
      authority |-> corpus.relations[r].source.doc, span |-> NoSpan] :
       r \in Conflicts(corpus.relations,
                       UNION {Touching(corpus.relations, d) : d \in authorities}, authorities)}

(* The result, the support of the selected relationships and the bundle.   *)
Selected == UNION {Admitted(Relations(a)) : a \in DOMAIN plan.aspects}

Result ==
    [status |-> ResultStatus,
     coverage |-> [a \in DOMAIN plan.aspects |-> Coverage(a)],
     omissions |-> Omissions,
     items |-> items \cup ConflictItems,
     relations |-> Selected,
     authorities |-> SupportAuthorities(corpus.relations, Selected, authorities),
     evidence |-> evidence \cup SupportSpans(corpus.relations, Selected)]

Conclude ==
    /\ stage = "search" /\ Current > Len(plan.tasks)
    /\ stage' = "ended" /\ result' = Result
    /\ UNCHANGED <<case, plan, found, trace, reading>>

---------------------------------------------------------------------------
NoPlan == [aspects |-> <<>>, tasks |-> <<>>]
NoStep == [outcome |-> "hits", retrieved |-> {}, selected |-> {}, spans |-> {}]

ResearchInit ==
    /\ intake \in Intakes /\ corpus \in Corpora /\ date \in Dates
    /\ plan = NoPlan /\ stage = "plan"
    /\ found = <<>> /\ trace = <<>> /\ hits = <<>> /\ step = NoStep
    /\ authorities = {} /\ evidence = {} /\ chosen = <<>> /\ expansions = <<>>
    /\ items = {} /\ selections = {} /\ result = NoPlan

Read ==
    \E hit \in Range(hits) :
      \/ ReadUnidentified(hit) \/ ReadOverAuthorities(hit) \/ ReadUnspanned(hit)
      \/ ReadOverEvidence(hit) \/ ReadSelected(hit)

ResearchNext ==
    \/ MakePlan
    \/ \E all \in Findings : Search(all)
    \/ Read
    \/ EndTask
    \/ Conclude

ResearchSpec == ResearchInit /\ [][ResearchNext]_research
=============================================================================
