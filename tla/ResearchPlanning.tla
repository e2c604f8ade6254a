-------------------------- MODULE ResearchPlanning --------------------------
(***************************************************************************)
(* How CASE v5 turns the open legal questions of an intake into a research *)
(* plan (tools/case_research_planning_v5.py): each question is divided     *)
(* into aspects by the profiles that match it, each aspect gets one        *)
(* required task, the hints of the intake add optional tasks while there   *)
(* is room, and a scheduler orders the tasks.  The texts of questions,     *)
(* profiles and queries are left out: which profiles match a question is   *)
(* part of the question.                                                   *)
(*                                                                         *)
(* A question is [open, matched, depends], a hint [questions] (numbers of  *)
(* open questions), an aspect [question, scope, facts], a task             *)
(* [aspect, required, hint]; tasks name their aspect by its sequence       *)
(* number, as aspects name their question.                                 *)
(***************************************************************************)
EXTENDS Integers, Sequences, FiniteSets, FiniteSetsExt, Functions

CONSTANTS
    Catalog,            \* the profiles in order: sequences of dimensions [keys, depends]
    MaxTasks,           \* budget of tasks in a plan
    MaxQueries          \* budget of queries for one aspect

\* Every profile has a dimension (planner_profile_set_from_data).
ASSUME PlanningAssumption ==
    /\ MaxTasks \in Nat /\ MaxQueries \in Nat \ {0}
    /\ Catalog \in Seq(Range(Catalog))
    /\ \A p \in DOMAIN Catalog :
          /\ Catalog[p] \in Seq(Range(Catalog[p])) /\ Catalog[p] # <<>>
          /\ \A dimension \in Range(Catalog[p]) : dimension.depends \in BOOLEAN

(* The elements of a finite set in an order: the k-th is the one that      *)
(* k - 1 others precede.                                                   *)
Sorted(S, precedes) ==
    [k \in 1 .. Cardinality(S) |->
        CHOOSE x \in S : Cardinality({y \in S : <<y, x>> \in precedes}) = k - 1]

Order(S) == Sorted(S, {c \in S \X S : c[1] < c[2]})

(* Pairs of numbers in lexicographic order.                                *)
Lexical(S) ==
    Sorted(S, {c \in S \X S : \/ c[1][1] < c[2][1]
                              \/ c[1][1] = c[2][1] /\ c[1][2] < c[2][2]})

(* What validate_intake_draft makes sure of before a plan is made.         *)
IntakeAccepted(intake) ==
    /\ intake.questions \in Seq(Range(intake.questions))
    /\ intake.hints \in Seq(Range(intake.hints))
    /\ \A question \in Range(intake.questions) :
          /\ question.open \in BOOLEAN /\ question.matched \subseteq DOMAIN Catalog
          /\ question.depends \subseteq DOMAIN intake.facts

(* Confirmed facts of the intake: those the caller provided.               *)
Confirmed(facts) == {f \in DOMAIN facts : facts[f] = "user_provided"}

---------------------------------------------------------------------------
(* The facts an aspect depends on: those a dimension asks for by key and,  *)
(* if it says so, those the question depends on.                           *)
DimensionFacts(facts, question, dimension) ==
    (dimension.keys \cap DOMAIN facts)
      \cup (IF dimension.depends THEN question.depends ELSE {})

GenericFacts(facts, question) ==
    IF question.depends # {} THEN question.depends ELSE Confirmed(facts)

(* Every dimension of every profile that matches, or one generic aspect.   *)
CandidateAspects(facts, number, question) ==
    IF question.matched = {}
      THEN << [question |-> number, scope |-> "generic_limited",
               facts |-> GenericFacts(facts, question)] >>
      ELSE LET places == Lexical(UNION {{p} \X (DOMAIN Catalog[p]) : p \in question.matched})
           IN [i \in DOMAIN places |->
                 [question |-> number, scope |-> "profiled_finite",
                  facts |-> DimensionFacts(facts, question,
                                           Catalog[places[i][1]][places[i][2]])]]

(* Passes over the queues, each taking the first element of every queue    *)
(* that still has one: pass k takes the k-th elements.                     *)
RoundRobin(queues) ==
    LET turns == Lexical(UNION {(DOMAIN queues[q]) \X {q} : q \in DOMAIN queues})
    IN [i \in DOMAIN turns |-> queues[turns[i][2]][turns[i][1]]]

OpenQuestions(intake) ==
    LET open == Order({n \in DOMAIN intake.questions : intake.questions[n].open})
    IN [n \in DOMAIN open |-> intake.questions[open[n]]]

Aspects(intake) ==
    LET open == OpenQuestions(intake)
    IN RoundRobin([n \in DOMAIN open |-> CandidateAspects(intake.facts, n, open[n])])

RequiredTasks(aspects) ==
    [a \in DOMAIN aspects |-> [aspect |-> a, required |-> TRUE, hint |-> 0]]

---------------------------------------------------------------------------
(* Hints are offered question by question; each goes to the aspect of its  *)
(* question with the fewest queries, and is dropped when even that one has *)
(* as many as it may have.                                                 *)
HintsOf(intake, n) == Order({h \in DOMAIN intake.hints : n \in intake.hints[h].questions})

Offers(intake) ==
    RoundRobin([n \in DOMAIN OpenQuestions(intake) |->
        [i \in DOMAIN HintsOf(intake, n) |-> [question |-> n, hint |-> HintsOf(intake, n)[i]]]])

TakeHint(aspects, slots, made, offer) ==
    LET options == {a \in DOMAIN aspects : aspects[a].question = offer.question}
        queries(a) == 1 + Cardinality({t \in DOMAIN made : made[t].aspect = a})
        fewest == {a \in options : \A b \in options : queries(a) <= queries(b)}
        aspect == Min(fewest)
    IN IF Len(made) >= slots \/ queries(aspect) >= MaxQueries
         THEN made
         ELSE Append(made, [aspect |-> aspect, required |-> FALSE, hint |-> offer.hint])

TakeHints(offers, aspects, slots) ==
    LET made[k \in 0 .. Len(offers)] ==
          IF k = 0 THEN <<>> ELSE TakeHint(aspects, slots, made[k - 1], offers[k])
    IN made[Len(offers)]

HintTasks(intake, aspects, slots) ==
    IF slots <= 0 \/ MaxQueries <= 1 THEN <<>> ELSE TakeHints(Offers(intake), aspects, slots)

---------------------------------------------------------------------------
(* The scheduler.  Required tasks have the first lane and hints the third  *)
(* one; the others are for tasks that no plan has when it is made.  Inside *)
(* a lane questions take turns, in the order they first appear, and each   *)
(* question goes round its aspects in the same way: a cursor remembers who *)
(* was served last, and who has nothing left is passed over.  Questions    *)
(* and aspects are named by the place in the list where their first task   *)
(* of the lane stands.                                                     *)
Lane(task) == IF task.required THEN 0 ELSE 2

(* Mutant: whoever was served last may be served again. *)
NextInPlace(waiting, cursor) ==
    LET ahead == {w \in waiting : w >= cursor}
    IN Min(IF ahead # {} THEN ahead ELSE waiting)

(* Who is served: the next one that waits, going round.                    *)
NextAfter(waiting, cursor) ==
    LET ahead == {w \in waiting : w > cursor}
    IN Min(IF ahead # {} THEN ahead ELSE waiting)

(* One turn: the next question, its next aspect, and that aspect's first   *)
(* task that is left.                                                      *)
TakeTurn(state, question, aspect) ==
    LET q == NextAfter({question[t] : t \in state.left}, state.turn)
        a == NextAfter({aspect[t] : t \in {u \in state.left : question[u] = q}},
                       state.cursor[q])
        task == Min({t \in state.left : aspect[t] = a})
    IN [left |-> state.left \ {task}, turn |-> q,
        cursor |-> [state.cursor EXCEPT ![q] = a], out |-> Append(state.out, task)]

LaneTurns(own, question, aspect) ==
    LET turns[k \in 0 .. Cardinality(own)] ==
          IF k = 0 THEN [left |-> own, turn |-> 0, cursor |-> [t \in own |-> 0], out |-> <<>>]
          ELSE TakeTurn(turns[k - 1], question, aspect)
    IN turns

LaneTasks(tasks, lane) == {t \in DOMAIN tasks : Lane(tasks[t]) = lane}

RoundRobinLane(aspects, tasks, lane) ==
    LET own == LaneTasks(tasks, lane)
        QuestionOf(t) == aspects[tasks[t].aspect].question
        question == [t \in own |-> Min({u \in own : QuestionOf(u) = QuestionOf(t)})]
        aspect == [t \in own |-> Min({u \in own : tasks[u].aspect = tasks[t].aspect})]
    IN LaneTurns(own, question, aspect)[Cardinality(own)].out

ScheduleTasks(aspects, tasks) ==
    LET order == RoundRobinLane(aspects, tasks, 0) \o RoundRobinLane(aspects, tasks, 2)
    IN [i \in DOMAIN order |-> tasks[order[i]]]

---------------------------------------------------------------------------
(* The whole planner: it gives up when the budget has no room for the      *)
(* required task of each aspect.                                           *)
Plannable(intake) == Len(Aspects(intake)) <= MaxTasks

BuildPlan(intake) ==
    LET aspects == Aspects(intake)
        required == RequiredTasks(aspects)
        optional == HintTasks(intake, aspects, MaxTasks - Len(required))
    IN [aspects |-> aspects, tasks |-> ScheduleTasks(aspects, required \o optional)]

---------------------------------------------------------------------------
(* validate_research_plan (tools/case_contract_validation_v5.py), which    *)
(* the planner calls on its own plan and the bundle validator again; the   *)
(* schema it checks first makes aspects and tasks sequences.               *)
PlanAccepted(intake, plan) ==
    LET open == DOMAIN OpenQuestions(intake)
        tasks == Range(plan.tasks)
    IN /\ plan.aspects \in Seq(Range(plan.aspects)) /\ plan.tasks \in Seq(tasks)
       /\ IsInjective(plan.tasks)
       /\ \A a \in DOMAIN plan.aspects :
            /\ plan.aspects[a].question \in open
            /\ plan.aspects[a].facts \subseteq DOMAIN intake.facts
            /\ \E t \in tasks : t.aspect = a /\ t.required
       /\ \A t \in tasks :
            /\ t.aspect \in DOMAIN plan.aspects
            /\ t.hint \in 0 .. Len(intake.hints)
       /\ \A q \in open : \E a \in DOMAIN plan.aspects : plan.aspects[a].question = q
       /\ Len(plan.tasks) <= MaxTasks

(* No aspect of a plan has more queries than it may have.                  *)
QueriesFit(plan) ==
    \A a \in DOMAIN plan.aspects :
      Cardinality({t \in DOMAIN plan.tasks : plan.tasks[t].aspect = a}) <= MaxQueries

---------------------------------------------------------------------------
(* Fairness of a plan: the required tasks come first, and in each of these *)
(* two parts nobody waits while another has two turns, neither a question  *)
(* that has tasks left nor an aspect of a question.                        *)
Group(aspects, q) == {a \in DOMAIN aspects : aspects[a].question = q}

Turns(tasks, n, required, group) ==
    Cardinality({t \in 1..n : tasks[t].required = required /\ tasks[t].aspect \in group})

FairBetween(tasks, required, one, other) ==
    LET all == Len(tasks)
    IN \A n \in 0..all :
         Turns(tasks, n, required, one) > Turns(tasks, n, required, other) + 1
           => Turns(tasks, n, required, other) = Turns(tasks, all, required, other)

Fair(plan) ==
    /\ \A i, j \in DOMAIN plan.tasks : plan.tasks[j].required /\ ~plan.tasks[i].required => j < i
    /\ \A required \in BOOLEAN :
         /\ \A p, q \in {plan.aspects[a].question : a \in DOMAIN plan.aspects} :
              FairBetween(plan.tasks, required, Group(plan.aspects, p), Group(plan.aspects, q))
         /\ \A a, b \in DOMAIN plan.aspects :
              plan.aspects[a].question = plan.aspects[b].question =>
                FairBetween(plan.tasks, required, {a}, {b})
=============================================================================
