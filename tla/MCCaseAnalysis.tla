--------------------------- MODULE MCCaseAnalysis ---------------------------
(***************************************************************************)
(* The parts of a CASE v5 analysis for TLC: the intake model is asked for a *)
(* draft (IntakeStructuring), an accepted draft is researched, the bundle   *)
(* is published (BundlePublication), and the analyses of a controlled       *)
(* validation are recorded (ValidationAttempts). They share nothing but     *)
(* what one hands to the next, so a behaviour is one of them. The research  *)
(* has two documents in four corpora, six intakes, and searches that find   *)
(* up to one hit more than they may read.                                   *)
(***************************************************************************)
EXTENDS IntakeStructuring, ResearchContract, ValidationAttempts, TLC

CONSTANTS
    d1, d2, p1, p2      \* documents and provisions

VARIABLES
    half,
    store, files, point, job, ended, acked, edited, mishaps

ASSUME ConfigAssumption

\* Every configuration with up to three primary attempts.
MCConfig == [attempts : 1..3, review : BOOLEAN, onInvalid : BOOLEAN, onProvider : BOOLEAN,
             store : BOOLEAN, capable : BOOLEAN]

Publication == INSTANCE BundlePublication WITH
    Publisher <- {"p1", "p2"}, Ref <- {"r1"}, NoRef <- "no ref",
    Body <- {"b1", "b2"}, NoBody <- "no body", Foreign <- "foreign",
    Faults <- {"crash", "disk", "busy", "tamper"}, MaxMishaps <- 3, answer <- ended, pc <- point

publication == <<store, files, point, job, ended, acked, edited, mishaps>>

MCCatalog ==
    << << [keys |-> {"income"}, depends |-> FALSE], [keys |-> {}, depends |-> TRUE] >>,
       << [keys |-> {}, depends |-> FALSE] >> >>

Q(matched, depends) == [open |-> TRUE, matched |-> matched, depends |-> depends]
Known == [income |-> "user_provided", residence |-> "user_provided"]

(* Two questions with three hints; one question with two aspects and three *)
(* hints; one with one hint; one that waits for a fact; one that no profile*)
(* matches, beside one that is not open; and two with too many aspects.    *)
MCIntakes ==
    { [questions |-> <<Q({1}, {}), Q({2}, {})>>, facts |-> Known,
       hints |-> <<[questions |-> {1}], [questions |-> {1, 2}], [questions |-> {1}]>>],
      [questions |-> <<Q({1}, {})>>, facts |-> Known,
       hints |-> <<[questions |-> {1}], [questions |-> {1}], [questions |-> {1}]>>],
      [questions |-> <<Q({2}, {})>>, facts |-> Known, hints |-> <<[questions |-> {1}]>>],
      [questions |-> <<Q({1}, {"residence"})>>, hints |-> <<>>,
       facts |-> [income |-> "user_provided", residence |-> "missing"]],
      [questions |-> <<Q({}, {}), [Q({}, {}) EXCEPT !.open = FALSE]>>,
       facts |-> Known, hints |-> <<>>],
      [questions |-> <<Q({1, 2}, {}), Q({1, 2}, {})>>, facts |-> Known, hints |-> <<>>] }

Span(doc, provision, part) == [doc |-> doc, provision |-> provision, part |-> part]
End(doc, provision) == [doc |-> doc, provision |-> provision]

Plain == [issuers |-> {"dian"}, families |-> {"ley"}, functions |-> {"normative"},
          review |-> FALSE, located |-> TRUE, starts |-> {1}, ends |-> {3},
          terminated |-> {}, doubtful |-> FALSE]

Relation(type, source, target) ==
    [type |-> type, source |-> source, target |-> target,
     evidence |-> Span(source.doc, source.provision, 9)]

MCCorpora ==
    { [documents |-> (d1 :> Plain @@ d2 :> Plain),
       relations |-> <<Relation("amends", End(d1, p1), End(d2, NoProvision)),
                       Relation("other", End(d1, p2), End(d2, p1))>>],
      [documents |-> (d1 :> Plain @@ d2 :> [Plain EXCEPT !.issuers = {"dian", "congreso"}]),
       relations |-> <<Relation("conflict", End(d1, NoProvision), End(d2, NoProvision))>>],
      [documents |-> (d1 :> [Plain EXCEPT !.starts = {1, 2}] @@
                      d2 :> [Plain EXCEPT !.terminated = {2}]),
       relations |-> <<>>],
      [documents |-> (d1 :> [Plain EXCEPT !.ends = {1}] @@
                      d2 :> [Plain EXCEPT !.families = {}]),
       relations |-> <<>>] }

Hit(doc, span, context, gap) ==
    [doc |-> doc, span |-> span, cites |-> context # <<>> \/ gap, context |-> context, gap |-> gap]

Hits ==
    { Hit(NoDoc, NoSpan, <<>>, FALSE),
      Hit(d1, NoSpan, <<>>, FALSE),
      Hit(d1, Span(d1, p1, 1), <<>>, FALSE),
      Hit(d1, Span(d1, p1, 2), <<Span(d1, p1, 1)>>, FALSE),
      Hit(d1, Span(d1, NoProvision, 3), <<>>, TRUE),
      Hit(d1, Span(d1, p2, 4), <<Span(d1, p2, 5), Span(d1, p2, 6)>>, FALSE),
      Hit(d2, Span(d2, p1, 1), <<>>, FALSE),
      Hit(d2, Span(d2, NoProvision, 2), <<Span(d1, p1, 1)>>, FALSE) }

First == Hit(d1, Span(d1, p1, 1), <<>>, FALSE)
Foreign == Hit(d2, Span(d2, NoProvision, 2), <<Span(d1, p1, 1)>>, FALSE)

MCFindings ==
    {<<>>} \cup {<<h>> : h \in Hits \ {Foreign}}
      \cup {<<First, h>> : h \in {x \in Hits : x.doc = d1 /\ x.context # <<>>} \cup {Foreign}}
      \cup {<<First, Hit(d2, Span(d2, p1, 1), <<>>, FALSE), First>>}

(* From the third task on a search finds nothing, or what the first one    *)
(* found.                                                                  *)
Available == IF Len(found) < 2 THEN Findings ELSE {<<>>, found[1]}

SomeResearch ==
    \/ MakePlan
    \/ \E all \in Available : Search(all)
    \/ Read
    \/ EndTask
    \/ Conclude

SomeConfig == CHOOSE c \in Config : TRUE
SomeIntake == CHOOSE i \in Intakes : TRUE
SomeCorpus == CHOOSE c \in Corpora : TRUE

\* The parts a behaviour is not about stand still in one of their initial states.
AnalysisInit ==
    /\ half \in {"structuring", "research", "publication", "attempts"}
    /\ Init /\ ResearchInit /\ Publication!Init /\ AttemptsInit
    /\ half # "structuring" => config = SomeConfig
    /\ half # "research" => intake = SomeIntake /\ corpus = SomeCorpus /\ date = 0

AnalysisNext ==
    /\ UNCHANGED half
    /\ \/ half = "structuring" /\ Next /\ UNCHANGED <<research, publication, records>>
       \/ half = "research" /\ SomeResearch /\ UNCHANGED <<vars, publication, records>>
       \/ half = "publication" /\ Publication!Next /\ UNCHANGED <<vars, research, records>>
       \/ half = "attempts" /\ AttemptsNext /\ UNCHANGED <<vars, research, publication>>

\* A publisher needs nobody to take its next step.
AnalysisSpec ==
    /\ AnalysisInit /\ [][AnalysisNext]_<<half, vars, research, publication, records>>
    /\ \A p \in {"p1", "p2"} : WF_publication(half = "publication" /\ Publication!Step(p))

-----------------------------------------------------------------------------
\* Publishing a bundle again puts its file in place in the end (BundlePublication).
RetriesMaterialize == Publication!RetriesMaterialize
=============================================================================
