------------------------------ MODULE MCDatabase ------------------------------
(* The state database for TLC: how start-ups bring its schema up to date, the *)
(* canonical corpus in it, and the dates of one document of it; one of the    *)
(* three takes steps in a behaviour, and the others stay as they start.       *)
EXTENDS Migrations, Temporality, Corpus, TLC

VARIABLE half

\* A migration that may be run again, one that adds two columns like 013, one
\* that mixes like 015.
MCScript == << <<"create", "create">>, <<"alter", "alter">>, <<"alter", "create">> >>

\* Two authorities' resolutions of one number, an oficio that quotes a law and
\* calls itself a concepto, a ruling that quotes a resolution, a compiled decree.
Plain ==
    [family |-> "normative", act |-> "res", issuer |-> "dian", heading |-> "res",
     names |-> {"res"}, titles |-> {}, articles |-> {"1"}, compiled |-> {},
     duplicated |-> FALSE, doctrine |-> FALSE, dated |-> FALSE]

CorpusPages ==
    [a |-> Plain,
     b |-> [Plain EXCEPT !.issuer = "mintic"],
     s |-> [Plain EXCEPT !.family = "family", !.act = "oficio", !.heading = "ley",
                         !.names = {"oficio", "concepto"},
                         !.titles = {[act |-> "concepto", issuer |-> "dian"]},
                         !.articles = {}, !.doctrine = TRUE, !.dated = TRUE],
     u |-> [Plain EXCEPT !.family = "ruling", !.act = "no act", !.issuer = "none",
                         !.names = {}, !.articles = {}],
     d |-> [Plain EXCEPT !.act = "dec", !.issuer = "presidencia", !.heading = "dec",
                         !.names = {"dec"}, !.articles = {}, !.compiled = {"1"},
                         !.duplicated = TRUE, !.dated = TRUE]]

Mentioned ==
    [r1 |-> [page |-> "s", act |-> "res", issuer |-> "none", article |-> "1",
             promoters |-> {"canonical", "editorial"}, within |-> "1"],
     r2 |-> [page |-> "b", act |-> "res", issuer |-> "dian", article |-> "1",
             promoters |-> {"operational"}, within |-> "1"],
     r3 |-> [page |-> "d", act |-> "dec", issuer |-> "presidencia", article |-> "1",
             promoters |-> {"operational"}, within |-> "1"]]

Resolution == [issuer |-> "none", act |-> "res"]
Law == [issuer |-> "none", act |-> "ley"]

Databases ==
    {[m \in {"a", "b", "s"} |-> NoDoc],
     [a |-> Resolution, b |-> Resolution, s |-> NoDoc],
     [a |-> Resolution, b |-> NoDoc, s |-> Law],
     [a |-> Resolution, u |-> Resolution],
     [m \in {"d", "b"} |-> NoDoc]}

MCIssuer == {"dian", "mintic", "presidencia"}
MCAct == {"res", "ley", "oficio", "concepto", "dec"}
MCScoped == {"res", "concepto", "oficio"}
MCGeneric == {"res", "ley", "dec"}

\* Segments of a page: a heading or a text, an article, a closing.
Says(role, date) == [role |-> role, date |-> date]

Segment(type, says) ==
    [type |-> type, says |-> says, editorial |-> FALSE, cites |-> FALSE, inArticle |-> FALSE]

Published(d) == Segment("heading", <<Says("publication", d)>>)
Given(d) == Segment("closing", <<Says("issued", d)>>)
Rule == Says("commencement", "none")
Rules == Segment("article", <<Rule>>)
Citing(segment) == [segment EXCEPT !.cites = TRUE]

\* Pages that say everything once, that say it twice, that quote it from other
\* acts, in a note, beyond the front matter or next to a closing, or not at all.
DatedPages ==
    {<<Published("d1"), Rules, Given("d1")>>, <<Published("d2"), Rules, Given("d1")>>,
     <<Published("d1"), Published("d2"), Rules, Given("d2")>>,
     <<Citing(Published("d1")), Segment("article", <<Rule, Rule>>), Given("d2"),
       Citing(Segment("text", <<Says("issued", "d1")>>))>>,
     <<[Published("d2") EXCEPT !.editorial = TRUE], Segment("text", <<Says("issued", "d2")>>),
       Published("d1"), Segment("closing", <<>>)>>,
     <<Published("d2"), [Segment("text", <<Rule>>) EXCEPT !.inArticle = TRUE]>>}

\* What version 2 found on the first and the second of them.
MCInherited == {[issued |-> "d1", published |-> "d1"], [issued |-> "d1", published |-> "d2"]}

DatabaseInit ==
    /\ Init
    /\ \/ half = "schema" /\ Registered([p \in {"a"} |-> NoDoc]) /\ TemporalEmpty
       \/ half = "corpus" /\ CorpusInit /\ TemporalEmpty
       \/ half = "dates" /\ Registered([p \in {"a"} |-> NoDoc]) /\ TemporalInit

DatabaseNext ==
    /\ UNCHANGED half
    /\ \/ half = "schema" /\ Next /\ UNCHANGED <<corpus, temporality>>
       \/ half = "corpus" /\ CorpusNext /\ UNCHANGED <<vars, temporality>>
       \/ half = "dates" /\ TemporalNext /\ UNCHANGED <<vars, corpus>>

FairDatabase ==
    /\ DatabaseInit /\ [][DatabaseNext]_<<vars, corpus, temporality, half>>
    /\ \A p \in Process :
          WF_<<vars, half>>(half = "schema" /\ Run(p) /\ UNCHANGED <<corpus, temporality, half>>)
===============================================================================
