------------------------- MODULE ResearchAuthorities -------------------------
(***************************************************************************)
(* What the corpus says of its documents and how they are related, as CASE *)
(* research reads it: the classification of a document and its effect at a *)
(* date (tools/legal_authority_classification.py), the relationships that  *)
(* matter to an aspect (tools/case_relationship_selection_v5.py) and the   *)
(* closure of the selected ones (tools/case_evidence_graph.py).  Everything*)
(* is read, nothing is changed.                                            *)
(*                                                                         *)
(* A document is [issuers, families, functions, review, located, starts,   *)
(* ends, terminated, doubtful]: the signals found for it, and the dates of *)
(* its temporal events.  A span is [doc, provision, part].  A relationship *)
(* is [type, source, target, evidence], its ends [doc, provision] and its  *)
(* evidence a span.  Dates are numbers and 0 is no date.                   *)
(***************************************************************************)
EXTENDS Integers, Sequences, FiniteSets, SequencesExt

CONSTANTS
    NoProvision,        \* an end or a span that names a whole document
    MaxRelations        \* budget of relationships for one aspect

ASSUME AuthoritiesAssumption == MaxRelations \in Nat

---------------------------------------------------------------------------
(* Signals that disagree make a document ambiguous before anything else is *)
(* asked; a document without a legal function is unknown, one with missing *)
(* metadata partial.                                                       *)
Ambiguous(document) ==
    \/ Cardinality(document.issuers) > 1
    \/ Cardinality(document.families) > 1
    \/ Cardinality(document.functions) > 1
    \/ document.review

Classification(document) ==
    IF Ambiguous(document) THEN "ambiguous"
    ELSE IF document.functions = {} THEN "unknown"
    ELSE IF document.issuers = {} \/ document.families = {} \/ ~document.located THEN "partial"
    ELSE "resolved"

(* Mutant: events that end the effect of a document are not looked for. *)
EffectOfInterval(document, date) ==
    IF document.doubtful \/ Cardinality(document.starts) # 1 THEN "unknown"
    ELSE IF date < Min(document.starts) THEN "ended"
    ELSE IF Cardinality(document.ends) # 1 THEN "unknown"
    ELSE IF date <= Min(document.ends) THEN "effective" ELSE "ended"

(* The effect of a document at a date: it is effective only inside one     *)
(* supported interval, ended when an event says so, otherwise unknown.     *)
Effect(document, date) ==
    LET start == Min(document.starts)
        end == Min(document.ends)
    IN IF document.doubtful THEN "unknown"
       ELSE IF \E t \in document.terminated : t <= date THEN "ended"
       ELSE IF Cardinality(document.starts) # 1 THEN "unknown"
       ELSE IF date < start THEN "ended"
       ELSE IF Cardinality(document.ends) # 1 THEN "unknown"
       ELSE IF date <= end THEN "effective" ELSE "ended"

(* Relationships touching a document, of which the classifier reports all. *)
Touching(relations, doc) ==
    {r \in DOMAIN relations : doc \in {relations[r].source.doc, relations[r].target.doc}}

Conflicts(relations, known, available) ==
    {r \in known : /\ relations[r].type = "conflict"
                   /\ {relations[r].source.doc, relations[r].target.doc} \subseteq available}

---------------------------------------------------------------------------
(* Whether a relationship matters to an aspect that selected these spans:  *)
(* one end is a selected provision, or both documents are selected, or it  *)
(* is a dependency that cannot be excluded because an end that is selected *)
(* names no provision or has no selected provision.                        *)
Ends(relation) == {relation.source, relation.target}

Relevant(relation, spans) ==
    LET docs == {s.doc : s \in spans}
        provisions(doc) == {s.provision : s \in {x \in spans : x.doc = doc}} \ {NoProvision}
    IN \/ \E e \in Ends(relation) : e.provision \in provisions(e.doc)
       \/ \A e \in Ends(relation) : e.doc \in docs
       \/ /\ relation.type # "other"
          /\ \E e \in Ends(relation) :
               e.doc \in docs /\ (e.provision = NoProvision \/ provisions(e.doc) = {})

(* Those among the known ones; the first of them, in the order of their    *)
(* references, are admitted up to the budget.                              *)
RelevantOf(relations, known, spans) == {r \in known : Relevant(relations[r], spans)}

Admitted(relevant) ==
    {r \in relevant : Cardinality({q \in relevant : q < r}) < MaxRelations}

Overflowing(relevant) == Cardinality(relevant) > MaxRelations

---------------------------------------------------------------------------
(* Closure of the selected relationships: their ends become authorities of *)
(* the bundle, and so do the documents that own their evidence, which      *)
(* joins the spans of the bundle.  It is first order: nothing is followed  *)
(* from the documents it adds.                                             *)
SupportSpans(relations, selected) == {relations[r].evidence : r \in selected}

SupportAuthorities(relations, selected, authorities) ==
    authorities
      \cup (UNION {{e.doc : e \in Ends(relations[r])} : r \in selected})
      \cup {s.doc : s \in SupportSpans(relations, selected)}
=============================================================================
