----------------------------- MODULE Temporality -----------------------------
(***************************************************************************)
(* Dates of one canonical document and of its relationships                *)
(* (extract_document_temporality.py and its modules, reprocess_temporality *)
(* .py): each extraction of a page of the document is read for candidates, *)
(* a role with one trusted candidate is resolved, and what is resolved     *)
(* becomes events, dates of the document and dates of relationships. One   *)
(* extraction is one transaction. The database may hold the dates that     *)
(* version 2 of the processor left.                                        *)
(***************************************************************************)
EXTENDS Integers, FiniteSets, Sequences

CONSTANTS
    Outgoing,        \* relationships whose source is the document or a provision of it
    Incoming,        \* inverse relationships whose target is a provision of it
    Pages,           \* what a page may say: sequences of segments
    Inherited,       \* dates version 2 found: records of issued and published
    NoDate,
    FrontMatter,     \* segments in which publication metadata is looked for
    NearClosing,     \* distance from a closing at which a date is the document's
    MaxExtractions   \* bound: extractions of pages of the document

ASSUME TemporalityAssumption ==
    /\ Outgoing \cap Incoming = {}
    /\ FrontMatter \in Nat /\ NearClosing \in Nat /\ MaxExtractions \in Nat

VARIABLES
    pages,           \* the pages extracted so far, in the order of retrieval
    read,            \* extractions whose candidates and resolutions are stored
    unsettled,       \* roles of extractions with an open review item
    events,          \* temporal events of the document
    dates,           \* issued_date and publication_date of the document
    relations,       \* validated relationships
    dated,           \* asserted_date and effective_date of each relationship
    basis,           \* relationship_temporal_basis: one event at most for each date
    picked           \* the extraction a reprocess has selected, 0 when none runs

temporality == <<pages, read, unsettled, events, dates, relations, dated, basis, picked>>

Relation == Outgoing \cup Incoming
Role == {"publication", "issued", "commencement"}
Column == {"asserted", "effective"}

(***************************************************************************)
(* Candidates of a page                                                    *)
(***************************************************************************)
FirstArticle(page) ==
    CHOOSE n \in 1..Len(page) + 1 :
        /\ n \in DOMAIN page => page[n].type = "article"
        /\ \A i \in 1..n - 1 : page[i].type # "article"

NextToClosing(page, i) ==
    \E j \in DOMAIN page : page[j].type = "closing" /\ i - j \in -NearClosing..NearClosing

\* Whether the structure around a mention makes it the document's own.
IsTrusted(page, i, role) ==
    /\ ~page[i].editorial
    /\ \/ /\ role = "publication"
          /\ i < FirstArticle(page) /\ i <= FrontMatter
          /\ page[i].type \in {"heading", "text"} /\ ~page[i].cites
       \/ /\ role = "issued"
          /\ page[i].type = "closing" \/ (NextToClosing(page, i) /\ ~page[i].cites)
       \/ /\ role = "commencement"
          /\ page[i].type = "article" \/ page[i].inArticle

\* The mentions of a role: segment and place in it.
Candidates(page, role) ==
    {c \in UNION {{i} \X DOMAIN page[i].says : i \in DOMAIN page} :
        page[c[1]].says[c[2]].role = role}

Trusted(page, role) == {c \in Candidates(page, role) : IsTrusted(page, c[1], role)}

\* A faulty form: the first of several trusted candidates is promoted.
PromotedFirst(page, role) ==
    {c \in Trusted(page, role) : \A o \in Trusted(page, role) :
        c[1] < o[1] \/ (c[1] = o[1] /\ c[2] <= o[2])}

\* resolve_role: the only trusted candidate, as a set of at most one.
Promoted(page, role) == {c \in Trusted(page, role) : Trusted(page, role) = {c}}

Status(page, role) ==
    IF Cardinality(Trusted(page, role)) = 1 THEN "resolved"
    ELSE IF Cardinality(Candidates(page, role)) > 1 THEN "ambiguous" ELSE "unresolved"

DateOf(page, role) ==
    IF Promoted(page, role) = {} THEN NoDate
    ELSE LET c == CHOOSE c \in Promoted(page, role) : TRUE IN page[c[1]].says[c[2]].date

(***************************************************************************)
(* Events                                                                  *)
(***************************************************************************)
\* The evidence of an event names the extraction and the role it is read for;
\* its identity is made of what it says and of the processor's version.
Event(type, date, version, evidence) ==
    [type |-> type, date |-> date, version |-> version, evidence |-> evidence, active |-> TRUE]

SameIdentity(e, f) == e.type = f.type /\ e.date = f.date /\ e.version = f.version

\* resolved_dates and promote_resolved_events: publication is no evidence of
\* effect unless the page also says, once, that it rules from its publication.
EventsOf(x) ==
    LET published == DateOf(pages[x], "publication")
        found == {Event("issued", DateOf(pages[x], "issued"), 3, {<<x, "issued">>}),
                  Event("published", published, 3, {<<x, "publication">>}),
                  Event("in force", published, 3, {<<x, "publication">>, <<x, "commencement">>})}
    IN {e \in found :
          /\ e.date # NoDate
          /\ e.type = "in force" => Promoted(pages[x], "commencement") # {}}

\* create_event finds the identity taken by an event with other evidence.
Clashes(x) ==
    \E e \in EventsOf(x), f \in events : SameIdentity(e, f) /\ e.evidence # f.evidence

Legacy == {e \in events : e.version = 2 /\ e.active}

\* supersede_legacy_events keeps them with their evidence.
Retired == (events \ Legacy) \cup {[e EXCEPT !.active = FALSE] : e \in Legacy}

NoEvent == Event("none", NoDate, 3, {})

RestsOnLegacy(r, c) == basis[r][c] \in Legacy

\* What a transaction of extraction x writes to a column of a relationship.
EventFor(x, r, c) ==
    {e \in EventsOf(x) :
        \/ c = "asserted" /\ e.type = "issued" /\ r \in Outgoing
        \/ c = "effective" /\ e.type = "in force"}

\* A faulty form: the date stays when the event under it is superseded.
DateKeptOf(x, r, c) ==
    IF r \in relations /\ EventFor(x, r, c) # {}
    THEN (CHOOSE e \in EventFor(x, r, c) : TRUE).date
    ELSE dated[r][c]

DateGiven(x, r, c) ==
    IF r \in relations /\ EventFor(x, r, c) # {}
    THEN (CHOOSE e \in EventFor(x, r, c) : TRUE).date
    ELSE IF RestsOnLegacy(r, c) THEN NoDate ELSE dated[r][c]

\* INSERT OR IGNORE: an event that is there already is not replaced.
BasisGiven(x, r, c) ==
    IF basis[r][c] # NoEvent /\ ~RestsOnLegacy(r, c) THEN basis[r][c]
    ELSE IF r \in relations /\ EventFor(x, r, c) # {}
    THEN CHOOSE e \in EventFor(x, r, c) : TRUE
    ELSE NoEvent

\* update_document_dates: a date that only a superseded event gave is removed.
DocumentDate(found, current, type) ==
    IF found # NoDate THEN found
    ELSE IF \E e \in Legacy : e.type = type /\ e.date = current THEN NoDate ELSE current

(***************************************************************************)
(* Actions                                                                 *)
(***************************************************************************)
\* Candidates and resolutions are stored under ids of the extraction; storing them
\* again changes nothing.
Persist(x) == read' = read \cup {x}

\* sync_review_state: what is not resolved waits for a review.
SyncReviews(x) ==
    unsettled' = unsettled \cup {<<x, role>> : role \in {r \in Role : Status(pages[x], r) # "resolved"}}

\* process_temporality of extraction x, when it commits.
ProcessTemporality(x) ==
    /\ ~Clashes(x) /\ Persist(x) /\ SyncReviews(x)
    /\ events' = Retired \cup {e \in EventsOf(x) : \A f \in events : ~SameIdentity(e, f)}
    /\ dates' = [issued |-> DocumentDate(DateOf(pages[x], "issued"), dates.issued, "issued"),
                 published |-> DocumentDate(DateOf(pages[x], "publication"), dates.published, "published")]
    /\ dated' = [r \in Relation |-> [c \in Column |-> DateGiven(x, r, c)]]
    /\ basis' = [r \in Relation |-> [c \in Column |-> BasisGiven(x, r, c)]]
    /\ UNCHANGED <<pages, relations>>

\* Somebody runs the processor, or a pipeline does after it extracted a page;
\* when an event clashes nothing is written.
Extract(x) == x \in DOMAIN pages /\ ProcessTemporality(x) /\ UNCHANGED picked

\* reprocess selects the latest extraction and only then processes it.
Select ==
    /\ picked = 0 /\ pages # <<>>
    /\ picked' = Len(pages)
    /\ UNCHANGED <<pages, read, unsettled, events, dates, relations, dated, basis>>

Reprocess ==
    /\ picked # 0
    /\ picked' = 0
    /\ \/ ProcessTemporality(picked)
       \/ Clashes(picked) /\ UNCHANGED <<pages, read, unsettled, events, dates, relations, dated, basis>>

\* Another page, or another version of it, is bound to the document.
Retrieve(page) ==
    /\ Len(pages) < MaxExtractions
    /\ pages' = Append(pages, page)
    /\ UNCHANGED <<read, unsettled, events, dates, relations, dated, basis, picked>>

\* A promoter adds a relationship; it has no dates until the next extraction.
Promote(r) ==
    /\ r \notin relations
    /\ relations' = relations \cup {r}
    /\ UNCHANGED <<pages, read, unsettled, events, dates, dated, basis, picked>>

\* Version 2 dated a document only with one mention of each role.
EventsLeft(i) ==
    {Event("issued", i.issued, 2, {<<0, "issued">>}),
     Event("published", i.published, 2, {<<0, "publication">>}),
     Event("in force", i.published, 2, {<<0, "publication">>, <<0, "commencement">>})}

\* A database no processor has dated, and one that version 2 has.
Undated ==
    /\ events = {}
    /\ dates = [issued |-> NoDate, published |-> NoDate]
    /\ basis = [r \in Relation |-> [c \in Column |-> NoEvent]]

DatedByVersion2(i) ==
    /\ events = EventsLeft(i)
    /\ dates = [issued |-> i.issued, published |-> i.published]
    /\ basis = [r \in Relation |-> [c \in Column |->
          IF r \notin relations \/ (c = "asserted" /\ r \in Incoming) THEN NoEvent
          ELSE CHOOSE e \in events : e.type = IF c = "asserted" THEN "issued" ELSE "in force"]]

Inherit(related) ==
    /\ pages = <<>> /\ read = {} /\ unsettled = {} /\ picked = 0
    /\ relations = related
    /\ Undated \/ \E i \in Inherited : DatedByVersion2(i)
    /\ dated = [r \in Relation |-> [c \in Column |-> basis[r][c].date]]

TemporalInit == \E related \in SUBSET Relation : Inherit(related)

TemporalEmpty == Inherit({}) /\ Undated

TemporalNext ==
    \/ \E page \in Pages : Retrieve(page)
    \/ \E r \in Relation : Promote(r)
    \/ \E x \in DOMAIN pages : Extract(x)
    \/ Select
    \/ Reprocess

TemporalSpec == TemporalInit /\ [][TemporalNext]_temporality

(***************************************************************************)
(* Properties                                                              *)
(***************************************************************************)
IsActive(type, date) == \E e \in events : e.active /\ e.type = type /\ e.date = date

\* Every date rests on an event that stands, of the kind the date speaks of,
\* and no basis names an event that was superseded; "Preserve prior events/
\* provenance or explicitly supersede them" (DEF-0004). Replacing version 2
\* touches four tables, and a date may be left in any of them.
DatesAreFounded ==
    /\ \A r \in Relation, c \in Column :
          /\ dated[r][c] # NoDate =>
                IsActive(IF c = "asserted" THEN "issued" ELSE "in force", dated[r][c])
          /\ basis[r][c] # NoEvent => basis[r][c] \in events /\ basis[r][c].active
    /\ dates.issued # NoDate => IsActive("issued", dates.issued)
    /\ dates.published # NoDate => IsActive("published", dates.published)

\* No event stands on a role that waits for a review: only what one page says
\* once, where the document speaks of itself, becomes a fact, and effect needs
\* both the publication and the rule (ADR-0007, "uniquely supported").
EventsAreSettled ==
    \A e \in events : e.active /\ e.version = 3 =>
        /\ e.evidence \cap unsettled = {}
        /\ \A s \in e.evidence : s[1] \in read

\* Every page bound to the document can be processed, as a reprocess expects
\* "even when a canonical document has multiple archived manifestations".
PagesAreProcessed == \A x \in DOMAIN pages : ~Clashes(x)
===============================================================================
