-------------------------------- MODULE Corpus --------------------------------
(***************************************************************************)
(* The canonical corpus of the state database: which document a page (a    *)
(* manifestation) is bound to, its identifiers, its articles, the          *)
(* references and relationships between them, and the tools that register, *)
(* resolve, promote, migrate, reprocess and clean them up.  A tool reads   *)
(* some rows, computes, and writes in a transaction: a read that a later   *)
(* transaction relies on is kept in pending until that transaction, and    *)
(* other tools may run in between.                                         *)
(***************************************************************************)
EXTENDS SourceIdentity

CONSTANTS
    Page,           \* manifestation -> what its URL and its text say
    Mention,        \* mention -> the reference it is, and where it was found
    Generic,        \* acts of the four types the generic parser knows
    NoDoc,          \* an unbound manifestation, an unresolved target
    Bindings,       \* the bindings a database may start with
    MaxPending,     \* tools in the middle of a run
    MaxPlans,       \* of them, migrations that are planned and not applied
    MaxRuns         \* runs of a tool

Mentions == DOMAIN Mention

(* A document's id is a digest of the key it was first registered under; a *)
(* provision's of its document and designation.                            *)
Documents == Key

(* What a page says of itself is an act and an issuer, or none; and the    *)
(* older registrars bound a page whose URL and heading agree to the act    *)
(* they name, the issuer apart.                                            *)
ASSUME CorpusAssumption ==
    /\ NoAct \notin Act /\ NoDoc \notin Documents
    /\ \A m \in DOMAIN Page :
          /\ Page[m].act \in Act \cup {NoAct} /\ Page[m].heading \in Act \cup {NoAct}
          /\ Page[m].issuer \in Issuer \cup {NoIssuer}
          /\ \A t \in Page[m].titles : t.act \in Act \cup {NoAct} /\ t.issuer \in Issuer \cup {NoIssuer}
    /\ \A old \in Bindings :
          /\ DOMAIN old \subseteq DOMAIN Page /\ old \in [DOMAIN old -> Documents \cup {NoDoc}]
          /\ \A m \in DOMAIN old :
                old[m] # NoDoc /\ AssessGeneric(Page[m]).accepted => old[m].act = Page[m].act

(* The parsers share no type: a heading of the generic one is of four, the *)
(* families have others, all of them scoped.  A law or a decree has one    *)
(* authority.  Older registrars bound pages by keys without an issuer.     *)
ASSUME TypesAssumption ==
    /\ \A m \in DOMAIN Page :
          /\ Page[m].heading \in Generic \cup {NoAct}
          /\ IsFamily(Page[m]) =>
                \A act \in {Page[m].act} \cup {t.act : t \in Page[m].titles} :
                   act \in Scoped \ Generic \/ act = NoAct
    /\ \A m, n \in DOMAIN Page :
          /\ AssessGeneric(Page[m]).accepted /\ AssessGeneric(Page[n]).accepted
          /\ Page[m].act = Page[n].act /\ Page[m].act \notin Scoped
          => Page[m].issuer = Page[n].issuer
    /\ \A old \in Bindings : \A m \in DOMAIN old : old[m] # NoDoc => old[m].issuer = NoIssuer

VARIABLES
    docs,           \* documents
    ids,            \* document_identifiers of type canonical_key
    cited,          \* document_identifier_evidence: document, key, page
    bound,          \* manifestations.document_id
    reviews,        \* open identity reviews: page, reason
    articles,       \* provisions: document, designation
    observed,       \* provision_observations: page, provision
    disputed,       \* open provision_designation_conflicts: document, page
    happened,       \* temporal events: document, the page they are read from
    described,      \* documents with doctrine metadata or temporal candidates
    migrated,       \* new_document_id of document_identity_migrations
    resolved,       \* reference_resolutions
    doubts,         \* reference reviews: mention, reason, open or not
    relationships,
    traced,         \* relationships that have a relationship_provenance row
    pending, runs

Manifestations == DOMAIN bound

identity == <<docs, ids, cited, bound, reviews, described, migrated>>
text == <<articles, observed, disputed, happened>>
graph == <<resolved, doubts, relationships, traced>>
corpus == <<identity, text, graph, pending, runs>>

Article(document, designation) == [document |-> document, designation |-> designation]

Target(status, document, article) ==
    [status |-> status, document |-> document, article |-> article]

NoTarget == Target("none", NoDoc, NoDoc)

(***************************************************************************)
(* Runs.  Taking a read out of pending ends the run unless another stage   *)
(* follows.                                                                 *)
(***************************************************************************)
Begin(record) ==
    /\ runs < MaxRuns /\ Cardinality(pending) < MaxPending
    /\ record \notin pending
    /\ runs' = runs + 1 /\ pending' = pending \cup {record}

Alone == runs < MaxRuns /\ runs' = runs + 1 /\ UNCHANGED pending

Finish(record) == pending' = pending \ {record} /\ UNCHANGED runs

Continue(record, next) ==
    pending' = (pending \ {record}) \cup {next} /\ UNCHANGED runs

(* What a registrar reads before its transaction: the present binding      *)
ReadBinding(tool, m) ==
    /\ Begin([tool |-> tool, page |-> m, existing |-> bound[m]])
    /\ UNCHANGED <<identity, text, graph>>

Read(record, tool) == record \in pending /\ record.tool = tool

(***************************************************************************)
(* Identity                                                                *)
(***************************************************************************)
OpenReview(m, reason) == reviews' = reviews \cup {<<m, reason>>}

(* An identity that is not accepted opens its review and unbinds the page  *)
Reject(record, reason) ==
    /\ OpenReview(record.page, reason)
    /\ bound' = IF record.existing = NoDoc THEN bound ELSE [bound EXCEPT ![record.page] = NoDoc]
    /\ UNCHANGED <<docs, ids, cited, described, migrated>>

Misbound(record, signal, unqualified) ==
    /\ record.existing \notin {NoDoc, CanonicalKey(signal)}
    /\ ~Equivalent(ids[record.existing], signal, unqualified)

(* The document the page belongs to: the one it is bound to when that is   *)
(* the same act, otherwise the one of its canonical key                    *)
Home(record, signal) ==
    IF record.existing = NoDoc THEN CanonicalKey(signal) ELSE record.existing

BindTo(document, signal, m) ==
    /\ docs' = docs \cup {document}
    /\ ids' = [ids EXCEPT ![document] = Upsert(@, signal)]
    /\ bound' = [bound EXCEPT ![m] = document]
    /\ UNCHANGED <<described, migrated>>

(* register_document_identity: one transaction; a concepto or an oficio is *)
(* described afterwards in a second one                                    *)
RegisterIdentity(record) ==
    LET m == record.page
        a == Assess(Page[m])
        conflict == a.accepted /\ Misbound(record, a.signal, IsFamily(Page[m]))
    IN /\ Read(record, "identity")
       /\ IF ~a.accepted \/ conflict
          THEN /\ Reject(record, IF a.accepted THEN "SOURCE_IDENTITY_CONFLICT" ELSE a.reason)
               /\ Finish(record)
          ELSE /\ BindTo(Home(record, a.signal), a.signal, m)
               /\ reviews' = {r \in reviews : r[1] # m}
               /\ UNCHANGED cited
               /\ IF Page[m].doctrine
                  THEN Continue(record, [tool |-> "doctrine", page |-> m,
                                         existing |-> Home(record, a.signal)])
                  ELSE Finish(record)
       /\ UNCHANGED <<text, graph>>

(* register_doctrine after the identity: dates, metadata and identifiers   *)
(* of the document.  It checks that the page is still bound to it, and the *)
(* foreign keys that the document is still there.                          *)
DescribeDoctrine(record) ==
    LET d == record.existing IN
    /\ Read(record, "doctrine") /\ Finish(record)
    /\ \/ /\ d \in docs
          /\ described' = described \cup {d} /\ happened' = happened \cup {<<d, record.page>>}
       \/ /\ d \notin docs \/ bound[record.page] # d
          /\ UNCHANGED <<described, happened>>
    /\ UNCHANGED <<docs, ids, cited, bound, reviews, migrated, articles, observed, disputed, graph>>

(* register_simple_act, first transaction: the assessment                  *)
AssessSimple(record) ==
    LET a == AssessGeneric(Page[record.page]) IN
    /\ Read(record, "simple")
    /\ IF a.accepted
       THEN /\ Continue(record, [tool |-> "simple checked", page |-> record.page,
                                 existing |-> record.existing])
            /\ UNCHANGED identity
       ELSE Finish(record) /\ Reject(record, a.reason)
    /\ UNCHANGED <<text, graph>>

(* Then a conflict, no article of its own to register, or the document     *)
(* with its identifiers, their evidence and its articles.  Reviews that    *)
(* are open stay open.                                                     *)
RegisterSimple(record) ==
    LET m == record.page
        signal == AssessGeneric(Page[m]).signal
        d == Home(record, signal)
        own == {Article(d, n) : n \in Page[m].articles}
    IN /\ Read(record, "simple checked") /\ Finish(record)
       /\ IF Misbound(record, signal, FALSE)
          THEN Reject(record, "SOURCE_IDENTITY_CONFLICT") /\ UNCHANGED text
          ELSE IF own = {}
          THEN UNCHANGED <<identity, text>>
          ELSE /\ BindTo(d, signal, m)
               /\ cited' = cited \cup {<<d, k, m>> : k \in CanonicalKeys(signal)}
               /\ articles' = articles \cup own
               /\ observed' = observed \cup {<<m, p>> : p \in own}
               /\ UNCHANGED <<reviews, disputed, happened>>
       /\ UNCHANGED graph

(* register_compiled_provisions: the heading alone names the document, by  *)
(* a key without issuer; a page bound to another one is an error           *)
RegisterCompiled(record) ==
    LET m == record.page
        d == KeyOf(NoIssuer, Page[m].heading)
        row == [key |-> d, issuer |-> NoIssuer, primary |-> TRUE]
        own == {Article(d, n) : n \in Page[m].compiled}
    IN /\ Read(record, "compiled") /\ Finish(record)
       /\ IF record.existing \in {NoDoc, d}
          THEN /\ docs' = docs \cup {d}
               /\ ids' = [ids EXCEPT ![d] = IF \E r \in @ : r.key = d THEN @ ELSE @ \cup {row}]
               /\ bound' = [bound EXCEPT ![m] = d]
               /\ articles' = articles \cup own
               /\ observed' = observed \cup {<<m, p>> : p \in own}
               /\ UNCHANGED <<cited, reviews, described, migrated, disputed, happened>>
          ELSE UNCHANGED <<identity, text>>
       /\ UNCHANGED graph

(* detect_provision_conflicts: a designation twice in one page with        *)
(* different texts.  Nothing in the tools closes such a conflict.          *)
DetectConflicts(m) ==
    /\ bound[m] # NoDoc /\ Page[m].duplicated
    /\ \E o \in observed : o[1] = m /\ o[2].document = bound[m]
    /\ Alone
    /\ disputed' = disputed \cup {<<bound[m], m>>}
    /\ UNCHANGED <<identity, articles, observed, happened, graph>>

(* extract_document_temporality: events of the document the page is bound to *)
DateDocument(m) ==
    /\ bound[m] # NoDoc /\ Page[m].dated
    /\ Alone
    /\ happened' = happened \cup {<<bound[m], m>>}
    /\ described' = described \cup {bound[m]}
    /\ UNCHANGED <<docs, ids, cited, bound, reviews, migrated, articles, observed, disputed, graph>>

(***************************************************************************)
(* References and relationships                                            *)
(***************************************************************************)
(* A faulty form: the key alone decides                                    *)
CandidatesOfAct(r) == {d \in docs : \E i \in ids[d] : i.key = KeyOf(NoIssuer, r.act)}

(* Documents with the key of the reference, of the issuer it names if any  *)
CandidateDocuments(r) ==
    {d \in docs : \E i \in ids[d] : /\ i.key = KeyOf(NoIssuer, r.act)
                                    /\ r.issuer \in {NoIssuer, i.issuer}}

Doubt(status, document, reason) ==
    [target |-> Target(status, document, NoDoc), reason |-> reason]

ResolveOne(r) ==
    LET found == CandidateDocuments(r)
        d == CHOOSE d \in found : TRUE
        p == Article(d, r.article)
    IN IF found = {} THEN Doubt("unresolved", NoDoc, "TARGET_DOCUMENT_NOT_FOUND")
       ELSE IF Cardinality(found) > 1 THEN Doubt("ambiguous", NoDoc, "AMBIGUOUS_DOCUMENT_ID")
       ELSE IF r.article = "none"
       THEN [target |-> Target("resolved", d, NoDoc), reason |-> "none"]
       ELSE IF \E x \in disputed : x[1] = d
       THEN Doubt("ambiguous", d, "AMBIGUOUS_PROVISION_DESIGNATION")
       ELSE IF p \notin articles THEN Doubt("unresolved", d, "TARGET_PROVISION_NOT_FOUND")
       ELSE [target |-> Target("resolved", d, p), reason |-> "none"]

MentionsOf(m) == {x \in Mentions : Mention[x].page = m}

Unmapped == "SOURCE_PROVISION_UNRESOLVED"

(* Reasons that no longer hold are closed; a review of the same mention    *)
(* and reason that exists already, open or closed, is left as it is        *)
DoubtsAfter(m, answer) ==
    LET kept == {r \in doubts : r.mention \notin MentionsOf(m) \/ r.reason = Unmapped}
        closed == {[r EXCEPT !.open = @ /\ r.reason = answer[r.mention].reason] :
                      r \in doubts \ kept}
        new == {x \in MentionsOf(m) : /\ answer[x].reason # "none"
                                      /\ ~ \E r \in doubts : r.mention = x
                                                             /\ r.reason = answer[x].reason}
    IN kept \cup closed
         \cup {[mention |-> x, reason |-> answer[x].reason, open |-> TRUE] : x \in new}

(* resolve_references over the mentions of one page.  The first of them is *)
(* answered before the first row is written, the others in the transaction *)
ReadFirst(m) ==
    \E x \in MentionsOf(m) :
       /\ Begin([tool |-> "resolve", page |-> m, existing |-> NoDoc,
                 first |-> x, answer |-> ResolveOne(Mention[x])])
       /\ UNCHANGED <<identity, text, graph>>

(* A target that is gone by then fails the foreign keys                    *)
Resolve(record) ==
    LET own == MentionsOf(record.page)
        answer == [x \in own |-> IF x = record.first THEN record.answer
                                 ELSE ResolveOne(Mention[x])]
        target == record.answer.target
    IN /\ Read(record, "resolve") /\ Finish(record)
       /\ IF target.document \in docs \cup {NoDoc} /\ target.article \in articles \cup {NoDoc}
          THEN /\ resolved' = [x \in Mentions |-> IF x \in own THEN answer[x].target
                                                    ELSE resolved[x]]
               /\ doubts' = DoubtsAfter(record.page, answer)
          ELSE UNCHANGED <<resolved, doubts>>
       /\ UNCHANGED <<identity, text, relationships, traced>>

Promotable(x) == resolved[x].status = "resolved" /\ resolved[x].article # NoDoc

(* The three promoters read the resolved relations of a page.  The         *)
(* canonical one takes all of them or none, from the document; the         *)
(* operational and the editorial one take those of their kinds that are    *)
(* resolved, from an article.                                              *)
ReadRelations(promoter, m) ==
    LET own == {x \in MentionsOf(m) : promoter \in Mention[x].promoters}
        ready == {x \in own : Promotable(x)}
    IN /\ own # {} /\ bound[m] # NoDoc
       /\ IF promoter = "canonical" THEN ready = own ELSE ready # {}
       /\ Begin([tool |-> promoter, page |-> m, existing |-> bound[m],
                 rows |-> {[mention |-> x, to |-> resolved[x].article] : x \in ready}])
       /\ UNCHANGED <<identity, text, graph>>

(* The article a relation is in, under the document read before            *)
From(record, x) ==
    IF record.tool = "canonical" THEN Article(record.existing, "none")
    ELSE Article(record.existing, Mention[x].within)

SourceKnown(record, x) ==
    record.tool = "canonical" \/ From(record, x) \in articles

Relationship(record, row) ==
    [mention |-> row.mention, by |-> record.tool,
     from |-> From(record, row.mention), to |-> row.to]

(* A provenance row is kept once per mention and resolution: INSERT OR     *)
(* IGNORE drops a second one.  Without the resolution the foreign key      *)
(* fails and nothing of the run is stored.                                 *)
PromoteRelations(record) ==
    LET usable == {row \in record.rows : SourceKnown(record, row.mention)}
        made == {Relationship(record, row) : row \in usable}
        unmapped == {row.mention : row \in record.rows \ usable}
    IN /\ record \in pending /\ record.tool \in {"canonical", "operational", "editorial"}
       /\ Finish(record)
       /\ IF \A row \in usable : resolved[row.mention].status # "none"
          THEN /\ relationships' = relationships \cup made
               /\ traced' = traced \cup {r \in made : \A t \in traced : t.mention # r.mention}
               /\ doubts' = doubts \cup
                    {[mention |-> x, reason |-> Unmapped, open |-> TRUE] :
                        x \in {x \in unmapped : \A r \in doubts :
                                 r.mention # x \/ r.reason # Unmapped}}
          ELSE UNCHANGED <<relationships, traced, doubts>>
       /\ UNCHANGED <<identity, text, resolved>>

(***************************************************************************)
(* Maintenance                                                             *)
(***************************************************************************)
Linked(d) == {m \in Manifestations : bound[m] = d}

(* A faulty form: what the schema's foreign keys protect                   *)
InUseByKeys(d) ==
    \/ Linked(d) # {} \/ d \in described \cup migrated
    \/ \E p \in articles : p.document = d
    \/ \E x \in disputed \cup happened : x[1] = d
    \/ \E x \in Mentions : resolved[x].document = d

(* A row that makes cleanup keep a document: a binding, a foreign key to   *)
(* it, or an endpoint of a relationship or of an event                     *)
InUse(d) ==
    \/ Linked(d) # {} \/ d \in described \cup migrated
    \/ \E p \in articles : p.document = d
    \/ \E x \in disputed \cup happened : x[1] = d
    \/ \E x \in Mentions : resolved[x].document = d
    \/ \E r \in relationships : r.from = Article(d, "none")

Residue(d) ==
    /\ d \in docs /\ ~InUse(d)
    /\ Cardinality({r \in ids[d] : r.primary}) = 1
    /\ \A c \in cited : c[1] # d

(* cleanup_unreferenced_documents --apply: one immediate transaction       *)
Cleanup ==
    LET gone == {d \in docs : Residue(d)} IN
    /\ gone # {} /\ Alone
    /\ docs' = docs \ gone
    /\ ids' = [d \in Documents |-> IF d \in gone THEN {} ELSE ids[d]]
    /\ UNCHANGED <<cited, bound, reviews, described, migrated, text, graph>>

(* A binding that reprocessing takes for a false one                       *)
Incompatible(m, d) ==
    IF Page[m].family # "normative" THEN d.act \in Generic
    ELSE \/ d.act # Page[m].act \/ ids[d] = {}
         \/ \E k \in MainKeys(ids[d]) : k.issuer # NoIssuer \/ k.act # Page[m].act

ReadLink(m) == bound[m] # NoDoc /\ ReadBinding("reprocess", m)

(* ON DELETE SET NULL of the targets that are deleted                      *)
Forget(gone) ==
    [x \in Mentions |-> IF resolved[x].article \in gone
                        THEN [resolved[x] EXCEPT !.article = NoDoc] ELSE resolved[x]]

(* reprocess_document_identities --apply for one page: a false binding is  *)
(* undone together with what was derived from it                           *)
ReprocessPage(record) ==
    LET m == record.page
        d == record.existing
        a == AssessGeneric(Page[m])
        own == {r \in traced : Mention[r.mention].page = m}
        left == {o \in observed : o[1] # m}
        gone == {p \in articles : p.document = d /\ \A o \in left : o[2] # p}
    IN /\ Read(record, "reprocess") /\ Finish(record)
       /\ IF Incompatible(m, d)
          THEN /\ IF a.accepted THEN UNCHANGED reviews ELSE OpenReview(m, a.reason)
               /\ bound' = [bound EXCEPT ![m] = NoDoc]
               /\ cited' = {c \in cited : c[1] # d \/ c[3] # m}
               /\ relationships' = relationships \ own /\ traced' = traced \ own
               /\ observed' = left /\ articles' = articles \ gone
               /\ resolved' = Forget(gone)
               /\ happened' = happened \ {<<d, m>>}
               /\ UNCHANGED <<docs, ids, described, migrated, disputed, doubts>>
          ELSE UNCHANGED <<identity, text, graph>>

(***************************************************************************)
(* migrate_issuer_identities: documents registered under a key without     *)
(* issuer are split by issuer, or given the key of the only one.           *)
(***************************************************************************)
NewHome(m) == CanonicalKey(AssessGeneric(Page[m]).signal)

Movable ==
    {m \in Manifestations : /\ bound[m] # NoDoc /\ AssessGeneric(Page[m]).accepted
                            /\ Page[m].act \in Scoped
                            /\ NewHome(m) # bound[m] /\ ids[bound[m]] # {}}

LegacyDocuments == {bound[m] : m \in Movable}
Movers(d) == Linked(d) \cap Movable
Homes(d) == {NewHome(m) : m \in Movers(d)}
Authorities(d) == {Page[m].issuer : m \in Movers(d)}

(* A plan with one of these is refused as a whole                          *)
Unclear(d) ==
    \/ Movers(d) # Linked(d)
    \/ Cardinality(Authorities(d)) = 1 /\ Cardinality(Homes(d)) > 1
    \/ Cardinality(Authorities(d)) > 1
         /\ \E o \in observed : o[2].document = d /\ o[1] \notin Movers(d)

Split == {d \in LegacyDocuments : Cardinality(Authorities(d)) > 1}

Unqualified(d) == \E k \in MainKeys(ids[d]) : k.issuer = NoIssuer

PlanMigration ==
    LET single == {d \in LegacyDocuments \ Split : Unqualified(d)}
        moving == {m \in Movable : bound[m] \in Split}
    IN /\ \A d \in LegacyDocuments : ~Unclear(d)
       /\ Split \cup single # {}
       /\ Cardinality({r \in pending : r.tool = "migrate"}) < MaxPlans
       /\ Begin([tool |-> "migrate", page |-> NoDoc, existing |-> NoDoc,
                 moves |-> {[page |-> m, from |-> bound[m]] : m \in moving},
                 single |-> {[document |-> d, to |-> CHOOSE k \in Homes(d) : TRUE] : d \in single}])
       /\ UNCHANGED <<identity, text, graph>>

Parting(record) == {v.from : v \in record.moves}

(* Pages of the plan that leave document d                                 *)
Leaving(record, d) == {v.page : v \in {v \in record.moves : v.from = d}}

OldArticles(record) == {p \in articles : p.document \in Parting(record)}

Ending(record) ==
    {r \in relationships : \/ {r.from, r.to} \cap OldArticles(record) # {}
                       \/ r.from \in {Article(d, "none") : d \in Parting(record)}}

Unresolving(record) ==
    {x \in Mentions : \/ resolved[x].document \in Parting(record)
                      \/ resolved[x].article \in OldArticles(record)}

(* What makes the transaction fail and roll back: a document of the plan   *)
(* that is gone, an observation or an event of a page that is not moved, a *)
(* resolution some remaining relationship comes from, and a document that  *)
(* an earlier migration recorded as its result.                            *)
Applicable(record) ==
    LET old == Parting(record) IN
    /\ old \cup {s.document : s \in record.single} \subseteq docs
    /\ \A o \in observed : o[2].document \in old => o[1] \in Leaving(record, o[2].document)
    /\ \A e \in happened : e[1] \in old => e[2] \in Leaving(record, e[1])
    /\ \A r \in traced \ Ending(record) : r.mention \notin Unresolving(record)
    /\ old \cap migrated = {}

Moved(record, d, m) == IF d \in Parting(record) THEN NewHome(m) ELSE d

Qualify(rows, to) ==
    {[key |-> r.key, issuer |-> to.issuer, primary |-> FALSE] : r \in {r \in rows : r.key # to}}
      \cup {[key |-> to, issuer |-> to.issuer, primary |-> TRUE]}

(* Rows of the new and of the given-a-key documents; the split ones vanish *)
Renamed(record, d) ==
    LET arriving == {v.page : v \in {v \in record.moves : NewHome(v.page) = d}}
        given == {s \in record.single : s.document = d}
    IN IF d \in Parting(record) THEN {}
       ELSE IF arriving # {}
       THEN Upsert(ids[d], AssessGeneric(Page[CHOOSE m \in arriving : TRUE]).signal)
       ELSE IF given # {} THEN Qualify(ids[d], (CHOOSE s \in given : TRUE).to)
       ELSE ids[d]

(* Evidence that moves with its page speaks for the keys of its new home   *)
Reissued(c) ==
    {<<NewHome(c[3]), k, c[3]>> : k \in CanonicalKeys(AssessGeneric(Page[c[3]]).signal)}

CitedAfter(record) ==
    LET kept == {c \in cited : c[1] \notin Parting(record)}
        moved == {c \in cited : c[1] \in Parting(record) /\ c[3] \in Leaving(record, c[1])}
        given == {c \in cited : \E s \in record.single : s.document = c[1]}
    IN kept
         \cup (UNION {Reissued(c) : c \in moved})
         \cup {<<c[1], (CHOOSE s \in record.single : s.document = c[1]).to, c[3]>> : c \in given}

(* A faulty form: what was seen of the old articles is deleted with them   *)
DeletedText(record) ==
    /\ observed' = {o \in observed : o[2] \notin OldArticles(record)}
    /\ articles' = (articles \ OldArticles(record))
         \cup {Article(NewHome(o[1]), o[2].designation) :
                  o \in {o \in observed : o[2] \in OldArticles(record)}}
    /\ happened' = {<<Moved(record, e[1], e[2]), e[2]>> : e \in happened}
    /\ disputed' = {x \in disputed : x[1] \notin Parting(record)}

MovedText(record) ==
    /\ observed' = {<<o[1], Article(Moved(record, o[2].document, o[1]), o[2].designation)>> :
                        o \in observed}
    /\ articles' = (articles \ OldArticles(record))
         \cup {Article(NewHome(o[1]), o[2].designation) :
                  o \in {o \in observed : o[2] \in OldArticles(record)}}
    /\ happened' = {<<Moved(record, e[1], e[2]), e[2]>> : e \in happened}
    /\ disputed' = {<<Moved(record, x[1], x[2]), x[2]>> :
                       x \in {x \in disputed : x[1] \in Parting(record)
                                               => x[2] \in Leaving(record, x[1])}}

ApplyMigration(record) ==
    LET old == Parting(record)
        new == {NewHome(v.page) : v \in record.moves}
    IN /\ Read(record, "migrate") /\ Finish(record)
       /\ IF Applicable(record)
          THEN /\ docs' = (docs \ old) \cup new
               /\ ids' = [d \in Documents |-> Renamed(record, d)]
               /\ cited' = CitedAfter(record)
               /\ bound' = [m \in Manifestations |->
                              IF \E v \in record.moves : v.page = m THEN NewHome(m)
                              ELSE IF bound[m] \in old THEN NoDoc ELSE bound[m]]
               /\ described' = described \ old
               /\ migrated' = migrated \cup new \cup {s.document : s \in record.single}
               /\ MovedText(record)
               /\ relationships' = relationships \ Ending(record)
               /\ traced' = traced \ Ending(record)
               /\ resolved' = [x \in Mentions |-> IF x \in Unresolving(record) THEN NoTarget
                                                   ELSE resolved[x]]
               /\ UNCHANGED <<reviews, doubts>>
          ELSE UNCHANGED <<identity, text, graph>>

(***************************************************************************)
(* A database starts empty, or with what registrars that did not know      *)
(* issuers left: pages bound by keys without one.                          *)
(***************************************************************************)
Registered(old) ==
    LET held == {d \in Documents : \E m \in DOMAIN old : old[m] = d}
        own == UNION {{<<m, Article(old[m], n)>> : n \in Page[m].articles} :
                         m \in {m \in DOMAIN old : old[m] # NoDoc /\ old[m].act = Page[m].act}}
    IN /\ bound = old /\ docs = held
       /\ ids = [d \in Documents |->
                    IF d \in held THEN {[key |-> d, issuer |-> NoIssuer, primary |-> TRUE]} ELSE {}]
       /\ observed = own /\ articles = {o[2] : o \in own}
       /\ cited = {} /\ reviews = {} /\ disputed = {} /\ happened = {} /\ described = {}
       /\ migrated = {} /\ doubts = {} /\ relationships = {} /\ traced = {}
       /\ resolved = [x \in Mentions |-> NoTarget]
       /\ pending = {} /\ runs = 0

StartRun(m) ==
    \/ ReadBinding("identity", m)
    \/ ~IsFamily(Page[m]) /\ ReadBinding("simple", m)
    \/ Page[m].compiled # {} /\ Page[m].heading # NoAct /\ ReadBinding("compiled", m)
    \/ DetectConflicts(m) \/ DateDocument(m) \/ ReadFirst(m) \/ ReadLink(m)
    \/ \E p \in {"canonical", "operational", "editorial"} : ReadRelations(p, m)

EndRun(record) ==
    \/ RegisterIdentity(record) \/ DescribeDoctrine(record)
    \/ AssessSimple(record) \/ RegisterSimple(record) \/ RegisterCompiled(record)
    \/ Resolve(record) \/ PromoteRelations(record) \/ ReprocessPage(record) \/ ApplyMigration(record)

CorpusNext ==
    \/ \E m \in Manifestations : StartRun(m)
    \/ \E record \in pending : EndRun(record)
    \/ Cleanup \/ PlanMigration

CorpusInit == \E old \in Bindings : Registered(old)

CorpusSpec == CorpusInit /\ [][CorpusNext]_corpus

(***************************************************************************)
(* Properties                                                              *)
(***************************************************************************)
(* Whatever the order of registrars, migrations and reprocessing, and the  *)
(* bindings they find, every key of a document names one act: a page is    *)
(* never registered under the document of another act, and a document      *)
(* never answers to two.                                                   *)
ActsApart ==
    /\ \A d \in Documents : \A i \in ids[d] : i.key.act = d.act
    /\ \A c \in cited : c[1] \in docs => c[1].act = c[2].act /\ Page[c[3]].act = c[2].act

(* A reference that names an authority is only ever resolved to a document *)
(* that carries the cited key as that authority's, also after the document *)
(* was registered again, given a qualified key, split or cleaned up.       *)
NamedIssuerIsTarget ==
    \A x \in Mentions :
       resolved[x].document # NoDoc =>
          \E i \in ids[resolved[x].document] :
             /\ i.key = KeyOf(NoIssuer, Mention[x].act)
             /\ Mention[x].issuer \in {NoIssuer, i.issuer}

Migrating == \E record \in pending : ApplyMigration(record)

(* What was seen of the text                                               *)
Seen == {<<o[1], o[2].designation>> : o \in observed}

(* A migration, whatever ran between its plan and its transaction, keeps   *)
(* every page bound that was bound, and keeps of every page the articles   *)
(* that were seen in it, now under the document the page is bound to.      *)
SplitLosesNothing ==
    [][Migrating =>
         /\ \A m \in Manifestations : bound[m] # NoDoc => bound'[m] # NoDoc
         /\ Seen' = Seen
         /\ \A o \in observed : o[2].document = bound[o[1]] =>
               Article(bound'[o[1]], o[2].designation) \in articles']_corpus

(* Relationships that start or end at something that is not there, and     *)
(* resolutions to a document or article that is not there                  *)
Dangling ==
    {r \in relationships : \/ r.to \notin articles
                       \/ IF r.from.designation = "none" THEN r.from.document \notin docs
                          ELSE r.from \notin articles}
      \cup {x \in Mentions : \/ resolved[x].document \notin docs \cup {NoDoc}
                             \/ resolved[x].article \notin articles \cup {NoDoc}}

(* Neither the cleanup of unreferenced documents nor a migration leaves a  *)
(* relationship or a resolution that points to nothing: no foreign key     *)
(* guards the ends of a relationship.                                      *)
MaintenanceKeepsGraph ==
    [][Cleanup \/ Migrating => Dangling' \subseteq Dangling]_corpus

(* Every relationship can be traced to the mention and the resolution it   *)
(* was promoted from.                                                      *)
RelationshipsHaveProvenance == relationships \subseteq traced
===============================================================================
