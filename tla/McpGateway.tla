---------------------------- MODULE McpGateway ----------------------------
(***************************************************************************)
(* The MCP gateway over the CASE REST service: the configuration it        *)
(* accepts, one POST per research, the checks on what comes back, the      *)
(* bounded store of bundles that later tools read by handle, and the views *)
(* those tools project out of a bundle.                                    *)
(*                                                                         *)
(* The MCP library (external) runs each tool call in a thread of its own,  *)
(* and BundleStore has no lock: put and get are modelled one operation of  *)
(* the OrderedDict at a time.  The REST service is external too: it may    *)
(* answer, refuse, be late or away, drop the connection, or send an answer *)
(* with any one defect the gateway looks for.                              *)
(***************************************************************************)
EXTENDS Integers, FiniteSets, Sequences, SequencesExt

CONSTANTS
    Caller,          \* tool calls that can be under way at a time
    Problem,         \* self-contained problem texts
    Binding,         \* the supported contract versions
    Unsupported,     \* a version that is not one of them
    Linked,          \* the versions whose bundles carry research links (v5)
    Capacity,        \* cache_entries
    MaxRestarts      \* bound of the instance

ASSUME GatewayAssumption ==
    /\ Capacity \in Nat \ {0} /\ MaxRestarts \in Nat
    /\ Unsupported \notin Binding /\ Linked \subseteq Binding
    /\ {"empty", "huge", "altered"} \cap Problem = {}

VARIABLES
    config, phase,   \* the environment at start-up; down, serving or refused
    shelf,           \* what the REST service has found: the bundle of each edition
    edition,         \* the edition its answers are now made from
    entries,         \* BundleStore._entries: <<handle, bundle>>, oldest first
    step, arg, got,  \* per caller: where it is, what was asked, what was read
    said,          \* per caller: the last result or error
    used,            \* handles by their last use (history)
    left, restarts   \* calls and restarts still to come

gateway == <<config, phase, shelf, edition, entries, step, arg, got, said, used, left, restarts>>

-----------------------------------------------------------------------------
(* Configuration: the transport, and the fields whose value is refused.    *)

Limits == {"base_url", "timeout_seconds", "bytes", "cache_entries"}
Listening == {"host", "port", "path"}

\* GatewayConfig, and what main checks before it listens: over stdio it does not.
Accepted(c) ==
    /\ c.bad \cap Limits = {}
    /\ \/ c.transport = "stdio"
       \/ c.transport = "streamable-http" /\ c.bad \cap Listening = {}

Start ==
    /\ phase = "down"
    /\ phase' = IF Accepted(config) THEN "serving" ELSE "refused"
    /\ UNCHANGED <<config, shelf, edition, entries, step, arg, got, said, used, left, restarts>>

-----------------------------------------------------------------------------
(* Answers of the REST service, and what the gateway makes of them.        *)

Error(code, again) == [ok |-> FALSE, code |-> code, retryable |-> again]
NoAnswer == Error("none", FALSE)
Broken == Error("exception", FALSE)      \* an exception that is not a GatewayError

Envelope(version, problem, n) == [version |-> version, problem |-> problem, edition |-> n]

\* The answer a correct service gives to request r.
Honest(r) ==
    [status |-> 200, type |-> "json", text |-> "object", shape |-> "closed",
     api |-> r.version, raw |-> r, closed |-> TRUE, contract |-> r.version,
     state |-> "complete", lists |-> TRUE, input |-> r, sha |-> r, edition |-> edition]

Elsewhere(r) == [r EXCEPT !.version = CHOOSE v \in Binding : v # r.version \/ Cardinality(Binding) = 1]

\* One defect at a time: another request's answer, another version, another shape.
Defective(r) == LET h == Honest(r) IN
    {[h EXCEPT !.status = 204], [h EXCEPT !.type = "html"], [h EXCEPT !.text = "garbage"],
     [h EXCEPT !.shape = "open"], [h EXCEPT !.api = Elsewhere(r).version],
     [h EXCEPT !.raw = Elsewhere(r)], [h EXCEPT !.closed = FALSE],
     [h EXCEPT !.contract = Elsewhere(r).version], [h EXCEPT !.state = "draft"],
     [h EXCEPT !.lists = FALSE], [h EXCEPT !.sha = Elsewhere(r)],
     [h EXCEPT !.input = [r EXCEPT !.problem = "altered"]]}
    \cup (IF Linked = {} THEN {} ELSE
          {[Honest(Elsewhere(r)) EXCEPT !.raw = r], Honest(Elsewhere(r))})

Shape(a) == a.status = 200 /\ a.type = "json" /\ a.text = "object"

\* Mutant: the fingerprints stand for the input.
FingerprintsOnly(a, r) ==
    /\ a.shape = "closed" /\ a.api = r.version /\ a.raw = r
    /\ a.closed /\ a.contract = r.version
    /\ a.state \in {"complete", "partial", "blocked"} /\ a.lists
    /\ a.sha = r

\* _validate_success_envelope, for the request that was sent.
ValidSuccess(a, r) ==
    /\ a.shape = "closed" /\ a.api = r.version
    /\ a.raw = r
    /\ a.closed /\ a.contract = r.version
    /\ a.state \in {"complete", "partial", "blocked"} /\ a.lists
    /\ a.input = r /\ a.sha = r

\* Errors over HTTP: text and envelope in order, a code of the service's registry
\* or another, and the retryable flag the service sent.
Errors(r) ==
    [text : {"object", "garbage"}, shape : {"closed"}, api : {r.version}, raw : {r},
     code : {"registered", "unavailable", "unknown"}, retryable : BOOLEAN]
    \cup [text : {"object"}, shape : {"closed", "open"}, api : Binding, raw : {r, Elsewhere(r)},
          code : {"unknown"}, retryable : {TRUE}]

\* _validate_error_envelope
ValidError(e, r) == e.text = "object" /\ e.shape = "closed" /\ e.api = r.version /\ e.raw = r

\* _map_http_error: a registered code brings its own flag, another keeps the one sent.
Mapped(e, r) ==
    IF ~ValidError(e, r) THEN Error("contract", FALSE)
    ELSE IF e.code = "registered" THEN Error("upstream", FALSE)
    ELSE IF e.code = "unavailable" THEN Error("unavailable", TRUE)
    ELSE Error("unrecognized", e.retryable)

-----------------------------------------------------------------------------
(* BundleStore.                                                            *)

\* The handle hashes the API version, the fingerprint of the input and the ref.
HandleFor(e) == e
Handles == {entries[i][1] : i \in 1..Len(entries)}
Slot(h) == CHOOSE i \in 1..Len(entries) : entries[i][1] = h
Value(h) == entries[Slot(h)][2]

\* Mutant: a handle that is read stays where it is in the order of eviction.
MovedNowhere(h) == entries
Moved(h) == Append(RemoveAt(entries, Slot(h)), entries[Slot(h)])

Use(h) ==
    used' = Append(IF \E i \in DOMAIN used : used[i] = h
                   THEN RemoveAt(used, CHOOSE i \in DOMAIN used : used[i] = h) ELSE used, h)

GoTo(c, next) == step' = [step EXCEPT ![c] = next]
Finish(c, result) ==
    /\ GoTo(c, "idle")
    /\ said' = [said EXCEPT ![c] = result]
    /\ got' = [got EXCEPT ![c] = NoAnswer]

-----------------------------------------------------------------------------
(* Views: what each tool makes of a bundle b.                              *)

\* _find_by_ref
Unique(items, r) == Cardinality({i \in items : i.ref = r}) = 1
ByRefs(items, refs) == {i \in items : i.ref \in refs}
Refs(items) == {i.ref : i \in items}

\* _v5_research_links: joins over the references that are in the bundle, from a
\* set of authorities and a set of evidence spans.
Selections(b, as, es) == {s \in b.selections : s.authority \in as \/ s.evidence \cap es # {}}
Coverages(b, sel) ==
    {v \in b.coverage : v.aspect \in {s.aspect : s \in sel} \/ v.selections \cap Refs(sel) # {}}
LinkedAspects(sel, cov) == {s.aspect : s \in sel} \cup {v.aspect : v \in cov}

\* Mutant: only the tasks that selected something are shown.
TasksOfSelections(b, sel, cov) == ByRefs(b.tasks, {s.task : s \in sel})
LinkedTasks(b, sel, cov) ==
    {t \in b.tasks : \/ t.ref \in {s.task : s \in sel} \cup (UNION {v.tasks : v \in cov})
                     \/ t.aspect \in LinkedAspects(sel, cov)}
Omissions(b, sel, cov) ==
    {o \in b.omissions : \/ o.ref \in UNION {v.omissions : v \in cov}
                         \/ o.aspect \in LinkedAspects(sel, cov)}

Links(b, as, es) ==
    LET sel == Selections(b, as, es)
        cov == Coverages(b, sel)
        aspects == ByRefs(b.aspects, LinkedAspects(sel, cov))
        tasks == LinkedTasks(b, sel, cov)
        omitted == Omissions(b, sel, cov)
        questions == {a.question : a \in aspects}
        \* task_refs and omission_refs as they stand, and not the tasks that were joined
        named == as \cup es \cup questions \cup LinkedAspects(sel, cov)
                 \cup {s.task : s \in sel} \cup (UNION {v.tasks : v \in cov})
                 \cup Refs(sel) \cup Refs(cov)
                 \cup Refs(omitted) \cup (UNION {v.omissions : v \in cov})
    IN [questions |-> b.questions \cap questions, aspects |-> aspects, tasks |-> tasks,
        selections |-> sel, coverage |-> cov, omissions |-> omitted,
        unresolved |-> {u \in b.unresolved : \/ u.ref \in UNION {v.unresolved : v \in cov}
                                             \/ u.related \cap named # {}}]

NoLinks == [questions |-> {}, aspects |-> {}, tasks |-> {}, selections |-> {},
            coverage |-> {}, omissions |-> {}, unresolved |-> {}]

View(h, about, items, links) ==
    [ok |-> TRUE, handle |-> h, about |-> about, items |-> items, links |-> links]

LinksOf(h, as, es) == IF h.version \in Linked THEN Links(shelf[h.edition], as, es) ELSE NoLinks

\* research_case and get_case_research: the bundle itself; in v5 with the coverage
\* projection, which shows every question, aspect, task, selection, coverage,
\* omission and unresolved item.
WholeCase(h) ==
    LET b == shelf[h.edition] IN
    View(h, "case", Refs(b.authorities),
         IF h.version \in Linked
         THEN [questions |-> b.questions, aspects |-> b.aspects, tasks |-> b.tasks,
               selections |-> b.selections, coverage |-> b.coverage,
               omissions |-> b.omissions, unresolved |-> b.unresolved]
         ELSE NoLinks)

GetAuthority(h, r) ==
    LET b == shelf[h.edition]
        spans == UNION {a.evidence : a \in ByRefs(b.authorities, {r})}
    IN IF ~Unique(b.authorities, r) THEN Error("authority", FALSE)
       ELSE View(h, r, Refs(ByRefs(b.spans, spans)), LinksOf(h, {r}, spans))

GetProvision(h, p) ==
    LET b == shelf[h.edition]
        holders == {a \in b.authorities : p \in a.provisions}
        spans == {e \in b.spans : e.provision = p}
    IN IF holders = {} /\ spans = {} THEN Error("provision", FALSE)
       ELSE View(h, p, Refs(holders) \cup Refs(spans), LinksOf(h, Refs(holders), Refs(spans)))

GetEvidence(h, r) ==
    LET b == shelf[h.edition] IN
    IF ~Unique(b.spans, r) THEN Error("evidence", FALSE)
    ELSE LET e == CHOOSE x \in b.spans : x.ref = r IN
         IF ~Unique(b.authorities, e.authority) THEN Error("authority", FALSE)
         ELSE IF e.source \notin b.sources THEN Error("source", FALSE)
         ELSE View(h, r, {r, e.authority, e.source}, LinksOf(h, {e.authority}, {r}))

\* Without an authority all of them; no links.
GetRelationships(h, r) ==
    View(h, r, {n \in shelf[h.edition].relationships : r \in {n.from, n.to}}, NoLinks)

GetCalculation(h, r) ==
    LET b == shelf[h.edition] IN
    IF ~Unique(b.traces, r) THEN Error("calculation", FALSE)
    ELSE View(h, r, UNION {t.evidence : t \in ByRefs(b.traces, {r})}, NoLinks)

Project(a, h) ==
    CASE a.tool = "get_case_research" -> WholeCase(h)
      [] a.tool = "get_authority" -> GetAuthority(h, a.ref)
      [] a.tool = "get_provision" -> GetProvision(h, a.ref)
      [] a.tool = "get_evidence" -> GetEvidence(h, a.ref)
      [] a.tool = "get_normative_relationships" -> GetRelationships(h, a.ref)
      [] a.tool = "get_calculation" -> GetCalculation(h, a.ref)

-----------------------------------------------------------------------------
(* The tools.                                                              *)

Called(c, tool, r) ==
    /\ phase = "serving" /\ step[c] = "idle" /\ left > 0
    /\ left' = left - 1
    /\ arg' = [arg EXCEPT ![c] = [tool |-> tool, ref |-> r]]

\* What is refused before anything is sent.
Refusal(r) ==
    CASE r.version \notin Binding -> "version"
      [] r.version \in Binding /\ r.problem = "empty" -> "invalid"
      [] r.version \in Binding /\ r.problem = "huge" -> "too_large"
      [] OTHER -> "none"

ResearchCase(c, r) ==
    /\ Called(c, "research_case", r)
    /\ IF Refusal(r) = "none"
       THEN GoTo(c, "sent") /\ said' = [said EXCEPT ![c] = NoAnswer] /\ UNCHANGED got
       ELSE Finish(c, Error(Refusal(r), FALSE))
    /\ UNCHANGED <<config, phase, shelf, edition, entries, used, restarts>>

Answered(c) ==
    /\ step[c] = "sent"
    /\ UNCHANGED <<config, phase, shelf, edition, entries, arg, used, left, restarts>>

\* A 2xx answer.
Success(c, a) ==
    /\ Answered(c)
    /\ IF Shape(a) /\ ValidSuccess(a, arg[c].ref)
       THEN /\ GoTo(c, "insert")
            /\ got' = [got EXCEPT ![c] = Envelope(a.contract, a.input.problem, a.edition)]
            /\ UNCHANGED said
       ELSE Finish(c, Error("contract", FALSE))

\* An HTTP error.
Failure(c, e) == Answered(c) /\ Finish(c, Mapped(e, arg[c].ref))

\* Too late; not reachable; a body over the limit.
Transport(c) ==
    /\ Answered(c)
    /\ \E result \in {Error("timeout", TRUE), Error("unreachable", TRUE), Error("too_large", FALSE)} :
          Finish(c, result)

\* The service closes the connection without an answer, or in the middle of one:
\* neither exception is a TimeoutError or a URLError, and it leaves the client.
Dropped(c) == Answered(c) /\ Finish(c, Broken)

\* put: an entry that is there is overwritten where it is.
Put(c) ==
    /\ step[c] = "insert"
    /\ LET h == HandleFor(got[c]) IN
       /\ entries' = IF h \in Handles THEN [entries EXCEPT ![Slot(h)] = <<h, got[c]>>]
                     ELSE Append(entries, <<h, got[c]>>)
       /\ IF h \in Handles THEN UNCHANGED used ELSE Use(h)
    /\ GoTo(c, "touch")
    /\ UNCHANGED <<config, phase, shelf, edition, arg, got, said, left, restarts>>

\* move_to_end, of put and of get: a KeyError when the entry was evicted meanwhile.
Touch(c) ==
    /\ step[c] \in {"touch", "read"}
    /\ LET h == HandleFor(got[c]) IN
       IF h \notin Handles
       THEN Finish(c, Broken) /\ UNCHANGED <<entries, used>>
       ELSE /\ entries' = Moved(h) /\ Use(h)
            /\ IF step[c] = "touch" THEN GoTo(c, "trim") /\ UNCHANGED <<got, said>>
               ELSE Finish(c, Project(arg[c].ref, got[c]))
    /\ UNCHANGED <<config, phase, shelf, edition, arg, left, restarts>>

\* `while len(self._entries) > self.capacity`: the test, and then the pop.
Trim(c) ==
    /\ step[c] = "trim"
    /\ IF Len(entries) > Capacity
       THEN GoTo(c, "pop") /\ UNCHANGED <<got, said>>
       ELSE Finish(c, WholeCase(got[c]))
    /\ UNCHANGED <<config, phase, shelf, edition, entries, arg, used, left, restarts>>

Pop(c) ==
    /\ step[c] = "pop"
    /\ IF entries = <<>>
       THEN Finish(c, Broken) /\ UNCHANGED entries
       ELSE entries' = Tail(entries) /\ GoTo(c, "trim") /\ UNCHANGED <<got, said>>
    /\ UNCHANGED <<config, phase, shelf, edition, arg, used, left, restarts>>

\* A tool that reads by handle: get, up to the copy of the entry.
Read(c, tool, h, r) ==
    /\ Called(c, "read", [tool |-> tool, handle |-> h, ref |-> r])
    /\ IF h \in Handles
       THEN /\ got' = [got EXCEPT ![c] = Value(h)]
            /\ said' = [said EXCEPT ![c] = NoAnswer] /\ GoTo(c, "read")
       ELSE Finish(c, Error("bundle", FALSE))
    /\ UNCHANGED <<config, phase, shelf, edition, entries, used, restarts>>

\* The service finds something else from now on.
NewEdition ==
    /\ phase = "serving" /\ edition + 1 \in DOMAIN shelf
    /\ edition' = edition + 1
    /\ UNCHANGED <<config, phase, shelf, entries, step, arg, got, said, used, left, restarts>>

\* The process ends and is started again: nothing of the store is kept.
Restart ==
    /\ phase = "serving" /\ restarts < MaxRestarts
    /\ restarts' = restarts + 1
    /\ entries' = <<>> /\ used' = <<>>
    /\ step' = [c \in Caller |-> "idle"]
    /\ got' = [c \in Caller |-> NoAnswer] /\ said' = [c \in Caller |-> NoAnswer]
    /\ UNCHANGED <<config, phase, shelf, edition, arg, left>>

NoArg == [tool |-> "none", ref |-> [version |-> Unsupported, problem |-> "empty"]]

\* What the service validates before it answers with a bundle: its references
\* lead to items of their own kind, and those of a coverage stay in its aspect.
Contract(b) ==
    /\ \A a \in b.aspects : a.question \in b.questions
    /\ \A s \in b.selections : s.aspect \in Refs(b.aspects) /\ s.task \in Refs(b.tasks)
    /\ \A v \in b.coverage :
          /\ v.aspect \in Refs(b.aspects) /\ v.tasks \subseteq Refs(b.tasks)
          /\ v.omissions \subseteq Refs(b.omissions) /\ v.unresolved \subseteq Refs(b.unresolved)
          /\ \A s \in b.selections : s.ref \in v.selections => s.aspect = v.aspect

\* A gateway whose environment is c, over a service that finds the bundles s.
GatewayInit(c, s, calls) ==
    /\ 0 \in DOMAIN s /\ \A n \in DOMAIN s : Contract(s[n])
    /\ config = c /\ phase = "down" /\ shelf = s /\ edition = 0
    /\ entries = <<>> /\ used = <<>>
    /\ step = [x \in Caller |-> "idle"] /\ arg = [x \in Caller |-> NoArg]
    /\ got = [x \in Caller |-> NoAnswer] /\ said = [x \in Caller |-> NoAnswer]
    /\ left = calls /\ restarts = 0

Question ==
    [version : Binding, problem : Problem] \cup [version : {Unsupported}, problem : Problem]
    \cup [version : Linked, problem : {"empty", "huge"}]

\* Handles a client can ask for, those it was given among them.
Known == {Envelope(v, p, n) : v \in Binding, p \in Problem, n \in 0..edition}

\* Every reference of the bundle and, where it has any authority, one that it has not.
Tools(h) == LET b == shelf[h.edition] IN
    {<<"get_case_research", "none">>}
    \cup {<<t, "absent">> : t \in IF b.authorities = {} THEN {} ELSE
            {"get_authority", "get_evidence", "get_provision", "get_calculation"}}
    \cup {<<t, r>> : t \in {"get_authority", "get_normative_relationships"}, r \in Refs(b.authorities)}
    \cup {<<"get_evidence", r>> : r \in Refs(b.spans)}
    \cup {<<"get_provision", e.provision>> : e \in b.spans}
    \cup {<<"get_calculation", r>> : r \in Refs(b.traces)}

Going(c) ==
    \/ step[c] = "sent" /\ Success(c, Honest(arg[c].ref))
    \/ step[c] = "sent" /\ \E a \in Defective(arg[c].ref) : Success(c, a)
    \/ step[c] = "sent" /\ \E e \in Errors(arg[c].ref) : Failure(c, e)
    \/ Transport(c) \/ Dropped(c)
    \/ Put(c) \/ Touch(c) \/ Trim(c) \/ Pop(c)

GatewayNext ==
    \/ Start \/ NewEdition \/ Restart
    \/ \E c \in Caller :
          \/ \E r \in Question : ResearchCase(c, r)
          \/ \E h \in Known : \E t \in Tools(h) : Read(c, t[1], h, t[2])
          \/ Going(c)

GatewaySpec(c, s, calls) == GatewayInit(c, s, calls) /\ [][GatewayNext]_gateway

-----------------------------------------------------------------------------
(* Properties.                                                             *)

\* Whatever the service sends and however calls interleave, what a tool returns is
\* about what it was asked: research_case answers with a bundle of the version and
\* the problem that were sent, a reading tool with the bundle of its handle.
AnswersAreTheirs ==
    \A c \in Caller : said[c].ok =>
       IF arg[c].tool = "research_case"
       THEN /\ said[c].handle.version = arg[c].ref.version
            /\ said[c].handle.problem = arg[c].ref.problem
       ELSE said[c].handle = arg[c].ref.handle

Later(h) == {g \in Handles : \E i, j \in 1..Len(used) : i < j /\ used[i] = h /\ used[j] = g}

\* However puts and gets interleave, the entry that is evicted is the one that was
\* stored or read least recently.
OldestIsEvicted ==
    [][\A h \in Handles :
          restarts' = restarts /\ h \notin {entries'[i][1] : i \in 1..Len(entries')} =>
             Later(h) = Handles \ {h}]_gateway

\* The links of result x, if it has any, lead from each of its items to the others.
ClosedLinks(x) == LET n == x.links IN
    /\ \A s \in n.selections : s.aspect \in Refs(n.aspects) /\ s.task \in Refs(n.tasks)
    /\ \A a \in n.aspects :
          /\ a.question \in n.questions
          /\ x.about # "case" => \E s \in n.selections : s.aspect = a.ref
          /\ \A v \in shelf[x.handle.edition].coverage : v.aspect = a.ref => v \in n.coverage
    /\ \A v \in n.coverage :
          /\ v.tasks \subseteq Refs(n.tasks) /\ v.omissions \subseteq Refs(n.omissions)
          /\ v.unresolved \subseteq Refs(n.unresolved)

\* The links of a view are closed: a selection comes with its aspect and its task,
\* an aspect with its question, its coverage and its omissions, a coverage with
\* its tasks and the unresolved items it names; and no aspect comes from nowhere.
LinksAreClosed == \A c \in Caller : said[c].ok => ClosedLinks(said[c])
=============================================================================
