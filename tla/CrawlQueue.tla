----------------------------- MODULE CrawlQueue -----------------------------
(***************************************************************************)
(* The DIAN Normograma crawl queue: the table dian_crawl_queue, the        *)
(* discovery edges, and the processes that share them through SQLite       *)
(* (tools/crawl_dian_normograma.py and the operator's repair tool          *)
(* tools/reclassify_crawl_queue.py).                                       *)
(*                                                                         *)
(* Every `with con:` block of the code is one transaction and one step     *)
(* here; between two of them any other process may run, and a crawler may  *)
(* die.  Timestamps are kept relative to the present: `wait` is the time   *)
(* left until next_attempt_at, `age` the time since last_attempt_at of a   *)
(* running row.                                                            *)
(***************************************************************************)
EXTENDS Naturals

CONSTANTS
    Crawler,          \* crawler processes
    Url, NoUrl,       \* canonical URLs, and the NULL of discovered_from
    DocRoute,         \* URLs under /dian/compilacion/docs/
    LegalSource,      \* document URLs of a known legal source family
    TaxIndex,         \* index pages index_allowed_for_scope admits to "tributario"
    Seeds,            \* scope -> seed URLs
    Versions,         \* URL -> the link sets its page may carry over time
    Legacy,           \* rows an earlier release left behind as index/done
    StartScopes,      \* the --scope arguments crawlers are started with
    Continuous,       \* --continuous: an idle crawler sleeps instead of exiting
    Limited,          \* --max-items: a run may end after any processed item
    Faults,           \* what may go wrong in this instance
    MaxDepth, StaleTicks, BaseBackoff, MaxBackoff,
    IndexRefresh, DocumentRefresh,
    AttemptCap        \* attempts saturate here; past 8 the code's delay stops growing

Scope  == {"all", "tributario"}
Class  == {"unclassified", "confirmed_index", "legal_document",
           "legal_extraction_failure", "ambiguous"}
Status == {"absent", "pending", "running", "done", "error"}
FaultKinds == {"error", "crash", "interrupt", "binary", "heading"}

MaxWait == MaxBackoff + IndexRefresh + DocumentRefresh

ASSUME QueueAssumption ==
    /\ NoUrl \notin Url
    /\ LegalSource \subseteq DocRoute /\ DocRoute \subseteq Url
    /\ TaxIndex \subseteq Url \ DocRoute
    /\ Legacy \subseteq DocRoute
    /\ Seeds \in [Scope -> SUBSET (Url \ DocRoute)]
    /\ Versions \in [Url -> SUBSET SUBSET Url]
    /\ StartScopes \subseteq Scope
    /\ Faults \subseteq FaultKinds
    /\ Continuous \in BOOLEAN /\ Limited \in BOOLEAN
    /\ MaxDepth \in Nat /\ StaleTicks \in Nat
    /\ BaseBackoff \in Nat /\ MaxBackoff \in Nat
    /\ IndexRefresh \in Nat /\ DocumentRefresh \in Nat
    /\ AttemptCap \in Nat \ {0}

VARIABLES
    queue,    \* dian_crawl_queue: a row for every URL, "absent" when there is none
    edges,    \* dian_discovery_edges
    orphans,  \* history: running rows whose last claimant died
    pc, job,  \* control point and local variables of each crawler
    scope,    \* --scope of each crawler's current run
    doomed,   \* rows a starting crawler has decided to purge
    plan      \* the repair tool's plan, between its reading and its writing

vars == <<queue, edges, orphans, pc, job, scope, doomed, plan>>

Pages == {"index", "document"}

Row == [type : Pages, scope : Scope, depth : Nat,
        from : Url \cup {NoUrl}, status : Status, attempts : 0..AttemptCap,
        age : 0..(StaleTicks + 1), wait : 0..MaxWait, cls : Class, ext : BOOLEAN]

Job == [url : Url \cup {NoUrl}, type : Pages, depth : Nat,
        attempts : 0..AttemptCap, cls : Class \cup {"none"}, ext : BOOLEAN]

\* Points at which the crawler is inside the try block of main() ...
Guarded == {"working", "retype", "finish", "reported"}
\* ... and points at which it has claimed an item and not yet given it back.
Holding == {"working", "retype", "finish", "record", "failing"}
Control == {"off", "adopt", "purge", "drop", "seed", "loop", "selected"}
               \cup Guarded \cup Holding

NoJob == [url |-> NoUrl, type |-> "index", depth |-> 0, attempts |-> 0,
          cls |-> "none", ext |-> FALSE]

Smaller(m, n) == IF m <= n THEN m ELSE n

Present(u) == queue[u].status # "absent"

-----------------------------------------------------------------------------
(* Routing and enqueueing.                                                 *)

AllowedFor(u, s) == s = "all" \/ u \in TaxIndex

\* What classify_url makes of a link found while crawling in scope s.
Kind(u, s) ==
    IF u \in DocRoute THEN "document"
    ELSE IF AllowedFor(u, s) THEN "index" ELSE "none"

NewRow(t, s, d, p) ==
    [type |-> t, scope |-> s, depth |-> d, from |-> p, status |-> "pending",
     attempts |-> 0, age |-> 0, wait |-> 0, cls |-> "unclassified", ext |-> FALSE]

Absent == [NewRow("index", "all", 0, NoUrl) EXCEPT !.status = "absent"]

LegacyRow == [NewRow("index", "all", 0, NoUrl) EXCEPT !.status = "done"]

\* Mutant: the depth limit is off by one.
WantedShort(found, parent, s, depth, kinds) ==
    {v \in found \ {parent} :
        /\ Kind(v, s) \in kinds
        /\ Kind(v, s) = "index" => depth + 1 < MaxDepth}

\* The links of a page that discover_links enqueues: of both kinds, or of
\* documents only; documents have no depth limit.
Wanted(found, parent, s, depth, kinds) ==
    {v \in found \ {parent} :
        /\ Kind(v, s) \in kinds
        /\ Kind(v, s) = "index" => depth + 1 <= MaxDepth}

\* discover_links: one transaction; a URL already queued keeps its row.
Discover(c, found, kinds) ==
    LET parent == job[c].url
        new == Wanted(found, parent, scope[c], job[c].depth, kinds)
    IN  /\ queue' = [v \in Url |->
              IF v \in new /\ ~Present(v)
              THEN NewRow(Kind(v, scope[c]), scope[c], job[c].depth + 1, parent)
              ELSE queue[v]]
        /\ edges' = edges \cup {<<parent, v>> : v \in new}

\* UPDATE ... WHERE url = u: nothing happens when the row has been deleted.
Update(u, row) ==
    queue' = IF Present(u) THEN [queue EXCEPT ![u] = row] ELSE queue

TwoTo(n) == <<1, 2, 4, 8, 16, 32, 64, 128, 256>>[Smaller(n, 8) + 1]

Backoff(n) == Smaller(MaxBackoff, BaseBackoff * TwoTo(n))

\* The delay fail_item computes, from the attempts read by due_item.
Delay(c) == Backoff(job[c].attempts)

-----------------------------------------------------------------------------
(* Start-up: four transactions, in this order.                             *)

\* Mutant: the comparison with the threshold is the wrong way round.
Fresh(row) == row.status = "running" /\ row.age < StaleTicks

Stale(row) == row.status = "running" /\ row.age > StaleTicks

\* reset_stale_running, the first thing a run does with the queue.
Start(c, s) ==
    /\ pc[c] = "off"
    /\ queue' = [u \in Url |->
          IF Stale(queue[u])
          THEN [queue[u] EXCEPT !.status = "error", !.wait = 0, !.age = 0]
          ELSE queue[u]]
    /\ orphans' = {u \in orphans : ~Stale(queue[u])}
    /\ scope' = [scope EXCEPT ![c] = s]
    /\ pc' = [pc EXCEPT ![c] = IF s = "all" THEN "adopt" ELSE "purge"]
    /\ UNCHANGED <<edges, job, doomed, plan>>

\* adopt_existing_queue_for_all
Adopt(c) ==
    /\ pc[c] = "adopt"
    /\ queue' = [u \in Url |-> [queue[u] EXCEPT !.scope = "all"]]
    /\ pc' = [pc EXCEPT ![c] = "purge"]
    /\ UNCHANGED <<edges, orphans, job, scope, doomed, plan>>

OutOfScope(u, s) ==
    /\ Present(u) /\ queue[u].scope = s
    /\ \/ queue[u].type = "index" /\ ~AllowedFor(u, s)
       \/ /\ queue[u].type = "document" /\ queue[u].from # NoUrl
          /\ queue[u].from \notin DocRoute
          /\ ~AllowedFor(queue[u].from, s)

\* purge_out_of_scope_queue reads the queue before it opens its transaction ...
SelectDoomed(c) ==
    /\ pc[c] = "purge"
    /\ doomed' = [doomed EXCEPT ![c] = {u \in Url : OutOfScope(u, scope[c])}]
    /\ pc' = [pc EXCEPT ![c] = IF doomed'[c] = {} THEN "seed" ELSE "drop"]
    /\ UNCHANGED <<queue, edges, orphans, job, scope, plan>>

Touching(e, us) == e[1] \in us \/ e[2] \in us

\* ... and deletes rows whose scope still matches, and edges unconditionally.
DropDoomed(c) ==
    /\ pc[c] = "drop"
    /\ LET gone == {u \in doomed[c] : queue[u].scope = scope[c]}
       IN  /\ queue' = [u \in Url |-> IF u \in gone THEN Absent ELSE queue[u]]
           /\ orphans' = orphans \ gone
    /\ edges' = {e \in edges : ~Touching(e, doomed[c])}
    /\ doomed' = [doomed EXCEPT ![c] = {}]
    /\ pc' = [pc EXCEPT ![c] = "seed"]
    /\ UNCHANGED <<job, scope, plan>>

Seed(c) ==
    /\ pc[c] = "seed"
    /\ queue' = [u \in Url |->
          IF u \in Seeds[scope[c]] /\ ~Present(u)
          THEN NewRow("index", scope[c], 0, NoUrl) ELSE queue[u]]
    /\ pc' = [pc EXCEPT ![c] = "loop"]
    /\ UNCHANGED <<edges, orphans, job, scope, doomed, plan>>

-----------------------------------------------------------------------------
(* The main loop.                                                          *)

Due(u, s) ==
    /\ queue[u].scope = s
    /\ queue[u].status \in {"pending", "done", "error"}
    /\ queue[u].wait = 0

\* Mutant: ORDER BY leaves the depth out.
BeforeByType(u, v) == queue[u].type = "index" /\ queue[v].type = "document"

\* ORDER BY index first, then depth.  The later sort keys are timestamps.
Before(u, v) ==
    \/ queue[u].type = "index" /\ queue[v].type = "document"
    \/ queue[u].type = queue[v].type /\ queue[u].depth < queue[v].depth

\* due_item: the choice is remembered, not locked.
Select(c, u) ==
    /\ pc[c] = "loop"
    /\ Due(u, scope[c])
    /\ \A v \in Url : Due(v, scope[c]) => ~Before(v, u)
    /\ job' = [job EXCEPT ![c] =
          [url |-> u, type |-> queue[u].type, depth |-> queue[u].depth,
           attempts |-> queue[u].attempts, cls |-> "none", ext |-> FALSE]]
    /\ pc' = [pc EXCEPT ![c] = "selected"]
    /\ UNCHANGED <<queue, edges, orphans, scope, doomed, plan>>

\* claim_item looks at nothing but the URL.
Claim(c) ==
    /\ pc[c] = "selected"
    /\ LET u == job[c].url
       IN  /\ Update(u, [queue[u] EXCEPT !.status = "running", !.age = 0,
                             !.attempts = Smaller(AttemptCap, @ + 1)])
           /\ orphans' = orphans \ {u}
    /\ pc' = [pc EXCEPT ![c] = "working"]
    /\ UNCHANGED <<edges, job, scope, doomed, plan>>

\* An index page was fetched: its links are enqueued.  A page whose URL is not
\* an index route is finished without a classification.
IndexFetched(c, found) ==
    /\ pc[c] = "working" /\ job[c].type = "index"
    /\ Discover(c, found, Pages)
    /\ job' = [job EXCEPT ![c].cls =
          IF Kind(job[c].url, scope[c]) = "index" THEN "confirmed_index" ELSE "none"]
    /\ pc' = [pc EXCEPT ![c] = "finish"]
    /\ UNCHANGED <<orphans, scope, doomed, plan>>

\* A document extracted, registered and promoted.  Its document links are
\* enqueued last; an exception there is only a warning.
DocumentExtracted(c, found) ==
    /\ pc[c] = "working" /\ job[c].type = "document"
    /\ \/ Discover(c, found, {"document"})
       \/ "error" \in Faults /\ UNCHANGED <<queue, edges>>
    /\ job' = [job EXCEPT ![c] = [@ EXCEPT !.cls = "legal_document", !.ext = TRUE]]
    /\ pc' = [pc EXCEPT ![c] = "finish"]
    /\ UNCHANGED <<orphans, scope, doomed, plan>>

\* A body that is not HTML is archived and the item finished as it stands.
BinaryFetched(c) ==
    /\ "binary" \in Faults
    /\ pc[c] = "working" /\ job[c].type = "document"
    /\ pc' = [pc EXCEPT ![c] = "finish"]
    /\ UNCHANGED <<queue, edges, orphans, job, scope, doomed, plan>>

\* What classify_heading_failure may answer for a page without a heading.
Decisions(u) ==
    IF u \in LegalSource THEN {"legal_extraction_failure"}
    ELSE {"confirmed_index", "ambiguous"}

\* No heading, but a navigation page: discover now, retype in the next transaction.
NavigationConfirmed(c, found) ==
    /\ "heading" \in Faults
    /\ pc[c] = "working" /\ job[c].type = "document"
    /\ "confirmed_index" \in Decisions(job[c].url)
    /\ Discover(c, found, Pages)
    /\ job' = [job EXCEPT ![c].cls = "confirmed_index"]
    /\ pc' = [pc EXCEPT ![c] = "retype"]
    /\ UNCHANGED <<orphans, scope, doomed, plan>>

Retype(c) ==
    /\ pc[c] = "retype"
    /\ Update(job[c].url, [queue[job[c].url] EXCEPT !.type = "index"])
    /\ pc' = [pc EXCEPT ![c] = "finish"]
    /\ UNCHANGED <<edges, orphans, job, scope, doomed, plan>>

\* Any other decision raises CrawlClassificationError ...
HeadingMissing(c, d) ==
    /\ "heading" \in Faults
    /\ pc[c] = "working" /\ job[c].type = "document"
    /\ d \in Decisions(job[c].url) \ {"confirmed_index"}
    /\ job' = [job EXCEPT ![c].cls = d]
    /\ pc' = [pc EXCEPT ![c] = "record"]
    /\ UNCHANGED <<queue, edges, orphans, scope, doomed, plan>>

\* Mutant: the handler persists the evidence and moves on.
RecordOnly(c) ==
    /\ pc[c] = "record"
    /\ Update(job[c].url, [queue[job[c].url] EXCEPT !.cls = job[c].cls])
    /\ pc' = [pc EXCEPT ![c] = "loop"]
    /\ job' = [job EXCEPT ![c] = NoJob]
    /\ UNCHANGED <<edges, orphans, scope, doomed, plan>>

\* ... whose handler persists the evidence (record_classification_failure) and
\* then fails the item in a second transaction.
Record(c) ==
    /\ pc[c] = "record"
    /\ Update(job[c].url, [queue[job[c].url] EXCEPT !.cls = job[c].cls])
    /\ pc' = [pc EXCEPT ![c] = "failing"]
    /\ UNCHANGED <<edges, orphans, job, scope, doomed, plan>>

Finish(c) ==
    /\ pc[c] = "finish"
    /\ LET u == job[c].url
           refresh == IF job[c].type = "index" \/ job[c].cls = "confirmed_index"
                      THEN IndexRefresh ELSE DocumentRefresh
       IN  /\ Update(u, [queue[u] EXCEPT !.status = "done", !.age = 0,
                             !.wait = refresh,
                             !.cls = IF job[c].cls = "none" THEN @ ELSE job[c].cls,
                             !.ext = @ \/ job[c].ext])
           /\ orphans' = orphans \ {u}
    /\ pc' = [pc EXCEPT ![c] = "reported"]
    /\ UNCHANGED <<edges, job, scope, doomed, plan>>

\* The "processed" line is out; the item is forgotten.
NextItem(c) ==
    /\ pc[c] = "reported"
    /\ pc' = [pc EXCEPT ![c] = "loop"]
    /\ job' = [job EXCEPT ![c] = NoJob]
    /\ UNCHANGED <<queue, edges, orphans, scope, doomed, plan>>

\* fail_item: from any exception in the try block, also one after finish_item
\* has committed, or as the second half of a classification failure.
FailItem(c) ==
    /\ \/ "error" \in Faults /\ pc[c] \in Guarded
       \/ pc[c] = "failing"
    /\ LET u == job[c].url
       IN  /\ Update(u, [queue[u] EXCEPT !.status = "error", !.age = 0,
                             !.wait = Delay(c)])
           /\ orphans' = orphans \ {u}
    /\ pc' = [pc EXCEPT ![c] = "loop"]
    /\ job' = [job EXCEPT ![c] = NoJob]
    /\ UNCHANGED <<edges, scope, doomed, plan>>

\* KeyboardInterrupt inside the try block: requeue_interrupted, then exit.
Interrupt(c) ==
    /\ "interrupt" \in Faults
    /\ pc[c] \in Guarded
    /\ LET u == job[c].url
       IN  /\ Update(u, [queue[u] EXCEPT !.status = "pending", !.age = 0, !.wait = 0])
           /\ orphans' = orphans \ {u}
    /\ pc' = [pc EXCEPT ![c] = "off"]
    /\ job' = [job EXCEPT ![c] = NoJob]
    /\ UNCHANGED <<edges, scope, doomed, plan>>

\* The run ends: nothing is due, or --max-items items were processed.
Exit(c) ==
    /\ \/ pc[c] = "loop" /\ ~Continuous /\ \A u \in Url : ~Due(u, scope[c])
       \/ pc[c] = "reported" /\ Limited
    /\ pc' = [pc EXCEPT ![c] = "off"]
    /\ job' = [job EXCEPT ![c] = NoJob]
    /\ UNCHANGED <<queue, edges, orphans, scope, doomed, plan>>

\* The process is killed, or an exception escapes main(), anywhere.
Crash(c) ==
    /\ "crash" \in Faults
    /\ pc[c] # "off"
    /\ orphans' = IF pc[c] \in Holding /\ queue[job[c].url].status = "running"
                  THEN orphans \cup {job[c].url} ELSE orphans
    /\ pc' = [pc EXCEPT ![c] = "off"]
    /\ job' = [job EXCEPT ![c] = NoJob]
    /\ doomed' = [doomed EXCEPT ![c] = {}]
    /\ UNCHANGED <<queue, edges, scope, plan>>

-----------------------------------------------------------------------------
(* The operator's repair tool: a plan read from the queue, applied later    *)
(* to the rows that still look as they did.                                *)

Candidate(u) ==
    /\ queue[u].type = "index" /\ queue[u].status = "done"
    /\ ~queue[u].ext /\ queue[u].cls # "confirmed_index"
    /\ u \in DocRoute

PlanReclassification(u, d) ==
    /\ plan = {}
    /\ Candidate(u) /\ d \in Decisions(u)
    /\ plan' = {[url |-> u, before |-> queue[u].cls, after |-> d]}
    /\ UNCHANGED <<queue, edges, orphans, pc, job, scope, doomed>>

Reclassified(row, d) ==
    IF d = "confirmed_index" THEN [row EXCEPT !.cls = d]
    ELSE [row EXCEPT !.type = "document", !.status = "error", !.cls = d, !.wait = 0]

ApplyReclassification ==
    /\ plan # {}
    /\ \E p \in plan :
          queue' = IF /\ queue[p.url].type = "index" /\ queue[p.url].status = "done"
                      /\ queue[p.url].cls = p.before
                   THEN [queue EXCEPT ![p.url] = Reclassified(@, p.after)]
                   ELSE queue
    /\ plan' = {}
    /\ UNCHANGED <<edges, orphans, pc, job, scope, doomed>>

-----------------------------------------------------------------------------
\* Time passes.
Tick ==
    /\ queue' = [u \in Url |->
          [queue[u] EXCEPT !.wait = IF @ = 0 THEN 0 ELSE @ - 1,
                           !.age = IF queue[u].status = "running"
                                   THEN Smaller(StaleTicks + 1, @ + 1) ELSE @]]
    /\ UNCHANGED <<edges, orphans, pc, job, scope, doomed, plan>>

Init ==
    /\ queue = [u \in Url |-> IF u \in Legacy THEN LegacyRow ELSE Absent]
    /\ edges = {}
    /\ orphans = {}
    /\ pc = [c \in Crawler |-> "off"]
    /\ job = [c \in Crawler |-> NoJob]
    /\ scope = [c \in Crawler |-> "all"]
    /\ doomed = [c \in Crawler |-> {}]
    /\ plan = {}

StartUp(c) ==
    \/ \E s \in StartScopes : Start(c, s)
    \/ Adopt(c) \/ SelectDoomed(c) \/ DropDoomed(c) \/ Seed(c)

\* The links of some version of the page the crawler is working on.
Processing(c) ==
    \/ \E u \in Url : \E found \in Versions[u] :
          /\ job[c].url = u
          /\ \/ IndexFetched(c, found) \/ DocumentExtracted(c, found)
             \/ NavigationConfirmed(c, found)
    \/ BinaryFetched(c) \/ Retype(c)
    \/ \E d \in Class : HeadingMissing(c, d)
    \/ Record(c)

Crawling(c) ==
    \/ \E u \in Url : Select(c, u)
    \/ Claim(c) \/ Processing(c) \/ Finish(c) \/ NextItem(c) \/ FailItem(c)
    \/ Exit(c)

Next ==
    \/ \E c \in Crawler : StartUp(c) \/ Crawling(c) \/ Interrupt(c) \/ Crash(c)
    \/ \E u \in Url, d \in Class : PlanReclassification(u, d)
    \/ ApplyReclassification
    \/ Tick

Spec == Init /\ [][Next]_vars

-----------------------------------------------------------------------------
(* Properties.                                                             *)

\* The columns have the types the schema and the code give them, and a crawler
\* past due_item works on a URL.
TypeOK ==
    /\ queue \in [Url -> Row]
    /\ edges \subseteq Url \X Url
    /\ orphans \subseteq Url
    /\ pc \in [Crawler -> Control]
    /\ job \in [Crawler -> Job]
    /\ scope \in [Crawler -> Scope]
    /\ doomed \in [Crawler -> SUBSET Url]
    /\ plan \subseteq [url : Url, before : Class, after : Class]
    /\ \A c \in Crawler :
          /\ pc[c] \in {"selected"} \cup Guarded \cup Holding => job[c].url \in Url
          /\ pc[c] = "record" => job[c].cls # "none"

\* No path through the loop - success, failure, classification error, operator
\* interrupt - leaves a row behind as `running`: such a row is in the hands of a
\* live crawler, or was in the hands of one that died.  due_item never offers a
\* running row again, so one left behind by a forgotten path would be lost.
RunningIsOwned ==
    \A u \in Url : queue[u].status = "running" =>
        \/ \E c \in Crawler : pc[c] \in Holding /\ job[c].url = u
        \/ u \in orphans

\* Liveness.  Time passes, a crawler that is running takes its steps, and one
\* that is off is started again.
Fairness ==
    /\ WF_vars(Tick)
    /\ \A c \in Crawler : WF_vars(StartUp(c)) /\ WF_vars(Crawling(c))

FairSpec == Spec /\ Fairness

\* As long as runs keep ending - the recovery happens only at the start of one -
\* no row stays `running` for ever, whatever crashed while it was.
OrphansRecovered ==
    (\A c \in Crawler : []<>(pc[c] = "off")) =>
        \A u \in Url : queue[u].status = "running" ~> queue[u].status # "running"
=============================================================================
