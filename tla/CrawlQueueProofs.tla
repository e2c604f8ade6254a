-------------------------- MODULE CrawlQueueProofs --------------------------
(***************************************************************************)
(* The crawl queue, proved for every site, every set of crawlers and every *)
(* choice of faults: the columns keep their types, and no row is left      *)
(* `running` with nobody to answer for it.  And, for every site that stays *)
(* as it is while crawlers run one after another and nothing fails: pages  *)
(* are queued at their distance from the seeds, and none is missed.        *)
(***************************************************************************)
EXTENDS CrawlOrder, FiniteSetTheorems, WellFoundedInduction, TLAPS

USE DEF Scope, Class, Pages, Status, FaultKinds

\* The retry delay is a natural number below --max-backoff.
LEMMA BackoffBound ==
    ASSUME QueueAssumption, NEW n \in Nat
    PROVE  Backoff(n) \in 0..MaxBackoff
<1> DEFINE k == Smaller(n, 8)
<1>1. k \in 0..8
  BY DEF Smaller
<1>2. TwoTo(n) \in Nat
  BY <1>1 DEF TwoTo
<1>3. BaseBackoff * TwoTo(n) \in Nat
  BY <1>2 DEF QueueAssumption
<1> QED
  BY <1>3 DEF Backoff, Smaller, QueueAssumption

\* The waiting times and ages the program writes are in range.
LEMMA Zeros ==
    ASSUME QueueAssumption
    PROVE  /\ 0 \in 0..MaxWait /\ 0 \in 0..(StaleTicks + 1)
           /\ IndexRefresh \in 0..MaxWait /\ DocumentRefresh \in 0..MaxWait
           /\ 0..MaxBackoff \subseteq 0..MaxWait
  BY DEF MaxWait, QueueAssumption

\* The rows the program writes are rows of the table.
LEMMA NewRowType ==
    ASSUME QueueAssumption, NEW t \in Pages, NEW s \in Scope,
           NEW d \in Nat, NEW p \in Url \cup {NoUrl}
    PROVE  NewRow(t, s, d, p) \in Row
  BY DEF QueueAssumption, NewRow, Row, MaxWait

\* A deleted row is a row of the model's table.
LEMMA AbsentType == ASSUME QueueAssumption PROVE Absent \in Row
<1>1. NewRow("index", "all", 0, NoUrl) \in Row
  BY NewRowType
<1> QED
  BY <1>1 DEF Absent, Row

\* discover_links adds rows of the right type and edges between URLs, and never
\* touches a row that is already queued.
LEMMA DiscoverType ==
    ASSUME QueueAssumption, TypeOK, NEW c \in Crawler, job[c].url \in Url,
           NEW found \in SUBSET Url, NEW kinds \in SUBSET Pages, Discover(c, found, kinds)
    PROVE  /\ queue' \in [Url -> Row] /\ edges' \subseteq Url \X Url
           /\ \A v \in Url : Present(v) => queue'[v] = queue[v]
           /\ \A v \in Url : queue'[v].status = "running" => queue[v].status = "running"
<1> DEFINE parent == job[c].url
           new == Wanted(found, parent, scope[c], job[c].depth, kinds)
<1>1. job[c] \in Job /\ scope[c] \in Scope
  BY DEF TypeOK
<1>2. \A v \in new : v \in Url /\ Kind(v, scope[c]) \in {"index", "document"}
  BY DEF Wanted
<1>3. \A v \in new : NewRow(Kind(v, scope[c]), scope[c], job[c].depth + 1, parent) \in Row
  BY <1>1, <1>2, NewRowType DEF Job
<1>4. queue' \in [Url -> Row]
  BY <1>3 DEF Discover, TypeOK
<1>5. edges' \subseteq Url \X Url
  BY <1>2 DEF Discover, TypeOK
<1>6. \A v \in Url : Present(v) => queue'[v] = queue[v]
  BY DEF Discover
<1>7. \A v \in Url : queue'[v].status = "running" => queue[v].status = "running"
  BY DEF Discover, NewRow, Present
<1> QED
  BY <1>4, <1>5, <1>6, <1>7

\* Update writes a row of the right type, or nothing.
LEMMA UpdateType ==
    ASSUME TypeOK, NEW u \in Url, NEW row \in Row, Update(u, row)
    PROVE  /\ queue' \in [Url -> Row]
           /\ \A v \in Url : v # u => queue'[v] = queue[v]
           /\ queue'[u] = IF Present(u) THEN row ELSE queue[u]
  BY DEF Update, TypeOK

-----------------------------------------------------------------------------
\* The initial table is well typed.
LEMMA InitTypeOK == ASSUME QueueAssumption, Init PROVE TypeOK
<1>1. Absent \in Row /\ LegacyRow \in Row
  <2>1. NewRow("index", "all", 0, NoUrl) \in Row
    BY NewRowType
  <2> QED
    BY <2>1, AbsentType DEF LegacyRow, Row
<1>2. queue \in [Url -> Row]
  BY <1>1 DEF Init
<1>3. NoJob \in Job
  BY DEF NoJob, Job, QueueAssumption
<1> QED
  BY <1>2, <1>3 DEF Init, TypeOK, Control, Guarded, Holding

\* Every step of a run's start-up keeps the types.
LEMMA StartUpType ==
    ASSUME QueueAssumption, TypeOK, NEW c \in Crawler, StartUp(c)
    PROVE  TypeOK'
<1> USE DEF Control, Guarded, Holding
<1>1. ASSUME NEW s \in StartScopes, Start(c, s) PROVE TypeOK'
  <2>1. s \in Scope
    BY <1>1 DEF QueueAssumption
  <2> \A r \in Row : [r EXCEPT !.status = "error", !.wait = 0, !.age = 0] \in Row
    BY Zeros DEF Row
  <2>2. queue' \in [Url -> Row]
    BY <1>1 DEF Start, TypeOK
  <2>3. orphans' \subseteq Url /\ scope' \in [Crawler -> Scope] /\ pc' \in [Crawler -> Control]
    BY <1>1, <2>1 DEF Start, TypeOK
  <2> QED
    BY <1>1, <2>2, <2>3 DEF Start, TypeOK
<1>2. CASE Adopt(c)
  <2> \A r \in Row : [r EXCEPT !.scope = "all"] \in Row
    BY DEF Row
  <2>1. queue' \in [Url -> Row]
    BY <1>2 DEF Adopt, TypeOK
  <2> QED
    BY <1>2, <2>1 DEF Adopt, TypeOK
<1>3. CASE SelectDoomed(c)
  <2>1. doomed' \in [Crawler -> SUBSET Url]
    BY <1>3 DEF SelectDoomed, TypeOK
  <2>2. pc' \in [Crawler -> Control]
    BY <1>3 DEF SelectDoomed, TypeOK
  <2> QED
    BY <1>3, <2>1, <2>2 DEF SelectDoomed, TypeOK
<1>4. CASE DropDoomed(c)
  <2>1. queue' \in [Url -> Row]
    BY <1>4, AbsentType DEF DropDoomed, TypeOK
  <2>2. edges' \subseteq Url \X Url /\ orphans' \subseteq Url
    BY <1>4 DEF DropDoomed, TypeOK
  <2> QED
    BY <1>4, <2>1, <2>2 DEF DropDoomed, TypeOK
<1>5. CASE Seed(c)
  <2>1. NewRow("index", scope[c], 0, NoUrl) \in Row
    BY NewRowType DEF TypeOK
  <2>2. queue' \in [Url -> Row]
    BY <1>5, <2>1 DEF Seed, TypeOK
  <2> QED
    BY <1>5, <2>2 DEF Seed, TypeOK
<1> QED
  BY <1>1, <1>2, <1>3, <1>4, <1>5 DEF StartUp

\* A crawler that holds an item: the job it remembers is well typed and names a URL.
LEMMA JobType ==
    ASSUME TypeOK, NEW c \in Crawler,
           pc[c] \in {"selected"} \cup Guarded \cup Holding
    PROVE  /\ job[c] \in Job /\ job[c].url \in Url
           /\ queue[job[c].url] \in Row
  BY DEF TypeOK

\* A crawler without an item has a well-typed empty job.
LEMMA NoJobType == ASSUME QueueAssumption PROVE NoJob \in Job
  BY DEF NoJob, Job, QueueAssumption

\* Every step of the main loop keeps the types.
LEMMA CrawlingType ==
    ASSUME QueueAssumption, TypeOK, NEW c \in Crawler, Crawling(c)
    PROVE  TypeOK'
<1> USE DEF Control, Guarded, Holding
<1>1. ASSUME NEW u \in Url, Select(c, u) PROVE TypeOK'
  <2>1. [url |-> u, type |-> queue[u].type, depth |-> queue[u].depth,
         attempts |-> queue[u].attempts, cls |-> "none", ext |-> FALSE] \in Job
    BY DEF TypeOK, Row, Job
  <2> QED
    BY <1>1, <2>1 DEF Select, TypeOK
<1>2. CASE Claim(c)
  <2> DEFINE u == job[c].url
             row == [queue[u] EXCEPT !.status = "running", !.age = 0,
                         !.attempts = Smaller(AttemptCap, @ + 1)]
  <2>1. u \in Url /\ queue[u] \in Row
    BY <1>2, JobType DEF Claim
  <2>2. \A n \in 0..AttemptCap : Smaller(AttemptCap, n + 1) \in 0..AttemptCap
    BY DEF Smaller, QueueAssumption
  <2>3. row \in Row
    BY <2>1, <2>2, Zeros DEF Row
  <2>4. Update(u, row)
    BY <1>2 DEF Claim
  <2>5. queue' \in [Url -> Row]
    BY <2>1, <2>3, <2>4, UpdateType
  <2> QED
    BY <1>2, <2>1, <2>5 DEF Claim, TypeOK
<1>3. ASSUME NEW u \in Url, NEW found \in Versions[u], job[c].url = u,
             \/ IndexFetched(c, found) \/ DocumentExtracted(c, found)
             \/ NavigationConfirmed(c, found)
      PROVE  TypeOK'
  <2>1. found \subseteq Url
    BY DEF QueueAssumption
  <2>2. queue' \in [Url -> Row] /\ edges' \subseteq Url \X Url
    <3>1. CASE \E kinds \in SUBSET Pages : Discover(c, found, kinds)
      <4>1. PICK kinds \in SUBSET Pages : Discover(c, found, kinds)
        BY <3>1
      <4>2. job[c].url \in Url /\ found \in SUBSET Url
        BY <2>1, <1>3
      <4> QED
        BY <4>1, <4>2, DiscoverType
    <3>2. CASE UNCHANGED <<queue, edges>>
      BY <3>2 DEF TypeOK
    <3> QED
      BY <1>3, <3>1, <3>2 DEF IndexFetched, DocumentExtracted, NavigationConfirmed
  <2>3. job' \in [Crawler -> Job] /\ job'[c].url \in Url
        /\ \A b \in Crawler : b # c => job'[b] = job[b]
    <3>1. job \in [Crawler -> Job] /\ job[c].url \in Url
      BY <1>3 DEF TypeOK
    <3>2. CASE IndexFetched(c, found)
      BY <3>1, <3>2 DEF IndexFetched, Job
    <3>3. CASE DocumentExtracted(c, found)
      <4>0. job[c] \in Job
        BY <3>1
      <4>1. [job[c] EXCEPT !.cls = "legal_document", !.ext = TRUE] \in Job
        BY <4>0 DEF Job
      <4> QED
        BY <3>1, <3>3, <4>1 DEF DocumentExtracted, Job
    <3>4. CASE NavigationConfirmed(c, found)
      BY <3>1, <3>4 DEF NavigationConfirmed, Job
    <3> QED
      BY <1>3, <3>2, <3>3, <3>4
  <2>4. pc' \in [Crawler -> Control] /\ UNCHANGED <<orphans, scope, doomed, plan>>
        /\ pc'[c] # "record" /\ \A b \in Crawler : b # c => pc'[b] = pc[b]
    BY <1>3 DEF IndexFetched, DocumentExtracted, NavigationConfirmed, TypeOK
  <2> QED
    BY <2>2, <2>3, <2>4 DEF TypeOK
<1>4. CASE BinaryFetched(c)
  <2>1. job[c].url \in Url
    BY <1>4, JobType DEF BinaryFetched
  <2> QED
    BY <1>4, <2>1 DEF BinaryFetched, TypeOK
<1>5. CASE Retype(c)
  <2> DEFINE u == job[c].url
             row == [queue[u] EXCEPT !.type = "index"]
  <2>1. u \in Url /\ queue[u] \in Row
    BY <1>5, JobType DEF Retype
  <2>2. row \in Row
    BY <2>1 DEF Row
  <2>3. queue' \in [Url -> Row]
    BY <1>5, <2>1, <2>2, UpdateType DEF Retype
  <2> QED
    BY <1>5, <2>1, <2>3 DEF Retype, TypeOK
<1>6. ASSUME NEW d \in Class, HeadingMissing(c, d) PROVE TypeOK'
  <2>1. job[c] \in Job /\ job[c].url \in Url
    BY <1>6, JobType DEF HeadingMissing
  <2>2. [job[c] EXCEPT !.cls = d] \in Job
    BY <2>1 DEF Job
  <2>3. job' = [job EXCEPT ![c] = [job[c] EXCEPT !.cls = d]]
    BY <1>6 DEF HeadingMissing
  <2>4. job' \in [Crawler -> Job] /\ job'[c].url \in Url
    BY <2>1, <2>2, <2>3 DEF TypeOK, Job
  <2> QED
    BY <1>6, <2>3, <2>4 DEF HeadingMissing, TypeOK
<1>7. CASE Record(c)
  <2> DEFINE u == job[c].url
             row == [queue[u] EXCEPT !.cls = job[c].cls]
  <2>1. u \in Url /\ queue[u] \in Row
    BY <1>7, JobType DEF Record
  <2>2. job[c].cls \in Class
    BY <1>7, JobType DEF TypeOK, Record, Job
  <2>3. row \in Row
    BY <2>1, <2>2 DEF Row
  <2>4. queue' \in [Url -> Row]
    BY <1>7, <2>1, <2>3, UpdateType DEF Record
  <2> QED
    BY <1>7, <2>1, <2>4 DEF Record, TypeOK
<1>8. CASE Finish(c)
  <2> DEFINE u == job[c].url
             refresh == IF job[c].type = "index" \/ job[c].cls = "confirmed_index"
                        THEN IndexRefresh ELSE DocumentRefresh
             row == [queue[u] EXCEPT !.status = "done", !.age = 0,
                         !.wait = refresh,
                         !.cls = IF job[c].cls = "none" THEN @ ELSE job[c].cls,
                         !.ext = @ \/ job[c].ext]
  <2>1. u \in Url /\ queue[u] \in Row /\ job[c] \in Job
    BY <1>8, JobType DEF Finish
  <2>2. refresh \in 0..MaxWait
    BY Zeros
  <2>3. /\ IF job[c].cls = "none" THEN queue[u].cls \in Class ELSE job[c].cls \in Class
        /\ (queue[u].ext \/ job[c].ext) \in BOOLEAN
    BY <2>1 DEF Row, Job
  <2>4. row \in Row
    BY <2>1, <2>2, <2>3, Zeros DEF Row
  <2>5. queue' \in [Url -> Row]
    BY <1>8, <2>1, <2>4, UpdateType DEF Finish
  <2> QED
    BY <1>8, <2>1, <2>5 DEF Finish, TypeOK
<1>9. CASE NextItem(c)
  BY <1>9, NoJobType DEF NextItem, TypeOK
<1>10. CASE FailItem(c)
  <2> DEFINE u == job[c].url
             row == [queue[u] EXCEPT !.status = "error", !.age = 0, !.wait = Delay(c)]
  <2>1. u \in Url /\ queue[u] \in Row /\ job[c] \in Job
    BY <1>10, JobType DEF FailItem
  <2>2. Delay(c) \in 0..MaxWait
    <3>1. job[c].attempts \in Nat
      BY <2>1 DEF Job, QueueAssumption
    <3>2. Delay(c) \in 0..MaxBackoff
      BY <3>1, BackoffBound DEF Delay
    <3> QED
      BY <3>2, Zeros
  <2>3. row \in Row
    BY <2>1, <2>2, Zeros DEF Row
  <2>4. queue' \in [Url -> Row]
    BY <1>10, <2>1, <2>3, UpdateType DEF FailItem
  <2> QED
    BY <1>10, <2>1, <2>4, NoJobType DEF FailItem, TypeOK
<1>11. CASE Exit(c)
  BY <1>11, NoJobType DEF Exit, TypeOK
<1> QED
  BY <1>1, <1>2, <1>3, <1>4, <1>5, <1>6, <1>7, <1>8, <1>9, <1>10, <1>11
  DEF Crawling, Processing

\* Every other step keeps the types.
LEMMA EnvironmentType ==
    ASSUME QueueAssumption, TypeOK,
           \/ \E c \in Crawler : Interrupt(c) \/ Crash(c)
           \/ \E u \in Url, d \in Class : PlanReclassification(u, d)
           \/ ApplyReclassification \/ Tick
    PROVE  TypeOK'
<1> USE DEF Control, Guarded, Holding
<1>1. ASSUME NEW c \in Crawler, Interrupt(c) PROVE TypeOK'
  <2> DEFINE u == job[c].url
             row == [queue[u] EXCEPT !.status = "pending", !.age = 0, !.wait = 0]
  <2>1. u \in Url /\ queue[u] \in Row
    BY <1>1, JobType DEF Interrupt
  <2>2. row \in Row
    BY <2>1, Zeros DEF Row
  <2>3. queue' \in [Url -> Row]
    BY <1>1, <2>1, <2>2, UpdateType DEF Interrupt
  <2> QED
    BY <1>1, <2>1, <2>3, NoJobType DEF Interrupt, TypeOK
<1>2. ASSUME NEW c \in Crawler, Crash(c) PROVE TypeOK'
  <2>1. orphans' \subseteq Url
    BY <1>2, JobType DEF Crash, TypeOK
  <2> QED
    BY <1>2, <2>1, NoJobType DEF Crash, TypeOK
<1>3. ASSUME NEW u \in Url, NEW d \in Class, PlanReclassification(u, d) PROVE TypeOK'
  <2>1. queue[u].cls \in Class
    BY DEF TypeOK, Row
  <2>2. plan' \subseteq [url : Url, before : Class, after : Class]
    BY <1>3, <2>1 DEF PlanReclassification
  <2> QED
    BY <1>3, <2>2 DEF PlanReclassification, TypeOK
<1>4. CASE ApplyReclassification
  <2>1. \A r \in Row, d \in Class : Reclassified(r, d) \in Row
    <3>1. \A r \in Row, d \in Class : [r EXCEPT !.cls = d] \in Row
      BY DEF Row
    <3>2. \A r \in Row, d \in Class :
            [r EXCEPT !.type = "document", !.status = "error", !.cls = d, !.wait = 0] \in Row
      BY Zeros DEF Row
    <3> QED
      BY <3>1, <3>2 DEF Reclassified
  <2>2. PICK p \in plan :
          queue' = IF /\ queue[p.url].type = "index" /\ queue[p.url].status = "done"
                      /\ queue[p.url].cls = p.before
                   THEN [queue EXCEPT ![p.url] = Reclassified(@, p.after)]
                   ELSE queue
    BY <1>4 DEF ApplyReclassification
  <2>3. p.url \in Url /\ p.after \in Class
    BY DEF TypeOK
  <2>4. Reclassified(queue[p.url], p.after) \in Row
    BY <2>1, <2>3 DEF TypeOK
  <2>5. queue' \in [Url -> Row]
    BY <2>2, <2>3, <2>4 DEF TypeOK
  <2> QED
    BY <1>4, <2>5 DEF ApplyReclassification, TypeOK
<1>5. CASE Tick
  <2> DEFINE later(r) == [r EXCEPT !.wait = IF @ = 0 THEN 0 ELSE @ - 1,
                             !.age = IF r.status = "running"
                                     THEN Smaller(StaleTicks + 1, @ + 1) ELSE @]
  <2>1. \A n \in 0..MaxWait : (IF n = 0 THEN 0 ELSE n - 1) \in 0..MaxWait
    BY DEF MaxWait, QueueAssumption
  <2>2. \A n \in 0..(StaleTicks + 1) : Smaller(StaleTicks + 1, n + 1) \in 0..(StaleTicks + 1)
    BY DEF Smaller, QueueAssumption
  <2>3. \A r \in Row : later(r) \in Row
    BY <2>1, <2>2 DEF Row
  <2>4. queue' = [u \in Url |-> later(queue[u])]
    BY <1>5 DEF Tick
  <2>5. queue' \in [Url -> Row]
    BY <2>3, <2>4 DEF TypeOK
  <2> QED
    BY <1>5, <2>5 DEF Tick, TypeOK
<1> QED
  BY <1>1, <1>2, <1>3, <1>4, <1>5

\* Type correctness: whatever the crawlers, the operator and the clock do, the
\* columns of dian_crawl_queue and the crawlers' locals stay well typed.
THEOREM TypeCorrect == ASSUME QueueAssumption PROVE Spec => []TypeOK
<1>1. Init => TypeOK
  BY InitTypeOK
<1>2. TypeOK /\ [Next]_vars => TypeOK'
  <2> SUFFICES ASSUME TypeOK, [Next]_vars PROVE TypeOK'
    OBVIOUS
  <2>1. CASE UNCHANGED vars
    BY <2>1 DEF vars, TypeOK
  <2>2. CASE Next
    BY <2>2, StartUpType, CrawlingType, EnvironmentType DEF Next
  <2> QED
    BY <2>1, <2>2
<1> QED
  BY <1>1, <1>2, PTL DEF Spec
-----------------------------------------------------------------------------
\* Somebody answers for row u.
Answered(u) == \/ \E c \in Crawler : pc[c] \in Holding /\ job[c].url = u
               \/ u \in orphans

\* A step that makes no row running, keeps the holders' hands on their items and
\* forgets no orphan that is still running, keeps every running row answered for.
LEMMA QuietStep ==
    ASSUME RunningIsOwned,
           \A u \in Url : queue'[u].status = "running" => queue[u].status = "running",
           \A c \in Crawler : pc[c] \in Holding =>
               pc'[c] \in Holding /\ job'[c].url = job[c].url,
           \A u \in orphans : queue'[u].status = "running" => u \in orphans'
    PROVE  RunningIsOwned'
<1> SUFFICES ASSUME NEW u \in Url, queue'[u].status = "running" PROVE Answered(u)'
  BY DEF RunningIsOwned, Answered
<1>1. Answered(u)
  BY DEF RunningIsOwned, Answered
<1> QED
  BY <1>1 DEF Answered

\* A crawler that lets go of its item has given the row another status.
LEMMA ReleaseStep ==
    ASSUME TypeOK, RunningIsOwned, NEW c \in Crawler, job[c].url \in Url,
           NEW row \in Row, row.status # "running", Update(job[c].url, row),
           orphans' = orphans \ {job[c].url},
           \A b \in Crawler \ {c} : pc'[b] = pc[b] /\ job'[b] = job[b]
    PROVE  RunningIsOwned'
<1> SUFFICES ASSUME NEW u \in Url, queue'[u].status = "running" PROVE Answered(u)'
  BY DEF RunningIsOwned, Answered
<1>1. queue'[u] = queue[u] /\ u # job[c].url
  BY UpdateType DEF Present
<1>2. Answered(u)
  BY <1>1 DEF RunningIsOwned, Answered
<1> QED
  BY <1>1, <1>2 DEF Answered

\* No step of a start-up loses a running row.
LEMMA StartUpOwned ==
    ASSUME QueueAssumption, TypeOK, RunningIsOwned, NEW c \in Crawler, StartUp(c)
    PROVE  RunningIsOwned'
<1> USE DEF Guarded, Holding
<1>1. ASSUME NEW s \in StartScopes, Start(c, s) PROVE RunningIsOwned'
  <2>1. \A u \in Url : Stale(queue[u]) => queue'[u].status = "error"
    <3> TAKE u \in Url
    <3>1. queue[u] \in Row
      BY DEF TypeOK
    <3> QED
      BY <3>1, <1>1 DEF Start, Row
  <2>2. \A u \in Url : ~Stale(queue[u]) => queue'[u] = queue[u]
    BY <1>1 DEF Start
  <2>3. \A u \in orphans : queue'[u].status = "running" => u \in orphans'
    BY <1>1, <2>1 DEF Start, TypeOK
  <2>4. \A u \in Url : queue'[u].status = "running" => queue[u].status = "running"
    BY <2>1, <2>2
  <2>5. \A b \in Crawler : pc[b] \in Holding =>
             pc'[b] \in Holding /\ job'[b].url = job[b].url
    BY <1>1 DEF Start, TypeOK
  <2> QED
    BY <2>3, <2>4, <2>5, QuietStep
<1>2. CASE Adopt(c)
  <2>1. \A u \in Url : queue'[u].status = queue[u].status
    <3> \A r \in Row : [r EXCEPT !.scope = "all"].status = r.status
      BY DEF Row
    <3> QED
      BY <1>2 DEF Adopt, TypeOK
  <2>2. \A b \in Crawler : pc[b] \in Holding =>
             pc'[b] \in Holding /\ job'[b].url = job[b].url
    BY <1>2 DEF Adopt, TypeOK
  <2> QED
    BY <1>2, <2>1, <2>2, QuietStep DEF Adopt
<1>3. CASE SelectDoomed(c)
  <2>1. \A b \in Crawler : pc[b] \in Holding =>
             pc'[b] \in Holding /\ job'[b].url = job[b].url
    BY <1>3 DEF SelectDoomed, TypeOK
  <2> QED
    BY <1>3, <2>1, QuietStep DEF SelectDoomed
<1>4. CASE DropDoomed(c)
  <2>1. \A u \in Url : queue'[u].status = "running" =>
             queue'[u] = queue[u] /\ (u \in orphans => u \in orphans')
    <3>1. Absent.status = "absent"
      BY DEF Absent, NewRow
    <3> QED
      BY <1>4, <3>1 DEF DropDoomed
  <2>2. \A b \in Crawler : pc[b] \in Holding =>
             pc'[b] \in Holding /\ job'[b].url = job[b].url
    BY <1>4 DEF DropDoomed, TypeOK
  <2> QED
    BY <2>1, <2>2, QuietStep DEF TypeOK
<1>5. CASE Seed(c)
  <2>1. \A u \in Url : queue'[u].status = "running" => queue[u].status = "running"
    <3>1. \A s : NewRow("index", s, 0, NoUrl).status = "pending"
      BY DEF NewRow
    <3> QED
      BY <1>5, <3>1 DEF Seed
  <2>2. \A b \in Crawler : pc[b] \in Holding =>
             pc'[b] \in Holding /\ job'[b].url = job[b].url
    BY <1>5 DEF Seed, TypeOK
  <2> QED
    BY <1>5, <2>1, <2>2, QuietStep DEF Seed
<1> QED
  BY <1>1, <1>2, <1>3, <1>4, <1>5 DEF StartUp

\* No step of the main loop loses a running row.
LEMMA CrawlingOwned ==
    ASSUME QueueAssumption, TypeOK, RunningIsOwned, NEW c \in Crawler, Crawling(c)
    PROVE  RunningIsOwned'
<1> USE DEF Guarded, Holding
<1>1. ASSUME NEW u \in Url, Select(c, u) PROVE RunningIsOwned'
  <2>1. \A b \in Crawler : pc[b] \in Holding =>
             pc'[b] \in Holding /\ job'[b].url = job[b].url
    BY <1>1 DEF Select, TypeOK
  <2> QED
    BY <1>1, <2>1, QuietStep DEF Select
<1>2. CASE Claim(c)
  <2> DEFINE u == job[c].url
  <2>1. u \in Url /\ pc'[c] \in Holding /\ job' = job
    BY <1>2, JobType DEF Claim, TypeOK
  <2>2. \A v \in Url : v # u => queue'[v] = queue[v]
    BY <1>2, <2>1 DEF Claim, Update
  <2>3. \A b \in Crawler : pc[b] \in Holding => pc'[b] \in Holding
    BY <1>2 DEF Claim, TypeOK
  <2> SUFFICES ASSUME NEW v \in Url, queue'[v].status = "running" PROVE Answered(v)'
    BY DEF RunningIsOwned, Answered
  <2>4. CASE v = u
    BY <2>1, <2>4 DEF Answered
  <2>5. CASE v # u
    <3>1. Answered(v)
      BY <2>2, <2>5 DEF RunningIsOwned, Answered
    <3> QED
      BY <1>2, <2>1, <2>3, <2>5, <3>1 DEF Claim, Answered
  <2> QED
    BY <2>4, <2>5
<1>3. ASSUME NEW u \in Url, NEW found \in Versions[u], job[c].url = u,
             \/ IndexFetched(c, found) \/ DocumentExtracted(c, found)
             \/ NavigationConfirmed(c, found)
      PROVE  RunningIsOwned'
  <2>1. \A v \in Url : queue'[v].status = "running" => queue[v].status = "running"
    <3>1. CASE \E kinds \in SUBSET Pages : Discover(c, found, kinds)
      <4>1. PICK kinds \in SUBSET Pages : Discover(c, found, kinds)
        BY <3>1
      <4>2. job[c].url \in Url /\ found \in SUBSET Url
        BY <1>3 DEF QueueAssumption
      <4> QED
        BY <4>1, <4>2, DiscoverType
    <3>2. CASE UNCHANGED <<queue, edges>>
      BY <3>2
    <3> QED
      BY <1>3, <3>1, <3>2 DEF IndexFetched, DocumentExtracted, NavigationConfirmed
  <2>2. job'[c].url = job[c].url
    <3>1. job \in [Crawler -> Job] /\ job[c] \in Job
      BY DEF TypeOK
    <3>2. CASE DocumentExtracted(c, found)
      <4>1. [job[c] EXCEPT !.cls = "legal_document", !.ext = TRUE].url = job[c].url
        BY <3>1 DEF Job
      <4> QED
        BY <3>1, <3>2, <4>1 DEF DocumentExtracted
    <3>3. CASE IndexFetched(c, found)
      BY <3>1, <3>3 DEF IndexFetched, Job
    <3>4. CASE NavigationConfirmed(c, found)
      BY <3>1, <3>4 DEF NavigationConfirmed, Job
    <3> QED
      BY <1>3, <3>2, <3>3, <3>4
  <2>3. \A b \in Crawler : pc[b] \in Holding =>
             pc'[b] \in Holding /\ job'[b].url = job[b].url
    BY <1>3, <2>2 DEF IndexFetched, DocumentExtracted, NavigationConfirmed, TypeOK
  <2>4. orphans' = orphans
    BY <1>3 DEF IndexFetched, DocumentExtracted, NavigationConfirmed
  <2> QED
    BY <2>1, <2>3, <2>4, QuietStep
<1>4. CASE BinaryFetched(c)
  <2>1. \A b \in Crawler : pc[b] \in Holding =>
             pc'[b] \in Holding /\ job'[b].url = job[b].url
    BY <1>4 DEF BinaryFetched, TypeOK
  <2> QED
    BY <1>4, <2>1, QuietStep DEF BinaryFetched
<1>5. CASE Retype(c)
  <2> DEFINE u == job[c].url
             row == [queue[u] EXCEPT !.type = "index"]
  <2>1. u \in Url /\ queue[u] \in Row
    BY <1>5, JobType DEF Retype
  <2>2. row \in Row /\ row.status = queue[u].status
    BY <2>1 DEF Row
  <2>3. \A v \in Url : queue'[v].status = "running" => queue[v].status = "running"
    <3>1. Update(u, row)
      BY <1>5 DEF Retype
    <3> HIDE DEF row, u
    <3> QED
      BY <2>1, <2>2, <3>1, UpdateType
  <2>4. \A b \in Crawler : pc[b] \in Holding =>
             pc'[b] \in Holding /\ job'[b].url = job[b].url
    BY <1>5 DEF Retype, TypeOK
  <2> QED
    BY <1>5, <2>3, <2>4, QuietStep DEF Retype
<1>6. ASSUME NEW d \in Class, HeadingMissing(c, d) PROVE RunningIsOwned'
  <2>1. job[c] \in Job /\ job \in [Crawler -> Job]
    BY DEF TypeOK
  <2>2. job'[c].url = job[c].url
    BY <1>6, <2>1 DEF HeadingMissing, Job
  <2>3. \A b \in Crawler : pc[b] \in Holding =>
             pc'[b] \in Holding /\ job'[b].url = job[b].url
    BY <1>6, <2>2 DEF HeadingMissing, TypeOK
  <2> QED
    BY <1>6, <2>3, QuietStep DEF HeadingMissing
<1>7. CASE Record(c)
  <2> DEFINE u == job[c].url
             row == [queue[u] EXCEPT !.cls = job[c].cls]
  <2>1. u \in Url /\ queue[u] \in Row /\ job[c].cls \in Class
    BY <1>7, JobType DEF Record, TypeOK, Job
  <2>2. row \in Row /\ row.status = queue[u].status
    BY <2>1 DEF Row
  <2>3. \A v \in Url : queue'[v].status = "running" => queue[v].status = "running"
    <3>1. Update(u, row)
      BY <1>7 DEF Record
    <3> HIDE DEF row, u
    <3> QED
      BY <2>1, <2>2, <3>1, UpdateType
  <2>4. \A b \in Crawler : pc[b] \in Holding =>
             pc'[b] \in Holding /\ job'[b].url = job[b].url
    BY <1>7 DEF Record, TypeOK
  <2> QED
    BY <1>7, <2>3, <2>4, QuietStep DEF Record
<1>8. CASE Finish(c)
  <2> DEFINE u == job[c].url
             refresh == IF job[c].type = "index" \/ job[c].cls = "confirmed_index"
                        THEN IndexRefresh ELSE DocumentRefresh
             row == [queue[u] EXCEPT !.status = "done", !.age = 0,
                         !.wait = refresh,
                         !.cls = IF job[c].cls = "none" THEN @ ELSE job[c].cls,
                         !.ext = @ \/ job[c].ext]
  <2>1. u \in Url /\ queue[u] \in Row /\ job[c] \in Job
    BY <1>8, JobType DEF Finish
  <2>2. refresh \in 0..MaxWait
    BY Zeros
  <2>3. /\ IF job[c].cls = "none" THEN queue[u].cls \in Class ELSE job[c].cls \in Class
        /\ (queue[u].ext \/ job[c].ext) \in BOOLEAN
    BY <2>1 DEF Row, Job
  <2>4. row \in Row /\ row.status = "done"
    BY <2>1, <2>2, <2>3, Zeros DEF Row
  <2>5. \A b \in Crawler \ {c} : pc'[b] = pc[b] /\ job'[b] = job[b]
    BY <1>8 DEF Finish, TypeOK
  <2>6. Update(u, row) /\ orphans' = orphans \ {u}
    BY <1>8 DEF Finish
  <2> HIDE DEF row
  <2> QED
    BY <2>1, <2>4, <2>5, <2>6, ReleaseStep
<1>9. CASE NextItem(c)
  <2>1. \A b \in Crawler : pc[b] \in Holding =>
             pc'[b] \in Holding /\ job'[b].url = job[b].url
    BY <1>9 DEF NextItem, TypeOK
  <2> QED
    BY <1>9, <2>1, QuietStep DEF NextItem
<1>10. CASE FailItem(c)
  <2> DEFINE u == job[c].url
             row == [queue[u] EXCEPT !.status = "error", !.age = 0, !.wait = Delay(c)]
  <2>1. u \in Url /\ queue[u] \in Row /\ job[c] \in Job
    BY <1>10, JobType DEF FailItem
  <2>2. Delay(c) \in 0..MaxWait
    <3>1. job[c].attempts \in Nat
      BY <2>1 DEF Job, QueueAssumption
    <3>2. Delay(c) \in 0..MaxBackoff
      BY <3>1, BackoffBound DEF Delay
    <3> QED
      BY <3>2, Zeros
  <2>3. row \in Row /\ row.status = "error"
    BY <2>1, <2>2, Zeros DEF Row
  <2>4. \A b \in Crawler \ {c} : pc'[b] = pc[b] /\ job'[b] = job[b]
    BY <1>10 DEF FailItem, TypeOK
  <2>5. Update(u, row) /\ orphans' = orphans \ {u}
    BY <1>10 DEF FailItem
  <2> HIDE DEF row
  <2> QED
    BY <2>1, <2>3, <2>4, <2>5, ReleaseStep
<1>11. CASE Exit(c)
  <2>1. \A b \in Crawler : pc[b] \in Holding =>
             pc'[b] \in Holding /\ job'[b].url = job[b].url
    BY <1>11 DEF Exit, TypeOK
  <2> QED
    BY <1>11, <2>1, QuietStep DEF Exit
<1> QED
  BY <1>1, <1>2, <1>3, <1>4, <1>5, <1>6, <1>7, <1>8, <1>9, <1>10, <1>11
  DEF Crawling, Processing

\* Nor does an interrupt, a crash, the operator's repair or the clock.
LEMMA EnvironmentOwned ==
    ASSUME QueueAssumption, TypeOK, RunningIsOwned,
           \/ \E c \in Crawler : Interrupt(c) \/ Crash(c)
           \/ \E u \in Url, d \in Class : PlanReclassification(u, d)
           \/ ApplyReclassification \/ Tick
    PROVE  RunningIsOwned'
<1> USE DEF Guarded, Holding
<1>1. ASSUME NEW c \in Crawler, Interrupt(c) PROVE RunningIsOwned'
  <2> DEFINE u == job[c].url
             row == [queue[u] EXCEPT !.status = "pending", !.age = 0, !.wait = 0]
  <2>1. u \in Url /\ queue[u] \in Row
    BY <1>1, JobType DEF Interrupt
  <2>2. row \in Row /\ row.status = "pending"
    BY <2>1, Zeros DEF Row
  <2>3. \A b \in Crawler \ {c} : pc'[b] = pc[b] /\ job'[b] = job[b]
    BY <1>1 DEF Interrupt, TypeOK
  <2>4. Update(u, row) /\ orphans' = orphans \ {u}
    BY <1>1 DEF Interrupt
  <2> HIDE DEF row
  <2> QED
    BY <2>1, <2>2, <2>3, <2>4, ReleaseStep
<1>2. ASSUME NEW c \in Crawler, Crash(c) PROVE RunningIsOwned'
  <2>1. \A b \in Crawler \ {c} : pc'[b] = pc[b] /\ job'[b] = job[b]
    BY <1>2 DEF Crash, TypeOK
  <2> SUFFICES ASSUME NEW u \in Url, queue'[u].status = "running" PROVE Answered(u)'
    BY DEF RunningIsOwned, Answered
  <2>2. Answered(u) /\ queue[u].status = "running"
    BY <1>2 DEF Crash, RunningIsOwned, Answered
  <2> QED
    BY <1>2, <2>1, <2>2 DEF Crash, Answered
<1>3. ASSUME NEW u \in Url, NEW d \in Class, PlanReclassification(u, d)
      PROVE  RunningIsOwned'
  BY <1>3, QuietStep DEF PlanReclassification
<1>4. CASE ApplyReclassification
  <2>1. \A r \in Row, d \in Class : r.status = "done" =>
             Reclassified(r, d).status # "running"
    <3>1. \A r \in Row, d \in Class : [r EXCEPT !.cls = d].status = r.status
      BY DEF Row
    <3>2. \A r \in Row, d \in Class :
            [r EXCEPT !.type = "document", !.status = "error", !.cls = d, !.wait = 0].status
                = "error"
      BY DEF Row
    <3> QED
      BY <3>1, <3>2 DEF Reclassified
  <2>2. PICK p \in plan :
          queue' = IF /\ queue[p.url].type = "index" /\ queue[p.url].status = "done"
                      /\ queue[p.url].cls = p.before
                   THEN [queue EXCEPT ![p.url] = Reclassified(@, p.after)]
                   ELSE queue
    BY <1>4 DEF ApplyReclassification
  <2>3. p.url \in Url /\ p.after \in Class /\ queue \in [Url -> Row]
    BY DEF TypeOK
  <2>4. \A u \in Url : queue'[u].status = "running" => queue[u].status = "running"
    BY <2>1, <2>2, <2>3
  <2> QED
    BY <1>4, <2>4, QuietStep DEF ApplyReclassification
<1>5. CASE Tick
  <2> DEFINE later(r) == [r EXCEPT !.wait = IF @ = 0 THEN 0 ELSE @ - 1,
                             !.age = IF r.status = "running"
                                     THEN Smaller(StaleTicks + 1, @ + 1) ELSE @]
  <2>1. \A r \in Row : later(r).status = r.status
    BY DEF Row
  <2>2. queue' = [u \in Url |-> later(queue[u])]
    BY <1>5 DEF Tick
  <2>3. \A u \in Url : queue'[u].status = queue[u].status
    BY <2>1, <2>2 DEF TypeOK
  <2> QED
    BY <1>5, <2>3, QuietStep DEF Tick
<1> QED
  BY <1>1, <1>2, <1>3, <1>4, <1>5

\* No path of the crawler - success, failure, classification error, interrupt -
\* forgets a row it has claimed: only a crash leaves one `running`.
THEOREM RunningOwned == ASSUME QueueAssumption PROVE Spec => []RunningIsOwned
<1>1. Init => RunningIsOwned
  <2>1. Absent.status = "absent" /\ LegacyRow.status = "done"
    BY DEF Absent, LegacyRow, NewRow
  <2> QED
    BY <2>1 DEF Init, RunningIsOwned
<1>2. TypeOK /\ RunningIsOwned /\ [Next]_vars => RunningIsOwned'
  <2> SUFFICES ASSUME TypeOK, RunningIsOwned, [Next]_vars PROVE RunningIsOwned'
    OBVIOUS
  <2>1. CASE UNCHANGED vars
    BY <2>1 DEF vars, RunningIsOwned
  <2>2. CASE Next
    BY <2>2, StartUpOwned, CrawlingOwned, EnvironmentOwned DEF Next
  <2> QED
    BY <2>1, <2>2
<1> QED
  BY <1>1, <1>2, TypeCorrect, PTL DEF Spec

-----------------------------------------------------------------------------
(* The order of the crawl.                                                 *)

\* An index page whose links have still to be queued.
Open(u) ==
    /\ Present(u) /\ u \notin DocRoute /\ queue[u].depth < MaxDepth
    /\ \E v \in Links(u) : IsIndex(v) /\ ~Present(v)

\* Once there is a row there are the seeds.
Seeded ==
    (\E u \in Url : Present(u)) => \A u \in Seeds[RunScope] : Present(u) /\ queue[u].depth = 0

\* A page is queued no nearer than it is.
Reached ==
    \A u \in Url \ DocRoute : Present(u) =>
        queue[u].depth \in 0..MaxDepth /\ u \in Within[queue[u].depth]

\* The pages queued reach one level beyond the nearest that is open.
Layered ==
    \A v, w \in Url \ DocRoute : Present(v) /\ Open(w) => queue[v].depth <= queue[w].depth + 1

\* What a page that is not open links is queued at its depth and one, or nearer.
Closed ==
    \A p \in Url \ DocRoute : Present(p) /\ ~Open(p) /\ queue[p].depth < MaxDepth =>
        \A v \in Links(p) : IsIndex(v) => Present(v) /\ queue[v].depth <= queue[p].depth + 1

GraphInv == Seeded /\ Reached /\ Layered /\ Closed

\* A row as such a run writes it: none fails, and a pending one is due.
RowsInv ==
    \A u \in Url : Present(u) =>
        /\ queue[u].scope = RunScope /\ queue[u].type = Kind(u, RunScope)
        /\ queue[u].status \in {"pending", "running", "done"}
        /\ queue[u].status = "pending" => queue[u].wait = 0
        /\ queue[u].from \in {NoUrl} \cup DocRoute \cup {p \in Url : AllowedFor(p, RunScope)}

\* The one crawler that may be running, and what it has in hand.
InHand == {"selected", "working", "finish", "reported"}

Carries(c) ==
    /\ Present(job[c].url)
    /\ job[c].type = queue[job[c].url].type /\ job[c].depth = queue[job[c].url].depth
    /\ pc[c] \in {"working", "finish"} => queue[job[c].url].status = "running"

HandsInv ==
    /\ plan = {} /\ orphans = {}
    /\ \A c \in Crawler :
          /\ doomed[c] = {}
          /\ pc[c] \in {"off", "adopt", "purge", "seed", "loop"} \cup InHand
          /\ pc[c] = "adopt" => RunScope = "all"
          /\ pc[c] # "off" => scope[c] = RunScope /\ \A d \in Crawler \ {c} : pc[d] = "off"
          /\ pc[c] \in InHand => Carries(c)

\* An open page waits its turn or is being worked on, and the page a crawler is about
\* to work on comes before every open one.
FrontierInv ==
    /\ \A w \in Url : Open(w) =>
          \/ queue[w].status = "pending"
          \/ \E c \in Crawler : pc[c] = "working" /\ job[c].url = w
    /\ \A c \in Crawler : pc[c] \in {"selected", "working"} =>
          \A w \in Url : Open(w) => job[c].type = "index" /\ job[c].depth <= queue[w].depth

\* The documents a page links are queued by the time it is finished.
DocumentsQueued(u) == \A v \in Links(u) \cap DocRoute : Present(v)

DocumentsInv ==
    "binary" \notin Faults =>
        /\ \A u \in Url : queue[u].status = "done" => DocumentsQueued(u)
        /\ \A c \in Crawler : pc[c] = "finish" => DocumentsQueued(job[c].url)

CalmInv == GraphInv /\ RowsInv /\ HandsInv /\ FrontierInv /\ DocumentsInv

-----------------------------------------------------------------------------
\* Induction: a set that holds 0 and the successor of each of its members holds every
\* number.  (Among the segments 1..n whose n it lacks there would be a smallest.)
LEMMA NatSet ==
    ASSUME NEW G, 0 \in G, \A n \in Nat : n \in G => n + 1 \in G
    PROVE  \A n \in Nat : n \in G
<1> SUFFICES ASSUME NEW b \in Nat, b \notin G PROVE FALSE
  OBVIOUS
<1> DEFINE bad == {1..n : n \in {k \in Nat : k \notin G}}
<1>1. bad \subseteq FiniteSubsetsOf(Nat) /\ bad # {}
  <2>1. \A n \in Nat : 1..n \subseteq Nat /\ IsFiniteSet(1..n)
    BY FS_Interval
  <2> QED
    BY <2>1 DEF FiniteSubsetsOf
<1>2. IsWellFoundedOn(StrictSubsetOrdering(Nat), FiniteSubsetsOf(Nat))
  BY FS_StrictSubsetOrderingWellFounded
<1>3. PICK x \in bad : \A y \in bad : ~ (<<y, x>> \in StrictSubsetOrdering(Nat))
  <2> HIDE DEF bad
  <2> QED
    BY <1>1, <1>2, WFMin
<1>4. PICK m \in Nat : m \notin G /\ x = 1..m
  BY <1>3
<1>5. m # 0 /\ m - 1 \in Nat /\ m - 1 \notin G
  BY <1>4
<1>6. 1..(m-1) \in bad
  BY <1>5
<1>7. 1..(m-1) \subseteq 1..m /\ 1..(m-1) # 1..m /\ 1..m \subseteq Nat /\ 1..(m-1) \subseteq Nat
  <2>1. m \in 1..m /\ m \notin 1..(m-1)
    BY <1>5
  <2> QED
    BY <2>1, <1>5
<1> QED
  BY <1>3, <1>4, <1>6, <1>7 DEF StrictSubsetOrdering

\* Within is what its definition says.
LEMMA WithinForm ==
    ASSUME QueueAssumption
    PROVE  \A d \in 0..MaxDepth :
               Within[d] = IF d = 0 THEN Seeds[RunScope]
                           ELSE Within[d - 1] \cup
                                {v \in UNION {Links(u) : u \in Within[d - 1]} : IsIndex(v)}
<1> DEFINE More(S) == S \cup {v \in UNION {Links(u) : u \in S} : IsIndex(v)}
           Solves(g, n) == g = [d \in 0..n |-> IF d = 0 THEN Seeds[RunScope] ELSE More(g[d - 1])]
           G == {n \in Nat : \E g : Solves(g, n)}
<1> HIDE DEF More
<1>2. 0 \in G
  <2>1. Solves([d \in 0..0 |-> Seeds[RunScope]], 0)
    OBVIOUS
  <2> QED
    BY <2>1
<1>3. ASSUME NEW n \in Nat, n \in G PROVE n + 1 \in G
  <2>1. PICK g : Solves(g, n)
    BY <1>3
  <2> DEFINE h == [d \in 0..n + 1 |-> IF d <= n THEN g[d] ELSE More(g[n])]
  <2>2. /\ \A d \in 0..n : h[d] = g[d]
        /\ h[n + 1] = More(g[n])
        /\ h = [d \in 0..n + 1 |-> h[d]]
    <3>1. n + 1 \in 0..n + 1 /\ ~(n + 1 <= n)
      OBVIOUS
    <3> QED
      BY <3>1
  <2> HIDE DEF h
  <2>3. \A d \in 0..n : g[d] = IF d = 0 THEN Seeds[RunScope] ELSE More(g[d - 1])
    BY <2>1
  <2>4. ASSUME NEW d \in 0..n + 1
        PROVE  h[d] = IF d = 0 THEN Seeds[RunScope] ELSE More(h[d - 1])
    <3>1. CASE d = n + 1
      <4>1. d # 0 /\ d - 1 = n /\ n \in 0..n
        BY <3>1
      <4> QED
        BY <2>2, <3>1, <4>1
    <3>2. CASE d \in 0..n
      <4>1. d # 0 => d - 1 \in 0..n
        BY <3>2
      <4> QED
        BY <2>2, <2>3, <3>2, <4>1
    <3> QED
      BY <3>1, <3>2
  <2>5. Solves(h, n + 1)
    BY <2>2, <2>4
  <2> QED
    BY <2>5
<1>4. MaxDepth \in G
  <2> HIDE DEF G
  <2>1. \A n \in Nat : n \in G => n + 1 \in G
    BY <1>3
  <2>2. \A n \in Nat : n \in G
    BY <1>2, <2>1, NatSet
  <2> QED
    BY <2>2 DEF QueueAssumption
<1>5. \E g : Solves(g, MaxDepth)
  BY <1>4
<1>6. Within = CHOOSE g : Solves(g, MaxDepth)
  BY DEF Within, More
<1>7. Solves(Within, MaxDepth)
  BY <1>5, <1>6
<1> QED
  BY <1>7 DEF More

\* The pages within some distance are index pages of the site.
LEMMA WithinPages ==
    ASSUME QueueAssumption, Calm, NEW d \in 0..MaxDepth
    PROVE  Within[d] \subseteq Url \ DocRoute
<1> DEFINE G == {n \in Nat : n <= MaxDepth => Within[n] \subseteq Url \ DocRoute}
<1>0. Seeds[RunScope] \subseteq Url \ DocRoute
  <2>1. RunScope \in Scope
    BY DEF Calm, QueueAssumption
  <2> QED
    BY <2>1 DEF QueueAssumption
<1>1. 0 \in G
  <2>1. 0 \in 0..MaxDepth
    BY DEF QueueAssumption
  <2> QED
    BY <1>0, <2>1, WithinForm
<1>2. ASSUME NEW n \in Nat, n \in G, n + 1 <= MaxDepth
      PROVE  Within[n + 1] \subseteq Url \ DocRoute
  <2>1. n \in 0..MaxDepth /\ n + 1 \in 0..MaxDepth /\ n + 1 # 0 /\ (n + 1) - 1 = n
    BY <1>2 DEF QueueAssumption
  <2>2. Within[n + 1] = Within[n] \cup {v \in UNION {Links(u) : u \in Within[n]} : IsIndex(v)}
    BY <2>1, WithinForm
  <2>3. \A u \in Url : Links(u) \subseteq Url
    BY DEF Links, QueueAssumption
  <2>4. \A v : IsIndex(v) => v \notin DocRoute
    BY DEF IsIndex, Kind
  <2> QED
    BY <1>2, <2>2, <2>3, <2>4
<1>3. \A n \in Nat : n \in G
  <2> HIDE DEF G
  <2>1. \A n \in Nat : n \in G => n + 1 \in G
    BY <1>2 DEF G
  <2> QED
    BY <1>1, <2>1, NatSet
<1> QED
  BY <1>3 DEF QueueAssumption

\* However far one looks from the seeds, every page is queued at its distance or
\* nearer, or there is an open page nearer still.
LEMMA Nearer ==
    ASSUME QueueAssumption, Calm, TypeOK, Seeded, Closed, \E u \in Url : Present(u),
           NEW d \in 0..MaxDepth, NEW v \in Within[d]
    PROVE  \/ Present(v) /\ queue[v].depth <= d
           \/ \E w \in Url : Open(w) /\ queue[w].depth < d
<1> DEFINE Found(u, n) == \/ Present(u) /\ queue[u].depth <= n
                          \/ \E w \in Url : Open(w) /\ queue[w].depth < n
           G == {n \in Nat : n <= MaxDepth => \A u \in Within[n] : Found(u, n)}
<1>0. \A u \in Url : queue[u].depth \in Nat
  BY DEF TypeOK, Row
<1>1. 0 \in G
  <2>1. 0 \in 0..MaxDepth
    BY DEF QueueAssumption
  <2>2. Within[0] = Seeds[RunScope]
    BY <2>1, WithinForm
  <2>3. \A u \in Seeds[RunScope] : Present(u) /\ queue[u].depth = 0
    BY DEF Seeded
  <2> QED
    BY <2>2, <2>3
<1>2. ASSUME NEW n \in Nat, n \in G, n + 1 <= MaxDepth, NEW u \in Within[n + 1]
      PROVE  Found(u, n + 1)
  <2>1. n \in 0..MaxDepth /\ n + 1 \in 0..MaxDepth /\ n + 1 # 0 /\ (n + 1) - 1 = n
    BY <1>2 DEF QueueAssumption
  <2>2. Within[n + 1] = Within[n] \cup {w \in UNION {Links(p) : p \in Within[n]} : IsIndex(w)}
    BY <2>1, WithinForm
  <2>3. \A p \in Within[n] : Found(p, n) /\ p \in Url \ DocRoute
    BY <1>2, <2>1, WithinPages
  <2>4. u \in Url
    BY <2>1, WithinPages
  <2>5. CASE u \in Within[n]
    <3>1. Found(u, n)
      BY <2>3, <2>5
    <3> QED
      BY <1>0, <2>4, <3>1
  <2>6. CASE u \notin Within[n]
    <3>1. PICK p \in Within[n] : u \in Links(p) /\ IsIndex(u)
      BY <2>2, <2>6
    <3>2. Found(p, n) /\ p \in Url \ DocRoute
      BY <2>3
    <3>3. CASE \E w \in Url : Open(w) /\ queue[w].depth < n
      BY <1>0, <3>3
    <3>4. CASE Present(p) /\ queue[p].depth <= n /\ Open(p)
      BY <1>0, <3>2, <3>4
    <3>5. CASE Present(p) /\ queue[p].depth <= n /\ ~Open(p)
      <4>1. queue[p].depth < MaxDepth
        BY <1>0, <1>2, <3>2, <3>5 DEF QueueAssumption
      <4>2. Present(u) /\ queue[u].depth <= queue[p].depth + 1
        BY <3>1, <3>2, <3>5, <4>1 DEF Closed
      <4> QED
        BY <1>0, <2>4, <3>2, <3>5, <4>2
    <3> QED
      BY <3>2, <3>3, <3>4, <3>5
  <2> QED
    BY <2>5, <2>6
<1>3. \A n \in Nat : n \in G
  <2> HIDE DEF G, Found
  <2>1. \A n \in Nat : n \in G => n + 1 \in G
    BY <1>2 DEF G
  <2> QED
    BY <1>1, <2>1, NatSet
<1> QED
  BY <1>3 DEF QueueAssumption

\* So a page is queued at its distance.
LEMMA InvDistance ==
    ASSUME QueueAssumption, Calm, TypeOK, GraphInv
    PROVE  DepthIsDistance
<1> SUFFICES ASSUME NEW u \in Url \ DocRoute, Present(u), NEW d \in 0..MaxDepth,
                    d < queue[u].depth, u \in Within[d]
             PROVE  FALSE
  BY DEF DepthIsDistance, GraphInv, Reached
<1>1. \A w \in Url : queue[w].depth \in Nat
  BY DEF TypeOK, Row
<1>2. ~(queue[u].depth <= d)
  BY <1>1 DEF QueueAssumption
<1>3. PICK w \in Url : Open(w) /\ queue[w].depth < d
  BY <1>2, Nearer DEF GraphInv
<1>4. queue[u].depth <= queue[w].depth + 1
  BY <1>3 DEF GraphInv, Layered, Open
<1> QED
  BY <1>1, <1>3, <1>4 DEF QueueAssumption

\* And when every row is done, nothing within the limit is missing.
LEMMA InvComplete ==
    ASSUME QueueAssumption, Calm, TypeOK, CalmInv, "binary" \notin Faults
    PROVE  DrainedIsComplete
<1> SUFFICES ASSUME \E u \in Url : Present(u),
                    \A u \in Url : Present(u) => queue[u].status = "done"
             PROVE  /\ \A u \in Within[MaxDepth] : Present(u)
                    /\ \A u \in Url : Present(u) => \A v \in Links(u) \cap DocRoute : Present(v)
  BY DEF DrainedIsComplete
<1>1. ASSUME NEW w \in Url PROVE ~Open(w)
  <2> SUFFICES ASSUME Open(w) PROVE FALSE
    OBVIOUS
  <2>1. queue[w].status = "done"
    BY DEF Open
  <2>2. PICK c \in Crawler : pc[c] = "working" /\ job[c].url = w
    BY <2>1 DEF CalmInv, FrontierInv
  <2>3. queue[w].status = "running"
    BY <2>2 DEF CalmInv, HandsInv, Carries, InHand
  <2> QED
    BY <2>1, <2>3
<1>2. MaxDepth \in 0..MaxDepth
  BY DEF QueueAssumption
<1>3. \A u \in Within[MaxDepth] : Present(u)
  BY <1>1, <1>2, Nearer DEF CalmInv, GraphInv
<1> QED
  BY <1>3 DEF CalmInv, DocumentsInv, DocumentsQueued

\* Links lead to pages of the site, and an index link to an index page.
LEMMA LinksPages ==
    ASSUME QueueAssumption, NEW u \in Url
    PROVE  /\ Links(u) \subseteq Url
           /\ \A v \in Links(u) : IsIndex(v) => v \in Url \ DocRoute
  BY DEF Links, IsIndex, Kind, QueueAssumption

\* A step that queues no index page leaves the order as it is.
LEMMA SameGraph ==
    ASSUME QueueAssumption, Calm, GraphInv,
           \A u \in Url \ DocRoute :
               /\ queue'[u].status # "absent" <=> queue[u].status # "absent"
               /\ queue'[u].depth = queue[u].depth,
           (\E u \in Url : Present(u))' => \E u \in Url : Present(u)
    PROVE  GraphInv' /\ \A u \in Url : Open(u)' <=> Open(u)
<1>1. \A u \in Url \ DocRoute : Present(u)' <=> Present(u)
  BY DEF Present
<1>2. \A u \in Url : Open(u)' <=> Open(u)
  <2> TAKE u \in Url
  <2>1. CASE u \in DocRoute
    BY <2>1 DEF Open
  <2>2. CASE u \notin DocRoute
    <3>1. \A v \in Links(u) : IsIndex(v) => v \in Url \ DocRoute
      BY LinksPages
    <3> QED
      BY <1>1, <2>2, <3>1 DEF Open
  <2> QED
    BY <2>1, <2>2
<1>3. Seeded'
  <2>1. Seeds[RunScope] \subseteq Url \ DocRoute
    BY DEF Calm, QueueAssumption
  <2> QED
    BY <1>1, <2>1 DEF GraphInv, Seeded
<1>4. Reached'
  BY <1>1 DEF GraphInv, Reached
<1>5. Layered'
  BY <1>1, <1>2 DEF GraphInv, Layered
<1>6. Closed'
  <2> SUFFICES ASSUME NEW p \in Url \ DocRoute, Present(p)', ~Open(p)', queue'[p].depth < MaxDepth,
                      NEW v \in Links(p), IsIndex(v)
               PROVE  Present(v)' /\ queue'[v].depth <= queue'[p].depth + 1
    BY DEF Closed
  <2>1. v \in Url \ DocRoute
    BY LinksPages
  <2> QED
    BY <1>1, <1>2, <2>1 DEF GraphInv, Closed
<1> QED
  BY <1>2, <1>3, <1>4, <1>5, <1>6 DEF GraphInv

\* The seeds of an empty table are the pages at distance zero.
LEMMA SeedGraph ==
    ASSUME QueueAssumption, Calm, TypeOK, GraphInv, NEW c \in Crawler, Seed(c), scope[c] = RunScope
    PROVE  GraphInv' /\ \A u \in Url : Open(u)' => Open(u) \/ ~Present(u)
<1>0. RunScope \in Scope /\ Seeds[RunScope] \subseteq Url \ DocRoute
  <2>1. RunScope \in Scope
    BY DEF Calm, QueueAssumption
  <2> QED
    BY <2>1 DEF QueueAssumption
<1>1. CASE \E u \in Url : Present(u)
  <2>1. \A u \in Url : queue'[u] = queue[u]
    BY <1>0, <1>1 DEF Seed, GraphInv, Seeded
  <2>2. GraphInv' /\ \A u \in Url : Open(u)' <=> Open(u)
    BY <1>1, <2>1, SameGraph
  <2> QED
    BY <2>2
<1>2. CASE ~ \E u \in Url : Present(u)
  <2>1. \A u \in Url : /\ Present(u)' <=> u \in Seeds[RunScope]
                       /\ u \in Seeds[RunScope] => queue'[u].depth = 0
    <3>1. \A u \in Url : queue'[u] = IF u \in Seeds[RunScope]
                                     THEN NewRow("index", RunScope, 0, NoUrl) ELSE queue[u]
      BY <1>2 DEF Seed
    <3>2. /\ NewRow("index", RunScope, 0, NoUrl).status = "pending"
          /\ NewRow("index", RunScope, 0, NoUrl).depth = 0
      BY DEF NewRow
    <3>3. \A u \in Url : queue[u].status = "absent"
      BY <1>2 DEF Present
    <3> QED
      BY <3>1, <3>2, <3>3 DEF Present
  <2>2. 0 \in 0..MaxDepth /\ Within[0] = Seeds[RunScope]
    <3>1. 0 \in 0..MaxDepth
      BY DEF QueueAssumption
    <3> QED
      BY <3>1, WithinForm
  <2>3. Seeded' /\ Reached' /\ Layered'
    BY <1>0, <2>1, <2>2 DEF Seeded, Reached, Layered, Open
  <2>4. Closed'
    <3> SUFFICES ASSUME NEW p \in Url \ DocRoute, Present(p)', ~Open(p)', queue'[p].depth < MaxDepth,
                        NEW v \in Links(p), IsIndex(v)
                 PROVE  Present(v)' /\ queue'[v].depth <= queue'[p].depth + 1
      BY DEF Closed
    <3>1. v \in Url \ DocRoute
      BY LinksPages
    <3>2. Present(v)'
      BY DEF Open
    <3> QED
      BY <2>1, <3>1, <3>2
  <2> QED
    BY <1>2, <2>3, <2>4 DEF GraphInv
<1> QED
  BY <1>1, <1>2

\* Queueing the links of an index page that comes before every open one keeps the order.
LEMMA GrowGraph ==
    ASSUME QueueAssumption, Calm, TypeOK, GraphInv,
           NEW u \in Url \ DocRoute, Present(u),
           \A w \in Url : Open(w) => queue[u].depth <= queue[w].depth,
           \A v \in Url \ DocRoute : Present(v) => queue'[v] = queue[v],
           \A v \in Url \ DocRoute : ~Present(v) =>
               /\ queue'[v].status # "absent" <=>
                     v \in Links(u) /\ IsIndex(v) /\ queue[u].depth < MaxDepth
               /\ queue'[v].status # "absent" => queue'[v].depth = queue[u].depth + 1
    PROVE  GraphInv' /\ ~Open(u)' /\ \A w \in Url : Open(w)' => Open(w) \/ ~Present(w)
<1> DEFINE k == queue[u].depth
           New(v) == ~Present(v) /\ Present(v)'
<1>0. k \in 0..MaxDepth /\ \A v \in Url : queue[v].depth \in Nat
  BY DEF GraphInv, Reached, TypeOK, Row
<1>1. \A v \in Url \ DocRoute :
         /\ Present(v) => queue'[v] = queue[v] /\ Present(v)'
         /\ New(v) => queue'[v].depth = k + 1 /\ v \in Links(u) /\ IsIndex(v) /\ k < MaxDepth
         /\ ~Present(v) /\ v \in Links(u) /\ IsIndex(v) /\ k < MaxDepth => New(v)
         /\ Present(v)' => Present(v) \/ New(v)
  BY DEF Present
<1> HIDE DEF k, New
<1>2. \A v \in Url \ DocRoute : New(v) => Open(u)
  BY <1>1 DEF Open, New, k
<1>3. \A w \in Url : Open(w)' => Open(w) \/ New(w)
  <2> SUFFICES ASSUME NEW w \in Url, Open(w)', ~New(w) PROVE Open(w)
    OBVIOUS
  <2>1. w \in Url \ DocRoute /\ Present(w)'
    BY DEF Open
  <2>2. Present(w) /\ queue'[w] = queue[w]
    BY <1>1, <2>1
  <2>3. \A v \in Links(w) : IsIndex(v) /\ ~Present(v)' => ~Present(v)
    BY <1>1, <2>1, LinksPages
  <2> QED
    BY <2>1, <2>2, <2>3 DEF Open
<1>4. ~Open(u)'
  <2>1. \A v \in Links(u) : IsIndex(v) /\ k < MaxDepth => Present(v)'
    BY <1>1, LinksPages DEF New
  <2>2. queue'[u].depth = k
    BY <1>1 DEF k
  <2> QED
    BY <2>1, <2>2 DEF Open
<1>5. \A v \in Url \ DocRoute : Present(v) /\ Open(u) => queue[v].depth <= k + 1
  BY DEF GraphInv, Layered, k
<1>6. Seeded'
  <2>1. Seeds[RunScope] \subseteq Url \ DocRoute
    BY DEF Calm, QueueAssumption
  <2>2. \A v \in Seeds[RunScope] : Present(v) /\ queue[v].depth = 0
    BY DEF GraphInv, Seeded
  <2> QED
    BY <1>1, <2>1, <2>2 DEF Seeded
<1>7. Reached'
  <2> SUFFICES ASSUME NEW v \in Url \ DocRoute, Present(v)'
               PROVE  queue'[v].depth \in 0..MaxDepth /\ v \in Within[queue'[v].depth]
    BY DEF Reached
  <2>1. CASE Present(v)
    BY <1>1, <2>1 DEF GraphInv, Reached
  <2>2. CASE New(v)
    <3>1. /\ queue'[v].depth = k + 1 /\ v \in Links(u) /\ IsIndex(v)
          /\ k + 1 \in 0..MaxDepth /\ k + 1 # 0 /\ (k + 1) - 1 = k
      BY <1>0, <1>1, <2>2 DEF QueueAssumption
    <3>2. u \in Within[k]
      BY DEF GraphInv, Reached, k
    <3>3. Within[k + 1] = Within[k] \cup {w \in UNION {Links(p) : p \in Within[k]} : IsIndex(w)}
      BY <3>1, WithinForm
    <3>4. v \in Within[k + 1]
      BY <3>1, <3>2, <3>3
    <3> QED
      BY <3>1, <3>4
  <2> QED
    BY <1>1, <2>1, <2>2
<1>8. Layered'
  <2> SUFFICES ASSUME NEW v \in Url \ DocRoute, NEW w \in Url \ DocRoute, Present(v)', Open(w)'
               PROVE  queue'[v].depth <= queue'[w].depth + 1
    BY DEF Layered
  <2>0. queue[v].depth \in Nat /\ queue[w].depth \in Nat /\ k \in Nat
    BY <1>0
  <2>1. CASE Present(v) /\ Open(w)
    BY <1>1, <2>1 DEF GraphInv, Layered, Open
  <2>2. CASE Present(v) /\ New(w)
    BY <1>1, <1>2, <1>5, <2>0, <2>2
  <2>3. CASE New(v) /\ Open(w)
    <3>1. k <= queue[w].depth /\ Present(w)
      BY <2>3 DEF k, Open
    <3> QED
      BY <1>1, <2>0, <2>3, <3>1
  <2>4. CASE New(v) /\ New(w)
    BY <1>1, <2>0, <2>4
  <2> QED
    BY <1>1, <1>3, <2>1, <2>2, <2>3, <2>4
<1>9. Closed'
  <2> SUFFICES ASSUME NEW p \in Url \ DocRoute, Present(p)', ~Open(p)', queue'[p].depth < MaxDepth,
                      NEW v \in Links(p), IsIndex(v)
               PROVE  Present(v)' /\ queue'[v].depth <= queue'[p].depth + 1
    BY DEF Closed
  <2>0. v \in Url \ DocRoute /\ queue[v].depth \in Nat /\ queue[p].depth \in Nat /\ k \in Nat
    BY <1>0, LinksPages
  <2>1. Present(v)'
    BY DEF Open
  <2>2. CASE New(p) /\ Present(v)
    BY <1>1, <1>2, <1>5, <2>0, <2>1, <2>2
  <2>3. CASE New(p) /\ New(v)
    BY <1>1, <2>0, <2>1, <2>3
  <2>4. CASE Present(p) /\ Present(v) /\ Open(p)
    BY <1>1, <2>0, <2>1, <2>4 DEF GraphInv, Layered
  <2>5. CASE Present(p) /\ Present(v) /\ ~Open(p)
    BY <1>1, <2>0, <2>1, <2>5 DEF GraphInv, Closed
  <2>6. CASE Present(p) /\ New(v) /\ Open(p)
    <3>1. k <= queue[p].depth
      BY <2>6 DEF k
    <3> QED
      BY <1>1, <2>0, <2>1, <2>6, <3>1
  <2>7. CASE Present(p) /\ New(v) /\ ~Open(p)
    <3>1. queue[p].depth < MaxDepth
      BY <1>1, <2>7
    <3>2. Present(v)
      BY <2>7, <3>1 DEF Open
    <3> QED
      BY <2>7, <3>2 DEF New
  <2> QED
    BY <1>1, <2>0, <2>1, <2>2, <2>3, <2>4, <2>5, <2>6, <2>7
<1> QED
  BY <1>3, <1>4, <1>6, <1>7, <1>8, <1>9 DEF GraphInv, New

-----------------------------------------------------------------------------
\* While a crawler is up, or is the one that may be, the others are off.
LEMMA OthersOff ==
    ASSUME HandsInv, NEW c \in Crawler, pc[c] # "off"
    PROVE  \A d \in Crawler \ {c} : pc[d] = "off"
  BY DEF HandsInv

\* What one crawler does is all that changes hands.
LEMMA HandsStep ==
    ASSUME TypeOK, HandsInv, NEW c \in Crawler,
           plan' = {}, orphans' = {}, \A d \in Crawler : doomed'[d] = {},
           \A d \in Crawler \ {c} : pc'[d] = "off",
           pc'[c] \in {"off", "adopt", "purge", "seed", "loop"} \cup InHand,
           pc'[c] = "adopt" => RunScope = "all",
           pc'[c] # "off" => scope'[c] = RunScope,
           pc'[c] \in InHand => Carries(c)'
    PROVE  HandsInv'
<1> SUFFICES ASSUME NEW d \in Crawler
             PROVE  /\ pc'[d] \in {"off", "adopt", "purge", "seed", "loop"} \cup InHand
                    /\ pc'[d] = "adopt" => RunScope = "all"
                    /\ pc'[d] # "off" => scope'[d] = RunScope
                                         /\ \A b \in Crawler \ {d} : pc'[b] = "off"
                    /\ pc'[d] \in InHand => Carries(d)'
  BY DEF HandsInv
<1>1. CASE d = c
  BY <1>1
<1>2. CASE d # c
  BY <1>2 DEF InHand
<1> QED
  BY <1>1, <1>2

\* A step that only moves rows between pending, running and done keeps the order of
\* the crawl and the shape of the rows.
LEMMA KeptRows ==
    ASSUME QueueAssumption, Calm, GraphInv, RowsInv,
           \A u \in Url :
               /\ queue'[u].status # "absent" <=> queue[u].status # "absent"
               /\ queue'[u].depth = queue[u].depth /\ queue'[u].type = queue[u].type
               /\ queue'[u].from = queue[u].from
               /\ Present(u) => /\ queue'[u].scope = RunScope
                                /\ queue'[u].status \in {"pending", "running", "done"}
                                /\ queue'[u].status = "pending" => queue'[u].wait = 0
    PROVE  /\ GraphInv' /\ RowsInv'
           /\ \A u \in Url : (Open(u)' <=> Open(u)) /\ (Present(u)' <=> Present(u))
           /\ \A u \in Url : DocumentsQueued(u)' <=> DocumentsQueued(u)
<1>1. \A u \in Url : Present(u)' <=> Present(u)
  BY DEF Present
<1>2. GraphInv' /\ \A u \in Url : Open(u)' <=> Open(u)
  BY <1>1, SameGraph
<1>3. RowsInv'
  BY <1>1 DEF RowsInv
<1>4. \A u \in Url : DocumentsQueued(u)' <=> DocumentsQueued(u)
  BY <1>1, LinksPages DEF DocumentsQueued
<1> QED
  BY <1>1, <1>2, <1>3, <1>4

\* The same for a step that leaves the queue alone.
LEMMA QuietRows ==
    ASSUME QueueAssumption, Calm, GraphInv, RowsInv, queue' = queue
    PROVE  /\ GraphInv' /\ RowsInv'
           /\ \A u \in Url : (Open(u)' <=> Open(u)) /\ (Present(u)' <=> Present(u))
           /\ \A u \in Url : DocumentsQueued(u)' <=> DocumentsQueued(u)
<1>1. \A u \in Url : Present(u) => /\ queue[u].scope = RunScope
                                   /\ queue[u].status \in {"pending", "running", "done"}
                                   /\ queue[u].status = "pending" => queue[u].wait = 0
  BY DEF RowsInv
<1> QED
  BY <1>1, KeptRows

\* The frontier when nobody has chosen a page: the open ones are pending.
LEMMA IdleFrontier ==
    ASSUME \A c \in Crawler : pc'[c] \notin {"selected", "working"},
           \A w \in Url : Open(w)' => queue'[w].status = "pending"
    PROVE  FrontierInv'
  BY DEF FrontierInv

\* An open page is pending unless the one crawler works on it.
LEMMA OpenPending ==
    ASSUME HandsInv, FrontierInv, NEW c \in Crawler, \A d \in Crawler \ {c} : pc[d] = "off",
           NEW w \in Url, Open(w), pc[c] = "working" => job[c].url # w
    PROVE  queue[w].status = "pending"
  BY DEF FrontierInv

\* Documents, when nobody finishes a page and none becomes done.
LEMMA DocumentsStep ==
    ASSUME DocumentsInv,
           \A u \in Url : DocumentsQueued(u) => DocumentsQueued(u)',
           \A u \in Url : queue'[u].status = "done" => queue[u].status = "done",
           \A c \in Crawler : pc'[c] # "finish"
    PROVE  DocumentsInv'
  BY DEF DocumentsInv

-----------------------------------------------------------------------------
\* The start-up of a run: nothing is stale, out of scope or missing but the seeds.
LEMMA StartUpCalm ==
    ASSUME QueueAssumption, Calm, TypeOK, RunningIsOwned, CalmInv, OneRuns,
           NEW c \in Crawler, StartUp(c)
    PROVE  CalmInv'
<1> USE DEF CalmInv
<1>1. ASSUME NEW s \in StartScopes, Start(c, s) PROVE CalmInv'
  <2>1. s = RunScope
    BY DEF Calm
  <2>2. pc'[c] \in {"adopt", "purge"} /\ \A d \in Crawler \ {c} : pc'[d] = pc[d]
    BY <1>1 DEF Start, TypeOK
  <2>3. \A d \in Crawler \ {c} : pc'[d] = "off"
    BY <2>2 DEF OneRuns
  <2>4. \A d \in Crawler : pc[d] = "off"
    BY <1>1, <2>2, <2>3 DEF Start
  <2>5. \A u \in Url : ~Stale(queue[u])
    BY <2>4 DEF RunningIsOwned, HandsInv, Stale, Holding
  <2>6. queue' = queue
    BY <1>1, <2>5 DEF Start, TypeOK
  <2>7. /\ GraphInv' /\ RowsInv'
        /\ \A u \in Url : (Open(u)' <=> Open(u)) /\ (Present(u)' <=> Present(u))
        /\ \A u \in Url : DocumentsQueued(u)' <=> DocumentsQueued(u)
    BY <2>6, QuietRows
  <2>8. HandsInv'
    <3>1. plan' = {} /\ orphans' = {} /\ \A d \in Crawler : doomed'[d] = {}
      BY <1>1 DEF Start, HandsInv
    <3>2. scope'[c] = RunScope /\ (pc'[c] = "adopt" => RunScope = "all")
      BY <1>1, <2>1 DEF Start, TypeOK
    <3> QED
      BY <2>2, <2>3, <3>1, <3>2, HandsStep DEF InHand
  <2>9. FrontierInv'
    BY <2>2, <2>3, <2>4, <2>6, <2>7, IdleFrontier, OpenPending
  <2>10. DocumentsInv'
    BY <2>2, <2>3, <2>6, <2>7, DocumentsStep
  <2> QED
    BY <2>7, <2>8, <2>9, <2>10
<1>2. CASE Adopt(c)
  <2>1. RunScope = "all" /\ scope[c] = RunScope /\ \A d \in Crawler \ {c} : pc[d] = "off"
    BY <1>2 DEF Adopt, HandsInv
  <2>2. pc' = [pc EXCEPT ![c] = "purge"] /\ pc'[c] = "purge" /\ \A d \in Crawler \ {c} : pc'[d] = "off"
    BY <1>2, <2>1 DEF Adopt, TypeOK
  <2>3. \A u \in Url : /\ queue'[u].status = queue[u].status /\ queue'[u].depth = queue[u].depth
                       /\ queue'[u].type = queue[u].type /\ queue'[u].from = queue[u].from
                       /\ queue'[u].wait = queue[u].wait /\ queue'[u].scope = "all"
    <3> TAKE u \in Url
    <3>1. queue[u] \in Row /\ queue'[u] = [queue[u] EXCEPT !.scope = "all"]
      BY <1>2 DEF Adopt, TypeOK
    <3> QED
      BY <3>1 DEF Row
  <2>4. /\ GraphInv' /\ RowsInv'
        /\ \A u \in Url : (Open(u)' <=> Open(u)) /\ (Present(u)' <=> Present(u))
        /\ \A u \in Url : DocumentsQueued(u)' <=> DocumentsQueued(u)
    <3>1. \A u \in Url : Present(u) => /\ queue'[u].scope = RunScope
                                       /\ queue'[u].status \in {"pending", "running", "done"}
                                       /\ queue'[u].status = "pending" => queue'[u].wait = 0
      BY <2>1, <2>3 DEF RowsInv
    <3> QED
      BY <2>3, <3>1, KeptRows
  <2>5. HandsInv'
    <3>1. /\ plan' = {} /\ orphans' = {} /\ \A d \in Crawler : doomed'[d] = {}
          /\ scope'[c] = RunScope
      BY <1>2, <2>1 DEF Adopt, HandsInv
    <3> QED
      BY <2>2, <3>1, HandsStep DEF InHand
  <2>6. FrontierInv'
    <3>1. \A w \in Url : Open(w)' => queue'[w].status = "pending"
      BY <1>2, <2>1, <2>3, <2>4, OpenPending DEF Adopt
    <3> QED
      BY <2>2, <3>1, IdleFrontier
  <2>7. DocumentsInv'
    BY <2>2, <2>3, <2>4, DocumentsStep
  <2> QED
    BY <2>4, <2>5, <2>6, <2>7
<1>3. CASE SelectDoomed(c)
  <2>1. scope[c] = RunScope /\ \A d \in Crawler \ {c} : pc[d] = "off"
    BY <1>3 DEF SelectDoomed, HandsInv
  <2>2. \A u \in Url : ~OutOfScope(u, scope[c])
    <3> SUFFICES ASSUME NEW u \in Url, OutOfScope(u, RunScope) PROVE FALSE
      BY <2>1
    <3>1. /\ queue[u].type = Kind(u, RunScope)
          /\ queue[u].from \in {NoUrl} \cup DocRoute \cup {p \in Url : AllowedFor(p, RunScope)}
      BY DEF OutOfScope, RowsInv
    <3> QED
      BY <3>1 DEF OutOfScope, Kind
  <2>3. /\ doomed'[c] = {} /\ pc'[c] = "seed" /\ queue' = queue
        /\ \A d \in Crawler \ {c} : pc'[d] = "off" /\ doomed'[d] = doomed[d]
    BY <1>3, <2>1, <2>2 DEF SelectDoomed, TypeOK
  <2>4. /\ GraphInv' /\ RowsInv'
        /\ \A u \in Url : (Open(u)' <=> Open(u)) /\ (Present(u)' <=> Present(u))
        /\ \A u \in Url : DocumentsQueued(u)' <=> DocumentsQueued(u)
    BY <2>3, QuietRows
  <2>5. HandsInv'
    <3>1. /\ plan' = {} /\ orphans' = {} /\ \A d \in Crawler : doomed'[d] = {}
          /\ scope'[c] = RunScope
      BY <1>3, <2>1, <2>3 DEF SelectDoomed, HandsInv
    <3> QED
      BY <2>3, <3>1, HandsStep DEF InHand
  <2>6. FrontierInv'
    <3>1. \A w \in Url : Open(w)' => queue'[w].status = "pending"
      BY <1>3, <2>1, <2>3, <2>4, OpenPending DEF SelectDoomed
    <3> QED
      BY <2>3, <3>1, IdleFrontier
  <2>7. DocumentsInv'
    BY <2>3, <2>4, DocumentsStep
  <2> QED
    BY <2>4, <2>5, <2>6, <2>7
<1>4. CASE DropDoomed(c)
  BY <1>4 DEF DropDoomed, HandsInv, InHand
<1>5. CASE Seed(c)
  <2>1. scope[c] = RunScope /\ \A d \in Crawler \ {c} : pc[d] = "off"
    BY <1>5 DEF Seed, HandsInv
  <2>2. pc'[c] = "loop" /\ \A d \in Crawler \ {c} : pc'[d] = "off"
    BY <1>5, <2>1 DEF Seed, TypeOK
  <2>3. GraphInv' /\ \A u \in Url : Open(u)' => Open(u) \/ ~Present(u)
    BY <1>5, <2>1, SeedGraph
  <2>4. \A u \in Url : /\ Present(u) => queue'[u] = queue[u] /\ Present(u)'
                       /\ ~Present(u) /\ Present(u)' =>
                              u \in Seeds[RunScope] /\ queue'[u] = NewRow("index", RunScope, 0, NoUrl)
    BY <1>5, <2>1 DEF Seed, Present
  <2>5. RowsInv'
    <3> SUFFICES ASSUME NEW u \in Url, Present(u)'
                 PROVE  /\ queue'[u].scope = RunScope /\ queue'[u].type = Kind(u, RunScope)
                        /\ queue'[u].status \in {"pending", "running", "done"}
                        /\ queue'[u].status = "pending" => queue'[u].wait = 0
                        /\ queue'[u].from \in {NoUrl} \cup DocRoute
                                              \cup {p \in Url : AllowedFor(p, RunScope)}
      BY DEF RowsInv
    <3>1. CASE Present(u)
      BY <2>4, <3>1 DEF RowsInv
    <3>2. CASE ~Present(u)
      <4>1. u \in Seeds[RunScope] /\ queue'[u] = NewRow("index", RunScope, 0, NoUrl)
        BY <2>4, <3>2
      <4>2. Kind(u, RunScope) = "index"
        <5>1. RunScope \in Scope /\ u \notin DocRoute
          BY <4>1 DEF Calm, QueueAssumption
        <5> QED
          BY <4>1, <5>1 DEF Calm, Kind
      <4> QED
        BY <4>1, <4>2 DEF NewRow
    <3> QED
      BY <3>1, <3>2
  <2>6. HandsInv'
    <3>1. /\ plan' = {} /\ orphans' = {} /\ \A d \in Crawler : doomed'[d] = {}
          /\ scope'[c] = RunScope
      BY <1>5, <2>1 DEF Seed, HandsInv
    <3> QED
      BY <2>2, <3>1, HandsStep DEF InHand
  <2>7. FrontierInv'
    <3>1. ASSUME NEW w \in Url, Open(w)' PROVE queue'[w].status = "pending"
      <4>1. CASE Open(w)
        BY <1>5, <2>1, <2>4, <4>1, OpenPending DEF Seed, Open
      <4>2. CASE ~Present(w)
        BY <2>4, <3>1, <4>2 DEF Open, NewRow
      <4> QED
        BY <2>3, <3>1, <4>1, <4>2
    <3> QED
      BY <2>2, <3>1, IdleFrontier
  <2>8. DocumentsInv'
    <3>1. \A u \in Url : DocumentsQueued(u) => DocumentsQueued(u)'
      BY <2>4, LinksPages DEF DocumentsQueued
    <3>2. \A u \in Url : queue'[u].status = "done" => queue[u].status = "done"
      BY <2>4 DEF Present, NewRow
    <3> QED
      BY <2>2, <3>1, <3>2, DocumentsStep
  <2> QED
    BY <2>3, <2>5, <2>6, <2>7, <2>8
<1> QED
  BY <1>1, <1>2, <1>3, <1>4, <1>5 DEF StartUp

\* A link of page u that discover_links admits.
Admitted(u, v, kinds) ==
    v \in Links(u) /\ Kind(v, RunScope) \in kinds /\ (IsIndex(v) => queue[u].depth < MaxDepth)

\* What discover_links does to the table, when the links are those of the page in hand.
LEMMA DiscoverRows ==
    ASSUME QueueAssumption, Calm, TypeOK, RowsInv, NEW c \in Crawler, scope[c] = RunScope,
           NEW u \in Url, job[c].url = u, Present(u), job[c].depth = queue[u].depth,
           NEW kinds \in SUBSET Pages, Discover(c, Links(u), kinds),
           u \in DocRoute \/ AllowedFor(u, RunScope)
    PROVE  /\ \A v \in Url : Present(v) => queue'[v] = queue[v]
           /\ \A v \in Url : ~Present(v) => (Present(v)' <=> Admitted(u, v, kinds))
           /\ \A v \in Url : ~Present(v) /\ Present(v)' => queue'[v].status = "pending"
           /\ \A v \in Url : ~Present(v) /\ Present(v)' => queue'[v].depth = job[c].depth + 1
           /\ RowsInv'
<1> DEFINE new == Wanted(Links(u), u, RunScope, queue[u].depth, kinds)
           row(v) == NewRow(Kind(v, RunScope), RunScope, queue[u].depth + 1, u)
<1>0. queue[u].depth \in Nat
  BY DEF TypeOK, Row
<1>1. \A v \in Url : queue'[v] = IF v \in new /\ ~Present(v) THEN row(v) ELSE queue[v]
  BY DEF Discover
<1>2. \A v \in Url : v \in new <=> /\ v \in Links(u) \ {u} /\ Kind(v, RunScope) \in kinds
                                   /\ IsIndex(v) => queue[u].depth < MaxDepth
  BY <1>0, LinksPages DEF Wanted, IsIndex, QueueAssumption
<1>3. \A v : row(v) = [type |-> Kind(v, RunScope), scope |-> RunScope,
                       depth |-> queue[u].depth + 1, from |-> u, status |-> "pending",
                       attempts |-> 0, age |-> 0, wait |-> 0, cls |-> "unclassified",
                       ext |-> FALSE]
  BY DEF NewRow
<1> HIDE DEF new, row
<1>4. \A v \in Url : Present(v) => queue'[v] = queue[v]
  BY <1>1
<1>5. \A v \in Url : ~Present(v) => /\ v \in new => queue'[v] = row(v)
                                    /\ v \notin new => queue'[v].status = "absent"
  BY <1>1 DEF Present
<1>6. ASSUME NEW v \in Url, ~Present(v)
      PROVE  /\ Present(v)' <=> v \in new
             /\ Present(v)' => queue'[v] = row(v)
  BY <1>3, <1>5, <1>6 DEF Present
<1>7. RowsInv'
  <2> SUFFICES ASSUME NEW v \in Url, Present(v)'
               PROVE  /\ queue'[v].scope = RunScope /\ queue'[v].type = Kind(v, RunScope)
                      /\ queue'[v].status \in {"pending", "running", "done"}
                      /\ queue'[v].status = "pending" => queue'[v].wait = 0
                      /\ queue'[v].from \in {NoUrl} \cup DocRoute
                                            \cup {p \in Url : AllowedFor(p, RunScope)}
    BY DEF RowsInv
  <2>1. CASE Present(v)
    BY <1>4, <2>1 DEF RowsInv
  <2>2. CASE ~Present(v)
    <3>1. queue'[v] = row(v)
      BY <1>6, <2>2
    <3> QED
      BY <1>3, <3>1
  <2> QED
    BY <2>1, <2>2
<1>8. ASSUME NEW v \in Url, ~Present(v)
      PROVE  /\ Present(v)' <=> Admitted(u, v, kinds)
             /\ Present(v)' => /\ queue'[v].status = "pending"
                               /\ queue'[v].depth = queue[u].depth + 1
  <2>1. v # u
    BY <1>8
  <2>2. Present(v)' <=> v \in new
    BY <1>6, <1>8
  <2>3. Present(v)' => queue'[v] = row(v)
    BY <1>6, <1>8
  <2>4. Present(v)' => queue'[v].status = "pending" /\ queue'[v].depth = queue[u].depth + 1
    BY <1>3, <2>3
  <2> QED
    BY <1>2, <2>1, <2>2, <2>4 DEF Admitted
<1> QED
  BY <1>4, <1>7, <1>8

\* A page fetched and its links queued: the order and the frontier move on.
LEMMA FetchedCalm ==
    ASSUME QueueAssumption, Calm, TypeOK, CalmInv, NEW c \in Crawler, NEW u \in Url,
           job[c].url = u,
           IndexFetched(c, Links(u)) \/ DocumentExtracted(c, Links(u))
    PROVE  CalmInv'
<1> USE DEF CalmInv
<1>1. /\ pc[c] = "working" /\ scope[c] = RunScope /\ \A d \in Crawler \ {c} : pc[d] = "off"
      /\ Present(u) /\ job[c].type = queue[u].type /\ job[c].depth = queue[u].depth
      /\ queue[u].status = "running"
  BY DEF IndexFetched, DocumentExtracted, HandsInv, Carries, InHand
<1>2. /\ queue[u].type = Kind(u, RunScope) /\ job[c] \in Job
  BY <1>1 DEF RowsInv, TypeOK
<1>3. /\ pc'[c] = "finish" /\ \A d \in Crawler \ {c} : pc'[d] = "off"
      /\ UNCHANGED <<orphans, scope, doomed, plan>>
      /\ job'[c].url = u /\ job'[c].type = job[c].type /\ job'[c].depth = job[c].depth
  <2>1. CASE IndexFetched(c, Links(u))
    BY <1>1, <1>2, <2>1 DEF IndexFetched, TypeOK, Job
  <2>2. CASE DocumentExtracted(c, Links(u))
    <3>1. \A j \in Job : /\ [j EXCEPT !.cls = "legal_document", !.ext = TRUE].url = j.url
                         /\ [j EXCEPT !.cls = "legal_document", !.ext = TRUE].type = j.type
                         /\ [j EXCEPT !.cls = "legal_document", !.ext = TRUE].depth = j.depth
      BY DEF Job
    <3> QED
      BY <1>1, <1>2, <2>2, <3>1 DEF DocumentExtracted, TypeOK
  <2> QED
    BY <2>1, <2>2
<1> DEFINE kinds == IF u \in DocRoute THEN {"document"} ELSE Pages
<1>4. /\ kinds \in SUBSET Pages /\ "document" \in kinds
      /\ (kinds = {"document"} /\ u \in DocRoute) \/ (kinds = Pages /\ u \notin DocRoute)
      /\ Discover(c, Links(u), kinds)
  <2>1. CASE IndexFetched(c, Links(u))
    <3>1. u \notin DocRoute
      BY <1>1, <1>2, <2>1 DEF IndexFetched, Kind
    <3>2. Discover(c, Links(u), Pages)
      BY <2>1 DEF IndexFetched
    <3> QED
      BY <3>1, <3>2
  <2>2. CASE DocumentExtracted(c, Links(u))
    <3>1. u \in DocRoute
      BY <1>1, <1>2, <2>2 DEF DocumentExtracted, Kind
    <3>2. Discover(c, Links(u), {"document"})
      BY <2>2 DEF DocumentExtracted, Calm
    <3>3. kinds = {"document"}
      BY <3>1
    <3>4. Discover(c, Links(u), kinds)
      BY ONLY <3>2, <3>3
    <3> QED
      BY <3>1, <3>3, <3>4
  <2> QED
    BY <2>1, <2>2
<1> HIDE DEF kinds
<1>5. u \in DocRoute \/ AllowedFor(u, RunScope)
  <2>1. queue[u].type \in Pages
    BY DEF TypeOK, Row
  <2> QED
    BY <1>2, <2>1 DEF Kind
<1>6. /\ \A v \in Url : Present(v) => queue'[v] = queue[v]
      /\ \A v \in Url : ~Present(v) =>
           /\ Present(v)' <=> Admitted(u, v, kinds)
           /\ Present(v)' => /\ queue'[v].status = "pending"
                             /\ queue'[v].depth = queue[u].depth + 1
      /\ RowsInv'
  <2>1. scope[c] = RunScope /\ Present(u) /\ job[c].depth = queue[u].depth /\ RowsInv
    BY <1>1
  <2>2. kinds \in SUBSET Pages /\ Discover(c, Links(u), kinds)
    BY <1>4
  <2> HIDE DEF CalmInv
  <2>3. \A v \in Url : Present(v) => queue'[v] = queue[v]
    BY <1>5, <2>1, <2>2, DiscoverRows
  <2>4. RowsInv'
    BY <1>5, <2>1, <2>2, DiscoverRows
  <2>5. ASSUME NEW v \in Url, ~Present(v)
        PROVE  Present(v)' <=> Admitted(u, v, kinds)
    BY <1>5, <2>1, <2>2, <2>5, DiscoverRows
  <2>6. ASSUME NEW v \in Url, ~Present(v), Present(v)'
        PROVE  /\ queue'[v].status = "pending"
               /\ queue'[v].depth = queue[u].depth + 1
    <3>1. queue'[v].status = "pending"
      BY <1>5, <2>1, <2>2, <2>6, DiscoverRows
    <3>2. queue'[v].depth = job[c].depth + 1
      BY <1>5, <2>1, <2>2, <2>6, DiscoverRows
    <3> QED
      BY <2>1, <3>1, <3>2
  <2> QED
    BY <2>3, <2>4, <2>5, <2>6
<1>7. GraphInv' /\ ~Open(u)' /\ \A w \in Url : Open(w)' => Open(w) \/ ~Present(w)
  <2>1. CASE u \in DocRoute
    <3>1. \A v \in Url \ DocRoute : ~Present(v) => ~Present(v)'
      BY <1>4, <1>6, <2>1 DEF Kind, Admitted
    <3>2. \A v \in Url \ DocRoute :
             /\ queue'[v].status # "absent" <=> queue[v].status # "absent"
             /\ Present(v) => queue'[v].depth = queue[v].depth
      BY <1>6, <3>1 DEF Present
    <3>3. \A v \in Url \ DocRoute : ~Present(v) => queue'[v] = queue[v]
      <4>1. \A v \in Url \ DocRoute : v \notin Wanted(Links(u), u, RunScope, queue[u].depth, kinds)
        BY <1>4, <2>1 DEF Wanted, Kind
      <4> QED
        BY <1>1, <1>4, <4>1 DEF Discover
    <3>4. GraphInv' /\ \A w \in Url : Open(w)' <=> Open(w)
      BY <1>1, <3>2, <3>3, SameGraph
    <3> QED
      BY <2>1, <3>4 DEF Open
  <2>2. CASE u \notin DocRoute
    <3>1. \A w \in Url : Open(w) => queue[u].depth <= queue[w].depth
      BY <1>1 DEF FrontierInv
    <3>2. \A v \in Url \ DocRoute : ~Present(v) =>
             /\ queue'[v].status # "absent" <=>
                   v \in Links(u) /\ IsIndex(v) /\ queue[u].depth < MaxDepth
             /\ queue'[v].status # "absent" => queue'[v].depth = queue[u].depth + 1
      <4>1. \A v \in Url \ DocRoute : Kind(v, RunScope) \in kinds <=> IsIndex(v)
        <5>1. "index" \in kinds /\ "none" \notin kinds
          BY <1>4, <2>2
        <5> QED
          BY <5>1 DEF Kind, IsIndex
      <4> QED
        BY <1>6, <4>1 DEF Present, Admitted
    <3> QED
      BY <1>1, <1>6, <2>2, <3>1, <3>2, GrowGraph
  <2> QED
    BY <2>1, <2>2
<1>8. HandsInv'
  <2>1. plan' = {} /\ orphans' = {} /\ (\A d \in Crawler : doomed'[d] = {}) /\ scope'[c] = RunScope
    BY <1>1, <1>3 DEF HandsInv
  <2>2. Carries(c)'
    BY <1>1, <1>3, <1>6 DEF Carries, Present
  <2> QED
    BY <1>3, <2>1, <2>2, HandsStep DEF InHand
<1>9. FrontierInv'
  <2>1. ASSUME NEW w \in Url, Open(w)' PROVE queue'[w].status = "pending"
    <3>1. CASE Open(w)
      <4>1. w # u
        BY <1>7, <2>1
      <4>2. queue[w].status = "pending"
        BY <1>1, <3>1, <4>1, OpenPending
      <4> QED
        BY <1>6, <3>1, <4>2 DEF Open
    <3>2. CASE ~Present(w)
      BY <1>6, <2>1, <3>2 DEF Open
    <3> QED
      BY <1>7, <2>1, <3>1, <3>2
  <2> QED
    BY <1>3, <2>1, IdleFrontier
<1>10. DocumentsInv'
  <2>1. \A v \in Url : Present(v) => Present(v)'
    BY <1>6 DEF Present
  <2>2. \A w \in Url : DocumentsQueued(w) => DocumentsQueued(w)'
    BY <2>1, LinksPages DEF DocumentsQueued
  <2>3. DocumentsQueued(u)'
    <3>1. \A v \in DocRoute : Kind(v, RunScope) = "document" /\ ~IsIndex(v)
      BY DEF Kind, IsIndex
    <3> QED
      BY <1>4, <1>6, <2>1, <3>1, LinksPages DEF DocumentsQueued, Admitted
  <2>4. \A w \in Url : queue'[w].status = "done" => queue[w].status = "done"
    BY <1>6 DEF Present
  <2> QED
    BY <1>3, <2>2, <2>3, <2>4 DEF DocumentsInv
<1> QED
  BY <1>6, <1>7, <1>8, <1>9, <1>10

\* A crawler that writes the row it has in hand, keeping what the row is.
LEMMA HandRows ==
    ASSUME QueueAssumption, Calm, TypeOK, GraphInv, RowsInv, NEW u \in Url, Present(u),
           NEW row \in Row, Update(u, row),
           row.type = queue[u].type, row.scope = queue[u].scope, row.depth = queue[u].depth,
           row.from = queue[u].from, row.status \in {"pending", "running", "done"},
           row.status = "pending" => row.wait = 0
    PROVE  /\ queue'[u] = row /\ \A v \in Url : v # u => queue'[v] = queue[v]
           /\ GraphInv' /\ RowsInv'
           /\ \A w \in Url : (Open(w)' <=> Open(w)) /\ (Present(w)' <=> Present(w))
           /\ \A w \in Url : DocumentsQueued(w)' <=> DocumentsQueued(w)
<1>1. queue'[u] = row /\ \A v \in Url : v # u => queue'[v] = queue[v]
  BY UpdateType
<1>2. \A v \in Url :
          /\ queue'[v].status # "absent" <=> queue[v].status # "absent"
          /\ queue'[v].depth = queue[v].depth /\ queue'[v].type = queue[v].type
          /\ queue'[v].from = queue[v].from
          /\ Present(v) => /\ queue'[v].scope = RunScope
                           /\ queue'[v].status \in {"pending", "running", "done"}
                           /\ queue'[v].status = "pending" => queue'[v].wait = 0
  <2> TAKE v \in Url
  <2>1. CASE v = u
    BY <1>1, <2>1 DEF RowsInv, Present
  <2>2. CASE v # u
    BY <1>1, <2>2 DEF RowsInv
  <2> QED
    BY <2>1, <2>2
<1>3. /\ GraphInv' /\ RowsInv'
      /\ \A w \in Url : (Open(w)' <=> Open(w)) /\ (Present(w)' <=> Present(w))
      /\ \A w \in Url : DocumentsQueued(w)' <=> DocumentsQueued(w)
  BY <1>2, KeptRows
<1> QED
  BY <1>1, <1>3

\* due_item: the page chosen comes before every open one.
LEMMA SelectCalm ==
    ASSUME QueueAssumption, Calm, TypeOK, CalmInv, NEW c \in Crawler, NEW u \in Url, Select(c, u)
    PROVE  CalmInv'
<1> USE DEF CalmInv
<1>1. pc[c] = "loop" /\ scope[c] = RunScope /\ \A d \in Crawler \ {c} : pc[d] = "off"
  BY DEF Select, HandsInv
<1>2. /\ pc'[c] = "selected" /\ queue' = queue /\ \A d \in Crawler \ {c} : pc'[d] = "off"
      /\ job'[c].url = u /\ job'[c].type = queue[u].type /\ job'[c].depth = queue[u].depth
  BY <1>1 DEF Select, TypeOK
<1>3. /\ GraphInv' /\ RowsInv'
      /\ \A w \in Url : (Open(w)' <=> Open(w)) /\ (Present(w)' <=> Present(w))
      /\ \A w \in Url : DocumentsQueued(w)' <=> DocumentsQueued(w)
  BY <1>2, QuietRows
<1>4. HandsInv'
  <2>1. /\ plan' = {} /\ orphans' = {} /\ (\A d \in Crawler : doomed'[d] = {})
        /\ scope'[c] = RunScope
    BY <1>1 DEF Select, HandsInv
  <2>2. Carries(c)'
    <3>1. Present(u)
      BY DEF Select, Due, Present
    <3> QED
      BY <1>2, <3>1 DEF Carries, Present
  <2> QED
    BY <1>2, <2>1, <2>2, HandsStep DEF InHand
<1>5. FrontierInv'
  <2>1. ASSUME NEW w \in Url, Open(w)
        PROVE  /\ queue[w].status = "pending"
               /\ queue[u].type = "index" /\ queue[u].depth <= queue[w].depth
    <3>1. queue[w].status = "pending"
      BY <1>1, <2>1, OpenPending
    <3>2. queue[w].scope = RunScope /\ queue[w].type = Kind(w, RunScope) /\ queue[w].wait = 0
      BY <2>1, <3>1 DEF RowsInv, Open
    <3>3. Due(w, scope[c])
      BY <1>1, <3>1, <3>2 DEF Due
    <3>4. ~Before(w, u)
      BY <3>3 DEF Select
    <3>5. queue[w] \in Row /\ queue[u] \in Row
      BY DEF TypeOK
    <3>6. queue[w].type = "index"
      BY <2>1, <3>2, <3>5 DEF Open, Kind, Row
    <3>7. queue[w].type \in Pages /\ queue[u].type \in Pages
          /\ queue[w].depth \in Nat /\ queue[u].depth \in Nat
      BY <3>5 DEF Row
    <3> QED
      BY <3>1, <3>4, <3>6, <3>7 DEF Before
  <2>2. \A d \in Crawler : pc'[d] \in {"selected", "working"} => d = c
    BY <1>2
  <2> QED
    BY <1>2, <1>3, <2>1, <2>2 DEF FrontierInv
<1>6. DocumentsInv'
  BY <1>2, <1>3, DocumentsStep
<1> QED
  BY <1>3, <1>4, <1>5, <1>6

\* claim_item, finish_item and requeue_interrupted move the row in hand along.
LEMMA HeldCalm ==
    ASSUME QueueAssumption, Calm, TypeOK, CalmInv, NEW c \in Crawler,
           Claim(c) \/ Finish(c) \/ Interrupt(c)
    PROVE  CalmInv'
<1> USE DEF CalmInv
<1>1. /\ pc[c] \in InHand /\ scope[c] = RunScope /\ \A d \in Crawler \ {c} : pc[d] = "off"
      /\ Carries(c)
  BY DEF Claim, Finish, Interrupt, Guarded, HandsInv, InHand
<1>2. PICK u \in Url : u = job[c].url
  <2>1. job[c].url \in Url
    BY <1>1, JobType DEF InHand, Guarded, Holding
  <2> QED
    BY <2>1
<1>3. queue[u] \in Row /\ Present(u) /\ job[c] \in Job
  BY <1>1, <1>2 DEF TypeOK, Carries
<1>4. CASE Claim(c)
  <2> DEFINE row == [queue[u] EXCEPT !.status = "running", !.age = 0,
                         !.attempts = Smaller(AttemptCap, @ + 1)]
  <2>1. /\ row \in Row /\ row.status = "running" /\ row.type = queue[u].type
        /\ row.scope = queue[u].scope /\ row.depth = queue[u].depth /\ row.from = queue[u].from
    <3>1. \A n \in 0..AttemptCap : Smaller(AttemptCap, n + 1) \in 0..AttemptCap
      BY DEF Smaller, QueueAssumption
    <3> QED
      BY <1>3, <3>1, Zeros DEF Row
  <2>2. Update(u, row)
    BY <1>2, <1>4 DEF Claim
  <2> HIDE DEF row
  <2>3. /\ queue'[u] = row /\ \A v \in Url : v # u => queue'[v] = queue[v]
        /\ GraphInv' /\ RowsInv'
        /\ \A w \in Url : (Open(w)' <=> Open(w)) /\ (Present(w)' <=> Present(w))
        /\ \A w \in Url : DocumentsQueued(w)' <=> DocumentsQueued(w)
    BY <1>3, <2>1, <2>2, HandRows
  <2>4. pc[c] = "selected" /\ pc'[c] = "working" /\ job' = job
        /\ \A d \in Crawler \ {c} : pc'[d] = "off"
    BY <1>1, <1>4 DEF Claim, TypeOK
  <2>5. HandsInv'
    <3>1. /\ plan' = {} /\ orphans' = {} /\ (\A d \in Crawler : doomed'[d] = {})
          /\ scope'[c] = RunScope
      BY <1>1, <1>4 DEF Claim, HandsInv
    <3>2. Carries(c)'
      BY <1>1, <1>2, <1>3, <2>1, <2>3, <2>4 DEF Carries
    <3> QED
      BY <2>4, <3>1, <3>2, HandsStep DEF InHand
  <2>6. FrontierInv'
    <3>1. ASSUME NEW w \in Url, Open(w)' PROVE w = u \/ queue'[w].status = "pending"
      <4>1. w # u => queue[w].status = "pending"
        BY <1>1, <2>3, <2>4, <3>1, OpenPending
      <4> QED
        BY <2>3, <4>1
    <3>2. \A w \in Url : Open(w)' => job'[c].type = "index" /\ job'[c].depth <= queue'[w].depth
      <4>1. \A w \in Url : queue'[w].depth = queue[w].depth
        BY <2>1, <2>3
      <4> QED
        BY <2>3, <2>4, <4>1 DEF FrontierInv
    <3>3. \A d \in Crawler : pc'[d] \in {"selected", "working"} => d = c
      BY <2>4
    <3> QED
      BY <1>2, <2>4, <3>1, <3>2, <3>3 DEF FrontierInv
  <2>7. DocumentsInv'
    <3>1. \A w \in Url : queue'[w].status = "done" => queue[w].status = "done"
      BY <2>1, <2>3
    <3>2. \A d \in Crawler : pc'[d] # "finish"
      BY <2>4
    <3> QED
      BY <2>3, <3>1, <3>2, DocumentsStep
  <2> QED
    BY <2>3, <2>5, <2>6, <2>7
<1>5. CASE Finish(c)
  <2> DEFINE refresh == IF job[c].type = "index" \/ job[c].cls = "confirmed_index"
                        THEN IndexRefresh ELSE DocumentRefresh
             row == [queue[u] EXCEPT !.status = "done", !.age = 0,
                         !.wait = refresh,
                         !.cls = IF job[c].cls = "none" THEN @ ELSE job[c].cls,
                         !.ext = @ \/ job[c].ext]
  <2>1. /\ row \in Row /\ row.status = "done" /\ row.type = queue[u].type
        /\ row.scope = queue[u].scope /\ row.depth = queue[u].depth /\ row.from = queue[u].from
    <3>1. refresh \in 0..MaxWait
      BY Zeros
    <3>2. /\ IF job[c].cls = "none" THEN queue[u].cls \in Class ELSE job[c].cls \in Class
          /\ (queue[u].ext \/ job[c].ext) \in BOOLEAN
      BY <1>3 DEF Row, Job
    <3> QED
      BY <1>3, <3>1, <3>2, Zeros DEF Row
  <2>2. Update(u, row)
    BY <1>2, <1>5 DEF Finish
  <2> HIDE DEF row
  <2>3. /\ queue'[u] = row /\ \A v \in Url : v # u => queue'[v] = queue[v]
        /\ GraphInv' /\ RowsInv'
        /\ \A w \in Url : (Open(w)' <=> Open(w)) /\ (Present(w)' <=> Present(w))
        /\ \A w \in Url : DocumentsQueued(w)' <=> DocumentsQueued(w)
    BY <1>3, <2>1, <2>2, HandRows
  <2>4. pc[c] = "finish" /\ pc'[c] = "reported" /\ job' = job
        /\ \A d \in Crawler \ {c} : pc'[d] = "off"
    BY <1>1, <1>5 DEF Finish, TypeOK
  <2>5. HandsInv'
    <3>1. /\ plan' = {} /\ orphans' = {} /\ (\A d \in Crawler : doomed'[d] = {})
          /\ scope'[c] = RunScope
      BY <1>1, <1>5 DEF Finish, HandsInv
    <3>2. Carries(c)'
      BY <1>1, <1>2, <1>3, <2>1, <2>3, <2>4 DEF Carries
    <3> QED
      BY <2>4, <3>1, <3>2, HandsStep DEF InHand
  <2>6. FrontierInv'
    <3>1. ASSUME NEW w \in Url, Open(w)' PROVE queue'[w].status = "pending"
      <4>1. queue[w].status = "pending"
        BY <1>1, <2>3, <2>4, <3>1, OpenPending
      <4>2. queue[u].status = "running"
        BY <1>1, <1>2, <2>4 DEF Carries
      <4> QED
        BY <2>3, <4>1, <4>2
    <3>2. \A d \in Crawler : pc'[d] \notin {"selected", "working"}
      BY <2>4
    <3> QED
      BY <3>1, <3>2, IdleFrontier
  <2>7. DocumentsInv'
    <3>1. \A w \in Url : w # u /\ queue'[w].status = "done" => queue[w].status = "done"
      BY <2>3
    <3>2. \A d \in Crawler : pc'[d] # "finish"
      BY <2>4
    <3> QED
      BY <1>2, <2>3, <2>4, <3>1, <3>2 DEF DocumentsInv
  <2> QED
    BY <2>3, <2>5, <2>6, <2>7
<1>6. CASE Interrupt(c)
  <2> DEFINE row == [queue[u] EXCEPT !.status = "pending", !.age = 0, !.wait = 0]
  <2>1. /\ row \in Row /\ row.status = "pending" /\ row.wait = 0 /\ row.type = queue[u].type
        /\ row.scope = queue[u].scope /\ row.depth = queue[u].depth /\ row.from = queue[u].from
    BY <1>3, Zeros DEF Row
  <2>2. Update(u, row)
    BY <1>2, <1>6 DEF Interrupt
  <2> HIDE DEF row
  <2>3. /\ queue'[u] = row /\ \A v \in Url : v # u => queue'[v] = queue[v]
        /\ GraphInv' /\ RowsInv'
        /\ \A w \in Url : (Open(w)' <=> Open(w)) /\ (Present(w)' <=> Present(w))
        /\ \A w \in Url : DocumentsQueued(w)' <=> DocumentsQueued(w)
    BY <1>3, <2>1, <2>2, HandRows
  <2>4. \A d \in Crawler : pc'[d] = "off"
    BY <1>1, <1>6 DEF Interrupt, TypeOK
  <2>5. HandsInv'
    <3>1. plan' = {} /\ orphans' = {} /\ (\A d \in Crawler : doomed'[d] = {})
      BY <1>6 DEF Interrupt, HandsInv
    <3> QED
      BY <2>4, <3>1, HandsStep DEF InHand
  <2>6. FrontierInv'
    <3>1. ASSUME NEW w \in Url, Open(w)' PROVE queue'[w].status = "pending"
      <4>1. w # u => queue[w].status = "pending"
        BY <1>1, <1>2, <2>3, <3>1, OpenPending
      <4> QED
        BY <2>1, <2>3, <4>1
    <3> QED
      BY <2>4, <3>1, IdleFrontier
  <2>7. DocumentsInv'
    <3>1. \A w \in Url : queue'[w].status = "done" => queue[w].status = "done"
      BY <2>1, <2>3
    <3> QED
      BY <2>3, <2>4, <3>1, DocumentsStep
  <2> QED
    BY <2>3, <2>5, <2>6, <2>7
<1> QED
  BY <1>4, <1>5, <1>6

\* The steps that leave the queue alone: a body that is not HTML, the next item, the end
\* of a run.
LEMMA AloneCalm ==
    ASSUME QueueAssumption, Calm, TypeOK, CalmInv, NEW c \in Crawler,
           BinaryFetched(c) \/ NextItem(c) \/ Exit(c)
    PROVE  CalmInv'
<1> USE DEF CalmInv
<1>1. /\ pc[c] # "off" /\ scope[c] = RunScope /\ queue' = queue
      /\ \A d \in Crawler \ {c} : pc[d] = "off" /\ pc'[d] = "off"
  BY DEF BinaryFetched, NextItem, Exit, HandsInv, TypeOK
<1>2. /\ GraphInv' /\ RowsInv'
      /\ \A w \in Url : (Open(w)' <=> Open(w)) /\ (Present(w)' <=> Present(w))
      /\ \A w \in Url : DocumentsQueued(w)' <=> DocumentsQueued(w)
  BY <1>1, QuietRows
<1>3. /\ plan' = {} /\ orphans' = {} /\ (\A d \in Crawler : doomed'[d] = {})
      /\ scope'[c] = RunScope
  BY <1>1 DEF BinaryFetched, NextItem, Exit, HandsInv
<1>4. CASE BinaryFetched(c)
  <2>1. pc[c] = "working" /\ pc'[c] = "finish" /\ job' = job /\ Carries(c)
    BY <1>4 DEF BinaryFetched, TypeOK, HandsInv, InHand
  <2>2. HandsInv'
    <3>1. Carries(c)'
      BY <1>1, <2>1 DEF Carries, Present
    <3> QED
      BY <1>1, <1>3, <2>1, <3>1, HandsStep DEF InHand
  <2>3. FrontierInv'
    <3>1. ASSUME NEW w \in Url, Open(w) PROVE queue'[w].status = "pending"
      <4>1. job[c].type = "index"
        BY <2>1, <3>1 DEF FrontierInv
      <4> QED
        BY <1>4, <4>1 DEF BinaryFetched
    <3>2. \A d \in Crawler : pc'[d] \notin {"selected", "working"}
      BY <1>1, <2>1
    <3> QED
      BY <1>2, <3>1, <3>2, IdleFrontier
  <2>4. DocumentsInv'
    BY <1>4 DEF BinaryFetched, DocumentsInv
  <2> QED
    BY <1>2, <2>2, <2>3, <2>4
<1>5. CASE NextItem(c) \/ Exit(c)
  <2>1. pc[c] # "working" /\ pc'[c] \in {"loop", "off"}
    BY <1>5 DEF NextItem, Exit, TypeOK
  <2>2. HandsInv'
    BY <1>1, <1>3, <2>1, HandsStep DEF InHand
  <2>3. FrontierInv'
    <3>1. ASSUME NEW w \in Url, Open(w)' PROVE queue'[w].status = "pending"
      <4>1. queue[w].status = "pending"
        BY <1>1, <1>2, <2>1, <3>1, OpenPending
      <4> QED
        BY <1>1, <4>1
    <3>2. \A d \in Crawler : pc'[d] \notin {"selected", "working"}
      BY <1>1, <2>1
    <3> QED
      BY <3>1, <3>2, IdleFrontier
  <2>4. DocumentsInv'
    <3>1. \A d \in Crawler : pc'[d] # "finish"
      BY <1>1, <2>1
    <3> QED
      BY <1>1, <1>2, <3>1, DocumentsStep
  <2> QED
    BY <1>2, <2>2, <2>3, <2>4
<1> QED
  BY <1>4, <1>5

\* Every step of the main loop keeps the calm.
LEMMA CrawlingCalm ==
    ASSUME QueueAssumption, Calm, TypeOK, CalmInv, NEW c \in Crawler, Crawling(c)
    PROVE  CalmInv'
<1>1. ASSUME NEW u \in Url, Select(c, u) PROVE CalmInv'
  BY <1>1, SelectCalm
<1>2. CASE Processing(c)
  <2>1. ASSUME NEW u \in Url, NEW found \in Versions[u], job[c].url = u,
               IndexFetched(c, found) \/ DocumentExtracted(c, found)
        PROVE  CalmInv'
    <3>1. found = Links(u)
      BY DEF Calm
    <3> QED
      BY <2>1, <3>1, FetchedCalm
  <2>2. CASE BinaryFetched(c)
    BY <2>2, AloneCalm
  <2>3. "heading" \notin Faults
    BY DEF Calm
  <2>4. ~Retype(c) /\ ~Record(c)
    BY DEF Retype, Record, CalmInv, HandsInv, InHand
  <2> QED
    BY <1>2, <2>1, <2>2, <2>3, <2>4 DEF Processing, NavigationConfirmed, HeadingMissing
<1>3. ~FailItem(c)
  BY DEF FailItem, Calm, CalmInv, HandsInv, InHand
<1> QED
  BY <1>1, <1>2, <1>3, HeldCalm, AloneCalm DEF Crawling

\* The clock keeps it, and the repair tool has nothing to repair.
LEMMA EnvironmentCalm ==
    ASSUME QueueAssumption, Calm, TypeOK, CalmInv,
           \/ \E u \in Url, d \in Class : PlanReclassification(u, d)
           \/ ApplyReclassification \/ Tick
    PROVE  CalmInv'
<1> USE DEF CalmInv
<1>1. ASSUME NEW u \in Url, NEW d \in Class, PlanReclassification(u, d) PROVE FALSE
  <2>1. Present(u) /\ queue[u].type = "index" /\ u \in DocRoute
    BY <1>1 DEF PlanReclassification, Candidate, Present
  <2> QED
    BY <2>1 DEF RowsInv, Kind
<1>2. CASE ApplyReclassification
  BY <1>2 DEF ApplyReclassification, HandsInv
<1>3. CASE Tick
  <2>1. \A u \in Url : /\ queue'[u].status = queue[u].status /\ queue'[u].depth = queue[u].depth
                       /\ queue'[u].type = queue[u].type /\ queue'[u].from = queue[u].from
                       /\ queue'[u].scope = queue[u].scope
                       /\ queue[u].wait = 0 => queue'[u].wait = 0
    <3> TAKE u \in Url
    <3>1. queue[u] \in Row
      BY DEF TypeOK
    <3>2. queue'[u] = [queue[u] EXCEPT !.wait = IF @ = 0 THEN 0 ELSE @ - 1,
                           !.age = IF queue[u].status = "running"
                                   THEN Smaller(StaleTicks + 1, @ + 1) ELSE @]
      BY <1>3 DEF Tick
    <3> QED
      BY <3>1, <3>2 DEF Row
  <2>2. /\ GraphInv' /\ RowsInv'
        /\ \A w \in Url : (Open(w)' <=> Open(w)) /\ (Present(w)' <=> Present(w))
        /\ \A w \in Url : DocumentsQueued(w)' <=> DocumentsQueued(w)
    <3>1. \A u \in Url : Present(u) => /\ queue'[u].scope = RunScope
                                       /\ queue'[u].status \in {"pending", "running", "done"}
                                       /\ queue'[u].status = "pending" => queue'[u].wait = 0
      BY <2>1 DEF RowsInv
    <3> QED
      BY <2>1, <3>1, KeptRows
  <2>3. HandsInv'
    <3>1. ASSUME NEW c \in Crawler, pc[c] \in InHand PROVE Carries(c)'
      <4>1. PICK u \in Url : u = job[c].url
        <5>1. job[c].url \in Url
          BY <3>1, JobType DEF InHand, Guarded, Holding
        <5> QED
          BY <5>1
      <4>2. pc' = pc /\ job' = job /\ Carries(c)
        BY <1>3, <3>1 DEF Tick, HandsInv
      <4>3. queue'[u].status = queue[u].status /\ queue'[u].depth = queue[u].depth
            /\ queue'[u].type = queue[u].type
        BY <2>1
      <4> QED
        BY <4>1, <4>2, <4>3 DEF Carries, Present
    <3> QED
      BY <1>3, <3>1 DEF Tick, HandsInv
  <2>4. FrontierInv'
    <3>1. pc' = pc /\ job' = job
      BY <1>3 DEF Tick
    <3>2. \A w \in Url : Open(w)' =>
              \/ queue'[w].status = "pending"
              \/ \E c \in Crawler : pc'[c] = "working" /\ job'[c].url = w
      BY <2>1, <2>2, <3>1 DEF FrontierInv
    <3>3. \A c \in Crawler : pc'[c] \in {"selected", "working"} =>
              \A w \in Url : Open(w)' => job'[c].type = "index" /\ job'[c].depth <= queue'[w].depth
      BY <2>1, <2>2, <3>1 DEF FrontierInv
    <3> QED
      BY <3>2, <3>3 DEF FrontierInv
  <2>5. DocumentsInv'
    <3>1. \A c \in Crawler : pc[c] = "finish" => job[c].url \in Url
      BY JobType DEF Guarded
    <3> QED
      BY <1>3, <2>1, <2>2, <3>1 DEF Tick, DocumentsInv
  <2> QED
    BY <2>2, <2>3, <2>4, <2>5
<1> QED
  BY <1>1, <1>2, <1>3

LEMMA CalmHolds == ASSUME QueueAssumption PROVE Calm => (CalmSpec => []CalmInv)
<1>1. ASSUME Calm, Init PROVE CalmInv
  <2>1. /\ \A u \in Url : queue[u].status = "absent"
        /\ plan = {} /\ orphans = {}
        /\ \A c \in Crawler : pc[c] = "off" /\ doomed[c] = {}
    BY <1>1 DEF Init, Calm, Absent, NewRow
  <2>2. GraphInv
    BY <2>1 DEF GraphInv, Seeded, Reached, Layered, Closed, Present
  <2>3. RowsInv /\ HandsInv /\ FrontierInv /\ DocumentsInv
    BY <2>1 DEF RowsInv, HandsInv, FrontierInv, DocumentsInv, Present, Open, InHand
  <2> QED
    BY <2>2, <2>3 DEF CalmInv
<1>2. ASSUME Calm, TypeOK, RunningIsOwned, CalmInv, [CalmNext]_vars PROVE CalmInv'
  <2>1. CASE UNCHANGED vars
    <3> USE DEF GraphInv, Seeded, Reached, Layered, Closed, RowsInv, HandsInv, FrontierInv,
                DocumentsInv, DocumentsQueued, Carries, Present, Open
    <3> QED
      BY <1>2, <2>1 DEF vars, CalmInv
  <2>2. CASE CalmNext
    <3>1. ~ \E c \in Crawler : Crash(c)
      BY <1>2 DEF Crash, Calm
    <3> QED
      BY <1>2, <2>2, <3>1, StartUpCalm, CrawlingCalm, HeldCalm, EnvironmentCalm
      DEF CalmNext, Next
  <2> QED
    BY <1>2, <2>1, <2>2
<1> SUFFICES ASSUME Calm PROVE CalmSpec => []CalmInv
  OBVIOUS
<1>3. Init => CalmInv
  BY <1>1
<1>4. TypeOK /\ RunningIsOwned /\ CalmInv /\ [CalmNext]_vars => CalmInv'
  BY <1>2
<1>5. [CalmNext]_vars => [Next]_vars
  BY DEF CalmNext
<1> QED
  BY <1>3, <1>4, <1>5, TypeCorrect, RunningOwned, PTL DEF CalmSpec, Spec

\* Breadth first: whatever the site, the depth a page is queued at - kept for ever - is
\* its distance from the seeds, however often the operator interrupts the run, and
\* although a refresh puts pages back among the due ones.
THEOREM CrawlIsBreadthFirst ==
    ASSUME QueueAssumption PROVE Calm => (CalmSpec => []DepthIsDistance)
<1> SUFFICES ASSUME Calm PROVE CalmSpec => []DepthIsDistance
  OBVIOUS
<1>1. CalmSpec => []CalmInv
  BY CalmHolds
<1>2. TypeOK /\ CalmInv => DepthIsDistance
  BY InvDistance DEF CalmInv
<1>3. [CalmNext]_vars => [Next]_vars
  BY DEF CalmNext
<1> QED
  BY <1>1, <1>2, <1>3, TypeCorrect, PTL DEF CalmSpec, Spec

\* Complete: when every row is done, no page within --max-depth and no document linked
\* from a row is missing, provided that every body is HTML (the links of one that is not
\* are never looked at).
THEOREM CrawlIsComplete ==
    ASSUME QueueAssumption
    PROVE  Calm /\ "binary" \notin Faults => (CalmSpec => []DrainedIsComplete)
<1> SUFFICES ASSUME Calm, "binary" \notin Faults PROVE CalmSpec => []DrainedIsComplete
  OBVIOUS
<1>1. CalmSpec => []CalmInv
  BY CalmHolds
<1>2. TypeOK /\ CalmInv => DrainedIsComplete
  BY InvComplete
<1>3. [CalmNext]_vars => [Next]_vars
  BY DEF CalmNext
<1> QED
  BY <1>1, <1>2, <1>3, TypeCorrect, PTL DEF CalmSpec, Spec
=============================================================================
