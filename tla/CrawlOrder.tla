------------------------------ MODULE CrawlOrder ------------------------------
(*****************************************************************************)
(* The order of the crawl, and what it finds, when the site stays as it is,  *)
(* crawlers run one after another and nothing fails.  The ORDER BY of        *)
(* due_item then makes the crawl breadth-first, although the queue is a      *)
(* table, a refresh puts pages back among the due ones, and an operator may  *)
(* interrupt a run anywhere.                                                 *)
(*****************************************************************************)
EXTENDS CrawlQueue

RunScope == CHOOSE s \in StartScopes : TRUE

Links(u) == UNION Versions[u]

\* The index pages discover_links admits in such a run.
IsIndex(u) == Kind(u, RunScope) = "index"

\* One --scope, whose seeds are pages of it, as in TAX_SEEDS and ALL_SEEDS; a site that
\* does not change; a new database; an operator who may interrupt, bodies that are not HTML.
Calm ==
    /\ StartScopes = {RunScope}
    /\ \A u \in Seeds[RunScope] : AllowedFor(u, RunScope)
    /\ \A u \in Url : Versions[u] = {Links(u)}
    /\ Legacy = {} /\ Faults \subseteq {"interrupt", "binary"}

\* Two crawlers could pass one another.
OneRuns == \E c \in Crawler : \A d \in Crawler \ {c} : pc'[d] = "off"

CalmNext == Next /\ OneRuns

CalmSpec == Init /\ [][CalmNext]_vars

\* The index pages within d links of a seed.
Within[d \in 0..MaxDepth] ==
    IF d = 0 THEN Seeds[RunScope]
    ELSE Within[d - 1] \cup {v \in UNION {Links(u) : u \in Within[d - 1]} : IsIndex(v)}

\* The depth a page is queued at - kept for ever by INSERT OR IGNORE - is its distance
\* from the seeds.
DepthIsDistance ==
    \A u \in Url \ DocRoute : Present(u) =>
       /\ queue[u].depth \in 0..MaxDepth /\ u \in Within[queue[u].depth]
       /\ \A d \in 0..MaxDepth : d < queue[u].depth => u \notin Within[d]

\* Hence nothing within --max-depth is missed: when every row is done, the queue
\* holds every index within that distance and every document linked from a row.
DrainedIsComplete ==
    (/\ \E u \in Url : Present(u)
     /\ \A u \in Url : Present(u) => queue[u].status = "done")
    => /\ \A u \in Within[MaxDepth] : Present(u)
       /\ \A u \in Url : Present(u) => \A v \in Links(u) \cap DocRoute : Present(v)
===============================================================================
