---------------------------- MODULE MCCrawlSites ----------------------------
(* Three sites for TLC: a deep one with crawlers one after another that an   *)
(* operator may interrupt; a small one with two crawlers at once, failures   *)
(* and kills; and one whose pages may turn out to be something else, with    *)
(* one crawler at a time and everything that may go wrong.  One of them is   *)
(* crawled in a behaviour; each has a database of its own.                   *)
EXTENDS CrawlOrder

VARIABLES site, rows, links, lost, at, items, scopes, condemned, repair

small == <<rows, links, lost, at, items, scopes, condemned, repair>>

-----------------------------------------------------------------------------
(* The deep site: two chains of indexes that meet, "deep" is two links away  *)
(* through "sub", three through "near" and "far".                            *)
DeepDocRoute == {"law", "page", "leaf"}
DeepLegalSource == {"law"}
DeepTaxIndex == {"hub", "sub"}
DeepSeeds == [s \in Scope |-> {"hub"}]

DeepVersions ==
    LET found(u) == CASE u = "hub"  -> {"law", "page", "near", "sub"}
                      [] u = "near" -> {"far", "hub"}
                      [] u = "far"  -> {"deep"}
                      [] u = "sub"  -> {"deep", "page"}
                      [] u = "deep" -> {"edge"}
                      [] u = "page" -> {"law", "hub", "leaf"}
                      [] OTHER      -> {}
    IN  [u \in Url |-> {found(u)}]

-----------------------------------------------------------------------------
(* The small site: a hub and a document of a legal family.                   *)
Small == INSTANCE CrawlQueue WITH
    Url <- {"hub", "doc"}, DocRoute <- {"doc"}, LegalSource <- {"doc"},
    TaxIndex <- {"hub"}, Seeds <- [s \in Scope |-> {"hub"}],
    Versions <- [u \in {"hub", "doc"} |-> {IF u = "hub" THEN {"doc"} ELSE {}}],
    MaxDepth <- 1, Limited <- FALSE, Faults <- {"error", "crash", "heading"},
    queue <- rows, edges <- links, orphans <- lost, pc <- at, job <- items,
    scope <- scopes, doomed <- condemned, plan <- repair

(* The odd site: the hub links a page of unknown family under /docs/, which  *)
(* may turn out to be navigation, and links back.                            *)
Odd == INSTANCE CrawlQueue WITH
    Url <- {"hub", "doc"}, DocRoute <- {"doc"}, LegalSource <- {},
    TaxIndex <- {"hub"}, Seeds <- [s \in Scope |-> {"hub"}],
    Versions <- [u \in {"hub", "doc"} |-> {IF u = "hub" THEN {"doc"} ELSE {"hub"}}],
    StartScopes <- Scope, MaxDepth <- 1, Limited <- TRUE, Faults <- FaultKinds,
    StaleTicks <- 1, MaxBackoff <- 3, DocumentRefresh <- 2, AttemptCap <- 2,
    queue <- rows, edges <- links, orphans <- lost, pc <- at, job <- items,
    scope <- scopes, doomed <- condemned, plan <- repair

First == CHOOSE c \in Crawler : TRUE

OddNext == Odd!Next /\ \A c \in Crawler \ {First} : at'[c] = "off"

SitesInit == /\ Init
             /\ \/ site \in {"deep", "small"} /\ Small!Init
                \/ site = "odd" /\ Odd!Init

SitesNext ==
    /\ UNCHANGED site
    /\ \/ site = "deep" /\ CalmNext /\ UNCHANGED small
       \/ site = "small" /\ Small!Next /\ UNCHANGED vars
       \/ site = "odd" /\ OddNext /\ UNCHANGED vars

\* The fairness of CrawlQueue, for the small site.
SitesFairness ==
    /\ WF_small(site = "small" /\ Small!Tick)
    /\ \A c \in Crawler : /\ WF_small(site = "small" /\ Small!StartUp(c))
                          /\ WF_small(site = "small" /\ Small!Crawling(c))

SitesSpec == SitesInit /\ [][SitesNext]_<<vars, small, site>> /\ SitesFairness

\* No path through the loop leaves a row behind as `running`, on any of the sites:
\* such a row is in the hands of a live crawler - two may work on it - or was in the
\* hands of one that died.  due_item would never offer it again.
RowsAreOwned == RunningIsOwned /\ IF site = "odd" THEN Odd!RunningIsOwned ELSE Small!RunningIsOwned

\* On the small site a row left running by a crawler that died is taken up again, as
\* long as runs keep ending (reset_stale_running at the next start).
OrphansTakenUp == site = "small" => Small!OrphansRecovered
=============================================================================
