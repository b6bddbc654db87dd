----------------------------- MODULE LinkGraph -----------------------------
(***************************************************************************)
(* The graph updaters of Chapter07/crawler, which write what was crawled   *)
(* to the link graph.  An updater makes many calls of the store, each of   *)
(* which is a step, and several updaters run at once, in one process or in *)
(* several.                                                                *)
(***************************************************************************)
EXTENDS LinkStore

CONSTANTS
  Updater,  \* calls of graphUpdater.Process that may run at the same time
  Follow,   \* what payload.Links can be, as sets of pages
  NoFollow, \* what payload.NoFollowLinks can be
  MaxRuns,  \* bound: how many calls of Process are made
  CanFail   \* calls of the store can fail (CockroachDB)

ASSUME PagesAssumption == Follow \subseteq SUBSET Url /\ NoFollow \subseteq SUBSET Url
ASSUME RunsAssumption  == MaxRuns \in Nat
ASSUME FailAssumption  == CanFail \in BOOLEAN

VARIABLES
  pc,        \* where each updater is in Process; "done" when it succeeded
  url,       \* its payload.URL
  page,      \* its payload.Links
  todo,      \* links of the loop it is in that are still to be upserted
  stamp,     \* RetrievedAt of its src
  srcId, dstId, \* src.ID and dst.ID
  olderThan, \* removeEdgesOlderThan
  touched,   \* history: edges upserted, by anyone, since olderThan was taken
  runs,      \* bound: how many calls of Process were made
  alone      \* history: no updater of the same page ran at the same time

process == <<url, page, stamp>>
ids     == <<srcId, dstId>>
vars == <<now, store, pc, process, todo, ids, olderThan, touched, runs, alone>>

AnyUrl == CHOOSE p \in Url : TRUE  \* what the payload of an idle updater is

Init ==
  /\ now = 1
  /\ StoreInit
  /\ pc = [u \in Updater |-> "idle"]
  /\ url = [u \in Updater |-> AnyUrl]
  /\ page = [u \in Updater |-> {}] /\ todo = [u \in Updater |-> {}]
  /\ stamp = [u \in Updater |-> 0]
  /\ srcId = [u \in Updater |-> 0] /\ dstId = [u \in Updater |-> 0]
  /\ olderThan = [u \in Updater |-> 0]
  /\ touched = [u \in Updater |-> {}]
  /\ runs = 0
  /\ alone = [u \in Updater |-> FALSE]

-----------------------------------------------------------------------------
\* A client adds a page to be crawled.
Seed(p) ==
  /\ p \notin DOMAIN urlIndex
  /\ UpsertLink([id |-> 0, url |-> p, at |-> 0])
  /\ UNCHANGED <<now, edges, pc, process, todo, ids, olderThan, touched, runs, alone>>

-----------------------------------------------------------------------------
(* graphUpdater.Process.                                                   *)

Running(u) == pc[u] \notin {"idle", "done"}

Goto(u, from, to) ==
  /\ pc[u] = from
  /\ pc' = [pc EXCEPT ![u] = to]

\* Process returned; its locals are gone.
Forget(u) ==
  /\ page' = [page EXCEPT ![u] = {}]
  /\ todo' = [todo EXCEPT ![u] = {}]
  /\ srcId' = [srcId EXCEPT ![u] = 0]
  /\ dstId' = [dstId EXCEPT ![u] = 0]
  /\ olderThan' = [olderThan EXCEPT ![u] = 0]
  /\ touched' = [touched EXCEPT ![u] = {}]
  /\ alone' = [alone EXCEPT ![u] = FALSE]
  /\ url' = [url EXCEPT ![u] = AnyUrl]
  /\ stamp' = [stamp EXCEPT ![u] = 0]

\* Process is called with a page of the graph that was fetched, and takes the
\* time at which it calls UpsertLink for it.
Begin(u, k, noFollow) ==
  LET others == {v \in Updater \ {u} : Running(v) /\ url[v] = links[k].url} IN
  /\ ~Running(u)
  /\ runs < MaxRuns /\ runs' = runs + 1
  /\ pc' = [pc EXCEPT ![u] = "src"]
  /\ url'   = [url EXCEPT ![u] = links[k].url]
  /\ page'  \in {[page EXCEPT ![u] = f] : f \in Follow}
  /\ todo'  = [todo EXCEPT ![u] = noFollow]
  /\ stamp' = [stamp EXCEPT ![u] = now]
  /\ srcId' = [srcId EXCEPT ![u] = k]
  /\ alone' = [v \in Updater |-> IF v = u THEN others = {}
                                 ELSE alone[v] /\ v \notin others]
  /\ UNCHANGED <<now, store, dstId, olderThan, touched>>

UpsertSource(u) ==
  /\ Goto(u, "src", "noFollow")
  /\ UpsertLink([id |-> srcId[u], url |-> url[u], at |-> stamp[u]])
  /\ srcId' = [srcId EXCEPT ![u] = AssignedId(url[u])]
  /\ UNCHANGED <<now, edges, process, todo, dstId, olderThan, touched, runs, alone>>

UpsertNoFollow(u, p) ==
  /\ pc[u] = "noFollow" /\ p \in todo[u]
  /\ UpsertLink([id |-> 0, url |-> p, at |-> 0])
  /\ todo' = [todo EXCEPT ![u] = @ \ {p}]
  /\ UNCHANGED <<now, edges, pc, process, ids, olderThan, touched, runs, alone>>

\* removeEdgesOlderThan is taken when the no-follow links are done.
TakeTime(u) ==
  /\ todo[u] = {}
  /\ Goto(u, "noFollow", "links")
  /\ olderThan' = [olderThan EXCEPT ![u] = now]
  /\ touched'   = [touched EXCEPT ![u] = {}]
  /\ todo'      = [todo EXCEPT ![u] = page[u]]
  /\ UNCHANGED <<now, store, process, ids, runs, alone>>

UpsertTarget(u, p) ==
  /\ p \in todo[u]
  /\ Goto(u, "links", "edge")
  /\ UpsertLink([id |-> 0, url |-> p, at |-> 0])
  /\ dstId' = [dstId EXCEPT ![u] = AssignedId(p)]
  /\ todo'  = [todo EXCEPT ![u] = @ \ {p}]
  /\ UNCHANGED <<now, edges, process, srcId, olderThan, touched, runs, alone>>

UpsertTargetEdge(u) ==
  /\ Goto(u, "edge", "links")
  /\ UpsertEdge(srcId[u], dstId[u])
  /\ touched' = [v \in Updater |-> IF pc[v] \in {"links", "edge"}
                                 THEN touched[v] \cup {<<srcId[u], dstId[u]>>}
                                 ELSE {}]
  /\ UNCHANGED <<now, links, urlIndex, process, todo, ids, olderThan, runs, alone>>

\* (Mutated: the edges are removed before those of the page are upserted.)
FinishEarly(u) ==
  /\ Goto(u, "links", "done")
  /\ RemoveStaleEdges(srcId[u], olderThan[u])
  /\ Forget(u)
  /\ UNCHANGED <<now, links, urlIndex, runs>>

Finish(u) ==
  /\ todo[u] = {}
  /\ Goto(u, "links", "done")
  /\ RemoveStaleEdges(srcId[u], olderThan[u])
  /\ Forget(u)
  /\ UNCHANGED <<now, links, urlIndex, runs>>

\* A call fails, and Process returns its error: what was upserted stays, no
\* edge is removed.  (When the call had its effect and only the answer was
\* lost, that is the failure of the call that would have come next.)
CallFails(u) ==
  /\ CanFail
  /\ \/ pc[u] \in {"src", "edge", "links"}
     \/ pc[u] = "noFollow" /\ todo[u] # {}
  /\ pc' = [pc EXCEPT ![u] = "idle"]
  /\ Forget(u)
  /\ UNCHANGED <<now, store, runs>>

Tick ==
  /\ now < MaxTime
  /\ now' = now + 1
  /\ UNCHANGED <<store, pc, process, todo, ids, olderThan, touched, runs, alone>>

Updates(u) ==
  \/ \E k \in DOMAIN links, noFollow \in NoFollow : Begin(u, k, noFollow)
  \/ UpsertSource(u)
  \/ \E p \in todo[u] : UpsertNoFollow(u, p) \/ UpsertTarget(u, p)
  \/ TakeTime(u)
  \/ UpsertTargetEdge(u)
  \/ Finish(u)
  \/ CallFails(u)

Terminated ==
  /\ runs = MaxRuns /\ \A u \in Updater : ~Running(u)
  /\ UNCHANGED vars

Next ==
  \/ \E p \in Url : Seed(p)
  \/ \E u \in Updater : Updates(u)
  \/ Tick
  \/ Terminated

Spec == Init /\ [][Next]_vars

-----------------------------------------------------------------------------
(* Properties.                                                             *)

\* Every variable has its type.
TypeOK ==
  /\ now \in 1..MaxTime
  /\ \A k \in DOMAIN links :
       links[k] \in [id : 1..Cardinality(Url), url : Url, at : 0..MaxTime]
  /\ DOMAIN urlIndex \subseteq Url
  /\ \A e \in DOMAIN edges : edges[e] \in 0..MaxTime
  /\ pc \in [Updater -> {"idle", "src", "noFollow", "links", "edge", "done"}]
  /\ olderThan \in [Updater -> 0..MaxTime]

\* The two indexes of the store agree: a URL has one ID for ever, the link found
\* under an ID bears that ID, and what callers were told is that ID, so that
\* neither FindLink nor UpsertEdge misses a link.
IdsAgree ==
  /\ TypeOK
  /\ \A k \in DOMAIN links : links[k].id = k /\ urlIndex[links[k].url] = k
  /\ \A p \in DOMAIN urlIndex : \E l \in FindLink(urlIndex[p]) : l.url = p
  /\ \A u \in Updater : pc[u] \in {"noFollow", "links", "edge"} =>
       srcId[u] = urlIndex[url[u]]
  /\ \A u \in Updater : pc[u] = "edge" => dstId[u] \in DOMAIN links

\* The time at which a page was retrieved never goes back, although updaters
\* take it before their turn comes and link targets come with none.
NeverOlder ==
  [][\A k \in DOMAIN links : k \in DOMAIN links' /\ links'[k].at >= links[k].at]_vars

Succeeds(u) == pc[u] = "links" /\ pc'[u] = "done"

\* An updater removes no edge of another page, and none that was upserted, by
\* itself or by any other, since it took the time.
FreshEdgesSurvive ==
  [][\A u \in Updater : Succeeds(u) =>
       \A e \in DOMAIN edges :
         e[1] # srcId[u] \/ e \in touched[u] => e \in DOMAIN edges']_vars

\* When an updater that had the page to itself succeeds, the page has an edge
\* to each of its links, and to others only if those were upserted in the very
\* instant at which it took the time.
MirrorsPage ==
  [][\A u \in Updater : Succeeds(u) /\ alone[u] =>
       LET linked == {k \in DOMAIN links : links[k].url \in page[u]} IN
       /\ page[u] \subseteq DOMAIN urlIndex
       /\ \A d \in linked : <<srcId[u], d>> \in DOMAIN edges'
       /\ \A e \in DOMAIN edges' :
            e[1] = srcId[u] => e[2] \in linked \/ edges'[e] = olderThan[u]]_vars
=============================================================================
