----------------------------- MODULE LinkStore -----------------------------
(***************************************************************************)
(* The stores of Chapter06/linkgraph: links by ID and by URL, and edges.   *)
(* Every call is one critical section (in memory) or one statement         *)
(* (CockroachDB), and so one step of whoever makes it.                     *)
(*                                                                         *)
(* IDs are numbered in the order in which they are drawn; an edge is known *)
(* by its ends, which the stores keep unique, and not by its ID.           *)
(***************************************************************************)
EXTENDS Naturals, FiniteSets, Functions

CONSTANTS
  Url,      \* the pages
  MaxTime,  \* bound: when time stops
  StoreLag  \* how far the clock that stamps the edges is behind

ASSUME UrlAssumption  == IsFiniteSet(Url)
ASSUME TimeAssumption == MaxTime \in Nat \ {0} /\ StoreLag \in Nat

VARIABLES
  now,       \* the time; 0 is the zero time of a Link that sets none
  links,     \* by ID: the stored link, with its id, url and retrievedAt
  urlIndex,  \* the ID under which a URL is stored
  edges      \* updatedAt of the stored edges, by the IDs of their ends

store == <<links, urlIndex, edges>>

StoreInit == links = <<>> /\ urlIndex = <<>> /\ edges = <<>>

\* A map after m[k] = v.
Put(m, k, v) == [x \in DOMAIN m \cup {k} |-> IF x = k THEN v ELSE m[x]]

Later(s, t) == IF s > t THEN s ELSE t

NextId == Cardinality(DOMAIN links) + 1

\* UpsertLink(l), which writes the ID to assign[u].  A URL that is stored keeps
\* its ID, whatever ID the caller gave, and the later of the two times.
\* (Mutated: the caller's ID is kept; or: the caller's time.)
UpsertLinkGivenId(l) ==
  IF l.url \in DOMAIN urlIndex
    THEN LET k == urlIndex[l.url] IN
         /\ links' = [links EXCEPT ![k].id = l.id, ![k].at = Later(l.at, @)]
         /\ UNCHANGED urlIndex
    ELSE /\ links' = Put(links, NextId, [id |-> NextId, url |-> l.url, at |-> l.at])
         /\ urlIndex' = Put(urlIndex, l.url, NextId)

UpsertLinkGivenTime(l) ==
  IF l.url \in DOMAIN urlIndex
    THEN /\ links' = [links EXCEPT ![urlIndex[l.url]].at = l.at]
         /\ UNCHANGED urlIndex
    ELSE /\ links' = Put(links, NextId, [id |-> NextId, url |-> l.url, at |-> l.at])
         /\ urlIndex' = Put(urlIndex, l.url, NextId)

UpsertLink(l) ==
  IF l.url \in DOMAIN urlIndex
    THEN /\ links' = [links EXCEPT ![urlIndex[l.url]].at = Later(l.at, @)]
         /\ UNCHANGED urlIndex
    ELSE /\ links' = Put(links, NextId, [id |-> NextId, url |-> l.url, at |-> l.at])
         /\ urlIndex' = Put(urlIndex, l.url, NextId)

\* The ID that UpsertLink writes into the link it was given.
AssignedId(p) == links'[urlIndex'[p]].id

\* The link with an ID, if there is one.
FindLink(k) == {links[i] : i \in DOMAIN links \cap {k}}

\* The time that the store stamps an edge with.
StoreNow == IF now > StoreLag THEN now - StoreLag ELSE 0

UpsertEdge(src, dst) ==
  /\ {src, dst} \subseteq DOMAIN links
  /\ edges' = Put(edges, <<src, dst>>, StoreNow)

\* The edges from src that were updated before t.  (Mutated: at t, too.)
StaleOrEqual(src, t) == {e \in DOMAIN edges : e[1] = src /\ edges[e] <= t}
Stale(src, t) == {e \in DOMAIN edges : e[1] = src /\ edges[e] < t}

RemoveStaleEdges(src, t) == edges' = Restrict(edges, DOMAIN edges \ Stale(src, t))
=============================================================================
