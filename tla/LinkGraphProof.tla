--------------------------- MODULE LinkGraphProof ---------------------------
(***************************************************************************)
(* Proofs about the link graph, its updaters and its readers, for any      *)
(* number of them and of pages, and for any clock.                         *)
(***************************************************************************)
EXTENDS LinkIterators, Integers, FiniteSetTheorems, TLAPS

(***************************************************************************)
(* The inductive invariant of the store and its updaters.                  *)
(***************************************************************************)

Time == 0..MaxTime

\* Updater u upserts the links of its page and the edges to them.
AddsEdges(u) == pc[u] \in {"links", "edge"}

\* The types of the locals of the updaters, which TypeOK leaves out.
Locals ==
  /\ url \in [Updater -> Url \cup {AnyUrl}]
  /\ page \in [Updater -> SUBSET Url]
  /\ todo \in [Updater -> SUBSET Url]
  /\ stamp \in [Updater -> Time]
  /\ srcId \in [Updater -> Nat] /\ dstId \in [Updater -> Nat]
  /\ touched \in [Updater -> SUBSET (Nat \X Nat)]
  /\ alone \in [Updater -> BOOLEAN]

\* The IDs are numbered through, and each URL has its own.
Indexed ==
  /\ DOMAIN links = 1..Cardinality(DOMAIN urlIndex)
  /\ \A k \in DOMAIN links :
       /\ links[k].id = k
       /\ links[k].url \in DOMAIN urlIndex /\ urlIndex[links[k].url] = k
  /\ \A p \in DOMAIN urlIndex :
       urlIndex[p] \in DOMAIN links /\ links[urlIndex[p]].url = p

\* An updater knows its page by the ID that the store has for it, and the
\* target of the edge that it is about to add, which is a link of the page.
Knows ==
  \A u \in Updater :
    /\ Running(u) => url[u] \in DOMAIN urlIndex /\ srcId[u] = urlIndex[url[u]]
    /\ pc[u] = "edge" =>
         \E p \in page[u] : p \in DOMAIN urlIndex /\ dstId[u] = urlIndex[p]
    /\ AddsEdges(u) => todo[u] \subseteq page[u]

\* No edge is stamped with a time that the store's clock has not reached, and no
\* updater took one that is still to come.
Stamped ==
  /\ \A e \in DOMAIN edges : e \in Nat \X Nat /\ edges[e] <= StoreNow
  /\ \A u \in Updater : olderThan[u] <= now

\* When the edges are stamped by the clock that the updaters read, those that
\* were touched since an updater took the time are not older than that.
TouchedAreFresh ==
  StoreLag = 0 =>
    \A u \in Updater : AddsEdges(u) =>
      \A e \in touched[u] \cap DOMAIN edges : edges[e] >= olderThan[u]

\* An updater that has its page to itself shares it with no running one.
AloneIsAlone ==
  \A u, v \in Updater :
    alone[u] /\ Running(u) /\ Running(v) /\ u # v => url[v] # url[u]

\* What an updater that has its page to itself did, it finds again: the links of
\* the page that it is done with are in the graph, with fresh edges to them, and
\* an edge that is newer than the time it took leads to one of its links.
DoneLink(u, p) ==
  /\ p \in DOMAIN urlIndex
  /\ \/ pc[u] = "edge" /\ dstId[u] = urlIndex[p]
     \/ /\ <<srcId[u], urlIndex[p]>> \in DOMAIN edges
        /\ edges[<<srcId[u], urlIndex[p]>>] >= olderThan[u]

Mirror(u) ==
  /\ StoreLag = 0 => \A p \in page[u] \ todo[u] : DoneLink(u, p)
  /\ \A e \in DOMAIN edges : e[1] = srcId[u] /\ edges[e] > olderThan[u] =>
       \E p \in page[u] : p \in DOMAIN urlIndex /\ e[2] = urlIndex[p]

Mirrors == \A u \in Updater : AddsEdges(u) /\ alone[u] => Mirror(u)

IInv ==
  /\ TypeOK
  /\ Locals
  /\ Indexed
  /\ Knows
  /\ Stamped
  /\ TouchedAreFresh
  /\ AloneIsAlone
  /\ Mirrors

(***************************************************************************)
(* Where a scan is, for which rows have a place by their UUIDs.            *)
(***************************************************************************)

\* Every row is about a link that has an ID, and so a UUID.
RowsHaveIds ==
  /\ DOMAIN links \subseteq 1..Cardinality(Url)
  /\ \A e \in DOMAIN edges : e[1] \in DOMAIN links
  /\ \A r \in rows \cup seen \cup due : r[1] \in 1..Cardinality(Url)

\* A client that is not reading has nothing, and one that is, is at a partition.
ScanState ==
  /\ reader \in {"idle", "open", "next", "over"}
  /\ reader \in {"open", "next"} => query \in Queries /\ partition \in 0..(query.parts - 1)
  /\ reader # "next" => rows = {}
  /\ reader \in {"idle", "over"} =>
       partition = 0 /\ seen = {} /\ due = {} /\ lost = FALSE

\* What is due is there still, and older than the partition that is read.
DueAreThere ==
  /\ before <= now /\ before \in Nat
  /\ \A r \in due : r \in DOMAIN Stored(query.of) /\ Stored(query.of)[r] < before

Token(r) == query.token[r[1]]
Start == FromId(query.parts, partition)
End   == ToId(query.parts, partition)

\* The rows before the partition were seen and no others, but for those of the
\* partition that the iterator is past.
SeenUpToHere ==
  /\ reader = "open" =>
       /\ \A r \in seen : Token(r) < Start
       /\ ~lost => \A r \in due : Token(r) < Start => r \in seen
  /\ reader = "next" =>
       /\ rows \cap seen = {}
       /\ \A r \in rows \cup seen : Token(r) < End
       /\ ~lost => \A r \in due : Token(r) < End => r \in rows \cup seen

PlaceInv == RowsHaveIds /\ ScanState /\ DueAreThere /\ SeenUpToHere

-----------------------------------------------------------------------------
(* Lemmas about the store.                                                 *)

\* The clock of the store follows the time.
LEMMA Clock ==
  ASSUME TypeOK
  PROVE  /\ now \in Nat /\ StoreNow \in Time /\ StoreNow <= now
         /\ StoreLag = 0 => StoreNow = now
         /\ now' \in Nat /\ now <= now' => StoreNow <= StoreNow'
  BY TimeAssumption DEF TypeOK, Time, StoreNow

\* UpsertLink changes no ID and takes no link away; it moves no time back.
LEMMA UpsertKeeps ==
  ASSUME TypeOK, Indexed, NEW l, l.url \in Url, l.at \in Time, UpsertLink(l)
  PROVE  /\ Indexed' /\ DOMAIN urlIndex' \subseteq Url
         /\ \A k \in DOMAIN links' :
              links'[k] \in [id : 1..Cardinality(Url), url : Url, at : Time]
         /\ l.url \in DOMAIN urlIndex'
         /\ AssignedId(l.url) = urlIndex'[l.url]
         /\ \A p \in DOMAIN urlIndex : p \in DOMAIN urlIndex' /\ urlIndex'[p] = urlIndex[p]
         /\ \A k \in DOMAIN links : /\ k \in DOMAIN links' /\ links'[k].at >= links[k].at
                                    /\ links'[k].url = links[k].url
  <1> USE DEF TypeOK, Indexed, Time
  <1>1. /\ IsFiniteSet(DOMAIN urlIndex) /\ Cardinality(DOMAIN urlIndex) \in Nat
        /\ Cardinality(Url) \in Nat
        /\ Cardinality(DOMAIN links) = Cardinality(DOMAIN urlIndex)
    <2>1. IsFiniteSet(DOMAIN urlIndex)
      BY UrlAssumption, FS_Subset
    <2>2. Cardinality(DOMAIN urlIndex) \in Nat /\ Cardinality(Url) \in Nat
      BY <2>1, UrlAssumption, FS_CardinalityType
    <2>3. Cardinality(DOMAIN links) = Cardinality(DOMAIN urlIndex)
      BY <2>2, FS_Interval
    <2> QED BY <2>1, <2>2, <2>3
  <1>2. CASE l.url \in DOMAIN urlIndex
    <2> DEFINE i == urlIndex[l.url]
    <2>1. /\ urlIndex' = urlIndex /\ i \in DOMAIN links
          /\ links' = [links EXCEPT ![i].at = Later(l.at, @)]
      BY <1>2 DEF UpsertLink
    <2>2. DOMAIN links' = DOMAIN links
      BY <2>1
    <2>3. \A k \in DOMAIN links :
            /\ links'[k].id = links[k].id /\ links'[k].url = links[k].url
            /\ links'[k].at \in 0..MaxTime /\ links'[k].at >= links[k].at
            /\ links'[k] \in [id : 1..Cardinality(Url), url : Url, at : 0..MaxTime]
      BY <2>1, TimeAssumption DEF Later
    <2>4. \A k \in DOMAIN links' :
            links'[k] \in [id : 1..Cardinality(Url), url : Url, at : Time]
      BY <2>2, <2>3
    <2>5. AssignedId(l.url) = urlIndex'[l.url]
      BY <2>1, <2>3 DEF AssignedId
    <2>6. Indexed' /\ DOMAIN urlIndex' \subseteq Url
      BY <2>1, <2>2, <2>3
    <2> QED BY <1>2, <2>1, <2>2, <2>3, <2>4, <2>5, <2>6
  <1>3. CASE l.url \notin DOMAIN urlIndex
    <2> DEFINE n == Cardinality(DOMAIN urlIndex) + 1
               r == [id |-> n, url |-> l.url, at |-> l.at]
    <2>1. links' = Put(links, n, r) /\ urlIndex' = Put(urlIndex, l.url, n)
      BY <1>1, <1>3 DEF UpsertLink, NextId
    <2>2. /\ DOMAIN urlIndex' = DOMAIN urlIndex \cup {l.url}
          /\ urlIndex'[l.url] = n
          /\ \A p \in DOMAIN urlIndex : urlIndex'[p] = urlIndex[p]
      BY <1>3, <2>1 DEF Put
    <2>3. Cardinality(DOMAIN urlIndex') = n
      BY <1>1, <1>3, <2>2, FS_AddElement
    <2>4. n \in Nat /\ n <= Cardinality(Url) /\ n \notin DOMAIN links
      BY <1>1, <2>2, <2>3, UrlAssumption, FS_Subset
    <2>5. /\ DOMAIN links' = DOMAIN links \cup {n}
          /\ links'[n] = r
          /\ \A k \in DOMAIN links : links'[k] = links[k]
      BY <2>1, <2>4 DEF Put
    <2>6. DOMAIN links' = 1..n
      BY <1>1, <2>5
    <2>7. r \in [id : 1..Cardinality(Url), url : Url, at : Time] /\ r.id = n /\ r.url = l.url
      BY <1>1, <2>4
    <2>8. AssignedId(l.url) = urlIndex'[l.url]
      BY <2>2, <2>5 DEF AssignedId
    <2> HIDE DEF n, r
    <2>9. Indexed'
      BY <2>2, <2>3, <2>5, <2>6, <2>7
    <2> QED BY <1>3, <2>2, <2>5, <2>7, <2>8, <2>9
  <1> QED BY <1>2, <1>3

\* While no ID changes and no edge of its page, nor where it is, an updater that
\* has its page to itself finds what it did.
LEMMA MirrorStays ==
  ASSUME IInv, NEW v \in Updater, AddsEdges(v), alone[v],
         pc'[v] = pc[v], page'[v] = page[v], todo'[v] = todo[v],
         srcId'[v] = srcId[v], dstId'[v] = dstId[v], olderThan'[v] = olderThan[v],
         \A p \in DOMAIN urlIndex : p \in DOMAIN urlIndex' /\ urlIndex'[p] = urlIndex[p],
         \A e : e[1] = srcId[v] => /\ e \in DOMAIN edges <=> e \in DOMAIN edges'
                                   /\ e \in DOMAIN edges => edges'[e] = edges[e]
  PROVE  Mirror(v)'
  <1>1. Mirror(v)
    BY DEF IInv, Mirrors
  <1>2. ASSUME StoreLag = 0, NEW p \in page[v] \ todo[v] PROVE DoneLink(v, p)'
    <2>1. DoneLink(v, p)
      BY <1>1, <1>2 DEF Mirror
    <2> DEFINE e == <<srcId[v], urlIndex[p]>>
    <2>2. e[1] = srcId[v]
      OBVIOUS
    <2>3. e \in DOMAIN edges => e \in DOMAIN edges' /\ edges'[e] = edges[e]
      BY <2>2
    <2> QED BY <2>1, <2>3 DEF DoneLink
  <1>3. ASSUME NEW e \in DOMAIN edges', e[1] = srcId[v], edges'[e] > olderThan[v]
        PROVE  \E p \in page[v] : p \in DOMAIN urlIndex' /\ e[2] = urlIndex'[p]
    BY <1>1, <1>3 DEF Mirror
  <1> QED BY <1>2, <1>3 DEF Mirror

\* Two running updaters, one of which has its page to itself, know different
\* IDs.
LEMMA OtherPage ==
  ASSUME IInv, NEW u \in Updater, NEW v \in Updater, u # v,
         alone[v], Running(u), Running(v)
  PROVE  srcId[u] # srcId[v]
  BY DEF IInv, AloneIsAlone, Knows, Indexed

-----------------------------------------------------------------------------
(* The invariant holds initially, and every action keeps it.               *)

\* The graph is empty and no updater has begun.
LEMMA InitIInv == Init => IInv
  <1> SUFFICES ASSUME Init PROVE IInv OBVIOUS
  <1> USE DEF Init, StoreInit, Running, AddsEdges
  <1>1. DOMAIN links = {} /\ DOMAIN urlIndex = {} /\ DOMAIN edges = {}
    OBVIOUS
  <1>2. TypeOK /\ Locals
    BY <1>1, TimeAssumption DEF TypeOK, Locals, Time
  <1>3. Indexed
    BY <1>1, FS_EmptySet DEF Indexed
  <1>4. Knows /\ Stamped /\ TouchedAreFresh /\ AloneIsAlone /\ Mirrors
    BY <1>1 DEF Knows, Stamped, TouchedAreFresh, AloneIsAlone, Mirrors
  <1> QED BY <1>2, <1>3, <1>4 DEF IInv

\* A link is upserted: by a client, or by an updater, for its page or for one
\* that this has a link to.

\* What a client or an updater does with a link that was upserted leaves the
\* store as the invariant says.
LEMMA UpsertedKeepsIInv ==
  ASSUME IInv, NEW l, l.url \in Url, l.at \in Time, UpsertLink(l),
         UNCHANGED <<now, edges, process, olderThan, touched, alone>>,
         pc' \in [Updater -> {"idle", "src", "noFollow", "links", "edge", "done"}],
         todo' \in [Updater -> SUBSET Url],
         srcId' \in [Updater -> Nat], dstId' \in [Updater -> Nat],
         \A v \in Updater : Running(v)' => Running(v),
         \A v \in Updater : AddsEdges(v)' => AddsEdges(v),
         Knows', Mirrors'
  PROVE  IInv'
  <1> USE Clock DEF IInv, process, Time
  <1>1. /\ Indexed' /\ DOMAIN urlIndex' \subseteq Url
        /\ \A k \in DOMAIN links' :
             links'[k] \in [id : 1..Cardinality(Url), url : Url, at : Time]
    BY UpsertKeeps
  <1>2. TypeOK'
    BY <1>1 DEF TypeOK
  <1>3. Locals'
    BY DEF Locals
  <1>4. Stamped' /\ TouchedAreFresh' /\ AloneIsAlone'
    BY DEF Stamped, StoreNow, TouchedAreFresh, AloneIsAlone
  <1> QED BY <1>1, <1>2, <1>3, <1>4

\* A client upserts a link that was never retrieved.
LEMMA SeedKeepsIInv ==
  ASSUME IInv, NEW p \in Url, Seed(p)
  PROVE  IInv'
  <1> USE DEF Seed, IInv, process, ids
  <1> DEFINE l == [id |-> 0, url |-> p, at |-> 0]
  <1>1. l.url \in Url /\ l.at \in Time /\ UpsertLink(l)
    BY TimeAssumption DEF Time
  <1> HIDE DEF l
  <1>2. \A q \in DOMAIN urlIndex : q \in DOMAIN urlIndex' /\ urlIndex'[q] = urlIndex[q]
    BY <1>1, UpsertKeeps
  <1>3. Knows'
    BY <1>2 DEF Knows, Running, AddsEdges
  <1>4. Mirrors'
    <2> SUFFICES ASSUME NEW v \in Updater, AddsEdges(v), alone[v] PROVE Mirror(v)'
      BY DEF Mirrors, AddsEdges
    <2> QED BY <1>2, MirrorStays
  <1>5. /\ pc' \in [Updater -> {"idle", "src", "noFollow", "links", "edge", "done"}]
        /\ todo' \in [Updater -> SUBSET Url]
        /\ srcId' \in [Updater -> Nat] /\ dstId' \in [Updater -> Nat]
    BY DEF TypeOK, Locals
  <1> QED BY <1>1, <1>3, <1>4, <1>5, UpsertedKeepsIInv DEF Running, AddsEdges

\* The page itself: the updater goes on with the ID that the store gave it.
LEMMA UpsertSourceKeepsIInv ==
  ASSUME IInv, NEW u \in Updater, UpsertSource(u)
  PROVE  IInv'
  <1> USE DEF UpsertSource, Goto, IInv, process
  <1> DEFINE l == [id |-> srcId[u], url |-> url[u], at |-> stamp[u]]
  <1>1. l.url \in Url /\ l.at \in Time /\ UpsertLink(l) /\ l.url = url[u]
    BY DEF TypeOK, Locals, Knows, Running
  <1> HIDE DEF l
  <1>2. /\ \A q \in DOMAIN urlIndex : q \in DOMAIN urlIndex' /\ urlIndex'[q] = urlIndex[q]
        /\ url[u] \in DOMAIN urlIndex' /\ AssignedId(url[u]) = urlIndex'[url[u]]
        /\ Indexed'
    BY <1>1, UpsertKeeps
  <1>3. /\ pc' \in [Updater -> {"idle", "src", "noFollow", "links", "edge", "done"}]
        /\ todo' \in [Updater -> SUBSET Url]
        /\ srcId' \in [Updater -> Nat] /\ dstId' \in [Updater -> Nat]
    BY <1>2 DEF TypeOK, Locals, Indexed
  <1>4. Knows'
    BY <1>2 DEF Knows, Running, AddsEdges, TypeOK, Locals
  <1>5. \A v \in Updater : AddsEdges(v)' =>
          AddsEdges(v) /\ pc'[v] = pc[v] /\ srcId'[v] = srcId[v] /\ u # v
    BY DEF AddsEdges, TypeOK, Locals
  <1>6. Mirrors'
    <2> SUFFICES ASSUME NEW v \in Updater, AddsEdges(v)', alone[v] PROVE Mirror(v)'
      BY DEF Mirrors
    <2> QED BY <1>2, <1>5, MirrorStays
  <1>7. \A v \in Updater : Running(v)' => Running(v)
    BY DEF Running, TypeOK
  <1> QED BY <1>1, <1>3, <1>4, <1>5, <1>6, <1>7, UpsertedKeepsIInv

\* A link of the page that is not to be followed.
LEMMA UpsertNoFollowKeepsIInv ==
  ASSUME IInv, NEW u \in Updater, NEW p \in todo[u], UpsertNoFollow(u, p)
  PROVE  IInv'
  <1> USE DEF UpsertNoFollow, IInv, process, ids
  <1> DEFINE l == [id |-> 0, url |-> p, at |-> 0]
  <1>1. l.url \in Url /\ l.at \in Time /\ UpsertLink(l)
    BY TimeAssumption DEF Time, Locals
  <1> HIDE DEF l
  <1>2. \A q \in DOMAIN urlIndex : q \in DOMAIN urlIndex' /\ urlIndex'[q] = urlIndex[q]
    BY <1>1, UpsertKeeps
  <1>3. /\ pc' \in [Updater -> {"idle", "src", "noFollow", "links", "edge", "done"}]
        /\ todo' \in [Updater -> SUBSET Url]
        /\ srcId' \in [Updater -> Nat] /\ dstId' \in [Updater -> Nat]
    BY DEF TypeOK, Locals
  <1>4. Knows'
    BY <1>2 DEF Knows, Running, AddsEdges
  <1>5. \A v \in Updater : AddsEdges(v) => todo'[v] = todo[v]
    BY DEF AddsEdges, Locals
  <1>6. Mirrors'
    <2> SUFFICES ASSUME NEW v \in Updater, AddsEdges(v), alone[v] PROVE Mirror(v)'
      BY DEF Mirrors, AddsEdges
    <2> QED BY <1>2, <1>5, MirrorStays
  <1> QED BY <1>1, <1>3, <1>4, <1>6, UpsertedKeepsIInv DEF Running, AddsEdges

\* A link of the page: it is done with when its edge is, and until then the
\* updater knows its ID.
LEMMA UpsertTargetKeepsIInv ==
  ASSUME IInv, NEW u \in Updater, NEW p \in todo[u], UpsertTarget(u, p)
  PROVE  IInv'
  <1> USE DEF UpsertTarget, Goto, IInv, process
  <1> DEFINE l == [id |-> 0, url |-> p, at |-> 0]
  <1>1. l.url \in Url /\ l.at \in Time /\ UpsertLink(l) /\ l.url = p
    BY TimeAssumption DEF Time, Locals
  <1> HIDE DEF l
  <1>2. /\ \A q \in DOMAIN urlIndex : q \in DOMAIN urlIndex' /\ urlIndex'[q] = urlIndex[q]
        /\ p \in DOMAIN urlIndex' /\ AssignedId(p) = urlIndex'[p]
        /\ Indexed'
    BY <1>1, UpsertKeeps
  <1>3. /\ pc' \in [Updater -> {"idle", "src", "noFollow", "links", "edge", "done"}]
        /\ todo' \in [Updater -> SUBSET Url]
        /\ srcId' \in [Updater -> Nat] /\ dstId' \in [Updater -> Nat]
    BY <1>2 DEF TypeOK, Locals, Indexed
  <1>4. Knows'
    BY <1>2 DEF Knows, Running, AddsEdges, TypeOK, Locals
  <1>5. Mirrors'
    <2> SUFFICES ASSUME NEW v \in Updater, AddsEdges(v)', alone[v] PROVE Mirror(v)'
      BY DEF Mirrors
    <2>1. CASE v # u
      <3>1. /\ AddsEdges(v) /\ pc'[v] = pc[v]
            /\ todo'[v] = todo[v] /\ dstId'[v] = dstId[v]
        BY <2>1 DEF AddsEdges, TypeOK, Locals
      <3> QED BY <1>2, <3>1, MirrorStays
    <2>2. CASE v = u
      <3>1. /\ pc[u] = "links" /\ pc'[u] = "edge"
            /\ todo'[u] = todo[u] \ {p} /\ dstId'[u] = urlIndex'[p]
        BY <1>2 DEF TypeOK, Locals
      <3>2. Mirror(u)
        BY <2>2, <3>1 DEF Mirrors, AddsEdges
      <3>3. ASSUME StoreLag = 0, NEW q \in page[u] \ todo'[u] PROVE DoneLink(u, q)'
        <4>1. CASE q = p
          BY <1>2, <3>1, <4>1 DEF DoneLink
        <4>2. CASE q # p
          BY <1>2, <3>1, <3>2, <3>3, <4>2 DEF DoneLink, Mirror
        <4> QED BY <4>1, <4>2
      <3>4. ASSUME NEW e \in DOMAIN edges, e[1] = srcId[u], edges[e] > olderThan[u]
            PROVE  \E q \in page[u] : q \in DOMAIN urlIndex' /\ e[2] = urlIndex'[q]
        BY <1>2, <3>2, <3>4 DEF Mirror
      <3> QED BY <2>2, <3>3, <3>4 DEF Mirror
    <2> QED BY <2>1, <2>2
  <1>6. /\ \A v \in Updater : Running(v)' => Running(v)
        /\ \A v \in Updater : AddsEdges(v)' => AddsEdges(v)
    BY DEF Running, AddsEdges, TypeOK
  <1> QED BY <1>1, <1>3, <1>4, <1>5, <1>6, UpsertedKeepsIInv

\* Process is called: whoever had the page to itself has it no more.
LEMMA BeginKeepsIInv ==
  ASSUME IInv, NEW u \in Updater, NEW k \in DOMAIN links,
         NEW noFollow \in NoFollow, Begin(u, k, noFollow)
  PROVE  IInv'
  <1> USE DEF IInv, store
  <1> DEFINE others == {v \in Updater \ {u} : Running(v) /\ url[v] = links[k].url}
  <1>1. /\ ~Running(u) /\ pc' = [pc EXCEPT ![u] = "src"]
        /\ url' = [url EXCEPT ![u] = links[k].url]
        /\ todo' = [todo EXCEPT ![u] = noFollow]
        /\ stamp' = [stamp EXCEPT ![u] = now]
        /\ srcId' = [srcId EXCEPT ![u] = k]
        /\ alone' = [v \in Updater |-> IF v = u THEN others = {}
                                       ELSE alone[v] /\ v \notin others]
        /\ UNCHANGED <<now, links, urlIndex, edges, dstId, olderThan, touched>>
    BY DEF Begin
  <1>2. PICK f \in Follow : page' = [page EXCEPT ![u] = f]
    BY DEF Begin
  <1>3. k \in Nat /\ links[k].url \in Url /\ now \in Time
    BY DEF TypeOK, Indexed, Time
  <1>4. /\ pc'[u] = "src" /\ url'[u] = links[k].url /\ srcId'[u] = k
        /\ \A v \in Updater \ {u} :
             /\ pc'[v] = pc[v] /\ url'[v] = url[v] /\ srcId'[v] = srcId[v]
             /\ page'[v] = page[v] /\ todo'[v] = todo[v]
    BY <1>1, <1>2 DEF TypeOK, Locals
  <1>5. TypeOK'
    BY <1>1 DEF TypeOK
  <1>6. Locals'
    <2>1. alone' \in [Updater -> BOOLEAN]
      BY <1>1
    <2> QED BY <1>1, <1>2, <1>3, <2>1, PagesAssumption DEF Locals
  <1>7. Indexed' /\ Stamped'
    BY <1>1 DEF Indexed, Stamped, StoreNow
  <1>8. Knows'
    BY <1>1, <1>4 DEF Knows, Indexed, Running, AddsEdges
  <1>9. TouchedAreFresh'
    BY <1>1, <1>4 DEF TouchedAreFresh, AddsEdges
  <1>10. AloneIsAlone'
    <2> SUFFICES ASSUME NEW v \in Updater, NEW w \in Updater, alone'[v], v # w,
                        Running(v)', Running(w)'
                 PROVE  url'[w] # url'[v]
      BY DEF AloneIsAlone
    <2>1. CASE v = u
      <3>1. w \notin others
        BY <1>1, <2>1
      <3> QED BY <1>4, <2>1, <3>1 DEF Running
    <2>2. CASE w = u
      <3>1. v \notin others
        BY <1>1, <2>2
      <3> QED BY <1>4, <2>2, <3>1 DEF Running
    <2>3. CASE v # u /\ w # u
      <3>1. alone[v]
        BY <1>1, <2>3
      <3> QED BY <1>4, <2>3, <3>1 DEF AloneIsAlone, Running
    <2> QED BY <2>1, <2>2, <2>3
  <1>11. Mirrors'
    <2> SUFFICES ASSUME NEW v \in Updater, AddsEdges(v)', alone'[v] PROVE Mirror(v)'
      BY DEF Mirrors
    <2>1. AddsEdges(v) /\ alone[v] /\ v # u
      BY <1>1, <1>4 DEF AddsEdges
    <2> QED BY <1>1, <1>4, <2>1, MirrorStays
  <1> QED BY <1>5, <1>6, <1>7, <1>8, <1>9, <1>10, <1>11

\* The updater takes the time: no edge is newer.
LEMMA TakeTimeKeepsIInv ==
  ASSUME IInv, NEW u \in Updater, TakeTime(u)
  PROVE  IInv'
  <1> USE DEF IInv, store, process, ids, TakeTime, Goto
  <1>1. /\ pc[u] = "noFollow" /\ pc'[u] = "links"
        /\ todo'[u] = page[u] /\ olderThan'[u] = now /\ touched'[u] = {}
        /\ \A v \in Updater \ {u} :
             /\ pc'[v] = pc[v] /\ todo'[v] = todo[v] /\ olderThan'[v] = olderThan[v]
             /\ touched'[v] = touched[v]
    BY DEF TypeOK, Locals
  <1>2. TypeOK' /\ Locals'
    BY DEF TypeOK, Locals
  <1>3. Indexed' /\ Stamped'
    BY <1>1, Clock DEF Indexed, Stamped, StoreNow
  <1>4. Knows'
    BY <1>1 DEF Knows, Running, AddsEdges
  <1>5. TouchedAreFresh'
    BY <1>1 DEF TouchedAreFresh, AddsEdges
  <1>6. AloneIsAlone'
    BY <1>1 DEF AloneIsAlone, Running
  <1>7. Mirrors'
    <2> SUFFICES ASSUME NEW v \in Updater, AddsEdges(v)', alone'[v] PROVE Mirror(v)'
      BY DEF Mirrors
    <2>1. CASE v # u
      BY <1>1, <2>1, MirrorStays DEF AddsEdges
    <2>2. CASE v = u
      <3>1. \A e \in DOMAIN edges : edges[e] <= now
        BY Clock, TimeAssumption DEF Stamped, TypeOK, Time
      <3> QED BY <1>1, <2>2, <3>1 DEF Mirror, TypeOK
    <2> QED BY <2>1, <2>2
  <1> QED BY <1>2, <1>3, <1>4, <1>5, <1>6, <1>7

\* An edge gets the time of the store.
LEMMA UpsertEdgeKeepsIInv ==
  ASSUME IInv, NEW u \in Updater, UpsertTargetEdge(u)
  PROVE  IInv'
  <1> USE DEF IInv, process, ids
  <1> DEFINE e == <<srcId[u], dstId[u]>>
  <1>1. /\ pc[u] = "edge" /\ pc'[u] = "links"
        /\ \A v \in Updater \ {u} : pc'[v] = pc[v]
        /\ UNCHANGED <<now, links, urlIndex, url, page, stamp, todo, srcId, dstId,
                       olderThan, alone>>
    BY DEF UpsertTargetEdge, Goto, TypeOK
  <1>2. /\ DOMAIN edges' = DOMAIN edges \cup {e} /\ edges'[e] = StoreNow
        /\ \A c \in DOMAIN edges : c # e => edges'[c] = edges[c]
    BY DEF UpsertTargetEdge, UpsertEdge, Put
  <1>3. \A v \in Updater :
          touched'[v] = IF AddsEdges(v) THEN touched[v] \cup {e} ELSE {}
    BY DEF UpsertTargetEdge, AddsEdges
  <1>4. e \in Nat \X Nat /\ e[1] = srcId[u] /\ e[2] = dstId[u]
    BY DEF Locals
  <1>5. pc' \in [Updater -> {"idle", "src", "noFollow", "links", "edge", "done"}]
    BY DEF UpsertTargetEdge, Goto, TypeOK
  <1>6. touched' \in [Updater -> SUBSET (Nat \X Nat)]
    <2>1. \A v \in Updater : touched'[v] \in SUBSET (Nat \X Nat)
      BY <1>3, <1>4 DEF Locals
    <2> QED BY <2>1 DEF UpsertTargetEdge
  <1>7. Running(u) /\ AddsEdges(u)
        /\ (\A v \in Updater : Running(v)' <=> Running(v))
        /\ (\A v \in Updater : AddsEdges(v)' <=> AddsEdges(v))
    BY <1>1 DEF Running, AddsEdges
  <1> HIDE DEF e
  <1>8. TypeOK'
    BY <1>1, <1>2, <1>5, Clock DEF TypeOK, Time
  <1>9. Locals'
    BY <1>1, <1>6 DEF Locals
  <1>10. Indexed'
    BY <1>1 DEF Indexed
  <1>11. Stamped'
    BY <1>1, <1>2, <1>4, Clock DEF Stamped, StoreNow, Time
  <1>12. Knows'
    BY <1>1, <1>7 DEF Knows
  <1>13. TouchedAreFresh'
    <2> SUFFICES ASSUME StoreLag = 0, NEW v \in Updater, AddsEdges(v),
                        NEW c \in touched'[v] \cap DOMAIN edges'
                 PROVE  edges'[c] >= olderThan[v]
      BY <1>1, <1>7 DEF TouchedAreFresh
    <2>1. CASE c = e
      <3>1. olderThan[v] <= now
        BY DEF Stamped
      <3> QED BY <1>2, <2>1, <3>1, Clock
    <2>2. CASE c # e
      BY <1>2, <1>3, <2>2 DEF TouchedAreFresh
    <2> QED BY <2>1, <2>2
  <1>14. AloneIsAlone'
    BY <1>1, <1>7 DEF AloneIsAlone
  <1>15. Mirrors'
    <2> SUFFICES ASSUME NEW v \in Updater, AddsEdges(v), alone[v] PROVE Mirror(v)'
      BY <1>1, <1>7 DEF Mirrors
    <2>1. CASE v # u
      <3>1. e[1] # srcId[v]
        BY <1>4, <1>7, <2>1, OtherPage DEF Running, AddsEdges
      <3>2. \A c : c[1] = srcId[v] => /\ c \in DOMAIN edges <=> c \in DOMAIN edges'
                                      /\ c \in DOMAIN edges => edges'[c] = edges[c]
        BY <1>2, <3>1
      <3> QED BY <1>1, <2>1, <3>2, MirrorStays
    <2>2. CASE v = u
      <3>1. Mirror(u)
        BY <1>7, <2>2 DEF Mirrors
      <3>2. ASSUME StoreLag = 0, NEW p \in page[u] \ todo[u] PROVE DoneLink(u, p)'
        <4>1. DoneLink(u, p)
          BY <3>1, <3>2 DEF Mirror
        <4>2. edges'[e] >= olderThan[u]
          BY <1>2, <3>2, Clock DEF Stamped, TypeOK
        <4>3. CASE dstId[u] = urlIndex[p]
          BY <1>1, <1>2, <4>1, <4>2, <4>3 DEF DoneLink, e
        <4>4. CASE dstId[u] # urlIndex[p]
          <5>1. <<srcId[u], urlIndex[p]>> # e
            BY <4>4 DEF e
          <5> QED BY <1>1, <1>2, <4>1, <4>4, <5>1 DEF DoneLink
        <4> QED BY <4>3, <4>4
      <3>3. ASSUME NEW c \in DOMAIN edges', c[1] = srcId[u], edges'[c] > olderThan[u]
            PROVE  \E p \in page[u] : p \in DOMAIN urlIndex /\ c[2] = urlIndex[p]
        <4>1. CASE c = e
          BY <1>1, <1>4, <4>1 DEF Knows
        <4>2. CASE c # e
          BY <1>2, <3>1, <3>3, <4>2 DEF Mirror
        <4> QED BY <4>1, <4>2
      <3> QED BY <1>1, <2>2, <3>2, <3>3 DEF Mirror
    <2> QED BY <2>1, <2>2
  <1> QED BY <1>8, <1>9, <1>10, <1>11, <1>12, <1>13, <1>14, <1>15

\* Process returns; the other updaters that have their pages to themselves do
\* not miss the stale edges that it removed.
LEMMA ReturnKeepsIInv ==
  ASSUME IInv, NEW u \in Updater, Finish(u) \/ CallFails(u)
  PROVE  IInv'
  <1> USE DEF IInv
  <1>1. /\ ~Running(u)' /\ (Finish(u) => Running(u) /\ AddsEdges(u))
        /\ pc' \in [Updater -> {"idle", "src", "noFollow", "links", "edge", "done"}]
        /\ \A v \in Updater \ {u} :
             /\ pc'[v] = pc[v] /\ url'[v] = url[v] /\ page'[v] = page[v]
             /\ todo'[v] = todo[v] /\ srcId'[v] = srcId[v] /\ dstId'[v] = dstId[v]
             /\ olderThan'[v] = olderThan[v] /\ touched'[v] = touched[v]
             /\ alone'[v] = alone[v]
        /\ UNCHANGED <<now, links, urlIndex>>
    BY DEF Finish, CallFails, Forget, Goto, Running, AddsEdges, TypeOK, Locals, store
  <1>2. \A v \in Updater : /\ Running(v)' => v # u /\ Running(v)
                           /\ AddsEdges(v)' => v # u /\ AddsEdges(v)
    BY <1>1 DEF Running, AddsEdges
  <1>3. /\ DOMAIN edges' \subseteq DOMAIN edges
        /\ \A e \in DOMAIN edges' : edges'[e] = edges[e]
        /\ \A e \in DOMAIN edges : e \notin DOMAIN edges' => Finish(u) /\ e[1] = srcId[u]
    BY DEF Finish, CallFails, RemoveStaleEdges, Restrict, Stale, store
  <1>4. Forget(u)
    BY DEF Finish, CallFails
  <1>5. TypeOK'
    <2>1. olderThan' \in [Updater -> 0..MaxTime]
      BY <1>4, TimeAssumption DEF Forget, TypeOK
    <2> QED BY <1>1, <1>3, <2>1 DEF TypeOK
  <1>6. Locals'
    BY <1>4, TimeAssumption DEF Forget, Locals, Time
  <1>7. Indexed' /\ Stamped'
    <2>1. olderThan'[u] = 0
      BY <1>4 DEF Forget, TypeOK
    <2>2. Indexed'
      BY <1>1 DEF Indexed
    <2>3. StoreNow' = StoreNow
      BY <1>1 DEF StoreNow
    <2>4. \A v \in Updater : olderThan'[v] <= now'
      BY <1>1, <2>1, Clock DEF Stamped
    <2> QED BY <1>3, <2>2, <2>3, <2>4 DEF Stamped
  <1>8. Knows'
    <2>1. \A v \in Updater : pc'[v] = "edge" => pc[v] = "edge" /\ v # u
      BY <1>1 DEF Running
    <2> QED BY <1>1, <1>2, <2>1 DEF Knows
  <1>9. TouchedAreFresh'
    BY <1>1, <1>2, <1>3 DEF TouchedAreFresh
  <1>10. AloneIsAlone'
    BY <1>1, <1>2 DEF AloneIsAlone
  <1>11. Mirrors'
    <2> SUFFICES ASSUME NEW v \in Updater, AddsEdges(v)', alone'[v] PROVE Mirror(v)'
      BY DEF Mirrors
    <2>1. AddsEdges(v) /\ alone[v] /\ v # u
      BY <1>1, <1>2
    <2>2. Finish(u) => srcId[u] # srcId[v]
      BY <1>1, <2>1, OtherPage DEF Running, AddsEdges
    <2>3. \A e : e[1] = srcId[v] => /\ e \in DOMAIN edges <=> e \in DOMAIN edges'
                                    /\ e \in DOMAIN edges => edges'[e] = edges[e]
      BY <1>3, <2>2
    <2> QED BY <1>1, <2>1, <2>3, MirrorStays
  <1> QED BY <1>5, <1>6, <1>7, <1>8, <1>9, <1>10, <1>11

\* Time passes, or nothing happens in the store.
LEMMA TickKeepsIInv ==
  ASSUME IInv, now' \in 1..MaxTime, now <= now',
         UNCHANGED <<store, pc, process, todo, ids, olderThan, touched, alone>>
  PROVE  IInv'
  <1> USE DEF IInv, store, process, ids
  <1>1. TypeOK' /\ Locals' /\ Indexed'
    BY DEF TypeOK, Locals, Indexed
  <1>2. StoreNow <= StoreNow' /\ StoreNow \in Nat /\ StoreNow' \in Nat
    BY <1>1, TimeAssumption DEF StoreNow, TypeOK
  <1>3. Stamped'
    BY <1>2 DEF Stamped, TypeOK
  <1>4. Knows' /\ TouchedAreFresh' /\ AloneIsAlone'
    BY DEF Knows, TouchedAreFresh, AloneIsAlone, Running, AddsEdges
  <1>5. Mirrors'
    BY DEF Mirrors, Mirror, DoneLink, AddsEdges
  <1> QED BY <1>1, <1>3, <1>4, <1>5

\* Whoever writes, and when time passes, the invariant is kept.
LEMMA NextIInv == IInv /\ [Next]_vars => IInv'
  <1> SUFFICES ASSUME IInv, [Next]_vars PROVE IInv'
    OBVIOUS
  <1>1. CASE UNCHANGED vars
    BY <1>1, TickKeepsIInv DEF vars, IInv, TypeOK
  <1>2. ASSUME NEW p \in Url, Seed(p) PROVE IInv'
    BY <1>2, SeedKeepsIInv
  <1>3. ASSUME NEW u \in Updater, Updates(u) PROVE IInv'
    BY <1>3, BeginKeepsIInv, UpsertSourceKeepsIInv, UpsertNoFollowKeepsIInv,
       UpsertTargetKeepsIInv, TakeTimeKeepsIInv, UpsertEdgeKeepsIInv, ReturnKeepsIInv
    DEF Updates
  <1>4. CASE Tick
    BY <1>4, TickKeepsIInv, TimeAssumption DEF Tick, IInv, TypeOK
  <1> QED BY <1>1, <1>2, <1>3, <1>4 DEF Next, Terminated

-----------------------------------------------------------------------------
(* What a step of the updaters does to the rows that others may read.      *)

\* Links stay, and are never older than they were.
LEMMA LinksStay ==
  ASSUME IInv, [Next]_vars
  PROVE  \A k \in DOMAIN links :
           /\ k \in DOMAIN links' /\ links'[k].at >= links[k].at
           /\ links[k].at \in Time
  <1> USE DEF IInv, process, ids, store
  <1>1. \A k \in DOMAIN links : links[k].at \in Nat /\ links[k].at \in Time
    BY TimeAssumption DEF TypeOK, Time
  <1>2. CASE UNCHANGED links
    BY <1>1, <1>2
  <1>3. ASSUME NEW l, l.url \in Url, l.at \in Time, UpsertLink(l)
        PROVE  \A k \in DOMAIN links : k \in DOMAIN links' /\ links'[k].at >= links[k].at
    BY <1>3, UpsertKeeps
  <1>4. ASSUME NEW p \in Url, Seed(p)
        PROVE  \A k \in DOMAIN links : k \in DOMAIN links' /\ links'[k].at >= links[k].at
    BY <1>3, <1>4, TimeAssumption DEF Seed, Time
  <1>5. ASSUME NEW u \in Updater, Updates(u)
        PROVE  \A k \in DOMAIN links : k \in DOMAIN links' /\ links'[k].at >= links[k].at
    <2>1. CASE UpsertSource(u)
      <3>1. url[u] \in Url /\ stamp[u] \in Time
        BY <2>1 DEF UpsertSource, Goto, Knows, Running, TypeOK, Locals
      <3> QED BY <1>3, <2>1, <3>1 DEF UpsertSource
    <2>2. ASSUME NEW p \in todo[u], UpsertNoFollow(u, p) \/ UpsertTarget(u, p)
          PROVE  \A k \in DOMAIN links : k \in DOMAIN links' /\ links'[k].at >= links[k].at
      <3>1. p \in Url /\ 0 \in Time
        BY TimeAssumption DEF Locals, Time
      <3> QED BY <1>3, <2>2, <3>1 DEF UpsertNoFollow, UpsertTarget
    <2>3. CASE \/ \E k \in DOMAIN links, noFollow \in NoFollow : Begin(u, k, noFollow)
               \/ TakeTime(u) \/ UpsertTargetEdge(u) \/ Finish(u) \/ CallFails(u)
      BY <1>2, <2>3 DEF Begin, TakeTime, UpsertTargetEdge, Finish, CallFails
    <2> QED BY <1>5, <2>1, <2>2, <2>3 DEF Updates
  <1> QED BY <1>1, <1>2, <1>4, <1>5 DEF Next, Tick, Terminated, vars

-----------------------------------------------------------------------------
(* The scans.                                                              *)

\* The reader changes nothing that the updaters use.
LEMMA ReadKeepsIInv == IInv /\ Read => IInv'
  <1> SUFFICES ASSUME IInv, Read PROVE IInv'
    OBVIOUS
  <1>1. UNCHANGED <<now, store, pc, process, todo, ids, olderThan, touched, alone>>
    BY DEF Read, ScanBegins, Open, OpenFails, Leave, Yield, NextPartition, ScanEnds,
           ConnectionBreaks, ReadFails, vars
  <1>2. now' \in 1..MaxTime /\ now <= now'
    BY <1>1 DEF IInv, TypeOK
  <1> QED BY <1>1, <1>2, TickKeepsIInv DEF store

\* Neither do writers while a reader is there, any number of them at once.
LEMMA ScanNextIInv == IInv /\ [ScanNext]_allVars => IInv'
  <1> SUFFICES ASSUME IInv, [ScanNext]_allVars PROVE IInv'
    OBVIOUS
  <1>1. CASE Write
    BY <1>1, NextIInv DEF Write
  <1>2. CASE UNCHANGED allVars
    BY <1>2, NextIInv DEF allVars
  <1> QED BY <1>1, <1>2, ReadKeepsIInv DEF ScanNext

-----------------------------------------------------------------------------
(* Where a scan is.                                                        *)

\* There are some partitions, and no more than UUIDs.
LEMMA PartsAreCounted == \A n \in Parts : n \in Nat \ {0} /\ n <= MaxUUID
  <1>1. MaxUUID \in Int
    BY UUIDAssumption DEF MaxUUID
  <1> QED BY <1>1, PartsAssumption

\* The partitions follow each other from 0 to the greatest UUID, and no end is
\* short of a byte when there are fewer than a byte has values.
LEMMA Partitions ==
  ASSUME NEW n \in Parts, NEW p \in 0..(n - 1)
  PROVE  /\ MaxUUID \in Nat /\ n \in Nat \ {0}
         /\ FromId(n, p) \in Nat /\ ToId(n, p) \in Nat
         /\ FromId(n, p) <= ToId(n, p)
         /\ FromId(n, 0) = 0 /\ ToId(n, n - 1) = MaxUUID
         /\ p < n - 1 => ToId(n, p) = FromId(n, p + 1)
         /\ RangeFails(n, p) => n >= Base
  <1> DEFINE q == PartSize(n)
             m == MaxUUID
  <1>1. m \in Nat
    BY UUIDAssumption DEF MaxUUID
  <1>2. n \in Nat \ {0} /\ n <= m
    BY PartsAreCounted
  <1>3. q \in Nat /\ n * q <= m
    BY <1>1, <1>2 DEF PartSize
  <1>4. p \in Nat /\ p + 1 <= n
    BY <1>2
  <1>5. ASSUME n < Base PROVE q >= Weight
    <2>1. n * Weight <= m
      BY <1>2, <1>5, UUIDAssumption DEF MaxUUID
    <2> QED BY <1>1, <1>2, <2>1, UUIDAssumption DEF PartSize
  <1> HIDE DEF m
  <1>6. q * p \in Nat /\ q * (p + 1) = q * p + q /\ q * (p + 1) <= m
    <2> HIDE DEF q
    <2>1. q * p \in Nat /\ q * (p + 1) = q * p + q
      BY <1>3, <1>4
    <2>2. q * (p + 1) <= q * n
      BY <1>2, <1>3, <1>4
    <2>3. q * n = n * q
      BY <1>2, <1>3
    <2> QED BY <1>1, <1>2, <1>3, <1>4, <2>1, <2>2, <2>3
  <1>7. p # 0 => q * p >= q
    BY <1>3, <1>4
  <1>8. RangeFails(n, p) => n >= Base
    <2> SUFFICES ASSUME n < Base PROVE ~RangeFails(n, p)
      BY <1>2, UUIDAssumption
    <2> QED BY <1>3, <1>5, <1>6, <1>7, UUIDAssumption DEF RangeFails, HasAllBytes
  <1>9. /\ FromId(n, p) = q * p \/ (p = 0 /\ FromId(n, p) = 0)
        /\ p = n - 1 => ToId(n, p) = m
        /\ p # n - 1 => ToId(n, p) = q * (p + 1)
        /\ FromId(n, p + 1) = q * (p + 1)
    BY <1>4 DEF FromId, ToId, m
  <1>10. FromId(n, 0) = 0 /\ ToId(n, n - 1) = m
    BY DEF FromId, ToId, m
  <1> HIDE DEF q
  <1> QED BY <1>1, <1>2, <1>3, <1>4, <1>6, <1>8, <1>9, <1>10 DEF m

\* A link keeps its ID, and an edge leaves from a link.
LEMMA EdgesLeaveFromLinks ==
  ASSUME IInv, [Next]_vars, \A e \in DOMAIN edges : e[1] \in DOMAIN links
  PROVE  \A e \in DOMAIN edges' : e[1] \in DOMAIN links'
  <1> USE DEF process, ids, store
  <1>1. \A k \in DOMAIN links : k \in DOMAIN links'
    BY LinksStay
  <1>2. CASE UNCHANGED edges
    BY <1>1, <1>2
  <1>3. ASSUME NEW u \in Updater, UpsertTargetEdge(u)
        PROVE  \A e \in DOMAIN edges' : e[1] \in DOMAIN links'
    BY <1>1, <1>3 DEF UpsertTargetEdge, UpsertEdge, Put
  <1>4. ASSUME NEW u \in Updater, Finish(u)
        PROVE  \A e \in DOMAIN edges' : e[1] \in DOMAIN links'
    BY <1>1, <1>4 DEF Finish, RemoveStaleEdges, Restrict
  <1> QED
    BY <1>2, <1>3, <1>4
    DEF Next, Seed, Updates, Begin, UpsertSource, UpsertNoFollow, UpsertTarget,
        TakeTime, CallFails, Tick, Terminated, vars

\* What is stored has a time.
LEMMA StoredHasTimes ==
  ASSUME IInv, RowsHaveIds, NEW of
  PROVE  \A r \in DOMAIN Stored(of) :
           Stored(of)[r] \in Nat /\ r[1] \in 1..Cardinality(Url)
  <1>1. CASE of = "links"
    BY <1>1, TimeAssumption DEF IInv, TypeOK, Stored, RowsHaveIds
  <1>2. CASE of # "links"
    BY <1>2, TimeAssumption DEF IInv, TypeOK, Stored, RowsHaveIds
  <1> QED BY <1>1, <1>2

\* And every row of a scan has a UUID, below the greatest.
LEMMA RowsHaveTokens ==
  ASSUME RowsHaveIds, query \in Queries, NEW r, r[1] \in 1..Cardinality(Url)
  PROVE  Token(r) \in Nat /\ Token(r) >= 1 /\ Token(r) < MaxUUID
  <1>1. query.token \in Tokens
    BY DEF Queries
  <1>2. r[1] \in DOMAIN query.token
    BY <1>1, UUIDAssumption
  <1>3. query.token[r[1]] \in 1..(MaxUUID - 1) /\ MaxUUID \in Int
    BY <1>1, <1>2, UUIDAssumption DEF MaxUUID
  <1> QED BY <1>3 DEF Token

\* The reader is idle and has seen nothing.
LEMMA PlaceInit == ScanInit => PlaceInv
  <1> SUFFICES ASSUME ScanInit PROVE PlaceInv OBVIOUS
  <1>1. DOMAIN links = {} /\ DOMAIN edges = {} /\ now \in Nat
    BY DEF ScanInit, Init, StoreInit
  <1> QED
    BY <1>1
    DEF ScanInit, PlaceInv, RowsHaveIds, ScanState, DueAreThere, SeenUpToHere

\* Whoever writes moves no row, and what changes is due no more.
LEMMA WriteKeepsPlace == IInv /\ PlaceInv /\ Write => PlaceInv'
  <1> SUFFICES ASSUME IInv, PlaceInv, Write PROVE PlaceInv'
    OBVIOUS
  <1> USE DEF PlaceInv
  <1>1. /\ Next /\ IInv /\ IInv'
        /\ UNCHANGED <<reader, query, partition, before, rows, seen, lost>>
        /\ due' \subseteq due
        /\ \A r \in due' : /\ r \in DOMAIN Stored(query.of)'
                           /\ Stored(query.of)'[r] = Stored(query.of)[r]
    BY NextIInv DEF Write
  <1>2. RowsHaveIds'
    <2>1. \A e \in DOMAIN edges' : e[1] \in DOMAIN links'
      BY <1>1, EdgesLeaveFromLinks DEF RowsHaveIds
    <2>2. DOMAIN links' \subseteq 1..Cardinality(Url)
      BY <1>1 DEF IInv, TypeOK, Indexed
    <2> QED BY <1>1, <2>1, <2>2 DEF RowsHaveIds
  <1>3. ScanState'
    BY <1>1 DEF ScanState
  <1>4. DueAreThere'
    <2>1. now' = now \/ now' = now + 1
      BY <1>1
      DEF Next, store, process, ids, Seed, Updates, Begin, UpsertSource, UpsertNoFollow,
          UpsertTarget, TakeTime, UpsertTargetEdge, Finish, CallFails, Tick,
          Terminated, vars
    <2>2. now \in Nat
      BY <1>1, TimeAssumption DEF IInv, TypeOK
    <2> QED BY <1>1, <2>1, <2>2 DEF DueAreThere
  <1>5. SeenUpToHere'
    BY <1>1 DEF SeenUpToHere, Token, Start, End
  <1> QED BY <1>2, <1>3, <1>4, <1>5

\* The reader goes from a partition to the next when it has taken every row.
LEMMA ReadKeepsPlace == IInv /\ PlaceInv /\ Read => PlaceInv'
  <1> SUFFICES ASSUME IInv, PlaceInv, Read PROVE PlaceInv'
    OBVIOUS
  <1> USE DEF PlaceInv
  <1>1. /\ IInv /\ UNCHANGED <<now, links, urlIndex, edges>>
        /\ \A of : Stored(of)' = Stored(of)
    BY DEF Read, ScanBegins, Open, OpenFails, Leave, Yield, NextPartition,
           ScanEnds, ConnectionBreaks, ReadFails, vars, store, Stored
  <1>2. now \in Nat
    BY <1>1, TimeAssumption DEF IInv, TypeOK
  <1>3. reader \in {"open", "next"} =>
          /\ query.parts \in Parts /\ partition \in 0..(query.parts - 1)
          /\ Start \in Nat /\ End \in Nat /\ Start <= End
          /\ partition = query.parts - 1 => End = MaxUUID
          /\ partition < query.parts - 1 => End = FromId(query.parts, partition + 1)
          /\ \A r \in rows \cup seen \cup due : Token(r) \in Nat /\ Token(r) < MaxUUID
    <2> SUFFICES ASSUME reader \in {"open", "next"}
                 PROVE  /\ query.parts \in Parts /\ partition \in 0..(query.parts - 1)
                        /\ Start \in Nat /\ End \in Nat /\ Start <= End
                        /\ partition = query.parts - 1 => End = MaxUUID
                        /\ partition < query.parts - 1 =>
                             End = FromId(query.parts, partition + 1)
                        /\ \A r \in rows \cup seen \cup due :
                             Token(r) \in Nat /\ Token(r) < MaxUUID
      OBVIOUS
    <2>1. query \in Queries /\ query.parts \in Parts /\ partition \in 0..(query.parts - 1)
      BY DEF ScanState, Queries
    <2>2. \A r \in rows \cup seen \cup due : Token(r) \in Nat /\ Token(r) < MaxUUID
      BY <2>1, RowsHaveTokens DEF RowsHaveIds
    <2> QED BY <2>1, <2>2, Partitions DEF Start, End
  <1>4. ASSUME NEW q \in Queries, ScanBegins(q) PROVE PlaceInv'
    <2>1. /\ reader' = "open" /\ query' = q /\ before' = now /\ partition' = 0
          /\ rows' = {} /\ seen' = {}
          /\ due' = {r \in DOMAIN Stored(q.of) : Stored(q.of)[r] < now}
          /\ q.parts \in Parts
      BY <1>4 DEF ScanBegins, ScanState, Queries
    <2>2. q.parts \in Nat \ {0} /\ Start' = 0
      BY <2>1, PartsAreCounted DEF Start, FromId
    <2>3. RowsHaveIds'
      BY <1>1, <2>1, StoredHasTimes DEF RowsHaveIds
    <2>4. \A r \in due' : Token(r)' \in Nat
      <3>1. \A r \in due' : r[1] \in DOMAIN q.token /\ q.token \in Tokens
        BY <2>1, <2>3, UUIDAssumption DEF RowsHaveIds, Queries
      <3> QED BY <2>1, <3>1, UUIDAssumption DEF Token, MaxUUID
    <2>5. ScanState'
      BY <2>1, <2>2 DEF ScanState
    <2>6. DueAreThere'
      BY <1>1, <1>2, <2>1 DEF DueAreThere
    <2>7. SeenUpToHere'
      BY <2>1, <2>2, <2>4 DEF SeenUpToHere
    <2> QED BY <2>3, <2>5, <2>6, <2>7
  <1>5. ASSUME Open PROVE PlaceInv'
    <2>1. /\ reader = "open" /\ reader' = "next" /\ rows' = Selected
          /\ UNCHANGED <<query, partition, before, seen, lost, due>>
      BY <1>5 DEF Open
    <2>2. \A r \in Selected : /\ r[1] \in 1..Cardinality(Url)
                              /\ Token(r) >= Start /\ Token(r) < End
      BY <1>1, StoredHasTimes DEF Selected, Token, Start, End
    <2>3. \A r \in due : Token(r) >= Start /\ Token(r) < End => r \in Selected
      BY DEF DueAreThere, Selected, Token, Start, End
    <2>4. \A r : Token(r)' = Token(r) /\ Start' = Start /\ End' = End
      BY <2>1 DEF Token, Start, End
    <2>5. RowsHaveIds'
      BY <1>1, <2>1, <2>2 DEF RowsHaveIds
    <2>6. ScanState' /\ DueAreThere'
      BY <1>1, <2>1 DEF ScanState, DueAreThere
    <2>7. /\ rows' \cap seen' = {}
          /\ \A r \in rows' \cup seen' : Token(r) < End
      BY <1>3, <2>1, <2>2 DEF SeenUpToHere
    <2>8. ~lost => \A r \in due : Token(r) < End => r \in Selected \cup seen
      BY <1>3, <2>1, <2>3 DEF SeenUpToHere
    <2> QED BY <2>1, <2>4, <2>5, <2>6, <2>7, <2>8 DEF SeenUpToHere
  <1>6. ASSUME Leave PROVE PlaceInv'
    BY <1>1, <1>2, <1>6
    DEF Leave, RowsHaveIds, ScanState, DueAreThere, SeenUpToHere
  <1>7. ASSUME NEW r \in rows, Yield(r) PROVE PlaceInv'
    BY <1>1, <1>7
    DEF Yield, RowsHaveIds, ScanState, DueAreThere, SeenUpToHere, Token, Start, End
  <1>8. ASSUME NextPartition PROVE PlaceInv'
    <2>1. /\ reader = "next" /\ rows = {} /\ partition < query.parts - 1
          /\ reader' = "open" /\ partition' = partition + 1 /\ before' = now
          /\ UNCHANGED <<query, rows, seen, lost, due>>
      BY <1>8 DEF NextPartition
    <2>2. \A r : Token(r)' = Token(r) /\ Start' = End
      BY <1>3, <2>1 DEF Token, Start
    <2>3. RowsHaveIds'
      BY <1>1, <2>1 DEF RowsHaveIds
    <2>4. ScanState'
      BY <1>3, <2>1, PartsAreCounted DEF ScanState
    <2>5. \A r \in due : Stored(query.of)[r] < now
      <3>1. \A r \in due : Stored(query.of)[r] \in Nat
        BY <1>1, StoredHasTimes DEF DueAreThere
      <3> QED BY <1>2, <3>1 DEF DueAreThere
    <2>6. DueAreThere'
      BY <1>1, <1>2, <2>1, <2>5 DEF DueAreThere
    <2>7. SeenUpToHere'
      BY <2>1, <2>2 DEF SeenUpToHere
    <2> QED BY <2>3, <2>4, <2>6, <2>7
  <1>9. ASSUME ConnectionBreaks PROVE PlaceInv'
    BY <1>1, <1>9
    DEF ConnectionBreaks, RowsHaveIds, ScanState, DueAreThere, SeenUpToHere, Token,
        Start, End
  <1> QED
    BY <1>4, <1>5, <1>6, <1>7, <1>8, <1>9 DEF Read, OpenFails, ScanEnds, ReadFails

\* Writers and the reader keep what is said of the place of the scan.
LEMMA PlaceNext == IInv /\ PlaceInv /\ [ScanNext]_allVars => PlaceInv'
  <1> SUFFICES ASSUME IInv, PlaceInv, UNCHANGED allVars PROVE PlaceInv'
    BY WriteKeepsPlace, ReadKeepsPlace DEF ScanNext
  <1> QED
    BY DEF PlaceInv, RowsHaveIds, ScanState, DueAreThere, SeenUpToHere, Token, Start,
           End, Stored, allVars, vars, scanVars, store

-----------------------------------------------------------------------------
(* The theorems.                                                           *)

\* The inductive invariant holds in every reachable state, without a reader of
\* the graph.
THEOREM Invariance == Spec => []IInv
  <1> QED BY InitIInv, NextIInv, PTL DEF Spec

\* The same with a reader.
THEOREM ScanInvariance == ScanSpec => []IInv
  <1>1. ScanInit => IInv
    BY InitIInv DEF ScanInit
  <1> QED BY <1>1, ScanNextIInv, PTL DEF ScanSpec

\* A URL keeps the ID that it got first, under which it is found, and every
\* updater has been told that ID.
THEOREM TheIndexesAgree == ScanSpec => []IdsAgree
  <1>1. IInv => IdsAgree
    BY DEF IInv, IdsAgree, Indexed, Knows, Running, FindLink
  <1> QED BY <1>1, ScanInvariance, PTL

\* A step of the whole system is one of the updaters or of the reader, which
\* leaves the graph alone.
LEMMA GraphSteps ==
  [ScanNext]_allVars => [Next]_vars \/ UNCHANGED <<store, pc, process, ids, touched>>
  BY DEF ScanNext, Write, Read, ScanBegins, Open, OpenFails, Leave, Yield,
         NextPartition, ScanEnds, ConnectionBreaks, ReadFails, vars, allVars

\* No step of an updater or of a client makes a page look retrieved earlier than
\* it was.
THEOREM TimesNeverGoBack == ScanSpec => NeverOlder
  <1>1. IInv /\ [ScanNext]_allVars =>
          [\A k \in DOMAIN links : k \in DOMAIN links' /\ links'[k].at >= links[k].at]_vars
    <2> SUFFICES ASSUME IInv, [Next]_vars \/ UNCHANGED <<store, pc, process, ids, touched>>
                 PROVE  \A k \in DOMAIN links :
                          k \in DOMAIN links' /\ links'[k].at >= links[k].at
      BY GraphSteps
    <2>1. CASE [Next]_vars
      BY <2>1, LinksStay
    <2>2. CASE UNCHANGED <<store, pc, process, ids, touched>>
      BY <2>2, TimeAssumption DEF store, IInv, TypeOK
    <2> QED BY <2>1, <2>2
  <1> QED BY <1>1, ScanInvariance, PTL DEF ScanSpec, NeverOlder

\* The one step in which an updater succeeds.
LEMMA SuccessIsFinish ==
  ASSUME IInv, [ScanNext]_allVars, NEW u \in Updater, Succeeds(u)
  PROVE  Finish(u)
  <1>1. [Next]_vars
    BY GraphSteps DEF Succeeds
  <1>2. pc[u] = "links" /\ pc'[u] = "done" /\ pc \in [Updater -> {"idle", "src",
          "noFollow", "links", "edge", "done"}]
    BY DEF Succeeds, IInv, TypeOK
  <1>3. PICK w \in Updater : Updates(w)
    BY <1>1, <1>2 DEF Next, Seed, Tick, Terminated, vars
  <1> QED
    BY <1>2, <1>3
    DEF Updates, Begin, UpsertSource, UpsertNoFollow, UpsertTarget, TakeTime,
        UpsertTargetEdge, Finish, CallFails, Goto

\* With the clock of the updaters, an updater that succeeds removes no edge of
\* another page, and none that anybody upserted since it took the time.
THEOREM NoFreshEdgeIsRemoved ==
  ASSUME StoreLag = 0
  PROVE  ScanSpec => FreshEdgesSurvive
  <1>1. ASSUME IInv, [ScanNext]_allVars, NEW u \in Updater, Succeeds(u),
               NEW e \in DOMAIN edges, e[1] # srcId[u] \/ e \in touched[u]
        PROVE  e \in DOMAIN edges'
    <2>1. Finish(u) /\ AddsEdges(u)
      BY <1>1, SuccessIsFinish DEF Succeeds, AddsEdges
    <2>2. e \in touched[u] => ~(edges[e] < olderThan[u])
      BY <1>1, <2>1 DEF IInv, TouchedAreFresh, TypeOK
    <2> QED BY <1>1, <2>1, <2>2 DEF Finish, RemoveStaleEdges, Stale, Restrict
  <1>2. IInv /\ [ScanNext]_allVars =>
          [\A u \in Updater : Succeeds(u) =>
             \A e \in DOMAIN edges :
               e[1] # srcId[u] \/ e \in touched[u] => e \in DOMAIN edges']_vars
    BY <1>1
  <1> QED BY <1>2, ScanInvariance, PTL DEF ScanSpec, FreshEdgesSurvive

\* With the clock of the updaters, the page of an updater that succeeds, and had
\* the page to itself, has the edges to its links, and a stale one only if that
\* bears the very time which the updater took.
THEOREM PagesAreMirrored ==
  ASSUME StoreLag = 0
  PROVE  ScanSpec => MirrorsPage
  <1> DEFINE linked(u) == {k \in DOMAIN links : links[k].url \in page[u]}
  <1>1. ASSUME IInv, [ScanNext]_allVars, NEW u \in Updater, Succeeds(u), alone[u]
        PROVE  /\ page[u] \subseteq DOMAIN urlIndex
               /\ \A d \in linked(u) : <<srcId[u], d>> \in DOMAIN edges'
               /\ \A e \in DOMAIN edges' :
                    e[1] = srcId[u] => e[2] \in linked(u) \/ edges'[e] = olderThan[u]
    <2> USE DEF IInv
    <2>1. Finish(u) /\ AddsEdges(u) /\ pc[u] = "links" /\ todo[u] = {}
      BY <1>1, SuccessIsFinish DEF Succeeds, AddsEdges, Finish
    <2>2. Mirror(u)
      BY <1>1, <2>1 DEF Mirrors
    <2>3. \A p \in page[u] :
            /\ p \in DOMAIN urlIndex
            /\ <<srcId[u], urlIndex[p]>> \in DOMAIN edges
            /\ edges[<<srcId[u], urlIndex[p]>>] >= olderThan[u]
      BY <2>1, <2>2 DEF Mirror, DoneLink
    <2>4. /\ DOMAIN edges' = DOMAIN edges \ Stale(srcId[u], olderThan[u])
          /\ \A e \in DOMAIN edges' : edges'[e] = edges[e]
      BY <2>1 DEF Finish, RemoveStaleEdges, Restrict
    <2>5. \A e \in DOMAIN edges : edges[e] \in Nat /\ olderThan[u] \in Nat
      BY <1>1, TimeAssumption DEF TypeOK
    <2>6. ASSUME NEW d \in linked(u) PROVE <<srcId[u], d>> \in DOMAIN edges'
      <3>1. d = urlIndex[links[d].url] /\ links[d].url \in page[u]
        BY <1>1 DEF Indexed
      <3>2. <<srcId[u], d>> \in DOMAIN edges /\ edges[<<srcId[u], d>>] >= olderThan[u]
        BY <2>3, <3>1
      <3> QED BY <2>4, <2>5, <3>2 DEF Stale
    <2>7. ASSUME NEW e \in DOMAIN edges', e[1] = srcId[u]
          PROVE  e[2] \in linked(u) \/ edges'[e] = olderThan[u]
      <3>1. e \in DOMAIN edges /\ ~(edges[e] < olderThan[u]) /\ edges'[e] = edges[e]
        BY <2>4, <2>7 DEF Stale
      <3>2. CASE edges[e] > olderThan[u]
        <4>1. PICK p \in page[u] : p \in DOMAIN urlIndex /\ e[2] = urlIndex[p]
          BY <2>2, <2>7, <3>1, <3>2 DEF Mirror
        <4> QED BY <1>1, <4>1 DEF Indexed
      <3> QED BY <2>5, <3>1, <3>2
    <2> QED BY <2>3, <2>6, <2>7
  <1>2. IInv /\ [ScanNext]_allVars =>
          [\A u \in Updater : Succeeds(u) /\ alone[u] =>
             /\ page[u] \subseteq DOMAIN urlIndex
             /\ \A d \in linked(u) : <<srcId[u], d>> \in DOMAIN edges'
             /\ \A e \in DOMAIN edges' :
                  e[1] = srcId[u] => e[2] \in linked(u) \/ edges'[e] = olderThan[u]]_vars
    BY <1>1
  <1> QED BY <1>2, ScanInvariance, PTL DEF ScanSpec, MirrorsPage

\* A scan is always at a place: what is due of the partitions before it was seen.
THEOREM PlaceInvariance == ScanSpec => []PlaceInv
  <1> QED BY ScanInvariance, PlaceInit, PlaceNext, PTL DEF ScanSpec

\* Over fewer partitions than a byte has values, a scan of a graph that others
\* write to yields no row twice, and all those that were there and stayed as they
\* were, unless the connection broke.
THEOREM ScansAreExact == ScanSpec => ScanIsExact
  <1>1. IInv /\ PlaceInv /\ [ScanNext]_allVars =>
          [/\ rows' \cap seen = {}
           /\ OpenFails => query.parts >= Base
           /\ ScanEnds /\ ~lost => due \subseteq seen]_allVars
    <2> SUFFICES ASSUME IInv, PlaceInv, ScanNext
                 PROVE  /\ rows' \cap seen = {}
                        /\ OpenFails => query.parts >= Base
                        /\ ScanEnds /\ ~lost => due \subseteq seen
      OBVIOUS
    <2>1. rows' \cap seen = {}
      <3>1. rows' \subseteq rows \/ Open
        BY DEF ScanNext, Write, Read, ScanBegins, OpenFails, Leave, Yield, NextPartition,
               ScanEnds, ConnectionBreaks, ReadFails
      <3>2. PlaceInv'
        BY PlaceNext
      <3>3. Open => reader' = "next" /\ seen' = seen
        BY DEF Open
      <3>4. rows \cap seen = {}
        BY DEF PlaceInv, ScanState, SeenUpToHere
      <3> QED BY <3>1, <3>2, <3>3, <3>4 DEF PlaceInv, SeenUpToHere
    <2>2. OpenFails => query.parts >= Base
      <3> SUFFICES ASSUME OpenFails PROVE query.parts >= Base
        OBVIOUS
      <3>1. query.parts \in Parts /\ partition \in 0..(query.parts - 1)
        BY DEF OpenFails, PlaceInv, ScanState, Queries
      <3> QED BY <3>1, Partitions DEF OpenFails
    <2>3. ScanEnds /\ ~lost => due \subseteq seen
      <3> SUFFICES ASSUME ScanEnds, ~lost, NEW r \in due PROVE r \in seen
        OBVIOUS
      <3>1. /\ reader = "next" /\ rows = {} /\ query \in Queries
            /\ partition = query.parts - 1 /\ query.parts \in Parts
            /\ partition \in 0..(query.parts - 1)
        BY DEF ScanEnds, PlaceInv, ScanState, Queries
      <3>2. End = MaxUUID
        BY <3>1, Partitions DEF End
      <3>3. Token(r) < End
        BY <3>1, <3>2, RowsHaveTokens DEF PlaceInv, RowsHaveIds
      <3> QED BY <3>1, <3>3 DEF PlaceInv, SeenUpToHere
    <2> QED BY <2>1, <2>2, <2>3
  <1> QED BY <1>1, ScanInvariance, PlaceInvariance, PTL DEF ScanSpec, ScanIsExact
=============================================================================
