---------------------------- MODULE CrawlerProof ----------------------------
(***************************************************************************)
(* Proofs about a crawl, for any number of fetch workers and of pages,     *)
(* whatever the pages contain.                                             *)
(***************************************************************************)
EXTENDS Crawler, Integers, FiniteSetTheorems, TLAPS

(***************************************************************************)
(* What the payloads contain.                                              *)
(***************************************************************************)

\* Payload objects as MarkAsProcessed and the constructor leave them.
Blank == [link : Source \cup {NoUrl}, url : {NoUrl}, raw : {{}}, links : {{}},
          noFollow : {{}}, title : {{}}, text : {{}}]

\* The title that is extracted from page p.
TitleOf(p) == IF html[p].title THEN {p} ELSE {}

\* Where a payload is before its text is extracted, and where it is after that.
Fetched   == Worker \cup {"links"}
Finished  == {"text", "cast", "clone"} \cup Branch

\* Payload c is about one page, and has of it what the stages up to s extract.
RightFor(s, c) ==
  /\ c.url = c.link
  /\ s = "source" => c.raw = {}
  /\ s \in Fetched => c.raw = {c.link}
  /\ s \in Fetched \cup {"source"} => c.title = {} /\ c.text = {}
  /\ s \in Finished => c.raw = {} /\ c.title = TitleOf(c.link) /\ c.text = {c.link}

Types ==
  /\ html \in Sites
  /\ todo \subseteq Source
  /\ IsABag(pool) /\ BagToSet(pool) \subseteq Payload
  /\ hand \in [Slot -> Payload \cup {Nothing}]
  /\ stopped \subseteq Goroutine
  /\ {failed, cancelled, crashed, lost} \subseteq BOOLEAN
  /\ count \in Nat
  /\ DOMAIN docs \subseteq Source /\ updated \subseteq Source /\ skipped \subseteq Source
  /\ edges \subseteq Source \X Url

PoolIsBlank == BagToSet(pool) \subseteq Blank

HandsAreRight == \A s \in Slot : hand[s] # Nothing => RightFor(s, hand[s])

DocsAreOwn ==
  \A p \in DOMAIN docs : docs[p] = [url |-> p, title |-> TitleOf(p), content |-> {p}]

ContentInv == Types /\ PoolIsBlank /\ HandsAreRight /\ DocsAreOwn

(***************************************************************************)
(* Where the links are.                                                    *)
(***************************************************************************)

Upstream == Worker \cup {"source", "links", "text"}

\* The link of the payload in each slot.
LinkIn == [s \in Slot |-> IF hand[s] = Nothing THEN {} ELSE {hand[s].link}]

\* Each link is in one place, up to the broadcast.
OnePlace ==
  /\ todo \cap (DOMAIN docs \cup updated) = {}
  /\ \A s \in Upstream : LinkIn[s] \cap (DOMAIN docs \cup updated) = {}
  /\ \A s \in Upstream \cup {"cast"} : LinkIn[s] \cap todo = {}
  /\ \A s, t \in Upstream \cup {"cast"} : s # t => LinkIn[s] \cap LinkIn[t] = {}

\* The clone is stored before the original.
CloneFirst ==
  /\ LinkIn["clone"] \subseteq LinkIn["cast"]
  /\ LinkIn["clone"] \cap DOMAIN docs = {}
  /\ LinkIn["cast"] \cap updated = {}
  /\ LinkIn["index"] \subseteq DOMAIN docs
  /\ LinkIn["graph"] \subseteq updated
  /\ Undisturbed => DOMAIN docs \cup LinkIn["clone"] = updated \cup LinkIn["cast"]

\* The sink has counted what is stored and is not on its way to it.
Uncounted == Cardinality(DOMAIN docs \ LinkIn["index"]) + Cardinality(updated \ LinkIn["graph"])
Counted   == count <= Uncounted /\ (Undisturbed => count = Uncounted)

FlowInv == OnePlace /\ CloneFirst /\ Counted
IInv == ContentInv /\ FlowInv
-----------------------------------------------------------------------------
(* Slots, pools and payloads.                                              *)

\* The goroutines are different ones.
LEMMA Slots ==
  /\ Worker \subseteq Slot
  /\ {"source", "links", "text", "cast", "clone", "graph", "index", "sink"} \subseteq Slot
  /\ \A w \in Worker : w \notin {"source", "links", "text", "cast", "clone", "graph", "index", "sink"}
  BY WorkerAssumption DEF Slot, Goroutine, Branch

\* Passed gives c to s and takes what t has.
LEMMA PassedHands ==
  ASSUME hand \in [Slot -> Payload \cup {Nothing}], NEW s \in Slot, NEW t \in Slot, s # t,
         NEW c \in Payload, hand' = Passed(s, t, c)
  PROVE  /\ hand' \in [Slot -> Payload \cup {Nothing}]
         /\ hand'[s] = c /\ hand'[t] = Nothing
         /\ \A x \in Slot \ {s, t} : hand'[x] = hand[x]
  BY DEF Passed

\* Taken takes what t has.
LEMMA TakenHands ==
  ASSUME hand \in [Slot -> Payload \cup {Nothing}], NEW t \in Slot, hand' = Taken(t)
  PROVE  /\ hand' \in [Slot -> Payload \cup {Nothing}]
         /\ hand'[t] = Nothing
         /\ \A x \in Slot \ {t} : hand'[x] = hand[x]
  BY DEF Taken

\* An emptied payload is a blank one.
LEMMA EmptiedIsBlank ==
  ASSUME NEW c, c.link \in Source
  PROVE  Emptied(c) \in Payload \cap Blank
  BY DEF Emptied, Empty, Payload, Blank

\* The pool has one more object, a blank one, after MarkAsProcessed.
LEMMA PoolAfterPut ==
  ASSUME Types, PoolIsBlank, NEW c, c.link \in Source, MarkAsProcessed(c)
  PROVE  IsABag(pool') /\ BagToSet(pool') \subseteq Payload /\ PoolIsBlank'
<1>1. IsABag(pool') /\ BagToSet(pool') = BagToSet(pool) \cup {Emptied(c)}
  BY DEF Types, MarkAsProcessed, BagToSet, SetToBag, IsABag, (+), BagIn
<1>2. Emptied(c) \in Payload \cap Blank
  BY EmptiedIsBlank
<1> QED
  BY <1>1, <1>2 DEF Types, PoolIsBlank

\* What Get returns is blank, and the pool has no object that it did not have.
LEMMA PoolAfterGet ==
  ASSUME Types, PoolIsBlank, NEW c \in Gettable, Get(c)
  PROVE  /\ IsABag(pool') /\ BagToSet(pool') \subseteq Payload /\ PoolIsBlank'
         /\ c \in Blank
<1>1. IsABag(pool') /\ BagToSet(pool') \subseteq BagToSet(pool)
  <2>1. CASE pool' = pool (-) SetToBag({c})
    BY <2>1 DEF Types, BagToSet, SetToBag, IsABag, (-), BagIn
  <2> QED
    BY <2>1 DEF Get, Types
<1>2. c \in Blank
  BY DEF Gettable, PoolIsBlank, Empty, Blank
<1> QED
  BY <1>1, <1>2 DEF Types, PoolIsBlank

\* No links are extracted, as resolveURL returns none.
LEMMA NoLinks ==
  ASSUME NEW p, NEW anchors, NEW nofollow
  PROVE  Links(p, anchors, nofollow) = {}
  BY DEF Links, Discoveries, Extracted, Retained, Resolve

\* Payload c of s moves on to t, or is dropped, and the others stay.
HandsMove(s, t, c) ==
  /\ hand'[s] = c /\ hand'[t] = Nothing
  /\ \A x \in Slot \ {s, t} : hand'[x] = hand[x]

\* When a payload moves, it has to be right for where it goes.
LEMMA RightAfterMove ==
  ASSUME HandsAreRight, html' = html, NEW s \in Slot, NEW t \in Slot, NEW c,
         HandsMove(s, t, c), RightFor(s, c)
  PROVE  HandsAreRight'
  BY DEF HandsAreRight, RightFor, TitleOf, HandsMove

\* When payloads are only dropped, the others remain right.
LEMMA RightAfterDrop ==
  ASSUME HandsAreRight, html' = html,
         \A x \in Slot : hand'[x] \in {hand[x], Nothing}
  PROVE  HandsAreRight'
  BY DEF HandsAreRight, RightFor, TitleOf

-----------------------------------------------------------------------------
(* Every action preserves ContentInv.                                      *)

\* At the start there are no payloads and no documents.
LEMMA InitContent == Init => ContentInv
<1> SUFFICES ASSUME Init PROVE ContentInv
  OBVIOUS
<1>1. IsABag(pool) /\ BagToSet(pool) = {}
  BY DEF Init, EmptyBag, SetToBag, IsABag, BagToSet
<1>2. docs = <<>> /\ DOMAIN docs = {}
  BY DEF Init
<1>3. Types
  BY <1>1, <1>2 DEF Init, Types
<1> QED
  BY <1>1, <1>2, <1>3 DEF Init, ContentInv, PoolIsBlank, HandsAreRight, DocsAreOwn

\* The source sets the link of a blank payload.
LEMMA SourceNextContent ==
  ASSUME ContentInv, NEW p \in todo, SourceNext(p)
  PROVE  ContentInv'
<1>1. PICK c \in Gettable : Get(c) /\ hand' = [hand EXCEPT !["source"] = [c EXCEPT !.link = p, !.url = p]]
  BY DEF SourceNext
<1>2. IsABag(pool') /\ BagToSet(pool') \subseteq Payload /\ PoolIsBlank' /\ c \in Blank
  BY <1>1, PoolAfterGet DEF ContentInv
<1> DEFINE d == [c EXCEPT !.link = p, !.url = p]
<1>3. d \in Payload /\ RightFor("source", d)
  BY <1>2, Slots DEF Blank, Payload, RightFor, ContentInv, Types, Fetched, Finished, Branch
<1> HIDE DEF d
<1>5. /\ hand' \in [Slot -> Payload \cup {Nothing}]
      /\ hand'["source"] = d /\ \A x \in Slot \ {"source"} : hand'[x] = hand[x]
  BY <1>1, <1>3, Slots DEF ContentInv, Types, d
<1>6. HandsAreRight'
  BY <1>3, <1>5 DEF ContentInv, HandsAreRight, RightFor, TitleOf, SourceNext
<1>7. Types'
  BY <1>2, <1>5 DEF ContentInv, Types, SourceNext, flags, stores
<1>8. DocsAreOwn'
  BY DEF ContentInv, DocsAreOwn, TitleOf, SourceNext, stores
<1> QED
  BY <1>2, <1>6, <1>7, <1>8 DEF ContentInv

\* A page that is not fetched leaves its payload blank again, in the pool.
LEMMA FetchDropsContent ==
  ASSUME ContentInv, NEW w \in Worker, FetchDrops(w)
  PROVE  ContentInv'
<1>1. hand["source"] \in Payload /\ hand' = Taken("source")
  BY Slots DEF FetchDrops, Receives, ContentInv, Types
<1>2. PICK body : MarkAsProcessed([hand["source"] EXCEPT !.raw = @ \cup body])
  BY DEF FetchDrops
<1>3. IsABag(pool') /\ BagToSet(pool') \subseteq Payload /\ PoolIsBlank'
  <2>1. [hand["source"] EXCEPT !.raw = @ \cup body].link \in Source
    BY <1>1 DEF Payload
  <2> QED
    BY <1>2, <2>1, PoolAfterPut DEF ContentInv
<1>4. /\ hand' \in [Slot -> Payload \cup {Nothing}]
      /\ \A x \in Slot : hand'[x] \in {hand[x], Nothing}
  BY <1>1, Slots, TakenHands DEF ContentInv, Types
<1>5. Types'
  BY <1>1, <1>3, <1>4 DEF ContentInv, Types, FetchDrops, flags, stores, Payload
<1>6. HandsAreRight'
  BY <1>4, RightAfterDrop DEF ContentInv, FetchDrops
<1>7. DocsAreOwn'
  BY DEF ContentInv, DocsAreOwn, TitleOf, FetchDrops, stores
<1> QED
  BY <1>3, <1>5, <1>6, <1>7 DEF ContentInv

\* The fetcher writes the content of the page of the payload's link.
LEMMA FetchContent ==
  ASSUME ContentInv, NEW w \in Worker, Fetch(w)
  PROVE  ContentInv'
<1> DEFINE c == hand["source"]
           d == [c EXCEPT !.raw = @ \cup {c.url}]
<1>1. c \in Payload /\ RightFor("source", c) /\ hand' = Passed(w, "source", d)
  BY Slots DEF Fetch, Receives, ContentInv, Types, HandsAreRight
<1>2. d \in Payload /\ RightFor(w, d)
  BY <1>1, Slots DEF Payload, RightFor, Fetched, Finished, Branch
<1> HIDE DEF c, d
<1>3. hand' \in [Slot -> Payload \cup {Nothing}] /\ HandsMove(w, "source", d)
  BY <1>1, <1>2, Slots, PassedHands DEF ContentInv, Types, HandsMove
<1>4. HandsAreRight'
  BY <1>2, <1>3, Slots, RightAfterMove DEF ContentInv, Fetch
<1>5. Types' /\ PoolIsBlank' /\ DocsAreOwn'
  BY <1>3 DEF ContentInv, Types, PoolIsBlank, DocsAreOwn, TitleOf, Fetch, flags, stores
<1> QED
  BY <1>4, <1>5 DEF ContentInv

\* The link extractor leaves the content as it is.
LEMMA ExtractLinksContent ==
  ASSUME ContentInv, NEW w \in Worker, ExtractLinks(w)
  PROVE  ContentInv'
<1> DEFINE c == hand[w]
           Found(nofollow) == UNION {Links(c.url, html[p].anchors, nofollow) : p \in c.raw}
           d == [c EXCEPT !.links = @ \cup Found(FALSE), !.noFollow = @ \cup Found(TRUE)]
<1>1. c \in Payload /\ RightFor(w, c) /\ hand' = Passed("links", w, d)
  BY Slots DEF ExtractLinks, Receives, ContentInv, Types, HandsAreRight
<1>2. Found(FALSE) = {} /\ Found(TRUE) = {}
  BY NoLinks
<1> HIDE DEF Found
<1>3. d \in Payload /\ RightFor("links", d)
  BY <1>1, <1>2, Slots DEF Payload, RightFor, Fetched, Finished, Branch
<1> HIDE DEF c, d
<1>4. hand' \in [Slot -> Payload \cup {Nothing}] /\ HandsMove("links", w, d)
  BY <1>1, <1>3, Slots, PassedHands DEF ContentInv, Types, HandsMove
<1>5. HandsAreRight'
  BY <1>3, <1>4, Slots, RightAfterMove DEF ContentInv, ExtractLinks
<1>6. Types' /\ PoolIsBlank' /\ DocsAreOwn'
  BY <1>4 DEF ContentInv, Types, PoolIsBlank, DocsAreOwn, TitleOf, ExtractLinks, flags, stores
<1> QED
  BY <1>5, <1>6 DEF ContentInv

\* A panic of the extractor leaves nothing but what is stored.
LEMMA ExtractionCrashesContent ==
  ASSUME ContentInv, NEW w \in Worker, ExtractionCrashes(w)
  PROVE  ContentInv'
<1>1. IsABag(pool') /\ BagToSet(pool') = {}
  BY DEF ExtractionCrashes, EmptyBag, SetToBag, IsABag, BagToSet
<1> QED
  BY <1>1 DEF ContentInv, Types, PoolIsBlank, HandsAreRight, DocsAreOwn, TitleOf,
              ExtractionCrashes, stores

\* The text extractor writes title and text of the content it finds.
LEMMA ExtractTextContent ==
  ASSUME ContentInv, ExtractText
  PROVE  ContentInv'
<1> DEFINE c == hand["links"]
           titles == {p \in c.raw : html[p].title}
           d == [c EXCEPT !.title = IF titles = {} THEN @ ELSE titles, !.text = c.raw, !.raw = {}]
<1>1. c \in Payload /\ RightFor("links", c) /\ hand' = Passed("text", "links", d)
  BY Slots DEF ExtractText, Receives, ContentInv, Types, HandsAreRight
<1>2. titles \subseteq Source /\ (IF titles = {} THEN c.title ELSE titles) = TitleOf(c.link)
  BY <1>1 DEF Payload, RightFor, Fetched, TitleOf
<1> HIDE DEF titles
<1>3. d \in Payload /\ RightFor("text", d)
  BY <1>1, <1>2, Slots DEF Payload, RightFor, Fetched, Finished, Branch
<1> HIDE DEF c, d
<1>4. hand' \in [Slot -> Payload \cup {Nothing}] /\ HandsMove("text", "links", d)
  BY <1>1, <1>3, Slots, PassedHands DEF ContentInv, Types, HandsMove
<1>5. HandsAreRight'
  BY <1>3, <1>4, Slots, RightAfterMove DEF ContentInv, ExtractText
<1>6. Types' /\ PoolIsBlank' /\ DocsAreOwn'
  BY <1>4 DEF ContentInv, Types, PoolIsBlank, DocsAreOwn, TitleOf, ExtractText, flags, stores
<1> QED
  BY <1>5, <1>6 DEF ContentInv

\* The steps in which a goroutine only takes a payload, or lets one go.
LEMMA DropsContent ==
  ASSUME ContentInv, NEW t \in Slot,
         hand' = Taken(t), stopped' \subseteq Goroutine, {failed, cancelled, crashed}' \subseteq BOOLEAN,
         edges' \subseteq Source \X Url,
         UNCHANGED <<html, todo, pool, count, docs, updated, skipped, lost>>
  PROVE  ContentInv'
<1>1. /\ hand' \in [Slot -> Payload \cup {Nothing}]
      /\ \A x \in Slot : hand'[x] \in {hand[x], Nothing}
  BY TakenHands DEF ContentInv, Types
<1>2. HandsAreRight'
  BY <1>1, RightAfterDrop DEF ContentInv
<1>3. Types'
  BY <1>1 DEF ContentInv, Types
<1> QED
  BY <1>2, <1>3 DEF ContentInv, PoolIsBlank, DocsAreOwn, TitleOf

\* The text that is broadcast goes to the clone and to the original.
LEMMA BroadcastContent ==
  ASSUME ContentInv, Broadcast
  PROVE  ContentInv'
<1> DEFINE c == hand["text"]
           d == [c EXCEPT !.raw = {}]
<1>1. c \in Payload /\ RightFor("text", c)
  BY Slots DEF Broadcast, Receives, ContentInv, Types, HandsAreRight
<1>2. PICK n \in Gettable : Get(n) /\ hand' = [Passed("cast", "text", d) EXCEPT !["clone"] = Cloned(c, n)]
  BY DEF Broadcast
<1>3. IsABag(pool') /\ BagToSet(pool') \subseteq Payload /\ PoolIsBlank' /\ n \in Blank
  BY <1>2, PoolAfterGet DEF ContentInv
<1> DEFINE e == Cloned(c, n)
<1>4. d \in Payload /\ RightFor("cast", d)
  BY <1>1, Slots DEF Payload, RightFor, Fetched, Finished, Branch
<1>5. e \in Payload /\ RightFor("clone", e)
  BY <1>1, <1>3, Slots DEF Payload, Blank, Cloned, RightFor, Fetched, Finished, Branch
<1> HIDE DEF c, d, e
<1>6. /\ hand' \in [Slot -> Payload \cup {Nothing}]
      /\ hand'["cast"] = d /\ hand'["text"] = Nothing /\ hand'["clone"] = e
      /\ \A x \in Slot \ {"cast", "text", "clone"} : hand'[x] = hand[x]
  BY <1>2, <1>4, <1>5, Slots DEF Passed, ContentInv, Types, e
<1>7. HandsAreRight'
  <2> SUFFICES ASSUME NEW x \in Slot, hand'[x] # Nothing PROVE RightFor(x, hand[x])'
    BY DEF HandsAreRight
  <2>1. CASE x = "cast"
    BY <2>1, <1>4, <1>6 DEF RightFor, TitleOf, Broadcast
  <2>2. CASE x = "clone"
    BY <2>2, <1>5, <1>6 DEF RightFor, TitleOf, Broadcast
  <2>3. CASE x \notin {"cast", "text", "clone"}
    BY <2>3, <1>6 DEF ContentInv, HandsAreRight, RightFor, TitleOf, Broadcast
  <2> QED
    BY <2>1, <2>2, <2>3, <1>6
<1>8. Types' /\ DocsAreOwn'
  BY <1>3, <1>6 DEF ContentInv, Types, DocsAreOwn, TitleOf, Broadcast, flags, stores
<1> QED
  BY <1>3, <1>7, <1>8 DEF ContentInv

\* The document is made of the clone, and so of its page.
LEMMA IndexDocumentContent ==
  ASSUME ContentInv, IndexDocument
  PROVE  ContentInv'
<1> DEFINE c == hand["clone"]
<1>1. c \in Payload /\ RightFor("clone", c) /\ hand' = Passed("index", "clone", c)
  BY Slots DEF IndexDocument, Receives, ContentInv, Types, HandsAreRight
<1>2. RightFor("index", c)
  BY <1>1, Slots DEF RightFor, Fetched, Finished, Branch
<1>3. /\ DOMAIN docs' = DOMAIN docs \cup {c.link}
      /\ docs'[c.link] = [url |-> c.url, title |-> c.title, content |-> c.text]
      /\ \A p \in DOMAIN docs \ {c.link} : docs'[p] = docs[p]
  BY DEF IndexDocument
<1>4. DocsAreOwn'
  BY <1>1, <1>3, Slots DEF ContentInv, DocsAreOwn, TitleOf, RightFor, Finished, IndexDocument
<1>5. c.link \in Source
  BY <1>1 DEF Payload
<1> HIDE DEF c
<1>6. hand' \in [Slot -> Payload \cup {Nothing}] /\ HandsMove("index", "clone", c)
  BY <1>1, Slots, PassedHands DEF ContentInv, Types, HandsMove
<1>7. HandsAreRight'
  BY <1>2, <1>6, Slots, RightAfterMove DEF ContentInv, IndexDocument
<1>8. Types' /\ PoolIsBlank'
  BY <1>3, <1>5, <1>6 DEF ContentInv, Types, PoolIsBlank, IndexDocument, flags
<1> QED
  BY <1>4, <1>7, <1>8 DEF ContentInv

\* The graph update changes no payload.
LEMMA UpdateGraphContent ==
  ASSUME ContentInv, UpdateGraph
  PROVE  ContentInv'
<1> DEFINE c == hand["cast"]
<1>1. c \in Payload /\ RightFor("cast", c) /\ hand' = Passed("graph", "cast", c)
  BY Slots DEF UpdateGraph, ReadyForGraph, Receives, ContentInv, Types, HandsAreRight
<1>2. RightFor("graph", c)
  BY <1>1, Slots DEF RightFor, Fetched, Finished, Branch
<1>3. updated' \subseteq Source /\ edges' \subseteq Source \X Url
  BY <1>1 DEF UpdateGraph, RightFor, Payload, ContentInv, Types
<1> HIDE DEF c
<1>4. hand' \in [Slot -> Payload \cup {Nothing}] /\ HandsMove("graph", "cast", c)
  BY <1>1, Slots, PassedHands DEF ContentInv, Types, HandsMove
<1>5. HandsAreRight'
  BY <1>2, <1>4, Slots, RightAfterMove DEF ContentInv, UpdateGraph
<1>6. Types' /\ PoolIsBlank' /\ DocsAreOwn'
  BY <1>3, <1>4 DEF ContentInv, Types, PoolIsBlank, DocsAreOwn, TitleOf, UpdateGraph, flags
<1> QED
  BY <1>5, <1>6 DEF ContentInv

\* A branch that fails lets its payload go, which is lost to the pool.
LEMMA UpdateFailsContent ==
  ASSUME ContentInv, UpdateFails
  PROVE  ContentInv'
<1> DEFINE c == hand["cast"]
<1>1. c \in Payload /\ RightFor("cast", c)
  BY Slots DEF UpdateFails, ReadyForGraph, Receives, ContentInv, Types, HandsAreRight
<1>2. edges' \subseteq Source \X Url
  BY <1>1 DEF UpdateFails, RightFor, Payload, ContentInv, Types
<1> QED
  BY <1>2, Slots, DropsContent DEF UpdateFails, Fails, ContentInv, Types, Goroutine, Branch

\* The sink marks the payload, and the pool gets it emptied.
LEMMA SinkConsumesContent ==
  ASSUME ContentInv, NEW b \in Branch, SinkConsumes(b)
  PROVE  ContentInv'
<1>1. b \in Slot /\ hand[b] \in Payload /\ hand' = Taken(b)
  BY Slots DEF SinkConsumes, ContentInv, Types, Branch
<1>2. IsABag(pool') /\ BagToSet(pool') \subseteq Payload /\ PoolIsBlank'
  BY <1>1, PoolAfterPut DEF SinkConsumes, Payload, ContentInv
<1>3. /\ hand' \in [Slot -> Payload \cup {Nothing}]
      /\ \A x \in Slot : hand'[x] \in {hand[x], Nothing}
  BY <1>1, TakenHands DEF ContentInv, Types
<1>4. HandsAreRight'
  BY <1>3, RightAfterDrop DEF ContentInv, SinkConsumes
<1>5. Types' /\ DocsAreOwn'
  BY <1>2, <1>3 DEF ContentInv, Types, DocsAreOwn, TitleOf, SinkConsumes, flags, stores
<1> QED
  BY <1>2, <1>4, <1>5 DEF ContentInv

\* A goroutine that sees the context done lets its payload go.
LEMMA QuitsContent ==
  ASSUME ContentInv, NEW s \in Goroutine, Quits(s)
  PROVE  ContentInv'
<1>1. /\ hand' \in [Slot -> Payload \cup {Nothing}]
      /\ \A x \in Slot : hand'[x] \in {hand[x], Nothing}
  BY DEF Quits, ContentInv, Types
<1>2. HandsAreRight'
  BY <1>1, RightAfterDrop DEF ContentInv, Quits
<1>3. Types' /\ PoolIsBlank' /\ DocsAreOwn'
  BY <1>1 DEF ContentInv, Types, PoolIsBlank, DocsAreOwn, TitleOf, Quits, flags, stores
<1> QED
  BY <1>2, <1>3 DEF ContentInv

\* The steps in which no payload moves.
LEMMA OthersContent ==
  ASSUME ContentInv, todo' \subseteq todo, stopped' \subseteq Goroutine,
         {failed, cancelled, crashed, lost}' \subseteq BOOLEAN,
         UNCHANGED <<html, pool, hand, count, stores, skipped>>
  PROVE  ContentInv'
<1>1. Types' /\ PoolIsBlank' /\ DocsAreOwn'
  BY DEF ContentInv, Types, PoolIsBlank, DocsAreOwn, TitleOf, stores
<1>2. HandsAreRight'
  BY DEF ContentInv, HandsAreRight, RightFor, TitleOf
<1> QED
  BY <1>1, <1>2 DEF ContentInv

\* Every step keeps what is said of the payloads.
LEMMA StepContent == ContentInv /\ [Next]_vars => ContentInv'
<1> SUFFICES ASSUME ContentInv, [Next]_vars PROVE ContentInv'
  OBVIOUS
<1>1. ASSUME NEW s \in Goroutine, Runs(s) PROVE ContentInv'
  <2>1. CASE Ends(s)
    BY <2>1, OthersContent DEF Ends, flags, ContentInv, Types
  <2>2. CASE Quits(s)
    BY <2>2, QuitsContent
  <2>3. CASE \E p \in todo : SourceNext(p)
    BY <2>3, SourceNextContent
  <2>4. CASE s \in Worker /\ Fetch(s)
    BY <2>4, FetchContent
  <2>5. CASE s \in Worker /\ FetchDrops(s)
    BY <2>5, FetchDropsContent
  <2>6. CASE s \in Worker /\ FetchFails(s)
    BY <2>6, Slots, DropsContent DEF FetchFails, Fails, stores, ContentInv, Types
  <2>7. CASE \E w \in Worker : ExtractLinks(w) \/ ExtractionCrashes(w)
    BY <2>7, ExtractLinksContent, ExtractionCrashesContent
  <2>8. CASE ExtractText
    BY <2>8, ExtractTextContent
  <2>9. CASE Broadcast
    BY <2>9, BroadcastContent
  <2>10. CASE IndexDocument
    BY <2>10, IndexDocumentContent
  <2>11. CASE s = "index" /\ IndexFails
    BY <2>11, Slots, DropsContent DEF IndexFails, Fails, stores, ContentInv, Types
  <2>12. CASE UpdateGraph
    BY <2>12, UpdateGraphContent
  <2>13. CASE UpdateFails
    BY <2>13, UpdateFailsContent
  <2>14. CASE \E b \in Branch : SinkConsumes(b)
    BY <2>14, SinkConsumesContent
  <2> QED
    BY <1>1, <2>1, <2>2, <2>3, <2>4, <2>5, <2>6, <2>7, <2>8, <2>9, <2>10, <2>11, <2>12, <2>13,
       <2>14 DEF Runs
<1>2. CASE IteratorBreaks
  BY <1>2, OthersContent DEF IteratorBreaks, flags, ContentInv, Types
<1>3. CASE Cancel
  BY <1>3, OthersContent DEF Cancel, ContentInv, Types
<1>4. CASE Expire
  BY <1>4, OthersContent DEF Expire, ContentInv, Types
<1>5. CASE Spins \/ UNCHANGED vars
  BY <1>5, OthersContent DEF Spins, vars, flags, ContentInv, Types
<1> QED
  BY <1>1, <1>2, <1>3, <1>4, <1>5 DEF Next

-----------------------------------------------------------------------------
(* Every action preserves FlowInv.                                         *)

\* Sets of pages are finite.
LEMMA Finite ==
  ASSUME NEW S, S \subseteq Source
  PROVE  IsFiniteSet(S) /\ Cardinality(S) \in Nat /\ Cardinality(S) <= Cardinality(Source)
  BY SourceAssumption, FS_Subset, FS_CardinalityType

\* At the start every link is still to come.
LEMMA InitFlow == Init => FlowInv
<1> SUFFICES ASSUME Init PROVE FlowInv
  OBVIOUS
<1>1. docs = <<>> /\ DOMAIN docs = {} /\ updated = {}
  BY DEF Init
<1>2. \A s \in Slot : LinkIn[s] = {}
  BY DEF Init, LinkIn
<1>3. Uncounted = 0
  BY <1>1, FS_EmptySet DEF Uncounted
<1>4. OnePlace
  BY <1>1, <1>2, Slots DEF Init, OnePlace, Upstream
<1>5. CloneFirst
  BY <1>1, <1>2, Slots DEF CloneFirst
<1> QED
  BY <1>3, <1>4, <1>5 DEF Init, FlowInv, Counted

\* Payloads can be dropped where nothing that Undisturbed promises depends on it.
LEMMA DropsFlow ==
  ASSUME Types, FlowInv,
         \A x \in Slot : LinkIn'[x] \subseteq LinkIn[x],
         LinkIn'["clone"] \subseteq LinkIn'["cast"],
         Undisturbed' => /\ Undisturbed
                         /\ \A x \in {"cast", "clone", "index", "graph"} : LinkIn'[x] = LinkIn[x],
         todo' \subseteq todo, UNCHANGED <<count, docs, updated>>
  PROVE  FlowInv'
<1>1. OnePlace'
  BY Slots DEF FlowInv, OnePlace, Upstream
<1>2. CloneFirst'
  BY Slots DEF FlowInv, CloneFirst
<1> DEFINE D == DOMAIN docs \ LinkIn["index"]
           U == updated \ LinkIn["graph"]
<1>3. D \subseteq D' /\ D' \subseteq Source /\ U \subseteq U' /\ U' \subseteq Source
  BY Slots DEF Types
<1>4. /\ Cardinality(D) \in Nat /\ Cardinality(D)' \in Nat /\ Cardinality(D) <= Cardinality(D)'
      /\ Cardinality(U) \in Nat /\ Cardinality(U)' \in Nat /\ Cardinality(U) <= Cardinality(U)'
  <2>1. IsFiniteSet(D') /\ IsFiniteSet(U')
    BY <1>3, Finite
  <2> QED
    BY <1>3, <2>1, FS_Subset, FS_CardinalityType
<1>5. Undisturbed' => D' = D /\ U' = U
  OBVIOUS
<1> HIDE DEF D, U
<1>6. Uncounted = Cardinality(D) + Cardinality(U) /\ Uncounted' = Cardinality(D)' + Cardinality(U)'
  BY DEF Uncounted, D, U
<1>7. Counted'
  BY <1>4, <1>5, <1>6 DEF Types, FlowInv, Counted
<1> QED
  BY <1>1, <1>2, <1>7 DEF FlowInv

\* What has been stored and counted stays as it is.
LEMMA StoredStays ==
  ASSUME FlowInv, UNCHANGED <<count, docs, updated, failed, cancelled, crashed>>,
         LinkIn'["index"] = LinkIn["index"], LinkIn'["graph"] = LinkIn["graph"]
  PROVE  Counted'
  BY DEF FlowInv, Counted, Uncounted, Undisturbed

\* The links of the others, when a payload moves.
LEMMA LinksAfterMove ==
  ASSUME NEW s \in Slot, NEW t \in Slot, NEW c \in Payload, s # t, HandsMove(s, t, c)
  PROVE  /\ LinkIn'[s] = {c.link} /\ LinkIn'[t] = {}
         /\ \A x \in Slot \ {s, t} : LinkIn'[x] = LinkIn[x]
  BY NothingAssumption DEF HandsMove, LinkIn

\* A payload moves from t to s, before the broadcast.
LEMMA UpstreamFlow ==
  ASSUME FlowInv, NEW s \in Upstream, NEW t \in Upstream, s # t, LinkIn[s] = {},
         LinkIn'[s] = LinkIn[t], LinkIn'[t] = {},
         \A x \in Slot \ {s, t} : LinkIn'[x] = LinkIn[x],
         UNCHANGED <<todo, failed, cancelled, crashed, count, docs, updated>>
  PROVE  FlowInv'
<1>1. \A x \in {"cast", "clone", "index", "graph"} : LinkIn'[x] = LinkIn[x]
  BY Slots DEF Upstream
<1>2. OnePlace'
  <2>1. \A x \in Upstream \cup {"cast"} :
          x # s => LinkIn'[x] \subseteq LinkIn[x] /\ LinkIn'[x] \cap LinkIn[t] = {}
    <3> SUFFICES ASSUME NEW x \in Upstream \cup {"cast"}, x # s
                 PROVE  LinkIn'[x] \subseteq LinkIn[x] /\ LinkIn'[x] \cap LinkIn[t] = {}
      OBVIOUS
    <3>1. x # t => LinkIn'[x] = LinkIn[x]
      BY Slots DEF Upstream
    <3> QED
      BY <3>1 DEF FlowInv, OnePlace
  <2>2. \A x \in Upstream \cup {"cast"}, y \in Upstream \cup {"cast"} : x # y => LinkIn'[x] \cap LinkIn'[y] = {}
    BY <2>1 DEF FlowInv, OnePlace
  <2> QED
    BY <2>1, <2>2 DEF FlowInv, OnePlace
<1>3. CloneFirst'
  BY <1>1 DEF FlowInv, CloneFirst, Undisturbed
<1> QED
  BY <1>1, <1>2, <1>3, StoredStays DEF FlowInv

\* A link goes from the source's list into a payload.
LEMMA SourceNextFlow ==
  ASSUME IInv, NEW p \in todo, SourceNext(p)
  PROVE  FlowInv'
<1>1. /\ LinkIn["source"] = {} /\ LinkIn'["source"] = {p}
      /\ \A x \in Slot \ {"source"} : LinkIn'[x] = LinkIn[x]
  <2>1. PICK c \in Gettable : Get(c) /\ hand' = [hand EXCEPT !["source"] = [c EXCEPT !.link = p, !.url = p]]
    BY DEF SourceNext
  <2> DEFINE d == [c EXCEPT !.link = p, !.url = p]
  <2>2. c \in Blank
    BY <2>1, PoolAfterGet DEF IInv, ContentInv
  <2>3. d \in Payload /\ d.link = p
    BY <2>2 DEF Blank, Payload, IInv, ContentInv, Types
  <2> HIDE DEF d
  <2>4. hand'["source"] = d /\ \A x \in Slot \ {"source"} : hand'[x] = hand[x]
    BY <2>1, Slots DEF IInv, ContentInv, Types, d
  <2> QED
    BY <2>3, <2>4, Slots, NothingAssumption DEF LinkIn, SourceNext
<1>2. todo' = todo \ {p} /\ p \notin DOMAIN docs \cup updated
  BY DEF SourceNext, IInv, FlowInv, OnePlace
<1>3. UNCHANGED <<failed, cancelled, crashed, count, docs, updated>>
  BY DEF SourceNext, flags, stores
<1>4. OnePlace'
  BY <1>1, <1>2, <1>3, Slots DEF IInv, FlowInv, OnePlace, Upstream
<1>5. CloneFirst'
  BY <1>1, <1>3, Slots DEF IInv, FlowInv, CloneFirst, Undisturbed
<1> QED
  BY <1>1, <1>3, <1>4, <1>5, Slots, StoredStays DEF IInv, FlowInv

\* A link goes from the source to a fetch worker.
LEMMA FetchFlow ==
  ASSUME IInv, NEW w \in Worker, Fetch(w)
  PROVE  FlowInv'
<1> DEFINE c == hand["source"]
           d == [c EXCEPT !.raw = @ \cup {c.url}]
<1>1. c \in Payload /\ RightFor("source", c) /\ hand' = Passed(w, "source", d) /\ hand[w] = Nothing
  BY Slots DEF Fetch, Receives, IInv, ContentInv, Types, HandsAreRight
<1>2. d \in Payload /\ d.link = c.link
  BY <1>1 DEF Payload, RightFor
<1>3. LinkIn[w] = {} /\ LinkIn["source"] = {c.link}
  BY <1>1, Slots, NothingAssumption DEF LinkIn
<1> HIDE DEF c, d
<1>4. HandsMove(w, "source", d)
  BY <1>1, <1>2, Slots, PassedHands DEF IInv, ContentInv, Types, HandsMove
<1>5. /\ LinkIn'[w] = LinkIn["source"] /\ LinkIn'["source"] = {}
      /\ \A x \in Slot \ {w, "source"} : LinkIn'[x] = LinkIn[x]
  BY <1>2, <1>3, <1>4, Slots, LinksAfterMove
<1>6. UNCHANGED <<todo, failed, cancelled, crashed, count, docs, updated>>
  BY DEF Fetch, flags, stores
<1> QED
  BY <1>3, <1>5, <1>6, Slots, UpstreamFlow DEF IInv, Upstream

\* A link goes from a fetch worker to the link extractor.
LEMMA ExtractLinksFlow ==
  ASSUME IInv, NEW w \in Worker, ExtractLinks(w)
  PROVE  FlowInv'
<1> DEFINE c == hand[w]
           Found(nofollow) == UNION {Links(c.url, html[p].anchors, nofollow) : p \in c.raw}
           d == [c EXCEPT !.links = @ \cup Found(FALSE), !.noFollow = @ \cup Found(TRUE)]
<1>1. c \in Payload /\ hand' = Passed("links", w, d) /\ hand["links"] = Nothing
  BY Slots DEF ExtractLinks, Receives, IInv, ContentInv, Types
<1>2. Found(FALSE) = {} /\ Found(TRUE) = {}
  BY NoLinks
<1> HIDE DEF Found
<1>3. d \in Payload /\ d.link = c.link
  BY <1>1, <1>2 DEF Payload
<1>4. LinkIn["links"] = {} /\ LinkIn[w] = {c.link}
  BY <1>1, Slots, NothingAssumption DEF LinkIn
<1> HIDE DEF c, d
<1>5. HandsMove("links", w, d)
  BY <1>1, <1>3, Slots, PassedHands DEF IInv, ContentInv, Types, HandsMove
<1>6. /\ LinkIn'["links"] = LinkIn[w] /\ LinkIn'[w] = {}
      /\ \A x \in Slot \ {"links", w} : LinkIn'[x] = LinkIn[x]
  BY <1>3, <1>4, <1>5, Slots, LinksAfterMove
<1>7. UNCHANGED <<todo, failed, cancelled, crashed, count, docs, updated>>
  BY DEF ExtractLinks, flags, stores
<1> QED
  BY <1>4, <1>6, <1>7, Slots, UpstreamFlow DEF IInv, Upstream

\* A link goes from the link extractor to the text extractor.
LEMMA ExtractTextFlow ==
  ASSUME IInv, ExtractText
  PROVE  FlowInv'
<1> DEFINE c == hand["links"]
           titles == {p \in c.raw : html[p].title}
           d == [c EXCEPT !.title = IF titles = {} THEN @ ELSE titles, !.text = c.raw, !.raw = {}]
<1>1. c \in Payload /\ hand' = Passed("text", "links", d) /\ hand["text"] = Nothing
  BY Slots DEF ExtractText, Receives, IInv, ContentInv, Types
<1>2. titles \subseteq Source
  BY <1>1 DEF Payload
<1> HIDE DEF titles
<1>3. d \in Payload /\ d.link = c.link
  BY <1>1, <1>2 DEF Payload
<1>4. LinkIn["text"] = {} /\ LinkIn["links"] = {c.link}
  BY <1>1, Slots, NothingAssumption DEF LinkIn
<1> HIDE DEF c, d
<1>5. HandsMove("text", "links", d)
  BY <1>1, <1>3, Slots, PassedHands DEF IInv, ContentInv, Types, HandsMove
<1>6. /\ LinkIn'["text"] = LinkIn["links"] /\ LinkIn'["links"] = {}
      /\ \A x \in Slot \ {"text", "links"} : LinkIn'[x] = LinkIn[x]
  BY <1>3, <1>4, <1>5, Slots, LinksAfterMove
<1>7. UNCHANGED <<todo, failed, cancelled, crashed, count, docs, updated>>
  BY DEF ExtractText, flags, stores
<1> QED
  BY <1>4, <1>6, <1>7, Slots, UpstreamFlow DEF IInv, Upstream

\* A link goes from the text extractor to the clone and to the original.
LEMMA BroadcastFlow ==
  ASSUME IInv, Broadcast
  PROVE  FlowInv'
<1> DEFINE c == hand["text"]
           d == [c EXCEPT !.raw = {}]
<1>1. c \in Payload /\ hand["cast"] = Nothing
  BY Slots DEF Broadcast, Receives, IInv, ContentInv, Types
<1>2. PICK n \in Gettable : Get(n) /\ hand' = [Passed("cast", "text", d) EXCEPT !["clone"] = Cloned(c, n)]
  BY DEF Broadcast
<1>3. n \in Blank
  BY <1>2, PoolAfterGet DEF IInv, ContentInv
<1> DEFINE e == Cloned(c, n)
<1>4. d \in Payload /\ d.link = c.link /\ e \in Payload /\ e.link = c.link
  BY <1>1, <1>3 DEF Payload, Blank, Cloned
<1>5. LinkIn["text"] = {c.link} /\ LinkIn["cast"] = {}
  BY <1>1, Slots, NothingAssumption DEF LinkIn
<1> HIDE DEF c, d, e
<1>6. /\ hand'["cast"] = d /\ hand'["text"] = Nothing /\ hand'["clone"] = e
      /\ \A x \in Slot \ {"cast", "text", "clone"} : hand'[x] = hand[x]
  BY <1>2, <1>4, Slots DEF Passed, IInv, ContentInv, Types, e
<1>7. /\ LinkIn'["cast"] = {c.link} /\ LinkIn'["text"] = {} /\ LinkIn'["clone"] = {c.link}
      /\ \A x \in Slot \ {"cast", "text", "clone"} : LinkIn'[x] = LinkIn[x]
  BY <1>4, <1>6, Slots, NothingAssumption DEF LinkIn
<1>8. UNCHANGED <<todo, failed, cancelled, crashed, count, docs, updated>>
  BY DEF Broadcast, flags, stores
<1>9. OnePlace'
  <2>1. \A x \in Upstream \cup {"cast"} :
          x # "cast" => LinkIn'[x] \subseteq LinkIn[x] /\ LinkIn'[x] \cap LinkIn["text"] = {}
    <3> SUFFICES ASSUME NEW x \in Upstream, x # "cast"
                 PROVE  LinkIn'[x] \subseteq LinkIn[x] /\ LinkIn'[x] \cap LinkIn["text"] = {}
      OBVIOUS
    <3>1. x # "text" => LinkIn'[x] = LinkIn[x]
      BY <1>7, Slots DEF Upstream
    <3> QED
      BY <1>7, <3>1 DEF IInv, FlowInv, OnePlace, Upstream
  <2>2. LinkIn'["cast"] = LinkIn["text"]
    BY <1>5, <1>7
  <2>3. \A x \in Upstream \cup {"cast"}, y \in Upstream \cup {"cast"} : x # y => LinkIn'[x] \cap LinkIn'[y] = {}
    BY <2>1, <2>2 DEF IInv, FlowInv, OnePlace
  <2>4. "text" \in Upstream
    BY DEF Upstream
  <2> QED
    BY <1>8, <2>1, <2>2, <2>3, <2>4, Slots DEF IInv, FlowInv, OnePlace, Upstream
<1>10. LinkIn["text"] \cap (DOMAIN docs \cup updated) = {}
  BY DEF IInv, FlowInv, OnePlace, Upstream
<1>11. CloneFirst'
  BY <1>5, <1>7, <1>8, <1>10, Slots DEF IInv, FlowInv, CloneFirst, Undisturbed
<1> QED
  BY <1>7, <1>8, <1>9, <1>11, Slots, StoredStays DEF IInv, FlowInv

\* The clone's link is in the index, and on its way to the sink.
LEMMA IndexDocumentFlow ==
  ASSUME IInv, IndexDocument
  PROVE  FlowInv'
<1> DEFINE c == hand["clone"]
<1>1. /\ c \in Payload /\ hand' = Passed("index", "clone", c) /\ hand["index"] = Nothing
      /\ DOMAIN docs' = DOMAIN docs \cup {c.link}
  BY Slots DEF IndexDocument, Receives, IInv, ContentInv, Types
<1>2. LinkIn["index"] = {} /\ LinkIn["clone"] = {c.link}
  BY <1>1, Slots, NothingAssumption DEF LinkIn
<1> HIDE DEF c
<1>3. HandsMove("index", "clone", c)
  BY <1>1, Slots, PassedHands DEF IInv, ContentInv, Types, HandsMove
<1>4. /\ LinkIn'["index"] = {c.link} /\ LinkIn'["clone"] = {}
      /\ \A x \in Slot \ {"index", "clone"} : LinkIn'[x] = LinkIn[x]
  BY <1>1, <1>3, Slots, LinksAfterMove
<1>5. UNCHANGED <<todo, failed, cancelled, crashed, count, updated>>
  BY DEF IndexDocument, flags
<1>6. \A x \in Upstream \cup {"cast", "graph"} : LinkIn'[x] = LinkIn[x]
  BY <1>4, Slots DEF Upstream
<1>7. c.link \in LinkIn["cast"] /\ c.link \notin DOMAIN docs
  BY <1>2 DEF IInv, FlowInv, CloneFirst
<1>8. OnePlace'
  BY <1>1, <1>5, <1>6, <1>7, Slots DEF IInv, FlowInv, OnePlace, Upstream
<1>9. CloneFirst'
  BY <1>1, <1>2, <1>4, <1>5, <1>6 DEF IInv, FlowInv, CloneFirst, Undisturbed
<1>10. DOMAIN docs' \ LinkIn'["index"] = DOMAIN docs \ LinkIn["index"]
  BY <1>1, <1>2, <1>4, <1>7
<1>11. Counted'
  BY <1>5, <1>6, <1>10 DEF IInv, FlowInv, Counted, Uncounted, Undisturbed
<1> QED
  BY <1>8, <1>9, <1>11 DEF FlowInv

\* The original's link is in the graph, and on its way to the sink.
LEMMA UpdateGraphFlow ==
  ASSUME IInv, UpdateGraph
  PROVE  FlowInv'
<1> DEFINE c == hand["cast"]
<1>1. /\ c \in Payload /\ hand' = Passed("graph", "cast", c) /\ hand["graph"] = Nothing
      /\ updated' = updated \cup {c.link} /\ hand["clone"] = Nothing
  BY Slots DEF UpdateGraph, ReadyForGraph, Receives, IInv, ContentInv, Types
<1>2. LinkIn["graph"] = {} /\ LinkIn["cast"] = {c.link} /\ LinkIn["clone"] = {}
  BY <1>1, Slots, NothingAssumption DEF LinkIn
<1> HIDE DEF c
<1>3. HandsMove("graph", "cast", c)
  BY <1>1, Slots, PassedHands DEF IInv, ContentInv, Types, HandsMove
<1>4. /\ LinkIn'["graph"] = {c.link} /\ LinkIn'["cast"] = {}
      /\ \A x \in Slot \ {"graph", "cast"} : LinkIn'[x] = LinkIn[x]
  BY <1>1, <1>3, Slots, LinksAfterMove
<1>5. UNCHANGED <<todo, failed, cancelled, crashed, count, docs>>
  BY DEF UpdateGraph, flags
<1>6. /\ \A x \in Upstream : x # "cast" /\ LinkIn'[x] = LinkIn[x]
      /\ LinkIn'["clone"] = LinkIn["clone"] /\ LinkIn'["index"] = LinkIn["index"]
  BY <1>4, Slots DEF Upstream
<1>7. c.link \notin updated
  BY <1>2 DEF IInv, FlowInv, CloneFirst
<1>8. OnePlace'
  BY <1>1, <1>2, <1>4, <1>5, <1>6 DEF IInv, FlowInv, OnePlace
<1>9. CloneFirst'
  BY <1>1, <1>2, <1>4, <1>5, <1>6 DEF IInv, FlowInv, CloneFirst, Undisturbed
<1>10. updated' \ LinkIn'["graph"] = updated \ LinkIn["graph"]
  BY <1>1, <1>2, <1>4, <1>7
<1>11. Counted'
  BY <1>5, <1>6, <1>10 DEF IInv, FlowInv, Counted, Uncounted, Undisturbed
<1> QED
  BY <1>8, <1>9, <1>11 DEF FlowInv

\* The sink counts one page of those that the branch has stored.
LEMMA SinkConsumesFlow ==
  ASSUME IInv, NEW b \in Branch, SinkConsumes(b)
  PROVE  FlowInv'
<1> DEFINE c == hand[b]
<1>1. b \in Slot /\ c \in Payload /\ hand' = Taken(b) /\ count' = count + 1 /\ count \in Nat
  BY Slots DEF SinkConsumes, IInv, ContentInv, Types, Branch
<1>2. /\ LinkIn[b] = {c.link} /\ LinkIn'[b] = {}
      /\ \A x \in Slot \ {b} : LinkIn'[x] = LinkIn[x]
  BY <1>1, TakenHands, NothingAssumption DEF LinkIn, IInv, ContentInv, Types
<1> HIDE DEF c
<1>3. \A x \in Upstream \cup {"cast", "clone"} : LinkIn'[x] = LinkIn[x]
  BY <1>2, Slots DEF Upstream, Branch
<1>4. UNCHANGED <<todo, failed, cancelled, crashed, docs, updated>>
  BY DEF SinkConsumes, flags, stores
<1>5. OnePlace'
  BY <1>3, <1>4 DEF IInv, FlowInv, OnePlace
<1>6. CloneFirst'
  <2>1. LinkIn'["index"] \subseteq LinkIn["index"] /\ LinkIn'["graph"] \subseteq LinkIn["graph"]
    BY <1>2, Slots
  <2> QED
    BY <1>3, <1>4, <2>1 DEF IInv, FlowInv, CloneFirst, Undisturbed
<1>7. Counted'
  <2> DEFINE S(x) == IF x = "index" THEN DOMAIN docs ELSE updated
             n(x) == Cardinality(S(x) \ LinkIn[x])
  <2>1. c.link \in S(b) /\ \A x \in Branch : S(x) \subseteq Source
    BY <1>2 DEF Branch, IInv, ContentInv, Types, FlowInv, CloneFirst
  <2>2. Cardinality(S(b) \ LinkIn'[b]) = n(b) + 1
    <3>1. IsFiniteSet(S(b) \ LinkIn[b]) /\ c.link \notin S(b) \ LinkIn[b]
      BY <1>2, <2>1, Finite
    <3>2. S(b) \ LinkIn'[b] = (S(b) \ LinkIn[b]) \cup {c.link}
      BY <1>2, <2>1
    <3> HIDE DEF S
    <3> QED
      BY <3>1, <3>2, FS_AddElement
  <2>3. \A x \in Branch : n(x) \in Nat
    BY <2>1, Finite
  <2>4. Uncounted = n("index") + n("graph")
    BY DEF Uncounted
  <2>5. Uncounted' = Uncounted + 1
    <3>1. CASE b = "index"
      <4>1. Uncounted' = Cardinality(S(b) \ LinkIn'[b]) + n("graph")
        BY <1>2, <1>4, <3>1, Slots DEF Uncounted
      <4> HIDE DEF n
      <4> QED
        BY <2>2, <2>3, <2>4, <3>1, <4>1 DEF Branch
    <3>2. CASE b = "graph"
      <4>1. Uncounted' = n("index") + Cardinality(S(b) \ LinkIn'[b])
        BY <1>2, <1>4, <3>2, Slots DEF Uncounted
      <4> HIDE DEF n
      <4> QED
        BY <2>2, <2>3, <2>4, <3>2, <4>1 DEF Branch
    <3> QED
      BY <3>1, <3>2 DEF Branch
  <2>6. Uncounted \in Nat
    <3> HIDE DEF n
    <3> QED
      BY <2>3, <2>4 DEF Branch
  <2> QED
    BY <1>1, <1>4, <2>5, <2>6 DEF IInv, FlowInv, Counted, Undisturbed
<1> QED
  BY <1>5, <1>6, <1>7 DEF FlowInv

\* A payload can be dropped before the broadcast, and by a branch that fails;
\* the original, when its clone is gone.
LEMMA TakenFlow ==
  ASSUME Types, FlowInv, NEW t \in Slot, hand' = Taken(t),
         t = "cast" => hand["clone"] = Nothing,
         Undisturbed' => Undisturbed /\ t \notin {"cast", "clone", "index", "graph"},
         UNCHANGED <<todo, count, docs, updated>>
  PROVE  FlowInv'
<1>1. LinkIn'[t] = {} /\ \A x \in Slot \ {t} : LinkIn'[x] = LinkIn[x]
  BY TakenHands DEF Types, LinkIn
<1>2. t = "cast" => LinkIn["clone"] = {}
  BY Slots DEF LinkIn
<1>3. \A x \in Slot : LinkIn'[x] \subseteq LinkIn[x]
  BY <1>1
<1>4. LinkIn'["clone"] \subseteq LinkIn'["cast"]
  BY <1>1, <1>2, Slots DEF FlowInv, CloneFirst
<1>5. Undisturbed' => \A x \in {"cast", "clone", "index", "graph"} : LinkIn'[x] = LinkIn[x]
  BY <1>1, Slots
<1> QED
  BY <1>3, <1>4, <1>5, DropsFlow

\* A context is done only when the crawl is disturbed.
LEMMA QuitsFlow ==
  ASSUME IInv, NEW s \in Goroutine, Quits(s)
  PROVE  FlowInv'
<1>1. \A x \in Slot : LinkIn'[x] \subseteq LinkIn[x]
  BY DEF Quits, LinkIn
<1>2. LinkIn'["clone"] \subseteq LinkIn'["cast"]
  <2>1. s = "cast" => LinkIn'["clone"] = {}
    BY Slots DEF Quits, LinkIn
  <2>2. s # "cast" => LinkIn'["clone"] \subseteq LinkIn["clone"] /\ LinkIn'["cast"] = LinkIn["cast"]
    BY <1>1, Slots DEF Quits, LinkIn
  <2> QED
    BY <2>1, <2>2 DEF IInv, FlowInv, CloneFirst
<1>3. ~Undisturbed'
  BY DEF Quits, flags, Undisturbed
<1> QED
  BY <1>1, <1>2, <1>3, DropsFlow DEF IInv, ContentInv, Quits, stores

\* After a panic no payload is anywhere.
LEMMA ExtractionCrashesFlow ==
  ASSUME IInv, NEW w \in Worker, ExtractionCrashes(w)
  PROVE  FlowInv'
<1>1. \A x \in Slot : LinkIn'[x] = {}
  BY DEF ExtractionCrashes, LinkIn
<1>2. ~Undisturbed' /\ todo' \subseteq todo /\ UNCHANGED <<count, docs, updated>>
  BY DEF ExtractionCrashes, Undisturbed, stores
<1> QED
  BY <1>1, <1>2, Slots, DropsFlow DEF IInv, ContentInv

\* The steps in which no payload moves.
LEMMA OthersFlow ==
  ASSUME IInv, todo' \subseteq todo, Undisturbed' => Undisturbed,
         UNCHANGED <<hand, count, docs, updated>>
  PROVE  FlowInv'
<1>1. LinkIn' = LinkIn
  BY DEF LinkIn
<1> QED
  BY <1>1, DropsFlow DEF IInv, ContentInv, FlowInv, CloneFirst

\* Every step keeps what is said of where the links are.
LEMMA StepFlow == IInv /\ [Next]_vars => FlowInv'
<1> SUFFICES ASSUME IInv, [Next]_vars PROVE FlowInv'
  OBVIOUS
<1>1. ASSUME NEW s \in Goroutine, Runs(s) PROVE FlowInv'
  <2>1. CASE Ends(s)
    BY <2>1, OthersFlow DEF Ends, flags, stores, Undisturbed
  <2>2. CASE Quits(s)
    BY <2>2, QuitsFlow
  <2>3. CASE \E p \in todo : SourceNext(p)
    BY <2>3, SourceNextFlow
  <2>4. CASE s \in Worker /\ Fetch(s)
    BY <2>4, FetchFlow
  <2>5. CASE FetchDrops(s)
    <3>1. hand' = Taken("source") /\ UNCHANGED <<todo, count, docs, updated, failed, cancelled, crashed>>
      BY <2>5 DEF FetchDrops, flags, stores
    <3> QED
      BY <3>1, Slots, TakenFlow DEF Undisturbed, IInv, ContentInv
  <2>6. CASE FetchFails(s)
    <3>1. hand' = Taken("source") /\ UNCHANGED <<todo, count, docs, updated>> /\ ~Undisturbed'
      BY <2>6 DEF FetchFails, Fails, stores, Undisturbed
    <3> QED
      BY <3>1, Slots, TakenFlow DEF IInv, ContentInv
  <2>7. CASE \E w \in Worker : ExtractLinks(w) \/ ExtractionCrashes(w)
    BY <2>7, ExtractLinksFlow, ExtractionCrashesFlow
  <2>8. CASE ExtractText
    BY <2>8, ExtractTextFlow
  <2>9. CASE Broadcast
    BY <2>9, BroadcastFlow
  <2>10. CASE IndexDocument
    BY <2>10, IndexDocumentFlow
  <2>11. CASE IndexFails
    <3>1. hand' = Taken("clone") /\ UNCHANGED <<todo, count, docs, updated>> /\ ~Undisturbed'
      BY <2>11 DEF IndexFails, Fails, stores, Undisturbed
    <3> QED
      BY <3>1, Slots, TakenFlow DEF IInv, ContentInv
  <2>12. CASE UpdateGraph
    BY <2>12, UpdateGraphFlow
  <2>13. CASE UpdateFails
    <3>1. /\ hand' = Taken("cast") /\ UNCHANGED <<todo, count, docs, updated>> /\ ~Undisturbed'
          /\ hand["clone"] = Nothing
      BY <2>13 DEF UpdateFails, ReadyForGraph, Fails, Undisturbed
    <3> QED
      BY <3>1, Slots, TakenFlow DEF IInv, ContentInv
  <2>14. CASE \E b \in Branch : SinkConsumes(b)
    BY <2>14, SinkConsumesFlow
  <2> QED
    BY <1>1, <2>1, <2>2, <2>3, <2>4, <2>5, <2>6, <2>7, <2>8, <2>9, <2>10, <2>11, <2>12, <2>13,
       <2>14 DEF Runs
<1>2. CASE IteratorBreaks
  BY <1>2, OthersFlow DEF IteratorBreaks, flags, stores, Undisturbed
<1>3. CASE Cancel
  BY <1>3, OthersFlow DEF Cancel, stores, Undisturbed
<1>4. CASE Expire
  BY <1>4, OthersFlow DEF Expire, stores, Undisturbed
<1>5. CASE Spins \/ UNCHANGED vars
  BY <1>5, OthersFlow DEF Spins, vars, flags, stores, Undisturbed
<1> QED
  BY <1>1, <1>2, <1>3, <1>4, <1>5 DEF Next

-----------------------------------------------------------------------------
(* The theorems.                                                           *)

\* However its goroutines interleave, whatever fails and whenever it is
\* cancelled, a crawl keeps IInv.
THEOREM Invariance == Spec => []IInv
<1>1. Init => IInv
  BY InitContent, InitFlow DEF IInv
<1>2. IInv /\ [Next]_vars => IInv'
  BY StepContent, StepFlow DEF IInv
<1> QED
  BY <1>1, <1>2, PTL DEF Spec

\* In IInv nothing is counted that is not stored, so at most two copies of each
\* page of the crawl.
LEMMA CountBound ==
  ASSUME IInv
  PROVE  /\ GetCount <= Cardinality(DOMAIN docs \cup updated)
         /\ count <= 2 * Cardinality(Source)
<1> DEFINE D == DOMAIN docs \ LinkIn["index"]
           U == updated \ LinkIn["graph"]
           B == DOMAIN docs \cup updated
<1>1. D \subseteq B /\ U \subseteq B /\ B \subseteq Source
  BY DEF IInv, ContentInv, Types
<1>2. /\ Cardinality(D) \in Nat /\ Cardinality(U) \in Nat /\ Cardinality(B) \in Nat
      /\ Cardinality(D) <= Cardinality(B) /\ Cardinality(U) <= Cardinality(B)
      /\ Cardinality(B) <= Cardinality(Source) /\ Cardinality(Source) \in Nat
  <2>1. IsFiniteSet(B)
    BY <1>1, Finite
  <2>2. D \subseteq Source /\ U \subseteq Source
    BY <1>1
  <2> HIDE DEF D, U, B
  <2> QED
    BY <1>1, <2>1, <2>2, Finite, FS_Subset
<1>3. count \in Nat /\ count <= Cardinality(D) + Cardinality(U)
  BY DEF IInv, ContentInv, Types, FlowInv, Counted, Uncounted
<1> HIDE DEF D, U
<1> QED
  BY <1>2, <1>3 DEF GetCount

\* The documents in the text index are about one page each: nothing is left in
\* them of another page for which the sync.Pool's object served before.
THEOREM DocumentsAreOwn == Spec => []OwnContent
<1>1. IInv => OwnContent
  <2> SUFFICES ASSUME IInv PROVE OwnContent
    OBVIOUS
  <2>1. TypeOK
    BY CountBound, Finite DEF IInv, ContentInv, Types, TypeOK
  <2> QED
    BY <2>1 DEF OwnContent, IInv, ContentInv, DocsAreOwn, TitleOf
<1> QED
  BY <1>1, Invariance, PTL

\* Crawl's count is that of the pages that are in the index and in the graph,
\* when it is undisturbed and done, and never more than are in either of them.
THEOREM TheCountIsOfStoredPages == Spec => []CountsWhatIsStored
<1>1. IInv => CountsWhatIsStored
  <2> SUFFICES ASSUME IInv, Undisturbed, \A s \in Slot : hand[s] = Nothing
               PROVE  GetCount = Cardinality(DOMAIN docs) /\ DOMAIN docs = updated
    BY CountBound DEF CountsWhatIsStored
  <2>1. \A s \in Slot : LinkIn[s] = {}
    BY DEF LinkIn
  <2>2. DOMAIN docs = updated
    BY <2>1, Slots DEF IInv, FlowInv, CloneFirst
  <2>3. count = Cardinality(DOMAIN docs) + Cardinality(DOMAIN docs)
    <3>1. DOMAIN docs \ LinkIn["index"] = DOMAIN docs /\ updated \ LinkIn["graph"] = DOMAIN docs
      BY <2>1, <2>2, Slots
    <3> QED
      BY <3>1 DEF IInv, FlowInv, Counted, Uncounted
  <2>4. Cardinality(DOMAIN docs) \in Nat
    BY Finite DEF IInv, ContentInv, Types
  <2> QED
    BY <2>2, <2>3, <2>4 DEF GetCount
<1> QED
  BY <1>1, Invariance, PTL
=============================================================================
