------------------------------ MODULE Crawler ------------------------------
(***************************************************************************)
(* One call of Crawler.Crawl: the source over the link graph, the fetch    *)
(* workers, the extractors, the broadcast to graph updater and text        *)
(* indexer, and the counting sink, with the payload objects that all of    *)
(* them recycle through a sync.Pool.                                       *)
(*                                                                         *)
(* The stages are taken at the grain that the pipeline models justify: a   *)
(* payload has one owner at a time, so it is a value in the hands of that  *)
(* owner; a goroutine receives a payload and processes it in one step, and *)
(* holds the result until the next stage receives it.  An update of the    *)
(* graph is one step; LinkGraph says what becomes of several that run at   *)
(* once.                                                                   *)
(*                                                                         *)
(* Texts are abstracted to the pages they come from: RawContent is the set *)
(* of pages whose bodies are in the buffer, and so are titles and texts.   *)
(***************************************************************************)
EXTENDS Naturals, Sequences, FiniteSets, Bags

CONSTANTS
  Worker,     \* the goroutines of the fetcher's pool
  Url,        \* the pages
  Source,     \* those that the crawl is to retrieve
  Sites,      \* what the pages can contain
  Host,       \* the host of each page
  PrivateHost,\* hosts in private networks
  Excluded,   \* pages with the suffix of an image, style sheet or script
  NoUrl,      \* a nil *url.URL
  Nothing     \* no payload

ASSUME SourceAssumption == IsFiniteSet(Url) /\ Source \subseteq Url /\ NoUrl \notin Url
ASSUME WorkerAssumption ==
  Worker \cap {"source", "links", "text", "cast", "clone", "graph", "index", "sink"} = {}
ASSUME HostAssumption   == DOMAIN Host = Url /\ Excluded \subseteq Url

\* What the extractors see of a page: whether it has a title; the href of its
\* base element ("none" when there is none); href and rel of its links.  An href
\* is a page, "empty", or "bad" when url.Parse rejects it.
Href == Url \cup {"empty", "bad"}
Content == [title : BOOLEAN, base : Href \cup {"none"},
            anchors : Seq([href : Href, nofollow : BOOLEAN])]

ASSUME SitesAssumption == \A site \in Sites : DOMAIN site = Url /\ \A p \in Url : site[p] \in Content

VARIABLES
  html,      \* what the pages contain
  todo,      \* links that the iterator has yet to yield
  pool,      \* payloadPool: what the objects in it contain
  hand,      \* the payload that each goroutine holds
  stopped,   \* goroutines that returned
  failed,    \* a Process returned an error
  cancelled, \* the context of the pipeline is done
  crashed,   \* the program panicked
  count,     \* countingSink.count
  docs,      \* the text index, by link
  updated,   \* pages whose update of the graph succeeded
  edges,     \* the edges of the graph
  skipped,   \* history: links dropped by the fetcher
  lost       \* history: the connection of the iterator broke

flags  == <<failed, cancelled, crashed>>
stores == <<docs, updated, edges>>
vars == <<html, todo, pool, hand, stopped, flags, count, stores, skipped, lost>>

Branch    == {"graph", "index"}
Goroutine == Worker \cup {"source", "links", "text", "cast", "sink"} \cup Branch
Slot      == Goroutine \cup {"clone"}  \* broadcast holds a payload and its clone

\* What a payload is.
Payload == [link : Source, url : Source \cup {NoUrl}, raw : SUBSET Source, links : SUBSET Url,
            noFollow : SUBSET Url, title : SUBSET Source, text : SUBSET Source]

ASSUME NothingAssumption == Nothing \notin Payload

Empty == [link |-> NoUrl, url |-> NoUrl, raw |-> {}, links |-> {}, noFollow |-> {},
          title |-> {}, text |-> {}]

Init ==
  /\ html \in Sites
  /\ todo = Source
  /\ pool = EmptyBag
  /\ hand = [s \in Slot |-> Nothing]
  /\ stopped = {}
  /\ failed = FALSE /\ cancelled = FALSE /\ crashed = FALSE
  /\ count = 0
  /\ docs = <<>> /\ updated = {} /\ edges = {}
  /\ skipped = {} /\ lost = FALSE

-----------------------------------------------------------------------------
(* Payloads.                                                               *)

\* payloadPool.Get returns an object that contains c, a pooled or a new one.
Get(c) ==
  \/ BagIn(c, pool) /\ pool' = pool (-) SetToBag({c})
  \/ c = Empty /\ UNCHANGED pool

Gettable == BagToSet(pool) \cup {Empty}

\* Clone copies all fields over what is in the object n from the pool, but the
\* content, which it moves to the end of the buffer.
Cloned(c, n) == [c EXCEPT !.raw = n.raw \cup @]

\* MarkAsProcessed empties the payload before it is pooled; the link stays.
\* (Mutated: it does not reset the title.)
EmptiedButTitle(c) == [Empty EXCEPT !.link = c.link, !.title = c.title]
Emptied(c) == [Empty EXCEPT !.link = c.link]

MarkAsProcessed(c) == pool' = pool (+) SetToBag({Emptied(c)})

-----------------------------------------------------------------------------
(* Goroutines.                                                             *)

Running(s) == s \notin stopped

\* Goroutine s can receive what t sends.
Receives(s, t) == Running(s) /\ hand[s] = Nothing /\ hand[t] # Nothing

Taken(t)     == [hand EXCEPT ![t] = Nothing]
Passed(s, t, c) == [hand EXCEPT ![t] = Nothing, ![s] = c]

\* Goroutine s returns with an error.
Fails(s) == failed' = TRUE /\ stopped' = stopped \cup {s} /\ UNCHANGED <<cancelled, crashed>>

\* linkSource: Next returns true, and Payload an object for the link.
SourceNext(p) ==
  /\ Running("source") /\ hand["source"] = Nothing
  /\ p \in todo
  /\ todo' = todo \ {p}
  /\ \E c \in Gettable :
       /\ Get(c)
       /\ hand' = [hand EXCEPT !["source"] = [c EXCEPT !.link = p, !.url = p]]
  /\ UNCHANGED <<html, stopped, flags, count, stores, skipped, lost>>

\* The connection under the iterator breaks; Next returns false as at its end,
\* and no error is reported.
IteratorBreaks ==
  /\ Running("source") /\ todo # {}
  /\ todo' = {} /\ lost' = TRUE
  /\ UNCHANGED <<html, pool, hand, stopped, flags, count, stores, skipped>>

\* linkFetcher.Process.
Refuses(p) == p \in Excluded \/ Host[p] \in PrivateHost

\* The page is refused or cannot be had, with (its status or type is wrong) or
\* without its body in the buffer.
FetchDrops(w) ==
  /\ Receives(w, "source")
  /\ LET c == hand["source"] IN
     /\ \E body \in {{}} \cup (IF Refuses(c.url) THEN {} ELSE {{c.url}}) :
          MarkAsProcessed([c EXCEPT !.raw = @ \cup body])
     /\ skipped' = skipped \cup {c.link}
  /\ hand' = Taken("source")
  /\ UNCHANGED <<html, todo, stopped, flags, count, stores, lost>>

\* The body of a page breaks off.
FetchFails(w) ==
  /\ Receives(w, "source")
  /\ ~Refuses(hand["source"].url)
  /\ Fails(w)
  /\ hand' = Taken("source")
  /\ UNCHANGED <<html, todo, pool, count, stores, skipped, lost>>

Fetch(w) ==
  /\ Receives(w, "source")
  /\ ~Refuses(hand["source"].url)
  /\ LET c == hand["source"] IN hand' = Passed(w, "source", [c EXCEPT !.raw = @ \cup {c.url}])
  /\ UNCHANGED <<html, todo, pool, stopped, flags, count, stores, skipped, lost>>

-----------------------------------------------------------------------------
(* linkExtractor.Process.                                                  *)

\* resolveURL returns a URL only if url.Parse returned none, and panics then.
Resolve(href) == NoUrl
ResolvePanics(href) == href = "bad"

\* ensureHasTrailingSlash does not expect the empty href.
ExtractionPanics(c) ==
  \/ c.base = "empty" \/ ResolvePanics(c.base)
  \/ \E i \in DOMAIN c.anchors : ResolvePanics(c.anchors[i].href)

\* retainLink, and the suffixes that are not followed.
Retained(p, q) == q # NoUrl /\ (Host[q] = Host[p] \/ Host[q] \notin PrivateHost)
Extracted(p, q) == Retained(p, q) /\ q \notin Excluded

\* The anchors that lead to a link the first time.
Discoveries(p, anchors) ==
  {i \in DOMAIN anchors :
     /\ Extracted(p, Resolve(anchors[i].href))
     /\ \A j \in 1..(i - 1) : Resolve(anchors[j].href) # Resolve(anchors[i].href)}

Links(p, anchors, nofollow) ==
  {Resolve(anchors[i].href) :
     i \in {j \in Discoveries(p, anchors) : anchors[j].nofollow = nofollow}}

ExtractLinks(w) ==
  /\ Receives("links", w)
  /\ LET c == hand[w]
         Found(nofollow) == UNION {Links(c.url, html[p].anchors, nofollow) : p \in c.raw}
     IN
     /\ ~\E p \in c.raw : ExtractionPanics(html[p])
     /\ hand' = Passed("links", w, [c EXCEPT !.links = @ \cup Found(FALSE),
                                            !.noFollow = @ \cup Found(TRUE)])
  /\ UNCHANGED <<html, todo, pool, stopped, flags, count, stores, skipped, lost>>

\* The panic ends the program, and with it everything that it had in memory.
ExtractionCrashes(w) ==
  /\ Receives("links", w)
  /\ \E p \in hand[w].raw : ExtractionPanics(html[p])
  /\ crashed' = TRUE
  /\ pool' = EmptyBag /\ todo' = {}
  /\ hand' = [s \in Slot |-> Nothing]
  /\ stopped' = Goroutine
  /\ UNCHANGED <<html, failed, cancelled, count, stores, skipped, lost>>

\* textExtractor.Process, which sets a title if it finds one and drains the
\* buffer.
ExtractText ==
  /\ Receives("text", "links")
  /\ LET c == hand["links"]
         titles == {p \in c.raw : html[p].title}
     IN hand' = Passed("text", "links", [c EXCEPT !.title = IF titles = {} THEN @ ELSE titles,
                                                  !.text = c.raw,
                                                  !.raw = {}])
  /\ UNCHANGED <<html, todo, pool, stopped, flags, count, stores, skipped, lost>>

-----------------------------------------------------------------------------
(* The broadcast.                                                          *)

\* A clone is made for the text indexer, the second branch; the original goes
\* to the first, when the clone is gone.
Broadcast ==
  /\ Receives("cast", "text")
  /\ LET c == hand["text"] IN
     \E n \in Gettable :
       /\ Get(n)
       /\ hand' = [Passed("cast", "text", [c EXCEPT !.raw = {}]) EXCEPT !["clone"] = Cloned(c, n)]
  /\ UNCHANGED <<html, todo, stopped, flags, count, stores, skipped, lost>>

\* textIndexer.Process.
IndexDocument ==
  /\ Receives("index", "clone")
  /\ LET c == hand["clone"] IN
     docs' = [p \in DOMAIN docs \cup {c.link} |->
                IF p = c.link THEN [url |-> c.url, title |-> c.title, content |-> c.text]
                              ELSE docs[p]]
  /\ hand' = Passed("index", "clone", hand["clone"])
  /\ UNCHANGED <<html, todo, pool, stopped, flags, count, updated, edges, skipped, lost>>

IndexFails ==
  /\ Receives("index", "clone")
  /\ Fails("index")
  /\ hand' = Taken("clone")
  /\ UNCHANGED <<html, todo, pool, count, stores, skipped, lost>>

\* graphUpdater.Process: the edges of the page become those to its links.
ReadyForGraph == Receives("graph", "cast") /\ hand["clone"] = Nothing

\* (Mutated: the original is dropped once its clone is sent.)
UpdateGraphNot == ReadyForGraph /\ hand' = Taken("cast") /\ UNCHANGED <<html, todo, pool, stopped, flags, count, stores, skipped, lost>>

UpdateGraph ==
  /\ ReadyForGraph
  /\ LET c == hand["cast"] IN
     /\ updated' = updated \cup {c.link}
     /\ edges' = {e \in edges : e[1] # c.url} \cup {<<c.url, q>> : q \in c.links}
  /\ hand' = Passed("graph", "cast", hand["cast"])
  /\ UNCHANGED <<html, todo, pool, stopped, flags, count, docs, skipped, lost>>

\* The update fails after some of the new edges, before old ones are removed.
UpdateFails ==
  /\ ReadyForGraph
  /\ LET c == hand["cast"] IN
     \E new \in SUBSET c.links : edges' = edges \cup {<<c.url, q>> : q \in new}
  /\ Fails("graph")
  /\ hand' = Taken("cast")
  /\ UNCHANGED <<html, todo, pool, count, docs, updated, skipped, lost>>

\* The sink counts what either branch sends, and recycles it.
SinkConsumes(b) ==
  /\ Running("sink") /\ hand[b] # Nothing
  /\ count' = count + 1
  /\ MarkAsProcessed(hand[b])
  /\ hand' = Taken(b)
  /\ UNCHANGED <<html, todo, stopped, flags, stores, skipped, lost>>

\* What Crawl returns.  (Mutated: the copies are counted one by one.)
GetCountTwice == count
GetCount == count \div 2

-----------------------------------------------------------------------------
(* The end.                                                                *)

\* The goroutines that send to s; broadcast is not told that its input is
\* closed.
Senders(s) == CASE s \in Worker -> {"source"}
                [] s = "links"  -> Worker
                [] s = "text"   -> {"links"}
                [] s \in Branch -> {"cast"}
                [] s = "sink"   -> Branch \cup {"cast"}
                [] s = "source" -> {}

\* A goroutine whose input is closed, or whose iterator ends, returns.
Ends(s) ==
  /\ Running(s) /\ hand[s] = Nothing
  /\ s # "cast"
  /\ s = "source" => todo = {}
  /\ Senders(s) \subseteq stopped
  /\ stopped' = stopped \cup {s}
  /\ UNCHANGED <<html, todo, pool, hand, flags, count, stores, skipped, lost>>

\* A goroutine that sees the context done returns with what it holds.
Quits(s) ==
  /\ Running(s) /\ cancelled
  /\ stopped' = stopped \cup {s}
  /\ hand' = [t \in Slot |-> IF t = s \/ (s = "cast" /\ t = "clone") THEN Nothing ELSE hand[t]]
  /\ UNCHANGED <<html, todo, pool, flags, count, stores, skipped, lost>>

\* Process cancels when it has an error; the caller's context ends at any time.
Cancel ==
  /\ failed /\ ~cancelled /\ ~crashed
  /\ cancelled' = TRUE
  /\ UNCHANGED <<html, todo, pool, hand, stopped, failed, crashed, count, stores, skipped, lost>>

Expire ==
  /\ ~cancelled /\ ~crashed
  /\ cancelled' = TRUE
  /\ UNCHANGED <<html, todo, pool, hand, stopped, failed, crashed, count, stores, skipped, lost>>

\* Broadcast spins when its input is closed; or there is nothing left to do.
Spins ==
  /\ "text" \in stopped \/ crashed \/ stopped = Goroutine
  /\ UNCHANGED vars

Runs(s) ==
  \/ Ends(s) \/ Quits(s)
  \/ s = "source" /\ \E p \in todo : SourceNext(p)
  \/ s \in Worker /\ (Fetch(s) \/ FetchDrops(s) \/ FetchFails(s))
  \/ s = "links" /\ \E w \in Worker : ExtractLinks(w) \/ ExtractionCrashes(w)
  \/ s = "text" /\ ExtractText
  \/ s = "cast" /\ Broadcast
  \/ s = "index" /\ (IndexDocument \/ IndexFails)
  \/ s = "graph" /\ (UpdateGraph \/ UpdateFails)
  \/ s = "sink" /\ \E b \in Branch : SinkConsumes(b)

Next ==
  \/ \E s \in Goroutine : Runs(s)
  \/ IteratorBreaks
  \/ Cancel
  \/ Expire
  \/ Spins

\* While some goroutine can go on, one of them does.  That is less than the
\* scheduler promises, and enough: none of them goes on for ever.
Fairness == WF_vars(\E s \in Goroutine : Runs(s))

Spec == Init /\ [][Next]_vars /\ Fairness

-----------------------------------------------------------------------------
(* Properties.                                                             *)

\* Every variable has its type.
TypeOK ==
  /\ todo \subseteq Source
  /\ IsABag(pool) /\ BagToSet(pool) \subseteq Payload
  /\ hand \in [Slot -> Payload \cup {Nothing}]
  /\ stopped \subseteq Goroutine
  /\ {failed, cancelled, crashed, lost} \subseteq BOOLEAN
  /\ count \in 0..(2 * Cardinality(Source))
  /\ DOMAIN docs \subseteq Source /\ updated \subseteq Source /\ skipped \subseteq Source
  /\ edges \subseteq Source \X Url

\* Nothing broke off the crawl.
Undisturbed == ~failed /\ ~cancelled /\ ~crashed

\* A document is about one page, and nothing in it is left from another page for
\* which the payload object served before: its title is that of its page, if it
\* has one, and the text is that of its page.
OwnContent ==
  /\ TypeOK
  /\ \A p \in DOMAIN docs :
       docs[p] = [url |-> p, title |-> IF html[p].title THEN {p} ELSE {}, content |-> {p}]

\* When nothing is under way, the number that Crawl would return is that of the
\* pages that are in the index, and these are the ones updated in the graph.  At
\* any other time it counts no page of which neither is true.
CountsWhatIsStored ==
  /\ GetCount <= Cardinality(DOMAIN docs \cup updated)
  /\ Undisturbed /\ (\A s \in Slot : hand[s] = Nothing) =>
       GetCount = Cardinality(DOMAIN docs) /\ DOMAIN docs = updated

\* Every link ends up in the index and in the graph, unless the fetcher dropped
\* it, the iterator broke before it or something broke off the crawl.
EveryLinkIsDone ==
  \A p \in Source :
    <>(\/ ~Undisturbed \/ lost \/ p \in skipped
       \/ p \in DOMAIN docs /\ p \in updated)
=============================================================================
