----------------------------- MODULE TextIndex -----------------------------
(***************************************************************************)
(* The text indexes of Chapter06/textindexer and the iterators over their  *)
(* search results, while documents are indexed and rescored.               *)
(*                                                                         *)
(* The in-memory index keeps documents in a map and in a bleve index; its  *)
(* methods take a mutex, but an iterator fetches its pages from bleve      *)
(* without it.  Elasticsearch keeps documents in one place, and a search   *)
(* sees them as of the last refresh.  Of a document the model keeps        *)
(* whether it matches the query that is iterated over, and its PageRank;   *)
(* equally ranked documents come in the order of their IDs.                *)
(***************************************************************************)
EXTENDS Naturals, Sequences, FiniteSetsExt

CONSTANTS
  NumDocs,   \* LinkIDs are 1..NumDocs
  Score,     \* what UpdateScore is called with
  Offset,    \* Query.Offset
  BatchSize, \* hits of one page
  MaxTotal,  \* up to how many matches Elasticsearch counts
  MaxWrites, \* bound: how many calls of Index and UpdateScore are made
  CanFail    \* calls of bleve and of Elasticsearch can fail

ASSUME DocsAssumption  == NumDocs \in Nat /\ Score \subseteq Nat /\ Offset \subseteq Nat
ASSUME BatchAssumption == BatchSize \in Nat \ {0} /\ MaxTotal \in Nat
ASSUME FailAssumption  == MaxWrites \in Nat /\ CanFail \in BOOLEAN

LinkID   == 1..NumDocs
Document == [matches : BOOLEAN, rank : Score \cup {0}]

VARIABLES
  kind,    \* "memory", or "es" without or "esSync" with syncUpdates
  docs,    \* the documents, by LinkID
  indexed, \* the documents as a search sees them
  mutex,   \* who holds i.mu: nobody, or Index or UpdateScore between two writes
  writing, \* the LinkID and the document they write
  itPc,    \* the iterator: open, inside Next before it takes a hit, Next was
           \* false, closed; or the program panicked
  from,    \* its searchReq.From
  hits, total,   \* its rs
  rsIdx, cumIdx, \* its indexes in the page and in the result
  lastErr, \* its lastErr
  writes,  \* bound: how many writes there were
  torn,    \* history: documents whose last UpdateScore failed half way
  lastText,  \* history: by LinkID, what the last Index had: does it match
  lastScore, \* history: by LinkID, the score of the last UpdateScore
  offset,  \* history: the Offset of the query
  seen,    \* history: the documents that Next went to
  quiet    \* history: no search would have changed since Search

calls    == <<lastText, lastScore>>
store    == <<docs, indexed, mutex, writing, torn, writes, calls>>
iterator == <<itPc, from, hits, total, rsIdx, cumIdx, lastErr, offset, seen>>
vars == <<kind, store, iterator, quiet>>

Init ==
  /\ kind \in {"memory", "es", "esSync"}
  /\ docs = <<>> /\ indexed = <<>>
  /\ mutex = "free" /\ writing = <<>> /\ torn = {} /\ writes = 0
  /\ lastText = <<>> /\ lastScore = <<>>
  /\ itPc = "idle" /\ from = 0 /\ hits = <<>> /\ total = 0
  /\ rsIdx = 0 /\ cumIdx = 0 /\ lastErr = "none"
  /\ offset = 0 /\ seen = <<>> /\ quiet = TRUE

\* A map after m[k] = v.
Put(m, k, v) == [x \in DOMAIN m \cup {k} |-> IF x = k THEN v ELSE m[x]]

\* What docs has for d, and what UpdateScore or Elasticsearch adds to if there is
\* none.
Saved(d) == IF d \in DOMAIN docs THEN docs[d] ELSE [matches |-> FALSE, rank |-> 0]

Write ==
  /\ writes < MaxWrites
  /\ writes' = writes + 1

Lock(holder) ==
  /\ kind = "memory" /\ mutex = "free"
  /\ mutex' = holder

Unlock(holder) ==
  /\ mutex = holder
  /\ mutex' = "free"
  /\ writing' = <<>>

-----------------------------------------------------------------------------
(* InMemoryBleveIndexer.                                                   *)

\* Index, up to bleve: a document that is there keeps its PageRank, a new one
\* has the caller's.  If bleve fails nothing has changed.  (Mutated: the
\* caller's PageRank in any case.)
IndexOverridesRank(d, m, r) ==
  /\ Write
  /\ Lock("index")
  /\ writing' = <<d, [matches |-> m, rank |-> r]>>
  /\ indexed' = Put(indexed, d, writing'[2])
  /\ lastText' = Put(lastText, d, m)
  /\ UNCHANGED <<docs, torn, lastScore>>

IndexInBleve(d, m, r) ==
  /\ Write
  /\ Lock("index")
  /\ LET rank == IF d \in DOMAIN docs THEN docs[d].rank ELSE r
     IN  writing' = <<d, [matches |-> m, rank |-> rank]>>
  /\ indexed' = Put(indexed, d, writing'[2])
  /\ lastText' = Put(lastText, d, m)
  /\ UNCHANGED <<docs, torn, lastScore>>

IndexStores ==
  /\ Unlock("index")
  /\ docs' = Put(docs, writing[1], writing[2])
  /\ torn' = torn \ {writing[1]}
  /\ UNCHANGED <<indexed, writes, calls>>

\* UpdateScore changes the stored document first, and makes one if it must.
ScoreStores(d, r) ==
  /\ Write
  /\ Lock("score")
  /\ docs' = Put(docs, d, [Saved(d) EXCEPT !.rank = r])
  /\ writing' = <<d, docs'[d]>>
  /\ lastScore' = Put(lastScore, d, r)
  /\ UNCHANGED <<indexed, torn, lastText>>

ScoreInBleve ==
  /\ Unlock("score")
  /\ indexed' = Put(indexed, writing[1], writing[2])
  /\ torn' = torn \ {writing[1]}
  /\ UNCHANGED <<docs, writes, calls>>

ScoreFails ==
  /\ CanFail
  /\ Unlock("score")
  /\ torn' = torn \cup {writing[1]}
  /\ UNCHANGED <<docs, indexed, writes, calls>>

(* ElasticSearchIndexer: partial updates, on the server.                   *)

EsUpdate(d, doc) ==
  /\ Write
  /\ kind # "memory"
  /\ docs' = Put(docs, d, doc)
  /\ indexed' = IF kind = "esSync" THEN docs' ELSE indexed
  /\ UNCHANGED <<mutex, writing, torn>>

\* The update of Index leaves PageRank out, that of UpdateScore all else.
MakeEsDoc(d, m) == [Saved(d) EXCEPT !.matches = m]

EsIndex(d, m) ==
  /\ EsUpdate(d, MakeEsDoc(d, m))
  /\ lastText' = Put(lastText, d, m)
  /\ UNCHANGED lastScore

EsUpdateScore(d, r) ==
  /\ EsUpdate(d, [Saved(d) EXCEPT !.rank = r])
  /\ lastScore' = Put(lastScore, d, r)
  /\ UNCHANGED lastText

EsRefresh ==
  /\ kind = "es"
  /\ indexed' = docs
  /\ UNCHANGED <<docs, mutex, writing, torn, writes, calls>>

-----------------------------------------------------------------------------
(* The iterators.                                                          *)

Matches == {d \in DOMAIN indexed : indexed[d].matches}

\* Document d comes before e.
Ahead(d, e) ==
  \/ indexed[d].rank > indexed[e].rank
  \/ indexed[d].rank = indexed[e].rank /\ d < e

\* The matches in that order: i - 1 of them come before the i-th.
Ranking ==
  [i \in 1..Cardinality(Matches) |->
     CHOOSE d \in Matches : Cardinality({e \in Matches : Ahead(e, d)}) = i - 1]

\* The hits of a page.
Page(first) == SubSeq(Ranking, first + 1, Min({first + BatchSize, Len(Ranking)}))

\* The total of a search: Elasticsearch stops counting at MaxTotal.
Counted == IF kind = "memory" THEN Len(Ranking) ELSE Min({Len(Ranking), MaxTotal})

Fetch(first) ==
  /\ from'  = first
  /\ hits'  = Page(first)
  /\ total' = Counted
  /\ rsIdx' = 0

Open(o) ==
  /\ itPc = "idle"
  /\ Fetch(o)
  /\ cumIdx' = o /\ offset' = o
  /\ itPc' = "open"
  /\ UNCHANGED <<lastErr, seen>>

Search(o)   == kind = "memory" /\ mutex = "free" /\ Open(o)
EsSearch(o) == kind # "memory" /\ Open(o)

\* Next at the end of the result.
NextEnds ==
  /\ itPc = "open" /\ cumIdx >= total
  /\ itPc' = "done"
  /\ UNCHANGED <<from, hits, total, rsIdx, cumIdx, lastErr, offset, seen>>

AtPageEnd == itPc = "open" /\ cumIdx < total /\ rsIdx = Len(hits)

\* Next fetches a page, without i.mu, and indexes it at 0 whether or not it has
\* a hit.  (Mutated: From stays.)
NextFetchesSame ==
  /\ AtPageEnd
  /\ Fetch(from)
  /\ itPc' = IF hits' = <<>> THEN "panic" ELSE "take"
  /\ UNCHANGED <<cumIdx, lastErr, offset, seen>>

NextFetches ==
  /\ AtPageEnd
  /\ Fetch(from + BatchSize)
  /\ itPc' = IF hits' = <<>> THEN "panic" ELSE "take"
  /\ UNCHANGED <<cumIdx, lastErr, offset, seen>>

NextFails ==
  /\ CanFail
  /\ AtPageEnd
  /\ from' = from + BatchSize
  /\ lastErr' = "search"
  /\ itPc' = "done"
  /\ UNCHANGED <<hits, total, rsIdx, cumIdx, offset, seen>>

AtHit == itPc = "take" \/ (itPc = "open" /\ cumIdx < total /\ rsIdx < Len(hits))
Hit   == hits[rsIdx + 1]

Take ==
  /\ rsIdx' = rsIdx + 1 /\ cumIdx' = cumIdx + 1
  /\ seen' = Append(seen, Hit)
  /\ itPc' = "open"
  /\ UNCHANGED <<from, hits, total, lastErr, offset>>

NotFound ==
  /\ lastErr' = "notFound"
  /\ itPc' = "done"
  /\ UNCHANGED <<from, hits, total, rsIdx, cumIdx, offset, seen>>

\* findByID takes i.mu.  (Mutated: it does not.)
FindByIDUnlocked(d) == IF d \in DOMAIN docs THEN Take ELSE NotFound
FindByID(d) == mutex = "free" /\ (IF d \in DOMAIN docs THEN Take ELSE NotFound)

\* Next looks the hit up in the map.
NextTakes ==
  /\ kind = "memory"
  /\ AtHit
  /\ FindByID(Hit)

\* esIterator.Next has the document in the page.
EsNextTakes ==
  /\ kind # "memory"
  /\ AtHit
  /\ Take

Close ==
  /\ kind = "memory" /\ itPc \in {"open", "done"}
  /\ itPc' = "closed"
  /\ UNCHANGED <<from, hits, total, rsIdx, cumIdx, lastErr, offset, seen>>

\* esIterator.Close uses rs, which a search that failed has set to nil.
EsClose ==
  /\ kind # "memory" /\ itPc \in {"open", "done"}
  /\ itPc' = IF lastErr = "search" THEN "panic" ELSE "closed"
  /\ cumIdx' = total
  /\ UNCHANGED <<from, hits, total, rsIdx, lastErr, offset, seen>>

-----------------------------------------------------------------------------

Writes ==
  \/ \E d \in LinkID, m \in BOOLEAN :
       (\E r \in Score \cup {0} : IndexInBleve(d, m, r)) \/ EsIndex(d, m)
  \/ IndexStores
  \/ \E d \in LinkID, r \in Score : ScoreStores(d, r) \/ EsUpdateScore(d, r)
  \/ ScoreInBleve
  \/ ScoreFails
  \/ EsRefresh

Reads ==
  \/ \E o \in Offset : Search(o) \/ EsSearch(o)
  \/ NextEnds
  \/ NextFetches
  \/ NextFails
  \/ NextTakes \/ EsNextTakes
  \/ Close \/ EsClose

Terminated ==
  /\ itPc = "panic" \/ (itPc = "closed" /\ writes = MaxWrites /\ mutex = "free")
  /\ UNCHANGED vars

Next ==
  \/ /\ itPc # "panic"
     /\ (Writes /\ UNCHANGED iterator) \/ (Reads /\ UNCHANGED store)
     /\ quiet' = (itPc = "idle" \/ (quiet /\ indexed' = indexed))
     /\ UNCHANGED kind
  \/ Terminated

Spec == Init /\ [][Next]_vars

-----------------------------------------------------------------------------
(* Properties.                                                             *)

\* Every variable has its type; a page has at most BatchSize hits.
TypeOK ==
  /\ kind \in {"memory", "es", "esSync"}
  /\ DOMAIN docs \subseteq LinkID /\ \A d \in DOMAIN docs : docs[d] \in Document
  /\ DOMAIN indexed \subseteq LinkID
  /\ \A d \in DOMAIN indexed : indexed[d] \in Document
  /\ mutex \in {"free", "index", "score"}
  /\ torn \subseteq LinkID
  /\ itPc \in {"idle", "open", "take", "done", "closed", "panic"}
  /\ hits \in Seq(LinkID) /\ Len(hits) <= BatchSize /\ rsIdx \in 0..Len(hits)
  /\ lastErr \in {"none", "search", "notFound"}

\* Unless a write is under way: FindByID returns the documents that were indexed
\* or scored, with the text of the last Index and the score of the last
\* UpdateScore, which no later Index overrides; and unless an UpdateScore failed
\* half way, searches find and rank these very documents.
SearchAgreesWithDocs ==
  TypeOK /\ (mutex = "free" =>
    /\ DOMAIN docs = DOMAIN lastText \cup DOMAIN lastScore
    /\ \A d \in DOMAIN docs :
         /\ docs[d].matches <=> d \in DOMAIN lastText /\ lastText[d]
         /\ d \in DOMAIN lastScore => docs[d].rank = lastScore[d]
    /\ kind # "es" =>
         /\ DOMAIN indexed \subseteq DOMAIN docs
         /\ \A d \in DOMAIN docs \ torn : d \in DOMAIN indexed /\ indexed[d] = docs[d])

\* A hit is always there when Next looks it up: though Next searches without
\* i.mu and can meet a document that Index has not stored yet, it takes i.mu to
\* look it up, and by then Index has.
HitsAreThere == lastErr # "notFound"

\* What an iteration is to yield: the matches from the offset on, as far as they
\* are counted.
Wanted == SubSeq(Ranking, offset + 1, Counted)

\* An iteration during which nothing changed and no search failed yields them
\* once, in the order of the ranks, across pages, and every one before it ends.
\* It never yields more, so that it does end, and not in a panic.
CompleteWhenQuiet ==
  quiet /\ lastErr = "none" /\ itPc \notin {"idle", "closed"} =>
    /\ itPc # "panic"
    /\ Len(seen) <= Len(Wanted)
    /\ \A i \in 1..Len(seen) : seen[i] = Wanted[i]
    /\ itPc = "done" => seen = Wanted

\* Next returns false if no more documents are available, as its comment says:
\* it does not panic because there are fewer matches now than when the page
\* before was fetched.
NeverPanics == itPc # "panic"
=============================================================================
