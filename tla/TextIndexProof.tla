--------------------------- MODULE TextIndexProof ---------------------------
(***************************************************************************)
(* Proofs about the text indexes and their iterators, for any number of    *)
(* documents and of writes, any scores, offset and size of a page.         *)
(***************************************************************************)
EXTENDS TextIndex, Integers, SequenceTheorems, FiniteSetTheorems, TLAPS

(***************************************************************************)
(* The inductive invariant.                                                *)
(***************************************************************************)

\* What a search sees is of the documents.
Searchable == DOMAIN indexed \subseteq LinkID /\ \A d \in DOMAIN indexed : indexed[d] \in Document

\* The types of the index, with that of writing.
StoreTypes ==
  /\ kind \in {"memory", "es", "esSync"}
  /\ DOMAIN docs \subseteq LinkID /\ \A d \in DOMAIN docs : docs[d] \in Document
  /\ Searchable
  /\ mutex \in {"free", "index", "score"}
  /\ mutex # "free" => kind = "memory"
  /\ mutex # "free" => writing[1] \in LinkID /\ writing[2] \in Document
  /\ torn \subseteq LinkID

\* The types of the iterator, with those that TypeOK leaves out.
IteratorTypes ==
  /\ itPc \in {"idle", "open", "take", "done", "closed", "panic"}
  /\ hits \in Seq(LinkID) /\ Len(hits) <= BatchSize /\ rsIdx \in 0..Len(hits)
  /\ itPc = "take" => rsIdx < Len(hits)
  /\ from \in Nat /\ total \in Nat /\ cumIdx \in Nat /\ offset \in Nat
  /\ seen \in Seq(LinkID)
  /\ lastErr \in {"none", "search", "notFound"}

\* The document that a method holding the mutex writes, and that which Index has
\* in bleve and not yet in the map.
Busy    == IF mutex = "free" THEN {} ELSE {writing[1]}
Unsaved == IF mutex = "index" THEN {writing[1]} ELSE {}

\* The map and bleve differ in what is being written and in what is torn.
InStep ==
  kind = "memory" =>
    /\ DOMAIN indexed \subseteq DOMAIN docs \cup Unsaved
    /\ \A d \in DOMAIN docs \ (torn \cup Busy) : d \in DOMAIN indexed /\ indexed[d] = docs[d]
    /\ mutex = "index" => writing[1] \in DOMAIN indexed /\ indexed[writing[1]] = writing[2]
    /\ mutex = "score" => writing[1] \in DOMAIN docs /\ docs[writing[1]] = writing[2]

\* With syncUpdates a search sees every update.
Synced == kind = "esSync" => indexed = docs

\* A hit was in bleve when it was fetched, and no document leaves the map.
HitsAreKnown ==
  kind = "memory" => \A i \in 1..Len(hits) : hits[i] \in DOMAIN docs \cup Unsaved

\* The iterator is at cumIdx of a result that has not changed since Search.
OnCourse ==
  itPc \notin {"idle", "closed"} /\ quiet /\ lastErr = "none" =>
    /\ hits = Page(from) /\ total = Counted
    /\ offset <= from /\ (cumIdx = offset \/ cumIdx <= total)
    /\ cumIdx = from + rsIdx /\ (itPc = "take" => cumIdx < total)
    /\ seen = SubSeq(Ranking, offset + 1, cumIdx)
    /\ itPc = "done" => cumIdx >= total
    /\ itPc # "panic"

\* Nothing has been fetched yet.
AtStart == itPc = "idle" => hits = <<>> /\ seen = <<>> /\ lastErr = "none"

IInv ==
  /\ StoreTypes /\ InStep /\ Synced
  /\ IteratorTypes /\ HitsAreKnown /\ HitsAreThere /\ AtStart
  /\ OnCourse /\ quiet \in BOOLEAN

-----------------------------------------------------------------------------
(* The ranking.                                                            *)

Before(d) == {e \in Matches : Ahead(e, d)}

\* Only finitely many documents match.
LEMMA MatchesAreFinite ==
  ASSUME Searchable
  PROVE  IsFiniteSet(Matches) /\ Cardinality(Matches) \in Nat
<1>1. Matches \subseteq 1..NumDocs
  BY DEF Matches, Searchable, LinkID
<1>2. IsFiniteSet(1..NumDocs)
  BY DocsAssumption, FS_Interval
<1> QED
  BY <1>1, <1>2, FS_Subset, FS_CardinalityType

\* Ahead is a strict total order of the matches.
LEMMA AheadOrders ==
  ASSUME Searchable
  PROVE  /\ \A d \in Matches : ~Ahead(d, d)
         /\ \A d, e \in Matches : d # e => Ahead(d, e) \/ Ahead(e, d)
         /\ \A d, e, g \in Matches : Ahead(d, e) /\ Ahead(e, g) => Ahead(d, g)
<1>1. ASSUME NEW d \in Matches PROVE d \in Nat /\ indexed[d].rank \in Nat
  <2>1. d \in 1..NumDocs /\ indexed[d] \in Document
    BY DEF Matches, Searchable, LinkID
  <2>2. indexed[d].rank \in Score \cup {0}
    BY <2>1 DEF Document
  <2>3. Score \cup {0} \subseteq Nat
    BY DocsAssumption
  <2>4. d \in Nat
    BY <2>1
  <2> QED
    BY <2>2, <2>3, <2>4
<1> QED
  BY <1>1 DEF Ahead

\* The number of matches before a match is one less than its place.
LEMMA Places ==
  ASSUME Searchable
  PROVE  /\ \A d \in Matches : Cardinality(Before(d)) \in 0..(Cardinality(Matches) - 1)
         /\ \A d, e \in Matches : Ahead(d, e) => Cardinality(Before(d)) < Cardinality(Before(e))
<1>1. ASSUME NEW d \in Matches PROVE Cardinality(Before(d)) \in 0..(Cardinality(Matches) - 1)
  <2>1. Before(d) \subseteq Matches \ {d}
    BY <1>1, AheadOrders DEF Before
  <2>2. IsFiniteSet(Matches \ {d}) /\ Cardinality(Matches \ {d}) = Cardinality(Matches) - 1
    BY <1>1, MatchesAreFinite, FS_RemoveElement
  <2>3. Cardinality(Before(d)) \in Nat /\ Cardinality(Before(d)) <= Cardinality(Matches \ {d})
    BY <2>1, <2>2, FS_Subset, FS_CardinalityType
  <2> QED
    BY <2>2, <2>3, MatchesAreFinite
<1>2. ASSUME NEW d \in Matches, NEW e \in Matches, Ahead(d, e)
      PROVE  Cardinality(Before(d)) < Cardinality(Before(e))
  <2>1. Before(d) \subseteq Before(e) /\ d \in Before(e) /\ d \notin Before(d)
    BY <1>2, AheadOrders DEF Before
  <2>2. IsFiniteSet(Before(e))
    BY MatchesAreFinite, FS_Subset DEF Before
  <2>3. Cardinality(Before(d)) <= Cardinality(Before(e)) /\ Cardinality(Before(d)) # Cardinality(Before(e))
    BY <2>1, <2>2, FS_Subset
  <2>4. Cardinality(Before(d)) \in Nat /\ Cardinality(Before(e)) \in Nat
    BY <1>1, <1>2, MatchesAreFinite
  <2> QED
    BY <2>3, <2>4
<1> QED
  BY <1>1, <1>2

\* Every place is taken.
LEMMA EveryPlaceIsTaken ==
  ASSUME Searchable, NEW i \in 1..Cardinality(Matches)
  PROVE  \E d \in Matches : Cardinality(Before(d)) = i - 1
<1> DEFINE f == [d \in Matches |-> Cardinality(Before(d))]
           T == 0..(Cardinality(Matches) - 1)
<1>1. f \in Injection(Matches, T)
  <2>1. f \in [Matches -> T]
    BY Places
  <2>2. \A d, e \in Matches : f[d] = f[e] => d = e
    BY Places, AheadOrders, MatchesAreFinite
  <2> HIDE DEF f, T
  <2> QED
    BY <2>1, <2>2 DEF Injection, IsInjective
<1>2. IsFiniteSet(T) /\ Cardinality(T) = Cardinality(Matches)
  <2>1. 0 \in Int /\ Cardinality(Matches) - 1 \in Int
    BY MatchesAreFinite
  <2>2. /\ IsFiniteSet(T)
        /\ Cardinality(T) = IF 0 > Cardinality(Matches) - 1 THEN 0 ELSE Cardinality(Matches) - 1 - 0 + 1
    BY <2>1, FS_Interval
  <2> QED
    BY <2>2, MatchesAreFinite
<1>3. f \in Surjection(Matches, T)
  <2> HIDE DEF f, T
  <2> QED
    BY <1>1, <1>2, FS_Injection
<1>4. i - 1 \in T
  BY MatchesAreFinite
<1>5. \E d \in Matches : f[d] = i - 1
  <2> HIDE DEF f, T
  <2> QED
    BY <1>3, <1>4 DEF Surjection
<1> QED
  BY <1>5

\* Ranking lists the matches, in order: the hits come by their rank, and
\* documents of the same rank by their LinkIDs.
THEOREM RankingSorts ==
  ASSUME Searchable
  PROVE  /\ Ranking \in Seq(Matches) /\ Len(Ranking) = Cardinality(Matches)
         /\ \A i, j \in 1..Len(Ranking) : i < j => Ahead(Ranking[i], Ranking[j])
         /\ \A d \in Matches : \E i \in 1..Len(Ranking) : Ranking[i] = d
<1> DEFINE C == Cardinality(Matches)
<1>1. ASSUME NEW i \in 1..C
      PROVE  Ranking[i] \in Matches /\ Cardinality(Before(Ranking[i])) = i - 1
  <2>1. Ranking[i] = CHOOSE d \in Matches : Cardinality(Before(d)) = i - 1
    BY DEF Ranking, Before
  <2> QED
    BY <2>1, EveryPlaceIsTaken
<1>2. C \in Nat /\ Ranking = [i \in 1..C |-> Ranking[i]]
  <2> DEFINE g(i) == CHOOSE d \in Matches : Cardinality({e \in Matches : Ahead(e, d)}) = i - 1
  <2>1. Ranking = [i \in 1..C |-> g(i)]
    BY DEF Ranking
  <2> HIDE DEF g
  <2> QED
    BY <2>1, MatchesAreFinite
<1>3. Ranking \in [1..C -> Matches]
  BY <1>1, <1>2
<1>4. Ranking \in Seq(Matches) /\ Len(Ranking) = C
  BY <1>2, <1>3, SeqDef, LenProperties
<1>5. ASSUME NEW i \in 1..C, NEW j \in 1..C, i < j PROVE Ahead(Ranking[i], Ranking[j])
  BY <1>1, <1>2, <1>5, Places, AheadOrders
<1>6. ASSUME NEW d \in Matches PROVE \E i \in 1..C : Ranking[i] = d
  <2> DEFINE i == Cardinality(Before(d)) + 1
  <2>1. i \in 1..C /\ Cardinality(Before(d)) = i - 1
    BY <1>2, <1>6, Places
  <2>2. Ranking[i] = d
    <3> HIDE DEF i
    <3> QED
      BY <1>1, <1>2, <1>6, <2>1, Places, AheadOrders
  <2> QED
    BY <2>1, <2>2
<1> QED
  BY <1>4, <1>5, <1>6

\* A page is the part of the ranking from first on, of at most BatchSize hits.
LEMMA PageIsPart ==
  ASSUME Searchable, NEW first \in Nat
  PROVE  /\ Page(first) \in Seq(Matches) /\ Page(first) \in Seq(LinkID)
         /\ Len(Ranking) \in Nat
         /\ first >= Len(Ranking) => Len(Page(first)) = 0
         /\ first < Len(Ranking) /\ first + BatchSize <= Len(Ranking) => Len(Page(first)) = BatchSize
         /\ first < Len(Ranking) /\ first + BatchSize > Len(Ranking) =>
              Len(Page(first)) = Len(Ranking) - first
         /\ \A i \in 1..Len(Page(first)) : first + i <= Len(Ranking) /\ Page(first)[i] = Ranking[first + i]
<1> DEFINE L == Len(Ranking)
           last == Min({first + BatchSize, L})
<1>1. L \in Nat /\ BatchSize \in Nat \ {0} /\ \A i \in 1..L : Ranking[i] \in Matches
  BY RankingSorts, MatchesAreFinite, BatchAssumption, ElementOfSeq
<1>2. last = IF first + BatchSize <= L THEN first + BatchSize ELSE L
  <2> DEFINE m == IF first + BatchSize <= L THEN first + BatchSize ELSE L
  <2>1. m \in {first + BatchSize, L} /\ \A y \in {first + BatchSize, L} : m <= y
    BY <1>1
  <2>2. \A x \in {first + BatchSize, L} : (\A y \in {first + BatchSize, L} : x <= y) => x = m
    BY <1>1
  <2> HIDE DEF L, m
  <2> QED
    BY <2>1, <2>2 DEF Min, m
<1> HIDE DEF last, L
<1>3. Page(first) = SubSeq(Ranking, first + 1, last)
  BY DEF Page, last, L
<1>4. \A i \in (first + 1)..last : Ranking[i] \in Matches
  BY <1>1, <1>2
<1>5. /\ Page(first) \in Seq(Matches)
      /\ Len(Page(first)) = IF first + 1 <= last THEN last - first ELSE 0
      /\ \A i \in 1..(last - first) : Page(first)[i] = Ranking[first + i]
  <2>1. first + 1 \in Int /\ last \in Int
    BY <1>1, <1>2
  <2>2. /\ Page(first) \in Seq(Matches)
        /\ Len(Page(first)) = IF first + 1 <= last THEN last - (first + 1) + 1 ELSE 0
        /\ \A i \in 1..(last - (first + 1) + 1) : Page(first)[i] = Ranking[first + 1 + i - 1]
    BY <1>3, <1>4, <2>1, SubSeqProperties
  <2> QED
    BY <2>1, <2>2
<1>6. Page(first) \in Seq(LinkID)
  <2>1. Matches \subseteq LinkID
    BY DEF Matches, Searchable
  <2> QED
    BY <1>5, <2>1, SeqMonotonic
<1> QED
  BY <1>1, <1>2, <1>5, <1>6 DEF L

-----------------------------------------------------------------------------
(* Writes preserve the invariant.                                          *)

\* What is saved under an ID, or made up for one, is a document.
LEMMA SavedIsDocument ==
  ASSUME StoreTypes, NEW d \in LinkID
  PROVE  Saved(d) \in Document
<1>1. [matches |-> FALSE, rank |-> 0] \in Document
  BY DEF Document
<1> QED
  BY <1>1 DEF Saved, StoreTypes

\* The ranking and its pages depend on nothing but what a search sees.
LEMMA SameRanking ==
  ASSUME indexed' = indexed, kind' = kind
  PROVE  /\ Ranking' = Ranking /\ Counted' = Counted
         /\ \A first \in Nat : Page(first)' = Page(first)
<1>1. Ranking' = Ranking
  BY DEF Ranking, Matches, Ahead
<1> QED
  BY <1>1 DEF Page, Counted

\* A part of the ranking.
LEMMA PartOfRanking ==
  ASSUME Searchable, NEW first \in Nat, NEW last \in Nat,
         first <= last, last <= Len(Ranking)
  PROVE  /\ Len(SubSeq(Ranking, first + 1, last)) = last - first
         /\ \A i \in 1..(last - first) :
              SubSeq(Ranking, first + 1, last)[i] = Ranking[first + i]
<1>1. Len(Ranking) \in Nat /\ \A i \in 1..Len(Ranking) : Ranking[i] \in Matches
  BY RankingSorts, MatchesAreFinite, ElementOfSeq
<1>2. \A i \in (first + 1)..last : Ranking[i] \in Matches
  BY <1>1
<1>3. first + 1 \in Int /\ last \in Int
  OBVIOUS
<1>4. /\ Len(SubSeq(Ranking, first + 1, last))
           = IF first + 1 <= last THEN last - (first + 1) + 1 ELSE 0
      /\ \A i \in 1..(last - (first + 1) + 1) :
           SubSeq(Ranking, first + 1, last)[i] = Ranking[first + 1 + i - 1]
  BY <1>2, <1>3, SubSeqProperties
<1> QED
  BY <1>4

\* What is counted is a part of the matches.
LEMMA CountedIsPart ==
  ASSUME Searchable
  PROVE  Counted \in 0..Len(Ranking) /\ Len(Ranking) \in Nat
<1>1. Len(Ranking) \in Nat
  BY RankingSorts, MatchesAreFinite
<1> DEFINE L == Len(Ranking)
           m == IF L <= MaxTotal THEN L ELSE MaxTotal
<1>2. Min({L, MaxTotal}) = m
  <2>1. m \in {L, MaxTotal} /\ \A y \in {L, MaxTotal} : m <= y
    BY <1>1, BatchAssumption
  <2>2. \A x \in {L, MaxTotal} : (\A y \in {L, MaxTotal} : x <= y) => x = m
    BY <1>1, BatchAssumption
  <2> HIDE DEF L, m
  <2> QED
    BY <2>1, <2>2 DEF Min, m
<1> QED
  BY <1>1, <1>2, BatchAssumption DEF Counted

\* What Next adds to a write of the store.
Writing ==
  /\ UNCHANGED <<iterator, kind>>
  /\ quiet' = (itPc = "idle" \/ (quiet /\ indexed' = indexed))

\* A write preserves what is said of the iterator, if it keeps the documents.
LEMMA WritesKeepIterator ==
  ASSUME IInv, Writing, StoreTypes', InStep', Synced',
         kind = "memory" => DOMAIN docs \cup Unsaved \subseteq (DOMAIN docs \cup Unsaved)'
  PROVE  IInv'
<1>1. IteratorTypes' /\ HitsAreThere' /\ AtStart'
  BY DEF IInv, Writing, iterator, IteratorTypes, HitsAreThere, AtStart
<1>2. HitsAreKnown'
  BY DEF IInv, Writing, iterator, HitsAreKnown
<1>3. quiet' \in BOOLEAN
  BY DEF Writing
<1>4. OnCourse'
  <2>1. CASE itPc \in {"idle", "closed"}
    BY <2>1 DEF OnCourse, Writing, iterator
  <2>2. CASE itPc \notin {"idle", "closed"} /\ quiet'
    <3>1. quiet /\ indexed' = indexed
      BY <2>2 DEF Writing
    <3>2. /\ Ranking' = Ranking /\ Counted' = Counted
          /\ Page(from)' = Page(from) /\ from' = from
      BY <3>1, SameRanking DEF Writing, iterator, IInv, IteratorTypes
    <3> QED
      BY <2>2, <3>1, <3>2 DEF IInv, OnCourse, Writing, iterator
  <2>3. CASE ~quiet'
    BY <2>3 DEF OnCourse
  <2> QED
    BY <2>1, <2>2, <2>3
<1> QED
  BY <1>1, <1>2, <1>3, <1>4 DEF IInv

\* Index has the mutex and has written bleve, and not yet the map.
LEMMA IndexInBleveStep ==
  ASSUME IInv, Writing, NEW d \in LinkID, NEW m \in BOOLEAN,
         NEW r \in Score \cup {0}, IndexInBleve(d, m, r)
  PROVE  IInv'
<1> DEFINE rank == IF d \in DOMAIN docs THEN docs[d].rank ELSE r
           doc  == [matches |-> m, rank |-> rank]
<1>1. doc \in Document
  BY DEF IInv, StoreTypes, Document
<1>2. /\ kind = "memory" /\ mutex = "free" /\ mutex' = "index" /\ kind' = kind
      /\ writing'[1] = d /\ writing'[2] = doc /\ docs' = docs /\ torn' = torn
      /\ indexed' = Put(indexed, d, doc)
  BY DEF IndexInBleve, Lock, Writing
<1> HIDE DEF doc
<1>3. /\ DOMAIN indexed' = DOMAIN indexed \cup {d} /\ indexed'[d] = doc
      /\ \A x \in DOMAIN indexed : x # d => indexed'[x] = indexed[x]
  BY <1>2 DEF Put
<1>4. StoreTypes'
  BY <1>1, <1>2, <1>3 DEF IInv, StoreTypes, Searchable
<1>5. InStep'
  BY <1>2, <1>3 DEF IInv, InStep, Busy, Unsaved
<1>6. Synced' /\ DOMAIN docs \cup Unsaved \subseteq (DOMAIN docs \cup Unsaved)'
  BY <1>2 DEF Synced, Unsaved
<1> QED
  BY <1>4, <1>5, <1>6, WritesKeepIterator

\* Index writes the map, and both stores have the same document.
LEMMA IndexStoresStep ==
  ASSUME IInv, Writing, IndexStores
  PROVE  IInv'
<1> DEFINE d == writing[1]
           doc == writing[2]
<1>1. /\ mutex = "index" /\ mutex' = "free" /\ kind = "memory" /\ kind' = kind
      /\ docs' = Put(docs, d, doc) /\ torn' = torn \ {d} /\ indexed' = indexed
      /\ d \in LinkID /\ doc \in Document
  BY DEF IndexStores, Unlock, Writing, IInv, StoreTypes
<1> HIDE DEF d, doc
<1>2. /\ DOMAIN docs' = DOMAIN docs \cup {d} /\ docs'[d] = doc
      /\ \A x \in DOMAIN docs : x # d => docs'[x] = docs[x]
  BY <1>1 DEF Put
<1>3. StoreTypes'
  BY <1>1, <1>2 DEF IInv, StoreTypes, Searchable
<1>4. InStep'
  BY <1>1, <1>2 DEF IInv, InStep, Busy, Unsaved, d, doc
<1>5. Synced' /\ DOMAIN docs \cup Unsaved \subseteq (DOMAIN docs \cup Unsaved)'
  BY <1>1, <1>2 DEF Synced, Unsaved, d
<1> QED
  BY <1>3, <1>4, <1>5, WritesKeepIterator

\* UpdateScore has the mutex and has written the map, and not yet bleve.
LEMMA ScoreStoresStep ==
  ASSUME IInv, Writing, NEW d \in LinkID, NEW r \in Score, ScoreStores(d, r)
  PROVE  IInv'
<1> DEFINE doc == [Saved(d) EXCEPT !.rank = r]
<1>1. doc \in Document
  BY SavedIsDocument DEF IInv, Document
<1>2. /\ kind = "memory" /\ mutex = "free" /\ mutex' = "score" /\ kind' = kind
      /\ writing'[1] = d /\ writing'[2] = docs'[d] /\ indexed' = indexed /\ torn' = torn
      /\ docs' = Put(docs, d, doc)
  BY DEF ScoreStores, Lock, Writing
<1> HIDE DEF doc
<1>3. /\ DOMAIN docs' = DOMAIN docs \cup {d} /\ docs'[d] = doc
      /\ \A x \in DOMAIN docs : x # d => docs'[x] = docs[x]
  BY <1>2 DEF Put
<1>4. StoreTypes'
  BY <1>1, <1>2, <1>3 DEF IInv, StoreTypes, Searchable
<1>5. InStep'
  BY <1>2, <1>3 DEF IInv, InStep, Busy, Unsaved
<1>6. Synced' /\ DOMAIN docs \cup Unsaved \subseteq (DOMAIN docs \cup Unsaved)'
  BY <1>2, <1>3 DEF Synced, Unsaved
<1> QED
  BY <1>4, <1>5, <1>6, WritesKeepIterator

\* UpdateScore writes bleve, and the document is torn no more.
LEMMA ScoreInBleveStep ==
  ASSUME IInv, Writing, ScoreInBleve
  PROVE  IInv'
<1> DEFINE d == writing[1]
           doc == writing[2]
<1>1. /\ mutex = "score" /\ mutex' = "free" /\ kind = "memory" /\ kind' = kind
      /\ indexed' = Put(indexed, d, doc) /\ torn' = torn \ {d} /\ docs' = docs
      /\ d \in LinkID /\ doc \in Document
  BY DEF ScoreInBleve, Unlock, Writing, IInv, StoreTypes
<1> HIDE DEF d, doc
<1>2. /\ DOMAIN indexed' = DOMAIN indexed \cup {d} /\ indexed'[d] = doc
      /\ \A x \in DOMAIN indexed : x # d => indexed'[x] = indexed[x]
  BY <1>1 DEF Put
<1>3. StoreTypes'
  BY <1>1, <1>2 DEF IInv, StoreTypes, Searchable
<1>4. InStep'
  BY <1>1, <1>2 DEF IInv, InStep, Busy, Unsaved, d, doc
<1>5. Synced' /\ DOMAIN docs \cup Unsaved \subseteq (DOMAIN docs \cup Unsaved)'
  BY <1>1 DEF Synced, Unsaved
<1> QED
  BY <1>3, <1>4, <1>5, WritesKeepIterator

\* UpdateScore fails between its writes, and leaves the document torn.
LEMMA ScoreFailsStep ==
  ASSUME IInv, Writing, ScoreFails
  PROVE  IInv'
<1>1. /\ mutex = "score" /\ mutex' = "free" /\ kind = "memory" /\ kind' = kind
      /\ torn' = torn \cup {writing[1]} /\ docs' = docs /\ indexed' = indexed
      /\ writing[1] \in LinkID
  BY DEF ScoreFails, Unlock, Writing, IInv, StoreTypes
<1>2. StoreTypes'
  BY <1>1 DEF IInv, StoreTypes, Searchable
<1>3. InStep'
  BY <1>1 DEF IInv, InStep, Busy, Unsaved
<1>4. Synced' /\ DOMAIN docs \cup Unsaved \subseteq (DOMAIN docs \cup Unsaved)'
  BY <1>1 DEF Synced, Unsaved
<1> QED
  BY <1>2, <1>3, <1>4, WritesKeepIterator

\* An update of Elasticsearch is seen at once with syncUpdates.
LEMMA EsUpdateStep ==
  ASSUME IInv, Writing, NEW d \in LinkID, NEW doc \in Document, EsUpdate(d, doc)
  PROVE  IInv'
<1>1. /\ kind # "memory" /\ kind' = kind /\ docs' = Put(docs, d, doc)
      /\ kind = "esSync" => indexed' = docs'
      /\ kind # "esSync" => indexed' = indexed
      /\ mutex' = mutex /\ writing' = writing /\ torn' = torn
  BY DEF EsUpdate, Writing
<1>2. /\ DOMAIN docs' = DOMAIN docs \cup {d} /\ docs'[d] = doc
      /\ \A x \in DOMAIN docs : x # d => docs'[x] = docs[x]
  BY <1>1 DEF Put
<1>3. DOMAIN docs' \subseteq LinkID /\ \A x \in DOMAIN docs' : docs'[x] \in Document
  BY <1>2 DEF IInv, StoreTypes
<1>4. StoreTypes'
  BY <1>1, <1>3 DEF IInv, StoreTypes, Searchable
<1>5. InStep' /\ Synced'
  BY <1>1 DEF IInv, InStep, Synced
<1> QED
  BY <1>1, <1>4, <1>5, WritesKeepIterator

\* A refresh lets searches see what was stored.
LEMMA EsRefreshStep ==
  ASSUME IInv, Writing, EsRefresh
  PROVE  IInv'
<1>1. /\ kind = "es" /\ kind' = kind /\ indexed' = docs /\ docs' = docs
      /\ mutex' = mutex /\ writing' = writing /\ torn' = torn
  BY DEF EsRefresh, Writing
<1>2. StoreTypes'
  BY <1>1 DEF IInv, StoreTypes, Searchable
<1>3. InStep' /\ Synced'
  BY <1>1 DEF InStep, Synced
<1> QED
  BY <1>1, <1>2, <1>3, WritesKeepIterator

\* Every step of a write keeps the invariant.
LEMMA WritesStep ==
  ASSUME IInv, Writing, Writes
  PROVE  IInv'
<1>1. ASSUME NEW d \in LinkID, NEW m \in BOOLEAN, EsIndex(d, m) PROVE IInv'
  <2>1. [Saved(d) EXCEPT !.matches = m] \in Document
    BY SavedIsDocument DEF IInv, Document
  <2> QED
    BY <1>1, <2>1, EsUpdateStep DEF EsIndex, MakeEsDoc
<1>2. ASSUME NEW d \in LinkID, NEW r \in Score, EsUpdateScore(d, r) PROVE IInv'
  <2>1. [Saved(d) EXCEPT !.rank = r] \in Document
    BY SavedIsDocument DEF IInv, Document
  <2> QED
    BY <1>2, <2>1, EsUpdateStep DEF EsUpdateScore
<1>3. CASE \E d \in LinkID, m \in BOOLEAN :
             (\E r \in Score \cup {0} : IndexInBleve(d, m, r)) \/ EsIndex(d, m)
  BY <1>1, <1>3, IndexInBleveStep
<1>4. CASE \E d \in LinkID, r \in Score : ScoreStores(d, r) \/ EsUpdateScore(d, r)
  BY <1>2, <1>4, ScoreStoresStep
<1> QED
  BY <1>3, <1>4, IndexStoresStep, ScoreInBleveStep, ScoreFailsStep, EsRefreshStep DEF Writes

-----------------------------------------------------------------------------
(* Reads preserve the invariant.                                           *)

\* What Next adds to a step of the iterator.
Reading ==
  /\ UNCHANGED <<store, kind>>
  /\ quiet' = (itPc = "idle" \/ (quiet /\ indexed' = indexed))

\* A step of the iterator preserves what is said of the store.
LEMMA ReadsKeepStore ==
  ASSUME IInv, Reading, IteratorTypes', HitsAreKnown', HitsAreThere', itPc' # "idle", OnCourse'
  PROVE  IInv'
<1>1. StoreTypes' /\ InStep' /\ Synced'
  BY DEF IInv, Reading, store, StoreTypes, Searchable, InStep, Synced, Busy, Unsaved
<1>2. AtStart' /\ quiet' \in BOOLEAN
  BY DEF AtStart, Reading
<1> QED
  BY <1>1, <1>2 DEF IInv

\* The hits that a search returns are of the documents that it sees.
LEMMA FetchReturns ==
  ASSUME IInv, Reading, NEW first \in Nat, Fetch(first)
  PROVE  /\ from' = first /\ hits' = Page(first) /\ total' = Counted /\ rsIdx' = 0
         /\ hits' \in Seq(LinkID) /\ Len(hits') \in 0..BatchSize /\ total' \in Nat
         /\ HitsAreKnown'
         /\ Ranking' = Ranking /\ Counted' = Counted /\ Page(from)' = Page(first)
<1>1. from' = first /\ hits' = Page(first) /\ total' = Counted /\ rsIdx' = 0
  BY DEF Fetch
<1>2. Searchable
  BY DEF IInv, StoreTypes
<1>3. /\ hits' \in Seq(Matches) /\ hits' \in Seq(LinkID) /\ Len(hits') \in 0..BatchSize
      /\ total' \in Nat
  <2>1. /\ Page(first) \in Seq(Matches) /\ Page(first) \in Seq(LinkID)
        /\ Len(Ranking) \in Nat
        /\ first >= Len(Ranking) => Len(Page(first)) = 0
        /\ first < Len(Ranking) /\ first + BatchSize <= Len(Ranking) => Len(Page(first)) = BatchSize
        /\ first < Len(Ranking) /\ first + BatchSize > Len(Ranking) =>
             Len(Page(first)) = Len(Ranking) - first
    BY <1>2, PageIsPart
  <2>2. Len(Page(first)) \in 0..BatchSize
    BY <2>1, BatchAssumption
  <2> QED
    BY <1>1, <1>2, <2>1, <2>2, CountedIsPart
<1>4. HitsAreKnown'
  <2>1. \A i \in 1..Len(hits') : hits'[i] \in DOMAIN indexed
    BY <1>3, ElementOfSeq DEF Matches
  <2>2. kind = "memory" => DOMAIN indexed \subseteq DOMAIN docs \cup Unsaved
    BY DEF IInv, InStep
  <2> QED
    BY <2>1, <2>2 DEF HitsAreKnown, Reading, store, Unsaved
<1>5. indexed' = indexed /\ kind' = kind
  BY DEF Reading, store
<1>6. Ranking' = Ranking /\ Counted' = Counted
  BY <1>5, SameRanking
<1>7. Page(from)' = Page(first)
  BY <1>1, <1>6 DEF Page
<1> QED
  BY <1>1, <1>3, <1>4, <1>6, <1>7

\* The iterator begins with the page at its offset.
LEMMA OpenStep ==
  ASSUME IInv, Reading, NEW o \in Nat, Open(o)
  PROVE  IInv'
<1>1. /\ itPc = "idle" /\ Fetch(o) /\ cumIdx' = o /\ offset' = o /\ itPc' = "open"
      /\ lastErr' = lastErr /\ seen' = seen
  BY DEF Open
<1>2. /\ from' = o /\ hits' = Page(o) /\ total' = Counted /\ rsIdx' = 0
      /\ hits' \in Seq(LinkID) /\ Len(hits') \in 0..BatchSize /\ total' \in Nat
      /\ HitsAreKnown'
      /\ Ranking' = Ranking /\ Counted' = Counted /\ Page(from)' = Page(o)
  BY <1>1, FetchReturns
<1>3. IteratorTypes'
  BY <1>1, <1>2 DEF IInv, IteratorTypes
<1>4. SubSeq(Ranking, o + 1, o) = <<>>
  BY SubSeqEmpty
<1>5. OnCourse'
  BY <1>1, <1>2, <1>4 DEF IInv, AtStart, OnCourse
<1> QED
  BY <1>1, <1>2, <1>3, <1>5, ReadsKeepStore DEF IInv, HitsAreThere

\* Where OnCourse holds and a page is used up, there is another one, it is full
\* and the next one starts where it ends.
LEMMA NextPage ==
  ASSUME IInv, AtPageEnd, quiet, lastErr = "none"
  PROVE  /\ cumIdx = from + BatchSize /\ cumIdx < Counted /\ offset <= cumIdx
         /\ Len(Page(cumIdx)) > 0
<1>1. /\ hits = Page(from) /\ total = Counted /\ offset <= from
      /\ cumIdx = from + rsIdx /\ cumIdx < total /\ rsIdx = Len(hits)
  BY DEF AtPageEnd, IInv, OnCourse
<1>2. Searchable /\ from \in Nat /\ cumIdx \in Nat /\ offset \in Nat /\ BatchSize \in Nat \ {0}
  BY BatchAssumption DEF IInv, StoreTypes, IteratorTypes
<1>3. Len(Ranking) \in Nat /\ Counted \in Nat /\ Counted <= Len(Ranking)
  BY <1>2, CountedIsPart
<1>4. /\ from >= Len(Ranking) => Len(Page(from)) = 0
      /\ from < Len(Ranking) /\ from + BatchSize <= Len(Ranking) => Len(Page(from)) = BatchSize
      /\ from < Len(Ranking) /\ from + BatchSize > Len(Ranking) => Len(Page(from)) = Len(Ranking) - from
  BY <1>2, PageIsPart
<1>5. /\ cumIdx = from + BatchSize /\ cumIdx < Len(Ranking) /\ offset <= cumIdx
      /\ cumIdx < Counted
  BY <1>1, <1>2, <1>4, <1>3
<1>6. /\ cumIdx + BatchSize <= Len(Ranking) => Len(Page(cumIdx)) = BatchSize
      /\ cumIdx + BatchSize > Len(Ranking) => Len(Page(cumIdx)) = Len(Ranking) - cumIdx
  <2>1. /\ cumIdx < Len(Ranking) /\ cumIdx + BatchSize <= Len(Ranking) =>
             Len(Page(cumIdx)) = BatchSize
        /\ cumIdx < Len(Ranking) /\ cumIdx + BatchSize > Len(Ranking) =>
             Len(Page(cumIdx)) = Len(Ranking) - cumIdx
    BY <1>2, PageIsPart
  <2> QED
    BY <1>5, <2>1
<1> QED
  BY <1>2, <1>5, <1>6, <1>3

\* Next gets the page after one that is used up, which begins where that ended.
LEMMA NextFetchesStep ==
  ASSUME IInv, Reading, NextFetches
  PROVE  IInv'
<1> DEFINE first == from + BatchSize
<1>1. /\ AtPageEnd /\ itPc = "open" /\ Fetch(first)
      /\ itPc' = IF hits' = <<>> THEN "panic" ELSE "take"
      /\ cumIdx' = cumIdx /\ lastErr' = lastErr /\ offset' = offset /\ seen' = seen
  BY DEF NextFetches, AtPageEnd
<1>2. first \in Nat
  BY BatchAssumption DEF IInv, IteratorTypes
<1> HIDE DEF first
<1>3. /\ from' = first /\ hits' = Page(first) /\ total' = Counted /\ rsIdx' = 0
      /\ hits' \in Seq(LinkID) /\ Len(hits') \in 0..BatchSize /\ total' \in Nat
      /\ HitsAreKnown'
      /\ Ranking' = Ranking /\ Counted' = Counted /\ Page(from)' = Page(first)
  BY <1>1, <1>2, FetchReturns
<1>4. hits' # <<>> <=> Len(hits') > 0
  BY <1>3, EmptySeq
<1>5. IteratorTypes'
  BY <1>1, <1>2, <1>3, <1>4 DEF IInv, IteratorTypes
<1>6. OnCourse'
  <2> SUFFICES ASSUME quiet', lastErr' = "none", itPc' # "closed" PROVE OnCourse'
    BY DEF OnCourse
  <2>1. quiet /\ lastErr = "none"
    BY <1>1 DEF Reading
  <2>2. /\ cumIdx = first /\ cumIdx < Counted /\ offset <= cumIdx
        /\ Len(Page(cumIdx)) > 0
    BY <1>1, <2>1, NextPage DEF first
  <2>3. itPc' = "take"
    BY <1>1, <1>3, <1>4, <2>2
  <2>4. seen = SubSeq(Ranking, offset + 1, cumIdx)
    BY <1>1, <2>1 DEF IInv, OnCourse
  <2>5. Counted \in Nat /\ cumIdx = first + 0 /\ cumIdx <= Counted
    BY <1>2, <2>2, CountedIsPart DEF IInv, StoreTypes
  <2> QED
    BY <1>1, <1>3, <2>2, <2>3, <2>4, <2>5 DEF OnCourse
<1> QED
  BY <1>1, <1>3, <1>5, <1>6, ReadsKeepStore DEF IInv, HitsAreThere

\* Next takes the hit that it is at.
LEMMA TakeStep ==
  ASSUME IInv, Reading, AtHit, Take
  PROVE  IInv'
<1>1. /\ rsIdx' = rsIdx + 1 /\ cumIdx' = cumIdx + 1 /\ seen' = Append(seen, Hit)
      /\ itPc' = "open" /\ itPc \in {"take", "open"}
      /\ from' = from /\ hits' = hits /\ total' = total /\ lastErr' = lastErr /\ offset' = offset
  BY DEF Take, AtHit
<1>2. /\ hits \in Seq(LinkID) /\ Len(hits) \in Nat /\ rsIdx \in Nat /\ rsIdx < Len(hits)
      /\ Hit \in LinkID
  <2>1. hits \in Seq(LinkID) /\ Len(hits) \in Nat /\ rsIdx \in Nat /\ rsIdx < Len(hits)
    BY LenProperties DEF IInv, IteratorTypes, AtHit
  <2>2. rsIdx + 1 \in 1..Len(hits)
    BY <2>1
  <2> QED
    BY <2>1, <2>2, ElementOfSeq DEF Hit
<1>3. IteratorTypes'
  <2>1. seen' \in Seq(LinkID)
    BY <1>1, <1>2, AppendProperties DEF IInv, IteratorTypes
  <2> QED
    BY <1>1, <1>2, <2>1 DEF IInv, IteratorTypes
<1>4. OnCourse'
  <2> SUFFICES ASSUME quiet', lastErr' = "none" PROVE OnCourse'
    BY DEF OnCourse
  <2>1. quiet /\ lastErr = "none"
    BY <1>1 DEF Reading
  <2>2. /\ hits = Page(from) /\ total = Counted
        /\ offset <= from /\ cumIdx < total
        /\ cumIdx = from + rsIdx
        /\ seen = SubSeq(Ranking, offset + 1, cumIdx)
    BY <1>1, <2>1 DEF IInv, OnCourse, AtHit
  <2>3. /\ from \in Nat /\ offset \in Nat /\ cumIdx \in Nat /\ Searchable
        /\ indexed' = indexed /\ kind' = kind /\ total \in Nat
    BY DEF IInv, IteratorTypes, StoreTypes, Reading, store
  <2>4. /\ from + (rsIdx + 1) <= Len(Ranking)
        /\ Hit = Ranking[from + (rsIdx + 1)] /\ Len(Ranking) \in Nat
    <3>1. rsIdx + 1 \in 1..Len(Page(from))
      BY <1>2, <2>2
    <3> QED
      BY <2>2, <2>3, <3>1, PageIsPart DEF Hit
  <2>5. from + (rsIdx + 1) = cumIdx + 1
    BY <1>2, <2>2, <2>3
  <2>6. Hit = Ranking[cumIdx + 1] /\ cumIdx + 1 <= Len(Ranking)
    BY <2>4, <2>5
  <2>7. Append(seen, Hit) = SubSeq(Ranking, offset + 1, cumIdx + 1)
    <3>1. Ranking \in Seq(Matches)
      BY <2>3, RankingSorts
    <3>2. offset + 1 \in 1..Len(Ranking) /\ cumIdx + 1 \in (offset + 1)..Len(Ranking)
      BY <1>2, <2>2, <2>3, <2>4, <2>6
    <3>3. PICK m : m = offset + 1
      OBVIOUS
    <3>4. PICK n : n = cumIdx + 1
      OBVIOUS
    <3>5. SubSeq(Ranking, m, n) = SubSeq(Ranking, m, cumIdx) \o <<Ranking[n]>>
      <4>1. m \in 1..Len(Ranking) /\ n \in m..Len(Ranking)
        BY <3>2, <3>3, <3>4
      <4>2. SubSeq(Ranking, m, n) = SubSeq(Ranking, m, n - 1) \o <<Ranking[n]>>
        BY <3>1, <4>1, SubSeqRecursiveSecond
      <4>3. n - 1 = cumIdx
        BY <2>3, <3>4
      <4> QED
        BY <4>2, <4>3
    <3>6. seen \in Seq(LinkID)
      BY DEF IInv, IteratorTypes
    <3> QED
      BY <1>2, <2>2, <2>6, <3>3, <3>4, <3>5, <3>6, AppendIsConcat
  <2>8. Ranking' = Ranking /\ Counted' = Counted /\ Page(from)' = Page(from)
    BY <1>1, <2>3, SameRanking
  <2>9. cumIdx + 1 = from + (rsIdx + 1) /\ cumIdx + 1 <= total
    BY <2>2, <2>3, <2>5
  <2> QED
    BY <1>1, <2>2, <2>7, <2>8, <2>9 DEF OnCourse
<1>5. HitsAreKnown' /\ HitsAreThere'
  BY <1>1 DEF IInv, HitsAreKnown, HitsAreThere, Reading, store, Unsaved
<1> QED
  BY <1>1, <1>3, <1>4, <1>5, ReadsKeepStore

\* The hit is there when findByID has the mutex.
LEMMA NextTakesStep ==
  ASSUME IInv, Reading, NextTakes
  PROVE  IInv'
<1>1. kind = "memory" /\ AtHit /\ FindByID(Hit) /\ mutex = "free"
  BY DEF NextTakes, FindByID
<1>2. rsIdx + 1 \in 1..Len(hits)
  <2>1. Len(hits) \in Nat /\ rsIdx \in Nat /\ rsIdx < Len(hits)
    BY <1>1, LenProperties DEF IInv, IteratorTypes, AtHit
  <2> QED
    BY <2>1
<1>3. Hit \in DOMAIN docs
  BY <1>1, <1>2 DEF IInv, HitsAreKnown, Unsaved, Hit
<1> QED
  BY <1>1, <1>3, TakeStep DEF FindByID

\* The steps that end the iteration.
LEMMA EndsStep ==
  ASSUME IInv, Reading, NextEnds \/ NextFails \/ Close \/ EsClose
  PROVE  IInv'
<1>1. /\ hits' = hits /\ total' = total /\ rsIdx' = rsIdx /\ offset' = offset /\ seen' = seen
      /\ itPc # "idle" /\ itPc' \in {"done", "closed", "panic"}
      /\ from' \in Nat /\ cumIdx' \in Nat
      /\ lastErr' \in {lastErr, "search"}
  BY BatchAssumption DEF NextEnds, NextFails, AtPageEnd, Close, EsClose, IInv, IteratorTypes
<1>2. IteratorTypes' /\ HitsAreThere'
  BY <1>1 DEF IInv, IteratorTypes, HitsAreThere
<1>3. HitsAreKnown'
  BY <1>1 DEF IInv, HitsAreKnown, Reading, store, Unsaved
<1>4. OnCourse'
  <2> SUFFICES ASSUME quiet', lastErr' = "none", itPc' # "closed" PROVE OnCourse'
    BY DEF OnCourse
  <2>1. NextEnds /\ quiet /\ lastErr = "none"
    BY <1>1 DEF NextFails, Close, EsClose, NextEnds, Reading
  <2>2. /\ itPc = "open" /\ itPc' = "done" /\ cumIdx >= total
        /\ from' = from /\ cumIdx' = cumIdx
    BY <2>1 DEF NextEnds
  <2>3. Ranking' = Ranking /\ Counted' = Counted /\ Page(from)' = Page(from)
    BY <2>2, SameRanking DEF Reading, store, IInv, IteratorTypes
  <2> QED
    BY <1>1, <2>1, <2>2, <2>3 DEF IInv, OnCourse
<1> QED
  BY <1>1, <1>2, <1>3, <1>4, ReadsKeepStore

\* Every step of an iterator keeps the invariant.
LEMMA ReadsStep ==
  ASSUME IInv, Reading, Reads
  PROVE  IInv'
<1>1. CASE \E o \in Offset : Search(o) \/ EsSearch(o)
  BY <1>1, OpenStep, DocsAssumption DEF Search, EsSearch
<1>2. CASE EsNextTakes
  BY <1>2, TakeStep DEF EsNextTakes
<1> QED
  BY <1>1, <1>2, EndsStep, NextFetchesStep, NextTakesStep DEF Reads

-----------------------------------------------------------------------------
(* The documents are what the calls made of them.                          *)

\* The document doc has what the last calls of Index and UpdateScore gave d.
IsCalled(d, doc) ==
  /\ doc.matches <=> d \in DOMAIN lastText /\ lastText[d]
  /\ d \in DOMAIN lastScore => doc.rank = lastScore[d]

\* So have the documents of the map, and that which Index has yet to store.
AsCalled ==
  /\ DOMAIN docs \cup Unsaved = DOMAIN lastText \cup DOMAIN lastScore
  /\ \A d \in DOMAIN docs \ Unsaved : IsCalled(d, docs[d])
  /\ mutex = "index" => IsCalled(writing[1], writing[2])

\* A document is updated in the map by one of the two calls, which keeps what it
\* has from the other.
LEMMA UpdateAsCalled ==
  ASSUME AsCalled, NEW d \in LinkID, NEW doc, mutex = "free", mutex' # "index",
         docs' = Put(docs, d, doc),
         \/ \E m \in BOOLEAN : /\ lastText' = Put(lastText, d, m) /\ lastScore' = lastScore
                               /\ doc.matches = m /\ doc.rank = Saved(d).rank
         \/ \E r \in Score : /\ lastScore' = Put(lastScore, d, r) /\ lastText' = lastText
                             /\ doc.rank = r /\ doc.matches = Saved(d).matches
  PROVE  AsCalled'
<1>1. /\ DOMAIN docs' = DOMAIN docs \cup {d} /\ docs'[d] = doc
      /\ \A x \in DOMAIN docs : x # d => docs'[x] = docs[x]
  BY DEF Put
<1>2. /\ Unsaved = {} /\ Unsaved' = {}
      /\ DOMAIN docs = DOMAIN lastText \cup DOMAIN lastScore
      /\ \A x \in DOMAIN docs : IsCalled(x, docs[x])
  BY DEF AsCalled, Unsaved
<1>3. d \notin DOMAIN docs => Saved(d).matches = FALSE
  BY DEF Saved
<1>4. d \in DOMAIN docs => Saved(d) = docs[d]
  BY DEF Saved
<1>5. ASSUME NEW m \in BOOLEAN, lastText' = Put(lastText, d, m), lastScore' = lastScore,
             doc.matches = m, doc.rank = Saved(d).rank
      PROVE  AsCalled'
  <2>1. /\ DOMAIN lastText' = DOMAIN lastText \cup {d} /\ lastText'[d] = m
        /\ \A x \in DOMAIN lastText : x # d => lastText'[x] = lastText[x]
    BY <1>5 DEF Put
  <2>2. ASSUME NEW x \in DOMAIN docs' PROVE IsCalled(x, docs[x])'
    BY <1>1, <1>2, <1>4, <1>5, <2>1 DEF IsCalled
  <2> QED
    BY <1>1, <1>2, <1>5, <2>1, <2>2 DEF AsCalled
<1>6. ASSUME NEW r \in Score, lastScore' = Put(lastScore, d, r), lastText' = lastText,
             doc.rank = r, doc.matches = Saved(d).matches
      PROVE  AsCalled'
  <2>1. /\ DOMAIN lastScore' = DOMAIN lastScore \cup {d} /\ lastScore'[d] = r
        /\ \A x \in DOMAIN lastScore : x # d => lastScore'[x] = lastScore[x]
    BY <1>6 DEF Put
  <2>2. ASSUME NEW x \in DOMAIN docs' PROVE IsCalled(x, docs[x])'
    BY <1>1, <1>2, <1>3, <1>4, <1>6, <2>1 DEF IsCalled
  <2> QED
    BY <1>1, <1>2, <1>6, <2>1, <2>2 DEF AsCalled
<1> QED
  BY <1>5, <1>6

\* Every write keeps them so.
LEMMA WritesAsCalled ==
  ASSUME IInv, AsCalled, Writing, Writes
  PROVE  AsCalled'
<1>1. ASSUME NEW d \in LinkID, NEW m \in BOOLEAN, NEW r \in Score \cup {0},
             IndexInBleve(d, m, r)
      PROVE  AsCalled'
  <2>1. /\ mutex = "free" /\ mutex' = "index" /\ docs' = docs /\ lastScore' = lastScore
        /\ writing'[1] = d /\ writing'[2].matches = m
        /\ d \in DOMAIN docs => writing'[2].rank = docs[d].rank
        /\ lastText' = Put(lastText, d, m)
    BY <1>1 DEF IndexInBleve, Lock
  <2>2. /\ DOMAIN lastText' = DOMAIN lastText \cup {d} /\ lastText'[d] = m
        /\ \A x \in DOMAIN lastText : x # d => lastText'[x] = lastText[x]
    BY <2>1 DEF Put
  <2>3. (DOMAIN docs \cup Unsaved = DOMAIN lastText \cup DOMAIN lastScore)'
    BY <2>1, <2>2 DEF AsCalled, Unsaved
  <2>4. ASSUME NEW x \in DOMAIN docs, x # d PROVE IsCalled(x, docs[x])'
    BY <2>1, <2>2, <2>4 DEF AsCalled, IsCalled, Unsaved
  <2>5. IsCalled(writing[1], writing[2])'
    BY <2>1, <2>2 DEF AsCalled, IsCalled, Unsaved
  <2> QED
    BY <2>1, <2>3, <2>4, <2>5 DEF AsCalled, Unsaved
<1>2. CASE IndexStores
  <2>1. /\ mutex = "index" /\ mutex' = "free" /\ UNCHANGED <<lastText, lastScore>>
        /\ DOMAIN docs' = DOMAIN docs \cup {writing[1]} /\ docs'[writing[1]] = writing[2]
        /\ \A x \in DOMAIN docs : x # writing[1] => docs'[x] = docs[x]
    BY <1>2 DEF IndexStores, Unlock, calls, Put
  <2>2. IsCalled(writing[1], writing[2]) /\ Unsaved = {writing[1]} /\ Unsaved' = {}
    BY <2>1 DEF AsCalled, Unsaved
  <2>3. ASSUME NEW x \in DOMAIN docs' PROVE IsCalled(x, docs[x])'
    BY <2>1, <2>2 DEF AsCalled, IsCalled
  <2> QED
    BY <2>1, <2>2, <2>3 DEF AsCalled
<1>3. ASSUME NEW d \in LinkID, NEW r \in Score,
             ScoreStores(d, r) \/ EsUpdateScore(d, r)
      PROVE  AsCalled'
  <2> DEFINE doc == [Saved(d) EXCEPT !.rank = r]
  <2>1. /\ docs' = Put(docs, d, doc) /\ lastScore' = Put(lastScore, d, r)
        /\ lastText' = lastText /\ mutex = "free" /\ mutex' # "index"
    BY <1>3 DEF ScoreStores, Lock, EsUpdateScore, EsUpdate, IInv, StoreTypes
  <2>2. doc.rank = r /\ doc.matches = Saved(d).matches
    BY SavedIsDocument DEF IInv, Document
  <2> HIDE DEF doc
  <2> QED
    BY <2>1, <2>2, UpdateAsCalled
<1>4. ASSUME NEW d \in LinkID, NEW m \in BOOLEAN, EsIndex(d, m)
      PROVE  AsCalled'
  <2> DEFINE doc == MakeEsDoc(d, m)
  <2>1. /\ docs' = Put(docs, d, doc) /\ lastText' = Put(lastText, d, m)
        /\ lastScore' = lastScore /\ mutex = "free" /\ mutex' # "index"
    BY <1>4 DEF EsIndex, EsUpdate, IInv, StoreTypes
  <2>2. doc.matches = m /\ doc.rank = Saved(d).rank
    BY SavedIsDocument DEF MakeEsDoc, IInv, Document
  <2> HIDE DEF doc
  <2> QED
    BY <2>1, <2>2, UpdateAsCalled
<1>5. CASE ScoreInBleve \/ ScoreFails \/ EsRefresh
  BY <1>5 DEF ScoreInBleve, ScoreFails, EsRefresh, Unlock, calls, AsCalled, IsCalled, Unsaved
<1> QED
  BY <1>1, <1>2, <1>3, <1>4, <1>5 DEF Writes

-----------------------------------------------------------------------------
(* The theorems.                                                           *)

\* The invariant holds, whatever is indexed, rescored and searched in whatever
\* order, and whatever fails.
THEOREM Invariance == Spec => []IInv
<1>1. Init => IInv
  <2> SUFFICES ASSUME Init PROVE IInv
    OBVIOUS
  <2>1. <<>> \in Seq(LinkID) /\ Len(<<>>) = 0
    BY EmptySeq
  <2>2. docs = <<>> /\ indexed = <<>> /\ DOMAIN docs = {} /\ DOMAIN indexed = {}
    BY DEF Init
  <2>3. StoreTypes /\ InStep /\ Synced
    BY <2>2 DEF Init, StoreTypes, Searchable, InStep, Synced, Busy, Unsaved
  <2>4. IteratorTypes /\ HitsAreKnown /\ HitsAreThere /\ AtStart /\ OnCourse
    BY <2>1, BatchAssumption DEF Init, IteratorTypes, HitsAreKnown, HitsAreThere, AtStart, OnCourse
  <2> QED
    BY <2>3, <2>4 DEF Init, IInv
<1>2. IInv /\ [Next]_vars => IInv'
  <2> SUFFICES ASSUME IInv, [Next]_vars PROVE IInv'
    OBVIOUS
  <2>1. CASE Writing /\ Writes
    BY <2>1, WritesStep
  <2>2. CASE Reading /\ Reads
    BY <2>2, ReadsStep
  <2>3. CASE UNCHANGED vars
    <3>1. UNCHANGED <<kind, docs, indexed, mutex, writing, torn, quiet>> /\ UNCHANGED iterator
      BY <2>3 DEF vars, store
    <3>2. StoreTypes' /\ InStep' /\ Synced' /\ quiet' \in BOOLEAN
      BY <3>1 DEF IInv, StoreTypes, Searchable, InStep, Synced, Busy, Unsaved
    <3>3. IteratorTypes' /\ HitsAreKnown' /\ HitsAreThere' /\ AtStart'
      BY <3>1 DEF IInv, iterator, IteratorTypes, HitsAreKnown, HitsAreThere, AtStart, Unsaved
    <3>4. Ranking' = Ranking /\ Counted' = Counted /\ Page(from)' = Page(from)
      BY <3>1, SameRanking DEF iterator, IInv, IteratorTypes
    <3>5. OnCourse'
      BY <3>1, <3>4 DEF IInv, iterator, OnCourse
    <3> QED
      BY <3>2, <3>3, <3>5 DEF IInv
  <2> QED
    BY <2>1, <2>2, <2>3 DEF Next, Terminated, Writing, Reading
<1> QED
  BY <1>1, <1>2, PTL DEF Spec

\* While no method holds the mutex, the documents have the text of the last Index
\* and the score of the last UpdateScore; and a search in memory finds and ranks
\* them, but for those that a failing UpdateScore left torn, as it does in
\* Elasticsearch with syncUpdates.
THEOREM SearchesAgree == Spec => []SearchAgreesWithDocs
<1>1. IInv /\ AsCalled => SearchAgreesWithDocs
  <2> SUFFICES ASSUME IInv, AsCalled PROVE SearchAgreesWithDocs
    OBVIOUS
  <2>1. TypeOK
    BY DEF IInv, StoreTypes, Searchable, IteratorTypes, TypeOK
  <2>2. mutex = "free" =>
          /\ DOMAIN docs = DOMAIN lastText \cup DOMAIN lastScore
          /\ \A d \in DOMAIN docs :
               /\ docs[d].matches <=> d \in DOMAIN lastText /\ lastText[d]
               /\ d \in DOMAIN lastScore => docs[d].rank = lastScore[d]
    BY DEF AsCalled, IsCalled, Unsaved
  <2>3. CASE kind = "esSync"
    BY <2>1, <2>3, <2>2 DEF IInv, Synced, SearchAgreesWithDocs
  <2>4. CASE kind = "memory"
    BY <2>1, <2>4, <2>2 DEF IInv, InStep, Busy, Unsaved, SearchAgreesWithDocs
  <2>5. CASE kind = "es"
    BY <2>1, <2>2, <2>5 DEF SearchAgreesWithDocs
  <2> QED
    BY <2>1, <2>3, <2>4, <2>5 DEF TypeOK
<1>2. Init => AsCalled
  BY DEF Init, AsCalled, Unsaved
<1>3. IInv /\ AsCalled /\ [Next]_vars => AsCalled'
  <2> SUFFICES ASSUME IInv, AsCalled, [Next]_vars PROVE AsCalled'
    OBVIOUS
  <2>1. CASE Writing /\ Writes
    BY <2>1, WritesAsCalled
  <2>2. CASE UNCHANGED store
    BY <2>2 DEF store, calls, AsCalled, IsCalled, Unsaved
  <2> QED
    BY <2>1, <2>2 DEF Next, Terminated, Writing, vars
<1> QED
  BY <1>1, <1>2, <1>3, Invariance, PTL DEF Spec

\* Next never misses a hit in the map, although it searches without the mutex.
THEOREM HitsAreAlwaysThere == Spec => []HitsAreThere
<1>1. IInv => HitsAreThere
  BY DEF IInv
<1> QED
  BY <1>1, Invariance, PTL

\* An iteration that nothing disturbs yields the matches from the offset on, in
\* order and each once, across any number of pages of any size.
THEOREM IterationsAreComplete == Spec => []CompleteWhenQuiet
<1>1. IInv => CompleteWhenQuiet
  <2> SUFFICES ASSUME IInv, quiet, lastErr = "none", itPc \notin {"idle", "closed"}
               PROVE  /\ itPc # "panic"
                      /\ Len(seen) <= Len(Wanted)
                      /\ \A i \in 1..Len(seen) : seen[i] = Wanted[i]
                      /\ itPc = "done" => seen = Wanted
    BY DEF CompleteWhenQuiet
  <2>1. /\ itPc # "panic" /\ total = Counted
        /\ offset <= from /\ (cumIdx = offset \/ cumIdx <= Counted)
        /\ cumIdx = from + rsIdx
        /\ seen = SubSeq(Ranking, offset + 1, cumIdx)
        /\ itPc = "done" => cumIdx >= Counted
    BY DEF IInv, OnCourse
  <2>2. /\ offset \in Nat /\ cumIdx \in Nat /\ Searchable /\ offset <= cumIdx
    BY <2>1 DEF IInv, IteratorTypes, StoreTypes
  <2>3. /\ Counted \in 0..Len(Ranking) /\ Len(Ranking) \in Nat
        /\ \A i \in 1..Len(Ranking) : Ranking[i] \in Matches
    BY <2>2, CountedIsPart, RankingSorts, ElementOfSeq
  <2>4. CASE cumIdx <= Counted
    <3>1. /\ Len(seen) = cumIdx - offset
          /\ \A i \in 1..(cumIdx - offset) : seen[i] = Ranking[offset + i]
      BY <2>1, <2>2, <2>3, <2>4, PartOfRanking
    <3>2. /\ Len(Wanted) = Counted - offset
          /\ \A i \in 1..(Counted - offset) : Wanted[i] = Ranking[offset + i]
      BY <2>2, <2>3, <2>4, PartOfRanking DEF Wanted
    <3>3. itPc = "done" => seen = Wanted
      BY <2>1, <2>2, <2>3, <2>4 DEF Wanted
    <3>4. Len(seen) <= Len(Wanted)
      BY <2>2, <2>3, <2>4, <3>1, <3>2
    <3>5. ASSUME NEW i \in 1..Len(seen) PROVE seen[i] = Wanted[i]
      <4>1. i \in 1..(cumIdx - offset) /\ i \in 1..(Counted - offset)
        BY <2>2, <2>3, <2>4, <3>1
      <4> QED
        BY <3>1, <3>2, <4>1
    <3> QED
      BY <2>1, <3>3, <3>4, <3>5
  <2>5. CASE cumIdx > Counted
    <3>1. cumIdx = offset /\ Counted < offset + 1 /\ cumIdx < offset + 1
      BY <2>1, <2>2, <2>3, <2>5
    <3>2. seen = <<>> /\ Wanted = <<>>
      BY <2>1, <2>2, <2>3, <3>1, SubSeqEmpty DEF Wanted
    <3>3. Len(seen) = 0 /\ Len(Wanted) = 0
      BY <3>2, EmptySeq
    <3>4. Len(seen) <= Len(Wanted) /\ \A i \in 1..Len(seen) : seen[i] = Wanted[i]
      BY <3>3
    <3> QED
      BY <2>1, <3>2, <3>4
  <2> QED
    BY <2>2, <2>3, <2>4, <2>5
<1> QED
  BY <1>1, Invariance, PTL
=============================================================================
