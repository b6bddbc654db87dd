# Verification of the crawler, pipeline and graph packages

TLA+ models, TLC runs and TLAPS proofs for this repository: a concurrent
pipeline library (`Chapter07/pipeline`), a crawler built on it
(`Chapter07/crawler`), the link graph and text index it writes to (`Chapter06`)
and a bulk-synchronous graph processor (`Chapter08/bspgraph`).

`PROJECT.json` lists components, runs, mutants, the lines each definition
models, hazards, findings and theorems in machine-readable form.

## 1. The system

| Component | State | Operations | Interacts with |
|---|---|---|---|
| Pipeline (`pipeline.go`) | unbuffered `stageCh`, `errCh` of capacity stages + 2, a derived context | `Process`: one goroutine per stage, a source, a sink, a closer; the caller ranges over `errCh` | stages through channels, callbacks `Source`, `Sink`, `Processor` |
| FIFO, fixed pool (`stage.go:20-77`) | a goroutine each, the payload it holds | receive, process, send, each under `select` with the context | the two channels of the stage, `errCh` |
| Dynamic pool (`stage.go:84-130`) | `tokenPool` | a goroutine per payload, tokens bound how many | the same; outlives its `Run` |
| Broadcast (`stage.go:136-190`) | private channels, one FIFO per branch | fan out clones, then the original | the same |
| Retrying processor (`interfaces.go:22`) | none | a retry loop around a processor | wraps a `Processor`; unused so far |
| BSP graph (`bspgraph/graph.go`) | vertices with two message queues each, superstep counter, `pendingInStep`, `errCh` of capacity 1 | `AddVertex`, `SendMessage`, `step`, `Reset`, `Close`, worker goroutines | compute functions, queues, aggregators, relayer |
| Executor (`executor.go`) | none of its own; writes `g.superstep` | `NewExecutor`, `RunSteps`, `RunToCompletion` | the graph, client callbacks |
| Accumulators (`aggregator/accumulator.go`) | `curSum`, `prevSum` | `Set`, `Aggregate`, `Delta`, lock-free | goroutines of the compute functions |
| In-memory link graph (`store/memory`) | links by ID and by URL, edges by ID and by source | `UpsertLink`, `FindLink`, `UpsertEdge`, `RemoveStaleEdges`, `Links`, `Edges` | graph updater, link source |
| CockroachDB link graph (`store/cdb`) | two SQL tables | the same | the same; a clock of its own |
| Graph updater (`crawler/graph_updater.go`) | locals of one call | upserts a page, its links and edges, removes stale edges | link graph |
| Crawler assembly, source, sink (`crawler.go`) | a count | composes fetcher, extractors, broadcast | pipeline |
| Fetcher, extractors, indexer | none | HTTP, regular expressions, indexing | payloads, text index |
| Payload pool (`payload.go`) | `sync.Pool` | `Clone`, `MarkAsProcessed` | every stage |
| Text indexes (`textindexer/store`) | bleve index and document map; Elasticsearch | `Index`, `FindByID`, `Search`, `UpdateScore`, batching iterators | text indexer |
| Test suites, example program | - | - | - |

What is hard here: goroutines that select between a channel and a cancelled
context; channels closed by one goroutine while others send; errors that race
with shutdown; payloads that are recycled; a barrier built on one atomic
counter; double buffering by the parity of a counter that several parties
write; lock-free loops over two words; two clocks that are compared. Section 7
names the properties that guard each; `hazards` in `PROJECT.json` gives lines.

## 2. Modules

| Module | Models |
|---|---|
| `PipelineCore` | What all pipelines share: source, sink, channels, `errCh`, closer, `Process` |
| `Pipeline` | `PipelineCore` with FIFO and fixed-pool stages, any number of each |
| `PipelineContract` | Abstract: what `Process` promises, without goroutines or channels |
| `DynamicPool` | `PipelineCore` with one dynamic pool, panics included |
| `Broadcast` | `PipelineCore` with one broadcast stage |
| `BspGraph` | Graph, workers, queues and executor |
| `Pregel` | Abstract: supersteps with an inbox and an outbox per vertex |
| `Accumulator` | Both accumulators, one atomic operation per step |
| `LinkStore` | The link graph: what each call of a store does |
| `LinkGraph` | Concurrent graph updaters that write to it |
| `LinkIterators` | A client that reads it by partitions, with iterators, meanwhile |
| `TextIndex` | Both text indexes and the iterators over their search results |
| `Crawler` | `Crawl` as a whole: source, stages, broadcast, sink, payload pool, stores |
| `PipelineProof`, `DynamicPoolProof`, `BroadcastProof`, `BspGraphProof`, `AccumulatorProof`, `LinkGraphProof`, `TextIndexProof`, `CrawlerProof` | The theorems about the module of that name (`LinkGraphProof`: about `LinkStore`, `LinkGraph` and `LinkIterators`; `BspGraphProof`: with `Pregel`) |
| `MC*` | Instances for TLC: model values, functions, symmetry |

### Pipelines

A goroutine is in one of the states of its `select` loop (`pc`) and holds at
most one payload (`held`). A payload is the rank at which the source produced
it; 0 is none. A send on an unbuffered channel and its receive are one step
(`Transfer`). A `select` is a choice between the enabled steps, so
cancellation can win against a ready channel, as in Go. Callbacks (`Next`,
`Process`, `Consume`) return with any result. A source may record an error at
any call of `Next`, whether it returns true or false. `Expire` is the caller's
context ending, at any time. `MarkAsProcessed` puts the payload into `marked`:
from then on somebody else may own it.

`DynamicPool` represents a token in the pool by an idle worker. Since `Run`
does not wait for its goroutines, these can meet closed channels; such a send
panics, `crashed` becomes true and nothing moves any more. The panic is an
outcome and not a property: what is checked is what holds in spite of it.

`Broadcast` numbers the copies: the original is branch 0's, a clone is fresh.

### BSP graph

A message is represented by the execution of the superstep in which it ought
to be processed (one more than the one that sends it), which makes "delivered
in the next superstep" a statement about the queues. `round` counts executions
and is history; `superstep` is the program's counter, whose parity chooses the
buffer. The compute function is any program that reads, sends, freezes and
returns with or without an error. Client calls (`Reset`, `Close`,
`NewExecutor`, runs) happen between runs, `AddVertex` also in the callbacks of
the executor. `Reset` may fail at a queue (`ResetFails`), with the counter
already 0 and the vertices still there; so may the one that `Close` ends with
(`CloseFails`).

Three legal uses make the counter lose step with the buffers: running again
after a run that ended with the step it had executed not counted (an error, or
`PostStepKeepRunning`),
a new executor for a graph in mid-computation, and a reset that failed there.
The history `resumed` says that one of them happened since the last reset.
`NextSuperstep` then still says that a message is never early; that it is also
not late, and that the graph refines `Pregel`, is promised of steps before.
`Pregel` is the abstract model, so `ImplementsPregel` allows any step that ends
`resumed` and the `Pregel` steps otherwise. The refinement mapping is the five
operators `Inbox`, `Outbox`, `Phase`, `Untested` and `Computing`.

The relayer, vertex and edge values, the aggregator map and messages sent by
callbacks between supersteps are not modelled.

### Accumulators

`isFloat`, chosen at the start, says which of the two accumulators it is. A
value is one of `Modulus` machine words; arithmetic wraps. Each load, add and
compare-and-swap is a step. The plain loads of `IntAccumulator.Set` are single
64-bit loads and are modelled like the atomic ones. Of floating point only the
rounding is left out.

Three histories say what the calls did, whatever became of the fields: `added`
sums every change of `curSum`; `aggregated` sums the `Aggregate`s since a `Set`
last replaced `curSum`; `returned` sums what `Delta` returned since a `Set` last
returned. `DeltasAddUp` compares the last two with the fields.

### Link graph

Every call of the store is one step: the in-memory store holds its mutex, the
SQL store runs one statement. Edges are identified by their ends. `now` is the
crawler's clock; `StoreLag` is how far the clock that stamps edges is behind it
(0 for the in-memory store, which uses the same clock). With `CanFail` any call
can fail; a call that had its effect and whose answer was lost is the failure
of the next call, and the model does not list it twice.

`LinkIterators` adds the only reader of ranges that the repository has: the loop
over `partitionRange` of the test suites. Partition bounds are computed with
integers below `Base * Weight`, where a byte has `Base` values and the first
byte of a UUID counts `Weight` (256 and 2^120 in the code), and
`uuid.FromBytes`, which wants every byte, fails where `big.Int.Bytes` drops a
leading zero. IDs stay numbers in the order in which they are drawn, and the
scan chooses which UUIDs they stand for (`Tokens`), as nothing else looks at
their order. The model says which rows an iterator yields and not what they
contain: the in-memory iterators point to the objects of the store, which may
have been written since, and the rows of a SELECT do not, but both yield what
was listed when they were opened. Any number of updaters may write while a scan
is open. A broken connection ends an SQL iterator as if at its end, because
`Rows.Err` is not asked.

### Crawler

`Crawler` composes what the pipeline models show of their stages: a payload has
one owner, so it is a value in the hands of a goroutine (`hand`), which receives
and processes it in one step; the goroutines of a stage are those of
`assembleCrawlerPipeline`. A goroutine that fails returns; `Cancel` is
`Process` cancelling when it has the error; `Quits` is the case of a `select`
that sees the context done, with the payload dropped. Graph updates are one
step here, and what becomes of concurrent ones is `LinkGraph`'s question.

The payload pool is the bag of what the pooled objects contain. `Get` may return
any of them or a new one, as `sync.Pool` may. Contents are abstracted to the
page they come from, so a document with a title or text of another page is
visible. What a page contains (title, base, anchors) is chosen at the start from
`Sites`. Regular expressions, the resolution of relative references, schemes and
fragments are left out; `resolveURL` is modelled as it is, with its inverted
test (section 6, no run is about it). A nil dereference and the index into an
empty href end the program (`ExtractionCrashes`).

### Text index

`kind`, chosen at the start, says which index it is: in memory, or Elasticsearch
with or without `syncUpdates`. `docs` is what was stored and `indexed` what
searches see; the histories `lastText` and `lastScore` are what the last `Index`
and the last `UpdateScore` of each document were called with, and neither of
them is computed from the other two. In memory these are the map and bleve, and
`Index` and `UpdateScore` write them one after the other (in opposite orders)
while they hold the mutex; `FindByID` waits for the mutex, a page of the
iterator does not. `Index` keeps the rank of a document that is there and gives
a new one the rank of the caller. In Elasticsearch `indexed` follows `docs` at
the write or at a refresh. One query is iterated over, so a document is reduced
to whether it matches and to its rank; equal ranks are ordered by ID, where the
code sorts by `_score`. `Ranking` says which document comes i-th: the match that
has i - 1 matches ahead of it. The total of a search is their number in memory;
the query for Elasticsearch does not set `track_total_hits`, so there it is
`Counted`, no more than `MaxTotal` (10,000 by default). The iterators' `From`,
`cumIdx`, `rsIdx` and `rs` are variables; `Next` is one step, or two when it
fetches a page, because the mutex is taken only for the second. A page without
hits makes `Next` panic, and so does `EsClose` after a search that failed; after
a panic nothing moves. `quiet` is history: nothing that a search sees has
changed since `Search`.

The scoring script of Elasticsearch reads `doc['PageRank'].value` of documents
that may have none; this, the mappings and the requests are left out.

## 3. Runs

| Run | Bounds | Shows |
|---|---|---|
| `pipeline` | pool of 2 + FIFO, 2 payloads, fair | safety and termination of `Process`, refinement of `PipelineContract` |
| `dynamic_pool` | 2 tokens, 2 payloads, fair | safety in spite of orphaned goroutines; tokens return, `Process` returns |
| `dynamic_pool_loss` | 2 tokens, 3 payloads | finding: payloads lost without an error |
| `broadcast` | 2 branches, 2 payloads, fair | ownership, fan-out, order, channels; failure and cancellation stop it |
| `broadcast_hang` | 2 branches, 1 payload, fair | finding: never returns on its own |
| `bsp_graph` | 2 vertices, 2 workers, 3 supersteps, queues of 1, fair | barrier, exactly-once, delivery, errors, refinement of `Pregel`, calls return |
| `accumulator` | both kinds, 3 goroutines of which 1 calls `Set`, 4 calls, words of 4 values, fair | no lost update, deltas add up, calls return |
| `accumulator_delta` | both kinds, 2 goroutines of which 1 calls `Set`, 3 calls, no `Aggregate` | finding: a `Delta` returns what is being set as a change |
| `link_graph` | 2 updaters and a scan, 3 calls, 2 pages, 2 instants, 2 and 4 partitions of 2 bytes in base 4, failing calls | IDs, times, stale edges; scans are exact while both updaters write |
| `text_index` | 4 documents, 1 score, pages of 2, offsets 0 and 1, 5 writes, a total of 3 at most in Elasticsearch, failing calls | documents are as the last calls wrote them and the index agrees; hits are found; undisturbed iterations are complete |
| `text_index_panic` | 3 documents, 4 writes, no failing call | finding: `Next` panics on an empty page |
| `crawler` | 2 links, 2 fetch workers, with and without a panic of the extractor, failures, fair | recycled payloads, the count, every link is done |

Type invariants are part of the first invariant of a run (`Exclusive`,
`Barrier`, `IdsAgree`, `SearchAgreesWithDocs`, `OwnContent`), except in
`pipeline`, where it is proved on its own, and in `accumulator`, where it is part
of the invariant that is proved.

Why the bounds are enough: a pool of two is the smallest in which two goroutines
share a channel, and a FIFO after it the smallest in which a middle channel is
closed by a stage; with two payloads both goroutines of a pool are busy at once,
or one of them while the sink is. Two branches have a clone and an original. Two
workers and two vertices let a vertex be fed, computed and sent to at once; in
two supersteps each buffer is filled in one and read in the other, and the third
can follow a stop that left the counter behind. Four calls let three goroutines
spoil each other's swaps and the sum wrap; one of them at most calls `Set`
(section 6 says why). Three calls are an old version of a page and two
concurrent updates of it, or a scan and two updates: the one that stored what
the scan reads and one during it, or two during it. Two partitions meet in the
middle of the UUIDs, where the tokens are chosen next to the bound and to the
last UUID; with four, as with 256 in the code, a bound has a leading zero byte.
Two links are the least with which a payload object is reused, and one has a
title and the other has none. Three documents fill a page of two and begin
another; the fourth can come to that page between its two writes, and the fifth
write disturbs an iteration or ranks a document before those of lower ID. What
these instances cannot show, the proofs of section 5 do, for every safety
property of every run that passes, within the assumptions that section 5 states
for each.

Each property of a passing run has a mutant in `PROJECT.json`: a version of a
definition with a plausible bug, kept beside it in the module, under which TLC
finds the property violated.

## 4. Fairness

Weak fairness of each goroutine's steps: the Go scheduler is preemptive and
runs every goroutine that can move, and callbacks are assumed to return. No
fairness is assumed of the caller's context, of which select case is chosen
among several that stay enabled, or of the client of the BSP graph. `Process`
therefore terminates because the source of the model is finite, not because the
context ends. In `Accumulator` the number of calls is bounded, so a goroutine
whose swap fails for ever needs another call that never ends.

`Crawler` needs only that while some goroutine can go on one of them does, as
every goroutine has finitely much to do; the spinning of a broadcast stage whose
input is closed is not counted as going on. Nothing is assumed of fetches or
stores but that they return.

## 5. Proofs

Every invariant and every action property of the passing runs is a theorem, and
so are both refinements (`Pipeline` of `PipelineContract`, `BspGraph` of
`Pregel`). They hold for every value of the constants that the `ASSUME`s of the
modules allow and, for the three theorems that have a further assumption
(`StoreLag = 0` twice, one setter), under that. Only `NoLostUpdate` says enough
to be inductive, with the types; each proof module defines an `IInv` that is,
and proves that it holds initially, that every action keeps it (one step per
action), and that it implies the property. Before it was proved, each `IInv` was
checked by TLC with the bounds of section 3. What the invariants add is what
the program relies on without saying so.

**`PipelineProof`**, for any number of stages, workers per stage and payloads:
`TypeCorrect`, `PayloadsAreExclusive`, `ChannelsAreDisciplined`,
`NothingLeaks`, `ErrorsAreReported`, `NoPayloadIsLost` and `Refinement`. A
goroutine holds a payload exactly while it processes or sends; a channel is
closed only when all that feed it are done, and a done goroutine's inputs are
accounted for; errors in `errCh`, in the hands of `Process` or already returned
exist exactly if something failed, because an error is dropped only when the
buffer is full; the context is cancelled only after a failure or at the very
end; without failure or cancellation every payload produced is held or marked.
Assumed: every stage has a worker, the source and the sink are not workers,
every channel number exists.

**`DynamicPoolProof`**, for any number of tokens and payloads:
`HandsAreExclusive`, `AllErrorsReported`, `NothingLostBeforeShutdown`. The
invariant is that of a pipeline without what is false here: the goroutines that
outlive `Run` may send when `stageCh[1]` is closed, so it says of the two
channels only that the source and `Run` have returned when they are closed, and
of a failure only that `errCh` or `Process` has it. That a payload
waiting for a token is still held is what `LostOnlyAtShutdown` needs.

**`BroadcastProof`**, for any number of branches and payloads:
`CopiesAreExclusive`, `ChannelsAreClosedLast`, `NoCopyIsLost`, `BranchesKeepOrder`.
Copies are numbered by branch, and the proof that they keep apart is about
those numbers: what a branch holds lies in its own interval (`RightCopies`),
and along a branch the numbers fall from what it has still to get over what it
holds to what the sink has and what is marked (`InOrder`). Exclusiveness and
order both follow from that.

**`BspGraphProof`**, for any numbers of vertices and workers, supersteps and
messages: `BarrierHolds`, `DueAreComputedOnce`, `MessagesAreOnTime`,
`StepErrorsReported`, `ImplementsPregelModel`. `pendingInStep` is the number of
vertices that are unfed or with a worker that has not counted (`PendingCounts`);
so the one that brings it to zero is the last, and signals alone. What was due
at the beginning of a step is computed or untested, and what is untested has
not changed (`DueAccounted`): nobody but its own worker activates a vertex and
messages go to the other buffer. Every buffer has a bound on the superstep of
its messages, from above whatever the client does (`NeverEarly`), and exactly
while it did not resume (`NeverLateInStep`, `NeverLateBetween`). The refinement
goes action by action; most steps of the workers are stuttering steps.

**`AccumulatorProof`**, for any word size, number of goroutines and calls:
`NoUpdateIsLost`, `DeltasDoAddUp`. The first needs nothing of the locals but their
types, as a swap compares the local with the field before it changes it; the
key lemma is that a difference added again gives the same word, with
wrap-around. The second assumes one goroutine that calls `Set` (`OneSetter`).
Between the two swaps of its `Set` the deltas do not add up, and what the proof
needs then is `SetIsHalfway`: once `Set` has swapped `curSum`, that is the value
set and what was aggregated since, so that the second swap restores the sum.

**`LinkGraphProof`**, for any number of pages, updaters and calls:
`TheIndexesAgree`, `TimesNeverGoBack`, `NoFreshEdgeIsRemoved`,
`PagesAreMirrored`, `ScansAreExact`. There are two invariants. That of the
updaters (`IInv`, proved of `Spec` and of `ScanSpec`) says that IDs are numbered
through and each updater knows its page by the stored ID, that no edge is
stamped later than the store's clock, and what an updater that has its page to
itself will find again of what it did (`Mirror`); the others do not disturb it
because a different page has a different ID. `PlaceInv` adds where the scan is:
every due row whose UUID is below the partition was seen, and no row above, with
any number of updaters at work. `Partitions` is the arithmetic
behind it: the partitions follow each other, reach the greatest UUID, and none
is short of a byte when there are fewer than `Base`.

`NoFreshEdgeIsRemoved` and `PagesAreMirrored` assume `StoreLag = 0`: the clock
that stamps the edges is the one the updaters read. This holds of the in-memory
store, which calls `time.Now` in the same process (`memory.go:87`, `:100`); of
the SQL store it does not, and there the properties are false (section 6). All
other theorems about the link graph hold for any lag.

**`TextIndexProof`**, for any documents, scores, offset and page size:
`SearchesAgree`, `HitsAreAlwaysThere`, `IterationsAreComplete`. A document that
no method is writing is as its last calls wrote it (`AsCalled`). The map and
bleve differ in the document that a method holding the mutex writes and in those
whose `UpdateScore` failed half way (`InStep`); a hit was in bleve when it was
fetched, and so is in the map when `Next` has the mutex, because no document
ever leaves the map (`HitsAreKnown`). An undisturbed iterator is at `cumIdx` of
the ranking that the search saw (`OnCourse`); it gets as far as the index counts
matches, so with more than `MaxTotal` the theorem promises the first `MaxTotal`.
`RankingSorts` shows of the operator `Ranking` what it is for: it lists the
matches, each once, by rank and then by ID. Its lemmas count the matches ahead
of each; that every place is taken is the pigeonhole principle.

**`CrawlerProof`**, for any pages and any number of fetch workers:
`DocumentsAreOwn`, `TheCountIsOfStoredPages`. `ContentInv` says what a payload
contains at each stage, and that the pooled objects are as `MarkAsProcessed`
leaves them, whatever they were before. `FlowInv` says where each link is: in one
place up to the broadcast, and the clone is stored before the original, so that
the pages in the index and those in the graph differ by what the broadcast
holds, and the sink has counted what is stored and not on its way. Assumed, as
the names of the model need it: a fetch worker is none of the other goroutines
(`WorkerAssumption`), and a slot that holds nothing holds no payload
(`NothingAssumption`).

Only model-checked, because fairness and ENABLED are out of the prover's reach:
the liveness properties `Termination`, `TokensReturn`, `Returns`,
`StopsWhenTold`, `CallsReturn` (twice) and `EveryLinkIsDone`.

## 6. Findings

1. `stage.go:97` - a dynamic pool returns before its goroutines: lost payloads
   or a send on a closed channel.
2. `stage.go:160` - `break` in a `select`: a broadcast stage spins for ever once
   its input is closed.
3. `textindexer/store/es/iterator.go:46` and `memory/iterator.go:29` - `Next`
   indexes the first hit of a page it has just fetched, which is empty when
   documents have stopped matching since the page before.
4. `accumulator.go:104` - between the two swaps of a `Set`, `Delta` returns the
   value that is set as a change, although nothing was aggregated (and a `Delta`
   whose two loads are on either side of a `Set` does the same); the comment of
   `Delta` says that it returns the change since it or `Set` was last invoked.

The crawler of `crawler.go:64-77` ends in a broadcast stage, so finding 2 means
that `Crawl` returns only when something fails or its context ends.

Further behaviours that limit what the runs can claim, without a run of their
own:

* `executor.go:101`: a run that was asked to stop does not count its superstep,
  so running on delivers messages late, and a new executor (`executor.go:52`)
  restarts the counter with the same effect when messages wait after an odd
  number of supersteps (`resumed`).
* `pipeline.go:11`: a source error that makes `Next` return false is never
  looked at; `Process` returns nil. `ErrorsReported` is about errors that were
  looked at.
* `cdb.go:18`: edges are stamped by the database and compared with the crawler's
  clock. With a database clock that is behind, fresh edges are deleted: set
  `StoreLag = 1` in `MCLinkGraph.cfg` and `FreshEdgesSurvive` is violated.
* `cdb/iterator.go:15`: `Rows.Err` is never asked, so a scan that broke looks
  complete; `ScanIsExact` and `EveryLinkIsDone` except it. `Close` of the same
  iterators (`:40`) does not close the rows, which keeps their connection if
  the iteration is abandoned; connections are not modelled.
* `graphtest/suite.go:392`: `partitionRange` fails for 256 partitions or more.
* `interfaces.go:27`: the retrying processor, which nothing uses, retries errors
  that are not transient and gives up on those that are.
* `link_extractor.go:26`: `resolveURL` tests `err != nil` where it means
  `err == nil`. Every link that parses is dropped, so pages are stored without
  edges, and one that does not parse is a nil dereference. `Crawler` has it so,
  and its pages have no links to lose.
* Concurrent `Delta`s can return a negative change of a value that only grew,
  because `curSum` is loaded before `prevSum`; what they return still adds up.
* Two concurrent `Set`s can undo each other's pair of swaps for ever;
  `CallsReturn` is therefore checked with one goroutine that calls `Set`. They
  can also both return with `curSum` and `prevSum` apart, when a value comes
  back between a load and a swap: with two setters `DeltasAddUp` is false,
  and so assumes one.
* `es.go:161-180`: the query does not ask for an exact total, so an iteration
  ends after 10,000 documents even if more match.
* `es/iterator.go:25`: `Close` after a search that failed in `Next`
  dereferences a nil result (`EsClose`).

## 7. Hazards and the properties for them

| Hazard | Properties |
|---|---|
| Send on a closed channel, closer too early | `ChannelDiscipline`, `NoGoroutineLeaks` |
| Error lost in shutdown or in a full buffer | `ErrorsReported` |
| Payload used by two, or after recycling | `Exclusive` |
| Payload lost by cancellation | `NothingLost`, `LostOnlyAtShutdown`, `EveryBranchGetsEveryPayload` |
| Everyone blocked in a send | `Termination`, `Returns`, `StopsWhenTold`, `TokensReturn` |
| Reordering | `BranchOrder` |
| Barrier off by one | `Barrier`, `ComputesDueOnce`, `CallsReturn` |
| Wrong message buffer | `NextSuperstep`, `ImplementsPregel` |
| Stale error of an earlier superstep | `ErrorsReported` of `BspGraph` |
| Two words changed one after the other | `NoLostUpdate`, `DeltasAddUp`, `DeltaIsTheChange` |
| Counter out of step with the buffers after a stop, a new executor, a failed reset | `NextSuperstep`, `ImplementsPregel` |
| Iterator that is open while updaters write, partition bounds | `ScanIsExact` |
| Recycled payload with another page's content | `OwnContent` |
| One copy of a payload stored or counted without the other | `CountsWhatIsStored`, `EveryLinkIsDone` |
| Stale edges, equal times on one clock, half an update | `FreshEdgesSurvive`, `MirrorsPage`, `NeverOlder`, `IdsAgree` |
| Two stores written one after the other, one of them failing; an `Index` that overrides a score | `SearchAgreesWithDocs`, `HitsAreThere` |
| Pages by offset over a changing result, off by one at a page's end | `CompleteWhenQuiet`, `NeverPanics` |

No property catches, because the code itself does not tell them from success or
end well: a source that fails in `Next` (`pipeline.go:11`), a scan whose
connection breaks (`cdb/iterator.go:15`), two clocks that differ (`cdb.go:18`),
the inverted test of `resolveURL` (`link_extractor.go:26`), the panic at an empty
href (`:93`) and that of `Close` after a failed search (`es/iterator.go:25`). The
models have all of them; the properties except what follows from them.

## 8. Plan

Done, in this order: `PipelineCore`, `Pipeline` with its contract and proofs,
`DynamicPool`, `Broadcast`, `BspGraph` with `Pregel`, `Accumulator` with its
proofs, `LinkGraph`, `TextIndex`, `LinkIterators`, `Crawler`, resumed runs and
failing resets of `BspGraph`.

Then the proofs, component by component: all safety properties of the passing
runs and the refinement of `Pregel`.

Next, proofs: the safety half of what is left to liveness, where it is not an
`Exclusive` or a `Barrier` already: that a state in which no goroutine can move
is one in which `Process` (`RunSteps`, `Crawl`) has returned, which for
`PipelineCore` and `BspGraph` needs one enabling argument per place a goroutine
can be blocked at.

Next, models: `BspGraph` with messages sent by callbacks between supersteps and
with a relayer.

Not modelled, and why: HTTP and the regular expressions of the extractors
(sequential, no state); Elasticsearch and SQL beyond the effect of one
statement (external services); the retrying processor (a sequential loop that
nothing constructs); the example program; the sequential cases of the test
suites.
