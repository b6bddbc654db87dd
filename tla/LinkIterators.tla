--------------------------- MODULE LinkIterators ---------------------------
(***************************************************************************)
(* A client that reads the whole link graph, or all its edges, partition   *)
(* by partition and with an iterator for each, as the test suites of the   *)
(* stores do, while graph updaters write to it.  A scan of one partition   *)
(* is what a crawl reads its links with.                                   *)
(*                                                                         *)
(* A row is known by what it is about: <<id>> for a link and <<src, dst>>  *)
(* for an edge.  What a call of Links or Edges lists stays listed, though  *)
(* it is written again or removed before the iterator comes to it; what    *)
(* the row then holds is left out.                                         *)
(***************************************************************************)
EXTENDS LinkGraph, Sequences

CONSTANTS
  Base,   \* how many values a byte has
  Weight, \* what the first byte of a UUID counts: Base to the number of the others
  Tokens, \* what UUIDs can be drawn, by the order of drawing
  Parts   \* into how many partitions a client divides a scan

MaxUUID == Base * Weight - 1

\* Random UUIDs are neither the Nil one nor the greatest: their version is 4.
ASSUME UUIDAssumption ==
  /\ Base \in Nat \ {0, 1} /\ Weight \in Nat \ {0}
  /\ \A t \in Tokens : /\ 1..Cardinality(Url) \subseteq DOMAIN t
                        /\ \A k \in DOMAIN t : t[k] \in 1..(MaxUUID - 1)
ASSUME PartsAssumption == Parts \subseteq 1..MaxUUID

VARIABLES
  reader,    \* where the client is
  query,     \* what it reads, the UUIDs of the links, how many partitions
  partition, \* the one it is at
  before,    \* retrievedBefore or updatedBefore of this partition
  rows,      \* what its iterator has yet to yield
  seen,      \* what the scan has yielded
  lost,      \* history: a connection broke while rows were read
  due        \* history: rows that were there before the scan and did not change

scanVars == <<reader, query, partition, before, rows, seen, lost, due>>
allVars  == <<vars, scanVars>>

NoQuery == [of |-> "none", token |-> <<>>, parts |-> 1]

ScanInit ==
  /\ Init
  /\ reader = "idle" /\ query = NoQuery
  /\ partition = 0 /\ before = 0
  /\ rows = {}
  /\ seen = {} /\ lost = FALSE /\ due = {}

Stored(of) == IF of = "links" THEN [r \in {<<k>> : k \in DOMAIN links} |-> links[r[1]].at]
                              ELSE edges

-----------------------------------------------------------------------------
(* partitionRange.                                                         *)

PartSize(n) == MaxUUID \div n

\* The ends of a partition.  (Mutated: the last one ends where it would if the
\* range were divisible.)
FromId(n, p) == IF p = 0 THEN 0 ELSE PartSize(n) * p
ToIdDivided(n, p) == PartSize(n) * (p + 1)
ToId(n, p)   == IF p = n - 1 THEN MaxUUID ELSE PartSize(n) * (p + 1)

\* uuid.FromBytes takes all the bytes, and big.Int.Bytes has no leading zeros.
HasAllBytes(v) == v >= Weight

RangeFails(n, p) ==
  \/ p # 0     /\ ~HasAllBytes(PartSize(n) * p)
  \/ p # n - 1 /\ ~HasAllBytes(PartSize(n) * (p + 1))

-----------------------------------------------------------------------------
(* The client.                                                             *)

ScanBegins(q) ==
  /\ reader = "idle"
  /\ runs < MaxRuns /\ runs' = runs + 1
  /\ reader' = "open" /\ query' = q
  /\ before' = now
  /\ due' = {r \in DOMAIN Stored(q.of) : Stored(q.of)[r] < now}
  /\ UNCHANGED <<now, store, pc, process, todo, ids, olderThan, touched, alone>>
  /\ UNCHANGED <<partition, rows, seen, lost>>

\* The rows that the call of Links or Edges selects.
Selected ==
  LET there == Stored(query.of) IN
  {r \in DOMAIN there :
     /\ query.token[r[1]] >= FromId(query.parts, partition)
     /\ query.token[r[1]] < ToId(query.parts, partition)
     /\ there[r] < before}

Open ==
  /\ reader = "open"
  /\ ~RangeFails(query.parts, partition)
  /\ reader' = "next"
  /\ rows' = Selected
  /\ UNCHANGED <<vars, query, partition, before, seen, lost, due>>

\* The scan is over; the client closes its iterators and forgets about it.
Leave ==
  /\ reader' = "over" /\ query' = NoQuery
  /\ partition' = 0 /\ before' = 0
  /\ rows' = {}
  /\ seen' = {} /\ lost' = FALSE /\ due' = {}
  /\ UNCHANGED vars

\* partitionRange has no UUID to return, and the client gives up.
OpenFails ==
  /\ reader = "open"
  /\ RangeFails(query.parts, partition)
  /\ Leave

\* Next returns true, and the client takes the row.
Yield(r) ==
  /\ reader = "next" /\ r \in rows
  /\ rows' = rows \ {r}
  /\ seen' = seen \cup {r}
  /\ UNCHANGED <<vars, reader, query, partition, before, lost, due>>

\* Next returns false.
NextPartition ==
  /\ reader = "next" /\ rows = {}
  /\ partition < query.parts - 1
  /\ reader' = "open" /\ partition' = partition + 1 /\ before' = now
  /\ UNCHANGED <<vars, query, rows, seen, lost, due>>

ScanEnds ==
  /\ reader = "next" /\ rows = {}
  /\ partition = query.parts - 1
  /\ Leave

\* The connection to the database breaks: rows.Next returns false, and as the
\* iterator does not ask rows.Err, it has no error either.
ConnectionBreaks ==
  /\ CanFail
  /\ reader = "next"
  /\ rows # {}
  /\ rows' = {}
  /\ lost' = TRUE
  /\ UNCHANGED <<vars, reader, query, partition, before, seen, due>>

\* A query or the Scan of a row fails, which the client is told.
ReadFails ==
  /\ CanFail
  /\ reader \in {"open", "next"}
  /\ Leave

\* Somebody writes; what changes is due no more.
Write ==
  /\ Next
  /\ UNCHANGED <<reader, query, partition, before, rows, seen, lost>>
  /\ LET there == Stored(query.of) IN
     due' = {r \in due : r \in DOMAIN Stored(query.of)' /\ Stored(query.of)'[r] = there[r]}

Queries == [of : {"links", "edges"}, token : Tokens, parts : Parts]

Read ==
  \/ \E q \in Queries : ScanBegins(q)
  \/ Open
  \/ OpenFails
  \/ \E r \in rows : Yield(r)
  \/ NextPartition
  \/ ScanEnds
  \/ ConnectionBreaks
  \/ ReadFails

ScanNext == Write \/ Read

ScanSpec == ScanInit /\ [][ScanNext]_allVars

-----------------------------------------------------------------------------
(* Properties.                                                             *)

\* Whoever writes meanwhile, a scan over fewer partitions than a byte has values
\* yields nothing twice, and when it ends it has yielded each link or edge that
\* was there, unchanged, from its beginning - unless the connection broke, which
\* the client cannot tell.
ScanIsExact ==
  [][/\ rows' \cap seen = {}
     /\ OpenFails => query.parts >= Base
     /\ ScanEnds /\ ~lost => due \subseteq seen]_allVars
=============================================================================
