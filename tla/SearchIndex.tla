----------------------------- MODULE SearchIndex -----------------------------
(***************************************************************************)
(* The OpenSearch projection of one snapshot, which every runtime rebuilds  *)
(* as it starts (retire, publish, is_ready) and then searches.  All runtimes*)
(* of a snapshot share one index and nothing coordinates them: each client  *)
(* call is a step of its own, and a bulk request takes effect item by item. *)
(*                                                                          *)
(* A card is a discovery document.  The question matches every card and the *)
(* budget covers them, so what a search misses it misses for a reason here. *)
(***************************************************************************)
EXTENDS Naturals, Sequences, FiniteSets

CONSTANTS
  Runtimes,    \* processes that build an AppRuntime
  Cards,       \* the cards exported from the snapshot
  Admissible,  \* those the recheck and the cap per source leave to the principal
  MaxBuilds,   \* bound of the model: builds of all runtimes together
  None

ASSUME CardAssumption ==
  /\ IsFiniteSet(Cards) /\ Admissible \subseteq Cards
  /\ MaxBuilds \in Nat

VARIABLES
  index,      \* the mapping of the index and the documents in it
  rt,         \* rt[r]: the local variables of AppRuntime.build and of search
  builds,     \* how many builds there have been
  disturbed   \* observed: runtimes whose index another one touched since they started

indexVars == <<index, rt, builds, disturbed>>

NoIndex == [mapping |-> "missing", docs |-> [c \in Cards |-> "none"]]

Idle == [rankings |-> <<>>, status |-> "complete", faulty |-> FALSE]

IndexInit ==
  /\ index = NoIndex
  /\ rt = [r \in Runtimes |-> [pc |-> "off", embeds |-> FALSE,
                               pending |-> {}, failed |-> FALSE, search |-> Idle,
                               outcome |-> None]]
  /\ builds = 0
  /\ disturbed = {}

Goes(r, pc) == rt' = [rt EXCEPT ![r].pc = pc]

\* An exception ends the build; get_runtime may be called again.
Down(r) == Goes(r, "down")

\* The projection of r is no longer the only one's doing.
Disturbs(r) == disturbed' = disturbed \cup (Runtimes \ {r}) /\ UNCHANGED builds

Exists == index.mapping # "missing"

-----------------------------------------------------------------------------
(* AppRuntime.build.                                                         *)

\* The embedder is kept when its health check passes.  Embedding the cards may
\* fail all the same.
ExportCards(r) ==
  /\ rt[r].pc = "off" /\ builds < MaxBuilds
  /\ \E embeds \in BOOLEAN, pc \in {"retire", "down"} :
       /\ pc = "down" => embeds
       /\ rt' = [rt EXCEPT ![r] = [pc |-> pc, embeds |-> embeds, pending |-> Cards,
                   failed |-> FALSE, search |-> Idle, outcome |-> None]]
  /\ builds' = builds + 1
  /\ disturbed' = disturbed \ {r}
  /\ UNCHANGED index

RetireCheck(r) ==
  /\ rt[r].pc = "retire"
  /\ Goes(r, IF Exists THEN "delete" ELSE "publish")
  /\ UNCHANGED <<index, builds, disturbed>>

\* Deleting an index that is gone raises.
RetireDelete(r) ==
  /\ rt[r].pc = "delete"
  /\ IF Exists
       THEN Goes(r, "publish") /\ index' = NoIndex /\ Disturbs(r)
       ELSE Down(r) /\ UNCHANGED <<index, builds, disturbed>>

\* Variant: the first document indexed creates the index.
PublishUnchecked(r) ==
  /\ rt[r].pc = "publish"
  /\ Goes(r, "bulk")
  /\ UNCHANGED <<index, builds, disturbed>>

PublishCheck(r) ==
  /\ rt[r].pc = "publish"
  /\ Goes(r, IF Exists THEN "bulk" ELSE "create")
  /\ UNCHANGED <<index, builds, disturbed>>

\* Creating an index that exists raises.
PublishCreate(r) ==
  /\ rt[r].pc = "create"
  /\ IF Exists
       THEN Down(r) /\ UNCHANGED <<index, builds, disturbed>>
       ELSE /\ Goes(r, "bulk") /\ Disturbs(r)
            /\ index' = [index EXCEPT !.mapping = "declared"]

\* The server handles one item of the bulk request.  When the index was deleted
\* meanwhile it creates one with a mapping it guesses, without a vector field.
BulkItem(r, c) ==
  /\ rt[r].pc = "bulk" /\ c \in rt[r].pending
  /\ \/ /\ rt' = [rt EXCEPT ![r].pending = @ \ {c}]
        /\ index' = [mapping |-> IF Exists THEN index.mapping ELSE "dynamic",
                     docs |-> [index.docs EXCEPT ![c] =
                                 IF rt[r].embeds THEN "embedded" ELSE "plain"]]
        /\ Disturbs(r)
     \/ /\ rt' = [rt EXCEPT ![r].pending = @ \ {c}, ![r].failed = TRUE]
        /\ UNCHANGED <<index, builds, disturbed>>

\* publish raises unless every item of the response is free of errors.
BulkReturns(r) ==
  /\ rt[r].pc = "bulk" /\ rt[r].pending = {}
  /\ Goes(r, IF rt[r].failed THEN "down" ELSE "ready")
  /\ UNCHANGED <<index, builds, disturbed>>

\* Every document of the snapshot is counted.
CountMatches ==
  Cardinality({c \in Cards : index.docs[c] # "none"}) = Cardinality(Cards)

ReadyCheck(r) ==
  /\ rt[r].pc = "ready"
  /\ Goes(r, IF Exists THEN "count" ELSE "down")
  /\ UNCHANGED <<index, builds, disturbed>>

\* Variant: build waits for the documents instead of giving up.
UnreadyWaits == "count"

\* What becomes of a runtime whose index does not hold what it should.
Unready == "down"

\* Counting in an index that is gone raises, which counts as not ready.
ReadyCount(r) ==
  /\ rt[r].pc = "count"
  /\ Goes(r, IF Exists /\ CountMatches THEN "up" ELSE Unready)
  /\ UNCHANGED <<index, builds, disturbed>>

Building == {"retire", "delete", "publish", "create", "bulk", "ready", "count"}

\* OpenSearch cannot be reached, or the request times out: every call raises, and
\* is_ready reports FALSE.
Unreachable(r) ==
  /\ rt[r].pc \in Building
  /\ Down(r)
  /\ UNCHANGED <<index, builds, disturbed>>

BuildStep(r) ==
  \/ ExportCards(r)
  \/ RetireCheck(r) \/ RetireDelete(r)
  \/ PublishCheck(r) \/ PublishCreate(r)
  \/ \E c \in Cards : BulkItem(r, c)
  \/ BulkReturns(r)
  \/ ReadyCheck(r) \/ ReadyCount(r)

-----------------------------------------------------------------------------
(* RetrievalService.search over OpenSearchProvider.search.                   *)

\* The outcome of a search, whose local variables are gone.
Outcome(r, status, candidates) ==
  rt' = [rt EXCEPT ![r].pc = "up", ![r].search = Idle,
                   ![r].outcome = [status |-> status, candidates |-> candidates,
                                   faulty |-> rt[r].search.faulty]]

\* A provider that raises leaves no candidates, and says so.
Fails(r) == Outcome(r, "failed", {})

\* A search that finds the index, embeds the question if it has an embedder, and
\* has its queries ready.  Either may fail first.
SearchBegins(r) ==
  /\ rt[r].pc = "up"
  /\ \/ /\ Exists
        /\ rt' = [rt EXCEPT ![r].pc = "keyword", ![r].outcome = None]
     \/ Fails(r)
  /\ UNCHANGED <<index, builds, disturbed>>

\* Variant: the status is that of the last response.
StatusOfLast(status, timed_out, shards_failed) ==
  IF timed_out THEN "timed_out" ELSE IF shards_failed THEN "partial" ELSE "complete"

\* A timeout prevails; a failed shard makes a complete answer partial.
StatusAfter(status, timed_out, shards_failed) ==
  IF timed_out THEN "timed_out"
  ELSE IF shards_failed /\ status = "complete" THEN "partial" ELSE status

\* The documents a query can find: the vector query needs a vector.
Found(pc) ==
  {c \in Cards : index.docs[c] \in
                   IF pc = "vector" THEN {"embedded"} ELSE {"plain", "embedded"}}

\* An index without the declared mapping has no vector field to search.
Searchable(pc) == Exists /\ (pc = "vector" => index.mapping = "declared")

\* Variant: a query that raises is left out of the fusion.
RaisesSkipped(r) == Goes(r, "fuse")

\* A query that raises ends the search.
Raises(r) == Fails(r)

SearchAnswers(r, timed_out, shards_failed) ==
  LET now == rt[r].search IN
  \E hits \in SUBSET Found(rt[r].pc) :
    /\ ~timed_out /\ ~shards_failed => hits = Found(rt[r].pc)
    /\ rt' = [rt EXCEPT
         ![r].pc = IF @ = "keyword" /\ rt[r].embeds THEN "vector" ELSE "fuse",
         ![r].search = [rankings |-> Append(now.rankings, hits),
                        status |-> StatusAfter(now.status, timed_out, shards_failed),
                        faulty |-> now.faulty \/ timed_out \/ shards_failed]]

\* client.search, once for each query.
Search(r) ==
  /\ rt[r].pc \in {"keyword", "vector"}
  /\ \/ Raises(r)
     \/ /\ Searchable(rt[r].pc)
        /\ \E timed_out, shards_failed \in BOOLEAN :
             SearchAnswers(r, timed_out, shards_failed)
  /\ UNCHANGED <<index, builds, disturbed>>

\* Fusion keeps every document that ranks in any of the answers.
Fused(rankings) == UNION {rankings[i] : i \in DOMAIN rankings}

Answer(r) ==
  /\ rt[r].pc = "fuse"
  /\ Outcome(r, rt[r].search.status, Fused(rt[r].search.rankings) \cap Admissible)
  /\ UNCHANGED <<index, builds, disturbed>>

SearchStep(r) == Search(r) \/ Answer(r)

-----------------------------------------------------------------------------
Statuses == {"complete", "partial", "timed_out", "failed"}

Documents == {"none", "plain", "embedded"}

IndexStates == [mapping : {"missing", "declared", "dynamic"}, docs : [Cards -> Documents]]

Searches == [rankings : Seq(SUBSET Cards), status : Statuses, faulty : BOOLEAN]

Outcomes == [status : Statuses, candidates : SUBSET Cards, faulty : BOOLEAN]

RuntimeStates ==
  [pc : Building \cup {"off", "up", "down", "keyword", "vector", "fuse"},
   embeds : BOOLEAN, pending : SUBSET Cards, failed : BOOLEAN,
   search : Searches, outcome : {None} \cup Outcomes]

IndexTypeOK ==
  /\ index \in IndexStates
  /\ rt \in [Runtimes -> RuntimeStates]
  /\ builds \in 0..MaxBuilds
  /\ disturbed \subseteq Runtimes

\* While no other runtime touches the index, a runtime in service searches what it
\* projected itself, whatever earlier builds left behind, gave up on or let the
\* server guess: each card with a vector exactly if the runtime embeds questions, and
\* a field to search the vectors by.
ServesItsProjection ==
  \A r \in Runtimes \ disturbed :
    rt[r].pc \in {"up", "keyword", "vector", "fuse"} =>
      /\ index.mapping = "declared"
      /\ \A c \in Cards : index.docs[c] = IF rt[r].embeds THEN "embedded" ELSE "plain"

\* A search that met a timeout or a failed shard in either query is never
\* reported as complete, and one that reports no fault met none.
FaultsReported ==
  \A r \in Runtimes :
    LET o == rt[r].outcome IN
    o # None /\ o.status # "failed" => (o.status = "complete" <=> ~o.faulty)

\* While no other runtime touches the index, a complete outcome lists everything
\* the principal may discover: nothing is lost between publishing, readiness, the
\* queries and their fusion.
CompleteListsAll ==
  \A r \in Runtimes \ disturbed :
    LET o == rt[r].outcome IN
    o # None /\ o.status = "complete" => o.candidates = Admissible

\* A runtime that starts to build comes into service or is refused it; retiring
\* and publishing against each other never keeps two of them at it for ever.
BuildsEnd ==
  \A r \in Runtimes : rt[r].pc \in Building ~> rt[r].pc \notin Building
==============================================================================
