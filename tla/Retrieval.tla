------------------------------ MODULE Retrieval ------------------------------
(***************************************************************************)
(* rag.RAG over one of the vector stores (vectorstore/psql, qdrant,        *)
(* weaviate): ingestions that embed and store the chunks of a source in    *)
(* batches, the collection they make sure of, Clear, and the queries.      *)
(*                                                                         *)
(* A point is a chunk, the ingestion that made it, and which copy of it    *)
(* this is: its ID is a fresh UUID, so that a chunk stored again is one    *)
(* more point.  How near a point is to a query is not modelled: a search   *)
(* may return any of those that match, as many as it is asked for.         *)
(***************************************************************************)
EXTENDS PayloadFilter, FiniteSetsExt

CONSTANTS Ingestions,   \* the calls that store chunks: Ingest, IngestOnce or Save
          SourceChunks, \* how many chunks the source has
          EmbedBatch,   \* WithBatchSize of the RAG
          StoreBatch,   \* WithBatchSize of the store
          ChunkPayload, \* each chunk's metadata
          Conditions,
          TopK,
          MaxStoreFaults, MaxStoreClears

\* A store's batch size of 0 or less is no limit.
ASSUME RetrievalConstants ==
    /\ SourceChunks \in Nat /\ EmbedBatch \in Nat \ {0} /\ StoreBatch \in Int /\ TopK \in Nat
    /\ \A c \in Conditions : ValidCondition(c) /\ SupportedCondition(c)

VARIABLES
    kind,       \* which store it is
    collection, \* whether the collection exists
    points,
    refused,    \* the chunks that Weaviate refused in its answers, which nobody reads: history
    ensureDone, \* RAG.ensureDone
    clearing,   \* where weaviate's Clear is: "no", "deleted", or "failed" after it had deleted
    ingestion,  \* where each ingestion is
    intact,     \* those that no Clear has touched: history
    storeFaults, storeClears

ragVars == <<kind, collection, points, refused, ensureDone, clearing, ingestion, intact, storeFaults, storeClears>>

RagInit ==
    /\ kind \in {"psql", "qdrant", "weaviate"}
    /\ collection = FALSE /\ points = {} /\ refused = {}
    /\ ensureDone = FALSE /\ clearing = "no"
    /\ ingestion = [i \in Ingestions |-> [at |-> "new"]]
    /\ intact = {}
    /\ storeFaults = 0 /\ storeClears = 0

StoreFault == storeFaults < MaxStoreFaults /\ storeFaults' = storeFaults + 1

Moves(i, to) == ingestion' = [ingestion EXCEPT ![i].at = to]

\* Save stores the conversation as one chunk.
Chunks(i) == IF ingestion[i].how = "save" THEN 1 ELSE SourceChunks

-----------------------------------------------------------------------------
(* Ingest, IngestOnce, Memory.Save *)

BeginIngestion(i) ==
    /\ ingestion[i].at = "new"
    /\ \E how \in {"ingest", "once", "save"} :
           ingestion' = [ingestion EXCEPT ![i] = [at |-> "ensure", how |-> how, stored |-> 0, upTo |-> 0]]
    /\ intact' = intact \cup {i}
    /\ UNCHANGED <<kind, collection, points, refused, ensureDone, clearing, storeFaults, storeClears>>

\* RAG.ensureCollection, under its lock: only a success is remembered.
EnsureCollection ==
    /\ ensureDone' = TRUE
    /\ collection' = (collection \/ ~ensureDone)

Ensure(i) ==
    /\ ingestion[i].at = "ensure"
    /\ \/ /\ EnsureCollection
          /\ Moves(i, IF ingestion[i].how = "once" THEN "count" ELSE "split")
          /\ UNCHANGED storeFaults
       \/ /\ ~ensureDone /\ StoreFault
          /\ collection' \in {collection, TRUE}
          /\ Moves(i, "failed")
          /\ UNCHANGED ensureDone
    /\ UNCHANGED <<kind, points, refused, clearing, intact, storeClears>>

\* A query makes sure of the collection too, and changes nothing else.
QueryEnsures ==
    /\ ~ensureDone /\ EnsureCollection
    /\ UNCHANGED <<kind, points, refused, clearing, ingestion, intact, storeFaults, storeClears>>

\* IngestOnce counts, before and apart from what it then ingests.
Count(i) ==
    /\ ingestion[i].at = "count"
    /\ Moves(i, IF ~collection THEN "failed" ELSE IF points # {} THEN "skipped" ELSE "split")
    /\ UNCHANGED <<kind, collection, points, refused, ensureDone, clearing, intact, storeFaults, storeClears>>

BatchEnd(i) == Min({ingestion[i].stored + EmbedBatch, Chunks(i)})

\* Variant: the batch is not emptied when it has been stored.
BatchFrom_Kept(i) == 0

BatchFrom(i) == ingestion[i].stored

\* The splitter yields a batch, which is embedded, or ends; either may fail.
NextBatch(i) ==
    /\ ingestion[i].at = "split"
    /\ \/ /\ BatchEnd(i) > ingestion[i].stored
          /\ ingestion' = [ingestion EXCEPT ![i].at = "upsert", ![i].stored = BatchFrom(i),
                                                   ![i].upTo = BatchEnd(i)]
          /\ UNCHANGED storeFaults
       \/ BatchEnd(i) = ingestion[i].stored /\ Moves(i, "done") /\ UNCHANGED storeFaults
       \/ StoreFault /\ Moves(i, "failed")
    /\ UNCHANGED <<kind, collection, points, refused, ensureDone, clearing, intact, storeClears>>

\* What one request stores: PostgreSQL has a transaction for all of Upsert's points.
RequestEnd(i) ==
    IF kind = "psql" \/ StoreBatch <= 0 THEN ingestion[i].upTo
    ELSE Min({ingestion[i].stored + StoreBatch, ingestion[i].upTo})

\* uuid.New: no point that is stored has the ID.
Copies(i, n) == Cardinality({p \in points : p.by = i /\ p.chunk = n})

RequestPoints(i) ==
    {[by |-> i, chunk |-> n, copy |-> Copies(i, n)] : n \in ingestion[i].stored + 1 .. RequestEnd(i)}

\* The objects of a request that Weaviate may refuse, each for itself, in an answer whose
\* objects upsertBatch drops.
Refusals(i) == IF kind = "weaviate" THEN SUBSET RequestPoints(i) ELSE {{}}

\* Upsert's next request, which may fail, done or not; Weaviate makes a class that it lacks.
Upsert(i) ==
    /\ ingestion[i].at = "upsert"
    /\ \/ /\ collection \/ kind = "weaviate"
          /\ collection' = TRUE
          /\ \E left \in Refusals(i) :
                 /\ points' = points \cup (RequestPoints(i) \ left)
                 /\ refused' = refused \cup left
                 /\ \/ /\ ingestion' = [ingestion EXCEPT ![i].stored = RequestEnd(i),
                              ![i].at = IF RequestEnd(i) = ingestion[i].upTo THEN "split" ELSE "upsert"]
                       /\ IF left = {} THEN UNCHANGED storeFaults ELSE StoreFault
                    \/ StoreFault /\ Moves(i, "failed")
       \/ /\ IF collection THEN StoreFault ELSE UNCHANGED storeFaults
          /\ Moves(i, "failed")
          /\ UNCHANGED <<collection, points, refused>>
    /\ UNCHANGED <<kind, ensureDone, clearing, intact, storeClears>>

-----------------------------------------------------------------------------
(* Clear *)

\* The delete, which may fail, done or not; Weaviate's is of the class.
ClearCollection ==
    /\ storeClears < MaxStoreClears /\ clearing # "deleted"
    /\ storeClears' = storeClears + 1
    /\ \/ /\ points' = {} /\ refused' = {} /\ intact' = {}
          /\ collection' = (collection /\ kind # "weaviate")
          /\ clearing' = IF kind = "weaviate" THEN "deleted" ELSE "no"
          /\ UNCHANGED storeFaults
       \/ /\ StoreFault
          /\ UNCHANGED <<points, refused, intact, collection, clearing>>
       \/ /\ kind = "weaviate" /\ StoreFault
          /\ points' = {} /\ refused' = {} /\ intact' = {}
          /\ collection' = FALSE /\ clearing' = "failed"
    /\ UNCHANGED <<kind, ensureDone, ingestion>>

\* Weaviate's Clear makes the class again.
Recreate ==
    /\ clearing = "deleted"
    /\ \/ collection' = TRUE /\ clearing' = "no" /\ UNCHANGED storeFaults
       \/ StoreFault /\ clearing' = "failed" /\ UNCHANGED collection
    /\ UNCHANGED <<kind, points, refused, ensureDone, ingestion, intact, storeClears>>

RagNext ==
    \/ \E i \in Ingestions :
           BeginIngestion(i) \/ Ensure(i) \/ Count(i) \/ NextBatch(i) \/ Upsert(i)
    \/ QueryEnsures \/ ClearCollection \/ Recreate

RagSpec == RagInit /\ [][RagNext]_ragVars

-----------------------------------------------------------------------------
(* Query *)

\* What a point's payload says for the condition's key; what Save stores has no metadata.
ValueOf(p, c) == IF ingestion[p.by].how = "save" THEN NoValue ELSE ValueFor(c.key, ChunkPayload[p.chunk])

AtMost(n, from) == kSubset(Min({n, Cardinality(from)}), from)

\* weaviate.overfetchFactor: the candidates it filters itself.
OverfetchFactor == 4

\* The results Query may return.
Results(c) ==
    IF kind = "weaviate"
    THEN UNION {AtMost(TopK, {p \in fetched : MatchCondition(c, ValueOf(p, c))}) :
                    fetched \in AtMost(TopK * OverfetchFactor, points)}
    ELSE AtMost(TopK, {p \in points : IF kind = "psql" THEN SqlMatches(c, ValueOf(p, c))
                                      ELSE QdrantMatches(c, ValueOf(p, c))})

-----------------------------------------------------------------------------
(* Properties *)

StoredBy(i) == {p.chunk : p \in {q \in points : q.by = i}}
RefusedOf(i) == {p.chunk : p \in {q \in refused : q.by = i}}

\* Whatever runs at the same time, no chunk of an ingestion is stored twice, and those it
\* stored are the first of its source, up to where it failed, and all of them when it
\* succeeded: none is left out but those that Weaviate refused, and psql and Qdrant
\* refuse none for itself.  Those a Clear may have removed are not looked at (rag.Ingest,
\* the stores' Upsert).
IngestsInOrder ==
    /\ \A p, q \in points : p.by = q.by /\ p.chunk = q.chunk => p = q
    /\ \A i \in intact :
           LET reached == StoredBy(i) \cup RefusedOf(i)
           IN  /\ reached = 1 .. Cardinality(reached)
               /\ StoredBy(i) \cap RefusedOf(i) = {}
               /\ ingestion[i].at = "done" => reached = 1 .. Chunks(i)
    /\ kind # "weaviate" => refused = {}

\* What a store takes for a match: MatchPayload's, "the reference filter semantics", but
\* for Qdrant's of a value on which translateFilter departs from it.
MeansMatch(c, v) ==
    IF kind = "qdrant" /\ QdrantDeparts(c, v) THEN ~MatchCondition(c, v) ELSE MatchCondition(c, v)

\* PostgreSQL and Weaviate return points that match as MatchPayload says, of whatever
\* payloads; Qdrant does but for those of QdrantDeparts, all of which it takes otherwise.
\* Each returns as many as there are, up to the limit; Weaviate's may miss some when it
\* has more points than it fetches (Query, translateFilter, filterSQL).  Where no point is
\* stored there is nothing to return.
QueriesAgree ==
    points # {} => \A c \in Conditions :
        LET matching == {p \in points : MeansMatch(c, ValueOf(p, c))}
        IN  \A found \in Results(c) :
                /\ found \subseteq matching
                /\ Cardinality(found) = Min({TopK, Cardinality(matching)})
                   \/ (kind = "weaviate" /\ Cardinality(points) > TopK * OverfetchFactor)
=============================================================================
