----------------------------- MODULE MCC6Temporal -----------------------------
(* The Temporal lease adapter for TLC; and the processes that act on governed *)
(* stores over several calls: the delivery dispatcher, and of the memory      *)
(* plane promotion, retrieval, embeddings and the operations on its           *)
(* inventory.  They share no state, so a behaviour follows one of them.       *)
EXTENDS C6Temporal, DeliveryRunner, MemoryPromotion, MemoryRetrieval, MemoryEmbeddings,
        MemoryOperations, TLC

CONSTANTS l1, l2, a1

\* One lease that expires, and one for the epoch and the token that come after
\* the first.
MCActionOf == [l \in Leases |-> a1]
MCIssued == [l \in Leases |-> 0]
MCExpires == l1 :> 1 @@ l2 :> 2
MCEpochOf == l1 :> 0 @@ l2 :> 1
MCTokenOf == l1 :> 1 @@ l2 :> 2

\* Two tasks that own one area, and one that depends on the first.
MCHard == [t1 |-> {}, t2 |-> {}, t3 |-> {"t1"}]
MCGate == [t1 |-> 0, t2 |-> 0, t3 |-> 0]
MCAreas == [t1 |-> {"x"}, t2 |-> {"x"}, t3 |-> {"y"}]

\* Four versions, two of them with one score and three from one source.
MCPartOf == [v \in 1 .. 4 |-> IF v = 4 THEN "q" ELSE "p"]
MCIndexScore == <<4, 3, 3, 1>>
MCRelevance == <<4, 3, 2, 4>>
MCSourceOf == <<"s", "s", "t", "s">>
MCBlockSize == <<1, 2, 1, 1>>

\* The stale version of an item ranks first.
MCRanking == <<<<1, 1>>, <<2, 1>>, <<1, 2>>>>

\* Room for one item more, with one item that nobody writes or with a tombstone.
MCPresent == {1 :> "ACTIVE", 1 :> "DELETED" @@ 2 :> "ACTIVE"}
MCWritable == "w1" :> {3} @@ "w2" :> {2}
MCMoved == {<<1, "MOVED">>, <<1, "DELETED">>, <<2, "MOVED">>, <<3, "LEGAL_HOLD">>}
MCServed == "w1" :> {} @@ "w2" :> {"pressure", "backup"}

VARIABLE focus

memories == <<promotionVars, retrievalVars, embeddingVars, operationVars>>

MCInit ==
    /\ focus \in {"lease", "delivery", "promotion", "retrieval", "embeddings", "inventory"}
    /\ TInit /\ DeliveryInit /\ PromotionInit /\ RetrievalInit /\ EmbeddingInit /\ OperationInit
    /\ focus # "retrieval" => permitted = Versions
    /\ focus # "delivery" => max_retries = 1
    /\ focus # "inventory" => state[1] = "ACTIVE"

MCNext ==
    /\ UNCHANGED focus
    /\ \/ focus = "lease" /\ TNext /\ UNCHANGED <<deliveryVars, memories>>
       \/ focus = "delivery" /\ DeliveryNext /\ UNCHANGED <<tvars, memories>>
       \/ focus = "promotion" /\ PromotionNext
            /\ UNCHANGED <<tvars, deliveryVars, retrievalVars, embeddingVars, operationVars>>
       \/ focus = "retrieval" /\ RetrievalNext
            /\ UNCHANGED <<tvars, deliveryVars, promotionVars, embeddingVars, operationVars>>
       \/ focus = "embeddings" /\ EmbeddingNext
            /\ UNCHANGED <<tvars, deliveryVars, promotionVars, retrievalVars, operationVars>>
       \/ focus = "inventory" /\ OperationNext
            /\ UNCHANGED <<tvars, deliveryVars, promotionVars, retrievalVars, embeddingVars>>

MCSpec == MCInit /\ [][MCNext]_<<focus, tvars, deliveryVars, memories>>
===============================================================================
