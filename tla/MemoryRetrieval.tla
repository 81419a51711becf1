---------------------------- MODULE MemoryRetrieval ----------------------------
(***************************************************************************)
(* MemorySearchService (memory/retrieval.py) and MemoryContextAssembler    *)
(* (memory/context.py): one request at a time, while versions lose their   *)
(* eligibility, the policy withdraws permissions and stops are ordered.    *)
(*                                                                         *)
(* A version is `matching' while it is committed, the head, active and     *)
(* satisfies the query's predicate, which the indexes and the metadata     *)
(* evaluate themselves; `permitted' is the live policy.  Neither comes     *)
(* back to an exact version.  Versions are numbers: the lower one wins a   *)
(* tie, as the lower reference does.  Relevance is a constant of the       *)
(* version: that lexical scores are divided by the best of the pool, and   *)
(* the VECTOR and HYBRID modes, are left out.                              *)
(***************************************************************************)
EXTENDS Naturals, Sequences, FiniteSets, SequencesExt

CONSTANTS
    Versions,           \* the versions in the authorized partitions
    Partitions, PartOf,
    IndexScore,         \* version -> its score in the index
    Relevance,          \* version -> relevance * policy, from the ranking profile
    SourceOf,           \* version -> source_ref
    Penalty,            \* diversity_penalty
    CandidatePool, TopK, MaxCandidates,
    BlockSize, Budget,  \* version -> bytes of its block; max_context_bytes
    MaxStops, MaxChanges    \* bounds on the stops and on the other changes

VARIABLES
    matching, permitted, stops,
    contextDenied,      \* the versions the context policy excludes
    query,              \* the request in progress, if any
    answers,            \* the last answer, if any
    receipt             \* the last context on record, if any

retrievalVars == <<matching, permitted, stops, contextDenied, query, answers, receipt>>

RetrievalInit ==
    /\ matching = Versions /\ permitted \in {Versions, Versions \ {1}}
    /\ stops = 0 /\ contextDenied = {} /\ query = {} /\ answers = {} /\ receipt = {}

Live == matching \cap permitted

Changes ==
    Cardinality(Versions \ matching) + Cardinality(Versions \ permitted) + Cardinality(contextDenied)

GovernanceChanges ==
    /\ \/ /\ Changes < MaxChanges
          /\ \E v \in Versions :
               \/ v \in matching /\ matching' = matching \ {v} /\ UNCHANGED <<permitted, contextDenied>>
               \/ v \in permitted /\ permitted' = permitted \ {v} /\ UNCHANGED <<matching, contextDenied>>
               \/ /\ v \notin contextDenied /\ contextDenied' = contextDenied \cup {v}
                  /\ UNCHANGED <<matching, permitted>>
          /\ UNCHANGED stops
       \/ stops < MaxStops /\ stops' = stops + 1 /\ UNCHANGED <<matching, permitted, contextDenied>>
    /\ UNCHANGED <<query, answers, receipt>>

-------------------------------------------------------------------------------
(* Candidates *)

Ahead(v, w) == IndexScore[v] > IndexScore[w] \/ (IndexScore[v] = IndexScore[w] /\ v < w)
IndexOrder(S) == SetToSortSeq(S, Ahead)
First(s, n) == SubSeq(s, 1, IF n < Len(s) THEN n ELSE Len(s))
Least(a, b) == IF a < b THEN a ELSE b

\* _pool
PoolSize == IF TopK > CandidatePool THEN TopK ELSE CandidatePool

Step(changes) == query' = {changes}

Plan(mode, goal, selection) ==
    [mode |-> mode, goal |-> goal, stage |-> IF goal = "replay" THEN "read" ELSE "fetch",
     epoch |-> stops, left |-> Partitions, limit |-> Least(PoolSize, MaxCandidates),
     page |-> <<>>, checked |-> 0, kept |-> <<>>, found |-> {}, pool |-> {}, remaining |-> {},
     chosen |-> selection, at |-> 1, live |-> {}, excluded |-> {}]

\* search, or the search of assemble: the stop epoch and the partitions are read.
BeginSearch ==
    /\ query = {}
    /\ \E mode \in {"STRUCTURED", "FULL_TEXT"}, goal \in {"search", "assemble"} :
         Step(Plan(mode, goal, <<>>))
    /\ UNCHANGED <<matching, permitted, stops, contextDenied, answers, receipt>>

\* _structured: the predicate runs in the metadata; versions are validated later.
FetchStructured ==
    /\ \E q \in query :
         /\ q.stage = "fetch" /\ q.mode = "STRUCTURED"
         /\ \E p \in q.left :
              Step([q EXCEPT !.left = @ \ {p}, !.found = @ \cup {v \in matching : PartOf[v] = p}])
    /\ UNCHANGED <<matching, permitted, stops, contextDenied, answers, receipt>>

\* _index_pool: a page of the best matches of one partition.
FetchPage ==
    /\ \E q \in query :
         /\ q.stage = "fetch" /\ q.mode = "FULL_TEXT" /\ q.left # {}
         /\ LET p == CHOOSE p \in q.left : TRUE
            IN  Step([q EXCEPT !.stage = "check", !.checked = 0, !.kept = <<>>,
                      !.page = First(IndexOrder({v \in matching : PartOf[v] = p}), q.limit)])
    /\ UNCHANGED <<matching, permitted, stops, contextDenied, answers, receipt>>

\* _eligible, for one hit of the page.
CheckHit ==
    /\ \E q \in query :
         /\ q.stage = "check" /\ q.checked < Len(q.page)
         /\ LET v == q.page[q.checked + 1]
            IN  Step([q EXCEPT !.checked = @ + 1, !.kept = IF v \in Live THEN Append(@, v) ELSE @])
    /\ UNCHANGED <<matching, permitted, stops, contextDenied, answers, receipt>>

\* Mutant: a dropped hit uses up its place in the page.
PageOnce(q) == [q EXCEPT !.stage = "fetch", !.left = @ \ {CHOOSE p \in @ : TRUE},
                         !.found = @ \cup ToSet(First(q.kept, PoolSize)),
                         !.limit = Least(PoolSize, MaxCandidates)]

\* The page is enough, or it is widened until the partition is exhausted.
PageDone(q) ==
    IF Len(q.kept) >= PoolSize \/ Len(q.page) < q.limit
    THEN [q EXCEPT !.stage = "fetch", !.left = @ \ {CHOOSE p \in @ : TRUE},
                   !.found = @ \cup ToSet(First(q.kept, PoolSize)),
                   !.limit = Least(PoolSize, MaxCandidates)]
    ELSE [q EXCEPT !.stage = "fetch", !.limit = Least(2 * @, MaxCandidates)]

Backpressure(q) == ~ (Len(q.kept) >= PoolSize \/ Len(q.page) < q.limit) /\ q.limit >= MaxCandidates

EndPage ==
    /\ \E q \in query :
         /\ q.stage = "check" /\ q.checked = Len(q.page)
         /\ IF Backpressure(q) THEN query' = {} ELSE Step(PageDone(q))
    /\ UNCHANGED <<matching, permitted, stops, contextDenied, answers, receipt>>

\* The best of all partitions; a structured search keeps every match.
EndFetch ==
    /\ \E q \in query :
         /\ q.stage = "fetch" /\ q.left = {}
         /\ LET pool == IF q.mode = "STRUCTURED" THEN q.found
                        ELSE ToSet(First(IndexOrder(q.found), PoolSize))
            IN  Step([q EXCEPT !.stage = "rank", !.pool = pool, !.remaining = pool])
    /\ UNCHANGED <<matching, permitted, stops, contextDenied, answers, receipt>>

-------------------------------------------------------------------------------
(* Ranking *)

Repeats(v, prefix) == Cardinality({i \in DOMAIN prefix : SourceOf[prefix[i]] = SourceOf[v]})

\* relevance / (1 + penalty * repeats), compared without dividing.
Outranks(v, w, prefix) ==
    LET left  == Relevance[v] * (1 + Penalty * Repeats(w, prefix))
        right == Relevance[w] * (1 + Penalty * Repeats(v, prefix))
    IN  left > right \/ (left = right /\ v <= w)

\* _rank: the best remaining one; a structured candidate is validated when it is
\* chosen, and dropped if it is no longer eligible.
Choose ==
    /\ \E q \in query :
         /\ q.stage = "rank" /\ q.remaining # {} /\ Len(q.chosen) < TopK
         /\ LET v == CHOOSE v \in q.remaining : \A w \in q.remaining : Outranks(v, w, q.chosen)
                kept == q.mode = "FULL_TEXT" \/ v \in Live
            IN  Step([q EXCEPT !.remaining = @ \ {v}, !.chosen = IF kept THEN Append(@, v) ELSE @])
    /\ UNCHANGED <<matching, permitted, stops, contextDenied, answers, receipt>>

EndRank ==
    /\ \E q \in query :
         /\ q.stage = "rank" /\ (q.remaining = {} \/ Len(q.chosen) = TopK)
         /\ IF stops = q.epoch
            THEN Step([q EXCEPT !.stage = IF q.chosen = <<>> THEN "confirm" ELSE "read", !.live = Live])
            ELSE query' = {}
    /\ UNCHANGED <<matching, permitted, stops, contextDenied, answers, receipt>>

-------------------------------------------------------------------------------
(* Materialisation: _materialize for a search, _build for a context *)

\* The version is checked, its content is about to be read.
ReadBegins ==
    /\ \E q \in query :
         /\ q.stage = "read"
         /\ IF q.chosen[q.at] \in Live THEN Step([q EXCEPT !.stage = "reading"]) ELSE query' = {}
    /\ UNCHANGED <<matching, permitted, stops, contextDenied, answers, receipt>>

\* The content was read: stop and version are checked again; a context asks
\* its policy.  live: what was eligible when the last content was read.
ReadEnds ==
    /\ \E q \in query :
         /\ q.stage = "reading"
         /\ IF stops = q.epoch /\ q.chosen[q.at] \in Live
            THEN LET last == q.at = Len(q.chosen)
                 IN  Step([q EXCEPT !.stage = IF last THEN "confirm" ELSE "read",
                                    !.at = IF last THEN 1 ELSE @ + 1, !.live = Live,
                                    !.excluded = @ \cup ({q.chosen[q.at]} \cap contextDenied)])
            ELSE query' = {}
    /\ UNCHANGED <<matching, permitted, stops, contextDenied, answers, receipt>>

\* Mutant: what was checked when its own content was read is not checked again.
ConfirmSkipped ==
    /\ \E q \in query :
         /\ q.stage = "confirm" /\ q.at <= Len(q.chosen)
         /\ Step([q EXCEPT !.at = @ + 1])
    /\ UNCHANGED <<matching, permitted, stops, contextDenied, answers, receipt>>

\* Every version is checked once more after the last content was read.
ConfirmHit ==
    /\ \E q \in query :
         /\ q.stage = "confirm" /\ q.at <= Len(q.chosen)
         /\ IF q.chosen[q.at] \in Live THEN Step([q EXCEPT !.at = @ + 1]) ELSE query' = {}
    /\ UNCHANGED <<matching, permitted, stops, contextDenied, answers, receipt>>

\* The permitted blocks, in order, until one does not fit; nothing after it does.
Blocks(q) == SelectSeq(q.chosen, LAMBDA v : v \notin q.excluded)
SizeUpTo(s, i) == FoldLeft(LAMBDA n, v : n + BlockSize[v], 0, SubSeq(s, 1, i))
Included(q) ==
    LET s == Blocks(q)
    IN  First(s, Cardinality({i \in DOMAIN s : SizeUpTo(s, i) <= Budget}))

AnswerOf(q) ==
    [goal |-> q.goal, mode |-> q.mode, hits |-> q.chosen, pool |-> q.pool, live |-> q.live,
     context |-> IF q.goal = "search" THEN <<>> ELSE Included(q),
     excluded |-> IF q.goal = "search" THEN {} ELSE q.excluded]

\* The receipt of the search is recorded and the hits are returned.  assemble
\* goes on from them with a new plan, under the stop epoch it reads now.
AnswerSearch ==
    /\ \E q \in query :
         /\ q.stage = "confirm" /\ q.at > Len(q.chosen) /\ q.goal \in {"search", "assemble"}
         /\ IF stops # q.epoch THEN query' = {} /\ UNCHANGED answers
            ELSE /\ answers' = {[AnswerOf(q) EXCEPT !.goal = "search", !.context = <<>>, !.excluded = {}]}
                 /\ IF q.goal = "search" THEN query' = {}
                    ELSE Step([q EXCEPT !.goal = "context", !.at = 1, !.excluded = {}, !.live = Live,
                                        !.stage = IF q.chosen = <<>> THEN "confirm" ELSE "read"])
    /\ UNCHANGED <<matching, permitted, stops, contextDenied, receipt>>

\* _commit: the receipt of the context is recorded, or of its replay, which
\* must reproduce what is on record.
AnswerContext ==
    /\ \E q \in query :
         /\ q.stage = "confirm" /\ q.at > Len(q.chosen) /\ q.goal \in {"context", "replay"}
         /\ query' = {}
         /\ \/ q.goal = "context" /\ stops = q.epoch /\ answers' = {AnswerOf(q)} /\ receipt' = {AnswerOf(q)}
            \/ /\ q.goal = "replay" /\ stops = q.epoch /\ UNCHANGED receipt
               /\ IF \E r \in receipt : r.context = Included(q) /\ r.excluded = q.excluded
                  THEN answers' = {AnswerOf(q)} ELSE UNCHANGED answers
            \/ stops # q.epoch /\ UNCHANGED <<answers, receipt>>
    /\ UNCHANGED <<matching, permitted, stops, contextDenied>>

\* replay: the selection comes from the receipt.
BeginReplay ==
    /\ query = {}
    /\ \E a \in receipt : a.hits # <<>> /\ Step([Plan(a.mode, "replay", a.hits) EXCEPT !.pool = a.pool])
    /\ UNCHANGED <<matching, permitted, stops, contextDenied, answers, receipt>>

\* A store, the policy or the audit is unreachable, or the deadline passes.
RetrievalFails ==
    /\ query # {} /\ query' = {}
    /\ UNCHANGED <<matching, permitted, stops, contextDenied, answers, receipt>>

RetrievalNext ==
    \/ GovernanceChanges \/ BeginSearch \/ FetchStructured \/ FetchPage \/ CheckHit \/ EndPage
    \/ EndFetch \/ Choose \/ EndRank \/ ReadBegins \/ ReadEnds \/ ConfirmHit
    \/ AnswerSearch \/ AnswerContext \/ BeginReplay \/ RetrievalFails

-------------------------------------------------------------------------------
(* Properties *)

\* The versions an answer names, search or context, were all eligible at one
\* moment: when the last of their contents had been read.
Together == \A a \in answers : ToSet(a.hits) \subseteq a.live

\* "A dropped item never displaces an eligible one", and dropping one "leaves the
\* ranking of the eligible ones exactly as if it never existed": an eligible
\* version outside the pool is behind a full pool, and the hits are the greedy
\* ranking of the eligible versions of the pool.
RankingUndisturbed ==
    \A a \in answers : a.goal = "search" =>
        LET eligible == a.pool \cap a.live
        IN  /\ \A v \in a.live \ a.pool :
                 /\ a.mode = "FULL_TEXT" /\ Cardinality(a.pool) = PoolSize
                 /\ \A w \in a.pool : Ahead(w, v)
            /\ Len(a.hits) = Least(TopK, Cardinality(eligible))
            /\ \A i \in DOMAIN a.hits :
                 LET prefix == SubSeq(a.hits, 1, i - 1)
                 IN  \A w \in eligible \ ToSet(prefix) : Outranks(a.hits[i], w, prefix)

\* An answer is one consistent view of what the caller may see: the two facts above.
RetrievalSound == Together /\ RankingUndisturbed
===============================================================================
