---------------------------- MODULE C4Projection ----------------------------
(* C2 and C4: the TypeDB projection of the canonical commits, its drift      *)
(* detector and the named queries it answers (c4/typedb_adapter.py,          *)
(* c4/rebuild.py, c2/gateway.py, c2/planner.py, c2/ports.py).                *)
(*                                                                           *)
(* The projection keeps one row per fact and a watermark entity that has no  *)
(* key.  apply_commit first looks (does the fact have a row, is there a      *)
(* watermark) and then sends the statements that fit what it saw in one      *)
(* transaction, so that two rebuilds can interleave between the looks and    *)
(* the transaction.  A query reads the watermark and the row in two          *)
(* transactions.  Commits are the numbers of a log; the state digest of a    *)
(* commit is a member of Digests.                                            *)
EXTENDS Naturals, SequencesExt

CONSTANTS Facts, Digests, Rebuilders, Readers,
          Histories,       \* the canonical logs: sequences of [fact, digest]
          MaxDrifts        \* bound on rows changed by another writer

VARIABLES log,         \* the canonical commits: <<[fact, digest], ...>>
          fact_rows,   \* fact -> the row of the projection, or NoRow
          watermarks,  \* the commits of the watermark entities
          quarantined, \* ProjectionDriftDetector._quarantined
          rebuilder,   \* the rebuild each worker is in
          reader,      \* the query each reader is in
          drifts

projectionVars == <<log, fact_rows, watermarks, quarantined, rebuilder, reader,
                    drifts>>

NoRow == [commit |-> 0, digest |-> "none", drifted |-> FALSE]

AtRest == [at |-> "idle"]

ProjectionInit == /\ log = <<>>
                  /\ fact_rows = [f \in Facts |-> NoRow]
                  /\ watermarks = {}
                  /\ quarantined = {}
                  /\ rebuilder = [w \in Rebuilders |-> AtRest]
                  /\ reader = [r \in Readers |-> AtRest]
                  /\ drifts = 0

\* current_watermark: rows[0] of the query, whichever the database lists first.
Watermark(w) == IF watermarks = {} THEN w = 0 ELSE w \in watermarks

-----------------------------------------------------------------------------
\* The canonical store commits; another writer changes a row of the projection
\* without the detector.
CanonicalCommits == /\ \E h \in Histories :
                         /\ Len(log) < Len(h) /\ IsPrefix(log, h)
                         /\ log' = Append(log, h[Len(log) + 1])
                    /\ UNCHANGED <<fact_rows, watermarks, quarantined, rebuilder,
                                   reader, drifts>>

Drift == /\ drifts < MaxDrifts
         /\ \E f \in Facts, d \in Digests :
              /\ fact_rows[f] # NoRow /\ fact_rows[f].digest # d
              /\ fact_rows' = [fact_rows EXCEPT ![f].digest = d, ![f].drifted = TRUE]
         /\ drifts' = drifts + 1
         /\ UNCHANGED <<log, watermarks, quarantined, rebuilder, reader>>

-----------------------------------------------------------------------------
\* PostgresC3Service.read: the newest commit of the aggregate.
CommitsOf(f) == {n \in DOMAIN log : log[n].fact = f}

CanonicalOf(f) == CHOOSE n \in CommitsOf(f) : \A m \in CommitsOf(f) : m <= n

Step(w, call) == /\ rebuilder' = [rebuilder EXCEPT ![w] = call]
                 /\ UNCHANGED <<log, reader, drifts>>

Rebuild(w) == \E f \in Facts :
  /\ rebuilder[w] = AtRest /\ CommitsOf(f) # {}
  /\ Step(w, [at |-> "peek", fact |-> f, commit |-> CanonicalOf(f),
              digest |-> log[CanonicalOf(f)].digest])
  /\ UNCHANGED <<fact_rows, watermarks, quarantined>>

\* The digest served now against the digest of the commit just read.
Drifted(call, row) == row # NoRow /\ row.digest # call.digest

Peek(w) ==
  LET call == rebuilder[w]
      row == fact_rows[call.fact] IN
  /\ call.at = "peek"
  /\ IF Drifted(call, row)
     THEN /\ quarantined' = quarantined \cup {call.fact}
          /\ Step(w, AtRest)
     ELSE /\ Step(w, [call EXCEPT !.at = "lookup"])
          /\ UNCHANGED quarantined
  /\ UNCHANGED <<fact_rows, watermarks>>

\* apply_commit looks for the row, looks for a watermark, writes.
LookupFact(w) ==
  /\ rebuilder[w].at = "lookup"
  /\ Step(w, [rebuilder[w] EXCEPT !.at = "mark"]
             @@ [replace |-> fact_rows[rebuilder[w].fact] # NoRow])
  /\ UNCHANGED <<fact_rows, watermarks, quarantined>>

LookupWatermark(w) ==
  /\ rebuilder[w].at = "mark"
  /\ Step(w, [rebuilder[w] EXCEPT !.at = "write"] @@ [advance |-> watermarks # {}])
  /\ UNCHANGED <<fact_rows, watermarks, quarantined>>

RowWritten(call) ==
  /\ fact_rows' = [fact_rows EXCEPT ![call.fact] =
                     [commit |-> call.commit, digest |-> call.digest,
                      drifted |-> FALSE]]
  /\ watermarks' = (IF call.advance THEN {} ELSE watermarks) \cup {call.commit}

\* The fact id is a key: inserting a second row refuses the transaction.
apply_commit(w) ==
  LET call == rebuilder[w] IN
  /\ call.at = "write"
  /\ call.replace \/ fact_rows[call.fact] = NoRow
  /\ RowWritten(call)
  /\ Step(w, [at |-> "discard", fact |-> call.fact])
  /\ UNCHANGED <<quarantined>>

KeyRefused(w) ==
  /\ rebuilder[w].at = "write"
  /\ ~rebuilder[w].replace /\ fact_rows[rebuilder[w].fact] # NoRow
  /\ Step(w, AtRest)
  /\ UNCHANGED <<fact_rows, watermarks, quarantined>>

\* The transaction commits and its answer is lost: apply_commit raises and the
\* fact stays quarantined if it was.
CommitUnanswered(w) ==
  LET call == rebuilder[w] IN
  /\ call.at = "write"
  /\ call.replace \/ fact_rows[call.fact] = NoRow
  /\ RowWritten(call)
  /\ Step(w, AtRest)
  /\ UNCHANGED <<quarantined>>

\* Any request of the rebuild fails; what was not committed is not there.
BackendFails(w) ==
  /\ rebuilder[w].at \in {"peek", "lookup", "mark", "write"}
  /\ Step(w, AtRest)
  /\ UNCHANGED <<fact_rows, watermarks, quarantined>>

Reconciled(w) ==
  /\ rebuilder[w].at = "discard"
  /\ quarantined' = quarantined \ {rebuilder[w].fact}
  /\ Step(w, AtRest)
  /\ UNCHANGED <<fact_rows, watermarks>>

-----------------------------------------------------------------------------
\* The requests of the readers.  The policy port answers PERMIT or the request
\* ends there; ConsistencyPlanner.plan then answers from the watermark alone,
\* NamedQueryGateway.execute reads the projection, with a plan or without one.
Goes(r, query) == /\ reader' = [reader EXCEPT ![r] = query]
                  /\ UNCHANGED <<log, fact_rows, watermarks, quarantined,
                                 rebuilder, drifts>>

Required == [mode : {"AT_LEAST_COMMIT", "EXACT_AT_COMMIT"}, commit : DOMAIN log]
            \cup [mode : {"BEST_AVAILABLE"}, commit : {0}]

\* The plan a caller asks for first: refused when the watermark differs.
plan(req) == \E w \in {0} \cup watermarks : Watermark(w) /\ req.commit \in {0, w}

Asks(r, f, req) ==
  /\ reader[r].at \in {"idle", "answered"}
  /\ Goes(r, req @@ [at |-> "watermark", fact |-> f])

\* The gateway reads the projection whether the fact is quarantined or not.
execute(r) == \E f \in Facts, req \in Required, planned \in BOOLEAN :
  /\ planned => plan(req)
  /\ Asks(r, f, req)

read_if_healthy(r) == \E f \in Facts \ quarantined, req \in Required : Asks(r, f, req)

ReadWatermark(r) == /\ reader[r].at = "watermark"
                    /\ \E w \in {0} \cup watermarks :
                         /\ Watermark(w)
                         /\ Goes(r, [reader[r] EXCEPT !.at = "row"]
                                    @@ [watermark |-> w])

\* ConsistencyRequirement.verify_served over the watermark and the commit of
\* the row actually read (the watermark where the fact has no row).
VerifyWatermark(query, served) == query.commit \in {0, query.watermark}

verify_served(query, served) ==
  /\ query.commit \in {0, query.watermark}
  /\ query.mode = "EXACT_AT_COMMIT" => served = query.commit

ReadRow(r) ==
  LET query == reader[r]
      row == fact_rows[query.fact]
      served == IF row = NoRow THEN query.watermark ELSE row.commit IN
  /\ query.at = "row"
  /\ Goes(r, IF verify_served(query, served) /\ row # NoRow
             THEN [query EXCEPT !.at = "answered"] @@ [row |-> row]
             ELSE AtRest)

-----------------------------------------------------------------------------
ProjectionNext ==
  \/ CanonicalCommits \/ Drift
  \/ \E w \in Rebuilders :
       \/ Rebuild(w) \/ Peek(w) \/ LookupFact(w) \/ LookupWatermark(w)
       \/ apply_commit(w) \/ CommitUnanswered(w) \/ KeyRefused(w) \/ BackendFails(w)
       \/ Reconciled(w)
  \/ \E r \in Readers :
       execute(r) \/ read_if_healthy(r) \/ ReadWatermark(r) \/ ReadRow(r)

-----------------------------------------------------------------------------
\* An EXACT_AT_COMMIT answer carries what the canonical commit it names wrote
\* for that very fact, whatever rebuilds ran between the read of the watermark
\* and the read of the row, and even when two watermarks exist (read,
\* verify_served, apply_commit).  Rows another writer changed are excepted:
\* they are what the drift detector is for.
ExactServed == \A r \in Readers :
  LET query == reader[r] IN
  query.at = "answered" /\ query.mode = "EXACT_AT_COMMIT" /\ ~query.row.drifted =>
    log[query.commit] = [fact |-> query.fact, digest |-> query.row.digest]
=============================================================================
