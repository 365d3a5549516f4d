--------------------------- MODULE PopulationIndex ---------------------------
(***************************************************************************)
(* The SQLite projection of the Population ledger                          *)
(* (apps/population/population_index.py): the tables a rebuild writes and  *)
(* what a query reads from them.  A table is a set of rows; a column that  *)
(* holds a whole document is the ledger's value of it, and the metrics of  *)
(* a run, which are copied from its evidence, are the evidence.            *)
(***************************************************************************)
EXTENDS PopulationRules

\* _populate.  A ledger that does not exist has empty tables, as has a
\* projection that does not exist: neither equals the rebuild of a ledger.
Projection(l) ==
    [metadata        |-> [finalEvaluationStarted |-> FinalEvaluationStarted(l),
                          head |-> Len(l)],
     records         |-> {<<i, l[i].kind>> : i \in DOMAIN l},
     candidates      |-> {<<l[i].cand, i>> : i \in Indices(l, "candidate")},
     lineage         |-> UNION {{<<r.cand, p>> : p \in r.parents} :
                                    r \in Records(l, "candidate")},
     experiments     |-> {<<l[i].exp, i, Role[l[i].exp]>> : i \in Indices(l, "experiment")},
     runs            |-> {<<i, RunKey(l[i]), l[i].ev>> : i \in Indices(l, "run")},
     archive_events  |-> {<<i, l[i].exp, l[i].excluded>> : i \in Indices(l, "archive")},
     archive_members |-> UNION {{<<i, c, l[i].members[c]>> : c \in DOMAIN l[i].members} :
                                    i \in Indices(l, "archive")},
     allocations     |-> {<<i, l[i].archive, l[i].selected, l[i].draw>> :
                              i \in Indices(l, "allocation")}]

NoProjection == Projection(<< >>)

\* Does the projection hold what a rebuild from l would hold?  (verify_index
\* compares every table with those of a rebuild in memory.)
IndexMatches(t, l) == t = Projection(l)

----------------------------------------------------------------------------
\* query_index: the answers of a query, none when it is refused.

Parents(t, c) == {row[2] : row \in {x \in t.lineage : x[1] = c}}
Children(t, c) == {row[1] : row \in {x \in t.lineage : x[2] = c}}

SummaryOf(t) ==
    [allocations |-> Cardinality(t.allocations),
     archives    |-> Cardinality(t.archive_events),
     candidates  |-> Cardinality(t.candidates),
     experiments |-> Cardinality(t.experiments),
     records     |-> Cardinality(t.records),
     runs        |-> Cardinality(t.runs),
     metadata    |-> t.metadata]

\* The archive asked for, or the latest one when none is named (0).
ArchiveAsked(t, q) ==
    LET ids == {row[1] : row \in t.archive_events}
    IN  IF q.archive = 0
          THEN {i \in ids : \A j \in ids : j <= i}
          ELSE ids \cap {q.archive}

ArchiveAnswer(t, a) ==
    [archive  |-> a,
     event    |-> {row \in t.archive_events : row[1] = a},
     members  |-> {<<row[2], row[3]>> : row \in {x \in t.archive_members : x[1] = a}}]

QueryAnswers(t, q) ==
    CASE q.type = "summary"    -> {SummaryOf(t)}
      [] q.type = "candidates" -> {[parents |-> {<<row[1], Parents(t, row[1])>> :
                                                    row \in t.candidates}]}
      [] q.type = "lineage"    -> {[parents |-> Parents(t, c), children |-> Children(t, c)] :
                                      c \in {row[1] : row \in t.candidates} \cap {q.cand}}
      [] q.type = "archive"    -> {ArchiveAnswer(t, a) : a \in ArchiveAsked(t, q)}

----------------------------------------------------------------------------
\* Is the answer a to the query q true of the ledger l?  Stated on the
\* records themselves, without the tables.

AnswerHolds(l, q, a) ==
    /\ q.type = "summary" =>
           /\ a.candidates = Cardinality(Candidates(l))
           /\ a.runs = Cardinality(RunKeys(l))
           /\ a.records = Len(l)
           /\ a.metadata.finalEvaluationStarted
                = \E i \in Indices(l, "run") : Role[l[i].exp] = "final"
    /\ q.type = "candidates" =>
           a.parents = {<<r.cand, r.parents>> : r \in Records(l, "candidate")}
    /\ q.type = "lineage" =>
           \A i \in Indices(l, "candidate") :
               /\ l[i].cand = q.cand => a.parents = l[i].parents
               /\ l[i].cand \in a.children <=> q.cand \in l[i].parents
    /\ q.type = "archive" =>
           /\ a.archive \in Indices(l, "archive")
           /\ q.archive = 0 => \A i \in Indices(l, "archive") : i <= a.archive
           /\ a.members = {<<c, l[a.archive].members[c]>> : c \in DOMAIN l[a.archive].members}
=============================================================================
