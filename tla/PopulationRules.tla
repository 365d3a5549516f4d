--------------------------- MODULE PopulationRules ---------------------------
(***************************************************************************)
(* The rules of the Population ledger (apps/population/population_state.py *)
(* and population_protocol.py) as operators on a ledger l, a sequence of   *)
(* records.  The code folds the records into a PopulationState; here every *)
(* field of that state is an operator of the ledger.  l[1] is the header;  *)
(* a record id is a hash chained through all earlier records, so within    *)
(* one ledger it is the record's index.                                    *)
(***************************************************************************)
EXTENDS ArchivePolicy

CONSTANTS
    Experiment,   \* experiment ids
    Role,         \* [Experiment -> {"development", "final"}]
    Files         \* [Candidate -> [paths -> contents]], the skill artifact

ASSUME RoleAssumption == Role \in [Experiment -> {"development", "final"}]

Header == [kind |-> "population"]

Indices(l, kind) == {i \in DOMAIN l : l[i].kind = kind}
Records(l, kind) == {l[i] : i \in Indices(l, kind)}

Candidates(l) == {r.cand : r \in Records(l, "candidate")}
Experiments(l) == {r.exp : r \in Records(l, "experiment")}
RunKey(r) == <<r.cand, r.exp, r.rep>>
RunKeys(l) == {RunKey(r) : r \in Records(l, "run")}
FinalEvaluationStarted(l) == \E r \in Records(l, "run") : Role[r.exp] = "final"

\* The last of a set of indices, 0 for none (Python's .get(..., 0)).
Latest(I) == IF I = {} THEN 0 ELSE Max(I)
LatestArchive(l, e) == Latest({i \in Indices(l, "archive") : l[i].exp = e})
LastRun(l, e) == Latest({i \in Indices(l, "run") : l[i].exp = e})

----------------------------------------------------------------------------
\* Candidate bodies.

\* The child of a typed recombination: each path from the parent chosen for it.
RecombinedFiles(loci) == [path \in DOMAIN loci |-> Files[loci[path]][path]]

\* Mutant: the child is not compared with its locus receipt.
RecombinationUnverified(r) ==
    /\ DOMAIN r.loci = UNION {DOMAIN Files[p] : p \in r.parents}
    /\ \A path \in DOMAIN r.loci : path \in DOMAIN Files[r.loci[path]]

\* Every path of either parent has a locus, every chosen parent has that
\* path, and each parent contributes a file the other one does not share.
RecombinationValid(r) ==
    LET Shared(p, path) ==
            \A q \in r.parents \ {p} :
                path \in DOMAIN Files[q] /\ Files[q][path] = Files[p][path]
        Contributors ==
            {r.loci[path] : path \in {x \in DOMAIN r.loci : ~ Shared(r.loci[x], x)}}
    IN  /\ DOMAIN r.loci = UNION {DOMAIN Files[p] : p \in r.parents}
        /\ \A path \in DOMAIN r.loci :
               r.loci[path] \in r.parents /\ path \in DOMAIN Files[r.loci[path]]
        /\ Contributors = r.parents
        /\ Files[r.cand] = RecombinedFiles(r.loci)

VariationValid(r) ==
    CASE r.variation = "seed"          -> r.parents = {}
      [] r.variation = "mutation"      -> Cardinality(r.parents) = 1
      [] r.variation = "recombination" ->
             Cardinality(r.parents) = 2 /\ RecombinationValid(r)

\* Mutant: unknown parents are accepted.
CandidateBodyUnanchored(l, r) == VariationValid(r)

CandidateBodyValid(l, r) == r.parents \subseteq Candidates(l) /\ VariationValid(r)

----------------------------------------------------------------------------
\* Archive and allocation bodies, recomputed from the ledger.

Evaluated(l, e) == {r.cand : r \in {x \in Records(l, "run") : x.exp = e}}

Aggregates(l, e) ==
    [c \in Evaluated(l, e) |->
        CandidateAggregate({r \in Records(l, "run") : r.exp = e /\ r.cand = c})]

ArchivableExperiment(l, e) == e \in Experiments(l) /\ Role[e] = "development"

ArchiveOf(l, e, agg, scores, members) ==
    [kind     |-> "archive",
     exp      |-> e,
     members  |-> [c \in members |-> [agg[c] EXCEPT !.score = scores[c]]],
     excluded |-> [c \in Candidates(l) \ members |-> ExclusionReason(agg, scores, c)]]

ArchiveBody(l, e) ==
    With(Aggregates(l, e), LAMBDA agg :
        With(ViableScores(agg), LAMBDA scores :
            ArchiveOf(l, e, agg, scores, Selected(scores))))

\* The k-th smallest member, counting from 0.
Ordered(S, k) == CHOOSE c \in S : Cardinality({d \in S : d < c}) = k

DrawValid(draw) == draw.denominator > 0 /\ draw.numerator \in 0..(draw.denominator - 1)

\* Mutant: the staleness rule is forgotten.
AllocationPossibleStale(l, archive, draw) ==
    /\ DrawValid(draw)
    /\ archive \in Indices(l, "archive")
    /\ LatestArchive(l, l[archive].exp) = archive
    /\ DOMAIN l[archive].members # {}

AllocationPossible(l, archive, draw) ==
    /\ DrawValid(draw)
    /\ archive \in Indices(l, "archive")
    /\ LatestArchive(l, l[archive].exp) = archive
    /\ LastRun(l, l[archive].exp) <= archive
    /\ DOMAIN l[archive].members # {}

AllocationBody(l, archive, draw) ==
    LET members == DOMAIN l[archive].members
    IN  [kind     |-> "allocation",
         archive  |-> archive,
         draw     |-> draw,
         selected |-> Ordered(members,
                         (draw.numerator * Cardinality(members)) \div draw.denominator)]

----------------------------------------------------------------------------
\* _apply_record: may r be the next record of l?

SealedKinds == {"allocation", "archive", "candidate", "experiment"}

\* _run_body, where evidence is well formed: the run is of something known.
RunBodyValid(l, r) == r.cand \in Candidates(l) /\ r.exp \in Experiments(l)

BodyValid(l, r) ==
    CASE r.kind = "candidate"  ->
             r.cand \notin Candidates(l) /\ CandidateBodyValid(l, r)
      [] r.kind = "experiment" -> r.exp \notin Experiments(l)
      [] r.kind = "run"        ->
             /\ RunBodyValid(l, r)
             /\ RunKey(r) \notin RunKeys(l)
             /\ FinalEvaluationStarted(l) => Role[r.exp] = "final"
      [] r.kind = "archive"    ->
             ArchivableExperiment(l, r.exp) /\ r = ArchiveBody(l, r.exp)
      [] r.kind = "allocation" ->
             /\ AllocationPossible(l, r.archive, r.draw)
             /\ r = AllocationBody(l, r.archive, r.draw)
      [] OTHER                 -> FALSE

\* Mutant: the seal on search records is forgotten.
RecordValidUnsealed(l, r) == BodyValid(l, r)

RecordValid(l, r) ==
    /\ r.kind \in SealedKinds => ~ FinalEvaluationStarted(l)
    /\ BodyValid(l, r)

\* A finite sequence, whatever its records are.
IsLedger(l) == l \in Seq({l[i] : i \in DOMAIN l})

Before(l, i) == SubSeq(l, 1, i - 1)

\* load_state: the ledger replays from its header.
Replays(l) ==
    /\ l[1] = Header
    /\ \A i \in 2..Len(l) : RecordValid(Before(l, i), l[i])

----------------------------------------------------------------------------
\* What a ledger built under these rules guarantees.

\* Once one final run is recorded, the only records that follow are final
\* runs: no candidate, archive or allocation can be informed by final
\* evidence (the seal in _apply_record).
SearchSealed(l) ==
    \A i, j \in DOMAIN l :
        (i < j /\ l[i].kind = "run" /\ Role[l[i].exp] = "final")
            => (l[j].kind = "run" /\ Role[l[j].exp] = "final")

\* A parent is allocated from all the evidence there was: recomputing the
\* archive from every record before the allocation still selects it (the
\* latest-archive and staleness rules of _allocation_body).
AllocationsFresh(l) ==
    \A i \in Indices(l, "allocation") :
        l[i].selected \in
            DOMAIN ArchiveBody(Before(l, i), l[l[i].archive].exp).members

\* No candidate with a failed run in the experiment is ever allocated as a
\* parent, however many good runs it also has (survival in
\* _candidate_aggregate and _archive_body).
AllocatedParentsSurvived(l) ==
    \A i \in Indices(l, "allocation") :
        \A j \in Indices(l, "run") :
            (j < i /\ l[j].exp = l[l[i].archive].exp /\ l[j].cand = l[i].selected)
                => Survives(l[j].ev)

\* A recombined child is a copy of neither parent, although each of its files
\* is a file of one of them (_verify_recombination).
RecombinantsMix(l) ==
    \A r \in Records(l, "candidate") :
        r.variation = "recombination" =>
            \A p \in r.parents :
                /\ Files[r.cand] # Files[p]
                /\ \E path \in DOMAIN Files[r.cand] \cap DOMAIN Files[p] :
                       Files[r.cand][path] = Files[p][path]

\* Ancestry is well founded: a parent is registered before its child, once,
\* so no candidate descends from itself (_candidate_body, _apply_record).
LineageWellFounded(l) ==
    \A i \in Indices(l, "candidate") :
        /\ \A j \in Indices(l, "candidate") : l[j].cand = l[i].cand => j = i
        /\ \A p \in l[i].parents :
               \E j \in Indices(l, "candidate") : j < i /\ l[j].cand = p
=============================================================================
