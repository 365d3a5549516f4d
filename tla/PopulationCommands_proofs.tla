---------------------- MODULE PopulationCommands_proofs ----------------------
(***************************************************************************)
(* The Population's concurrent, crashing invocations implement the atomic  *)
(* ledger, for any number of processes, requests, records and crashes, and *)
(* whatever the record rules are: RecordValid is never expanded.           *)
(***************************************************************************)
EXTENDS PopulationCommands, SequenceTheorems, FiniteSetTheorems, TLAPS

-----------------------------------------------------------------------------
(* What the record rules and the archive policy do to ledgers.             *)

\* Appending to a finite sequence gives a finite sequence one longer that
\* starts with the old one.
LEMMA AppendIsLedger ==
    ASSUME NEW l, IsLedger(l), NEW r
    PROVE  /\ IsLedger(Append(l, r))
           /\ Len(Append(l, r)) = Len(l) + 1
           /\ Append(l, r)[Len(l) + 1] = r
           /\ \A i \in 1..Len(l) : Append(l, r)[i] = l[i]
           /\ Len(l) \in Nat
<1> DEFINE S == {l[i] : i \in DOMAIN l} \cup {r}
           m == Append(l, r)
<1>1. l \in Seq(S)
  BY DEF IsLedger
<1>2. /\ m \in Seq(S)
      /\ Len(m) = Len(l) + 1
      /\ m[Len(l) + 1] = r
      /\ \A i \in 1..Len(l) : m[i] = l[i]
      /\ Len(l) \in Nat
  BY <1>1
<1>3. IsLedger(m)
  <2> DEFINE R == {m[i] : i \in DOMAIN m}
  <2>1. m \in [1..Len(m) -> S] /\ Len(m) \in Nat
    BY <1>2, LenProperties
  <2>2. m \in [1..Len(m) -> R]
    BY <2>1
  <2>3. m \in Seq(R)
    BY <2>1, <2>2, SeqDef
  <2> QED
    BY <2>3 DEF IsLedger
<1> QED
  BY <1>2, <1>3

LEMMA EmptyIsLedger == IsLedger(<< >>)
<1> << >> \in Seq({(<< >>)[i] : i \in DOMAIN << >>})
  BY EmptySeq
<1> QED
  BY DEF IsLedger

\* What stands before a line of a ledger is the ledger as it was then.
LEMMA BeforeIsPrefix ==
    ASSUME NEW l, IsLedger(l), NEW i \in 1..(Len(l) + 1)
    PROVE  /\ IsLedger(Before(l, i))
           /\ Len(Before(l, i)) = i - 1
           /\ DOMAIN Before(l, i) = 1..(i - 1)
           /\ \A j \in 1..(i - 1) : Before(l, i)[j] = l[j]
<1> DEFINE S == {l[j] : j \in DOMAIN l}
           m == Before(l, i)
<1>1. l \in Seq(S) /\ Len(l) \in Nat
  BY DEF IsLedger
<1>2. /\ m \in Seq(S) /\ Len(m) = i - 1
      /\ \A j \in 1..(i - 1) : m[j] = l[j]
  BY <1>1 DEF Before
<1>3. IsLedger(m)
  <2> DEFINE R == {m[j] : j \in DOMAIN m}
  <2>1. m \in [1..Len(m) -> S] /\ Len(m) \in Nat
    BY <1>2, LenProperties
  <2>2. m \in [1..Len(m) -> R]
    BY <2>1
  <2>3. m \in Seq(R)
    BY <2>1, <2>2, SeqDef
  <2> QED
    BY <2>3 DEF IsLedger
<1>4. DOMAIN m = 1..(i - 1)
  BY <1>2, LenProperties
<1> QED
  BY <1>2, <1>3, <1>4

\* Appending leaves what stands before each earlier line, and before the new
\* one stands the old ledger.
LEMMA BeforeAppended ==
    ASSUME NEW l, IsLedger(l), NEW r, NEW i \in 1..(Len(l) + 1)
    PROVE  Before(Append(l, r), i) = IF i = Len(l) + 1 THEN l ELSE Before(l, i)
<1> DEFINE S == {l[j] : j \in DOMAIN l} \cup {r}
           m == Append(l, r)
<1>1. l \in Seq(S) /\ m \in Seq(S) /\ Len(m) = Len(l) + 1 /\ Len(l) \in Nat
  BY AppendIsLedger DEF IsLedger
<1>2. \A j \in 1..Len(l) : m[j] = l[j]
  BY AppendIsLedger
<1>3. /\ Before(m, i) \in Seq(S) /\ Len(Before(m, i)) = i - 1
      /\ \A j \in 1..(i - 1) : Before(m, i)[j] = l[j]
  <2>1. i - 1 \in Nat /\ i - 1 <= Len(m)
    BY <1>1
  <2>2. /\ Before(m, i) \in Seq(S) /\ Len(Before(m, i)) = i - 1
        /\ \A j \in 1..(i - 1) : Before(m, i)[j] = m[j]
    BY <1>1, <2>1 DEF Before
  <2> QED
    BY <1>1, <1>2, <2>2
<1>4. /\ Before(l, i) \in Seq(S) /\ Len(Before(l, i)) = i - 1
      /\ \A j \in 1..(i - 1) : Before(l, i)[j] = l[j]
  BY <1>1 DEF Before
<1>5. Before(m, i) = Before(l, i)
  BY <1>3, <1>4, SeqEqual
<1>6. CASE i = Len(l) + 1
  <2>1. Before(m, i) = l
    BY <1>1, <1>3, <1>6, SeqEqual
  <2> QED
    BY <1>6, <2>1
<1>7. CASE i # Len(l) + 1
  BY <1>5, <1>7
<1> QED
  BY <1>6, <1>7

\* A ledger grows by records that are valid against what is there: it replays.
LEMMA AppendReplays ==
    ASSUME NEW l, IsLedger(l), NEW r,
           \/ l = << >> /\ r = Header
           \/ l # << >> /\ Replays(l) /\ RecordValid(l, r)
    PROVE  Append(l, r) # << >> /\ Replays(Append(l, r))
<1> DEFINE m == Append(l, r)
<1>1. /\ IsLedger(m) /\ Len(m) = Len(l) + 1 /\ m[Len(l) + 1] = r
      /\ \A i \in 1..Len(l) : m[i] = l[i]
      /\ Len(l) \in Nat
  BY AppendIsLedger
<1>2. m # << >>
  BY <1>1
<1>3. CASE l = << >> /\ r = Header
  <2>1. Len(l) = 0
    BY <1>3
  <2> QED
    BY <1>1, <1>2, <1>3, <2>1 DEF Replays
<1>4. CASE l # << >> /\ Replays(l) /\ RecordValid(l, r)
  <2>1. Len(l) >= 1
    BY <1>1, <1>4 DEF IsLedger
  <2>2. m[1] = Header
    BY <1>1, <1>4, <2>1 DEF Replays
  <2>3. ASSUME NEW i \in 2..Len(m) PROVE RecordValid(Before(m, i), m[i])
    <3>1. i \in 1..(Len(l) + 1)
      BY <1>1
    <3>2. Before(m, i) = IF i = Len(l) + 1 THEN l ELSE Before(l, i)
      BY <3>1, BeforeAppended
    <3>3. CASE i = Len(l) + 1
      BY <1>1, <1>4, <3>2, <3>3
    <3>4. CASE i # Len(l) + 1
      BY <1>1, <1>4, <3>2, <3>4 DEF Replays
    <3> QED
      BY <3>3, <3>4
  <2> QED
    BY <1>2, <2>2, <2>3 DEF Replays
<1> QED
  BY <1>3, <1>4

\* Every record behind the header is valid against the records before it.
LEMMA RecordsAreValid ==
    ASSUME NEW l, IsLedger(l), Replays(l), NEW j \in DOMAIN l, l[j].kind # "population"
    PROVE  /\ j \in 2..Len(l) /\ Len(l) \in Nat
           /\ RecordValid(Before(l, j), l[j])
           /\ DOMAIN Before(l, j) = 1..(j - 1)
           /\ \A i \in 1..(j - 1) : Before(l, j)[i] = l[i]
<1>1. Len(l) \in Nat /\ DOMAIN l = 1..Len(l)
  BY DEF IsLedger
<1>2. j # 1
  BY DEF Replays, Header
<1>3. j \in 2..Len(l)
  BY <1>1, <1>2
<1>4. j \in 1..(Len(l) + 1)
  BY <1>1, <1>3
<1> QED
  BY <1>1, <1>3, <1>4, BeforeIsPrefix DEF Replays

-----------------------------------------------------------------------------
(* What every ledger that replays guarantees *)

\* Only the five kinds of record follow the header.
LEMMA KnownKinds ==
    ASSUME NEW l, NEW r, RecordValid(l, r)
    PROVE  r.kind \in SealedKinds \cup {"run"}
BY DEF RecordValid, BodyValid, SealedKinds

\* The seal of _apply_record: behind a final run there are only final runs.
LEMMA ReplayIsSealed ==
    ASSUME NEW l, IsLedger(l), Replays(l)
    PROVE  SearchSealed(l)
<1> SUFFICES ASSUME NEW i \in DOMAIN l, NEW j \in DOMAIN l, i < j,
                    l[i].kind = "run", Role[l[i].exp] = "final"
             PROVE  l[j].kind = "run" /\ Role[l[j].exp] = "final"
  BY DEF SearchSealed
<1>1. Len(l) \in Nat /\ DOMAIN l = 1..Len(l)
  BY DEF IsLedger
<1>2. j \in 2..Len(l) /\ j \in 1..(Len(l) + 1) /\ i \in 1..(j - 1)
  BY <1>1
<1> DEFINE b == Before(l, j)
<1>3. DOMAIN b = 1..(j - 1) /\ b[i] = l[i]
  BY <1>2, BeforeIsPrefix
<1>4. RecordValid(b, l[j])
  BY <1>2 DEF Replays
<1> HIDE DEF b
<1>5. FinalEvaluationStarted(b)
  BY <1>2, <1>3 DEF FinalEvaluationStarted, Records, Indices
<1>6. l[j].kind = "run"
  BY <1>4, <1>5, KnownKinds DEF RecordValid
<1>7. BodyValid(b, l[j])
  BY <1>4 DEF RecordValid
<1> QED
  BY <1>5, <1>6, <1>7 DEF BodyValid

\* A candidate is registered once, after its parents; a run is recorded once.
LEMMA ReplayHasLineage ==
    ASSUME NEW l, IsLedger(l), Replays(l)
    PROVE  /\ LineageWellFounded(l)
           /\ \A i, j \in Indices(l, "run") : RunKey(l[i]) = RunKey(l[j]) => i = j
<1>1. Len(l) \in Nat /\ DOMAIN l = 1..Len(l)
  BY DEF IsLedger
<1>2. ASSUME NEW i \in Indices(l, "candidate"), NEW j \in Indices(l, "candidate"), i < j
      PROVE  l[i].cand # l[j].cand
  <2>1. /\ i \in 1..(j - 1) /\ RecordValid(Before(l, j), l[j])
        /\ DOMAIN Before(l, j) = 1..(j - 1) /\ Before(l, j)[i] = l[i]
    BY <1>1, <1>2, RecordsAreValid DEF Indices
  <2>2. l[i].cand \in Candidates(Before(l, j))
    BY <1>2, <2>1 DEF Candidates, Records, Indices
  <2>3. l[j].cand \notin Candidates(Before(l, j))
    BY <1>2, <2>1 DEF RecordValid, BodyValid, Indices
  <2> QED
    BY <2>2, <2>3
<1>3. ASSUME NEW i \in Indices(l, "run"), NEW j \in Indices(l, "run"), i < j
      PROVE  RunKey(l[i]) # RunKey(l[j])
  <2>1. /\ i \in 1..(j - 1) /\ RecordValid(Before(l, j), l[j])
        /\ DOMAIN Before(l, j) = 1..(j - 1) /\ Before(l, j)[i] = l[i]
    BY <1>1, <1>3, RecordsAreValid DEF Indices
  <2>2. RunKey(l[i]) \in RunKeys(Before(l, j))
    BY <1>3, <2>1 DEF RunKeys, Records, Indices
  <2>3. RunKey(l[j]) \notin RunKeys(Before(l, j))
    BY <1>3, <2>1 DEF RecordValid, BodyValid, Indices
  <2> QED
    BY <2>2, <2>3
<1>4. ASSUME NEW i \in Indices(l, "candidate"), NEW p \in l[i].parents
      PROVE  \E j \in Indices(l, "candidate") : j < i /\ l[j].cand = p
  <2>1. /\ i \in 2..Len(l) /\ RecordValid(Before(l, i), l[i])
        /\ DOMAIN Before(l, i) = 1..(i - 1)
        /\ \A j \in 1..(i - 1) : Before(l, i)[j] = l[j]
    BY RecordsAreValid DEF Indices
  <2>2. p \in Candidates(Before(l, i))
    BY <2>1 DEF RecordValid, BodyValid, CandidateBodyValid, Indices
  <2>3. PICK j \in 1..(i - 1) : Before(l, i)[j].kind = "candidate" /\ Before(l, i)[j].cand = p
    BY <2>1, <2>2 DEF Candidates, Records, Indices
  <2>4. j \in Indices(l, "candidate") /\ j < i /\ l[j].cand = p
    BY <1>1, <2>1, <2>3 DEF Indices
  <2> QED
    BY <2>4
<1>5. ASSUME NEW i \in Indices(l, "candidate") PROVE i \in Int
  BY <1>1 DEF Indices
<1>6. ASSUME NEW i \in Indices(l, "run") PROVE i \in Int
  BY <1>1 DEF Indices
<1> QED
  BY <1>2, <1>3, <1>4, <1>5, <1>6 DEF LineageWellFounded

-----------------------------------------------------------------------------
(* Counting *)

\* Sets of equal size, by a one-to-one function onto.
LEMMA SameSize ==
    ASSUME NEW S, NEW T, IsFiniteSet(S), NEW f \in [S -> T],
           \A x, y \in S : f[x] = f[y] => x = y,
           \A z \in T : \E x \in S : f[x] = z
    PROVE  IsFiniteSet(T) /\ Cardinality(T) = Cardinality(S)
<1>1. f \in Bijection(S, T)
  BY DEF Bijection, Injection, Surjection, IsInjective
<1> QED
  BY <1>1, FS_Bijection DEF ExistsBijection

\* The k-th smallest member of a finite set of naturals is a member: the
\* numbers of smaller members are all the numbers below the set's size.
LEMMA OrderedIsMember ==
    ASSUME NEW S \in SUBSET Nat, IsFiniteSet(S), NEW k \in 0..(Cardinality(S) - 1)
    PROVE  Ordered(S, k) \in S /\ Cardinality({d \in S : d < Ordered(S, k)}) = k
<1> DEFINE n == Cardinality(S)
           Below(c) == {d \in S : d < c}
           f == [c \in S |-> Cardinality(Below(c))]
           T == {f[c] : c \in S}
<1>1. n \in Nat
  BY FS_CardinalityType
<1>2. ASSUME NEW c \in S
      PROVE  IsFiniteSet(Below(c)) /\ Cardinality(Below(c)) \in 0..(n - 1)
  <2>1. Below(c) \in SUBSET S /\ c \notin Below(c)
    OBVIOUS
  <2> HIDE DEF Below
  <2>2. /\ IsFiniteSet(Below(c)) /\ Cardinality(Below(c)) <= n
        /\ n = Cardinality(Below(c)) => S = Below(c)
    BY <2>1, FS_Subset
  <2>3. Cardinality(Below(c)) \in Nat
    BY <2>2, FS_CardinalityType
  <2> QED
    BY <1>1, <2>1, <2>2, <2>3
<1>3. ASSUME NEW c \in S, NEW d \in S, c < d PROVE f[c] # f[d]
  <2>0. \A x \in S : x \in Int
    OBVIOUS
  <2>1. Below(c) \in SUBSET Below(d) /\ c \in Below(d) /\ c \notin Below(c)
    <3>1. \A x \in Below(c) : x \in Below(d)
      BY <1>3, <2>0
    <3>2. c \in Below(d) /\ c \notin Below(c)
      BY <1>3, <2>0
    <3> QED
      BY <3>1, <3>2
  <2>2. IsFiniteSet(Below(d))
    BY <1>2
  <2> HIDE DEF Below
  <2>3. Cardinality(Below(d)) = Cardinality(Below(c)) => Below(d) = Below(c)
    BY <2>1, <2>2, FS_Subset
  <2> QED
    BY <2>1, <2>3
<1>4. \A c, d \in S : f[c] = f[d] => c = d
  BY <1>3
<1>5. f \in [S -> T] /\ \A z \in T : \E c \in S : f[c] = z
  OBVIOUS
<1>6. T \in SUBSET (0..(n - 1))
  BY <1>2
<1> HIDE DEF T, f
<1>7. IsFiniteSet(T) /\ Cardinality(T) = n
  BY <1>4, <1>5, SameSize
<1>8. IsFiniteSet(0..(n - 1)) /\ Cardinality(0..(n - 1)) = n
  <2> HIDE DEF n
  <2>1. IsFiniteSet(0..(n - 1)) /\ Cardinality(0..(n - 1)) = IF 0 > n - 1 THEN 0 ELSE n - 1 - 0 + 1
    BY <1>1, FS_Interval
  <2> QED
    BY <1>1, <2>1
<1>9. T = 0..(n - 1)
  BY <1>6, <1>7, <1>8, FS_Subset
<1>10. \E c \in S : Cardinality(Below(c)) = k
  BY <1>5, <1>9 DEF f
<1> QED
  BY <1>10 DEF Ordered

\* A finite set of naturals with a member has a largest one.
LEMMA MaxIsMember ==
    ASSUME NEW S \in SUBSET Nat, IsFiniteSet(S), S # {}
    PROVE  Max(S) \in S /\ \A y \in S : y <= Max(S)
<1> DEFINE n == Cardinality(S)
           m == Ordered(S, n - 1)
           B == {d \in S : d < m}
<1>1. n \in Nat /\ n # 0
  BY FS_CardinalityType, FS_EmptySet
<1>2. m \in S /\ Cardinality(B) = n - 1
  BY <1>1, OrderedIsMember
<1>3. S \ {m} = B
  <2>1. IsFiniteSet(S \ {m}) /\ Cardinality(S \ {m}) = n - 1
    BY <1>2, FS_RemoveElement
  <2>2. B \in SUBSET (S \ {m})
    <3> HIDE DEF m
    <3>1. m \in Nat
      BY <1>2
    <3>2. \A d \in B : d \in S /\ d # m
      BY <3>1
    <3> QED
      BY <3>2
  <2> HIDE DEF B, m
  <2> QED
    BY <1>2, <2>1, <2>2, FS_Subset
<1>4. \A y \in S : y <= m
  <2>1. m \in Nat
    BY <1>2
  <2>2. \A y \in S \ {m} : y \in Nat /\ y < m
    BY <1>3
  <2> HIDE DEF m
  <2> QED
    BY <2>1, <2>2
<1> QED
  BY <1>2, <1>4 DEF Max

\* The weighted draw falls on a member.
LEMMA DrawFalls ==
    ASSUME NEW num \in Int, NEW den \in Nat, NEW m \in Nat \ {0},
           den > 0, num \in 0..(den - 1)
    PROVE  (num * m) \div den \in 0..(m - 1)
<1> DEFINE q == (num * m) \div den
           x == num * m
<1>1. x \in Nat /\ x < den * m
  OBVIOUS
<1>2. q \in Int /\ den * q <= x /\ x < den * q + den
  OBVIOUS
<1> HIDE DEF q, x
<1>3. q < m
  <2> SUFFICES ASSUME q >= m PROVE FALSE
    BY <1>2
  <2>1. den * q >= den * m
    BY <1>2
  <2> QED
    BY <1>1, <1>2, <2>1
<1>4. q >= 0
  <2> SUFFICES ASSUME q <= -1 PROVE FALSE
    BY <1>2
  <2>1. den * q <= -den
    BY <1>2
  <2> QED
    BY <1>1, <1>2, <2>1
<1> QED
  BY <1>2, <1>3, <1>4 DEF q, x

-----------------------------------------------------------------------------
(* Archives and allocations *)

\* The members of an archive are those its aggregates select.
MembersFor(agg) == Selected(ViableScores(agg))

\* An archive record is of its kind, and has those members.
LEMMA ArchiveMembers ==
    ASSUME NEW l, NEW e
    PROVE  /\ ArchiveBody(l, e).kind = "archive"
           /\ DOMAIN ArchiveBody(l, e).members = MembersFor(Aggregates(l, e))
<1> DEFINE agg == Aggregates(l, e)
           scores == ViableScores(agg)
           Then(g, s) == ArchiveOf(l, e, g, s, Selected(s))
           Given(g) == CHOOSE y \in {Then(g, s) : s \in {ViableScores(g)}} : TRUE
<1>1. ArchiveBody(l, e) = CHOOSE y \in {Given(g) : g \in {agg}} : TRUE
  BY DEF ArchiveBody, With
<1> HIDE DEF agg
<1>2. Given(agg) = Then(agg, scores)
  <2> HIDE DEF Then
  <2> QED
    OBVIOUS
<1>3. ArchiveBody(l, e) = Given(agg)
  <2> HIDE DEF Given
  <2> QED
    BY <1>1
<1>4. ArchiveBody(l, e) = ArchiveOf(l, e, agg, scores, Selected(scores))
  BY <1>2, <1>3
<1> HIDE DEF scores, Given, Then
<1>5. /\ ArchiveBody(l, e).kind = "archive"
      /\ DOMAIN ArchiveBody(l, e).members = Selected(scores)
  BY <1>4 DEF ArchiveOf
<1> QED
  BY <1>5 DEF MembersFor, scores, agg

\* Only evaluated candidates become members.
LEMMA MembersAreEvaluated ==
    ASSUME NEW l, NEW e
    PROVE  MembersFor(Aggregates(l, e)) \subseteq Evaluated(l, e)
<1> DEFINE agg == Aggregates(l, e)
           scores == ViableScores(agg)
<1>1. DOMAIN agg = Evaluated(l, e)
  BY DEF Aggregates
<1> HIDE DEF agg
<1>2. DOMAIN scores = Viable(agg)
  BY DEF ViableScores
<1>3. Viable(agg) \subseteq DOMAIN agg
  BY DEF Viable
<1> HIDE DEF scores
<1>4. Frontier(scores) \subseteq DOMAIN scores
  BY DEF Frontier
<1>5. Selected(scores) \subseteq Frontier(scores)
  BY DEF Selected, With
<1> QED
  BY <1>1, <1>2, <1>3, <1>4, <1>5 DEF MembersFor, scores, agg

\* Aggregates depend on the experiment's runs alone.
LEMMA AggregatesOfRuns ==
    ASSUME NEW l, NEW m, NEW e,
           {r \in Records(l, "run") : r.exp = e} = {r \in Records(m, "run") : r.exp = e}
    PROVE  Aggregates(l, e) = Aggregates(m, e) /\ Evaluated(l, e) = Evaluated(m, e)
<1> DEFINE R(n) == {r \in Records(n, "run") : r.exp = e}
<1>1. Evaluated(l, e) = Evaluated(m, e)
  BY DEF Evaluated
<1>2. ASSUME NEW c PROVE {r \in Records(l, "run") : r.exp = e /\ r.cand = c}
                           = {r \in Records(m, "run") : r.exp = e /\ r.cand = c}
  OBVIOUS
<1> QED
  BY <1>1, <1>2 DEF Aggregates

\* What the request decoders check of the records' own values.
Typed(l) ==
    /\ \A i \in Indices(l, "candidate") : l[i].cand \in Candidate
    /\ \A i \in Indices(l, "allocation") : l[i].draw.denominator \in Nat

\* Evaluated candidates are registered ones, and finitely many.
LEMMA EvaluatedIsFinite ==
    ASSUME NEW l, IsLedger(l), Replays(l), Typed(l), NEW i \in 1..(Len(l) + 1), NEW e
    PROVE  /\ Evaluated(Before(l, i), e) \in SUBSET Nat
           /\ IsFiniteSet(Evaluated(Before(l, i), e))
<1> DEFINE b == Before(l, i)
           I == {j \in Indices(b, "run") : b[j].exp = e}
           E == Evaluated(b, e)
           f == [j \in I |-> b[j].cand]
<1>1. Len(l) \in Nat /\ DOMAIN l = 1..Len(l)
  BY DEF IsLedger
<1>2. DOMAIN b = 1..(i - 1) /\ \A j \in 1..(i - 1) : b[j] = l[j]
  BY BeforeIsPrefix
<1>3. E = {b[j].cand : j \in I}
  BY DEF Evaluated, Records
<1>4. ASSUME NEW j \in I PROVE b[j].cand \in Nat
  <2>1. j \in DOMAIN l /\ l[j].kind = "run" /\ b[j] = l[j]
    BY <1>1, <1>2 DEF Indices
  <2>2. /\ RecordValid(Before(l, j), l[j])
        /\ DOMAIN Before(l, j) = 1..(j - 1) /\ j \in 2..Len(l)
        /\ \A k \in 1..(j - 1) : Before(l, j)[k] = l[k]
    BY <2>1, RecordsAreValid
  <2>3. l[j].cand \in Candidates(Before(l, j))
    BY <2>1, <2>2 DEF RecordValid, BodyValid, RunBodyValid
  <2>4. PICK k \in 1..(j - 1) : l[k].kind = "candidate" /\ l[k].cand = l[j].cand
    BY <2>2, <2>3 DEF Candidates, Records, Indices
  <2>5. k \in Indices(l, "candidate")
    BY <1>1, <2>2, <2>4 DEF Indices
  <2> QED
    BY <2>1, <2>4, <2>5, CandidateAssumption DEF Typed
<1>5. IsFiniteSet(I)
  <2>1. IsFiniteSet(1..(i - 1))
    BY <1>1, FS_Interval
  <2>2. I \in SUBSET (1..(i - 1))
    BY <1>2 DEF Indices
  <2> QED
    BY <2>1, <2>2, FS_Subset
<1>6. E \in SUBSET Nat
  BY <1>3, <1>4
<1>7. f \in Surjection(I, E)
  <2>1. f \in [I -> E] /\ \A z \in E : \E j \in I : f[j] = z
    BY <1>3
  <2> HIDE DEF f, I, E
  <2> QED
    BY <2>1 DEF Surjection
<1> HIDE DEF f, I
<1>8. IsFiniteSet(E)
  BY <1>5, <1>7, FS_Surjection
<1> QED
  BY <1>6, <1>8

\* Every allocated parent is one that all the evidence so far selects: the
\* latest-archive and staleness rules of _allocation_body.
LEMMA ReplayAllocatesFresh ==
    ASSUME NEW l, IsLedger(l), Replays(l), Typed(l)
    PROVE  AllocationsFresh(l)
<1> SUFFICES ASSUME NEW i \in Indices(l, "allocation")
             PROVE  l[i].selected \in
                        DOMAIN ArchiveBody(Before(l, i), l[l[i].archive].exp).members
  BY DEF AllocationsFresh
<1> DEFINE b == Before(l, i)
           r == l[i]
           a == r.archive
           e == l[a].exp
           members == DOMAIN l[a].members
<1>1. Len(l) \in Nat /\ DOMAIN l = 1..Len(l)
  BY DEF IsLedger
<1>2. /\ i \in 2..Len(l) /\ RecordValid(b, r) /\ DOMAIN b = 1..(i - 1)
      /\ \A j \in 1..(i - 1) : b[j] = l[j]
  BY RecordsAreValid DEF Indices
<1>3. r.kind = "allocation"
  BY DEF Indices
<1>4. AllocationPossible(b, a, r.draw) /\ r = AllocationBody(b, a, r.draw)
  BY <1>2, <1>3 DEF RecordValid, BodyValid
<1>5. a \in 1..(i - 1) /\ b[a] = l[a] /\ l[a].kind = "archive"
  BY <1>2, <1>4 DEF AllocationPossible, Indices
<1>6. /\ a \in DOMAIN l /\ a \in 1..(Len(l) + 1)
      /\ RecordValid(Before(l, a), l[a]) /\ DOMAIN Before(l, a) = 1..(a - 1)
      /\ \A j \in 1..(a - 1) : Before(l, a)[j] = l[j]
  BY <1>1, <1>2, <1>5, RecordsAreValid
<1>7. l[a] = ArchiveBody(Before(l, a), e)
  BY <1>5, <1>6 DEF RecordValid, BodyValid
<1>8. members = MembersFor(Aggregates(Before(l, a), e))
  BY <1>7, ArchiveMembers
<1>9. {x \in Records(b, "run") : x.exp = e} = {x \in Records(Before(l, a), "run") : x.exp = e}
  <2> DEFINE J == {j \in Indices(b, "run") : b[j].exp = e}
  <2>1. \A j \in J : j <= a
    <3>1. J \in SUBSET Nat
      BY <1>2 DEF Indices
    <3>2. IsFiniteSet(J)
      <4>1. IsFiniteSet(1..(i - 1)) /\ J \in SUBSET (1..(i - 1))
        BY <1>2, FS_Interval DEF Indices
      <4> QED
        BY <4>1, FS_Subset
    <3>3. LastRun(b, e) <= a
      BY <1>4, <1>5 DEF AllocationPossible
    <3>4. LastRun(b, e) = IF J = {} THEN 0 ELSE Max(J)
      BY DEF LastRun, Latest
    <3> HIDE DEF J
    <3>5. CASE J # {}
      <4>1. Max(J) \in J /\ \A j \in J : j <= Max(J)
        BY <3>1, <3>2, <3>5, MaxIsMember
      <4>2. Max(J) <= a
        BY <3>3, <3>4, <3>5
      <4>3. Max(J) \in Nat /\ \A j \in J : j \in Nat
        BY <3>1, <4>1
      <4>4. a \in Nat
        BY <1>2, <1>5
      <4> HIDE DEF a
      <4> QED
        BY <4>1, <4>2, <4>3, <4>4
    <3> QED
      BY <3>5
  <2>2. \A j \in J : j \in 1..(a - 1)
    BY <1>2, <1>5, <2>1 DEF Indices
  <2>3. J = {j \in Indices(Before(l, a), "run") : Before(l, a)[j].exp = e}
    <3> DEFINE c == Before(l, a)
    <3>1. /\ DOMAIN c = 1..(a - 1) /\ \A j \in 1..(a - 1) : c[j] = l[j]
          /\ \A j \in 1..(a - 1) : j \in DOMAIN b /\ b[j] = l[j]
      BY <1>2, <1>5, <1>6
    <3>2. \A j \in 1..(a - 1) : j \in J <=> j \in {x \in Indices(c, "run") : c[x].exp = e}
      BY <3>1 DEF Indices
    <3>3. \A j \in {x \in Indices(c, "run") : c[x].exp = e} : j \in 1..(a - 1)
      BY <3>1 DEF Indices
    <3> HIDE DEF J
    <3> QED
      BY <2>2, <3>2, <3>3
  <2>4. \A j \in J : b[j] = Before(l, a)[j]
    BY <1>2, <1>5, <1>6, <2>2
  <2>5. {x \in Records(b, "run") : x.exp = e} = {b[j] : j \in J}
    BY DEF Records
  <2>6. {x \in Records(Before(l, a), "run") : x.exp = e} = {Before(l, a)[j] : j \in J}
    BY <2>3 DEF Records
  <2> HIDE DEF J, b, a, e
  <2> QED
    BY <2>4, <2>5, <2>6
<1>10. DOMAIN ArchiveBody(b, e).members = members
  BY <1>8, <1>9, AggregatesOfRuns, ArchiveMembers
<1>11. members \in SUBSET Nat /\ IsFiniteSet(members)
  <2>1. members \subseteq Evaluated(Before(l, a), e)
    BY <1>8, MembersAreEvaluated
  <2>2. /\ Evaluated(Before(l, a), e) \in SUBSET Nat
        /\ IsFiniteSet(Evaluated(Before(l, a), e))
    BY <1>6, EvaluatedIsFinite
  <2> HIDE DEF members, a, e
  <2> QED
    BY <2>1, <2>2, FS_Subset
<1>12. members # {} /\ DrawValid(r.draw)
  BY <1>4, <1>5 DEF AllocationPossible
<1> DEFINE n == Cardinality(members)
           k == (r.draw.numerator * n) \div r.draw.denominator
<1>13. r.selected = Ordered(members, k)
  BY <1>4, <1>5 DEF AllocationBody
<1> HIDE DEF members
<1>14. n \in Nat \ {0}
  BY <1>11, <1>12, FS_CardinalityType, FS_EmptySet
<1>15. k \in 0..(n - 1)
  <2>1. r.draw.denominator \in Nat
    BY DEF Typed
  <2>2. r.draw.denominator > 0 /\ r.draw.numerator \in 0..(r.draw.denominator - 1)
    BY <1>12 DEF DrawValid
  <2> DEFINE num == r.draw.numerator
             den == r.draw.denominator
  <2>3. num \in Int /\ den \in Nat /\ den > 0 /\ num \in 0..(den - 1)
    BY <2>1, <2>2
  <2> HIDE DEF n, num, den
  <2>4. (num * n) \div den \in 0..(n - 1)
    BY <1>14, <2>3, DrawFalls
  <2> QED
    BY <2>4 DEF num, den
<1>16. Ordered(members, k) \in members
  <2> HIDE DEF k
  <2> QED
    BY <1>11, <1>15, OrderedIsMember
<1> QED
  BY <1>10, <1>13, <1>16

\* An aggregate survives when every run it is made of does.
LEMMA SurvivalOfAggregate ==
    ASSUME NEW R, CandidateAggregate(R).survival, NEW r \in R
    PROVE  Survives(r.ev)
<1>1. CandidateAggregate(R).survival = \A x \in R : Survives(x.ev)
  BY Zenon DEF CandidateAggregate
<1> QED
  BY <1>1, Zenon

\* No parent is allocated with a failed run among the experiment's runs.
LEMMA ReplayAllocatesSurvivors ==
    ASSUME NEW l, IsLedger(l), Replays(l), Typed(l)
    PROVE  AllocatedParentsSurvived(l)
<1> SUFFICES ASSUME NEW i \in Indices(l, "allocation"), NEW j \in Indices(l, "run"),
                    j < i, l[j].exp = l[l[i].archive].exp, l[j].cand = l[i].selected
             PROVE  Survives(l[j].ev)
  BY DEF AllocatedParentsSurvived
<1> DEFINE b == Before(l, i)
           e == l[l[i].archive].exp
           c == l[i].selected
           agg == Aggregates(b, e)
<1>1. c \in MembersFor(agg)
  BY ReplayAllocatesFresh, ArchiveMembers DEF AllocationsFresh
<1>2. c \in Viable(agg)
  <2> HIDE DEF agg
  <2> DEFINE scores == ViableScores(agg)
  <2>1. DOMAIN scores = Viable(agg)
    BY DEF ViableScores
  <2> HIDE DEF scores
  <2>2. Selected(scores) \subseteq DOMAIN scores
    BY DEF Selected, With, Frontier
  <2> QED
    BY <1>1, <2>1, <2>2 DEF MembersFor, scores
<1> DEFINE R == {r \in Records(b, "run") : r.exp = e /\ r.cand = c}
<1>3. agg[c] = CandidateAggregate(R) /\ agg[c].survival
  <2>1. c \in DOMAIN agg /\ agg[c].survival
    <3> HIDE DEF agg
    <3> QED
      BY <1>2, Zenon DEF Viable
  <2>2. agg[c] = CandidateAggregate(R)
    BY <2>1 DEF Aggregates
  <2> QED
    BY <2>1, <2>2, Zenon
<1>4. l[j] \in R
  <2>1. Len(l) \in Nat /\ DOMAIN l = 1..Len(l)
    BY DEF IsLedger
  <2>2. DOMAIN b = 1..(i - 1) /\ (\A k \in 1..(i - 1) : b[k] = l[k]) /\ i \in 2..Len(l)
    BY RecordsAreValid DEF Indices
  <2>3. j \in 1..(i - 1) /\ l[j].kind = "run"
    BY <2>1, <2>2 DEF Indices
  <2> HIDE DEF b
  <2> QED
    BY <2>2, <2>3 DEF Records, Indices
<1> HIDE DEF R, agg
<1>5. CandidateAggregate(R).survival
  BY <1>3, Zenon
<1> QED
  BY <1>4, <1>5, SurvivalOfAggregate, Zenon

-----------------------------------------------------------------------------
(* The invariant behind the refinement.                                    *)

\* The shapes of the variables that the induction needs.
Shape ==
    /\ IsLedger(ledger)
    /\ pc \in [Process -> States]
    /\ view = [p \in Process |-> view[p]]
    /\ body = [p \in Process |-> body[p]]
    /\ request = [p \in Process |-> request[p]]

\* Only the creator of the lock directory is past its mkdir.
Exclusive == \A p \in Process : pc[p] # "idle" => lock = p

\* What a process decided from is still what the file holds.
Current ==
    \A p \in Process :
        /\ pc[p] \in {"loaded", "appending", "writing"} => view[p] = ledger
        /\ pc[p] \in {"appending", "writing"} => body[p] \in Appendable(ledger, request[p])

IInv == Shape /\ Exclusive /\ Current

LEMMA InitInvariant == Init => IInv
<1> SUFFICES ASSUME Init PROVE IInv
  OBVIOUS
<1> QED
  BY EmptyIsLedger DEF Init, IInv, Shape, Exclusive, Current, States

\* One step per action: what it appends was computed from the ledger as it is.
LEMMA StepInvariant == IInv /\ [Next]_vars => IInv'
<1> SUFFICES ASSUME IInv, [Next]_vars PROVE IInv'
  OBVIOUS
<1> USE DEF IInv, Shape, Exclusive, Current, States, Goto
<1>1. ASSUME NEW p \in Process, NEW q \in Request, Start(p, q) PROVE IInv'
  BY <1>1, NoProcessAssumption DEF Start
<1>2. ASSUME NEW p \in Process, Load(p) PROVE IInv'
  BY <1>2 DEF Load
<1>3. ASSUME NEW p \in Process, Validate(p) PROVE IInv'
  BY <1>3 DEF Validate
<1>4. ASSUME NEW p \in Process, BeginAppend(p) PROVE IInv'
  BY <1>4 DEF BeginAppend
<1>5. ASSUME NEW p \in Process, FinishAppend(p) PROVE IInv'
  <2>1. IsLedger(ledger')
    BY <1>5, AppendIsLedger DEF FinishAppend
  <2> QED
    BY <1>5, <2>1 DEF FinishAppend
<1>6. ASSUME NEW p \in Process, FailAppend(p) PROVE IInv'
  BY <1>6 DEF FailAppend
<1>7. ASSUME NEW p \in Process, Read(p) PROVE IInv'
  BY <1>7 DEF Read
<1>8. ASSUME NEW p \in Process, Release(p) PROVE IInv'
  BY <1>8 DEF Release
<1>9. ASSUME NEW p \in Process, Crash(p) PROVE IInv'
  BY <1>9 DEF Crash
<1>10. ASSUME RemoveAbandonedLock PROVE IInv'
  BY <1>10 DEF RemoveAbandonedLock, process
<1>11. ASSUME UNCHANGED vars PROVE IInv'
  BY <1>11 DEF vars
<1> QED
  BY <1>1, <1>2, <1>3, <1>4, <1>5, <1>6, <1>7, <1>8, <1>9, <1>10, <1>11
  DEF Next, Step

\* Only FinishAppend changes the ledger, and it performs an atomic append of
\* a record that is valid against the ledger as it is.
LEMMA StepRefines == IInv /\ [Next]_vars => [Abstract!Next]_ledger
<1> SUFFICES ASSUME IInv, [Next]_vars, ledger' # ledger PROVE Abstract!Next
  OBVIOUS
<1>1. PICK p \in Process : FinishAppend(p)
  BY DEF vars, Next, Step, Start, Load, Validate, BeginAppend, FailAppend,
         Read, Release, Crash, RemoveAbandonedLock
<1>2. body[p] \in Appendable(ledger, request[p]) /\ ledger' = Append(ledger, body[p])
  BY <1>1 DEF FinishAppend, IInv, Current
<1>3. CASE ledger = << >>
  <2>1. body[p] = Header
    BY <1>2, <1>3 DEF Appendable
  <2> QED
    BY <1>2, <1>3, <2>1 DEF Abstract!Next, Abstract!Initialize
<1>4. CASE ledger # << >>
  <2>1. RecordValid(ledger, body[p])
    BY <1>2, <1>4 DEF Appendable
  <2>2. Len(ledger') = Len(ledger) + 1 /\ ledger'[Len(ledger) + 1] = body[p]
    BY <1>2, AppendIsLedger DEF IInv, Shape
  <2> QED
    BY <1>2, <1>4, <2>1, <2>2 DEF Abstract!Next, Abstract!AppendRecord
<1> QED
  BY <1>3, <1>4

\* Every behaviour of the overlapping, failing and crashing invocations is a
\* behaviour of the atomic ledger (locked_state, append_validated_record).
THEOREM CommandsImplementLedger == Spec => LedgerAtomic
<1>1. Init => Abstract!Init
  BY DEF Init, Abstract!Init
<1> QED
  BY <1>1, InitInvariant, StepInvariant, StepRefines, PTL
  DEF Spec, LedgerAtomic, Abstract!Spec

-----------------------------------------------------------------------------
(* The ledger replays, and what follows from it *)

\* The file of complete lines is a ledger that load_state accepts.
LedgerReplays == ledger # << >> => Replays(ledger)

LEMMA StepReplays == IInv /\ LedgerReplays /\ [Next]_vars => LedgerReplays'
<1> SUFFICES ASSUME IInv, LedgerReplays, [Next]_vars, ledger' # ledger
             PROVE  LedgerReplays'
  BY DEF LedgerReplays
<1>1. PICK p \in Process : FinishAppend(p)
  BY DEF vars, Next, Step, Start, Load, Validate, BeginAppend, FailAppend,
         Read, Release, Crash, RemoveAbandonedLock
<1>2. body[p] \in Appendable(ledger, request[p]) /\ ledger' = Append(ledger, body[p])
  BY <1>1 DEF FinishAppend, IInv, Current
<1>3. \/ ledger = << >> /\ body[p] = Header
      \/ ledger # << >> /\ RecordValid(ledger, body[p])
  BY <1>2 DEF Appendable
<1> QED
  BY <1>2, <1>3, AppendReplays DEF IInv, Shape, LedgerReplays

\* Whatever overlaps, fails or dies, the complete lines replay from the header.
THEOREM LedgerAlwaysReplays == Spec => [](IInv /\ LedgerReplays)
<1>1. Init => LedgerReplays
  BY DEF Init, LedgerReplays
<1> QED
  BY <1>1, InitInvariant, StepInvariant, StepReplays, PTL DEF Spec

\* Behind a final run there are only final runs (the seal of _apply_record).
THEOREM SealIsKept == Spec => []SealHolds
<1>1. IInv /\ LedgerReplays => SealHolds
  BY ReplayIsSealed, EmptyIsLedger DEF IInv, Shape, LedgerReplays, SealHolds, SearchSealed
<1> QED
  BY <1>1, LedgerAlwaysReplays, PTL

\* A candidate is registered once and behind its parents (_candidate_body).
THEOREM LineageIsKept == Spec => []LineageIsWellFounded
<1>1. IInv /\ LedgerReplays => LineageIsWellFounded
  BY ReplayHasLineage
  DEF IInv, Shape, LedgerReplays, LineageIsWellFounded, LineageWellFounded, Indices
<1> QED
  BY <1>1, LedgerAlwaysReplays, PTL

-----------------------------------------------------------------------------
(* Incomplete lines *)

\* An invocation gets past load_state only when the file ends in a whole line.
WholeLine == \A p \in Process : pc[p] \in {"loaded", "appending"} => ~ torn

LEMMA StepWholeLine == IInv /\ WholeLine /\ [Next]_vars => WholeLine'
<1> SUFFICES ASSUME IInv, WholeLine, [Next]_vars PROVE WholeLine'
  OBVIOUS
<1> USE DEF IInv, Shape, Exclusive, WholeLine, Goto, States
<1>1. ASSUME NEW p \in Process, NEW q \in Request, Start(p, q) PROVE WholeLine'
  BY <1>1 DEF Start
<1>2. ASSUME NEW p \in Process, Load(p) PROVE WholeLine'
  BY <1>2 DEF Load
<1>3. ASSUME NEW p \in Process, Validate(p) PROVE WholeLine'
  BY <1>3 DEF Validate
<1>4. ASSUME NEW p \in Process, BeginAppend(p) PROVE WholeLine'
  BY <1>4 DEF BeginAppend
<1>5. ASSUME NEW p \in Process,
             FinishAppend(p) \/ FailAppend(p) \/ Read(p) \/ Release(p) \/ Crash(p)
      PROVE  WholeLine'
  BY <1>5 DEF FinishAppend, FailAppend, Read, Release, Crash
<1>6. ASSUME RemoveAbandonedLock \/ UNCHANGED vars PROVE WholeLine'
  BY <1>6 DEF RemoveAbandonedLock, vars, process
<1> QED
  BY <1>1, <1>2, <1>3, <1>4, <1>5, <1>6 DEF Next, Step

\* No line is ever written behind an incomplete one.
THEOREM TornLineStaysLast == Spec => TornLineIsLast
<1>1. Init => WholeLine
  BY DEF Init, WholeLine
<1>2. WholeLine /\ [Next]_vars =>
          [\A p \in Process : (pc[p] = "appending" /\ pc'[p] = "writing") => ~ torn]_vars
  BY DEF WholeLine
<1> QED
  BY <1>1, <1>2, InitInvariant, StepInvariant, StepWholeLine, PTL DEF Spec, TornLineIsLast

-----------------------------------------------------------------------------
(* The projection's answers *)

\* A ledger in which candidates and run keys are registered once.
Registered(l) ==
    /\ IsLedger(l)
    /\ \A i, j \in Indices(l, "candidate") : l[i].cand = l[j].cand => i = j
    /\ \A i, j \in Indices(l, "run") : RunKey(l[i]) = RunKey(l[j]) => i = j

\* The tables have one row per record of their kind.
LEMMA RowsAreCounted ==
    ASSUME NEW l, Registered(l)
    PROVE  /\ Cardinality(Projection(l).candidates) = Cardinality(Candidates(l))
           /\ Cardinality(Projection(l).runs) = Cardinality(RunKeys(l))
           /\ Cardinality(Projection(l).records) = Len(l)
<1>1. Len(l) \in Nat /\ DOMAIN l = 1..Len(l)
  BY DEF Registered, IsLedger
<1>2. IsFiniteSet(DOMAIN l) /\ Cardinality(DOMAIN l) = Len(l)
  <2> DEFINE n == Len(l)
  <2>1. n \in Nat /\ DOMAIN l = 1..n
    BY <1>1
  <2> HIDE DEF n
  <2>2. IsFiniteSet(1..n) /\ Cardinality(1..n) = IF 1 > n THEN 0 ELSE n - 1 + 1
    BY <2>1, FS_Interval
  <2>3. Cardinality(1..n) = n
    BY <2>1, <2>2
  <2> QED
    BY <2>1, <2>2, <2>3 DEF n
<1>3. \A kind : IsFiniteSet(Indices(l, kind))
  <2> TAKE kind
  <2>1. Indices(l, kind) \in SUBSET (DOMAIN l)
    BY DEF Indices
  <2> QED
    BY <1>2, <2>1, FS_Subset
<1>4. Cardinality(Projection(l).candidates) = Cardinality(Candidates(l))
  <2> DEFINE I == Indices(l, "candidate")
             T == {<<l[i].cand, i>> : i \in I}
             C == {l[i].cand : i \in I}
             f == [i \in I |-> <<l[i].cand, i>>]
             g == [i \in I |-> l[i].cand]
  <2>1. f \in [I -> T] /\ (\A x, y \in I : f[x] = f[y] => x = y)
        /\ \A z \in T : \E x \in I : f[x] = z
    OBVIOUS
  <2>2. g \in [I -> C] /\ (\A x, y \in I : g[x] = g[y] => x = y)
        /\ \A z \in C : \E x \in I : g[x] = z
    BY DEF Registered
  <2>3. IsFiniteSet(I)
    BY <1>3
  <2>4. Projection(l).candidates = T
    BY DEF Projection
  <2>5. Candidates(l) = C
    BY DEF Candidates, Records
  <2> HIDE DEF I, T, C, f, g
  <2> QED
    BY <2>1, <2>2, <2>3, <2>4, <2>5, SameSize
<1>5. Cardinality(Projection(l).runs) = Cardinality(RunKeys(l))
  <2> DEFINE I == Indices(l, "run")
             T == {<<i, RunKey(l[i]), l[i].ev>> : i \in I}
             C == {RunKey(l[i]) : i \in I}
             f == [i \in I |-> <<i, RunKey(l[i]), l[i].ev>>]
             g == [i \in I |-> RunKey(l[i])]
  <2>1. f \in [I -> T] /\ (\A x, y \in I : f[x] = f[y] => x = y)
        /\ \A z \in T : \E x \in I : f[x] = z
    OBVIOUS
  <2>2. g \in [I -> C] /\ (\A x, y \in I : g[x] = g[y] => x = y)
        /\ \A z \in C : \E x \in I : g[x] = z
    BY DEF Registered
  <2>3. IsFiniteSet(I)
    BY <1>3
  <2>4. Projection(l).runs = T
    BY DEF Projection
  <2>5. RunKeys(l) = C
    BY DEF RunKeys, Records
  <2> HIDE DEF I, T, C, f, g
  <2>6. Cardinality(T) = Cardinality(I)
    BY <2>1, <2>3, SameSize
  <2>7. Cardinality(C) = Cardinality(I)
    BY <2>2, <2>3, SameSize
  <2> QED
    BY <2>4, <2>5, <2>6, <2>7
<1>6. Cardinality(Projection(l).records) = Len(l)
  <2> DEFINE I == DOMAIN l
             T == {<<i, l[i].kind>> : i \in I}
             f == [i \in I |-> <<i, l[i].kind>>]
  <2>1. f \in [I -> T] /\ (\A x, y \in I : f[x] = f[y] => x = y)
        /\ \A z \in T : \E x \in I : f[x] = z
    OBVIOUS
  <2>2. Projection(l).records = T
    BY DEF Projection
  <2> HIDE DEF T, f
  <2> QED
    BY <1>2, <2>1, <2>2, SameSize
<1> QED
  BY <1>4, <1>5, <1>6

\* The lineage table gives each candidate the parents of its record.
LEMMA LineageIsTold ==
    ASSUME NEW l, Registered(l), NEW i \in Indices(l, "candidate")
    PROVE  /\ Parents(Projection(l), l[i].cand) = l[i].parents
           /\ \A c : l[i].cand \in Children(Projection(l), c) <=> c \in l[i].parents
<1> DEFINE T == UNION {{<<r.cand, p>> : p \in r.parents} : r \in Records(l, "candidate")}
<1>1. Projection(l).lineage = T
  BY DEF Projection
<1>2. ASSUME NEW x PROVE x \in T <=> \E j \in Indices(l, "candidate") :
                                        \E p \in l[j].parents : x = <<l[j].cand, p>>
  BY DEF Records
<1>3. ASSUME NEW c PROVE <<l[i].cand, c>> \in T <=> c \in l[i].parents
  <2>1. \A j \in Indices(l, "candidate") : l[i].cand = l[j].cand => i = j
    BY DEF Registered
  <2>2. <<l[i].cand, c>> \in T
            <=> \E j \in Indices(l, "candidate") :
                    \E p \in l[j].parents : <<l[i].cand, c>> = <<l[j].cand, p>>
    BY <1>2
  <2> HIDE DEF T
  <2> QED
    BY <2>1, <2>2
<1> HIDE DEF T
<1>4. \A x \in T : x = <<x[1], x[2]>>
  BY <1>2
<1>5. Parents(Projection(l), l[i].cand) = l[i].parents
  <2>1. \A c : c \in Parents(Projection(l), l[i].cand) <=> <<l[i].cand, c>> \in T
    BY <1>1, <1>4 DEF Parents
  <2>2. \A c : c \in Parents(Projection(l), l[i].cand) <=> c \in l[i].parents
    BY <1>3, <2>1
  <2> QED
    BY <2>2
<1>6. \A c : l[i].cand \in Children(Projection(l), c) <=> <<l[i].cand, c>> \in T
  BY <1>1, <1>4 DEF Children
<1> QED
  BY <1>3, <1>5, <1>6

\* An answer read from the projection of a ledger is true of that ledger.
LEMMA AnswersAreTrue ==
    ASSUME NEW l, Registered(l), NEW q, NEW a \in QueryAnswers(Projection(l), q),
           q.type \in {"summary", "candidates", "lineage", "archive"}
    PROVE  AnswerHolds(l, q, a)
<1> DEFINE t == Projection(l)
<1>1. CASE q.type = "summary"
  <2>1. a = SummaryOf(t)
    BY <1>1 DEF QueryAnswers
  <2>2. t.metadata.finalEvaluationStarted
            = \E i \in Indices(l, "run") : Role[l[i].exp] = "final"
    BY DEF Projection, FinalEvaluationStarted, Records
  <2> HIDE DEF t
  <2>3. /\ a.candidates = Cardinality(t.candidates) /\ a.runs = Cardinality(t.runs)
        /\ a.records = Cardinality(t.records)
        /\ a.metadata = t.metadata
    BY <2>1 DEF SummaryOf
  <2> QED
    BY <1>1, <2>2, <2>3, RowsAreCounted DEF AnswerHolds, t
<1>2. CASE q.type = "candidates"
  <2> DEFINE I == Indices(l, "candidate")
  <2>1. a = [parents |-> {<<row[1], Parents(t, row[1])>> : row \in t.candidates}]
    BY <1>2 DEF QueryAnswers
  <2>2. t.candidates = {<<l[i].cand, i>> : i \in I}
    BY DEF Projection
  <2>3. \A i \in I : Parents(t, l[i].cand) = l[i].parents
    BY LineageIsTold
  <2> HIDE DEF t
  <2>4. a.parents = {<<l[i].cand, Parents(t, l[i].cand)>> : i \in I}
    <3> DEFINE R(i) == <<l[i].cand, i>>
               P(c) == <<c, Parents(t, c)>>
    <3>1. a.parents = {P(row[1]) : row \in t.candidates}
      BY <2>1
    <3>2. \A i \in I : R(i)[1] = l[i].cand
      OBVIOUS
    <3>3. \A x : x \in t.candidates <=> \E i \in I : x = R(i)
      BY <2>2
    <3> HIDE DEF R, P, I
    <3>4. {P(row[1]) : row \in t.candidates} = {P(l[i].cand) : i \in I}
      BY <3>2, <3>3
    <3> QED
      BY <3>1, <3>4 DEF P
  <2>5. a.parents = {<<l[i].cand, l[i].parents>> : i \in I}
    BY <2>3, <2>4
  <2>6. {<<r.cand, r.parents>> : r \in Records(l, "candidate")}
            = {<<l[i].cand, l[i].parents>> : i \in I}
    BY DEF Records
  <2> QED
    BY <1>2, <2>5, <2>6 DEF AnswerHolds
<1>3. CASE q.type = "lineage"
  <2>1. PICK c \in {row[1] : row \in t.candidates} \cap {q.cand} :
            a = [parents |-> Parents(t, c), children |-> Children(t, c)]
    BY <1>3 DEF QueryAnswers
  <2>2. a.parents = Parents(t, q.cand) /\ a.children = Children(t, q.cand)
    BY <2>1
  <2> HIDE DEF t
  <2>3. ASSUME NEW i \in Indices(l, "candidate")
        PROVE  /\ l[i].cand = q.cand => a.parents = l[i].parents
               /\ l[i].cand \in a.children <=> q.cand \in l[i].parents
    BY <2>2, LineageIsTold DEF t
  <2> QED
    BY <1>3, <2>3 DEF AnswerHolds
<1>4. CASE q.type = "archive"
  <2> DEFINE I == Indices(l, "archive")
  <2>1. PICK id \in ArchiveAsked(t, q) : a = ArchiveAnswer(t, id)
    BY <1>4 DEF QueryAnswers
  <2>2. a.archive = id
        /\ a.members = {<<row[2], row[3]>> : row \in {x \in t.archive_members : x[1] = id}}
    BY <2>1 DEF ArchiveAnswer
  <2>3. {row[1] : row \in t.archive_events} = I
    <3>1. t.archive_events = {<<i, l[i].exp, l[i].excluded>> : i \in I}
      BY DEF Projection
    <3> HIDE DEF t
    <3> DEFINE R(i) == <<i, l[i].exp, l[i].excluded>>
    <3>2. \A i \in I : R(i)[1] = i
      OBVIOUS
    <3>3. \A x : x \in t.archive_events <=> \E i \in I : x = R(i)
      BY <3>1
    <3> HIDE DEF R, I
    <3> QED
      BY <3>2, <3>3
  <2>4. id \in I /\ (q.archive = 0 => \A i \in I : i <= id)
    BY <2>1, <2>3 DEF ArchiveAsked
  <2>5. a.members = {<<c, l[id].members[c]>> : c \in DOMAIN l[id].members}
    <3> DEFINE T == UNION {{<<i, c, l[i].members[c]>> : c \in DOMAIN l[i].members} : i \in I}
    <3>1. t.archive_members = T
      BY DEF Projection
    <3>2. \A x : x \in T <=> \E i \in I : \E c \in DOMAIN l[i].members :
                                 x = <<i, c, l[i].members[c]>>
      OBVIOUS
    <3> HIDE DEF T
    <3> DEFINE Z == {x \in T : x[1] = id}
    <3>3. \A x : x \in Z <=> \E c \in DOMAIN l[id].members : x = <<id, c, l[id].members[c]>>
      BY <2>4, <3>2
    <3>4. a.members = {<<row[2], row[3]>> : row \in Z}
      BY <2>2, <3>1
    <3> HIDE DEF Z, t
    <3> DEFINE m == l[id].members
               D == DOMAIN l[id].members
    <3>5. ASSUME NEW row \in Z PROVE \E c \in D : <<row[2], row[3]>> = <<c, m[c]>>
      <4>1. PICK c \in D : row = <<id, c, m[c]>>
        BY <3>3
      <4>2. row[2] = c /\ row[3] = m[c]
        BY <4>1
      <4> QED
        BY <4>2
    <3>6. ASSUME NEW c \in D PROVE \E row \in Z : <<row[2], row[3]>> = <<c, m[c]>>
      <4> DEFINE row == <<id, c, m[c]>>
      <4>1. row \in Z
        BY <3>3
      <4>2. row[2] = c /\ row[3] = m[c]
        OBVIOUS
      <4> QED
        BY <4>1, <4>2
    <3> HIDE DEF m, D
    <3>7. {<<row[2], row[3]>> : row \in Z} = {<<c, m[c]>> : c \in D}
      BY <3>5, <3>6
    <3> QED
      BY <3>4, <3>7 DEF m, D
  <2> QED
    BY <1>4, <2>2, <2>4, <2>5 DEF AnswerHolds
<1> QED
  BY <1>1, <1>2, <1>3, <1>4

\* An answer is held only until its command releases the lock, and is true.
Answering ==
    /\ answered = [p \in Process |-> answered[p]]
    /\ \A p \in Process :
        /\ pc[p] # "releasing" => answered[p] = {}
        /\ pc[p] # "idle" => request[p] \in Request
        /\ \A a \in answered[p] : AnswerHolds(ledger, request[p], a)

LEMMA LedgerIsRegistered == IInv /\ LedgerReplays => Registered(ledger)
<1> SUFFICES ASSUME IInv, LedgerReplays PROVE Registered(ledger)
  OBVIOUS
<1>1. IsLedger(ledger)
  BY DEF IInv, Shape
<1>2. CASE ledger = << >>
  BY <1>1, <1>2 DEF Registered, Indices
<1>3. CASE ledger # << >>
  BY <1>1, <1>3, ReplayHasLineage DEF LedgerReplays, Registered, LineageWellFounded
<1> QED
  BY <1>2, <1>3

LEMMA StepAnswering == IInv /\ LedgerReplays /\ Answering /\ [Next]_vars => Answering'
<1> SUFFICES ASSUME IInv, LedgerReplays, Answering, [Next]_vars PROVE Answering'
  OBVIOUS
<1> USE DEF IInv, Shape, Exclusive, Current, Answering, Goto, States
<1>1. ASSUME NEW p \in Process, NEW q \in Request, Start(p, q) PROVE Answering'
  BY <1>1 DEF Start
<1>2. ASSUME NEW p \in Process, Load(p) \/ Validate(p) \/ BeginAppend(p) \/ FailAppend(p)
      PROVE  Answering'
  BY <1>2 DEF Load, Validate, BeginAppend, FailAppend
<1>3. ASSUME NEW p \in Process, FinishAppend(p) PROVE Answering'
  <2>1. \A r \in Process : answered[r] = {}
    BY <1>3 DEF FinishAppend
  <2> QED
    BY <1>3, <2>1 DEF FinishAppend
<1>4. ASSUME NEW p \in Process, Read(p) PROVE Answering'
  <2>1. /\ pc[p] = "loaded" /\ view[p] = ledger /\ request[p] \in Request
        /\ pc' = [pc EXCEPT ![p] = "releasing"] /\ UNCHANGED <<ledger, request>>
    BY <1>4 DEF Read
  <2>2. CASE request[p].command = "query" /\ IndexMatches(index, view[p])
    <3> DEFINE new == QueryAnswers(index, request[p])
    <3>1. answered' = [answered EXCEPT ![p] = new]
      BY <1>4, <2>2 DEF Read
    <3>2. index = Projection(ledger)
      BY <2>1, <2>2 DEF IndexMatches
    <3>3. request[p].type \in {"summary", "candidates", "lineage", "archive"}
      BY <2>1, <2>2, RequestAssumption
    <3>4. \A a \in new : AnswerHolds(ledger, request[p], a)
      BY <3>2, <3>3, LedgerIsRegistered, AnswersAreTrue
    <3> HIDE DEF new
    <3> QED
      BY <2>1, <3>1, <3>4
  <2>3. CASE ~ (request[p].command = "query" /\ IndexMatches(index, view[p]))
    <3>1. answered' = answered
      BY <1>4, <2>3 DEF Read
    <3> QED
      BY <2>1, <3>1
  <2> QED
    BY <2>2, <2>3
<1>5. ASSUME NEW p \in Process, Release(p) \/ Crash(p) PROVE Answering'
  BY <1>5 DEF Release, Crash
<1>6. ASSUME RemoveAbandonedLock \/ UNCHANGED vars PROVE Answering'
  BY <1>6 DEF RemoveAbandonedLock, process, vars
<1> QED
  BY <1>1, <1>2, <1>3, <1>4, <1>5, <1>6 DEF Next, Step

\* What a query prints is true of the ledger as it is when it is printed,
\* whatever projection it found (verify_index in query_index, under the lock).
THEOREM AnswersAreCurrent == Spec => []QueriesAreCurrent
<1>1. Init => Answering
  BY DEF Init, Answering
<1>2. Answering => QueriesAreCurrent
  BY DEF Answering, QueriesAreCurrent
<1> QED
  BY <1>1, <1>2, LedgerAlwaysReplays, StepAnswering, PTL DEF Spec

-----------------------------------------------------------------------------
(* Allocations *)

\* What is appended carries the values the request decoders checked.
TypedLedger ==
    /\ Typed(ledger)
    /\ \A p \in Process :
        pc[p] \in {"appending", "writing"} => request[p].command \in Appending

LEMMA BodyIsTyped ==
    ASSUME NEW l, NEW q \in Request, q.command \in Appending, NEW r \in Appendable(l, q)
    PROVE  /\ r.kind = "candidate" => r.cand \in Candidate
           /\ r.kind = "allocation" => r.draw.denominator \in Nat
<1>1. r = Header \/ r \in Bodies(l, q)
  BY DEF Appendable
<1>2. CASE r = Header
  BY <1>2 DEF Header
<1>3. CASE r \in Bodies(l, q) /\ q.command = "candidate"
  BY <1>3, RequestAssumption DEF Bodies, CandidateRecord
<1>4. CASE r \in Bodies(l, q) /\ q.command = "recombine"
  BY <1>4 DEF Bodies, CandidateRecord
<1>5. CASE r \in Bodies(l, q) /\ q.command = "allocate"
  BY <1>5, RequestAssumption DEF Bodies, AllocationBody
<1>6. CASE r \in Bodies(l, q) /\ q.command = "archive"
  <2>1. PICK e : r = ArchiveBody(l, e)
    BY <1>6 DEF Bodies
  <2>2. r.kind = "archive"
    BY <2>1, ArchiveMembers
  <2> QED
    BY <2>2
<1>7. CASE r \in Bodies(l, q) /\ q.command \in {"init", "experiment", "run"}
  BY <1>7 DEF Bodies, Header
<1> QED
  BY <1>1, <1>2, <1>3, <1>4, <1>5, <1>6, <1>7 DEF Appending

LEMMA StepTyped == IInv /\ Answering /\ TypedLedger /\ [Next]_vars => TypedLedger'
<1> SUFFICES ASSUME IInv, Answering, TypedLedger, [Next]_vars PROVE TypedLedger'
  OBVIOUS
<1> USE DEF IInv, Shape, Exclusive, TypedLedger, Goto, States
<1>1. ASSUME NEW p \in Process, NEW q \in Request, Start(p, q) PROVE TypedLedger'
  BY <1>1 DEF Start, Typed
<1>2. ASSUME NEW p \in Process, Validate(p) PROVE TypedLedger'
  BY <1>2 DEF Validate
<1>3. ASSUME NEW p \in Process,
             Load(p) \/ BeginAppend(p) \/ FailAppend(p) \/ Read(p) \/ Release(p) \/ Crash(p)
      PROVE  TypedLedger'
  BY <1>3 DEF Load, BeginAppend, FailAppend, Read, Release, Crash
<1>4. ASSUME NEW p \in Process, FinishAppend(p) PROVE TypedLedger'
  <2>1. /\ pc[p] = "writing" /\ ledger' = Append(ledger, body[p])
        /\ pc' = [pc EXCEPT ![p] = "releasing"] /\ UNCHANGED request
    BY <1>4 DEF FinishAppend
  <2>2. /\ body[p] \in Appendable(ledger, request[p]) /\ request[p] \in Request
        /\ request[p].command \in Appending
    BY <2>1 DEF Current, Answering
  <2>3. /\ body[p].kind = "candidate" => body[p].cand \in Candidate
        /\ body[p].kind = "allocation" => body[p].draw.denominator \in Nat
    BY <2>2, BodyIsTyped
  <2>4. /\ Len(ledger') = Len(ledger) + 1 /\ Len(ledger) \in Nat
        /\ DOMAIN ledger = 1..Len(ledger) /\ DOMAIN ledger' = 1..Len(ledger')
        /\ ledger'[Len(ledger) + 1] = body[p]
        /\ \A i \in 1..Len(ledger) : ledger'[i] = ledger[i]
    BY <2>1, AppendIsLedger DEF IsLedger
  <2>5. Typed(ledger')
    <3>1. ASSUME NEW i \in DOMAIN ledger' PROVE i = Len(ledger) + 1 \/ i \in DOMAIN ledger
      BY <2>4
    <3>2. ASSUME NEW i \in Indices(ledger', "candidate") PROVE ledger'[i].cand \in Candidate
      BY <2>3, <2>4, <3>1 DEF Typed, Indices
    <3>3. ASSUME NEW i \in Indices(ledger', "allocation")
          PROVE  ledger'[i].draw.denominator \in Nat
      BY <2>3, <2>4, <3>1 DEF Typed, Indices
    <3> QED
      BY <3>2, <3>3 DEF Typed
  <2> QED
    BY <2>1, <2>5
<1>5. ASSUME RemoveAbandonedLock \/ UNCHANGED vars PROVE TypedLedger'
  BY <1>5 DEF RemoveAbandonedLock, process, vars
<1> QED
  BY <1>1, <1>2, <1>3, <1>4, <1>5 DEF Next, Step

\* The ledger replays, and its values are of their types.
Selecting == IInv /\ LedgerReplays /\ TypedLedger

LEMMA AlwaysSelecting == Spec => []Selecting
<1>1. Init => Answering /\ TypedLedger
  BY DEF Init, Answering, TypedLedger, Typed, Indices
<1> QED
  BY <1>1, LedgerAlwaysReplays, StepAnswering, StepTyped, PTL DEF Spec, Selecting

\* A parent is allocated from all the evidence there is: recomputing its
\* archive from every earlier record still selects it (_allocation_body).
THEOREM AllocationsStayFresh == Spec => []AllocationsAreFresh
<1>1. Selecting => AllocationsAreFresh
  <2> SUFFICES ASSUME Selecting PROVE AllocationsFresh(ledger)
    BY DEF AllocationsAreFresh
  <2>1. CASE ledger = << >>
    BY <2>1 DEF AllocationsFresh, Indices
  <2>2. CASE ledger # << >>
    BY <2>2, ReplayAllocatesFresh DEF Selecting, IInv, Shape, LedgerReplays, TypedLedger
  <2> QED
    BY <2>1, <2>2
<1> QED
  BY <1>1, AlwaysSelecting, PTL

\* No candidate with a failed run in its experiment is allocated as a parent
\* (survival in _candidate_aggregate and _archive_body).
THEOREM OnlySurvivorsAreParents == Spec => []OnlySurvivorsAllocated
<1>1. Selecting => OnlySurvivorsAllocated
  <2> SUFFICES ASSUME Selecting PROVE AllocatedParentsSurvived(ledger)
    BY DEF OnlySurvivorsAllocated
  <2>1. CASE ledger = << >>
    BY <2>1 DEF AllocatedParentsSurvived, Indices
  <2>2. CASE ledger # << >>
    BY <2>2, ReplayAllocatesSurvivors DEF Selecting, IInv, Shape, LedgerReplays, TypedLedger
  <2> QED
    BY <2>1, <2>2
<1> QED
  BY <1>1, AlwaysSelecting, PTL
=============================================================================
