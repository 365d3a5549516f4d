-------------------------- MODULE Evolution_proofs --------------------------
(***************************************************************************)
(* The Evolution Driver and the Controller it calls.  The state file is    *)
(* one history of one request, and what a running loop has in memory is    *)
(* what a replay of the file gives: for any invocations, requests,         *)
(* candidates, deaths and failures.  A receipt the Controller prints       *)
(* replays, within deadlines that cover those below it, over evidence of   *)
(* one version, and leaves no Observer: for any tasks, timeouts, adapters, *)
(* versions, probes and altered sandboxes.                                 *)
(***************************************************************************)
EXTENDS EvolutionDriver, Controller, SequenceTheorems, FiniteSetTheorems, TLAPS

Results == [child: Candidates, promoted: BOOLEAN]
Feedbacks == {Nothing} \cup [generation: Int, promoted: BOOLEAN, selected: Candidates]
ControllerRequests ==
    [owner: Requests, parent: Candidates, generation: Int, previous: Feedbacks]
Headers == [kind: {"run"}, owner: Requests]
Generations ==
    [kind: {"generation"}, generation: Int, parentRecord: Int,
     request: ControllerRequests, result: Results]

\* The files there can be: a header, and generations behind it.
IsFile(l) ==
    /\ l \in Seq(Headers \cup Generations)
    /\ l # <<>> => l[1] \in Headers
    /\ \A i \in 2 .. Len(l): l[i] \in Generations

Looping == {"loop", "calling", "append", "appending"}

\* What an invocation has in memory, by the point it is at.
Remembers(p) ==
    /\ pc[p] # "idle" => memory[p].expired \in BOOLEAN
    /\ pc[p] \in Looping =>
        /\ memory[p].head \in Candidates /\ memory[p].previous \in Feedbacks
        /\ memory[p].count \in Nat /\ memory[p].rejections \in Nat
        /\ memory[p].last \in Nat
    /\ pc[p] \in {"append", "appending"} =>
        /\ memory[p].result \in Results
        /\ memory[p].result.child # memory[p].head
    /\ pc[p] \in {"calling", "append", "appending"} =>
        /\ memory[p].count < memory[p].request.maxGenerations
        /\ memory[p].rejections < memory[p].request.maxRejections

Fields == {"request", "head", "previous", "count", "rejections", "last", "expired", "result"}

Shape ==
    /\ IsFile(ledger)
    /\ pc \in [Process -> States]
    /\ memory = [p \in Process |-> memory[p]]
    /\ \A p \in Process: memory[p] = [f \in Fields |-> memory[p][f]]

\* Only the maker of the lock directory runs, and it has a request.
Exclusive == \A p \in Process: pc[p] # "idle" => lock = p /\ memory[p].request \in Requests

\* The file exists or not, as the point of the one that runs says.
Located ==
    \A p \in Process:
        /\ pc[p] \in {"header", "heading"} => ledger = <<>>
        /\ pc[p] \in {"verify"} \cup Looping => ledger # <<>>

IInv ==
    /\ Shape /\ Exclusive /\ Located /\ MemoryIsReplay
    /\ \A p \in Process: Remembers(p)

-----------------------------------------------------------------------------
(* The values a replay gives, when one line is appended. *)

LEMMA TrailingIsFinite ==
    ASSUME NEW l, IsFile(l)
    PROVE  IsFiniteSet(TrailingRetained(l)) /\ RejectionsOf(l) \in Nat
<1>1. Len(l) \in Nat
  BY DEF IsFile
<1>2. IsFiniteSet(2 .. Len(l))
  BY <1>1, FS_Interval
<1>3. TrailingRetained(l) \in SUBSET (2 .. Len(l))
  BY DEF TrailingRetained
<1> QED
  BY <1>2, <1>3, FS_Subset, FS_CardinalityType DEF RejectionsOf

\* The head and the feedback of a file are those of its last line.
LEMMA ReplayTypes ==
    ASSUME NEW l, IsFile(l), l # <<>>
    PROVE  /\ Len(l) \in Nat \ {0}
           /\ l[1].owner \in Requests
           /\ HeadOf(l) \in Candidates
           /\ PreviousOf(l) \in Feedbacks
           /\ CountOf(l) \in Nat
<1>1. Len(l) \in Nat \ {0}
  BY EmptySeq DEF IsFile
<1>2. l[1].owner \in Requests
  BY DEF IsFile, Headers
<1>3. CASE Len(l) = 1
  BY <1>1, <1>2, <1>3, RequestsAssumption DEF IsRequest, HeadOf, PreviousOf, CountOf, Feedbacks
<1>4. CASE Len(l) # 1
  <2>1. Len(l) \in 2 .. Len(l)
    BY <1>1, <1>4
  <2> DEFINE r == l[Len(l)]
  <2>2. r \in Generations
    BY <2>1 DEF IsFile
  <2>3. r.generation \in Int /\ r.result.promoted \in BOOLEAN /\ Selected(r) \in Candidates
    BY <2>2 DEF Generations, Results, ControllerRequests, Selected
  <2> HIDE DEF r
  <2>4. Feedback(r) \in Feedbacks
    BY <2>3 DEF Feedback, Feedbacks
  <2> QED
    BY <1>1, <1>2, <1>4, <2>3, <2>4 DEF HeadOf, PreviousOf, CountOf, r
<1> QED
  BY <1>3, <1>4

LEMMA AppendGeneration ==
    ASSUME NEW l, IsFile(l), l # <<>>, NEW r \in Generations
    PROVE  /\ IsFile(Append(l, r))
           /\ Append(l, r) # <<>>
           /\ Len(Append(l, r)) = Len(l) + 1
           /\ Append(l, r)[Len(l) + 1] = r
           /\ \A i \in 1 .. Len(l): Append(l, r)[i] = l[i]
<1> DEFINE S == Headers \cup Generations
           m == Append(l, r)
<1>1. l \in Seq(S) /\ r \in S /\ Len(l) \in Nat \ {0}
  BY ReplayTypes DEF IsFile
<1>2. /\ m \in Seq(S) /\ Len(m) = Len(l) + 1 /\ m[Len(l) + 1] = r
      /\ \A i \in 1 .. Len(l): m[i] = l[i]
  BY <1>1, AppendProperties
<1>3. m[1] \in Headers
  BY <1>1, <1>2 DEF IsFile
<1>4. \A i \in 2 .. Len(m): m[i] \in Generations
  <2> TAKE i \in 2 .. Len(m)
  <2>1. i \in 2 .. Len(l) \/ i = Len(l) + 1
    BY <1>1, <1>2
  <2> QED
    BY <1>1, <1>2, <2>1 DEF IsFile
<1>5. m # <<>>
  BY <1>1, <1>2, EmptySeq
<1> QED
  BY <1>2, <1>3, <1>4, <1>5 DEF IsFile

\* After one more line the replay stands where that line left off.
LEMMA AppendReplay ==
    ASSUME NEW l, IsFile(l), l # <<>>, NEW r \in Generations
    PROVE  /\ HeadOf(Append(l, r)) = Selected(r)
           /\ PreviousOf(Append(l, r)) = Feedback(r)
           /\ CountOf(Append(l, r)) = CountOf(l) + 1
           /\ Append(l, r)[1].owner = l[1].owner
           /\ RejectionsOf(Append(l, r))
                = IF r.result.promoted THEN 0 ELSE RejectionsOf(l) + 1
<1> DEFINE m == Append(l, r)
           n == Len(l) + 1
<1>1. /\ Len(l) \in Nat \ {0} /\ Len(m) = n /\ m[n] = r
      /\ \A i \in 1 .. Len(l): m[i] = l[i]
  BY ReplayTypes, AppendGeneration
<1> HIDE DEF m
<1>2. Len(m) # 1
  BY <1>1
<1>3. HeadOf(m) = Selected(r) /\ PreviousOf(m) = Feedback(r) /\ CountOf(m) = CountOf(l) + 1
  BY <1>1, <1>2 DEF HeadOf, PreviousOf, CountOf
<1>4. m[1].owner = l[1].owner
  BY <1>1
<1>5. CASE r.result.promoted
  <2>1. TrailingRetained(m) = {}
    BY <1>1, <1>5 DEF TrailingRetained
  <2> QED
    BY <1>3, <1>4, <1>5, <2>1, FS_EmptySet DEF RejectionsOf, m
<1>6. CASE ~ r.result.promoted
  <2>1. TrailingRetained(m) = TrailingRetained(l) \cup {n}
    <3>1. ASSUME NEW i \in TrailingRetained(m), i # n PROVE i \in TrailingRetained(l)
      <4>1. i \in 2 .. Len(l) /\ \A j \in i .. n: ~ m[j].result.promoted
        BY <1>1, <3>1 DEF TrailingRetained
      <4> QED
        BY <1>1, <4>1 DEF TrailingRetained
    <3>2. ASSUME NEW i \in TrailingRetained(l) PROVE i \in TrailingRetained(m)
      <4>1. i \in 2 .. n /\ \A j \in i .. Len(l): ~ m[j].result.promoted
        BY <1>1, <3>2 DEF TrailingRetained
      <4>2. \A j \in i .. n: j \in i .. Len(l) \/ j = n
        BY <1>1, <4>1
      <4> QED
        BY <1>1, <1>6, <4>1, <4>2 DEF TrailingRetained
    <3>3. n \in TrailingRetained(m)
      BY <1>1, <1>6 DEF TrailingRetained
    <3> QED
      BY <3>1, <3>2, <3>3
  <2>2. n \notin TrailingRetained(l)
    BY <1>1 DEF TrailingRetained
  <2>3. IsFiniteSet(TrailingRetained(l))
    BY TrailingIsFinite
  <2>4. Cardinality(TrailingRetained(m)) = Cardinality(TrailingRetained(l)) + 1
    BY <2>1, <2>2, <2>3, FS_AddElement
  <2> QED
    BY <1>3, <1>4, <1>6, <2>4 DEF RejectionsOf, m
<1> QED
  BY <1>5, <1>6

\* A line that continues a verified file makes a verified file.
LEMMA AppendVerified ==
    ASSUME NEW l, IsFile(l), NEW q, Verified(l, q), NEW r \in Generations,
           r.generation = Len(l), r.parentRecord = Len(l),
           r.request = ControllerRequest(q, HeadOf(l), Len(l), PreviousOf(l)),
           ResultValid(r.request, r.result)
    PROVE  Verified(Append(l, r), q)
<1> DEFINE m == Append(l, r)
           n == Len(l) + 1
           S == Headers \cup Generations
<1>1. l # <<>> /\ l \in Seq(S) /\ r \in S
  BY DEF Verified, IsFile
<1>2. /\ Len(l) \in Nat \ {0} /\ Len(m) = n /\ m[n] = r /\ m # <<>>
      /\ \A i \in 1 .. Len(l): m[i] = l[i]
      /\ m \in Seq(S)
  BY <1>1, ReplayTypes, AppendGeneration DEF IsFile
<1>3. ASSUME NEW i \in 1 .. Len(l) PROVE SubSeq(m, 1, i) = SubSeq(l, 1, i)
  <2>1. i \in Nat /\ i <= Len(l) /\ i <= Len(m)
    BY <1>2
  <2>2. /\ SubSeq(m, 1, i) \in Seq(S) /\ Len(SubSeq(m, 1, i)) = i
        /\ \A j \in 1 .. i: SubSeq(m, 1, i)[j] = m[j]
    BY <1>2, <2>1
  <2>3. /\ SubSeq(l, 1, i) \in Seq(S) /\ Len(SubSeq(l, 1, i)) = i
        /\ \A j \in 1 .. i: SubSeq(l, 1, i)[j] = l[j]
    BY <1>1, <1>2, <2>1
  <2>4. \A j \in 1 .. i: SubSeq(m, 1, i)[j] = SubSeq(l, 1, i)[j]
    BY <1>2, <2>1, <2>2, <2>3
  <2> QED
    BY <2>2, <2>3, <2>4, SeqEqual
<1>4. SubSeq(l, 1, Len(l)) = l
  BY <1>1, SubSeqFull
<1>5. ASSUME NEW i \in 2 .. Len(m) PROVE RecordFits(m, i, q)
  <2>1. CASE i \in 2 .. Len(l)
    <3>1. RecordFits(l, i, q) /\ m[i] = l[i] /\ i - 1 \in 1 .. Len(l)
      BY <1>2, <2>1 DEF Verified
    <3> QED
      BY <1>3, <3>1 DEF RecordFits
  <2>2. CASE i = n
    <3>1. SubSeq(m, 1, i - 1) = l /\ i - 1 = Len(l) /\ m[i] = r
      BY <1>2, <1>3, <1>4, <2>2
    <3> QED
      BY <3>1 DEF RecordFits
  <2> QED
    BY <1>2, <1>5, <2>1, <2>2
<1> QED
  BY <1>2, <1>5 DEF Verified

-----------------------------------------------------------------------------
(* The invariant *)

LEMMA InitInvariant == Init => IInv
<1> SUFFICES ASSUME Init PROVE IInv
  OBVIOUS
<1>1. IsFile(ledger)
  BY EmptySeq DEF Init, IsFile
<1> QED
  BY <1>1 DEF Init, IInv, Shape, Exclusive, Located, MemoryIsReplay, Remembers, Looping,
              States, Running, NoMemory, Fields

\* The steps that write no line and keep what looping invocations remember.
LEMMA OtherSteps ==
    ASSUME IInv, NEW p \in Process,
           \/ Read(p) \/ BeginHeader(p) \/ Decide(p) \/ ControllerAnswers(p)
           \/ ControllerFails(p) \/ BeginAppend(p) \/ FailAppend(p) \/ Release(p) \/ Die(p)
           \/ \E q \in Requests: Invoke(p, q)
    PROVE  IInv' /\ ledger' = ledger
<1> USE DEF IInv, Shape, Exclusive, Located, MemoryIsReplay, Looping, States, Running, Goto
<1>1. CASE Read(p)
  BY <1>1 DEF Read, Remembers
<1>2. CASE BeginHeader(p)
  BY <1>2 DEF BeginHeader, Remembers
<1>3. CASE Decide(p)
  <2>1. CASE AtLimit(p)
    BY <1>3, <2>1 DEF Decide, Remembers
  <2>2. CASE ~ AtLimit(p)
    <3>1. pc' = [pc EXCEPT ![p] = "calling"] /\ pc[p] = "loop"
          /\ UNCHANGED <<ledger, torn, lock, memory, deaths, failures>>
      BY <1>3, <2>2, Zenon DEF Decide
    <3>2. /\ ~ (memory[p].rejections >= memory[p].request.maxRejections)
          /\ ~ (memory[p].count >= memory[p].request.maxGenerations)
      BY <2>2, Zenon DEF AtLimit
    <3>3. /\ memory[p].count < memory[p].request.maxGenerations
          /\ memory[p].rejections < memory[p].request.maxRejections
      BY <3>1, <3>2, RequestsAssumption DEF IsRequest, Remembers
    <3>4. \A r \in Process: Remembers(r)'
      BY <3>1, <3>3 DEF Remembers
    <3> QED
      BY <3>1, <3>4
  <2> QED
    BY <2>1, <2>2
<1>4. CASE ControllerAnswers(p)
  <2>1. PICK child \in Candidates, promoted \in BOOLEAN, expired \in BOOLEAN:
            /\ ResultValid(NextRequest(p), [child |-> child])
            /\ memory' = [memory EXCEPT
                    ![p].result = [child |-> child, promoted |-> promoted],
                    ![p].expired = expired]
    BY <1>4 DEF ControllerAnswers
  <2> DEFINE new == memory'[p]
             answer == [child |-> child, promoted |-> promoted]
  <2>7. memory' = [memory EXCEPT ![p].result = answer, ![p].expired = expired]
    BY <2>1
  <2>8. answer \in Results /\ answer.child = child
    BY DEF Results
  <2> HIDE DEF answer
  <2>2. /\ memory' = [r \in Process |-> memory'[r]]
        /\ \A r \in Process \ {p}: memory'[r] = memory[r]
        /\ new = [f \in Fields |-> new[f]]
        /\ new.result = answer /\ new.expired = expired
        /\ new.request = memory[p].request /\ new.head = memory[p].head
        /\ new.previous = memory[p].previous /\ new.count = memory[p].count
        /\ new.rejections = memory[p].rejections /\ new.last = memory[p].last
    <3> DEFINE one == [memory[p] EXCEPT !.result = answer]
               two == [one EXCEPT !.expired = expired]
               first == [memory EXCEPT ![p] = one]
    <3>1. one = [f \in Fields |-> one[f]]
      BY DEF Fields
    <3>2. two = [f \in Fields |-> two[f]]
      BY <3>1 DEF Fields
    <3>3. /\ two.result = answer /\ two.expired = expired
          /\ two.request = memory[p].request /\ two.head = memory[p].head
          /\ two.previous = memory[p].previous /\ two.count = memory[p].count
          /\ two.rejections = memory[p].rejections /\ two.last = memory[p].last
      BY DEF Fields
    <3>4. first[p] = one /\ \A r \in Process \ {p}: first[r] = memory[r]
      OBVIOUS
    <3>5. first = [r \in Process |-> first[r]]
      OBVIOUS
    <3>6. memory' = [first EXCEPT ![p] = [first[p] EXCEPT !.expired = expired]]
      BY <2>7
    <3> HIDE DEF one, first
    <3>7. memory' = [first EXCEPT ![p] = two]
      BY <3>4, <3>6
    <3> HIDE DEF two
    <3>8. /\ memory' = [r \in Process |-> memory'[r]]
          /\ \A r \in Process \ {p}: memory'[r] = first[r]
          /\ memory'[p] = two
      BY <3>5, <3>7
    <3> QED
      BY <3>2, <3>3, <3>4, <3>8
  <2>3. new.result \in Results /\ new.result.child # new.head
    BY <2>1, <2>2, <2>8 DEF ResultValid, NextRequest, ControllerRequest
  <2> HIDE DEF new
  <2>4. /\ UNCHANGED <<ledger, torn, lock, paid, deaths, failures>>
        /\ pc' = [pc EXCEPT ![p] = "append"] /\ pc[p] = "calling"
    BY <1>4 DEF ControllerAnswers
  <2>5. \A r \in Process: Remembers(r)'
    BY <2>2, <2>3, <2>4 DEF Remembers, new
  <2> QED
    BY <2>2, <2>4, <2>5 DEF new
<1>5. CASE ControllerFails(p)
  BY <1>5 DEF ControllerFails, Remembers
<1>6. CASE BeginAppend(p)
  BY <1>6 DEF BeginAppend, Remembers
<1>7. CASE FailAppend(p)
  BY <1>7 DEF FailAppend, Remembers
<1>8. CASE Release(p)
  BY <1>8 DEF Release, Remembers, NoMemory, Fields
<1>9. CASE Die(p)
  BY <1>9 DEF Die, Remembers, NoMemory, Fields
<1>10. ASSUME NEW q \in Requests, Invoke(p, q) PROVE IInv' /\ ledger' = ledger
  <2> DEFINE new == memory'[p]
  <2>1. /\ memory' = [r \in Process |-> memory'[r]]
        /\ \A r \in Process \ {p}: memory'[r] = memory[r]
        /\ new = [NoMemory EXCEPT !.request = q]
    BY <1>10 DEF Invoke
  <2>2. new = [f \in Fields |-> new[f]] /\ new.request = q /\ new.expired = FALSE
    BY <2>1 DEF NoMemory, Fields
  <2> HIDE DEF new
  <2>3. /\ UNCHANGED <<ledger, torn, paid, deaths, failures>> /\ lock = Nothing /\ lock' = p
        /\ pc' = [pc EXCEPT ![p] = "read"] /\ pc[p] = "idle"
    BY <1>10 DEF Invoke
  <2>4. \A r \in Process: Remembers(r)'
    BY <2>1, <2>2, <2>3 DEF Remembers, new
  <2>5. Shape'
    BY <2>1, <2>2, <2>3 DEF new
  <2>6. Exclusive' /\ Located' /\ MemoryIsReplay'
    <3>1. \A r \in Process: pc[r] = "idle"
      BY <2>3, RequestsAssumption
    <3> QED
      BY <2>2, <2>3, <3>1 DEF new
  <2> QED
    BY <2>3, <2>4, <2>5, <2>6
<1> QED
  BY <1>1, <1>2, <1>3, <1>4, <1>5, <1>6, <1>7, <1>8, <1>9, <1>10

\* One field of what one invocation remembers is replaced.
LEMMA UpdateField ==
    ASSUME NEW g, g = [r \in Process |-> g[r]], NEW p \in Process,
           g[p] = [f \in Fields |-> g[p][f]],
           NEW x \in Fields, NEW v, NEW h,
           h = [g EXCEPT ![p] = [g[p] EXCEPT ![x] = v]]
    PROVE  /\ h = [r \in Process |-> h[r]]
           /\ h[p] = [f \in Fields |-> h[p][f]]
           /\ \A r \in Process \ {p}: h[r] = g[r]
           /\ h[p][x] = v
           /\ \A y \in Fields \ {x}: h[p][y] = g[p][y]
<1> DEFINE one == [g[p] EXCEPT ![x] = v]
<1>1. /\ one = [f \in Fields |-> one[f]] /\ one[x] = v
      /\ \A y \in Fields \ {x}: one[y] = g[p][y]
  OBVIOUS
<1> HIDE DEF one
<1>2. h = [r \in Process |-> h[r]] /\ h[p] = one /\ \A r \in Process \ {p}: h[r] = g[r]
  BY DEF one
<1> QED
  BY <1>1, <1>2

\* The five fields a replay sets.
Replayed(g, p, a, b, c, d, e) ==
    [g EXCEPT ![p].head = a, ![p].previous = b, ![p].count = c,
              ![p].rejections = d, ![p].last = e]

\* A replay replaces what the invocation remembers of the file, and nothing else.
LEMMA ReplayUpdate ==
    ASSUME NEW g, g = [r \in Process |-> g[r]], NEW p \in Process,
           g[p] = [f \in Fields |-> g[p][f]],
           NEW a, NEW b, NEW c, NEW d, NEW e, NEW h, h = Replayed(g, p, a, b, c, d, e)
    PROVE  /\ h = [r \in Process |-> h[r]]
           /\ h[p] = [f \in Fields |-> h[p][f]]
           /\ \A r \in Process \ {p}: h[r] = g[r]
           /\ h[p].head = a /\ h[p].previous = b /\ h[p].count = c
           /\ h[p].rejections = d /\ h[p].last = e
           /\ h[p].request = g[p].request /\ h[p].expired = g[p].expired
           /\ h[p].result = g[p].result
<1> DEFINE g1 == [g EXCEPT ![p] = [g[p] EXCEPT !["head"] = a]]
           g2 == [g1 EXCEPT ![p] = [g1[p] EXCEPT !["previous"] = b]]
           g3 == [g2 EXCEPT ![p] = [g2[p] EXCEPT !["count"] = c]]
           g4 == [g3 EXCEPT ![p] = [g3[p] EXCEPT !["rejections"] = d]]
           g5 == [g4 EXCEPT ![p] = [g4[p] EXCEPT !["last"] = e]]
<1>1. h = g5
  BY DEF Replayed
<1>11. g1 = [g EXCEPT ![p] = [g[p] EXCEPT !["head"] = a]]
  OBVIOUS
<1>12. g2 = [g1 EXCEPT ![p] = [g1[p] EXCEPT !["previous"] = b]]
  OBVIOUS
<1>13. g3 = [g2 EXCEPT ![p] = [g2[p] EXCEPT !["count"] = c]]
  OBVIOUS
<1>14. g4 = [g3 EXCEPT ![p] = [g3[p] EXCEPT !["rejections"] = d]]
  OBVIOUS
<1>15. g5 = [g4 EXCEPT ![p] = [g4[p] EXCEPT !["last"] = e]]
  OBVIOUS
<1> HIDE DEF g1, g2, g3, g4, g5
<1>3. {"head", "previous", "count", "rejections", "last"} \subseteq Fields
  BY DEF Fields
<1>21. /\ g1 = [r \in Process |-> g1[r]] /\ g1[p] = [f \in Fields |-> g1[p][f]]
       /\ \A r \in Process \ {p}: g1[r] = g[r]
       /\ g1[p]["head"] = a /\ \A y \in Fields \ {"head"}: g1[p][y] = g[p][y]
  BY <1>3, <1>11, UpdateField
<1>22. /\ g2 = [r \in Process |-> g2[r]] /\ g2[p] = [f \in Fields |-> g2[p][f]]
       /\ \A r \in Process \ {p}: g2[r] = g1[r]
       /\ g2[p]["previous"] = b /\ \A y \in Fields \ {"previous"}: g2[p][y] = g1[p][y]
  BY <1>3, <1>12, <1>21, UpdateField
<1>23. /\ g3 = [r \in Process |-> g3[r]] /\ g3[p] = [f \in Fields |-> g3[p][f]]
       /\ \A r \in Process \ {p}: g3[r] = g2[r]
       /\ g3[p]["count"] = c /\ \A y \in Fields \ {"count"}: g3[p][y] = g2[p][y]
  BY <1>3, <1>13, <1>22, UpdateField
<1>24. /\ g4 = [r \in Process |-> g4[r]] /\ g4[p] = [f \in Fields |-> g4[p][f]]
       /\ \A r \in Process \ {p}: g4[r] = g3[r]
       /\ g4[p]["rejections"] = d /\ \A y \in Fields \ {"rejections"}: g4[p][y] = g3[p][y]
  BY <1>3, <1>14, <1>23, UpdateField
<1>25. /\ g5 = [r \in Process |-> g5[r]] /\ g5[p] = [f \in Fields |-> g5[p][f]]
       /\ \A r \in Process \ {p}: g5[r] = g4[r]
       /\ g5[p]["last"] = e /\ \A y \in Fields \ {"last"}: g5[p][y] = g4[p][y]
  BY <1>3, <1>15, <1>24, UpdateField
<1>4. /\ h[p]["head"] = a /\ h[p]["previous"] = b /\ h[p]["count"] = c
      /\ h[p]["rejections"] = d /\ h[p]["last"] = e
  <2>1. h[p]["head"] = a
    BY <1>1, <1>3, <1>21, <1>22, <1>23, <1>24, <1>25 DEF Fields
  <2>2. h[p]["previous"] = b
    BY <1>1, <1>3, <1>22, <1>23, <1>24, <1>25 DEF Fields
  <2>3. h[p]["count"] = c
    BY <1>1, <1>3, <1>23, <1>24, <1>25 DEF Fields
  <2>4. h[p]["rejections"] = d
    BY <1>1, <1>3, <1>24, <1>25 DEF Fields
  <2>5. h[p]["last"] = e
    BY <1>1, <1>3, <1>25 DEF Fields
  <2> QED
    BY <2>1, <2>2, <2>3, <2>4, <2>5
<1>5. \A y \in {"request", "expired", "result"}: h[p][y] = g[p][y]
  <2> SUFFICES ASSUME NEW y \in {"request", "expired", "result"} PROVE h[p][y] = g[p][y]
    OBVIOUS
  <2>3. /\ \A z \in Fields \ {"head"}: g1[p][z] = g[p][z]
        /\ \A z \in Fields \ {"previous"}: g2[p][z] = g1[p][z]
        /\ \A z \in Fields \ {"count"}: g3[p][z] = g2[p][z]
        /\ \A z \in Fields \ {"rejections"}: g4[p][z] = g3[p][z]
        /\ \A z \in Fields \ {"last"}: g5[p][z] = g4[p][z]
    BY <1>21, <1>22, <1>23, <1>24, <1>25
  <2>1. y \in Fields \ {"head"} /\ y \in Fields \ {"previous"} /\ y \in Fields \ {"count"}
    BY DEF Fields
  <2>2. y \in Fields \ {"rejections"} /\ y \in Fields \ {"last"}
    BY DEF Fields
  <2> QED
    BY <1>1, <2>1, <2>2, <2>3, Zenon
<1> QED
  BY <1>1, <1>4, <1>5, <1>21, <1>22, <1>23, <1>24, <1>25

\* The first line names the request, and a replay of it starts at its candidate.
LEMMA FinishHeaderStep ==
    ASSUME IInv, NEW p \in Process, FinishHeader(p)
    PROVE  IInv'
<1> USE DEF IInv, Shape, Exclusive, Located, MemoryIsReplay, Looping, States, Running, Goto
<1> DEFINE h == Header(memory[p].request)
<1>1. /\ ledger' = <<h>> /\ UNCHANGED <<lock, memory>> /\ pc[p] = "heading"
      /\ pc' = [pc EXCEPT ![p] = "verify"]
  BY DEF FinishHeader
<1>2. h \in Headers
  BY <1>1 DEF Header, Headers
<1>3. <<h>> \in Seq(Headers \cup Generations) /\ Len(<<h>>) = 1 /\ <<h>>[1] = h /\ <<h>> # <<>>
  BY <1>2
<1> HIDE DEF h
<1>4. IsFile(ledger')
  BY <1>1, <1>2, <1>3 DEF IsFile
<1>5. \A r \in Process: pc[r] # "idle" => r = p
  BY <1>1
<1>6. \A r \in Process: Remembers(r)'
  BY <1>1, <1>5 DEF Remembers
<1> QED
  BY <1>1, <1>3, <1>4, <1>5, <1>6

\* What a verified file leaves the loop with is the replay of the file.
LEMMA VerifyStep ==
    ASSUME IInv, NEW p \in Process, Verify(p)
    PROVE  IInv'
<1>1. CASE ~ Verified(ledger, memory[p].request)
  BY <1>1 DEF Verify, Remembers, IInv, Shape, Exclusive, Located, MemoryIsReplay, Looping,
              States, Running, Goto
<1>2. CASE Verified(ledger, memory[p].request)
  <2> DEFINE a == HeadOf(ledger)
             b == PreviousOf(ledger)
             c == CountOf(ledger)
             d == RejectionsOf(ledger)
             e == Len(ledger)
  <2>1. memory' = [memory EXCEPT ![p].head = a, ![p].previous = b, ![p].count = c,
                                 ![p].rejections = d, ![p].last = e]
    BY <1>2 DEF Verify
  <2>2. /\ UNCHANGED <<ledger, torn, lock, paid, deaths, failures>>
        /\ pc' = [pc EXCEPT ![p] = "loop"] /\ pc[p] = "verify"
    BY <1>2 DEF Verify, Goto
  <2> HIDE DEF a, b, c, d, e
  <2>3. /\ memory' = [r \in Process |-> memory'[r]]
        /\ memory'[p] = [f \in Fields |-> memory'[p][f]]
        /\ \A r \in Process \ {p}: memory'[r] = memory[r]
        /\ memory'[p].request = memory[p].request
        /\ memory'[p].head = a /\ memory'[p].previous = b /\ memory'[p].count = c
        /\ memory'[p].rejections = d /\ memory'[p].last = e
        /\ memory'[p].expired = memory[p].expired
    <3>1. memory = [r \in Process |-> memory[r]] /\ memory[p] = [f \in Fields |-> memory[p][f]]
      BY DEF IInv, Shape
    <3>2. memory' = Replayed(memory, p, a, b, c, d, e)
      BY <2>1 DEF Replayed
    <3> QED
      BY <3>1, <3>2, ReplayUpdate
  <2> USE DEF IInv, Shape, Exclusive, Located, MemoryIsReplay, Looping, States, Running
  <2>4. /\ a \in Candidates /\ b \in Feedbacks /\ c \in Nat /\ d \in Nat /\ e \in Nat
    BY <2>2, ReplayTypes, TrailingIsFinite DEF a, b, c, d, e
  <2>5. \A r \in Process: Remembers(r)'
    BY <2>2, <2>3, <2>4 DEF Remembers
  <2>6. Shape' /\ Exclusive' /\ Located'
    BY <2>2, <2>3
  <2>7. MemoryIsReplay'
    BY <1>2, <2>2, <2>3 DEF a, b, c, d, e
  <2> QED
    BY <2>5, <2>6, <2>7
<1> QED
  BY <1>1, <1>2

\* The record an invocation appends continues the file it replayed.
LEMMA NextRecordFits ==
    ASSUME IInv, NEW p \in Process, pc[p] = "appending"
    PROVE  /\ NextRecord(p) \in Generations
           /\ ledger # <<>> /\ Verified(ledger, memory[p].request)
           /\ Verified(Append(ledger, NextRecord(p)), memory[p].request)
           /\ Selected(NextRecord(p))
                = IF memory[p].result.promoted THEN memory[p].result.child ELSE HeadOf(ledger)
<1> DEFINE r == NextRecord(p)
<1> USE DEF IInv, Exclusive, Located, MemoryIsReplay, Looping
<1>1. /\ memory[p].head \in Candidates /\ memory[p].previous \in Feedbacks
      /\ memory[p].count \in Nat /\ memory[p].result \in Results
      /\ memory[p].result.child # memory[p].head
      /\ memory[p].request \in Requests
  BY DEF Remembers
<1>2. /\ ledger # <<>> /\ Verified(ledger, memory[p].request)
      /\ memory[p].head = HeadOf(ledger) /\ memory[p].previous = PreviousOf(ledger)
      /\ memory[p].count = CountOf(ledger) /\ memory[p].last = Len(ledger)
  OBVIOUS
<1>3. IsFile(ledger) /\ Len(ledger) \in Nat \ {0}
  BY <1>2, ReplayTypes DEF Shape
<1>4. NextRequest(p) \in ControllerRequests
  BY <1>1 DEF NextRequest, ControllerRequest, ControllerRequests
<1>5. r \in Generations
  BY <1>1, <1>2, <1>3, <1>4 DEF NextRecord, Generations
<1>6. /\ r.generation = Len(ledger) /\ r.parentRecord = Len(ledger)
      /\ r.request = ControllerRequest(memory[p].request, HeadOf(ledger), Len(ledger),
                                       PreviousOf(ledger))
      /\ ResultValid(r.request, r.result)
  BY <1>1, <1>2, <1>3 DEF NextRecord, NextRequest, CountOf, ResultValid, ControllerRequest
<1>7. Selected(r) = IF memory[p].result.promoted THEN memory[p].result.child ELSE HeadOf(ledger)
  BY <1>6 DEF Selected, NextRecord, ControllerRequest
<1> HIDE DEF r
<1>8. Verified(Append(ledger, r), memory[p].request)
  BY <1>2, <1>3, <1>5, <1>6, AppendVerified
<1> QED
  BY <1>2, <1>5, <1>7, <1>8 DEF r

\* The loop goes on in memory as a replay of the longer file would.
LEMMA FinishAppendStep ==
    ASSUME IInv, NEW p \in Process, FinishAppend(p)
    PROVE  IInv'
<1> DEFINE r == NextRecord(p)
           m == memory[p]
           a == Selected(r)
           b == Feedback(r)
           c == m.count + 1
           d == IF m.result.promoted THEN 0 ELSE m.rejections + 1
           e == m.last + 1
           g == Replayed(memory, p, a, b, c, d, e)
<1>1. /\ pc[p] = "appending" /\ pc' = [pc EXCEPT ![p] = "loop"]
      /\ ledger' = Append(ledger, r) /\ UNCHANGED <<lock, paid, deaths, failures>>
  BY DEF FinishAppend, Goto
<1>2. memory' = [g EXCEPT ![p] = [g[p] EXCEPT !["result"] = Nothing]]
  BY DEF FinishAppend, Replayed
<1>3. /\ IsFile(ledger) /\ ledger # <<>> /\ r \in Generations
      /\ Verified(Append(ledger, r), m.request)
      /\ m.count = CountOf(ledger) /\ m.last = Len(ledger)
      /\ m.rejections = RejectionsOf(ledger)
      /\ r.result = m.result
  <2>1. IsFile(ledger) /\ pc[p] \in Looping
    BY <1>1 DEF IInv, Shape, Looping
  <2>2. /\ m.count = CountOf(ledger) /\ m.last = Len(ledger)
        /\ m.rejections = RejectionsOf(ledger)
    BY <1>1 DEF IInv, MemoryIsReplay
  <2> QED
    BY <1>1, <2>1, <2>2, NextRecordFits DEF NextRecord
<1> HIDE DEF r
<1>4. /\ IsFile(ledger') /\ ledger' # <<>> /\ Len(ledger') = Len(ledger) + 1
      /\ HeadOf(ledger') = a /\ PreviousOf(ledger') = b
      /\ CountOf(ledger') = c /\ RejectionsOf(ledger') = d /\ Len(ledger') = e
  BY <1>1, <1>3, AppendGeneration, AppendReplay
<1>5. a \in Candidates /\ b \in Feedbacks /\ c \in Nat /\ d \in Nat /\ e \in Nat
  BY <1>4, ReplayTypes, TrailingIsFinite
<1> HIDE DEF a, b, c, d, e, g
<1>6. memory = [q \in Process |-> memory[q]] /\ memory[p] = [f \in Fields |-> memory[p][f]]
  BY DEF IInv, Shape
<1>7. /\ g = [q \in Process |-> g[q]]
      /\ g[p] = [f \in Fields |-> g[p][f]]
      /\ \A q \in Process \ {p}: g[q] = memory[q]
      /\ g[p].head = a /\ g[p].previous = b /\ g[p].count = c
      /\ g[p].rejections = d /\ g[p].last = e
      /\ g[p].request = m.request /\ g[p].expired = m.expired
  <2>1. g = Replayed(memory, p, a, b, c, d, e)
    BY DEF g
  <2> QED
    BY <1>6, <2>1, ReplayUpdate
<1>8. /\ memory' = [q \in Process |-> memory'[q]]
      /\ memory'[p] = [f \in Fields |-> memory'[p][f]]
      /\ \A q \in Process \ {p}: memory'[q] = g[q]
      /\ \A y \in Fields \ {"result"}: memory'[p][y] = g[p][y]
  BY <1>2, <1>7, UpdateField, "result" \in Fields DEF Fields
<1>9. /\ memory'[p].head = a /\ memory'[p].previous = b /\ memory'[p].count = c
      /\ memory'[p].rejections = d /\ memory'[p].last = e
      /\ memory'[p].request = m.request /\ memory'[p].expired = m.expired
  BY <1>7, <1>8 DEF Fields
<1>10. \A q \in Process: pc[q] # "idle" => q = p
  BY <1>1 DEF IInv, Exclusive, Shape
<1>11. Shape' /\ Exclusive' /\ Located'
  <2>1. pc' \in [Process -> States] /\ \A q \in Process \ {p}: pc'[q] = "idle"
    BY <1>1, <1>10 DEF IInv, Shape, States, Running
  <2>2. pc'[p] = "loop" /\ lock' = p /\ memory'[p].request \in Requests
    BY <1>1, <1>9 DEF IInv, Shape, Exclusive
  <2>3. \A q \in Process: memory'[q] = [f \in Fields |-> memory'[q][f]]
    BY <1>7, <1>8 DEF IInv, Shape
  <2>4. Shape'
    BY <1>4, <1>8, <2>1, <2>3 DEF Shape
  <2> QED
    BY <1>4, <2>1, <2>2, <2>4 DEF Exclusive, Located, Looping
<1>12. MemoryIsReplay'
  <2> SUFFICES ASSUME NEW q \in Process,
                      pc'[q] \in {"loop", "calling", "append", "appending"}
               PROVE  /\ Verified(ledger', memory'[q].request)
                      /\ memory'[q].head = HeadOf(ledger')
                      /\ memory'[q].previous = PreviousOf(ledger')
                      /\ memory'[q].count = CountOf(ledger') /\ memory'[q].last = Len(ledger')
                      /\ memory'[q].rejections = RejectionsOf(ledger')
    BY DEF MemoryIsReplay
  <2>1. q = p
    BY <1>1, <1>10 DEF IInv, Shape
  <2> QED
    BY <1>1, <1>3, <1>4, <1>9, <2>1
<1>13. \A q \in Process: Remembers(q)'
  BY <1>1, <1>5, <1>9, <1>10 DEF IInv, Shape, Remembers, Looping
<1> QED
  BY <1>11, <1>12, <1>13 DEF IInv

\* A line that is there although its fsync fails: the file is longer, and the
\* invocation ends.
LEMMA FailSyncStep ==
    ASSUME IInv, NEW p \in Process, FailSync(p)
    PROVE  IInv'
<1>1. /\ pc[p] \in {"heading", "appending"} /\ pc' = [pc EXCEPT ![p] = "release"]
      /\ UNCHANGED <<lock, memory>>
  BY DEF FailSync, Goto
<1>2. \A r \in Process: pc[r] # "idle" => r = p
  BY <1>1 DEF IInv, Exclusive
<1>3. IsFile(ledger')
  <2>1. CASE pc[p] = "heading"
    <3> DEFINE h == Header(memory[p].request)
    <3>1. ledger' = <<h>> /\ memory[p].request \in Requests
      BY <2>1 DEF FailSync, IInv, Exclusive
    <3>2. h \in Headers
      BY <3>1 DEF Header, Headers
    <3>3. <<h>> \in Seq(Headers \cup Generations) /\ Len(<<h>>) = 1 /\ <<h>>[1] = h
      BY <3>2
    <3> HIDE DEF h
    <3> QED
      BY <3>1, <3>2, <3>3 DEF IsFile
  <2>2. CASE pc[p] = "appending"
    <3>1. ledger' = Append(ledger, NextRecord(p))
      BY <2>2 DEF FailSync
    <3>2. IsFile(ledger) /\ ledger # <<>> /\ NextRecord(p) \in Generations
      BY <2>2, NextRecordFits DEF IInv, Shape
    <3> QED
      BY <3>1, <3>2, AppendGeneration
  <2> QED
    BY <1>1, <2>1, <2>2
<1>4. \A r \in Process: pc'[r] = IF r = p THEN "release" ELSE "idle"
  BY <1>1, <1>2 DEF IInv, Shape
<1>5. Shape' /\ Exclusive' /\ Located' /\ MemoryIsReplay'
  BY <1>1, <1>3, <1>4 DEF IInv, Shape, Exclusive, Located, MemoryIsReplay, Looping, States,
                         Running
<1>6. \A r \in Process: Remembers(r)'
  BY <1>1, <1>4 DEF IInv, Remembers, Looping
<1> QED
  BY <1>5, <1>6 DEF IInv

\* Every step keeps the invariant.
LEMMA NextInvariant == IInv /\ [Next]_vars => IInv'
<1> SUFFICES ASSUME IInv, [Next]_vars PROVE IInv'
  OBVIOUS
<1>1. ASSUME NEW p \in Process, Step(p) PROVE IInv'
  BY <1>1, OtherSteps, FinishHeaderStep, VerifyStep, FinishAppendStep, FailSyncStep DEF Step
<1>2. ASSUME NEW p \in Process, Die(p) PROVE IInv'
  BY <1>2, OtherSteps
<1>3. ASSUME NEW p \in Process, NEW q \in Requests, Invoke(p, q) PROVE IInv'
  BY <1>3, OtherSteps
<1>4. CASE RemoveStaleLock
  <2>1. \A p \in Process: pc[p] = "idle"
    BY <1>4 DEF RemoveStaleLock, IInv, Exclusive
  <2> QED
    BY <1>4, <2>1 DEF RemoveStaleLock, IInv, Shape, Exclusive, Located, MemoryIsReplay,
                      Remembers, Looping
<1>5. CASE UNCHANGED vars
  BY <1>5 DEF vars, IInv, Shape, Exclusive, Located, MemoryIsReplay, Remembers
<1> QED
  BY <1>1, <1>2, <1>3, <1>4, <1>5 DEF Next

-----------------------------------------------------------------------------
(* The file as a history *)

\* A file's first line begins a history that has no generation.
LEMMA BeginsHistory ==
    ASSUME IInv, NEW p \in Process, pc[p] = "heading",
           ledger' = <<Header(memory[p].request)>>
    PROVE  History!Begin
<1> DEFINE h == Header(memory[p].request)
<1>1. ledger = <<>> /\ ledger' = <<h>> /\ memory[p].request \in Requests
  BY DEF IInv, Located, Exclusive
<1>2. Len(<<h>>) = 1 /\ <<h>>[1] = h /\ h.owner = memory[p].request /\ <<h>> # <<>>
  BY DEF Header
<1> HIDE DEF h
<1>3. TrailingRetained(<<h>>) = {}
  BY <1>2 DEF TrailingRetained
<1>4. RejectionsOf(<<h>>) = 0
  BY <1>3, FS_EmptySet DEF RejectionsOf
<1>5. CountOf(<<h>>) = 0 /\ HeadOf(<<h>>) = memory[p].request.initial
  BY <1>2 DEF CountOf, HeadOf
<1> QED
  BY <1>1, <1>2, <1>4, <1>5 DEF History!Begin

\* A generation is appended below the limits, and from the head.
LEMMA AppendOpensHistory ==
    ASSUME IInv, NEW p \in Process, pc[p] = "appending",
           ledger' = Append(ledger, NextRecord(p))
    PROVE  History!Promote \/ History!Retain
<1> DEFINE r == NextRecord(p)
           m == memory[p]
<1>1. pc[p] = "appending" /\ ledger' = Append(ledger, r)
  OBVIOUS
<1>2. /\ IsFile(ledger) /\ ledger # <<>> /\ r \in Generations
      /\ Verified(ledger, m.request)
      /\ r.result = m.result
      /\ Selected(r) = IF m.result.promoted THEN m.result.child ELSE HeadOf(ledger)
  BY <1>1, NextRecordFits DEF IInv, Shape, NextRecord
<1>3. /\ m.count = CountOf(ledger) /\ m.rejections = RejectionsOf(ledger)
      /\ m.head = HeadOf(ledger)
  BY <1>1 DEF IInv, MemoryIsReplay
<1>4. /\ m.count < m.request.maxGenerations /\ m.rejections < m.request.maxRejections
      /\ m.result \in Results /\ m.result.child # m.head
  BY <1>1 DEF IInv, Remembers
<1>5. ledger[1].owner = m.request /\ m.request \in Requests
  BY <1>1, <1>2 DEF IInv, Exclusive, Verified, Header
<1> HIDE DEF r
<1>6. /\ ledger' # <<>> /\ ledger'[1].owner = ledger[1].owner
      /\ HeadOf(ledger') = Selected(r) /\ CountOf(ledger') = CountOf(ledger) + 1
      /\ RejectionsOf(ledger') = IF m.result.promoted THEN 0 ELSE RejectionsOf(ledger) + 1
  BY <1>1, <1>2, AppendGeneration, AppendReplay
<1>7. Nothing # ledger[1].owner
  BY <1>5, RequestsAssumption
<1>8. History!Open
  BY <1>2, <1>3, <1>4, <1>5, <1>6, <1>7 DEF History!Open
<1>9. CASE m.result.promoted
  BY <1>2, <1>3, <1>4, <1>6, <1>8, <1>9 DEF History!Promote, Results
<1>10. CASE ~ m.result.promoted
  BY <1>2, <1>3, <1>4, <1>6, <1>8, <1>10 DEF History!Retain
<1> QED
  BY <1>9, <1>10

\* Every step of the driver is a step of the history, or leaves it as it is.
LEMMA StepsRefine == IInv /\ [Next]_vars => [History!Next]_(History!history)
<1> SUFFICES ASSUME IInv, [Next]_vars PROVE [History!Next]_(History!history)
  OBVIOUS
<1>1. ledger' = ledger => UNCHANGED History!history
  BY DEF History!history
<1>2. ASSUME NEW p \in Process, Step(p)
      PROVE  ledger' = ledger \/ History!Next
  <2>1. CASE FinishHeader(p) \/ (FailSync(p) /\ pc[p] = "heading")
    BY <2>1, BeginsHistory DEF FinishHeader, FailSync, History!Next
  <2>2. CASE FinishAppend(p) \/ (FailSync(p) /\ pc[p] = "appending")
    BY <2>2, AppendOpensHistory DEF FinishAppend, FailSync, History!Next
  <2>3. CASE Verify(p)
    BY <2>3 DEF Verify
  <2> QED
    <3>1. CASE FailSync(p)
      <4>1. pc[p] \in {"heading", "appending"}
        BY <3>1 DEF FailSync
      <4>2. CASE pc[p] = "heading"
        BY <2>1, <3>1, <4>2
      <4>3. CASE pc[p] = "appending"
        BY <2>2, <3>1, <4>3
      <4> QED
        BY <4>1, <4>2, <4>3
    <3>2. CASE FinishHeader(p) \/ FinishAppend(p) \/ Verify(p)
      BY <2>1, <2>2, <2>3, <3>2
    <3>3. CASE ~ (FinishHeader(p) \/ FinishAppend(p) \/ FailSync(p) \/ Verify(p))
      <4>1. ledger' = ledger
        BY <1>2, <3>3, OtherSteps DEF Step
      <4> QED
        BY <4>1
    <3> QED
      BY <3>1, <3>2, <3>3
<1>3. ASSUME NEW p \in Process, Die(p) PROVE ledger' = ledger
  BY <1>3 DEF Die
<1>4. ASSUME NEW p \in Process, NEW q \in Requests, Invoke(p, q) PROVE ledger' = ledger
  BY <1>4 DEF Invoke
<1>5. RemoveStaleLock => ledger' = ledger
  BY DEF RemoveStaleLock
<1>6. UNCHANGED vars => ledger' = ledger
  BY DEF vars
<1> QED
  BY <1>1, <1>2, <1>3, <1>4, <1>5, <1>6 DEF Next

-----------------------------------------------------------------------------
(* Calls that were paid, and the lines that record them *)

Calls == {"calling", "append", "appending"}
Flying(goal) == IF goal \in Calls THEN 1 ELSE 0
Recorded(l) == IF l = <<>> THEN 0 ELSE CountOf(l)

\* Also while the file is empty: then nothing was paid that did not fail.
PaidInv ==
    /\ paid \in Nat /\ deaths \in Nat /\ failures \in Nat
    /\ paid <= Recorded(ledger) + Cardinality(InFlight) + deaths + failures

\* Only one invocation runs, so at most one call is in flight.
LEMMA OneInFlight ==
    ASSUME NEW p \in Process, \A r \in Process \ {p}: pc[r] = "idle"
    PROVE  Cardinality(InFlight) = Flying(pc[p])
<1>1. CASE pc[p] \in Calls
  <2>1. InFlight = {p}
    BY <1>1 DEF InFlight, Calls
  <2> QED
    BY <1>1, <2>1, FS_Singleton DEF Flying
<1>2. CASE pc[p] \notin Calls
  <2>1. InFlight = {}
    BY <1>2 DEF InFlight, Calls
  <2> QED
    BY <1>2, <2>1, FS_EmptySet DEF Flying
<1> QED
  BY <1>1, <1>2

\* A step of an invocation to a point pays a call, records one, or interrupts one.
LEMMA PaidStep ==
    ASSUME IInv, PaidInv, NEW p \in Process, NEW goal,
           \A r \in Process \ {p}: pc[r] = "idle",
           pc' = [pc EXCEPT ![p] = goal],
           /\ paid' \in Nat /\ deaths' \in Nat /\ failures' \in Nat
           /\ Recorded(ledger') \in Int
           /\ paid' - paid <= (Recorded(ledger') - Recorded(ledger))
                              + (Flying(goal) - Flying(pc[p]))
                              + (deaths' - deaths) + (failures' - failures)
    PROVE  PaidInv'
<1>1. Cardinality(InFlight) = Flying(pc[p])
  BY OneInFlight
<1>2. pc'[p] = goal /\ \A r \in Process \ {p}: pc'[r] = "idle"
  BY DEF IInv, Shape
<1>3. Cardinality(InFlight') = Flying(goal)
  <2>1. CASE goal \in Calls
    <3>1. InFlight' = {p}
      BY <1>2, <2>1 DEF InFlight, Calls
    <3> QED
      BY <2>1, <3>1, FS_Singleton DEF Flying
  <2>2. CASE goal \notin Calls
    <3>1. InFlight' = {}
      BY <1>2, <2>2 DEF InFlight, Calls
    <3> QED
      BY <2>2, <3>1, FS_EmptySet DEF Flying
  <2> QED
    BY <2>1, <2>2
<1>4. Recorded(ledger) \in Int
  <2>1. Len(ledger) \in Nat
    BY DEF IInv, Shape, IsFile
  <2> QED
    BY <2>1 DEF Recorded, CountOf
<1>5. Flying(goal) \in Int /\ Flying(pc[p]) \in Int
  BY DEF Flying
<1> QED
  BY <1>1, <1>3, <1>4, <1>5 DEF PaidInv

LEMMA PaidStepInvariant ==
    ASSUME IInv, PaidInv, NEW p \in Process,
           Step(p) \/ Die(p) \/ \E q \in Requests: Invoke(p, q)
    PROVE  PaidInv'
<1>1. \A r \in Process \ {p}: pc[r] = "idle"
  <2>1. CASE pc[p] = "idle"
    <3>1. lock = Nothing
      BY <2>1 DEF Step, Read, BeginHeader, FinishHeader, Verify, Decide, ControllerAnswers,
                  ControllerFails, BeginAppend, FinishAppend, FailAppend, FailSync, Release, Die,
                  Invoke
    <3> QED
      BY <3>1, RequestsAssumption DEF IInv, Exclusive
  <2>2. CASE pc[p] # "idle"
    BY <2>2 DEF IInv, Exclusive
  <2> QED
    BY <2>1, <2>2
<1>2. /\ Recorded(ledger) \in Int
      /\ paid \in Nat /\ deaths \in Nat /\ failures \in Nat
  <2>1. Len(ledger) \in Nat
    BY DEF IInv, Shape, IsFile
  <2> QED
    BY <2>1 DEF Recorded, CountOf, PaidInv
<1> DEFINE Grows(goal) ==
        /\ pc' = [pc EXCEPT ![p] = goal]
        /\ paid' \in Nat /\ deaths' \in Nat /\ failures' \in Nat
        /\ Recorded(ledger') \in Int
        /\ paid' - paid <= (Recorded(ledger') - Recorded(ledger))
                           + (Flying(goal) - Flying(pc[p]))
                           + (deaths' - deaths) + (failures' - failures)
<1> SUFFICES \E goal: Grows(goal)
  BY <1>1, PaidStep
<1>3. ASSUME NEW goal, pc' = [pc EXCEPT ![p] = goal], Flying(pc[p]) = Flying(goal),
             UNCHANGED <<ledger, paid, deaths, failures>>
      PROVE  Grows(goal)
  BY <1>2, <1>3 DEF Flying
<1>4. ASSUME NEW goal, pc' = [pc EXCEPT ![p] = goal], UNCHANGED <<ledger, paid>>,
             \/ deaths' = deaths + 1 /\ failures' = failures
             \/ failures' = failures + 1 /\ deaths' = deaths
      PROVE  Grows(goal)
  BY <1>2, <1>4 DEF Flying
<1> HIDE DEF Grows
<1>5. CASE Read(p) \/ BeginHeader(p) \/ Verify(p) \/ ControllerAnswers(p) \/ BeginAppend(p)
           \/ Release(p) \/ \E q \in Requests: Invoke(p, q)
  <2>1. PICK goal: /\ pc' = [pc EXCEPT ![p] = goal]
                    /\ UNCHANGED <<ledger, paid, deaths, failures>>
                    /\ Flying(pc[p]) = Flying(goal)
    BY <1>5, Zenon DEF Read, BeginHeader, Verify, ControllerAnswers, BeginAppend, Release, Invoke,
                Goto, Flying, Calls
  <2> QED
    BY <1>3, <2>1
<1>6. CASE ControllerFails(p) \/ FailAppend(p) \/ Die(p)
  BY <1>4, <1>6 DEF ControllerFails, FailAppend, Die, Goto
<1>7. CASE FinishHeader(p)
  <2>1. /\ pc[p] = "heading" /\ pc' = [pc EXCEPT ![p] = "verify"] /\ ledger = <<>>
        /\ ledger' = <<Header(memory[p].request)>> /\ UNCHANGED <<paid, deaths, failures>>
    BY <1>7 DEF FinishHeader, Goto, IInv, Located
  <2>2. Recorded(ledger') = 0 /\ Recorded(ledger) = 0
    BY <2>1 DEF Recorded, CountOf
  <2>3. Flying(pc[p]) = 0 /\ Flying("verify") = 0
    BY <2>1 DEF Flying, Calls
  <2>4. Grows("verify")
    BY <1>2, <2>1, <2>2, <2>3 DEF Grows
  <2> QED
    BY <2>4
<1>8. CASE Decide(p)
  <2>1. CASE AtLimit(p)
    <3>1. /\ pc' = [pc EXCEPT ![p] = "release"] /\ UNCHANGED <<ledger, paid, deaths, failures>>
          /\ Flying(pc[p]) = Flying("release")
      BY <1>8, <2>1 DEF Decide, Goto, Flying, Calls
    <3> QED
      BY <1>3, <3>1
  <2>2. CASE ~ AtLimit(p)
    <3>1. /\ pc' = [pc EXCEPT ![p] = "calling"] /\ UNCHANGED <<ledger, deaths, failures>>
          /\ paid' = paid + 1 /\ pc[p] = "loop"
      BY <1>8, <2>2 DEF Decide, Goto
    <3>2. Flying(pc[p]) = 0 /\ Flying("calling") = 1
      BY <3>1 DEF Flying, Calls
    <3>3. Grows("calling")
      BY <1>2, <3>1, <3>2 DEF Grows
    <3> QED
      BY <3>3
  <2> QED
    BY <2>1, <2>2
<1>9. CASE FinishAppend(p)
  <2>1. /\ pc[p] = "appending" /\ pc' = [pc EXCEPT ![p] = "loop"]
        /\ ledger' = Append(ledger, NextRecord(p)) /\ UNCHANGED <<paid, deaths, failures>>
    BY <1>9 DEF FinishAppend, Goto
  <2>2. IsFile(ledger) /\ ledger # <<>> /\ NextRecord(p) \in Generations
    BY <2>1, NextRecordFits DEF IInv, Shape
  <2>3. ledger' # <<>> /\ CountOf(ledger') = CountOf(ledger) + 1
    BY <2>1, <2>2, AppendGeneration, AppendReplay
  <2>4. Recorded(ledger') = Recorded(ledger) + 1
    BY <2>2, <2>3 DEF Recorded
  <2>5. Flying(pc[p]) = 1 /\ Flying("loop") = 0
    BY <2>1 DEF Flying, Calls
  <2>6. Grows("loop")
    BY <1>2, <2>1, <2>4, <2>5 DEF Grows
  <2> QED
    BY <2>6
<1>10. CASE FailSync(p)
  <2>1. /\ pc[p] \in {"heading", "appending"} /\ pc' = [pc EXCEPT ![p] = "release"]
        /\ UNCHANGED <<paid, deaths>> /\ failures' = failures + 1
    BY <1>10 DEF FailSync, Goto
  <2>2. Recorded(ledger') \in Int /\ Recorded(ledger') >= Recorded(ledger)
    <3>1. CASE pc[p] = "heading"
      <4>1. ledger' = <<Header(memory[p].request)>> /\ ledger = <<>>
        BY <1>10, <3>1 DEF FailSync, IInv, Located
      <4> QED
        BY <4>1 DEF Recorded, CountOf
    <3>2. CASE pc[p] = "appending"
      <4>1. ledger' = Append(ledger, NextRecord(p))
        BY <1>10, <3>2 DEF FailSync
      <4>2. IsFile(ledger) /\ ledger # <<>> /\ NextRecord(p) \in Generations
        BY <3>2, NextRecordFits DEF IInv, Shape
      <4>3. ledger' # <<>> /\ CountOf(ledger') = CountOf(ledger) + 1
        BY <4>1, <4>2, AppendGeneration, AppendReplay
      <4> QED
        BY <1>2, <4>2, <4>3 DEF Recorded
    <3> QED
      BY <2>1, <3>1, <3>2
  <2>3. Flying(pc[p]) \in 0 .. 1 /\ Flying("release") = 0
    BY DEF Flying, Calls
  <2>4. Grows("release")
    BY <1>2, <2>1, <2>2, <2>3 DEF Grows
  <2> QED
    BY <2>4
<1> QED
  BY <1>5, <1>6, <1>7, <1>8, <1>9, <1>10 DEF Step

LEMMA PaidNext == IInv /\ PaidInv /\ [Next]_vars => PaidInv'
<1> SUFFICES ASSUME IInv, PaidInv, [Next]_vars PROVE PaidInv'
  OBVIOUS
<1>1. CASE RemoveStaleLock \/ UNCHANGED vars
  BY <1>1 DEF RemoveStaleLock, vars, PaidInv, InFlight
<1> QED
  BY <1>1, PaidStepInvariant DEF Next

-----------------------------------------------------------------------------
(* Theorems *)

\* The invariant of evolver.py's serial loop holds whatever is killed or repeated.
THEOREM InvariantHolds == Spec => []IInv
<1> QED
  BY InitInvariant, NextInvariant, PTL DEF Spec

\* What a running loop decides from is a replay of the state file: an
\* invocation that is repeated after a death goes on exactly where it stood.
THEOREM MemoryIsAReplay == Spec => []MemoryIsReplay
<1>1. IInv => MemoryIsReplay
  BY DEF IInv
<1> QED
  BY <1>1, InvariantHolds, PTL

\* Over all invocations of all requests the state file is one history of one
\* request, within its limits.
THEOREM EvolutionImplementsHistory == Spec => ImplementsHistory
<1>1. Init => History!Init
  BY DEF Init, History!Init
<1> QED
  BY <1>1, StepsRefine, InvariantHolds, PTL DEF Spec, ImplementsHistory, History!Spec

\* A Controller call that the file does not record is the one in flight, or was
\* lost to a death or a failure: one interruption costs at most one paid call, and
\* a repeated invocation pays for no recorded generation again.
THEOREM InterruptionsCostOneCall == Spec => []PaidCallsAreRecorded
<1>1. Init => PaidInv
  <2> SUFFICES ASSUME Init PROVE PaidInv
    OBVIOUS
  <2>1. InFlight = {}
    BY DEF Init, InFlight
  <2> QED
    BY <2>1, FS_EmptySet DEF Init, PaidInv, Recorded
<1>2. PaidInv => PaidCallsAreRecorded
  BY DEF PaidInv, PaidCallsAreRecorded, Recorded
<1> QED
  BY <1>1, <1>2, PaidNext, InvariantHolds, PTL DEF Spec
-----------------------------------------------------------------------------
(* The Controller, and a schema-2 generation: the deadlines of the calls still *)
(* to come are part of its budget, the lists grow by one task at a time, and   *)
(* reports are those of the lists.                                             *)

\* A list of n entries: nothing is known of them but their number.
IsRow(s, n) == s = [i \in 1 .. n |-> s[i]]

LEMMA RowIsSequence ==
    ASSUME NEW s, NEW n \in Nat, IsRow(s, n)
    PROVE  /\ DOMAIN s = 1 .. n /\ Len(s) = n
           /\ s \in Seq({s[i]: i \in 1 .. n})
<1>1. s \in [1 .. n -> {s[i]: i \in 1 .. n}]
  BY DEF IsRow
<1>2. s \in Seq({s[i]: i \in 1 .. n})
  BY <1>1, SeqDef
<1> QED BY <1>1, <1>2, LenProperties

LEMMA RowGrows ==
    ASSUME NEW s, NEW n \in Nat, IsRow(s, n), NEW e
    PROVE  /\ IsRow(Append(s, e), n + 1)
           /\ \A i \in 1 .. n: Append(s, e)[i] = s[i]
           /\ Append(s, e)[n + 1] = e
<1> DEFINE T == {s[i]: i \in 1 .. n} \cup {e}
<1>1. s \in [1 .. n -> T] /\ Len(s) = n
  BY RowIsSequence DEF IsRow
<1>2. e \in T
  OBVIOUS
<1> HIDE DEF T
<1>3. s \in Seq(T)
  BY <1>1, SeqDef
<1>4. Append(s, e) \in Seq(T) /\ Len(Append(s, e)) = n + 1
  BY <1>3, <1>1, <1>2, AppendProperties
<1>5. Append(s, e) \in [1 .. n + 1 -> T]
  BY <1>4, LenProperties
<1>6. IsRow(Append(s, e), n + 1)
  BY <1>5 DEF IsRow
<1> QED BY <1>3, <1>1, <1>2, <1>6, AppendProperties

\* What is left to each caller; and the shape of every variable of a generation.
Timed == [{"controller", "component", "adapter"} -> Nat]

AgentTyped ==
    /\ request = [parent |-> request.parent, policy |-> request.policy]
    /\ stage \in Working \cup Ended \cup {"idle"}
    /\ task \in Nat
    /\ work = [child |-> work.child,
               incumbentRuns |-> work.incumbentRuns, challengerRuns |-> work.challengerRuns,
               incumbentVerdicts |-> work.incumbentVerdicts,
               challengerVerdicts |-> work.challengerVerdicts,
               incumbentReport |-> work.incumbentReport,
               challengerReport |-> work.challengerReport, selection |-> work.selection]
    /\ callee = [phase |-> callee.phase, answer |-> callee.answer]
    /\ callee.phase \in {"none", "component", "adapter", "assess", "answered", "failed"}
    /\ timer \in Timed
    /\ used \in 0 .. Slack

\* A generation takes its tasks in turn.
AgentPlaced ==
    stage \in Working =>
        /\ task \in 1 .. TaskCount
        /\ stage = "mutate" => task = 1
        /\ stage \in {"assayIncumbent", "assayChallenger", "select", "validate"} =>
              task = TaskCount

\* The tasks that each of the lists is about.
RunsBy == IF stage \in {"mutate", "runIncumbent"} THEN task - 1 ELSE task
ReplayedBy == IF stage \in {"mutate", "runIncumbent", "runChallenger"} THEN task - 1 ELSE task
JudgedBy ==
    IF stage \in {"mutate", "runIncumbent", "runChallenger", "observe"} THEN task - 1 ELSE task
AgentRows ==
    stage \in Working =>
        /\ IsRow(work.incumbentRuns, RunsBy) /\ IsRow(work.challengerRuns, ReplayedBy)
        /\ IsRow(work.incumbentVerdicts, JudgedBy) /\ IsRow(work.challengerVerdicts, JudgedBy)

\* Reports are those of the lists.
IncumbentReport(report) ==
    /\ Assayable(work.incumbentRuns, work.incumbentVerdicts)
    /\ report = TaskReport(request.parent, work.incumbentRuns, work.incumbentVerdicts)
ChallengerReport(report) ==
    /\ Assayable(work.challengerRuns, work.challengerVerdicts)
    /\ report = TaskReport(work.child, work.challengerRuns, work.challengerVerdicts)
Decision(selection) ==
    /\ Comparable(work.incumbentReport, work.challengerReport)
    /\ selection = Selection(request.policy, work.incumbentReport, work.challengerReport)
AgentReports ==
    /\ stage \in Working \ {"mutate"} => work.child # request.parent
    /\ stage \in {"assayChallenger", "select", "validate"} =>
          IncumbentReport(work.incumbentReport)
    /\ stage \in {"select", "validate"} => ChallengerReport(work.challengerReport)
    /\ stage = "validate" => Decision(work.selection)

\* A component that computed an answer computed that one.
AgentAnswers ==
    /\ stage = "idle" => work = NoWork /\ callee = NoCallee
    /\ stage = "validate" => callee.phase = "none"
    /\ callee.phase = "answered" =>
        /\ stage = "assayIncumbent" => IncumbentReport(callee.answer)
        /\ stage = "assayChallenger" => ChallengerReport(callee.answer)
        /\ stage = "select" => Decision(callee.answer)

\* The deadlines of the calls still to come.
TaskLimit == 2 * (RunnerTimeout + Margin) + EvaluatorTimeout + Margin
After ==
    CASE stage = "mutate" -> TaskCount * TaskLimit + 3 * Margin
      [] stage = "runIncumbent" ->
            (RunnerTimeout + Margin) + (EvaluatorTimeout + Margin)
                + (TaskCount - task) * TaskLimit + 3 * Margin
      [] stage = "runChallenger" ->
            (EvaluatorTimeout + Margin) + (TaskCount - task) * TaskLimit + 3 * Margin
      [] stage = "observe" -> (TaskCount - task) * TaskLimit + 3 * Margin
      [] stage = "assayIncumbent" -> 2 * Margin
      [] stage = "assayChallenger" -> Margin
      [] OTHER -> 0
Current ==
    IF stage = "validate" THEN 0
    ELSE IF callee.phase = "none" THEN ComponentLimit[stage]
    ELSE IF callee.phase \in {"component", "adapter", "assess"} THEN timer.component
    ELSE 0
AgentBudget == stage \in Working => timer.controller + used >= After + Current + Margin

AgentInv ==
    AgentTyped /\ AgentPlaced /\ AgentRows /\ AgentReports /\ AgentAnswers /\ AgentBudget

LEMMA LimitsTyped ==
    /\ TaskLimit \in Nat /\ GenerationLimit \in Nat
    /\ GenerationLimit = ProposerTimeout + Margin + TaskCount * TaskLimit + 4 * Margin
    /\ ComponentLimit \in [Calling -> Nat]
    /\ ComponentLimit["mutate"] = ProposerTimeout + Margin
    /\ ComponentLimit["runIncumbent"] = RunnerTimeout + Margin
    /\ ComponentLimit["runChallenger"] = RunnerTimeout + Margin
    /\ ComponentLimit["observe"] = EvaluatorTimeout + Margin
    /\ \A s \in {"assayIncumbent", "assayChallenger", "select"}: ComponentLimit[s] = Margin
    /\ AdapterLimit \in [WithAdapter -> Nat]
<1> USE TimeoutsAssumption
<1>1. TaskLimit \in Nat
  BY DEF TaskLimit
<1>2. TaskCount * TaskLimit \in Nat
  BY <1>1
<1>3. GenerationLimit = ProposerTimeout + Margin + TaskCount * TaskLimit + 4 * Margin
  BY DEF GenerationLimit, TaskLimit
<1>4. AdapterLimit \in [WithAdapter -> Nat]
  BY DEF AdapterLimit, WithAdapter
<1>5. ComponentLimit \in [Calling -> Nat]
  BY <1>4 DEF ComponentLimit, Calling
<1>6. /\ ComponentLimit["mutate"] = ProposerTimeout + Margin
      /\ ComponentLimit["runIncumbent"] = RunnerTimeout + Margin
      /\ ComponentLimit["runChallenger"] = RunnerTimeout + Margin
      /\ ComponentLimit["observe"] = EvaluatorTimeout + Margin
      /\ \A s \in {"assayIncumbent", "assayChallenger", "select"}: ComponentLimit[s] = Margin
  BY DEF ComponentLimit, AdapterLimit, Calling, WithAdapter
<1> QED BY <1>1, <1>2, <1>3, <1>4, <1>5, <1>6

LEMMA TaskBudget ==
    ASSUME NEW k \in Int
    PROVE  /\ k * TaskLimit \in Int /\ 0 * TaskLimit = 0
           /\ (k + 1) * TaskLimit = k * TaskLimit + TaskLimit
           /\ k \in Nat => k * TaskLimit \in Nat
  BY LimitsTyped

LEMMA AfterTyped ==
    ASSUME AgentTyped, AgentPlaced, stage \in Working
    PROVE  After \in Nat /\ Current \in Nat
<1>1. TaskCount - task \in Nat /\ TaskCount \in Nat
  BY TimeoutsAssumption DEF AgentPlaced
<1>2. (TaskCount - task) * TaskLimit \in Nat /\ TaskCount * TaskLimit \in Nat
  BY <1>1, TaskBudget
<1>3. After \in Nat
  BY <1>2, TimeoutsAssumption DEF After, Working, Calling
<1>4. timer.component \in Nat
  BY DEF AgentTyped, Timed
<1>5. Current \in Nat
  BY <1>4, LimitsTyped DEF Current, Working, Calling
<1> QED BY <1>3, <1>5

LEMMA AgentStarts == ASSUME AgentInit PROVE AgentInv
  BY TimeoutsAssumption
  DEF AgentInit, AgentInv, AgentTyped, AgentPlaced, AgentRows, AgentReports, AgentAnswers,
      AgentBudget, Working, Calling, Ended, NoWork, NoCallee, Timed

LEMMA AgentStutters == ASSUME AgentInv, UNCHANGED agentVars PROVE AgentInv'
  BY DEF agentVars, AgentInv, AgentTyped, AgentPlaced, AgentRows, AgentReports, AgentAnswers,
      AgentBudget, RunsBy, ReplayedBy, JudgedBy, IncumbentReport, ChallengerReport, Decision,
      After, Current

\* A step of a component, of its adapter or of the clock.
LEMMA CalleeSteps ==
    ASSUME AgentInv, UNCHANGED <<request, stage, task, work>>,
           callee' = [phase |-> callee'.phase, answer |-> callee'.answer],
           callee'.phase \in {"none", "component", "adapter", "assess", "answered", "failed"},
           timer' \in Timed, used' \in 0 .. Slack, AgentAnswers',
           stage \in Working =>
              timer'.controller + used' - Current' >= timer.controller + used - Current
    PROVE  AgentInv'
<1> USE DEF AgentInv
<1>1. AgentTyped' /\ AgentPlaced' /\ AgentRows' /\ AgentReports'
  BY DEF AgentTyped, AgentPlaced, AgentRows, AgentReports, RunsBy, ReplayedBy, JudgedBy,
         IncumbentReport, ChallengerReport, Decision
<1>2. ASSUME stage' \in Working PROVE timer'.controller + used' >= After' + Current' + Margin
  <2>1. /\ After \in Nat /\ Current \in Nat /\ After' = After
        /\ timer.controller + used >= After + Current + Margin
    BY <1>2, AfterTyped DEF AgentBudget, After
  <2>2. After' \in Nat /\ Current' \in Nat
    <3>1. timer'.component \in Nat
      BY DEF Timed
    <3>2. Current' \in Nat
      BY <3>1, <1>2, LimitsTyped DEF Current, Working, Calling
    <3> QED BY <2>1, <3>2
  <2>3. /\ timer.controller \in Nat /\ timer'.controller \in Nat /\ used \in Nat /\ used' \in Nat
        /\ Margin \in Nat
    BY TimeoutsAssumption DEF AgentTyped, Timed
  <2> QED BY <1>2, <2>1, <2>2, <2>3
<1>3. AgentBudget'
  BY <1>2 DEF AgentBudget
<1> QED BY <1>1, <1>3

LEMMA CalleeTyped ==
    ASSUME AgentTyped
    PROVE  /\ timer = [controller |-> timer.controller, component |-> timer.component,
                       adapter |-> timer.adapter]
           /\ timer.controller \in Nat /\ timer.component \in Nat /\ timer.adapter \in Nat
           /\ \A n \in Nat: /\ [timer EXCEPT !.controller = n] \in Timed
                            /\ [timer EXCEPT !.component = n] \in Timed
                            /\ [timer EXCEPT !.adapter = n] \in Timed
           /\ used \in Nat
  BY TimeoutsAssumption DEF AgentTyped, Timed

LEMMA CallSteps == ASSUME AgentInv, Call PROVE AgentInv'
<1> USE DEF AgentInv
<1>1. ComponentLimit[stage] \in Nat /\ stage # "validate" /\ callee.phase = "none"
  BY LimitsTyped DEF Call, NoCallee, Calling
<1>2. /\ timer' \in Timed /\ timer'.controller = timer.controller
      /\ timer'.component = ComponentLimit[stage]
  BY <1>1, CalleeTyped DEF Call
<1>3. Current' = Current
  BY <1>1, <1>2 DEF Call, Current, AgentTyped
<1>4. used' = used /\ used \in 0 .. Slack /\ timer.controller \in Nat /\ used \in Nat
  BY CalleeTyped DEF Call, AgentTyped
<1>5. Current \in Int
  BY <1>1 DEF Current
<1> QED BY <1>1, <1>2, <1>3, <1>4, <1>5, CalleeSteps
        DEF Call, AgentTyped, AgentAnswers, WithAdapter, Calling

LEMMA StartAdapterSteps == ASSUME AgentInv, StartAdapter PROVE AgentInv'
<1> USE DEF AgentInv
<1>1. /\ timer' \in Timed /\ timer'.controller = timer.controller
      /\ timer'.component = timer.component
  BY CalleeTyped, LimitsTyped DEF StartAdapter
<1>2. used' = used /\ used \in 0 .. Slack /\ timer.controller \in Nat /\ used \in Nat
      /\ timer.component \in Nat
  BY CalleeTyped DEF StartAdapter, AgentTyped
<1>3. Current' = Current /\ Current = timer.component
  BY <1>1 DEF StartAdapter, Current, AgentTyped, WithAdapter
<1> QED BY <1>1, <1>2, <1>3, CalleeSteps
        DEF StartAdapter, AgentTyped, AgentAnswers, WithAdapter, Calling

LEMMA AdapterSteps == ASSUME AgentInv, AdapterReplies \/ AdapterFails PROVE AgentInv'
<1> USE DEF AgentInv
<1>1. /\ timer' \in Timed /\ timer'.controller = timer.controller
      /\ timer'.component = timer.component
  <2>1. timer' = [timer EXCEPT !.adapter = 0]
    BY DEF AdapterReplies, AdapterFails
  <2> QED BY <2>1, CalleeTyped
<1>2. used' = used /\ used \in 0 .. Slack /\ timer.controller \in Nat /\ used \in Nat
      /\ timer.component \in Nat
  BY CalleeTyped DEF AdapterReplies, AdapterFails, AgentTyped
<1>3. Current = timer.component /\ Current' \in {timer.component, 0}
  BY <1>1 DEF AdapterReplies, AdapterFails, Current, AgentTyped, WithAdapter
<1>4. /\ callee' = [phase |-> callee'.phase, answer |-> callee'.answer]
      /\ callee'.phase \in {"assess", "failed"}
  BY DEF AdapterReplies, AdapterFails, AgentTyped
<1> QED BY <1>1, <1>2, <1>3, <1>4, CalleeSteps
        DEF AdapterReplies, AdapterFails, AgentTyped, AgentAnswers, WithAdapter, Calling

LEMMA ComponentSteps ==
    ASSUME AgentInv, Assess \/ Compute \/ ComponentFails PROVE AgentInv'
<1> USE DEF AgentInv
<1>1. /\ timer' = timer /\ used' = used /\ UNCHANGED <<request, stage, task, work>>
      /\ timer \in Timed /\ used \in 0 .. Slack
      /\ timer.controller \in Nat /\ used \in Nat /\ timer.component \in Nat
  BY CalleeTyped DEF Assess, Compute, ComponentFails, AgentTyped
<1>2. /\ callee' = [phase |-> callee'.phase, answer |-> callee'.answer]
      /\ callee'.phase \in {"answered", "failed"}
  BY DEF Assess, Compute, ComponentFails, AgentTyped
<1>3. stage \in Calling /\ callee.phase \in {"component", "assess"}
  BY DEF Assess, Compute, ComponentFails, WithAdapter, Calling
<1>4. Current = timer.component /\ Current' = 0
  BY <1>1, <1>2, <1>3 DEF Current, Calling
<1>5. AgentAnswers'
  <2>1. CASE Assess
    BY <2>1 DEF AgentAnswers, Assess, WithAdapter
  <2>2. CASE ComponentFails
    BY <2>2 DEF AgentAnswers, ComponentFails, Calling
  <2>3. CASE Compute
    BY <2>3 DEF AgentAnswers, Compute, Calling, Computable, Computed, IncumbentReport,
                ChallengerReport, Decision, AgentTyped
  <2> QED BY <2>1, <2>2, <2>3
<1> QED BY <1>1, <1>2, <1>4, <1>5, CalleeSteps

LEMMA TickSteps == ASSUME AgentInv, Tick PROVE AgentInv'
<1> USE DEF AgentInv
<1>1. /\ timer.controller \in Nat /\ timer.component \in Nat /\ timer.adapter \in Nat
      /\ used \in 0 .. Slack /\ Slack \in Nat
      /\ DOMAIN timer = {"controller", "component", "adapter"}
  BY CalleeTyped, TimeoutsAssumption DEF AgentTyped, Timed
<1>2. UNCHANGED <<request, stage, task, work, callee>> /\ AgentAnswers'
  BY DEF Tick, AgentAnswers, IncumbentReport, ChallengerReport, Decision
<1>3. stage \in Working => Current \in Nat
  BY AfterTyped
<1>4. CASE callee.phase \in {"none", "answered", "failed"}
  <2>1. /\ timer' \in Timed /\ timer'.controller = timer.controller - 1
        /\ used' = used + 1 /\ used' \in 0 .. Slack
    BY <1>1, <1>4 DEF Tick, Spend, Timed
  <2>2. Current' = Current
    BY <1>2, <1>4 DEF Current
  <2> QED BY <1>1, <1>2, <1>3, <2>1, <2>2, CalleeSteps DEF AgentTyped
<1>5. CASE callee.phase \in {"component", "assess", "adapter"}
  <2>1. /\ timer' \in Timed /\ timer'.controller = timer.controller - 1
        /\ timer'.component = timer.component - 1
        /\ used' = used
    BY <1>1, <1>5 DEF Tick, Spend, Timed
  <2>2. stage \in Working /\ stage # "validate" =>
            Current = timer.component /\ Current' = timer.component - 1
    BY <1>2, <1>5, <2>1 DEF Current, Working, Calling
  <2>3. stage # "validate"
    BY <1>5 DEF AgentAnswers
  <2> QED BY <1>1, <1>2, <1>3, <2>1, <2>2, <2>3, CalleeSteps DEF AgentTyped
<1> QED BY <1>4, <1>5 DEF AgentTyped

LEMMA FailSteps == ASSUME AgentInv, Fail PROVE AgentInv'
  BY TimeoutsAssumption
  DEF Fail, AgentInv, AgentTyped, AgentPlaced, AgentRows, AgentReports, AgentAnswers,
      AgentBudget, Working, Calling, Ended, NoWork, NoCallee, Timed

LEMMA StartSteps ==
    ASSUME AgentInv, NEW parent \in Incumbents, NEW policy \in Policies, Start(parent, policy)
    PROVE  AgentInv'
<1> USE DEF AgentInv
<1>1. /\ stage' = "mutate" /\ task' = 1 /\ work' = NoWork /\ callee' = NoCallee
      /\ used' = used /\ request' = [parent |-> parent, policy |-> policy]
  BY DEF Start, AgentAnswers
<1>2. used \in 0 .. Slack /\ Slack \in Nat /\ TaskCount \in Nat \ {0} /\ Margin \in Nat
  BY TimeoutsAssumption DEF AgentTyped
<1>3. timer' \in Timed /\ timer'.controller = GenerationLimit
  <2>1. timer' = [timer EXCEPT !.controller = GenerationLimit]
    BY DEF Start
  <2>2. GenerationLimit \in Nat
    BY LimitsTyped
  <2> QED BY <2>1, <2>2, CalleeTyped
<1>4. AgentTyped' /\ AgentPlaced'
  BY <1>1, <1>2, <1>3
  DEF AgentTyped, AgentPlaced, Working, Calling, Ended, NoWork, NoCallee
<1>5. AgentRows' /\ AgentReports' /\ AgentAnswers'
  BY <1>1 DEF AgentRows, RunsBy, ReplayedBy, JudgedBy, IsRow, AgentReports, AgentAnswers,
              NoWork, NoCallee
<1>6. AgentBudget'
  <2>1. /\ After' = TaskCount * TaskLimit + 3 * Margin
        /\ Current' = ProposerTimeout + Margin
    BY <1>1, LimitsTyped DEF After, Current, NoCallee
  <2>2. TaskCount * TaskLimit \in Nat
    BY <1>2, TaskBudget
  <2>3. ProposerTimeout \in Nat
    BY TimeoutsAssumption
  <2> QED BY <1>1, <1>2, <1>3, <2>1, <2>2, <2>3, LimitsTyped DEF AgentBudget
<1> QED BY <1>4, <1>5, <1>6

\* What every accepted answer leaves: a component less to wait for.
LEMMA AcceptFrame ==
    ASSUME AgentInv, Accept
    PROVE  /\ AgentTyped' /\ stage' = NextStage /\ stage' \in Working
           /\ callee' = NoCallee /\ request' = request
           /\ timer'.controller = timer.controller /\ timer.controller \in Nat
           /\ used' = used /\ used \in Nat /\ Margin \in Nat
           /\ stage \in Calling /\ task \in 1 .. TaskCount /\ task \in Nat /\ TaskCount \in Nat
           /\ Accepted(callee.answer) /\ callee.phase = "answered"
           /\ work' = Kept(callee.answer)
           /\ timer.controller + used >= After + Margin
<1> USE DEF AgentInv
<1>1. /\ stage' = NextStage /\ stage' \in Working
      /\ callee' = NoCallee /\ request' = request /\ used' = used
      /\ stage \in Calling /\ task \in 1 .. TaskCount /\ task \in Nat /\ TaskCount \in Nat
      /\ task' \in Nat
      /\ Accepted(callee.answer) /\ callee.phase = "answered" /\ Margin \in Nat
      /\ work' = Kept(callee.answer)
  BY TimeoutsAssumption DEF Accept, NextStage, Working, Calling, AgentPlaced
<1>2. /\ timer'.controller = timer.controller /\ timer.controller \in Nat
      /\ used \in Nat /\ timer' \in Timed
  <2>1. timer' = [timer EXCEPT !.component = 0]
    BY DEF Accept
  <2> QED BY <2>1, CalleeTyped
<1>3. work' = [child |-> work'.child,
               incumbentRuns |-> work'.incumbentRuns, challengerRuns |-> work'.challengerRuns,
               incumbentVerdicts |-> work'.incumbentVerdicts,
               challengerVerdicts |-> work'.challengerVerdicts,
               incumbentReport |-> work'.incumbentReport,
               challengerReport |-> work'.challengerReport, selection |-> work'.selection]
  BY <1>1 DEF Kept, Calling, AgentTyped
<1>4. AgentTyped'
  BY <1>1, <1>2, <1>3 DEF AgentTyped, NoCallee
<1>5. Current = 0 /\ After \in Nat /\ timer.controller + used >= After + Current + Margin
  BY <1>1, AfterTyped DEF Current, Calling, Working, AgentBudget
<1> QED BY <1>1, <1>2, <1>4, <1>5

LEMMA AcceptMutate == ASSUME AgentInv, Accept, stage = "mutate" PROVE AgentInv'
<1> DEFINE answer == callee.answer
<1>1. /\ work' = [work EXCEPT !.child = answer] /\ stage' = "runIncumbent"
      /\ task' = task /\ task = 1 /\ answer # request.parent /\ callee' = NoCallee
      /\ request' = request
  BY AcceptFrame DEF Kept, NextStage, Accepted, Accept, AgentInv, AgentPlaced, Working, Calling
<1>2. AgentPlaced' /\ AgentReports' /\ AgentAnswers'
  BY <1>1, AcceptFrame
  DEF AgentPlaced, AgentReports, AgentAnswers, NoCallee, AgentInv, AgentTyped
<1>3. AgentRows'
  BY <1>1, AcceptFrame
  DEF AgentRows, RunsBy, ReplayedBy, JudgedBy, AgentInv, AgentTyped, Working, Calling
<1>4. AgentBudget'
  <2>1. /\ After = TaskCount * TaskLimit + 3 * Margin
        /\ After' = (RunnerTimeout + Margin) + (EvaluatorTimeout + Margin)
                        + (TaskCount - 1) * TaskLimit + 3 * Margin
        /\ Current' = RunnerTimeout + Margin
    BY <1>1, LimitsTyped DEF After, Current, NoCallee
  <2>2. TaskCount - 1 \in Int /\ TaskCount - 1 + 1 = TaskCount
    BY AcceptFrame
  <2>3. /\ (TaskCount - 1) * TaskLimit \in Int
        /\ TaskCount * TaskLimit = (TaskCount - 1) * TaskLimit + TaskLimit
    BY <2>2, TaskBudget
  <2> QED BY <2>1, <2>3, AcceptFrame, TimeoutsAssumption DEF AgentBudget, TaskLimit
<1> QED BY <1>2, <1>3, <1>4, AcceptFrame DEF AgentInv

LEMMA AcceptRuns ==
    ASSUME AgentInv, Accept, stage \in {"runIncumbent", "runChallenger"} PROVE AgentInv'
<1> DEFINE answer == callee.answer
<1>1. /\ stage = "runIncumbent" =>
            /\ work' = [work EXCEPT !.incumbentRuns = Append(@, answer)]
            /\ stage' = "runChallenger"
      /\ stage = "runChallenger" =>
            /\ work' = [work EXCEPT !.challengerRuns = Append(@, answer)]
            /\ stage' = "observe"
      /\ task' = task /\ callee' = NoCallee /\ request' = request
  BY AcceptFrame DEF Kept, NextStage, Accept
<1>2. AgentPlaced' /\ AgentReports' /\ AgentAnswers'
  BY <1>1, AcceptFrame
  DEF AgentPlaced, AgentReports, AgentAnswers, NoCallee, AgentInv, AgentTyped, Working, Calling
<1>3. AgentRows'
  <2>1. task - 1 \in Nat /\ task - 1 + 1 = task
    BY AcceptFrame
  <2>2. /\ IsRow(work.incumbentRuns, RunsBy) /\ IsRow(work.challengerRuns, task - 1)
        /\ IsRow(work.incumbentVerdicts, task - 1) /\ IsRow(work.challengerVerdicts, task - 1)
        /\ RunsBy = IF stage = "runIncumbent" THEN task - 1 ELSE task
    BY DEF AgentInv, AgentRows, RunsBy, ReplayedBy, JudgedBy, Working, Calling
  <2>3. CASE stage = "runIncumbent"
    <3>1. IsRow(Append(work.incumbentRuns, answer), task)
      BY <2>1, <2>2, <2>3, RowGrows
    <3> QED BY <1>1, <2>2, <2>3, <3>1
            DEF AgentRows, RunsBy, ReplayedBy, JudgedBy, AgentInv, AgentTyped
  <2>4. CASE stage = "runChallenger"
    <3>1. IsRow(Append(work.challengerRuns, answer), task)
      BY <2>1, <2>2, RowGrows
    <3> QED BY <1>1, <2>2, <2>4, <3>1
            DEF AgentRows, RunsBy, ReplayedBy, JudgedBy, AgentInv, AgentTyped
  <2> QED BY <2>3, <2>4
<1>4. AgentBudget'
  <2>1. /\ After' + Current' = After
    <3> DEFINE rest == (TaskCount - task) * TaskLimit
    <3>1. TaskCount - task \in Int
      BY AcceptFrame
    <3>2. rest \in Int
      BY <3>1, TaskBudget
    <3>3. /\ stage = "runIncumbent" =>
                /\ After = (RunnerTimeout + Margin) + (EvaluatorTimeout + Margin)
                              + rest + 3 * Margin
                /\ After' = (EvaluatorTimeout + Margin) + rest + 3 * Margin
                /\ Current' = RunnerTimeout + Margin
          /\ stage = "runChallenger" =>
                /\ After = (EvaluatorTimeout + Margin) + rest + 3 * Margin
                /\ After' = rest + 3 * Margin
                /\ Current' = EvaluatorTimeout + Margin
      BY <1>1, LimitsTyped DEF After, Current, NoCallee
    <3> HIDE DEF rest
    <3> QED BY <3>2, <3>3, TimeoutsAssumption
  <2>2. After \in Nat
    BY AfterTyped DEF AgentInv, Working, Calling
  <2>3. /\ timer'.controller = timer.controller /\ used' = used
        /\ timer.controller \in Nat /\ used \in Nat /\ Margin \in Nat
        /\ timer.controller + used >= After + Margin
    BY AcceptFrame
  <2>4. timer'.controller + used' >= After' + Current' + Margin
    BY <2>1, <2>2, <2>3
  <2> QED BY <2>4 DEF AgentBudget
<1> QED BY <1>2, <1>3, <1>4, AcceptFrame DEF AgentInv

LEMMA AcceptObserve == ASSUME AgentInv, Accept, stage = "observe" PROVE AgentInv'
<1> DEFINE answer == callee.answer
           rest == (TaskCount - task) * TaskLimit
<1>1. /\ work' = [work EXCEPT !.incumbentVerdicts = Append(@, answer[request.parent]),
                              !.challengerVerdicts = Append(@, answer[work.child])]
      /\ stage' = IF task < TaskCount THEN "runIncumbent" ELSE "assayIncumbent"
      /\ task' = IF task < TaskCount THEN task + 1 ELSE task
      /\ callee' = NoCallee /\ request' = request
  BY AcceptFrame DEF Kept, NextStage, Accept
<1>2. AgentPlaced' /\ AgentReports' /\ AgentAnswers'
  BY <1>1, AcceptFrame
  DEF AgentPlaced, AgentReports, AgentAnswers, NoCallee, AgentInv, AgentTyped, Working, Calling
<1>3. AgentRows'
  <2>1. task - 1 \in Nat /\ task - 1 + 1 = task
    BY AcceptFrame
  <2>2. /\ IsRow(work.incumbentRuns, task) /\ IsRow(work.challengerRuns, task)
        /\ IsRow(work.incumbentVerdicts, task - 1) /\ IsRow(work.challengerVerdicts, task - 1)
    BY DEF AgentInv, AgentRows, RunsBy, ReplayedBy, JudgedBy, Working, Calling
  <2>3. /\ IsRow(Append(work.incumbentVerdicts, answer[request.parent]), task)
        /\ IsRow(Append(work.challengerVerdicts, answer[work.child]), task)
    BY <2>1, <2>2, RowGrows
  <2>4. /\ work'.incumbentRuns = work.incumbentRuns /\ work'.challengerRuns = work.challengerRuns
        /\ work'.incumbentVerdicts = Append(work.incumbentVerdicts, answer[request.parent])
        /\ work'.challengerVerdicts = Append(work.challengerVerdicts, answer[work.child])
    BY <1>1 DEF AgentInv, AgentTyped
  <2>5. RunsBy' = task /\ ReplayedBy' = task /\ JudgedBy' = task
    BY <1>1, <2>1, AcceptFrame DEF RunsBy, ReplayedBy, JudgedBy
  <2> QED BY <2>2, <2>3, <2>4, <2>5 DEF AgentRows
<1>4. AgentBudget'
  <2>1. TaskCount - task \in Int /\ rest \in Int
    <3>1. TaskCount - task \in Int
      BY AcceptFrame
    <3> QED BY <3>1, TaskBudget
  <2>2. After = rest + 3 * Margin
    BY DEF After
  <2>3. CASE task < TaskCount
    <3>1. /\ stage' = "runIncumbent" /\ task' = task + 1 /\ callee'.phase = "none"
      BY <1>1, <2>3 DEF NoCallee
    <3>2. /\ After' = (RunnerTimeout + Margin) + (EvaluatorTimeout + Margin)
                        + (TaskCount - (task + 1)) * TaskLimit + 3 * Margin
          /\ Current' = RunnerTimeout + Margin
      BY <3>1, LimitsTyped DEF After, Current
    <3>3. /\ TaskCount - (task + 1) \in Int
          /\ TaskCount - (task + 1) + 1 = TaskCount - task
      BY AcceptFrame
    <3>4. /\ (TaskCount - (task + 1)) * TaskLimit \in Int
          /\ rest = (TaskCount - (task + 1)) * TaskLimit + TaskLimit
      BY <3>3, TaskBudget
    <3> HIDE DEF rest
    <3>5. After' + Current' = After
      BY <2>1, <2>2, <3>2, <3>4, TimeoutsAssumption DEF TaskLimit
    <3> QED BY <2>1, <2>2, <3>5, AcceptFrame DEF AgentBudget
  <2>4. CASE ~(task < TaskCount)
    <3>1. /\ stage' = "assayIncumbent" /\ callee'.phase = "none"
      BY <1>1, <2>4 DEF NoCallee
    <3>2. After' = 2 * Margin /\ Current' = Margin
      BY <3>1, LimitsTyped DEF After, Current
    <3>3. rest = 0
      <4>1. TaskCount - task = 0
        BY <2>4, AcceptFrame
      <4> QED BY <4>1, TaskBudget
    <3> QED BY <2>2, <3>2, <3>3, AcceptFrame DEF AgentBudget
  <2> QED BY <2>3, <2>4
<1> QED BY <1>2, <1>3, <1>4, AcceptFrame DEF AgentInv

LEMMA AcceptComputed ==
    ASSUME AgentInv, Accept, stage \in {"assayIncumbent", "assayChallenger", "select"}
    PROVE  AgentInv'
<1> DEFINE answer == callee.answer
<1>1. /\ stage = "assayIncumbent" =>
            work' = [work EXCEPT !.incumbentReport = answer] /\ stage' = "assayChallenger"
      /\ stage = "assayChallenger" =>
            work' = [work EXCEPT !.challengerReport = answer] /\ stage' = "select"
      /\ stage = "select" =>
            work' = [work EXCEPT !.selection = answer] /\ stage' = "validate"
      /\ task' = task /\ task = TaskCount /\ callee' = NoCallee /\ request' = request
  BY AcceptFrame
  DEF Kept, NextStage, Accept, AgentInv, AgentPlaced, Working, Calling
<1>2. /\ work'.child = work.child /\ work'.incumbentRuns = work.incumbentRuns
      /\ work'.challengerRuns = work.challengerRuns
      /\ work'.incumbentVerdicts = work.incumbentVerdicts
      /\ work'.challengerVerdicts = work.challengerVerdicts
      /\ stage = "assayIncumbent" => work'.incumbentReport = answer
      /\ stage = "assayChallenger" =>
            work'.incumbentReport = work.incumbentReport /\ work'.challengerReport = answer
      /\ stage = "select" =>
            /\ work'.incumbentReport = work.incumbentReport
            /\ work'.challengerReport = work.challengerReport
            /\ work'.selection = answer
  BY <1>1 DEF AgentInv, AgentTyped
<1>3. AgentPlaced' /\ AgentAnswers'
  BY <1>1, AcceptFrame DEF AgentPlaced, AgentAnswers, NoCallee
<1>4. AgentReports'
  <2>1. /\ stage = "assayIncumbent" => IncumbentReport(answer)
        /\ stage = "assayChallenger" => ChallengerReport(answer)
        /\ stage = "select" => Decision(answer)
    BY AcceptFrame DEF AgentInv, AgentAnswers
  <2> QED BY <1>1, <1>2, <2>1
          DEF AgentReports, AgentInv, IncumbentReport, ChallengerReport, Decision,
              Working, Calling
<1>5. AgentRows'
  BY <1>1, <1>2 DEF AgentRows, RunsBy, ReplayedBy, JudgedBy, AgentInv, Working, Calling
<1>6. AgentBudget'
  <2>1. After' + Current' + Margin = After + Margin
    BY <1>1, LimitsTyped, TimeoutsAssumption DEF After, Current, NoCallee
  <2>2. After \in Nat /\ After' \in Nat /\ Current' \in Nat
    BY <1>1, LimitsTyped, TimeoutsAssumption DEF After, Current, NoCallee
  <2> QED BY <2>1, <2>2, AcceptFrame DEF AgentBudget
<1> QED BY <1>3, <1>4, <1>5, <1>6, AcceptFrame DEF AgentInv

LEMMA AgentSteps == ASSUME AgentInv, AgentNext PROVE AgentInv'
<1>1. CASE \E parent \in Incumbents, policy \in Policies: Start(parent, policy)
  BY <1>1, StartSteps
<1>2. CASE Accept
  <2>1. stage \in Calling
    BY <1>2 DEF Accept
  <2> QED BY <1>2, <2>1, AcceptMutate, AcceptRuns, AcceptObserve, AcceptComputed DEF Calling
<1>3. CASE Reject \/ ComponentTimesOut \/ ControllerKilled
  BY <1>3, FailSteps DEF Reject, ComponentTimesOut, ControllerKilled
<1>4. CASE Validate
  <2>1. stage' \in Ended /\ timer' = [timer EXCEPT !.controller = 0]
        /\ UNCHANGED <<request, task, work, callee, used>>
    BY <1>4 DEF Validate, Ended
  <2>2. timer' \in Timed /\ callee.phase = "none"
    BY <1>4, <2>1, CalleeTyped DEF AgentInv, AgentAnswers, Validate
  <2> QED BY <2>1, <2>2
          DEF AgentInv, AgentTyped, AgentPlaced, AgentRows, AgentReports, AgentAnswers,
              AgentBudget, Working, Calling, Ended
<1>5. CASE Call \/ Component \/ Adapter \/ Tick
  BY <1>5, CallSteps, StartAdapterSteps, AdapterSteps, ComponentSteps, TickSteps
  DEF Component, Adapter, AdapterTimesOut
<1> QED BY <1>1, <1>2, <1>3, <1>4, <1>5 DEF AgentNext, Controller

\* A deadline derived from the others, less what the Controller itself may take.
LEMMA BudgetCovers == ASSUME AgentInv PROVE DerivedTimeoutCovers
<1>1. ASSUME stage \in Working PROVE timer.controller > 0
  <2>1. After \in Nat /\ Current \in Nat
    BY <1>1, AfterTyped DEF AgentInv
  <2> QED BY <1>1, <2>1, TimeoutsAssumption DEF AgentInv, AgentBudget, AgentTyped, Timed
<1> QED BY <1>1 DEF DerivedTimeoutCovers

\* Both reports have a case for every task, each made of its run and its verdict.
LEMMA CasesMatch ==
    ASSUME NEW candidate, NEW runs, NEW verdicts, NEW n \in Nat,
           IsRow(verdicts, n), Assayable(runs, verdicts),
           NEW report, report = TaskReport(candidate, runs, verdicts)
    PROVE  /\ report.candidate = candidate /\ Len(report.cases) = n
           /\ report.passed = PassedCount(report.cases)
           /\ report.failures = SafetyFailures(report.cases)
           /\ \A i \in 1 .. n: TraceMatches(report.cases[i], runs[i], verdicts[i])
<1> DEFINE cases == [i \in DOMAIN verdicts |-> TaskCase(runs[i], verdicts[i])]
<1>1. DOMAIN verdicts = 1 .. n
  BY RowIsSequence
<1>2. report = Report(candidate, cases)
  BY DEF TaskReport
<1>3. report.candidate = candidate /\ report.cases = cases
      /\ report.passed = PassedCount(cases) /\ report.failures = SafetyFailures(cases)
  BY <1>2 DEF Report
<1>4. Len(cases) = n
  <2>1. cases \in Seq({cases[i]: i \in 1 .. n}) /\ DOMAIN cases = 1 .. n
    <3>1. cases \in [1 .. n -> {cases[i]: i \in 1 .. n}]
      BY <1>1
    <3> QED BY <3>1, SeqDef
  <2> QED BY <2>1, LenProperties
<1>5. \A i \in 1 .. n: TraceMatches(cases[i], runs[i], verdicts[i])
  BY <1>1 DEF Assayable, TraceMatches
<1> QED BY <1>3, <1>4, <1>5

LEMMA ReceiptsReplay == ASSUME AgentInv PROVE GenerationsReplay
<1>1. ASSUME stage = "validate" PROVE ReceiptValid
  <2>1. /\ work.child # request.parent /\ task = TaskCount /\ TaskCount \in Nat
        /\ IncumbentReport(work.incumbentReport) /\ ChallengerReport(work.challengerReport)
        /\ Decision(work.selection)
        /\ IsRow(work.incumbentVerdicts, TaskCount) /\ IsRow(work.challengerVerdicts, TaskCount)
    BY <1>1, TimeoutsAssumption
    DEF AgentInv, AgentPlaced, AgentReports, AgentRows, JudgedBy, Working
  <2>2. /\ ReportMatches(work.incumbentReport, request.parent)
        /\ \A i \in 1 .. TaskCount:
              TraceMatches(work.incumbentReport.cases[i], work.incumbentRuns[i],
                           work.incumbentVerdicts[i])
    BY <2>1, CasesMatch DEF IncumbentReport, ReportMatches
  <2>3. /\ ReportMatches(work.challengerReport, work.child)
        /\ \A i \in 1 .. TaskCount:
              TraceMatches(work.challengerReport.cases[i], work.challengerRuns[i],
                           work.challengerVerdicts[i])
    BY <2>1, CasesMatch DEF ChallengerReport, ReportMatches
  <2>4. SelectionReplays
    BY <2>1 DEF SelectionReplays, Decision
  <2>5. work.selection.selected \in {request.parent, work.child}
    BY <2>2, <2>3, <2>4 DEF SelectionReplays, Selection, ReportMatches
  <2> QED BY <2>1, <2>2, <2>3, <2>4, <2>5 DEF ReceiptValid
<1> QED BY <1>1 DEF GenerationsReplay

-----------------------------------------------------------------------------
(* A schema-1 generation and the Observer's session.                           *)

Observed == {"closing", "assay", "answered", "finish"}
FixturePoints == Busy \cup {"idle", "client", "alone", "answered", "failed", "killed"}
FixtureTyped ==
    /\ point \in FixturePoints
    /\ genes = [child |-> genes.child, incumbent |-> genes.incumbent,
                challenger |-> genes.challenger, incumbentRows |-> genes.incumbentRows,
                challengerRows |-> genes.challengerRows, version |-> genes.version,
                selected |-> genes.selected]
    /\ point = "idle" => genes = NoGenes
    /\ point \in Busy \cup {"answered"} =>
          /\ plan.active \in Versions /\ plan.parent \in Genomes
          /\ plan.support \in Supports /\ plan.probes \in Plans
          /\ probeIndex \in Nat \ {0}
          /\ point \in {"mutate", "open", "state"} => probeIndex = 1
          /\ point \in Observed => probeIndex = Len(plan.probes)

\* Where a generation is tells what may have become of its Observer.
ObserverPlaced ==
    /\ point \in {"idle", "mutate", "open"} => observer = "none"
    /\ point \in InSession \cup {"closing"} => observer # "none"
    /\ point \in {"assay", "answered"} => observer = "ended"
    /\ point = "failed" => observer \in {"none", "dead"}
    /\ point = "killed" => observer # "running"

\* The pipes hold one line at most: the request of this point, or its answer.
RequestLine ==
    CASE point = "state" -> [action |-> "state"]
      [] point = "observe" -> [action |-> "observe", probe |-> plan.probes[probeIndex]]
      [] point = "finish" -> [action |-> "finish", version |-> genes.version]
Traffic ==
    point \in Busy \cup {"idle", "answered"} =>
        /\ awaiting => point \in {"state", "observe", "finish"}
        /\ inbox # NoLine => awaiting /\ outbox = NoLine /\ inbox = RequestLine
        /\ outbox # NoLine => awaiting
        /\ (outbox # NoLine /\ point = "observe" /\ outbox.ok) =>
              /\ <<plan.probes[probeIndex], outbox.result>> \in observed
              /\ outbox.belief = belief

\* Rows are of observations of this session.
Shares(forecast) == \A target \in DOMAIN forecast: forecast[target] \in Nat
Taken == IF point \in Observed THEN probeIndex ELSE probeIndex - 1
EvidenceRows ==
    /\ point \in Busy \cup {"answered"} =>
          /\ IsRow(genes.incumbentRows, Taken) /\ IsRow(genes.challengerRows, Taken)
          /\ \A i \in 1 .. Taken:
                /\ <<plan.probes[i], genes.incumbentRows[i].target>> \in observed
                /\ genes.incumbentRows[i].share \in Nat
                /\ genes.challengerRows[i].share \in Nat
    /\ point \in Busy \ {"mutate"} => genes.child.confidence \in 0 .. Whole
    /\ point \in {"forecastChallenger", "observe"} => Shares(genes.incumbent)
    /\ point = "observe" => Shares(genes.challenger)
    /\ point \in Observed => genes.version \in belief

FixtureInv ==
    /\ FixtureTyped /\ ObserverPlaced /\ BeliefIsWhatEvidenceLeaves
    /\ Traffic /\ EvidenceRows /\ EvidenceIsOfOneVersion

LEMMA FixtureStarts == ASSUME FixtureInit, ObserverInit PROVE FixtureInv
  BY DEF FixtureInit, ObserverInit, FixtureInv, FixtureTyped, FixturePoints, Busy, InSession,
         ObserverPlaced, BeliefIsWhatEvidenceLeaves, Traffic, EvidenceRows,
         EvidenceIsOfOneVersion, Observed, NoGenes

LEMMA FixtureStutters ==
    ASSUME FixtureInv, UNCHANGED <<fixtureVars, observerVars>> PROVE FixtureInv'
<1>1. UNCHANGED <<plan, point, probeIndex, genes, awaiting>>
  BY DEF fixtureVars
<1>2. UNCHANGED <<observer, belief, observed, inbox, outbox>>
  BY DEF observerVars
<1>3. FixtureTyped' /\ ObserverPlaced' /\ BeliefIsWhatEvidenceLeaves'
  BY <1>1, <1>2 DEF FixtureInv, FixtureTyped, ObserverPlaced, BeliefIsWhatEvidenceLeaves
<1>4. Traffic' /\ EvidenceRows' /\ EvidenceIsOfOneVersion'
  BY <1>1, <1>2
  DEF FixtureInv, Traffic, RequestLine, EvidenceRows, Taken, Shares, EvidenceIsOfOneVersion
<1> QED BY <1>3, <1>4 DEF FixtureInv

\* Steps that leave the evidence of the session and of the generation alone.
LEMMA EvidenceStays ==
    ASSUME FixtureInv, UNCHANGED <<plan, probeIndex, genes, belief, observed>>, point' = point,
           observer # "none"
    PROVE  /\ FixtureTyped' /\ BeliefIsWhatEvidenceLeaves' /\ EvidenceRows'
           /\ EvidenceIsOfOneVersion'
  BY DEF FixtureInv, FixtureTyped, BeliefIsWhatEvidenceLeaves, EvidenceRows, Taken, Shares,
         EvidenceIsOfOneVersion

\* One observation more: the belief loses what it contradicts, and nothing else.
LEMMA BeliefShrinks ==
    ASSUME BeliefIsWhatEvidenceLeaves, observer # "none", NEW probe, Matching(probe) # {},
           belief' = Matching(probe), observed' = observed \cup {<<probe, sandbox[probe]>>}
    PROVE  BeliefIsWhatEvidenceLeaves' /\ observed \subseteq observed'
<1>1. belief' = {v \in Versions: /\ \A o \in observed: Answers[v][o[1]] = o[2]
                                /\ Answers[v][probe] = sandbox[probe]}
  BY DEF BeliefIsWhatEvidenceLeaves, Matching
<1>2. ASSUME NEW v
      PROVE  (\A o \in observed': Answers[v][o[1]] = o[2])
                <=> /\ \A o \in observed: Answers[v][o[1]] = o[2]
                    /\ Answers[v][probe] = sandbox[probe]
  <2> DEFINE e == <<probe, sandbox[probe]>>
  <2>1. e[1] = probe /\ e[2] = sandbox[probe] /\ observed' = observed \cup {e}
    OBVIOUS
  <2> HIDE DEF e
  <2> QED BY <2>1, Zenon
<1>3. belief' = {v \in Versions: \A o \in observed': Answers[v][o[1]] = o[2]}
  BY <1>1, <1>2
<1> QED BY <1>3 DEF BeliefIsWhatEvidenceLeaves

LEMMA ServeSteps == ASSUME FixtureInv, Serve, UNCHANGED fixtureVars PROVE FixtureInv'
<1> USE DEF FixtureInv
<1>1. /\ observer = "running" /\ inbox # NoLine
      /\ plan' = plan /\ point' = point /\ probeIndex' = probeIndex /\ genes' = genes
      /\ awaiting' = awaiting
  BY DEF Serve, fixtureVars
<1>2. point \in Busy \cup {"idle", "answered"} =>
        /\ point \in {"state", "observe", "finish"} /\ awaiting /\ inbox = RequestLine
        /\ outbox = NoLine
  BY <1>1 DEF Traffic
<1>3. CASE ~finished /\ ServeObserve
  <2>1. /\ inbox.action = "observe" /\ Matching(inbox.probe) # {}
        /\ belief' = Matching(inbox.probe)
        /\ observed' = observed \cup {<<inbox.probe, sandbox[inbox.probe]>>}
        /\ observer' = observer /\ inbox' = NoLine
        /\ outbox' = [ok |-> TRUE, result |-> sandbox[inbox.probe], belief |-> belief',
                      done |-> Cardinality(belief') = 1]
    BY <1>3 DEF ServeObserve, Reply
  <2>2. BeliefIsWhatEvidenceLeaves' /\ observed \subseteq observed'
    BY <1>1, <2>1, BeliefShrinks
  <2>3. point \in Busy \cup {"idle", "answered"} => point = "observe"
    BY <1>2, <2>1 DEF RequestLine
  <2>4. point = "observe" => inbox.probe = plan.probes[probeIndex]
    BY <1>2 DEF RequestLine, Busy, InSession
  <2>5. FixtureTyped' /\ ObserverPlaced'
    BY <1>1, <2>1 DEF FixtureTyped, ObserverPlaced
  <2>6. Traffic'
    BY <1>1, <1>2, <2>1, <2>3, <2>4 DEF Traffic
  <2>7. EvidenceRows'
    BY <1>1, <2>2, <2>3 DEF EvidenceRows, Taken, Shares, Observed, Busy, InSession
  <2>8. EvidenceIsOfOneVersion'
    BY <1>1 DEF EvidenceIsOfOneVersion
  <2> QED BY <2>2, <2>5, <2>6, <2>7, <2>8
<1>4. CASE Refuse \/ ServeState \/ ServeFinish
  <2>1. /\ observer' = observer /\ belief' = belief /\ observed' = observed /\ inbox' = NoLine
        /\ \/ outbox'.ok = FALSE
           \/ inbox.action \in {"state", "finish"}
    BY <1>4 DEF Refuse, ServeState, ServeFinish, Reply, Refused
  <2>2. ObserverPlaced'
    BY <1>1, <2>1 DEF ObserverPlaced
  <2>3. Traffic'
    BY <1>1, <1>2, <2>1 DEF Traffic, RequestLine
  <2> QED BY <1>1, <2>1, <2>2, <2>3, EvidenceStays
<1>5. CASE Contradicted
  <2>1. /\ observer' = "dead" /\ belief' = belief /\ observed' = observed /\ inbox' = NoLine
        /\ outbox' = outbox
    BY <1>5 DEF Contradicted, Stop
  <2>2. ObserverPlaced'
    BY <1>1, <2>1 DEF ObserverPlaced
  <2>3. Traffic'
    BY <1>1, <1>2, <2>1 DEF Traffic
  <2> QED BY <1>1, <2>1, <2>2, <2>3, EvidenceStays
<1>6. \/ ~finished /\ ServeObserve
      \/ Refuse \/ ServeState \/ ServeFinish
      \/ Contradicted
  BY DEF Serve
<1> QED BY <1>3, <1>4, <1>5, <1>6

LEMMA SessionSteps == ASSUME FixtureInv, SessionNext PROVE FixtureInv'
<1> USE DEF FixtureInv
<1>1. CASE Serve
  BY <1>1, ServeSteps DEF SessionNext
<1>2. CASE ObserverEnds \/ ObserverCrashes
  <2>1. /\ observer' \in {"ended", "dead"} /\ inbox' = NoLine /\ outbox' = outbox
        /\ belief' = belief /\ observed' = observed
        /\ observer \in {"running", "eof", "auto"}
        /\ observer' = "ended" => observer = "eof"
    BY <1>2 DEF ObserverEnds, ObserverCrashes, Stop
  <2>2. /\ plan' = plan /\ point' = point /\ probeIndex' = probeIndex /\ genes' = genes
        /\ awaiting' = awaiting
    BY DEF SessionNext, fixtureVars
  <2>3. ObserverPlaced' /\ Traffic'
    BY <2>1, <2>2 DEF ObserverPlaced, Traffic
  <2> QED BY <2>1, <2>2, <2>3, EvidenceStays
<1>3. CASE AlterSandbox
  <2>1. /\ UNCHANGED <<observer, belief, observed, finished, inbox, outbox>>
        /\ observer # "none"
        /\ plan' = plan /\ point' = point /\ probeIndex' = probeIndex /\ genes' = genes
        /\ awaiting' = awaiting
    BY <1>3 DEF AlterSandbox, SessionNext, fixtureVars
  <2>2. ObserverPlaced' /\ Traffic'
    BY <2>1 DEF ObserverPlaced, Traffic, RequestLine
  <2> QED BY <2>1, <2>2, EvidenceStays
<1> QED BY <1>1, <1>2, <1>3 DEF SessionNext

LEMMA BootKeeps ==
    ASSUME NEW active \in Versions, NEW mode \in {"running", "auto"}, Boot(active, mode)
    PROVE  /\ BeliefIsWhatEvidenceLeaves' /\ observer = "none" /\ observer' = mode
           /\ inbox' = NoLine /\ outbox' = NoLine
<1>1. observer' = mode /\ belief' = Versions /\ observed' = {} /\ observer = "none"
      /\ inbox' = NoLine /\ outbox' = NoLine
  BY DEF Boot
<1> QED BY <1>1 DEF BeliefIsWhatEvidenceLeaves

\* Steps outside a generation leave nothing to show but the belief.
LEMMA OutsideKeeps ==
    ASSUME FixtureInv, BeliefIsWhatEvidenceLeaves', genes' = genes,
           \/ point' \in {"client", "alone"}
           \/ point' = "failed" /\ observer' \in {"none", "dead"}
           \/ point' = "killed" /\ observer' # "running"
    PROVE  FixtureInv'
<1>1. /\ point' \in {"client", "alone", "failed", "killed"}
      /\ point' = "failed" => observer' \in {"none", "dead"}
      /\ point' = "killed" => observer' # "running"
  OBVIOUS
<1>2. point' \notin Busy \cup {"idle", "answered"} /\ point' \in FixturePoints
  BY <1>1 DEF Busy, InSession, FixturePoints
<1>3. FixtureTyped'
  BY <1>1, <1>2 DEF FixtureInv, FixtureTyped, Observed
<1>4. ObserverPlaced' /\ Traffic'
  BY <1>1, <1>2 DEF ObserverPlaced, Traffic, InSession
<1>5. EvidenceRows' /\ EvidenceIsOfOneVersion'
  BY <1>1, <1>2 DEF EvidenceRows, EvidenceIsOfOneVersion, Observed
<1> QED BY <1>3, <1>4, <1>5 DEF FixtureInv

LEMMA ClientSteps == ASSUME FixtureInv, Client PROVE FixtureInv'
<1>1. CASE ClientBoots
  <2>1. PICK active \in Versions: Boot(active, "running")
    BY <1>1 DEF ClientBoots
  <2> QED BY <1>1, <2>1, BootKeeps, OutsideKeeps DEF ClientBoots, MoveTo
<1>2. CASE point = "client" /\ (ClientSends \/ ClientReceives \/ ClientCloses)
  <2>1. /\ UNCHANGED <<point, genes, belief, observed>>
        /\ observer' # "none" => observer # "none"
    BY <1>2 DEF ClientSends, ClientReceives, ClientCloses, Send, Received, fixtureVars
  <2>2. BeliefIsWhatEvidenceLeaves'
    BY <2>1 DEF FixtureInv, BeliefIsWhatEvidenceLeaves
  <2> QED BY <1>2, <2>1, <2>2, OutsideKeeps
<1> QED BY <1>1, <1>2 DEF Client

LEMMA AloneSteps == ASSUME FixtureInv, StartsAlone \/ Alone PROVE FixtureInv'
<1>1. CASE StartsAlone
  <2>1. PICK active \in Versions: Boot(active, "auto")
    BY <1>1 DEF StartsAlone
  <2> QED BY <1>1, <2>1, BootKeeps, OutsideKeeps DEF StartsAlone, MoveTo
<1>2. CASE Alone
  <2>1. point = "alone" /\ point' = point /\ genes' = genes
    BY <1>2 DEF Alone, fixtureVars
  <2>2. CASE Identify(plan.active)
    <3>1. UNCHANGED <<belief, observed>> /\ observer # "none"
      BY <2>2 DEF Identify, Stop
    <3> QED BY <2>1, <3>1, OutsideKeeps DEF FixtureInv, BeliefIsWhatEvidenceLeaves
  <2>3. CASE ObserveBest
    <3>1. PICK probe \in Probes:
            IF Matching(probe) = {} THEN Stop("dead")
            ELSE /\ belief' = Matching(probe)
                 /\ observed' = observed \cup {<<probe, sandbox[probe]>>}
                 /\ UNCHANGED <<observer, sandbox, finished, inbox, outbox>>
      BY <2>3 DEF ObserveBest
    <3>2. observer # "none"
      BY <2>3 DEF ObserveBest
    <3>3. BeliefIsWhatEvidenceLeaves'
      BY <3>1, <3>2, BeliefShrinks DEF FixtureInv, BeliefIsWhatEvidenceLeaves, Stop
    <3> QED BY <2>1, <3>3, OutsideKeeps
  <2> QED BY <1>2, <2>2, <2>3 DEF Alone
<1> QED BY <1>1, <1>2

\* Whatever fails kills the Observer; a killed Controller leaves it end of input.
LEMMA EndSteps == ASSUME FixtureInv, GiveUp \/ FixtureKilled PROVE FixtureInv'
<1>1. UNCHANGED <<genes, belief, observed>>
  BY DEF GiveUp, FixtureKilled, Abandon
<1>2. observer' # "none" => observer # "none"
  BY DEF GiveUp, FixtureKilled, Abandon
<1>3. BeliefIsWhatEvidenceLeaves'
  BY <1>1, <1>2 DEF FixtureInv, BeliefIsWhatEvidenceLeaves
<1>4. \/ point' = "failed" /\ observer' \in {"none", "dead"}
      \/ point' = "killed" /\ observer' # "running"
  BY DEF GiveUp, FixtureKilled, Abandon, MoveTo
<1> QED BY <1>1, <1>3, <1>4, OutsideKeeps

LEMMA StartFixtureSteps ==
    ASSUME FixtureInv, NEW active \in Versions, NEW parent \in Genomes,
           NEW support \in Supports, NEW draw, NEW probes \in Plans,
           StartFixture([active |-> active, parent |-> parent, support |-> support,
                         draw |-> draw, probes |-> probes])
    PROVE  FixtureInv'
<1> USE DEF FixtureInv
<1>1. /\ point = "idle" /\ point' = "mutate" /\ probeIndex' = 1 /\ genes' = NoGenes
      /\ awaiting' = awaiting /\ UNCHANGED observerVars /\ genes = NoGenes
      /\ plan'.active \in Versions /\ plan'.parent \in Genomes /\ plan'.support \in Supports
      /\ plan'.probes \in Plans
  BY DEF StartFixture, MoveTo, FixtureTyped
<1>2. UNCHANGED <<observer, belief, observed, inbox, outbox>>
  BY <1>1 DEF observerVars
<1>3. FixtureTyped'
  BY <1>1 DEF FixtureTyped, FixturePoints, Busy, InSession, Observed
<1>4. ObserverPlaced' /\ Traffic' /\ BeliefIsWhatEvidenceLeaves'
  BY <1>1, <1>2 DEF ObserverPlaced, Traffic, BeliefIsWhatEvidenceLeaves, InSession
<1>5. EvidenceRows' /\ EvidenceIsOfOneVersion'
  BY <1>1 DEF EvidenceRows, EvidenceIsOfOneVersion, Taken, IsRow, Observed, NoGenes
<1> QED BY <1>3, <1>4, <1>5

\* A genome's confidence is a part of the whole, and the child's is what was drawn.
LEMMA MutateSteps == ASSUME FixtureInv, Mutate PROVE FixtureInv'
<1> USE DEF FixtureInv
<1>1. PICK i \in Picked(plan.support, plan.draw):
        /\ plan.support[i].child # plan.parent
        /\ genes' = [genes EXCEPT !.child = plan.support[i].child]
  BY DEF Mutate
<1>2. point = "mutate" /\ point' = "open" /\ plan' = plan /\ probeIndex' = probeIndex
      /\ UNCHANGED <<awaiting, observer, belief, observed, inbox, outbox>>
  BY DEF Mutate, MoveTo, observerVars
<1>3. genes'.child.confidence \in 0 .. Whole
  <2>1. i \in DOMAIN plan.support /\ plan.support \in Supports
    BY <1>2 DEF Picked, FixtureTyped, Busy
  <2>2. plan.support[i].child.confidence \in 0 .. Whole
    BY <2>1, FixturesAssumption
  <2> QED BY <1>1, <2>2 DEF FixtureTyped
<1>4. FixtureTyped'
  BY <1>1, <1>2 DEF FixtureTyped, FixturePoints, Busy, InSession, Observed
<1>5. ObserverPlaced' /\ Traffic' /\ BeliefIsWhatEvidenceLeaves'
  BY <1>2 DEF ObserverPlaced, Traffic, BeliefIsWhatEvidenceLeaves, InSession, Busy
<1>6. EvidenceRows' /\ EvidenceIsOfOneVersion'
  BY <1>1, <1>2, <1>3
  DEF EvidenceRows, EvidenceIsOfOneVersion, Taken, Observed, Busy, FixtureTyped
<1> QED BY <1>4, <1>5, <1>6

LEMMA OpenSteps == ASSUME FixtureInv, OpenSession PROVE FixtureInv'
<1> USE DEF FixtureInv
<1>1. point = "open" /\ point' = "state"
      /\ plan' = plan /\ probeIndex' = probeIndex /\ genes' = genes /\ awaiting' = awaiting
  BY DEF OpenSession, MoveTo
<1>2. /\ BeliefIsWhatEvidenceLeaves' /\ observer' = "running"
      /\ inbox' = NoLine /\ outbox' = NoLine
  BY <1>1, BootKeeps DEF OpenSession, FixtureTyped, Busy
<1>3. FixtureTyped'
  BY <1>1 DEF FixtureTyped, FixturePoints, Busy, InSession, Observed
<1>4. ObserverPlaced' /\ Traffic'
  BY <1>1, <1>2 DEF ObserverPlaced, Traffic, Busy
<1>5. EvidenceRows' /\ EvidenceIsOfOneVersion'
  <2>1. Taken = 0 /\ Taken' = 0
    BY <1>1 DEF Taken, Observed, FixtureTyped, Busy
  <2> QED BY <1>1, <2>1 DEF EvidenceRows, EvidenceIsOfOneVersion, Observed, Busy
<1> QED BY <1>2, <1>3, <1>4, <1>5

LEMMA AskSteps == ASSUME FixtureInv, AskState \/ AskObserve \/ AskFinish PROVE FixtureInv'
<1> USE DEF FixtureInv
<1>1. /\ ~awaiting /\ observer = "running" /\ awaiting' = TRUE
      /\ UNCHANGED <<observer, belief, observed, outbox, plan, point, probeIndex, genes>>
      /\ point \in {"state", "observe", "finish"}
      /\ inbox' = RequestLine
  BY DEF AskState, AskObserve, AskFinish, Send, RequestLine
<1>2. RequestLine' = RequestLine
  BY <1>1 DEF RequestLine
<1>3. ObserverPlaced' /\ Traffic'
  BY <1>1, <1>2 DEF ObserverPlaced, Traffic, Busy, InSession
<1> QED BY <1>1, <1>3, EvidenceStays

-----------------------------------------------------------------------------
(* A fold over a finite set takes its elements in the order a choice function
   gives them: the value of the least subset whose value were not determined,
   or not a number, would be determined by that of a smaller one. *)
Chooses(c, S) == \A s \in SUBSET S : s # {} => c[s] \in s
Combined(kind, a, b) == IF kind = "sum" THEN a + b ELSE a * b
Folded(kind, c, w, base, g, s) ==
    IF s = {} THEN base ELSE Combined(kind, g[s \ {c[s]}], w[c[s]])
Folds(kind, c, w, base, g, S) == g = [s \in SUBSET S |-> Folded(kind, c, w, base, g, s)]

LEMMA LeastSubset ==
    ASSUME NEW S, IsFiniteSet(S), NEW D \in SUBSET (SUBSET S), D # {}
    PROVE  \E s \in D : \A t \in D : ~ (t \subseteq s /\ t # s)
<1>1. IsWellFoundedOn(StrictSubsetOrdering(S), FiniteSubsetsOf(S))
      /\ FiniteSubsetsOf(S) = SUBSET S
  BY FS_StrictSubsetOrderingWellFounded, FS_FiniteSubsetsOfFinite
<1>2. PICK s \in D : \A t \in D : ~ (<<t, s>> \in StrictSubsetOrdering(S))
  <2>1. D \subseteq FiniteSubsetsOf(S) /\ D # {}
    BY <1>1
  <2> QED BY <1>1, <2>1, WFMin
<1>3. ASSUME NEW t \in D, t \subseteq s, t # s PROVE FALSE
  BY <1>2, <1>3 DEF StrictSubsetOrdering
<1> QED BY <1>3

LEMMA FoldsAgree ==
    ASSUME NEW S, IsFiniteSet(S), NEW c, Chooses(c, S), NEW kind, NEW w, NEW base,
           NEW t \in SUBSET S, NEW u \in SUBSET S, NEW g, NEW h,
           Folds(kind, c, w, base, g, t), Folds(kind, c, w, base, h, u),
           NEW v, v \subseteq t, v \subseteq u
    PROVE  g[v] = h[v]
<1> DEFINE D == {s \in SUBSET v : g[s] # h[s]}
<1>1. SUFFICES ASSUME D # {} PROVE FALSE
  OBVIOUS
<1>2. PICK s \in D : \A r \in D : ~ (r \subseteq s /\ r # s)
  <2>1. D \in SUBSET (SUBSET S)
    OBVIOUS
  <2> HIDE DEF D
  <2> QED BY <1>1, <2>1, LeastSubset
<1>3. s \in SUBSET t /\ s \in SUBSET u /\ g[s] # h[s]
  OBVIOUS
<1>4. g[s] = Folded(kind, c, w, base, g, s) /\ h[s] = Folded(kind, c, w, base, h, s)
  BY <1>3 DEF Folds
<1>5. s # {}
  BY <1>3, <1>4 DEF Folded
<1> DEFINE r == s \ {c[s]}
<1>6. c[s] \in s
  BY <1>3, <1>5 DEF Chooses
<1>7. g[r] = h[r]
  BY <1>2, <1>6
<1> QED BY <1>3, <1>4, <1>5, <1>7 DEF Folded

LEMMA SomeFolds ==
    ASSUME NEW S, IsFiniteSet(S), NEW c, Chooses(c, S), NEW kind, NEW w, NEW base
    PROVE  \E g : Folds(kind, c, w, base, g, S)
<1> DEFINE D == {s \in SUBSET S : ~ \E g : Folds(kind, c, w, base, g, s)}
<1>1. SUFFICES ASSUME D # {} PROVE FALSE
  OBVIOUS
<1>2. PICK t \in D : \A r \in D : ~ (r \subseteq t /\ r # t)
  <2>1. D \in SUBSET (SUBSET S)
    OBVIOUS
  <2> HIDE DEF D
  <2> QED BY <1>1, <2>1, LeastSubset
<1> DEFINE K(s) == CHOOSE g : Folds(kind, c, w, base, g, s)
<1>3. \A s \in SUBSET t : s # t => Folds(kind, c, w, base, K(s), s)
  BY <1>2
<1>4. t \in SUBSET S /\ ~ \E g : Folds(kind, c, w, base, g, t)
  BY <1>2
<1> DEFINE below == [s \in SUBSET t |-> IF s = t THEN base ELSE K(s)[s]]
           h == [s \in SUBSET t |-> Folded(kind, c, w, base, below, s)]
<1> HIDE DEF K, D
<1>5. ASSUME NEW s \in SUBSET t PROVE h[s] = Folded(kind, c, w, base, h, s)
  <2>1. CASE s = {}
    BY <2>1 DEF Folded
  <2>2. CASE s # {}
    <3> DEFINE r == s \ {c[s]}
    <3>1. c[s] \in s
      BY <1>4, <2>2 DEF Chooses
    <3>2. r \in SUBSET t /\ r # t
      BY <3>1
    <3>3. Folds(kind, c, w, base, K(r), r)
      BY <1>3, <3>2
    <3>4. K(r)[r] = Folded(kind, c, w, base, K(r), r)
      <4>1. r \in SUBSET r
        OBVIOUS
      <4> HIDE DEF r
      <4> QED BY <3>3, <4>1 DEF Folds
    <3>5. h[r] = Folded(kind, c, w, base, below, r)
      BY <3>2
    <3>6. Folded(kind, c, w, base, K(r), r) = Folded(kind, c, w, base, below, r)
      <4>1. CASE r = {}
        BY <4>1 DEF Folded
      <4>2. CASE r # {}
        <5> DEFINE q == r \ {c[r]}
        <5>1. c[r] \in r
          BY <1>4, <3>2, <4>2 DEF Chooses
        <5>2. q \in SUBSET t /\ q # t /\ q \subseteq r
          BY <3>2, <5>1
        <5>3. Folds(kind, c, w, base, K(q), q)
          BY <1>3, <5>2
        <5>4. K(r)[q] = K(q)[q]
          <6>1. r \in SUBSET S /\ q \in SUBSET S /\ q \subseteq q
            BY <1>4, <3>2, <5>2
          <6> HIDE DEF r, q
          <6> QED BY <3>3, <5>2, <5>3, <6>1, FoldsAgree
        <5>5. below[q] = K(q)[q]
          BY <5>2
        <5> QED BY <4>2, <5>4, <5>5 DEF Folded
      <4> QED BY <4>1, <4>2
    <3>7. below[r] = K(r)[r]
      BY <3>2
    <3>8. below[r] = h[r]
      BY <3>4, <3>5, <3>6, <3>7
    <3>9. h[s] = Combined(kind, below[r], w[c[s]])
      BY <2>2 DEF Folded
    <3> QED BY <2>2, <3>8, <3>9 DEF Folded
  <2> QED BY <2>1, <2>2
<1>6. Folds(kind, c, w, base, h, t)
  <2>1. h = [s \in SUBSET t |-> h[s]]
    OBVIOUS
  <2> HIDE DEF h
  <2> QED BY <1>5, <2>1 DEF Folds
<1> QED BY <1>4, <1>6

LEMMA FoldsTyped ==
    ASSUME NEW S, IsFiniteSet(S), NEW c, Chooses(c, S), NEW kind, NEW w, NEW base \in Nat,
           \A x \in S : w[x] \in Nat,
           NEW g, Folds(kind, c, w, base, g, S)
    PROVE  g[S] \in Nat
<1> DEFINE D == {s \in SUBSET S : g[s] \notin Nat}
<1>1. SUFFICES ASSUME D # {} PROVE FALSE
  OBVIOUS
<1>2. PICK s \in D : \A r \in D : ~ (r \subseteq s /\ r # s)
  <2>1. D \in SUBSET (SUBSET S)
    OBVIOUS
  <2> HIDE DEF D
  <2> QED BY <1>1, <2>1, LeastSubset
<1>3. s \in SUBSET S /\ g[s] \notin Nat
  OBVIOUS
<1>4. g[s] = Folded(kind, c, w, base, g, s)
  BY <1>3 DEF Folds
<1>5. s # {}
  BY <1>3, <1>4 DEF Folded
<1> DEFINE r == s \ {c[s]}
<1>6. c[s] \in s
  BY <1>3, <1>5 DEF Chooses
<1>7. g[r] \in Nat
  BY <1>2, <1>6
<1> QED BY <1>3, <1>4, <1>5, <1>6, <1>7 DEF Folded, Combined

\* What the community modules' recursive function is, of a number each.
LEMMA FoldIsNatural ==
    ASSUME NEW S, IsFiniteSet(S), NEW c, Chooses(c, S), NEW kind, NEW w, NEW base \in Nat,
           \A x \in S : w[x] \in Nat
    PROVE  (CHOOSE g : Folds(kind, c, w, base, g, S))[S] \in Nat
<1> DEFINE g == CHOOSE f : Folds(kind, c, w, base, f, S)
<1>1. Folds(kind, c, w, base, g, S)
  BY SomeFolds
<1> HIDE DEF g
<1>2. g[S] \in Nat
  BY <1>1, FoldsTyped
<1> QED BY <1>2 DEF g

LEMMA ShareIsNatural ==
    ASSUME NEW genome, genome.confidence \in 0 .. Whole, NEW v
    PROVE  VersionShare(genome, Versions, v) \in Nat
<1>1. Cardinality(Versions) \in Nat /\ Cardinality(Versions) > 1
  BY FixturesAssumption, FS_CardinalityType
<1> DEFINE others == Cardinality(Versions) - 1
           rest == Whole - genome.confidence
<1>2. others \in Nat \ {0} /\ rest \in Nat /\ genome.confidence \in Nat
  BY <1>1, WholeAssumption
<1>3. rest \div others \in Nat
  <2> HIDE DEF others, rest
  <2> QED BY <1>2
<1> QED BY <1>2, <1>3 DEF VersionShare

LEMMA ForecastIsNatural ==
    ASSUME NEW genome, genome.confidence \in 0 .. Whole, NEW answers
    PROVE  Shares(ForecastOf(genome, Versions, answers))
<1>1. SUFFICES ASSUME NEW target \in DOMAIN ForecastOf(genome, Versions, answers)
               PROVE  ForecastOf(genome, Versions, answers)[target] \in Nat
  BY DEF Shares
<1> DEFINE S == {v \in Versions: answers[v] = target}
           c == [s \in SUBSET S |-> CHOOSE x \in s : TRUE]
           w == [v \in S |-> VersionShare(genome, Versions, v)]
           Sums(g) == g = [s \in SUBSET S |->
                             IF s = {} THEN 0
                             ELSE g[s \ {CHOOSE x \in s : TRUE}]
                                    + VersionShare(genome, Versions, CHOOSE x \in s : TRUE)]
           sum == CHOOSE g : Sums(g)
<1>2. IsFiniteSet(S)
  BY FixturesAssumption, FS_Subset
<1>3. Chooses(c, S)
  BY DEF Chooses
<1>4. \A x \in S : w[x] \in Nat
  BY ShareIsNatural
<1>5. ASSUME NEW g PROVE Sums(g) <=> Folds("sum", c, w, 0, g, S)
  <2>1. ASSUME NEW s \in SUBSET S
        PROVE  Folded("sum", c, w, 0, g, s)
                 = IF s = {} THEN 0
                   ELSE g[s \ {CHOOSE x \in s : TRUE}]
                          + VersionShare(genome, Versions, CHOOSE x \in s : TRUE)
    <3>1. CASE s # {}
      <4> DEFINE x == CHOOSE e \in s : TRUE
      <4>1. x \in s /\ x \in S
        BY <3>1
      <4>2. c[s] = x
        OBVIOUS
      <4> HIDE DEF x
      <4>3. w[x] = VersionShare(genome, Versions, x)
        BY <4>1
      <4> HIDE DEF c, w
      <4>4. Folded("sum", c, w, 0, g, s) = g[s \ {x}] + w[x]
        BY <3>1, <4>2 DEF Folded, Combined
      <4> QED BY <3>1, <4>3, <4>4 DEF x
    <3> QED BY <3>1 DEF Folded
  <2> QED BY <2>1 DEF Folds
<1>6. sum[S] \in Nat
  <2>1. sum = CHOOSE g : Folds("sum", c, w, 0, g, S)
    BY <1>5
  <2> HIDE DEF S, c, w, sum
  <2> QED BY <1>2, <1>3, <1>4, <2>1, FoldIsNatural
<1>7. ForecastOf(genome, Versions, answers)[target] = sum[S]
  BY DEF ForecastOf, FoldSet, MapThenFoldSet
<1> QED BY <1>6, <1>7

\* The greatest of some numbers, as the fold over a sequence picks it.
LEMMA MaxIsMember ==
    ASSUME NEW u, IsFiniteSet(u), u # {}, \A x \in u : x \in Int
    PROVE  Max(u) \in u
<1> DEFINE Above(x) == {y \in u : y >= x}
           D == {Above(x) : x \in u}
<1>1. D \in SUBSET (SUBSET u)
  OBVIOUS
<1>2. D # {}
  OBVIOUS
<1>3. \E s \in D : \A t \in D : ~ (t \subseteq s /\ t # s)
  <2> HIDE DEF D
  <2> QED BY <1>1, <1>2, LeastSubset
<1>4. PICK s \in D : \A t \in D : ~ (t \subseteq s /\ t # s)
  BY <1>3
<1>5. PICK x \in u : s = Above(x)
  OBVIOUS
<1>6. ASSUME NEW y \in u, ~ (x >= y) PROVE FALSE
  <2>1. x \in Int /\ y \in Int /\ y >= x /\ ~ (x >= y)
    BY <1>6
  <2>2. ASSUME NEW z \in Above(y) PROVE z \in Above(x)
    <3>1. z \in u /\ z \in Int /\ z >= y
      OBVIOUS
    <3> QED BY <2>1, <3>1
  <2>3. x \in Above(x) /\ x \notin Above(y)
    BY <2>1
  <2>4. Above(y) \in D
    OBVIOUS
  <2> HIDE DEF Above, D
  <2> QED BY <1>4, <1>5, <2>2, <2>3, <2>4
<1>7. \E z \in u : \A y \in u : z >= y
  BY <1>6
<1> QED BY <1>7 DEF Max

LEMMA LikelihoodIsNatural ==
    ASSUME NEW rows, NEW n \in Nat, IsRow(rows, n), \A i \in 1 .. n : rows[i].share \in Nat
    PROVE  Likelihood(rows) \in Nat
<1> DEFINE S == 1 .. n
           seq == [i \in DOMAIN rows |-> rows[i].share]
           c == [s \in SUBSET S |-> Max(s)]
           Products(g) == g = [s \in SUBSET S |->
                                 IF s = {} THEN 1 ELSE g[s \ {Max(s)}] * seq[Max(s)]]
           product == CHOOSE g : Products(g)
<1>1. DOMAIN rows = S /\ DOMAIN seq = S
  BY RowIsSequence
<1>2. IsFiniteSet(S)
  <2>1. 1 \in Int /\ n \in Int
    OBVIOUS
  <2> QED BY <2>1, FS_Interval
<1>3. Chooses(c, S)
  <2>1. ASSUME NEW s \in SUBSET S, s # {} PROVE Max(s) \in s
    <3>1. \A x \in s : x \in Int
      OBVIOUS
    <3>2. IsFiniteSet(s)
      BY <1>2, FS_Subset
    <3> QED BY <2>1, <3>1, <3>2, MaxIsMember
  <2> QED BY <2>1 DEF Chooses
<1>4. \A x \in S : seq[x] \in Nat
  BY <1>1
<1>5. ASSUME NEW g PROVE Products(g) <=> Folds("product", c, seq, 1, g, S)
  <2>1. ASSUME NEW s \in SUBSET S
        PROVE  Folded("product", c, seq, 1, g, s)
                 = IF s = {} THEN 1 ELSE g[s \ {Max(s)}] * seq[Max(s)]
    BY DEF Folded, Combined
  <2> QED BY <2>1 DEF Folds
<1>6. product[S] \in Nat
  <2>1. product = CHOOSE g : Folds("product", c, seq, 1, g, S)
    BY <1>5
  <2> HIDE DEF S, c, seq, product
  <2> QED BY <1>2, <1>3, <1>4, <2>1, FoldIsNatural
<1>7. Likelihood(rows) = product[S]
  BY <1>1 DEF Likelihood, Product, FoldLeft, MapThenFoldSet
<1> QED BY <1>6, <1>7

-----------------------------------------------------------------------------
\* A generation's own steps that neither take an answer nor end it.
LEMMA ForecastSteps ==
    ASSUME FixtureInv, ForecastIncumbent \/ ForecastChallenger PROVE FixtureInv'
<1> USE DEF FixtureInv
<1>1. /\ plan' = plan /\ probeIndex' = probeIndex
      /\ UNCHANGED <<awaiting, observer, belief, observed, inbox, outbox>>
      /\ \/ /\ point = "forecastIncumbent" /\ point' = "forecastChallenger"
            /\ genes' = [genes EXCEPT !.incumbent = Expected(plan.parent)]
         \/ /\ point = "forecastChallenger" /\ point' = "observe"
            /\ genes' = [genes EXCEPT !.challenger = Expected(genes.child)]
  BY DEF ForecastIncumbent, ForecastChallenger, MoveTo, observerVars
<1>2. plan.parent.confidence \in 0 .. Whole /\ genes.child.confidence \in 0 .. Whole
  BY <1>1, FixturesAssumption DEF FixtureTyped, EvidenceRows, Busy, InSession
<1>3. Shares(Expected(plan.parent)) /\ Shares(Expected(genes.child))
  BY <1>2, ForecastIsNatural DEF Expected
<1>4. FixtureTyped'
  BY <1>1 DEF FixtureTyped, FixturePoints, Busy, InSession, Observed
<1>5. ObserverPlaced' /\ BeliefIsWhatEvidenceLeaves'
  BY <1>1 DEF ObserverPlaced, BeliefIsWhatEvidenceLeaves, InSession
<1>6. Traffic'
  <2>1. point \in Busy /\ point \notin {"state", "observe", "finish"}
    BY <1>1 DEF Busy, InSession
  <2>2. ~ awaiting /\ inbox = NoLine /\ outbox = NoLine
    BY <2>1 DEF Traffic
  <2> QED BY <1>1, <2>2 DEF Traffic
<1>7. EvidenceRows'
  <2>1. Taken' = Taken /\ point \in Busy \ {"mutate"} /\ point' \in Busy
    BY <1>1 DEF Taken, Observed, Busy, InSession
  <2>2. /\ genes'.incumbentRows = genes.incumbentRows
        /\ genes'.challengerRows = genes.challengerRows
        /\ genes'.child = genes.child
        /\ point = "forecastIncumbent" => genes'.incumbent = Expected(plan.parent)
        /\ point = "forecastChallenger" => /\ genes'.incumbent = genes.incumbent
                                           /\ genes'.challenger = Expected(genes.child)
    BY <1>1 DEF FixtureTyped
  <2> QED BY <1>1, <1>3, <2>1, <2>2 DEF EvidenceRows, Observed
<1>8. EvidenceIsOfOneVersion'
  BY <1>1 DEF EvidenceIsOfOneVersion
<1> QED BY <1>4, <1>5, <1>6, <1>7, <1>8

\* What the Observer answered, and that its line is no longer in the pipe.
LEMMA ReceivedIs ==
    ASSUME FixtureInv, Received, point \in {"state", "observe", "finish"}
    PROVE  /\ ~ awaiting' /\ inbox' = NoLine /\ outbox' = NoLine
           /\ UNCHANGED <<observer, belief, observed>> /\ outbox # NoLine
  BY DEF Received, FixtureInv, Traffic, Busy, InSession

LEMMA TakeStateSteps == ASSUME FixtureInv, TakeState PROVE FixtureInv'
<1> USE DEF FixtureInv
<1>1. /\ point = "state" /\ point' = "forecastIncumbent"
      /\ plan' = plan /\ probeIndex' = probeIndex /\ genes' = genes
  BY DEF TakeState, MoveTo
<1>2. /\ ~ awaiting' /\ inbox' = NoLine /\ outbox' = NoLine
      /\ UNCHANGED <<observer, belief, observed>>
  BY <1>1, ReceivedIs DEF TakeState
<1>3. FixtureTyped' /\ ObserverPlaced' /\ BeliefIsWhatEvidenceLeaves' /\ Traffic'
  BY <1>1, <1>2
  DEF FixtureTyped, FixturePoints, Busy, InSession, Observed, ObserverPlaced,
      BeliefIsWhatEvidenceLeaves, Traffic
<1>4. EvidenceRows' /\ EvidenceIsOfOneVersion'
  BY <1>1, <1>2 DEF EvidenceRows, EvidenceIsOfOneVersion, Taken, Observed, Busy, InSession
<1> QED BY <1>3, <1>4

\* The evidence gains the observation asked for, with what each forecast gave it.
LEMMA TakeObservationSteps == ASSUME FixtureInv, TakeObservation PROVE FixtureInv'
<1> USE DEF FixtureInv
<1> DEFINE incumbentRow == Row(genes.incumbent, outbox.result)
           challengerRow == Row(genes.challenger, outbox.result)
           version == IF LastProbe THEN CHOOSE v \in outbox.belief : TRUE ELSE genes.version
<1>1. /\ point = "observe" /\ Received /\ Usable /\ plan' = plan
      /\ genes' = [genes EXCEPT !.incumbentRows = Append(@, incumbentRow),
                                !.challengerRows = Append(@, challengerRow),
                                !.version = version]
      /\ point' = IF LastProbe THEN "finish" ELSE "forecastIncumbent"
      /\ probeIndex' = IF LastProbe THEN probeIndex ELSE probeIndex + 1
  BY DEF TakeObservation, MoveTo, FixtureTyped
<1>2. /\ ~ awaiting' /\ inbox' = NoLine /\ outbox' = NoLine
      /\ UNCHANGED <<observer, belief, observed>> /\ outbox # NoLine
  BY <1>1, ReceivedIs
<1>3. /\ <<plan.probes[probeIndex], outbox.result>> \in observed /\ outbox.belief = belief
      /\ incumbentRow.target = outbox.result
      /\ incumbentRow.share \in Nat /\ challengerRow.share \in Nat
      /\ LastProbe => version \in belief
  <2>1. <<plan.probes[probeIndex], outbox.result>> \in observed /\ outbox.belief = belief
    BY <1>1, <1>2 DEF Traffic, Usable, Busy, InSession
  <2>2. belief # {}
    BY <1>1 DEF BeliefIsWhatEvidenceLeaves, ObserverPlaced, InSession
  <2>3. incumbentRow.share \in Nat /\ challengerRow.share \in Nat
    BY <1>1 DEF Usable, Row, EvidenceRows, Shares
  <2> QED BY <2>1, <2>2, <2>3 DEF Row
<1>4. /\ probeIndex \in Nat \ {0} /\ probeIndex - 1 \in Nat /\ Taken = probeIndex - 1
      /\ Taken' = probeIndex
      /\ IsRow(genes.incumbentRows, probeIndex - 1)
      /\ IsRow(genes.challengerRows, probeIndex - 1)
  BY <1>1 DEF FixtureTyped, EvidenceRows, Taken, Observed, Busy, InSession
<1>5. /\ genes'.incumbentRows = Append(genes.incumbentRows, incumbentRow)
      /\ genes'.challengerRows = Append(genes.challengerRows, challengerRow)
      /\ genes'.version = version /\ genes'.child = genes.child
  BY <1>1 DEF FixtureTyped
<1>6. FixtureTyped'
  <2>1. genes' = [child |-> genes'.child, incumbent |-> genes'.incumbent,
                  challenger |-> genes'.challenger, incumbentRows |-> genes'.incumbentRows,
                  challengerRows |-> genes'.challengerRows, version |-> genes'.version,
                  selected |-> genes'.selected]
    BY <1>1 DEF FixtureTyped
  <2> HIDE DEF incumbentRow, challengerRow, version
  <2>2. LastProbe => probeIndex = Len(plan.probes)
    BY DEF LastProbe
  <2> QED BY <1>1, <1>4, <2>1, <2>2
          DEF FixtureTyped, FixturePoints, Busy, InSession, Observed
<1> HIDE DEF incumbentRow, challengerRow, version
<1>7. ObserverPlaced' /\ BeliefIsWhatEvidenceLeaves' /\ Traffic'
  BY <1>1, <1>2 DEF ObserverPlaced, BeliefIsWhatEvidenceLeaves, Traffic, InSession
<1>8. EvidenceRows'
  <2>1. /\ IsRow(genes'.incumbentRows, Taken') /\ IsRow(genes'.challengerRows, Taken')
        /\ \A i \in 1 .. probeIndex - 1: /\ genes'.incumbentRows[i] = genes.incumbentRows[i]
                                         /\ genes'.challengerRows[i] = genes.challengerRows[i]
        /\ genes'.incumbentRows[probeIndex] = incumbentRow
        /\ genes'.challengerRows[probeIndex] = challengerRow
    <3> DEFINE k == probeIndex - 1
    <3>1. /\ k \in Nat /\ k + 1 = probeIndex
          /\ IsRow(genes.incumbentRows, k) /\ IsRow(genes.challengerRows, k)
      BY <1>4
    <3> HIDE DEF k
    <3>2. \A e : /\ IsRow(Append(genes.incumbentRows, e), k + 1)
                 /\ \A i \in 1 .. k: Append(genes.incumbentRows, e)[i] = genes.incumbentRows[i]
                 /\ Append(genes.incumbentRows, e)[k + 1] = e
      BY <3>1, RowGrows
    <3>3. \A e : /\ IsRow(Append(genes.challengerRows, e), k + 1)
                 /\ \A i \in 1 .. k: Append(genes.challengerRows, e)[i] = genes.challengerRows[i]
                 /\ Append(genes.challengerRows, e)[k + 1] = e
      BY <3>1, RowGrows
    <3>4. genes'.incumbentRows = Append(genes.incumbentRows, incumbentRow)
      BY <1>5
    <3>5. genes'.challengerRows = Append(genes.challengerRows, challengerRow)
      BY <1>5
    <3>6. /\ IsRow(genes'.incumbentRows, k + 1)
          /\ \A i \in 1 .. k: genes'.incumbentRows[i] = genes.incumbentRows[i]
          /\ genes'.incumbentRows[k + 1] = incumbentRow
      BY <3>2, <3>4, Zenon
    <3>7. /\ IsRow(genes'.challengerRows, k + 1)
          /\ \A i \in 1 .. k: genes'.challengerRows[i] = genes.challengerRows[i]
          /\ genes'.challengerRows[k + 1] = challengerRow
      BY <3>3, <3>5, Zenon
    <3>8. k = probeIndex - 1 /\ Taken' = probeIndex
      BY <1>4 DEF k
    <3> QED BY <3>1, <3>6, <3>7, <3>8
  <2>2. ASSUME NEW i \in 1 .. Taken'
        PROVE  /\ <<plan.probes[i], genes'.incumbentRows[i].target>> \in observed
               /\ genes'.incumbentRows[i].share \in Nat
               /\ genes'.challengerRows[i].share \in Nat
    <3>1. i \in 1 .. probeIndex - 1 \/ i = probeIndex
      BY <1>4
    <3>2. CASE i = probeIndex
      BY <1>3, <2>1, <3>2
    <3>3. CASE i \in 1 .. probeIndex - 1
      BY <1>1, <1>4, <2>1, <3>3 DEF EvidenceRows, Busy, InSession
    <3> QED BY <3>1, <3>2, <3>3
  <2>3. genes'.child.confidence \in 0 .. Whole
    BY <1>1, <1>5 DEF EvidenceRows, Busy, InSession
  <2>4. point' \in Observed => genes'.version \in belief
    BY <1>1, <1>3, <1>5 DEF Observed
  <2> QED BY <1>1, <1>2, <2>1, <2>2, <2>3, <2>4 DEF EvidenceRows
<1>9. EvidenceIsOfOneVersion'
  BY <1>1 DEF EvidenceIsOfOneVersion
<1> QED BY <1>6, <1>7, <1>8, <1>9

LEMMA FinishSteps == ASSUME FixtureInv, TakeFinish \/ CloseInput \/ Closed PROVE FixtureInv'
<1> USE DEF FixtureInv
<1>1. /\ plan' = plan /\ probeIndex' = probeIndex /\ genes' = genes
      /\ UNCHANGED <<belief, observed>>
      /\ point \in {"finish", "closing"} /\ point' \in {"closing", "assay"}
      /\ ~ awaiting' /\ inbox' = NoLine /\ outbox' = NoLine
      /\ point' = "assay" => observer' = "ended"
      /\ observer # "none" /\ observer' # "none"
  <2>1. CASE TakeFinish
    BY <2>1, ReceivedIs DEF TakeFinish, MoveTo, ObserverPlaced, InSession
  <2>2. CASE CloseInput \/ Closed
    <3>1. point = "closing" /\ ~ awaiting /\ inbox = NoLine /\ outbox = NoLine
      BY <2>2 DEF CloseInput, Closed, Traffic, Busy, InSession
    <3>2. CASE CloseInput
      BY <3>1, <3>2 DEF CloseInput, fixtureVars
    <3>3. CASE Closed
      BY <3>1, <3>3 DEF Closed, MoveTo, observerVars
    <3> QED BY <2>2, <3>2, <3>3
  <2> QED BY <2>1, <2>2
<1>2. FixtureTyped' /\ ObserverPlaced' /\ BeliefIsWhatEvidenceLeaves' /\ Traffic'
  BY <1>1
  DEF FixtureTyped, FixturePoints, Busy, InSession, Observed, ObserverPlaced,
      BeliefIsWhatEvidenceLeaves, Traffic
<1>3. EvidenceRows' /\ EvidenceIsOfOneVersion'
  BY <1>1 DEF EvidenceRows, EvidenceIsOfOneVersion, Taken, Observed, Busy, InSession
<1> QED BY <1>2, <1>3

\* Of two likelihoods that are numbers the gate's three cases are one comparison.
LEMMA PromotesWhenLikelier ==
    ASSUME NEW incumbent, NEW challenger,
           incumbent.likelihood \in Nat, challenger.likelihood \in Nat,
           incumbent.infinite <=> incumbent.likelihood = 0,
           challenger.infinite <=> challenger.likelihood = 0
    PROVE  FixturePromotes(Gain, incumbent, challenger)
             <=> challenger.likelihood > Gain * incumbent.likelihood
<1>1. Gain * incumbent.likelihood \in Nat /\ Gain * 0 = 0
  BY FixturesAssumption
<1> QED BY <1>1 DEF FixturePromotes

LEMMA SelectSteps == ASSUME FixtureInv, Select PROVE FixtureInv'
<1> USE DEF FixtureInv
<1> DEFINE incumbent == FixtureReport(plan.parent, genes.incumbentRows)
           challenger == FixtureReport(genes.child, genes.challengerRows)
           likelier == Likelihood(genes.challengerRows) > Gain * Likelihood(genes.incumbentRows)
<1>1. /\ point = "assay" /\ point' = "answered" /\ plan' = plan /\ probeIndex' = probeIndex
      /\ UNCHANGED <<awaiting, observer, belief, observed, inbox, outbox>>
      /\ FixtureComparable(incumbent, challenger)
      /\ genes' = [genes EXCEPT !.selected = IF FixturePromotes(Gain, incumbent, challenger)
                                             THEN genes.child ELSE plan.parent]
  BY DEF Select, MoveTo, observerVars
<1>2. /\ probeIndex = Len(plan.probes) /\ probeIndex \in Nat /\ Taken = probeIndex
      /\ IsRow(genes.incumbentRows, probeIndex) /\ IsRow(genes.challengerRows, probeIndex)
      /\ \A i \in 1 .. probeIndex: /\ <<plan.probes[i], genes.incumbentRows[i].target>> \in observed
                                   /\ genes.incumbentRows[i].share \in Nat
                                   /\ genes.challengerRows[i].share \in Nat
      /\ genes.version \in belief /\ plan.probes \in Plans
  BY <1>1 DEF FixtureTyped, EvidenceRows, Taken, Observed, Busy
<1>3. /\ Likelihood(genes.incumbentRows) \in Nat
      /\ Likelihood(genes.challengerRows) \in Nat
  BY <1>2, LikelihoodIsNatural
<1>4. FixturePromotes(Gain, incumbent, challenger) <=> likelier
  <2>1. /\ incumbent.likelihood = Likelihood(genes.incumbentRows)
        /\ challenger.likelihood = Likelihood(genes.challengerRows)
        /\ incumbent.infinite <=> Likelihood(genes.incumbentRows) = 0
        /\ challenger.infinite <=> Likelihood(genes.challengerRows) = 0
    BY DEF FixtureReport
  <2> HIDE DEF incumbent, challenger
  <2> QED BY <1>3, <2>1, PromotesWhenLikelier
<1>5. genes.child # plan.parent
  BY <1>1 DEF FixtureComparable, FixtureReport
<1> HIDE DEF incumbent, challenger
<1>6. /\ genes'.incumbentRows = genes.incumbentRows
      /\ genes'.challengerRows = genes.challengerRows
      /\ genes'.child = genes.child /\ genes'.version = genes.version
      /\ genes'.selected = genes.child <=> likelier
  BY <1>1, <1>4, <1>5 DEF FixtureTyped
<1>7. ASSUME NEW i \in DOMAIN plan.probes
      PROVE  genes.incumbentRows[i].target = Answers[genes.version][plan.probes[i]]
  <2>1. i \in 1 .. probeIndex
    <3>1. plan.probes \in Seq({plan.probes[k]: k \in DOMAIN plan.probes})
      BY <1>2, FixturesAssumption
    <3> QED BY <1>2, <3>1, LenProperties
  <2>2. \A o \in observed: Answers[genes.version][o[1]] = o[2]
    BY <1>1, <1>2 DEF BeliefIsWhatEvidenceLeaves, ObserverPlaced
  <2> QED BY <1>2, <2>1, <2>2
<1>8. EvidenceIsOfOneVersion'
  BY <1>1, <1>6, <1>7 DEF EvidenceIsOfOneVersion
<1>9. FixtureTyped'
  <2>1. genes' = [child |-> genes'.child, incumbent |-> genes'.incumbent,
                  challenger |-> genes'.challenger, incumbentRows |-> genes'.incumbentRows,
                  challengerRows |-> genes'.challengerRows, version |-> genes'.version,
                  selected |-> genes'.selected]
    BY <1>1 DEF FixtureTyped
  <2> QED BY <1>1, <2>1 DEF FixtureTyped, FixturePoints, Busy, InSession, Observed
<1>10. ObserverPlaced' /\ BeliefIsWhatEvidenceLeaves' /\ Traffic'
  BY <1>1 DEF ObserverPlaced, BeliefIsWhatEvidenceLeaves, Traffic, InSession, Busy
<1>11. EvidenceRows'
  <2>1. Taken' = probeIndex
    BY <1>1 DEF Taken, Observed
  <2> QED BY <1>1, <1>2, <1>6, <2>1 DEF EvidenceRows, Observed, Busy
<1> QED BY <1>8, <1>9, <1>10, <1>11

LEMMA FixtureSteps == ASSUME FixtureInv, FixtureNext PROVE FixtureInv'
<1>1. CASE \E active \in Versions, parent \in Genomes, support \in Supports,
              draw \in 0 .. Whole - 1, probes \in Plans:
                StartFixture([active |-> active, parent |-> parent, support |-> support,
                              draw |-> draw, probes |-> probes])
  BY <1>1, StartFixtureSteps
<1>2. CASE Mutate \/ OpenSession \/ AskState \/ AskObserve \/ AskFinish
  BY <1>2, MutateSteps, OpenSteps, AskSteps
<1>3. CASE TakeState \/ ForecastIncumbent \/ ForecastChallenger \/ TakeObservation
  BY <1>3, TakeStateSteps, ForecastSteps, TakeObservationSteps
<1>4. CASE TakeFinish \/ CloseInput \/ Closed \/ Select
  BY <1>4, FinishSteps, SelectSteps
<1>5. CASE GiveUp \/ FixtureKilled
  BY <1>5, EndSteps
<1> QED BY <1>1, <1>2, <1>3, <1>4, <1>5 DEF FixtureNext, FixtureStep

LEMMA NoneIsLeft == ASSUME FixtureInv PROVE NoObserverLeft
  BY DEF FixtureInv, ObserverPlaced, NoObserverLeft

-----------------------------------------------------------------------------
\* Of the two generations a Controller runs one, and a client none.
CInv == AgentInv /\ FixtureInv

LEMMA ControllerStarts == ControllerInit => CInv
  BY AgentStarts, FixtureStarts DEF ControllerInit, CInv

LEMMA ControllerSteps == CInv /\ [ControllerNext]_controllerVars => CInv'
<1> SUFFICES ASSUME CInv, [ControllerNext]_controllerVars PROVE CInv'
  OBVIOUS
<1> USE DEF CInv
<1>1. CASE AgentRun
  BY <1>1, AgentSteps, FixtureStutters DEF AgentRun
<1>2. CASE FixtureRun
  BY <1>2, FixtureSteps, AgentStutters DEF FixtureRun
<1>3. CASE Client
  BY <1>3, ClientSteps, AgentStutters DEF Client
<1>4. CASE Observer
  BY <1>4, SessionSteps, AgentStutters DEF Observer
<1>5. CASE StartsAlone \/ Alone
  <2>1. UNCHANGED agentVars
    BY <1>5 DEF StartsAlone, Alone, agentVars
  <2> QED BY <1>5, <2>1, AloneSteps, AgentStutters
<1>6. CASE UNCHANGED controllerVars
  BY <1>6, AgentStutters, FixtureStutters DEF controllerVars
<1> QED BY <1>1, <1>2, <1>3, <1>4, <1>5, <1>6 DEF ControllerNext

LEMMA ControllerInvariant == ControllerSpec => []CInv
  BY ControllerStarts, ControllerSteps, PTL DEF ControllerSpec

\* Whatever adapters answer, a receipt the Controller comes to check replays: of
\* validate_agent_generation_receipt and the components' own checks neither is laxer.
THEOREM ReceiptsAlwaysReplay == ControllerSpec => []GenerationsReplay
<1>1. CInv => GenerationsReplay
  BY ReceiptsReplay DEF CInv
<1> QED BY <1>1, ControllerInvariant, PTL

\* contract.py's timeout covers the deadlines of all the calls below it, for any
\* number of tasks and any timeouts: no caller's deadline comes before theirs.
THEOREM CallersNeverTimeOutFirst == ControllerSpec => []DerivedTimeoutCovers
<1>1. CInv => DerivedTimeoutCovers
  BY BudgetCovers DEF CInv
<1> QED BY <1>1, ControllerInvariant, PTL

\* observer.py believes exactly the versions that its observations leave, for any
\* set of versions, probes and answers, altered sandboxes included.
THEOREM BeliefIsEvidence == ControllerSpec => []BeliefIsWhatEvidenceLeaves
<1>1. CInv => BeliefIsWhatEvidenceLeaves
  BY DEF CInv, FixtureInv
<1> QED BY <1>1, ControllerInvariant, PTL

\* A schema-1 generation that answers scored both forecasts against one version's
\* contents, and promoted the child exactly when those were likelier by more than
\* the factor asked for: the report's infinite surprisals hide no other case.
THEOREM FixturesScoreOneVersion == ControllerSpec => []EvidenceIsOfOneVersion
<1>1. CInv => EvidenceIsOfOneVersion
  BY DEF CInv, FixtureInv
<1> QED BY <1>1, ControllerInvariant, PTL

\* ObserverSession.close and abort: a generation that ended left no Observer running.
THEOREM ObserversAreReaped == ControllerSpec => []NoObserverLeft
<1>1. CInv => NoObserverLeft
  BY NoneIsLeft DEF CInv
<1> QED BY <1>1, ControllerInvariant, PTL
=============================================================================
