-------------------------- MODULE PersonBoxesProofs --------------------------
(***************************************************************************)
(* Theorems of PersonBoxes: for any number of cells, any scores and any    *)
(* geometry, in whatever order the sort leaves the candidates, get_boxes   *)
(* keeps a greedy choice of boxes.                                         *)
(***************************************************************************)
EXTENDS PersonBoxes, FiniteSetTheorems, TLAPS

-----------------------------------------------------------------------------
(* The inductive invariant.                                                *)

\* No cell is a candidate twice.
Distinct == \A i, j \in 1 .. N : candidates[i] = candidates[j] => i = j

\* Nothing is disabled before its loop, nothing copied before the other.
Pristine ==
  /\ pc \in {"scan", "sort"} => off = {}
  /\ pc \in {"scan", "sort", "disable"} => boxes = <<>>
  /\ pc \in {"scan", "sort"} => c = 1 /\ r = 2
  /\ pc = "disable" => r > c

\* The pair j, i has been through the body of the inner loop.
Done(j, i) == j < c \/ (j = c /\ i < r)

\* GreedyOutcome for the pairs that have been compared so far.
GreedySoFar ==
  pc = "disable" =>
    \A i \in 1 .. N :
      candidates[i] \in off <=>
        \E j \in 1 .. i - 1 : /\ candidates[j] \notin off
                              /\ Overlap(candidates[j], candidates[i])
                              /\ Done(j, i)

\* The sort has put the candidates in order if it could.
Sorted ==
  (pc \notin {"scan", "sort"} /\ Consistent(Listed)) =>
    \A i, j \in 1 .. N : i < j => ~Precedes(candidates[j], candidates[i])

\* What has been copied was enabled and comes from before the counter.
Copied ==
  pc \in {"copy", "done"} =>
    \A k \in 1 .. Len(boxes) :
      \E i \in 1 .. N : /\ boxes[k] = candidates[i]
                        /\ candidates[i] \notin off
                        /\ pc = "copy" => i < c

\* Whatever is enabled and has been passed was copied.
Covered ==
  /\ pc = "copy" =>
       \A i \in 1 .. c - 1 : candidates[i] \notin off => candidates[i] \in Returned
  /\ pc = "done" =>
       \/ Len(boxes) = BoxLimit
       \/ \A i \in 1 .. N : candidates[i] \notin off => candidates[i] \in Returned

BoxesInv == /\ TypeOK /\ Distinct /\ Pristine
            /\ GreedySoFar /\ GreedyOutcome
            /\ Sorted /\ Copied /\ Covered /\ BoxesApart

-----------------------------------------------------------------------------
\* A function on 1 .. n is a sequence of length n.
LEMMA FunctionIsSeq ==
  ASSUME NEW S, NEW n \in Nat, NEW q \in [1 .. n -> S]
  PROVE  q \in Seq(S) /\ Len(q) = n /\ DOMAIN q = 1 .. n
OBVIOUS

\* A permuted list of candidates is a list of the same length, of the same
\* cells, and none of them twice.
LEMMA Permuted ==
  ASSUME NEW perm \in Permutations, candidates \in Seq(Cells), Distinct,
         NEW q, q = [i \in 1 .. N |-> candidates[perm[i]]]
  PROVE  /\ q \in Seq(Cells) /\ Len(q) = N
         /\ \A i, j \in 1 .. N : q[i] = q[j] => i = j
         /\ {q[i] : i \in 1 .. N} = Listed
<1> N \in Nat
  BY DEF N
<1>0. q = [i \in 1 .. N |-> candidates[perm[i]]]
  OBVIOUS
<1>1. \A i \in 1 .. N : perm[i] \in 1 .. N
  BY DEF Permutations
<1>2. \A i \in 1 .. N : candidates[i] \in Cells
  BY DEF N
<1>3. q \in [1 .. N -> Cells]
  BY <1>0, <1>1, <1>2
<1>4. q \in Seq(Cells) /\ Len(q) = N
  BY <1>3, FunctionIsSeq
<1>5. ASSUME NEW i \in 1 .. N, NEW j \in 1 .. N, q[i] = q[j]
      PROVE  i = j
  <2>1. candidates[perm[i]] = candidates[perm[j]]
    BY <1>0, <1>5
  <2>2. perm[i] = perm[j]
    BY <1>1, <2>1 DEF Distinct
  <2> QED BY <2>2 DEF Permutations
<1>6. {q[i] : i \in 1 .. N} = Listed
  <2>1. \A j \in 1 .. N : \E i \in 1 .. N : perm[i] = j
    BY DEF Permutations
  <2>2. ASSUME NEW a \in Listed
        PROVE  \E i \in 1 .. N : q[i] = a
    <3>1. PICK j \in 1 .. N : a = candidates[j]
      BY DEF Listed
    <3>2. PICK i \in 1 .. N : perm[i] = j
      BY <2>1
    <3> QED BY <1>0, <3>1, <3>2
  <2>3. ASSUME NEW i \in 1 .. N
        PROVE  q[i] \in Listed
    <3>1. q[i] = candidates[perm[i]] /\ perm[i] \in 1 .. N
      BY <1>0, <1>1
    <3> QED BY <3>1 DEF Listed
  <2> QED BY <2>2, <2>3
<1> QED BY <1>4, <1>5, <1>6

-----------------------------------------------------------------------------
\* BoxesInv holds when get_boxes is entered.
LEMMA BoxesInit == Init => BoxesInv
<1> SUFFICES ASSUME Init PROVE BoxesInv
  OBVIOUS
<1>1. candidates = <<>> /\ boxes = <<>> /\ Len(candidates) = 0 /\ Len(boxes) = 0
  BY DEF Init
<1>2. TypeOK
  BY <1>1, SizesAssumption DEF Init, TypeOK, N, Limits
<1> QED
  BY <1>1, <1>2 DEF Init, BoxesInv, Distinct, Pristine, GreedySoFar,
     GreedyOutcome, Sorted, Copied, Covered, BoxesApart, N

\* The scan lists cells in ascending order, so none of them twice.
LEMMA ScanStep ==
  ASSUME BoxesInv, GetCandidates
  PROVE  BoxesInv'
<1> DEFINE kept == {a \in Cells : score[a] >= Min}
<1>1. PICK q \in [1 .. Cardinality(kept) -> kept] :
        /\ \A i, j \in DOMAIN q : i < j => q[i] < q[j]
        /\ candidates' = q
  BY DEF GetCandidates
<1>2. Cardinality(kept) \in Nat
  <2>1. IsFiniteSet(Cells)
    BY FS_Interval, SizesAssumption DEF Cells
  <2>2. kept \subseteq Cells
    OBVIOUS
  <2> QED BY <2>1, <2>2, FS_Subset, FS_CardinalityType
<1> DEFINE n == Cardinality(kept)
<1>3. q \in [1 .. n -> Cells] /\ n \in Nat
  BY <1>1, <1>2
<1> HIDE DEF n, kept
<1>4. candidates' \in Seq(Cells) /\ N' = n /\ DOMAIN q = 1 .. n
  BY <1>1, <1>3, FunctionIsSeq DEF N
<1>5. Distinct'
  <2>1. \A i \in 1 .. n : q[i] \in Int
    <3>1. \A i \in 1 .. n : q[i] \in Cells
      BY <1>3
    <3>2. Cells \subseteq Int
      BY SizesAssumption DEF Cells
    <3> QED BY <3>1, <3>2
  <2>2. \A i, j \in 1 .. n : q[i] = q[j] => i = j
    BY <1>1, <1>3, <1>4, <2>1
  <2> QED BY <1>1, <1>4, <2>2 DEF Distinct
<1>6. TypeOK'
  <2>1. /\ score' = score /\ overlap' = overlap /\ off' = off /\ boxes' = boxes
        /\ c' = 1 /\ r' = 2 /\ pc' = "sort"
    BY DEF GetCandidates, input, BoxesInv, Pristine
  <2> QED BY <1>3, <1>4, <2>1 DEF BoxesInv, TypeOK
<1> QED
  BY <1>5, <1>6 DEF GetCandidates, input, BoxesInv, Pristine, GreedySoFar,
     GreedyOutcome, Sorted, Copied, Covered, BoxesApart

\* The sort permutes the candidates, and orders them if the comparator does.
LEMMA SortStep ==
  ASSUME BoxesInv, SortCandidates
  PROVE  BoxesInv'
<1>1. PICK perm \in Permutations :
        /\ candidates' = [i \in 1 .. N |-> candidates[perm[i]]]
        /\ Consistent(Listed) =>
             \A i, j \in 1 .. N : i < j => ~Precedes(candidates'[j], candidates'[i])
  BY DEF SortCandidates
<1>2. /\ candidates' \in Seq(Cells) /\ N' = N
      /\ \A i, j \in 1 .. N : candidates'[i] = candidates'[j] => i = j
      /\ {candidates'[i] : i \in 1 .. N} = Listed
  <2>1. PICK q : q = [i \in 1 .. N |-> candidates[perm[i]]]
    OBVIOUS
  <2>2. candidates \in Seq(Cells) /\ Distinct
    BY DEF BoxesInv, TypeOK
  <2>3. /\ q \in Seq(Cells) /\ Len(q) = N
        /\ \A i, j \in 1 .. N : q[i] = q[j] => i = j
        /\ {q[i] : i \in 1 .. N} = Listed
    BY <2>1, <2>2, Permuted
  <2>4. candidates' = q
    BY <1>1, <2>1
  <2> QED BY <2>3, <2>4 DEF N
<1>3. N \in Nat
  BY DEF BoxesInv, TypeOK, N
<1>4. Distinct' /\ Listed' = Listed
  BY <1>2 DEF Distinct, Listed
<1>5. score' = score /\ off = {} /\ boxes = <<>> /\ UNCHANGED <<off, boxes>>
      /\ pc' = "disable" /\ c' = 1 /\ r' = 2
  BY DEF SortCandidates, input, BoxesInv, Pristine
<1>6. TypeOK'
  BY <1>2, <1>3, <1>5 DEF SortCandidates, input, BoxesInv, TypeOK
<1>7. Sorted'
  <2>1. Consistent(Listed)' = Consistent(Listed)
    BY <1>4, <1>5 DEF Consistent, Alike, Precedes
  <2>2. \A a, b : Precedes(a, b)' = Precedes(a, b)
    BY <1>5 DEF Precedes
  <2> QED BY <1>1, <1>2, <2>1, <2>2, <1>5 DEF Sorted, Precedes
<1>8. GreedySoFar'
  BY <1>3, <1>2, <1>5 DEF GreedySoFar, Done
<1> QED
  BY <1>4, <1>5, <1>6, <1>7, <1>8 DEF BoxesInv, Pristine, GreedyOutcome, Copied, Covered,
     BoxesApart

-----------------------------------------------------------------------------
\* The loops that disable candidates.

\* The facts that the steps of disable_non_max share.
LEMMA DisablingFacts ==
  ASSUME BoxesInv, Disabling
  PROVE  /\ UNCHANGED <<score, overlap, candidates, boxes>>
         /\ N' = N /\ N \in Nat /\ c \in 1 .. N + 1 /\ r \in 1 .. N + 2 /\ r > c
         /\ boxes = <<>> /\ Distinct' /\ BoxesApart' /\ Len(boxes') = 0
         /\ \A a, b : Overlap(a, b)' = Overlap(a, b)
         /\ (pc' \in {"disable", "copy"} => Sorted')
<1>1. UNCHANGED <<score, overlap, candidates, boxes>> /\ pc = "disable"
  BY DEF Disabling, input
<1>2. N' = N /\ N \in Nat /\ c \in 1 .. N + 1 /\ r \in 1 .. N + 2 /\ r > c /\ boxes = <<>>
  BY <1>1 DEF BoxesInv, TypeOK, Pristine, N
<1>3. Distinct' /\ BoxesApart' /\ Len(boxes') = 0
  BY <1>1, <1>2 DEF BoxesInv, Distinct, BoxesApart
<1>4. \A a, b : Overlap(a, b)' = Overlap(a, b)
  BY <1>1 DEF Overlap
<1>5. ASSUME pc' \in {"disable", "copy"} PROVE Sorted'
  <2>1. Listed' = Listed
    BY <1>1, <1>2 DEF Listed
  <2>2. Consistent(Listed)' = Consistent(Listed)
    BY <1>1, <2>1 DEF Consistent, Alike, Precedes
  <2> QED BY <1>1, <1>2, <2>2 DEF BoxesInv, Sorted, Precedes
<1> QED BY <1>1, <1>2, <1>3, <1>4, <1>5

\* The outer loop moves on, past a candidate that is disabled or one that has
\* been compared with all later ones.
LEMMA OuterStep ==
  ASSUME BoxesInv, SkipDisabled \/ InnerDone
  PROVE  BoxesInv'
<1>1. /\ Disabling /\ NextC /\ UNCHANGED <<pc, off>> /\ c <= N
      /\ candidates[c] \in off \/ r > N
  BY DEF SkipDisabled, InnerDone
<1>2. pc = "disable" /\ pc' = "disable"
  BY <1>1 DEF Disabling
<1>3. /\ UNCHANGED <<score, overlap, candidates, boxes>>
      /\ N' = N /\ N \in Nat /\ c \in 1 .. N + 1 /\ r \in 1 .. N + 2 /\ r > c
      /\ boxes = <<>> /\ Distinct' /\ BoxesApart'
      /\ \A a, b : Overlap(a, b)' = Overlap(a, b)
      /\ Sorted'
  BY <1>1, <1>2, DisablingFacts
<1>4. TypeOK'
  BY <1>1, <1>3 DEF BoxesInv, TypeOK, NextC
<1>5. GreedySoFar'
  <2>1. ASSUME NEW i \in 1 .. N, NEW j \in 1 .. i - 1, candidates[j] \notin off
        PROVE  Done(j, i)' = Done(j, i)
    BY <1>1, <1>3, <2>1 DEF Done, NextC
  <2> QED BY <1>1, <1>2, <1>3, <2>1 DEF BoxesInv, GreedySoFar
<1> QED
  BY <1>1, <1>2, <1>3, <1>4, <1>5 DEF BoxesInv, Pristine, GreedyOutcome, Copied, Covered, NextC

\* The body of the inner loop compares candidate r with the enabled candidate c.
LEMMA InnerStep ==
  ASSUME BoxesInv, Disable
  PROVE  BoxesInv'
<1>1. /\ Disabling /\ c <= N /\ r <= N /\ candidates[c] \notin off
      /\ off' = IF Overlap(candidates[c], candidates[r])
                THEN off \cup {candidates[r]} ELSE off
      /\ r' = r + 1 /\ UNCHANGED <<pc, c>>
  BY DEF Disable
<1>2. pc = "disable" /\ pc' = "disable"
  BY <1>1 DEF Disabling
<1>3. /\ UNCHANGED <<score, overlap, candidates, boxes>>
      /\ N' = N /\ N \in Nat /\ c \in 1 .. N + 1 /\ r \in 1 .. N + 2 /\ r > c
      /\ boxes = <<>> /\ Distinct' /\ BoxesApart'
      /\ \A a, b : Overlap(a, b)' = Overlap(a, b)
      /\ Sorted'
  BY <1>1, <1>2, DisablingFacts
<1>4. \A i \in 1 .. N : candidates[i] \in Cells
  BY DEF BoxesInv, TypeOK, N
<1>5. TypeOK'
  BY <1>1, <1>3, <1>4 DEF BoxesInv, TypeOK
<1>6. GreedySoFar'
  <2> SUFFICES ASSUME NEW i \in 1 .. N
               PROVE  candidates[i] \in off' <=>
                        \E j \in 1 .. i - 1 :
                          /\ candidates[j] \notin off'
                          /\ Overlap(candidates[j], candidates[i])
                          /\ Done(j, i)'
    BY <1>3 DEF GreedySoFar
  <2>1. candidates[i] \in off <=>
          \E j \in 1 .. i - 1 : /\ candidates[j] \notin off
                                /\ Overlap(candidates[j], candidates[i])
                                /\ Done(j, i)
    BY <1>2 DEF BoxesInv, GreedySoFar
  <2>2. \A j \in 1 .. N : j # r => (candidates[j] \in off' <=> candidates[j] \in off)
    BY <1>1, <1>3 DEF BoxesInv, Distinct
  <2>3. \A j \in 1 .. i - 1 :
          Done(j, i)' <=> (Done(j, i) \/ (j = c /\ i = r))
    BY <1>1, <1>3 DEF Done
  <2>4. \A j \in 1 .. i - 1 : Done(j, i)' => j # r
    BY <1>1, <1>3 DEF Done
  <2>5. CASE i # r
    BY <1>3, <2>1, <2>2, <2>3, <2>4, <2>5
  <2>6. CASE i = r
    <3>1. candidates[r] \in off' <=>
            candidates[r] \in off \/ Overlap(candidates[c], candidates[r])
      BY <1>1
    <3>2. c \in 1 .. i - 1 /\ candidates[c] \notin off'
      BY <1>1, <1>3, <2>2, <2>6
    <3> QED BY <1>3, <2>1, <2>2, <2>3, <2>4, <2>6, <3>1, <3>2
  <2> QED BY <2>5, <2>6
<1> QED
  BY <1>1, <1>2, <1>3, <1>5, <1>6 DEF BoxesInv, Pristine, GreedyOutcome, Copied, Covered

\* The loops are over: all pairs have been compared.
LEMMA DisableDoneStep ==
  ASSUME BoxesInv, DisableDone
  PROVE  BoxesInv'
<1>1. /\ Disabling /\ c > N /\ pc' = "copy" /\ c' = 1 /\ r' = 2 /\ UNCHANGED off
  BY DEF DisableDone
<1>2. pc = "disable"
  BY <1>1 DEF Disabling
<1>3. /\ UNCHANGED <<score, overlap, candidates, boxes>>
      /\ N' = N /\ N \in Nat /\ c \in 1 .. N + 1 /\ r \in 1 .. N + 2 /\ r > c
      /\ boxes = <<>> /\ Distinct' /\ BoxesApart' /\ Len(boxes') = 0
      /\ \A a, b : Overlap(a, b)' = Overlap(a, b)
      /\ Sorted'
  BY <1>1, DisablingFacts
<1>4. TypeOK'
  BY <1>1, <1>3 DEF BoxesInv, TypeOK
<1>5. GreedyOutcome'
  <2>1. \A i \in 1 .. N : \A j \in 1 .. i - 1 : Done(j, i)
    BY <1>1, <1>3 DEF Done
  <2> QED BY <1>1, <1>2, <1>3, <2>1 DEF BoxesInv, GreedySoFar, GreedyOutcome
<1> QED
  BY <1>1, <1>3, <1>4, <1>5 DEF BoxesInv, Pristine, GreedySoFar, Copied, Covered

-----------------------------------------------------------------------------
\* The loop that copies.

\* Copying leaves the candidates and what is disabled alone.
LEMMA CopyingFacts ==
  ASSUME BoxesInv, Copying, pc' \in {"copy", "done"}
  PROVE  /\ UNCHANGED <<score, overlap, candidates, off, r>> /\ pc = "copy"
         /\ N' = N /\ N \in Nat /\ c \in 1 .. N + 1
         /\ Distinct' /\ Sorted' /\ GreedyOutcome' /\ GreedySoFar' /\ Pristine'
         /\ \A a, b : Overlap(a, b)' = Overlap(a, b)
<1>1. UNCHANGED <<score, overlap, candidates, off, r>> /\ pc = "copy"
  BY DEF Copying, input
<1>2. N' = N /\ N \in Nat /\ c \in 1 .. N + 1
  BY <1>1 DEF BoxesInv, TypeOK, N
<1>3. Distinct' /\ GreedySoFar' /\ Pristine'
  BY <1>1, <1>2 DEF BoxesInv, Distinct, GreedySoFar, Pristine
<1>4. \A a, b : Overlap(a, b)' = Overlap(a, b)
  BY <1>1 DEF Overlap
<1>5. GreedyOutcome'
  BY <1>1, <1>2, <1>4 DEF BoxesInv, GreedyOutcome
<1>6. Sorted'
  <2>1. Listed' = Listed
    BY <1>1, <1>2 DEF Listed
  <2>2. Consistent(Listed)' = Consistent(Listed)
    BY <1>1, <2>1 DEF Consistent, Alike, Precedes
  <2> QED BY <1>1, <1>2, <2>2 DEF BoxesInv, Sorted, Precedes
<1> QED BY <1>1, <1>2, <1>3, <1>4, <1>5, <1>6

\* An enabled candidate is copied: by GreedySoFar no box before it overlaps it.
LEMMA CopyStep ==
  ASSUME BoxesInv, CopyBox
  PROVE  BoxesInv'
<1>1. /\ Copying /\ c <= N /\ Len(boxes) # BoxLimit
      /\ boxes' = IF candidates[c] \in off THEN boxes ELSE Append(boxes, candidates[c])
      /\ c' = c + 1 /\ pc' = pc
  BY DEF CopyBox
<1>2. pc = "copy" /\ pc' = "copy"
  BY <1>1 DEF Copying
<1>3. /\ UNCHANGED <<score, overlap, candidates, off, r>>
      /\ N' = N /\ N \in Nat /\ c \in 1 .. N + 1
      /\ Distinct' /\ Sorted' /\ GreedyOutcome' /\ GreedySoFar' /\ Pristine'
      /\ \A a, b : Overlap(a, b)' = Overlap(a, b)
  BY <1>1, <1>2, CopyingFacts
<1>4. boxes \in Seq(Cells) /\ Len(boxes) \in 0 .. BoxLimit /\ BoxLimit \in Nat
  BY SizesAssumption DEF BoxesInv, TypeOK, Limits
<1>5. candidates[c] \in Cells
  BY <1>1, <1>3 DEF BoxesInv, TypeOK, N
<1>6. \A k \in 1 .. Len(boxes) : \E i \in 1 .. c - 1 :
        boxes[k] = candidates[i] /\ candidates[i] \notin off
  BY <1>2, <1>3 DEF BoxesInv, Copied
<1>7. CASE candidates[c] \in off
  <2>1. boxes' = boxes
    BY <1>1, <1>7
  <2>2. TypeOK'
    BY <1>1, <1>2, <1>3, <2>1 DEF BoxesInv, TypeOK
  <2>3. Copied' /\ BoxesApart'
    BY <1>1, <1>2, <1>3, <1>6, <2>1 DEF BoxesInv, Copied, BoxesApart
  <2>4. Covered'
    BY <1>1, <1>2, <1>3, <1>7, <2>1 DEF BoxesInv, Covered, Returned
  <2> QED BY <1>3, <2>2, <2>3, <2>4 DEF BoxesInv
<1>8. CASE candidates[c] \notin off
  <2> DEFINE m == Len(boxes)
  <2>1. /\ boxes' = Append(boxes, candidates[c]) /\ boxes' \in Seq(Cells)
        /\ Len(boxes') = m + 1 /\ boxes'[m + 1] = candidates[c]
        /\ \A k \in 1 .. m : boxes'[k] = boxes[k]
    BY <1>1, <1>4, <1>5, <1>8
  <2>2. m \in Nat /\ m + 1 \in 0 .. BoxLimit
    BY <1>1, <1>4
  <2> HIDE DEF m
  <2>3. TypeOK'
    BY <1>1, <1>2, <1>3, <2>1, <2>2 DEF BoxesInv, TypeOK, Limits
  <2>4. Copied'
    <3> SUFFICES ASSUME NEW k \in 1 .. m + 1
                 PROVE  \E i \in 1 .. c : boxes'[k] = candidates[i] /\ candidates[i] \notin off
      BY <1>1, <1>2, <1>3, <2>1 DEF Copied
    <3>1. CASE k \in 1 .. m
      BY <1>3, <1>6, <2>1, <3>1 DEF m
    <3>2. CASE k = m + 1
      BY <1>3, <1>8, <2>1, <3>2
    <3> QED BY <2>2, <3>1, <3>2
  <2>5. BoxesApart'
    <3>1. ASSUME NEW k \in 1 .. m
          PROVE  boxes[k] # candidates[c] /\ ~Overlap(boxes[k], candidates[c])
      <4>1. PICK i \in 1 .. c - 1 : boxes[k] = candidates[i] /\ candidates[i] \notin off
        BY <1>6 DEF m
      <4>2. i # c /\ i \in 1 .. N /\ c \in 1 .. N /\ i \in 1 .. c - 1
        BY <1>1, <1>3
      <4>3. candidates[i] # candidates[c]
        BY <4>2 DEF BoxesInv, Distinct
      <4>4. ~Overlap(candidates[i], candidates[c])
        BY <1>2, <1>8, <4>1, <4>2 DEF BoxesInv, GreedyOutcome
      <4> QED BY <4>1, <4>3, <4>4
    <3>2. \A k, l \in 1 .. m : k < l => boxes[k] # boxes[l] /\ ~Overlap(boxes[k], boxes[l])
      BY DEF BoxesInv, BoxesApart, m
    <3>3. ASSUME NEW k \in 1 .. m + 1, NEW l \in 1 .. m + 1, k < l
          PROVE  boxes'[k] # boxes'[l] /\ ~Overlap(boxes'[k], boxes'[l])
      <4>1. CASE l = m + 1
        BY <2>1, <2>2, <3>1, <3>3, <4>1
      <4>2. CASE l \in 1 .. m
        BY <2>1, <2>2, <3>2, <3>3, <4>2
      <4> QED BY <2>2, <4>1, <4>2
    <3> QED BY <1>3, <2>1, <3>3 DEF BoxesApart
  <2>6. Covered'
    <3> SUFFICES ASSUME NEW i \in 1 .. c, candidates[i] \notin off
                 PROVE  \E k \in 1 .. m + 1 : boxes'[k] = candidates[i]
      BY <1>1, <1>2, <1>3, <2>1 DEF Covered, Returned
    <3>1. CASE i = c
      BY <2>1, <2>2, <3>1
    <3>2. CASE i # c
      <4>1. candidates[i] \in Returned
        BY <1>2, <1>3, <3>2 DEF BoxesInv, Covered
      <4>2. PICK k \in 1 .. m : boxes[k] = candidates[i]
        BY <4>1 DEF Returned, m
      <4> QED BY <2>1, <2>2, <4>2
    <3> QED BY <3>1, <3>2
  <2> QED BY <1>3, <2>3, <2>4, <2>5, <2>6 DEF BoxesInv
<1> QED BY <1>7, <1>8

\* The copy ends with every candidate passed or with a full list.
LEMMA CopyDoneStep ==
  ASSUME BoxesInv, CopyDone
  PROVE  BoxesInv'
<1>1. /\ Copying
      /\ c > N \/ Len(boxes) = BoxLimit
      /\ pc' = "done" /\ c' = 1 /\ boxes' = boxes
  BY DEF CopyDone
<1>2. /\ UNCHANGED <<score, overlap, candidates, off, r>> /\ pc = "copy"
      /\ N' = N /\ N \in Nat /\ c \in 1 .. N + 1
      /\ Distinct' /\ Sorted' /\ GreedyOutcome' /\ GreedySoFar' /\ Pristine'
      /\ \A a, b : Overlap(a, b)' = Overlap(a, b)
  BY <1>1, CopyingFacts DEF CopyDone
<1>3. TypeOK'
  BY <1>1, <1>2 DEF BoxesInv, TypeOK
<1>4. Copied' /\ BoxesApart'
  BY <1>1, <1>2 DEF BoxesInv, Copied, BoxesApart
<1>5. Covered'
  BY <1>1, <1>2 DEF BoxesInv, Covered, Returned
<1> QED BY <1>2, <1>3, <1>4, <1>5 DEF BoxesInv

-----------------------------------------------------------------------------
(* The theorems.                                                           *)

\* The inductive invariant of get_boxes: the loops have established GreedyOutcome
\* and the list of boxes as far as their counters say.
THEOREM BoxesCorrect == Spec => []BoxesInv
<1>1. Init => BoxesInv
  BY BoxesInit
<1>2. BoxesInv /\ [Next]_vars => BoxesInv'
  <2> SUFFICES ASSUME BoxesInv, [Next]_vars
               PROVE  BoxesInv'
    OBVIOUS
  <2>1. CASE GetCandidates
    BY <2>1, ScanStep
  <2>2. CASE SortCandidates
    BY <2>2, SortStep
  <2>3. CASE SkipDisabled \/ InnerDone
    BY <2>3, OuterStep
  <2>4. CASE Disable
    BY <2>4, InnerStep
  <2>5. CASE DisableDone
    BY <2>5, DisableDoneStep
  <2>6. CASE CopyBox
    BY <2>6, CopyStep
  <2>7. CASE CopyDone
    BY <2>7, CopyDoneStep
  <2>8. CASE UNCHANGED vars
    <3>1. /\ UNCHANGED <<score, overlap, pc, candidates, off, c, r, boxes>>
          /\ N' = N
      BY <2>8 DEF vars, N
    <3>2. TypeOK' /\ Distinct' /\ Pristine'
      BY <3>1 DEF BoxesInv, TypeOK, Distinct, Pristine
    <3>3. GreedySoFar' /\ GreedyOutcome' /\ BoxesApart'
      BY <3>1 DEF BoxesInv, GreedySoFar, GreedyOutcome, BoxesApart, Done, Overlap
    <3>4. Copied' /\ Covered'
      BY <3>1 DEF BoxesInv, Copied, Covered, Returned
    <3>5. Sorted'
      <4>1. Listed' = Listed
        BY <3>1 DEF Listed
      <4>2. Consistent(Listed)' = Consistent(Listed)
        BY <3>1, <4>1 DEF Consistent, Alike, Precedes
      <4> QED BY <3>1, <4>2 DEF BoxesInv, Sorted, Precedes
    <3> QED BY <3>2, <3>3, <3>4, <3>5 DEF BoxesInv
  <2> QED BY <2>1, <2>2, <2>3, <2>4, <2>5, <2>6, <2>7, <2>8 DEF Next
<1> QED BY <1>1, <1>2, PTL DEF Spec

\* When the loops that disable candidates are over, a candidate is disabled
\* exactly if an enabled one before it overlaps it (disable_non_max).
THEOREM GreedyCorrect == Spec => []GreedyOutcome
<1>1. BoxesInv => GreedyOutcome
  BY DEF BoxesInv
<1> QED BY <1>1, BoxesCorrect, PTL

\* The boxes that get_boxes returns never overlap each other.
THEOREM ApartCorrect == Spec => []BoxesApart
<1>1. BoxesInv => BoxesApart
  BY DEF BoxesInv
<1> QED BY <1>1, BoxesCorrect, PTL

\* Every candidate that get_boxes does not return is missing because the list is
\* full, or for a returned box that overlaps it and is not a unit worse.
THEOREM MissingCorrect == Spec => []MissingForAReason
<1>1. BoxesInv => MissingForAReason
  <2> SUFFICES ASSUME BoxesInv, pc = "done", NEW a \in Listed \ Returned,
                      Len(boxes) # BoxLimit
               PROVE  \E b \in Returned : /\ Overlap(b, a)
                                          /\ Consistent(Listed) => ~Precedes(a, b)
    BY DEF MissingForAReason
  <2>1. PICK i \in 1 .. N : a = candidates[i]
    BY DEF Listed
  <2>2. \A j \in 1 .. N : candidates[j] \notin off => candidates[j] \in Returned
    BY DEF BoxesInv, Covered
  <2>3. candidates[i] \in off
    BY <2>1, <2>2
  <2>4. PICK j \in 1 .. i - 1 : /\ candidates[j] \notin off
                                /\ Overlap(candidates[j], candidates[i])
    BY <2>3 DEF BoxesInv, GreedyOutcome
  <2>5. j \in 1 .. N /\ j < i
    BY DEF BoxesInv, TypeOK, N
  <2>6. Consistent(Listed) => ~Precedes(candidates[i], candidates[j])
    BY <2>5 DEF BoxesInv, Sorted
  <2> QED BY <2>1, <2>2, <2>4, <2>5, <2>6
<1> QED BY <1>1, BoxesCorrect, PTL

\* The counters stay inside the list of candidates, and the list of boxes inside
\* its limit, for any number of cells.
THEOREM BoxesTyped == Spec => []TypeOK
<1>1. BoxesInv => TypeOK
  BY DEF BoxesInv
<1> QED BY <1>1, BoxesCorrect, PTL


\* For any number of cells, limit and overlaps, get_boxes computes greedy
\* suppression and never writes past its list.
THEOREM ListIsGreedyCorrect == Spec => []ListIsGreedy
BY BoxesTyped, GreedyCorrect, PTL DEF ListIsGreedy
=============================================================================
