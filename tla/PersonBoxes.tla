----------------------------- MODULE PersonBoxes -----------------------------
(***************************************************************************)
(* get_boxes of lua_nn_person.cpp: which cells of the network's output     *)
(* become boxes.  Cells with a high score are the candidates; they are     *)
(* sorted, every candidate that overlaps an enabled one before it is       *)
(* disabled, and the first BoxLimit enabled ones are returned.  One action *)
(* is one iteration of a loop.                                             *)
(*                                                                         *)
(* A call starts from any scores and any overlaps.  A score is counted in  *)
(* fractions of 1.0, Unit of them; "overlap" holds of two cells whose      *)
(* decoded boxes (decode_ccwh) have box_iou > nms_thresh.  A candidate is  *)
(* disabled by writing 0 over its score: a candidate's own score is at     *)
(* least 5, so "off" is exactly the set of candidates whose score reads 0. *)
(***************************************************************************)
EXTENDS Integers, Sequences, FiniteSets

CONSTANTS
  NCells,    \* n_anchor * h * w
  Scores,    \* the scores the network can produce
  Unit,      \* the score difference the comparator sees as 1
  Logit,     \* the score whose sigmoid is score_thresh, 0.85 for the 0.7 passed
  BoxLimit   \* n_box_limit

ASSUME SizesAssumption  == {NCells, BoxLimit} \subseteq Nat
ASSUME ScoresAssumption == Scores \subseteq Int /\ Unit \in Nat \ {0} /\ Logit \in Int

VARIABLES
  score,       \* the scores the network has written
  overlap,     \* the overlapping pairs of cells, the lower first
  pc,          \* the part of get_boxes that runs next
  candidates,  \* candidates[1 .. n_candidate]
  off,         \* the candidates whose score has been overwritten
  c, r,        \* the loop counters, from 1
  boxes        \* the boxes returned

input == <<score, overlap>>
vars  == <<score, overlap, pc, candidates, off, c, r, boxes>>

Cells  == 1 .. NCells
Min    == 5 * Unit
Limits == 0 .. BoxLimit
N      == Len(candidates)

Pairs  == {p \in Cells \X Cells : p[1] < p[2]}

Overlap(a, b) == <<a, b>> \in overlap \/ <<b, a>> \in overlap

TypeOK ==
  /\ score \in [Cells -> Scores]
  /\ overlap \subseteq Pairs
  /\ pc \in {"scan", "sort", "disable", "copy", "done"}
  /\ candidates \in Seq(Cells)
  /\ off \subseteq Cells
  /\ c \in 1 .. N + 1
  /\ r \in 1 .. N + 2
  /\ boxes \in Seq(Cells) /\ Len(boxes) \in Limits

Listed == {candidates[i] : i \in 1 .. N}

\* get_boxes is entered, its static buffer cleared.
Init ==
  /\ score \in [Cells -> Scores]
  /\ overlap \in SUBSET Pairs
  /\ pc = "scan"
  /\ candidates = <<>> /\ boxes = <<>> /\ off = {}
  /\ c = 1 /\ r = 2

\* get_candidates: the cells with a score of 5 or more, in the order of the scan.
\* The argument score_thresh is not used.
GetCandidates ==
  /\ pc = "scan"
  /\ pc' = "sort"
  /\ LET kept == {a \in Cells : score[a] >= Min} IN
       \E q \in [1 .. Cardinality(kept) -> kept] :
         /\ \A i, j \in DOMAIN q : i < j => q[i] < q[j]
         /\ \A a \in kept : \E i \in DOMAIN q : q[i] = a
         /\ candidates' = q
  /\ UNCHANGED <<input, off, c, r, boxes>>

\* candidate_cmp_fn returns the difference cut to a whole number.
Precedes(a, b) == score[a] - score[b] >= Unit
Alike(a, b)    == ~Precedes(a, b) /\ ~Precedes(b, a)

\* The comparator orders S: to be alike is transitive.
Consistent(S) == \A x, y, z \in S : Alike(x, y) /\ Alike(y, z) => Alike(x, z)

Permutations == {perm \in [1 .. N -> 1 .. N] :
                   /\ \A i, j \in 1 .. N : perm[i] = perm[j] => i = j
                   /\ \A j \in 1 .. N : \E i \in 1 .. N : perm[i] = j}

\* Seeded fault: the comparator has its arguments swapped.
SortCandidatesUp ==
  /\ pc = "sort"
  /\ pc' = "disable"
  /\ c' = 1 /\ r' = 2
  /\ \E perm \in Permutations :
       /\ candidates' = [i \in 1 .. N |-> candidates[perm[i]]]
       /\ Consistent(Listed) =>
            \A i, j \in 1 .. N : i < j => ~Precedes(candidates'[i], candidates'[j])
  /\ UNCHANGED <<input, off, boxes>>

\* sort_candidates: qsort leaves the candidates in any order when the comparator
\* does not order them, and like ones in any order when it does.
SortCandidates ==
  /\ pc = "sort"
  /\ pc' = "disable"
  /\ c' = 1 /\ r' = 2
  /\ \E perm \in Permutations :
       /\ candidates' = [i \in 1 .. N |-> candidates[perm[i]]]
       /\ Consistent(Listed) =>
            \A i, j \in 1 .. N : i < j => ~Precedes(candidates'[j], candidates'[i])
  /\ UNCHANGED <<input, off, boxes>>

-----------------------------------------------------------------------------
\* disable_non_max

Disabling == pc = "disable" /\ UNCHANGED <<input, candidates, boxes>>

NextC == c' = c + 1 /\ r' = c + 2

SkipDisabled ==
  /\ Disabling
  /\ c <= N /\ candidates[c] \in off
  /\ NextC
  /\ UNCHANGED <<pc, off>>

\* Seeded faults: the comparison with the previous candidate instead of the
\* enabled one; the inner loop stops at the first candidate it disables.
DisableNeighbour ==
  /\ Disabling
  /\ c <= N /\ candidates[c] \notin off
  /\ r <= N
  /\ off' = IF Overlap(candidates[r - 1], candidates[r])
            THEN off \cup {candidates[r]} ELSE off
  /\ r' = r + 1
  /\ UNCHANGED <<pc, c>>
DisableFirstOnly ==
  /\ Disabling
  /\ c <= N /\ candidates[c] \notin off
  /\ r <= N
  /\ off' = IF Overlap(candidates[c], candidates[r])
            THEN off \cup {candidates[r]} ELSE off
  /\ r' = IF off' # off THEN N + 1 ELSE r + 1
  /\ UNCHANGED <<pc, c>>

Disable ==
  /\ Disabling
  /\ c <= N /\ candidates[c] \notin off
  /\ r <= N
  /\ off' = IF Overlap(candidates[c], candidates[r])
            THEN off \cup {candidates[r]} ELSE off
  /\ r' = r + 1
  /\ UNCHANGED <<pc, c>>

InnerDone ==
  /\ Disabling
  /\ c <= N /\ candidates[c] \notin off
  /\ r > N
  /\ NextC
  /\ UNCHANGED <<pc, off>>

DisableDone ==
  /\ Disabling
  /\ c > N
  /\ pc' = "copy"
  /\ c' = 1 /\ r' = 2
  /\ UNCHANGED off

-----------------------------------------------------------------------------
\* copy_boxes

Copying == pc = "copy" /\ UNCHANGED <<input, candidates, off, r>>

CopyBox ==
  /\ Copying
  /\ c <= N /\ Len(boxes) # BoxLimit
  /\ boxes' = IF candidates[c] \in off THEN boxes ELSE Append(boxes, candidates[c])
  /\ c' = c + 1
  /\ UNCHANGED pc

CopyDone ==
  /\ Copying
  /\ c > N \/ Len(boxes) = BoxLimit
  /\ pc' = "done"
  /\ c' = 1
  /\ UNCHANGED boxes

-----------------------------------------------------------------------------
Next == \/ GetCandidates \/ SortCandidates
        \/ SkipDisabled \/ Disable \/ InnerDone \/ DisableDone
        \/ CopyBox \/ CopyDone

Spec == Init /\ [][Next]_vars

-----------------------------------------------------------------------------
Returned == {boxes[i] : i \in 1 .. Len(boxes)}

\* When the two nested loops that disable candidates in place are over, a
\* candidate is disabled exactly if an enabled one before it overlaps it: no
\* candidate was disabled by one that was itself disabled, before or after.
GreedyOutcome ==
  pc \in {"copy", "done"} =>
    \A i \in 1 .. N :
      candidates[i] \in off <=>
        \E j \in 1 .. i - 1 : /\ candidates[j] \notin off
                              /\ Overlap(candidates[j], candidates[i])

\* The list is that of greedy suppression, and within its limit at every moment.
ListIsGreedy == TypeOK /\ GreedyOutcome


\* No two of the boxes returned overlap, and no cell is returned twice, whatever
\* order the sort has left.
BoxesApart ==
  \A i, j \in 1 .. Len(boxes) :
    i < j => boxes[i] # boxes[j] /\ ~Overlap(boxes[i], boxes[j])

\* When a call returns, a candidate is missing only because the list is full or
\* because a box that is returned overlaps it, and the box is not a whole unit
\* worse if the comparator could order the candidates.
MissingForAReason ==
  pc = "done" =>
    \A a \in Listed \ Returned :
      \/ Len(boxes) = BoxLimit
      \/ \E b \in Returned : /\ Overlap(b, a)
                             /\ Consistent(Listed) => ~Precedes(a, b)

\* What "should take sigmoid and < score_thresh" asks: a cell is passed over only
\* if the sigmoid of its score is below the threshold.
ThresholdUsed ==
  pc = "sort" => Listed = {a \in Cells : score[a] >= Logit}
=============================================================================
