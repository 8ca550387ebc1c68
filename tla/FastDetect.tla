----------------------------- MODULE FastDetect -----------------------------
(***************************************************************************)
(* The network module "fastfacedetect": a detector object, made anew each  *)
(* time a network is loaded, decodes the output of a network into boxes,   *)
(* merges those that overlap, and shows the merged boxes.  The detector    *)
(* keeps its list of boxes and its list of results from call to call.      *)
(*                                                                         *)
(* External: a network of size w by h gives a score and a box for each of  *)
(* as many anchors as a detector of that size has, and what memory holds   *)
(* after its outputs are scores and boxes like any other, as the decoding  *)
(* clips them (not-a-numbers are left out); the script may run any network *)
(* it has loaded.  Coordinates are whole pixels, scores small numbers with *)
(* Weight in the place of exp, and rounding is left out.                   *)
(***************************************************************************)
EXTENDS Integers, Sequences

CONSTANTS
  FastNets,    \* the networks, as [w, h] of their table
  Strides,     \* 8, 16, 32, 64
  PerCell,     \* how many priors min_boxes has for each: 3, 2, 2, 3
  Thresholds,  \* values of scorethr
  Iou,         \* iouthr, in hundredths
  Boxes,       \* the boxes that may be found, anywhere around the image
  Scores,      \* the scores that go with them
  FastScreen   \* the last column and row shown, 319 and 239: [x, y]

ASSUME FastAssumption ==
  /\ FastNets \subseteq [w : Nat \ {0}, h : Nat \ {0}]
  /\ Strides \in Seq(Nat \ {0}) /\ PerCell \in [DOMAIN Strides -> Nat \ {0}]
  /\ Thresholds \subseteq Nat /\ Iou \in 0 .. 100 /\ Scores \subseteq Nat \ {0}
  /\ Boxes \subseteq [x1 : Int, y1 : Int, x2 : Int, y2 : Int]
  /\ \A b \in Boxes : b.x1 <= b.x2 /\ b.y1 <= b.y2
  /\ FastScreen \in [x : Nat, y : Nat]

VARIABLES
  detector,        \* *g_detector, without its lists
  bbox_collection, \* its boxes
  output,          \* its results
  fastLoaded,      \* the networks loaded
  latest,          \* history: the one loaded last
  faces,           \* what the last forward showed
  found,           \* history: the boxes that forward decoded
  given,           \* history: those its network gave, in the image of the detector
  ran,             \* history: that network
  alive            \* FALSE when an assertion has stopped the program

fastVars == <<detector, bbox_collection, output, fastLoaded, latest, faces, found, given, ran, alive>>

NoDetector == [w |-> 0, h |-> 0, score |-> 0, num_anchors |-> 0]
NoNet == [w |-> 0, h |-> 0]

FastTypeOK ==
  /\ detector \in [w : Nat, h : Nat, score : Nat, num_anchors : Nat]
  /\ fastLoaded \subseteq FastNets /\ {latest, ran} \subseteq FastNets \cup {NoNet}
  /\ \A i \in DOMAIN bbox_collection :
       /\ bbox_collection[i].x1 \in 0 .. detector.w /\ bbox_collection[i].x2 \in 0 .. detector.w
       /\ bbox_collection[i].y1 \in 0 .. detector.h /\ bbox_collection[i].y2 \in 0 .. detector.h
  /\ alive \in BOOLEAN

FastInit ==
  /\ detector = NoDetector /\ bbox_collection = <<>> /\ output = <<>>
  /\ fastLoaded = {} /\ latest = NoNet
  /\ faces = <<>> /\ found = <<>> /\ given = {} /\ ran = NoNet /\ alive = TRUE

-----------------------------------------------------------------------------
\* Loading a network: ultra_face_init.

Blank == faces' = <<>> /\ found' = <<>> /\ given' = {} /\ ran' = NoNet

\* term[1] + ... + term[n]
Sum(n, term) ==
  LET upTo[k \in 0 .. n] == IF k = 0 THEN 0 ELSE upTo[k - 1] + term[k]
  IN  upTo[n]

CeilDiv(a, b) == (a + b - 1) \div b

\* The anchors of one stride are the cells of its map, each with its priors.
Anchors(w, h) ==
  Sum(Len(Strides), [i \in DOMAIN Strides |-> CeilDiv(h, Strides[i]) * CeilDiv(w, Strides[i]) * PerCell[i]])

\* net_nn_fastfacedetect_init; topk is read and not used.
LoadFast(n) ==
  /\ alive
  /\ fastLoaded' = fastLoaded \cup {n} /\ latest' = n
  /\ \E t \in Thresholds : detector' =
       [w |-> n.w, h |-> n.h, score |-> t, num_anchors |-> Anchors(n.w, n.h)]
  /\ bbox_collection' = <<>> /\ output' = <<>> /\ Blank
  /\ UNCHANGED alive

-----------------------------------------------------------------------------
\* What a loop over 1 .. n pushes back: item[k] for each k in keeps.
Collected(n, keeps, item) ==
  LET upTo[k \in 0 .. n] ==
        IF k = 0 THEN <<>> ELSE IF k \in keeps THEN Append(upTo[k - 1], item[k]) ELSE upTo[k - 1]
  IN  upTo[n]

-----------------------------------------------------------------------------
\* Decoding.

\* Seeded fault: only what lies beyond the image is clipped.
ClipAbove(v, size) == IF v > size THEN size ELSE v

Clip(v, size) == IF v < 0 THEN 0 ELSE IF v > size THEN size ELSE v

Clipped(d, b) ==
  [x1 |-> Clip(b.x1, d.w), y1 |-> Clip(b.y1, d.h),
   x2 |-> Clip(b.x2, d.w), y2 |-> Clip(b.y2, d.h), score |-> b.score]

\* What a loop over k anchors may read: a face, or no score, for each.
NoFace == [x1 |-> 0, y1 |-> 0, x2 |-> 0, y2 |-> 0, score |-> 0]
Memory(k) ==
  [1 .. k -> {NoFace} \cup {[x1 |-> b.x1, y1 |-> b.y1, x2 |-> b.x2, y2 |-> b.y2, score |-> s] :
                              b \in Boxes, s \in Scores}]

Above(d, mem, k) == {i \in 1 .. k : mem[i].score > d.score}

\* generateBBox: the boxes above the threshold, for each anchor of the detector.
Decoded(d, mem) ==
  Collected(d.num_anchors, Above(d, mem, d.num_anchors), [i \in DOMAIN mem |-> Clipped(d, mem[i])])

-----------------------------------------------------------------------------
\* nms with blending_nms.

Least(a, b) == IF a < b THEN a ELSE b
Most(a, b)  == IF a > b THEN a ELSE b
Side(from, to) == to - from + 1
Area(b) == Side(b.x1, b.x2) * Side(b.y1, b.y2)

\* The boxes share more than the threshold of the area that they cover together.
Overlap(a, b) ==
  LET w == Side(Most(a.x1, b.x1), Least(a.x2, b.x2))
      h == Side(Most(a.y1, b.y1), Least(a.y2, b.y2))
  IN  /\ h > 0 /\ w > 0
      /\ w * h * 100 > Iou * (Area(a) + Area(b) - w * h)

\* std::sort by score, the best first; equal scores come in any order.
Sorted(s) ==
  {[i \in DOMAIN s |-> s[p[i]]] : p \in
     {q \in [DOMAIN s -> DOMAIN s] :
        /\ \A i, j \in DOMAIN s : q[i] = q[j] => i = j
        /\ \A i, j \in DOMAIN s : i < j => s[q[i]].score >= s[q[j]].score}}

\* A box that no earlier leader has merged is a leader.
Leaders(s) ==
  LET upTo[k \in 0 .. Len(s)] ==
        IF k = 0 THEN {}
        ELSE IF \A j \in upTo[k - 1] : ~Overlap(s[j], s[k]) THEN upTo[k - 1] \cup {k} ELSE upTo[k - 1]
  IN  upTo[Len(s)]

\* Seeded fault: a leader merges what an earlier one has merged, too.
GroupOfAll(s, leaders, i) == {i} \cup {j \in DOMAIN s : j > i /\ Overlap(s[i], s[j])}

\* Leader i merges the later boxes that overlap it and are not merged yet.
Group(s, leaders, i) ==
  {i} \cup {j \in DOMAIN s :
             /\ j > i /\ Overlap(s[i], s[j])
             /\ \A l \in leaders : l < i => ~Overlap(s[l], s[j])}

\* In the place of exp: it grows with the score.
Weight(score) == score

\* The average of the merged boxes by weight, a number of parts for each field.
Blend(s, group) ==
  LET over(part) == Sum(Len(s), [i \in DOMAIN s |-> IF i \in group THEN part[i] * Weight(s[i].score) ELSE 0])
      total == over([i \in DOMAIN s |-> 1])
  IN  [x1 |-> over([i \in DOMAIN s |-> s[i].x1]) \div total,
       y1 |-> over([i \in DOMAIN s |-> s[i].y1]) \div total,
       x2 |-> over([i \in DOMAIN s |-> s[i].x2]) \div total,
       y2 |-> over([i \in DOMAIN s |-> s[i].y2]) \div total]

Merged(s) ==
  LET leaders == Leaders(s)
  IN  Collected(Len(s), leaders, [i \in DOMAIN s |-> Blend(s, Group(s, leaders, i))])

-----------------------------------------------------------------------------
\* net_nn_fastfacedetect_forward

Shows(b) ==
  LET x1 == Least(b.x1, FastScreen.x)   x2 == Least(b.x2, FastScreen.x)
      y1 == Least(b.y1, FastScreen.y)   y2 == Least(b.y2, FastScreen.y)
  IN  [x |-> x1, y |-> y1, w |-> x2 - x1, h |-> y2 - y1]

\* What is in memory for the loop over the anchors of the detector: first what the
\* network n gives for its own, and after that anything.
Decodes(n, mem) ==
  LET own == Anchors(n.w, n.h)
  IN  /\ alive /\ n \in fastLoaded
      /\ found' = Decoded(detector, mem)
      /\ given' = {Clipped(detector, mem[i]) : i \in Above(detector, mem, own)}
      /\ ran' = n
      /\ UNCHANGED <<detector, fastLoaded, latest, alive>>

\* Seeded fault: the results of the last frame are not cleared.
ForwardFastKeeps(n) ==
  \E mem \in Memory(Most(Anchors(n.w, n.h), detector.num_anchors)) :
    /\ Decodes(n, mem)
    /\ \E s \in Sorted(Decoded(detector, mem)) :
         /\ bbox_collection' = s
         /\ output' = output \o Merged(s)
         /\ faces' = [k \in DOMAIN output' |-> Shows(output'[k])]

\* Both outputs are there: clear, generateBBox, nms, and the table.
ForwardFast(n) ==
  \E mem \in Memory(Most(Anchors(n.w, n.h), detector.num_anchors)) :
    /\ Decodes(n, mem)
    /\ \E s \in Sorted(Decoded(detector, mem)) :
         /\ bbox_collection' = s
         /\ output' = Merged(s)
         /\ faces' = [k \in DOMAIN output' |-> Shows(output'[k])]

\* KPU_GetOutput fails for one of the two.
FastNoOutput(n) ==
  /\ alive /\ n \in fastLoaded
  /\ Blank
  /\ UNCHANGED <<detector, bbox_collection, output, fastLoaded, latest, alive>>

\* KPU_Run fails, in "assert(KPU_Run(...) == 0)".
FastHalts(n) ==
  /\ alive /\ n \in fastLoaded
  /\ alive' = FALSE
  /\ UNCHANGED <<detector, bbox_collection, output, fastLoaded, latest, faces, found, given, ran>>

FastNext == \E n \in FastNets : LoadFast(n) \/ ForwardFast(n) \/ FastNoOutput(n) \/ FastHalts(n)

FastSpec == FastInit /\ [][FastNext]_fastVars

-----------------------------------------------------------------------------
\* The detector has more anchors than the network that was run: the loop reads on
\* past the end of its outputs.
Overrun == ran # NoNet /\ detector.num_anchors > Anchors(ran.w, ran.h)

\* The detector is not the network's own: a forward decodes all boxes of its network
\* and no other as long as that is the network loaded last, whatever was loaded and
\* run before; of another network it may leave some out, and decodes others only when
\* the loop runs past the outputs.
ReadsOwnOutput ==
  LET decoded == {found[i] : i \in DOMAIN found}
  IN  /\ fastLoaded # {} => detector # NoDetector
      /\ ran = latest => decoded = given /\ ~Overrun
      /\ ~Overrun => decoded \subseteq given

\* What is shown is of what this forward decoded, in whatever order networks and
\* frames follow each other: something is shown exactly when something was decoded,
\* no more than was decoded, and only where it was.
OnlyThisFrame ==
  /\ found = <<>> <=> faces = <<>>
  /\ Len(faces) <= Len(found)
  /\ \A k \in DOMAIN faces : \E i, j \in DOMAIN found :
       found[i].x1 <= output[k].x1 /\ output[k].x2 <= found[j].x2

\* A forward, though it runs on whatever detector there is, shows its own frame, and
\* nothing else unless another network was loaded after its own.
FrameIsOwn == FastTypeOK /\ ReadsOwnOutput /\ OnlyThisFrame

\* Each box of the frame goes into one face: the groups of the leaders divide the
\* boxes, leaders do not overlap, and the others overlap their own leader.
EveryBoxOnce ==
  LET s == bbox_collection
      leaders == Leaders(s)
  IN  /\ \A i \in DOMAIN s : \E l \in leaders : i \in Group(s, leaders, l)
      /\ \A l, m \in leaders : l # m =>
           Group(s, leaders, l) \cap Group(s, leaders, m) = {} /\ ~Overlap(s[l], s[m])

\* The average of boxes is a box, and it is on the screen whatever the sizes of
\* the network and of the detector, although only the far edges are looked at.
FacesOnScreen ==
  \A k \in DOMAIN faces :
    /\ faces[k].x >= 0 /\ faces[k].w >= 0 /\ faces[k].x + faces[k].w <= FastScreen.x
    /\ faces[k].y >= 0 /\ faces[k].h >= 0 /\ faces[k].y + faces[k].h <= FastScreen.y
=============================================================================
