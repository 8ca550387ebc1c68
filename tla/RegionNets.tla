----------------------------- MODULE RegionNets -----------------------------
(***************************************************************************)
(* The network modules "facedetect", "yolo" and "facemask", whose networks *)
(* end in a region layer of the framework, and "iris" and "baidu", which   *)
(* return the numbers of their output.  A script loads networks, each with *)
(* a table for the module's init, and calls forward of those it loaded.    *)
(* What a module remembers is global: the layer and the anchors are those  *)
(* of the module, whichever of its networks runs.                          *)
(*                                                                         *)
(* External: InitLayer gives no layer, or one that keeps the address of    *)
(* the anchors and how many pairs it was given; RunLayer reads those pairs *)
(* and gives at most MAX_OUTCNT boxes, each with x1 <= x2 and y1 <= y2     *)
(* (numbers of 32 bits without sign; those from 2^31 up, negative for      *)
(* yolo's int, are left out); a network whose init reported an error may   *)
(* be run all the same.  KPU_Run can fail, which stops the program, and so *)
(* can KPU_GetOutput.  Anchors are told apart by the network whose table   *)
(* gave them.                                                              *)
(***************************************************************************)
EXTENDS Integers, Sequences

CONSTANTS
  Nets,        \* the networks of the script
  Kind,        \* the module of each
  Floats,      \* how many floats the table "anchor" of each has
  AnchorMax,   \* ANCHOR_MAX, 5
  MaskAnchors, \* FACEMASKANCHOR_MAX, 9
  Raw,         \* the boxes that RunLayer may give
  Screen,      \* 320 and 240, for both axes
  Outputs      \* the output_size that KPU_GetOutput may give, in bytes

Modules == {"facedetect", "yolo", "facemask", "iris", "baidu"}
Rect == [x1 : Nat, y1 : Nat, x2 : Nat, y2 : Nat]

ASSUME NetsAssumption ==
  /\ Kind \in [Nets -> Modules] /\ Floats \in [Nets -> Nat]
  /\ {AnchorMax, MaskAnchors, Screen} \subseteq Nat \ {0}
  /\ "none" \notin Nets /\ "builtin" \notin Nets
  /\ Raw \subseteq {r \in Rect : r.x1 <= r.x2 /\ r.y1 <= r.y2}
  /\ Outputs \subseteq Nat \ {0}

VARIABLES
  anchor,   \* faceanchor and yoloanchor: who gave each float
  layer,    \* gFaceLayerHandle, gYoloLayerHandle, gFaceMaskLayerHandle
  loaded,   \* the networks whose init has been called
  accepted, \* history: the networks of each module whose init went through
  later,    \* history: <<n, k>> for k accepted before n last was
  shown,    \* what the last forward since returned: boxes, or a length; its network,
            \* and the one whose layer it used
  running   \* FALSE when an assertion has stopped the program

regionVars == <<anchor, layer, loaded, accepted, later, shown, running>>

Slots == 1 .. 2 * AnchorMax
Layered == {"facedetect", "yolo", "facemask"}
NoLayer == [of |-> "none", pairs |-> 0]
Silent == [net |-> "none", by |-> "none", boxes |-> <<>>, numbers |-> 0]

RegionTypeOK ==
  /\ anchor \in [{"facedetect", "yolo"} -> [Slots -> Nets \cup {"builtin"}]]
  /\ layer \in [Layered -> [of : Nets \cup {"none", "builtin"}, pairs : Nat]]
  /\ loaded \subseteq Nets
  /\ accepted \in [Modules -> SUBSET loaded] /\ later \subseteq Nets \X Nets
  /\ shown.net \in Nets \cup {"none"} /\ Len(shown.boxes) <= 1 /\ shown.numbers \in Nat
  /\ running \in BOOLEAN

\* The modules' init functions have run: only yolo makes its layer there.
RegionInit ==
  /\ anchor = [m \in {"facedetect", "yolo"} |-> [i \in Slots |-> "builtin"]]
  /\ layer = [m \in Layered |-> IF m = "yolo" THEN [of |-> "builtin", pairs |-> AnchorMax]
                                ELSE NoLayer]
  /\ loaded = {} /\ accepted = [m \in Modules |-> {}] /\ later = {}
  /\ shown = Silent /\ running = TRUE

-----------------------------------------------------------------------------
\* Loading a network calls the init function of its module.

Load(n, m) ==
  /\ running /\ Kind[n] = m
  /\ loaded' = loaded \cup {n} /\ shown' = Silent

\* The table anchor has too many floats for the array of module m.
Refuse(n, m) ==
  /\ Load(n, m)
  /\ UNCHANGED <<anchor, layer, accepted, later, running>>

\* The init of module m goes through for n.
Accept(n, m) ==
  /\ Load(n, m)
  /\ accepted' = [accepted EXCEPT ![m] = @ \cup {n}]
  /\ later' = {p \in later : p[2] # n} \cup {<<n, k>> : k \in accepted[m] \ {n}}
  /\ UNCHANGED running

\* InitLayer gives no layer, and the assertion after it stops the program.
NoLayerFor(n, m) ==
  /\ Load(n, m)
  /\ layer' = [layer EXCEPT ![m] = NoLayer] /\ running' = FALSE
  /\ UNCHANGED <<accepted, later>>

\* Seeded fault: the loop runs once too often.
FilledOneMore(n, m) ==
  [anchor EXCEPT ![m] = [i \in Slots |-> IF i <= Floats[n] + 1 THEN n ELSE anchor[m][i]]]

\* The floats of the table, in the first elements of the module's array.
Filled(n, m) ==
  [anchor EXCEPT ![m] = [i \in Slots |-> IF i <= Floats[n] THEN n ELSE anchor[m][i]]]

\* net_nn_facedetect_init: no float at all is accepted as well.
LoadFace(n) ==
  /\ Floats[n] <= 2 * AnchorMax
  /\ anchor' = Filled(n, "facedetect")
  /\ \/ /\ Accept(n, "facedetect")
        /\ layer' = [layer EXCEPT !["facedetect"] = [of |-> n, pairs |-> Floats[n] \div 2]]
     \/ NoLayerFor(n, "facedetect")

RefuseFace(n) == Floats[n] > 2 * AnchorMax /\ Refuse(n, "facedetect")

\* net_nn_yolo_init: the sizes in the table are read and not used.
LoadYolo(n) ==
  /\ Floats[n] \in Slots
  /\ Accept(n, "yolo")
  /\ anchor' = Filled(n, "yolo")
  /\ UNCHANGED layer

RefuseYolo(n) == Floats[n] \notin Slots /\ Refuse(n, "yolo")

\* net_nn_facemask_init looks at no table.
LoadMask(n) ==
  /\ \/ /\ Accept(n, "facemask")
        /\ layer' = [layer EXCEPT !["facemask"] = [of |-> n, pairs |-> MaskAnchors]]
     \/ NoLayerFor(n, "facemask")
  /\ UNCHANGED anchor

\* iris and baidu have no init function.
LoadPlain(n) ==
  /\ Kind[n] \in {"iris", "baidu"} /\ Accept(n, Kind[n])
  /\ UNCHANGED <<anchor, layer>>

-----------------------------------------------------------------------------
\* The calls of forward.

\* Seeded fault: only the far corner is kept on the screen.
OnScreenFar(v, side) == IF side = 2 /\ v >= Screen THEN Screen - 1 ELSE v

\* yolo keeps both corners on the screen; the others pass on what they get.
OnScreen(v, side) == IF v >= Screen THEN Screen - 1 ELSE v

Corner(m, v, side) == IF m = "yolo" THEN OnScreen(v, side) ELSE v

\* A box is shown as its near corner and its size.
Shown(m, r) ==
  LET x == Corner(m, r.x1, 1)
      y == Corner(m, r.y1, 1)
  IN  [x |-> x, y |-> y, w |-> Corner(m, r.x2, 2) - x, h |-> Corner(m, r.y2, 2) - y]

Forward(n) == running /\ n \in loaded /\ UNCHANGED <<anchor, layer, loaded, accepted, later>>

\* RunLayer with the layer of the module gives no box, or one like any other.
ForwardLayer(n) ==
  /\ Forward(n)
  /\ Kind[n] \in Layered /\ layer[Kind[n]] # NoLayer
  /\ \E r \in Raw :
       shown' \in {Silent, [Silent EXCEPT !.net = n, !.by = layer[Kind[n]].of, !.boxes = <<Shown(Kind[n], r)>>]}
  /\ UNCHANGED running

\* There is no layer yet: what ParamLayer and RunLayer do then is not known, and
\* nothing is said of the program after it.
ForwardNoLayer(n) ==
  /\ Forward(n)
  /\ Kind[n] \in Layered /\ layer[Kind[n]] = NoLayer
  /\ running' = FALSE /\ UNCHANGED shown

\* iris and baidu show every float of the output.
ForwardPlain(n) ==
  /\ Forward(n)
  /\ Kind[n] \in {"iris", "baidu"}
  /\ \E size \in Outputs : shown' = [Silent EXCEPT !.net = n, !.numbers = size \div 4]
  /\ UNCHANGED running

\* KPU_GetOutput fails.
ForwardNoOutput(n) ==
  /\ Forward(n)
  /\ shown' = Silent /\ UNCHANGED running

\* KPU_Run fails.
ForwardHalts(n) ==
  /\ Forward(n)
  /\ running' = FALSE /\ UNCHANGED shown

RegionNext == \E n \in Nets :
  \/ LoadFace(n) \/ RefuseFace(n) \/ LoadYolo(n) \/ RefuseYolo(n) \/ LoadMask(n) \/ LoadPlain(n)
  \/ ForwardLayer(n) \/ ForwardNoLayer(n) \/ ForwardPlain(n) \/ ForwardNoOutput(n) \/ ForwardHalts(n)

RegionSpec == RegionInit /\ [][RegionNext]_regionVars

-----------------------------------------------------------------------------
\* The network of module m that was accepted last.
IsLast(n, m) == n \in accepted[m] /\ \A k \in accepted[m] \ {n} : <<n, k>> \in later

\* Each anchor of a module is of the network accepted last among those that have so
\* many, or built in if none has: what a network with few leaves over is that of
\* others, in the order they were accepted in.
AnchorsOfLast(m) ==
  \A i \in Slots :
    LET a == anchor[m][i]
        having == {k \in accepted[m] : i <= Floats[k]}
    IN  IF a = "builtin" THEN having = {}
        ELSE a \in having /\ \A k \in having \ {a} : <<a, k>> \in later

\* The layer that facedetect and facemask use is that of the network accepted last,
\* and no anchor that facedetect reads through it is of another.
LayerOfLast(m) ==
  LET l == layer[m]
  IN  /\ accepted[m] = {} <=> l = NoLayer
      /\ l # NoLayer => IsLast(l.of, m)
      /\ m = "facedetect" => \A i \in 1 .. 2 * l.pairs : anchor[m][i] = l.of

\* A forward that shows a box has used the layer of its own network exactly when no
\* other network of its module has been accepted after it.
ShownByOwn ==
  shown.boxes # <<>> /\ Kind[shown.net] # "yolo" =>
    (shown.by = shown.net <=> IsLast(shown.net, Kind[shown.net]))

\* The globals that the networks of a module share are mixed only as far as networks
\* with fewer anchors leave some of others, and who gave each can be told from the
\* order in which the networks were accepted.
NetsApart ==
  /\ RegionTypeOK /\ ShownByOwn
  /\ running => /\ \A m \in {"facedetect", "facemask"} : LayerOfLast(m)
                /\ \A m \in {"facedetect", "yolo"} : AnchorsOfLast(m)

\* No box is shown with a negative size, also at the edges where its corners are
\* moved, and those of yolo are on the screen.
BoxesHaveSize ==
  \A i \in 1 .. Len(shown.boxes) :
    LET b == shown.boxes[i]
    IN  /\ b.w >= 0 /\ b.h >= 0
        /\ Kind[shown.net] = "yolo" => b.x + b.w < Screen /\ b.y + b.h < Screen
=============================================================================
