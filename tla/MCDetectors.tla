---------------------------- MODULE MCDetectors ----------------------------
(***************************************************************************)
(* TLC instances of RegionNets, FastDetect and PersonCorners.  The modules *)
(* share no state, so a script uses the networks of one of them only.      *)
(***************************************************************************)
EXTENDS RegionNets, FastDetect, PersonCorners

Named  == {"f1", "f2", "f3", "y1", "y2", "y3", "m", "i"}
KindOf == [n \in Named |->
  IF n \in {"f1", "f2", "f3"} THEN "facedetect" ELSE IF n \in {"y1", "y2", "y3"} THEN "yolo"
  ELSE IF n = "m" THEN "facemask" ELSE "iris"]
FloatsOf == [n \in Named |-> IF n = "f1" THEN 4 ELSE IF n \in {"f2", "y1"} THEN 3
                            ELSE IF n = "y2" THEN 2 ELSE 5]
Corners == {r \in [x1 : {0, 8, 10}, y1 : {0}, x2 : {0, 8, 11}, y2 : {9}] : r.x1 <= r.x2}
Sizes  == {4, 12}

Small  == [w |-> 4, h |-> 4]
Wide   == [w |-> 8, h |-> 4]
Pair   == {Small, Wide}
Steps  == <<4, 8>>
Priors == <<1, 1>>
Levels == {0, 1}
\* The second overlaps the first and the third, which do not overlap each other.
Around == {[x1 |-> -2, y1 |-> 0, x2 |-> 2, y2 |-> 3], [x1 |-> 0, y1 |-> 1, x2 |-> 3, y2 |-> 5],
           [x1 |-> 2, y1 |-> 1, x2 |-> 5, y2 |-> 4]}
Marks  == {1, 2}
Edge   == [x |-> 1, y |-> 3]

\* Centres from left of the screen to right of it, by quarters of a pixel.
Seen    == [cx : -8..48, cy : {-4, 0, 1, 12, 24, 27}, w : {0, 2, 8, 10, 60}, h : {8, 14}]
Parked  == [cx |-> 0, cy |-> 0, w |-> 0, h |-> 0]

NoObject == tracked = Parked /\ corners = [Hidden EXCEPT !.w = 1]
Others   == <<regionVars, fastVars>>

NotDetecting == RegionInit /\ FastInit /\ NoObject

DetectInit == RegionInit /\ FastInit /\ (NoObject \/ CornerInit)
DetectNext ==
    \/ tracked = Parked /\ fastLoaded = {} /\ RegionNext /\ UNCHANGED <<fastVars, cornerVars>>
    \/ tracked = Parked /\ loaded = {} /\ FastNext /\ UNCHANGED <<regionVars, cornerVars>>
    \/ tracked # Parked /\ CornerNext /\ UNCHANGED Others
=============================================================================
