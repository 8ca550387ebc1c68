---------------------------- MODULE PersonCorners ----------------------------
(***************************************************************************)
(* The corners that person.forward gives to the script for an object of    *)
(* the tracker (lua_nn_person.cpp).  A coordinate is a float; here it is   *)
(* counted in quarters of a pixel.                                         *)
(***************************************************************************)
EXTENDS Integers

CONSTANTS
  Objects,  \* objects of the tracker: centre and size, in quarters of a pixel
  Right,    \* the last column and row of the screen, 319 and 239
  Bottom

ASSUME ObjectsAssumption == Objects \subseteq [cx : Int, cy : Int, w : Nat, h : Nat]
ASSUME ScreenAssumption  == {Right, Bottom} \subseteq Nat \ {0, 1}

VARIABLES
  tracked,  \* the object that is shown
  corners   \* what the script gets: x, y, width, height

cornerVars == <<tracked, corners>>

Hidden == [x |-> 0, y |-> 0, w |-> 0, h |-> 0]
CornerInit == tracked \in Objects /\ corners = Hidden

\* A float that is negative becomes 0 (fcvt.wu.s), others lose their fraction.
ToUnsigned(q) == IF q < 0 THEN 0 ELSE q \div 4

\* Fault: the far corner is not kept on the screen.
AlongUnbounded(centre, size, last) ==
    LET near == ToUnsigned(centre - size \div 2)
        far  == ToUnsigned(centre + size \div 2)
        from == IF near <= 0 THEN 1 ELSE near
    IN  << from, far - from >>

\* The near corner and the extent along one axis.
Along(centre, size, last) ==
    LET near == ToUnsigned(centre - size \div 2)
        far  == ToUnsigned(centre + size \div 2)
        from == IF near <= 0 THEN 1 ELSE near
        to   == IF far >= last THEN last - 1 ELSE far
    IN  << from, to - from >>

Show ==
    /\ corners = Hidden
    /\ corners' = LET across == Along(tracked.cx, tracked.w, Right)
                      down   == Along(tracked.cy, tracked.h, Bottom)
                  IN  [x |-> across[1], y |-> down[1], w |-> across[2], h |-> down[2]]
    /\ UNCHANGED tracked

CornerNext == Show
CornerSpec == CornerInit /\ [][CornerNext]_cornerVars

(* An object whose centre is on the screen and that is two pixels wide and *)
(* high is drawn inside the screen, with no side of negative length: the   *)
(* conversions to unsigned and the four comparisons, done one by one,      *)
(* never cross the corners of such a box.                                  *)
CornersInside ==
    ( /\ corners # Hidden
      /\ tracked.cx \in 0..(4 * Right) /\ tracked.cy \in 0..(4 * Bottom)
      /\ tracked.w >= 8 /\ tracked.h >= 8 ) =>
      /\ corners.x >= 1 /\ corners.w >= 0 /\ corners.x + corners.w < Right
      /\ corners.y >= 1 /\ corners.h >= 0 /\ corners.y + corners.h < Bottom
=============================================================================
