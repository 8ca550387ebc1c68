----------------------------- MODULE MCTracker -----------------------------
(***************************************************************************)
(* TLC instances of Tracker.  On the axis 0..4 with DistThresh = 16 and    *)
(* Hysteresis = 7, distance 4 is far enough to blame an owner, distance 3  *)
(* lies in the band that neither blames nor forgives, distance 1 forgives. *)
(***************************************************************************)
EXTENDS TrackerLease

\* Without the ids and their history, and without what nothing reads of a free
\* record; its centre, class and state are read through belongs_to.
Seen(o) == IF o.is_valid THEN o
           ELSE [o EXCEPT !.life = 0, !.belongs_to = NoOwner, !.updated_this_run = FALSE]
OwnersView == <<[s \in Slots |-> Seen(objects[s])], pc, uiclass, todo, cursor, recycled>>

AxisWide  == {0, 3, 4}
AxisShort == {0, 4}
NoDrift   == {0}
Drifting  == {0, 1}
=============================================================================
