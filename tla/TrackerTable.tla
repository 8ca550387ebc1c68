---------------------------- MODULE TrackerTable ----------------------------
(***************************************************************************)
(* The object table of the tracker (lua_nn_person.cpp, tracker.h): the     *)
(* fields of obj_t that steer control flow, the distance tests and the     *)
(* selection rules of the tracker's loops.  No state of its own; Tracker   *)
(* and later modules about the person detector build on it.                *)
(*                                                                         *)
(* An image position is a point of one axis.  The velocity of an object is *)
(* kept only as far as the code depends on it: two updates with one        *)
(* clock() value divide by zero and leave it infinite or not a number, and *)
(* it is lost.  Such an object keeps its centre, but every displacement    *)
(* predicted for it is infinite or not a number too, and every comparison  *)
(* "squared_dist < dist_thresh" with it is false.                          *)
(***************************************************************************)
EXTENDS Integers, FiniteSets

CONSTANTS
  MaxObjects,   \* tracker_t.max_n_object
  Positions,    \* where a measurement can lie
  Drifts,       \* displacements velocity * (clock() - cur_time) can predict
  Elapsed,      \* clock() ticks that can lie between two updates of an object
  LifeInit,     \* LIFE_INIT: calls an unseen object survives
  DistThresh,   \* DIST_THRESH: squared distance at which an owner is blamed
  Hysteresis,   \* the 100 of "DIST_THRESH - 100"
  DistMax,      \* DIST_MAX
  MatchThresh   \* squared_dist_thresh, the caller's argument

ASSUME MaxObjectsAssumption == MaxObjects \in 1..254
ASSUME PositionsAssumption  == Positions \subseteq Int /\ 0 \in Positions
ASSUME DriftsAssumption     == Drifts \subseteq Int /\ 0 \in Drifts
ASSUME ElapsedAssumption    == Elapsed \subseteq Nat
ASSUME LifeAssumption       == LifeInit \in 1..255
ASSUME DistAssumption       == {DistThresh, Hysteresis, DistMax, MatchThresh} \subseteq Nat

Slots == 0 .. MaxObjects - 1

OBJECT  == 0
HUMAN   == 1
Classes == {OBJECT, HUMAN}

\* The values of interaction_state that some statement of the code assigns;
\* "ZERO" is the content of memory no object was ever written to.
InteractionStates ==
  {"ZERO", "NORMAL", "OWNED", "DISCARDED", "NOT_OWNED", "LITTERER"}

NoOwner == 255

Obj == [is_valid : BOOLEAN, at : Positions, lost : BOOLEAN, uiclass : Classes,
        interaction_state : InteractionStates,
        belongs_to : Slots \cup {NoOwner}, life : 0 .. LifeInit,
        updated_this_run : BOOLEAN]

\* An object record in zeroed memory.
ZeroObj == [is_valid |-> FALSE, at |-> 0, lost |-> FALSE, uiclass |-> OBJECT,
            interaction_state |-> "ZERO", belongs_to |-> 0, life |-> 0,
            updated_this_run |-> FALSE]

\* init_object: only the validity flag is written, the rest of the record stays.
Cleared(o) == [o EXCEPT !.is_valid = FALSE]

\* Seeded fault: a new object is not marked as updated.
NewObjUnmarked(p, cls) ==
  [is_valid |-> TRUE, at |-> p, lost |-> FALSE, uiclass |-> cls,
   interaction_state |-> "NORMAL", belongs_to |-> NoOwner, life |-> LifeInit,
   updated_this_run |-> FALSE]

\* What _add_object and _add_object_8 write into a free record.
NewObj(p, cls) ==
  [is_valid |-> TRUE, at |-> p, lost |-> FALSE, uiclass |-> cls,
   interaction_state |-> "NORMAL", belongs_to |-> NoOwner, life |-> LifeInit,
   updated_this_run |-> TRUE]

\* Seeded fault: the filter forgets to mark the object as updated.
RefreshedUnmarked(o, c, elapsed) ==
  [o EXCEPT !.at = c, !.lost = (elapsed = 0), !.life = LifeInit]

\* What _update_object_8 leaves in a record whose filter ends at centre c, the
\* given time after its last update.  The division by that time can lose the
\* velocity; the centre is computed from the velocity of before.
Refreshed(o, c, elapsed) ==
  [o EXCEPT !.at = c, !.lost = (elapsed = 0), !.life = LifeInit,
            !.updated_this_run = TRUE]

\* The table after the interaction state of slot s, or its owner too, is written.
WithState(objs, s, st) == [objs EXCEPT ![s].interaction_state = st]
WithOwner(objs, s, h) ==
  [objs EXCEPT ![s].belongs_to = h, ![s].interaction_state = "OWNED"]

SqDist(p, q) == (p - q) * (p - q)

\* The C comparisons of a squared distance with a limit.
Within(p, q, limit) == SqDist(p, q) < limit
AtLeast(p, q, limit) == SqDist(p, q) >= limit

ValidSlots(objs) == {s \in Slots : objs[s].is_valid}
FreeSlots(objs)  == {s \in Slots : ~objs[s].is_valid}

\* s is the first of the nearest slots of C: the loops keep the first slot
\* whose distance is strictly smaller than that of every earlier one.
IsClosest(s, C, centre, p) ==
  /\ s \in C
  /\ \A t \in C : \/ SqDist(centre[s], p) < SqDist(centre[t], p)
                  \/ SqDist(centre[s], p) = SqDist(centre[t], p) /\ s <= t

\* The centres after the displacement predicted for the elapsed time.
Predicted(objs, drift) == [s \in Slots |-> objs[s].at + drift[s]]

\* The slots a measurement of class cls at p can be matched with; one whose
\* velocity is lost compares false with both limits.
Eligible(objs, cls, centre, p) ==
  {s \in Slots : /\ objs[s].is_valid
                 /\ objs[s].uiclass = cls
                 /\ ~objs[s].updated_this_run
                 /\ ~objs[s].lost
                 /\ Within(centre[s], p, MatchThresh)
                 /\ Within(centre[s], p, DistMax)}

\* Seeded faults: the search for an owner skips the class test, and then also
\* finds the object itself, or does not.
HumansNearAnyClass(objs, s) ==
  {t \in Slots : objs[t].is_valid /\ Within(objs[t].at, objs[s].at, MatchThresh)}
HumansNearOthers(objs, s) == HumansNearAnyClass(objs, s) \ {s}

\* The humans near enough to the object in slot s to be its owner.
HumansNear(objs, s) ==
  {t \in Slots : /\ objs[t].is_valid
                 /\ objs[t].uiclass = HUMAN
                 /\ Within(objs[t].at, objs[s].at, MatchThresh)
                 /\ Within(objs[t].at, objs[s].at, DistMax)}

\* The slot an added object goes to.
IsFirstFree(s, objs) ==
  s \in FreeSlots(objs) /\ \A t \in FreeSlots(objs) : s <= t
=============================================================================
