------------------------------ MODULE Tracker ------------------------------
(***************************************************************************)
(* The multi-object tracker of lua_nn_person.cpp with its full life cycle: *)
(* update_tracker_8 matches or adds each measurement, runs the owner /     *)
(* litterer state machine over every slot, and then ages every slot.  One  *)
(* action is one iteration of one of those loops.                          *)
(*                                                                         *)
(* new_object_id wraps as in _add_object_8: it is never IdWrap.            *)
(* MaxMeasurements bounds the measurements of one call.                    *)
(*                                                                         *)
(* since and recycled are history variables: since[s] counts the objects   *)
(* added after the one in slot s (capped at IdWrap - 1), recycled says     *)
(* that since init_tracker some slot was given to a new object while an    *)
(* owned or discarded object still named that slot as its owner.           *)
(***************************************************************************)
EXTENDS TrackerTable

CONSTANTS IdWrap,          \* 255: the id at which new_object_id restarts at 1
          MaxMeasurements  \* bound on n_measurement

ASSUME IdWrapAssumption == IdWrap \in Nat /\ IdWrap >= 2
ASSUME MaxMeasurementsAssumption == MaxMeasurements \in Nat

VARIABLES objects,        \* the slots of tracker->objects
          ids,            \* the id field of every slot
          n_object,       \* tracker->n_object
          new_object_id,  \* tracker->new_object_id
          pc,             \* the loop the call is in
          uiclass,        \* the class of the measurements of this call
          todo,           \* measurements of this call still to handle
          cursor,         \* the slot the current loop is at
          since, recycled

table == <<objects, ids, n_object, new_object_id>>
ghost == <<since, recycled>>
call  == <<pc, uiclass, todo, cursor>>
vars  == <<objects, ids, n_object, new_object_id, pc, uiclass, todo, cursor,
           since, recycled>>

Phases == {"idle", "update", "states", "post"}

TypeOK ==
  /\ objects \in [Slots -> Obj]
  /\ ids \in [Slots -> 0 .. IdWrap - 1]
  /\ n_object \in 0 .. MaxObjects
  /\ new_object_id \in 1 .. IdWrap - 1
  /\ pc \in Phases
  /\ uiclass \in Classes
  /\ todo \in 0 .. MaxMeasurements
  /\ cursor \in 0 .. MaxObjects
  /\ since \in [Slots -> 0 .. IdWrap - 1]
  /\ recycled \in BOOLEAN

\* The state after init_tracker on zeroed memory.
Init ==
  /\ objects = [s \in Slots |-> ZeroObj]
  /\ ids = [s \in Slots |-> 0]
  /\ n_object = 0
  /\ new_object_id = 1
  /\ pc = "idle" /\ uiclass = OBJECT /\ todo = 0 /\ cursor = 0
  /\ since = [s \in Slots |-> 0]
  /\ recycled = FALSE

-----------------------------------------------------------------------------
\* init_tracker, called again between two calls of the tracker.
InitTracker ==
  /\ pc = "idle"
  /\ objects' = [s \in Slots |-> Cleared(objects[s])]
  /\ n_object' = 0
  /\ new_object_id' = 1
  /\ since' = [s \in Slots |-> 0]
  /\ recycled' = FALSE
  /\ UNCHANGED <<ids, call>>

\* update_tracker_8 is entered with n measurements of class cls.
BeginUpdate ==
  /\ pc = "idle"
  /\ \E cls \in Classes, n \in 0 .. MaxMeasurements :
       uiclass' = cls /\ todo' = n
  /\ pc' = "update"
  /\ UNCHANGED <<table, cursor, ghost>>

-----------------------------------------------------------------------------
\* The loop over the measurements: _handle_update_8.

\* Seeded fault: the id counter restarts one id too early.
NextIdEarly == IF new_object_id + 2 = IdWrap THEN 1 ELSE new_object_id + 1

NextId == IF new_object_id + 1 = IdWrap THEN 1 ELSE new_object_id + 1

\* Some object that is neither free nor new still names slot s as its owner.
NamedAsOwner(s) ==
  \E t \in ValidSlots(objects) :
    /\ objects[t].interaction_state \in {"OWNED", "DISCARDED"}
    /\ objects[t].belongs_to = s

\* _add_object_8: the object goes to slot s.
AddObject(s, p) ==
  /\ IsFirstFree(s, objects)
  /\ objects' = [objects EXCEPT ![s] = NewObj(p, uiclass)]
  /\ ids' = [ids EXCEPT ![s] = new_object_id]
  /\ new_object_id' = NextId
  /\ n_object' = n_object + 1
  /\ since' = [t \in Slots |->
                 IF t = s \/ ~objects[t].is_valid THEN 0
                 ELSE IF since[t] = IdWrap - 1 THEN since[t] ELSE since[t] + 1]
  /\ recycled' = (recycled \/ NamedAsOwner(s))

\* One measurement at p: _add_or_update_closest_8.  drift is the displacement
\* predicted for each slot since cur_time was read; the filtered centre of
\* the matched object may be anywhere, and the clock may stand still.
HandleMeasurement(p, drift) ==
  LET centre == Predicted(objects, drift)
      near   == Eligible(objects, uiclass, centre, p)
  IN  \/ \E s \in Slots, c \in Positions, elapsed \in Elapsed :
           /\ IsClosest(s, near, centre, p)
           /\ objects' = [objects EXCEPT ![s] = Refreshed(objects[s], c, elapsed)]
           /\ UNCHANGED <<ids, n_object, new_object_id, ghost>>
      \/ near = {} /\ \E s \in Slots : AddObject(s, p)
      \/ near = {} /\ FreeSlots(objects) = {} /\ UNCHANGED <<table, ghost>>

Measure ==
  /\ pc = "update"
  /\ todo > 0
  /\ todo' = todo - 1
  /\ \E p \in Positions, drift \in [Slots -> Drifts] : HandleMeasurement(p, drift)
  /\ UNCHANGED <<pc, uiclass, cursor>>

StartStates ==
  /\ pc = "update"
  /\ todo = 0
  /\ pc' = "states"
  /\ uiclass' = OBJECT
  /\ UNCHANGED <<table, todo, cursor, ghost>>

-----------------------------------------------------------------------------
\* The loop of _obj_state_handler: one iteration handles slot cursor.

Here  == objects[cursor]
Owner == objects[Here.belongs_to]

InStates(st) ==
  /\ pc = "states"
  /\ cursor < MaxObjects
  /\ Here.is_valid
  /\ Here.uiclass # HUMAN
  /\ Here.interaction_state = st

NextSlot ==
  /\ cursor' = cursor + 1
  /\ UNCHANGED <<pc, uiclass, todo, ids, n_object, new_object_id, ghost>>

StateSkip ==
  /\ pc = "states"
  /\ cursor < MaxObjects
  /\ \/ ~Here.is_valid
     \/ Here.uiclass = HUMAN
     \/ Here.interaction_state \notin {"NORMAL", "OWNED", "DISCARDED"}
  /\ UNCHANGED objects
  /\ NextSlot

\* _obj_state_normal_handler
StateNormal ==
  /\ InStates("NORMAL")
  /\ LET humans == HumansNear(objects, cursor)
         centre == [t \in Slots |-> objects[t].at]
     IN  \/ \E h \in Slots :
              /\ IsClosest(h, humans, centre, Here.at)
              /\ objects' = WithOwner(objects, cursor, h)
         \/ /\ humans = {}
            /\ objects' = WithState(objects, cursor, "NOT_OWNED")
  /\ NextSlot

\* Seeded fault: the owner is blamed only beyond DIST_THRESH, not at it.
StateOwnedStrict ==
  /\ InStates("OWNED")
  /\ objects' = IF AtLeast(Owner.at, Here.at, DistThresh + 1)
                THEN WithState(WithState(objects, Here.belongs_to, "LITTERER"),
                               cursor, "DISCARDED")
                ELSE objects
  /\ NextSlot

\* _obj_state_owned_handler: the owner's record is read and written whatever
\* its slot holds by now.
StateOwned ==
  /\ InStates("OWNED")
  /\ objects' = IF AtLeast(Owner.at, Here.at, DistThresh)
                THEN WithState(WithState(objects, Here.belongs_to, "LITTERER"),
                               cursor, "DISCARDED")
                ELSE objects
  /\ NextSlot

\* Seeded fault: an object whose owner comes back is owned again.
StateDiscardedReowned ==
  /\ InStates("DISCARDED")
  /\ objects' = IF Within(Owner.at, Here.at, DistThresh - Hysteresis)
                THEN WithState(WithState(objects, Here.belongs_to, "NORMAL"),
                               cursor, "OWNED")
                ELSE objects
  /\ NextSlot

\* _obj_state_discarded_handler
StateDiscarded ==
  /\ InStates("DISCARDED")
  /\ objects' = IF /\ Within(Owner.at, Here.at, DistThresh - Hysteresis)
                   /\ Owner.interaction_state = "LITTERER"
                THEN WithState(objects, Here.belongs_to, "NORMAL")
                ELSE objects
  /\ NextSlot

StartPost ==
  /\ pc = "states"
  /\ cursor = MaxObjects
  /\ pc' = "post"
  /\ cursor' = 0
  /\ UNCHANGED <<table, uiclass, todo, ghost>>

-----------------------------------------------------------------------------
\* The loop of _handle_post_update.

\* Seeded faults: the updated mark survives the call, or the life is not used up.
AgedKeepsMark(o) == [o EXCEPT !.life = o.life - 1, !.is_valid = (o.life # 1)]
AgedNotAtAll(o) == [o EXCEPT !.updated_this_run = FALSE]

Aged(o) == [o EXCEPT !.life = o.life - 1,
                     !.is_valid = (o.life # 1),
                     !.updated_this_run = FALSE]

PostUpdate ==
  /\ pc = "post"
  /\ cursor < MaxObjects
  /\ IF Here.is_valid
     THEN /\ objects' = [objects EXCEPT ![cursor] = Aged(Here)]
          /\ n_object' = IF Here.life = 1 THEN n_object - 1 ELSE n_object
     ELSE UNCHANGED <<objects, n_object>>
  /\ cursor' = cursor + 1
  /\ UNCHANGED <<ids, new_object_id, pc, uiclass, todo, ghost>>

EndUpdate ==
  /\ pc = "post"
  /\ cursor = MaxObjects
  /\ pc' = "idle"
  /\ cursor' = 0
  /\ UNCHANGED <<table, uiclass, todo, ghost>>

-----------------------------------------------------------------------------
\* The steps of a call that has been entered.
Step == \/ Measure \/ StartStates
        \/ StateSkip \/ StateNormal \/ StateOwned \/ StateDiscarded
        \/ StartPost \/ PostUpdate \/ EndUpdate

Next == InitTracker \/ BeginUpdate \/ Step

Spec == Init /\ [][Next]_vars

\* A call, once entered, runs to its end: nothing in it waits.
FairSpec == Spec /\ WF_vars(Step)

-----------------------------------------------------------------------------
\* n_object is the number of valid slots, through every add, expiry and
\* re-initialisation (_add_object_8 increments it, _handle_post_update
\* decrements it, init_tracker zeroes it).
CountInv == n_object = Cardinality(ValidSlots(objects))

\* An object past the normal state that has an owner names another slot of
\* the table, never the 255 written by _add_object_8: the owned and discarded
\* handlers index tracker->objects with belongs_to unchecked.
OwnerIndexInv ==
  \A s \in ValidSlots(objects) :
    objects[s].interaction_state \in {"OWNED", "DISCARDED"} =>
      /\ objects[s].uiclass # HUMAN
      /\ objects[s].belongs_to \in Slots \ {s}

\* A person is only ever normal or a litterer: the handlers that write through
\* belongs_to never leave one in a state of an object.
HumanStateInv ==
  \A s \in ValidSlots(objects) :
    objects[s].uiclass = HUMAN =>
      objects[s].interaction_state \in {"NORMAL", "LITTERER"}

\* Between calls every tracked object is unmarked, has calls left to live, and
\* has used up at least one since it was last seen: "--obj->life == 0" can
\* neither wrap below zero nor skip a slot.
IdleInv ==
  pc = "idle" =>
    \A s \in ValidSlots(objects) :
      /\ ~objects[s].updated_this_run
      /\ objects[s].life \in 1 .. LifeInit - 1

\* The table agrees with itself: n_object with the slots in use, and marks and
\* lives with what the next call takes for granted.
TableAgrees == TypeOK /\ CountInv /\ IdleInv

\* Unless a slot named as owner was given to another object, owners are
\* people and only people are blamed: nothing that is not a person carries
\* the litterer state.
ObjectsNeverBlamed ==
  ~recycled =>
    \A s \in ValidSlots(objects) :
      /\ objects[s].uiclass # HUMAN => objects[s].interaction_state # "LITTERER"
      /\ objects[s].interaction_state \in {"OWNED", "DISCARDED"} =>
           objects[objects[s].belongs_to].uiclass = HUMAN

\* Blame is for people who own something, and people have no other states.
BlameInv == HumanStateInv /\ ObjectsNeverBlamed

\* Two tracked objects share an id only if at least IdWrap - 1 objects were
\* added after one of them.
RecentIdsDistinct ==
  \A s, t \in ValidSlots(objects) :
    (s # t /\ since[s] < IdWrap - 1 /\ since[t] < IdWrap - 1) => ids[s] # ids[t]

\* When the state loop of a call is over, no owned object is as far from its
\* owner as the distance that blames: the owned handler saw every slot, and no
\* later iteration of the loop handed an object to somebody out of reach.
\* (Only for callers that match within DIST_THRESH, as the handler assumes.)
PassSettled ==
  (pc = "post" /\ MatchThresh <= DistThresh) =>
    \A s \in ValidSlots(objects) :
      objects[s].interaction_state = "OWNED" =>
        ~AtLeast(objects[objects[s].belongs_to].at, objects[s].at, DistThresh)

\* Who owns an object is decided once: as long as the object is tracked and no
\* owner slot was reused, an owned object keeps its owner and is at most
\* discarded, and a discarded one stays discarded, however often its owner
\* comes back, is blamed or expires.
OwnershipFinal ==
  [][\A s \in Slots :
       (/\ ~recycled
        /\ objects[s].is_valid /\ objects'[s].is_valid
        /\ objects[s].interaction_state \in {"OWNED", "DISCARDED"}) =>
          /\ objects'[s].belongs_to = objects[s].belongs_to
          /\ objects'[s].interaction_state \in
               {objects[s].interaction_state, "DISCARDED"}
    ]_vars

\* A tracker that keeps being called does not keep an object that is no longer
\* seen: again and again a slot is free or its object has just been measured.
UnseenExpire ==
  \A s \in Slots :
    []<>(pc = "post") =>
      []<>(~objects[s].is_valid \/ objects[s].updated_this_run)
=============================================================================
