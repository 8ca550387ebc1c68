---------------------------- MODULE TrackerProofs ----------------------------
(***************************************************************************)
(* Machine-checked theorems about Tracker, for every table size, every set *)
(* of positions, every life and every id range.                            *)
(***************************************************************************)
EXTENDS TrackerLease, FiniteSetTheorems, TLAPS

-----------------------------------------------------------------------------
(* The records that the code writes to the object table are object records. *)

\* Zeroed memory holds object records.
LEMMA ZeroObjType == ZeroObj \in Obj
  BY MaxObjectsAssumption, PositionsAssumption, LifeAssumption
     DEF ZeroObj, Obj, Classes, OBJECT, HUMAN, InteractionStates,
         NoOwner, Slots

\* _add_object and _add_object_8 write an object record.
LEMMA NewObjType ==
  ASSUME NEW p \in Positions, NEW cls \in Classes
  PROVE  NewObj(p, cls) \in Obj
  BY LifeAssumption DEF NewObj, Obj, InteractionStates, NoOwner

\* init_object leaves an object record.
LEMMA ClearedType ==
  ASSUME NEW o \in Obj
  PROVE  Cleared(o) \in Obj
  BY DEF Cleared, Obj

\* _update_object and _update_object_8 leave an object record.
LEMMA RefreshedType ==
  ASSUME NEW o \in Obj, NEW c \in Positions, NEW e \in Elapsed
  PROVE  Refreshed(o, c, e) \in Obj
<1>1. LifeInit \in 0 .. LifeInit
  BY LifeAssumption
<1> QED BY <1>1 DEF Refreshed, Obj

-----------------------------------------------------------------------------
\* _handle_post_update leaves an object record, provided the life it
\* decrements is not zero.
LEMMA AgedType ==
  ASSUME NEW o \in Obj, o.life # 0
  PROVE  Aged(o) \in Obj
<1>1. o.life - 1 \in 0 .. LifeInit
  BY LifeAssumption DEF Obj
<1>2. (o.life # 1) \in BOOLEAN
  OBVIOUS
<1> QED BY <1>1, <1>2 DEF Aged, Obj

-----------------------------------------------------------------------------
\* What the steps do to the table, in the form the proofs below share.

\* q is o but for the owner and the interaction state.
SameButState(o, q) ==
  /\ q \in Obj
  /\ q.is_valid = o.is_valid
  /\ q.at = o.at
  /\ q.uiclass = o.uiclass
  /\ q.life = o.life
  /\ q.updated_this_run = o.updated_this_run

StateStep == StateSkip \/ StateNormal \/ StateOwned \/ StateDiscarded

\* A slot below the end of a loop is a slot of the table.
LEMMA CursorSlot ==
  ASSUME cursor \in 0 .. MaxObjects, cursor < MaxObjects
  PROVE  cursor \in Slots
  BY MaxObjectsAssumption DEF Slots

\* Writing one interaction state changes nothing else.
LEMMA WriteState ==
  ASSUME NEW objs \in [Slots -> Obj], NEW s, NEW st \in InteractionStates
  PROVE  /\ WithState(objs, s, st) \in [Slots -> Obj]
         /\ \A t \in Slots :
              /\ SameButState(objs[t], WithState(objs, s, st)[t])
              /\ WithState(objs, s, st)[t].belongs_to = objs[t].belongs_to
              /\ WithState(objs, s, st)[t].interaction_state =
                   IF t = s THEN st ELSE objs[t].interaction_state
<1> DEFINE q == WithState(objs, s, st)
<1>1. ASSUME NEW t \in Slots
      PROVE  /\ [objs[t] EXCEPT !.interaction_state = st] \in Obj
             /\ q[t] = IF t = s THEN [objs[t] EXCEPT !.interaction_state = st]
                       ELSE objs[t]
  BY DEF Obj, WithState
<1>2. q \in [Slots -> Obj]
  BY <1>1 DEF WithState
<1>3. ASSUME NEW t \in Slots
      PROVE  /\ SameButState(objs[t], q[t])
             /\ q[t].belongs_to = objs[t].belongs_to
             /\ q[t].interaction_state =
                  IF t = s THEN st ELSE objs[t].interaction_state
  <2> HIDE DEF q
  <2>1. objs[t] \in Obj /\ q[t] \in Obj
    BY <1>2
  <2> QED BY <1>1, <2>1 DEF SameButState, Obj
<1> QED BY <1>2, <1>3

\* Giving an object an owner changes nothing else than the owner and the state.
LEMMA WriteOwner ==
  ASSUME NEW objs \in [Slots -> Obj], NEW s, NEW h \in Slots
  PROVE  /\ WithOwner(objs, s, h) \in [Slots -> Obj]
         /\ \A t \in Slots :
              /\ SameButState(objs[t], WithOwner(objs, s, h)[t])
              /\ WithOwner(objs, s, h)[t].belongs_to =
                   IF t = s THEN h ELSE objs[t].belongs_to
              /\ WithOwner(objs, s, h)[t].interaction_state =
                   IF t = s THEN "OWNED" ELSE objs[t].interaction_state
<1> DEFINE q == WithOwner(objs, s, h)
           one(o) == [o EXCEPT !.belongs_to = h, !.interaction_state = "OWNED"]
<1>1. ASSUME NEW t \in Slots
      PROVE  /\ one(objs[t]) \in Obj
             /\ q[t] = IF t = s THEN one(objs[t]) ELSE objs[t]
  <2>1. "OWNED" \in InteractionStates
    BY DEF InteractionStates
  <2>2. one(objs[t]) \in Obj
    BY <2>1 DEF Obj
  <2>3. q[t] = IF t = s THEN one(objs[t]) ELSE objs[t]
    BY DEF WithOwner, Obj
  <2> QED BY <2>2, <2>3
<1>2. q \in [Slots -> Obj]
  BY <1>1 DEF WithOwner
<1>3. ASSUME NEW t \in Slots
      PROVE  /\ SameButState(objs[t], q[t])
             /\ q[t].belongs_to = IF t = s THEN h ELSE objs[t].belongs_to
             /\ q[t].interaction_state =
                  IF t = s THEN "OWNED" ELSE objs[t].interaction_state
  <2> HIDE DEF q
  <2>1. objs[t] \in Obj /\ q[t] \in Obj
    BY <1>2
  <2> QED BY <1>1, <2>1 DEF SameButState, Obj
<1> QED BY <1>2, <1>3

\* An iteration of _obj_state_handler writes owners and interaction states only.
LEMMA StateEffect ==
  ASSUME TypeOK, StateStep
  PROVE  /\ objects' \in [Slots -> Obj]
         /\ \A t \in Slots : SameButState(objects[t], objects'[t])
         /\ cursor \in Slots
         /\ cursor' = cursor + 1
         /\ pc = "states"
         /\ UNCHANGED <<pc, uiclass, todo, ids, n_object, new_object_id, ghost>>
<1>1. /\ cursor \in Slots
      /\ pc = "states"
      /\ cursor' = cursor + 1
      /\ UNCHANGED <<pc, uiclass, todo, ids, n_object, new_object_id, ghost>>
  BY CursorSlot DEF TypeOK, StateStep, StateSkip, StateNormal, StateOwned,
                    StateDiscarded, InStates, NextSlot
<1>2. objects \in [Slots -> Obj]
  BY DEF TypeOK
<1>3. {"NORMAL", "NOT_OWNED", "LITTERER", "DISCARDED"} \subseteq InteractionStates
  BY DEF InteractionStates
<1>4. /\ objects' \in [Slots -> Obj]
      /\ \A t \in Slots : SameButState(objects[t], objects'[t])
  <2>1. CASE objects' = objects
    BY <1>2, <2>1 DEF SameButState
  <2>2. CASE \E h \in Slots : objects' = WithOwner(objects, cursor, h)
    BY <1>2, <2>2, WriteOwner
  <2>3. CASE objects' = WithState(objects, cursor, "NOT_OWNED")
    BY <1>2, <1>3, <2>3, WriteState
  <2>4. CASE objects' = WithState(WithState(objects, Here.belongs_to, "LITTERER"),
                                  cursor, "DISCARDED")
    <3> DEFINE mid == WithState(objects, Here.belongs_to, "LITTERER")
    <3>1. /\ mid \in [Slots -> Obj]
          /\ \A t \in Slots : SameButState(objects[t], mid[t])
      BY <1>2, <1>3, WriteState
    <3> HIDE DEF mid
    <3>2. /\ WithState(mid, cursor, "DISCARDED") \in [Slots -> Obj]
          /\ \A t \in Slots :
               SameButState(mid[t], WithState(mid, cursor, "DISCARDED")[t])
      BY <1>3, <3>1, WriteState
    <3>3. objects' = WithState(mid, cursor, "DISCARDED")
      BY <2>4 DEF mid
    <3> QED BY <3>1, <3>2, <3>3 DEF SameButState
  <2>5. CASE objects' = WithState(objects, Here.belongs_to, "NORMAL")
    BY <1>2, <1>3, <2>5, WriteState
  <2> QED BY <2>1, <2>2, <2>3, <2>4, <2>5
          DEF StateStep, StateSkip, StateNormal, StateOwned, StateDiscarded
<1> QED BY <1>1, <1>4

\* A measurement that is handled refreshes one slot, fills a free one, or is
\* dropped; the table stays a table of object records.
LEMMA MeasureEffect ==
  ASSUME TypeOK, Measure
  PROVE  /\ pc = "update" /\ todo > 0 /\ todo' = todo - 1
         /\ UNCHANGED <<pc, uiclass, cursor>>
         /\ \/ \E s \in Slots, c \in Positions, e \in Elapsed :
                 /\ objects[s].is_valid /\ ~objects[s].updated_this_run
                 /\ objects' = [objects EXCEPT ![s] = Refreshed(objects[s], c, e)]
                 /\ Refreshed(objects[s], c, e) \in Obj
                 /\ UNCHANGED <<ids, n_object, new_object_id, ghost>>
            \/ \E s \in Slots, p \in Positions :
                 /\ AddObject(s, p)
                 /\ ~objects[s].is_valid
                 /\ NewObj(p, uiclass) \in Obj
            \/ UNCHANGED <<table, ghost>>
<1>1. /\ pc = "update" /\ todo > 0 /\ todo' = todo - 1
      /\ UNCHANGED <<pc, uiclass, cursor>>
  BY DEF Measure
<1>2. PICK p \in Positions, drift \in [Slots -> Drifts] : HandleMeasurement(p, drift)
  BY DEF Measure
<1> DEFINE centre == Predicted(objects, drift)
           near   == Eligible(objects, uiclass, centre, p)
<1>3. CASE \E s \in Slots, c \in Positions, e \in Elapsed :
             /\ IsClosest(s, near, centre, p)
             /\ objects' = [objects EXCEPT ![s] = Refreshed(objects[s], c, e)]
             /\ UNCHANGED <<ids, n_object, new_object_id, ghost>>
  <2>1. PICK s \in Slots, c \in Positions, e \in Elapsed :
             /\ IsClosest(s, near, centre, p)
             /\ objects' = [objects EXCEPT ![s] = Refreshed(objects[s], c, e)]
             /\ UNCHANGED <<ids, n_object, new_object_id, ghost>>
    BY <1>3
  <2>2. s \in near
    BY <2>1 DEF IsClosest
  <2>3. objects[s].is_valid /\ ~objects[s].updated_this_run
    BY <2>2 DEF Eligible
  <2>4. Refreshed(objects[s], c, e) \in Obj
    BY RefreshedType DEF TypeOK
  <2> QED BY <1>1, <2>1, <2>3, <2>4
<1>4. CASE \E s \in Slots : AddObject(s, p)
  <2>1. PICK s \in Slots : AddObject(s, p)
    BY <1>4
  <2>2. ~objects[s].is_valid
    BY <2>1 DEF AddObject, IsFirstFree, FreeSlots
  <2>3. NewObj(p, uiclass) \in Obj
    BY NewObjType DEF TypeOK
  <2> QED BY <1>1, <2>1, <2>2, <2>3
<1>5. CASE UNCHANGED <<table, ghost>>
  BY <1>1, <1>5
<1> QED BY <1>2, <1>3, <1>4, <1>5 DEF HandleMeasurement

-----------------------------------------------------------------------------
\* The lives of the tracked objects, in every phase of a call: a slot whose
\* ageing is over, and every slot between calls, is unmarked; an unmarked slot
\* has spent a call of its life.
Settled(s) == pc = "idle" \/ (pc = "post" /\ s < cursor)
LifeInv ==
  \A s \in ValidSlots(objects) :
    /\ objects[s].life \in 1 .. LifeInit
    /\ ~objects[s].updated_this_run => objects[s].life <= LifeInit - 1
    /\ Settled(s) => ~objects[s].updated_this_run

TableInv == TypeOK /\ CountInv /\ LifeInv

\* A table has at most MaxObjects valid slots.
LEMMA CountBound ==
  ASSUME NEW objs
  PROVE  /\ IsFiniteSet(ValidSlots(objs))
         /\ Cardinality(ValidSlots(objs)) \in 0 .. MaxObjects
<1>1. IsFiniteSet(Slots) /\ Cardinality(Slots) = MaxObjects
  BY MaxObjectsAssumption, FS_Interval DEF Slots
<1>2. ValidSlots(objs) \in SUBSET Slots
  BY DEF ValidSlots
<1>3. /\ IsFiniteSet(ValidSlots(objs))
      /\ Cardinality(ValidSlots(objs)) <= Cardinality(Slots)
  BY <1>1, <1>2, FS_Subset
<1>4. Cardinality(ValidSlots(objs)) \in Nat
  BY <1>3, FS_CardinalityType
<1> QED BY <1>1, <1>3, <1>4, MaxObjectsAssumption

\* Steps that keep every validity flag keep the count.
LEMMA CountSame ==
  ASSUME CountInv, UNCHANGED n_object,
         \A s \in Slots : objects'[s].is_valid = objects[s].is_valid
  PROVE  CountInv'
<1>1. ValidSlots(objects') = ValidSlots(objects)
  BY DEF ValidSlots
<1> QED BY <1>1 DEF CountInv

\* The initial table.
LEMMA TableInit == Init => TableInv
<1> SUFFICES ASSUME Init PROVE TableInv
  OBVIOUS
<1>1. TypeOK
  <2>1. objects \in [Slots -> Obj]
    BY ZeroObjType DEF Init
  <2>2. 0 \in 0 .. IdWrap - 1 /\ 1 \in 1 .. IdWrap - 1
    BY IdWrapAssumption
  <2>3. 0 \in 0 .. MaxObjects /\ 0 \in 0 .. MaxMeasurements
    BY MaxObjectsAssumption, MaxMeasurementsAssumption
  <2> QED BY <2>1, <2>2, <2>3 DEF Init, TypeOK, Phases, Classes, OBJECT
<1>2. ValidSlots(objects) = {}
  BY DEF Init, ValidSlots, ZeroObj
<1>3. CountInv
  BY <1>2, FS_EmptySet DEF CountInv, Init
<1>4. LifeInv
  BY <1>2 DEF LifeInv
<1> QED BY <1>1, <1>3, <1>4 DEF TableInv

\* init_tracker empties the table.
LEMMA TableReset == TableInv /\ InitTracker => TableInv'
<1> SUFFICES ASSUME TableInv, InitTracker PROVE TableInv'
  OBVIOUS
<1>1. objects' \in [Slots -> Obj]
  BY ClearedType DEF InitTracker, TableInv, TypeOK
<1>2. TypeOK'
  <2>1. 0 \in 0 .. IdWrap - 1 /\ 1 \in 1 .. IdWrap - 1
    BY IdWrapAssumption
  <2>2. 0 \in 0 .. MaxObjects
    BY MaxObjectsAssumption
  <2>3. since' \in [Slots -> 0 .. IdWrap - 1]
    BY <2>1 DEF InitTracker
  <2> QED BY <1>1, <2>1, <2>2, <2>3 DEF InitTracker, TableInv, TypeOK, call
<1>3. \A s \in Slots : ~objects'[s].is_valid
  BY DEF InitTracker, Cleared, TableInv, TypeOK, Obj
<1>4. ValidSlots(objects') = {}
  BY <1>3 DEF ValidSlots
<1>5. CountInv'
  BY <1>4, FS_EmptySet DEF CountInv, InitTracker
<1>6. LifeInv'
  BY <1>4 DEF LifeInv
<1> QED BY <1>2, <1>5, <1>6 DEF TableInv

\* Entering a call, and passing from one of its loops to the next, leaves the
\* table alone; a slot that becomes settled was aged in the loop just ended.
LEMMA TablePhase ==
  TableInv /\ (BeginUpdate \/ StartStates \/ StartPost \/ EndUpdate) => TableInv'
<1> SUFFICES ASSUME TableInv, BeginUpdate \/ StartStates \/ StartPost \/ EndUpdate
             PROVE  TableInv'
  OBVIOUS
<1>1. UNCHANGED <<table, ghost>>
  BY DEF BeginUpdate, StartStates, StartPost, EndUpdate
<1>2. TypeOK'
  BY <1>1, MaxObjectsAssumption
     DEF TableInv, TypeOK, table, ghost, BeginUpdate, StartStates, StartPost,
         EndUpdate, Phases, Classes, OBJECT
<1>3. CountInv'
  BY <1>1 DEF TableInv, CountInv, table
<1>4. \A s \in Slots : Settled(s)' => Settled(s)
  BY MaxObjectsAssumption
     DEF Settled, BeginUpdate, StartStates, StartPost, EndUpdate, Slots
<1>5. LifeInv'
  BY <1>1, <1>4 DEF TableInv, LifeInv, table, ValidSlots
<1> QED BY <1>2, <1>3, <1>5 DEF TableInv

\* The state loop does not touch validity, life or mark.
LEMMA TableStates == TableInv /\ StateStep => TableInv'
<1> SUFFICES ASSUME TableInv, StateStep PROVE TableInv'
  OBVIOUS
<1>1. /\ objects' \in [Slots -> Obj]
      /\ \A t \in Slots : SameButState(objects[t], objects'[t])
      /\ cursor \in Slots
      /\ cursor' = cursor + 1
      /\ pc = "states"
      /\ UNCHANGED <<pc, uiclass, todo, ids, n_object, new_object_id, ghost>>
  BY StateEffect DEF TableInv
<1>2. TypeOK'
  BY <1>1, MaxObjectsAssumption DEF TableInv, TypeOK, ghost, Slots
<1>3. CountInv'
  BY <1>1, CountSame DEF SameButState, TableInv
<1>4. LifeInv'
  BY <1>1 DEF TableInv, LifeInv, SameButState, Settled, ValidSlots
<1> QED BY <1>2, <1>3, <1>4 DEF TableInv

\* Adding, refreshing or dropping a measurement.
LEMMA TableMeasure == TableInv /\ Measure => TableInv'
<1> SUFFICES ASSUME TableInv, Measure PROVE TableInv'
  OBVIOUS
<1> USE DEF TableInv
<1>1. /\ pc = "update" /\ todo > 0 /\ todo' = todo - 1
      /\ UNCHANGED <<pc, uiclass, cursor>>
  BY MeasureEffect
<1>2. \A s \in Slots : ~Settled(s) /\ ~Settled(s)'
  BY <1>1 DEF Settled
<1>3. LifeInit \in 1 .. LifeInit
  BY LifeAssumption
<1>4. CASE \E s \in Slots, c \in Positions, e \in Elapsed :
             /\ objects[s].is_valid /\ ~objects[s].updated_this_run
             /\ objects' = [objects EXCEPT ![s] = Refreshed(objects[s], c, e)]
             /\ Refreshed(objects[s], c, e) \in Obj
             /\ UNCHANGED <<ids, n_object, new_object_id, ghost>>
  <2>1. PICK s \in Slots, c \in Positions, e \in Elapsed :
             /\ objects[s].is_valid /\ ~objects[s].updated_this_run
             /\ objects' = [objects EXCEPT ![s] = Refreshed(objects[s], c, e)]
             /\ Refreshed(objects[s], c, e) \in Obj
             /\ UNCHANGED <<ids, n_object, new_object_id, ghost>>
    BY <1>4
  <2>2. /\ Refreshed(objects[s], c, e).is_valid = objects[s].is_valid
        /\ Refreshed(objects[s], c, e).life = LifeInit
        /\ Refreshed(objects[s], c, e).updated_this_run
    BY DEF Refreshed, TypeOK, Obj
  <2>3. TypeOK'
    <3>1. objects' \in [Slots -> Obj]
      BY <2>1 DEF TypeOK
    <3>2. todo' \in 0 .. MaxMeasurements
      BY <1>1, MaxMeasurementsAssumption DEF TypeOK
    <3> QED BY <1>1, <2>1, <3>1, <3>2 DEF TypeOK, ghost
  <2>4. \A t \in Slots : objects'[t] = IF t = s THEN Refreshed(objects[s], c, e)
                                       ELSE objects[t]
    BY <2>1 DEF TypeOK
  <2>5. CountInv'
    BY <2>1, <2>2, <2>4, CountSame
  <2>6. LifeInv'
    BY <1>2, <1>3, <2>1, <2>2, <2>4 DEF LifeInv, ValidSlots
  <2> QED BY <2>3, <2>5, <2>6
<1>5. CASE \E s \in Slots, p \in Positions :
             /\ AddObject(s, p)
             /\ ~objects[s].is_valid
             /\ NewObj(p, uiclass) \in Obj
  <2>1. PICK s \in Slots, p \in Positions :
             /\ AddObject(s, p)
             /\ ~objects[s].is_valid
             /\ NewObj(p, uiclass) \in Obj
    BY <1>5
  <2>2. /\ objects' = [objects EXCEPT ![s] = NewObj(p, uiclass)]
        /\ ids' = [ids EXCEPT ![s] = new_object_id]
        /\ n_object' = n_object + 1
        /\ new_object_id' = NextId
        /\ since' = [t \in Slots |->
                       IF t = s \/ ~objects[t].is_valid THEN 0
                       ELSE IF since[t] = IdWrap - 1 THEN since[t]
                       ELSE since[t] + 1]
        /\ recycled' \in BOOLEAN
    BY <2>1 DEF AddObject, TypeOK
  <2>3. /\ NewObj(p, uiclass).is_valid
        /\ NewObj(p, uiclass).life = LifeInit
        /\ NewObj(p, uiclass).updated_this_run
    BY DEF NewObj
  <2>4. \A t \in Slots : objects'[t] = IF t = s THEN NewObj(p, uiclass)
                                       ELSE objects[t]
    BY <2>2 DEF TypeOK
  <2>5. ValidSlots(objects') = ValidSlots(objects) \cup {s} /\ s \notin ValidSlots(objects)
    BY <2>1, <2>3, <2>4 DEF ValidSlots
  <2>6. CountInv'
    BY <2>2, <2>5, CountBound, FS_AddElement DEF CountInv
  <2>7. n_object' \in 0 .. MaxObjects
    BY <2>6, CountBound DEF CountInv
  <2>8. new_object_id' \in 1 .. IdWrap - 1
    BY <2>2, IdWrapAssumption DEF NextId, TypeOK
  <2>9. since' \in [Slots -> 0 .. IdWrap - 1]
    <3>1. ASSUME NEW t \in Slots
          PROVE  (IF t = s \/ ~objects[t].is_valid THEN 0
                  ELSE IF since[t] = IdWrap - 1 THEN since[t]
                  ELSE since[t] + 1) \in 0 .. IdWrap - 1
      BY IdWrapAssumption DEF TypeOK
    <3> QED BY <2>2, <3>1
  <2>10. ids' \in [Slots -> 0 .. IdWrap - 1] /\ objects' \in [Slots -> Obj]
    BY <2>1, <2>2, IdWrapAssumption DEF TypeOK
  <2>11. TypeOK'
    <3>1. todo' \in 0 .. MaxMeasurements
      BY <1>1, MaxMeasurementsAssumption DEF TypeOK
    <3> QED BY <1>1, <2>2, <2>7, <2>8, <2>9, <2>10, <3>1 DEF TypeOK
  <2>12. LifeInv'
    BY <1>2, <1>3, <2>3, <2>4 DEF LifeInv, ValidSlots
  <2> QED BY <2>6, <2>11, <2>12
<1>6. CASE UNCHANGED <<table, ghost>>
  <2>1. TypeOK'
    <3>1. todo' \in 0 .. MaxMeasurements
      BY <1>1, MaxMeasurementsAssumption DEF TypeOK
    <3> QED BY <1>1, <1>6, <3>1 DEF TypeOK, table, ghost
  <2>2. CountInv' /\ LifeInv'
    BY <1>2, <1>6 DEF CountInv, LifeInv, table, ValidSlots
  <2> QED BY <2>1, <2>2
<1> QED BY MeasureEffect, <1>4, <1>5, <1>6

\* Ageing one slot: a slot with one call left becomes free and is no longer
\* counted.
LEMMA TablePost == TableInv /\ PostUpdate => TableInv'
<1> SUFFICES ASSUME TableInv, PostUpdate PROVE TableInv'
  OBVIOUS
<1> USE DEF TableInv
<1>1. /\ cursor \in Slots /\ pc = "post" /\ cursor' = cursor + 1
      /\ UNCHANGED <<ids, new_object_id, pc, uiclass, todo, ghost>>
  BY CursorSlot DEF PostUpdate, TypeOK
<1>2. cursor' \in 0 .. MaxObjects
  BY <1>1, MaxObjectsAssumption DEF Slots
<1>3. Here \in Obj
  BY <1>1 DEF TypeOK, Here
<1>4. CASE Here.is_valid
  <2>1. Here.life \in 1 .. LifeInit
    BY <1>1, <1>4 DEF LifeInv, ValidSlots, Here
  <2>2. /\ objects' = [objects EXCEPT ![cursor] = Aged(Here)]
        /\ n_object' = IF Here.life = 1 THEN n_object - 1 ELSE n_object
    BY <1>4 DEF PostUpdate
  <2>3. Aged(Here) \in Obj
    BY <1>3, <2>1, AgedType
  <2>4. /\ Aged(Here).is_valid = (Here.life # 1)
        /\ Aged(Here).life = Here.life - 1
        /\ ~Aged(Here).updated_this_run
    BY <1>3 DEF Aged, Obj
  <2>5. \A t \in Slots : objects'[t] = IF t = cursor THEN Aged(Here) ELSE objects[t]
    BY <2>2 DEF TypeOK
  <2>6. CountInv'
    <3>1. CASE Here.life = 1
      <4>1. ValidSlots(objects') = ValidSlots(objects) \ {cursor}
        BY <2>4, <2>5, <3>1 DEF ValidSlots
      <4>2. cursor \in ValidSlots(objects)
        BY <1>1, <1>4 DEF ValidSlots, Here
      <4> QED BY <2>2, <3>1, <4>1, <4>2, CountBound, FS_RemoveElement DEF CountInv
    <3>2. CASE Here.life # 1
      <4>1. \A t \in Slots : objects'[t].is_valid = objects[t].is_valid
        BY <1>4, <2>4, <2>5, <3>2 DEF Here
      <4> QED BY <2>2, <3>2, <4>1, CountSame
    <3> QED BY <3>1, <3>2
  <2>7. n_object' \in 0 .. MaxObjects
    BY <2>6, CountBound DEF CountInv
  <2>8. TypeOK'
    BY <1>1, <1>2, <2>2, <2>3, <2>7 DEF TypeOK, ghost
  <2>9. LifeInv'
    <3> SUFFICES ASSUME NEW s \in Slots, objects'[s].is_valid
                 PROVE  /\ objects'[s].life \in 1 .. LifeInit
                        /\ ~objects'[s].updated_this_run =>
                             objects'[s].life <= LifeInit - 1
                        /\ Settled(s)' => ~objects'[s].updated_this_run
      BY DEF LifeInv, ValidSlots
    <3>1. CASE s = cursor
      <4>1. Here.life - 1 \in 1 .. LifeInit /\ Here.life - 1 <= LifeInit - 1
        <5>1. Aged(Here).is_valid
          BY <2>5, <3>1
        <5>2. Here.life # 1
          BY <2>4, <5>1
        <5> QED BY <2>1, <5>2, LifeAssumption
      <4> QED BY <2>4, <2>5, <3>1, <4>1
    <3>2. CASE s # cursor
      <4>1. Settled(s)' => Settled(s)
        BY <1>1, <3>2 DEF Settled, Slots
      <4>2. objects'[s] = objects[s]
        BY <2>5, <3>2
      <4> QED BY <4>1, <4>2 DEF LifeInv, ValidSlots
    <3> QED BY <3>1, <3>2
  <2> QED BY <2>6, <2>8, <2>9
<1>5. CASE ~Here.is_valid
  <2>1. UNCHANGED <<objects, n_object>>
    BY <1>5 DEF PostUpdate
  <2>2. TypeOK'
    BY <1>1, <1>2, <2>1 DEF TypeOK, ghost
  <2>3. \A s \in ValidSlots(objects) : Settled(s)' => Settled(s)
    BY <1>1, <1>5 DEF Settled, Slots, ValidSlots, Here
  <2>4. CountInv' /\ LifeInv'
    BY <2>1, <2>3 DEF CountInv, LifeInv, ValidSlots
  <2> QED BY <2>2, <2>4
<1> QED BY <1>4, <1>5

\* Every step keeps the table invariant.
LEMMA TableNext == TableInv /\ [Next]_vars => TableInv'
<1>1. TableInv /\ UNCHANGED vars => TableInv'
  BY DEF TableInv, TypeOK, CountInv, LifeInv, Settled, ValidSlots, vars
<1> QED BY <1>1, TableReset, TablePhase, TableStates, TableMeasure, TablePost
        DEF Next, Step, StateStep

\* The table invariant holds throughout.
THEOREM TableCorrect == Spec => []TableInv
BY TableInit, TableNext, PTL DEF Spec

\* Type correctness of the tracker, for every table size: in particular
\* n_object never leaves 0 .. max_n_object and life never wraps below zero.
THEOREM TypeCorrect == Spec => []TypeOK
<1>1. TableInv => TypeOK
  BY DEF TableInv
<1> QED BY <1>1, TableCorrect, PTL

\* n_object counts the valid slots, for every table size and every life.
THEOREM CountCorrect == Spec => []CountInv
<1>1. TableInv => CountInv
  BY DEF TableInv
<1> QED BY <1>1, TableCorrect, PTL

\* Between calls no object is marked and each has at least one and at most
\* LifeInit - 1 calls left.
THEOREM IdleCorrect == Spec => []IdleInv
<1>1. TableInv => IdleInv
  <2> SUFFICES ASSUME TableInv, pc = "idle", NEW s \in ValidSlots(objects)
               PROVE  /\ ~objects[s].updated_this_run
                      /\ objects[s].life \in 1 .. LifeInit - 1
    BY DEF IdleInv
  <2> QED BY LifeAssumption DEF TableInv, LifeInv, Settled
<1> QED BY <1>1, TableCorrect, PTL

\* For every table size, life and id range, the table agrees with itself.
THEOREM TableAgreesCorrect == Spec => []TableAgrees
BY TypeCorrect, CountCorrect, IdleCorrect, PTL DEF TableAgrees

-----------------------------------------------------------------------------
\* Owners and blame.

Kept(t) ==
  /\ objects'[t].belongs_to = objects[t].belongs_to
  /\ objects'[t].interaction_state = objects[t].interaction_state

\* The four ways in which an iteration of _obj_state_handler writes: the object
\* gets an owner, gets none, is discarded with its owner blamed, or has its
\* blamed owner forgiven.
GetsOwner(h) ==
  /\ Here.interaction_state = "NORMAL"
  /\ h \in HumansNear(objects, cursor)
  /\ objects'[cursor].belongs_to = h
  /\ objects'[cursor].interaction_state = "OWNED"
  /\ \A t \in Slots \ {cursor} : Kept(t)
GetsNone ==
  /\ Here.interaction_state = "NORMAL"
  /\ objects'[cursor].interaction_state = "NOT_OWNED"
  /\ \A t \in Slots \ {cursor} : Kept(t)
IsDiscarded ==
  /\ Here.interaction_state = "OWNED"
  /\ \A t \in Slots :
       /\ objects'[t].belongs_to = objects[t].belongs_to
       /\ objects'[t].interaction_state =
            IF t = cursor THEN "DISCARDED"
            ELSE IF t = Here.belongs_to THEN "LITTERER"
            ELSE objects[t].interaction_state
OwnerForgiven ==
  /\ Here.interaction_state = "DISCARDED"
  /\ \A t \in Slots :
       /\ objects'[t].belongs_to = objects[t].belongs_to
       /\ objects'[t].interaction_state =
            IF t = Here.belongs_to THEN "NORMAL" ELSE objects[t].interaction_state
       /\ t = Here.belongs_to => objects[t].interaction_state = "LITTERER"

\* The object of this iteration is owned and as far from its owner as blames.
FarFromOwner ==
  /\ Here.is_valid /\ Here.uiclass # HUMAN /\ Here.interaction_state = "OWNED"
  /\ AtLeast(Owner.at, Here.at, DistThresh)

\* An iteration of the state loop does one of these, or changes no object, which
\* it does only if the object is not far from an owner.
LEMMA StateCases ==
  ASSUME TypeOK, StateStep
  PROVE  \/ ~FarFromOwner /\ \A t \in Slots : Kept(t)
         \/ /\ Here.is_valid /\ Here.uiclass # HUMAN
            /\ \/ \E h \in Slots : GetsOwner(h)
               \/ GetsNone
               \/ /\ IsDiscarded
                  /\ AtLeast(Owner.at, Here.at, DistThresh)
               \/ OwnerForgiven
<1>1. objects \in [Slots -> Obj] /\ cursor \in Slots
  BY StateEffect DEF TypeOK
<1>2. {"NORMAL", "NOT_OWNED", "LITTERER", "DISCARDED"} \subseteq InteractionStates
  BY DEF InteractionStates
<1>3. CASE ~FarFromOwner /\ objects' = objects
  BY <1>3 DEF Kept
<1>4. CASE /\ StateNormal
           /\ \E h \in HumansNear(objects, cursor) : objects' = WithOwner(objects, cursor, h)
  <2>1. PICK h \in HumansNear(objects, cursor) : objects' = WithOwner(objects, cursor, h)
    BY <1>4
  <2>2. h \in Slots
    BY DEF HumansNear
  <2>3. GetsOwner(h)
    BY <1>1, <1>4, <2>1, <2>2, WriteOwner DEF GetsOwner, Kept, StateNormal, InStates
  <2> QED BY <1>4, <2>2, <2>3 DEF StateNormal, InStates
<1>5. CASE StateNormal /\ objects' = WithState(objects, cursor, "NOT_OWNED")
  <2>1. GetsNone
    BY <1>1, <1>2, <1>5, WriteState DEF GetsNone, Kept, StateNormal, InStates
  <2> QED BY <1>5, <2>1 DEF StateNormal, InStates
<1>6. CASE /\ StateOwned
           /\ AtLeast(Owner.at, Here.at, DistThresh)
           /\ objects' = WithState(WithState(objects, Here.belongs_to, "LITTERER"),
                                   cursor, "DISCARDED")
  <2> DEFINE mid == WithState(objects, Here.belongs_to, "LITTERER")
  <2>1. /\ mid \in [Slots -> Obj]
        /\ \A t \in Slots :
             /\ mid[t].belongs_to = objects[t].belongs_to
             /\ mid[t].interaction_state =
                  IF t = Here.belongs_to THEN "LITTERER"
                  ELSE objects[t].interaction_state
    BY <1>1, <1>2, WriteState
  <2>2. objects' = WithState(mid, cursor, "DISCARDED")
    BY <1>6
  <2> HIDE DEF mid
  <2>3. \A t \in Slots :
          /\ objects'[t].belongs_to = mid[t].belongs_to
          /\ objects'[t].interaction_state =
               IF t = cursor THEN "DISCARDED" ELSE mid[t].interaction_state
    BY <1>2, <2>1, <2>2, WriteState
  <2>4. IsDiscarded
    BY <1>6, <2>1, <2>3 DEF IsDiscarded, StateOwned, InStates
  <2> QED BY <1>6, <2>4 DEF StateOwned, InStates
<1>7. CASE /\ StateDiscarded
           /\ Owner.interaction_state = "LITTERER"
           /\ objects' = WithState(objects, Here.belongs_to, "NORMAL")
  <2>1. OwnerForgiven
    BY <1>1, <1>2, <1>7, WriteState DEF OwnerForgiven, StateDiscarded, InStates, Owner
  <2> QED BY <1>7, <2>1 DEF StateDiscarded, InStates
<1>8. StateNormal => \/ \E h \in HumansNear(objects, cursor) :
                          objects' = WithOwner(objects, cursor, h)
                     \/ objects' = WithState(objects, cursor, "NOT_OWNED")
  BY DEF StateNormal, IsClosest
<1>9. StateSkip \/ StateDiscarded => ~FarFromOwner
  BY DEF StateSkip, StateDiscarded, InStates, FarFromOwner
<1> QED BY <1>3, <1>4, <1>5, <1>6, <1>7, <1>8, <1>9
        DEF StateStep, StateSkip, StateOwned, StateDiscarded, FarFromOwner

OwnerInv == OwnerIndexInv /\ HumanStateInv /\ ObjectsNeverBlamed

\* A step that keeps class, owner and state of the objects that stay tracked,
\* adds none, and leaves the classes of free slots alone keeps OwnerInv.
LEMMA OwnerKept ==
  ASSUME OwnerInv, recycled' = recycled,
         \A s \in Slots : /\ objects'[s].is_valid => objects[s].is_valid
                          /\ objects'[s].uiclass = objects[s].uiclass
                          /\ Kept(s)
  PROVE  OwnerInv'
<1>1. OwnerIndexInv' /\ HumanStateInv'
  BY DEF OwnerInv, OwnerIndexInv, HumanStateInv, ValidSlots, Kept
<1>2. ObjectsNeverBlamed'
  <2> SUFFICES ASSUME ~recycled, NEW s \in Slots, objects'[s].is_valid
               PROVE  /\ objects'[s].uiclass # HUMAN =>
                           objects'[s].interaction_state # "LITTERER"
                      /\ objects'[s].interaction_state \in {"OWNED", "DISCARDED"} =>
                           objects'[objects'[s].belongs_to].uiclass = HUMAN
    BY DEF ObjectsNeverBlamed, ValidSlots
  <2>1. /\ objects[s].uiclass # HUMAN => objects[s].interaction_state # "LITTERER"
        /\ objects[s].interaction_state \in {"OWNED", "DISCARDED"} =>
             /\ objects[objects[s].belongs_to].uiclass = HUMAN
             /\ objects[s].belongs_to \in Slots
    BY DEF OwnerInv, ObjectsNeverBlamed, OwnerIndexInv, ValidSlots
  <2> QED BY <2>1 DEF Kept
<1> QED BY <1>1, <1>2 DEF OwnerInv

\* An added object is normal and names nobody; if some object named its slot
\* as owner, recycled is set.
LEMMA OwnerAdd ==
  ASSUME TypeOK, OwnerInv, NEW s \in Slots, NEW p \in Positions, AddObject(s, p)
  PROVE  OwnerInv'
<1>1. \A t \in Slots : objects'[t] = IF t = s THEN NewObj(p, uiclass) ELSE objects[t]
  BY DEF AddObject, TypeOK
<1>2. NewObj(p, uiclass).interaction_state = "NORMAL"
  BY DEF NewObj
<1>3. OwnerIndexInv' /\ HumanStateInv'
  BY <1>1, <1>2 DEF OwnerInv, OwnerIndexInv, HumanStateInv, ValidSlots
<1>4. ObjectsNeverBlamed'
  <2> SUFFICES ASSUME ~recycled', NEW t \in Slots, objects'[t].is_valid
               PROVE  /\ objects'[t].uiclass # HUMAN =>
                           objects'[t].interaction_state # "LITTERER"
                      /\ objects'[t].interaction_state \in {"OWNED", "DISCARDED"} =>
                           objects'[objects'[t].belongs_to].uiclass = HUMAN
    BY DEF ObjectsNeverBlamed, ValidSlots
  <2>1. ~recycled /\ ~NamedAsOwner(s)
    BY DEF AddObject
  <2>2. CASE t = s
    BY <1>1, <1>2, <2>2
  <2>3. CASE t # s
    <3>1. objects'[t] = objects[t] /\ t \in ValidSlots(objects)
      BY <1>1, <2>3 DEF ValidSlots
    <3>2. /\ objects[t].uiclass # HUMAN => objects[t].interaction_state # "LITTERER"
          /\ objects[t].interaction_state \in {"OWNED", "DISCARDED"} =>
               /\ objects[objects[t].belongs_to].uiclass = HUMAN
               /\ objects[t].belongs_to \in Slots
               /\ objects[t].belongs_to # s
      BY <2>1, <3>1 DEF OwnerInv, ObjectsNeverBlamed, OwnerIndexInv, NamedAsOwner
    <3> QED BY <1>1, <3>1, <3>2
  <2> QED BY <2>2, <2>3
<1> QED BY <1>3, <1>4 DEF OwnerInv

\* The state loop gives objects human owners, blames and forgives owners only.
LEMMA OwnerStates ==
  ASSUME TypeOK, OwnerInv, StateStep
  PROVE  OwnerInv'
<1>1. /\ \A t \in Slots : /\ objects'[t].is_valid = objects[t].is_valid
                          /\ objects'[t].uiclass = objects[t].uiclass
      /\ cursor \in Slots
      /\ recycled' = recycled
  BY StateEffect DEF SameButState, ghost
<1>2. CASE \A t \in Slots : Kept(t)
  BY <1>1, <1>2, OwnerKept
<1>3. ASSUME NEW h \in Slots, Here.is_valid, Here.uiclass # HUMAN, GetsOwner(h)
      PROVE  OwnerInv'
  <2>1. objects[h].uiclass = HUMAN /\ h # cursor
    BY <1>3 DEF GetsOwner, HumansNear, Here
  <2>2. OwnerIndexInv' /\ HumanStateInv'
    BY <1>1, <1>3, <2>1
       DEF GetsOwner, Kept, OwnerInv, OwnerIndexInv, HumanStateInv, ValidSlots, Here
  <2>3. ObjectsNeverBlamed'
    BY <1>1, <1>3, <2>1
       DEF GetsOwner, Kept, OwnerInv, ObjectsNeverBlamed, OwnerIndexInv, ValidSlots, Here
  <2> QED BY <2>2, <2>3 DEF OwnerInv
<1>4. CASE Here.is_valid /\ Here.uiclass # HUMAN /\ GetsNone
  <2>1. OwnerIndexInv' /\ HumanStateInv'
    BY <1>1, <1>4
       DEF GetsNone, Kept, OwnerInv, OwnerIndexInv, HumanStateInv, ValidSlots, Here
  <2>2. ObjectsNeverBlamed'
    BY <1>1, <1>4
       DEF GetsNone, Kept, OwnerInv, ObjectsNeverBlamed, OwnerIndexInv, ValidSlots, Here
  <2> QED BY <2>1, <2>2 DEF OwnerInv
<1>5. CASE Here.is_valid /\ Here.uiclass # HUMAN /\ IsDiscarded
  <2>1. /\ Here.belongs_to \in Slots /\ Here.belongs_to # cursor
        /\ ~recycled => objects[Here.belongs_to].uiclass = HUMAN
    BY <1>1, <1>5 DEF IsDiscarded, OwnerInv, OwnerIndexInv, ObjectsNeverBlamed,
                      ValidSlots, Here
  <2>2. OwnerIndexInv' /\ HumanStateInv'
    BY <1>1, <1>5, <2>1
       DEF IsDiscarded, OwnerInv, OwnerIndexInv, HumanStateInv, ValidSlots, Here
  <2>3. ObjectsNeverBlamed'
    BY <1>1, <1>5, <2>1
       DEF IsDiscarded, OwnerInv, ObjectsNeverBlamed, OwnerIndexInv, ValidSlots, Here
  <2> QED BY <2>2, <2>3 DEF OwnerInv
<1>6. CASE Here.is_valid /\ Here.uiclass # HUMAN /\ OwnerForgiven
  <2>1. OwnerIndexInv' /\ HumanStateInv'
    BY <1>1, <1>6
       DEF OwnerForgiven, OwnerInv, OwnerIndexInv, HumanStateInv, ValidSlots, Here
  <2>2. ObjectsNeverBlamed'
    BY <1>1, <1>6
       DEF OwnerForgiven, OwnerInv, ObjectsNeverBlamed, OwnerIndexInv, ValidSlots, Here
  <2> QED BY <2>1, <2>2 DEF OwnerInv
<1> QED BY <1>2, <1>3, <1>4, <1>5, <1>6, StateCases

\* OwnerInv holds initially.
LEMMA OwnerInit == Init => OwnerInv
  BY DEF Init, OwnerInv, OwnerIndexInv, HumanStateInv, ObjectsNeverBlamed,
         ValidSlots, ZeroObj

\* OwnerInv is kept by every step.
LEMMA OwnerNext == TableInv /\ OwnerInv /\ [Next]_vars => OwnerInv'
<1> SUFFICES ASSUME TableInv, OwnerInv, [Next]_vars PROVE OwnerInv'
  OBVIOUS
<1>1. TypeOK
  BY DEF TableInv
<1>2. CASE UNCHANGED <<objects, recycled>>
  BY <1>2 DEF OwnerInv, OwnerIndexInv, HumanStateInv, ObjectsNeverBlamed, ValidSlots
<1>3. CASE InitTracker
  <2>1. \A s \in Slots : ~objects'[s].is_valid
    BY <1>1, <1>3 DEF InitTracker, Cleared, TypeOK, Obj
  <2> QED BY <2>1 DEF OwnerInv, OwnerIndexInv, HumanStateInv, ObjectsNeverBlamed,
                      ValidSlots
<1>4. CASE Measure
  <2>1. CASE \E s \in Slots, c \in Positions, e \in Elapsed :
               /\ objects[s].is_valid /\ ~objects[s].updated_this_run
               /\ objects' = [objects EXCEPT ![s] = Refreshed(objects[s], c, e)]
               /\ Refreshed(objects[s], c, e) \in Obj
               /\ UNCHANGED <<ids, n_object, new_object_id, ghost>>
    <3>1. PICK s \in Slots, c \in Positions, e \in Elapsed :
               /\ objects' = [objects EXCEPT ![s] = Refreshed(objects[s], c, e)]
               /\ UNCHANGED ghost
      BY <2>1
    <3>2. LET q == Refreshed(objects[s], c, e) IN
            /\ q.is_valid = objects[s].is_valid
            /\ q.uiclass = objects[s].uiclass
            /\ q.belongs_to = objects[s].belongs_to
            /\ q.interaction_state = objects[s].interaction_state
      BY <1>1 DEF Refreshed, TypeOK, Obj
    <3>3. \A t \in Slots : objects'[t] = IF t = s THEN Refreshed(objects[s], c, e)
                                         ELSE objects[t]
      BY <1>1, <3>1 DEF TypeOK
    <3>4. \A t \in Slots : /\ objects'[t].is_valid => objects[t].is_valid
                           /\ objects'[t].uiclass = objects[t].uiclass
                           /\ Kept(t)
      BY <3>2, <3>3 DEF Kept
    <3> QED BY <3>1, <3>4, OwnerKept DEF ghost
  <2>2. CASE \E s \in Slots, p \in Positions : AddObject(s, p)
    BY <1>1, <2>2, OwnerAdd
  <2>3. CASE UNCHANGED <<table, ghost>>
    BY <1>2, <2>3 DEF table, ghost
  <2> QED BY <1>1, <1>4, <2>1, <2>2, <2>3, MeasureEffect
<1>5. CASE StateStep
  BY <1>1, <1>5, OwnerStates
<1>6. CASE PostUpdate
  <2>1. CASE Here.is_valid
    <3>1. /\ objects' = [objects EXCEPT ![cursor] = Aged(Here)]
          /\ UNCHANGED ghost
          /\ cursor \in Slots
      BY <1>1, <1>6, <2>1, CursorSlot DEF PostUpdate, TypeOK
    <3>2. /\ Aged(Here).uiclass = Here.uiclass
          /\ Aged(Here).belongs_to = Here.belongs_to
          /\ Aged(Here).interaction_state = Here.interaction_state
      BY <1>1, <3>1 DEF Aged, TypeOK, Obj, Here
    <3>3. \A t \in Slots : objects'[t] = IF t = cursor THEN Aged(Here) ELSE objects[t]
      BY <1>1, <3>1 DEF TypeOK
    <3>4. \A t \in Slots : /\ objects'[t].is_valid => objects[t].is_valid
                           /\ objects'[t].uiclass = objects[t].uiclass
                           /\ Kept(t)
      BY <2>1, <3>2, <3>3 DEF Kept, Here
    <3> QED BY <3>1, <3>4, OwnerKept DEF ghost
  <2>2. CASE ~Here.is_valid
    BY <1>2, <1>6, <2>2 DEF PostUpdate, ghost
  <2> QED BY <2>1, <2>2
<1> QED BY <1>2, <1>3, <1>4, <1>5, <1>6
        DEF Next, Step, StateStep, BeginUpdate, StartStates, StartPost, EndUpdate,
            vars, table, ghost

\* The index an owned or discarded object keeps for its owner is always a slot
\* of the table other than its own, for every table size: the unchecked
\* tracker->objects[obj->belongs_to] of the handlers stays inside the table.
THEOREM OwnerIndexCorrect == Spec => []OwnerIndexInv
<1>1. OwnerInv => OwnerIndexInv
  BY DEF OwnerInv
<1> QED BY <1>1, TableInit, TableNext, OwnerInit, OwnerNext, PTL DEF Spec

\* Nothing but a person is ever marked a litterer unless an owner's slot was
\* reused, and persons are in no other states: for every table size.
THEOREM BlameCorrect == Spec => []BlameInv
<1>1. OwnerInv => BlameInv
  BY DEF OwnerInv, BlameInv
<1> QED BY <1>1, TableInit, TableNext, OwnerInit, OwnerNext, PTL DEF Spec

-----------------------------------------------------------------------------
\* The tracker implements a LeasePool.

\* A step that keeps validity, life and mark of every slot, outside the ageing
\* loop, is a stutter of the pool.
LEMMA LeaseSame ==
  ASSUME pc # "post", pc' # "post",
         \A s \in Slots :
           /\ objects'[s].is_valid = objects[s].is_valid
           /\ objects'[s].life = objects[s].life
           /\ objects'[s].updated_this_run = objects[s].updated_this_run
  PROVE  UNCHANGED <<Lease, Fresh>>
<1>1. Lease' = Lease
  BY DEF Lease
<1>2. Fresh' = Fresh
  BY DEF Fresh, ValidSlots
<1> QED BY <1>1, <1>2

\* Refreshing a slot renews its lease.
LEMMA LeaseRenew ==
  ASSUME TableInv, pc = "update", pc' = "update",
         NEW s \in Slots, NEW c \in Positions, NEW e \in Elapsed,
         objects[s].is_valid, ~objects[s].updated_this_run,
         objects' = [objects EXCEPT ![s] = Refreshed(objects[s], c, e)]
  PROVE  Pool!Renew(s)
<1>1. LET q == Refreshed(objects[s], c, e) IN
        q.is_valid = objects[s].is_valid /\ q.life = LifeInit /\ q.updated_this_run
  BY DEF Refreshed, TableInv, TypeOK, Obj
<1>2. \A t \in Slots : objects'[t] = IF t = s THEN Refreshed(objects[s], c, e)
                                     ELSE objects[t]
  BY DEF TableInv, TypeOK
<1>3. Lease[s] > 0 /\ s \notin Fresh
  BY DEF Lease, Fresh, TableInv, LifeInv, ValidSlots
<1>4. Lease' = [Lease EXCEPT ![s] = LifeInit]
  <2>1. \A t \in Slots :
          /\ Lease[t] = IF ~objects[t].is_valid THEN 0 ELSE objects[t].life
          /\ Lease'[t] = IF ~objects'[t].is_valid THEN 0 ELSE objects'[t].life
    BY DEF Lease
  <2>2. \A t \in Slots : Lease'[t] = IF t = s THEN LifeInit ELSE Lease[t]
    <3>1. Lease'[s] = LifeInit
      BY <1>1, <1>2, <2>1
    <3>2. \A t \in Slots \ {s} : objects'[t] = objects[t]
      BY <1>2
    <3>3. \A t \in Slots \ {s} : Lease'[t] = Lease[t]
      BY <2>1, <3>2
    <3> QED BY <3>1, <3>3
  <2>3. Lease = [t \in Slots |-> Lease[t]] /\ Lease' = [t \in Slots |-> Lease'[t]]
    BY DEF Lease
  <2> QED BY <2>2, <2>3
<1>5. Fresh' = Fresh \cup {s}
  BY <1>1, <1>2 DEF Fresh, ValidSlots
<1> QED BY <1>3, <1>4, <1>5 DEF Pool!Renew

\* Adding an object admits its slot.
LEMMA LeaseAdmit ==
  ASSUME TableInv, pc = "update", pc' = "update",
         NEW s \in Slots, NEW p, ~objects[s].is_valid,
         objects' = [objects EXCEPT ![s] = NewObj(p, uiclass)]
  PROVE  Pool!Admit(s)
<1>1. LET q == NewObj(p, uiclass) IN
        q.is_valid /\ q.life = LifeInit /\ q.updated_this_run
  BY DEF NewObj
<1>2. \A t \in Slots : objects'[t] = IF t = s THEN NewObj(p, uiclass) ELSE objects[t]
  BY DEF TableInv, TypeOK
<1>3. Lease[s] = 0 /\ s \notin Fresh
  BY DEF Lease, Fresh, ValidSlots
<1>4. Lease' = [Lease EXCEPT ![s] = LifeInit]
  <2>1. \A t \in Slots :
          /\ Lease[t] = IF ~objects[t].is_valid THEN 0 ELSE objects[t].life
          /\ Lease'[t] = IF ~objects'[t].is_valid THEN 0 ELSE objects'[t].life
    BY DEF Lease
  <2>2. \A t \in Slots : Lease'[t] = IF t = s THEN LifeInit ELSE Lease[t]
    <3>1. Lease'[s] = LifeInit
      BY <1>1, <1>2, <2>1
    <3>2. \A t \in Slots \ {s} : objects'[t] = objects[t]
      BY <1>2
    <3>3. \A t \in Slots \ {s} : Lease'[t] = Lease[t]
      BY <2>1, <3>2
    <3> QED BY <3>1, <3>3
  <2>3. Lease = [t \in Slots |-> Lease[t]] /\ Lease' = [t \in Slots |-> Lease'[t]]
    BY DEF Lease
  <2> QED BY <2>2, <2>3
<1>5. Fresh' = Fresh \cup {s}
  BY <1>1, <1>2 DEF Fresh, ValidSlots
<1> QED BY <1>3, <1>4, <1>5 DEF Pool!Admit

\* Entering the ageing loop ticks the whole pool.
LEMMA LeaseTick == TableInv /\ StartPost => Pool!Tick
<1> SUFFICES ASSUME TableInv, StartPost PROVE Pool!Tick
  OBVIOUS
<1>1. /\ pc = "states" /\ pc' = "post" /\ cursor' = 0 /\ objects' = objects
  BY DEF StartPost, table
<1>2. \A s \in Slots : s >= 0
  BY MaxObjectsAssumption DEF Slots
<1>3. \A s \in Slots : Lease[s] = IF ~objects[s].is_valid THEN 0 ELSE objects[s].life
  BY <1>1 DEF Lease
<1>4. \A s \in Slots : objects[s].is_valid => objects[s].life # 0
  BY DEF TableInv, LifeInv, ValidSlots
<1>5. Lease' = [s \in Slots |-> IF Lease[s] = 0 THEN 0 ELSE Lease[s] - 1]
  BY <1>1, <1>2, <1>3, <1>4 DEF Lease
<1>6. Fresh' = {}
  BY <1>1 DEF Fresh
<1> QED BY <1>5, <1>6 DEF Pool!Tick

\* Ageing one slot is a stutter: the Tick has already counted it.
LEMMA LeasePost == TableInv /\ PostUpdate => UNCHANGED <<Lease, Fresh>>
<1> SUFFICES ASSUME TableInv, PostUpdate PROVE UNCHANGED <<Lease, Fresh>>
  OBVIOUS
<1>1. pc = "post" /\ pc' = "post" /\ cursor \in Slots /\ cursor' = cursor + 1
  BY CursorSlot DEF PostUpdate, TableInv, TypeOK
<1>2. Fresh' = Fresh
  BY <1>1 DEF Fresh
<1>3. ASSUME NEW s \in Slots PROVE Lease'[s] = Lease[s]
  <2>1. s # cursor => (s >= cursor' <=> s >= cursor)
    BY <1>1 DEF Slots
  <2>2. ~(cursor >= cursor') /\ cursor >= cursor
    BY <1>1 DEF Slots
  <2>3. CASE Here.is_valid
    <3>1. objects' = [objects EXCEPT ![cursor] = Aged(Here)]
      BY <2>3 DEF PostUpdate
    <3>2. \A t \in Slots : objects'[t] = IF t = cursor THEN Aged(Here) ELSE objects[t]
      BY <3>1 DEF TableInv, TypeOK
    <3>3. /\ Aged(Here).is_valid = (Here.life # 1)
          /\ Aged(Here).life = Here.life - 1
      BY <1>1 DEF Aged, TableInv, TypeOK, Obj, Here
    <3>4. Here.life \in 1 .. LifeInit
      BY <1>1, <2>3 DEF TableInv, LifeInv, ValidSlots, Here
    <3>5. CASE s = cursor
      <4>1. Lease[s] = Here.life - 1
        BY <1>1, <2>2, <2>3, <3>5 DEF Lease, Here
      <4>2. Lease'[s] = IF ~Aged(Here).is_valid THEN 0 ELSE Aged(Here).life
        BY <1>1, <2>2, <3>2, <3>5 DEF Lease
      <4>3. CASE Here.life = 1
        BY <3>3, <4>1, <4>2, <4>3
      <4>4. CASE Here.life # 1
        BY <3>3, <4>1, <4>2, <4>4
      <4> QED BY <4>3, <4>4
    <3>6. CASE s # cursor
      BY <1>1, <2>1, <3>2, <3>6 DEF Lease
    <3> QED BY <3>5, <3>6
  <2>4. CASE ~Here.is_valid
    <3>1. objects' = objects
      BY <2>4 DEF PostUpdate
    <3> QED BY <1>1, <2>1, <2>4, <3>1 DEF Lease, Here
  <2> QED BY <2>3, <2>4
<1>4. Lease' = Lease
  BY <1>3 DEF Lease
<1> QED BY <1>2, <1>4

\* Leaving the ageing loop is a stutter: every slot has been aged.
LEMMA LeaseEnd == TableInv /\ EndUpdate => UNCHANGED <<Lease, Fresh>>
<1> SUFFICES ASSUME TableInv, EndUpdate PROVE UNCHANGED <<Lease, Fresh>>
  OBVIOUS
<1>1. pc = "post" /\ pc' = "idle" /\ cursor = MaxObjects /\ objects' = objects
  BY DEF EndUpdate, table
<1>2. \A s \in Slots : ~(s >= cursor) /\ Settled(s)
  BY <1>1, MaxObjectsAssumption DEF Slots, Settled
<1>3. Lease' = Lease
  BY <1>1, <1>2 DEF Lease
<1>4. Fresh' = Fresh
  BY <1>1, <1>2 DEF Fresh, TableInv, LifeInv, ValidSlots
<1> QED BY <1>3, <1>4

\* init_tracker resets the pool.
LEMMA LeaseReset == TableInv /\ InitTracker => Pool!Reset
<1> SUFFICES ASSUME TableInv, InitTracker PROVE Pool!Reset
  OBVIOUS
<1>1. pc = "idle" /\ pc' = "idle"
  BY DEF InitTracker, call
<1>2. \A s \in Slots : ~objects'[s].is_valid
  BY DEF InitTracker, Cleared, TableInv, TypeOK, Obj
<1>3. Fresh = {}
  BY <1>1 DEF Fresh, TableInv, LifeInv, Settled
<1>4. Lease' = [s \in Slots |-> 0]
  BY <1>2 DEF Lease
<1>5. Fresh' = {}
  BY <1>2 DEF Fresh, ValidSlots
<1> QED BY <1>3, <1>4, <1>5 DEF Pool!Reset

\* Every step of the tracker is a step of the pool or a stutter.
LEMMA LeaseNext ==
  TableInv /\ [Next]_vars => [Pool!PoolNext]_<<Lease, Fresh>>
<1> SUFFICES ASSUME TableInv, [Next]_vars
             PROVE  Pool!PoolNext \/ UNCHANGED <<Lease, Fresh>>
  OBVIOUS
<1>1. CASE UNCHANGED vars
  BY <1>1 DEF vars, Lease, Fresh, ValidSlots
<1>2. CASE BeginUpdate \/ StartStates
  BY <1>2, LeaseSame DEF BeginUpdate, StartStates, table
<1>3. CASE Measure
  <2>1. pc = "update" /\ pc' = "update" /\ TypeOK
    BY <1>3 DEF Measure, TableInv
  <2>2. CASE \E s \in Slots, c \in Positions, e \in Elapsed :
               /\ objects[s].is_valid /\ ~objects[s].updated_this_run
               /\ objects' = [objects EXCEPT ![s] = Refreshed(objects[s], c, e)]
               /\ Refreshed(objects[s], c, e) \in Obj
               /\ UNCHANGED <<ids, n_object, new_object_id, ghost>>
    BY <2>1, <2>2, LeaseRenew DEF Pool!PoolNext
  <2>3. CASE \E s \in Slots, p \in Positions :
               AddObject(s, p) /\ ~objects[s].is_valid /\ NewObj(p, uiclass) \in Obj
    <3>1. PICK s \in Slots, p \in Positions :
               /\ ~objects[s].is_valid
               /\ objects' = [objects EXCEPT ![s] = NewObj(p, uiclass)]
      BY <2>3 DEF AddObject
    <3> QED BY <2>1, <3>1, LeaseAdmit DEF Pool!PoolNext
  <2>4. CASE UNCHANGED <<table, ghost>>
    BY <2>1, <2>4, LeaseSame DEF table
  <2> QED BY <1>3, <2>1, <2>2, <2>3, <2>4, MeasureEffect
<1>4. CASE StateStep
  <2>1. /\ \A t \in Slots : SameButState(objects[t], objects'[t])
        /\ pc = "states" /\ pc' = pc
    BY <1>4, StateEffect DEF TableInv
  <2> QED BY <2>1, LeaseSame DEF SameButState
<1>5. CASE StartPost
  BY <1>5, LeaseTick DEF Pool!PoolNext
<1>6. CASE PostUpdate
  BY <1>6, LeasePost
<1>7. CASE EndUpdate
  BY <1>7, LeaseEnd
<1>8. CASE InitTracker
  BY <1>8, LeaseReset DEF Pool!PoolNext
<1> QED BY <1>1, <1>2, <1>3, <1>4, <1>5, <1>6, <1>7, <1>8
        DEF Next, Step, StateStep

\* The tracker's table is a pool of leases, for every table size and every
\* LIFE_INIT: each object is renewed at most once per call of update_tracker_8,
\* loses exactly one call of life per call, and its slot is reused only after
\* its lease has run out or the tracker was re-initialised.
THEOREM TrackerImplementsLeasePool == Spec => ImplementsLeasePool
<1>1. Init => Pool!PoolInit
  <2> SUFFICES ASSUME Init PROVE Pool!PoolInit
    OBVIOUS
  <2>1. \A s \in Slots : ~objects[s].is_valid
    BY DEF Init, ZeroObj
  <2> QED BY <2>1 DEF Pool!PoolInit, Lease, Fresh, ValidSlots
<1> QED BY <1>1, TableInit, TableNext, LeaseNext, PTL
        DEF Spec, ImplementsLeasePool, Pool!PoolSpec

-----------------------------------------------------------------------------
\* The ageing of a slot keeps what the owners are about, and where objects are.
LEMMA PostKept ==
  ASSUME TypeOK, PostUpdate, NEW t \in Slots
  PROVE  /\ objects'[t].is_valid => objects[t].is_valid
         /\ objects'[t].at = objects[t].at
         /\ Kept(t)
<1>1. CASE Here.is_valid
  <2>1. objects' = [objects EXCEPT ![cursor] = Aged(Here)] /\ cursor \in Slots
    BY <1>1, CursorSlot DEF PostUpdate, TypeOK
  <2>2. /\ Aged(Here).at = Here.at
        /\ Aged(Here).belongs_to = Here.belongs_to
        /\ Aged(Here).interaction_state = Here.interaction_state
    BY <2>1 DEF Aged, TypeOK, Obj, Here
  <2>3. objects'[t] = IF t = cursor THEN Aged(Here) ELSE objects[t]
    BY <2>1 DEF TypeOK
  <2> QED BY <1>1, <2>2, <2>3 DEF Kept, Here
<1>2. CASE ~Here.is_valid
  BY <1>2 DEF PostUpdate, Kept
<1> QED BY <1>1, <1>2

\* A measurement keeps the owner and the state of every object that is tracked.
LEMMA MeasureKept ==
  ASSUME TypeOK, Measure, NEW t \in Slots, objects[t].is_valid
  PROVE  Kept(t)
<1>1. CASE \E s \in Slots, c \in Positions, e \in Elapsed :
             objects' = [objects EXCEPT ![s] = Refreshed(objects[s], c, e)]
  <2>1. PICK s \in Slots, c \in Positions, e \in Elapsed :
             objects' = [objects EXCEPT ![s] = Refreshed(objects[s], c, e)]
    BY <1>1
  <2>2. /\ Refreshed(objects[s], c, e).belongs_to = objects[s].belongs_to
        /\ Refreshed(objects[s], c, e).interaction_state = objects[s].interaction_state
    BY DEF Refreshed, TypeOK, Obj
  <2>3. objects'[t] = IF t = s THEN Refreshed(objects[s], c, e) ELSE objects[t]
    BY <2>1 DEF TypeOK
  <2> QED BY <2>2, <2>3 DEF Kept
<1>2. CASE \E s \in Slots, p \in Positions : AddObject(s, p) /\ ~objects[s].is_valid
  <2>1. PICK s \in Slots, p \in Positions : AddObject(s, p) /\ ~objects[s].is_valid
    BY <1>2
  <2>2. objects'[t] = objects[t]
    BY <2>1 DEF AddObject, TypeOK
  <2> QED BY <2>2 DEF Kept
<1>3. CASE UNCHANGED table
  BY <1>3 DEF table, Kept
<1> QED BY <1>1, <1>2, <1>3, MeasureEffect

\* Who owns an object is decided once, for every table and every script: as long
\* as no owner slot was reused, no step gives an owned object another owner or
\* takes a discarded one back.
THEOREM OwnershipFinalCorrect == Spec => OwnershipFinal
<1> DEFINE Final(s) ==
      (/\ ~recycled
       /\ objects[s].is_valid /\ objects'[s].is_valid
       /\ objects[s].interaction_state \in {"OWNED", "DISCARDED"}) =>
         /\ objects'[s].belongs_to = objects[s].belongs_to
         /\ objects'[s].interaction_state \in {objects[s].interaction_state, "DISCARDED"}
<1>1. TableInv /\ OwnerInv /\ [Next]_vars => [\A s \in Slots : Final(s)]_vars
  <2> SUFFICES ASSUME TableInv, OwnerInv, Next, NEW s \in Slots,
                      ~recycled, objects[s].is_valid, objects'[s].is_valid,
                      objects[s].interaction_state \in {"OWNED", "DISCARDED"}
               PROVE  /\ objects'[s].belongs_to = objects[s].belongs_to
                      /\ objects'[s].interaction_state
                           \in {objects[s].interaction_state, "DISCARDED"}
    OBVIOUS
  <2>1. TypeOK /\ objects[s].uiclass # HUMAN
    BY DEF TableInv, OwnerInv, OwnerIndexInv, ValidSlots
  <2>2. CASE Kept(s)
    BY <2>2 DEF Kept
  <2>3. CASE UNCHANGED objects
    BY <2>3
  <2>4. CASE InitTracker
    <3>1. ~objects'[s].is_valid
      BY <2>1, <2>4 DEF InitTracker, Cleared, TypeOK, Obj
    <3> QED BY <3>1
  <2>5. CASE Measure
    BY <2>1, <2>2, <2>5, MeasureKept
  <2>6. CASE StateStep
    <3>1. cursor \in Slots
      BY <2>1, <2>6, StateEffect
    <3>2. CASE GetsNone \/ \E h \in Slots : GetsOwner(h)
      <4>1. s # cursor
        BY <3>2 DEF GetsNone, GetsOwner, Here
      <4> QED BY <2>2, <3>2, <4>1 DEF GetsNone, GetsOwner
    <3>3. CASE Here.is_valid /\ IsDiscarded
      <4>1. objects[Here.belongs_to].uiclass = HUMAN
        BY <3>1, <3>3 DEF IsDiscarded, OwnerInv, ObjectsNeverBlamed, ValidSlots, Here
      <4>2. s # Here.belongs_to
        BY <2>1, <4>1
      <4> QED BY <3>3, <4>2 DEF IsDiscarded
    <3>4. CASE OwnerForgiven
      BY <3>4 DEF OwnerForgiven
    <3> QED BY <2>1, <2>2, <2>6, <3>2, <3>3, <3>4, StateCases
  <2>7. CASE PostUpdate
    BY <2>1, <2>2, <2>7, PostKept
  <2> QED BY <2>3, <2>4, <2>5, <2>6, <2>7
          DEF Next, Step, StateStep, BeginUpdate, StartStates, StartPost, EndUpdate, table
<1>2. TableInv /\ OwnerInv /\ [Next]_vars => TableInv' /\ OwnerInv'
  BY TableNext, OwnerNext
<1> QED BY <1>1, <1>2, TableInit, OwnerInit, PTL DEF Spec, OwnershipFinal

-----------------------------------------------------------------------------
\* The slots that the state loop has left behind are settled.
PassedInv ==
  /\ pc \in {"idle", "update"} => cursor = 0
  /\ MatchThresh <= DistThresh =>
       \A s \in ValidSlots(objects) :
         (/\ objects[s].interaction_state = "OWNED"
          /\ pc = "post" \/ (pc = "states" /\ s < cursor)) =>
            ~AtLeast(objects[objects[s].belongs_to].at, objects[s].at, DistThresh)

\* An owner that is found is not far.
LEMMA NearIsNotFar ==
  ASSUME NEW p \in Positions, NEW q \in Positions, Within(p, q, MatchThresh),
         MatchThresh <= DistThresh
  PROVE  ~AtLeast(p, q, DistThresh)
<1>1. p \in Int /\ q \in Int
  BY PositionsAssumption DEF Within
<1>2. SqDist(p, q) \in Int /\ SqDist(p, q) < MatchThresh
  BY <1>1 DEF SqDist, Within
<1>3. MatchThresh \in Int /\ DistThresh \in Int
  BY DistAssumption
<1> QED BY <1>2, <1>3 DEF AtLeast

\* A step of a tracker's state keeps what has been passed to the callbacks.
LEMMA PassedStates ==
  ASSUME TypeOK, OwnerInv, PassedInv, StateStep
  PROVE  PassedInv'
<1>1. /\ \A t \in Slots : /\ objects[t] \in Obj /\ objects'[t].at = objects[t].at
                          /\ objects'[t].is_valid = objects[t].is_valid
      /\ cursor \in Slots /\ cursor' = cursor + 1 /\ pc = "states" /\ pc' = pc
  BY StateEffect DEF SameButState, TypeOK
<1> SUFFICES ASSUME MatchThresh <= DistThresh, NEW s \in Slots, objects'[s].is_valid,
                    objects'[s].interaction_state = "OWNED", s < cursor + 1
             PROVE  ~AtLeast(objects'[objects'[s].belongs_to].at, objects'[s].at, DistThresh)
  BY <1>1 DEF PassedInv, ValidSlots
<1>2. s < cursor \/ s = cursor
  BY <1>1 DEF Slots
<1>3. CASE Kept(s) /\ objects[s].interaction_state = "OWNED" /\ (s = cursor => ~FarFromOwner)
  <2>1. objects[s].belongs_to \in Slots /\ objects[s].uiclass # HUMAN
    BY <1>1, <1>3 DEF OwnerInv, OwnerIndexInv, ValidSlots
  <2>2. ~AtLeast(objects[objects[s].belongs_to].at, objects[s].at, DistThresh)
    BY <1>1, <1>2, <1>3, <2>1 DEF PassedInv, ValidSlots, FarFromOwner, Here, Owner
  <2> QED BY <1>1, <1>3, <2>1, <2>2 DEF Kept
<1>4. CASE s = cursor /\ \E h \in Slots : GetsOwner(h)
  <2>1. PICK h \in Slots : GetsOwner(h)
    BY <1>4
  <2>2. Within(objects[h].at, objects[s].at, MatchThresh)
    BY <1>4, <2>1 DEF GetsOwner, HumansNear
  <2>3. objects[h].at \in Positions /\ objects[s].at \in Positions
    BY <1>1 DEF Obj
  <2>4. ~AtLeast(objects[h].at, objects[s].at, DistThresh)
    BY <2>2, <2>3, NearIsNotFar
  <2> QED BY <1>1, <1>4, <2>1, <2>4 DEF GetsOwner
<1>5. CASE s # cursor /\ Kept(s)
  BY <1>3, <1>5 DEF Kept
<1>6. CASE ~FarFromOwner /\ Kept(s)
  BY <1>3, <1>6 DEF Kept
<1>7. CASE GetsNone \/ \E h \in Slots : GetsOwner(h)
  <2>1. s = cursor => ~GetsNone
    BY DEF GetsNone
  <2> QED BY <1>4, <1>5, <1>7, <2>1 DEF GetsNone, GetsOwner
<1>8. CASE IsDiscarded
  <2>1. s # cursor /\ Kept(s)
    BY <1>8 DEF IsDiscarded, Kept
  <2> QED BY <1>5, <2>1
<1>9. CASE OwnerForgiven
  <2>1. s # cursor /\ Kept(s)
    BY <1>9 DEF OwnerForgiven, Kept, Here
  <2> QED BY <1>5, <2>1
<1> QED BY <1>6, <1>7, <1>8, <1>9, StateCases

\* Every step keeps what has been passed to the callbacks.
LEMMA PassedNext == TableInv /\ OwnerInv /\ PassedInv /\ [Next]_vars => PassedInv'
<1> SUFFICES ASSUME TableInv, OwnerInv, PassedInv, [Next]_vars PROVE PassedInv'
  OBVIOUS
<1>1. TypeOK
  BY DEF TableInv
<1>2. CASE UNCHANGED vars
  BY <1>2 DEF vars, PassedInv, ValidSlots
<1>3. CASE InitTracker \/ BeginUpdate \/ StartStates \/ Measure
  <2>1. /\ pc \in {"idle", "update"} /\ cursor' = cursor
        /\ pc' \in {"idle", "update", "states"}
    BY <1>3 DEF InitTracker, BeginUpdate, StartStates, Measure, call
  <2>2. cursor' = 0 /\ \A s \in Slots : ~(s < cursor')
    BY <2>1 DEF PassedInv, Slots
  <2> QED BY <2>1, <2>2 DEF PassedInv, ValidSlots
<1>4. CASE StateStep
  BY <1>1, <1>4, PassedStates
<1>5. CASE StartPost
  <2>1. \A s \in Slots : s < cursor
    BY <1>5, MaxObjectsAssumption DEF StartPost, Slots
  <2> QED BY <1>5, <2>1 DEF StartPost, table, PassedInv, ValidSlots
<1>6. CASE PostUpdate
  <2>1. pc = "post" /\ pc' = "post"
    BY <1>6 DEF PostUpdate
  <2>2. ASSUME NEW s \in Slots, objects'[s].is_valid, objects'[s].interaction_state = "OWNED",
               MatchThresh <= DistThresh
        PROVE  ~AtLeast(objects'[objects'[s].belongs_to].at, objects'[s].at, DistThresh)
    <3>1. objects[s].is_valid /\ Kept(s) /\ objects'[s].at = objects[s].at
      BY <1>1, <1>6, <2>2, PostKept
    <3>2. objects[s].belongs_to \in Slots
      BY <2>2, <3>1 DEF OwnerInv, OwnerIndexInv, ValidSlots, Kept
    <3>3. objects'[objects[s].belongs_to].at = objects[objects[s].belongs_to].at
      BY <1>1, <1>6, <3>2, PostKept
    <3>4. ~AtLeast(objects[objects[s].belongs_to].at, objects[s].at, DistThresh)
      BY <2>1, <2>2, <3>1 DEF PassedInv, ValidSlots, Kept
    <3> QED BY <3>1, <3>3, <3>4 DEF Kept
  <2> QED BY <2>1, <2>2 DEF PassedInv, ValidSlots
<1>7. CASE EndUpdate
  BY <1>7 DEF EndUpdate, PassedInv
<1> QED BY <1>2, <1>3, <1>4, <1>5, <1>6, <1>7 DEF Next, Step, StateStep

\* When the state loop of a call is over, no owned object is as far from its owner
\* as the distance that blames, for every table and every script.
THEOREM PassSettledCorrect == Spec => []PassSettled
<1>1. Init => PassedInv
  BY DEF Init, PassedInv
<1>2. PassedInv => PassSettled
  BY DEF PassedInv, PassSettled
<1>3. TableInv /\ OwnerInv /\ PassedInv /\ [Next]_vars
        => TableInv' /\ OwnerInv' /\ PassedInv'
  BY TableNext, OwnerNext, PassedNext
<1> QED BY <1>1, <1>2, <1>3, TableInit, OwnerInit, PTL DEF Spec

-----------------------------------------------------------------------------
\* An object that since[s] others followed got its id that many ids ago, and no
\* two objects are followed by as many, as long as the count is not at its cap.
Recent(s) == objects[s].is_valid /\ since[s] < IdWrap - 1
RecentInv ==
  /\ \A s \in Slots : Recent(s) =>
       ids[s] # 0 /\ ids[s] + since[s] + 1 \in {new_object_id, new_object_id + IdWrap - 1}
  /\ \A s, t \in Slots : s # t /\ Recent(s) /\ Recent(t) => since[s] # since[t]

\* A new object's id keeps the recent ids apart.
LEMMA RecentAdd ==
  ASSUME TypeOK, RecentInv, NEW s \in Slots, NEW p \in Positions, AddObject(s, p),
         ~objects[s].is_valid
  PROVE  RecentInv'
<1>1. \A t \in Slots : /\ objects'[t].is_valid <=> (t = s \/ objects[t].is_valid)
                       /\ ids'[t] = IF t = s THEN new_object_id ELSE ids[t]
                       /\ ids[t] \in 0 .. IdWrap - 1 /\ since[t] \in 0 .. IdWrap - 1
  <2>1. NewObj(p, uiclass).is_valid
    BY DEF NewObj
  <2>2. \A t \in Slots : objects'[t] = IF t = s THEN NewObj(p, uiclass) ELSE objects[t]
    BY DEF AddObject, TypeOK
  <2>3. \A t \in Slots : /\ ids'[t] = IF t = s THEN new_object_id ELSE ids[t]
                         /\ ids[t] \in 0 .. IdWrap - 1 /\ since[t] \in 0 .. IdWrap - 1
    BY DEF AddObject, TypeOK
  <2> QED BY <2>1, <2>2, <2>3
<1>2. since'[s] = 0
  BY DEF AddObject
<1>3. \A t \in Slots \ {s} : Recent(t)' =>
        Recent(t) /\ since[t] < IdWrap - 2 /\ since'[t] = since[t] + 1
  BY <1>1, IdWrapAssumption DEF AddObject, Recent
<1>4. /\ new_object_id \in 1 .. IdWrap - 1 /\ IdWrap \in Nat /\ IdWrap >= 2
      /\ new_object_id' = IF new_object_id + 1 = IdWrap THEN 1 ELSE new_object_id + 1
  BY IdWrapAssumption DEF AddObject, NextId, TypeOK
<1>5. ids'[s] # 0 /\ ids'[s] + since'[s] + 1 \in {new_object_id', new_object_id' + IdWrap - 1}
  BY <1>1, <1>2, <1>4
<1>6. ASSUME NEW t \in Slots \ {s}, Recent(t)'
      PROVE  ids'[t] # 0
             /\ ids'[t] + since'[t] + 1 \in {new_object_id', new_object_id' + IdWrap - 1}
  <2>1. ids[t] # 0 /\ ids[t] + since[t] + 1 \in {new_object_id, new_object_id + IdWrap - 1}
    BY <1>3, <1>6 DEF RecentInv
  <2>2. since[t] < IdWrap - 2 /\ since'[t] = since[t] + 1 /\ ids'[t] = ids[t]
    BY <1>1, <1>3, <1>6
  <2> DEFINE i == ids[t]
             k == since[t]
             n == new_object_id
             m == new_object_id'
  <2>3. /\ i \in 0 .. IdWrap - 1 /\ k \in 0 .. IdWrap - 1 /\ k < IdWrap - 2
        /\ i + k + 1 \in {n, n + IdWrap - 1}
        /\ n \in 1 .. IdWrap - 1 /\ IdWrap \in Nat
        /\ m = IF n + 1 = IdWrap THEN 1 ELSE n + 1
    BY <1>1, <1>4, <2>1, <2>2
  <2> HIDE DEF i, k, n, m
  <2>4. i + (k + 1) + 1 \in {m, m + IdWrap - 1}
    BY <2>3
  <2> QED BY <2>1, <2>2, <2>4 DEF i, k, n, m
<1>7. ASSUME NEW t \in Slots, NEW u \in Slots, t # u, Recent(t)', Recent(u)'
      PROVE  since'[t] # since'[u]
  <2>1. CASE t = s
    BY <1>1, <1>2, <1>3, <1>7, <2>1
  <2>2. CASE u = s
    BY <1>1, <1>2, <1>3, <1>7, <2>2
  <2>3. CASE t # s /\ u # s
    <3>1. since[t] # since[u]
      BY <1>3, <1>7, <2>3 DEF RecentInv
    <3> QED BY <1>1, <1>3, <1>7, <2>3, <3>1
  <2> QED BY <2>1, <2>2, <2>3
<1> QED BY <1>5, <1>6, <1>7 DEF RecentInv

\* Every step keeps the recent ids apart.
LEMMA RecentNext == TableInv /\ RecentInv /\ [Next]_vars => RecentInv'
<1> SUFFICES ASSUME TableInv, RecentInv, [Next]_vars PROVE RecentInv'
  OBVIOUS
<1>1. TypeOK
  BY DEF TableInv
<1>2. CASE /\ UNCHANGED <<ids, since, new_object_id>>
           /\ \A s \in Slots : objects'[s].is_valid => objects[s].is_valid
  BY <1>2 DEF RecentInv, Recent
<1>3. CASE InitTracker
  <2>1. \A s \in Slots : ~objects'[s].is_valid
    BY <1>1, <1>3 DEF InitTracker, Cleared, TypeOK, Obj
  <2> QED BY <2>1 DEF RecentInv, Recent
<1>4. CASE Measure
  <2>1. CASE \E s \in Slots, c \in Positions, e \in Elapsed :
               /\ objects' = [objects EXCEPT ![s] = Refreshed(objects[s], c, e)]
               /\ UNCHANGED <<ids, n_object, new_object_id, ghost>>
    <3>1. PICK s \in Slots, c \in Positions, e \in Elapsed :
               /\ objects' = [objects EXCEPT ![s] = Refreshed(objects[s], c, e)]
               /\ UNCHANGED <<ids, n_object, new_object_id, ghost>>
      BY <2>1
    <3>2. Refreshed(objects[s], c, e).is_valid = objects[s].is_valid
      BY <1>1 DEF Refreshed, TypeOK, Obj
    <3>3. \A t \in Slots : objects'[t].is_valid = objects[t].is_valid
      BY <1>1, <3>1, <3>2 DEF TypeOK
    <3> QED BY <1>2, <3>1, <3>3 DEF ghost
  <2>2. CASE \E s \in Slots, p \in Positions : AddObject(s, p) /\ ~objects[s].is_valid
    BY <1>1, <2>2, RecentAdd
  <2>3. CASE UNCHANGED <<table, ghost>>
    BY <1>2, <2>3 DEF table, ghost
  <2> QED BY <1>1, <1>4, <2>1, <2>2, <2>3, MeasureEffect
<1>5. CASE StateStep
  BY <1>1, <1>2, <1>5, StateEffect DEF SameButState, ghost
<1>6. CASE PostUpdate
  <2>1. \A s \in Slots : objects'[s].is_valid => objects[s].is_valid
    BY <1>1, <1>6, PostKept
  <2> QED BY <1>2, <1>6, <2>1 DEF PostUpdate, ghost
<1>7. CASE UNCHANGED <<table, ghost>>
  BY <1>2, <1>7 DEF table, ghost
<1> QED BY <1>3, <1>4, <1>5, <1>6, <1>7
        DEF Next, Step, StateStep, BeginUpdate, StartStates, StartPost, EndUpdate,
            vars, table, ghost

\* Two tracked objects share an id only after at least IdWrap - 1 objects were
\* added after one of them, for every table and every range of ids.
THEOREM RecentIdsDistinctCorrect == Spec => []RecentIdsDistinct
<1>1. Init => RecentInv
  BY DEF Init, RecentInv, Recent, ZeroObj
<1>2. TypeOK /\ RecentInv => RecentIdsDistinct
  <2> SUFFICES ASSUME TypeOK, RecentInv, NEW s \in Slots, NEW t \in Slots, s # t,
                      Recent(s), Recent(t), ids[s] = ids[t]
               PROVE  FALSE
    BY DEF RecentIdsDistinct, Recent, ValidSlots
  <2>1. /\ ids[s] + since[s] + 1 \in {new_object_id, new_object_id + IdWrap - 1}
        /\ ids[t] + since[t] + 1 \in {new_object_id, new_object_id + IdWrap - 1}
        /\ since[s] # since[t]
    BY DEF RecentInv
  <2>2. /\ ids[s] \in Nat /\ since[s] \in Nat /\ since[t] \in Nat /\ IdWrap \in Nat
        /\ new_object_id \in Nat /\ since[s] < IdWrap - 1 /\ since[t] < IdWrap - 1
    BY IdWrapAssumption DEF TypeOK, Recent
  <2> QED BY <2>1, <2>2
<1>3. TableInv /\ RecentInv /\ [Next]_vars => TableInv' /\ RecentInv'
  BY TableNext, RecentNext
<1>4. TableInv => TypeOK
  BY DEF TableInv
<1> QED BY <1>1, <1>2, <1>3, <1>4, TableInit, PTL DEF Spec
=============================================================================
