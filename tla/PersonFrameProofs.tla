-------------------------- MODULE PersonFrameProofs --------------------------
(***************************************************************************)
(* Theorems of PersonFrame: for any capacity of the table, any positions   *)
(* and any succession of frames, forward returns the boxes of its frame.   *)
(***************************************************************************)
EXTENDS PersonFrame, TLAPS

-----------------------------------------------------------------------------
(* The records that the code writes to the object table are object records. *)

\* Zeroed memory holds object records.
LEMMA ZeroObjType == ZeroObj \in Obj
  BY MaxObjectsAssumption, PositionsAssumption, LifeAssumption
     DEF ZeroObj, Obj, Classes, OBJECT, HUMAN, InteractionStates,
         NoOwner, Slots

\* _add_object and _add_object_8 write an object record.
LEMMA NewObjType ==
  ASSUME NEW p \in Positions, NEW cls \in Classes
  PROVE  NewObj(p, cls) \in Obj
  BY LifeAssumption DEF NewObj, Obj, InteractionStates, NoOwner

\* init_object leaves an object record.
LEMMA ClearedType ==
  ASSUME NEW o \in Obj
  PROVE  Cleared(o) \in Obj
  BY DEF Cleared, Obj

-----------------------------------------------------------------------------
(* The inductive invariant.                                                *)

\* How many boxes of the frame the table holds.
Held == IF pc = "update" THEN i - 1 ELSE Len(boxes)

\* In a call the first slots hold the boxes handled so far, in their order and
\* marked as updated, and the other slots are free.
Filled ==
  pc \in {"update", "report"} =>
    /\ Held \in 0 .. Len(boxes)
    /\ n_object = Held /\ new_object_id = Held + 1
    /\ \A s \in Slots :
         /\ objects[s].is_valid <=> (s < Held)
         /\ s < Held => /\ objects[s].at = boxes[s + 1]
                        /\ objects[s].updated_this_run

\* A slot has held a person if some frame so far had that many boxes; a slot this
\* frame has yet to fill may not have.
Remembered ==
  /\ Len(boxes) <= most
  /\ \A s \in Slots :
       /\ objects[s].uiclass = HUMAN => s < most
       /\ (s < most /\ (pc = "update" => s < Held \/ s >= Len(boxes)))
            => objects[s].uiclass = HUMAN

\* The list under construction holds the boxes of the slots passed.
Writing ==
  /\ pc = "update" => ret = Nothing
  /\ pc = "report" =>
       /\ boxes # <<>> /\ ~ret.given /\ i <= MaxObjects
       /\ ret.number = IF i < Len(boxes) THEN i ELSE Len(boxes)
       /\ Len(ret.boxs) = ret.number
       /\ \A k \in 1 .. ret.number : ret.boxs[k] = boxes[k]

FrameInv == /\ TypeOK /\ Filled /\ Remembered /\ Writing
            /\ IdsPerFrame /\ ReportsFrame /\ ClassesNeverForgotten

-----------------------------------------------------------------------------
\* Equal lengths and equal entries make equal sequences.
LEMMA SeqEqual ==
  ASSUME NEW S, NEW q \in Seq(S), NEW p \in Seq(S), Len(p) = Len(q),
         \A k \in 1 .. Len(q) : p[k] = q[k]
  PROVE  p = q
OBVIOUS

\* FrameInv holds at the start.
LEMMA FrameInit == Init => FrameInv
<1> SUFFICES ASSUME Init PROVE FrameInv
  OBVIOUS
<1>1. ZeroObj \in Obj
  BY ZeroObjType
<1>0. Nothing \in Ret
  <2>1. <<>> \in Seq(Positions) /\ OBJECT \in Classes /\ 0 \in 0 .. MaxObjects
    BY MaxObjectsAssumption DEF Classes
  <2>2. QED
    BY <2>1 DEF Nothing, Ret
<1>2. TypeOK
  BY <1>0, <1>1, BoxLimitAssumption, IdSizeAssumption, MaxObjectsAssumption
     DEF Init, TypeOK
<1>3. Remembered
  BY MaxObjectsAssumption DEF Init, Remembered, ZeroObj, OBJECT, HUMAN, Slots
<1> QED
  BY <1>2, <1>3 DEF Init, FrameInv, Filled, Writing, IdsPerFrame, ReportsFrame,
     ClassesNeverForgotten, ZeroObj, Nothing, ValidSlots

\* Clearing the table keeps everything but the validity of its records.
LEMMA StartEffect ==
  ASSUME TypeOK, StartTracker
  PROVE  /\ objects' \in [Slots -> Obj]
         /\ \A s \in Slots : /\ ~objects'[s].is_valid
                             /\ objects'[s].uiclass = objects[s].uiclass
         /\ n_object' = 0 /\ new_object_id' = 1 /\ ids' = ids
<1>1. \A s \in Slots : objects'[s] = Cleared(objects[s]) /\ Cleared(objects[s]) \in Obj
  BY ClearedType DEF TypeOK, StartTracker
<1>2. \A s \in Slots : /\ ~Cleared(objects[s]).is_valid
                       /\ Cleared(objects[s]).uiclass = objects[s].uiclass
  BY DEF TypeOK, Cleared, Obj
<1> QED BY <1>1, <1>2 DEF StartTracker

\* Loading the network again leaves an empty table.
LEMMA NetInitStep ==
  ASSUME FrameInv, NetInit
  PROVE  FrameInv'
<1>1. /\ objects' \in [Slots -> Obj]
      /\ \A s \in Slots : /\ ~objects'[s].is_valid
                          /\ objects'[s].uiclass = objects[s].uiclass
      /\ n_object' = 0 /\ new_object_id' = 1 /\ ids' = ids
  BY StartEffect DEF FrameInv, NetInit
<1>2. pc = "idle" /\ UNCHANGED <<pc, boxes, i, ret, most>>
  BY DEF NetInit
<1>3. TypeOK'
  BY <1>1, <1>2, BoxLimitAssumption, MaxObjectsAssumption DEF FrameInv, TypeOK
<1>4. Remembered'
  BY <1>1, <1>2 DEF FrameInv, Remembered
<1>5. IdsPerFrame'
  BY <1>1 DEF IdsPerFrame, ValidSlots
<1> QED
  BY <1>2, <1>3, <1>4, <1>5 DEF FrameInv, Filled, Writing, ReportsFrame,
     ClassesNeverForgotten

\* A frame starts with an empty table and an empty list.
LEMMA ForwardStep ==
  ASSUME FrameInv, NEW bs \in Frames, Forward(bs)
  PROVE  FrameInv'
<1>1. /\ objects' \in [Slots -> Obj]
      /\ \A s \in Slots : /\ ~objects'[s].is_valid
                          /\ objects'[s].uiclass = objects[s].uiclass
      /\ n_object' = 0 /\ new_object_id' = 1 /\ ids' = ids
  BY StartEffect DEF FrameInv, Forward
<1>2. /\ pc = "idle" /\ pc' = "update" /\ i' = 1 /\ boxes' = bs /\ ret' = Nothing
      /\ most' = IF Len(bs) > most THEN Len(bs) ELSE most
  BY DEF Forward, Frame
<1>3. bs \in Seq(Positions) /\ Len(bs) \in 0 .. BoxLimit /\ BoxLimit <= MaxObjects
  BY BoxLimitAssumption, MaxObjectsAssumption DEF Frames
<1>4. most \in 0 .. BoxLimit
  BY DEF FrameInv, TypeOK
<1>5. Nothing \in Ret
  BY MaxObjectsAssumption DEF Nothing, Ret, Classes
<1>6. TypeOK'
  BY <1>1, <1>2, <1>3, <1>4, <1>5, BoxLimitAssumption, MaxObjectsAssumption
     DEF FrameInv, TypeOK
<1>7. Held' = 0
  BY <1>2 DEF Held
<1>8. Filled'
  <2>1. ASSUME NEW s \in Slots
        PROVE  ~objects'[s].is_valid /\ ~(s < 0)
    BY <1>1, MaxObjectsAssumption DEF Slots
  <2>2. 0 \in 0 .. Len(boxes') /\ n_object' = 0 /\ new_object_id' = 0 + 1
    BY <1>1, <1>2, <1>3
  <2>3. \A s \in Slots : objects'[s].is_valid <=> (s < 0)
    BY <1>1, <2>1, Zenon
  <2> QED BY <1>7, <2>1, <2>2, <2>3, Zenon DEF Filled
<1>9. Remembered'
  BY <1>1, <1>2, <1>3, <1>4, <1>7, MaxObjectsAssumption
     DEF FrameInv, Remembered, Slots
<1>10. IdsPerFrame'
  BY <1>1 DEF IdsPerFrame, ValidSlots
<1> QED
  BY <1>2, <1>6, <1>8, <1>9, <1>10 DEF FrameInv, Writing, ReportsFrame,
     ClassesNeverForgotten

\* A failed call keeps the table and returns nothing.
LEMMA NoOutputStep ==
  ASSUME FrameInv, ForwardNoOutput
  PROVE  FrameInv'
<1>1. /\ pc = "idle" /\ pc' = "idle" /\ boxes' = <<>> /\ ret' = Nothing
      /\ UNCHANGED <<objects, ids, n_object, new_object_id, i, most>>
  BY DEF ForwardNoOutput, table
<1>2. Nothing \in Ret
  BY MaxObjectsAssumption DEF Nothing, Ret, Classes
<1>3. TypeOK'
  BY <1>1, <1>2, BoxLimitAssumption DEF FrameInv, TypeOK
<1>4. Remembered'
  BY <1>1 DEF FrameInv, TypeOK, Remembered
<1> QED
  BY <1>1, <1>3, <1>4 DEF FrameInv, Filled, Writing, IdsPerFrame, ReportsFrame,
     ClassesNeverForgotten, ValidSlots, Nothing

\* A program that stops keeps what it has.
LEMMA HaltStep ==
  ASSUME FrameInv, ForwardHalts
  PROVE  FrameInv'
<1>1. /\ pc = "idle" /\ pc' = "halted"
      /\ UNCHANGED <<objects, ids, n_object, new_object_id, boxes, i, ret, most>>
  BY DEF ForwardHalts, table
<1>2. TypeOK'
  BY <1>1 DEF FrameInv, TypeOK
<1>3. Remembered'
  BY <1>1 DEF FrameInv, Remembered
<1> QED
  BY <1>1, <1>2, <1>3 DEF FrameInv, Filled, Writing, IdsPerFrame, ReportsFrame,
     ClassesNeverForgotten, ValidSlots

-----------------------------------------------------------------------------
(* One measurement.                                                        *)

\* No measurement finds an object to refresh: every valid record is marked.
LEMMA NoneEligible ==
  ASSUME Filled, pc = "update", NEW centre, NEW p
  PROVE  Eligible(objects, HUMAN, centre, p) = {}
BY DEF Filled, Eligible

\* The first free slot is the one after the boxes handled so far.
LEMMA FreeSlotIsNext ==
  ASSUME FrameInv, pc = "update", i <= Len(boxes)
  PROVE  /\ i - 1 \in Slots
         /\ \A s \in Slots : IsFirstFree(s, objects) => s = i - 1
         /\ FreeSlots(objects) # {}
<1>1. i \in 1 .. Len(boxes) /\ Len(boxes) <= MaxObjects
  <2>1. i \in Int /\ Len(boxes) \in Nat /\ Len(boxes) <= BoxLimit
    BY MaxObjectsAssumption DEF FrameInv, TypeOK
  <2>2. i - 1 \in 0 .. Len(boxes)
    BY DEF FrameInv, Filled, Held
  <2> QED BY <2>1, <2>2, BoxLimitAssumption, MaxObjectsAssumption
<1>2. i - 1 \in Slots
  BY <1>1, MaxObjectsAssumption DEF Slots
<1>3. \A s \in Slots : objects[s].is_valid <=> (s < i - 1)
  BY DEF FrameInv, Filled, Held
<1>4. i - 1 \in FreeSlots(objects)
  BY <1>1, <1>2, <1>3 DEF FreeSlots
<1>5. ASSUME NEW s \in Slots, IsFirstFree(s, objects)
      PROVE  s = i - 1
  BY <1>1, <1>2, <1>3, <1>4, <1>5 DEF IsFirstFree, FreeSlots, Slots
<1> QED BY <1>2, <1>4, <1>5

\* So a measurement adds an object to the slot of its own number.
LEMMA MeasureEffect ==
  ASSUME FrameInv, Measure
  PROVE  /\ pc = "update" /\ i \in 1 .. Len(boxes) /\ i - 1 \in Slots
         /\ objects' = [objects EXCEPT ![i - 1] = NewObj(boxes[i], HUMAN)]
         /\ ids' = [ids EXCEPT ![i - 1] = i % IdSize]
         /\ new_object_id' = i + 1 /\ n_object' = i
         /\ i' = i + 1
         /\ UNCHANGED <<pc, boxes, ret, most>>
<1>1. pc = "update" /\ i <= Len(boxes) /\ i' = i + 1
      /\ UNCHANGED <<pc, boxes, ret, most>>
  BY DEF Measure
<1>2. i \in 1 .. Len(boxes) /\ n_object = i - 1 /\ new_object_id = i
  <2>1. i \in Int /\ Len(boxes) \in Nat
    BY MaxObjectsAssumption DEF FrameInv, TypeOK
  <2>2. i - 1 \in 0 .. Len(boxes) /\ n_object = i - 1 /\ new_object_id = i - 1 + 1
    BY <1>1 DEF FrameInv, Filled, Held
  <2> QED BY <1>1, <2>1, <2>2
<1>3. PICK drift \in [Slots -> Drifts] : HandleMeasurement(boxes[i], drift)
  BY DEF Measure
<1> DEFINE centre == Predicted(objects, drift)
<1>4. Eligible(objects, HUMAN, centre, boxes[i]) = {}
  BY <1>1, NoneEligible DEF FrameInv
<1>5. \E s \in Slots : AddObject(s, boxes[i])
  BY <1>1, <1>3, <1>4, FreeSlotIsNext DEF HandleMeasurement, IsClosest
<1>6. AddObject(i - 1, boxes[i]) /\ i - 1 \in Slots
  BY <1>1, <1>5, FreeSlotIsNext DEF AddObject
<1> QED BY <1>1, <1>2, <1>6 DEF AddObject

\* The record written for a box.
LEMMA MeasureTable ==
  ASSUME FrameInv, Measure
  PROVE  /\ objects' \in [Slots -> Obj] /\ ids' \in [Slots -> 0 .. IdSize - 1]
         /\ \A s \in Slots :
              /\ s # i - 1 => objects'[s] = objects[s] /\ ids'[s] = ids[s]
              /\ s = i - 1 => /\ objects'[s].is_valid
                             /\ objects'[s].at = boxes[i]
                             /\ objects'[s].updated_this_run
                             /\ objects'[s].uiclass = HUMAN
                             /\ ids'[s] = i
<1>1. /\ pc = "update" /\ i \in 1 .. Len(boxes) /\ i - 1 \in Slots
      /\ objects' = [objects EXCEPT ![i - 1] = NewObj(boxes[i], HUMAN)]
      /\ ids' = [ids EXCEPT ![i - 1] = i % IdSize]
  BY MeasureEffect
<1>2. boxes[i] \in Positions /\ HUMAN \in Classes
  BY <1>1 DEF FrameInv, TypeOK, Classes
<1>3. NewObj(boxes[i], HUMAN) \in Obj
  BY <1>2, NewObjType
<1>4. i \in 0 .. IdSize - 1 /\ IdSize \in Nat \ {0}
  BY <1>1, BoxLimitAssumption, MaxObjectsAssumption, IdSizeAssumption
     DEF FrameInv, TypeOK
<1>5. i % IdSize = i
  BY <1>4
<1>6. objects \in [Slots -> Obj] /\ ids \in [Slots -> 0 .. IdSize - 1]
  BY DEF FrameInv, TypeOK
<1> QED BY <1>1, <1>3, <1>4, <1>5, <1>6 DEF NewObj

\* One measurement fills one more slot.
LEMMA MeasureStep ==
  ASSUME FrameInv, Measure
  PROVE  FrameInv'
<1>1. /\ pc = "update" /\ pc' = "update" /\ i \in 1 .. Len(boxes)
      /\ new_object_id' = i + 1 /\ n_object' = i /\ i' = i + 1
      /\ boxes' = boxes /\ ret' = ret /\ most' = most /\ i - 1 \in Slots
  BY MeasureEffect
<1>2. /\ objects' \in [Slots -> Obj] /\ ids' \in [Slots -> 0 .. IdSize - 1]
      /\ \A s \in Slots :
           /\ s # i - 1 => objects'[s] = objects[s] /\ ids'[s] = ids[s]
           /\ s = i - 1 => /\ objects'[s].is_valid
                          /\ objects'[s].at = boxes[i]
                          /\ objects'[s].updated_this_run
                          /\ objects'[s].uiclass = HUMAN
                          /\ ids'[s] = i
  BY MeasureTable
<1>3. Held = i - 1 /\ Held' = i /\ Slots \subseteq Nat
  BY <1>1, MaxObjectsAssumption DEF Held, Slots
<1>4. /\ Len(boxes) <= BoxLimit /\ BoxLimit <= MaxObjects /\ BoxLimit \in Nat
      /\ MaxObjects \in Nat /\ Len(boxes) \in Nat
  BY BoxLimitAssumption, MaxObjectsAssumption DEF FrameInv, TypeOK
<1>5. TypeOK'
  BY <1>1, <1>2, <1>4 DEF FrameInv, TypeOK
<1>6. \A s \in Slots :
        /\ objects[s].is_valid <=> (s < i - 1)
        /\ s < i - 1 => /\ objects[s].at = boxes[s + 1]
                       /\ objects[s].updated_this_run
  BY <1>1, <1>3 DEF FrameInv, Filled
<1>7. \A s \in Slots :
        /\ objects'[s].is_valid <=> (s < i)
        /\ s < i => /\ objects'[s].at = boxes[s + 1]
                   /\ objects'[s].updated_this_run
  <2> SUFFICES ASSUME NEW s \in Slots
               PROVE  /\ objects'[s].is_valid <=> (s < i)
                      /\ s < i => /\ objects'[s].at = boxes[s + 1]
                                 /\ objects'[s].updated_this_run
    OBVIOUS
  <2>1. CASE s = i - 1
    BY <1>1, <1>2, <2>1
  <2>2. CASE s # i - 1
    BY <1>1, <1>2, <1>3, <1>6, <2>2
  <2> QED BY <2>1, <2>2
<1>8. Filled'
  <2>1. i \in 0 .. Len(boxes') /\ n_object' = i /\ new_object_id' = i + 1
    BY <1>1, <1>4
  <2>2. \A s \in Slots : s < i => objects'[s].at = boxes'[s + 1]
    BY <1>1, <1>7
  <2> QED BY <1>3, <1>7, <2>1, <2>2, Zenon DEF Filled
<1>9. Remembered'
  <2>1. Len(boxes) <= most
    BY DEF FrameInv, Remembered
  <2> SUFFICES ASSUME NEW s \in Slots
               PROVE  /\ objects'[s].uiclass = HUMAN => s < most
                      /\ (s < most /\ (s < i \/ s >= Len(boxes)))
                            => objects'[s].uiclass = HUMAN
    BY <1>1, <1>3, <2>1 DEF Remembered
  <2>2. /\ objects[s].uiclass = HUMAN => s < most
        /\ (s < most /\ (s < i - 1 \/ s >= Len(boxes)))
              => objects[s].uiclass = HUMAN
    BY <1>1, <1>3 DEF FrameInv, Remembered
  <2>3. most \in Int
    BY <1>4 DEF FrameInv, TypeOK
  <2>4. CASE s = i - 1
    BY <1>1, <1>2, <1>4, <2>1, <2>3, <2>4
  <2>5. CASE s # i - 1
    BY <1>1, <1>2, <1>3, <2>2, <2>5
  <2> QED BY <2>4, <2>5
<1>10. IdsPerFrame'
  <2> SUFFICES ASSUME NEW s \in Slots, objects'[s].is_valid
               PROVE  ids'[s] = s + 1
    BY DEF IdsPerFrame, ValidSlots
  <2>1. CASE s = i - 1
    BY <1>1, <1>2, <2>1
  <2>2. CASE s # i - 1
    BY <1>2, <2>2 DEF FrameInv, IdsPerFrame, ValidSlots
  <2> QED BY <2>1, <2>2
<1> QED
  BY <1>1, <1>5, <1>8, <1>9, <1>10 DEF FrameInv, Writing, ReportsFrame,
     ClassesNeverForgotten

-----------------------------------------------------------------------------
(* The report.                                                             *)

\* Once every box is handled the table holds them all.
LEMMA AllHeld ==
  ASSUME FrameInv, pc = "report" \/ (pc = "update" /\ i > Len(boxes))
  PROVE  /\ Held = Len(boxes)
         /\ ValidSlots(objects) = {s \in Slots : s < Len(boxes)}
         /\ ValidSlots(objects) = {} <=> boxes = <<>>
<1>1. /\ Len(boxes) \in 0 .. MaxObjects /\ i \in Int /\ MaxObjects \in Nat \ {0}
      /\ boxes \in Seq(Positions)
  BY BoxLimitAssumption, MaxObjectsAssumption DEF FrameInv, TypeOK
<1>2. Held = Len(boxes)
  <2>1. CASE pc = "report"
    BY <2>1 DEF Held
  <2>2. CASE pc = "update" /\ i > Len(boxes)
    BY <1>1, <2>2 DEF FrameInv, Filled, Held
  <2> QED BY <2>1, <2>2
<1>3. \A s \in Slots : objects[s].is_valid <=> (s < Len(boxes))
  BY <1>2 DEF FrameInv, Filled
<1>4. ValidSlots(objects) = {s \in Slots : s < Len(boxes)}
  BY <1>3 DEF ValidSlots
<1>5. CASE boxes = <<>>
  <2>1. \A s \in Slots : ~(s < Len(boxes))
    BY <1>1, <1>5 DEF Slots
  <2> QED BY <1>2, <1>4, <1>5, <2>1
<1>6. CASE boxes # <<>>
  <2>1. Len(boxes) > 0
    BY <1>1, <1>6
  <2>2. 0 \in Slots /\ 0 < Len(boxes)
    BY <1>1, <2>1 DEF Slots
  <2> QED BY <1>2, <1>4, <1>6, <2>2
<1> QED BY <1>5, <1>6

\* A frame without a box returns nothing.
LEMMA NobodyStep ==
  ASSUME FrameInv, ReportNobody
  PROVE  FrameInv'
<1>1. /\ pc = "update" /\ pc' = "idle" /\ i' = 0 /\ i > Len(boxes)
      /\ ValidSlots(objects) = {}
      /\ UNCHANGED <<objects, ids, n_object, new_object_id, boxes, ret, most>>
  BY DEF ReportNobody, table
<1>2. boxes = <<>> /\ Held = Len(boxes) /\ ret = Nothing
  BY <1>1, AllHeld DEF FrameInv, Writing
<1>3. TypeOK'
  BY <1>1, MaxObjectsAssumption DEF FrameInv, TypeOK
<1>4. Remembered'
  BY <1>1, <1>2 DEF FrameInv, TypeOK, Remembered, Slots
<1> QED
  BY <1>1, <1>2, <1>3, <1>4 DEF FrameInv, Filled, Writing, IdsPerFrame,
     ReportsFrame, ClassesNeverForgotten, ValidSlots, Nothing

\* The report starts from a full table and an empty list.
LEMMA StartReportStep ==
  ASSUME FrameInv, StartReport
  PROVE  FrameInv'
<1>1. /\ pc = "update" /\ pc' = "report" /\ i' = 0 /\ i > Len(boxes)
      /\ ValidSlots(objects) # {}
      /\ UNCHANGED <<objects, ids, n_object, new_object_id, boxes, ret, most>>
  BY DEF StartReport, table
<1>2. boxes # <<>> /\ Held = Len(boxes) /\ ret = Nothing
  BY <1>1, AllHeld DEF FrameInv, Writing
<1>3. Held' = Held
  BY <1>1, <1>2 DEF Held
<1>4. TypeOK'
  BY <1>1, MaxObjectsAssumption DEF FrameInv, TypeOK
<1>5. Filled'
  BY <1>1, <1>3 DEF FrameInv, Filled
<1>6. Remembered'
  <2> SUFFICES ASSUME NEW s \in Slots, s < most
               PROVE  objects[s].uiclass = HUMAN
    BY <1>1 DEF FrameInv, Remembered
  <2> QED BY <1>1, <1>2 DEF FrameInv, TypeOK, Remembered, Slots
<1>7. Writing'
  BY <1>1, <1>2, MaxObjectsAssumption DEF FrameInv, TypeOK, Writing, Nothing
<1> QED
  BY <1>1, <1>4, <1>5, <1>6, <1>7 DEF FrameInv, IdsPerFrame, ReportsFrame,
     ClassesNeverForgotten, ValidSlots

\* One iteration of the loop appends the box of a valid slot.
LEMMA ReportSlotStep ==
  ASSUME FrameInv, ReportSlot
  PROVE  FrameInv'
<1>1. /\ pc = "report" /\ pc' = "report" /\ i' = i + 1 /\ i < MaxObjects
      /\ ret' = IF objects[i].is_valid
                THEN [ret EXCEPT !.boxs = Append(ret.boxs, objects[i].at),
                                 !.number = ret.number + 1]
                ELSE ret
      /\ UNCHANGED <<objects, ids, n_object, new_object_id, boxes, most>>
  BY DEF ReportSlot, table
<1>2. /\ i \in Slots /\ i \in Nat /\ MaxObjects \in Nat /\ BoxLimit <= MaxObjects
      /\ Len(boxes) \in 0 .. MaxObjects /\ ret \in Ret
      /\ objects \in [Slots -> Obj] /\ boxes # <<>>
  <2>1. MaxObjects \in Nat /\ BoxLimit \in Nat /\ BoxLimit <= MaxObjects
    BY BoxLimitAssumption, MaxObjectsAssumption
  <2>2. i \in Nat /\ boxes \in Seq(Positions) /\ Len(boxes) <= BoxLimit
    BY <2>1 DEF FrameInv, TypeOK
  <2>3. ret \in Ret /\ objects \in [Slots -> Obj] /\ boxes # <<>>
    BY <1>1 DEF FrameInv, TypeOK, Writing
  <2>4. Len(boxes) \in Nat
    BY <2>2
  <2> QED BY <1>1, <2>1, <2>2, <2>3, <2>4 DEF Slots
<1>3. Held = Len(boxes) /\ Held' = Len(boxes)
  BY <1>1 DEF Held
<1>4. /\ objects[i].is_valid <=> (i < Len(boxes))
      /\ i < Len(boxes) => objects[i].at = boxes[i + 1]
  BY <1>1, <1>2, <1>3 DEF FrameInv, Filled
<1>5. /\ ~ret.given /\ ret.number = IF i < Len(boxes) THEN i ELSE Len(boxes)
      /\ Len(ret.boxs) = ret.number
      /\ \A k \in 1 .. ret.number : ret.boxs[k] = boxes[k]
  BY <1>1 DEF FrameInv, Writing
<1>6. /\ ret' \in Ret /\ ~ret'.given
      /\ ret'.number = IF i + 1 < Len(boxes) THEN i + 1 ELSE Len(boxes)
      /\ Len(ret'.boxs) = ret'.number
      /\ \A k \in 1 .. ret'.number : ret'.boxs[k] = boxes[k]
  <2>1. CASE i < Len(boxes)
    <3>1. ret' = [ret EXCEPT !.boxs = Append(ret.boxs, boxes[i + 1]),
                             !.number = i + 1]
      BY <1>1, <1>4, <1>5, <2>1
    <3>2. boxes[i + 1] \in Positions /\ i + 1 \in 0 .. MaxObjects
      BY <1>2, <2>1 DEF FrameInv, TypeOK
    <3>3. ret.boxs \in Seq(Positions) /\ Len(ret.boxs) = i
      BY <1>2, <1>5, <2>1 DEF Ret
    <3> DEFINE new == Append(ret.boxs, boxes[i + 1])
    <3>4. /\ new \in Seq(Positions) /\ Len(new) = i + 1
          /\ new[i + 1] = boxes[i + 1]
          /\ \A k \in 1 .. i : new[k] = ret.boxs[k]
      BY <3>2, <3>3
    <3>5. ret' \in Ret /\ ret'.boxs = new /\ ret'.number = i + 1
          /\ ret'.given = ret.given
      BY <1>2, <3>1, <3>2, <3>4 DEF Ret
    <3>6. \A k \in 1 .. i + 1 : new[k] = boxes[k]
      BY <1>2, <1>5, <2>1, <3>4
    <3> HIDE DEF new
    <3> QED BY <1>2, <1>5, <2>1, <3>4, <3>5, <3>6
  <2>2. CASE ~(i < Len(boxes))
    BY <1>1, <1>2, <1>4, <1>5, <2>2
  <2> QED BY <2>1, <2>2
<1>7. TypeOK'
  BY <1>1, <1>2, <1>6 DEF FrameInv, TypeOK
<1>8. Filled'
  BY <1>1, <1>3 DEF FrameInv, Filled
<1>9. Remembered'
  BY <1>1, <1>3 DEF FrameInv, Remembered
<1>10. Writing'
  BY <1>1, <1>2, <1>6 DEF Writing
<1> QED
  BY <1>1, <1>7, <1>8, <1>9, <1>10 DEF FrameInv, IdsPerFrame, ReportsFrame,
     ClassesNeverForgotten, ValidSlots

\* The call returns the boxes of its frame, and the classes of all slots.
LEMMA ReportClassesStep ==
  ASSUME FrameInv, ReportClasses
  PROVE  FrameInv'
<1>1. /\ pc = "report" /\ pc' = "idle" /\ i' = 0 /\ i = MaxObjects
      /\ ret' = [ret EXCEPT !.given = TRUE,
                           !.class = [s \in Slots |-> objects[s].uiclass]]
      /\ UNCHANGED <<objects, ids, n_object, new_object_id, boxes, most>>
  BY DEF ReportClasses, table
<1>2. /\ MaxObjects \in Nat \ {0} /\ Len(boxes) \in 0 .. MaxObjects
      /\ ret \in Ret /\ objects \in [Slots -> Obj] /\ boxes \in Seq(Positions)
      /\ Slots \subseteq Nat /\ most \in Nat
  BY BoxLimitAssumption, MaxObjectsAssumption DEF FrameInv, TypeOK, Slots
<1>3. [s \in Slots |-> objects[s].uiclass] \in [Slots -> Classes]
  BY <1>2 DEF Obj
<1>4. /\ ret' \in Ret /\ ret'.given /\ ret'.boxs = ret.boxs
      /\ ret'.number = ret.number
      /\ \A s \in Slots : ret'.class[s] = objects[s].uiclass
  BY <1>1, <1>2, <1>3 DEF Ret
<1>5. /\ boxes # <<>> /\ ret.number = Len(boxes) /\ Len(ret.boxs) = Len(boxes)
      /\ \A k \in 1 .. Len(boxes) : ret.boxs[k] = boxes[k]
  BY <1>1, <1>2 DEF FrameInv, Writing
<1>6. ret.boxs = boxes
  <2>1. ret.boxs \in Seq(Positions) /\ boxes \in Seq(Positions)
    BY <1>2 DEF Ret
  <2> QED BY <1>5, <2>1, SeqEqual
<1>7. \A s \in Slots : objects[s].uiclass = HUMAN <=> s < most
  BY <1>1, <1>2 DEF FrameInv, Remembered
<1>8. Len(boxes) <= most
  BY DEF FrameInv, Remembered
<1>9. ReportsFrame'
  <2>1. \A s \in 0 .. Len(boxes) - 1 : s \in Slots /\ s < most
    BY <1>2, <1>8 DEF Slots
  <2>2. /\ ret'.given = (boxes' # <<>>) /\ ret'.boxs = boxes' /\ ret'.number = Len(boxes')
    BY <1>1, <1>4, <1>5, <1>6
  <2>3. \A s \in 0 .. ret'.number - 1 : ret'.class[s] = HUMAN
    BY <1>4, <1>5, <1>7, <2>1
  <2> QED BY <2>2, <2>3 DEF ReportsFrame
<1>10. ClassesNeverForgotten'
  <2> SUFFICES ASSUME NEW s \in Slots
               PROVE  (ret'.class[s] = HUMAN) = (s < most)
    BY <1>1 DEF ClassesNeverForgotten
  <2> QED BY <1>4, <1>7
<1>11. TypeOK'
  BY <1>1, <1>2, <1>4 DEF FrameInv, TypeOK
<1>12. Remembered'
  BY <1>1, <1>7, <1>8 DEF Remembered
<1> QED
  BY <1>1, <1>9, <1>10, <1>11, <1>12 DEF FrameInv, Filled, Writing, IdsPerFrame,
     ValidSlots

\* Nothing changes in a stuttering step.
LEMMA FrameStutter ==
  ASSUME FrameInv, UNCHANGED vars
  PROVE  FrameInv'
<1>1. UNCHANGED <<objects, ids, n_object, new_object_id, pc, boxes, i, ret, most>>
  BY DEF vars
<1>2. TypeOK'
  BY <1>1 DEF FrameInv, TypeOK
<1>3. Held' = Held
  BY <1>1 DEF Held
<1>4. Filled' /\ Remembered'
  BY <1>1, <1>3 DEF FrameInv, Filled, Remembered
<1> QED
  BY <1>1, <1>2, <1>4 DEF FrameInv, Writing, IdsPerFrame, ReportsFrame,
     ClassesNeverForgotten, ValidSlots

-----------------------------------------------------------------------------
\* The invariant behind the theorems below: during a call the first slots hold
\* the boxes handled so far, the list is a prefix of the boxes, and every slot
\* remembers whether any frame ever used it.
THEOREM FrameCorrect == Spec => []FrameInv
<1>1. Init => FrameInv
  BY FrameInit
<1>2. FrameInv /\ [Next]_vars => FrameInv'
  <2> SUFFICES ASSUME FrameInv, [Next]_vars PROVE FrameInv'
    OBVIOUS
  <2>1. CASE NetInit
    BY <2>1, NetInitStep
  <2>2. CASE \E bs \in Frames : Forward(bs)
    BY <2>2, ForwardStep
  <2>3. CASE ForwardNoOutput
    BY <2>3, NoOutputStep
  <2>4. CASE ForwardHalts
    BY <2>4, HaltStep
  <2>5. CASE Measure
    BY <2>5, MeasureStep
  <2>6. CASE ReportNobody
    BY <2>6, NobodyStep
  <2>7. CASE StartReport
    BY <2>7, StartReportStep
  <2>8. CASE ReportSlot
    BY <2>8, ReportSlotStep
  <2>9. CASE ReportClasses
    BY <2>9, ReportClassesStep
  <2>10. CASE UNCHANGED vars
    BY <2>10, FrameStutter
  <2> QED
    BY <2>1, <2>2, <2>3, <2>4, <2>5, <2>6, <2>7, <2>8, <2>9, <2>10 DEF Next, Step
<1> QED BY <1>1, <1>2, PTL DEF Spec

\* Every variable keeps its type and its range, whatever the frames hold.
THEOREM FrameTyped == Spec => []TypeOK
<1>1. FrameInv => TypeOK
  BY DEF FrameInv
<1> QED BY <1>1, FrameCorrect, PTL

\* Every call of net_nn_person_forward returns the boxes of its own frame, all of
\* them, in the order of get_boxes, or nothing when there are none.
THEOREM ReportCorrect == Spec => []ReportsFrame
<1>1. FrameInv => ReportsFrame
  BY DEF FrameInv
<1> QED BY <1>1, FrameCorrect, PTL

\* The ids of a frame are 1, 2, ... in the order of the slots.
THEOREM IdsCorrect == Spec => []IdsPerFrame
<1>1. FrameInv => IdsPerFrame
  BY DEF FrameInv
<1> QED BY <1>1, FrameCorrect, PTL

\* For any number of slots and any succession of frames, a call reports its frame.
THEOREM FrameReportedCorrect == Spec => []FrameReported
BY FrameTyped, ReportCorrect, IdsCorrect, PTL DEF FrameReported


\* The list "class" says person for every slot that any frame so far has used.
THEOREM ClassesCorrect == Spec => []ClassesNeverForgotten
<1>1. FrameInv => ClassesNeverForgotten
  BY DEF FrameInv
<1> QED BY <1>1, FrameCorrect, PTL

\* No step of a call changes a valid record, so the filter never divides by the
\* time between two updates.
THEOREM RefreshNever == Spec => NeverRefreshed
<1> DEFINE Keeps == \A s \in Slots :
             (pc = "update" /\ objects[s].is_valid) => objects'[s] = objects[s]
<1>1. FrameInv /\ [Next]_vars => [Keeps]_vars
  <2> SUFFICES ASSUME FrameInv, Next, pc = "update",
                      NEW s \in Slots, objects[s].is_valid
               PROVE  objects'[s] = objects[s]
    OBVIOUS
  <2>1. CASE Measure
    <3>1. i - 1 \in Slots /\ ~objects[i - 1].is_valid
      <4>1. i \in 1 .. Len(boxes) /\ i - 1 \in Slots
        BY <2>1, MeasureEffect
      <4>2. ~(i - 1 < i - 1)
        BY <4>1
      <4> QED BY <4>1, <4>2 DEF FrameInv, Filled, Held
    <3> QED BY <2>1, <3>1, MeasureTable
  <2>2. CASE ReportNobody \/ StartReport
    BY <2>2 DEF ReportNobody, StartReport, table
  <2> QED
    BY <2>1, <2>2 DEF Next, Step, NetInit, Forward, ForwardNoOutput, ForwardHalts,
       ReportSlot, ReportClasses
<1> QED BY <1>1, FrameCorrect, PTL DEF Spec, NeverRefreshed
=============================================================================
