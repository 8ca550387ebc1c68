----------------------------- MODULE PersonFrame -----------------------------
(***************************************************************************)
(* The "person" detector as the script sees it: one call of                *)
(* net_nn_person_forward per camera frame.  The call takes the boxes of    *)
(* this frame from get_boxes (module PersonBoxes), starts the tracker      *)
(* afresh, runs update_tracker, whose state handler and ageing are         *)
(* commented out, and writes the valid slots to the returned Lua table.    *)
(* The table of objects is static: init_tracker clears only the validity   *)
(* of its records, everything else in them survives from earlier frames.   *)
(*                                                                         *)
(* External: the network can fail to run, which stops the program, or to   *)
(* give its output.  The boxes of a frame are any BoxLimit positions.      *)
(***************************************************************************)
EXTENDS TrackerTable, Sequences

CONSTANTS BoxLimit,  \* n_box_limit, 10 like n_obj
          IdSize     \* 256: the values of obj_t.id

ASSUME BoxLimitAssumption == BoxLimit \in 0 .. MaxObjects
ASSUME IdSizeAssumption   == IdSize \in Nat /\ MaxObjects < IdSize

VARIABLES
  objects,        \* the static table
  ids,            \* the id field of every slot
  n_object,       \* tracker.n_object
  new_object_id,  \* tracker.new_object_id
  pc,             \* "idle", the loop the call is in, or "halted"
  boxes,          \* what get_boxes returned in this or the last call
  i,              \* the loop counter: measurements from 1, slots from 0
  ret,            \* what the call has returned, or is writing
  most            \* history: the most boxes of any frame so far

table == <<objects, ids, n_object, new_object_id>>
vars  == <<objects, ids, n_object, new_object_id, pc, boxes, i, ret, most>>

\* The table returned: the list "boxs", "number" and the list "class"; nothing
\* is returned unless it is given.
Ret     == [given : BOOLEAN, boxs : Seq(Positions), number : 0 .. MaxObjects,
            class : [Slots -> Classes]]
Nothing == [given |-> FALSE, boxs |-> <<>>, number |-> 0,
            class |-> [s \in Slots |-> OBJECT]]

TypeOK ==
  /\ objects \in [Slots -> Obj]
  /\ ids \in [Slots -> 0 .. IdSize - 1]
  /\ n_object \in 0 .. BoxLimit
  /\ new_object_id \in 1 .. BoxLimit + 1
  /\ pc \in {"idle", "update", "report", "halted"}
  /\ boxes \in Seq(Positions) /\ Len(boxes) <= BoxLimit
  /\ i \in 0 .. MaxObjects + 1
  /\ ret \in Ret
  /\ most \in 0 .. BoxLimit

\* net_nn_person_init has run on zeroed memory.
Init ==
  /\ objects = [s \in Slots |-> ZeroObj]
  /\ ids = [s \in Slots |-> 0]
  /\ n_object = 0 /\ new_object_id = 1
  /\ pc = "idle" /\ boxes = <<>> /\ i = 0
  /\ ret = Nothing
  /\ most = 0

\* memset of the tracker and init_tracker.
StartTracker ==
  /\ objects' = [s \in Slots |-> Cleared(objects[s])]
  /\ n_object' = 0
  /\ new_object_id' = 1
  /\ UNCHANGED ids

\* net_nn_person_init, when a script loads the network again.
NetInit ==
  /\ pc = "idle"
  /\ StartTracker
  /\ UNCHANGED <<pc, boxes, i, ret, most>>

-----------------------------------------------------------------------------
\* net_nn_person_forward

Frame(bs) ==
  /\ boxes' = bs
  /\ most' = IF Len(bs) > most THEN Len(bs) ELSE most
  /\ ret' = Nothing
  /\ pc' = "update" /\ i' = 1

\* Seeded faults: the table is not started afresh; its records are zeroed.
ForwardKeepsTable(bs) == pc = "idle" /\ Frame(bs) /\ UNCHANGED table
ForwardZeroesTable(bs) ==
  /\ pc = "idle" /\ Frame(bs)
  /\ objects' = [s \in Slots |-> ZeroObj] /\ n_object' = 0 /\ new_object_id' = 1
  /\ UNCHANGED ids

\* The network has run and get_boxes has returned bs.
Forward(bs) ==
  /\ pc = "idle"
  /\ Frame(bs)
  /\ StartTracker

\* KPU_GetOutput fails: forward returns nothing and touches nothing.
ForwardNoOutput ==
  /\ pc = "idle"
  /\ boxes' = <<>> /\ ret' = Nothing
  /\ UNCHANGED <<table, pc, i, most>>

\* "assert(KPU_Run(...) == 0)" fails.
ForwardHalts ==
  /\ pc = "idle"
  /\ pc' = "halted"
  /\ UNCHANGED <<table, boxes, i, ret, most>>

\* _add_object: the object goes to slot s.
AddObject(s, p) ==
  /\ IsFirstFree(s, objects)
  /\ objects' = [objects EXCEPT ![s] = NewObj(p, HUMAN)]
  /\ ids' = [ids EXCEPT ![s] = new_object_id % IdSize]
  /\ new_object_id' = new_object_id + 1
  /\ n_object' = n_object + 1

\* _add_or_update_closest, for a person at p.
HandleMeasurement(p, drift) ==
  LET centre == Predicted(objects, drift)
      near   == Eligible(objects, HUMAN, centre, p)
  IN  \/ \E s \in Slots, c \in Positions, elapsed \in Elapsed :
           /\ IsClosest(s, near, centre, p)
           /\ objects' = [objects EXCEPT ![s] = Refreshed(objects[s], c, elapsed)]
           /\ UNCHANGED <<ids, n_object, new_object_id>>
      \/ near = {} /\ \E s \in Slots : AddObject(s, p)
      \/ near = {} /\ FreeSlots(objects) = {} /\ UNCHANGED table

\* One iteration of _handle_update.
Measure ==
  /\ pc = "update"
  /\ i <= Len(boxes)
  /\ \E drift \in [Slots -> Drifts] : HandleMeasurement(boxes[i], drift)
  /\ i' = i + 1
  /\ UNCHANGED <<pc, boxes, ret, most>>

\* No slot is valid: nothing is returned, although the table was created.
ReportNobody ==
  /\ pc = "update"
  /\ i > Len(boxes)
  /\ ValidSlots(objects) = {}
  /\ pc' = "idle" /\ i' = 0
  /\ UNCHANGED <<table, boxes, ret, most>>

StartReport ==
  /\ pc = "update"
  /\ i > Len(boxes)
  /\ ValidSlots(objects) # {}
  /\ pc' = "report" /\ i' = 0
  /\ UNCHANGED <<table, boxes, ret, most>>

\* One iteration of the loop that writes the list of boxes.
ReportSlot ==
  /\ pc = "report"
  /\ i < MaxObjects
  /\ ret' = IF objects[i].is_valid
            THEN [ret EXCEPT !.boxs = Append(ret.boxs, objects[i].at),
                             !.number = ret.number + 1]
            ELSE ret
  /\ i' = i + 1
  /\ UNCHANGED <<table, pc, boxes, most>>

\* The list of classes has an entry for every slot, valid or not.
ReportClasses ==
  /\ pc = "report"
  /\ i = MaxObjects
  /\ ret' = [ret EXCEPT !.given = TRUE,
                        !.class = [s \in Slots |-> objects[s].uiclass]]
  /\ pc' = "idle" /\ i' = 0
  /\ UNCHANGED <<table, boxes, most>>

-----------------------------------------------------------------------------
Frames == UNION {[1 .. n -> Positions] : n \in 0 .. BoxLimit}

\* The steps of a call that has been entered.
Step == Measure \/ ReportNobody \/ StartReport \/ ReportSlot \/ ReportClasses

Next == \/ NetInit
        \/ \E bs \in Frames : Forward(bs)
        \/ ForwardNoOutput \/ ForwardHalts
        \/ Step

Spec == Init /\ [][Next]_vars

-----------------------------------------------------------------------------
\* What a call returns is the boxes of its own frame, all of them and in the
\* order of get_boxes: none is merged with another by the tracker, dropped for
\* want of a slot, or left over from an earlier frame.  Without a box, or
\* without output, nothing is returned.
ReportsFrame ==
  pc = "idle" =>
    /\ ret.given = (boxes # <<>>)
    /\ ret.given => /\ ret.boxs = boxes
                    /\ ret.number = Len(boxes)
                    /\ \A s \in 0 .. ret.number - 1 : ret.class[s] = HUMAN

\* The filter of _update_object, with its division by the time between two
\* updates, never runs in this detector: no valid record changes in a call.
NeverRefreshed ==
  [][\A s \in Slots :
       (pc = "update" /\ objects[s].is_valid) => objects'[s] = objects[s]]_vars

\* The ids of a frame count from 1: new_object_id, which nothing wraps, never
\* gets so large that obj_t.id would cut it.
IdsPerFrame ==
  \A s \in ValidSlots(objects) : ids[s] = s + 1

\* A call reports its own frame, under ids that start afresh.
FrameReported == TypeOK /\ ReportsFrame /\ IdsPerFrame


\* The "class" of a slot says person from the first frame that used the slot on,
\* in every later frame, however few boxes that frame has.
ClassesNeverForgotten ==
  (pc = "idle" /\ ret.given) =>
    \A s \in Slots : (ret.class[s] = HUMAN) = (s < most)
=============================================================================
