---------------------------- MODULE TrackerLease ----------------------------
(***************************************************************************)
(* The tracker implements a LeasePool.  A slot's lease is its object's     *)
(* life; the pool's single Tick is the step that enters the ageing loop,   *)
(* so a slot that loop has not reached yet already counts one call less.   *)
(***************************************************************************)
EXTENDS Tracker

Lease ==
  [s \in Slots |-> IF ~objects[s].is_valid THEN 0
                   ELSE IF pc = "post" /\ s >= cursor THEN objects[s].life - 1
                   ELSE objects[s].life]

Fresh ==
  IF pc = "post" THEN {}
  ELSE {s \in ValidSlots(objects) : objects[s].updated_this_run}

Pool == INSTANCE LeasePool
          WITH Slots <- Slots, L <- LifeInit, lease <- Lease, fresh <- Fresh

\* Seen from its table, update_tracker_8 only admits an object to a free slot,
\* renews each object at most once per call, and ages all of them at once at
\* the end of the call: no call expires an object twice or twice-counts a
\* measurement, and an object seen in a call outlives the LifeInit - 1 next ones.
ImplementsLeasePool == Pool!PoolSpec
=============================================================================
