----------------------------- MODULE LeasePool -----------------------------
(***************************************************************************)
(* What the tracker promises about its table, without classes, distances   *)
(* or owners: every slot holds a lease of at most L calls.  A free slot    *)
(* can be given a full lease, a leased slot can have it renewed once per   *)
(* call, at the end of a call every lease loses one call at the same time, *)
(* and all leases can be dropped between calls.                            *)
(***************************************************************************)
EXTENDS Integers

CONSTANTS Slots,  \* the slots of the pool
          L       \* the length of a full lease, in calls; at least 1

VARIABLES lease,  \* calls left to each slot, 0 when it is free
          fresh   \* the slots leased or renewed in this call

PoolInit == lease = [s \in Slots |-> 0] /\ fresh = {}

Admit(s) ==
  /\ lease[s] = 0
  /\ s \notin fresh
  /\ lease' = [lease EXCEPT ![s] = L]
  /\ fresh' = fresh \cup {s}

Renew(s) ==
  /\ lease[s] > 0
  /\ s \notin fresh
  /\ lease' = [lease EXCEPT ![s] = L]
  /\ fresh' = fresh \cup {s}

Tick ==
  /\ lease' = [s \in Slots |-> IF lease[s] = 0 THEN 0 ELSE lease[s] - 1]
  /\ fresh' = {}

Reset ==
  /\ fresh = {}
  /\ lease' = [s \in Slots |-> 0]
  /\ fresh' = {}

PoolNext == (\E s \in Slots : Admit(s) \/ Renew(s)) \/ Tick \/ Reset

PoolSpec == PoolInit /\ [][PoolNext]_<<lease, fresh>>
=============================================================================
