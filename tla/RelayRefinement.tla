-------------------------- MODULE RelayRefinement ---------------------------
(***************************************************************************)
(* The data plane of Delivery implements Relay.  What the abstract file is *)
(* going through is read off the catalog: its object while there is one,   *)
(* its tombstone as long as that is kept.                                  *)
(***************************************************************************)
EXTENDS Delivery

statusOf(id) ==
    CASE id \notin drawn -> "absent"
      [] id \in InState(db, "READY") -> "queued"
      [] id \in InState(db, "HELD") \cup InState(db, "PARKED") -> "aside"
      [] id \in InState(db, "LEASED") -> "out"
      [] id \in DOMAIN db.tombstones \ DOMAIN db.objects ->
           IF db.tombstones[id].Reason = "committed" THEN "delivered" ELSE "dropped"
      [] OTHER -> "forgotten"

holderOf(id) == IF id \in DOMAIN db.objects THEN db.objects[id].LeaseID ELSE NoLease

R == INSTANCE Relay WITH
       Files <- Ids,
       status <- [id \in Ids |-> statusOf(id)],
       holder <- [id \in Ids |-> holderOf(id)],
       withdrawn <- {id \in DOMAIN db.objects : db.objects[id].Retracted},
       used <- drawn \cap Leases

(* The store keeps the promise of Relay: every transaction, of whichever
   goroutine, moves every file along its life as Relay allows.  A withdrawn file
   keeps its one holder until it ends; a file never leaves the catalog but into
   a tombstone whose reason fits (deleteObjectTx); an ended file never comes
   back. *)
ImplementsRelay == R!Spec
=============================================================================
