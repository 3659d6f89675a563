------------------------------- MODULE Relay --------------------------------
(***************************************************************************)
(* What a store promises about every file it has accepted, whatever its    *)
(* catalog, indexes, blobs and goroutines do: the file waits, in the queue *)
(* or aside, until it is handed to one holder under a lease of its own; it *)
(* comes back when the lease ends, unless the uploader has withdrawn it    *)
(* meanwhile; it ends delivered or dropped, once, and stays so.            *)
(*                                                                         *)
(* One step of the store may move several files (a batch claim, a sweep,   *)
(* an upload that supersedes another): each makes a move of its own.       *)
(***************************************************************************)
CONSTANTS Files, Leases, NoLease

VARIABLES status,     \* of every file
          holder,     \* the lease a file is out under
          withdrawn,  \* files the uploader has taken back while they were out
          used        \* leases ever given

vars == <<status, holder, withdrawn, used>>

Status == {"absent", "queued", "aside", "out", "delivered", "dropped", "forgotten"}

Waiting == {"queued", "aside"}

Init ==
    /\ status = [f \in Files |-> "absent"]
    /\ holder = [f \in Files |-> NoLease]
    /\ withdrawn = {}
    /\ used = {}

Becomes(f, s, l) == status'[f] = s /\ holder'[f] = l

(* Nothing happens to f, except that it may be withdrawn while it is out. *)
Stays(f) ==
    /\ Becomes(f, status[f], holder[f])
    /\ f \in withdrawn => f \in withdrawn'
    /\ f \in withdrawn' => f \in withdrawn \/ status[f] = "out"

(* A move of f that leaves it anywhere but out: it is not withdrawn any more. *)
Accept(f) == status[f] = "absent" /\ \E s \in Waiting : Becomes(f, s, NoLease)
Shift(f) == status[f] \in Waiting /\ \E s \in Waiting : Becomes(f, s, NoLease)
GiveBack(f) ==
    status[f] = "out" /\ f \notin withdrawn /\ \E s \in Waiting : Becomes(f, s, NoLease)
Deliver(f) == status[f] = "out" /\ Becomes(f, "delivered", NoLease)
Drop(f) ==
    /\ status[f] \in Waiting \/ f \in withdrawn
    /\ Becomes(f, "dropped", NoLease)
Forget(f) == status[f] \in {"delivered", "dropped"} /\ Becomes(f, "forgotten", NoLease)

(* Only what stands in the queue is handed out, under a lease never given
   before. *)
HandOut(f) ==
    /\ status[f] = "queued"
    /\ \E l \in Leases \ used :
          /\ Becomes(f, "out", l)
          /\ l \in used'
          /\ \A g \in Files \ {f} : holder'[g] # l

Move(f) ==
    \/ Stays(f)
    \/ /\ f \notin withdrawn'
       /\ \/ Accept(f) \/ Shift(f) \/ GiveBack(f) \/ Deliver(f) \/ Drop(f) \/ Forget(f)
          \/ HandOut(f)

Next ==
    /\ \A f \in Files : Move(f)
    /\ used \subseteq used'

Spec == Init /\ [][Next]_vars
=============================================================================
