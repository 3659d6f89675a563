------------------------------ MODULE Service -------------------------------
(***************************************************************************)
(* The store in front of its clients: uploads are admitted, counted and    *)
(* published, claims wait for work, and the process drains and stops.  One *)
(* tenant.  What an object is, and how it is delivered, is in Delivery;    *)
(* here it is absent, READY from a time on, LEASED or gone.                *)
(*                                                                         *)
(* update commits a transaction, then applies its delta to the counters,   *)
(* then closes the channel of the long polls; other goroutines run in      *)
(* between.  The tenant's channel is modelled by the set of the polls that *)
(* hold the open one: signal empties it.                                   *)
(***************************************************************************)
EXTENDS Integers, FiniteSets, FiniteSetsExt

CONSTANTS Objs, Sessions, Pollers,
          Client,         \* the goroutine serving Commit and Release
          Delays,         \* PublishDelay, RetryAfter
          Wait,           \* wait_seconds
          MaxStored,      \* MaxStoredBytes, for objects of size 1
          MaxConcurrent,  \* upload slots of the tenant
          MaxTime

ASSUME ServiceAssumption ==
    /\ Sessions \cap Pollers = {} /\ Client \notin Sessions \cup Pollers
    /\ IsFiniteSet(Objs) /\ IsFiniteSet(Sessions) /\ IsFiniteSet(Pollers)
    /\ Delays \subseteq Nat
    /\ {Wait, MaxStored, MaxConcurrent, MaxTime} \subseteq Nat

Callers == Sessions \cup Pollers \cup {Client}

VARIABLES objects,     \* the catalog
          count,       \* counters
          call,        \* what update has still to do, for each caller
          subscribed,  \* the polls whose channel is open
          poll, session,
          sem,         \* the sessions holding a slot
          inflight,
          draining,
          phase,       \* of RunWithOptions
          now

vars == <<objects, count, call, subscribed, poll, session, sem, inflight, draining,
          phase, now>>

NoDelta == [Objects |-> 0, Ready |-> 0, Leased |-> 0]

NoCall == [todo |-> "none", delta |-> NoDelta]

NoPoll == [pc |-> "idle", deadline |-> 0, timer |-> 0, looked |-> 0, seen |-> 0, cands |-> {}]

Init ==
    /\ objects = [o \in Objs |-> [State |-> "absent", Visible |-> 0]]
    /\ count = NoDelta
    /\ call = [c \in Callers |-> NoCall]
    /\ subscribed = {}
    /\ poll = [p \in Pollers |-> NoPoll]
    /\ session = [s \in Sessions |-> "idle"]
    /\ sem = {}
    /\ inflight = 0
    /\ draining = FALSE
    /\ phase = "serving"
    /\ now = 0

-----------------------------------------------------------------------------
(* update, the counters and the notifier. *)

add(c, d) == [k \in DOMAIN c |-> c[k] + d[k]]

one(b) == IF b THEN 1 ELSE 0

(* Mutant: the state an object leaves is not counted down. *)
move_to(from, to) ==
    [Objects |-> one(from = "absent") - one(to = "gone"),
     Ready   |-> one(to = "READY"),
     Leased  |-> one(to = "LEASED")]

(* delta.move *)
move(from, to) ==
    [Objects |-> one(from = "absent") - one(to = "gone"),
     Ready   |-> one(to = "READY") - one(from = "READY"),
     Leased  |-> one(to = "LEASED") - one(from = "LEASED")]

(* The transaction of update: o changes its state. *)
update(c, o, state, visible) ==
    /\ phase # "closed"
    /\ call[c].todo = "none"
    /\ objects' = [objects EXCEPT ![o] = [State |-> state, Visible |-> visible]]
    /\ call' = [call EXCEPT ![c] = [todo |-> IF state = "READY" THEN "applyAndSignal" ELSE "apply",
                                    delta |-> move(objects[o].State, state)]]

(* counters.apply *)
Apply(c) ==
    /\ call[c].todo \in {"apply", "applyAndSignal"}
    /\ count' = add(count, call[c].delta)
    /\ call' = [call EXCEPT ![c] = [NoCall EXCEPT !.todo =
                                      IF call[c].todo = "apply" THEN "none" ELSE "signal"]]
    /\ UNCHANGED <<objects, subscribed, poll, session, sem, inflight, draining, phase, now>>

(* notifier.signal *)
Signal(c) ==
    /\ call[c].todo = "signal"
    /\ subscribed' = {}
    /\ call' = [call EXCEPT ![c] = NoCall]
    /\ UNCHANGED <<objects, count, poll, session, sem, inflight, draining, phase, now>>

-----------------------------------------------------------------------------
(* The claim handler of the download API. *)

Others == <<session, sem, inflight, draining, phase, now>>

PollAt(p, pc) == poll[p].pc = pc /\ call[p].todo = "none"

claim(p) ==
    /\ phase \notin {"aborting", "closed"}
    /\ PollAt(p, "idle")
    /\ now + Wait <= MaxTime
    /\ poll' = [poll EXCEPT ![p] = [NoPoll EXCEPT !.pc = "subscribe", !.deadline = now + Wait]]
    /\ UNCHANGED <<objects, count, call, subscribed, Others>>

(* notifier.wait: the tenant's open channel, or a new one. *)
WaitForWork(p) ==
    /\ PollAt(p, "subscribe")
    /\ subscribed' = subscribed \cup {p}
    /\ poll' = [poll EXCEPT ![p].pc = "find"]
    /\ UNCHANGED <<objects, count, call, Others>>

Deliverable(o) == objects[o].State = "READY" /\ objects[o].Visible <= now

(* Claim looks for candidates, then takes one that still is READY. *)
findCandidates(p) ==
    /\ PollAt(p, "find")
    /\ LET cands == {o \in Objs : Deliverable(o)}
       IN  poll' = [poll EXCEPT ![p].pc = IF cands = {} THEN "empty" ELSE "take",
                                ![p].cands = cands, ![p].looked = now]
    /\ UNCHANGED <<objects, count, call, subscribed, Others>>

Take(p) ==
    /\ PollAt(p, "take")
    /\ \/ \E o \in poll[p].cands :
             /\ Deliverable(o)
             /\ update(p, o, "LEASED", 0)
             /\ poll' = [poll EXCEPT ![p] = NoPoll]
       \/ /\ phase # "closed"
          /\ \A o \in poll[p].cands : ~Deliverable(o)
          /\ poll' = [poll EXCEPT ![p].pc = "empty", ![p].cands = {}]
          /\ UNCHANGED <<objects, call>>
       \/ /\ phase = "closed"
          /\ poll' = [poll EXCEPT ![p] = NoPoll]
          /\ UNCHANGED <<objects, call>>
    /\ UNCHANGED <<count, subscribed, Others>>

(* Nothing to claim: the answer is 204 past the deadline or while draining. *)
Empty(p) ==
    /\ PollAt(p, "empty")
    /\ poll' = [poll EXCEPT ![p] = IF now >= @.deadline \/ draining
                                     THEN NoPoll ELSE [@ EXCEPT !.pc = "next"]]
    /\ UNCHANGED <<objects, count, call, subscribed, Others>>

delayed == {objects[o].Visible : o \in {x \in Objs : objects[x].State = "READY"
                                                      /\ objects[x].Visible > now}}

(* Mutant: the channel is taken just before the wait. *)
NextVisible_subscribe(p) ==
    /\ PollAt(p, "next")
    /\ subscribed' = subscribed \cup {p}
    /\ poll' = [poll EXCEPT ![p].pc = "sleep", ![p].seen = now,
                            ![p].timer = Min(delayed \cup {poll[p].deadline})]
    /\ UNCHANGED <<objects, count, call, Others>>

(* NextVisible bounds the wait by the first delayed object. *)
NextVisible(p) ==
    /\ PollAt(p, "next")
    /\ poll' = [poll EXCEPT ![p].pc = "sleep", ![p].seen = now,
                            ![p].timer = Min(delayed \cup {poll[p].deadline})]
    /\ UNCHANGED <<objects, count, call, subscribed, Others>>

(* The select: the channel is closed, the timer fires or the client is gone. *)
Wake(p) ==
    /\ PollAt(p, "sleep")
    /\ p \notin subscribed \/ now >= poll[p].timer
    /\ poll' = [poll EXCEPT ![p] = [NoPoll EXCEPT !.pc = "subscribe", !.deadline = poll[p].deadline]]
    /\ UNCHANGED <<objects, count, call, subscribed, Others>>

Gone(p) ==
    /\ PollAt(p, "sleep")
    /\ poll' = [poll EXCEPT ![p] = NoPoll]
    /\ UNCHANGED <<objects, count, call, subscribed, Others>>

(* A downloader commits what it has leased, or gives it back. *)
Commit(o) ==
    /\ objects[o].State = "LEASED"
    /\ update(Client, o, "gone", 0)
    /\ UNCHANGED <<count, subscribed, poll, Others>>

Release(o, delay) ==
    /\ objects[o].State = "LEASED"
    /\ update(Client, o, "READY", now + delay)
    /\ UNCHANGED <<count, subscribed, poll, Others>>

-----------------------------------------------------------------------------
(* An upload, from its admission to the end of Close. *)

SessionAt(s, pc) == session[s] = pc /\ call[s].todo = "none"

(* Mutant: a tenant at its limit may store one more. *)
overQuota_by1(stored) == stored > MaxStored

overQuota(stored) == MaxStored > 0 /\ stored >= MaxStored

(* Store.AdmitUpload.  The watermarks may refuse any upload. *)
AdmitUpload(s) ==
    /\ SessionAt(s, "idle")
    /\ ~draining
    /\ ~overQuota(count.Objects)
    /\ session' = [session EXCEPT ![s] = "admitted"]
    /\ UNCHANGED <<objects, count, call, subscribed, poll, sem, inflight, draining, phase,
                   now>>

(* Controller.AcquireUpload: a slot, or an error after UploadSlotWait. *)
AcquireUpload(s) ==
    /\ SessionAt(s, "admitted")
    /\ \/ /\ Cardinality(sem) < MaxConcurrent
          /\ sem' = sem \cup {s}
          /\ session' = [session EXCEPT ![s] = "starting"]
       \/ /\ Cardinality(sem) >= MaxConcurrent
          /\ session' = [session EXCEPT ![s] = "idle"]
          /\ UNCHANGED sem
    /\ UNCHANGED <<objects, count, call, subscribed, poll, inflight, draining, phase, now>>

(* The end of openUpload; startFresh fails once the catalog is closed. *)
openUpload(s) ==
    /\ SessionAt(s, "starting")
    /\ \/ /\ phase # "closed"
          /\ session' = [session EXCEPT ![s] = "open"]
          /\ inflight' = inflight + 1
          /\ UNCHANGED sem
       \/ /\ session' = [session EXCEPT ![s] = "idle"]
          /\ sem' = sem \ {s}
          /\ UNCHANGED inflight
    /\ UNCHANGED <<objects, count, call, subscribed, poll, draining, phase, now>>

(* Close publishes, or keeps the upload for resumption. *)
Close(s) ==
    /\ SessionAt(s, "open")
    /\ session' = [session EXCEPT ![s] = "closing"]
    /\ \/ \E o \in Objs, delay \in Delays :
             objects[o].State = "absent" /\ update(s, o, "READY", now + delay)
       \/ UNCHANGED <<objects, call>>
    /\ UNCHANGED <<count, subscribed, poll, sem, inflight, draining, phase, now>>

(* The deferred calls of Close: releaseResources, then inflight. *)
Closed(s) ==
    /\ SessionAt(s, "closing")
    /\ session' = [session EXCEPT ![s] = "idle"]
    /\ sem' = sem \ {s}
    /\ inflight' = inflight - 1
    /\ UNCHANGED <<objects, count, call, subscribed, poll, draining, phase, now>>

-----------------------------------------------------------------------------
(* Shutdown: RunWithOptions after the signal. *)

Clients == <<objects, count, call, poll, session, sem, inflight, now>>

(* Drain: the flag, then signalAll. *)
Drain ==
    \/ /\ phase = "serving"
       /\ draining' = TRUE /\ phase' = "signalling"
       /\ UNCHANGED <<subscribed, Clients>>
    \/ /\ phase = "signalling"
       /\ subscribed' = {} /\ phase' = "grace"
       /\ UNCHANGED <<draining, Clients>>

(* WaitIdle and Shutdown return, or the grace period is over. *)
Abort ==
    /\ phase = "grace"
    /\ phase' = "aborting"
    /\ UNCHANGED <<subscribed, draining, Clients>>

(* The second WaitIdle is over, idle or not. *)
Stop ==
    /\ phase = "aborting"
    /\ phase' = "closed"
    /\ UNCHANGED <<subscribed, draining, Clients>>

Tick ==
    /\ now < MaxTime
    /\ now' = now + 1
    /\ UNCHANGED <<objects, count, call, subscribed, poll, session, sem, inflight, draining,
                   phase>>

-----------------------------------------------------------------------------
(* The specification. *)

Finish(c) == Apply(c) \/ Signal(c)

Polling(p) ==
    WaitForWork(p) \/ findCandidates(p) \/ Take(p) \/ Empty(p) \/ NextVisible(p) \/ Wake(p)

Next ==
    \/ \E c \in Callers : Finish(c)
    \/ \E p \in Pollers : claim(p) \/ Polling(p) \/ Gone(p)
    \/ \E o \in Objs : Commit(o) \/ \E delay \in Delays : Release(o, delay)
    \/ \E s \in Sessions : AdmitUpload(s) \/ AcquireUpload(s) \/ openUpload(s) \/ Close(s)
                             \/ Closed(s)
    \/ Drain \/ Abort \/ Stop
    \/ Tick

Spec == Init /\ [][Next]_vars

-----------------------------------------------------------------------------
(* Properties. *)

InState(state) == Cardinality({o \in Objs : objects[o].State = state})

(* The counters are the contents of the catalog, up to the deltas of committed
   transactions not applied yet, whatever the order they are applied in. *)
CountersExact ==
    LET by(k, n) == Cardinality({c \in Callers : call[c].delta[k] = n})
        pending(k) == by(k, 1) - by(k, -1)
    IN  /\ count.Ready + pending("Ready") = InState("READY")
        /\ count.Leased + pending("Leased") = InState("LEASED")
        /\ count.Objects + pending("Objects") = InState("READY") + InState("LEASED")

(* A poll does not sleep on work: when it waits on an open channel and an object
   is deliverable, the wake-up is on its way or the timer is due.  The exception
   is an object that came due between Claim and NextVisible, which neither of
   the two saw.  And once Drain has returned no poll waits for a channel nobody
   will close. *)
NoLostWakeup ==
    \A p \in Pollers :
       poll[p].pc = "sleep" /\ p \in subscribed =>
         /\ phase \notin {"grace", "aborting", "closed"}
         /\ \A o \in Objs :
              /\ Deliverable(o)
              /\ ~(poll[p].looked < objects[o].Visible /\ objects[o].Visible <= poll[p].seen)
              => \/ \E c \in Callers : call[c].todo \in {"applyAndSignal", "signal"}
                 \/ now >= poll[p].timer

(* The quota is checked once, before the upload: what is stored and what the
   admitted uploads may still add exceed it by at most one object for each
   concurrent session, although the counters lag behind the catalog. *)
QuotaBound ==
    LET admitted == {s \in Sessions : session[s] \in {"admitted", "starting", "open"}}
    IN  MaxStored > 0 =>
          InState("READY") + InState("LEASED") + Cardinality(admitted)
            <= MaxStored - 1 + Cardinality(Sessions)
=============================================================================
