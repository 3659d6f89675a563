----------------------------- MODULE MCServer ------------------------------
(***************************************************************************)
(* The parts of the server around the store, each in a scene of its own:   *)
(* the scene says which part moves, so that the parts' state spaces add up *)
(* instead of multiplying.                                                 *)
(***************************************************************************)
EXTENDS Service

CONSTANTS o1, o2, s1, s2, p1, dl, t1, t2, c1, c2, c3, j1, j2, k1, k2, k3, a1, a2, h1

CONSTANTS Ids, Commands, MaxCommands, MaxReloads, MaxFailures,
          Uploads, Slots, MaxChanges, Jobs, Sizes, Total, Floor, HardFree, MaxDeletes,
          Conns, Dialogues, Attempts, Addrs, MaxConns, MaxConnsPerIP, Budget, Window, MaxClock,
          Handshakes, MaxIssues

VARIABLES scene,
          conf, accts, cmd, begun, server, reload, view, subs, faults, due, crossed, gap,
          account, semOf, sems, changes, upload, free, reserved, snapshot, sample, job,
          spent, outside, since,
          conn, auth, logged, total, perIP, fails, clock,
          certFile, keyFile, renew, store, elapsed, loader, asked

A == INSTANCE Accounts
C == INSTANCE Capacity
N == INSTANCE Netguard
T == INSTANCE Certstore WITH due <- elapsed

accountVars == <<conf, accts, cmd, begun, server, reload, view, subs, faults, due, crossed, gap>>

capacityVars ==
    <<account, semOf, sems, changes, upload, free, reserved, snapshot, sample, job, spent,
      outside, since>>

guardVars == <<conn, auth, logged, total, perIP, fails, clock>>

certVars == <<certFile, keyFile, renew, store, elapsed, loader, asked>>

all == <<vars, scene, accountVars, capacityVars, guardVars, certVars>>

Scenes == {"store", "commands", "reloads", "slots", "space", "guard", "certificates"}

(* A part that does not move starts in one of its initial states.  The two *)
(* addresses may change their names, and k2 and k3 as well.                *)
ServerInit ==
    /\ scene \in Scenes
    /\ Init /\ A!Init /\ C!Init /\ N!Init /\ T!Init
    /\ scene \notin {"commands", "reloads"} => conf.split /\ conf.compact
    /\ scene # "slots" => sems[1].cap = 1
    /\ conn[k2].ip = 1 /\ 1 \in {conn[k1].ip, conn[k3].ip}
    /\ scene # "guard" => \A k \in Conns : conn[k].ip = 1

(* The commands race each other with the server down; one command at a     *)
(* time, for one account, races the server's start, watcher and reloads.   *)
CommandsNext ==
    \E c \in Commands : A!UpdateAccounts(c) \/ A!Update(c) \/ A!Works(c)

ReloadsNext ==
    \/ A!Starts \/ A!Poll \/ A!Signal \/ A!AdminReload
    \/ \E r \in A!Reloaders : A!Reloads(r) \/ A!LoadFails(r) \/ A!BuildFails(r)
    \/ begun < 2 /\ (A!UpdateAccounts(c1) \/ A!Update(c1)) /\ cmd'[c1].id # t2
    \/ A!Works(c1)

ServerNext ==
    /\ UNCHANGED scene
    /\ \/ scene = "store" /\ Next /\ UNCHANGED <<accountVars, capacityVars, guardVars, certVars>>
       \/ scene = "commands" /\ CommandsNext /\ UNCHANGED <<vars, capacityVars, guardVars, certVars>>
       \/ scene = "reloads" /\ ReloadsNext /\ UNCHANGED <<vars, capacityVars, guardVars, certVars>>
       \/ scene = "slots" /\ C!SlotNext /\ UNCHANGED <<vars, accountVars, guardVars, certVars>>
       \/ scene = "space" /\ C!SpaceNext /\ UNCHANGED <<vars, accountVars, guardVars, certVars>>
       \/ scene = "guard" /\ N!Next /\ UNCHANGED <<vars, accountVars, capacityVars, certVars>>
       \/ scene = "certificates" /\ T!Next /\ UNCHANGED <<vars, accountVars, capacityVars, guardVars>>

(* The fairness of Accounts and of Certstore, each in its scene. *)
FairReloads ==
    /\ \A c \in Commands : WF_accountVars(scene = "reloads" /\ A!Works(c))
    /\ WF_accountVars(scene = "reloads" /\ A!Starts)
    /\ WF_accountVars(scene = "reloads" /\ A!Poll)
    /\ \A r \in A!Reloaders : WF_accountVars(scene = "reloads" /\ A!Reloads(r))

FairCertificates ==
    /\ WF_certVars(scene = "certificates" /\ T!Elapse)
    /\ WF_certVars(scene = "certificates" /\ \E h \in Handshakes : T!maybeReload(h))
    /\ \A h \in T!Loaders : WF_certVars(scene = "certificates" /\ T!Reloading(h))

ServerSpec == ServerInit /\ [][ServerNext]_all /\ FairReloads /\ FairCertificates

-----------------------------------------------------------------------------

(* No written change of an account is undone by a concurrent command, but  *)
(* for commands under the two different locks (UpdateAccounts, Update).    *)
NothingLost == A!NothingLost

(* The server ends up with the accounts on disk, but for the gaps Accounts *)
(* names (watchAccounts, reload, Replace).                                 *)
AccountsApplied == A!AccountsApplied

(* Slots go back to the semaphore they came from (AcquireUpload).          *)
SlotsExact == C!SlotsExact

(* Reservations do not share free space (Reserve).                         *)
ReservedFits == C!ReservedFits

(* The listener counts the open connections (admit, leave, Close).         *)
ConnsCounted == N!ConnsCounted

(* Failed authentications stay near their budget (Allow, Fail).            *)
FailureBudget == N!FailureBudget

(* A renewed certificate is served in the end (maybeReload, Reload).       *)
CertPickedUp == T!CertPickedUp
=============================================================================
