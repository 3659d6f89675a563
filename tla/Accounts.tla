------------------------------ MODULE Accounts ------------------------------
(***************************************************************************)
(* The account table: the commands that rewrite config.yaml and            *)
(* accounts.yaml under two file locks, and the running server, which polls *)
(* one of the files and hands every new list to the registry, the capacity *)
(* controller and the S3 handler.                                          *)
(*                                                                         *)
(* An account list is a set of accounts.  A modification time is the       *)
(* number of the writes of the file, 0 while it does not exist: two writes *)
(* never share one.  Load reads config.yaml and then accounts.yaml; only a *)
(* holder of the configuration lock turns an embedded list into a separate *)
(* file, and never back, so the two reads are one step here.               *)
(***************************************************************************)
EXTENDS Naturals, Sequences

CONSTANTS Ids,          \* account IDs
          Commands,     \* processes of the command line
          MaxCommands, MaxReloads, MaxFailures

VARIABLES conf,     \* config.yaml
          accts,    \* accounts.yaml
          cmd,
          begun,    \* commands started
          server,   \* the configuration of the process and its watcher
          reload,   \* the reloads in progress
          view,     \* the account list each part of the server works with
          subs,     \* subscribers of the registry
          faults,   \* reads that failed
          due,      \* history: the list the written changes add up to
          crossed,  \* history: both locks' holders rewrote accounts.yaml at once
          gap       \* history: why a change may have passed the server by

vars == <<conf, accts, cmd, begun, server, reload, view, subs, faults, due, crossed, gap>>

Reloaders == {"watcher", "admin"}

Idle == [pc |-> "idle", op |-> "none", id |-> "none", list |-> {}, split |-> FALSE]

NoReload == [pc |-> "idle", list |-> {}, todo |-> <<>>]

Init ==
    /\ \E split, compact \in BOOLEAN :
          /\ conf = [split |-> split, compact |-> compact, tenants |-> {}, mtime |-> 1]
          /\ accts = [tenants |-> {}, mtime |-> IF split THEN 1 ELSE 0]
    /\ cmd = [c \in Commands |-> Idle]
    /\ begun = 0
    /\ server = [pc |-> "down", split |-> FALSE, last |-> 0, s3 |-> "none", asked |-> 0]
    /\ reload = [r \in Reloaders |-> NoReload]
    /\ view = [registry |-> {}, capacity |-> {}, s3 |-> {}]
    /\ subs = <<>>
    /\ faults = 0
    /\ due = {}
    /\ crossed = FALSE
    /\ gap = {}

(* The account list a fresh Load returns. *)
Load == IF conf.split THEN accts.tenants ELSE conf.tenants

-----------------------------------------------------------------------------
(* The command line.                                                       *)

Server == <<server, reload, view, subs, faults>>

(* What a command does to a list: AddTenant, account remove (and the other *)
(* changes of one account, which rewrite the list whether or not they find *)
(* it), or a change of the configuration alone.                            *)
fn(c, list) ==
    CASE cmd[c].op = "add" -> list \cup {cmd[c].id}
      [] cmd[c].op = "remove" -> list \ {cmd[c].id}
      [] OTHER -> list

refused(c, list) == cmd[c].op = "add" /\ cmd[c].id \in list

(* The change of c is in effect: the next Load sees it. *)
Written(c) ==
    /\ due' = fn(c, due)
    /\ gap' = gap \cup (IF server.pc = "booting" THEN {"boot"} ELSE {})

Goto(c, pc) == cmd' = [cmd EXCEPT ![c].pc = pc]

Done(c) == cmd' = [cmd EXCEPT ![c] = Idle]

Start(c) ==
    /\ cmd[c].pc = "idle" /\ begun < MaxCommands
    /\ begun' = begun + 1
    /\ UNCHANGED <<conf, accts, Server, due, crossed, gap>>

(* The configuration is read before either lock is taken. *)
UpdateAccounts(c) ==
    /\ Start(c)
    /\ \E op \in {"add", "remove"}, id \in Ids :
          cmd' = [cmd EXCEPT ![c] = [Idle EXCEPT !.op = op, !.id = id,
                                     !.pc = IF conf.split THEN "accts" ELSE "conf"]]

(* cert renew --new-ca, and the adoption of a data volume. *)
Update(c) ==
    /\ Start(c)
    /\ cmd' = [cmd EXCEPT ![c] = [Idle EXCEPT !.op = "settings", !.pc = "conf"]]

(* lockFile: flock, one holder at a time. *)
Free(pcs) == \A d \in Commands : cmd[d].pc \notin pcs

(* Mutant: without the accounts lock. *)
readAccounts_unlocked(c) ==
    /\ cmd[c].pc = "accts"
    /\ crossed' = (crossed \/ (\E d \in Commands : cmd[d].pc = "both" /\ conf.split))
    /\ IF refused(c, accts.tenants) THEN Done(c)
       ELSE cmd' = [cmd EXCEPT ![c].pc = "put", ![c].list = fn(c, accts.tenants)]
    /\ UNCHANGED <<conf, accts, begun, Server, due, gap>>

readAccounts(c) ==
    /\ cmd[c].pc = "accts" /\ Free({"put"})
    /\ crossed' = (crossed \/ (\E d \in Commands : cmd[d].pc = "both" /\ conf.split))
    /\ IF refused(c, accts.tenants) THEN Done(c)
       ELSE cmd' = [cmd EXCEPT ![c].pc = "put", ![c].list = fn(c, accts.tenants)]
    /\ UNCHANGED <<conf, accts, begun, Server, due, gap>>

writeAccounts(c) ==
    /\ cmd[c].pc = "put"
    /\ accts' = [tenants |-> cmd[c].list, mtime |-> accts.mtime + 1]
    /\ Written(c) /\ Done(c)
    /\ UNCHANGED <<conf, begun, Server, crossed>>

(* Update, under the configuration lock: the file is loaded again.  An     *)
(* embedded list moves to accounts.yaml when the rest of the configuration *)
(* fits the short form.                                                    *)
LoadLocked(c) ==
    /\ cmd[c].pc = "conf" /\ Free({"both", "single"})
    /\ crossed' = (crossed \/ (conf.split /\ ~Free({"put"})))
    /\ LET split == conf.split \/ (cmd[c].op # "settings" /\ conf.compact) IN
       IF refused(c, Load) THEN Done(c)
       ELSE cmd' = [cmd EXCEPT ![c].pc = IF split THEN "both" ELSE "single",
                               ![c].list = fn(c, Load), ![c].split = split]
    /\ UNCHANGED <<conf, accts, begun, Server, due, gap>>

(* Write: accounts.yaml first, then config.yaml. *)
WriteBoth(c) ==
    /\ cmd[c].pc = "both"
    /\ accts' = [tenants |-> cmd[c].list, mtime |-> accts.mtime + 1]
    /\ Goto(c, "single")
    /\ IF conf.split THEN Written(c) ELSE UNCHANGED <<due, gap>>
    /\ UNCHANGED <<conf, begun, Server, crossed>>

Write(c) ==
    /\ cmd[c].pc = "single"
    /\ conf' = [conf EXCEPT !.split = cmd[c].split, !.mtime = @ + 1,
                            !.tenants = IF cmd[c].split THEN {} ELSE cmd[c].list]
    /\ IF conf.split THEN UNCHANGED <<due, gap>> ELSE Written(c)
    /\ Done(c)
    /\ UNCHANGED <<accts, begun, Server, crossed>>

Works(c) == readAccounts(c) \/ writeAccounts(c) \/ LoadLocked(c) \/ WriteBoth(c) \/ Write(c)

-----------------------------------------------------------------------------
(* The server.                                                             *)

Files == <<conf, accts, cmd, begun, due, crossed>>

(* The configuration is loaded, then the store recovers and the listeners  *)
(* start; from here on the process keeps this configuration.               *)
RunWithOptions ==
    /\ server.pc = "down"
    /\ server' = [server EXCEPT !.pc = "booting", !.split = conf.split]
    /\ view' = [view EXCEPT !.registry = Load, !.capacity = Load]
    /\ subs' = <<"capacity">>
    /\ UNCHANGED <<Files, reload, faults, gap>>

modTime == IF server.split THEN accts.mtime ELSE conf.mtime

(* The watcher starts from the file as it is then. *)
watchAccounts ==
    /\ server.pc = "booting"
    /\ server' = [server EXCEPT !.pc = "serving", !.last = modTime]
    /\ UNCHANGED <<Files, reload, view, subs, faults, gap>>

(* Handler of the S3 server: the handler is built from the current list,   *)
(* then subscribes.                                                        *)
buildHandler ==
    /\ server.pc # "down" /\ server.s3 = "none"
    /\ view' = [view EXCEPT !.s3 = view.registry]
    /\ server' = [server EXCEPT !.s3 = "built"]
    /\ UNCHANGED <<Files, reload, subs, faults, gap>>

Subscribe ==
    /\ server.s3 = "built"
    /\ subs' = Append(subs, "s3")
    /\ server' = [server EXCEPT !.s3 = "subscribed"]
    /\ UNCHANGED <<Files, reload, view, faults, gap>>

Reload(r) ==
    /\ reload[r].pc = "idle"
    /\ reload' = [reload EXCEPT ![r].pc = "load"]
    /\ gap' = gap \cup (IF \E q \in Reloaders : reload[q].pc # "idle" THEN {"overlap"} ELSE {})
    /\ UNCHANGED <<Files, view, subs, faults>>

Poll ==
    /\ server.pc = "serving" /\ modTime # server.last
    /\ server' = [server EXCEPT !.last = modTime]
    /\ Reload("watcher")

Asked == server.asked < MaxReloads

(* SIGHUP, served by the watcher. *)
Signal ==
    /\ server.pc = "serving" /\ Asked
    /\ server' = [server EXCEPT !.last = modTime, !.asked = @ + 1]
    /\ Reload("watcher")

(* POST /admin/reload, in a goroutine of its own. *)
AdminReload ==
    /\ server.pc # "down" /\ Asked
    /\ server' = [server EXCEPT !.asked = @ + 1]
    /\ Reload("admin")

(* LoadAccounts: accounts.yaml alone when the configuration named it at    *)
(* the start of the process, a full Load otherwise.                        *)
LoadAccounts(r) ==
    /\ reload[r].pc = "load"
    /\ reload' = [reload EXCEPT ![r].pc = "store",
                                ![r].list = IF server.split THEN accts.tenants ELSE Load]
    /\ UNCHANGED <<Files, server, view, subs, faults, gap>>

(* The file cannot be read or does not validate: the current accounts stay, *)
(* and the file counts as seen.                                             *)
LoadFails(r) ==
    /\ reload[r].pc = "load" /\ faults < MaxFailures
    /\ faults' = faults + 1
    /\ reload' = [reload EXCEPT ![r] = NoReload]
    /\ gap' = gap \cup {"failed"}
    /\ UNCHANGED <<Files, server, view, subs>>

(* Replace: the list is stored, the subscribers are copied under the       *)
(* registry's lock and called without it, in turn.                         *)
Replace(r) ==
    /\ reload[r].pc = "store"
    /\ view' = [view EXCEPT !.registry = reload[r].list]
    /\ reload' = [reload EXCEPT ![r].pc = "copy"]
    /\ UNCHANGED <<Files, server, subs, faults, gap>>

CopySubs(r) ==
    /\ reload[r].pc = "copy"
    /\ reload' = [reload EXCEPT ![r].pc = "notify", ![r].todo = subs]
    /\ gap' = gap \cup (IF server.s3 = "built" /\ view.s3 # reload[r].list THEN {"late"} ELSE {})
    /\ UNCHANGED <<Files, server, view, subs, faults>>

Called(r) ==
    reload' = [reload EXCEPT ![r] = IF Len(@.todo) = 1 THEN NoReload ELSE [@ EXCEPT !.todo = Tail(@)]]

(* Mutant: only the first subscriber is called. *)
Notify_first(r) ==
    /\ reload[r].pc = "notify"
    /\ view' = [view EXCEPT ![Head(reload[r].todo)] = reload[r].list]
    /\ reload' = [reload EXCEPT ![r] = NoReload]
    /\ UNCHANGED <<Files, server, subs, faults, gap>>

Notify(r) ==
    /\ reload[r].pc = "notify"
    /\ view' = [view EXCEPT ![Head(reload[r].todo)] = reload[r].list]
    /\ Called(r)
    /\ UNCHANGED <<Files, server, subs, faults, gap>>

(* The keys are refused: the S3 handler stays as it is. *)
BuildFails(r) ==
    /\ reload[r].pc = "notify" /\ Head(reload[r].todo) = "s3" /\ faults < MaxFailures
    /\ faults' = faults + 1
    /\ gap' = gap \cup {"failed"}
    /\ Called(r)
    /\ UNCHANGED <<Files, server, view, subs>>

Reloads(r) == LoadAccounts(r) \/ Replace(r) \/ CopySubs(r) \/ Notify(r)

Starts == RunWithOptions \/ watchAccounts \/ buildHandler \/ Subscribe

Next ==
    \/ \E c \in Commands : UpdateAccounts(c) \/ Update(c) \/ Works(c)
    \/ Starts \/ Poll \/ Signal \/ AdminReload
    \/ \E r \in Reloaders : Reloads(r) \/ LoadFails(r) \/ BuildFails(r)

(* A command that runs ends, the server starts, its watcher ticks, and the *)
(* goroutine of a reload runs.                                             *)
Fairness ==
    /\ \A c \in Commands : WF_vars(Works(c))
    /\ WF_vars(Starts) /\ WF_vars(Poll)
    /\ \A r \in Reloaders : WF_vars(Reloads(r))

Spec == Init /\ [][Next]_vars /\ Fairness

-----------------------------------------------------------------------------

(* No change of an account is undone by a command that ran at the same     *)
(* time: what a Load returns is what the written changes add up to, also   *)
(* while an embedded list moves to a file of its own.  The exception is a  *)
(* command under the configuration lock that rewrites accounts.yaml while  *)
(* another, under the accounts lock, does: the locks do not exclude each   *)
(* other.                                                                  *)
NothingLost == crossed \/ Load = due

Agree == \A v \in DOMAIN view : view[v] = Load

(* A process started on an embedded list polls config.yaml for ever; once  *)
(* a command has moved the list, it does not see the file that changes.    *)
Unwatched == ~server.split /\ conf.split

(* Every part of the server ends up with the accounts on disk: the         *)
(* registry, the upload slots and the S3 keys, in whatever order commands, *)
(* polls, signals and the start of the listeners interleave.  A change may *)
(* pass the server by only during its start, in a read that fails, in two  *)
(* reloads that overlap, or as Unwatched says.                             *)
AccountsApplied ==
    server.pc = "serving" /\ ~Agree ~> Agree \/ gap # {} \/ Unwatched

(* "the running server applies account changes within 5 seconds": without  *)
(* any exception.                                                          *)
AppliedWithoutRestart == server.pc = "serving" /\ ~Agree ~> Agree
=============================================================================
