---------------------------- MODULE MCAccounts -----------------------------
(* A server that was started on a configuration with embedded accounts and *)
(* has been serving since; nobody asks for a reload, and no read fails.    *)
EXTENDS Accounts

CONSTANTS t1, c1

LegacyInit ==
    /\ conf = [split |-> FALSE, compact |-> TRUE, tenants |-> {}, mtime |-> 1]
    /\ accts = [tenants |-> {}, mtime |-> 0]
    /\ server = [pc |-> "serving", split |-> FALSE, last |-> 1, s3 |-> "subscribed", asked |-> 0]
    /\ subs = <<"capacity", "s3">>
    /\ cmd = [c \in Commands |-> Idle]
    /\ reload = [r \in Reloaders |-> NoReload]
    /\ view = [registry |-> {}, capacity |-> {}, s3 |-> {}]
    /\ begun = 0 /\ faults = 0
    /\ due = {} /\ crossed = FALSE /\ gap = {}

LegacySpec == LegacyInit /\ [][Next]_vars /\ Fairness
=============================================================================
