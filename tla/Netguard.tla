------------------------------ MODULE Netguard ------------------------------
(***************************************************************************)
(* The guarded listener and the limiter of failed authentications.  An     *)
(* attempt asks Allow first, its credentials are checked without any lock, *)
(* and only then is a failure recorded; its connection may be closed in    *)
(* between.  SFTP and FTP make one attempt after the other on a connection *)
(* and none after the login.  The HTTP servers ask at every request, and   *)
(* HTTP/2 brings many requests over one connection at the same time.       *)
(***************************************************************************)
EXTENDS Integers, Sequences, FiniteSets

CONSTANTS Conns,          \* connections, each used once
          Dialogues,      \* those of them that speak SFTP or FTP
          Attempts,       \* goroutines that authenticate, at the same time
          Addrs,          \* source addresses
          MaxConns, MaxConnsPerIP,
          Budget, Window, \* of the AuthLimiter (without a budget it does nothing)
          MaxClock

VARIABLES conn,     \* the connections: address, state, calls of Close
          auth,     \* the attempts: state and connection
          logged,   \* the dialogues that have logged in
          total, perIP,
          fails,    \* times of the failures of each address
          clock

vars == <<conn, auth, logged, total, perIP, fails, clock>>

NoAttempt == [pc |-> "idle", conn |-> 0]

Init ==
    /\ conn \in [Conns -> [ip : Addrs, pc : {"new"}, closes : {0}]]
    /\ auth = [a \in Attempts |-> NoAttempt] /\ logged = {}
    /\ total = 0
    /\ perIP = [ip \in Addrs |-> 0]
    /\ fails = [ip \in Addrs |-> <<>>]
    /\ clock = 0

Open(k) == conn[k].pc = "open"

-----------------------------------------------------------------------------
(* The listener.                                                           *)

(* Under the listener's lock.  A limit of 0 is none. *)
admit(ip) ==
    /\ MaxConns = 0 \/ total < MaxConns
    /\ MaxConnsPerIP = 0 \/ perIP[ip] < MaxConnsPerIP

Accept(k) ==
    /\ conn[k].pc = "new"
    /\ LET ip == conn[k].ip IN
       IF admit(ip)
       THEN /\ conn' = [conn EXCEPT ![k].pc = "open"]
            /\ perIP' = [perIP EXCEPT ![ip] = @ + 1]
            /\ total' = total + 1
       ELSE conn' = [conn EXCEPT ![k].pc = "rejected"] /\ UNCHANGED <<perIP, total>>
    /\ UNCHANGED <<auth, logged, fails, clock>>

(* An address without connections leaves the table. *)
leave(ip) ==
    /\ perIP' = [perIP EXCEPT ![ip] = IF @ <= 1 THEN 0 ELSE @ - 1]
    /\ total' = total - 1

(* Mutant: every call of Close leaves. *)
Close_always(k) ==
    /\ conn[k].pc \in {"open", "closed"} /\ conn[k].closes < 2
    /\ conn' = [conn EXCEPT ![k].pc = "closed", ![k].closes = @ + 1]
    /\ leave(conn[k].ip)
    /\ UNCHANGED <<auth, logged, fails, clock>>

(* The handler, the protocol library and Abort all close a connection; the *)
(* first one leaves.                                                       *)
Close(k) ==
    /\ conn[k].pc \in {"open", "closed"} /\ conn[k].closes < 2
    /\ conn' = [conn EXCEPT ![k].pc = "closed", ![k].closes = @ + 1]
    /\ IF conn[k].closes = 0 THEN leave(conn[k].ip) ELSE UNCHANGED <<perIP, total>>
    /\ UNCHANGED <<auth, logged, fails, clock>>

-----------------------------------------------------------------------------
(* The limiter.                                                            *)

prune(ip) == SelectSeq(fails[ip], LAMBDA t : clock - t < Window)

(* A request or a login that arrived over k. *)
Arrives(a, k) ==
    /\ auth[a].pc = "idle" /\ conn[k].pc \in {"open", "closed"}
    /\ k \in Dialogues => k \notin logged /\ \A b \in Attempts : auth[b].conn # k

(* Mutant: one failure too many. *)
Allow_late(a, k) ==
    /\ Arrives(a, k)
    /\ auth' = IF Len(prune(conn[k].ip)) > Budget THEN auth
               ELSE [auth EXCEPT ![a] = [pc |-> "checking", conn |-> k]]
    /\ fails' = [fails EXCEPT ![conn[k].ip] = prune(conn[k].ip)]
    /\ UNCHANGED <<conn, logged, total, perIP, clock>>

Allow(a, k) ==
    /\ Arrives(a, k)
    /\ LET recent == prune(conn[k].ip) IN
       /\ auth' = IF Len(recent) >= Budget THEN auth
                  ELSE [auth EXCEPT ![a] = [pc |-> "checking", conn |-> k]]
       /\ fails' = [fails EXCEPT ![conn[k].ip] = recent]
    /\ UNCHANGED <<conn, logged, total, perIP, clock>>

(* The credentials are wrong, or S3 has served the request with a 403. *)
Fail(a) ==
    /\ auth[a].pc \in {"checking", "serving"}
    /\ LET ip == conn[auth[a].conn].ip IN
       fails' = [fails EXCEPT ![ip] = Append(prune(ip), clock)]
    /\ auth' = [auth EXCEPT ![a] = NoAttempt]
    /\ UNCHANGED <<conn, logged, total, perIP, clock>>

(* The credentials are right: a session begins, or a request is served. *)
Login(a) ==
    /\ auth[a].pc = "checking"
    /\ LET k == auth[a].conn IN
       IF k \in Dialogues
       THEN auth' = [auth EXCEPT ![a] = NoAttempt] /\ logged' = logged \cup {k}
       ELSE auth' = [auth EXCEPT ![a].pc = "serving"] /\ UNCHANGED logged
    /\ UNCHANGED <<conn, total, perIP, fails, clock>>

(* A request ends without a failure; S3 also refuses some unchecked. *)
Done(a) ==
    /\ auth[a].pc \in {"checking", "serving"} /\ auth[a].conn \notin Dialogues
    /\ auth' = [auth EXCEPT ![a] = NoAttempt]
    /\ UNCHANGED <<conn, logged, total, perIP, fails, clock>>

Tick ==
    /\ clock < MaxClock /\ clock' = clock + 1
    /\ UNCHANGED <<conn, auth, logged, total, perIP, fails>>

Next ==
    \/ \E k \in Conns : Accept(k) \/ Close(k) \/ \E a \in Attempts : Allow(a, k)
    \/ \E a \in Attempts : Fail(a) \/ Login(a) \/ Done(a)
    \/ Tick

Spec == Init /\ [][Next]_vars

-----------------------------------------------------------------------------

(* The listener counts exactly the connections that are open, of every     *)
(* address and together, and stays within its limits, whoever closes them  *)
(* and however often: an address is never locked out by connections it no  *)
(* longer has.                                                             *)
ConnsCounted ==
    /\ total = Cardinality({k \in Conns : Open(k)})
    /\ \A ip \in Addrs : perIP[ip] = Cardinality({k \in Conns : Open(k) /\ conn[k].ip = ip})
    /\ MaxConns > 0 => total <= MaxConns
    /\ MaxConnsPerIP > 0 => \A ip \in Addrs : perIP[ip] <= MaxConnsPerIP

(* The attempts of an address between Allow and their outcome. *)
UnderWay(ip) == {a \in Attempts : auth[a].pc # "idle" /\ conn[auth[a].conn].ip = ip}

(* Failures are bounded although Allow and Fail are apart and one          *)
(* connection carries many attempts: the failures of an address within the *)
(* window, and those its attempts under way can still add, exceed          *)
(* Budget - 1 by no more than the attempts that run at the same time, also *)
(* when their connections are gone by then.                                *)
FailureBudget ==
    \A ip \in Addrs : Len(prune(ip)) + Cardinality(UnderWay(ip)) <= Budget - 1 + Cardinality(Attempts)
=============================================================================
