----------------------------- MODULE Certstore ------------------------------
(***************************************************************************)
(* The TLS certificate: cert renew replaces the key and then the           *)
(* certificate, and the server picks the new pair up while handshakes and  *)
(* account reloads look at the files.  A file is the number of the issue   *)
(* it holds, which also stands for its modification time.                  *)
(***************************************************************************)
EXTENDS Naturals

CONSTANTS Handshakes,   \* handshakes that overlap
          MaxIssues, MaxReloads

VARIABLES certFile, keyFile,
          renew,    \* cert renew is between its two writes
          store,    \* the pair that is served and the times of its files
          due,      \* checkEvery has passed since lastCheck
          loader,   \* the handshakes, and the reload of the accounts
          asked

vars == <<certFile, keyFile, renew, store, due, loader, asked>>

Loaders == Handshakes \cup {"reload"}

NoLoad == [pc |-> "idle", certMod |-> 0, keyMod |-> 0, cert |-> 0]

Init ==
    /\ certFile = 1 /\ keyFile = 1 /\ renew = FALSE
    /\ store = [pair |-> 1, certMod |-> 1, keyMod |-> 1]
    /\ due = FALSE
    /\ loader = [h \in Loaders |-> NoLoad]
    /\ asked = 0

Files == <<certFile, keyFile, renew>>

At(h, pc) == loader[h].pc = pc

(* issueLeaf: the key first. *)
writeKey ==
    /\ ~renew /\ keyFile < MaxIssues
    /\ keyFile' = keyFile + 1 /\ renew' = TRUE
    /\ UNCHANGED <<certFile, store, due, loader, asked>>

writeCert ==
    /\ renew
    /\ certFile' = keyFile /\ renew' = FALSE
    /\ UNCHANGED <<keyFile, store, due, loader, asked>>

(* The command ends in between: the files do not match until the next one. *)
RenewCut ==
    /\ renew /\ renew' = FALSE
    /\ UNCHANGED <<certFile, keyFile, store, due, loader, asked>>

Elapse ==
    /\ ~due /\ due' = TRUE
    /\ UNCHANGED <<Files, store, loader, asked>>

(* maybeReload: the times are read under the lock, lastCheck is set under  *)
(* it again, and the files are compared without it.                        *)
maybeReload(h) ==
    /\ At(h, "idle") /\ due
    /\ loader' = [loader EXCEPT ![h] = [NoLoad EXCEPT !.pc = "check", !.certMod = store.certMod,
                                                      !.keyMod = store.keyMod]]
    /\ UNCHANGED <<Files, store, due, asked>>

Check(h) ==
    /\ At(h, "check")
    /\ due' = FALSE
    /\ loader' = [loader EXCEPT ![h].pc = "compare"]
    /\ UNCHANGED <<Files, store, asked>>

(* The certificate is looked at first: a pair that is the same at the two  *)
(* looks is the same at the second.                                        *)
Compare(h) ==
    /\ At(h, "compare")
    /\ loader' = [loader EXCEPT ![h] =
          IF certFile = loader[h].certMod /\ keyFile = loader[h].keyMod THEN NoLoad
          ELSE [NoLoad EXCEPT !.pc = "statCert"]]
    /\ UNCHANGED <<Files, store, due, asked>>

(* The reload of the accounts, on SIGHUP and on request. *)
AccountsReload ==
    /\ At("reload", "idle") /\ asked < MaxReloads
    /\ asked' = asked + 1
    /\ loader' = [loader EXCEPT !["reload"].pc = "statCert"]
    /\ UNCHANGED <<Files, store, due>>

(* Reload: both files are looked at before they are read. *)
StatCert(h) ==
    /\ At(h, "statCert")
    /\ loader' = [loader EXCEPT ![h].pc = "statKey", ![h].certMod = certFile]
    /\ UNCHANGED <<Files, store, due, asked>>

StatKey(h) ==
    /\ At(h, "statKey")
    /\ loader' = [loader EXCEPT ![h].pc = "readCert", ![h].keyMod = keyFile]
    /\ UNCHANGED <<Files, store, due, asked>>

ReadCert(h) ==
    /\ At(h, "readCert")
    /\ loader' = [loader EXCEPT ![h].pc = "readKey", ![h].cert = certFile]
    /\ UNCHANGED <<Files, store, due, asked>>

(* A pair that does not match fails to load. *)
ReadKey(h) ==
    /\ At(h, "readKey")
    /\ loader' = [loader EXCEPT ![h] = IF keyFile = @.cert THEN [@ EXCEPT !.pc = "store"] ELSE NoLoad]
    /\ UNCHANGED <<Files, store, due, asked>>

(* Mutant: the times are those of the files after they were read. *)
Store_later(h) ==
    /\ At(h, "store")
    /\ store' = [pair |-> loader[h].cert, certMod |-> certFile, keyMod |-> keyFile]
    /\ due' = FALSE
    /\ loader' = [loader EXCEPT ![h] = NoLoad]
    /\ UNCHANGED <<Files, asked>>

Store(h) ==
    /\ At(h, "store")
    /\ store' = [pair |-> loader[h].cert, certMod |-> loader[h].certMod, keyMod |-> loader[h].keyMod]
    /\ due' = FALSE
    /\ loader' = [loader EXCEPT ![h] = NoLoad]
    /\ UNCHANGED <<Files, asked>>

Reloading(h) ==
    Check(h) \/ Compare(h) \/ StatCert(h) \/ StatKey(h) \/ ReadCert(h) \/ ReadKey(h) \/ Store(h)

Next ==
    \/ writeKey \/ writeCert \/ RenewCut \/ Elapse \/ AccountsReload
    \/ \E h \in Handshakes : maybeReload(h)
    \/ \E h \in Loaders : Reloading(h)

(* Time passes, clients keep connecting and a goroutine that runs goes on. *)
Fairness ==
    /\ WF_vars(Elapse)
    /\ WF_vars(\E h \in Handshakes : maybeReload(h))
    /\ \A h \in Loaders : WF_vars(Reloading(h))

Spec == Init /\ [][Next]_vars /\ Fairness

-----------------------------------------------------------------------------

(* "the running server picks it up": a pair on disk whose halves match is  *)
(* served in the end, although loads that overlap store what they read in  *)
(* any order, and although a renewal may stop halfway before the next one. *)
CertPickedUp ==
    certFile = keyFile /\ store.pair # certFile ~> store.pair = certFile \/ certFile # keyFile
=============================================================================
