---------------------------- MODULE MCMultipart -----------------------------
(***************************************************************************)
(* Small instances of Multipart for TLC.  A scene, chosen once, says which *)
(* parts and lists the clients send and who else acts; a behaviour of a    *)
(* scene is a behaviour of Multipart's Spec.                               *)
(***************************************************************************)
EXTENDS Multipart, TLC

CONSTANTS u1, u2, r1, r2, e1, e2

VARIABLE scene

Item(n, e) == [n |-> n, etag |-> e]

AllLists == {<<Item(1, e1)>>, <<Item(1, e1), Item(2, e1)>>, <<Item(2, e1), Item(1, e1)>>}

(* Two requests send part 1 with different contents; files fail. *)
Overlap == [parts |-> {Item(1, e1), Item(1, e2)}, lists |-> {<<Item(1, e1)>>},
            requests |-> {r1, r2}, uploads |-> {u1}, abort |-> FALSE,
            crashes |-> 0, failures |-> 1, time |-> 0]

(* Two parts, assembled one by one, and a crash anywhere. *)
TwoParts == [Overlap EXCEPT !.parts = {Item(1, e1), Item(2, e1)},
                            !.lists = {<<Item(1, e1), Item(2, e1)>>, <<Item(2, e1), Item(1, e1)>>},
                            !.crashes = 1, !.failures = 0]

(* The sweep and an abort meet parts and completions. *)
Sweep == [Overlap EXCEPT !.parts = {Item(1, e1)}, !.abort = TRUE, !.failures = 0, !.time = 1]

(* The same, for what a crash leaves. *)
Restart == [Sweep EXCEPT !.requests = {r1}, !.crashes = 1]

(* Two uploads compete for the place of an assembly. *)
TwoUploads == [Overlap EXCEPT !.parts = {Item(1, e1)}, !.uploads = {u1, u2}, !.failures = 0]

Scenes == {Overlap, TwoParts, Sweep, Restart, TwoUploads}

SceneInit == Init /\ scene \in Scenes

SceneStarts(r) ==
    \E u \in scene.uploads :
       \/ CreateDir(r, u)
       \/ \E p \in scene.parts : StartPart(r, u, p.n, p.etag)
       \/ \E list \in scene.lists : StartComplete(r, u, list)
       \/ StartAbort(r, u) /\ scene.abort

SceneNext ==
    /\ \/ \E r \in scene.requests :
             \/ SceneStarts(r)
             \/ Works(r) /\ faults'.fail <= scene.failures
             \/ Assemble(r)
       \/ \E r \in Actors : Lock(r)
       \/ scene.time > 0 /\ Cleans
       \/ scene.crashes > 0 /\ Crash
       \/ scene.time > 0 /\ Tick
    /\ UNCHANGED scene

allVars == <<vars, scene>>

SceneSpec ==
    /\ SceneInit /\ [][SceneNext]_allVars
    /\ WF_allVars(Tick /\ scene.time > 0 /\ UNCHANGED scene)
    /\ WF_allVars(Cleans /\ scene.time > 0 /\ UNCHANGED scene)
    /\ \A r \in Requests : /\ WF_allVars(Works(r) /\ faults'.fail <= scene.failures /\ UNCHANGED scene)
                           /\ SF_allVars(Assemble(r) /\ UNCHANGED scene)
    /\ \A r \in Actors : SF_allVars(Lock(r) /\ UNCHANGED scene)
=============================================================================
