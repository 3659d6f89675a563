---------------------------- MODULE StreamHasher ----------------------------
(***************************************************************************)
(* streamHasher: SHA-256 of a file while its bytes stream in, slightly out *)
(* of order.  The digest is abstracted to the sequence of bytes fed to it, *)
(* so the field next of the code is the length of hashed.  A nil hasher    *)
(* and an invalid one behave alike.                                        *)
(***************************************************************************)
EXTENDS Naturals, Sequences, FiniteSets, Functions

CONSTANT MaxReorder   \* maxReorderBytes

NewHasher == [valid |-> TRUE, hashed |-> <<>>, pending |-> [off \in {} |-> <<>>]]

Invalid == [valid |-> FALSE, hashed |-> <<>>, pending |-> [off \in {} |-> <<>>]]

next(h) == Len(h.hashed)

held(h) == SumFunction([off \in DOMAIN h.pending |-> Len(h.pending[off])])

(* The loop that hashes the buffered packets now in order. *)
drain(h) ==
    LET n == Cardinality(DOMAIN h.pending)
        round[k \in 0..n] ==
          IF k = 0 THEN h
          ELSE LET g == round[k - 1]
               IN  IF next(g) \notin DOMAIN g.pending THEN g
                   ELSE [g EXCEPT !.hashed = @ \o g.pending[next(g)],
                                  !.pending = Restrict(@, DOMAIN @ \ {next(g)})]
    IN  round[n]

(* Mutant: a packet that rewrites hashed bytes goes unnoticed. *)
write_ignore(h, p, off) ==
    IF ~h.valid \/ off < next(h) \/ off \in DOMAIN h.pending THEN h
    ELSE IF off = next(h) THEN drain([h EXCEPT !.hashed = @ \o p])
    ELSE [h EXCEPT !.pending = [o \in DOMAIN @ \cup {off} |-> IF o = off THEN p ELSE @[o]]]

write(h, p, off) ==
    IF ~h.valid THEN h
    ELSE IF off = next(h) THEN drain([h EXCEPT !.hashed = @ \o p])
    ELSE IF /\ off > next(h)
            /\ held(h) + Len(p) <= MaxReorder
            /\ off \notin DOMAIN h.pending
      THEN [h EXCEPT !.pending = [o \in DOMAIN @ \cup {off} |-> IF o = off THEN p ELSE @[o]]]
    ELSE Invalid

truncate(h, size) ==
    IF h.valid /\ size = next(h) /\ h.pending = NewHasher.pending THEN h ELSE Invalid

(* Whether the digest covers exactly size bytes; otherwise the file is read
   again. *)
result(h, size) == h.valid /\ h.pending = NewHasher.pending /\ next(h) = size
=============================================================================
