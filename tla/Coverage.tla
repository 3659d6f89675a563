------------------------------ MODULE Coverage ------------------------------
(***************************************************************************)
(* coverage: which byte ranges of a staging file hold intended data.  A    *)
(* coverage is a sequence of spans <<start, end>>, end excluded, sorted    *)
(* and neither overlapping nor touching.                                   *)
(***************************************************************************)
EXTENDS Naturals, Sequences, SequencesExt

(* The offsets a coverage stands for. *)
Bytes(spans) == UNION {s[1]..(s[2] - 1) : s \in ToSet(spans)}

(* One round of the loop in add, over the spans sorted by their start. *)
merge(merged, s) ==
    IF merged # <<>> /\ s[1] <= Last(merged)[2]
      THEN [merged EXCEPT ![Len(merged)][2] = IF s[2] > @ THEN s[2] ELSE @]
      ELSE Append(merged, s)

(* Mutant: a span that starts inside the last one replaces its end. *)
add_replace(spans, from, to) ==
    IF to <= from THEN spans
    ELSE LET keep(merged, s) == IF merged # <<>> /\ s[1] <= Last(merged)[2]
                                  THEN [merged EXCEPT ![Len(merged)][2] = s[2]]
                                  ELSE Append(merged, s)
         IN  FoldLeft(keep, <<>>, SortSeq(Append(spans, <<from, to>>), LAMBDA x, y : x[1] < y[1]))

add(spans, from, to) ==
    IF to <= from THEN spans
    ELSE FoldLeft(merge, <<>>, SortSeq(Append(spans, <<from, to>>), LAMBDA x, y : x[1] < y[1]))

clip(spans, size) ==
    LET left == SelectSeq(spans, LAMBDA s : s[1] < size)
    IN  [i \in DOMAIN left |-> <<left[i][1], IF left[i][2] > size THEN size ELSE left[i][2]>>]

start(spans) == IF spans = <<>> THEN 0 ELSE Head(spans)[1]

end(spans) == IF spans = <<>> THEN 0 ELSE Last(spans)[2]

(* The length of the gap-free prefix. *)
contiguous(spans) == IF spans = <<>> \/ Head(spans)[1] # 0 THEN 0 ELSE Head(spans)[2]

covers(spans, size) == size = 0 \/ contiguous(spans) >= size

=============================================================================
