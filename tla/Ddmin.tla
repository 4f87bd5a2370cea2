------------------------------- MODULE Ddmin -------------------------------
(***************************************************************************)
(* moe_ddmin_shrink: delta debugging of a list of tensors.  The search     *)
(* tests the n chunks of the current list and then their complements,      *)
(* keeps the first that hits, and doubles n when none does; every test     *)
(* counts against max_tests.  A state of the search is a record, and       *)
(* DdStep is one turn of a loop; hit tells whether its candidate hits.     *)
(***************************************************************************)
EXTENDS Naturals, Sequences

DdStart(list) ==
  [cur |-> list, n |-> 2, c |-> 0, phase |-> "head", tests |-> 0]

DdOver(d) == d.phase \in {"converged", "exhausted"}

ChunkSize(d) == (Len(d.cur) + d.n - 1) \div d.n

\* Chunk c; the last ones may be short or empty.
Chunk(d) == SubSeq(d.cur, d.c * ChunkSize(d) + 1,
                   IF (d.c + 1) * ChunkSize(d) < Len(d.cur)
                   THEN (d.c + 1) * ChunkSize(d) ELSE Len(d.cur))

Complement(d) ==
  SubSeq(d.cur, 1, d.c * ChunkSize(d))
    \o SubSeq(d.cur, (d.c + 1) * ChunkSize(d) + 1, Len(d.cur))

Candidate(d) == IF d.phase = "chunks" THEN Chunk(d) ELSE Complement(d)

\* The loop reaches a test: the chunk is not empty, nor is what remains.
Tests(d, max) ==
  /\ d.phase \in {"chunks", "complements"} /\ d.c < d.n
  /\ Chunk(d) # <<>>
  /\ d.phase = "complements" => Complement(d) # <<>>
  /\ d.tests < max

\* Variant: the search stops one doubling before single elements.
GrowStopsEarly(d) ==
  IF 2 * d.n >= Len(d.cur)
  THEN [d EXCEPT !.phase = "converged"]
  ELSE [d EXCEPT !.n = 2 * d.n, !.phase = "head"]

\* No part hit: finished when the parts are single, finer parts otherwise.
Grow(d) ==
  IF d.n >= Len(d.cur)
  THEN [d EXCEPT !.phase = "converged"]
  ELSE [d EXCEPT !.n = IF 2 * d.n > Len(d.cur) THEN Len(d.cur) ELSE 2 * d.n,
                 !.phase = "head"]

\* A part hits and becomes the list.
Keep(d, part) ==
  [d EXCEPT !.cur = part, !.phase = "head",
            !.n = IF d.phase = "chunks" \/ d.n = 2 THEN 2 ELSE d.n - 1]

After(phase) == IF phase = "chunks" THEN "complements" ELSE "grow"

\* The top of the search: done, out of budget, or another round.
Round(d, max) ==
  IF Len(d.cur) < 2 THEN [d EXCEPT !.phase = "converged"]
  ELSE IF d.tests >= max THEN [d EXCEPT !.phase = "exhausted"]
  ELSE [d EXCEPT !.phase = "chunks", !.c = 0]

Tested(d, hit) ==
  IF hit THEN [Keep(d, Candidate(d)) EXCEPT !.tests = @ + 1]
  ELSE [d EXCEPT !.tests = @ + 1, !.c = @ + 1]

\* A loop that runs into the budget is left like one that is through.
Untested(d, max) ==
  IF d.c >= d.n \/ d.tests >= max THEN [d EXCEPT !.phase = After(d.phase), !.c = 0]
  ELSE [d EXCEPT !.c = @ + 1]

DdStep(d, max, hit) ==
  CASE d.phase = "head" -> Round(d, max)
    [] d.phase = "grow" -> Grow(d)
    [] Tests(d, max) -> Tested(d, hit)
    [] OTHER -> Untested(d, max)
=============================================================================
