-------------------------- MODULE MCQuaternaryHeap --------------------------
(* Six entries and two times: two full levels and the start of a third,  *)
(* so that entries rise and sink across two edges.                         *)
EXTENDS QuaternaryHeap, TLC

CONSTANTS a, b, c, d, e, f

SixIds == {a, b, c, d, e, f}

Times == 0..1

\* Everything, or everything but the executor jobs (their queue is full).
AllOrDefault == {SixIds, {a, b, c}}

\* IDs are only compared for equality, within their class.
Interchangeable == Permutations({a, b, c}) \cup Permutations({d, e, f})
=============================================================================
