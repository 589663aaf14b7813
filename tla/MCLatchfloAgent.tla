-------------------------- MODULE MCLatchfloAgent -------------------------
(* Small instances of LatchfloAgent for TLC.                               *)
EXTENDS LatchfloAgent, TLC

CONSTANTS p1, p2, c1, c2

(* A concurrency-only pool without admission classes.                      *)
Plain(max) == [maxConcurrent |-> max, budget |-> Unset, classes |-> NoTable]

(* A token-managed pool with two admission classes.                        *)
Classed(max, budget, floor1, floor2) ==
  [maxConcurrent |-> max, budget |-> budget,
   classes |-> [c \in {c1, c2} |-> IF c = c1 THEN floor1 ELSE floor2]]

PlainInitial == [p \in Pool |-> Plain(0)]
PlainContent == {Plain(1), Plain(2)}
OnePlainContent == {Plain(1)}

ClassedInitial == [p \in Pool |-> Classed(0, 0, Unset, Unset)]

OneTable(c, floor) == [k \in {c1, c2} |-> IF k = c THEN floor ELSE Absent]

(* Grants with floors, without an opinion on classes, for a table with     *)
(* other keys, and without the token budget the pool needs.                *)
ClassedContent ==
  {Classed(2, 4, 1, Unset), Classed(1, 4, 1, Unset),
   [maxConcurrent |-> 1, budget |-> 2, classes |-> NoTable],
   [maxConcurrent |-> 1, budget |-> 2, classes |-> OneTable(c1, 1)],
   [maxConcurrent |-> 2, budget |-> Unset, classes |-> NoTable]}

(* A grant with a floor, and a smaller one with no opinion on classes.     *)
ClasslessContent ==
  {Classed(2, 4, 2, Unset),
   [maxConcurrent |-> 1, budget |-> 2, classes |-> NoTable]}

(* A grant that spells out a floor of zero.                                *)
ZeroContent == {Classed(1, 4, 0, Unset)}
===========================================================================
