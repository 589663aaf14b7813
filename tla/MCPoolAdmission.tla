-------------------------- MODULE MCPoolAdmission --------------------------
(* Instances of PoolAdmission: a pool with two classes and a token budget, *)
(* and a pool that only bounds its concurrency.                            *)
EXTENDS PoolAdmission, TLC

CONSTANTS a, b     \* the two classes; `a' has the floors

Bound(floor, ceiling) == [floor |-> floor, ceiling |-> ceiling]

ClassLimits(max, budget, reserve, floor, tokenFloor, ceiling) ==
  [max |-> max, queue |-> 2, budget |-> budget, reserve |-> reserve,
   default |-> b,
   slots |-> (a :> Bound(floor, Null) @@ b :> Bound(0, ceiling)),
   tokens |-> (a :> Bound(tokenFloor, Null) @@ b :> Bound(0, Null))]

PlainLimits(max) ==
  [max |-> max, queue |-> 1, budget |-> Null, reserve |-> 0,
   default |-> Null, slots |-> <<>>, tokens |-> <<>>]

Pool(mode0, limits0) ==
  [mode |-> mode0, limits |-> limits0, progressive |-> limits0.budget # Null]

\* The last one's floors exceed what there is: no pool is built from it.
TheStarts ==
  {Pool("enforce", ClassLimits(1, 6, 0, 0, 0, Null)),
   Pool("enforce", PlainLimits(1)), Pool("observe", PlainLimits(1)),
   Pool("enforce", ClassLimits(1, 6, 0, 2, 0, Null))}

\* Room for three with a floor for `a', and a token floor; less than what may
\* be held; a ceiling for `b' and a reserve; floors that do not fit.
TheOffers ==
  {ClassLimits(3, 9, 0, 1, 4, Null), ClassLimits(1, 3, 0, 1, 1, Null),
   ClassLimits(2, 6, 3, 0, 0, 1), ClassLimits(0, 6, 0, 1, 0, Null),
   PlainLimits(2)}

TheSizes == {[input |-> 0, output |-> 3]}

CallSymmetry == Permutations(Call)
=============================================================================
