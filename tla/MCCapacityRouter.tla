------------------------- MODULE MCCapacityRouter -------------------------
(* Instances of CapacityRouter: replica 2 of three, two addresses, pools   *)
(* that bound their concurrency or have two classes with a floor.          *)
EXTENDS CapacityRouter

CONSTANTS u, v,     \* addresses
          a, b      \* classes

At(id, url) == [id |-> id, url |-> url]

TheStatics == {<<>>, <<At(1, u)>>, <<At(1, u), At(1, v)>>}

\* 1 moves, 1 and 3 beside this replica itself, nobody, a peer listed twice.
TheTopologies ==
  {<<At(1, v)>>, <<At(1, u), At(2, u), At(3, v)>>, <<>>,
   <<At(3, u), At(3, v)>>}

PlainStats(mode, used) ==
  [revision |-> 0, mode |-> mode, closed |-> FALSE, max |-> 2,
   inFlight |-> used, pending |-> 0, maxQueue |-> 0, budget |-> Null,
   classes |-> Null]

Share(use, floor) ==
  [use |-> use, floor |-> floor, floorUse |-> Smaller(use, floor),
   borrowed |-> use - Smaller(use, floor), ceiling |-> Null]

\* `a' has a floor of one slot and `b' borrows.
ClassStats(usedA, usedB, floor) ==
  LET slotsA == Share(usedA, floor)
      shared == NonNegative(2 - floor)
      sharedUse == usedA + usedB - slotsA.floorUse
  IN [PlainStats("enforce", usedA + usedB) EXCEPT
        !.classes =
          [default |-> b,
           shared |-> [slots |-> [max |-> shared, use |-> sharedUse,
                                  available |-> NonNegative(shared - sharedUse)],
                       tokens |-> Null],
           of |-> [k \in {a, b} |->
                     [slots |-> IF k = a THEN slotsA ELSE Share(usedB, 0),
                      tokens |-> Share(0, 0)]]]]

Body(schema, ready, pools) ==
  [schema |-> schema, id |-> Null, ready |-> ready, pools |-> pools]
Pools(stats) == [p \in {"p"} |-> PoolCapacity(stats)]

\* An idle and an unready replica; one that contradicts itself; one with a free
\* floor; an old one, which publishes no floors.
TheBodies ==
  {Body(3, TRUE, Pools(PlainStats("enforce", 0))),
   Body(3, TRUE, [p \in {"p"} |->
     [PoolCapacity(PlainStats("enforce", 1)) EXCEPT !.available = 2]]),
   Body(3, FALSE, <<>>),
   Body(3, TRUE, Pools(ClassStats(0, 1, 1))),
   Body(2, TRUE, Pools(ClassStats(0, 0, 0)))}

Request(stats, ready, class) ==
  [pool |-> "p", priority |-> "normal", class |-> class, size |-> 0,
   stats |-> stats, ready |-> ready]

TheRequests ==
  {Request(PlainStats("enforce", 0), TRUE, Null),
   Request(PlainStats("enforce", 2), TRUE, Null),
   Request(PlainStats("observe", 2), TRUE, Null),
   Request(PlainStats("enforce", 0), FALSE, Null),
   Request(ClassStats(1, 0, 1), TRUE, a),
   Request(ClassStats(1, 1, 0), TRUE, Null)}
=============================================================================
