------------------------ MODULE CapacitySnapshots ------------------------
(***************************************************************************)
(* The capacity a Tyr replica publishes, how a peer validates what it has  *)
(* fetched, and how a request ranks the replicas it knows                  *)
(* (src/routing.ts, the functions outside CapacityAwareRouter).            *)
(*                                                                         *)
(* Concurrency and tokens are accounted alike, so both are a `share':      *)
(*   use       what the class or the pool holds,                           *)
(*   floor     the protected floor, floorUse the part of it in use,        *)
(*   borrowed  what is held above the floor, floorLeft what the floor has, *)
(*   ceiling   the hard limit (Null for none) and left, what it allows.    *)
(* Null stands for null and undefined alike: the code never tells them     *)
(* apart here.  A replica is named by a number: localeCompare orders the   *)
(* identifiers totally, and that order is all the code uses of them.       *)
(***************************************************************************)
EXTENDS Integers, FiniteSets, Functions

CONSTANTS
  Null,      \* an absent value
  Class      \* admission class identifiers

(* An absent value is no number, no class and no part of a snapshot.       *)
ASSUME NullAssumption == Null \notin Int /\ Null \notin Class

ASSUME AbsenceAssumption ==
  LET Amount == Int \cup {Null}
      Part == [max: Int, use: Int, available: Int]
      Shared == [slots: Part, tokens: Part \cup {Null}]
      Share == [use: Int, floor: Int, floorUse: Int, borrowed: Int, ceiling: Amount]
      Published == [use: Int, floor: Int, floorUse: Int, borrowed: Int,
                    floorLeft: Int, ceiling: Amount, left: Amount]
      Shares == [slots: Share, tokens: Share]
      PublishedShares == [slots: Published, tokens: Published]
      Of(K) == [K -> Shares] \cup [K -> PublishedShares]
  IN /\ Null \notin Part
     /\ Null \notin [budget: Int, use: Int, available: Int]
     /\ Null \notin [budget: Int, use: Int, normal: Int, high: Int]
     /\ \A K \in SUBSET Class : Null \notin [default: Class, shared: Shared, of: Of(K)]

NonNegative(n) == IF n < 0 THEN 0 ELSE n
AtLeastOne(n) == IF n < 1 THEN 1 ELSE n
Smaller(m, n) == IF m < n THEN m ELSE n

---------------------------------------------------------------------------
(* Publishing: poolCapacity() over the statistics of one pool.             *)

(* Mutant: the floor left to a class is not clamped when it has borrowed.  *)
PublishUnclamped(s) ==
  [use |-> s.use, floor |-> s.floor, floorUse |-> s.floorUse,
   borrowed |-> s.borrowed, floorLeft |-> s.floor - s.use,
   ceiling |-> s.ceiling,
   left |-> IF s.ceiling = Null THEN Null ELSE NonNegative(s.ceiling - s.use)]

(* One resource of one class, from the bulkhead's statistics.              *)
PublishShare(s) ==
  [use |-> s.use, floor |-> s.floor, floorUse |-> s.floorUse,
   borrowed |-> s.borrowed, floorLeft |-> NonNegative(s.floor - s.use),
   ceiling |-> s.ceiling,
   left |-> IF s.ceiling = Null THEN Null ELSE NonNegative(s.ceiling - s.use)]

PoolCapacity(stats) ==
  [revision |-> stats.revision, mode |-> stats.mode, closed |-> stats.closed,
   max |-> stats.max, inFlight |-> stats.inFlight, pending |-> stats.pending,
   maxQueue |-> stats.maxQueue,
   available |-> NonNegative(stats.max - stats.inFlight),
   budget |->
     IF stats.budget = Null THEN Null
     ELSE [budget |-> stats.budget.budget, use |-> stats.budget.use,
           normal |-> NonNegative(stats.budget.available),
           high |-> NonNegative(stats.budget.budget - stats.budget.use)],
   classes |->
     IF stats.classes = Null THEN Null
     ELSE [default |-> stats.classes.default, shared |-> stats.classes.shared,
           of |-> [c \in DOMAIN stats.classes.of |->
                     [slots |-> PublishShare(stats.classes.of[c].slots),
                      tokens |-> PublishShare(stats.classes.of[c].tokens)]]]]

CapacitySnapshot(id, ready, stats) ==
  [schema |-> 3, id |-> id, ready |-> ready,
   pools |-> [p \in DOMAIN stats |-> PoolCapacity(stats[p])]]

---------------------------------------------------------------------------
(* Validating a snapshot another replica has sent.                         *)

(* Peers older than schema 3 know no floors: the fields are not read.      *)
ReadShare(s, schema) ==
  IF schema >= 3 THEN s
  ELSE [s EXCEPT !.floor = 0, !.floorUse = 0, !.borrowed = s.use,
                 !.floorLeft = 0]

ShareConsistent(s) ==
  /\ (s.ceiling = Null) <=> (s.left = Null)
  /\ s.ceiling # Null =>
       /\ s.left = NonNegative(s.ceiling - s.use)
       /\ s.floor <= s.ceiling
  /\ s.floorUse = Smaller(s.use, s.floor)
  /\ s.borrowed = NonNegative(s.use - s.floorUse)
  /\ s.floorLeft = NonNegative(s.floor - s.use)

FloorSum(of) == SumFunction([c \in DOMAIN of |-> of[c].floor])
FloorUseSum(of) == SumFunction([c \in DOMAIN of |-> of[c].floorUse])

(* What lies outside every floor: one resource of the pool as a whole.     *)
SharedConsistent(shared, total, use, of) ==
  /\ shared.max = NonNegative(total - FloorSum(of))
  /\ shared.use = NonNegative(use - FloorUseSum(of))
  /\ shared.available = NonNegative(shared.max - shared.use)

ReadClasses(pool, schema) ==
  [c \in DOMAIN pool.classes.of |->
     [slots |-> ReadShare(pool.classes.of[c].slots, schema),
      tokens |-> ReadShare(pool.classes.of[c].tokens, schema)]]

SlotsOf(of) == [c \in DOMAIN of |-> of[c].slots]
TokensOf(of) == [c \in DOMAIN of |-> of[c].tokens]

BudgetConsistent(budget) ==
  budget # Null => budget.normal <= budget.high /\ budget.high <= budget.budget

ClassSharesConsistent(pool, of) ==
  \A c \in DOMAIN of :
    /\ ShareConsistent(of[c].slots)
    /\ ShareConsistent(of[c].tokens)
    /\ pool.budget = Null => of[c].tokens.floor = 0

FloorsFit(pool, of) ==
  /\ DOMAIN of # {}
  /\ pool.classes.default \in DOMAIN of
  /\ FloorSum(SlotsOf(of)) <= pool.max
  /\ pool.budget # Null => FloorSum(TokensOf(of)) <= pool.budget.budget

SharedPartsConsistent(pool, of) ==
  /\ SharedConsistent(pool.classes.shared.slots, pool.max, pool.inFlight,
                      SlotsOf(of))
  /\ (pool.budget = Null) <=> (pool.classes.shared.tokens = Null)
  /\ pool.budget # Null =>
       SharedConsistent(pool.classes.shared.tokens, pool.budget.budget,
                        pool.budget.use, TokensOf(of))

(* validatePoolCapacity: the throws.                                       *)
PoolUnderstood(pool, schema) ==
  /\ pool.available = NonNegative(pool.max - pool.inFlight)
  /\ BudgetConsistent(pool.budget)
  /\ pool.classes # Null =>
       LET of == ReadClasses(pool, schema) IN
       /\ ClassSharesConsistent(pool, of)
       /\ FloorsFit(pool, of)
       /\ schema >= 3 => SharedPartsConsistent(pool, of)

(* validatePoolCapacity: what it returns for a pool it does not throw at.  *)
(* Without floors the whole pool is shared.                                *)
ReadPool(pool, schema) ==
  IF pool.classes = Null \/ schema >= 3 THEN pool
  ELSE [pool EXCEPT
          !.classes.of = ReadClasses(pool, schema),
          !.classes.shared =
            [slots |-> [max |-> pool.max, use |-> pool.inFlight,
                        available |-> pool.available],
             tokens |-> IF pool.budget = Null THEN Null
                        ELSE [max |-> pool.budget.budget, use |-> pool.budget.use,
                              available |-> NonNegative(pool.budget.budget
                                                        - pool.budget.use)]]]

SnapshotUnderstood(snapshot, expectedId) ==
  /\ snapshot.schema \in 1..3
  /\ snapshot.id = expectedId
  /\ \A p \in DOMAIN snapshot.pools :
       PoolUnderstood(snapshot.pools[p], snapshot.schema)

ReadSnapshot(snapshot) ==
  [snapshot EXCEPT !.pools =
     [p \in DOMAIN snapshot.pools |-> ReadPool(snapshot.pools[p], snapshot.schema)]]

(* A peer is only comparable when it serves the same classes.              *)
CompatibleClasses(mine, theirs) ==
  IF mine = Null \/ theirs = Null THEN mine = theirs
  ELSE /\ mine.default = theirs.default
       /\ DOMAIN mine.of = DOMAIN theirs.of

HasFloors(classes) ==
  classes # Null /\
  \E c \in DOMAIN classes.of :
    classes.of[c].slots.floor > 0 \/ classes.of[c].tokens.floor > 0

---------------------------------------------------------------------------
(* Scoring: what a replica would have left after admitting the request.    *)

AvailableTokens(pool, priority) ==
  IF pool.budget = Null THEN Null
  ELSE IF priority = "high" THEN pool.budget.high ELSE pool.budget.normal

Minus(have, need) == IF have = Null THEN Null ELSE have - need
Enough(headroom) == headroom = Null \/ headroom >= 0

(* Ratios are fractions <<numerator, denominator>>, denominators >= 1.     *)
RatioBelow(r, s) == r[1] * s[2] < s[1] * r[2]
TightestRatio(ratios) ==
  CHOOSE r \in ratios : \A s \in ratios : ~ RatioBelow(s, r)

SelectedClass(pool, class) ==
  IF class # Null THEN class
  ELSE IF pool.classes = Null THEN Null ELSE pool.classes.default

(* What the request takes from a class floor and what it borrows.          *)
Borrowed(share, request) == NonNegative(request - share.floorLeft)

(* Mutant: the unused floors of the classes count as shared.               *)
NothingUnused(pool) == 0

UnusedTokenFloors(pool) ==
  SumFunction([c \in DOMAIN pool.classes.of |->
                 pool.classes.of[c].tokens.floorLeft])

(* The headroom a request would leave in every constraint it is under.     *)
Headrooms(pool, priority, class, request) ==
  LET available == AvailableTokens(pool, priority)
      class0 == SelectedClass(pool, class)
      known == /\ class0 # Null
               /\ pool.classes # Null
               /\ class0 \in DOMAIN pool.classes.of
      state == pool.classes.of[class0]
  IN [missing |-> class0 # Null /\ ~ known,
      slots |-> pool.available - 1,
      tokens |-> Minus(available, request),
      classSlots |-> IF known THEN Minus(state.slots.left, 1) ELSE Null,
      classTokens |-> IF known THEN Minus(state.tokens.left, request) ELSE Null,
      borrowedSlots |-> IF known THEN Borrowed(state.slots, 1) ELSE 0,
      borrowedTokens |-> IF known THEN Borrowed(state.tokens, request) ELSE 0,
      sharedSlots |->
        IF known
        THEN pool.classes.shared.slots.available - Borrowed(state.slots, 1)
        ELSE Null,
      sharedTokens |->
        IF known /\ available # Null
        THEN NonNegative(available - UnusedTokenFloors(pool))
               - Borrowed(state.tokens, request)
        ELSE Null,
      classSlotLimit |-> IF known THEN state.slots.ceiling ELSE Null,
      classTokenLimit |-> IF known THEN state.tokens.ceiling ELSE Null]

Admissible(pool, h) ==
  /\ ~ h.missing
  /\ pool.mode = "enforce"
  /\ ~ pool.closed
  /\ pool.available > 0
  /\ Enough(h.tokens)
  /\ Enough(h.classSlots)
  /\ Enough(h.classTokens)
  /\ Enough(h.sharedSlots)
  /\ Enough(h.sharedTokens)

Score(pool, h) ==
  IF ~ Admissible(pool, h) THEN <<-1, 1>>
  ELSE TightestRatio(
    {<<h.slots, pool.max>>,
     IF pool.budget = Null THEN <<1, 1>>
     ELSE <<h.tokens, AtLeastOne(pool.budget.budget)>>,
     IF h.classSlotLimit = Null THEN <<1, 1>>
     ELSE <<h.classSlots, AtLeastOne(h.classSlotLimit)>>,
     IF h.classTokenLimit = Null THEN <<1, 1>>
     ELSE <<h.classTokens, AtLeastOne(h.classTokenLimit)>>,
     IF h.borrowedSlots = 0 THEN <<1, 1>>
     ELSE <<h.sharedSlots, AtLeastOne(pool.classes.shared.slots.max)>>,
     IF h.borrowedTokens = 0 THEN <<1, 1>>
     ELSE <<h.sharedTokens, AtLeastOne(pool.classes.shared.tokens.max)>>})

(* Mutant: a tie costs a hop.                                              *)
RemoteFirst(isLocal) == IF isLocal THEN 0 ELSE 1

LocalFirst(isLocal) == IF isLocal THEN 1 ELSE 0

Candidate(id, isLocal, pool, priority, class, request) ==
  LET h == Headrooms(pool, priority, class, request)
  IN [id |-> id, local |-> isLocal, admissible |-> Admissible(pool, h),
      score |-> Score(pool, h),
      rank |-> <<h.classTokens, h.classSlots, h.tokens, h.slots,
                 LocalFirst(isLocal), 0 - id>>]

(* A headroom nothing limits is above every number.                        *)
Above(m, n) == n # Null /\ (m = Null \/ m > n)

RankAbove(r, s) ==
  \E i \in DOMAIN r :
    Above(r[i], s[i]) /\ \A j \in DOMAIN r : j < i => r[j] = s[j]

(* compareCandidates: c sorts before d.                                    *)
Better(c, d) ==
  \/ c.admissible /\ ~ d.admissible
  \/ /\ c.admissible = d.admissible
     /\ \/ RatioBelow(d.score, c.score)
        \/ ~ RatioBelow(c.score, d.score) /\ RankAbove(c.rank, d.rank)

ChooseCandidate(candidates) ==
  LET admissible == {c \in candidates : c.admissible} IN
  IF admissible = {} THEN Null
  ELSE CHOOSE c \in admissible : \A d \in admissible \ {c} : Better(c, d)
=============================================================================
