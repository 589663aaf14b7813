--------------------------- MODULE PoolAdmission ---------------------------
(***************************************************************************)
(* One pool of Tyr (src/pools.ts, createPool): requests are admitted by    *)
(* the bulkhead under limits that change while they wait and run, report   *)
(* usage that shrinks what they hold, may lose a borrowed slot at its      *)
(* deadline, and leave evidence of the grant they were admitted under.     *)
(* The pool's statistics are what the replica publishes to its peers       *)
(* (CapacitySnapshots).                                                    *)
(*                                                                         *)
(* The bulkhead (async-bulkhead-llm) is external; it is modelled from what *)
(* pools.ts asks of it.  Its counters are sums over the calls here.        *)
(*                                                                         *)
(* A slot is granted before the postcheck that reserves the rest, which    *)
(* runs in a microtask: one change can grant several slots at once, and    *)
(* nothing else of Tyr runs before every one of them was checked (Turn).   *)
(***************************************************************************)
EXTENDS CapacitySnapshots, Sequences, SequencesExt

CONSTANTS
  Call,          \* requests that reach the pool
  Starts,        \* what a pool is configured with:
                 \* [mode, limits, progressive]
  Offers,        \* limits a controller may send, valid or not
  Sizes,         \* what requests reserve: [input, output]
  Outputs,       \* the cumulative output a provider may report
  Limited,       \* classes whose borrowed slots have a deadline
  Margin, Step,  \* outputSafetyMarginTokens, updateStepTokens
  MaxRevision,   \* bound on the revisions of the limits
  MaxRetained,   \* MAX_RETAINED_PROVENANCE_REVISIONS
  MaxEvents      \* MAX_RETAINED_ADMISSION_PROVENANCE_EVENTS

ASSUME PoolAssumption ==
  /\ Margin \in Nat /\ Step \in Nat \ {0}
  /\ MaxRetained \in Nat \ {0} /\ MaxEvents \in Nat \ {0}
  /\ Outputs \subseteq Nat /\ IsFiniteSet(Call) /\ IsFiniteSet(Class)
  /\ Sizes \subseteq [input: Nat, output: Nat]

(* The estimate of a request counts at least the JSON of its metadata.     *)
ASSUME SizesAssumption == \A s \in Sizes : s.input + s.output > 0

(* The shape of limits; a pool with classes has a default.                 *)
ASSUME LimitsAssumption ==
  \A l \in Offers \cup {start.limits : start \in Starts} :
    /\ l.max \in Nat /\ l.queue \in Nat /\ l.reserve \in Nat
    /\ l.budget \in Nat \cup {Null}
    /\ DOMAIN l.slots \subseteq Class /\ DOMAIN l.tokens = DOMAIN l.slots
    /\ \A k \in DOMAIN l.slots :
         {l.slots[k], l.tokens[k]} \subseteq [floor: Nat, ceiling: Nat \cup {Null}]
    /\ DOMAIN l.slots # {} => l.default \in DOMAIN l.slots

VARIABLES
  mode,      \* admissionMode, fixed when the pool is built
  limits,    \* the limits in force
  revision,  \* ... and their revision
  closed,
  call,      \* each request
  queue,     \* FIFO of the calls that wait for a slot
  granted,   \* calls that have a slot and await their postcheck
  retained,  \* provenanceByRevision, oldest first
  evidence,  \* admissionProvenanceEvents and its counters
  drain,     \* what drain() has reported
  issued     \* history: the limits and the grant a revision came with

vars == <<mode, limits, revision, closed, call, queue, granted, retained,
          evidence, drain, issued>>

Stages == {"new", "queued", "granted", "running", "detached", "bypassed",
           "ended"}

Total(f) == SumFunction(f)

---------------------------------------------------------------------------
(* Limits.                                                                 *)

Bounded(floor, ceiling) == ceiling # Null => floor <= ceiling

ClassBoundsValid(l) ==
  \A k \in DOMAIN l.slots :
    /\ Bounded(l.slots[k].floor, l.slots[k].ceiling)
    /\ Bounded(l.tokens[k].floor, l.tokens[k].ceiling)
    /\ l.budget = Null => l.tokens[k].floor = 0 /\ l.tokens[k].ceiling = Null

LimitsFit(l) ==
  /\ ClassBoundsValid(l)
  /\ l.reserve <= (IF l.budget = Null THEN 0 ELSE l.budget)
  /\ FloorSum(l.slots) <= l.max
  /\ l.budget # Null => FloorSum(l.tokens) <= l.budget

(* validateLimitSnapshot: same shape as the limits in force, and everything*)
(* protected fits.                                                         *)
ValidLimits(next) ==
  /\ (next.budget = Null) <=> (limits.budget = Null)
  /\ DOMAIN next.slots = DOMAIN limits.slots
  /\ LimitsFit(next)

(* validatePoolConfigs and the bulkhead's constructor.  Reconciliation     *)
(* needs a budget; an absent switch is on only when there is one.          *)
Buildable(start) ==
  /\ start.mode \in {"enforce", "observe"}
  /\ LimitsFit(start.limits)
  /\ DOMAIN start.limits.slots # {} =>
       start.limits.default \in DOMAIN start.limits.slots
  /\ start.progressive => start.limits.budget # Null

---------------------------------------------------------------------------
(* What the bulkhead accounts.                                             *)

HasSlot(c) == call[c].stage \in {"granted", "running"}
InFlight == Cardinality({c \in Call : HasSlot(c)})
TokenUse == Total([c \in Call |-> call[c].held])
SlotUseOf(k) ==
  Cardinality({c \in Call : call[c].stage = "running" /\ call[c].class = k})
TokenUseOf(k) ==
  Total([c \in Call |-> IF call[c].class = k THEN call[c].held ELSE 0])

Classes == DOMAIN limits.slots

ShareOf(use, bound) ==
  [use |-> use, floor |-> bound.floor, floorUse |-> Smaller(use, bound.floor),
   borrowed |-> use - Smaller(use, bound.floor), ceiling |-> bound.ceiling]

SlotShare(k) == ShareOf(SlotUseOf(k), limits.slots[k])
TokenShare(k) == ShareOf(TokenUseOf(k), limits.tokens[k])

SlotShares == [k \in Classes |-> SlotShare(k)]
TokenShares == [k \in Classes |-> TokenShare(k)]

(* What lies outside the floors of a resource.                             *)
SharedOf(total, use, shares) ==
  LET max == NonNegative(total - FloorSum(shares))
      used == NonNegative(use - FloorUseSum(shares))
  IN [max |-> max, use |-> used, available |-> NonNegative(max - used)]

(* The statistics of the pool: bulkhead.stats() and the admission mode.    *)
Stats ==
  [revision |-> revision, mode |-> mode, closed |-> closed,
   max |-> limits.max, inFlight |-> InFlight, pending |-> Len(queue),
   maxQueue |-> limits.queue,
   budget |->
     IF limits.budget = Null THEN Null
     ELSE [budget |-> limits.budget, use |-> TokenUse,
           available |-> NonNegative(limits.budget - TokenUse)],
   classes |->
     IF Classes = {} THEN Null
     ELSE [default |-> limits.default,
           shared |->
             [slots |-> SharedOf(limits.max, InFlight, SlotShares),
              tokens |-> IF limits.budget = Null THEN Null
                         ELSE SharedOf(limits.budget, TokenUse, TokenShares)],
           of |-> [k \in Classes |->
                     [slots |-> SlotShare(k), tokens |-> TokenShare(k)]]]]

---------------------------------------------------------------------------
(* Admission.                                                              *)

Reserved(r) == IF limits.budget = Null THEN 0 ELSE r.size.input + r.size.output

EffectiveBudget(priority) ==
  IF priority = "high" THEN limits.budget
  ELSE NonNegative(limits.budget - limits.reserve)

FloorLeft(share) == NonNegative(share.floor - share.use)

(* What request r takes beyond the floor of its class.                     *)
BorrowsSlot(r) == r.class # Null /\ FloorLeft(SlotShare(r.class)) = 0
BorrowsTokens(r) ==
  IF r.class = Null THEN 0
  ELSE NonNegative(Reserved(r) - FloorLeft(TokenShare(r.class)))

(* Mutant: the check made before the slot was granted is not repeated.     *)
RefusedBeforeOnly(r, own) ==
  /\ own = 0
  /\ \/ /\ limits.budget # Null
        /\ TokenUse + Reserved(r) > EffectiveBudget(r.priority)
     \/ /\ r.class # Null
        /\ FloorSum(limits.slots) > 0
        /\ BorrowsSlot(r)
        /\ SharedOf(limits.max, InFlight, SlotShares).use + 1
             > NonNegative(limits.max - FloorSum(limits.slots))

(* checkAdmissionCapacity; `own' is 1 when r itself holds a slot already.  *)
Refused(r, own) ==
  \/ /\ limits.budget # Null
     /\ TokenUse + Reserved(r) > EffectiveBudget(r.priority)
  \/ /\ r.class # Null
     /\ \/ /\ limits.tokens[r.class].ceiling # Null
           /\ TokenUseOf(r.class) + Reserved(r) > limits.tokens[r.class].ceiling
        \/ /\ limits.slots[r.class].ceiling # Null
           /\ SlotUseOf(r.class) >= limits.slots[r.class].ceiling
        \/ /\ FloorSum(limits.slots) > 0
           /\ BorrowsSlot(r)
           /\ SharedOf(limits.max, InFlight - own, SlotShares).use + 1
                > NonNegative(limits.max - FloorSum(limits.slots))
        \/ /\ limits.budget # Null
           /\ FloorSum(limits.tokens) > 0
           /\ BorrowsTokens(r) > 0
           /\ SharedOf(limits.budget, TokenUse, TokenShares).use
                + BorrowsTokens(r)
                > NonNegative(EffectiveBudget(r.priority)
                              - FloorSum(limits.tokens))

Turn == granted = <<>>

(* An observing pool runs what it would have rejected, outside its limits. *)
RefusedStage == IF mode = "observe" /\ ~ closed THEN "bypassed" ELSE "ended"

Fresh == [stage |-> "new", class |-> Null, priority |-> Null,
          size |-> Null, held |-> 0, borrowed |-> FALSE, output |-> Null,
          remaining |-> Null]

(* A call the pool no longer accounts for.                                 *)
Outside(stage) == [Fresh EXCEPT !.stage = stage]

(* The calls a change of the free slots grants, first come first served.   *)
Grants(q, used, max) == SubSeq(q, 1, NonNegative(Smaller(Len(q), max - used)))

(* Calls take their stages; then waiters get the slots that are free.      *)
Proceed(calls, q, grantedNow, used, max) ==
  LET lucky == Grants(q, used, max) IN
  /\ call' = [c \in Call |-> IF c \in Range(lucky)
                             THEN [calls[c] EXCEPT !.stage = "granted"]
                             ELSE calls[c]]
  /\ queue' = SubSeq(q, Len(lucky) + 1, Len(q))
  /\ granted' = grantedNow \o lucky

Init ==
  /\ \E start \in Starts :
       Buildable(start) /\ mode = start.mode /\ limits = start.limits
  /\ revision = 0
  /\ closed = FALSE
  /\ call = [c \in Call |-> Fresh]
  /\ queue = <<>>
  /\ granted = <<>>
  /\ retained = <<>>
  /\ evidence = [events |-> <<>>, next |-> 1, dropped |-> 0]
  /\ drain = "none"
  /\ issued = [r \in {0} |-> [limits |-> limits, grant |-> Null]]

(* prepare() and run() up to the first await: the server calls them in one *)
(* turn, with one reservation and the class resolved before.               *)
Submit(c, class, priority, size) ==
  LET r == [Fresh EXCEPT !.class = class, !.priority = priority, !.size = size]
      Enter(stage) == call' = [call EXCEPT ![c] = [r EXCEPT !.stage = stage]]
      Leave == call' = [call EXCEPT ![c] = Outside(RefusedStage)]
  IN
  /\ Turn
  /\ call[c].stage = "new"
  /\ class \in (IF Classes = {} THEN {Null} ELSE Classes)
  /\ \/ /\ closed \/ Refused(r, 0)
        /\ Leave
        /\ UNCHANGED <<queue, granted>>
     \/ /\ ~ closed /\ ~ Refused(r, 0)
        /\ \/ /\ InFlight < limits.max
              /\ Enter("granted")
              /\ granted' = Append(granted, c)
              /\ UNCHANGED queue
           \/ /\ InFlight >= limits.max
              /\ limits.max > 0 /\ Len(queue) < limits.queue
              /\ Enter("queued")
              /\ queue' = Append(queue, c)
              /\ UNCHANGED granted
           \/ /\ InFlight >= limits.max
              /\ limits.max = 0 \/ Len(queue) >= limits.queue
              /\ Leave
              /\ UNCHANGED <<queue, granted>>
  /\ UNCHANGED <<mode, limits, revision, closed, retained, evidence, drain, issued>>

(* provenanceByRevision.get(r)                                             *)
GrantRetained(r) ==
  IF \E i \in DOMAIN retained : retained[i].revision = r
  THEN retained[CHOOSE i \in DOMAIN retained : retained[i].revision = r].grant
  ELSE Null

(* The history keeps the revisions somebody can still ask about.           *)
Remember(events, new) ==
  LET asked == {e.revision : e \in Range(events)} IN
  issued' = [r \in (asked \cap DOMAIN issued) \cup DOMAIN new |->
               IF r \in DOMAIN new THEN new[r] ELSE issued[r]]

(* The listener of "admit": it runs inside the bulkhead, with the limits   *)
(* of the admission still in force.                                        *)
RecordAdmission ==
  LET e == [sequence |-> evidence.next, revision |-> revision,
            limits |-> limits, grant |-> GrantRetained(revision)]
      all == Append(evidence.events, e)
      full == Len(all) > MaxEvents
      kept == IF full THEN Tail(all) ELSE all
  IN /\ evidence' =
          [events |-> kept, next |-> evidence.next + 1,
           dropped |-> IF full THEN evidence.dropped + 1 ELSE evidence.dropped]
     /\ Remember(kept, [r \in {revision} |-> issued[revision]])

(* The postcheck of the first granted slot.                                *)
Postcheck ==
  /\ granted # <<>>
  /\ LET c == Head(granted)
         rest == Tail(granted)
     IN \/ /\ ~ Refused(call[c], 1)
           /\ call' = [call EXCEPT ![c].stage = "running",
                                   ![c].priority = Null,  \* used no more
                                   ![c].held = Reserved(call[c]),
                                   ![c].borrowed = BorrowsSlot(call[c])]
           /\ granted' = rest
           /\ RecordAdmission
           /\ UNCHANGED queue
        \/ /\ Refused(call[c], 1)
           /\ Proceed([call EXCEPT ![c] = Outside(RefusedStage)], queue, rest,
                      InFlight - 1, limits.max)
           /\ UNCHANGED <<evidence, issued>>
  /\ UNCHANGED <<mode, limits, revision, closed, retained, drain>>

(* A waiter leaves the queue: its client hung up, or queueTimeoutMs passed.*)
LeaveQueue(c) ==
  /\ Turn
  /\ call[c].stage = "queued"
  /\ \E stage \in {"ended", RefusedStage} :
       call' = [call EXCEPT ![c] = Outside(stage)]
  /\ \E i \in DOMAIN queue : queue[i] = c /\ queue' = RemoveAt(queue, i)
  /\ UNCHANGED <<mode, limits, revision, closed, granted, retained, evidence,
                 drain, issued>>

---------------------------------------------------------------------------
(* Running.                                                                *)

Overrun(r, output) == NonNegative(output - r.size.output)

(* createProgressiveUsageReconciler().reportUsage: what is left to produce *)
(* is only lowered in steps, and the margin is held on top of it.          *)
Candidate0(r, output) == NonNegative(r.size.output - output - Margin)

(* Mutant: the margin is taken off what is left, but not held.             *)
ReconciledLow(r, output) ==
  NonNegative(r.size.output - output - Margin - Step)

Reconciled(r, output) ==
  IF r.remaining = Null \/ r.remaining - Candidate0(r, output) >= Step
  THEN Candidate0(r, output) ELSE r.remaining

(* A report of cumulative usage, which never counts backwards.             *)
Report(c, output) ==
  LET r == call[c]
      seen == IF r.output = Null \/ output > r.output THEN output ELSE r.output
      left == Reconciled(r, output)
  IN
  /\ Turn
  /\ r.stage \in {"running", "detached"}
  /\ limits.budget # Null
  /\ call' = [call EXCEPT ![c].output = seen,
                          ![c].remaining = left,
                          ![c].held = left + Margin + Overrun(r, seen)]
  /\ UNCHANGED <<mode, limits, revision, closed, queue, granted, retained,
                 evidence, drain, issued>>

(* The deadline of a borrowed slot: the slot is returned and the caller    *)
(* told, the tokens stay until the callback ends.                          *)
Deadline(c) ==
  /\ Turn
  /\ call[c].stage = "running"
  /\ call[c].borrowed /\ call[c].class \in Limited
  /\ Proceed([call EXCEPT ![c].stage = "detached"], queue, granted,
             InFlight - 1, limits.max)
  /\ UNCHANGED <<mode, limits, revision, closed, retained, evidence, drain, issued>>

(* The callback ends, in any way.                                          *)
Settle(c) ==
  /\ Turn
  /\ call[c].stage \in {"running", "detached", "bypassed"}
  /\ Proceed([call EXCEPT ![c] = Outside("ended")], queue, granted,
             IF HasSlot(c) THEN InFlight - 1 ELSE InFlight, limits.max)
  /\ UNCHANGED <<mode, limits, revision, closed, retained, evidence, drain, issued>>

---------------------------------------------------------------------------
(* Control.                                                                *)

(* Mutant: the newest revision is forgotten.                               *)
RetainOldest(grant) ==
  LET all == Append(retained, [revision |-> revision + 1, grant |-> grant])
  IN IF Len(all) > MaxRetained THEN retained ELSE all

(* retainProvenance: the oldest revisions are forgotten.                   *)
Retain(grant) ==
  LET all == Append(retained, [revision |-> revision + 1, grant |-> grant])
  IN IF Len(all) > MaxRetained THEN Tail(all) ELSE all

(* controller.applyLimits with a newer revision; an invalid snapshot and a *)
(* stale one change nothing.                                               *)
ApplyLimits(next, grant) ==
  /\ Turn
  /\ revision < MaxRevision
  /\ ValidLimits(next)
  /\ revision' = revision + 1
  /\ limits' = next
  /\ retained' = IF grant = Null THEN retained ELSE Retain(grant)
  /\ Remember(evidence.events,
              [r \in {revision + 1} |-> [limits |-> next, grant |-> grant]])
  /\ Proceed(call, queue, granted, InFlight, next.max)
  /\ UNCHANGED <<mode, closed, evidence, drain>>

(* drain() closes the pool, which rejects its waiters, and waits.          *)
Drain ==
  /\ Turn
  /\ ~ closed
  /\ closed' = TRUE
  /\ drain' = "waiting"
  /\ call' = [c \in Call |-> IF call[c].stage = "queued" THEN Outside("ended")
                             ELSE call[c]]
  /\ queue' = <<>>
  /\ UNCHANGED <<mode, limits, revision, granted, retained, evidence, issued>>

Settled(c) == call[c].stage \notin {"queued", "granted", "running", "detached"}

(* Mutant: the drain only waits for slots.                                 *)
DrainOnSlots ==
  /\ Turn
  /\ drain = "waiting"
  /\ \/ drain' = "drained" /\ InFlight = 0
     \/ drain' = "timed out" /\ InFlight > 0
  /\ UNCHANGED <<mode, limits, revision, closed, call, queue, granted, retained,
                 evidence, issued>>

(* Every slot is back and every admitted call has settled its tokens, or   *)
(* the timeout of the drain has passed.                                    *)
DrainEnds ==
  /\ Turn
  /\ drain = "waiting"
  /\ \/ drain' = "drained" /\ \A c \in Call : Settled(c)
     \/ drain' = "timed out" /\ \E c \in Call : ~ Settled(c)
  /\ UNCHANGED <<mode, limits, revision, closed, call, queue, granted, retained,
                 evidence, issued>>

Next ==
  \/ \E c \in Call :
       \/ \E k \in Class \cup {Null}, p \in {"normal", "high"}, s \in Sizes :
            Submit(c, k, p, s)
       \/ LeaveQueue(c)
       \/ \E o \in Outputs : Report(c, o)
       \/ Deadline(c)
       \/ Settle(c)
  \/ Postcheck
  \/ \E next \in Offers, g \in {Null, revision + 1} : ApplyLimits(next, g)
  \/ Drain
  \/ DrainEnds

Spec == Init /\ [][Next]_vars

---------------------------------------------------------------------------
(* The state of the pool: tokens are held by admitted calls only, the      *)
(* queue and the granted slots name the calls in those stages.             *)
TypeOK ==
  /\ mode \in {"enforce", "observe"}
  /\ limits \in Offers \cup {start.limits : start \in Starts}
  /\ revision \in 0 .. MaxRevision
  /\ closed \in BOOLEAN
  /\ drain \in {"none", "waiting", "drained", "timed out"}
  /\ \A c \in Call :
       /\ call[c].stage \in Stages
       /\ call[c].held \in Nat
       /\ call[c].held > 0 => call[c].stage \in {"running", "detached"}
       /\ call[c].stage = "detached" => call[c].borrowed
  /\ Range(queue) = {c \in Call : call[c].stage = "queued"}
  /\ Range(granted) = {c \in Call : call[c].stage = "granted"}
  /\ IsInjective(queue) /\ IsInjective(granted)

RunningCalls == {c \in Call : call[c].stage = "running"}

SlotFloorsKept ==
  Cardinality(RunningCalls)
    + Total([k \in Classes |-> FloorLeft(SlotShare(k))]) <= limits.max

TokenFloorsKept ==
  limits.budget # Null =>
    TokenUse + Total([k \in Classes |-> FloorLeft(TokenShare(k))])
      <= limits.budget

Admits(c) == call[c].stage = "granted" /\ call'[c].stage = "running"

(* Admitting never eats a protected floor that is unused.  Whatever limits *)
(* came since its slot was granted, a call that borrows leaves every class *)
(* what its floor still promises; a call within its own floor takes        *)
(* nothing from the others.  The check before the slot is granted is not   *)
(* enough: two calls granted together must not both borrow the last slot.  *)
UnusedFloorsKept ==
  [][\A c \in Call : Admits(c) =>
       /\ call'[c].borrowed \/ SlotFloorsKept => SlotFloorsKept'
       /\ BorrowsTokens(call[c]) > 0 \/ TokenFloorsKept => TokenFloorsKept']_vars

(* What a call holds after a report covers the output still to come and    *)
(* the safety margin, and no more than one update step above that, in      *)
(* whatever order its reports arrive.                                      *)
HoldFitsFuture ==
  \A c \in Call :
    LET r == call[c] IN
    r.stage \in {"running", "detached"} /\ r.output # Null =>
      LET due == NonNegative(r.size.output - r.output - Margin) + Margin
                   + Overrun(r, r.output)
      IN r.held >= due /\ r.held < due + Step

(* Every record of an admission names the limits and the grant that were   *)
(* in force when it was made, and the records are the last admissions in   *)
(* order, none lost but those counted as dropped.                          *)
EvidenceTruthful ==
  /\ \A i \in DOMAIN evidence.events :
       LET e == evidence.events[i] IN
       /\ e.limits = issued[e.revision].limits
       /\ e.grant = issued[e.revision].grant
       /\ e.sequence = evidence.dropped + i
  /\ evidence.next = evidence.dropped + Len(evidence.events) + 1

(* When drain() reports `drained', no call waits, holds a slot or holds    *)
(* tokens, not even one whose slot was taken back at its deadline.         *)
DrainedIsQuiet == drain = "drained" => \A c \in Call : Settled(c)

(* A peer understands every snapshot this replica can publish: shrinking   *)
(* limits, overruns, detached calls and slots awaiting their postcheck     *)
(* never make the published numbers fail the validation of routing.ts.     *)
SnapshotsUnderstood == PoolUnderstood(PoolCapacity(Stats), 3)

AdmitsNow(r) == /\ mode = "enforce" /\ ~ closed
                /\ ~ Refused(r, 0) /\ InFlight < limits.max

ScoredExactly(pool, k, p, s) ==
  LET r == [Fresh EXCEPT !.class = k, !.priority = p, !.size = s]
      h == Headrooms(pool, p, k, Reserved(r))
  IN Admissible(pool, h) <=> AdmitsNow(r)

SelectableClasses == IF Classes = {} THEN {Null} ELSE Classes

(* The published snapshot is enough to tell whether the replica would      *)
(* admit a request at once: the router's score and the bulkhead's check,   *)
(* computed from different numbers, agree for requests of high priority    *)
(* and for pools that reserve nothing for them.                            *)
ScoreIsExact ==
  LET pool == PoolCapacity(Stats) IN
  \A k \in SelectableClasses, s \in Sizes, p \in {"normal", "high"} :
    p = "high" \/ limits.reserve = 0 => ScoredExactly(pool, k, p, s)

(* ... and for normal requests when a part of the budget is reserved.      *)
NormalScoreIsExact ==
  \A k \in SelectableClasses, s \in Sizes : ScoredExactly(PoolCapacity(Stats), k, "normal", s)

(* A report within the output cap never raises what the call holds.        *)
ReportsOnlyShrink ==
  [][\A c \in Call :
       /\ call[c].stage \in {"running", "detached"}
       /\ call'[c].stage = call[c].stage
       /\ call'[c].output # Null
       => \/ call'[c].held <= call[c].held
          \/ call'[c].output > call[c].size.output]_vars
=============================================================================
