-------------------------- MODULE LatchfloAgent ---------------------------
(***************************************************************************)
(* The lease-holding half of LatchfloTyrAgent (src/latchflo.ts): polling   *)
(* desired state, applying and acknowledging grants, failing closed when   *)
(* grants expire, readiness, start and stop.                               *)
(*                                                                         *)
(* JavaScript runs one callback at a time, so every action is the code     *)
(* between two awaits.  The control plane answers a poll with any well     *)
(* formed desired state, and any request may fail or take any time.        *)
(* Abstracted here: tokens and registration (only the controller epoch a   *)
(* registration brings is kept), and the occupancy a heartbeat publishes   *)
(* (any set of drain targets may turn out to be met by it).                *)
(***************************************************************************)
EXTENDS GrantDecisions

CONSTANTS
  Poller,           \* polls that may be in flight together
  Off,              \* no expiration timer armed
  InitialContent,   \* the limits each managed pool is configured with
  Content,          \* the limits a control plane may grant
  Revisions,        \* the revisions it may stamp on a grant
  Expiries,         \* the instants at which a grant may expire
  Epochs,           \* the controller epochs it may claim
  Skews,            \* how far its clock may run ahead of the local one
  MaxTime,          \* bound on the local clock
  Embedded          \* does an embedding program call pollNow(), or start()
                    \* again after stop()

ASSUME ConstantsAssumption ==
  /\ InitialContent \in [Pool -> LimitContent]
  /\ \A p \in Pool : InitialContent[p].maxConcurrent = 0
  /\ Content \subseteq LimitContent
  /\ Revisions \subseteq Nat \ {0}
  /\ Expiries \subseteq Nat
  /\ Epochs \subseteq Nat \ {0}
  /\ Skews \subseteq Nat
  /\ MaxTime \in Nat
  /\ Embedded \in BOOLEAN
  /\ Pool # {}

ASSUME ContentAssumption == \A content \in Content : Parses(content)

ASSUME SentinelAssumption == Off \notin Nat /\ NoGrant \notin
  [epoch: Nat, revision: Nat, expiresAt: Nat, limits: LimitContent]

VARIABLES
  now,             \* the local clock, Date.now()
  skew,            \* estimated control-plane time minus local time, if ahead
  running,         \* #running
  stopped,         \* stop() was the last lifecycle call
  controllerEpoch, \* #controllerEpoch, 0 while undefined
  limits,          \* the installed limits of every managed pool
  fallbacks,       \* #admissionClassFallbacks
  grants,          \* #grants
  drainTargets,    \* #drainEvidenceTargets: the revision awaited, 0 for none
  ready,           \* #ready
  expirationTimer, \* when #expirationTimer is due, or Off
  pollTimer,       \* is #pollTimer armed
  pc,              \* what each poll awaits
  kind,            \* who awaits it: start(), the poll loop or pollNow()
  offers,          \* the grants of the desired state being applied
  acking,          \* the pools whose grant is being acknowledged (at most one)
  todo,            \* the pools whose grant is still to be installed
  shrinks          \* the pools this poll shrank

clockVars == <<now, skew>>
lifecycleVars == <<running, stopped>>
leaseVars == <<limits, fallbacks, grants, drainTargets>>
pollVars == <<pc, kind, offers, acking, todo, shrinks>>
vars == <<clockVars, lifecycleVars, controllerEpoch, leaseVars, ready,
          expirationTimer, pollTimer, pollVars>>

Grant == [epoch: Nat, revision: Nat, expiresAt: Nat, limits: LimitContent]

(* A desired state: an epoch and, for each managed pool, an offer or none. *)
Response ==
  [epoch: Epochs,
   offers: [Pool -> [revision: Revisions, expiresAt: Expiries, limits: Content]
                      \cup {NoGrant}]]

NoOffers == [p \in Pool |-> NoGrant]

TypeOK ==
  /\ now \in 0..MaxTime
  /\ skew \in Nat
  /\ running \in BOOLEAN
  /\ stopped \in BOOLEAN
  /\ controllerEpoch \in Nat
  /\ limits \in [Pool -> Limits]
  /\ fallbacks \in [Pool -> Table \cup {NoTable}]
  /\ grants \in [Pool -> Grant \cup {NoGrant}]
  /\ drainTargets \in [Pool -> Nat]
  /\ ready \in BOOLEAN
  /\ expirationTimer \in Nat \cup {Off}
  /\ pollTimer \in BOOLEAN
  /\ pc \in [Poller -> {"idle", "fetch", "expired", "refused", "ack", "evidence"}]
  /\ kind \in [Poller -> {"start", "loop", "now"}]
  /\ offers \in [Poller -> [Pool -> Grant \cup {NoGrant}]]
  /\ acking \in [Poller -> SUBSET Pool]
  /\ todo \in [Poller -> SUBSET Pool]
  /\ shrinks \in [Poller -> SUBSET Pool]

Init ==
  /\ now = 0
  /\ skew = 0
  /\ running = FALSE
  /\ stopped = FALSE
  /\ controllerEpoch = 0
  /\ limits = [p \in Pool |-> Installed(WithRevision(0, InitialContent[p]))]
  /\ fallbacks = [p \in Pool |-> ReportedTable(InitialContent[p].classes)]
  /\ grants = NoOffers
  /\ drainTargets = [p \in Pool |-> 0]
  /\ ready = FALSE
  /\ expirationTimer = Off
  /\ pollTimer = FALSE
  /\ pc = [w \in Poller |-> "idle"]
  /\ kind = [w \in Poller |-> "loop"]
  /\ offers = [w \in Poller |-> NoOffers]
  /\ acking = [w \in Poller |-> {}]
  /\ todo = [w \in Poller |-> {}]
  /\ shrinks = [w \in Poller |-> {}]

-----------------------------------------------------------------------------
(* Clocks, leases and timers.                                              *)

(* #effectiveNow: whichever clock is ahead.                                *)
EffectiveNow == now + skew

Unexpired(grant, instant) == grant # NoGrant /\ grant.expiresAt > instant

(* Mutant: one leased pool is enough to be ready.                          *)
HasSomeUnexpiredGrant(held, instant) ==
  \E p \in Pool : Unexpired(held[p], instant)

HasCompleteUnexpiredGrantSet(held, instant) ==
  \A p \in Pool : Unexpired(held[p], instant)

(* Mutant: the first lease to run out closes every pool.                   *)
AllHeldPools(held, instant) ==
  IF \E p \in Pool : held[p] # NoGrant /\ held[p].expiresAt <= instant
  THEN {p \in Pool : held[p] # NoGrant} ELSE {}

ExpiredPools(held, instant) ==
  {p \in Pool : held[p] # NoGrant /\ held[p].expiresAt <= instant}

HeldPools(held) == {p \in Pool : held[p] # NoGrant}

(* Mutant: the timer waits for the last lease to run out.                  *)
LatestExpiry(held) ==
  CHOOSE t \in {held[p].expiresAt : p \in HeldPools(held)} :
    \A p \in HeldPools(held) : t >= held[p].expiresAt

EarliestExpiry(held) ==
  CHOOSE t \in {held[p].expiresAt : p \in HeldPools(held)} :
    \A p \in HeldPools(held) : t <= held[p].expiresAt

(* Mutant: the delay is neither clamped at zero nor added to the clock.    *)
ExpirationDelay(held, ahead) ==
  IF HeldPools(held) = {} THEN Off
  ELSE EarliestExpiry(held) - (now + ahead)

(* #scheduleExpiration: the local instant the timer is due, `ahead' being  *)
(* how far the control plane's clock is ahead.                             *)
ExpirationDue(held, ahead) ==
  IF HeldPools(held) = {} THEN Off
  ELSE IF EarliestExpiry(held) <= now + ahead THEN now
       ELSE EarliestExpiry(held) - ahead

-----------------------------------------------------------------------------
(* How a poll ends.  `Returns' is the normal return of #poll, after which  *)
(* start() and the loop both schedule the next poll; `Fails' is a          *)
(* rejection, which start() and pollNow() rethrow and the loop survives.   *)

PollDone(w) ==
  /\ pc' = [pc EXCEPT ![w] = "idle"]
  /\ offers' = [offers EXCEPT ![w] = NoOffers]
  /\ acking' = [acking EXCEPT ![w] = {}]
  /\ todo' = [todo EXCEPT ![w] = {}]
  /\ shrinks' = [shrinks EXCEPT ![w] = {}]
  /\ UNCHANGED kind

(* Mutant: start() leaves it to the loop to schedule polls.                *)
SchedulePollInLoop(w) == pollTimer' = (pollTimer \/ (running /\ kind[w] = "loop"))

SchedulePoll(w) == pollTimer' = (pollTimer \/ (running /\ kind[w] # "now"))

PollReturns(w) == PollDone(w) /\ SchedulePoll(w) /\ UNCHANGED lifecycleVars

PollFails(w, held, instant) ==
  /\ PollDone(w)
  /\ UNCHANGED stopped
  /\ \/ /\ kind[w] = "start"
        /\ running' = FALSE
        /\ UNCHANGED <<ready, pollTimer>>
     \/ /\ kind[w] = "loop"
        /\ ready' = HasCompleteUnexpiredGrantSet(held, instant)
        /\ SchedulePoll(w)
        /\ UNCHANGED running
     \/ /\ kind[w] = "now"
        /\ UNCHANGED <<running, ready, pollTimer>>

(* Mutant: the tail forgets to rearm the expiration timer.                 *)
SettleReadinessOnly(held) ==
  /\ ready' = HasCompleteUnexpiredGrantSet(held, EffectiveNow)
  /\ UNCHANGED expirationTimer

(* The tail #applyDesiredState shares between three of its exits.          *)
SettleReadiness(held) ==
  /\ ready' = HasCompleteUnexpiredGrantSet(held, EffectiveNow)
  /\ expirationTimer' = ExpirationDue(held, skew)

-----------------------------------------------------------------------------
(* Lifecycle.                                                              *)

Start(w) ==
  /\ ~ running
  /\ stopped => Embedded
  /\ pc[w] = "idle"
  /\ running' = TRUE
  /\ stopped' = FALSE
  /\ pc' = [pc EXCEPT ![w] = "fetch"]
  /\ kind' = [kind EXCEPT ![w] = "start"]
  /\ UNCHANGED <<clockVars, controllerEpoch, leaseVars, ready, expirationTimer,
                 pollTimer, offers, acking, todo, shrinks>>

Stop ==
  /\ ~ stopped
  /\ running' = FALSE
  /\ stopped' = TRUE
  /\ drainTargets' = [p \in Pool |-> 0]
  /\ pollTimer' = FALSE
  /\ expirationTimer' = Off
  /\ ready' = FALSE
  /\ UNCHANGED <<clockVars, controllerEpoch, limits, fallbacks, grants, pollVars>>

(* The poll timer fires: #runPollLoop sends a desired-state request.       *)
PollLoop(w) ==
  /\ pollTimer
  /\ pc[w] = "idle"
  /\ pollTimer' = FALSE
  /\ pc' = [pc EXCEPT ![w] = "fetch"]
  /\ kind' = [kind EXCEPT ![w] = "loop"]
  /\ UNCHANGED <<clockVars, lifecycleVars, controllerEpoch, leaseVars, ready,
                 expirationTimer, offers, acking, todo, shrinks>>

(* An embedding program polls by hand.                                     *)
PollNow(w) ==
  /\ Embedded
  /\ pc[w] = "idle"
  /\ pc' = [pc EXCEPT ![w] = "fetch"]
  /\ kind' = [kind EXCEPT ![w] = "now"]
  /\ UNCHANGED <<clockVars, lifecycleVars, controllerEpoch, leaseVars, ready,
                 expirationTimer, pollTimer, offers, acking, todo, shrinks>>

(* A registration inside any request: the epoch it reports replaces the    *)
(* one observed so far, whatever that was.                                 *)
Register(e) ==
  /\ \E w \in Poller : pc[w] # "idle"
  /\ controllerEpoch' = e
  /\ UNCHANGED <<clockVars, lifecycleVars, leaseVars, ready, expirationTimer,
                 pollTimer, pollVars>>

-----------------------------------------------------------------------------
(* #poll: the response to a desired-state request.                         *)

(* The request fails, times out or answers with an error or nonsense.      *)
FetchFails(w) ==
  /\ pc[w] = "fetch"
  /\ PollFails(w, grants, EffectiveNow)
  /\ UNCHANGED <<clockVars, controllerEpoch, leaseVars, expirationTimer>>

(* A parsed response moves the clock estimate whatever happens to it next. *)
Receives(w, ahead) ==
  /\ pc[w] = "fetch"
  /\ skew' = ahead
  /\ UNCHANGED now

PollStaleEpoch(w, r, ahead) ==
  /\ Receives(w, ahead)
  /\ r.epoch < controllerEpoch
  /\ PollFails(w, grants, now + ahead)
  /\ UNCHANGED <<controllerEpoch, leaseVars, expirationTimer>>

(* Mutant: no fence.                                                       *)
AcceptsAnyEpoch(w, r, ahead) ==
  /\ Receives(w, ahead)
  /\ controllerEpoch' = r.epoch

(* The response passes the epoch fence.                                    *)
Accepts(w, r, ahead) ==
  /\ Receives(w, ahead)
  /\ r.epoch >= controllerEpoch
  /\ controllerEpoch' = r.epoch

(* onRoutingTopology throws: the router turns the member list down.        *)
TopologyThrows(w, r, ahead) ==
  /\ Accepts(w, r, ahead)
  /\ PollFails(w, grants, now + ahead)
  /\ UNCHANGED <<leaseVars, expirationTimer>>

Complete(r) == \A p \in Pool : r.offers[p] # NoGrant

SomeExpired(r, instant) == \E p \in Pool : r.offers[p].expiresAt <= instant

RefusedPools(r) ==
  {p \in Pool : Refused(limits[p], r.offers[p], fallbacks[p])}

(* Issued(r): the offers as the agent keeps them, each with its epoch.     *)
Issued(r) ==
  [p \in Pool |->
     [epoch |-> r.epoch, revision |-> r.offers[p].revision,
      expiresAt |-> r.offers[p].expiresAt, limits |-> r.offers[p].limits]]

(* Some managed pool has no grant: whatever is held stays in force.        *)
PollIncomplete(w, r, ahead) ==
  /\ Accepts(w, r, ahead)
  /\ ~ Complete(r)
  /\ ready' = HasCompleteUnexpiredGrantSet(grants, now + ahead)
  /\ expirationTimer' = ExpirationDue(grants, ahead)
  /\ PollReturns(w)
  /\ UNCHANGED leaseVars

(* Some grant arrives expired: nothing is applied, rejections are sent.    *)
PollExpired(w, r, ahead) ==
  /\ Accepts(w, r, ahead)
  /\ Complete(r)
  /\ SomeExpired(r, now + ahead)
  /\ pc' = [pc EXCEPT ![w] = "expired"]
  /\ UNCHANGED <<lifecycleVars, leaseVars, ready, expirationTimer, pollTimer,
                 kind, offers, acking, todo, shrinks>>

ExpiredAcked(w) ==
  /\ pc[w] = "expired"
  /\ SettleReadiness(grants)
  /\ PollReturns(w)
  /\ UNCHANGED <<clockVars, controllerEpoch, leaseVars>>

(* The first grant that cannot be applied stops the whole batch.           *)
PollRefused(w, r, ahead) ==
  /\ Accepts(w, r, ahead)
  /\ Complete(r)
  /\ ~ SomeExpired(r, now + ahead)
  /\ \E p \in RefusedPools(r) : acking' = [acking EXCEPT ![w] = {p}]
  /\ pc' = [pc EXCEPT ![w] = "refused"]
  /\ offers' = [offers EXCEPT ![w] = Issued(r)]
  /\ UNCHANGED <<lifecycleVars, leaseVars, ready, expirationTimer, pollTimer,
                 kind, todo, shrinks>>

(* This exit drops readiness and leaves the expiration timer as it was.    *)
RefusalAcked(w) ==
  /\ pc[w] = "refused"
  /\ ready' = FALSE
  /\ PollReturns(w)
  /\ UNCHANGED <<clockVars, controllerEpoch, leaseVars, expirationTimer>>

(* The updates a batch hands to applyLimits: the pools with a newer grant. *)
NewerPools(r) == {p \in Pool : r.offers[p].revision > limits[p].revision}

Updates(r) ==
  [p \in NewerPools(r) |-> GrantUpdate(limits[p], r.offers[p], fallbacks[p])]

ReadyToApply(w, r, ahead) ==
  /\ Accepts(w, r, ahead)
  /\ Complete(r)
  /\ ~ SomeExpired(r, now + ahead)
  /\ RefusedPools(r) = {}

(* applyLimits throws on a snapshot the pool cannot take: no grant of the  *)
(* batch is applied or acknowledged.                                       *)
PollThrows(w, r, ahead) ==
  /\ ReadyToApply(w, r, ahead)
  /\ PreflightThrows(limits, Updates(r))
  /\ PollFails(w, grants, now + ahead)
  /\ UNCHANGED <<leaseVars, expirationTimer>>

(* The batch is applied in one synchronous step; then the grants are       *)
(* recorded one at a time, each followed by its acknowledgement.           *)
PollApplies(w, r, ahead) ==
  /\ ReadyToApply(w, r, ahead)
  /\ PreflightPasses(limits, Updates(r))
  /\ limits' = ApplyLimits(limits, Updates(r))
  /\ fallbacks' =
       [p \in Pool |->
          IF p \in NewerPools(r) /\ limits'[p].classes # NoTable
          THEN limits'[p].classes ELSE fallbacks[p]]
  /\ drainTargets' =
       [p \in Pool |->
          IF drainTargets[p] = r.offers[p].revision THEN drainTargets[p] ELSE 0]
  /\ shrinks' =
       [shrinks EXCEPT ![w] =
          {p \in NewerPools(r) : NeedsDrainEvidence(limits[p], Updates(r)[p])}]
  /\ offers' = [offers EXCEPT ![w] = Issued(r)]
  /\ \E first \in Pool :
       /\ grants' = [NoOffers EXCEPT ![first] = Issued(r)[first]]
       /\ acking' = [acking EXCEPT ![w] = {first}]
       /\ todo' = [todo EXCEPT ![w] = Pool \ {first}]
  /\ pc' = [pc EXCEPT ![w] = "ack"]
  /\ UNCHANGED <<lifecycleVars, ready, expirationTimer, pollTimer, kind>>

-----------------------------------------------------------------------------
(* The acknowledgement of one applied grant is answered, or fails; the     *)
(* loop of #applyDesiredState goes on to the next grant.                   *)

TargetsAfterAck(w, delivered) ==
  [p \in Pool |->
     IF delivered /\ p \in acking[w] \cap shrinks[w]
     THEN offers[w][p].revision ELSE drainTargets[p]]

AckedNext(w, delivered) ==
  /\ pc[w] = "ack"
  /\ drainTargets' = TargetsAfterAck(w, delivered)
  /\ \E next \in todo[w] :
       /\ grants' = [grants EXCEPT ![next] = offers[w][next]]
       /\ acking' = [acking EXCEPT ![w] = {next}]
       /\ todo' = [todo EXCEPT ![w] = todo[w] \ {next}]
  /\ UNCHANGED <<clockVars, lifecycleVars, controllerEpoch, limits, fallbacks,
                 ready, expirationTimer, pollTimer, pc, kind, offers, shrinks>>

(* After the last one, a fresh heartbeat publishes drain evidence...       *)
AckedLast(w, delivered) ==
  /\ pc[w] = "ack"
  /\ todo[w] = {}
  /\ drainTargets' = TargetsAfterAck(w, delivered)
  /\ \E p \in Pool : drainTargets'[p] # 0
  /\ pc' = [pc EXCEPT ![w] = "evidence"]
  /\ acking' = [acking EXCEPT ![w] = {}]
  /\ UNCHANGED <<clockVars, lifecycleVars, controllerEpoch, limits, fallbacks,
                 grants, ready, expirationTimer, pollTimer, kind, offers, todo,
                 shrinks>>

(* ...unless nothing drains, and then the poll is over.                    *)
AckedAll(w, delivered) ==
  /\ pc[w] = "ack"
  /\ todo[w] = {}
  /\ drainTargets' = TargetsAfterAck(w, delivered)
  /\ \A p \in Pool : drainTargets'[p] = 0
  /\ SettleReadiness(grants)
  /\ PollReturns(w)
  /\ UNCHANGED <<clockVars, controllerEpoch, limits, fallbacks, grants>>

(* #commitPublishedDrainEvidence: `met' are the pools whose published      *)
(* occupancy is at or below their target.                                  *)
CommitEvidence(met) ==
  drainTargets' = [p \in Pool |-> IF p \in met THEN 0 ELSE drainTargets[p]]

EvidencePublished(w, met) ==
  /\ pc[w] = "evidence"
  /\ CommitEvidence(met)
  /\ SettleReadiness(grants)
  /\ PollReturns(w)
  /\ UNCHANGED <<clockVars, controllerEpoch, limits, fallbacks, grants>>

(* A heartbeat of the heartbeat loop is accepted.                          *)
HeartbeatAccepted(met) ==
  /\ \E p \in met : drainTargets[p] # 0
  /\ CommitEvidence(met)
  /\ UNCHANGED <<clockVars, lifecycleVars, controllerEpoch, limits, fallbacks,
                 grants, ready, expirationTimer, pollTimer, pollVars>>

-----------------------------------------------------------------------------
(* #failClosedExpiredGrants, when the expiration timer fires.              *)

TimerDue == expirationTimer # Off /\ expirationTimer <= now

KillSwitches(dead) == [p \in dead |-> KillSwitch(grants[p], limits[p])]

(* The effective clock moved back: nothing has expired yet.                *)
ExpirationEarly ==
  /\ TimerDue
  /\ ExpiredPools(grants, EffectiveNow) = {}
  /\ expirationTimer' = ExpirationDue(grants, skew)
  /\ UNCHANGED <<clockVars, lifecycleVars, controllerEpoch, leaseVars, ready,
                 pollTimer, pollVars>>

FailClosed ==
  /\ TimerDue
  /\ LET dead == ExpiredPools(grants, EffectiveNow)
         live == [p \in Pool |-> IF p \in dead THEN NoGrant ELSE grants[p]]
     IN  /\ dead # {}
         /\ PreflightPasses(limits, KillSwitches(dead))
         /\ limits' = ApplyLimits(limits, KillSwitches(dead))
         /\ grants' = live
         /\ drainTargets' =
              [p \in Pool |-> IF p \in dead THEN 0 ELSE drainTargets[p]]
         /\ expirationTimer' = ExpirationDue(live, skew)
  /\ ready' = FALSE
  /\ UNCHANGED <<clockVars, lifecycleVars, controllerEpoch, fallbacks,
                 pollTimer, pollVars>>

(* The pools refuse the kill switch: nothing closes, and the timer is      *)
(* armed again with no delay, which is the next instant.                   *)
FailClosedRefused ==
  /\ TimerDue
  /\ LET dead == ExpiredPools(grants, EffectiveNow)
     IN  /\ dead # {}
         /\ PreflightRefuses(limits, KillSwitches(dead))
  /\ ready' = FALSE
  /\ expirationTimer' = now + 1
  /\ UNCHANGED <<clockVars, lifecycleVars, controllerEpoch, leaseVars,
                 pollTimer, pollVars>>

(* Time passes.  The event loop runs a due timer before the clock moves on.*)
Tick ==
  /\ now < MaxTime
  /\ ~ TimerDue
  /\ now' = now + 1
  /\ UNCHANGED <<skew, lifecycleVars, controllerEpoch, leaseVars, ready,
                 expirationTimer, pollTimer, pollVars>>

-----------------------------------------------------------------------------
PollStep(w) ==
  \/ FetchFails(w)
  \/ \E r \in Response, ahead \in Skews :
       \/ PollStaleEpoch(w, r, ahead)
       \/ TopologyThrows(w, r, ahead)
       \/ PollIncomplete(w, r, ahead)
       \/ PollExpired(w, r, ahead)
       \/ PollRefused(w, r, ahead)
       \/ PollThrows(w, r, ahead)
       \/ PollApplies(w, r, ahead)
  \/ ExpiredAcked(w)
  \/ RefusalAcked(w)
  \/ \E delivered \in BOOLEAN :
       \/ AckedNext(w, delivered)
       \/ AckedLast(w, delivered)
       \/ AckedAll(w, delivered)
  \/ \E met \in SUBSET Pool : EvidencePublished(w, met)

ExpirationStep == ExpirationEarly \/ FailClosed \/ FailClosedRefused

Next ==
  \/ \E w \in Poller : Start(w) \/ PollLoop(w) \/ PollNow(w) \/ PollStep(w)
  \/ Stop
  \/ \E e \in Epochs : Register(e)
  \/ \E met \in SUBSET Pool : HeartbeatAccepted(met)
  \/ ExpirationStep
  \/ Tick

Spec == Init /\ [][Next]_vars

(* Requests end (requestTimeoutMs), armed timers fire, time passes.  The   *)
(* control plane owes nothing: failing every poll is fair.                 *)
Fairness ==
  /\ \A w \in Poller : WF_vars(PollStep(w)) /\ WF_vars(PollLoop(w))
  /\ WF_vars(ExpirationStep)
  /\ WF_vars(Tick)

FairSpec == Spec /\ Fairness

-----------------------------------------------------------------------------
(* Properties.                                                             *)

Open(p) == limits[p].maxConcurrent > 0

(* A poll is between installing a batch and rearming the expiration timer. *)
Installing == \E w \in Poller : pc[w] \in {"ack", "evidence"}

Recording(p) == \E w \in Poller : p \in todo[w]

(* The limits in force are those of this grant.                            *)
InForce(applied, grant) ==
  /\ applied.revision = grant.revision
  /\ applied.maxConcurrent = grant.limits.maxConcurrent
  /\ applied.budget = grant.limits.budget
  /\ grant.limits.classes # NoTable =>
       applied.classes = ReportedTable(grant.limits.classes)

(* The grant the agent holds for a pool is the one its limits come from.   *)
(* This is what lets the kill switch, stamped grant.revision + 1 and       *)
(* shaped like the grant, pass the preflight whenever the lease runs out.  *)
HeldGrantInForce ==
  \A p \in Pool : grants[p] # NoGrant => InForce(limits[p], grants[p])

(* No capacity is orphaned: a pool that is open has a grant the expiration *)
(* kill switch will find, or is about to get it from the poll that opened  *)
(* it.  #grants is cleared before a batch is recorded entry by entry, so   *)
(* this relates three pieces of state that no single step updates.         *)
NoOrphanCapacity == \A p \in Pool : Open(p) => grants[p] # NoGrant \/ Recording(p)

(* Capacity never outlives its lease: the kill switch has run, or its      *)
(* timer is due at this very instant.  The one exception the code makes is *)
(* a batch that is still being acknowledged.                               *)
LeaseBound ==
  running /\ ~ Installing /\ ~ TimerDue =>
    \A p \in Pool : Open(p) => grants[p] # NoGrant /\ now < grants[p].expiresAt

(* /readyz is 200 only while every managed pool holds a grant that has not *)
(* run out and whose capacity is installed, with the same two exceptions.  *)
ReadyMeansLeased ==
  running /\ ready /\ ~ Installing /\ ~ TimerDue =>
    \A p \in Pool :
      /\ grants[p] # NoGrant
      /\ now < grants[p].expiresAt
      /\ InForce(limits[p], grants[p])

(* The poll loop never dies: whichever of its many exits a poll takes,     *)
(* while the agent runs another poll is in flight or scheduled.            *)
PollerAlive == running => pollTimer \/ \E w \in Poller : pc[w] # "idle"

(* An "applied" acknowledgement tells the truth when it is sent: although  *)
(* the acknowledgements of a batch are sent one after another, the grant   *)
(* it names is in force at that moment.                                    *)
TruthfulAck ==
  [][\A w \in Poller :
       pc'[w] = "ack" /\ acking'[w] # acking[w] =>
         \A p \in acking'[w] : InForce(limits'[p], offers'[w][p])]_vars

(* Fencing: the grant held for a pool gives way to one from an older       *)
(* controller epoch only after a registration has lowered the fence.       *)
EpochFence ==
  [][\A p \in Pool :
       grants[p] # NoGrant /\ grants'[p] # NoGrant =>
         \/ grants'[p].epoch >= grants[p].epoch
         \/ controllerEpoch < grants[p].epoch]_vars

(* A revision names one snapshot, however many polls overlap: limits only  *)
(* change under a higher revision, so a delayed response cannot reopen a   *)
(* pool the kill switch has closed, nor undo a newer grant.                *)
RevisionNamesSnapshot ==
  [][\A p \in Pool :
       limits'[p] # limits[p] => limits'[p].revision > limits[p].revision]_vars

(* The agent never turns down, as a conflict of content, the very grant it *)
(* applied and still holds: polls repeat the desired state until it        *)
(* changes, and a repeat is to be acknowledged as applied.                 *)
NoSpuriousConflict ==
  \A w \in Poller : pc[w] = "refused" =>
    \A p \in acking[w] :
      ~ /\ grants[p] # NoGrant
        /\ grants[p].revision = offers[w][p].revision
        /\ grants[p].limits = offers[w][p].limits

(* When a grant expires the pool closes: the pools never turn the kill     *)
(* switch down, and its snapshot never makes them throw.                   *)
ExpirationClosesPools ==
  TimerDue => PreflightPasses(limits, KillSwitches(ExpiredPools(grants, EffectiveNow)))

(* What resolveGrantAdmissionClasses is there for: whatever the classes of  *)
(* a grant are, it is applied or turned down with an acknowledgement.  A    *)
(* batch whose token budgets have the shape of their pools, and whose own   *)
(* floors fit (which parsing checks), must not make applyLimits throw.      *)
ClassesNeverThrow ==
  [][\A w \in Poller, r \in Response, ahead \in Skews :
       PollThrows(w, r, ahead) =>
         \E p \in Pool :
           (r.offers[p].limits.budget = Unset) # (limits[p].budget = Unset)]_vars

(* The instant up to which the control plane has lent the pool's capacity. *)
LeaseEnd(p) ==
  IF Recording(p)
  THEN offers[CHOOSE w \in Poller : p \in todo[w]][p].expiresAt
  ELSE IF grants[p] # NoGrant THEN grants[p].expiresAt ELSE 0

Lapsed(p) == running /\ Open(p) /\ LeaseEnd(p) < now

(* What the README says of expiration: it is enforced locally, and waiting *)
(* for acknowledgements does not hold it up.                               *)
AcksDoNotDelayExpiration == \A p \in Pool : ~ Lapsed(p)

(* Capacity that outlived its lease, as it may while a batch is being      *)
(* acknowledged, is closed or leased again, even if the control plane      *)
(* never answers another request.                                          *)
LapsedLeaseEnds == \A p \in Pool : Lapsed(p) ~> ~ Lapsed(p)

-----------------------------------------------------------------------------
(* Refinement: polls, acknowledgements, timers and heartbeats amount to    *)
(* lending, settling and expiring.  (With polls that overlap, an entry of  *)
(* `todo' no longer names one lease, so this is for one poller.)           *)
Leased ==
  INSTANCE LeasedCapacity
  WITH serving <- running,
       settled <- ~ Installing,
       slots <- [p \in Pool |-> limits[p].maxConcurrent],
       revision <- [p \in Pool |-> limits[p].revision],
       lease <- [p \in Pool |-> LeaseEnd(p)]

(* The agent implements the abstract lease: capacity moves only under a    *)
(* higher revision, for a lease that runs or because its own has run out,  *)
(* and no instant passes over capacity that is overdue once a batch is     *)
(* settled.                                                                *)
ImplementsLeasedCapacity == Leased!Spec
=============================================================================
