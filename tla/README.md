# A TLA+ model of the Tyr admission controller

Tyr (`src/`) is a gateway in front of LLM providers. It decides which requests
may proceed now, queue, or must be turned away, under concurrency and token
limits that are either configured or leased to the replica by a control plane,
Latchflo. This directory holds TLA+ models of the parts of Tyr where order,
timing and failure matter, the TLC runs that check them on small instances, and
TLAPS proofs of the results that matter most.

Paths below are relative to the repository; `latchflo.ts` is
`src/latchflo.ts` and so on.

## 1. The system

| component | state | operations | hard behaviour |
|---|---|---|---|
| Latchflo agent (`latchflo.ts` `LatchfloTyrAgent`) | grants, fallbacks for class tables, drain targets, readiness, controller epoch, clock estimate, three timers | `start`, `stop`, `pollNow`, the poll loop, the expiration timer, the heartbeat loop | awaits between installing, recording and acknowledging grants; expiration during any of them; delayed and stale answers; epochs |
| Grant decisions (`latchflo.ts`, pure helpers) | none | equality, class resolution, kill switch, drain evidence | absent against zero, fallback tables, shape of snapshots |
| Pool limits (`pools.ts` `applyLimits`, `validateLimitSnapshot`) | limits and revision of each pool | all-or-nothing replacement | a batch with one bad entry; exceptions against refusals |
| Latchflo session (`latchflo.ts` `#register`, `#authorizedFetch`) | agent token, registration in flight | register, refresh after a 401, persist | several requests meeting a 401 together; rejected persisted tokens |
| Heartbeats (`latchflo.ts` `#heartbeat*`) and demand (`demand.ts`) | heartbeat queue, counters at the last accepted capture | capture, publish, commit | lost answers, evidence older than the shrink it is to prove |
| Managed mode (`latchflo.ts` `createLatchfloManagedMode`, `index.ts`) | started, starting, stopped, retry timer | start, stop, retry | stop during a start in flight |
| Pool admission (`pools.ts` `createPool`, `admission*.ts`) | admitted and waiting requests, class occupancy, provenance of 64 revisions | prepare, run, stats, drain | borrowing between classes, queue deadlines, shrinking by attrition |
| Capacity router (`routing.ts`) | peers, cached snapshots, topology revision | `applyTopology`, refresh, `select` | snapshots older than the topology or than each other |
| Request handler (`server.ts` `handle`) | one request's slot, timers, streams and audit record | admit, forward, stream, settle, shut down | disconnect, idle timeout, upstream failure and end of stream racing to settle once |
| Progressive reconciliation (`progressive-reconciliation.ts`) | the output a stream has still to produce | `reportUsage` | cumulative reports, steps, the safety margin |
| Request ingress (`identity.ts`, `admission-policy.ts`, `classify` and `forwardedHeaders` of `routing.ts`, the head of `handle`) | cached keys, the load in flight | authenticate, assign priority and class | key rotation during a shared load; tokens that run out meanwhile; who decides first |
| Retry hints, upstream failure classes, token estimation, adapters, SSE parsers, configuration, telemetry, CLI | averages, formats, counters | arithmetic, parsing, formatting | left out, see section 7 |

How they interact: `index.ts` creates the gateway (`server.ts`), which creates the
pools; managed mode drives the agent, which reads and replaces pool limits
(`control.limits()`, `control.applyLimits()`) by direct synchronous calls, hands
new topologies to the router by a callback, and captures demand for each
heartbeat. Requests meet the pools through `Pool.run`. Everything shares one
JavaScript event loop, so the only points where components interleave are
awaits, timers and stream callbacks. All other parties (Latchflo, peers,
providers, clients) are reached by HTTP and may answer late, wrongly or never.

What makes each part correct, in short: the agent never keeps capacity open
longer than it was leased, never mistakes an old grant for a new one, never
says it applied what it did not, and always polls again; limits change all
together or not at all and only under a higher revision; the session registers
once for any number of failed requests; accepted demand is reported once;
managed mode ends stopped if stopped last; admissions stay within limits and
floors, and every slot is released once; the router never forwards to a peer
that the latest topology does not have, nor on capacity older than it may be; a
request is entitled to what its identity earned, by keys its provider still
publishes; it is settled and audited exactly once.

## 2. Modules

`PoolLimits` is the transaction of `pools.ts`. A snapshot of limits is a record
of a revision, a concurrency ceiling, an optional token budget and an optional
table of class floors. `PreflightPasses`, `PreflightRefuses` and
`PreflightThrows` are the three outcomes of the first loop of `applyLimits`,
and `ApplyLimits` is the second. `maxQueue`, `highPriorityReserve`, token floors
and hard class ceilings are validated, compared and replaced exactly as the
fields kept, and are left out. The bulkhead library reports a floor of zero as
no floor (`ReportedTable`, external).

`GrantDecisions` holds the pure helpers of `latchflo.ts` that judge one grant
against the installed limits: why it is refused, which class table it leads to,
what is installed for it, whether work must drain, and the kill switch.
`Parses` is what `parseLimits` lets through; the limits a control plane may grant
are assumed to satisfy it (`ContentAssumption`), as anything else is an answer that
does not parse.

`LatchfloAgent` is the agent. Its variables are the private fields of
`LatchfloTyrAgent`; `pc`, `kind`, `offers`, `acking`, `todo` and `shrinks` are the
local state of each `#poll` in flight. An action is the code between two awaits:

| action | code |
|---|---|
| `Start`, `Stop`, `PollNow`, `PollLoop` | `start()`, `stop()`, `pollNow()`, the poll timer |
| `Register` | `#register` inside any request: it overwrites the epoch |
| `FetchFails` | the desired-state request fails, or its answer does not parse |
| `PollStaleEpoch`, `TopologyThrows` | the fence of `#poll`; the topology callback throws |
| `PollIncomplete`, `PollExpired`/`ExpiredAcked`, `PollRefused`/`RefusalAcked`, `PollThrows` | the ways `#applyDesiredState` ends without installing |
| `PollApplies`, `AckedNext`, `AckedLast`, `AckedAll`, `EvidencePublished` | a batch is installed, recorded and acknowledged one grant at a time, then drain evidence is published |
| `HeartbeatAccepted` | a heartbeat of the loop meets some drain targets |
| `ExpirationEarly`, `FailClosed`, `FailClosedRefused` | `#failClosedExpiredGrants` |
| `Tick` | time passes |

The control plane is any sequence of well-formed answers: for each pool no
grant, or any revision, expiry and limits from the constants, under any epoch
and with any clock. So answers that are late, repeated, reordered or out of
date are all included. Two clocks are kept, `now` and how far the estimated
control-plane clock is ahead of it (`skew`), since the code trusts whichever is
ahead. Latchflo stamps odd revisions and reserves the next even one for the kill
switch; the runs grant revisions 1 and 3.

`Embedded` says whether the agent lives in some other program than Tyr. In Tyr
itself `pollNow()` is never called and `start()` never follows `stop()`
(`index.ts` stops the agent only on a signal). The public class allows both, and
the repository's verification scripts and tests use `pollNow()`.

`MCLatchfloAgent` gives the constants their values, as `MCDemandHeartbeats`,
`MCPoolAdmission`, `MCCapacityRouter` and `MCRequestIngress` do for theirs. `LatchfloAgentProofs`
holds the theorems, as `DemandHeartbeatsProofs`, `LatchfloSessionProofs`,
`PoolAdmissionProofs`, `CapacityRouterProofs` and `RequestIngressProofs` do for their
modules; `FiniteSetFacts` has the lemmas they share.

`DemandHeartbeats` is the other conversation with Latchflo: what Tyr reports.
It keeps of a poll only the batch of ceilings it installs and acknowledges, and of
a pool its ceiling, its occupancy and the count of its admissions. The agent and
the model share the drain targets; here they have their revision and ceiling,
which `LatchfloAgent` leaves out. Latchflo is external: it sees a heartbeat or
not, and may see one whose answer is then lost.

| state or action | code |
|---|---|
| `queue`, `Turn` | the promise chain `#heartbeatTail` |
| `accepted`, `pending`, `Capture`, `Commit`, `Delta` | `demand.ts`: the checkpoints, `capture()`, `commit()` |
| `HeartbeatLoop`, `HeartbeatNow`, `Answered`, `Fails`, `Schedule` | the heartbeat timer, `heartbeatNow()`, the ends of a heartbeat |
| `targets`, `Met`, `TargetReady` | `#drainEvidenceTargets`, `#commitPublishedDrainEvidence` |
| `PollApplies`, `AckedNext`, `AckedLast`, `AckedAll` | the part of `#applyDesiredState` that sets targets |

`RequestHandler` is `handle()` in `server.ts` with the callback it gives to
`Pool.run`, `waitForDrain()`, `proxyToCapacityPeer()` and `shutdown()`. A request
is one record: where its handler is, what its callback awaits, the signal, the
`failureKind`, its response, its client and its upstream. The bulkhead is
external, a FIFO of waiters before `MaxConcurrent` slots; a run on a borrowed slot
may be abandoned at its deadline, after which handler and callback go separate
ways.

| action | code |
|---|---|
| `Arrive`, `TurnedAway`, `AwaitHook` | `handle()` before admission: body, validation, `resolvePriority`, `resolveAdmissionClass` |
| `Admit`, `QueueTimeout`, `Forward` | the close listener is attached, then `pool.run` or the peer |
| `StreamStarts`, `TextStarts`, `TextEnds`, `ChunkSent`, `ChunkRead`, `StreamEnds`, `UpstreamFails` | the callback of `run`, and the upstream |
| `ResponseTimeout`, `ForwardTimeout`, `IdleTimeout`, `StallTimeout`, `BorrowDeadline` | the timers, and the deadline of a borrowed slot |
| `ClientDrains`, `ClientLeaves`, `ClientFinishes` | `drain` and `close` of the response |
| `Shutdown`, `DrainEnds`, `DrainTimeout`, `ServerCloses` | `shutdown()` |
| `Send`, `CloseEvent`, `Settle`, `Unwind`, `Complete`, `Rejected` | what these have in common: heads, the close listener, the catch blocks |

An abort rejects the fetch it was given to at once, so the step that aborts also
unwinds the callback. Pools run in `enforce` mode; status codes, headers, usage
and the observe mode are left out. `RequestHandlerProofs` holds its theorems.

`LeasedCapacity` is what the agent promises the lender of its capacity, with
polls, acknowledgements, timers and heartbeats left out: slots change under a
higher revision only, either for a lease that runs or because their own has run
out, and once a batch is settled the clock does not move past a lease whose
capacity is still open. `LatchfloAgent` instantiates it (`Leased`): `slots` and
`revision` are those of `limits`, `lease` is `LeaseEnd` (the grant held, or the
one the poll is about to record), `settled` is that no poll is between installing
a batch and rearming the timer. `ImplementsLeasedCapacity` is `Leased!Spec`.

`LatchfloSession` is how a replica gets and keeps its connection: managed mode
around the agent, the token its requests carry, the registration they share, and
the file from which the next process starts. A caller (the `start()` of the
agent, a poll loop, a heartbeat) is at one request at a time (`flow`); what the
requests say is left out.

| state or action | code |
|---|---|
| `Asks`, `Serve`, `Fails`, `Receive`, `Rejected` | `#authorizedFetch` and `#request`: sent with the token there is, answered, failed, read to the end, refused with 401 |
| `token`, `InUse`, `TokenWithoutBootstrap` | `#agentToken`, `#refreshAuthorization` |
| `registration`, `EnsureRegistered`, `Issue`, `Registered`, `RegistrationFails`, `Resume` | `#ensureRegistered`, `#register`, and who waited for it |
| `disk`, `Crash` | `persistAgentToken`, `loadAgentToken` by the next process |
| `PollTimerFires`, `HeartbeatTimerFires`, `Reschedules` | the two loops, as far as their timers |
| `Start`, `Stop`, `AttemptStart`, `StartSucceeds`, `StartThrows`, `RetryFires` | `createLatchfloManagedMode` |
| `Serve`, `Issue`, `Revoke` (external) | Latchflo takes the newest token it has issued, and may forget it |

`CapacitySnapshots` holds the pure functions of `routing.ts`: what a replica
publishes of its pools (`PoolCapacity`), how a peer validates and reads a
snapshot of each schema (`PoolUnderstood`, `ReadPool`), and the score and order
of candidates (`Headrooms`, `Score`, `Better`, `ChooseCandidate`). Concurrency and
tokens are accounted alike, so both are a `share`; ratios are fractions, compared
by cross multiplication where the code divides.

`PoolAdmission` is one pool of `pools.ts` over the external bulkhead: slots given
first come first served, a postcheck in a microtask that reserves tokens and
floors, limits that change underneath, usage reports that shrink what a call
holds, borrowed slots taken back at their deadline, evidence of the grant each
admission was made under, and drain. It publishes its statistics through
`CapacitySnapshots`, so the router's arithmetic is checked in every state a pool
can be in.

| action | code |
|---|---|
| `Submit`, `Postcheck`, `LeaveQueue` | `prepare()` and `run()`; the bulkhead grants, checks again, times out or aborts |
| `Report`, `Deadline`, `Settle` | `reportUsage` through the reconciler; the deadline of a borrowed slot; the callback ends |
| `ApplyLimits`, `Retain`, `RecordAdmission` | `applyLimits` of one pool, `retainProvenance`, the `admit` listener |
| `Drain`, `DrainEnds` | `close()`, `drain()` |

`CapacityRouter` is `CapacityAwareRouter` at one replica. A cache entry is named
by its peer and the revision it was made under, as the code's probes hold a
reference to the entry they were started for; `select()` changes nothing and is an
operator (`Select`), so what is claimed of it is claimed in every state for
every request of `Requests`.

| action | code |
|---|---|
| `Start`, `Stop`, `SyncPolling`, `Poll` | `start()`, `stop()`, `#syncPolling`, the interval |
| `ApplyTopology` | `applyTopology()` |
| `ProbeAnswered`, `ProbeFails` | one fetch of `refresh()`, which is joined while any of it is in flight |
| `Tick` | time passes; no probe outlives its deadline |

`RequestIngress` is what happens before a request is entitled to anything:
`Classify` tells peers from clients, `Arrive`, `Sample`, `HeadersArrive`,
`Loaded` and `LoadFails` are the key cache of `identity.ts` with its shared load,
`Verified` the verdict on a token, `Priorities` and `Assigned` the sources of
priority and class in the order `handle()` consults them, `ResolveClass` the
rules, `ForwardedHeaders` what the next replica sees. The provider of the keys is
external: `Rotate` publishes another document at any time. A token and a document
are records of what parsing leaves of them, and a signature is good when its key
is the one in the document.

## 3. Properties

*HeldGrantInForce*: the grant the agent holds for a pool is the one whose limits
are installed. Everything else rests on it: the kill switch is stamped with the
held grant's revision plus one and shaped like it.

*NoOrphanCapacity*: an open pool has a grant the kill switch will find, or is
about to be given one by the poll that opened it.

*LeaseBound*, *ReadyMeansLeased*: outside the window in which a batch is being
acknowledged, open capacity has an unexpired lease, and a ready agent has one,
in force, for every pool.

*ExpirationClosesPools*: when grants expire, the pools accept the kill switch.

*LapsedLeaseEnds* (liveness): capacity that outlived its lease in that window is
closed or leased again, whatever the control plane does.

*TruthfulAck*: what the agent tells the control plane about a grant is true.
*ClassesNeverThrow* (refuted, section 6): it tells it something.

*EpochFence*, *RevisionNamesSnapshot*: an older controller, or an older answer of
the same one, never replaces what a newer one installed.

*PollerAlive*: while the agent runs, a poll is in flight or scheduled.

*ImplementsLeasedCapacity*: all of the agent together is an instance of the abstract
lease.

*RegistersOncePerLoss*: each registration is owed to one loss of the valid token
(revoked, replaced in a lost answer, not on disk after a crash); requests refused
together, late refusals and retries cost none. *StaysStopped*: nothing in flight brings a stopped agent back.
*Connects* (liveness): a replica that can register gets connected, and again.

*ReportedOnce*: an admission Tyr takes for reported has been seen by Latchflo
(`NoPressureLost`), and none is reported twice unless an answer was lost
(`CountedOnce`).

*HeartbeatAlive*, *DrainProofArrives*: the heartbeat loop survives every failure,
and occupancy that came within its drain target is proved to Latchflo in the end.

*DisconnectHonoured*: once the connection of a client is gone, nothing waits or works
for it.

*SettledOnce*, *BlameFits*: an admitted or rejected request is audited exactly
once, though the handler and an abandoned callback both end it, and the audit
blames the party at fault whatever else was writing `failureKind`.

*OneHead*, *ClientsKnow*: no response gets two heads, and when its handler is
done a client has a response that ended or a connection that is cut.

*QuietAfterDrain*: after the drain no admitted work goes on.

*HoldFitsFuture*: what a call holds covers what it may still produce and the
margin, and is at most a step above that. *UnusedFloorsKept*: an admission never
eats a protected floor that is unused, though the slot was granted before the
check and limits changed between. *EvidenceTruthful*: a record of an admission
names the limits and the grant in force then. *DrainedIsQuiet*: `drained` counts
the calls that lost their slot but not their tokens.

*SnapshotsUnderstood*, *ScoreIsExact*: a peer accepts every snapshot a pool can
publish, and concludes from it what the bulkhead would have decided. The second
is for requests of high priority and for pools without a reserve (section 6).

*RouteIsCurrent*, *RouteIsFresh*: a request is forwarded to a peer of the newest
topology only, on capacity fetched from its address there after it joined, and no
older than `staleAfterMs` and one probe. *NoMutualForwarding*: the peer chosen
would keep the request; two replicas that see each other as they are never swap
one. *PeersRefreshed* (liveness): a peer that stays is known afresh again and
again.

*RevokedKeyLapses*, *PublishedKeyFound*: a withdrawn key stops opening doors, and a
new one opens them, within the life of a cached document and a load, although
loads are shared, fail, or overlap a rotation. *HopKeepsDecision*: priority and
class, once decided, survive the hop to a peer that would decide otherwise.
*AuthenticationEnds* (liveness): every request is decided.

*SlotsCirculate* (liveness): slots come back (`HoldsReturn`) and waiters are served
(`WaitersServed`), whatever upstreams and clients do.

## 4. Runs

| run | instance | shows |
|---|---|---|
| `agent_lease` | 2 plain pools, one ceiling, revisions {1,3}, expiries {1,3}, skew {0,1}, time to 4, fair | the lease properties, the poll loop, liveness of expiration and the refinement of `LeasedCapacity`: two pools so that a batch has a part recorded and a part not, two expiries so that one lease outlives the other |
| `agent_classes` | 1 pool with a token budget and 2 classes, 5 contents, 2 epochs, skew {0,1}, expiries {1,3}, time to 4 | grants with and without tables, with wrong keys, without the budget, or with other content under a revision already seen; drifting clock; changing controllers; what is acknowledged is true |
| `agent_embedded` | 2 plain pools, 2 polls in flight, `Embedded` | overlapping polls; deadlock is checked |
| `demand` | a busy pool with ceilings 0 and 1 and 2 admissions, an idle pool acknowledged beside it, 2 heartbeats outstanding by the loop, polls and callers, fair | what is reported when heartbeats wait, fail and lose answers; drain evidence after a grow and a shrink |
| `session` | `start()`, 2 polls, 1 heartbeat, with and without bootstrap token and token file; one fault, revocation and crash, 2 starts | registration, tokens, restarts and managed mode |
| `request_safety` | 3 requests, 1 slot, 2 places in the queue, one request on a borrowed slot, peers | everything that ends a request racing everything else |
| `request_live` | 2 requests, 1 slot, an asynchronous hook, 2 chunks, fair | slots and waiters |
| `pool_admission` | 3 requests, 2 classes, 4 configurations (one invalid), 5 offers (one invalid), 2 revisions, 1 record and 1 revision retained | admission under limits that grow, shrink and close; the snapshots and scores of every state |
| `router` | replica 2 of 3, 2 addresses, 4 topologies (one with a peer twice), 5 answers (one inconsistent, one of schema 2), 6 requests | topologies racing probes; selection |
| `ingress` | 2 requests, 2 keys in 3 documents, 3 tokens, 5 policies (one invalid), cache for 2 ticks, loads of 1 and bodies of 1 | rotation racing shared loads; who decides priority and class |
| `agent_classless`, `session_body` | as `agent_classes` and `session`, smaller | the findings of section 6 |

Time in the agent is bounded by `MaxTime`: past the last expiry nothing new can
happen, and the bound leaves at least one instant after it. Revisions are taken
from {1, 3}: an applied and a newer grant, each with its kill switch, are every
comparison the code makes. A single poll makes at most one pass over two pools,
and the code treats pools independently except through "all" and "some".
A heartbeat compares the counters of one pool with one checkpoint, pools being
captured and committed together and compared one by one, so two admissions are a
part reported and a part not; two heartbeats outstanding are one
under way and one waiting, and more wait like the second. Three requests for one
slot are one that holds it, one that is handed it and one that waits on; one
chunk is a stream before, at and after its last read.

Three calls of a pool are two that are granted slots by the same change and one
that was there before; two revisions are the limits a call was admitted under, and
newer ones, and with one revision and one record retained both limits of the
retention are passed. In the router and the ingress time is relative, ages that
count up to just past the bound the code compares them with, so their state is
finite without a horizon; topologies stop at `MaxTopology`, since a third would be to
the second what the second is to the first. In the session `MaxTokens` is never
reached (`issued` is at most `losses`, which the other bounds keep below it); the other bounds are one of each misfortune, which may
strike at any point, and two starts, so that one follows a stop.

`CHECK_DEADLOCK FALSE` is set where an agent that was stopped for good, a server
that has closed, a pool that is drained or a bounded environment has nothing left
to do.

Fairness (`Fairness` in `LatchfloAgent`): a request ends, in any way
(`#request` aborts it after `requestTimeoutMs`; the reading of a body is bounded
only by `fetch` itself), an armed timer fires, and time passes. Nothing is
assumed of what the control plane answers, so `FetchFails` for ever is fair.

In `DemandHeartbeats` the timers fire and requests are sent, and of Latchflo it is
assumed that a heartbeat the agent itself sends again and again is at last seen and
answered (SF of `OwnFirst` with `Seen` and `Answered`): if every one is lost,
nothing can be proved to it, and the heartbeats of an embedding program prove
nothing, as `heartbeatNow()` retires no target. Strong fairness of `PollStep` and
`HeartbeatLoop` is owed to `MaxQueue`, a guard the code does not have: without it they
would stay enabled.
In `LatchfloSession` requests are answered or time out before their headers
arrive, timers fire, continuations run (`HeaderSpec`); `FairSpec` adds that what
Latchflo has begun to answer it answers to the end, which the code does not
enforce: that is the finding of `session_body`. Faults, revocations, starts and
crashes are bounded in number, so `Connects` is about what follows the last one.
In `CapacityRouter` time passes, the interval fires, probes end by their deadline,
and a peer that is probed again and again answers usably now and then. In
`RequestIngress` time passes and a load ends: by an answer, by the deadline of its
headers or by the patience of the HTTP client with its body.
In `RequestHandler` timers fire, callbacks that are ready run, and what precedes
admission ends (Node's default `requestTimeout`, which `server.ts` leaves in place,
bounds the body; a hook that never answers holds no slot). The bodies no timer of
Tyr watches, a buffered answer (`text()`) and the stream of a peer, end because
`undici` bounds the wait for each of their parts. Clients owe nothing. `IdleTimeout` does not race a chunk
that is ready while the loop is free to read it: the timeout is far longer than
one turn of the event loop.

Each property of a passing run is paired in `PROJECT.json` with a small mutant
of the model, a bug the code could plausibly have, that violates it.

## 5. Proofs

Every safety invariant and action property the passing runs check, and the
refinement of `LeasedCapacity`, is a theorem: for any set of pools, classes,
calls, requests, peers and keys, any limits, revisions, expiries, documents and
policies, and any bound a module names. The invariants the theorems rest on hold
on the instances of the runs too: extend the module of the run and the proof module,
and give TLC the invariant. The proofs go action by action, and in each action
conjunct by conjunct.

What is assumed of the constants stands beside them, named, and is what the code
or its validation guarantees: limits parse (`ContentAssumption`,
`LimitsAssumption`), an estimate is not zero (`SizesAssumption`), absent values are
no values (`NullAssumption`, `AbsenceAssumption`), what a peer may send has the
fields that are read of it (`BodiesAssumption`). Some theorems have a hypothesis of
their own, the same under which their run checks the property:

| hypothesis | what it says | where it is false |
|---|---|---|
| `SinglePoller` | one poll at a time, as in Tyr's own process | a program that calls `pollNow()` (section 6) |
| `~ Embedded` | nobody restarts a stopped agent | such a program; a restart does not arm the timer for the grants still held |
| `IsFiniteSet(Class)` | finitely many class names, for the sum of the kill switch's floors | nowhere |
| `~ Hooks` | no asynchronous hook | section 6: what depends on noticing a client is false with them |

`FiniteSetFacts` holds what the proofs share. The library's induction theorems take
an operator as parameter, which no installed prover instantiates, so it derives
induction over sets of numbers from the library's `WFMin` (`NatInduct`), and from that
induction over a finite set along `Pick` (`PickInduct`): the set of the good cases takes
the place of the operator. With it the folds become usable: a sum exists and
unfolds (`SumUnfolds`), is monotone and additive (`SumBelow`, `SumAdds`), changes by
what one term changes (`SumChanges`), and is no less than the sum of disjoint parts
of it (`SumOfParts`). `BestExists` gives a total preorder on a finite set its best
element, which is what a `CHOOSE` of the router needs.

`LatchfloAgentProofs`. `TypeCorrectness` (with the strengthening that a poll in flight
knows its offers), `RevisionsNameSnapshots` and `PollerStaysAlive` hold for any number of
overlapping polls. The last needs `LoopAlive`: a poll of the loop or of `start()` is in
flight or the timer is armed, and a poll that ends hands over. The key to the second is that
`ApplyLimits` under `PreflightPasses` raises the revision of each pool it touches.
The rest is for one poll. `HeldGrantInForce` is not inductive: while a batch is
being recorded, the grants still to come must match the limits as well, and no
other poll may be between its fetch and its end. `RecordFacts` says so; it gives
`GrantsInForce`, `CapacityIsAccountedFor`, `AcksAreTruthful`, `EpochsAreFenced`, and
`ExpirationCloses`: a kill switch has the shape of the limits it replaces, the keys
of their table included, and floors that add up to nothing. `TimerFacts` adds that
outside the acknowledging window the expiration timer is armed no later than the
earliest expiry held; with both, `CapacityStaysLeased` and `ReadinessMeansLeased`
follow. `AgentLeases` is the refinement, step by step: the initial states map to initial
states, and each action maps to the grant, closing or passing of time of
`LeasedCapacity`, or to a stutter. A lease
there ends when its pool's entry does, whether recorded or still to be recorded
(`LeaseEnd`), and `SpanFacts` adds to the invariant above that what is held has an
expiry and a drift the control plane has really shown.

`RequestHandlerProofs`. None of its safety properties is inductive: that a request is
audited once needs that its handler and its callback cannot both believe they are the
one to settle it. `IInv` therefore describes the life of each request (`Good`): before
admission nothing has been written, audited or sent; in service it has its close
listener and at most the head of a stream; over, it was answered or cut and is
settled. Globally the queue agrees with the handlers, nothing waits after a
shutdown and, without hooks, no callback survives the drain. `LivesAreOrderly`
proves it; from it follow `TypeCorrectness`, `AuditedOnce`, `HeadsAreSingle` and
`ClientsAreTold` and, with `~ Hooks`, `DisconnectsAreHonoured` and `DrainsAreQuiet`. For
`BlameIsFair`, also with `~ Hooks`, `FailureTold` is added: while a request is served no
failure is on record but that of a stream aborted as idle, which waits for its client. So
whatever overwrites `failureKind` does it in the step that settles the request.

`DemandHeartbeatsProofs`. `DemandIsReportedOnce` rests on the order of the checkpoints
(`CheckpointsOrdered`), on the heartbeat under way reporting exactly what was captured
since the checkpoint in force (`ReportsCapture`), which holds because only the first of
the chain is under way (`OneUnderWay`), and on Latchflo's count being exact until an answer
is lost (`ExactUntilLost`). `HeartbeatsStayAlive` is inductive with the types.

`LatchfloSessionProofs`. `RegistersOnce` counts: every registration but the one still to
come has been paid for by a loss (`LossesCoverIssued`). It needs that a refusal is final,
so that a late 401 never drops a good token (`RefusalIsFinal`), and that no registration
is in flight while there is a token. `AgentStaysStopped` is inductive.

`PoolAdmissionProofs`. `CallFacts` ties each call to the queue and the granted slots,
to its size and to its reports; it holds through `Proceed`, which moves any
number of waiters at once. It gives `DrainedStaysQuiet` and `HoldsFitFuture`, the second
because a call is behind its reports by less than a step whatever their order.
`EvidenceIsTruthful` adds that the retained grant of the revision in force is the one it
came with. `LimitsTold`, the floors fit, gives `SnapshotsAreUnderstood` and
`ScoresAreExact`: both relate sums over classes and sums over calls
(`FloorsAddUp`). `AdmissionsKeepFloors` also needs that while slots await their
postcheck no more are taken than there are (`FlightTold`): limits that shrink leave a
pool overcommitted, but nobody is then granted a slot. From the check of the bulkhead,
which counts shared use, it follows that what the floors still promise fits beside the
call, however many were granted with it.

`RequestIngressProofs`. Time is told by four facts: a load is within its deadline, the
histories of publication agree with what is published, a document on its way is as old as
its load, and a cached key is as old as its document was and the time it has been cached
(`TellsTime`). `RevokedKeysLapse` and `PublishedKeysFound` follow; `HopsKeepDecisions` is a
case analysis of the policies at both ends.

`CapacityRouterProofs`. A probe whose entry is still the peer's asks the address of that
entry, and a snapshot is from the address of its entry and was asked for since it joined
(`ProbeTold`, `EntryTold`): hence `TypeCorrectness`, `RoutesAreCurrent`, `RoutesAreFresh`.
`NobodyForwardsBack` is about the order of candidates: ranks compare as a total preorder
although ratios are compared by cross multiplication and absent amounts are infinite, so
the `CHOOSE` of `ChooseCandidate` has a value, and a peer that beats the local
replica in one ranking cannot be beaten by it in the other.

Only model-checked:

* Liveness (`LapsedLeaseEnds`, `SlotsCirculate`, `PeersRefreshed`, `AuthenticationEnds`,
  `Connects`, `DrainProofArrives`): fairness and `ENABLED` are beyond TLAPS.
* The properties section 6 refutes, with and without runs of their own.
* That `request_live`, with hooks, keeps what `request_safety` checks without them is
  not claimed: two of those properties are false there.

## 6. Findings

Two have a run of their own:

* A grant without classes inherits floors that need not fit it
  (`agent_classless`): `applyLimits` throws, and the batch is never acknowledged
  (`latchflo.ts:826`, against the comment at 808-810).
* A request to Latchflo whose answer stops in the middle of its body never ends
  (`session_body`): the abort timer is cleared with the headers
  (`latchflo.ts:1734`, against `README.md:1073-1074`), and the poll or heartbeat
  loop behind it, or every caller that shares the registration, waits with it.

The next ones are stated as properties no run lists; adding the property to the
configuration named makes TLC show the behaviour.

| property | configuration | what it shows |
|---|---|---|
| `AcksDoNotDelayExpiration` | `agent_lease.cfg` | waiting for acknowledgements does delay expiration: the timer is armed after them (`latchflo.ts:1474`, against `README.md:1178-1181`). `LeaseBound` and `LapsedLeaseEnds` say how far the promise does hold |
| `PostAckEvidence` | `demand.cfg` | a drain target can be retired by a heartbeat captured before the acknowledgement that set it (`latchflo.ts:1543`, against `README.md:1156-1160`) |
| `DisconnectHonoured` | `request_live.cfg` (it has `Hooks`) | a client that hangs up during an asynchronous hook is not noticed: the close listener is attached after the hooks (`server.ts:901`, against `README.md:793-794`). Without hooks the property holds |
| `ShutdownEnds` | `request_live.cfg` | a shutdown with a drain timeout can wait for ever: connections are closed only if the pools did not drain, and a finished response that its client does not read holds none of them (`server.ts:1466`, against the comment at 1445-1447) |
| `NormalScoreIsExact` | `pool_admission.cfg` | the bulkhead's `available` does not deduct the reserve for high priority (`vendor/async-bulkhead-llm-3.17.0.tgz`), so `normalAvailable` is published as large as `highAvailable`, and a normal request is sent to a replica that turns it away (`routing.ts:270`, against `README.md:939` and the help text at `telemetry.ts:901`) |
| `ReportsOnlyShrink` | `pool_admission.cfg` with `Margin = 4` | a first report can raise what a call holds: the margin is kept even where it exceeds the reserved output (`progressive-reconciliation.ts:54`, against `README.md:427-428`) |
| `NoSpuriousConflict` | `agent_classes.cfg` with `Content <- ZeroContent` | a grant that spells out a floor of zero is installed, then refused as a conflict of content when the next poll repeats it: the bulkhead reports the floor as absent (`ReportedTable`) and the agent compares it as different (`latchflo.ts:1418`, against the comment at 661-663). With the grants of `agent_classes`, which spell out no zero, it holds |
| `DeadlineHolds` | `ingress.cfg` | a request waits for keys longer than `requestTimeoutMs`: the timer of a load is cleared with the headers, and a request may join a load that is already old (`identity.ts:417`, against `README.md:566`) |

Others were met on the way:

* Overlapping polls: the older one writes its grant back, and the kill switch for
  it is refused (`latchflo.ts:1473`). It takes a caller of `pollNow()`, so
  `ExpirationClosesPools` is checked for one poll at a time.
* The idle timer runs on while the loop waits for a slow client, and ends a stream
  whose next chunk is there (`server.ts:1049`, against the comment at 85-87).
* Managed mode: a `stop()` while the agent starts can leave `started` set, and a
  later `start()` then does nothing (`latchflo.ts:1900`). `index.ts` never starts
  again, and `Connects` excludes it (`cutShort`).
* Permanent failures are retried like others (`Retries`, `latchflo.ts:1875`), while
  `README.md:1071-1073` says they are not retried continuously.
* A request that is refused while another one's registration is in flight is not sent again
  (`Rejected`, `latchflo.ts:1112` and 1757).

## 7. Not modelled, and what is left

Left out for good: provider formats and SSE parsing, cryptography, the projection
of prompts onto token estimates, configuration files, exposition of metrics,
logging. They are text and arithmetic without state that anything reads back; what
the rest of the system needs of them enters the models as choices (a request parses
or not, a stream yields usage or not, a reservation has some size). Retry hints are
averages of real numbers with real exponents, which neither TLC nor TLAPS computes.
The control plane, the bulkhead library, peers and providers are external: modelled
from what `src/` asks of them.

Left to prove: what the hypotheses of section 5 exclude, as far as it is true. With
overlapping polls, that a grant held is in force but for the poll that may still write
an older one back; with hooks, the blame of requests that reached their pool; for
`ReportsOnlyShrink`, which is false in general, that it holds whenever the margin is
within the reserved output; for `NormalScoreIsExact`, that the score errs on one side
only.
