-------------------------- MODULE CapacityRouter --------------------------
(***************************************************************************)
(* CapacityAwareRouter of src/routing.ts at one replica: the peers it may  *)
(* forward to come from its configuration and then from topologies, each   *)
(* peer's capacity is probed at an interval, and select() ranks what is    *)
(* known.                                                                  *)
(*                                                                         *)
(* The cache entry of a peer is an object: a probe writes its answer into  *)
(* the entry it was started for, even when a topology has replaced it      *)
(* meanwhile.  An entry is named by its peer and the revision it was made  *)
(* under (joined), which is -1 before the first topology.                  *)
(*                                                                         *)
(* select() changes nothing, so it is an operator, and what is claimed of  *)
(* it is claimed in every state for every request.  Peers are external: a  *)
(* peer may answer anything, late, or not at all.  Time passes in ticks.   *)
(***************************************************************************)
EXTENDS CapacitySnapshots, Sequences, SequencesExt

CONSTANTS
  Self,          \* instanceId
  Peer,          \* identifiers of the other replicas
  Statics,       \* peers a replica is configured with: sequences of [id, url]
  Topologies,    \* peers a topology may list: sequences of [id, url]
  Bodies,        \* what a peer may answer: [schema, id, ready, pools]
  Requests,      \* [pool, priority, class, size, stats, ready]: a request, and
                 \* the statistics of the pool and the readiness it meets here
  StaleAfter,    \* staleAfterMs, in ticks
  ProbeTimeout,  \* probeTimeoutMs, in ticks
  MaxTopology    \* bound on the revisions of topologies

ASSUME RouterAssumption ==
  /\ Self \in Nat /\ Peer \subseteq Nat \ {Self}
  /\ StaleAfter \in Nat \ {0} /\ ProbeTimeout \in Nat \ {0}
  /\ MaxTopology \in Nat
  /\ IsFiniteSet(Class)
  /\ \A list \in Statics \cup Topologies :
       [i \in DOMAIN list |-> list[i].id] \in Seq(Peer \cup {Self})

---------------------------------------------------------------------------
(* What a peer's numbers and the statistics of a pool may be.              *)

Amounts == Nat \cup {Null}
SharedParts == [max: Nat, use: Nat, available: Nat]

ClassesTyped(classes, Shares) ==
  classes # Null =>
    /\ classes \in [default: Class,
                    shared: [slots: SharedParts, tokens: SharedParts \cup {Null}],
                    of: [DOMAIN classes.of -> [slots: Shares, tokens: Shares]]]
    /\ DOMAIN classes.of \subseteq Class

(* RoutingPoolCapacity, as validatePoolCapacity() insists on its fields.   *)
PoolTyped(pool) ==
  /\ pool \in
       [revision: Nat, mode: {"enforce", "observe"}, closed: BOOLEAN, max: Nat,
        inFlight: Nat, pending: Nat, maxQueue: Nat, available: Nat,
        budget: [budget: Nat, use: Nat, normal: Nat, high: Nat] \cup {Null},
        classes: {pool.classes}]
  /\ ClassesTyped(pool.classes,
       [use: Nat, floor: Nat, floorUse: Nat, borrowed: Nat, floorLeft: Nat,
        ceiling: Amounts, left: Amounts])

(* What is reserved for high priority may leave less than no tokens.       *)
StatisticsTyped(stats) ==
  /\ stats \in
       [revision: Nat, mode: {"enforce", "observe"}, closed: BOOLEAN, max: Nat,
        inFlight: Nat, pending: Nat, maxQueue: Nat,
        budget: [budget: Nat, use: Nat, available: Int] \cup {Null},
        classes: {stats.classes}]
  /\ ClassesTyped(stats.classes,
       [use: Nat, floor: Nat, floorUse: Nat, borrowed: Nat, ceiling: Amounts])

ASSUME BodiesAssumption ==
  \A body \in Bodies :
    /\ body = [schema |-> body.schema, id |-> body.id, ready |-> body.ready,
               pools |-> body.pools]
    /\ body.schema \in Nat
    /\ \A name \in DOMAIN body.pools : PoolTyped(body.pools[name])

(* A request is only estimated for a pool with a token budget, which is    *)
(* shared by the classes of the pool when it has any.                      *)
ASSUME RequestsAssumption ==
  \A q \in Requests :
    /\ q.size \in Nat
    /\ q.stats # Null => StatisticsTyped(q.stats)
    /\ (q.stats = Null \/ q.stats.budget = Null) => q.size = 0
    /\ q.stats # Null /\ q.stats.classes # Null =>
         ((q.stats.budget = Null) <=> (q.stats.classes.shared.tokens = Null))

VARIABLES
  started,     \* #started
  polling,     \* #interval is armed
  revision,    \* #topologyRevision, -1 when undefined
  member,      \* #peers: the cache entry of each peer
  probes       \* the requests of the #refreshing in flight

vars == <<started, polling, revision, member, probes>>

---------------------------------------------------------------------------
(* Peers.                                                                  *)

Ids(list) == [i \in DOMAIN list |-> list[i].id]
UrlOf(list, p) == (CHOOSE e \in Range(list) : e.id = p).url

(* The constructor and applyTopology() throw at a peer named twice; the    *)
(* replica itself is only skipped in a topology.                           *)
Distinct(list) ==
  IsInjective(Ids(SelectSeq(list, LAMBDA e : e.id # Self)))

Entry(url, born) ==
  [url |-> url, joined |-> born, snapshot |-> Null, age |-> 0, old |-> 0]

Asked(entries) ==
  {[id |-> p, url |-> entries[p].url, joined |-> entries[p].joined,
    asked |-> revision', waited |-> 0] : p \in DOMAIN entries}

(* refresh() joins the refresh in flight.                                  *)
RefreshOf(entries) == IF probes # {} THEN probes ELSE Asked(entries)

(* Mutant: a topology does not arm the interval.                           *)
SyncOnlyAtStart(runs, entries) ==
  IF runs /\ entries # <<>> /\ ~ started
  THEN /\ polling' = TRUE
       /\ probes' = RefreshOf(entries)
  ELSE /\ polling' = (polling /\ runs /\ entries # <<>>)
       /\ UNCHANGED probes

(* #syncPolling: arming the interval refreshes at once.                    *)
SyncPolling(runs, entries) ==
  IF runs /\ entries # <<>> /\ ~ polling
  THEN /\ polling' = TRUE
       /\ probes' = RefreshOf(entries)
  ELSE /\ polling' = (runs /\ entries # <<>>)
       /\ UNCHANGED probes

Init ==
  /\ started = FALSE
  /\ polling = FALSE
  /\ revision = -1
  /\ \E list \in Statics :
       /\ Distinct(list)
       /\ Self \notin Range(Ids(list))
       /\ member = [p \in Range(Ids(list)) |-> Entry(UrlOf(list, p), -1)]
  /\ probes = {}

Start ==
  /\ ~ started
  /\ started' = TRUE
  /\ UNCHANGED <<revision, member>>
  /\ SyncPolling(TRUE, member)

(* stop() does not wait for the probes in flight.                          *)
Stop ==
  /\ started
  /\ started' = FALSE
  /\ polling' = FALSE
  /\ UNCHANGED <<revision, member, probes>>

(* A peer that stays at its address keeps its entry and its snapshot.      *)
ApplyTopology(list, r) ==
  /\ r > revision
  /\ Distinct(list)
  /\ revision' = r
  /\ member' =
       [p \in Range(Ids(list)) \ {Self} |->
          IF p \in DOMAIN member /\ member[p].url = UrlOf(list, p)
          THEN member[p]
          ELSE Entry(UrlOf(list, p), r)]
  /\ UNCHANGED started
  /\ SyncPolling(started, member')

(* The interval fires.                                                     *)
Poll ==
  /\ polling
  /\ UNCHANGED <<started, polling, revision, member>>
  /\ probes' = RefreshOf(member)

---------------------------------------------------------------------------
(* Probes.                                                                 *)

(* Mutant: the answer is stored under the identifier of the peer.          *)
AnsweredById(probe) == probe.id \in DOMAIN member

(* Whether the entry a probe was started for is still the peer's.          *)
Answered(probe) ==
  probe.id \in DOMAIN member /\ member[probe.id].joined = probe.joined

(* What the router understands of the answers that name the peer it asked. *)
Snapshots ==
  {ReadSnapshot(body) : body \in {x \in Bodies : SnapshotUnderstood(x, x.id)}}

(* The peer looked at its pools `lag' ago; `old' is the age of what is     *)
(* known, `age' what the router knows of it (refreshedAtMs).               *)
ProbeAnswered(probe, body) ==
  /\ probes' = probes \ {probe}
  /\ IF Answered(probe)
     THEN \E lag \in 0 .. probe.waited :
            member' = [member EXCEPT
              ![probe.id].snapshot = [body |-> body, from |-> probe.url,
                                      asked |-> probe.asked],
              ![probe.id].age = 0,
              ![probe.id].old = lag]
     ELSE UNCHANGED member
  /\ UNCHANGED <<started, polling, revision>>

(* Mutant: a failed probe counts as a refresh.                             *)
FailureRefreshes(probe) ==
  /\ probes' = probes \ {probe}
  /\ member' = IF Answered(probe) THEN [member EXCEPT ![probe.id].age = 0]
               ELSE member
  /\ UNCHANGED <<started, polling, revision>>

(* A transport error, another status, an answer that is not understood or  *)
(* names another replica, or the deadline: the last snapshot stays.        *)
ProbeFails(probe) ==
  /\ probes' = probes \ {probe}
  /\ UNCHANGED <<started, polling, revision, member>>

(* A probe is over by its deadline.  Ages stop counting once stale.        *)
Tick ==
  /\ \A probe \in probes : probe.waited < ProbeTimeout
  /\ probes' = {[probe EXCEPT !.waited = @ + 1] : probe \in probes}
  /\ member' = [p \in DOMAIN member |->
                  IF member[p].snapshot = Null THEN member[p]
                  ELSE [member[p] EXCEPT
                          !.age = Smaller(@ + 1, StaleAfter + 1),
                          !.old = Smaller(@ + 1, StaleAfter + ProbeTimeout + 1)]]
  /\ UNCHANGED <<started, polling, revision>>

Next ==
  \/ Start
  \/ Stop
  \/ \E list \in Topologies, r \in 0 .. MaxTopology : ApplyTopology(list, r)
  \/ Poll
  \/ \E probe \in probes :
       \/ \E body \in Snapshots : ProbeAnswered(probe, body)
       \/ ProbeFails(probe)
  \/ Tick

(* A peer that is up answers in time again and again.                      *)
AnswersUsably(p) ==
  \E probe \in probes, body \in Snapshots :
    /\ probe.id = p
    /\ body.ready
    /\ Answered(probe)
    /\ ProbeAnswered(probe, body)

ProbeEnds(p) == \E probe \in probes : probe.id = p /\ ProbeFails(probe)

Spec == Init /\ [][Next]_vars

FairSpec ==
  /\ Spec
  /\ WF_vars(Tick)
  /\ WF_vars(Poll)
  /\ \A p \in Peer : WF_vars(ProbeEnds(p)) /\ SF_vars(AnswersUsably(p))

---------------------------------------------------------------------------
(* Routing.                                                                *)

Fresh(p) ==
  /\ member[p].snapshot # Null
  /\ member[p].age <= StaleAfter
  /\ member[p].snapshot.body.ready

(* What a replica may be compared on: the pool it publishes, when that is  *)
(* the same contract as the pool here.                                     *)
Comparable(body, name, mine) ==
  /\ name \in DOMAIN body.pools
  /\ LET pool == body.pools[name]
         myClasses == IF mine = Null THEN Null ELSE PoolCapacity(mine).classes
         myBudget == IF mine = Null THEN Null ELSE mine.budget
     IN /\ (pool.budget = Null) <=> (myBudget = Null)
        /\ CompatibleClasses(myClasses, pool.classes)
        /\ body.schema < 3 => ~ HasFloors(myClasses)

Scored(id, isLocal, pool, q) ==
  Candidate(id, isLocal, pool, q.priority, q.class, q.size)

LocalCandidates(q) ==
  IF q.stats # Null /\ q.ready
  THEN {Scored(Self, TRUE, PoolCapacity(q.stats), q)} ELSE {}

PeerCandidates(q) ==
  {Scored(p, FALSE, member[p].snapshot.body.pools[q.pool], q) :
     p \in {x \in DOMAIN member :
              Fresh(x) /\ Comparable(member[x].snapshot.body, q.pool, q.stats)}}

(* select(): the replica a request goes to.                                *)
Select(q) ==
  IF q.stats # Null /\ q.stats.mode = "observe" THEN Self
  ELSE LET best == ChooseCandidate(LocalCandidates(q) \cup PeerCandidates(q))
       IN IF best = Null THEN Self ELSE best.id

---------------------------------------------------------------------------
(* The state of the router; the interval runs exactly while there is       *)
(* somebody to probe, and the probes in flight are for entries made by a   *)
(* topology seen so far.                                                   *)
TypeOK ==
  /\ started \in BOOLEAN
  /\ revision \in -1 .. MaxTopology
  /\ polling <=> started /\ DOMAIN member # {}
  /\ DOMAIN member \subseteq Peer
  /\ \A p \in DOMAIN member :
       member[p].joined <= revision /\ member[p].age \in 0 .. StaleAfter + 1
  /\ \A probe \in probes :
       /\ probe.id \in Peer
       /\ probe.joined <= probe.asked /\ probe.asked <= revision
       /\ probe.waited \in 0 .. ProbeTimeout

(* A request is only ever forwarded to a peer of the newest topology, on a *)
(* snapshot fetched from the address that topology gives it, and asked for *)
(* after the peer joined there: what an old address answers late, to a     *)
(* peer that moved or left and came back, is never used.                   *)
RouteIsCurrent ==
  \A q \in Requests :
    LET to == Select(q) IN
    to # Self =>
      /\ to \in DOMAIN member
      /\ member[to].snapshot.from = member[to].url
      /\ member[to].snapshot.asked >= member[to].joined

(* What a peer is believed to have is never older than staleAfterMs and    *)
(* one probe, whatever probes failed since.                                *)
RouteIsFresh ==
  \A q \in Requests :
    LET to == Select(q) IN
    to # Self => member[to].old <= StaleAfter + ProbeTimeout

(* Were the peer to receive the same request from outside, in the state    *)
(* its snapshot shows and knowing this replica as it is, it would keep it: *)
(* two replicas that see each other as they are never send the same        *)
(* request to one another, and a tie costs no hop.                         *)
NoMutualForwarding ==
  \A q \in Requests :
    LET to == Select(q)
        theirs == member[to].snapshot.body.pools[q.pool]
    IN to # Self =>
         ChooseCandidate({Scored(to, TRUE, theirs, q)}
           \cup (IF q.stats # Null /\ q.ready
                 THEN {Scored(Self, FALSE, PoolCapacity(q.stats), q)} ELSE {})).id = to

(* A peer that stays, while the router runs, is known as it was a moment   *)
(* ago again and again.                                                    *)
PeersRefreshed ==
  \A p \in Peer :
    <>[](started /\ p \in DOMAIN member)
      => []<>(p \in DOMAIN member /\ Fresh(p) /\ member[p].age = 0)
=============================================================================
