-------------------------- MODULE DemandHeartbeats -------------------------
(***************************************************************************)
(* What a managed Tyr tells Latchflo about demand and occupancy: the       *)
(* demand reporter (src/demand.ts), the heartbeat queue and loop of        *)
(* LatchfloTyrAgent, and the drain targets a poll sets once a grant that   *)
(* shrank a pool has been acknowledged (src/latchflo.ts).                  *)
(*                                                                         *)
(* Of a poll only the batch of ceilings it installs is kept (LatchfloAgent *)
(* models the rest), of a pool its ceiling, the requests in flight and the *)
(* count of admissions; token and class occupancy is judged the same way.  *)
(* Latchflo and the bulkhead are external.                                 *)
(***************************************************************************)
EXTENDS Integers, Sequences, SequencesExt

CONSTANTS
  Pool,
  Ceilings,      \* the ceilings Latchflo may grant each pool
  NoTarget,      \* no drain target for a pool
  NoCapture,     \* nothing captured since the last commit
  MaxAdmitted,   \* bounds on the admissions of each pool
  MaxRevision,   \* bounds on the revisions of each pool
  MaxQueue,      \* bound on the heartbeats outstanding
  Embedded       \* does an embedding program call heartbeatNow()

ASSUME HeartbeatAssumption ==
  /\ Ceilings \in [Pool -> SUBSET Nat]
  /\ MaxAdmitted \in [Pool -> Nat] /\ MaxRevision \in [Pool -> Nat]
  /\ MaxQueue \in Nat
  /\ Embedded \in BOOLEAN
  /\ NoTarget \notin [revision: Nat, ceiling: Nat]
  /\ NoCapture \notin [Pool -> Nat]

VARIABLES
  ceiling, revision,  \* the installed limits of each pool
  inFlight, admitted, \* its occupancy, and admissions since start-up
  running, stopped,   \* #running; stop() was called
  timer,              \* is #heartbeatTimer armed
  queue,              \* outstanding heartbeats, #heartbeatTail the last
  targets,            \* #drainEvidenceTargets
  accepted, pending,  \* the reporter's checkpoints: committed and captured
  pc, starting,       \* what the poll awaits, and is it the one of start()
  acking, todo, shrinks,
  acked,              \* Latchflo: the revision last acknowledged to it
  covered,            \* Latchflo: up to where admissions were reported to it
  twice,              \* Latchflo: some admission was reported to it twice
  lossy               \* the answer to a heartbeat it saw was lost

poolVars == <<ceiling, revision, inFlight, admitted>>
lifecycleVars == <<running, stopped>>
heartbeatVars == <<timer, queue>>
reporterVars == <<accepted, pending>>
pollVars == <<pc, starting, acking, todo, shrinks>>
latchfloVars == <<acked, covered, twice, lossy>>
vars == <<poolVars, lifecycleVars, heartbeatVars, targets, reporterVars,
          pollVars, latchfloVars>>

Counts == [Pool -> Nat]

(* A heartbeat awaits its turn, is on its way, or has been seen by         *)
(* Latchflo.  It reports the admissions since a checkpoint; `after' are the *)
(* acknowledgements Latchflo had when it was captured.                     *)
Heartbeat ==
  [owner: {"loop", "poll", "now"}, state: {"waiting", "sent", "seen"},
   since: Counts, recent: Counts, inFlight: Counts, after: Counts]

Zero == [p \in Pool |-> 0]

(* The ceilings a poll may bring to these pools.                           *)
Grants(pools) ==
  {newer \in [pools -> UNION {Ceilings[p] : p \in pools}] :
     \A p \in pools : newer[p] \in Ceilings[p]}

Queued(owner) ==
  [owner |-> owner, state |-> "waiting", since |-> Zero, recent |-> Zero,
   inFlight |-> Zero, after |-> Zero]

TypeOK ==
  /\ ceiling \in Counts /\ revision \in Counts
  /\ inFlight \in Counts /\ admitted \in Counts
  /\ running \in BOOLEAN /\ stopped \in BOOLEAN /\ timer \in BOOLEAN
  /\ queue \in Seq(Heartbeat) /\ Len(queue) <= MaxQueue
  /\ targets \in [Pool -> [revision: Nat, ceiling: Nat] \cup {NoTarget}]
  /\ accepted \in Counts /\ pending \in Counts \cup {NoCapture}
  /\ pc \in {"idle", "fetch", "ack", "evidence"} /\ starting \in BOOLEAN
  /\ acking \subseteq Pool /\ todo \subseteq Pool /\ shrinks \subseteq Pool
  /\ acked \in Counts /\ covered \in Counts
  /\ twice \in BOOLEAN /\ lossy \in BOOLEAN

Init ==
  /\ ceiling = Zero /\ revision = Zero /\ inFlight = Zero /\ admitted = Zero
  /\ running = FALSE /\ stopped = FALSE /\ timer = FALSE
  /\ queue = <<>>
  /\ targets = [p \in Pool |-> NoTarget]
  /\ accepted = Zero /\ pending = NoCapture
  /\ pc = "idle" /\ starting = FALSE
  /\ acking = {} /\ todo = {} /\ shrinks = {}
  /\ acked = Zero /\ covered = Zero /\ twice = FALSE /\ lossy = FALSE

-----------------------------------------------------------------------------
(* Requests at the bulkhead: admitted below the ceiling, never revoked.    *)

Admit(p) ==
  /\ inFlight[p] < ceiling[p]
  /\ admitted[p] < MaxAdmitted[p]
  /\ inFlight' = [inFlight EXCEPT ![p] = @ + 1]
  /\ admitted' = [admitted EXCEPT ![p] = @ + 1]
  /\ UNCHANGED <<ceiling, revision, lifecycleVars, heartbeatVars, targets,
                 reporterVars, pollVars, latchfloVars>>

Finish(p) ==
  /\ inFlight[p] > 0
  /\ inFlight' = [inFlight EXCEPT ![p] = @ - 1]
  /\ UNCHANGED <<ceiling, revision, admitted, lifecycleVars, heartbeatVars,
                 targets, reporterVars, pollVars, latchfloVars>>

-----------------------------------------------------------------------------
(* Lifecycle and polls.                                                    *)

Start ==
  /\ ~ running /\ ~ stopped /\ pc = "idle"
  /\ running' = TRUE
  /\ pc' = "fetch" /\ starting' = TRUE
  /\ UNCHANGED <<poolVars, stopped, heartbeatVars, targets, reporterVars,
                 acking, todo, shrinks, latchfloVars>>

Stop ==
  /\ ~ stopped
  /\ running' = FALSE /\ stopped' = TRUE
  /\ targets' = [p \in Pool |-> NoTarget]
  /\ timer' = FALSE
  /\ UNCHANGED <<poolVars, queue, reporterVars, pollVars, latchfloVars>>

(* The poll timer is armed whenever the agent runs and no poll is out.     *)
PollLoop ==
  /\ running /\ pc = "idle"
  /\ pc' = "fetch" /\ starting' = FALSE
  /\ UNCHANGED <<poolVars, lifecycleVars, heartbeatVars, targets, reporterVars,
                 acking, todo, shrinks, latchfloVars>>

(* A poll that brings nothing to install: start() fails, the loop goes on. *)
PollFails ==
  /\ pc = "fetch"
  /\ running' = (running /\ ~ starting)
  /\ pc' = "idle"
  /\ UNCHANGED <<poolVars, stopped, heartbeatVars, targets, reporterVars,
                 starting, acking, todo, shrinks, latchfloVars>>

(* The newer grants of the batch are installed, targets of superseded      *)
(* grants are dropped, and the first acknowledgement is sent.              *)
PollApplies(newer) ==
  /\ pc = "fetch"
  /\ \A p \in DOMAIN newer : revision[p] < MaxRevision[p]
  /\ ceiling' = [p \in Pool |-> IF p \in DOMAIN newer THEN newer[p] ELSE ceiling[p]]
  /\ revision' =
       [p \in Pool |-> IF p \in DOMAIN newer THEN revision[p] + 1 ELSE revision[p]]
  /\ targets' = [p \in Pool |-> IF p \in DOMAIN newer THEN NoTarget ELSE targets[p]]
  /\ shrinks' = {p \in DOMAIN newer : newer[p] < ceiling[p]}
  /\ \E first \in Pool : acking' = {first} /\ todo' = Pool \ {first}
  /\ pc' = "ack"
  /\ UNCHANGED <<inFlight, admitted, lifecycleVars, heartbeatVars, reporterVars,
                 starting, latchfloVars>>

(* Latchflo may have heard an acknowledgement whose answer is lost.        *)
AckAnswered(heard, answered) ==
  /\ pc = "ack"
  /\ answered => heard
  /\ acked' = [p \in Pool |-> IF heard /\ p \in acking THEN revision[p] ELSE acked[p]]
  /\ targets' =
       [p \in Pool |->
          IF answered /\ p \in acking \cap shrinks
          THEN [revision |-> revision[p], ceiling |-> ceiling[p]]
          ELSE targets[p]]
  /\ UNCHANGED <<poolVars, lifecycleVars, reporterVars, shrinks, covered, twice,
                 lossy>>

SomeTarget(ts) == \E p \in Pool : ts[p] # NoTarget

(* The poll is over: start() schedules the first heartbeat.                *)
PollReturns ==
  /\ pc' = "idle"
  /\ timer' = (timer \/ (running /\ starting))

AckedNext(heard, answered) ==
  /\ AckAnswered(heard, answered)
  /\ \E next \in todo : acking' = {next} /\ todo' = todo \ {next}
  /\ UNCHANGED <<heartbeatVars, pc, starting>>

(* #publishPostAckDrainEvidence joins the queue.                           *)
AckedLast(heard, answered) ==
  /\ AckAnswered(heard, answered)
  /\ todo = {}
  /\ SomeTarget(targets')
  /\ Len(queue) < MaxQueue
  /\ queue' = Append(queue, Queued("poll"))
  /\ pc' = "evidence" /\ acking' = {}
  /\ UNCHANGED <<timer, starting, todo>>

AckedAll(heard, answered) ==
  /\ AckAnswered(heard, answered)
  /\ todo = {}
  /\ ~ SomeTarget(targets')
  /\ PollReturns
  /\ acking' = {}
  /\ UNCHANGED <<queue, starting, todo>>

-----------------------------------------------------------------------------
(* Heartbeats.                                                             *)

(* The heartbeat timer fires.                                              *)
HeartbeatLoop ==
  /\ timer
  /\ Len(queue) < MaxQueue
  /\ timer' = FALSE
  /\ queue' = Append(queue, Queued("loop"))
  /\ UNCHANGED <<poolVars, lifecycleVars, targets, reporterVars, pollVars,
                 latchfloVars>>

HeartbeatNow ==
  /\ Embedded
  /\ Len(queue) < MaxQueue
  /\ queue' = Append(queue, Queued("now"))
  /\ UNCHANGED <<poolVars, lifecycleVars, timer, targets, reporterVars, pollVars,
                 latchfloVars>>

(* Mutant: heartbeats do not wait for one another.                         *)
AnyTurn(i) == TRUE

(* #heartbeatTail: a heartbeat begins when the ones before it have ended.  *)
Turn(i) == i = 1

Delta(current, previous) ==
  IF current >= previous THEN current - previous ELSE current

(* capture(): the counters of all pools since the last accepted heartbeat. *)
Capture(i) ==
  /\ i \in DOMAIN queue
  /\ queue[i].state = "waiting"
  /\ Turn(i)
  /\ queue' =
       [queue EXCEPT ![i] =
          [owner |-> @.owner, state |-> "sent", since |-> accepted,
           recent |-> [p \in Pool |-> Delta(admitted[p], accepted[p])],
           inFlight |-> inFlight, after |-> acked]]
  /\ pending' = admitted
  /\ UNCHANGED <<poolVars, lifecycleVars, timer, targets, accepted, pollVars,
                 latchfloVars>>

(* Latchflo processes the heartbeat.                                       *)
Seen(i) ==
  /\ i \in DOMAIN queue
  /\ queue[i].state = "sent"
  /\ queue' = [queue EXCEPT ![i].state = "seen"]
  /\ covered' =
       [p \in Pool |->
          LET reported == queue[i].since[p] + queue[i].recent[p]
          IN  IF queue[i].since[p] <= covered[p] /\ covered[p] < reported
              THEN reported ELSE covered[p]]
  /\ twice' =
       (twice \/ \E p \in Pool :
          queue[i].since[p] < covered[p] /\ queue[i].recent[p] > 0)
  /\ UNCHANGED <<poolVars, lifecycleVars, timer, targets, reporterVars, pollVars,
                 acked, lossy>>

(* commit(): the most recent capture becomes the checkpoint.               *)
Commit ==
  /\ accepted' = IF pending = NoCapture THEN accepted ELSE pending
  /\ pending' = NoCapture

(* Mutant: occupancy must be below the target, not just at it.             *)
BelowTarget(occupancy, target) == occupancy < target.ceiling

(* #publishedDrainTargetReady.                                             *)
TargetReady(occupancy, target) == occupancy <= target.ceiling

(* #commitPublishedDrainEvidence: the targets the sent snapshot meets go.  *)
(* heartbeatNow() does not call it.                                        *)
Met(h) ==
  {p \in Pool : /\ h.owner # "now"
                /\ targets[p] # NoTarget
                /\ TargetReady(h.inFlight[p], targets[p])}

Unmet(h) == [p \in Pool |-> IF p \in Met(h) THEN NoTarget ELSE targets[p]]

(* Mutant: a failed heartbeat does not schedule the next one.              *)
ScheduleOnSuccess(owner, ok) ==
  timer' = (timer \/ (running /\ ok))

(* The loop always schedules its next heartbeat; a poll does when targets  *)
(* remain after its own, or when it was the first.  There is one timer.    *)
Schedule(owner, ok) ==
  LET goesOn ==
        \/ owner = "loop"
        \/ owner = "poll" /\ (starting \/ (ok /\ SomeTarget(targets')))
  IN  timer' = (timer \/ (running /\ goesOn))

Ends(i, ok) ==
  /\ queue' = RemoveAt(queue, i)
  /\ Schedule(queue[i].owner, ok)
  /\ pc' = IF queue[i].owner = "poll" THEN "idle" ELSE pc
  /\ UNCHANGED <<poolVars, lifecycleVars, starting, acking, todo, shrinks, acked,
                 covered, twice>>

Answered(i) ==
  /\ i \in DOMAIN queue
  /\ queue[i].state = "seen"
  /\ Commit
  /\ targets' = Unmet(queue[i])
  /\ Ends(i, TRUE)
  /\ UNCHANGED lossy

(* The request fails before Latchflo saw it, or its answer is lost.        *)
Fails(i) ==
  /\ i \in DOMAIN queue
  /\ queue[i].state \in {"sent", "seen"}
  /\ lossy' = (lossy \/ queue[i].state = "seen")
  /\ Ends(i, FALSE)
  /\ UNCHANGED <<targets, reporterVars>>

-----------------------------------------------------------------------------
PollStep ==
  \/ PollFails
  \/ \E pools \in SUBSET Pool : \E newer \in Grants(pools) : PollApplies(newer)
  \/ \E heard, answered \in BOOLEAN :
       \/ AckedNext(heard, answered)
       \/ AckedLast(heard, answered)
       \/ AckedAll(heard, answered)

Next ==
  \/ \E p \in Pool : Admit(p) \/ Finish(p)
  \/ Start \/ Stop \/ PollLoop \/ PollStep
  \/ HeartbeatLoop \/ HeartbeatNow
  \/ \E i \in 1..MaxQueue : Capture(i) \/ Seen(i) \/ Answered(i) \/ Fails(i)

Spec == Init /\ [][Next]_vars

(* The agent's own heartbeat is the next to end.                           *)
OwnFirst == queue # <<>> /\ queue[1].owner # "now"

(* Timers fire, requests are sent and end; Latchflo does not ignore every  *)
(* heartbeat of the agent, nor are all its answers to them lost.  (Strong  *)
(* fairness of the first two is for MaxQueue, which the code has not.)     *)
Fairness ==
  /\ SF_vars(PollStep)
  /\ SF_vars(HeartbeatLoop)
  /\ WF_vars(Capture(1) \/ Seen(1) \/ Answered(1) \/ Fails(1))
  /\ SF_vars(OwnFirst /\ Seen(1))
  /\ SF_vars(OwnFirst /\ Answered(1))

FairSpec == Spec /\ Fairness

-----------------------------------------------------------------------------
(* Properties.                                                             *)

(* A failed heartbeat does not lose admission pressure: whatever the agent *)
(* regards as reported Latchflo has been told of, without a gap.           *)
NoPressureLost == \A p \in Pool : accepted[p] <= covered[p]

(* Admissions are counted twice only after an answer was lost.             *)
CountedOnce == twice => lossy

(* Demand is reported: without a gap, and without counting an admission    *)
(* twice, although heartbeats wait for one another, fail and are repeated. *)
ReportedOnce == NoPressureLost /\ CountedOnce

(* The heartbeat loop never dies: once start() has returned, a heartbeat   *)
(* of the loop is outstanding or scheduled while the agent runs.           *)
HeartbeatAlive ==
  running /\ ~ (starting /\ pc # "idle") =>
    timer \/ \E i \in DOMAIN queue : queue[i].owner = "loop"

(* While the agent runs, occupancy within its target is eventually proved  *)
(* to Latchflo, even if the heartbeat after the acknowledgement fails.     *)
DrainProofArrives ==
  \A p \in Pool :
    targets[p] # NoTarget ~>
      targets[p] = NoTarget \/ inFlight[p] > ceiling[p] \/ ~ running

(* What the README says of a handoff: a target is retired by a heartbeat   *)
(* captured after the acknowledgement of its grant.                        *)
PostAckEvidence ==
  [][\A i \in DOMAIN queue :
       Answered(i) => \A p \in Met(queue[i]) :
         queue[i].after[p] = targets[p].revision]_vars
=============================================================================
