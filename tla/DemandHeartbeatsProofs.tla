----------------------- MODULE DemandHeartbeatsProofs ----------------------
(***************************************************************************)
(* Demand is reported to Latchflo without a gap, and twice only when an    *)
(* answer was lost; the heartbeat loop never dies.  Neither depends on the *)
(* number of pools, of admissions or of heartbeats that are outstanding.   *)
(***************************************************************************)
EXTENDS DemandHeartbeats, SequenceTheorems, TLAPS

(* Heartbeats wait for one another: only the first is under way.           *)
OneUnderWay == \A i \in DOMAIN queue : queue[i].state # "waiting" => i = 1

(* The heartbeat under way reports what was captured for it, since the     *)
(* checkpoint that is still in force.                                      *)
ReportsCapture ==
  \A i \in DOMAIN queue : queue[i].state # "waiting" =>
    /\ pending # NoCapture
    /\ queue[i].since = accepted
    /\ \A p \in Pool : queue[i].recent[p] = pending[p] - accepted[p]
    /\ queue[i].state = "seen" => \A p \in Pool : pending[p] <= covered[p]

(* Checkpoints are ordered, and nothing was committed that Latchflo has    *)
(* not been told of.                                                       *)
CheckpointsOrdered ==
  \A p \in Pool :
    /\ accepted[p] <= admitted[p]
    /\ accepted[p] <= covered[p]
    /\ pending # NoCapture => accepted[p] <= pending[p] /\ pending[p] <= admitted[p]

SeenByLatchflo == \E i \in DOMAIN queue : queue[i].state = "seen"

(* As long as no answer was lost Latchflo knows exactly what the agent     *)
(* regards as reported, or is about to.                                    *)
ExactUntilLost ==
  ~ lossy =>
    /\ ~ twice
    /\ covered = IF SeenByLatchflo THEN pending ELSE accepted

ReportFacts == OneUnderWay /\ ReportsCapture /\ CheckpointsOrdered /\ ExactUntilLost

IInv == TypeOK /\ ReportFacts

-----------------------------------------------------------------------------
(* Queues.                                                                 *)

(* Taking one element out of a sequence moves the later ones up.           *)
LEMMA RemoveAtProperties ==
  ASSUME NEW S, NEW s \in Seq(S), NEW i \in 1..Len(s)
  PROVE  /\ RemoveAt(s, i) \in Seq(S)
         /\ Len(RemoveAt(s, i)) = Len(s) - 1
         /\ \A j \in 1..(Len(s) - 1) :
              RemoveAt(s, i)[j] = IF j < i THEN s[j] ELSE s[j + 1]
<1> DEFINE left == SubSeq(s, 1, i - 1)
           right == SubSeq(s, i + 1, Len(s))
<1>0. Len(s) \in Nat /\ i \in Nat /\ i >= 1 /\ i <= Len(s)
  BY LenProperties
<1>1. /\ left \in Seq(S) /\ Len(left) = i - 1
      /\ \A j \in 1..(i - 1) : left[j] = s[j]
  BY <1>0, SubSeqProperties
<1>2. /\ right \in Seq(S) /\ Len(right) = Len(s) - i
      /\ \A j \in 1..(Len(s) - i) : right[j] = s[i + j]
  BY <1>0, SubSeqProperties
<1> HIDE DEF left, right
<1>3. RemoveAt(s, i) = left \o right
  BY DEF RemoveAt, left, right
<1>c. /\ left \o right \in Seq(S)
      /\ Len(left \o right) = Len(left) + Len(right)
      /\ \A j \in 1..(Len(left) + Len(right)) :
           (left \o right)[j] = IF j <= Len(left) THEN left[j] ELSE right[j - Len(left)]
  BY <1>1, <1>2, ConcatProperties
<1>n. Len(left) + Len(right) = Len(s) - 1
  BY <1>0, <1>1, <1>2
<1>4. /\ left \o right \in Seq(S)
      /\ Len(left \o right) = Len(s) - 1
      /\ \A j \in 1..(Len(s) - 1) :
           (left \o right)[j] = IF j <= i - 1 THEN left[j] ELSE right[j - (i - 1)]
  BY <1>c, <1>n, <1>1
<1>5. ASSUME NEW j \in 1..(Len(s) - 1)
      PROVE  (left \o right)[j] = IF j < i THEN s[j] ELSE s[j + 1]
  <2>1. CASE j < i
    BY <1>0, <1>1, <1>4, <2>1
  <2>2. CASE ~ (j < i)
    <3>1. j - (i - 1) \in 1..(Len(s) - i) /\ i + (j - (i - 1)) = j + 1
      BY <1>0, <2>2
    <3> QED BY <1>0, <1>2, <1>4, <2>2, <3>1
  <2> QED BY <2>1, <2>2
<1> QED BY <1>3, <1>4, <1>5

LEMMA QueueType ==
  ASSUME TypeOK
  PROVE  /\ Len(queue) \in Nat /\ Len(queue) <= MaxQueue
         /\ DOMAIN queue = 1..Len(queue)
         /\ \A i \in DOMAIN queue : queue[i] \in Heartbeat
BY LenProperties DEF TypeOK

LEMMA QueuedType ==
  ASSUME NEW owner \in {"loop", "poll", "now"}
  PROVE  Queued(owner) \in Heartbeat
BY DEF Queued, Heartbeat, Counts, Zero

(* A heartbeat that joins the queue waits behind the others.               *)
LEMMA Joins ==
  ASSUME TypeOK, NEW owner \in {"loop", "poll", "now"}, Len(queue) < MaxQueue,
         queue' = Append(queue, Queued(owner))
  PROVE  /\ queue' \in Seq(Heartbeat) /\ Len(queue') <= MaxQueue
         /\ DOMAIN queue \subseteq DOMAIN queue'
         /\ \A i \in DOMAIN queue : queue'[i] = queue[i]
         /\ \A i \in DOMAIN queue' : i \notin DOMAIN queue => queue'[i] = Queued(owner)
         /\ \E i \in DOMAIN queue' : queue'[i].owner = owner
<1>1. Queued(owner) \in Heartbeat /\ Queued(owner).owner = owner
  BY QueuedType DEF Queued
<1>2. queue \in Seq(Heartbeat) /\ Len(queue) \in Nat /\ DOMAIN queue = 1..Len(queue)
  BY QueueType DEF TypeOK
<1>3. /\ queue' \in Seq(Heartbeat)
      /\ Len(queue') = Len(queue) + 1
      /\ \A i \in 1..Len(queue) : queue'[i] = queue[i]
      /\ queue'[Len(queue) + 1] = Queued(owner)
  BY <1>1, <1>2, AppendProperties
<1>4. DOMAIN queue' = 1..(Len(queue) + 1)
  BY <1>3, LenProperties
<1>5. MaxQueue \in Nat
  BY HeartbeatAssumption
<1> QED BY <1>1, <1>2, <1>3, <1>4, <1>5

(* One that ends leaves the others as they are, in their order.            *)
LEMMA Leaves ==
  ASSUME TypeOK, NEW i \in DOMAIN queue, queue' = RemoveAt(queue, i)
  PROVE  /\ queue' \in Seq(Heartbeat) /\ Len(queue') <= MaxQueue
         /\ \A k \in DOMAIN queue' :
              LET j == IF k < i THEN k ELSE k + 1
              IN  j \in DOMAIN queue \ {i} /\ queue'[k] = queue[j]
         /\ \A j \in DOMAIN queue \ {i} : \E k \in DOMAIN queue' : queue'[k] = queue[j]
<1>1. /\ queue \in Seq(Heartbeat) /\ Len(queue) \in Nat /\ Len(queue) <= MaxQueue
      /\ DOMAIN queue = 1..Len(queue) /\ MaxQueue \in Nat
  BY QueueType, HeartbeatAssumption DEF TypeOK
<1>2. /\ queue' \in Seq(Heartbeat)
      /\ Len(queue') = Len(queue) - 1
      /\ \A k \in 1..(Len(queue) - 1) : queue'[k] = IF k < i THEN queue[k] ELSE queue[k + 1]
  BY <1>1, RemoveAtProperties
<1>3. DOMAIN queue' = 1..(Len(queue) - 1)
  BY <1>2, LenProperties
<1>4. \A k \in DOMAIN queue' :
        LET j == IF k < i THEN k ELSE k + 1
        IN  j \in DOMAIN queue \ {i} /\ queue'[k] = queue[j]
  BY <1>1, <1>2, <1>3
<1>5. ASSUME NEW j \in DOMAIN queue \ {i}
      PROVE  \E k \in DOMAIN queue' : queue'[k] = queue[j]
  <2>1. CASE j < i
    <3>1. j \in DOMAIN queue' /\ queue'[j] = queue[j]
      BY <1>1, <1>2, <1>3, <2>1
    <3> QED BY <3>1
  <2>2. CASE ~ (j < i)
    <3>1. j - 1 \in DOMAIN queue' /\ ~ (j - 1 < i) /\ (j - 1) + 1 = j
      BY <1>1, <1>3, <1>5, <2>2
    <3>2. queue'[j - 1] = queue[j]
      BY <1>2, <1>3, <3>1
    <3> QED BY <3>1, <3>2
  <2> QED BY <2>1, <2>2
<1> QED BY <1>1, <1>2, <1>4, <1>5

-----------------------------------------------------------------------------
(* Type correctness.                                                       *)

(* The counters a heartbeat reports are natural numbers.                   *)
LEMMA DeltaType ==
  ASSUME NEW m \in Nat, NEW n \in Nat
  PROVE  Delta(m, n) \in Nat
BY DEF Delta

(* What a step does to one heartbeat in place.                             *)
LEMMA InPlace ==
  ASSUME TypeOK, NEW i \in DOMAIN queue, NEW h \in Heartbeat,
         queue' = [queue EXCEPT ![i] = h]
  PROVE  /\ queue' \in Seq(Heartbeat) /\ Len(queue') <= MaxQueue
         /\ DOMAIN queue' = DOMAIN queue
         /\ queue'[i] = h
         /\ \A j \in DOMAIN queue : j # i => queue'[j] = queue[j]
<1>1. queue \in Seq(Heartbeat) /\ i \in 1..Len(queue)
  BY QueueType DEF TypeOK
<1> QED BY <1>1, QueueType, ExceptSeq, LenProperties

LEMMA CaptureInPlace ==
  ASSUME TypeOK, NEW i, Capture(i)
  PROVE  /\ i \in DOMAIN queue
         /\ queue' \in Seq(Heartbeat) /\ Len(queue') <= MaxQueue
         /\ DOMAIN queue' = DOMAIN queue
         /\ \A j \in DOMAIN queue : j # i => queue'[j] = queue[j]
         /\ queue'[i].owner = queue[i].owner
         /\ queue'[i].state = "sent"
         /\ queue'[i].since = accepted
         /\ \A p \in Pool : queue'[i].recent[p] = Delta(admitted[p], accepted[p])
<1> DEFINE h == [owner |-> queue[i].owner, state |-> "sent", since |-> accepted,
                 recent |-> [p \in Pool |-> Delta(admitted[p], accepted[p])],
                 inFlight |-> inFlight, after |-> acked]
<1>1. i \in DOMAIN queue /\ queue' = [queue EXCEPT ![i] = h]
  BY DEF Capture
<1>2. queue[i].owner \in {"loop", "poll", "now"}
  BY <1>1, QueueType DEF Heartbeat
<1>3. \A p \in Pool : Delta(admitted[p], accepted[p]) \in Nat
  BY DeltaType DEF TypeOK, Counts
<1>4. h \in Heartbeat
  BY <1>2, <1>3 DEF Heartbeat, TypeOK, Counts
<1>5. /\ h.owner = queue[i].owner /\ h.state = "sent" /\ h.since = accepted
      /\ \A p \in Pool : h.recent[p] = Delta(admitted[p], accepted[p])
  OBVIOUS
<1> HIDE DEF h
<1> QED BY <1>1, <1>4, <1>5, InPlace

LEMMA SeenInPlace ==
  ASSUME TypeOK, NEW i, Seen(i)
  PROVE  /\ i \in DOMAIN queue
         /\ queue' \in Seq(Heartbeat) /\ Len(queue') <= MaxQueue
         /\ DOMAIN queue' = DOMAIN queue
         /\ \A j \in DOMAIN queue : j # i => queue'[j] = queue[j]
         /\ queue'[i].owner = queue[i].owner
         /\ queue'[i].state = "seen"
         /\ queue'[i].since = queue[i].since
         /\ queue'[i].recent = queue[i].recent
<1> DEFINE h == [queue[i] EXCEPT !.state = "seen"]
<1>1. i \in DOMAIN queue /\ queue' = [queue EXCEPT ![i] = h]
  BY DEF Seen
<1>2. queue[i] \in Heartbeat
  BY <1>1, QueueType
<1>3. h \in Heartbeat
  BY <1>2 DEF Heartbeat
<1>4. /\ h.owner = queue[i].owner /\ h.state = "seen"
      /\ h.since = queue[i].since /\ h.recent = queue[i].recent
  BY <1>2 DEF Heartbeat
<1> HIDE DEF h
<1> QED BY <1>1, <1>3, <1>4, InPlace

LEMMA AckTypes ==
  ASSUME TypeOK, NEW heard \in BOOLEAN, NEW answered \in BOOLEAN,
         AckAnswered(heard, answered)
  PROVE  /\ acked' \in Counts
         /\ targets' \in [Pool -> [revision: Nat, ceiling: Nat] \cup {NoTarget}]
<1>1. \A p \in Pool : revision[p] \in Nat /\ ceiling[p] \in Nat /\ acked[p] \in Nat
  BY DEF TypeOK, Counts
<1> QED BY <1>1 DEF AckAnswered, TypeOK, Counts

LEMMA EndsTypes ==
  ASSUME TypeOK, NEW i \in DOMAIN queue, NEW ok \in BOOLEAN, Ends(i, ok)
  PROVE  /\ queue' \in Seq(Heartbeat) /\ Len(queue') <= MaxQueue
         /\ timer' \in BOOLEAN
         /\ pc' \in {"idle", "fetch", "ack", "evidence"}
<1>1. queue' = RemoveAt(queue, i)
  BY DEF Ends
<1> QED BY <1>1, Leaves DEF Ends, Schedule, SomeTarget, TypeOK

LEMMA NextTypes == TypeOK /\ [Next]_vars => TypeOK'
<1> SUFFICES ASSUME TypeOK, [Next]_vars PROVE TypeOK'
  OBVIOUS
<1>1. CASE UNCHANGED vars
  BY <1>1 DEF vars, poolVars, lifecycleVars, heartbeatVars, reporterVars, pollVars,
              latchfloVars, TypeOK
<1>2. ASSUME NEW p \in Pool, Admit(p) \/ Finish(p)
      PROVE  TypeOK'
  <2>0. /\ inFlight \in Counts /\ admitted \in Counts
        /\ inFlight[p] \in Nat /\ admitted[p] \in Nat
    BY DEF TypeOK, Counts
  <2>1. inFlight' \in Counts /\ admitted' \in Counts
    <3>1. CASE Admit(p)
      BY <2>0, <3>1 DEF Admit, Counts
    <3>2. CASE Finish(p)
      <4>1. inFlight[p] - 1 \in Nat /\ inFlight' = [inFlight EXCEPT ![p] = @ - 1]
        BY <2>0, <3>2 DEF Finish
      <4> QED BY <2>0, <3>2, <4>1 DEF Finish, Counts
    <3> QED BY <1>2, <3>1, <3>2
  <2> QED
    BY <1>2, <2>1 DEF Admit, Finish, lifecycleVars, heartbeatVars, reporterVars,
                      pollVars, latchfloVars, TypeOK
<1>3. CASE Start \/ Stop \/ PollLoop \/ PollFails
  BY <1>3 DEF Start, Stop, PollLoop, PollFails, poolVars, lifecycleVars, heartbeatVars,
              reporterVars, pollVars, latchfloVars, TypeOK
<1>4. ASSUME NEW pools \in SUBSET Pool, NEW newer \in Grants(pools), PollApplies(newer)
      PROVE  TypeOK'
  <2>1. DOMAIN newer = pools /\ \A p \in pools : newer[p] \in Nat
    BY HeartbeatAssumption DEF Grants
  <2>2. ceiling' \in Counts /\ revision' \in Counts
    BY <1>4, <2>1 DEF PollApplies, TypeOK, Counts
  <2>3. targets' \in [Pool -> [revision: Nat, ceiling: Nat] \cup {NoTarget}]
    BY <1>4 DEF PollApplies, TypeOK
  <2>4. acking' \subseteq Pool /\ todo' \subseteq Pool /\ shrinks' \subseteq Pool
    BY <1>4, <2>1 DEF PollApplies
  <2> QED
    BY <1>4, <2>2, <2>3, <2>4
       DEF PollApplies, lifecycleVars, heartbeatVars, reporterVars, latchfloVars, TypeOK
<1>5. ASSUME NEW heard \in BOOLEAN, NEW answered \in BOOLEAN, AckedNext(heard, answered)
      PROVE  TypeOK'
  <2>1. AckAnswered(heard, answered)
    BY <1>5 DEF AckedNext
  <2>2. acking' \subseteq Pool /\ todo' \subseteq Pool
    BY <1>5 DEF AckedNext, TypeOK
  <2> QED
    BY <1>5, <2>1, <2>2, AckTypes
       DEF AckedNext, AckAnswered, poolVars, lifecycleVars, heartbeatVars, reporterVars,
           TypeOK
<1>6. ASSUME NEW heard \in BOOLEAN, NEW answered \in BOOLEAN, AckedLast(heard, answered)
      PROVE  TypeOK'
  <2>1. AckAnswered(heard, answered)
    BY <1>6 DEF AckedLast
  <2>2. queue' \in Seq(Heartbeat) /\ Len(queue') <= MaxQueue
    BY <1>6, Joins DEF AckedLast
  <2> QED
    BY <1>6, <2>1, <2>2, AckTypes
       DEF AckedLast, AckAnswered, poolVars, lifecycleVars, reporterVars, TypeOK
<1>7. ASSUME NEW heard \in BOOLEAN, NEW answered \in BOOLEAN, AckedAll(heard, answered)
      PROVE  TypeOK'
  <2>1. AckAnswered(heard, answered)
    BY <1>7 DEF AckedAll
  <2> QED
    BY <1>7, <2>1, AckTypes
       DEF AckedAll, AckAnswered, PollReturns, poolVars, lifecycleVars, reporterVars,
           TypeOK
<1>8. CASE HeartbeatLoop \/ HeartbeatNow
  <2>1. queue' \in Seq(Heartbeat) /\ Len(queue') <= MaxQueue
    BY <1>8, Joins DEF HeartbeatLoop, HeartbeatNow
  <2> QED
    BY <1>8, <2>1
       DEF HeartbeatLoop, HeartbeatNow, poolVars, lifecycleVars, reporterVars, pollVars,
           latchfloVars, TypeOK
<1>9. ASSUME NEW i \in 1..MaxQueue, Capture(i)
      PROVE  TypeOK'
  <2>1. queue' \in Seq(Heartbeat) /\ Len(queue') <= MaxQueue
    BY <1>9, CaptureInPlace
  <2> QED
    BY <1>9, <2>1
       DEF Capture, poolVars, lifecycleVars, pollVars, latchfloVars, TypeOK
<1>10. ASSUME NEW i \in 1..MaxQueue, Seen(i)
       PROVE  TypeOK'
  <2>1. queue' \in Seq(Heartbeat) /\ Len(queue') <= MaxQueue /\ i \in DOMAIN queue
    BY <1>10, SeenInPlace
  <2>2. queue[i] \in Heartbeat
    BY <2>1, QueueType
  <2>3. \A p \in Pool :
          queue[i].since[p] + queue[i].recent[p] \in Nat /\ covered[p] \in Nat
    <3>1. queue[i].since \in Counts /\ queue[i].recent \in Counts /\ covered \in Counts
      BY <2>2 DEF Heartbeat, TypeOK
    <3> QED BY <3>1 DEF Counts
  <2>4. covered' \in Counts
    BY <1>10, <2>3 DEF Seen, Counts
  <2>5. twice' \in BOOLEAN
    BY <1>10 DEF Seen, TypeOK
  <2> QED
    BY <1>10, <2>1, <2>4, <2>5
       DEF Seen, poolVars, lifecycleVars, reporterVars, pollVars, TypeOK
<1>11. ASSUME NEW i \in 1..MaxQueue, Answered(i) \/ Fails(i)
       PROVE  TypeOK'
  <2>1. i \in DOMAIN queue /\ \E ok \in BOOLEAN : Ends(i, ok)
    BY <1>11 DEF Answered, Fails
  <2>2. /\ queue' \in Seq(Heartbeat) /\ Len(queue') <= MaxQueue
        /\ timer' \in BOOLEAN
        /\ pc' \in {"idle", "fetch", "ack", "evidence"}
    BY <2>1, EndsTypes
  <2>3. UNCHANGED <<poolVars, lifecycleVars, starting, acking, todo, shrinks, acked,
                    covered, twice>>
    BY <2>1 DEF Ends
  <2>4. /\ accepted' \in Counts /\ pending' \in Counts \cup {NoCapture}
        /\ targets' \in [Pool -> [revision: Nat, ceiling: Nat] \cup {NoTarget}]
        /\ lossy' \in BOOLEAN
    BY <1>11 DEF Answered, Fails, Commit, Unmet, reporterVars, TypeOK
  <2> QED
    BY <2>2, <2>3, <2>4 DEF poolVars, lifecycleVars, TypeOK
<1> QED
  BY <1>1, <1>2, <1>3, <1>4, <1>5, <1>6, <1>7, <1>8, <1>9, <1>10, <1>11 DEF Next, PollStep

LEMMA InitTypes == Init => TypeOK
<1> SUFFICES ASSUME Init PROVE TypeOK
  OBVIOUS
<1>1. queue \in Seq(Heartbeat) /\ Len(queue) = 0
  BY EmptySeq DEF Init
<1>2. Zero \in Counts
  BY DEF Zero, Counts
<1>3. Len(queue) <= MaxQueue
  BY <1>1, HeartbeatAssumption
<1>4. /\ ceiling \in Counts /\ revision \in Counts /\ inFlight \in Counts
      /\ admitted \in Counts /\ accepted \in Counts
      /\ acked \in Counts /\ covered \in Counts
  BY <1>2 DEF Init
<1>5. /\ running \in BOOLEAN /\ stopped \in BOOLEAN /\ timer \in BOOLEAN
      /\ targets \in [Pool -> [revision: Nat, ceiling: Nat] \cup {NoTarget}]
      /\ pending \in Counts \cup {NoCapture}
      /\ pc \in {"idle", "fetch", "ack", "evidence"} /\ starting \in BOOLEAN
      /\ acking \subseteq Pool /\ todo \subseteq Pool /\ shrinks \subseteq Pool
      /\ twice \in BOOLEAN /\ lossy \in BOOLEAN
  BY DEF Init
<1> QED BY <1>1, <1>3, <1>4, <1>5 DEF TypeOK

-----------------------------------------------------------------------------
(* What has been reported.                                                 *)

LEMMA CountTypes ==
  ASSUME TypeOK
  PROVE  /\ \A p \in Pool :
              /\ accepted[p] \in Nat /\ admitted[p] \in Nat /\ covered[p] \in Nat
              /\ pending # NoCapture => pending[p] \in Nat
         /\ accepted \in Counts /\ covered \in Counts /\ admitted \in Counts
         /\ admitted # NoCapture
         /\ pending # NoCapture => pending \in Counts
BY HeartbeatAssumption DEF TypeOK, Counts

(* More admissions, or another heartbeat in the queue, change nothing.     *)
LEMMA ReportUndisturbed ==
  ASSUME TypeOK, TypeOK', ReportFacts, UNCHANGED <<reporterVars, covered, twice, lossy>>,
         \A p \in Pool : admitted[p] <= admitted'[p],
         DOMAIN queue \subseteq DOMAIN queue',
         \A i \in DOMAIN queue : queue'[i] = queue[i],
         \A i \in DOMAIN queue' : i \notin DOMAIN queue => queue'[i].state = "waiting"
  PROVE  ReportFacts'
<1>1. \A i \in DOMAIN queue' : queue'[i].state # "waiting" =>
        i \in DOMAIN queue /\ queue'[i] = queue[i]
  OBVIOUS
<1>2. OneUnderWay' /\ ReportsCapture'
  BY <1>1 DEF ReportFacts, OneUnderWay, ReportsCapture, reporterVars
<1>3. CheckpointsOrdered'
  <2> SUFFICES ASSUME NEW p \in Pool
               PROVE  /\ accepted[p] <= admitted'[p]
                      /\ accepted[p] <= covered[p]
                      /\ pending # NoCapture =>
                           accepted[p] <= pending[p] /\ pending[p] <= admitted'[p]
    BY DEF CheckpointsOrdered, reporterVars
  <2>1. admitted'[p] \in Nat
    BY DEF TypeOK, Counts
  <2> QED BY <2>1, CountTypes DEF ReportFacts, CheckpointsOrdered
<1>4. SeenByLatchflo' <=> SeenByLatchflo
  BY <1>1 DEF SeenByLatchflo
<1>5. ExactUntilLost'
  BY <1>4 DEF ReportFacts, ExactUntilLost, reporterVars
<1> QED BY <1>2, <1>3, <1>5 DEF ReportFacts

(* A capture becomes the report under way.                                 *)
LEMMA CaptureReports ==
  ASSUME TypeOK, ReportFacts, NEW i \in 1..MaxQueue, Capture(i)
  PROVE  ReportFacts'
<1>1. /\ i = 1 /\ i \in DOMAIN queue
      /\ queue[i].state = "waiting"
      /\ pending' = admitted
      /\ UNCHANGED <<admitted, accepted, covered, twice, lossy>>
  BY DEF Capture, Turn, poolVars, latchfloVars
<1>2. /\ DOMAIN queue' = DOMAIN queue
      /\ \A j \in DOMAIN queue : j # i => queue'[j] = queue[j]
      /\ queue'[i].state = "sent"
      /\ queue'[i].since = accepted
      /\ \A p \in Pool : queue'[i].recent[p] = Delta(admitted[p], accepted[p])
  BY CaptureInPlace
<1>3. \A j \in DOMAIN queue : j # i => queue[j].state = "waiting"
  BY <1>1 DEF ReportFacts, OneUnderWay
<1>4. OneUnderWay'
  BY <1>1, <1>2, <1>3 DEF OneUnderWay
<1>5. \A p \in Pool : Delta(admitted[p], accepted[p]) = admitted[p] - accepted[p]
  BY CountTypes DEF Delta, ReportFacts, CheckpointsOrdered
<1>6. \A j \in DOMAIN queue' : queue'[j].state # "waiting" => j = i
  BY <1>2, <1>3
<1>7. ReportsCapture'
  BY <1>1, <1>2, <1>5, <1>6, CountTypes DEF ReportsCapture
<1>8. CheckpointsOrdered'
  BY <1>1, CountTypes DEF ReportFacts, CheckpointsOrdered
<1>9. ~ SeenByLatchflo /\ ~ SeenByLatchflo'
  BY <1>1, <1>2, <1>3 DEF SeenByLatchflo
<1>10. ExactUntilLost'
  BY <1>1, <1>9 DEF ReportFacts, ExactUntilLost
<1> QED BY <1>4, <1>7, <1>8, <1>10 DEF ReportFacts

(* Latchflo learns of everything up to the capture, and of nothing again   *)
(* that it had been told, unless an answer was lost before.                *)
LEMMA SeenReports ==
  ASSUME TypeOK, TypeOK', ReportFacts, NEW i \in 1..MaxQueue, Seen(i)
  PROVE  ReportFacts'
<1>1. /\ i \in DOMAIN queue /\ queue[i].state = "sent"
      /\ UNCHANGED <<admitted, accepted, pending, lossy>>
  BY DEF Seen, poolVars, reporterVars
<1>2. /\ DOMAIN queue' = DOMAIN queue
      /\ \A j \in DOMAIN queue : j # i => queue'[j] = queue[j]
      /\ queue'[i].state = "seen"
      /\ queue'[i].since = queue[i].since
      /\ queue'[i].recent = queue[i].recent
  BY SeenInPlace
<1>3. /\ pending # NoCapture
      /\ queue[i].since = accepted
      /\ \A p \in Pool : queue[i].recent[p] = pending[p] - accepted[p]
  BY <1>1 DEF ReportFacts, ReportsCapture
<1>4. i = 1 /\ \A j \in DOMAIN queue : j # i => queue[j].state = "waiting"
  BY <1>1 DEF ReportFacts, OneUnderWay
<1>5. ~ SeenByLatchflo /\ SeenByLatchflo'
  BY <1>1, <1>2, <1>4 DEF SeenByLatchflo
<1>6. \A p \in Pool : queue[i].since[p] + queue[i].recent[p] = pending[p]
  BY <1>3, CountTypes
<1>7. covered' = [p \in Pool |->
                    IF accepted[p] <= covered[p] /\ covered[p] < pending[p]
                    THEN pending[p] ELSE covered[p]]
  <2>1. covered' =
          [p \in Pool |->
             LET reported == queue[i].since[p] + queue[i].recent[p]
             IN  IF queue[i].since[p] <= covered[p] /\ covered[p] < reported
                 THEN reported ELSE covered[p]]
    BY DEF Seen
  <2> QED BY <1>3, <1>6, <2>1
<1>8. \A p \in Pool : covered[p] <= covered'[p] /\ pending[p] <= covered'[p]
  BY <1>3, <1>7, CountTypes DEF ReportFacts, CheckpointsOrdered
<1>9. OneUnderWay' /\ ReportsCapture'
  BY <1>1, <1>2, <1>3, <1>4, <1>8 DEF OneUnderWay, ReportsCapture
<1>10. CheckpointsOrdered'
  <2> SUFFICES ASSUME NEW p \in Pool
               PROVE  /\ accepted[p] <= admitted[p]
                      /\ accepted[p] <= covered'[p]
                      /\ accepted[p] <= pending[p] /\ pending[p] <= admitted[p]
    BY <1>1 DEF CheckpointsOrdered
  <2>1. covered'[p] \in Nat
    BY DEF TypeOK, Counts
  <2> QED BY <1>3, <1>8, <2>1, CountTypes DEF ReportFacts, CheckpointsOrdered
<1>11. ASSUME ~ lossy
       PROVE  ~ twice' /\ covered' = pending
  <2>1. ~ twice /\ covered = accepted
    BY <1>5, <1>11 DEF ReportFacts, ExactUntilLost
  <2>2. ~ twice'
    <3>1. \A p \in Pool : ~ (queue[i].since[p] < covered[p])
      BY <1>3, <2>1, CountTypes
    <3>2. twice' = (twice \/ \E p \in Pool :
                      queue[i].since[p] < covered[p] /\ queue[i].recent[p] > 0)
      BY DEF Seen
    <3> QED BY <2>1, <3>1, <3>2
  <2>3. \A p \in Pool : covered'[p] = pending[p]
    BY <1>3, <1>7, <2>1, CountTypes DEF ReportFacts, CheckpointsOrdered
  <2>4. covered' \in Counts /\ pending \in Counts
    BY <1>3, CountTypes DEF TypeOK
  <2> QED BY <2>2, <2>3, <2>4 DEF Counts
<1>12. ExactUntilLost'
  BY <1>1, <1>5, <1>11 DEF ExactUntilLost
<1> QED BY <1>9, <1>10, <1>12 DEF ReportFacts

(* When the heartbeat under way ends, those that remain have not begun.    *)
LEMMA RestWaits ==
  ASSUME TypeOK, OneUnderWay, NEW i \in DOMAIN queue, queue[i].state # "waiting",
         queue' = RemoveAt(queue, i)
  PROVE  \A k \in DOMAIN queue' : queue'[k].state = "waiting"
<1>1. i = 1 /\ \A j \in DOMAIN queue \ {i} : queue[j].state = "waiting"
  BY DEF OneUnderWay
<1>2. \A k \in DOMAIN queue' :
        \E j \in DOMAIN queue \ {i} : queue'[k] = queue[j]
  BY Leaves
<1> QED BY <1>1, <1>2

LEMMA EndsReports ==
  ASSUME TypeOK, ReportFacts, NEW i \in 1..MaxQueue, Answered(i) \/ Fails(i)
  PROVE  ReportFacts'
<1>1. /\ i \in DOMAIN queue /\ queue[i].state # "waiting"
      /\ queue' = RemoveAt(queue, i)
      /\ UNCHANGED <<admitted, covered, twice>>
  BY DEF Answered, Fails, Ends, poolVars
<1>2. \A k \in DOMAIN queue' : queue'[k].state = "waiting"
  BY <1>1, RestWaits DEF ReportFacts
<1>3. OneUnderWay' /\ ReportsCapture' /\ ~ SeenByLatchflo'
  BY <1>2 DEF OneUnderWay, ReportsCapture, SeenByLatchflo
<1>4. pending # NoCapture
  BY <1>1 DEF ReportFacts, ReportsCapture
<1>5. CASE Answered(i)
  <2>1. accepted' = pending /\ pending' = NoCapture /\ lossy' = lossy
    BY <1>4, <1>5 DEF Answered, Commit
  <2>2. SeenByLatchflo /\ \A p \in Pool : pending[p] <= covered[p]
    BY <1>1, <1>5 DEF Answered, ReportFacts, ReportsCapture, SeenByLatchflo
  <2>3. CheckpointsOrdered'
    BY <1>1, <1>4, <2>1, <2>2 DEF ReportFacts, CheckpointsOrdered
  <2>4. ExactUntilLost'
    BY <1>1, <1>3, <2>1, <2>2 DEF ReportFacts, ExactUntilLost
  <2> QED BY <1>3, <2>3, <2>4 DEF ReportFacts
<1>6. CASE Fails(i)
  <2>1. UNCHANGED <<accepted, pending>> /\ lossy' = (lossy \/ queue[i].state = "seen")
    BY <1>6 DEF Fails, reporterVars
  <2>2. CheckpointsOrdered'
    BY <1>1, <2>1 DEF ReportFacts, CheckpointsOrdered
  <2>3. ~ lossy' => ~ SeenByLatchflo
    BY <1>1, <2>1 DEF ReportFacts, OneUnderWay, SeenByLatchflo
  <2>4. ExactUntilLost'
    BY <1>1, <1>3, <2>1, <2>3 DEF ReportFacts, ExactUntilLost
  <2> QED BY <1>3, <2>2, <2>4 DEF ReportFacts
<1> QED BY <1>5, <1>6

LEMMA InitReports == Init => ReportFacts
BY DEF Init, Zero, ReportFacts, OneUnderWay, ReportsCapture, CheckpointsOrdered,
       ExactUntilLost, SeenByLatchflo

LEMMA NextReports ==
  ASSUME TypeOK, TypeOK', ReportFacts, [Next]_vars
  PROVE  ReportFacts'
<1>1. ASSUME UNCHANGED <<admitted, queue, reporterVars, covered, twice, lossy>>
      PROVE  ReportFacts'
  <2>1. \A p \in Pool : admitted[p] <= admitted'[p]
    BY <1>1, CountTypes
  <2> QED BY <1>1, <2>1, ReportUndisturbed
<1>2. CASE UNCHANGED vars
  BY <1>1, <1>2 DEF vars, poolVars, heartbeatVars, latchfloVars
<1>3. ASSUME NEW p \in Pool, Admit(p) \/ Finish(p)
      PROVE  ReportFacts'
  <2>1. \A q \in Pool : admitted[q] <= admitted'[q]
    BY <1>3, CountTypes DEF Admit, Finish, Counts
  <2> QED
    BY <1>3, <2>1, ReportUndisturbed DEF Admit, Finish, heartbeatVars, latchfloVars
<1>4. CASE Start \/ Stop \/ PollLoop \/ PollFails
  BY <1>1, <1>4 DEF Start, Stop, PollLoop, PollFails, poolVars, heartbeatVars, latchfloVars
<1>5. ASSUME NEW newer, PollApplies(newer)
      PROVE  ReportFacts'
  BY <1>1, <1>5 DEF PollApplies, heartbeatVars, latchfloVars
<1>6. ASSUME NEW heard \in BOOLEAN, NEW answered \in BOOLEAN,
             AckedNext(heard, answered) \/ AckedAll(heard, answered)
      PROVE  ReportFacts'
  BY <1>1, <1>6 DEF AckedNext, AckedAll, AckAnswered, poolVars, heartbeatVars
<1>7. ASSUME NEW owner \in {"loop", "poll", "now"}, Len(queue) < MaxQueue,
             queue' = Append(queue, Queued(owner)),
             UNCHANGED <<admitted, reporterVars, covered, twice, lossy>>
      PROVE  ReportFacts'
  <2>1. \A p \in Pool : admitted[p] <= admitted'[p]
    BY <1>7, CountTypes
  <2>2. Queued(owner).state = "waiting"
    BY DEF Queued
  <2> QED BY <1>7, <2>1, <2>2, Joins, ReportUndisturbed
<1>8. ASSUME NEW heard \in BOOLEAN, NEW answered \in BOOLEAN, AckedLast(heard, answered)
      PROVE  ReportFacts'
  BY <1>7, <1>8 DEF AckedLast, AckAnswered, poolVars
<1>9. CASE HeartbeatLoop \/ HeartbeatNow
  BY <1>7, <1>9 DEF HeartbeatLoop, HeartbeatNow, poolVars, latchfloVars
<1> QED
  BY <1>2, <1>3, <1>4, <1>5, <1>6, <1>8, <1>9, CaptureReports, SeenReports, EndsReports
     DEF Next, PollStep

LEMMA ReportInvariant == Spec => [](TypeOK /\ ReportFacts)
<1>1. Init => TypeOK /\ ReportFacts
  BY InitTypes, InitReports
<1>2. TypeOK /\ ReportFacts /\ [Next]_vars => (TypeOK /\ ReportFacts)'
  BY NextTypes, NextReports
<1> QED BY <1>1, <1>2, PTL DEF Spec

(* A failed heartbeat loses no admission pressure, and counts none twice:  *)
(* what the agent regards as reported Latchflo has been told of without a  *)
(* gap, and it is told of an admission again only after an answer was lost.*)
THEOREM DemandIsReportedOnce == Spec => []ReportedOnce
<1>1. TypeOK /\ ReportFacts => ReportedOnce
  BY DEF TypeOK, ReportFacts, CheckpointsOrdered, ExactUntilLost, ReportedOnce,
         NoPressureLost, CountedOnce
<1> QED BY <1>1, ReportInvariant, PTL

-----------------------------------------------------------------------------
(* The heartbeat loop.                                                     *)

(* No heartbeat of the loop disappears unless it is the one that ends.     *)
LoopQueued == \E i \in DOMAIN queue : queue[i].owner = "loop"

LEMMA AliveUndisturbed ==
  ASSUME HeartbeatAlive, running' => running, timer => timer',
         LoopQueued => LoopQueued',
         running' /\ ~ (starting' /\ pc' # "idle") =>
           \/ timer' \/ LoopQueued'
           \/ ~ (starting /\ pc # "idle")
  PROVE  HeartbeatAlive'
BY DEF HeartbeatAlive, LoopQueued

LEMMA NextAlive ==
  ASSUME TypeOK, HeartbeatAlive, [Next]_vars
  PROVE  HeartbeatAlive'
<1>1. CASE UNCHANGED vars
  BY <1>1, AliveUndisturbed
     DEF vars, lifecycleVars, heartbeatVars, pollVars, LoopQueued
<1>2. ASSUME NEW p \in Pool, Admit(p) \/ Finish(p)
      PROVE  HeartbeatAlive'
  BY <1>2, AliveUndisturbed
     DEF Admit, Finish, lifecycleVars, heartbeatVars, pollVars, LoopQueued
<1>3. CASE Start \/ Stop
  BY <1>3 DEF Start, Stop, HeartbeatAlive
<1>4. CASE PollLoop \/ PollFails
  BY <1>4, AliveUndisturbed
     DEF PollLoop, PollFails, lifecycleVars, heartbeatVars, LoopQueued, TypeOK
<1>5. ASSUME NEW newer, PollApplies(newer)
      PROVE  HeartbeatAlive'
  BY <1>5, AliveUndisturbed
     DEF PollApplies, lifecycleVars, heartbeatVars, LoopQueued
<1>6. ASSUME NEW heard \in BOOLEAN, NEW answered \in BOOLEAN, AckedNext(heard, answered)
      PROVE  HeartbeatAlive'
  BY <1>6, AliveUndisturbed
     DEF AckedNext, AckAnswered, lifecycleVars, heartbeatVars, LoopQueued
<1>7. ASSUME NEW heard \in BOOLEAN, NEW answered \in BOOLEAN, AckedLast(heard, answered)
      PROVE  HeartbeatAlive'
  <2>1. LoopQueued => LoopQueued'
    BY <1>7, Joins DEF AckedLast, LoopQueued
  <2> QED
    BY <1>7, <2>1, AliveUndisturbed DEF AckedLast, AckAnswered, lifecycleVars
<1>8. ASSUME NEW heard \in BOOLEAN, NEW answered \in BOOLEAN, AckedAll(heard, answered)
      PROVE  HeartbeatAlive'
  BY <1>8, AliveUndisturbed
     DEF AckedAll, AckAnswered, PollReturns, lifecycleVars, LoopQueued, TypeOK
<1>9. CASE HeartbeatLoop
  <2>1. LoopQueued'
    BY <1>9, Joins DEF HeartbeatLoop, LoopQueued
  <2> QED BY <2>1 DEF HeartbeatAlive, LoopQueued
<1>10. CASE HeartbeatNow
  <2>1. LoopQueued => LoopQueued'
    BY <1>10, Joins DEF HeartbeatNow, LoopQueued
  <2> QED
    BY <1>10, <2>1, AliveUndisturbed DEF HeartbeatNow, lifecycleVars, pollVars
<1>11. ASSUME NEW i \in 1..MaxQueue, Capture(i) \/ Seen(i)
       PROVE  HeartbeatAlive'
  <2>1. LoopQueued => LoopQueued'
    BY <1>11, CaptureInPlace, SeenInPlace DEF LoopQueued
  <2> QED
    BY <1>11, <2>1, AliveUndisturbed DEF Capture, Seen, lifecycleVars, pollVars
<1>12. ASSUME NEW i \in 1..MaxQueue, Answered(i) \/ Fails(i)
       PROVE  HeartbeatAlive'
  <2>1. PICK ok \in BOOLEAN : Ends(i, ok) /\ i \in DOMAIN queue
    BY <1>12 DEF Answered, Fails
  <2>2. /\ queue' = RemoveAt(queue, i)
        /\ UNCHANGED <<running, starting>>
        /\ timer => timer'
        /\ running' /\ queue[i].owner = "loop" => timer'
        /\ running' /\ queue[i].owner = "poll" /\ starting => timer'
        /\ queue[i].owner # "poll" => pc' = pc
    BY <2>1 DEF Ends, Schedule, lifecycleVars, TypeOK
  <2>3. LoopQueued /\ queue[i].owner # "loop" => LoopQueued'
    BY <2>1, <2>2, Leaves DEF LoopQueued
  <2> QED
    BY <2>2, <2>3 DEF HeartbeatAlive, LoopQueued
<1> QED
  BY <1>1, <1>2, <1>3, <1>4, <1>5, <1>6, <1>7, <1>8, <1>9, <1>10, <1>11, <1>12
     DEF Next, PollStep

(* The heartbeat loop never dies: while the agent runs and start() is      *)
(* over, a heartbeat of the loop is outstanding or scheduled, however      *)
(* heartbeats fail and whoever else sends them.                            *)
THEOREM HeartbeatsStayAlive == Spec => []HeartbeatAlive
<1>1. Init => HeartbeatAlive
  BY DEF Init, HeartbeatAlive
<1>2. TypeOK /\ HeartbeatAlive /\ [Next]_vars => HeartbeatAlive'
  BY NextAlive
<1> QED BY InitTypes, NextTypes, <1>1, <1>2, PTL DEF Spec
============================================================================
