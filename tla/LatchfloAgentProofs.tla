------------------------ MODULE LatchfloAgentProofs -----------------------
(***************************************************************************)
(* Theorems about LatchfloAgent for any set of pools, any contents and     *)
(* revisions the control plane may grant, any leases and any clock skew.   *)
(***************************************************************************)
EXTENDS LatchfloAgent, FiniteSetFacts, FiniteSetTheorems, TLAPS

-----------------------------------------------------------------------------
(* What the helpers of the agent return.                                   *)

Held == [Pool -> Grant \cup {NoGrant}]

(* The earliest expiry is the expiry of some held grant, and none is       *)
(* earlier.                                                                *)
LEMMA EarliestExpiryIsLeast ==
  ASSUME NEW held \in Held, NEW q \in HeldPools(held)
  PROVE  /\ EarliestExpiry(held) \in Nat
         /\ \E p \in HeldPools(held) : EarliestExpiry(held) = held[p].expiresAt
         /\ \A p \in HeldPools(held) : EarliestExpiry(held) <= held[p].expiresAt
<1> DEFINE S == {held[p].expiresAt : p \in HeldPools(held)}
<1>1. \A p \in HeldPools(held) : held[p] \in Grant
  BY DEF Held, HeldPools
<1>2. S \in SUBSET Nat
  BY <1>1 DEF Grant
<1>3. S # {}
  OBVIOUS
<1>4. PICK t \in S : \A u \in S : t <= u
  BY <1>2, <1>3, NatMinimum
<1>5. \A p \in HeldPools(held) : t <= held[p].expiresAt
  BY <1>4
<1>6. /\ EarliestExpiry(held) \in S
      /\ \A p \in HeldPools(held) : EarliestExpiry(held) <= held[p].expiresAt
  BY <1>5 DEF EarliestExpiry
<1> QED BY <1>2, <1>6

(* The expiration timer is armed exactly when a grant is held, no later    *)
(* than the first expiry, or at once when that has passed.                 *)
LEMMA ExpirationDueBounds ==
  ASSUME NEW held \in Held, NEW ahead \in Nat, now \in Nat
  PROVE  /\ ExpirationDue(held, ahead) \in Nat \cup {Off}
         /\ \A p \in HeldPools(held) :
              /\ ExpirationDue(held, ahead) \in Nat
              /\ \/ ExpirationDue(held, ahead) <= held[p].expiresAt
                 \/ ExpirationDue(held, ahead) <= now
<1>1. CASE HeldPools(held) = {}
  BY <1>1 DEF ExpirationDue
<1>2. CASE HeldPools(held) # {}
  <2>1. /\ EarliestExpiry(held) \in Nat
        /\ \A p \in HeldPools(held) : EarliestExpiry(held) <= held[p].expiresAt
    BY <1>2, EarliestExpiryIsLeast
  <2>2. \A p \in HeldPools(held) : held[p].expiresAt \in Nat
    BY DEF Held, HeldPools, Grant
  <2>3. CASE EarliestExpiry(held) <= now + ahead
    BY <1>2, <2>3 DEF ExpirationDue
  <2>4. CASE EarliestExpiry(held) > now + ahead
    <3>1. ExpirationDue(held, ahead) = EarliestExpiry(held) - ahead
      BY <1>2, <2>1, <2>4 DEF ExpirationDue
    <3> QED BY <2>1, <2>2, <2>4, <3>1
  <2> QED BY <2>1, <2>3, <2>4
<1> QED BY <1>1, <1>2

LEMMA ReportedTableType ==
  ASSUME NEW table \in Table \cup {NoTable}
  PROVE  /\ ReportedTable(table) \in Table \cup {NoTable}
         /\ ReportedTable(ReportedTable(table)) = ReportedTable(table)
BY UnsetAssumption DEF ReportedTable, Table

LEMMA InstalledType ==
  ASSUME NEW next \in Limits
  PROVE  /\ Installed(next) \in Limits
         /\ Installed(next).revision = next.revision
         /\ Installed(next).maxConcurrent = next.maxConcurrent
         /\ Installed(next).budget = next.budget
         /\ Installed(next).classes = ReportedTable(next.classes)
BY ReportedTableType DEF Installed, Limits

LEMMA ApplyLimitsType ==
  ASSUME NEW old \in [Pool -> Limits], NEW S \in SUBSET Pool,
         NEW updates \in [S -> Limits]
  PROVE  ApplyLimits(old, updates) \in [Pool -> Limits]
BY InstalledType DEF ApplyLimits

LEMMA GrantUpdateType ==
  ASSUME NEW applied \in Limits, NEW offer \in Offer,
         NEW fallback \in Table \cup {NoTable}
  PROVE  GrantUpdate(applied, offer, fallback) =
           [revision |-> offer.revision,
            maxConcurrent |-> offer.limits.maxConcurrent,
            budget |-> offer.limits.budget,
            classes |-> ResolvedTable(applied, offer, fallback)]
         /\ GrantUpdate(applied, offer, fallback) \in Limits
BY DEF GrantUpdate, WithRevision, ResolvedTable, FallbackTable, Offer, Limits,
       LimitContent

LEMMA KillSwitchType ==
  ASSUME NEW grant \in Grant, NEW applied \in Limits
  PROVE  KillSwitch(grant, applied) \in Limits
<1>1. FailClosedTable(applied.classes) \in Table \cup {NoTable}
  BY DEF FailClosedTable, Table, Limits
<1> QED
  BY <1>1 DEF KillSwitch, Grant, Limits, LimitContent

(* A complete desired state turns into grants, all newer pools into valid  *)
(* updates.                                                                *)
LEMMA IssuedType ==
  ASSUME NEW r \in Response, Complete(r)
  PROVE  /\ Issued(r) \in [Pool -> Grant]
         /\ \A p \in Pool : r.offers[p] \in Offer
         /\ r.epoch \in Nat
<1>1. /\ \A p \in Pool : r.offers[p] \in
            [revision: Revisions, expiresAt: Expiries, limits: Content]
      /\ r.epoch \in Epochs
  BY DEF Response, Complete
<1>2. /\ \A p \in Pool : r.offers[p] \in Offer
      /\ r.epoch \in Nat
  BY <1>1, ConstantsAssumption DEF Offer
<1>3. Issued(r) \in [Pool -> Grant]
  BY <1>2 DEF Issued, Offer, Grant
<1> QED BY <1>2, <1>3

LEMMA UpdatesType ==
  ASSUME TypeOK, NEW r \in Response, Complete(r)
  PROVE  Updates(r) \in [NewerPools(r) -> Limits]
<1>1. \A p \in NewerPools(r) :
        /\ p \in Pool
        /\ limits[p] \in Limits
        /\ r.offers[p] \in Offer
        /\ fallbacks[p] \in Table \cup {NoTable}
  BY IssuedType DEF NewerPools, TypeOK
<1> QED BY <1>1, GrantUpdateType DEF Updates

-----------------------------------------------------------------------------
(* Type correctness.                                                       *)

LimitsTypes ==
  /\ limits \in [Pool -> Limits]
  /\ fallbacks \in [Pool -> Table \cup {NoTable}]

PollTypes ==
  /\ pc \in [Poller -> {"idle", "fetch", "expired", "refused", "ack", "evidence"}]
  /\ kind \in [Poller -> {"start", "loop", "now"}]
  /\ offers \in [Poller -> [Pool -> Grant \cup {NoGrant}]]
  /\ acking \in [Poller -> SUBSET Pool]
  /\ todo \in [Poller -> SUBSET Pool]
  /\ shrinks \in [Poller -> SUBSET Pool]

LEMMA PollDoneTypes ==
  ASSUME TypeOK, NEW w \in Poller, PollDone(w)
  PROVE  PollTypes'
BY DEF TypeOK, PollDone, PollTypes, NoOffers

LEMMA PollReturnsTypes ==
  ASSUME TypeOK, NEW w \in Poller, PollReturns(w)
  PROVE  /\ PollTypes'
         /\ pollTimer' \in BOOLEAN
         /\ running' \in BOOLEAN
         /\ stopped' \in BOOLEAN
BY PollDoneTypes DEF TypeOK, PollReturns, SchedulePoll, lifecycleVars

LEMMA PollFailsTypes ==
  ASSUME TypeOK, NEW w \in Poller, NEW held, NEW instant,
         PollFails(w, held, instant)
  PROVE  /\ PollTypes'
         /\ pollTimer' \in BOOLEAN
         /\ ready' \in BOOLEAN
         /\ running' \in BOOLEAN
         /\ stopped' \in BOOLEAN
<1>1. PollTypes'
  BY PollDoneTypes DEF PollFails
<1>2. HasCompleteUnexpiredGrantSet(held, instant) \in BOOLEAN
  BY DEF HasCompleteUnexpiredGrantSet
<1> QED
  BY <1>1, <1>2 DEF TypeOK, PollFails, SchedulePoll

LEMMA SettleReadinessTypes ==
  ASSUME TypeOK, SettleReadiness(grants)
  PROVE  /\ ready' \in BOOLEAN
         /\ expirationTimer' \in Nat \cup {Off}
<1>1. HasCompleteUnexpiredGrantSet(grants, EffectiveNow) \in BOOLEAN
  BY DEF HasCompleteUnexpiredGrantSet
<1>2. ExpirationDue(grants, skew) \in Nat \cup {Off}
  BY ExpirationDueBounds, ConstantsAssumption DEF TypeOK, Held
<1> QED BY <1>1, <1>2 DEF SettleReadiness

(* TypeOK is not inductive by itself: an acknowledged revision becomes a   *)
(* drain target, so the offers a poll acknowledges must be grants.         *)
TypeInv ==
  /\ TypeOK
  /\ \A w \in Poller : pc[w] = "ack" => offers[w] \in [Pool -> Grant]

LEMMA TargetsAfterAckType ==
  ASSUME TypeInv, NEW w \in Poller, pc[w] = "ack", NEW delivered
  PROVE  TargetsAfterAck(w, delivered) \in [Pool -> Nat]
<1>1. \A p \in Pool : offers[w][p].revision \in Nat
  BY DEF TypeInv, Grant
<1> QED
  BY <1>1 DEF TargetsAfterAck, TypeInv, TypeOK

LEMMA InitTypes == Init => TypeInv
<1> SUFFICES ASSUME Init PROVE TypeInv
  OBVIOUS
<1>1. limits \in [Pool -> Limits]
  <2>1. \A p \in Pool : WithRevision(0, InitialContent[p]) \in Limits
    BY ConstantsAssumption DEF WithRevision, LimitContent, Limits
  <2> QED BY <2>1, InstalledType DEF Init
<1>2. fallbacks \in [Pool -> Table \cup {NoTable}]
  <2>1. \A p \in Pool : InitialContent[p].classes \in Table \cup {NoTable}
    BY ConstantsAssumption DEF LimitContent
  <2> QED BY <2>1, ReportedTableType DEF Init
<1>3. PollTypes
  BY DEF Init, PollTypes, NoOffers
<1>4. /\ now \in 0..MaxTime
      /\ grants \in [Pool -> Grant \cup {NoGrant}]
      /\ drainTargets \in [Pool -> Nat]
  BY ConstantsAssumption DEF Init, NoOffers
<1>5. TypeOK
  BY <1>1, <1>2, <1>3, <1>4 DEF Init, TypeOK, PollTypes
<1> QED
  BY <1>5 DEF Init, TypeInv

(* Every step of the system preserves the types.                           *)
LEMMA NextTypes == TypeInv /\ [Next]_vars => TypeInv'
<1> SUFFICES ASSUME TypeInv, [Next]_vars
             PROVE  TypeInv'
  OBVIOUS
<1> USE DEF TypeInv
<1>a. TypeOK
  OBVIOUS
<1>1. CASE UNCHANGED vars
  BY <1>1 DEF vars, clockVars, lifecycleVars, leaseVars, pollVars, TypeOK
<1>2. ASSUME NEW w \in Poller, Start(w) \/ PollLoop(w) \/ PollNow(w)
      PROVE  TypeInv'
  BY <1>2 DEF Start, PollLoop, PollNow, TypeOK, clockVars, lifecycleVars,
              leaseVars
<1>3. CASE Stop
  BY <1>3 DEF Stop, TypeOK, clockVars, pollVars
<1>4. ASSUME NEW e \in Epochs, Register(e)
      PROVE  TypeInv'
  BY <1>4, ConstantsAssumption
     DEF Register, TypeOK, clockVars, lifecycleVars, leaseVars, pollVars
<1>5. ASSUME NEW w \in Poller, FetchFails(w)
      PROVE  TypeInv'
  <2>1. /\ PollTypes'
        /\ pollTimer' \in BOOLEAN
        /\ ready' \in BOOLEAN
        /\ running' \in BOOLEAN
        /\ stopped' \in BOOLEAN
    BY <1>5, PollFailsTypes DEF FetchFails
  <2>2. TypeOK'
    BY <1>5, <2>1 DEF FetchFails, TypeOK, PollTypes, clockVars, leaseVars
  <2> QED
    BY <1>5, <2>2 DEF FetchFails, PollFails, PollDone, TypeOK
<1>6. ASSUME NEW w \in Poller, NEW r \in Response, NEW ahead \in Skews,
             PollStaleEpoch(w, r, ahead)
      PROVE  TypeInv'
  <2>1. /\ PollTypes'
        /\ pollTimer' \in BOOLEAN
        /\ ready' \in BOOLEAN
        /\ running' \in BOOLEAN
        /\ stopped' \in BOOLEAN
    BY <1>6, PollFailsTypes DEF PollStaleEpoch
  <2>2. TypeOK'
    BY <1>6, <2>1, ConstantsAssumption
       DEF PollStaleEpoch, Receives, TypeOK, PollTypes, leaseVars
  <2> QED
    BY <1>6, <2>2 DEF PollStaleEpoch, PollFails, PollDone, TypeOK
<1>7. ASSUME NEW w \in Poller, NEW r \in Response, NEW ahead \in Skews,
             PollIncomplete(w, r, ahead)
      PROVE  TypeInv'
  <2>1. /\ PollTypes'
        /\ pollTimer' \in BOOLEAN
        /\ running' \in BOOLEAN
        /\ stopped' \in BOOLEAN
    BY <1>7, PollReturnsTypes DEF PollIncomplete
  <2>2. /\ ahead \in Nat
        /\ r.epoch \in Nat
    BY ConstantsAssumption DEF Response
  <2>3. expirationTimer' \in Nat \cup {Off}
    BY <1>7, <2>2, ExpirationDueBounds, ConstantsAssumption
       DEF PollIncomplete, TypeOK, Held
  <2>4. ready' \in BOOLEAN
    BY <1>7 DEF PollIncomplete, HasCompleteUnexpiredGrantSet
  <2>5. TypeOK'
    BY <1>7, <2>1, <2>2, <2>3, <2>4
       DEF PollIncomplete, Accepts, Receives, TypeOK, PollTypes, leaseVars
  <2> QED
    BY <1>7, <2>5 DEF PollIncomplete, PollReturns, PollDone, TypeOK
<1>8. ASSUME NEW w \in Poller, NEW r \in Response, NEW ahead \in Skews,
             PollExpired(w, r, ahead)
      PROVE  TypeInv'
  <2>1. /\ ahead \in Nat
        /\ r.epoch \in Nat
    BY ConstantsAssumption DEF Response
  <2> QED
    BY <1>8, <2>1 DEF PollExpired, Accepts, Receives, TypeOK, lifecycleVars, leaseVars
<1>9. ASSUME NEW w \in Poller, NEW r \in Response, NEW ahead \in Skews,
             PollRefused(w, r, ahead)
      PROVE  TypeInv'
  <2>1. /\ ahead \in Nat
        /\ r.epoch \in Nat
    BY ConstantsAssumption DEF Response
  <2>2. Issued(r) \in [Pool -> Grant]
    BY <1>9, IssuedType DEF PollRefused
  <2>3. /\ acking' \in [Poller -> SUBSET Pool]
        /\ pc' = [pc EXCEPT ![w] = "refused"]
        /\ offers' = [offers EXCEPT ![w] = Issued(r)]
    BY <1>9 DEF PollRefused, RefusedPools, TypeOK
  <2>4. TypeOK'
    BY <1>9, <2>1, <2>2, <2>3
       DEF PollRefused, Accepts, Receives, TypeOK, lifecycleVars, leaseVars
  <2> QED
    BY <2>2, <2>3, <2>4 DEF TypeOK
<1>10. ASSUME NEW w \in Poller, NEW r \in Response, NEW ahead \in Skews,
              TopologyThrows(w, r, ahead) \/ PollThrows(w, r, ahead)
       PROVE  TypeInv'
  <2>1. /\ PollTypes'
        /\ pollTimer' \in BOOLEAN
        /\ ready' \in BOOLEAN
        /\ running' \in BOOLEAN
        /\ stopped' \in BOOLEAN
    BY <1>10, PollFailsTypes DEF TopologyThrows, PollThrows
  <2>2. /\ ahead \in Nat
        /\ r.epoch \in Nat
    BY ConstantsAssumption DEF Response
  <2>3. TypeOK'
    BY <1>10, <2>1, <2>2
       DEF TopologyThrows, PollThrows, ReadyToApply, Accepts, Receives, TypeOK, PollTypes, leaseVars
  <2> QED
    BY <1>10, <2>3 DEF TopologyThrows, PollThrows, PollFails, PollDone, TypeOK
<1>11. ASSUME NEW w \in Poller, NEW r \in Response, NEW ahead \in Skews,
              PollApplies(w, r, ahead)
       PROVE  TypeInv'
  <2>1. /\ ahead \in Nat
        /\ r.epoch \in Nat
    BY ConstantsAssumption DEF Response
  <2>2. Complete(r)
    BY <1>11 DEF PollApplies, ReadyToApply
  <2>3. /\ Issued(r) \in [Pool -> Grant]
        /\ \A p \in Pool : r.offers[p] \in Offer
    BY <2>2, IssuedType
  <2>4. limits' \in [Pool -> Limits]
    <3>1. Updates(r) \in [NewerPools(r) -> Limits]
      BY <2>2, UpdatesType
    <3>2. NewerPools(r) \subseteq Pool
      BY DEF NewerPools
    <3> QED
      BY <1>11, <3>1, <3>2, ApplyLimitsType DEF PollApplies, TypeOK
  <2>5. fallbacks' \in [Pool -> Table \cup {NoTable}]
    BY <1>11, <2>4 DEF PollApplies, TypeOK, Limits
  <2>6. drainTargets' \in [Pool -> Nat]
    BY <1>11 DEF PollApplies, TypeOK
  <2>7. grants' \in [Pool -> Grant \cup {NoGrant}]
    BY <1>11, <2>3 DEF PollApplies, NoOffers
  <2>8. PollTypes'
    <3>1. {p \in NewerPools(r) : NeedsDrainEvidence(limits[p], Updates(r)[p])}
            \subseteq Pool
      BY DEF NewerPools
    <3> QED
      BY <1>11, <2>3, <3>1 DEF PollApplies, PollTypes, TypeOK
  <2>9. TypeOK'
    BY <1>11, <2>1, <2>4, <2>5, <2>6, <2>7, <2>8
       DEF PollApplies, ReadyToApply, Accepts, Receives, TypeOK, PollTypes,
           lifecycleVars
  <2> QED
    BY <1>11, <2>3, <2>9 DEF PollApplies, TypeOK
<1>12. ASSUME NEW w \in Poller, ExpiredAcked(w)
       PROVE  TypeInv'
  <2>1. /\ PollTypes'
        /\ pollTimer' \in BOOLEAN
        /\ running' \in BOOLEAN
        /\ stopped' \in BOOLEAN
        /\ ready' \in BOOLEAN
        /\ expirationTimer' \in Nat \cup {Off}
    BY <1>12, PollReturnsTypes, SettleReadinessTypes DEF ExpiredAcked
  <2>2. TypeOK'
    BY <1>12, <2>1 DEF ExpiredAcked, TypeOK, PollTypes, clockVars, leaseVars
  <2> QED
    BY <1>12, <2>2 DEF ExpiredAcked, PollReturns, PollDone, TypeOK
<1>13. ASSUME NEW w \in Poller, RefusalAcked(w)
       PROVE  TypeInv'
  <2>1. /\ PollTypes'
        /\ pollTimer' \in BOOLEAN
        /\ running' \in BOOLEAN
        /\ stopped' \in BOOLEAN
    BY <1>13, PollReturnsTypes DEF RefusalAcked
  <2>2. TypeOK'
    BY <1>13, <2>1 DEF RefusalAcked, TypeOK, PollTypes, clockVars, leaseVars
  <2> QED
    BY <1>13, <2>2 DEF RefusalAcked, PollReturns, PollDone, TypeOK
<1>14. ASSUME NEW w \in Poller, NEW delivered \in BOOLEAN, AckedNext(w, delivered)
       PROVE  TypeInv'
  <2>1. drainTargets' \in [Pool -> Nat]
    BY <1>14, TargetsAfterAckType DEF AckedNext
  <2>2. PICK next \in todo[w] :
          /\ grants' = [grants EXCEPT ![next] = offers[w][next]]
          /\ acking' = [acking EXCEPT ![w] = {next}]
          /\ todo' = [todo EXCEPT ![w] = todo[w] \ {next}]
    BY <1>14 DEF AckedNext
  <2>3. /\ next \in Pool
        /\ offers[w][next] \in Grant
    BY <1>14, <2>2 DEF TypeOK, AckedNext
  <2>4. /\ grants' \in [Pool -> Grant \cup {NoGrant}]
        /\ acking' \in [Poller -> SUBSET Pool]
        /\ todo' \in [Poller -> SUBSET Pool]
    BY <2>2, <2>3 DEF TypeOK
  <2>5. TypeOK'
    BY <1>14, <2>1, <2>4 DEF AckedNext, TypeOK, clockVars, lifecycleVars
  <2> QED
    BY <1>14, <2>5 DEF AckedNext, TypeOK
<1>15. ASSUME NEW w \in Poller, NEW delivered \in BOOLEAN, AckedLast(w, delivered)
       PROVE  TypeInv'
  <2>1. drainTargets' \in [Pool -> Nat]
    BY <1>15, TargetsAfterAckType DEF AckedLast
  <2>2. TypeOK'
    BY <1>15, <2>1 DEF AckedLast, TypeOK, clockVars, lifecycleVars
  <2> QED
    BY <1>15, <2>2 DEF AckedLast, TypeOK
<1>16. ASSUME NEW w \in Poller, NEW delivered \in BOOLEAN, AckedAll(w, delivered)
       PROVE  TypeInv'
  <2>1. drainTargets' \in [Pool -> Nat]
    BY <1>16, TargetsAfterAckType DEF AckedAll
  <2>2. /\ PollTypes'
        /\ pollTimer' \in BOOLEAN
        /\ running' \in BOOLEAN
        /\ stopped' \in BOOLEAN
        /\ ready' \in BOOLEAN
        /\ expirationTimer' \in Nat \cup {Off}
    BY <1>16, PollReturnsTypes, SettleReadinessTypes DEF AckedAll
  <2>3. TypeOK'
    BY <1>16, <2>1, <2>2 DEF AckedAll, TypeOK, PollTypes, clockVars
  <2> QED
    BY <1>16, <2>3 DEF AckedAll, PollReturns, PollDone, TypeOK
<1>17. ASSUME NEW w \in Poller, NEW met \in SUBSET Pool, EvidencePublished(w, met)
       PROVE  TypeInv'
  <2>1. /\ PollTypes'
        /\ pollTimer' \in BOOLEAN
        /\ running' \in BOOLEAN
        /\ stopped' \in BOOLEAN
        /\ ready' \in BOOLEAN
        /\ expirationTimer' \in Nat \cup {Off}
    BY <1>17, PollReturnsTypes, SettleReadinessTypes DEF EvidencePublished
  <2>2. drainTargets' \in [Pool -> Nat]
    BY <1>17 DEF EvidencePublished, CommitEvidence, TypeOK
  <2>3. TypeOK'
    BY <1>17, <2>1, <2>2 DEF EvidencePublished, TypeOK, PollTypes, clockVars
  <2> QED
    BY <1>17, <2>3 DEF EvidencePublished, PollReturns, PollDone, TypeOK
<1>18. ASSUME NEW met \in SUBSET Pool, HeartbeatAccepted(met)
       PROVE  TypeInv'
  BY <1>18 DEF HeartbeatAccepted, CommitEvidence, TypeOK, clockVars,
               lifecycleVars, pollVars
<1>19. CASE ExpirationEarly
  <2>1. expirationTimer' \in Nat \cup {Off}
    BY <1>19, ExpirationDueBounds, ConstantsAssumption
       DEF ExpirationEarly, TypeOK, Held
  <2> QED
    BY <1>19, <2>1 DEF ExpirationEarly, TypeOK, clockVars, lifecycleVars,
                       leaseVars, pollVars
<1>20. CASE FailClosed
  <2> DEFINE dead == ExpiredPools(grants, EffectiveNow)
             live == [p \in Pool |-> IF p \in dead THEN NoGrant ELSE grants[p]]
  <2>1. /\ limits' = ApplyLimits(limits, KillSwitches(dead))
        /\ grants' = live
        /\ drainTargets' = [p \in Pool |-> IF p \in dead THEN 0 ELSE drainTargets[p]]
        /\ expirationTimer' = ExpirationDue(live, skew)
    BY <1>20 DEF FailClosed
  <2>2. \A p \in dead : p \in Pool /\ grants[p] \in Grant /\ limits[p] \in Limits
    BY DEF ExpiredPools, TypeOK
  <2>3. KillSwitches(dead) \in [dead -> Limits]
    BY <2>2, KillSwitchType DEF KillSwitches
  <2>4. limits' \in [Pool -> Limits]
    BY <2>1, <2>2, <2>3, ApplyLimitsType DEF TypeOK
  <2>5. live \in Held
    BY DEF Held, TypeOK
  <2>6. expirationTimer' \in Nat \cup {Off}
    BY <2>1, <2>5, ExpirationDueBounds, ConstantsAssumption DEF TypeOK
  <2>7. drainTargets' \in [Pool -> Nat]
    BY <2>1 DEF TypeOK
  <2>8. grants' \in [Pool -> Grant \cup {NoGrant}]
    BY <2>1, <2>5 DEF Held
  <2> QED
    BY <1>20, <2>4, <2>6, <2>7, <2>8
       DEF FailClosed, TypeOK, clockVars, lifecycleVars, pollVars
<1>21. CASE FailClosedRefused
  <2>1. /\ ready' = FALSE
        /\ expirationTimer' = now + 1
        /\ UNCHANGED <<clockVars, lifecycleVars, controllerEpoch, leaseVars,
                       pollTimer, pollVars>>
    BY <1>21 DEF FailClosedRefused
  <2>2. expirationTimer' \in Nat
    BY <2>1, ConstantsAssumption DEF TypeOK
  <2> QED
    BY <2>1, <2>2 DEF TypeOK, clockVars, lifecycleVars, leaseVars, pollVars
<1>22. CASE Tick
  BY <1>22, ConstantsAssumption
     DEF Tick, TypeOK, lifecycleVars, leaseVars, pollVars
<1> QED
  BY <1>1, <1>2, <1>3, <1>4, <1>5, <1>6, <1>7, <1>8, <1>9, <1>10, <1>11, <1>12,
     <1>13, <1>14, <1>15, <1>16, <1>17, <1>18, <1>19, <1>20, <1>21, <1>22
     DEF Next, PollStep, ExpirationStep

(* Every reachable state is well typed, whatever the control plane grants. *)
THEOREM TypeCorrectness == Spec => []TypeOK
<1>1. Spec => []TypeInv
  BY InitTypes, NextTypes, PTL DEF Spec
<1>2. TypeInv => TypeOK
  BY DEF TypeInv
<1> QED
  BY <1>1, <1>2, PTL

-----------------------------------------------------------------------------
(* Revisions.                                                              *)

(* A transaction that passes the preflight raises the revision of every    *)
(* pool it changes.                                                        *)
LEMMA ApplyLimitsRaisesRevision ==
  ASSUME NEW old \in [Pool -> Limits], NEW S \in SUBSET Pool,
         NEW updates \in [S -> Limits], PreflightPasses(old, updates),
         NEW p \in Pool, ApplyLimits(old, updates)[p] # old[p]
  PROVE  ApplyLimits(old, updates)[p].revision > old[p].revision
<1>1. p \in S /\ ApplyLimits(old, updates)[p] = Installed(updates[p])
  BY DEF ApplyLimits
<1>2. updates[p].revision > old[p].revision
  BY <1>1 DEF PreflightPasses
<1> QED BY <1>1, <1>2, InstalledType

(* However many polls overlap, a pool's limits only change under a higher  *)
(* revision: a delayed response neither reopens a closed pool nor undoes a *)
(* newer grant.                                                            *)
THEOREM RevisionsNameSnapshots == Spec => RevisionNamesSnapshot
<1> DEFINE Higher ==
      \A p \in Pool :
        limits'[p] # limits[p] => limits'[p].revision > limits[p].revision
<1>1. TypeInv /\ [Next]_vars => Higher
  <2> SUFFICES ASSUME TypeInv, [Next]_vars PROVE Higher
    OBVIOUS
  <2> USE DEF TypeInv
  <2>1. CASE limits' = limits
    BY <2>1
  <2>2. ASSUME NEW w \in Poller, NEW r \in Response, NEW ahead \in Skews,
               PollApplies(w, r, ahead)
        PROVE  Higher
    <3>1. /\ Complete(r)
          /\ PreflightPasses(limits, Updates(r))
          /\ limits' = ApplyLimits(limits, Updates(r))
      BY <2>2 DEF PollApplies, ReadyToApply
    <3>2. /\ Updates(r) \in [NewerPools(r) -> Limits]
          /\ NewerPools(r) \in SUBSET Pool
      BY <3>1, UpdatesType DEF NewerPools
    <3> QED BY <3>1, <3>2, ApplyLimitsRaisesRevision DEF TypeOK
  <2>3. CASE FailClosed
    <3> DEFINE dead == ExpiredPools(grants, EffectiveNow)
    <3>1. /\ PreflightPasses(limits, KillSwitches(dead))
          /\ limits' = ApplyLimits(limits, KillSwitches(dead))
      BY <2>3 DEF FailClosed
    <3>2. \A p \in dead : p \in Pool /\ grants[p] \in Grant /\ limits[p] \in Limits
      BY DEF ExpiredPools, TypeOK
    <3>3. KillSwitches(dead) \in [dead -> Limits] /\ dead \in SUBSET Pool
      BY <3>2, KillSwitchType DEF KillSwitches
    <3> HIDE DEF dead
    <3> QED BY <3>1, <3>3, ApplyLimitsRaisesRevision DEF TypeOK
  <2> HIDE DEF Higher
  <2> QED
    BY <2>1, <2>2, <2>3
       DEF Next, PollStep, ExpirationStep, vars, leaseVars, Start, PollLoop, PollNow,
           Stop, Register, HeartbeatAccepted, Tick, ExpirationEarly,
           FailClosedRefused, FetchFails, PollStaleEpoch, PollIncomplete,
           PollExpired, PollRefused, TopologyThrows, PollThrows, ExpiredAcked, RefusalAcked,
           AckedNext, AckedLast, AckedAll, EvidencePublished
<1>2. Spec => []TypeInv
  BY InitTypes, NextTypes, PTL DEF Spec
<1>3. Spec => [][Higher]_vars
  BY <1>1, <1>2, PTL DEF Spec
<1> QED BY <1>3 DEF RevisionNamesSnapshot
-----------------------------------------------------------------------------
(* Sums of floors.                                                         *)

(* No floors add up to nothing: of the sets whose sum is not zero, one of  *)
(* least cardinality would have to be empty.                               *)
LEMMA SumOfZeros ==
  ASSUME NEW S, IsFiniteSet(S), NEW f, DOMAIN f = S, \A x \in S : f[x] = 0
  PROVE  SumFunction(f) = 0
<1> DEFINE pick(s) == CHOOSE x \in s : TRUE
           Sum(g) == [s \in SUBSET S |->
                        IF s = {} THEN 0 ELSE f[pick(s)] + g[s \ {pick(s)}]]
           zero == [s \in SUBSET S |-> 0]
           sum == CHOOSE g : g = Sum(g)
<1>1. \A s \in SUBSET S : s # {} => pick(s) \in s /\ f[pick(s)] = 0
  <2> SUFFICES ASSUME NEW s \in SUBSET S, s # {}
               PROVE  pick(s) \in s /\ f[pick(s)] = 0
    OBVIOUS
  <2>1. pick(s) \in s
    OBVIOUS
  <2> QED BY <2>1
<1>2. SumFunction(f) = sum[S]
  BY Zenon DEF SumFunction, SumFunctionOnSet, FoldFunctionOnSet, MapThenFoldSet
<1> HIDE DEF pick
<1>3. zero = Sum(zero)
  BY <1>1
<1> HIDE DEF Sum, zero
<1>4. sum = Sum(sum)
  BY <1>3
<1> HIDE DEF sum
<1>5. \A s \in SUBSET S :
        sum[s] = IF s = {} THEN 0 ELSE f[pick(s)] + sum[s \ {pick(s)}]
  BY <1>4 DEF Sum
<1> DEFINE Wrong == {s \in SUBSET S : sum[s] # 0}
           Sizes == {Cardinality(s) : s \in Wrong}
<1>6. Wrong = {}
  <2> SUFFICES ASSUME Wrong # {} PROVE FALSE
    OBVIOUS
  <2>1. \A s \in SUBSET S : IsFiniteSet(s) /\ Cardinality(s) \in Nat
    BY FS_Subset, FS_CardinalityType
  <2>2. Sizes \in SUBSET Nat /\ Sizes # {}
    BY <2>1
  <2>3. PICK n \in Sizes : \A m \in Sizes : n <= m
    BY <2>2, NatMinimum
  <2>4. PICK s \in Wrong : Cardinality(s) = n
    OBVIOUS
  <2>5. s # {} /\ sum[s] = f[pick(s)] + sum[s \ {pick(s)}]
    BY <1>5
  <2>6. pick(s) \in s /\ f[pick(s)] = 0
    BY <1>1, <2>5
  <2>7. s \ {pick(s)} \in SUBSET S /\ Cardinality(s \ {pick(s)}) = Cardinality(s) - 1
    BY <2>1, <2>6, FS_RemoveElement
  <2>8. sum[s \ {pick(s)}] = 0
    <3>1. ASSUME s \ {pick(s)} \in Wrong
          PROVE  FALSE
      <4>1. Cardinality(s \ {pick(s)}) \in Sizes
        BY <3>1
      <4>2. Cardinality(s) \in Nat
        BY <2>1
      <4>3. Cardinality(s) <= Cardinality(s) - 1
        BY <2>3, <2>4, <2>7, <4>1
      <4> QED BY <4>2, <4>3
    <3> QED BY <2>7, <3>1
  <2> QED BY <2>5, <2>6, <2>8
<1> QED BY <1>2, <1>6

-----------------------------------------------------------------------------
(* The poll loop.                                                          *)

(* While the agent runs, the next poll is scheduled, or a poll that will   *)
(* schedule it is in flight; one of pollNow() would not.                   *)
LoopAlive == running => pollTimer \/ \E w \in Poller : pc[w] # "idle" /\ kind[w] # "now"

(* A poll that ends hands over to the timer, unless start() fails with it. *)
LEMMA LoopHandedOver ==
  ASSUME TypeOK, LoopAlive, NEW w \in Poller, PollDone(w),
         \/ running' = FALSE
         \/ running' = running /\ SchedulePoll(w)
         \/ running' = running /\ kind[w] = "now" /\ pollTimer' = pollTimer
  PROVE  LoopAlive'
<1>1. CASE running' = FALSE
  BY <1>1 DEF LoopAlive
<1>2. CASE running' = running /\ kind[w] # "now" /\ SchedulePoll(w)
  BY <1>2 DEF LoopAlive, SchedulePoll
<1>3. CASE running' = running /\ kind[w] = "now" /\ pollTimer' = pollTimer
  <2>1. \A v \in Poller : v # w => pc'[v] = pc[v] /\ kind'[v] = kind[v]
    BY DEF PollDone, TypeOK
  <2> QED BY <1>3, <2>1 DEF LoopAlive
<1>4. kind[w] = "now" /\ SchedulePoll(w) => pollTimer' = pollTimer
  BY DEF SchedulePoll, TypeOK
<1> QED BY <1>1, <1>2, <1>3, <1>4

LEMMA NextLoopAlive ==
  ASSUME TypeInv, LoopAlive, [Next]_vars
  PROVE  LoopAlive'
<1>t. TypeOK
  BY DEF TypeInv
<1>1. CASE UNCHANGED vars
  BY <1>1 DEF vars, lifecycleVars, pollVars, LoopAlive
<1>2. ASSUME NEW w \in Poller, Start(w) \/ PollLoop(w) \/ PollNow(w)
      PROVE  LoopAlive'
  <2>1. /\ pc' = [pc EXCEPT ![w] = "fetch"]
        /\ \A v \in Poller : v # w => kind'[v] = kind[v]
        /\ pc[w] = "idle"
    BY <1>2 DEF Start, PollLoop, PollNow, TypeInv, TypeOK
  <2>2. CASE Start(w) \/ PollLoop(w)
    BY <2>1, <2>2 DEF Start, PollLoop, LoopAlive, TypeInv, TypeOK
  <2>3. CASE PollNow(w)
    BY <2>1, <2>3 DEF PollNow, LoopAlive, lifecycleVars, TypeInv, TypeOK
  <2> QED BY <1>2, <2>2, <2>3
<1>3. CASE \/ Stop
           \/ \E e \in Epochs : Register(e)
           \/ \E met \in SUBSET Pool : HeartbeatAccepted(met)
           \/ ExpirationStep
           \/ Tick
  BY <1>3
     DEF Stop, Register, HeartbeatAccepted, ExpirationStep, ExpirationEarly,
         FailClosed, FailClosedRefused, Tick, lifecycleVars, pollVars, LoopAlive
<1>4. ASSUME NEW w \in Poller, NEW held, NEW instant, PollFails(w, held, instant)
      PROVE  LoopAlive'
  BY <1>t, <1>4, LoopHandedOver DEF PollFails
<1>5. ASSUME NEW w \in Poller, PollReturns(w)
      PROVE  LoopAlive'
  BY <1>t, <1>5, LoopHandedOver DEF PollReturns, lifecycleVars
<1>6. ASSUME NEW w \in Poller, UNCHANGED <<running, pollTimer, kind>>,
             \A v \in Poller : v # w => pc'[v] = pc[v],
             pc'[w] # "idle"
      PROVE  LoopAlive'
  BY <1>6 DEF LoopAlive
<1>7. ASSUME NEW w \in Poller, NEW r \in Response, NEW ahead \in Skews,
             PollExpired(w, r, ahead) \/ PollRefused(w, r, ahead) \/ PollApplies(w, r, ahead)
      PROVE  LoopAlive'
  <2>1. /\ pc' = [pc EXCEPT ![w] = pc'[w]]
        /\ pc'[w] # "idle"
        /\ UNCHANGED <<running, pollTimer, kind>>
    BY <1>7 DEF PollExpired, PollRefused, PollApplies, lifecycleVars, TypeInv, TypeOK
  <2> QED BY <1>6, <2>1 DEF TypeInv, TypeOK
<1>8. ASSUME NEW w \in Poller, NEW delivered \in BOOLEAN,
             AckedNext(w, delivered) \/ AckedLast(w, delivered)
      PROVE  LoopAlive'
  <2>1. /\ \A v \in Poller : v # w => pc'[v] = pc[v]
        /\ pc'[w] # "idle"
        /\ UNCHANGED <<running, pollTimer, kind>>
    BY <1>8 DEF AckedNext, AckedLast, lifecycleVars, TypeInv, TypeOK
  <2> QED BY <1>6, <2>1
<1>9. ASSUME NEW w \in Poller, PollStep(w)
      PROVE  LoopAlive'
  BY <1>4, <1>5, <1>7, <1>8, <1>9
     DEF PollStep, FetchFails, PollStaleEpoch, TopologyThrows, PollIncomplete,
         PollThrows, ExpiredAcked, RefusalAcked, AckedAll, EvidencePublished
<1> QED BY <1>1, <1>2, <1>3, <1>9 DEF Next

(* The poll loop never dies, whichever exit a poll takes and however many  *)
(* polls overlap: while the agent runs another is in flight or scheduled.  *)
THEOREM PollerStaysAlive == Spec => []PollerAlive
<1>1. Init => LoopAlive
  BY DEF Init, LoopAlive
<1>2. TypeInv /\ LoopAlive /\ [Next]_vars => LoopAlive'
  BY NextLoopAlive
<1>3. LoopAlive => PollerAlive
  BY DEF LoopAlive, PollerAlive
<1> QED BY InitTypes, NextTypes, <1>1, <1>2, <1>3, PTL DEF Spec

-----------------------------------------------------------------------------
(* Capacity stays inside its lease.  The theorems hold when one poll runs  *)
(* at a time, as it does in Tyr's own process, where only the poll loop    *)
(* polls and a stopped agent is not started again: overlapping polls break *)
(* them (section 6 of the README).                                        *)

SinglePoller == \A v, w \in Poller : v = w

(* Of a batch being recorded, the part still to be recorded is not held,   *)
(* yet already in force.                                                   *)
TodoInForce ==
  \A w \in Poller : \A p \in todo[w] :
    /\ pc[w] = "ack"
    /\ grants[p] = NoGrant
    /\ InForce(limits[p], offers[w][p])

(* The pools hold what limits() reports, so reporting changes nothing.     *)
LimitsReported ==
  \A p \in Pool : ReportedTable(limits[p].classes) = limits[p].classes

RecordFacts ==
  /\ HeldGrantInForce
  /\ TodoInForce
  /\ LimitsReported
  /\ NoOrphanCapacity

RecordInv == TypeInv /\ RecordFacts

-----------------------------------------------------------------------------
LEMMA GrantIsNotNoGrant == NoGrant \notin Grant
BY SentinelAssumption DEF Grant

(* A batch that is applied puts every grant of the desired state in force, *)
(* also those that were applied by an earlier poll.                        *)
LEMMA BatchInForce ==
  ASSUME TypeInv, LimitsReported,
         NEW w \in Poller, NEW r \in Response, NEW ahead \in Skews,
         PollApplies(w, r, ahead)
  PROVE  /\ \A p \in Pool : InForce(limits'[p], Issued(r)[p])
         /\ LimitsReported'
<1>1. /\ Complete(r)
      /\ RefusedPools(r) = {}
      /\ limits' = ApplyLimits(limits, Updates(r))
  BY DEF PollApplies, ReadyToApply
<1>2. /\ \A p \in Pool : r.offers[p] \in Offer
      /\ \A p \in Pool : limits[p] \in Limits
      /\ \A p \in Pool : fallbacks[p] \in Table \cup {NoTable}
  BY <1>1, IssuedType DEF TypeInv, TypeOK
<1>3. \A p \in Pool :
        /\ Issued(r)[p].revision = r.offers[p].revision
        /\ Issued(r)[p].limits = r.offers[p].limits
  BY DEF Issued
<1>4. ASSUME NEW p \in NewerPools(r)
      PROVE  /\ InForce(limits'[p], Issued(r)[p])
             /\ ReportedTable(limits'[p].classes) = limits'[p].classes
  <2>1. p \in Pool
    BY DEF NewerPools
  <2> DEFINE update == GrantUpdate(limits[p], r.offers[p], fallbacks[p])
  <2>2. limits'[p] = Installed(update)
    BY <1>1, <2>1 DEF ApplyLimits, Updates, TypeInv, TypeOK
  <2>3. /\ update \in Limits
        /\ update.revision = r.offers[p].revision
        /\ update.maxConcurrent = r.offers[p].limits.maxConcurrent
        /\ update.budget = r.offers[p].limits.budget
        /\ update.classes = ResolvedTable(limits[p], r.offers[p], fallbacks[p])
    BY <1>2, <2>1, GrantUpdateType
  <2>4. /\ limits'[p].revision = r.offers[p].revision
        /\ limits'[p].maxConcurrent = r.offers[p].limits.maxConcurrent
        /\ limits'[p].budget = r.offers[p].limits.budget
        /\ limits'[p].classes = ReportedTable(update.classes)
    BY <2>2, <2>3, InstalledType
  <2>5. r.offers[p].limits.classes # NoTable =>
          update.classes = r.offers[p].limits.classes
    BY <2>3 DEF ResolvedTable
  <2>6. update.classes \in Table \cup {NoTable}
    BY <2>3 DEF Limits
  <2>7. ReportedTable(ReportedTable(update.classes)) = ReportedTable(update.classes)
    BY <2>6, ReportedTableType
  <2> HIDE DEF update
  <2> QED
    BY <1>3, <2>1, <2>4, <2>5, <2>7 DEF InForce
<1>5. ASSUME NEW p \in Pool, p \notin NewerPools(r)
      PROVE  /\ InForce(limits'[p], Issued(r)[p])
             /\ ReportedTable(limits'[p].classes) = limits'[p].classes
  <2>1. limits'[p] = limits[p]
    BY <1>1, <1>5 DEF ApplyLimits, Updates, TypeInv, TypeOK
  <2>2. ~ Refused(limits[p], r.offers[p], fallbacks[p])
    BY <1>1 DEF RefusedPools
  <2>3. limits[p].revision = r.offers[p].revision
    BY <1>2, <1>5, <2>2 DEF Refused, LocalRevisionAhead, NewerPools, Offer, Limits
  <2>4. LimitsEqual(limits[p], r.offers[p])
    BY <2>2, <2>3 DEF Refused, RevisionContentConflict
  <2>5. ReportedTable(limits[p].classes) = limits[p].classes
    BY DEF LimitsReported
  <2> QED
    BY <1>3, <2>1, <2>4, <2>5 DEF LimitsEqual, AdmissionClassesEqual, InForce
<1> QED
  BY <1>4, <1>5 DEF LimitsReported

(* Closing the expired pools of grants in force is never refused, and      *)
(* leaves them with no capacity.                                           *)
LEMMA KillSwitchNotRefused ==
  ASSUME TypeInv, HeldGrantInForce, NEW instant
  PROVE  ~ PreflightRefuses(limits, KillSwitches(ExpiredPools(grants, instant)))
<1> DEFINE dead == ExpiredPools(grants, instant)
<1>1. ASSUME NEW p \in dead
      PROVE  KillSwitches(dead)[p].revision > limits[p].revision
  <2>1. /\ p \in Pool
        /\ grants[p] \in Grant
    BY DEF ExpiredPools, TypeInv, TypeOK
  <2>2. limits[p].revision = grants[p].revision
    BY <2>1, GrantIsNotNoGrant DEF HeldGrantInForce, InForce
  <2>3. KillSwitches(dead)[p].revision = grants[p].revision + 1
    BY DEF KillSwitches, KillSwitch
  <2> QED
    BY <2>1, <2>2, <2>3 DEF Grant
<1>2. \A p \in dead :
        /\ KillSwitches(dead)[p].revision \in Nat
        /\ limits[p].revision \in Nat
  <2>1. ASSUME NEW p \in dead
        PROVE  /\ KillSwitches(dead)[p] \in Limits
               /\ limits[p] \in Limits
    BY KillSwitchType, <2>1 DEF KillSwitches, ExpiredPools, TypeInv, TypeOK
  <2> QED BY <2>1 DEF Limits
<1>3. DOMAIN KillSwitches(dead) = dead
  BY DEF KillSwitches
<1> HIDE DEF dead
<1>4. ~ PreflightRefuses(limits, KillSwitches(dead))
  BY <1>1, <1>2, <1>3 DEF PreflightRefuses
<1> QED BY <1>4 DEF dead
-----------------------------------------------------------------------------
(* The record of grants.                                                   *)

(* A step that leaves limits, grants and what is still to be recorded      *)
(* alone disturbs nothing.                                                 *)
LEMMA RecordUndisturbed ==
  ASSUME TypeInv, RecordFacts, limits' = limits, grants' = grants,
         \A v \in Poller :
           /\ todo'[v] = todo[v]
           /\ todo[v] # {} => pc'[v] = pc[v] /\ offers'[v] = offers[v]
  PROVE  RecordFacts'
<1>1. HeldGrantInForce' /\ LimitsReported'
  BY DEF RecordFacts, HeldGrantInForce, LimitsReported, InForce
<1>2. TodoInForce'
  BY DEF RecordFacts, TodoInForce, InForce
<1>3. NoOrphanCapacity'
  BY DEF RecordFacts, NoOrphanCapacity, Open, Recording
<1> QED BY <1>1, <1>2, <1>3 DEF RecordFacts

(* Ending a poll that has nothing left to record disturbs nothing.         *)
LEMMA RecordKeptByPollEnd ==
  ASSUME TypeInv, RecordFacts, NEW w \in Poller, PollDone(w), todo[w] = {},
         limits' = limits, grants' = grants
  PROVE  RecordFacts'
<1>1. \A v \in Poller :
        /\ todo'[v] = todo[v]
        /\ todo[v] # {} => pc'[v] = pc[v] /\ offers'[v] = offers[v]
  BY DEF PollDone, TypeInv, TypeOK
<1> QED BY <1>1, RecordUndisturbed

LEMMA InitRecord == Init => RecordFacts
<1> SUFFICES ASSUME Init PROVE RecordFacts
  OBVIOUS
<1>1. \A p \in Pool :
        /\ limits[p].maxConcurrent = 0
        /\ ReportedTable(limits[p].classes) = limits[p].classes
  <2>1. \A p \in Pool : WithRevision(0, InitialContent[p]) \in Limits
    BY ConstantsAssumption DEF WithRevision, LimitContent, Limits
  <2>2. \A p \in Pool : WithRevision(0, InitialContent[p]).maxConcurrent = 0
    BY ConstantsAssumption DEF WithRevision
  <2>3. ASSUME NEW p \in Pool
        PROVE  /\ limits[p].maxConcurrent = 0
               /\ ReportedTable(limits[p].classes) = limits[p].classes
    <3> DEFINE start == WithRevision(0, InitialContent[p])
    <3>1. limits[p] = Installed(start)
      BY DEF Init
    <3>2. start \in Limits /\ start.classes \in Table \cup {NoTable}
      BY <2>1 DEF Limits
    <3>3. /\ limits[p].maxConcurrent = start.maxConcurrent
          /\ limits[p].classes = ReportedTable(start.classes)
      BY <3>1, <3>2, InstalledType
    <3> QED BY <2>2, <3>2, <3>3, ReportedTableType
  <2> QED BY <2>3
<1>2. HeldGrantInForce /\ TodoInForce
  BY DEF Init, NoOffers, HeldGrantInForce, TodoInForce
<1>3. NoOrphanCapacity
  BY <1>1 DEF NoOrphanCapacity, Open
<1> QED BY <1>1, <1>2, <1>3 DEF RecordFacts, LimitsReported

LEMMA NextRecord ==
  ASSUME SinglePoller, TypeInv, RecordFacts, [Next]_vars
  PROVE  RecordFacts'
<1>1. CASE UNCHANGED vars
  BY <1>1, RecordUndisturbed DEF vars, leaseVars, pollVars
<1>2. ASSUME NEW w \in Poller, Start(w) \/ PollLoop(w) \/ PollNow(w)
      PROVE  RecordFacts'
  <2>1. todo[w] = {}
    BY <1>2 DEF Start, PollLoop, PollNow, RecordFacts, TodoInForce, TypeInv, TypeOK
  <2>2. /\ limits' = limits
        /\ grants' = grants
        /\ \A v \in Poller :
             /\ todo'[v] = todo[v]
             /\ todo[v] # {} => pc'[v] = pc[v] /\ offers'[v] = offers[v]
    BY <1>2, <2>1 DEF Start, PollLoop, PollNow, leaseVars, TypeInv, TypeOK
  <2> QED BY <2>2, RecordUndisturbed
<1>3. CASE Stop
  BY <1>3, RecordUndisturbed DEF Stop, pollVars
<1>4. ASSUME NEW e \in Epochs, Register(e)
      PROVE  RecordFacts'
  BY <1>4, RecordUndisturbed DEF Register, leaseVars, pollVars
<1>5. ASSUME NEW w \in Poller, NEW held, NEW instant, pc[w] = "fetch",
             PollFails(w, held, instant), UNCHANGED leaseVars
      PROVE  RecordFacts'
  <2>1. todo[w] = {}
    BY <1>5 DEF RecordFacts, TodoInForce, TypeInv, TypeOK
  <2> QED BY <1>5, <2>1, RecordKeptByPollEnd DEF PollFails, leaseVars
<1>6. ASSUME NEW w \in Poller, pc[w] # "ack", PollReturns(w),
             limits' = limits, grants' = grants
      PROVE  RecordFacts'
  <2>1. todo[w] = {}
    BY <1>6 DEF RecordFacts, TodoInForce, TypeInv, TypeOK
  <2> QED BY <1>6, <2>1, RecordKeptByPollEnd DEF PollReturns
<1>7. ASSUME NEW w \in Poller, FetchFails(w)
      PROVE  RecordFacts'
  BY <1>5, <1>7 DEF FetchFails
<1>8. ASSUME NEW w \in Poller, NEW r \in Response, NEW ahead \in Skews,
             PollStaleEpoch(w, r, ahead)
      PROVE  RecordFacts'
  BY <1>5, <1>8 DEF PollStaleEpoch, Receives
<1>9. ASSUME NEW w \in Poller, NEW r \in Response, NEW ahead \in Skews,
             PollIncomplete(w, r, ahead)
      PROVE  RecordFacts'
  BY <1>6, <1>9 DEF PollIncomplete, Accepts, Receives, leaseVars
<1>10. ASSUME NEW w \in Poller, NEW r \in Response, NEW ahead \in Skews,
              PollExpired(w, r, ahead) \/ PollRefused(w, r, ahead)
       PROVE  RecordFacts'
  <2>1. pc[w] = "fetch" /\ limits' = limits /\ grants' = grants
    BY <1>10 DEF PollExpired, PollRefused, Accepts, Receives, leaseVars
  <2>2. todo[w] = {}
    BY <2>1 DEF RecordFacts, TodoInForce, TypeInv, TypeOK
  <2>3. \A v \in Poller :
          /\ todo'[v] = todo[v]
          /\ todo[v] # {} => pc'[v] = pc[v] /\ offers'[v] = offers[v]
    BY <1>10, <2>2 DEF PollExpired, PollRefused, TypeInv, TypeOK
  <2> QED BY <2>1, <2>3, RecordUndisturbed
<1>11. ASSUME NEW w \in Poller, NEW r \in Response, NEW ahead \in Skews,
              TopologyThrows(w, r, ahead) \/ PollThrows(w, r, ahead)
       PROVE  RecordFacts'
  BY <1>5, <1>11 DEF TopologyThrows, PollThrows, ReadyToApply, Accepts, Receives
<1>12. ASSUME NEW w \in Poller, NEW r \in Response, NEW ahead \in Skews,
              PollApplies(w, r, ahead)
       PROVE  RecordFacts'
  <2>1. /\ \A p \in Pool : InForce(limits'[p], Issued(r)[p])
        /\ LimitsReported'
    BY <1>12, BatchInForce DEF RecordFacts
  <2>2. Issued(r) \in [Pool -> Grant]
    BY <1>12, IssuedType DEF PollApplies, ReadyToApply
  <2>3. PICK first \in Pool :
          /\ grants' = [NoOffers EXCEPT ![first] = Issued(r)[first]]
          /\ todo' = [todo EXCEPT ![w] = Pool \ {first}]
    BY <1>12 DEF PollApplies
  <2>4. \A v \in Poller : v = w
    BY DEF SinglePoller
  <2>5. /\ pc'[w] = "ack"
        /\ offers'[w] = Issued(r)
        /\ todo'[w] = Pool \ {first}
    BY <1>12, <2>3 DEF PollApplies, TypeInv, TypeOK
  <2>6. /\ grants'[first] = Issued(r)[first]
        /\ \A p \in Pool \ {first} : grants'[p] = NoGrant
    BY <2>3 DEF NoOffers
  <2>7. HeldGrantInForce'
    BY <2>1, <2>6 DEF HeldGrantInForce
  <2>8. TodoInForce'
    BY <2>1, <2>4, <2>5, <2>6 DEF TodoInForce
  <2>9. NoOrphanCapacity'
    BY <2>2, <2>5, <2>6, GrantIsNotNoGrant DEF NoOrphanCapacity, Recording
  <2> QED BY <2>1, <2>7, <2>8, <2>9 DEF RecordFacts
<1>13. ASSUME NEW w \in Poller, ExpiredAcked(w) \/ RefusalAcked(w)
       PROVE  RecordFacts'
  BY <1>6, <1>13 DEF ExpiredAcked, RefusalAcked, leaseVars
<1>14. ASSUME NEW w \in Poller, NEW delivered \in BOOLEAN, AckedNext(w, delivered)
       PROVE  RecordFacts'
  <2>1. PICK next \in todo[w] :
          /\ grants' = [grants EXCEPT ![next] = offers[w][next]]
          /\ todo' = [todo EXCEPT ![w] = todo[w] \ {next}]
    BY <1>14 DEF AckedNext
  <2>2. /\ limits' = limits
        /\ pc' = pc
        /\ offers' = offers
        /\ offers[w] \in [Pool -> Grant]
    BY <1>14 DEF AckedNext, TypeInv
  <2>3. /\ next \in Pool
        /\ grants'[next] = offers[w][next]
        /\ \A p \in Pool \ {next} : grants'[p] = grants[p]
        /\ todo'[w] = todo[w] \ {next}
    BY <2>1 DEF TypeInv, TypeOK
  <2>4. \A v \in Poller : v = w
    BY DEF SinglePoller
  <2>5. HeldGrantInForce'
    BY <2>1, <2>2, <2>3 DEF RecordFacts, HeldGrantInForce, TodoInForce
  <2>6. TodoInForce'
    BY <2>2, <2>3, <2>4 DEF RecordFacts, TodoInForce, TypeInv, TypeOK
  <2>7. NoOrphanCapacity'
    BY <2>2, <2>3, <2>4, GrantIsNotNoGrant
       DEF RecordFacts, NoOrphanCapacity, Open, Recording
  <2>8. LimitsReported'
    BY <2>2 DEF RecordFacts, LimitsReported
  <2> QED BY <2>5, <2>6, <2>7, <2>8 DEF RecordFacts
<1>15. ASSUME NEW w \in Poller, NEW delivered \in BOOLEAN, AckedLast(w, delivered)
       PROVE  RecordFacts'
  <2>1. /\ limits' = limits
        /\ grants' = grants
        /\ \A v \in Poller :
             /\ todo'[v] = todo[v]
             /\ todo[v] # {} => pc'[v] = pc[v] /\ offers'[v] = offers[v]
    BY <1>15 DEF AckedLast, TypeInv, TypeOK
  <2> QED BY <2>1, RecordUndisturbed
<1>16. ASSUME NEW w \in Poller, NEW delivered \in BOOLEAN, AckedAll(w, delivered)
       PROVE  RecordFacts'
  BY <1>16, RecordKeptByPollEnd DEF AckedAll, PollReturns
<1>17. ASSUME NEW w \in Poller, NEW met \in SUBSET Pool, EvidencePublished(w, met)
       PROVE  RecordFacts'
  BY <1>6, <1>17 DEF EvidencePublished
<1>18. ASSUME NEW met \in SUBSET Pool, HeartbeatAccepted(met)
       PROVE  RecordFacts'
  BY <1>18, RecordUndisturbed DEF HeartbeatAccepted, pollVars
<1>19. CASE ExpirationEarly \/ FailClosedRefused \/ Tick
  BY <1>19, RecordUndisturbed
     DEF ExpirationEarly, FailClosedRefused, Tick, leaseVars, pollVars
<1>20. CASE FailClosed
  <2> DEFINE dead == ExpiredPools(grants, EffectiveNow)
  <2>1. /\ limits' = ApplyLimits(limits, KillSwitches(dead))
        /\ grants' = [p \in Pool |-> IF p \in dead THEN NoGrant ELSE grants[p]]
        /\ UNCHANGED pollVars
    BY <1>20 DEF FailClosed
  <2>2. ASSUME NEW p \in Pool, p \notin dead
        PROVE  limits'[p] = limits[p] /\ grants'[p] = grants[p]
    BY <2>1, <2>2 DEF ApplyLimits, KillSwitches, TypeInv, TypeOK
  <2>3. ASSUME NEW p \in dead
        PROVE  /\ p \in Pool
               /\ grants'[p] = NoGrant
               /\ limits'[p].maxConcurrent = 0
               /\ ReportedTable(limits'[p].classes) = limits'[p].classes
               /\ \A v \in Poller : p \notin todo[v]
    <3>1. p \in Pool /\ grants[p] \in Grant /\ limits[p] \in Limits
      BY DEF ExpiredPools, TypeInv, TypeOK
    <3> DEFINE kill == KillSwitch(grants[p], limits[p])
    <3>2. limits'[p] = Installed(kill)
      BY <2>1, <3>1, <2>3 DEF ApplyLimits, KillSwitches, TypeInv, TypeOK
    <3>3. kill \in Limits /\ kill.maxConcurrent = 0
      BY <3>1, KillSwitchType DEF KillSwitch
    <3> HIDE DEF kill
    <3>4. kill.classes \in Table \cup {NoTable}
      BY <3>3 DEF Limits
    <3>5. \A v \in Poller : p \notin todo[v]
      BY <3>1, GrantIsNotNoGrant DEF RecordFacts, TodoInForce
    <3> QED
      BY <2>1, <2>3, <3>1, <3>2, <3>3, <3>4, <3>5, InstalledType, ReportedTableType
  <2> HIDE DEF dead
  <2>4. HeldGrantInForce'
    BY <2>2, <2>3 DEF RecordFacts, HeldGrantInForce
  <2>5. TodoInForce'
    BY <2>1, <2>2, <2>3 DEF RecordFacts, TodoInForce, pollVars, TypeInv, TypeOK
  <2>6. NoOrphanCapacity'
    <3>1. ASSUME NEW p \in Pool, Open(p)'
          PROVE  p \notin dead
      BY <2>3, <3>1 DEF Open
    <3> QED
      BY <2>1, <2>2, <3>1 DEF RecordFacts, NoOrphanCapacity, Open, Recording, pollVars
  <2>7. LimitsReported'
    BY <2>2, <2>3 DEF RecordFacts, LimitsReported
  <2> QED BY <2>4, <2>5, <2>6, <2>7 DEF RecordFacts
<1> QED
  BY <1>1, <1>2, <1>3, <1>4, <1>7, <1>8, <1>9, <1>10, <1>11, <1>12, <1>13,
     <1>14, <1>15, <1>16, <1>17, <1>18, <1>19, <1>20
     DEF Next, PollStep, ExpirationStep
-----------------------------------------------------------------------------
(* The expiration timer.                                                   *)

(* Outside of a batch that is being acknowledged, the timer is due no      *)
(* later than the first lease ends, or already due, and readiness rests on *)
(* a complete set of grants.                                               *)
TimerFacts ==
  /\ stopped => ~ running
  /\ ~ stopped /\ ~ Installing =>
       /\ \A p \in HeldPools(grants) :
            /\ expirationTimer \in Nat
            /\ expirationTimer <= grants[p].expiresAt \/ expirationTimer <= now
       /\ ready => \A p \in Pool : grants[p] # NoGrant

LeaseInv == TypeInv /\ RecordFacts /\ TimerFacts

(* A complete set of unexpired grants is in particular complete.           *)
LEMMA CompleteSetIsHeld ==
  ASSUME NEW instant, HasCompleteUnexpiredGrantSet(grants, instant)
  PROVE  \A p \in Pool : grants[p] # NoGrant
BY DEF HasCompleteUnexpiredGrantSet, Unexpired

(* A step that leaves clock, grants, timer and readiness alone, and does   *)
(* not end a batch, keeps the timer facts.                                 *)
LEMMA TimerUndisturbed ==
  ASSUME TypeInv, TimerFacts, now' = now, grants' = grants,
         expirationTimer' = expirationTimer,
         ready' => ready \/ \A p \in Pool : grants[p] # NoGrant,
         Installing => Installing',
         stopped => stopped' /\ ~ running',
         ~ stopped => ~ stopped'
  PROVE  TimerFacts'
BY DEF TimerFacts, HeldPools

(* Settling readiness rearms the timer for the grants that are held.       *)
LEMMA TimerRearmed ==
  ASSUME TypeInv, NEW held \in Held, NEW ahead \in Nat, NEW instant,
         now' = now, grants' = held,
         expirationTimer' = ExpirationDue(held, ahead),
         ready' => HasCompleteUnexpiredGrantSet(held, instant),
         stopped' => ~ running'
  PROVE  TimerFacts'
<1>1. \A p \in HeldPools(held) :
        /\ ExpirationDue(held, ahead) \in Nat
        /\ \/ ExpirationDue(held, ahead) <= held[p].expiresAt
           \/ ExpirationDue(held, ahead) <= now
  BY ExpirationDueBounds, ConstantsAssumption DEF TypeInv, TypeOK
<1>2. ready' => \A p \in Pool : held[p] # NoGrant
  BY DEF HasCompleteUnexpiredGrantSet, Unexpired
<1> QED
  BY <1>1, <1>2 DEF TimerFacts, HeldPools

LEMMA InitTimer == Init => TimerFacts
BY DEF Init, TimerFacts, HeldPools, NoOffers

LEMMA NextTimer ==
  ASSUME SinglePoller, ~ Embedded, TypeInv, RecordFacts, TimerFacts, [Next]_vars
  PROVE  TimerFacts'
<1>h. grants \in Held /\ skew \in Nat
  BY DEF TypeInv, TypeOK, Held
<1>1. CASE UNCHANGED vars
  BY <1>1, TimerUndisturbed
     DEF vars, clockVars, lifecycleVars, leaseVars, pollVars, Installing, TimerFacts
<1>2. ASSUME NEW w \in Poller, Start(w)
      PROVE  TimerFacts'
  <2>1. ~ stopped /\ ~ stopped' /\ pc[w] = "idle"
    BY <1>2 DEF Start
  <2>2. ~ Installing
    BY <2>1 DEF Installing, SinglePoller
  <2> QED
    BY <1>2, <2>1, <2>2, TimerUndisturbed DEF Start, clockVars, leaseVars
<1>3. ASSUME NEW w \in Poller, PollLoop(w) \/ PollNow(w)
      PROVE  TimerFacts'
  <2>1. ~ Installing
    BY <1>3 DEF PollLoop, PollNow, Installing, SinglePoller
  <2> QED
    BY <1>3, <2>1, TimerUndisturbed
       DEF PollLoop, PollNow, clockVars, leaseVars, lifecycleVars, TimerFacts
<1>4. CASE Stop
  BY <1>4 DEF Stop, TimerFacts
<1>5. ASSUME NEW e \in Epochs, Register(e)
      PROVE  TimerFacts'
  BY <1>5, TimerUndisturbed
     DEF Register, clockVars, lifecycleVars, leaseVars, pollVars, Installing, TimerFacts
<1>6. ASSUME NEW w \in Poller, NEW instant, pc[w] = "fetch", now' = now,
             PollFails(w, grants, instant), UNCHANGED <<leaseVars, expirationTimer>>
      PROVE  TimerFacts'
  <2>1. ~ Installing
    BY <1>6 DEF Installing, SinglePoller
  <2>2. ready' => ready \/ \A p \in Pool : grants[p] # NoGrant
    BY <1>6, CompleteSetIsHeld DEF PollFails
  <2>3. stopped' = stopped /\ (stopped => ~ running')
    BY <1>6 DEF PollFails, TimerFacts
  <2> QED
    BY <1>6, <2>1, <2>2, <2>3, TimerUndisturbed DEF leaseVars
<1>7. ASSUME NEW w \in Poller, FetchFails(w)
      PROVE  TimerFacts'
  BY <1>6, <1>7 DEF FetchFails, clockVars
<1>8. ASSUME NEW w \in Poller, NEW r \in Response, NEW ahead \in Skews,
             PollStaleEpoch(w, r, ahead) \/ TopologyThrows(w, r, ahead) \/ PollThrows(w, r, ahead)
      PROVE  TimerFacts'
  BY <1>6, <1>8 DEF PollStaleEpoch, TopologyThrows, PollThrows, ReadyToApply, Accepts, Receives
<1>9. ASSUME NEW w \in Poller, NEW r \in Response, NEW ahead \in Skews,
             PollIncomplete(w, r, ahead)
      PROVE  TimerFacts'
  <2>1. ahead \in Nat
    BY ConstantsAssumption
  <2> QED
    BY <1>h, <1>9, <2>1, TimerRearmed
       DEF PollIncomplete, Accepts, Receives, PollReturns, leaseVars, lifecycleVars,
           TimerFacts
<1>10. ASSUME NEW w \in Poller, NEW r \in Response, NEW ahead \in Skews,
              PollExpired(w, r, ahead) \/ PollRefused(w, r, ahead)
       PROVE  TimerFacts'
  <2>1. ~ Installing
    BY <1>10 DEF PollExpired, PollRefused, Accepts, Receives, Installing, SinglePoller
  <2> QED
    BY <1>10, <2>1, TimerUndisturbed
       DEF PollExpired, PollRefused, Accepts, Receives, leaseVars, lifecycleVars,
           TimerFacts
<1>11. ASSUME NEW w \in Poller, NEW r \in Response, NEW ahead \in Skews,
              PollApplies(w, r, ahead)
       PROVE  TimerFacts'
  <2>1. Installing'
    BY <1>11 DEF PollApplies, Installing, TypeInv, TypeOK
  <2> QED
    BY <1>11, <2>1 DEF PollApplies, lifecycleVars, TimerFacts
<1>12. ASSUME NEW w \in Poller, ExpiredAcked(w)
       PROVE  TimerFacts'
  BY <1>h, <1>12, TimerRearmed
     DEF ExpiredAcked, SettleReadiness, PollReturns, clockVars, leaseVars,
         lifecycleVars, TimerFacts
<1>13. ASSUME NEW w \in Poller, RefusalAcked(w)
       PROVE  TimerFacts'
  <2>1. ~ Installing
    BY <1>13 DEF RefusalAcked, Installing, SinglePoller
  <2> QED
    BY <1>13, <2>1, TimerUndisturbed
       DEF RefusalAcked, PollReturns, clockVars, leaseVars, lifecycleVars, TimerFacts
<1>14. ASSUME NEW w \in Poller, NEW delivered \in BOOLEAN,
              AckedNext(w, delivered) \/ AckedLast(w, delivered)
       PROVE  TimerFacts'
  <2>1. Installing'
    BY <1>14 DEF AckedNext, AckedLast, Installing, TypeInv, TypeOK
  <2> QED
    BY <1>14, <2>1 DEF AckedNext, AckedLast, lifecycleVars, TimerFacts
<1>15. ASSUME NEW w \in Poller, NEW delivered \in BOOLEAN, AckedAll(w, delivered)
       PROVE  TimerFacts'
  BY <1>h, <1>15, TimerRearmed
     DEF AckedAll, SettleReadiness, PollReturns, clockVars, lifecycleVars, TimerFacts
<1>16. ASSUME NEW w \in Poller, NEW met \in SUBSET Pool, EvidencePublished(w, met)
       PROVE  TimerFacts'
  BY <1>h, <1>16, TimerRearmed
     DEF EvidencePublished, SettleReadiness, PollReturns, clockVars, lifecycleVars,
         TimerFacts
<1>17. ASSUME NEW met \in SUBSET Pool, HeartbeatAccepted(met)
       PROVE  TimerFacts'
  BY <1>17, TimerUndisturbed
     DEF HeartbeatAccepted, clockVars, lifecycleVars, pollVars, Installing, TimerFacts
<1>18. CASE ExpirationEarly
  <2>1. /\ now' = now /\ grants' = grants /\ ready' = ready
        /\ pc' = pc /\ running' = running /\ stopped' = stopped
        /\ expirationTimer' = ExpirationDue(grants, skew)
    BY <1>18 DEF ExpirationEarly, clockVars, leaseVars, lifecycleVars, pollVars
  <2>2. \A p \in HeldPools(grants) :
          /\ ExpirationDue(grants, skew) \in Nat
          /\ \/ ExpirationDue(grants, skew) <= grants[p].expiresAt
             \/ ExpirationDue(grants, skew) <= now
    BY <1>h, ExpirationDueBounds, ConstantsAssumption DEF TypeInv, TypeOK
  <2> QED
    BY <2>1, <2>2 DEF TimerFacts, Installing, HeldPools
<1>19. CASE FailClosed
  <2> DEFINE dead == ExpiredPools(grants, EffectiveNow)
             live == [p \in Pool |-> IF p \in dead THEN NoGrant ELSE grants[p]]
  <2>1. /\ now' = now /\ grants' = live /\ ready' = FALSE
        /\ running' = running /\ stopped' = stopped
        /\ expirationTimer' = ExpirationDue(live, skew)
    BY <1>19 DEF FailClosed, clockVars, lifecycleVars
  <2>2. live \in Held
    BY <1>h DEF Held
  <2> HIDE DEF live
  <2> QED
    BY <1>h, <2>1, <2>2, TimerRearmed DEF TimerFacts
<1>20. CASE FailClosedRefused
  <2>1. ~ PreflightRefuses(limits, KillSwitches(ExpiredPools(grants, EffectiveNow)))
    BY KillSwitchNotRefused DEF RecordFacts
  <2> QED BY <1>20, <2>1 DEF FailClosedRefused
<1>21. CASE Tick
  <2>1. /\ now' = now + 1 /\ grants' = grants /\ ready' = ready
        /\ pc' = pc /\ running' = running /\ stopped' = stopped
        /\ expirationTimer' = expirationTimer
    BY <1>21 DEF Tick, leaseVars, lifecycleVars, pollVars
  <2>2. now \in Nat
    BY ConstantsAssumption DEF TypeInv, TypeOK
  <2> QED
    BY <2>1, <2>2 DEF TimerFacts, Installing, HeldPools
<1> QED
  BY <1>1, <1>2, <1>3, <1>4, <1>5, <1>7, <1>8, <1>9, <1>10, <1>11, <1>12, <1>13,
     <1>14, <1>15, <1>16, <1>17, <1>18, <1>19, <1>20, <1>21
     DEF Next, PollStep, ExpirationStep

-----------------------------------------------------------------------------
(* The theorems.                                                           *)

LEMMA RecordInvariant ==
  ASSUME SinglePoller
  PROVE  Spec => [](TypeInv /\ RecordFacts)
<1>1. Init => TypeInv /\ RecordFacts
  BY InitTypes, InitRecord
<1>2. TypeInv /\ RecordFacts /\ [Next]_vars => (TypeInv /\ RecordFacts)'
  BY NextTypes, NextRecord
<1> QED BY <1>1, <1>2, PTL DEF Spec

LEMMA LeaseInvariant ==
  ASSUME SinglePoller, ~ Embedded
  PROVE  Spec => []LeaseInv
<1>1. Init => LeaseInv
  BY InitTypes, InitRecord, InitTimer DEF LeaseInv
<1>2. LeaseInv /\ [Next]_vars => LeaseInv'
  BY NextTypes, NextRecord, NextTimer DEF LeaseInv
<1> QED BY <1>1, <1>2, PTL DEF Spec

(* The grant held for a pool is the one its limits come from, though polls *)
(* clear and rebuild #grants entry by entry while requests are in flight.  *)
THEOREM GrantsInForce ==
  ASSUME SinglePoller
  PROVE  Spec => []HeldGrantInForce
<1>1. RecordFacts => HeldGrantInForce
  BY DEF RecordFacts
<1> QED BY <1>1, RecordInvariant, PTL

(* No capacity escapes the expiration kill switch: an open pool has a      *)
(* grant, or the poll that opened it is about to record one.               *)
THEOREM CapacityIsAccountedFor ==
  ASSUME SinglePoller
  PROVE  Spec => []NoOrphanCapacity
<1>1. RecordFacts => NoOrphanCapacity
  BY DEF RecordFacts
<1> QED BY <1>1, RecordInvariant, PTL

(* Every "applied" acknowledgement names a grant that is in force when it  *)
(* is sent.                                                                *)
THEOREM AcksAreTruthful ==
  ASSUME SinglePoller
  PROVE  Spec => TruthfulAck
<1> DEFINE Truth ==
      \A w \in Poller :
        pc'[w] = "ack" /\ acking'[w] # acking[w] =>
          \A p \in acking'[w] : InForce(limits'[p], offers'[w][p])
<1>1. TypeInv /\ RecordFacts /\ [Next]_vars => Truth
  <2> SUFFICES ASSUME TypeInv, RecordFacts, [Next]_vars,
                      NEW w \in Poller, pc'[w] = "ack", acking'[w] # acking[w],
                      NEW p \in acking'[w]
               PROVE  InForce(limits'[p], offers'[w][p])
    OBVIOUS
  <2>1. \A v \in Poller : v = w
    BY DEF SinglePoller
  <2>2. ASSUME NEW r \in Response, NEW ahead \in Skews, PollApplies(w, r, ahead)
        PROVE  InForce(limits'[p], offers'[w][p])
    <3>1. offers'[w] = Issued(r) /\ p \in Pool
      BY <2>2 DEF PollApplies, TypeInv, TypeOK
    <3> QED BY <2>2, <3>1, BatchInForce DEF RecordFacts
  <2>3. ASSUME NEW delivered \in BOOLEAN, AckedNext(w, delivered)
        PROVE  InForce(limits'[p], offers'[w][p])
    <3>1. limits' = limits /\ offers' = offers /\ p \in todo[w]
      BY <2>3 DEF AckedNext, TypeInv, TypeOK
    <3> QED BY <3>1 DEF RecordFacts, TodoInForce
  <2>4. \/ \E r \in Response, ahead \in Skews : PollApplies(w, r, ahead)
        \/ \E delivered \in BOOLEAN : AckedNext(w, delivered)
    <3>1. CASE UNCHANGED vars
      BY <3>1 DEF vars, pollVars
    <3>2. ASSUME Start(w) \/ PollLoop(w) \/ PollNow(w)
          PROVE  FALSE
      BY <3>2 DEF Start, PollLoop, PollNow
    <3>3. ASSUME PollDone(w)
          PROVE  FALSE
      BY <3>3 DEF PollDone, TypeInv, TypeOK
    <3>4. ASSUME NEW r \in Response, NEW ahead \in Skews,
                 PollExpired(w, r, ahead) \/ PollRefused(w, r, ahead)
          PROVE  FALSE
      BY <3>4 DEF PollExpired, PollRefused, TypeInv, TypeOK
    <3>5. ASSUME NEW delivered \in BOOLEAN, AckedLast(w, delivered)
          PROVE  FALSE
      BY <3>5 DEF AckedLast, TypeInv, TypeOK
    <3>6. ASSUME \/ Stop
                 \/ \E e \in Epochs : Register(e)
                 \/ \E met \in SUBSET Pool : HeartbeatAccepted(met)
                 \/ ExpirationStep
                 \/ Tick
          PROVE  FALSE
      BY <3>6 DEF Stop, Register, HeartbeatAccepted, ExpirationStep,
                  ExpirationEarly, FailClosed, FailClosedRefused, Tick, pollVars
    <3>7. ASSUME PollStep(w)
          PROVE  \/ \E r \in Response, ahead \in Skews : PollApplies(w, r, ahead)
                 \/ \E delivered \in BOOLEAN : AckedNext(w, delivered)
      BY <3>3, <3>4, <3>5, <3>7
         DEF PollStep, FetchFails, PollStaleEpoch, PollIncomplete, TopologyThrows, PollThrows,
             ExpiredAcked, RefusalAcked, AckedAll, EvidencePublished, PollFails,
             PollReturns
    <3> QED
      BY <2>1, <3>1, <3>2, <3>6, <3>7 DEF Next
  <2> QED BY <2>2, <2>3, <2>4
<1>2. Spec => [][Truth]_vars
  BY <1>1, RecordInvariant, PTL DEF Spec
<1> QED BY <1>2 DEF TruthfulAck

(* With the timer armed in time and no poll settling a batch, an open pool *)
(* has a grant that runs.                                                  *)
LEMMA LeaseInvBound == LeaseInv => LeaseBound
<1> SUFFICES ASSUME LeaseInv, running, ~ Installing, ~ TimerDue,
                    NEW p \in Pool, Open(p)
             PROVE  grants[p] # NoGrant /\ now < grants[p].expiresAt
  BY DEF LeaseBound
<1>1. ~ Recording(p)
  BY DEF LeaseInv, RecordFacts, TodoInForce, Installing, Recording
<1>2. grants[p] # NoGrant
  BY <1>1 DEF LeaseInv, RecordFacts, NoOrphanCapacity
<1>3. /\ expirationTimer \in Nat
      /\ expirationTimer <= grants[p].expiresAt \/ expirationTimer <= now
  BY <1>2 DEF LeaseInv, TimerFacts, HeldPools
<1>4. now < expirationTimer
  BY <1>3, SentinelAssumption, ConstantsAssumption
     DEF TimerDue, LeaseInv, TypeInv, TypeOK
<1>5. grants[p].expiresAt \in Nat /\ now \in Nat
  BY <1>2, ConstantsAssumption DEF LeaseInv, TypeInv, TypeOK, Grant
<1> QED BY <1>2, <1>3, <1>4, <1>5

(* Open capacity never outlives its lease while the agent runs.            *)
THEOREM CapacityStaysLeased ==
  ASSUME SinglePoller, ~ Embedded
  PROVE  Spec => []LeaseBound
<1>1. LeaseInv => LeaseBound
  BY LeaseInvBound
<1> QED BY <1>1, LeaseInvariant, PTL

(* /readyz is 200 only while every managed pool runs under a lease.        *)
THEOREM ReadinessMeansLeased ==
  ASSUME SinglePoller, ~ Embedded
  PROVE  Spec => []ReadyMeansLeased
<1>1. LeaseInv => ReadyMeansLeased
  <2> SUFFICES ASSUME LeaseInv, running, ready, ~ Installing, ~ TimerDue,
                      NEW p \in Pool
               PROVE  /\ grants[p] # NoGrant
                      /\ now < grants[p].expiresAt
                      /\ InForce(limits[p], grants[p])
    BY DEF ReadyMeansLeased
  <2>1. grants[p] # NoGrant
    BY DEF LeaseInv, TimerFacts
  <2>2. InForce(limits[p], grants[p])
    BY <2>1 DEF LeaseInv, RecordFacts, HeldGrantInForce
  <2>3. /\ expirationTimer \in Nat
        /\ expirationTimer <= grants[p].expiresAt \/ expirationTimer <= now
    BY <2>1 DEF LeaseInv, TimerFacts, HeldPools
  <2>4. now < expirationTimer
    BY <2>3, SentinelAssumption, ConstantsAssumption
       DEF TimerDue, LeaseInv, TypeInv, TypeOK
  <2>5. grants[p].expiresAt \in Nat /\ now \in Nat
    BY <2>1, ConstantsAssumption DEF LeaseInv, TypeInv, TypeOK, Grant
  <2> QED BY <2>1, <2>2, <2>3, <2>4, <2>5
<1> QED BY <1>1, LeaseInvariant, PTL
-----------------------------------------------------------------------------
(* The kill switch.                                                        *)

(* A table whose floors have been closed has the keys it had, and floors   *)
(* that add up to nothing.                                                 *)
LEMMA FailClosedTableFits ==
  ASSUME IsFiniteSet(Class), NEW table \in Table
  PROVE  /\ FailClosedTable(table) \in Table
         /\ Keys(FailClosedTable(table)) = Keys(table)
         /\ FloorTotal(FailClosedTable(table)) = 0
<1>1. FailClosedTable(table) =
        [c \in Class |-> IF table[c] \in Nat THEN 0 ELSE table[c]]
  BY UnsetAssumption DEF FailClosedTable, Table
<1>2. FailClosedTable(table) \in Table
  BY <1>1 DEF Table
<1>3. Keys(FailClosedTable(table)) = Keys(table)
  BY <1>1, UnsetAssumption DEF Keys, Table
<1> DEFINE floors == [c \in Class |-> FloorOf(FailClosedTable(table), c)]
<1>4. DOMAIN floors = Class /\ \A c \in Class : floors[c] = 0
  BY <1>1 DEF FloorOf, Table
<1> HIDE DEF floors
<1>5. SumFunction(floors) = 0
  BY <1>4, SumOfZeros
<1> QED BY <1>2, <1>3, <1>5 DEF FloorTotal, floors

(* For grants in force the kill switch is a valid snapshot of its pool.    *)
LEMMA KillSwitchValid ==
  ASSUME IsFiniteSet(Class), TypeInv, HeldGrantInForce,
         NEW p \in Pool, grants[p] # NoGrant
  PROVE  ValidSnapshot(limits[p], KillSwitch(grants[p], limits[p]))
<1> DEFINE kill == KillSwitch(grants[p], limits[p])
<1>1. grants[p] \in Grant /\ limits[p] \in Limits
  BY DEF TypeInv, TypeOK
<1>2. /\ kill.maxConcurrent = 0
      /\ kill.budget = IF grants[p].limits.budget = Unset THEN Unset ELSE 0
      /\ kill.classes = FailClosedTable(limits[p].classes)
  BY DEF KillSwitch
<1>3. limits[p].budget = grants[p].limits.budget
  BY DEF HeldGrantInForce, InForce
<1>4. kill.budget = Unset <=> limits[p].budget = Unset
  BY <1>2, <1>3, UnsetAssumption
<1>5. limits[p].classes \in Table \cup {NoTable} /\ NoTable \notin Table
  BY <1>1, UnsetAssumption DEF Limits, Table
<1>6. CASE limits[p].classes = NoTable
  <2>1. kill.classes = NoTable
    BY <1>2, <1>6 DEF FailClosedTable
  <2> HIDE DEF kill
  <2> QED BY <1>4, <1>6, <2>1 DEF ValidSnapshot, kill
<1>7. CASE limits[p].classes # NoTable
  <2>1. limits[p].classes \in Table
    BY <1>5, <1>7
  <2>2. /\ kill.classes \in Table
        /\ Keys(kill.classes) = Keys(limits[p].classes)
        /\ FloorTotal(kill.classes) = 0
    BY <1>2, <2>1, FailClosedTableFits
  <2>3. kill.classes # NoTable
    BY <1>5, <2>2
  <2> HIDE DEF kill
  <2> QED BY <1>2, <1>4, <1>7, <2>2, <2>3 DEF ValidSnapshot, kill
<1> QED BY <1>6, <1>7

(* When a grant expires its pool closes: the kill switch is stamped later  *)
(* than the limits it replaces and has their shape, so the pools neither   *)
(* refuse it nor throw on it, whatever the control plane has granted.      *)
THEOREM ExpirationCloses ==
  ASSUME SinglePoller, IsFiniteSet(Class)
  PROVE  Spec => []ExpirationClosesPools
<1>1. TypeInv /\ RecordFacts => ExpirationClosesPools
  <2> SUFFICES ASSUME TypeInv, RecordFacts
               PROVE  PreflightPasses(limits, KillSwitches(ExpiredPools(grants, EffectiveNow)))
    BY DEF ExpirationClosesPools
  <2> DEFINE dead == ExpiredPools(grants, EffectiveNow)
  <2>1. \A p \in dead : p \in Pool /\ grants[p] # NoGrant
    BY DEF ExpiredPools
  <2>2. ~ PreflightRefuses(limits, KillSwitches(dead))
    BY KillSwitchNotRefused DEF RecordFacts
  <2>3. /\ DOMAIN KillSwitches(dead) = dead
        /\ \A p \in dead : KillSwitches(dead)[p] = KillSwitch(grants[p], limits[p])
    BY DEF KillSwitches
  <2> HIDE DEF dead
  <2>4. \A p \in dead : ValidSnapshot(limits[p], KillSwitches(dead)[p])
    BY <2>1, <2>3, KillSwitchValid DEF RecordFacts
  <2>5. \A p \in dead :
          /\ KillSwitches(dead)[p].revision \in Nat
          /\ limits[p].revision \in Nat
    <3>1. ASSUME NEW p \in dead
          PROVE  KillSwitches(dead)[p] \in Limits /\ limits[p] \in Limits
      BY <2>1, <2>3, KillSwitchType DEF TypeInv, TypeOK
    <3> QED BY <3>1 DEF Limits
  <2> QED
    BY <2>2, <2>3, <2>4, <2>5 DEF PreflightPasses, PreflightRefuses, dead
<1> QED BY <1>1, RecordInvariant, PTL

-----------------------------------------------------------------------------
(* The epoch fence.                                                        *)

(* A grant gives way to one of an older epoch only after a registration    *)
(* has lowered the fence: a batch passes it, and what the poll records     *)
(* entry by entry replaces nothing.                                        *)
THEOREM EpochsAreFenced ==
  ASSUME SinglePoller
  PROVE  Spec => EpochFence
<1> DEFINE Fenced ==
      \A p \in Pool :
        grants[p] # NoGrant /\ grants'[p] # NoGrant =>
          \/ grants'[p].epoch >= grants[p].epoch
          \/ controllerEpoch < grants[p].epoch
<1>1. TypeInv /\ RecordFacts /\ [Next]_vars => Fenced
  <2> SUFFICES ASSUME TypeInv, RecordFacts, [Next]_vars, NEW p \in Pool,
                      grants[p] # NoGrant, grants'[p] # NoGrant
               PROVE  \/ grants'[p].epoch >= grants[p].epoch
                      \/ controllerEpoch < grants[p].epoch
    OBVIOUS
  <2>1. grants[p].epoch \in Nat /\ controllerEpoch \in Nat
    BY DEF TypeInv, TypeOK, Grant
  <2>2. CASE grants'[p] = grants[p]
    BY <2>1, <2>2
  <2>3. ASSUME NEW w \in Poller, NEW r \in Response, NEW ahead \in Skews,
               PollApplies(w, r, ahead)
        PROVE  \/ grants'[p].epoch >= grants[p].epoch
               \/ controllerEpoch < grants[p].epoch
    <3>1. r.epoch >= controllerEpoch /\ r.epoch \in Nat
      BY <2>3, IssuedType DEF PollApplies, ReadyToApply, Accepts
    <3>2. grants'[p] = Issued(r)[p]
      BY <2>3 DEF PollApplies, NoOffers
    <3>3. grants'[p].epoch = r.epoch
      BY <3>2 DEF Issued
    <3> QED BY <2>1, <3>1, <3>3
  <2>4. ASSUME NEW w \in Poller, NEW delivered \in BOOLEAN, AckedNext(w, delivered)
        PROVE  grants'[p] = grants[p]
    <3>1. PICK next \in todo[w] : grants' = [grants EXCEPT ![next] = offers[w][next]]
      BY <2>4 DEF AckedNext
    <3>2. p # next
      BY DEF RecordFacts, TodoInForce
    <3> QED BY <3>1, <3>2 DEF TypeInv, TypeOK
  <2>5. \/ grants'[p] \in {grants[p], NoGrant}
        \/ \E w \in Poller, r \in Response, ahead \in Skews : PollApplies(w, r, ahead)
        \/ \E w \in Poller, delivered \in BOOLEAN : AckedNext(w, delivered)
    <3>1. CASE UNCHANGED vars
      BY <3>1 DEF vars, leaseVars
    <3>2. CASE \/ \E w \in Poller : Start(w) \/ PollLoop(w) \/ PollNow(w)
               \/ Stop
               \/ \E e \in Epochs : Register(e)
               \/ \E met \in SUBSET Pool : HeartbeatAccepted(met)
               \/ ExpirationStep
               \/ Tick
      BY <3>2 DEF Start, PollLoop, PollNow, Stop, Register, HeartbeatAccepted,
                  ExpirationStep, ExpirationEarly, FailClosed, FailClosedRefused,
                  Tick, leaseVars
    <3>3. ASSUME NEW w \in Poller, PollStep(w)
          PROVE  \/ grants'[p] \in {grants[p], NoGrant}
                 \/ \E r \in Response, ahead \in Skews : PollApplies(w, r, ahead)
                 \/ \E delivered \in BOOLEAN : AckedNext(w, delivered)
      BY <3>3
         DEF PollStep, FetchFails, PollStaleEpoch, TopologyThrows, PollIncomplete,
             PollExpired, PollRefused, PollThrows, ExpiredAcked, RefusalAcked,
             AckedLast, AckedAll, EvidencePublished, leaseVars
    <3> QED BY <3>1, <3>2, <3>3 DEF Next
  <2> QED BY <2>2, <2>3, <2>4, <2>5
<1>2. Spec => [][Fenced]_vars
  BY <1>1, RecordInvariant, PTL DEF Spec
<1> QED BY <1>2 DEF EpochFence

-----------------------------------------------------------------------------
(* The refinement: the agent lends, settles and expires as LeasedCapacity  *)
(* says.                                                                   *)

(* A lease that is held, or about to be recorded, ends at a real instant   *)
(* and was granted by a control plane whose clock the agent has read.      *)
SpanFacts ==
  /\ \A p \in HeldPools(grants) : grants[p].expiresAt > 0
  /\ \A w \in Poller : \A p \in todo[w] : offers[w][p].expiresAt > 0
  /\ HeldPools(grants) # {} \/ (\E w \in Poller : todo[w] # {}) => skew \in Skews

SpanInv == LeaseInv /\ SpanFacts

(* The two shapes a lease has: an entry still to be recorded, or a grant.  *)
LEMMA LeaseEndWhileRecording ==
  ASSUME SinglePoller, NEW w \in Poller, NEW p \in todo[w]
  PROVE  LeaseEnd(p) = offers[w][p].expiresAt
BY DEF SinglePoller, LeaseEnd, Recording

LEMMA LeaseEndOfGrant ==
  ASSUME NEW p, \A w \in Poller : p \notin todo[w]
  PROVE  LeaseEnd(p) = IF grants[p] # NoGrant THEN grants[p].expiresAt ELSE 0
BY DEF LeaseEnd, Recording

(* Leases are where they were when grants and entries to record are.       *)
LEMMA LeaseEndUndisturbed ==
  ASSUME SinglePoller, NEW p, grants'[p] = grants[p],
         \A w \in Poller :
           /\ p \in todo'[w] <=> p \in todo[w]
           /\ p \in todo[w] => offers'[w] = offers[w]
  PROVE  LeaseEnd(p)' = LeaseEnd(p)
<1>1. CASE \E w \in Poller : p \in todo[w]
  <2>1. PICK w \in Poller : p \in todo[w]
    BY <1>1
  <2>2. \A v \in Poller : v = w
    BY DEF SinglePoller
  <2>3. LeaseEnd(p) = offers[w][p].expiresAt
    BY <2>1, <2>2 DEF LeaseEnd, Recording
  <2>4. LeaseEnd(p)' = offers'[w][p].expiresAt
    BY <2>1, <2>2 DEF LeaseEnd, Recording
  <2> QED BY <2>1, <2>3, <2>4
<1>2. CASE \A w \in Poller : p \notin todo[w]
  BY <1>2 DEF LeaseEnd, Recording
<1> QED BY <1>1, <1>2

(* A step that records no new lease keeps what is known of their ends.     *)
LEMMA SpanUndisturbed ==
  ASSUME TypeInv, SpanFacts, skew' \in Skews \cup {skew},
         \A p \in Pool : grants'[p] \in {grants[p], NoGrant},
         \A w \in Poller :
           /\ todo'[w] \subseteq todo[w]
           /\ todo'[w] # {} => offers'[w] = offers[w]
  PROVE  SpanFacts'
<1>1. HeldPools(grants') \subseteq HeldPools(grants)
  BY DEF HeldPools
<1>2. \A p \in HeldPools(grants') : grants'[p].expiresAt > 0
  BY <1>1 DEF SpanFacts, HeldPools
<1>3. \A w \in Poller : \A p \in todo'[w] : offers'[w][p].expiresAt > 0
  BY DEF SpanFacts
<1>4. HeldPools(grants') # {} \/ (\E w \in Poller : todo'[w] # {}) => skew' \in Skews
  BY <1>1 DEF SpanFacts
<1> QED BY <1>2, <1>3, <1>4 DEF SpanFacts

LEMMA InitSpan == Init => SpanFacts
BY DEF Init, SpanFacts, HeldPools, NoOffers

LEMMA NextSpan ==
  ASSUME SinglePoller, TypeInv, RecordFacts, SpanFacts, [Next]_vars
  PROVE  SpanFacts'
<1>1. CASE UNCHANGED vars
  BY <1>1, SpanUndisturbed DEF vars, clockVars, leaseVars, pollVars
<1>2. CASE \/ Stop
           \/ \E e \in Epochs : Register(e)
           \/ \E met \in SUBSET Pool : HeartbeatAccepted(met)
           \/ ExpirationStep
           \/ Tick
  BY <1>2, SpanUndisturbed
     DEF Stop, Register, HeartbeatAccepted, ExpirationStep, ExpirationEarly,
         FailClosed, FailClosedRefused, Tick, clockVars, leaseVars, pollVars
<1>3. ASSUME NEW w \in Poller, Start(w) \/ PollLoop(w) \/ PollNow(w)
      PROVE  SpanFacts'
  BY <1>3, SpanUndisturbed DEF Start, PollLoop, PollNow, clockVars, leaseVars
<1>4. ASSUME NEW w \in Poller, PollDone(w), grants' = grants,
             skew' \in Skews \cup {skew}
      PROVE  SpanFacts'
  <2>1. \A v \in Poller :
          /\ todo'[v] \subseteq todo[v]
          /\ todo'[v] # {} => offers'[v] = offers[v]
    BY <1>4 DEF PollDone, TypeInv, TypeOK
  <2> QED BY <1>4, <2>1, SpanUndisturbed
<1>5. ASSUME NEW w \in Poller, NEW r \in Response, NEW ahead \in Skews,
             PollExpired(w, r, ahead) \/ PollRefused(w, r, ahead)
      PROVE  SpanFacts'
  <2>1. todo[w] = {}
    BY <1>5 DEF PollExpired, PollRefused, Accepts, Receives, RecordFacts, TodoInForce,
                TypeInv, TypeOK
  <2>2. \A v \in Poller :
          /\ todo'[v] = todo[v]
          /\ todo[v] # {} => offers'[v] = offers[v]
    BY <1>5, <2>1 DEF PollExpired, PollRefused, TypeInv, TypeOK
  <2> QED
    BY <1>5, <2>2, SpanUndisturbed
       DEF PollExpired, PollRefused, Accepts, Receives, leaseVars
<1>6. ASSUME NEW w \in Poller, NEW r \in Response, NEW ahead \in Skews,
             PollApplies(w, r, ahead)
      PROVE  SpanFacts'
  <2>1. /\ skew' = ahead
        /\ \A p \in Pool : r.offers[p].expiresAt > now + ahead
    <3>1. Complete(r) /\ ~ SomeExpired(r, now + ahead) /\ skew' = ahead
      BY <1>6 DEF PollApplies, ReadyToApply, Accepts, Receives
    <3>2. \A p \in Pool : r.offers[p].expiresAt \in Nat
      BY <3>1, IssuedType DEF Offer
    <3> QED BY <3>1, <3>2, ConstantsAssumption DEF SomeExpired, TypeInv, TypeOK
  <2>2. \A p \in Pool : Issued(r)[p].expiresAt > 0
    <3>1. \A p \in Pool : r.offers[p].expiresAt \in Nat
      BY <1>6, IssuedType DEF PollApplies, ReadyToApply, Offer
    <3> QED BY <2>1, <3>1, ConstantsAssumption DEF Issued, TypeInv, TypeOK
  <2>3. PICK first \in Pool :
          /\ grants' = [NoOffers EXCEPT ![first] = Issued(r)[first]]
          /\ todo' = [todo EXCEPT ![w] = Pool \ {first}]
    BY <1>6 DEF PollApplies
  <2>4. \A v \in Poller : v = w
    BY DEF SinglePoller
  <2>5. offers'[w] = Issued(r) /\ todo'[w] = Pool \ {first}
    BY <1>6, <2>3 DEF PollApplies, TypeInv, TypeOK
  <2>6. \A p \in HeldPools(grants') : p = first /\ grants'[p] = Issued(r)[first]
    BY <2>3 DEF HeldPools, NoOffers
  <2> QED BY <2>1, <2>2, <2>4, <2>5, <2>6 DEF SpanFacts
<1>7. ASSUME NEW w \in Poller, NEW delivered \in BOOLEAN, AckedNext(w, delivered)
      PROVE  SpanFacts'
  <2>1. PICK next \in todo[w] :
          /\ grants' = [grants EXCEPT ![next] = offers[w][next]]
          /\ todo' = [todo EXCEPT ![w] = todo[w] \ {next}]
    BY <1>7 DEF AckedNext
  <2>2. offers' = offers /\ skew' = skew
    BY <1>7 DEF AckedNext, clockVars
  <2>3. skew \in Skews /\ offers[w][next].expiresAt > 0
    BY <2>1 DEF SpanFacts
  <2>4. \A p \in HeldPools(grants') :
          IF p = next THEN grants'[p] = offers[w][next]
          ELSE p \in HeldPools(grants) /\ grants'[p] = grants[p]
    BY <2>1 DEF HeldPools, TypeInv, TypeOK
  <2>5. \A v \in Poller : todo'[v] \subseteq todo[v]
    BY <2>1 DEF TypeInv, TypeOK
  <2> QED BY <2>2, <2>3, <2>4, <2>5 DEF SpanFacts
<1>8. ASSUME NEW w \in Poller, NEW delivered \in BOOLEAN, AckedLast(w, delivered)
      PROVE  SpanFacts'
  BY <1>8, SpanUndisturbed DEF AckedLast, clockVars
<1>9. ASSUME NEW w \in Poller, PollStep(w)
      PROVE  SpanFacts'
  BY <1>4, <1>5, <1>6, <1>7, <1>8, <1>9
     DEF PollStep, FetchFails, PollStaleEpoch, TopologyThrows, PollIncomplete,
         PollThrows, ExpiredAcked, RefusalAcked, AckedAll, EvidencePublished,
         PollFails, PollReturns, ReadyToApply, Accepts, Receives, clockVars, leaseVars
<1> QED BY <1>1, <1>2, <1>3, <1>9 DEF Next

LEMMA SpanInvariant ==
  ASSUME SinglePoller, ~ Embedded
  PROVE  Spec => []SpanInv
<1>1. Init => SpanInv
  BY InitTypes, InitRecord, InitTimer, InitSpan DEF SpanInv, LeaseInv
<1>2. SpanInv /\ [Next]_vars => SpanInv'
  BY NextTypes, NextRecord, NextTimer, NextSpan DEF SpanInv, LeaseInv
<1> QED BY <1>1, <1>2, PTL DEF Spec

(* What most steps of the agent are to the abstract lease: nothing, or the *)
(* agent starting or stopping.                                             *)
LEMMA StuttersOrSwitches ==
  ASSUME SinglePoller, TypeInv, TypeInv', UNCHANGED <<now, limits, grants>>,
         Installing' <=> Installing,
         \A v \in Poller :
           /\ todo'[v] = todo[v]
           /\ todo[v] # {} => offers'[v] = offers[v]
  PROVE  [Leased!Next]_Leased!vars
<1>1. \A p \in Pool : LeaseEnd(p)' = LeaseEnd(p)
  <2> SUFFICES ASSUME NEW p \in Pool
               PROVE  LeaseEnd(p)' = LeaseEnd(p)
    OBVIOUS
  <2>1. \A w \in Poller :
          /\ p \in todo'[w] <=> p \in todo[w]
          /\ p \in todo[w] => offers'[w] = offers[w]
    OBVIOUS
  <2> QED BY <2>1, LeaseEndUndisturbed
<1>2. UNCHANGED <<now, ~ Installing, [p \in Pool |-> limits[p].maxConcurrent],
                  [p \in Pool |-> limits[p].revision], [p \in Pool |-> LeaseEnd(p)]>>
  BY <1>1
<1>3. CASE running' = running
  BY <1>2, <1>3 DEF Leased!vars, Leased!leased
<1>4. CASE running' # running
  <2>1. running' = ~ running
    BY <1>4 DEF TypeInv, TypeOK
  <2> QED BY <1>2, <2>1 DEF Leased!Next, Leased!Switch, Leased!leased
<1> QED BY <1>3, <1>4

(* Ending a poll that leaves no entry to record moves no lease.            *)
LEMMA PollEndLeavesLeases ==
  ASSUME SinglePoller, TypeInv, NEW w \in Poller, PollDone(w), todo[w] = {},
         grants' = grants
  PROVE  /\ \A v \in Poller :
              /\ todo'[v] = todo[v]
              /\ todo[v] # {} => offers'[v] = offers[v]
         /\ \A p \in Pool : LeaseEnd(p)' = LeaseEnd(p)
         /\ ~ Installing'
<1>1. \A v \in Poller :
        /\ todo'[v] = todo[v]
        /\ todo[v] # {} => offers'[v] = offers[v]
  BY DEF PollDone, TypeInv, TypeOK
<1>2. ~ Installing'
  BY DEF PollDone, Installing, SinglePoller, TypeInv, TypeOK
<1>3. ASSUME NEW p \in Pool
      PROVE  LeaseEnd(p)' = LeaseEnd(p)
  <2>1. \A v \in Poller :
          /\ p \in todo'[v] <=> p \in todo[v]
          /\ p \in todo[v] => offers'[v] = offers[v]
    BY <1>1
  <2> QED BY <2>1, LeaseEndUndisturbed
<1> QED BY <1>1, <1>2, <1>3

(* A batch is settled when its last acknowledgement, or the heartbeat that *)
(* follows it, has been answered.                                          *)
LEMMA SettlesBatch ==
  ASSUME SinglePoller, TypeInv, NEW w \in Poller, PollReturns(w), todo[w] = {},
         pc[w] \in {"ack", "evidence"}, UNCHANGED <<now, limits, grants>>
  PROVE  Leased!Settle
<1>1. PollDone(w) /\ running' = running
  BY DEF PollReturns, lifecycleVars
<1>2. /\ \A p \in Pool : LeaseEnd(p)' = LeaseEnd(p)
      /\ ~ Installing'
  BY <1>1, PollEndLeavesLeases
<1>3. Installing
  BY DEF Installing
<1>4. UNCHANGED <<[p \in Pool |-> limits[p].maxConcurrent],
                  [p \in Pool |-> limits[p].revision], [p \in Pool |-> LeaseEnd(p)]>>
  BY <1>2
<1> QED BY <1>1, <1>2, <1>3, <1>4 DEF Leased!Settle, Leased!leased

(* Applying a batch lends: every pool's lease has yet to end.              *)
LEMMA AppliesLends ==
  ASSUME SinglePoller, TypeInv, TypeInv', NEW w \in Poller, NEW r \in Response,
         NEW ahead \in Skews, PollApplies(w, r, ahead)
  PROVE  Leased!Lend
<1>1. /\ Complete(r)
      /\ ~ SomeExpired(r, now + ahead)
      /\ PreflightPasses(limits, Updates(r))
      /\ limits' = ApplyLimits(limits, Updates(r))
      /\ now' = now /\ running' = running
  BY DEF PollApplies, ReadyToApply, Accepts, Receives, lifecycleVars
<1>2. /\ \A p \in Pool : r.offers[p].expiresAt \in Nat
      /\ Issued(r) \in [Pool -> Grant]
  BY <1>1, IssuedType DEF Offer
<1>3. \A p \in Pool : Issued(r)[p].expiresAt \in Nat /\ Issued(r)[p].expiresAt > now
  BY <1>1, <1>2, ConstantsAssumption DEF SomeExpired, Issued, TypeInv, TypeOK
<1>4. PICK first \in Pool :
        /\ grants' = [NoOffers EXCEPT ![first] = Issued(r)[first]]
        /\ todo' = [todo EXCEPT ![w] = Pool \ {first}]
  BY DEF PollApplies
<1>5. /\ \A v \in Poller : v = w
      /\ todo'[w] = Pool \ {first}
      /\ offers'[w] = Issued(r)
      /\ grants'[first] = Issued(r)[first]
      /\ pc'[w] = "ack"
  BY <1>4 DEF SinglePoller, PollApplies, NoOffers, TypeInv, TypeOK
<1>6. ASSUME NEW p \in Pool
      PROVE  LeaseEnd(p)' = Issued(r)[p].expiresAt
  <2>1. CASE p = first
    <3>1. LeaseEnd(p)' = grants'[p].expiresAt
      BY <1>2, <1>5, <2>1, GrantIsNotNoGrant DEF LeaseEnd, Recording
    <3> QED BY <1>5, <2>1, <3>1
  <2>2. CASE p # first
    <3>1. p \in todo'[w]
      BY <1>5, <2>2
    <3> QED BY <1>5, <3>1 DEF LeaseEnd, Recording
  <2> QED BY <2>1, <2>2
<1>7. Installing'
  BY <1>5 DEF Installing
<1>8. \A p \in Pool :
        /\ limits[p].revision \in Nat
        /\ limits'[p].revision \in Nat
        /\ limits'[p].maxConcurrent \in Nat
  BY DEF TypeInv, TypeOK, Limits
<1>9. \A p \in Pool :
        limits'[p] # limits[p] => limits'[p].revision > limits[p].revision
  <2>1. /\ limits \in [Pool -> Limits]
        /\ Updates(r) \in [NewerPools(r) -> Limits]
        /\ NewerPools(r) \in SUBSET Pool
    BY <1>1, UpdatesType DEF NewerPools, TypeInv, TypeOK
  <2> QED BY <1>1, <2>1, ApplyLimitsRaisesRevision
<1>10. \A p \in Pool :
         /\ limits'[p].revision >= limits[p].revision
         /\ limits'[p].maxConcurrent # limits[p].maxConcurrent =>
              limits'[p].revision > limits[p].revision
  BY <1>8, <1>9
<1> QED
  BY <1>1, <1>3, <1>6, <1>7, <1>8, <1>10 DEF Leased!Lend

(* The kill switch expires: it closes pools whose lease is over by the     *)
(* clock that is ahead, and no other pool.                                 *)
LEMMA ClosesExpires ==
  ASSUME SinglePoller, TypeInv, RecordFacts, SpanFacts, FailClosed
  PROVE  Leased!Expire
<1> DEFINE dead == ExpiredPools(grants, EffectiveNow)
<1>1. /\ dead # {}
      /\ dead \subseteq Pool
      /\ PreflightPasses(limits, KillSwitches(dead))
      /\ limits' = ApplyLimits(limits, KillSwitches(dead))
      /\ grants' = [p \in Pool |-> IF p \in dead THEN NoGrant ELSE grants[p]]
      /\ now' = now /\ running' = running
      /\ UNCHANGED pollVars
  BY DEF FailClosed, clockVars, lifecycleVars, ExpiredPools
<1>2. \A p \in dead : grants[p] # NoGrant /\ grants[p].expiresAt <= now + skew
  BY DEF ExpiredPools, EffectiveNow
<1>3. skew \in Skews
  BY <1>1, <1>2 DEF SpanFacts, HeldPools
<1>4. DOMAIN KillSwitches(dead) = dead /\ DOMAIN limits = Pool
  BY DEF KillSwitches, TypeInv, TypeOK
<1> HIDE DEF dead
<1>5. ASSUME NEW p \in dead
      PROVE  /\ LeaseEnd(p) # 0 /\ LeaseEnd(p) <= now + skew
             /\ LeaseEnd(p)' = 0
             /\ limits'[p].maxConcurrent = 0
             /\ limits'[p].revision > limits[p].revision
  <2>1. p \in Pool /\ grants[p] # NoGrant /\ grants[p].expiresAt > 0
    BY <1>1, <1>2 DEF SpanFacts, HeldPools
  <2>2. \A w \in Poller : p \notin todo[w]
    BY <2>1 DEF RecordFacts, TodoInForce
  <2>3. LeaseEnd(p) = grants[p].expiresAt
    BY <2>1, <2>2, LeaseEndOfGrant
  <2>4. LeaseEnd(p)' = 0
    BY <1>1, <2>1, <2>2 DEF pollVars, LeaseEnd, Recording
  <2>5. grants[p] \in Grant /\ limits[p] \in Limits
    BY <2>1 DEF TypeInv, TypeOK
  <2> DEFINE kill == KillSwitch(grants[p], limits[p])
  <2>6. /\ limits'[p] = Installed(kill)
        /\ kill.revision > limits[p].revision
    BY <1>1, <1>4, <2>1 DEF ApplyLimits, KillSwitches, PreflightPasses
  <2>7. kill \in Limits /\ kill.maxConcurrent = 0
    BY <2>5, KillSwitchType DEF KillSwitch
  <2>8. grants[p].expiresAt \in Nat
    BY <2>5 DEF Grant
  <2> HIDE DEF kill
  <2>9. limits'[p].maxConcurrent = 0 /\ limits'[p].revision > limits[p].revision
    BY <2>6, <2>7, InstalledType
  <2> QED BY <1>2, <2>1, <2>3, <2>4, <2>8, <2>9
<1>6. ASSUME NEW p \in Pool, p \notin dead
      PROVE  limits'[p] = limits[p] /\ LeaseEnd(p)' = LeaseEnd(p)
  <2>1. limits'[p] = limits[p]
    BY <1>1, <1>4, <1>6 DEF ApplyLimits
  <2>2. grants'[p] = grants[p]
    BY <1>1, <1>6
  <2> QED BY <1>1, <2>1, <2>2, LeaseEndUndisturbed DEF pollVars
<1>7. UNCHANGED Installing
  BY <1>1 DEF Installing, pollVars
<1>8. dead \in (SUBSET Leased!Over(skew)) \ {{}}
  BY <1>1, <1>5 DEF Leased!Over
<1> QED BY <1>1, <1>3, <1>5, <1>6, <1>7, <1>8 DEF Leased!Expire

(* The clock waits for what is due: no instant passes over an open pool    *)
(* whose lease has run out, unless a batch is being settled.               *)
LEMMA TickTicks ==
  ASSUME SinglePoller, LeaseInv, Tick
  PROVE  Leased!Tick
<1>1. /\ now' = now + 1 /\ ~ TimerDue
      /\ UNCHANGED <<running, limits, grants, pc, todo, offers>>
  BY DEF Tick, lifecycleVars, leaseVars, pollVars
<1>2. ASSUME running, ~ Installing, NEW p \in Pool, limits[p].maxConcurrent > 0
      PROVE  ~ (LeaseEnd(p) <= now)
  <2>1. grants[p] # NoGrant /\ now < grants[p].expiresAt
    BY <1>1, <1>2, LeaseInvBound DEF LeaseBound, Open
  <2>2. \A w \in Poller : p \notin todo[w]
    BY <1>2 DEF LeaseInv, RecordFacts, TodoInForce, Installing
  <2>3. LeaseEnd(p) = grants[p].expiresAt
    BY <2>1, <2>2, LeaseEndOfGrant
  <2>4. grants[p].expiresAt \in Nat /\ now \in Nat
    BY <2>1, ConstantsAssumption DEF LeaseInv, TypeInv, TypeOK, Grant
  <2> QED BY <2>1, <2>3, <2>4
<1>3. \A p \in Pool : LeaseEnd(p)' = LeaseEnd(p)
  BY <1>1, LeaseEndUndisturbed
<1>4. UNCHANGED <<running, ~ Installing, [p \in Pool |-> limits[p].maxConcurrent],
                  [p \in Pool |-> limits[p].revision], [p \in Pool |-> LeaseEnd(p)]>>
  BY <1>1, <1>3 DEF Installing
<1>5. running /\ ~ Installing => Leased!Overdue = {}
  BY <1>2 DEF Leased!Overdue
<1> QED BY <1>1, <1>4, <1>5 DEF Leased!Tick, Leased!leased

LEMMA InitLends == Init => Leased!Init
<1> SUFFICES ASSUME Init PROVE Leased!Init
  OBVIOUS
<1>1. ASSUME NEW p \in Pool
      PROVE  /\ limits[p].maxConcurrent = 0
             /\ limits[p].revision = 0
             /\ LeaseEnd(p) = 0
  <2> DEFINE start == WithRevision(0, InitialContent[p])
  <2>1. start \in Limits /\ start.maxConcurrent = 0 /\ start.revision = 0
    BY ConstantsAssumption DEF WithRevision, LimitContent, Limits
  <2>2. limits[p] = Installed(start)
    BY DEF Init
  <2> HIDE DEF start
  <2>3. LeaseEnd(p) = 0
    BY DEF Init, NoOffers, LeaseEnd, Recording
  <2> QED BY <2>1, <2>2, <2>3, InstalledType
<1>2. ~ Installing
  BY DEF Init, Installing
<1> QED BY <1>1, <1>2 DEF Init, Leased!Init

LEMMA NextLends ==
  ASSUME SinglePoller, SpanInv, TypeInv', [Next]_vars
  PROVE  [Leased!Next]_Leased!vars
<1>t. TypeInv /\ RecordFacts /\ SpanFacts /\ LeaseInv
  BY DEF SpanInv, LeaseInv
<1>1. CASE UNCHANGED vars
  BY <1>t, <1>1, StuttersOrSwitches
     DEF vars, clockVars, leaseVars, pollVars, Installing
<1>2. CASE \/ Stop
           \/ \E e \in Epochs : Register(e)
           \/ \E met \in SUBSET Pool : HeartbeatAccepted(met)
           \/ ExpirationEarly
           \/ FailClosedRefused
  BY <1>t, <1>2, StuttersOrSwitches
     DEF Stop, Register, HeartbeatAccepted, ExpirationEarly, FailClosedRefused,
         clockVars, leaseVars, pollVars, Installing
<1>3. CASE FailClosed
  BY <1>t, <1>3, ClosesExpires DEF Leased!Next
<1>4. CASE Tick
  BY <1>t, <1>4, TickTicks DEF Leased!Next
<1>5. ASSUME NEW w \in Poller, Start(w) \/ PollLoop(w) \/ PollNow(w)
      PROVE  [Leased!Next]_Leased!vars
  <2>1. ~ Installing /\ ~ Installing'
    BY <1>t, <1>5
       DEF Start, PollLoop, PollNow, Installing, SinglePoller, TypeInv, TypeOK
  <2>2. UNCHANGED <<now, limits, grants, todo, offers>>
    BY <1>5 DEF Start, PollLoop, PollNow, clockVars, leaseVars
  <2> QED BY <1>t, <2>1, <2>2, StuttersOrSwitches
<1>6. ASSUME NEW w \in Poller, pc[w] \notin {"ack", "evidence"}, PollDone(w),
             UNCHANGED <<now, limits, grants>>
      PROVE  [Leased!Next]_Leased!vars
  <2>1. todo[w] = {}
    BY <1>t, <1>6 DEF RecordFacts, TodoInForce, TypeInv, TypeOK
  <2>2. /\ ~ Installing'
        /\ \A v \in Poller :
             /\ todo'[v] = todo[v]
             /\ todo[v] # {} => offers'[v] = offers[v]
    BY <1>t, <1>6, <2>1, PollEndLeavesLeases
  <2>3. ~ Installing
    BY <1>6 DEF Installing, SinglePoller
  <2> QED BY <1>t, <1>6, <2>2, <2>3, StuttersOrSwitches
<1>7. ASSUME NEW w \in Poller, NEW r \in Response, NEW ahead \in Skews,
             PollExpired(w, r, ahead) \/ PollRefused(w, r, ahead)
      PROVE  [Leased!Next]_Leased!vars
  <2>1. pc[w] = "fetch" /\ UNCHANGED <<now, limits, grants>>
    BY <1>7 DEF PollExpired, PollRefused, Accepts, Receives, leaseVars
  <2>2. todo[w] = {}
    BY <1>t, <2>1 DEF RecordFacts, TodoInForce, TypeInv, TypeOK
  <2>3. \A v \in Poller :
          /\ todo'[v] = todo[v]
          /\ todo[v] # {} => offers'[v] = offers[v]
    BY <1>t, <1>7, <2>2 DEF PollExpired, PollRefused, TypeInv, TypeOK
  <2>4. ~ Installing /\ ~ Installing'
    BY <1>t, <1>7, <2>1
       DEF PollExpired, PollRefused, Installing, SinglePoller, TypeInv, TypeOK
  <2> QED BY <1>t, <2>1, <2>3, <2>4, StuttersOrSwitches
<1>8. ASSUME NEW w \in Poller, NEW r \in Response, NEW ahead \in Skews,
             PollApplies(w, r, ahead)
      PROVE  [Leased!Next]_Leased!vars
  BY <1>t, <1>8, AppliesLends DEF Leased!Next
<1>9. ASSUME NEW w \in Poller, NEW delivered \in BOOLEAN, AckedNext(w, delivered)
      PROVE  [Leased!Next]_Leased!vars
  <2>1. PICK next \in todo[w] :
          /\ grants' = [grants EXCEPT ![next] = offers[w][next]]
          /\ todo' = [todo EXCEPT ![w] = todo[w] \ {next}]
    BY <1>9 DEF AckedNext
  <2>2. /\ UNCHANGED <<now, running, limits, pc, offers>>
        /\ pc[w] = "ack"
    BY <1>9 DEF AckedNext, clockVars, lifecycleVars
  <2>3. /\ next \in Pool
        /\ grants'[next] = offers[w][next]
        /\ \A p \in Pool \ {next} : grants'[p] = grants[p]
        /\ todo'[w] = todo[w] \ {next}
        /\ \A v \in Poller : v = w
        /\ offers[w][next] \in Grant
    BY <1>t, <2>1, <2>2 DEF TypeInv, TypeOK, SinglePoller
  <2>4. LeaseEnd(next)' = LeaseEnd(next)
    <3>1. LeaseEnd(next) = offers[w][next].expiresAt
      BY <2>1, LeaseEndWhileRecording
    <3>2. LeaseEnd(next)' = grants'[next].expiresAt
      BY <2>3, GrantIsNotNoGrant DEF LeaseEnd, Recording
    <3> QED BY <2>3, <3>1, <3>2
  <2>5. ASSUME NEW p \in Pool, p # next
        PROVE  LeaseEnd(p)' = LeaseEnd(p)
    <3>1. \A v \in Poller : p \in todo'[v] <=> p \in todo[v]
      BY <2>3, <2>5
    <3> QED BY <2>2, <2>3, <2>5, <3>1, LeaseEndUndisturbed
  <2>6. UNCHANGED <<~ Installing, [p \in Pool |-> limits[p].maxConcurrent],
                    [p \in Pool |-> limits[p].revision], [p \in Pool |-> LeaseEnd(p)]>>
    BY <2>2, <2>4, <2>5 DEF Installing
  <2> QED BY <2>2, <2>6 DEF Leased!vars, Leased!leased
<1>10. ASSUME NEW w \in Poller, NEW delivered \in BOOLEAN, AckedLast(w, delivered)
       PROVE  [Leased!Next]_Leased!vars
  <2>1. Installing /\ Installing'
    BY <1>t, <1>10 DEF AckedLast, Installing, TypeInv, TypeOK
  <2>2. UNCHANGED <<now, limits, grants, todo, offers>>
    BY <1>10 DEF AckedLast, clockVars
  <2> QED BY <1>t, <2>1, <2>2, StuttersOrSwitches
<1>11. ASSUME NEW w \in Poller,
              \/ \E delivered \in BOOLEAN : AckedAll(w, delivered)
              \/ \E met \in SUBSET Pool : EvidencePublished(w, met)
       PROVE  [Leased!Next]_Leased!vars
  <2>1. /\ PollReturns(w)
        /\ pc[w] \in {"ack", "evidence"}
        /\ UNCHANGED <<now, limits, grants>>
        /\ pc[w] = "ack" => todo[w] = {}
    BY <1>11 DEF AckedAll, EvidencePublished, clockVars
  <2>2. todo[w] = {}
    BY <1>t, <2>1 DEF RecordFacts, TodoInForce, TypeInv, TypeOK
  <2> QED BY <1>t, <2>1, <2>2, SettlesBatch DEF Leased!Next
<1>12. ASSUME NEW w \in Poller, PollStep(w)
       PROVE  [Leased!Next]_Leased!vars
  BY <1>6, <1>7, <1>8, <1>9, <1>10, <1>11, <1>12
     DEF PollStep, FetchFails, PollStaleEpoch, TopologyThrows, PollIncomplete,
         PollThrows, ExpiredAcked, RefusalAcked, PollFails, PollReturns,
         ReadyToApply, Accepts, Receives, clockVars, leaseVars
<1> QED
  BY <1>1, <1>2, <1>3, <1>4, <1>5, <1>12 DEF Next, ExpirationStep

(* The agent implements the abstract lease: whatever polls, answers,       *)
(* timers and heartbeats do, capacity is lent under a higher revision for  *)
(* a lease that runs, closed only when its lease is over, and time does    *)
(* not pass over overdue capacity once a batch is settled.                 *)
THEOREM AgentLeases ==
  ASSUME SinglePoller, ~ Embedded
  PROVE  Spec => ImplementsLeasedCapacity
<1>1. Init => Leased!Init
  BY InitLends
<1>2. SpanInv /\ SpanInv' /\ [Next]_vars => [Leased!Next]_Leased!vars
  BY NextLends DEF SpanInv, LeaseInv
<1>3. Spec => []SpanInv
  BY SpanInvariant
<1> QED
  BY <1>1, <1>2, <1>3, PTL DEF Spec, ImplementsLeasedCapacity, Leased!Spec
===========================================================================
