------------------------ MODULE PoolAdmissionProofs ------------------------
(***************************************************************************)
(* What a pool promises whatever limits, reports and deadlines come while  *)
(* calls wait and run, for any number of calls, classes and revisions.     *)
(***************************************************************************)
EXTENDS PoolAdmission, FiniteSetFacts, SequenceTheorems, TLAPS

Pooled == {"queued", "granted", "running", "detached"}

Calls ==
  [stage: Stages, class: Class \cup {Null}, priority: {"normal", "high", Null},
   size: Sizes \cup {Null}, held: Nat, borrowed: BOOLEAN,
   output: Nat \cup {Null}, remaining: Nat \cup {Null}]

AllLimits == Offers \cup {start.limits : start \in Starts}

Records ==
  [sequence: Nat, revision: Nat, limits: AllLimits, grant: Nat \cup {Null}]

PoolTypes ==
  /\ limits \in AllLimits /\ revision \in Nat
  /\ call \in [Call -> Calls]
  /\ queue \in Seq(Call) /\ granted \in Seq(Call)

(* The queue and the granted slots name calls in those stages, once.       *)
Lists(list, calls, stage) ==
  /\ \A i \in 1 .. Len(list) : calls[list[i]].stage = stage
  /\ \A i, j \in 1 .. Len(list) : list[i] = list[j] => i = j

QueuesTold == Lists(queue, call, "queued") /\ Lists(granted, call, "granted")

(* A pool that drains is closed, and a closed pool has no queue.           *)
ClosedTold ==
  /\ drain # "none" => closed
  /\ closed => \A c \in Call : call[c].stage # "queued"

(* What the pool accounts for has a size; what has reported holds what is  *)
(* left, the margin and its overrun, and is behind by less than a step.    *)
HoldTold(r) ==
  /\ r.stage \in Pooled => r.size \in Sizes
  /\ r.stage \in {"queued", "granted"} => r.output = Null
  /\ r.stage \in Pooled => (r.output = Null <=> r.remaining = Null)
  /\ r.stage \in {"running", "detached"} /\ r.output # Null =>
       /\ r.held = r.remaining + Margin + Overrun(r, r.output)
       /\ r.remaining >= Candidate0(r, r.output)
       /\ r.remaining < Candidate0(r, r.output) + Step

HoldsTold == \A c \in Call : HoldTold(call[c])

(* The history has the revision in force, and the grant of that revision   *)
(* is the one retained for it, if any.                                     *)
GrantTold ==
  /\ revision \in DOMAIN issued /\ issued[revision].limits = limits
  /\ retained \in Seq([revision: Nat, grant: Nat \cup {Null}])
  /\ issued \in [DOMAIN issued -> [limits: AllLimits, grant: Nat \cup {Null}]]
  /\ \A i \in 1 .. Len(retained) :
       /\ retained[i].revision <= revision
       /\ retained[i].revision = revision => retained[i].grant = issued[revision].grant
  /\ issued[revision].grant # Null =>
       \E i \in 1 .. Len(retained) : retained[i].revision = revision

(* The records are of revisions the history still has.                     *)
EvidenceTold ==
  /\ evidence \in [events: Seq(Records), next: Nat, dropped: Nat]
  /\ \A i \in 1 .. Len(evidence.events) :
       /\ evidence.events[i].revision \in 0 .. revision
       /\ evidence.events[i].revision \in DOMAIN issued

(* The limits in force protect no more than there is.                      *)
LimitsTold ==
  /\ LimitsFit(limits)
  /\ Classes # {} => limits.default \in Classes

IInv ==
  /\ PoolTypes /\ QueuesTold /\ ClosedTold /\ HoldsTold /\ LimitsTold
  /\ GrantTold /\ EvidenceTold
  /\ DrainedIsQuiet /\ EvidenceTruthful

---------------------------------------------------------------------------
(* Queues.                                                                 *)

LEMMA InFlightType == InFlight \in Nat
<1>1. IsFiniteSet({c \in Call : HasSlot(c)})
  BY PoolAssumption, FS_Subset
<1> QED BY <1>1, FS_CardinalityType DEF InFlight

(* The calls that are granted are the first of the queue.                  *)
LEMMA GrantsProperties ==
  ASSUME NEW q \in Seq(Call), NEW used \in Int, NEW max \in Int
  PROVE  LET lucky == Grants(q, used, max)
             rest == SubSeq(q, Len(lucky) + 1, Len(q))
         IN /\ lucky \in Seq(Call) /\ rest \in Seq(Call)
            /\ Len(lucky) \in 0 .. Len(q) /\ Len(rest) = Len(q) - Len(lucky)
            /\ \A i \in 1 .. Len(lucky) : lucky[i] = q[i]
            /\ \A i \in 1 .. Len(rest) : rest[i] = q[Len(lucky) + i]
<1> DEFINE n == NonNegative(Smaller(Len(q), max - used))
           lucky == Grants(q, used, max)
           rest == SubSeq(q, Len(lucky) + 1, Len(q))
<1>1. Len(q) \in Nat /\ \A i \in 1 .. Len(q) : q[i] \in Call
  BY LenProperties, ElementOfSeq
<1>2. n \in 0 .. Len(q)
  BY <1>1 DEF NonNegative, Smaller
<1>3. lucky = SubSeq(q, 1, n)
  BY DEF Grants
<1> HIDE DEF n
<1>4. /\ SubSeq(q, 1, n) \in Seq(Call) /\ Len(SubSeq(q, 1, n)) = n
      /\ \A i \in 1 .. n : SubSeq(q, 1, n)[i] = q[i]
  <2>1. \A i \in 1 .. n : q[i] \in Call
    BY <1>1, <1>2
  <2>2. /\ SubSeq(q, 1, n) \in Seq(Call)
        /\ Len(SubSeq(q, 1, n)) = IF 1 <= n THEN n - 1 + 1 ELSE 0
        /\ \A i \in 1 .. n - 1 + 1 : SubSeq(q, 1, n)[i] = q[1 + i - 1]
    BY <1>2, <2>1, SubSeqProperties
  <2> QED BY <1>2, <2>2
<1>5. /\ SubSeq(q, n + 1, Len(q)) \in Seq(Call) /\ Len(SubSeq(q, n + 1, Len(q))) = Len(q) - n
      /\ \A i \in 1 .. Len(q) - n : SubSeq(q, n + 1, Len(q))[i] = q[n + i]
  <2>1. \A i \in n + 1 .. Len(q) : q[i] \in Call
    BY <1>1, <1>2
  <2>2. /\ SubSeq(q, n + 1, Len(q)) \in Seq(Call)
        /\ Len(SubSeq(q, n + 1, Len(q)))
             = IF n + 1 <= Len(q) THEN Len(q) - (n + 1) + 1 ELSE 0
        /\ \A i \in 1 .. Len(q) - (n + 1) + 1 :
             SubSeq(q, n + 1, Len(q))[i] = q[(n + 1) + i - 1]
    BY <1>1, <1>2, <2>1, SubSeqProperties
  <2> QED BY <1>1, <1>2, <2>2
<1> HIDE DEF lucky
<1> QED BY <1>2, <1>3, <1>4, <1>5 DEF lucky

(* A change of the free slots moves waiters from the front of the queue to *)
(* the granted slots, and changes nothing else of any call.                *)
LEMMA ProceedKeeps ==
  ASSUME NEW calls \in [Call -> Calls], NEW q \in Seq(Call), NEW g \in Seq(Call),
         Lists(q, calls, "queued"), Lists(g, calls, "granted"),
         NEW used \in Int, NEW max \in Int, Proceed(calls, q, g, used, max)
  PROVE  /\ call' \in [Call -> Calls] /\ queue' \in Seq(Call) /\ granted' \in Seq(Call)
         /\ QueuesTold'
         /\ \A c \in Call :
              \/ call'[c] = calls[c]
              \/ /\ calls[c].stage = "queued"
                 /\ call'[c] = [calls[c] EXCEPT !.stage = "granted"]
<1> DEFINE lucky == Grants(q, used, max)
           rest == SubSeq(q, Len(lucky) + 1, Len(q))
<1>1. /\ call' = [c \in Call |-> IF c \in Range(lucky)
                                 THEN [calls[c] EXCEPT !.stage = "granted"] ELSE calls[c]]
      /\ queue' = rest /\ granted' = g \o lucky
  BY DEF Proceed
<1>2. /\ lucky \in Seq(Call) /\ rest \in Seq(Call)
      /\ Len(lucky) \in 0 .. Len(q) /\ Len(rest) = Len(q) - Len(lucky)
      /\ \A i \in 1 .. Len(lucky) : lucky[i] = q[i]
      /\ \A i \in 1 .. Len(rest) : rest[i] = q[Len(lucky) + i]
  BY GrantsProperties
<1>3. Len(q) \in Nat /\ Len(g) \in Nat /\ Len(lucky) \in Nat
  BY <1>2, LenProperties
<1>4. \A c : c \in Range(lucky) <=> \E i \in 1 .. Len(lucky) : lucky[i] = c
  BY <1>2, LenProperties DEF Range
<1> HIDE DEF lucky, rest
<1>5. /\ g \o lucky \in Seq(Call) /\ Len(g \o lucky) = Len(g) + Len(lucky)
      /\ \A i \in 1 .. Len(g) + Len(lucky) :
           (g \o lucky)[i] = IF i <= Len(g) THEN g[i] ELSE lucky[i - Len(g)]
  BY <1>2, ConcatProperties
<1>6. \A c \in Range(lucky) : c \in Call /\ calls[c].stage = "queued"
  <2>1. \A i \in 1 .. Len(q) : calls[q[i]].stage = "queued" /\ q[i] \in Call
    BY ElementOfSeq DEF Lists
  <2> QED BY <1>2, <1>3, <1>4, <2>1
<1>7. call' \in [Call -> Calls]
  <2>1. \A r \in Calls : [r EXCEPT !.stage = "granted"] \in Calls
    BY DEF Calls, Stages
  <2> QED BY <1>1, <2>1
<1>8. Lists(rest, call', "queued")
  <2>1. \A i \in 1 .. Len(rest) : rest[i] = q[Len(lucky) + i] /\ Len(lucky) + i \in 1 .. Len(q)
    BY <1>2, <1>3
  <2>2. \A i \in 1 .. Len(rest) : rest[i] \notin Range(lucky)
    <3>1. SUFFICES ASSUME NEW i \in 1 .. Len(rest), NEW k \in 1 .. Len(lucky),
                          rest[i] = lucky[k]
                   PROVE  FALSE
      BY <1>4
    <3>2. q[k] = q[Len(lucky) + i] /\ k \in 1 .. Len(q)
      BY <1>2, <1>3, <2>1, <3>1
    <3>3. k = Len(lucky) + i
      BY <2>1, <3>2 DEF Lists
    <3> QED BY <1>3, <3>3
  <2>3. \A i \in 1 .. Len(rest) : rest[i] \in Call
    BY <2>1, ElementOfSeq
  <2>4. \A i \in 1 .. Len(rest) : call'[rest[i]].stage = "queued"
    BY <1>1, <2>1, <2>2, <2>3 DEF Lists
  <2> QED BY <1>3, <2>1, <2>4 DEF Lists
<1>9. Lists(g \o lucky, call', "granted")
  <2>1. \A i \in 1 .. Len(g) : g[i] \in Call /\ g[i] \notin Range(lucky)
                               /\ call'[g[i]].stage = "granted"
    <3>1. \A i \in 1 .. Len(g) : g[i] \in Call /\ calls[g[i]].stage = "granted"
      BY ElementOfSeq DEF Lists
    <3> QED BY <1>1, <1>6, <3>1
  <2>2. \A i \in 1 .. Len(lucky) : lucky[i] \in Range(lucky) /\ lucky[i] \in Call
                                   /\ call'[lucky[i]].stage = "granted"
    BY <1>1, <1>4, <1>6 DEF Calls
  <2>3. \A i, j \in 1 .. Len(lucky) : lucky[i] = lucky[j] => i = j
    BY <1>2, <1>3 DEF Lists
  <2>4. \A i \in 1 .. Len(g) + Len(lucky) : call'[(g \o lucky)[i]].stage = "granted"
    BY <1>3, <1>5, <2>1, <2>2
  <2>5. ASSUME NEW i \in 1 .. Len(g) + Len(lucky), NEW j \in 1 .. Len(g) + Len(lucky),
               (g \o lucky)[i] = (g \o lucky)[j]
        PROVE  i = j
    <3>1. CASE i <= Len(g) /\ j <= Len(g)
      BY <1>3, <1>5, <2>5, <3>1 DEF Lists
    <3>2. CASE ~ (i <= Len(g)) /\ ~ (j <= Len(g))
      <4>1. i - Len(g) \in 1 .. Len(lucky) /\ j - Len(g) \in 1 .. Len(lucky)
        BY <1>3, <3>2
      <4>2. lucky[i - Len(g)] = lucky[j - Len(g)]
        BY <1>5, <2>5, <3>2
      <4>3. i - Len(g) = j - Len(g)
        BY <2>3, <4>1, <4>2
      <4> QED BY <1>3, <4>3
    <3>3. CASE i <= Len(g) /\ ~ (j <= Len(g))
      <4>1. i \in 1 .. Len(g) /\ j - Len(g) \in 1 .. Len(lucky)
        BY <1>3, <3>3
      <4> QED BY <1>5, <2>1, <2>2, <2>5, <3>3, <4>1
    <3>4. CASE ~ (i <= Len(g)) /\ j <= Len(g)
      <4>1. j \in 1 .. Len(g) /\ i - Len(g) \in 1 .. Len(lucky)
        BY <1>3, <3>4
      <4> QED BY <1>5, <2>1, <2>2, <2>5, <3>4, <4>1
    <3> QED BY <3>1, <3>2, <3>3, <3>4
  <2> QED BY <1>5, <2>4, <2>5 DEF Lists
<1> QED BY <1>1, <1>2, <1>5, <1>6, <1>7, <1>8, <1>9 DEF QueuesTold

---------------------------------------------------------------------------
(* Calls.                                                                  *)

CallFacts ==
  /\ PoolTypes /\ QueuesTold /\ ClosedTold /\ HoldsTold /\ DrainedIsQuiet

(* Whether a call may be among others as it is now.                        *)
Welcome(r) ==
  /\ r \in Calls /\ HoldTold(r)
  /\ closed => r.stage # "queued"
  /\ drain = "drained" => r.stage \notin Pooled

LEMMA SettledOrPooled ==
  ASSUME NEW c \in Call, call[c].stage \in Stages
  PROVE  Settled(c) <=> call[c].stage \notin Pooled
  BY DEF Settled, Pooled, Stages

LEMMA EveryoneIsWelcome ==
  ASSUME CallFacts
  PROVE  \A c \in Call : Welcome(call[c])
<1>1. \A c \in Call : call[c] \in Calls /\ call[c].stage \in Stages
  BY DEF CallFacts, PoolTypes, Calls
<1>2. \A c \in Call : drain = "drained" => call[c].stage \notin Pooled
  BY <1>1, SettledOrPooled DEF CallFacts, DrainedIsQuiet
<1> QED BY <1>1, <1>2 DEF CallFacts, HoldsTold, ClosedTold, Welcome

LEMMA OutsideIsWelcome ==
  ASSUME NEW stage \in {"ended", "bypassed"}
  PROVE  Welcome(Outside(stage))
  BY DEF Welcome, Outside, Fresh, Calls, Stages, HoldTold, Pooled

LEMMA RefusedStageType == RefusedStage \in {"ended", "bypassed"}
  BY DEF RefusedStage

(* Where everyone is welcome and the queues name whom they should, the     *)
(* facts hold.                                                             *)
LEMMA WelcomeKeeps ==
  ASSUME limits' \in AllLimits, revision' \in Nat, UNCHANGED <<closed, drain>>,
         drain # "none" => closed,
         call' \in [Call -> Calls], queue' \in Seq(Call), granted' \in Seq(Call),
         QueuesTold', \A c \in Call : Welcome(call'[c])
  PROVE  CallFacts'
<1>1. PoolTypes'
  BY DEF PoolTypes
<1>2. ClosedTold' /\ HoldsTold'
  BY DEF ClosedTold, HoldsTold, Welcome
<1>3. DrainedIsQuiet'
  BY DEF DrainedIsQuiet, Settled, Welcome, Pooled
<1> QED BY <1>1, <1>2, <1>3 DEF CallFacts

(* Those who proceed were welcome before.                                  *)
LEMMA ProceedWelcomes ==
  ASSUME limits' \in AllLimits, revision' \in Nat, UNCHANGED <<closed, drain>>,
         drain # "none" => closed,
         NEW calls \in [Call -> Calls], NEW q \in Seq(Call), NEW g \in Seq(Call),
         Lists(q, calls, "queued"), Lists(g, calls, "granted"),
         \A c \in Call : Welcome(calls[c]),
         NEW used \in Int, NEW max \in Int, Proceed(calls, q, g, used, max)
  PROVE  CallFacts'
<1>1. /\ call' \in [Call -> Calls] /\ queue' \in Seq(Call) /\ granted' \in Seq(Call)
      /\ QueuesTold'
      /\ \A c \in Call :
           \/ call'[c] = calls[c]
           \/ /\ calls[c].stage = "queued"
              /\ call'[c] = [calls[c] EXCEPT !.stage = "granted"]
  BY ProceedKeeps
<1>2. ASSUME NEW c \in Call PROVE Welcome(call'[c])
  <2>1. CASE call'[c] = calls[c]
    BY <2>1
  <2>2. CASE calls[c].stage = "queued" /\ call'[c] = [calls[c] EXCEPT !.stage = "granted"]
    <3>1. calls[c] \in Calls
      OBVIOUS
    <3>2. HoldTold(call'[c])
      BY <2>2, <3>1 DEF Welcome, HoldTold, Calls, Pooled
    <3>3. drain # "drained"
      BY <2>2 DEF Welcome, Pooled
    <3> QED BY <1>1, <2>2, <3>1, <3>2, <3>3 DEF Welcome, Calls
  <2> QED BY <1>1, <2>1, <2>2
<1> QED BY <1>1, <1>2, WelcomeKeeps

(* A call leaves the queues alone when neither names it, or it stays.      *)
LEMMA ListsUndisturbed ==
  ASSUME NEW list \in Seq(Call), NEW stage, Lists(list, call, stage),
         call \in [Call -> Calls], NEW c \in Call, call[c].stage # stage, NEW r
  PROVE  Lists(list, [call EXCEPT ![c] = r], stage)
<1>1. \A i \in 1 .. Len(list) : list[i] \in Call /\ list[i] # c
  BY ElementOfSeq DEF Lists
<1> QED BY <1>1 DEF Lists

(* Taking one element out of a sequence moves the later ones up.           *)
LEMMA RemoveAtProperties ==
  ASSUME NEW S, NEW s \in Seq(S), NEW i \in 1..Len(s)
  PROVE  /\ RemoveAt(s, i) \in Seq(S)
         /\ Len(RemoveAt(s, i)) = Len(s) - 1
         /\ \A j \in 1..(Len(s) - 1) :
              RemoveAt(s, i)[j] = IF j < i THEN s[j] ELSE s[j + 1]
<1> DEFINE left == SubSeq(s, 1, i - 1)
           right == SubSeq(s, i + 1, Len(s))
<1>0. Len(s) \in Nat /\ i \in Nat /\ i >= 1 /\ i <= Len(s)
  BY LenProperties
<1>1. /\ left \in Seq(S) /\ Len(left) = i - 1
      /\ \A j \in 1..(i - 1) : left[j] = s[j]
  BY <1>0, SubSeqProperties
<1>2. /\ right \in Seq(S) /\ Len(right) = Len(s) - i
      /\ \A j \in 1..(Len(s) - i) : right[j] = s[i + j]
  BY <1>0, SubSeqProperties
<1> HIDE DEF left, right
<1>3. RemoveAt(s, i) = left \o right
  BY DEF RemoveAt, left, right
<1>c. /\ left \o right \in Seq(S)
      /\ Len(left \o right) = Len(left) + Len(right)
      /\ \A j \in 1..(Len(left) + Len(right)) :
           (left \o right)[j] = IF j <= Len(left) THEN left[j] ELSE right[j - Len(left)]
  BY <1>1, <1>2, ConcatProperties
<1>n. Len(left) + Len(right) = Len(s) - 1
  BY <1>0, <1>1, <1>2
<1>4. /\ left \o right \in Seq(S)
      /\ Len(left \o right) = Len(s) - 1
      /\ \A j \in 1..(Len(s) - 1) :
           (left \o right)[j] = IF j <= i - 1 THEN left[j] ELSE right[j - (i - 1)]
  BY <1>c, <1>n, <1>1
<1>5. ASSUME NEW j \in 1..(Len(s) - 1)
      PROVE  (left \o right)[j] = IF j < i THEN s[j] ELSE s[j + 1]
  <2>1. CASE j < i
    BY <1>0, <1>1, <1>4, <2>1
  <2>2. CASE ~ (j < i)
    <3>1. j - (i - 1) \in 1..(Len(s) - i) /\ i + (j - (i - 1)) = j + 1
      BY <1>0, <2>2
    <3> QED BY <1>0, <1>2, <1>4, <2>2, <3>1
  <2> QED BY <2>1, <2>2
<1> QED BY <1>3, <1>4, <1>5

LEMMA AppendLists ==
  ASSUME NEW list \in Seq(Call), NEW stage, Lists(list, call, stage),
         call \in [Call -> Calls], NEW c \in Call, call[c].stage # stage,
         NEW r, r.stage = stage
  PROVE  /\ Append(list, c) \in Seq(Call)
         /\ Lists(Append(list, c), [call EXCEPT ![c] = r], stage)
<1>1. /\ Append(list, c) \in Seq(Call) /\ Len(Append(list, c)) = Len(list) + 1
      /\ \A i \in 1 .. Len(list) : Append(list, c)[i] = list[i]
      /\ Append(list, c)[Len(list) + 1] = c
  BY AppendProperties
<1>2. Len(list) \in Nat /\ \A i \in 1 .. Len(list) : list[i] \in Call /\ list[i] # c
  BY LenProperties, ElementOfSeq DEF Lists
<1> QED BY <1>1, <1>2 DEF Lists

LEMMA TailLists ==
  ASSUME NEW list \in Seq(Call), list # <<>>, NEW stage, Lists(list, call, stage),
         call \in [Call -> Calls], NEW r
  PROVE  /\ Head(list) \in Call /\ call[Head(list)].stage = stage
         /\ Tail(list) \in Seq(Call)
         /\ Lists(Tail(list), [call EXCEPT ![Head(list)] = r], stage)
<1>1. Len(list) \in Nat /\ Len(list) > 0 /\ \A i \in 1 .. Len(list) : list[i] \in Call
  BY LenProperties, ElementOfSeq, EmptySeq
<1>2. /\ Head(list) = list[1] /\ Tail(list) \in Seq(Call)
      /\ Len(Tail(list)) = Len(list) - 1
      /\ \A i \in 1 .. Len(Tail(list)) : Tail(list)[i] = list[i + 1]
  BY HeadTailProperties
<1>3. \A i \in 1 .. Len(list) - 1 :
        list[i + 1] \in Call /\ list[i + 1] # Head(list) /\ call[list[i + 1]].stage = stage
  BY <1>1, <1>2 DEF Lists
<1>4. \A i, j \in 1 .. Len(list) - 1 : list[i + 1] = list[j + 1] => i = j
  BY <1>1 DEF Lists
<1> QED BY <1>1, <1>2, <1>3, <1>4 DEF Lists

LEMMA RemoveLists ==
  ASSUME NEW list \in Seq(Call), NEW i \in 1 .. Len(list), NEW stage,
         Lists(list, call, stage), call \in [Call -> Calls], NEW r
  PROVE  /\ RemoveAt(list, i) \in Seq(Call)
         /\ Lists(RemoveAt(list, i), [call EXCEPT ![list[i]] = r], stage)
<1>1. Len(list) \in Nat /\ \A k \in 1 .. Len(list) : list[k] \in Call
  BY LenProperties, ElementOfSeq
<1> DEFINE at(j) == IF j < i THEN j ELSE j + 1
<1>2. /\ RemoveAt(list, i) \in Seq(Call) /\ Len(RemoveAt(list, i)) = Len(list) - 1
      /\ \A j \in 1 .. Len(list) - 1 : RemoveAt(list, i)[j] = list[at(j)]
  BY RemoveAtProperties
<1>3. \A j \in 1 .. Len(list) - 1 : at(j) \in 1 .. Len(list) /\ at(j) # i
  BY <1>1
<1>4. \A j, k \in 1 .. Len(list) - 1 : at(j) = at(k) => j = k
  BY <1>1
<1> HIDE DEF at
<1>5. \A j \in 1 .. Len(list) - 1 :
        list[at(j)] \in Call /\ list[at(j)] # list[i] /\ call[list[at(j)]].stage = stage
  BY <1>1, <1>3 DEF Lists
<1>6. \A j, k \in 1 .. Len(list) - 1 : list[at(j)] = list[at(k)] => j = k
  BY <1>3, <1>4 DEF Lists
<1> QED BY <1>2, <1>5, <1>6 DEF Lists

---------------------------------------------------------------------------
(* Actions.                                                                *)

(* One call changes, and neither queue names it differently than it is.    *)
LEMMA OneCallKeeps ==
  ASSUME CallFacts, UNCHANGED <<limits, revision, closed, drain>>,
         NEW c \in Call, NEW r, Welcome(r), call' = [call EXCEPT ![c] = r],
         queue' \in Seq(Call), granted' \in Seq(Call),
         Lists(queue', [call EXCEPT ![c] = r], "queued"),
         Lists(granted', [call EXCEPT ![c] = r], "granted")
  PROVE  CallFacts'
<1>1. \A d \in Call : Welcome(call[d])
  BY EveryoneIsWelcome
<1>2. call \in [Call -> Calls] /\ (drain # "none" => closed)
      /\ limits \in AllLimits /\ revision \in Nat
  BY DEF CallFacts, PoolTypes, ClosedTold
<1>3. call' \in [Call -> Calls] /\ \A d \in Call : Welcome(call'[d])
  BY <1>1, <1>2 DEF Welcome
<1>4. QueuesTold'
  BY DEF QueuesTold
<1> QED BY <1>2, <1>3, <1>4, WelcomeKeeps

LEMMA SubmitKeeps ==
  ASSUME CallFacts, NEW c \in Call, NEW k \in Class \cup {Null},
         NEW p \in {"normal", "high"}, NEW s \in Sizes, Submit(c, k, p, s)
  PROVE  CallFacts'
<1> DEFINE r == [Fresh EXCEPT !.class = k, !.priority = p, !.size = s]
           entered(stage) == [r EXCEPT !.stage = stage]
<1>1. /\ call \in [Call -> Calls] /\ call[c].stage = "new"
      /\ queue \in Seq(Call) /\ granted \in Seq(Call)
      /\ Lists(queue, call, "queued") /\ Lists(granted, call, "granted")
      /\ UNCHANGED <<limits, revision, closed, drain>>
  BY DEF Submit, CallFacts, PoolTypes, QueuesTold
<1>2. CASE call' = [call EXCEPT ![c] = Outside(RefusedStage)] /\ UNCHANGED <<queue, granted>>
  BY <1>1, <1>2, OutsideIsWelcome, RefusedStageType, ListsUndisturbed, OneCallKeeps
<1>3. ASSUME ~ closed, NEW stage \in {"queued", "granted"}
      PROVE  Welcome(entered(stage)) /\ entered(stage).stage = stage
  BY <1>3, NullAssumption
     DEF Welcome, Fresh, Calls, Stages, HoldTold, CallFacts, ClosedTold
<1>4. CASE /\ ~ closed /\ call' = [call EXCEPT ![c] = entered("granted")]
           /\ granted' = Append(granted, c) /\ UNCHANGED queue
  <2> DEFINE e == entered("granted")
  <2>1. Welcome(e) /\ e.stage = "granted"
    BY <1>3, <1>4
  <2> HIDE DEF e
  <2> QED BY <1>1, <1>4, <2>1, ListsUndisturbed, AppendLists, OneCallKeeps DEF e
<1>5. CASE /\ ~ closed /\ call' = [call EXCEPT ![c] = entered("queued")]
           /\ queue' = Append(queue, c) /\ UNCHANGED granted
  <2> DEFINE e == entered("queued")
  <2>1. Welcome(e) /\ e.stage = "queued"
    BY <1>3, <1>5
  <2> HIDE DEF e
  <2> QED BY <1>1, <1>5, <2>1, ListsUndisturbed, AppendLists, OneCallKeeps DEF e
<1> QED BY <1>2, <1>4, <1>5 DEF Submit

LEMMA MaxType == ASSUME limits \in AllLimits PROVE limits.max \in Nat
  BY LimitsAssumption DEF AllLimits

LEMMA PostcheckKeeps ==
  ASSUME CallFacts, Postcheck
  PROVE  CallFacts'
<1> DEFINE c == Head(granted)
           rest == Tail(granted)
<1>1. /\ call \in [Call -> Calls] /\ queue \in Seq(Call) /\ granted \in Seq(Call)
      /\ granted # <<>> /\ limits \in AllLimits /\ revision \in Nat
      /\ Lists(queue, call, "queued") /\ Lists(granted, call, "granted")
      /\ UNCHANGED <<limits, revision, closed, drain>>
  BY DEF Postcheck, CallFacts, PoolTypes, QueuesTold
<1>2. c \in Call /\ call[c].stage = "granted"
  BY <1>1, TailLists
<1>3. rest \in Seq(Call) /\ \A r : Lists(rest, [call EXCEPT ![c] = r], "granted")
  BY <1>1, TailLists
<1>4. \A r : Lists(queue, [call EXCEPT ![c] = r], "queued")
  BY <1>1, <1>2, ListsUndisturbed
<1>5. call[c] \in Calls /\ Welcome(call[c])
  BY <1>1, <1>2, EveryoneIsWelcome
<1> DEFINE r == [call[c] EXCEPT !.stage = "running", !.priority = Null,
                                !.held = Reserved(call[c]),
                                !.borrowed = BorrowsSlot(call[c])]
<1>6. CASE call' = [call EXCEPT ![c] = r] /\ granted' = rest /\ UNCHANGED queue
  <2>1. Reserved(call[c]) \in Nat
    <3>1. call[c].size \in Sizes
      BY <1>2, <1>5 DEF Welcome, HoldTold, Pooled
    <3> QED BY <3>1, PoolAssumption DEF Reserved
  <2>2. BorrowsSlot(call[c]) \in BOOLEAN
    BY DEF BorrowsSlot
  <2>3. Welcome(r)
    BY <1>2, <1>5, <2>1, <2>2 DEF Welcome, HoldTold, Calls, Stages, Pooled
  <2> HIDE DEF r, c, rest
  <2> QED BY <1>1, <1>2, <1>3, <1>4, <1>6, <2>3, OneCallKeeps
<1>7. CASE Proceed([call EXCEPT ![c] = Outside(RefusedStage)], queue, rest,
                   InFlight - 1, limits.max)
  <2> DEFINE calls == [call EXCEPT ![c] = Outside(RefusedStage)]
  <2>1. calls \in [Call -> Calls] /\ \A d \in Call : Welcome(calls[d])
    <3>1. Welcome(Outside(RefusedStage))
      BY OutsideIsWelcome, RefusedStageType
    <3>2. \A d \in Call : Welcome(call[d])
      BY EveryoneIsWelcome
    <3> QED BY <1>1, <1>2, <3>1, <3>2 DEF Welcome
  <2>2. Lists(queue, calls, "queued") /\ Lists(rest, calls, "granted")
    BY <1>3, <1>4
  <2>3. InFlight - 1 \in Int /\ limits.max \in Int
    BY <1>1, InFlightType, MaxType
  <2>4. drain # "none" => closed
    BY DEF CallFacts, ClosedTold
  <2> HIDE DEF calls, c, rest
  <2>5. Proceed(calls, queue, rest, InFlight - 1, limits.max)
    BY <1>7 DEF calls
  <2> QED BY <1>1, <1>3, <2>1, <2>2, <2>3, <2>4, <2>5, ProceedWelcomes
<1>8. \/ call' = [call EXCEPT ![c] = r] /\ granted' = rest /\ UNCHANGED queue
      \/ Proceed([call EXCEPT ![c] = Outside(RefusedStage)], queue, rest,
                 InFlight - 1, limits.max)
  <2>1. ASSUME NEW reserved, NEW borrows
        PROVE  [call EXCEPT ![c].stage = "running", ![c].priority = Null,
                            ![c].held = reserved, ![c].borrowed = borrows]
                 = [call EXCEPT ![c] = [call[c] EXCEPT !.stage = "running",
                      !.priority = Null, !.held = reserved, !.borrowed = borrows]]
    BY <1>1, <1>2
  <2> QED BY <2>1 DEF Postcheck
<1> QED BY <1>6, <1>7, <1>8

LEMMA LeaveQueueKeeps ==
  ASSUME CallFacts, NEW c \in Call, LeaveQueue(c)
  PROVE  CallFacts'
<1>1. /\ call \in [Call -> Calls] /\ queue \in Seq(Call) /\ granted \in Seq(Call)
      /\ Lists(queue, call, "queued") /\ Lists(granted, call, "granted")
      /\ UNCHANGED <<limits, revision, closed, drain, granted>> /\ call[c].stage = "queued"
  BY DEF LeaveQueue, CallFacts, PoolTypes, QueuesTold
<1>2. PICK stage \in {"ended", RefusedStage} : call' = [call EXCEPT ![c] = Outside(stage)]
  BY DEF LeaveQueue
<1>3. PICK i \in 1 .. Len(queue) : queue[i] = c /\ queue' = RemoveAt(queue, i)
  BY <1>1, LenProperties DEF LeaveQueue
<1>4. Welcome(Outside(stage))
  BY OutsideIsWelcome, RefusedStageType
<1>5. /\ queue' \in Seq(Call)
      /\ Lists(queue', [call EXCEPT ![c] = Outside(stage)], "queued")
  BY <1>1, <1>3, RemoveLists
<1>6. Lists(granted', [call EXCEPT ![c] = Outside(stage)], "granted")
  BY <1>1, ListsUndisturbed
<1> QED BY <1>1, <1>2, <1>4, <1>5, <1>6, OneCallKeeps

(* reportUsage(): what is left to produce is never counted up again by a   *)
(* late report, and is behind by less than a step.                         *)
LEMMA ReportHolds ==
  ASSUME NEW r \in Calls, HoldTold(r), r.stage \in {"running", "detached"},
         NEW output \in Outputs
  PROVE  LET seen == IF r.output = Null \/ output > r.output THEN output ELSE r.output
             left == Reconciled(r, output)
             new == [r EXCEPT !.output = seen, !.remaining = left,
                              !.held = left + Margin + Overrun(r, seen)]
         IN new \in Calls /\ HoldTold(new) /\ new.stage = r.stage
<1> DEFINE seen == IF r.output = Null \/ output > r.output THEN output ELSE r.output
           left == Reconciled(r, output)
           new == [r EXCEPT !.output = seen, !.remaining = left,
                            !.held = left + Margin + Overrun(r, seen)]
<1>1. output \in Nat /\ Margin \in Nat /\ Step \in Nat /\ Step > 0
  BY PoolAssumption
<1>2. r.size \in Sizes /\ r.size.output \in Nat
  BY PoolAssumption DEF HoldTold, Pooled
<1>3. r.output \in Nat \cup {Null} /\ r.remaining \in Nat \cup {Null}
      /\ (r.output = Null <=> r.remaining = Null)
  BY DEF Calls, HoldTold, Pooled
<1>4. seen \in Nat /\ (r.output # Null => seen >= r.output) /\ seen >= output
  BY <1>1, <1>3
<1>5. /\ left \in Nat
      /\ left >= Candidate0(r, seen) /\ left < Candidate0(r, seen) + Step
  <2>1. CASE r.remaining = Null
    BY <1>1, <1>2, <1>3, <2>1 DEF Reconciled, Candidate0, NonNegative
  <2>2. CASE r.remaining # Null
    <3>1. /\ r.remaining \in Nat /\ r.output \in Nat
          /\ r.remaining >= Candidate0(r, r.output)
          /\ r.remaining < Candidate0(r, r.output) + Step
      BY <1>3, <2>2 DEF HoldTold
    <3>2. r.output # Null
      BY <1>3, <2>2
    <3>3. /\ Candidate0(r, output) \in Nat /\ Candidate0(r, r.output) \in Nat
          /\ output <= r.output => Candidate0(r, output) >= Candidate0(r, r.output)
          /\ output >= r.output => Candidate0(r, output) <= Candidate0(r, r.output)
      BY <1>1, <1>2, <3>1 DEF Candidate0, NonNegative
    <3>4. CASE output > r.output
      <4>1. seen = output
        BY <3>4
      <4> HIDE DEF seen
      <4> QED BY <1>1, <2>2, <3>1, <3>3, <3>4, <4>1 DEF Reconciled
    <3>5. CASE ~ (output > r.output)
      <4>1. seen = r.output
        BY <3>2, <3>5
      <4> HIDE DEF seen
      <4> QED BY <1>1, <2>2, <3>1, <3>3, <3>5, <4>1 DEF Reconciled
    <3> QED BY <3>4, <3>5
  <2> QED BY <2>1, <2>2
<1>6. Overrun(r, seen) \in Nat
  BY <1>2, <1>4 DEF Overrun, NonNegative
<1>7. left + Margin + Overrun(r, seen) \in Nat
  BY <1>1, <1>5, <1>6
<1> HIDE DEF seen, left
<1>8. /\ new \in Calls /\ new.stage = r.stage /\ new.size = r.size
      /\ new.output = seen /\ new.remaining = left
      /\ new.held = left + Margin + Overrun(r, seen)
  BY <1>4, <1>5, <1>7 DEF Calls
<1>9. Overrun(new, seen) = Overrun(r, seen) /\ Candidate0(new, seen) = Candidate0(r, seen)
  BY <1>8 DEF Overrun, Candidate0
<1>10. seen # Null /\ left # Null
  BY <1>4, <1>5, NullAssumption
<1> HIDE DEF new
<1>11. HoldTold(new)
  BY <1>2, <1>5, <1>8, <1>9, <1>10 DEF HoldTold
<1> QED BY <1>8, <1>11 DEF new, seen, left

LEMMA ReportKeeps ==
  ASSUME CallFacts, NEW c \in Call, NEW output \in Outputs, Report(c, output)
  PROVE  CallFacts'
<1> DEFINE r == call[c]
           seen == IF r.output = Null \/ output > r.output THEN output ELSE r.output
           left == Reconciled(r, output)
           new == [r EXCEPT !.output = seen, !.remaining = left,
                            !.held = left + Margin + Overrun(r, seen)]
<1>1. /\ call \in [Call -> Calls] /\ queue \in Seq(Call) /\ granted \in Seq(Call)
      /\ Lists(queue, call, "queued") /\ Lists(granted, call, "granted")
      /\ UNCHANGED <<limits, revision, closed, drain, granted, queue>>
      /\ r.stage \in {"running", "detached"}
  BY DEF Report, CallFacts, PoolTypes, QueuesTold
<1>2. Welcome(r)
  BY EveryoneIsWelcome
<1>3. new \in Calls /\ HoldTold(new) /\ new.stage = r.stage
  BY <1>1, <1>2, ReportHolds DEF Welcome
<1>4. Welcome(new)
  BY <1>2, <1>3 DEF Welcome
<1>5. call' = [call EXCEPT ![c] = new]
  <2>1. ASSUME NEW x, NEW y, NEW z
        PROVE  [call EXCEPT ![c].output = x, ![c].remaining = y, ![c].held = z]
                 = [call EXCEPT ![c] = [call[c] EXCEPT !.output = x, !.remaining = y,
                                                       !.held = z]]
    BY <1>1
  <2> QED BY <2>1 DEF Report
<1> HIDE DEF new
<1> QED BY <1>1, <1>4, <1>5, ListsUndisturbed, OneCallKeeps

(* A slot that is returned before its call has ended: the deadline.        *)
LEMMA DeadlineKeeps ==
  ASSUME CallFacts, NEW c \in Call, Deadline(c)
  PROVE  CallFacts'
<1> DEFINE new == [call[c] EXCEPT !.stage = "detached"]
           calls == [call EXCEPT ![c] = new]
<1>1. /\ call \in [Call -> Calls] /\ queue \in Seq(Call) /\ granted \in Seq(Call)
      /\ Lists(queue, call, "queued") /\ Lists(granted, call, "granted")
      /\ limits \in AllLimits /\ revision \in Nat /\ (drain # "none" => closed)
      /\ UNCHANGED <<limits, revision, closed, drain>> /\ call[c].stage = "running"
  BY DEF Deadline, CallFacts, PoolTypes, QueuesTold, ClosedTold
<1>2. \A d \in Call : Welcome(call[d])
  BY EveryoneIsWelcome
<1>3. Welcome(new)
  <2>1. call[c] \in Calls /\ Welcome(call[c])
    BY <1>1, <1>2
  <2>2. new \in Calls /\ new.stage = "detached" /\ new.size = call[c].size
        /\ new.output = call[c].output /\ new.remaining = call[c].remaining
        /\ new.held = call[c].held
    BY <2>1 DEF Calls, Stages
  <2> HIDE DEF new
  <2> QED BY <1>1, <2>1, <2>2 DEF Welcome, HoldTold, Pooled, Overrun, Candidate0
<1> HIDE DEF new
<1>4. calls \in [Call -> Calls] /\ \A d \in Call : Welcome(calls[d])
  BY <1>1, <1>2, <1>3 DEF Welcome
<1>5. Lists(queue, calls, "queued") /\ Lists(granted, calls, "granted")
  BY <1>1, ListsUndisturbed
<1>6. InFlight - 1 \in Int /\ limits.max \in Int
  BY <1>1, InFlightType, MaxType
<1>7. [call EXCEPT ![c].stage = "detached"] = calls
  BY <1>1 DEF new
<1> HIDE DEF calls
<1>8. Proceed(calls, queue, granted, InFlight - 1, limits.max)
  BY <1>7 DEF Deadline
<1> QED BY <1>1, <1>4, <1>5, <1>6, <1>8, ProceedWelcomes

LEMMA SettleKeeps ==
  ASSUME CallFacts, NEW c \in Call, Settle(c)
  PROVE  CallFacts'
<1> DEFINE calls == [call EXCEPT ![c] = Outside("ended")]
           used == IF HasSlot(c) THEN InFlight - 1 ELSE InFlight
<1>1. /\ call \in [Call -> Calls] /\ queue \in Seq(Call) /\ granted \in Seq(Call)
      /\ Lists(queue, call, "queued") /\ Lists(granted, call, "granted")
      /\ limits \in AllLimits /\ revision \in Nat /\ (drain # "none" => closed)
      /\ UNCHANGED <<limits, revision, closed, drain>>
      /\ call[c].stage \in {"running", "detached", "bypassed"}
  BY DEF Settle, CallFacts, PoolTypes, QueuesTold, ClosedTold
<1>2. \A d \in Call : Welcome(call[d])
  BY EveryoneIsWelcome
<1>3. Welcome(Outside("ended"))
  BY OutsideIsWelcome
<1>4. calls \in [Call -> Calls] /\ \A d \in Call : Welcome(calls[d])
  BY <1>1, <1>2, <1>3 DEF Welcome
<1>5. Lists(queue, calls, "queued") /\ Lists(granted, calls, "granted")
  BY <1>1, ListsUndisturbed
<1>6. used \in Int /\ limits.max \in Int
  BY <1>1, InFlightType, MaxType
<1> HIDE DEF calls, used
<1>7. Proceed(calls, queue, granted, used, limits.max)
  BY DEF Settle, calls, used
<1> QED BY <1>1, <1>4, <1>5, <1>6, <1>7, ProceedWelcomes

LEMMA ApplyLimitsKeeps ==
  ASSUME CallFacts, NEW next \in Offers, NEW g, ApplyLimits(next, g)
  PROVE  CallFacts'
<1>1. /\ call \in [Call -> Calls] /\ queue \in Seq(Call) /\ granted \in Seq(Call)
      /\ Lists(queue, call, "queued") /\ Lists(granted, call, "granted")
      /\ revision \in Nat /\ (drain # "none" => closed)
      /\ UNCHANGED <<closed, drain>> /\ limits' = next /\ revision' = revision + 1
      /\ Proceed(call, queue, granted, InFlight, next.max)
  BY DEF ApplyLimits, CallFacts, PoolTypes, QueuesTold, ClosedTold
<1>2. limits' \in AllLimits /\ revision' \in Nat
  BY <1>1 DEF AllLimits
<1>3. InFlight \in Int /\ next.max \in Int
  BY InFlightType, LimitsAssumption
<1> QED BY <1>1, <1>2, <1>3, EveryoneIsWelcome, ProceedWelcomes

LEMMA DrainKeeps ==
  ASSUME CallFacts, Drain
  PROVE  CallFacts'
<1>1. /\ call \in [Call -> Calls] /\ granted = <<>>
      /\ UNCHANGED <<limits, revision, granted>> /\ closed' = TRUE
      /\ drain' = "waiting" /\ queue' = <<>>
      /\ call' = [c \in Call |-> IF call[c].stage = "queued" THEN Outside("ended")
                                 ELSE call[c]]
  BY DEF Drain, Turn, CallFacts, PoolTypes
<1>2. /\ Outside("ended") \in Calls /\ HoldTold(Outside("ended"))
      /\ Outside("ended").stage = "ended"
  BY OutsideIsWelcome DEF Welcome, Outside, Fresh
<1>3. \A c \in Call : /\ call'[c] \in Calls /\ HoldTold(call'[c])
                      /\ call'[c].stage # "queued"
  BY <1>1, <1>2 DEF CallFacts, HoldsTold
<1>4. PoolTypes'
  BY <1>1, <1>2, EmptySeq DEF CallFacts, PoolTypes
<1>5. QueuesTold'
  BY <1>1, EmptySeq DEF QueuesTold, Lists
<1>6. ClosedTold' /\ HoldsTold' /\ DrainedIsQuiet'
  BY <1>1, <1>3 DEF ClosedTold, HoldsTold, DrainedIsQuiet
<1> QED BY <1>4, <1>5, <1>6 DEF CallFacts

LEMMA DrainEndsKeeps ==
  ASSUME CallFacts, DrainEnds
  PROVE  CallFacts'
<1>1. /\ UNCHANGED <<limits, revision, closed, call, queue, granted>> /\ drain = "waiting"
      /\ drain' = "drained" => \A c \in Call : Settled(c)
  BY DEF DrainEnds
<1> QED BY <1>1 DEF CallFacts, PoolTypes, QueuesTold, ClosedTold, HoldsTold,
                    DrainedIsQuiet, Settled

LEMMA InitCalls == Init => CallFacts
<1> SUFFICES ASSUME Init PROVE CallFacts
  OBVIOUS
<1>1. PoolTypes
  BY EmptySeq DEF Init, PoolTypes, Fresh, Calls, Stages, AllLimits
<1>2. QueuesTold /\ ClosedTold /\ HoldsTold /\ DrainedIsQuiet
  BY EmptySeq DEF Init, QueuesTold, Lists, ClosedTold, HoldsTold, HoldTold, Fresh,
                  Pooled, DrainedIsQuiet
<1> QED BY <1>1, <1>2 DEF CallFacts

LEMMA NextCalls == CallFacts /\ [Next]_vars => CallFacts'
<1> SUFFICES ASSUME CallFacts, [Next]_vars PROVE CallFacts'
  OBVIOUS
<1>1. ASSUME NEW c \in Call, NEW k \in Class \cup {Null}, NEW p \in {"normal", "high"},
             NEW s \in Sizes, Submit(c, k, p, s)
      PROVE  CallFacts'
  BY <1>1, SubmitKeeps
<1>2. ASSUME NEW c \in Call, LeaveQueue(c) PROVE CallFacts'
  BY <1>2, LeaveQueueKeeps
<1>3. ASSUME NEW c \in Call, NEW o \in Outputs, Report(c, o) PROVE CallFacts'
  BY <1>3, ReportKeeps
<1>4. ASSUME NEW c \in Call, Deadline(c) PROVE CallFacts'
  BY <1>4, DeadlineKeeps
<1>5. ASSUME NEW c \in Call, Settle(c) PROVE CallFacts'
  BY <1>5, SettleKeeps
<1>6. CASE Postcheck
  BY <1>6, PostcheckKeeps
<1>7. ASSUME NEW next \in Offers, NEW g, ApplyLimits(next, g) PROVE CallFacts'
  BY <1>7, ApplyLimitsKeeps
<1>8. CASE Drain
  BY <1>8, DrainKeeps
<1>9. CASE DrainEnds
  BY <1>9, DrainEndsKeeps
<1>10. CASE UNCHANGED vars
  BY <1>10 DEF vars, CallFacts, PoolTypes, QueuesTold, ClosedTold, HoldsTold,
               DrainedIsQuiet, Settled
<1> QED BY <1>1, <1>2, <1>3, <1>4, <1>5, <1>6, <1>7, <1>8, <1>9, <1>10 DEF Next

LEMMA CallInvariant == Spec => []CallFacts
  BY InitCalls, NextCalls, PTL DEF Spec

(* pools.ts, drain(): "drained" is only said of a pool that neither grants *)
(* nor accounts for a call, detached ones included, nor ever will again.   *)
THEOREM DrainedStaysQuiet == Spec => []DrainedIsQuiet
  BY CallInvariant, PTL DEF CallFacts

(* createProgressiveUsageReconciler: in whatever order reports come, what  *)
(* a call holds covers what it may still produce, and never a step more.   *)
THEOREM HoldsFitFuture == Spec => []HoldFitsFuture
<1>1. CallFacts => HoldFitsFuture
  <2> SUFFICES ASSUME CallFacts, NEW c \in Call,
                      call[c].stage \in {"running", "detached"}, call[c].output # Null
               PROVE  LET r == call[c]
                          due == NonNegative(r.size.output - r.output - Margin) + Margin
                                   + Overrun(r, r.output)
                      IN r.held >= due /\ r.held < due + Step
    BY DEF HoldFitsFuture
  <2> DEFINE r == call[c]
  <2>1. r \in Calls /\ HoldTold(r) /\ r.size \in Sizes
    BY DEF CallFacts, PoolTypes, HoldsTold, HoldTold, Pooled
  <2>2. r.output \in Nat /\ r.remaining \in Nat /\ r.size.output \in Nat
        /\ Margin \in Nat /\ Step \in Nat
    BY <2>1, PoolAssumption DEF Calls, HoldTold, Pooled
  <2>3. Candidate0(r, r.output) \in Nat /\ Overrun(r, r.output) \in Nat
    BY <2>2 DEF Candidate0, Overrun, NonNegative
  <2>4. /\ r.held = r.remaining + Margin + Overrun(r, r.output)
        /\ r.remaining >= Candidate0(r, r.output)
        /\ r.remaining < Candidate0(r, r.output) + Step
    BY <2>1 DEF HoldTold
  <2>5. Candidate0(r, r.output) = NonNegative(r.size.output - r.output - Margin)
    BY DEF Candidate0
  <2> HIDE DEF r
  <2>6. LET due == NonNegative(r.size.output - r.output - Margin) + Margin
                     + Overrun(r, r.output)
        IN r.held >= due /\ r.held < due + Step
    BY <2>2, <2>3, <2>4, <2>5
  <2> QED BY <2>6 DEF r
<1> QED BY <1>1, CallInvariant, PTL

---------------------------------------------------------------------------
(* Evidence.                                                               *)

EvidenceFacts == GrantTold /\ EvidenceTold /\ EvidenceTruthful

Retainable == [revision: Nat, grant: Nat \cup {Null}]

(* provenanceByRevision: the grant of the revision in force.               *)
LEMMA GrantOfRevision ==
  ASSUME GrantTold
  PROVE  GrantRetained(revision) = issued[revision].grant
<1>1. DOMAIN retained = 1 .. Len(retained)
  BY LenProperties DEF GrantTold
<1>2. CASE \E i \in DOMAIN retained : retained[i].revision = revision
  <2>1. PICK i \in DOMAIN retained :
          /\ retained[i].revision = revision
          /\ i = CHOOSE j \in DOMAIN retained : retained[j].revision = revision
    BY <1>2
  <2>2. GrantRetained(revision) = retained[i].grant
    BY <1>2, <2>1 DEF GrantRetained
  <2> QED BY <1>1, <2>1, <2>2 DEF GrantTold
<1>3. CASE ~ \E i \in DOMAIN retained : retained[i].revision = revision
  BY <1>1, <1>3 DEF GrantTold, GrantRetained
<1> QED BY <1>2, <1>3

(* What is appended to a bounded list is kept; what is lost is the oldest. *)
LEMMA BoundedAppend ==
  ASSUME NEW S, NEW s \in Seq(S), NEW e \in S, NEW bound \in Nat \ {0},
         NEW kept, kept = IF Len(Append(s, e)) > bound THEN Tail(Append(s, e))
                          ELSE Append(s, e)
  PROVE  \E lost \in {0, 1} :
           /\ (lost = 1) <=> Len(Append(s, e)) > bound
           /\ kept \in Seq(S) /\ Len(kept) = Len(s) + 1 - lost /\ Len(kept) >= 1
           /\ \A i \in 1 .. Len(kept) - 1 :
                kept[i] = s[i + lost] /\ i + lost \in 1 .. Len(s)
           /\ kept[Len(kept)] = e
<1> DEFINE all == Append(s, e)
<1>1. /\ all \in Seq(S) /\ all # <<>> /\ Len(all) = Len(s) + 1
      /\ \A i \in 1 .. Len(s) : all[i] = s[i]
      /\ all[Len(s) + 1] = e
  BY AppendProperties
<1>2. Len(s) \in Nat
  BY LenProperties
<1> HIDE DEF all
<1>3. CASE Len(all) > bound
  <2>1. /\ Tail(all) \in Seq(S) /\ Len(Tail(all)) = Len(all) - 1
        /\ \A i \in 1 .. Len(Tail(all)) : Tail(all)[i] = all[i + 1]
    BY <1>1, HeadTailProperties
  <2>2. kept = Tail(all)
    BY <1>3 DEF all
  <2>3. Len(s) >= 1
    BY <1>1, <1>2, <1>3
  <2>4. /\ kept \in Seq(S) /\ Len(kept) = Len(s) + 1 - 1 /\ Len(kept) >= 1
        /\ \A i \in 1 .. Len(kept) - 1 : kept[i] = s[i + 1] /\ i + 1 \in 1 .. Len(s)
        /\ kept[Len(kept)] = e
    BY <1>1, <1>2, <2>1, <2>2, <2>3
  <2> QED BY <1>3, <2>4 DEF all
<1>4. CASE ~ (Len(all) > bound)
  <2>1. kept = all
    BY <1>4 DEF all
  <2>2. /\ kept \in Seq(S) /\ Len(kept) = Len(s) + 1 - 0 /\ Len(kept) >= 1
        /\ \A i \in 1 .. Len(kept) - 1 : kept[i] = s[i + 0] /\ i + 0 \in 1 .. Len(s)
        /\ kept[Len(kept)] = e
    BY <1>1, <1>2, <2>1
  <2> QED BY <1>4, <2>2 DEF all
<1> QED BY <1>3, <1>4

(* One more record: of the revision in force, with its limits and grant.   *)
LEMMA RecordKeeps ==
  ASSUME EvidenceFacts, limits \in AllLimits, revision \in Nat,
         UNCHANGED <<limits, revision, retained>>, RecordAdmission
  PROVE  EvidenceFacts'
<1> DEFINE e == [sequence |-> evidence.next, revision |-> revision,
                 limits |-> limits, grant |-> GrantRetained(revision)]
           all == Append(evidence.events, e)
           full == Len(all) > MaxEvents
           kept == IF full THEN Tail(all) ELSE all
           asked == {x.revision : x \in Range(kept)}
<1>1. /\ evidence' = [events |-> kept, next |-> evidence.next + 1,
                      dropped |-> IF full THEN evidence.dropped + 1 ELSE evidence.dropped]
      /\ issued' = [r \in (asked \cap DOMAIN issued) \cup {revision} |->
                      IF r \in {revision} THEN issued[revision] ELSE issued[r]]
  BY DEF RecordAdmission, Remember
<1>2. /\ evidence \in [events: Seq(Records), next: Nat, dropped: Nat]
      /\ Len(evidence.events) \in Nat
  BY LenProperties DEF EvidenceFacts, EvidenceTold
<1>3. e.grant = issued[revision].grant /\ e.limits = issued[revision].limits
      /\ e \in Records
  BY <1>2, GrantOfRevision DEF EvidenceFacts, GrantTold, Records
<1>4. e.sequence = evidence.next /\ e.revision = revision
  OBVIOUS
<1> HIDE DEF e
<1>5. PICK lost \in {0, 1} :
        /\ (lost = 1) <=> full
        /\ kept \in Seq(Records) /\ Len(kept) = Len(evidence.events) + 1 - lost
        /\ Len(kept) >= 1
        /\ \A i \in 1 .. Len(kept) - 1 :
             kept[i] = evidence.events[i + lost] /\ i + lost \in 1 .. Len(evidence.events)
        /\ kept[Len(kept)] = e
  BY <1>2, <1>3, PoolAssumption, BoundedAppend
<1> HIDE DEF all, full, kept
<1>6. \A i \in 1 .. Len(kept) :
        /\ kept[i].revision \in 0 .. revision /\ kept[i].revision \in DOMAIN issued
        /\ kept[i].limits = issued[kept[i].revision].limits
        /\ kept[i].grant = issued[kept[i].revision].grant
        /\ kept[i].sequence = evidence.dropped + lost + i
  <2>1. \A i \in 1 .. Len(evidence.events) :
          LET x == evidence.events[i] IN
          /\ x.revision \in 0 .. revision /\ x.revision \in DOMAIN issued
          /\ x.limits = issued[x.revision].limits /\ x.grant = issued[x.revision].grant
          /\ x.sequence = evidence.dropped + i
    BY <1>2, LenProperties DEF EvidenceFacts, EvidenceTold, EvidenceTruthful
  <2>2. evidence.next = evidence.dropped + Len(evidence.events) + 1
    BY DEF EvidenceFacts, EvidenceTruthful
  <2>3. revision \in DOMAIN issued
    BY DEF EvidenceFacts, GrantTold
  <2>4. Len(kept) \in Nat /\ evidence.dropped \in Nat
    BY <1>2, <1>5
  <2>5. ASSUME NEW i \in 1 .. Len(kept), i # Len(kept)
        PROVE  /\ kept[i].revision \in 0 .. revision /\ kept[i].revision \in DOMAIN issued
               /\ kept[i].limits = issued[kept[i].revision].limits
               /\ kept[i].grant = issued[kept[i].revision].grant
               /\ kept[i].sequence = evidence.dropped + lost + i
    <3>1. kept[i] = evidence.events[i + lost] /\ i + lost \in 1 .. Len(evidence.events)
      BY <1>5, <2>4, <2>5
    <3>2. evidence.dropped + (i + lost) = evidence.dropped + lost + i
      BY <2>4
    <3> QED BY <2>1, <3>1, <3>2
  <2>6. /\ e.revision \in 0 .. revision /\ e.revision \in DOMAIN issued
        /\ e.limits = issued[e.revision].limits /\ e.grant = issued[e.revision].grant
        /\ e.sequence = evidence.dropped + lost + Len(kept)
    BY <1>2, <1>3, <1>4, <1>5, <2>2, <2>3
  <2> QED BY <1>5, <2>5, <2>6
<1>7. \A i \in 1 .. Len(kept) : kept[i].revision \in asked
  BY <1>5, LenProperties DEF Range
<1>8. /\ revision \in DOMAIN issued'
      /\ \A x \in DOMAIN issued' : x \in DOMAIN issued /\ issued'[x] = issued[x]
      /\ \A i \in 1 .. Len(kept) : kept[i].revision \in DOMAIN issued'
  <2>1. revision \in DOMAIN issued
    BY DEF EvidenceFacts, GrantTold
  <2> HIDE DEF asked
  <2> QED BY <1>1, <1>6, <1>7, <2>1
<1>9. /\ evidence'.events = kept /\ evidence'.next = evidence.next + 1
      /\ evidence'.dropped = evidence.dropped + lost
      /\ evidence' \in [events: Seq(Records), next: Nat, dropped: Nat]
  BY <1>1, <1>2, <1>5
<1>10. GrantTold'
  <2>1. issued' \in [DOMAIN issued' -> [limits: AllLimits, grant: Nat \cup {Null}]]
    <3>1. issued' = [x \in DOMAIN issued' |-> issued'[x]]
      BY <1>1
    <3> QED BY <1>8, <3>1 DEF EvidenceFacts, GrantTold
  <2> QED BY <1>8, <2>1 DEF EvidenceFacts, GrantTold
<1>11. EvidenceTold'
  BY <1>6, <1>8, <1>9 DEF EvidenceTold
<1>12. EvidenceTruthful'
  <2>1. DOMAIN kept = 1 .. Len(kept)
    BY <1>5, LenProperties
  <2>2. evidence.next = evidence.dropped + Len(evidence.events) + 1
    BY DEF EvidenceFacts, EvidenceTruthful
  <2>3. evidence'.next = evidence'.dropped + Len(evidence'.events) + 1
    BY <1>2, <1>5, <1>9, <2>2
  <2> QED BY <1>6, <1>8, <1>9, <2>1, <2>3 DEF EvidenceTruthful
<1> QED BY <1>10, <1>11, <1>12 DEF EvidenceFacts

(* A new revision is written into the history and, with a grant, retained. *)
LEMMA RevisionKeeps ==
  ASSUME EvidenceFacts, revision \in Nat, NEW next \in Offers,
         NEW g \in {Null, revision + 1}, ApplyLimits(next, g)
  PROVE  EvidenceFacts'
<1> DEFINE r == revision + 1
           new == [limits |-> next, grant |-> g]
           asked == {x.revision : x \in Range(evidence.events)}
           entry == [revision |-> r, grant |-> g]
           all == Append(retained, entry)
           kept == IF Len(all) > MaxRetained THEN Tail(all) ELSE all
<1>1. /\ revision' = r /\ limits' = next /\ UNCHANGED evidence
      /\ retained' = IF g = Null THEN retained ELSE kept
      /\ issued' = [x \in (asked \cap DOMAIN issued) \cup {r} |->
                      IF x \in {r} THEN [y \in {r} |-> new][x] ELSE issued[x]]
  BY DEF ApplyLimits, Retain, Remember
<1>2. /\ retained \in Seq(Retainable) /\ Len(retained) \in Nat
      /\ \A i \in 1 .. Len(retained) : retained[i] \in Retainable
                                       /\ retained[i].revision <= revision
  BY LenProperties, ElementOfSeq DEF EvidenceFacts, GrantTold, Retainable
<1>3. /\ evidence \in [events: Seq(Records), next: Nat, dropped: Nat]
      /\ Len(evidence.events) \in Nat /\ DOMAIN evidence.events = 1 .. Len(evidence.events)
      /\ \A i \in 1 .. Len(evidence.events) :
           /\ evidence.events[i].revision \in 0 .. revision
           /\ evidence.events[i].revision \in DOMAIN issued
           /\ evidence.events[i].revision \in asked
  BY LenProperties DEF EvidenceFacts, EvidenceTold, Range
<1>4. entry \in Retainable /\ new \in [limits: AllLimits, grant: Nat \cup {Null}]
      /\ entry.revision = r /\ entry.grant = g /\ r \in Nat /\ r > revision
      /\ new.limits = next /\ new.grant = g
  BY DEF Retainable, AllLimits
<1> HIDE DEF asked, entry, new
<1>5. /\ DOMAIN issued' = (asked \cap DOMAIN issued) \cup {r}
      /\ issued'[r] = new
      /\ \A x \in DOMAIN issued' : x # r => x \in DOMAIN issued /\ issued'[x] = issued[x]
  BY <1>1
<1>6. \E lost \in {0, 1} :
        /\ kept \in Seq(Retainable) /\ Len(kept) = Len(retained) + 1 - lost
        /\ Len(kept) >= 1
        /\ \A i \in 1 .. Len(kept) - 1 :
             kept[i] = retained[i + lost] /\ i + lost \in 1 .. Len(retained)
        /\ kept[Len(kept)] = entry
  BY <1>2, <1>4, PoolAssumption, BoundedAppend
<1> HIDE DEF all, kept
<1>7. /\ retained' \in Seq(Retainable)
      /\ \A i \in 1 .. Len(retained') :
           /\ retained'[i].revision <= r
           /\ retained'[i].revision = r => retained'[i].grant = g
      /\ g # Null => \E i \in 1 .. Len(retained') : retained'[i].revision = r
  <2>1. CASE g = Null
    <3>1. retained' = retained
      BY <1>1, <2>1
    <3>2. \A i \in 1 .. Len(retained) : retained[i].revision \in Nat
                                        /\ retained[i].revision <= revision
      BY <1>2 DEF Retainable
    <3> QED BY <1>2, <1>4, <2>1, <3>1, <3>2
  <2>2. CASE g # Null
    <3>1. retained' = kept
      BY <1>1, <2>2
    <3>2. PICK lost \in {0, 1} :
            /\ kept \in Seq(Retainable) /\ Len(kept) = Len(retained) + 1 - lost
            /\ Len(kept) >= 1
            /\ \A i \in 1 .. Len(kept) - 1 :
                 kept[i] = retained[i + lost] /\ i + lost \in 1 .. Len(retained)
            /\ kept[Len(kept)] = entry
      BY <1>6
    <3>3. Len(kept) \in Nat
      BY <1>2, <3>2
    <3>4. ASSUME NEW i \in 1 .. Len(kept), i # Len(kept)
          PROVE  kept[i].revision \in Nat /\ kept[i].revision <= revision
      <4>1. kept[i] = retained[i + lost] /\ i + lost \in 1 .. Len(retained)
        BY <3>2, <3>3, <3>4
      <4> QED BY <1>2, <4>1 DEF Retainable
    <3>5. \A i \in 1 .. Len(kept) : /\ kept[i].revision <= r
                                    /\ kept[i].revision = r => kept[i].grant = g
      <4> SUFFICES ASSUME NEW i \in 1 .. Len(kept)
                   PROVE  /\ kept[i].revision <= r
                          /\ kept[i].revision = r => kept[i].grant = g
        OBVIOUS
      <4>1. CASE i = Len(kept)
        BY <1>4, <3>2, <4>1
      <4>2. CASE i # Len(kept)
        BY <1>4, <3>4, <4>2
      <4> QED BY <4>1, <4>2
    <3>6. Len(kept) \in 1 .. Len(kept) /\ kept[Len(kept)].revision = r
      BY <1>4, <3>2, <3>3
    <3> QED BY <3>1, <3>2, <3>5, <3>6
  <2> QED BY <2>1, <2>2
<1>8. GrantTold'
  <2>1. issued' \in [DOMAIN issued' -> [limits: AllLimits, grant: Nat \cup {Null}]]
    <3>1. issued' = [x \in DOMAIN issued' |-> issued'[x]]
      BY <1>1
    <3>2. \A x \in DOMAIN issued' : issued'[x] \in [limits: AllLimits, grant: Nat \cup {Null}]
      BY <1>4, <1>5 DEF EvidenceFacts, GrantTold
    <3> HIDE DEF r
    <3> QED BY <3>1, <3>2
  <2> HIDE DEF r
  <2> QED BY <1>1, <1>4, <1>5, <1>7, <2>1 DEF GrantTold, Retainable
<1>9. \A i \in 1 .. Len(evidence.events) :
        LET x == evidence.events[i].revision IN
        /\ x \in 0 .. r /\ x \in DOMAIN issued' /\ issued'[x] = issued[x]
  BY <1>3, <1>4, <1>5
<1>10. EvidenceTold'
  <2> HIDE DEF r
  <2> QED BY <1>1, <1>3, <1>9 DEF EvidenceTold
<1>11. EvidenceTruthful'
  BY <1>1, <1>3, <1>9 DEF EvidenceFacts, EvidenceTruthful
<1> QED BY <1>8, <1>10, <1>11 DEF EvidenceFacts

LEMMA EvidenceUndisturbed ==
  ASSUME EvidenceFacts, UNCHANGED <<limits, revision, retained, evidence, issued>>
  PROVE  EvidenceFacts'
BY DEF EvidenceFacts, GrantTold, EvidenceTold, EvidenceTruthful

LEMMA InitEvidence == Init => EvidenceFacts
<1> SUFFICES ASSUME Init PROVE EvidenceFacts
  OBVIOUS
<1>1. /\ limits \in AllLimits /\ revision = 0 /\ retained = <<>>
      /\ evidence = [events |-> <<>>, next |-> 1, dropped |-> 0]
      /\ issued = [r \in {0} |-> [limits |-> limits, grant |-> Null]]
  BY DEF Init, AllLimits
<1>2. /\ DOMAIN issued = {0} /\ issued[0] = [limits |-> limits, grant |-> Null]
      /\ issued \in [{0} -> [limits: AllLimits, grant: Nat \cup {Null}]]
  BY <1>1
<1>3. GrantTold
  BY <1>1, <1>2, EmptySeq DEF GrantTold
<1>4. EvidenceTold /\ EvidenceTruthful
  BY <1>1, EmptySeq DEF EvidenceTold, EvidenceTruthful
<1> QED BY <1>3, <1>4 DEF EvidenceFacts

LEMMA NextEvidence == CallFacts /\ EvidenceFacts /\ [Next]_vars => EvidenceFacts'
<1> SUFFICES ASSUME CallFacts, EvidenceFacts, [Next]_vars PROVE EvidenceFacts'
  OBVIOUS
<1>1. limits \in AllLimits /\ revision \in Nat
  BY DEF CallFacts, PoolTypes
<1>2. ASSUME NEW c \in Call, NEW k \in Class \cup {Null}, NEW p \in {"normal", "high"},
             NEW s \in Sizes, Submit(c, k, p, s)
      PROVE  EvidenceFacts'
  BY <1>2, EvidenceUndisturbed DEF Submit
<1>3. ASSUME NEW c \in Call, LeaveQueue(c) PROVE EvidenceFacts'
  BY <1>3, EvidenceUndisturbed DEF LeaveQueue
<1>4. ASSUME NEW c \in Call, NEW o \in Outputs, Report(c, o) PROVE EvidenceFacts'
  BY <1>4, EvidenceUndisturbed DEF Report
<1>5. ASSUME NEW c \in Call, Deadline(c) PROVE EvidenceFacts'
  BY <1>5, EvidenceUndisturbed DEF Deadline
<1>6. ASSUME NEW c \in Call, Settle(c) PROVE EvidenceFacts'
  BY <1>6, EvidenceUndisturbed DEF Settle
<1>7. CASE Postcheck
  <2>1. /\ UNCHANGED <<limits, revision, retained>>
        /\ RecordAdmission \/ UNCHANGED <<evidence, issued>>
    BY <1>7 DEF Postcheck
  <2> QED BY <1>1, <2>1, RecordKeeps, EvidenceUndisturbed
<1>8. ASSUME NEW next \in Offers, NEW g \in {Null, revision + 1}, ApplyLimits(next, g)
      PROVE  EvidenceFacts'
  BY <1>1, <1>8, RevisionKeeps
<1>9. CASE Drain
  BY <1>9, EvidenceUndisturbed DEF Drain
<1>10. CASE DrainEnds
  BY <1>10, EvidenceUndisturbed DEF DrainEnds
<1>11. CASE UNCHANGED vars
  BY <1>11, EvidenceUndisturbed DEF vars
<1> QED BY <1>2, <1>3, <1>4, <1>5, <1>6, <1>7, <1>8, <1>9, <1>10, <1>11 DEF Next

(* admissionProvenanceEvents: however limits and grants change, and however*)
(* many records and revisions were dropped, each record names the limits   *)
(* and the grant of its admission, and no record is lost uncounted.        *)
THEOREM EvidenceIsTruthful == Spec => []EvidenceTruthful
<1>1. Init => CallFacts /\ EvidenceFacts
  BY InitCalls, InitEvidence
<1>2. CallFacts /\ EvidenceFacts /\ [Next]_vars => (CallFacts /\ EvidenceFacts)'
  BY NextCalls, NextEvidence
<1>3. EvidenceFacts => EvidenceTruthful
  BY DEF EvidenceFacts
<1> QED BY <1>1, <1>2, <1>3, PTL DEF Spec


---------------------------------------------------------------------------
(* The statistics and the snapshot that is published of them.              *)

LEMMA LimitsTyped ==
  ASSUME limits \in AllLimits
  PROVE  /\ limits.max \in Nat /\ limits.queue \in Nat /\ limits.reserve \in Nat
         /\ limits.budget \in Nat \cup {Null}
         /\ Classes \in SUBSET Class /\ IsFiniteSet(Classes)
         /\ DOMAIN limits.tokens = Classes
         /\ \A k \in Classes :
              /\ limits.slots[k] \in [floor: Nat, ceiling: Nat \cup {Null}]
              /\ limits.tokens[k] \in [floor: Nat, ceiling: Nat \cup {Null}]
<1>1. Classes \in SUBSET Class
  BY LimitsAssumption DEF AllLimits, Classes
<1>2. IsFiniteSet(Classes)
  BY <1>1, PoolAssumption, FS_Subset
<1> QED BY <1>1, <1>2, LimitsAssumption DEF AllLimits, Classes

LEMMA UseTyped ==
  ASSUME call \in [Call -> Calls]
  PROVE  /\ TokenUse \in Nat
         /\ \A k : SlotUseOf(k) \in Nat /\ TokenUseOf(k) \in Nat
<1>1. TokenUse \in Nat
  <2> DEFINE held == [c \in Call |-> call[c].held]
  <2>1. held \in [Call -> Nat]
    BY DEF Calls
  <2> HIDE DEF held
  <2>2. SumFunction(held) \in Nat
    BY <2>1, PoolAssumption, SumOfNats
  <2> QED BY <2>2 DEF held, TokenUse, Total
<1>2. ASSUME NEW k PROVE SlotUseOf(k) \in Nat
  <2>1. IsFiniteSet({c \in Call : call[c].stage = "running" /\ call[c].class = k})
    BY PoolAssumption, FS_Subset
  <2> QED BY <2>1, FS_CardinalityType DEF SlotUseOf
<1>3. ASSUME NEW k PROVE TokenUseOf(k) \in Nat
  <2> DEFINE held == [c \in Call |-> IF call[c].class = k THEN call[c].held ELSE 0]
  <2>1. held \in [Call -> Nat]
    BY DEF Calls
  <2> HIDE DEF held
  <2>2. SumFunction(held) \in Nat
    BY <2>1, PoolAssumption, SumOfNats
  <2> QED BY <2>2 DEF held, TokenUseOf, Total
<1> QED BY <1>1, <1>2, <1>3

(* poolCapacity(): a share of the statistics, published, is consistent.    *)
LEMMA ShareIsConsistent ==
  ASSUME NEW use \in Nat, NEW bound \in [floor: Nat, ceiling: Nat \cup {Null}],
         Bounded(bound.floor, bound.ceiling)
  PROVE  LET s == ShareOf(use, bound)
             p == PublishShare(s)
         IN /\ ShareConsistent(p)
            /\ s.use = use /\ s.floor = bound.floor /\ s.ceiling = bound.ceiling
            /\ s.floorUse = Smaller(use, bound.floor)
            /\ p.use = use /\ p.floor = bound.floor /\ p.floorUse = s.floorUse
            /\ p.ceiling = bound.ceiling
            /\ p.floorLeft = NonNegative(bound.floor - use)
            /\ p.left = IF bound.ceiling = Null THEN Null
                        ELSE NonNegative(bound.ceiling - use)
<1> DEFINE s == ShareOf(use, bound)
           p == PublishShare(s)
<1>1. /\ s.use = use /\ s.floor = bound.floor /\ s.ceiling = bound.ceiling
      /\ s.floorUse = Smaller(use, bound.floor)
      /\ s.borrowed = use - Smaller(use, bound.floor)
  BY DEF ShareOf
<1> HIDE DEF s
<1>2. /\ p.use = s.use /\ p.floor = s.floor /\ p.floorUse = s.floorUse
      /\ p.borrowed = s.borrowed /\ p.ceiling = s.ceiling
      /\ p.floorLeft = NonNegative(s.floor - s.use)
      /\ p.left = IF s.ceiling = Null THEN Null ELSE NonNegative(s.ceiling - s.use)
  BY DEF PublishShare
<1> HIDE DEF p
<1>3. bound.floor \in Nat /\ bound.ceiling \in Nat \cup {Null}
  OBVIOUS
<1>4. p.borrowed = NonNegative(p.use - p.floorUse)
  BY <1>1, <1>2, <1>3 DEF NonNegative, Smaller
<1>5. (p.ceiling = Null) <=> (p.left = Null)
  BY <1>1, <1>2, <1>3, NullAssumption DEF NonNegative
<1>6. p.ceiling # Null => p.left = NonNegative(p.ceiling - p.use) /\ p.floor <= p.ceiling
  BY <1>1, <1>2, <1>3 DEF Bounded
<1>7. ShareConsistent(p)
  BY <1>1, <1>2, <1>4, <1>5, <1>6 DEF ShareConsistent
<1> QED BY <1>1, <1>2, <1>7 DEF s, p

(* What the pool publishes: its budget, what lies outside the floors, and  *)
(* its classes.                                                            *)
ThePool == PoolCapacity(Stats)

TheBudget ==
  [budget |-> limits.budget, use |-> TokenUse,
   normal |-> NonNegative(limits.budget - TokenUse),
   high |-> NonNegative(limits.budget - TokenUse)]

TheShared ==
  [slots |-> SharedOf(limits.max, InFlight, SlotShares),
   tokens |-> IF limits.budget = Null THEN Null
              ELSE SharedOf(limits.budget, TokenUse, TokenShares)]

TheClasses ==
  [default |-> limits.default, shared |-> TheShared,
   of |-> [k \in Classes |-> [slots |-> PublishShare(SlotShare(k)),
                              tokens |-> PublishShare(TokenShare(k))]]]

LEMMA FloorSumsTyped ==
  ASSUME limits \in AllLimits, call \in [Call -> Calls]
  PROVE  /\ FloorSum(limits.slots) \in Nat /\ FloorSum(limits.tokens) \in Nat
         /\ FloorSum(SlotShares) = FloorSum(limits.slots)
         /\ FloorSum(TokenShares) = FloorSum(limits.tokens)
         /\ FloorUseSum(SlotShares) \in Nat /\ FloorUseSum(TokenShares) \in Nat
<1>1. /\ IsFiniteSet(Classes) /\ Classes = DOMAIN limits.slots
      /\ DOMAIN limits.tokens = Classes
      /\ \A k \in Classes : /\ limits.slots[k].floor \in Nat
                            /\ limits.tokens[k].floor \in Nat
                            /\ SlotUseOf(k) \in Nat /\ TokenUseOf(k) \in Nat
  BY LimitsTyped, UseTyped DEF Classes
<1>2. /\ DOMAIN SlotShares = Classes /\ DOMAIN TokenShares = Classes
      /\ \A k \in Classes :
           /\ SlotShares[k].floor = limits.slots[k].floor
           /\ TokenShares[k].floor = limits.tokens[k].floor
           /\ SlotShares[k].floorUse = Smaller(SlotUseOf(k), limits.slots[k].floor)
           /\ TokenShares[k].floorUse = Smaller(TokenUseOf(k), limits.tokens[k].floor)
  BY DEF SlotShares, TokenShares, SlotShare, TokenShare, ShareOf
<1> DEFINE floors(shares) == [k \in DOMAIN shares |-> shares[k].floor]
           uses(shares) == [k \in DOMAIN shares |-> shares[k].floorUse]
<1>3. /\ floors(SlotShares) = floors(limits.slots)
      /\ floors(TokenShares) = floors(limits.tokens)
  BY <1>1, <1>2
<1>4. floors(limits.slots) \in [Classes -> Nat] /\ floors(limits.tokens) \in [Classes -> Nat]
  BY <1>1
<1>5. uses(SlotShares) \in [Classes -> Nat] /\ uses(TokenShares) \in [Classes -> Nat]
  BY <1>1, <1>2 DEF Smaller
<1>6. /\ FloorSum(SlotShares) = SumFunction(floors(SlotShares))
      /\ FloorSum(TokenShares) = SumFunction(floors(TokenShares))
      /\ FloorSum(limits.slots) = SumFunction(floors(limits.slots))
      /\ FloorSum(limits.tokens) = SumFunction(floors(limits.tokens))
      /\ FloorUseSum(SlotShares) = SumFunction(uses(SlotShares))
      /\ FloorUseSum(TokenShares) = SumFunction(uses(TokenShares))
  BY DEF FloorSum, FloorUseSum
<1> HIDE DEF floors, uses
<1> QED BY <1>1, <1>3, <1>4, <1>5, <1>6, SumOfNats

LEMMA SharedTyped ==
  ASSUME NEW total \in Nat, NEW use \in Nat, NEW shares,
         FloorSum(shares) \in Nat, FloorUseSum(shares) \in Nat
  PROVE  SharedOf(total, use, shares) \in [max: Int, use: Int, available: Int]
BY DEF SharedOf, NonNegative

LEMMA Publishes ==
  ASSUME limits \in AllLimits, call \in [Call -> Calls], LimitsTold
  PROVE  /\ ThePool.mode = mode /\ ThePool.closed = closed
         /\ ThePool.max = limits.max /\ ThePool.inFlight = InFlight
         /\ ThePool.available = NonNegative(limits.max - InFlight)
         /\ ThePool.budget = IF limits.budget = Null THEN Null ELSE TheBudget
         /\ limits.budget # Null => TheBudget # Null
         /\ ThePool.classes = IF Classes = {} THEN Null ELSE TheClasses
         /\ Classes # {} => TheClasses # Null
         /\ limits.budget # Null => TheShared.tokens # Null
<1>1. /\ limits.max \in Nat /\ limits.budget \in Nat \cup {Null}
      /\ Classes \in SUBSET Class
      /\ \A k \in Classes :
           /\ limits.slots[k] \in [floor: Nat, ceiling: Nat \cup {Null}]
           /\ limits.tokens[k] \in [floor: Nat, ceiling: Nat \cup {Null}]
           /\ SlotUseOf(k) \in Nat /\ TokenUseOf(k) \in Nat
      /\ InFlight \in Nat /\ TokenUse \in Nat
  BY LimitsTyped, UseTyped, InFlightType
<1> DEFINE Part == [max: Int, use: Int, available: Int]
           Share == [use: Int, floor: Int, floorUse: Int, borrowed: Int,
                     ceiling: Int \cup {Null}]
           Both == [slots: Share, tokens: Share]
           pub == [use: Int, floor: Int, floorUse: Int, borrowed: Int,
                   floorLeft: Int, ceiling: Int \cup {Null}, left: Int \cup {Null}]
           Pub == [slots: pub, tokens: pub]
           raw == [k \in Classes |-> [slots |-> SlotShare(k), tokens |-> TokenShare(k)]]
           stats == [default |-> limits.default, shared |-> TheShared, of |-> raw]
<1>2. /\ TheShared.slots \in Part
      /\ limits.budget # Null => TheShared.tokens \in Part
      /\ TheShared \in [slots: Part, tokens: Part \cup {Null}]
  <2>1. SharedOf(limits.max, InFlight, SlotShares) \in Part
    BY <1>1, FloorSumsTyped, SharedTyped
  <2>2. limits.budget # Null => SharedOf(limits.budget, TokenUse, TokenShares) \in Part
    BY <1>1, FloorSumsTyped, SharedTyped
  <2> QED BY <2>1, <2>2 DEF TheShared
<1>3. \A k \in Classes : SlotShare(k) \in Share /\ TokenShare(k) \in Share
  BY <1>1 DEF SlotShare, TokenShare, ShareOf, Smaller
<1>4. \A s \in Share : PublishShare(s) \in pub
  BY DEF PublishShare, NonNegative
<1>5. raw \in [Classes -> Both] /\ TheClasses.of \in [Classes -> Pub]
  BY <1>3, <1>4 DEF TheClasses
<1>6. Classes # {} => limits.default \in Class
  BY <1>1 DEF LimitsTold
<1>7. Classes # {} => stats # Null /\ TheClasses # Null
  <2> DEFINE Of == [Classes -> Both] \cup [Classes -> Pub]
             All == [default: Class, shared: [slots: Part, tokens: Part \cup {Null}], of: Of]
  <2>1. Null \notin All
    BY <1>1, AbsenceAssumption
  <2> HIDE DEF Both, Pub, Part
  <2>2. Classes # {} => stats \in All
    BY <1>2, <1>5, <1>6
  <2>3. Classes # {} => TheClasses \in All
    BY <1>2, <1>5, <1>6 DEF TheClasses
  <2> HIDE DEF All, stats
  <2> QED BY <2>1, <2>2, <2>3
<1>8. limits.budget # Null => TheShared.tokens # Null
  <2>1. Null \notin Part
    BY AbsenceAssumption
  <2> QED BY <1>2, <2>1
<1>9. limits.budget # Null =>
        /\ Stats.budget # Null /\ TheBudget # Null
        /\ NonNegative(Stats.budget.available) = NonNegative(limits.budget - TokenUse)
  <2> SUFFICES ASSUME limits.budget # Null
               PROVE  /\ Stats.budget # Null /\ TheBudget # Null
                      /\ NonNegative(Stats.budget.available)
                           = NonNegative(limits.budget - TokenUse)
    OBVIOUS
  <2>1. limits.budget \in Nat
    BY <1>1
  <2>2. Stats.budget = [budget |-> limits.budget, use |-> TokenUse,
                        available |-> NonNegative(limits.budget - TokenUse)]
    BY DEF Stats
  <2>3. NonNegative(limits.budget - TokenUse) \in Nat
    BY <1>1, <2>1 DEF NonNegative
  <2>4. Stats.budget \in [budget: Int, use: Int, available: Int]
    BY <1>1, <2>1, <2>2, <2>3
  <2>5. TheBudget \in [budget: Int, use: Int, normal: Int, high: Int]
    BY <1>1, <2>1, <2>3 DEF TheBudget
  <2>6. NonNegative(Stats.budget.available) = NonNegative(limits.budget - TokenUse)
    BY <2>2, <2>3 DEF NonNegative
  <2> QED BY <2>4, <2>5, <2>6, AbsenceAssumption
<1>10. ThePool.budget = IF limits.budget = Null THEN Null ELSE TheBudget
  <2>1. CASE limits.budget = Null
    <3>1. Stats.budget = Null
      BY <2>1 DEF Stats
    <3> QED BY <2>1, <3>1 DEF ThePool, PoolCapacity
  <2>2. CASE limits.budget # Null
    <3>1. Stats.budget.budget = limits.budget /\ Stats.budget.use = TokenUse
      BY <2>2 DEF Stats
    <3>2. ThePool.budget =
            [budget |-> Stats.budget.budget, use |-> Stats.budget.use,
             normal |-> NonNegative(Stats.budget.available),
             high |-> NonNegative(Stats.budget.budget - Stats.budget.use)]
      BY <1>9, <2>2 DEF ThePool, PoolCapacity
    <3> QED BY <1>9, <2>2, <3>1, <3>2 DEF TheBudget
  <2> QED BY <2>1, <2>2
<1>11. ThePool.classes = IF Classes = {} THEN Null ELSE TheClasses
  <2>1. CASE Classes = {}
    <3>1. Stats.classes = Null
      BY <2>1 DEF Stats
    <3> QED BY <2>1, <3>1 DEF ThePool, PoolCapacity
  <2>2. CASE Classes # {}
    <3>1. Stats.classes = stats
      BY <2>2 DEF Stats, TheShared
    <3>2. /\ stats.default = limits.default /\ stats.shared = TheShared
          /\ stats.of = raw /\ DOMAIN raw = Classes
          /\ \A k \in Classes : raw[k].slots = SlotShare(k) /\ raw[k].tokens = TokenShare(k)
      OBVIOUS
    <3> HIDE DEF stats, raw
    <3>3. ThePool.classes =
            [default |-> stats.default, shared |-> stats.shared,
             of |-> [c \in DOMAIN stats.of |->
                       [slots |-> PublishShare(stats.of[c].slots),
                        tokens |-> PublishShare(stats.of[c].tokens)]]]
      BY <1>7, <2>2, <3>1 DEF ThePool, PoolCapacity
    <3>4. [c \in DOMAIN stats.of |->
             [slots |-> PublishShare(stats.of[c].slots),
              tokens |-> PublishShare(stats.of[c].tokens)]]
          = [k \in Classes |-> [slots |-> PublishShare(SlotShare(k)),
                                tokens |-> PublishShare(TokenShare(k))]]
      BY <3>2
    <3> QED BY <2>2, <3>2, <3>3, <3>4 DEF TheClasses
  <2> QED BY <2>1, <2>2
<1>12. /\ ThePool.mode = mode /\ ThePool.closed = closed
       /\ ThePool.max = limits.max /\ ThePool.inFlight = InFlight
       /\ ThePool.available = NonNegative(limits.max - InFlight)
  <2>1. /\ Stats.mode = mode /\ Stats.closed = closed /\ Stats.max = limits.max
        /\ Stats.inFlight = InFlight
    BY DEF Stats
  <2> QED BY <2>1 DEF ThePool, PoolCapacity
<1> QED BY <1>7, <1>8, <1>9, <1>10, <1>11, <1>12

LEMMA InitLimits == Init => LimitsTold
<1> SUFFICES ASSUME Init PROVE LimitsTold
  OBVIOUS
<1>1. PICK start \in Starts : Buildable(start) /\ limits = start.limits
  BY DEF Init
<1> QED BY <1>1 DEF LimitsTold, Buildable, Classes

LEMMA NextLimits == CallFacts /\ LimitsTold /\ [Next]_vars => LimitsTold'
<1> SUFFICES ASSUME LimitsTold, [Next]_vars PROVE LimitsTold'
  OBVIOUS
<1>1. ASSUME NEW next \in Offers, NEW g, ApplyLimits(next, g) PROVE LimitsTold'
  <2>1. /\ limits' = next /\ LimitsFit(next) /\ DOMAIN next.slots = DOMAIN limits.slots
    BY <1>1 DEF ApplyLimits, ValidLimits
  <2>2. DOMAIN next.slots # {} => next.default \in DOMAIN next.slots
    BY LimitsAssumption
  <2> QED BY <2>1, <2>2 DEF LimitsTold, Classes
<1>2. CASE UNCHANGED limits
  BY <1>2 DEF LimitsTold, LimitsFit, Classes
<1>3. ASSUME NEW c \in Call, NEW k, NEW p, NEW s, Submit(c, k, p, s) PROVE UNCHANGED limits
  BY <1>3 DEF Submit
<1>4. ASSUME NEW c \in Call, NEW o,
             LeaveQueue(c) \/ Report(c, o) \/ Deadline(c) \/ Settle(c)
      PROVE  UNCHANGED limits
  BY <1>4 DEF LeaveQueue, Report, Deadline, Settle
<1>5. ASSUME Postcheck \/ Drain \/ DrainEnds \/ UNCHANGED vars PROVE UNCHANGED limits
  BY <1>5 DEF Postcheck, Drain, DrainEnds, vars
<1> QED BY <1>1, <1>2, <1>3, <1>4, <1>5 DEF Next

LEMMA LimitsInvariant == Spec => [](CallFacts /\ LimitsTold)
<1>1. Init => CallFacts /\ LimitsTold
  BY InitCalls, InitLimits
<1>2. CallFacts /\ LimitsTold /\ [Next]_vars => (CallFacts /\ LimitsTold)'
  BY NextCalls, NextLimits
<1> QED BY <1>1, <1>2, PTL DEF Spec

(* Published shares are read as they are, and their floors add up.         *)
LEMMA ReadShares ==
  ASSUME limits \in AllLimits, call \in [Call -> Calls], LimitsTold, Classes # {}
  PROVE  LET of == ReadClasses(ThePool, 3) IN
         /\ DOMAIN of = Classes
         /\ \A k \in Classes : /\ of[k].slots = PublishShare(SlotShare(k))
                               /\ of[k].tokens = PublishShare(TokenShare(k))
         /\ FloorSum(SlotsOf(of)) = FloorSum(limits.slots)
         /\ FloorSum(TokensOf(of)) = FloorSum(limits.tokens)
         /\ FloorUseSum(SlotsOf(of)) = FloorUseSum(SlotShares)
         /\ FloorUseSum(TokensOf(of)) = FloorUseSum(TokenShares)
<1> DEFINE of == ReadClasses(ThePool, 3)
<1>1. /\ DOMAIN TheClasses.of = Classes
      /\ \A k \in Classes : /\ TheClasses.of[k].slots = PublishShare(SlotShare(k))
                            /\ TheClasses.of[k].tokens = PublishShare(TokenShare(k))
  BY DEF TheClasses
<1>2. ThePool.classes = TheClasses
  BY Publishes
<1>3. DOMAIN of = Classes
  BY <1>1, <1>2 DEF ReadClasses
<1>4. \A s : ReadShare(s, 3) = s
  BY DEF ReadShare
<1>5. \A k \in Classes : /\ of[k].slots = PublishShare(SlotShare(k))
                         /\ of[k].tokens = PublishShare(TokenShare(k))
  BY <1>1, <1>2, <1>4 DEF ReadClasses
<1> HIDE DEF of
<1>6. \A k \in Classes :
        /\ of[k].slots.floor = limits.slots[k].floor
        /\ of[k].tokens.floor = limits.tokens[k].floor
        /\ of[k].slots.floorUse = SlotShares[k].floorUse
        /\ of[k].tokens.floorUse = TokenShares[k].floorUse
  <2>1. \A x : PublishShare(x).floor = x.floor /\ PublishShare(x).floorUse = x.floorUse
    BY DEF PublishShare
  <2>2. \A k \in Classes : /\ SlotShare(k).floor = limits.slots[k].floor
                           /\ TokenShare(k).floor = limits.tokens[k].floor
    BY DEF SlotShare, TokenShare, ShareOf
  <2>3. \A k \in Classes : SlotShares[k] = SlotShare(k) /\ TokenShares[k] = TokenShare(k)
    BY DEF SlotShares, TokenShares
  <2> QED BY <1>5, <2>1, <2>2, <2>3
<1>7. DOMAIN limits.slots = Classes /\ DOMAIN limits.tokens = Classes
      /\ DOMAIN SlotShares = Classes /\ DOMAIN TokenShares = Classes
  BY LimitsTyped DEF Classes, SlotShares, TokenShares
<1>8. /\ DOMAIN SlotsOf(of) = Classes /\ DOMAIN TokensOf(of) = Classes
      /\ \A k \in Classes : SlotsOf(of)[k] = of[k].slots /\ TokensOf(of)[k] = of[k].tokens
  BY <1>3 DEF SlotsOf, TokensOf
<1>9. /\ [c \in DOMAIN SlotsOf(of) |-> SlotsOf(of)[c].floor]
           = [c \in DOMAIN limits.slots |-> limits.slots[c].floor]
      /\ [c \in DOMAIN TokensOf(of) |-> TokensOf(of)[c].floor]
           = [c \in DOMAIN limits.tokens |-> limits.tokens[c].floor]
      /\ [c \in DOMAIN SlotsOf(of) |-> SlotsOf(of)[c].floorUse]
           = [c \in DOMAIN SlotShares |-> SlotShares[c].floorUse]
      /\ [c \in DOMAIN TokensOf(of) |-> TokensOf(of)[c].floorUse]
           = [c \in DOMAIN TokenShares |-> TokenShares[c].floorUse]
  BY <1>6, <1>7, <1>8
<1>10. /\ FloorSum(SlotsOf(of)) = FloorSum(limits.slots)
       /\ FloorSum(TokensOf(of)) = FloorSum(limits.tokens)
       /\ FloorUseSum(SlotsOf(of)) = FloorUseSum(SlotShares)
       /\ FloorUseSum(TokensOf(of)) = FloorUseSum(TokenShares)
  BY <1>9 DEF FloorSum, FloorUseSum
<1> QED BY <1>3, <1>5, <1>10 DEF of

(* routing.ts, validatePoolCapacity: no state a pool gets into, whatever   *)
(* limits, overruns and deadlines it has seen, publishes numbers a peer    *)
(* would refuse.                                                           *)
THEOREM SnapshotsAreUnderstood == Spec => []SnapshotsUnderstood
<1>1. CallFacts /\ LimitsTold => SnapshotsUnderstood
  <2> SUFFICES ASSUME CallFacts, LimitsTold PROVE PoolUnderstood(ThePool, 3)
    BY DEF SnapshotsUnderstood, ThePool
  <2>1. limits \in AllLimits /\ call \in [Call -> Calls]
    BY DEF CallFacts, PoolTypes
  <2>2. /\ ThePool.max = limits.max /\ ThePool.inFlight = InFlight
        /\ ThePool.available = NonNegative(limits.max - InFlight)
        /\ ThePool.budget = IF limits.budget = Null THEN Null ELSE TheBudget
        /\ limits.budget # Null => TheBudget # Null
        /\ ThePool.classes = IF Classes = {} THEN Null ELSE TheClasses
        /\ limits.budget # Null => TheShared.tokens # Null
    BY <2>1, Publishes
  <2>3. /\ limits.budget \in Nat \cup {Null} /\ TokenUse \in Nat
        /\ \A k \in Classes :
             /\ limits.slots[k] \in [floor: Nat, ceiling: Nat \cup {Null}]
             /\ limits.tokens[k] \in [floor: Nat, ceiling: Nat \cup {Null}]
             /\ SlotUseOf(k) \in Nat /\ TokenUseOf(k) \in Nat
    BY <2>1, LimitsTyped, UseTyped
  <2>4. BudgetConsistent(ThePool.budget)
    <3>1. limits.budget # Null =>
            TheBudget.normal <= TheBudget.high /\ TheBudget.high <= TheBudget.budget
      BY <2>3 DEF TheBudget, NonNegative
    <3> QED BY <2>2, <3>1 DEF BudgetConsistent
  <2>5. ASSUME Classes # {}
        PROVE  LET of == ReadClasses(ThePool, 3) IN
               /\ ClassSharesConsistent(ThePool, of)
               /\ FloorsFit(ThePool, of)
               /\ SharedPartsConsistent(ThePool, of)
    <3> DEFINE of == ReadClasses(ThePool, 3)
    <3>1. /\ DOMAIN of = Classes
          /\ \A k \in Classes : /\ of[k].slots = PublishShare(SlotShare(k))
                                /\ of[k].tokens = PublishShare(TokenShare(k))
          /\ FloorSum(SlotsOf(of)) = FloorSum(limits.slots)
          /\ FloorSum(TokensOf(of)) = FloorSum(limits.tokens)
          /\ FloorUseSum(SlotsOf(of)) = FloorUseSum(SlotShares)
          /\ FloorUseSum(TokensOf(of)) = FloorUseSum(TokenShares)
      BY <2>1, <2>5, ReadShares
    <3> HIDE DEF of
    <3>2. /\ ThePool.classes = TheClasses /\ TheClasses.default = limits.default
          /\ TheClasses.shared = TheShared
      BY <2>2, <2>5 DEF TheClasses
    <3>3. /\ ClassBoundsValid(limits) /\ limits.default \in Classes
          /\ FloorSum(limits.slots) <= limits.max
          /\ limits.budget # Null => FloorSum(limits.tokens) <= limits.budget
      BY <2>5 DEF LimitsTold, LimitsFit
    <3>4. ClassSharesConsistent(ThePool, of)
      <4> SUFFICES ASSUME NEW k \in Classes
                   PROVE  /\ ShareConsistent(of[k].slots) /\ ShareConsistent(of[k].tokens)
                          /\ ThePool.budget = Null => of[k].tokens.floor = 0
        BY <3>1 DEF ClassSharesConsistent
      <4>1. /\ Bounded(limits.slots[k].floor, limits.slots[k].ceiling)
            /\ Bounded(limits.tokens[k].floor, limits.tokens[k].ceiling)
            /\ limits.budget = Null => limits.tokens[k].floor = 0
        BY <3>3 DEF ClassBoundsValid, Classes
      <4>2. ShareConsistent(PublishShare(SlotShare(k)))
        BY <2>3, <4>1, ShareIsConsistent DEF SlotShare
      <4>3. /\ ShareConsistent(PublishShare(TokenShare(k)))
            /\ PublishShare(TokenShare(k)).floor = limits.tokens[k].floor
        BY <2>3, <4>1, ShareIsConsistent DEF TokenShare
      <4> QED BY <2>2, <3>1, <4>1, <4>2, <4>3
    <3>5. FloorsFit(ThePool, of)
      <4>1. ThePool.budget # Null => limits.budget # Null /\ ThePool.budget.budget = limits.budget
        BY <2>2 DEF TheBudget
      <4> QED BY <2>2, <2>5, <3>1, <3>2, <3>3, <4>1 DEF FloorsFit
    <3>6. SharedPartsConsistent(ThePool, of)
      <4>1. /\ FloorSum(SlotShares) = FloorSum(limits.slots)
            /\ FloorSum(TokenShares) = FloorSum(limits.tokens)
        BY <2>1, FloorSumsTyped
      <4>2. SharedConsistent(TheShared.slots, limits.max, InFlight, SlotsOf(of))
        BY <3>1, <4>1 DEF TheShared, SharedOf, SharedConsistent
      <4>3. limits.budget # Null =>
              SharedConsistent(TheShared.tokens, limits.budget, TokenUse, TokensOf(of))
        BY <3>1, <4>1 DEF TheShared, SharedOf, SharedConsistent
      <4>4. ThePool.budget # Null => /\ limits.budget # Null
                                     /\ ThePool.budget.budget = limits.budget
                                     /\ ThePool.budget.use = TokenUse
        BY <2>2 DEF TheBudget
      <4>5. limits.budget = Null => TheShared.tokens = Null
        BY DEF TheShared
      <4> QED BY <2>2, <3>2, <4>2, <4>3, <4>4, <4>5 DEF SharedPartsConsistent
    <3> QED BY <3>4, <3>5, <3>6 DEF of
  <2> QED BY <2>2, <2>4, <2>5 DEF PoolUnderstood
<1> QED BY <1>1, LimitsInvariant, PTL

---------------------------------------------------------------------------
(* The score of a peer and the decision of the bulkhead.                   *)

SlotFloorsLeft == Total([k \in Classes |-> FloorLeft(SlotShare(k))])
TokenFloorsLeft == Total([k \in Classes |-> FloorLeft(TokenShare(k))])

LEMMA FloorsLeftTyped ==
  ASSUME limits \in AllLimits, call \in [Call -> Calls]
  PROVE  /\ [k \in Classes |-> FloorLeft(SlotShare(k))] \in [Classes -> Nat]
         /\ [k \in Classes |-> FloorLeft(TokenShare(k))] \in [Classes -> Nat]
<1>1. \A k \in Classes : /\ limits.slots[k].floor \in Nat /\ limits.tokens[k].floor \in Nat
                         /\ SlotUseOf(k) \in Nat /\ TokenUseOf(k) \in Nat
  BY LimitsTyped, UseTyped
<1>2. \A k \in Classes : FloorLeft(SlotShare(k)) \in Nat /\ FloorLeft(TokenShare(k)) \in Nat
  BY <1>1 DEF FloorLeft, SlotShare, TokenShare, ShareOf, NonNegative
<1> QED BY <1>2

(* What the floors leave and what is in use of them is what they protect,  *)
(* and the tokens of the floors in use are held by calls.                  *)
LEMMA FloorsAddUp ==
  ASSUME limits \in AllLimits, call \in [Call -> Calls]
  PROVE  /\ SlotFloorsLeft \in Nat /\ TokenFloorsLeft \in Nat
         /\ FloorUseSum(SlotShares) \in Nat /\ FloorUseSum(TokenShares) \in Nat
         /\ SlotFloorsLeft + FloorUseSum(SlotShares) = FloorSum(limits.slots)
         /\ TokenFloorsLeft + FloorUseSum(TokenShares) = FloorSum(limits.tokens)
         /\ FloorUseSum(TokenShares) <= TokenUse
         /\ \A k \in Classes : /\ limits.slots[k].floor <= FloorSum(limits.slots)
                               /\ limits.tokens[k].floor <= FloorSum(limits.tokens)
<1> DEFINE leftS == [k \in Classes |-> FloorLeft(SlotShare(k))]
           leftT == [k \in Classes |-> FloorLeft(TokenShare(k))]
           useS == [k \in DOMAIN SlotShares |-> SlotShares[k].floorUse]
           useT == [k \in DOMAIN TokenShares |-> TokenShares[k].floorUse]
           floorS == [k \in DOMAIN limits.slots |-> limits.slots[k].floor]
           floorT == [k \in DOMAIN limits.tokens |-> limits.tokens[k].floor]
           held == [c \in Call |-> call[c].held]
           kind == [c \in Call |-> call[c].class]
           of == [k \in Classes |-> TokenUseOf(k)]
<1>1. /\ IsFiniteSet(Classes) /\ Classes = DOMAIN limits.slots /\ Classes = DOMAIN limits.tokens
      /\ DOMAIN SlotShares = Classes /\ DOMAIN TokenShares = Classes
      /\ \A k \in Classes :
           /\ limits.slots[k].floor \in Nat /\ limits.tokens[k].floor \in Nat
           /\ SlotUseOf(k) \in Nat /\ TokenUseOf(k) \in Nat
  BY LimitsTyped, UseTyped DEF Classes, SlotShares, TokenShares
<1>2. \A k \in Classes :
        /\ leftS[k] = NonNegative(limits.slots[k].floor - SlotUseOf(k))
        /\ leftT[k] = NonNegative(limits.tokens[k].floor - TokenUseOf(k))
        /\ useS[k] = Smaller(SlotUseOf(k), limits.slots[k].floor)
        /\ useT[k] = Smaller(TokenUseOf(k), limits.tokens[k].floor)
  BY <1>1 DEF FloorLeft, SlotShares, TokenShares, SlotShare, TokenShare, ShareOf
<1>3. /\ leftS \in [Classes -> Nat] /\ leftT \in [Classes -> Nat]
      /\ floorS \in [Classes -> Nat] /\ floorT \in [Classes -> Nat]
      /\ of \in [Classes -> Nat]
  BY <1>1, FloorsLeftTyped
<1>4. DOMAIN useS = Classes /\ DOMAIN useT = Classes
  BY <1>1
<1>5. \A k \in Classes : floorS[k] = limits.slots[k].floor /\ floorT[k] = limits.tokens[k].floor
                         /\ of[k] = TokenUseOf(k)
  BY <1>1
<1>6. useS \in [Classes -> Nat] /\ useT \in [Classes -> Nat]
  <2>1. \A k \in Classes : useS[k] \in Nat /\ useT[k] \in Nat
    BY <1>1, <1>2 DEF Smaller
  <2>2. useS = [k \in Classes |-> useS[k]] /\ useT = [k \in Classes |-> useT[k]]
    BY <1>1
  <2> QED BY <2>1, <2>2
<1>7. /\ SlotFloorsLeft = SumFunction(leftS) /\ TokenFloorsLeft = SumFunction(leftT)
      /\ FloorUseSum(SlotShares) = SumFunction(useS)
      /\ FloorUseSum(TokenShares) = SumFunction(useT)
      /\ FloorSum(limits.slots) = SumFunction(floorS)
      /\ FloorSum(limits.tokens) = SumFunction(floorT)
      /\ TokenUse = SumFunction(held)
  BY DEF SlotFloorsLeft, TokenFloorsLeft, Total, FloorUseSum, FloorSum, TokenUse
<1>8. SumFunction(of) <= SumFunction(held)
  <2>1. held \in [Call -> Nat] /\ DOMAIN kind = Call
    BY DEF Calls
  <2>2. \A k : PartOf(held, Call, kind, k)
               = [c \in Call |-> IF call[c].class = k THEN call[c].held ELSE 0]
    BY DEF PartOf
  <2> HIDE DEF held, kind
  <2>3. SumFunction(PartSums(held, Call, kind, Classes)) <= SumFunction(held)
    BY <1>1, <2>1, PoolAssumption, SumOfParts
  <2>4. \A k : SumFunction(PartOf(held, Call, kind, k)) = TokenUseOf(k)
    BY <2>2 DEF TokenUseOf, Total
  <2>5. of = PartSums(held, Call, kind, Classes)
    BY <2>4 DEF PartSums
  <2> HIDE DEF of
  <2> QED BY <2>3, <2>5
<1> HIDE DEF leftS, leftT, useS, useT, floorS, floorT, held, kind, of
<1>9. /\ leftS \in [Classes -> Int] /\ leftT \in [Classes -> Int]
      /\ useS \in [Classes -> Int] /\ useT \in [Classes -> Int]
      /\ floorS \in [Classes -> Int] /\ floorT \in [Classes -> Int]
      /\ of \in [Classes -> Int]
  BY <1>3, <1>6
<1>10. \A k \in Classes : /\ floorS[k] = leftS[k] + useS[k]
                          /\ floorT[k] = leftT[k] + useT[k]
                          /\ useT[k] <= of[k]
  BY <1>1, <1>2, <1>5 DEF NonNegative, Smaller
<1>11. /\ SumFunction(floorS) = SumFunction(leftS) + SumFunction(useS)
       /\ SumFunction(floorT) = SumFunction(leftT) + SumFunction(useT)
       /\ SumFunction(useT) <= SumFunction(of)
  <2>1. SumFunction(floorS) = SumFunction(leftS) + SumFunction(useS)
    BY <1>1, <1>9, <1>10, SumAdds
  <2>2. SumFunction(floorT) = SumFunction(leftT) + SumFunction(useT)
    BY <1>1, <1>9, <1>10, SumAdds
  <2>3. SumFunction(useT) <= SumFunction(of)
    BY <1>1, <1>9, <1>10, SumBelow
  <2> QED BY <2>1, <2>2, <2>3
<1>12. /\ SumFunction(leftS) \in Nat /\ SumFunction(leftT) \in Nat
       /\ SumFunction(useS) \in Nat /\ SumFunction(useT) \in Nat
       /\ SumFunction(of) \in Nat
       /\ \A k \in Classes : floorS[k] <= SumFunction(floorS) /\ floorT[k] <= SumFunction(floorT)
  BY <1>1, <1>3, <1>6, SumOfNats
<1>13. SumFunction(useT) <= SumFunction(held)
  BY <1>7, <1>8, <1>11, <1>12, UseTyped
<1> QED BY <1>5, <1>7, <1>11, <1>12, <1>13

Asked(k, p, s) == [Fresh EXCEPT !.class = k, !.priority = p, !.size = s]

LEMMA AskedTyped ==
  ASSUME limits \in AllLimits, NEW k, NEW p \in {"normal", "high"}, NEW s \in Sizes,
         p = "high" \/ limits.reserve = 0
  PROVE  /\ Asked(k, p, s).class = k /\ Asked(k, p, s).priority = p
         /\ Reserved(Asked(k, p, s)) \in Nat
         /\ limits.budget # Null => /\ Reserved(Asked(k, p, s)) > 0
                                    /\ EffectiveBudget(p) = limits.budget
         /\ limits.budget = Null => Reserved(Asked(k, p, s)) = 0
<1>1. /\ Asked(k, p, s).class = k /\ Asked(k, p, s).priority = p
      /\ Asked(k, p, s).size = s
  BY DEF Asked, Fresh
<1>2. s.input \in Nat /\ s.output \in Nat /\ s.input + s.output > 0
  BY PoolAssumption, SizesAssumption
<1>3. limits.budget \in Nat \cup {Null} /\ limits.reserve \in Nat
  BY LimitsTyped
<1>4. limits.budget # Null => EffectiveBudget(p) = limits.budget
  BY <1>3 DEF EffectiveBudget, NonNegative
<1> QED BY <1>1, <1>2, <1>4 DEF Reserved

(* A pool without classes.                                                 *)
LEMMA PlainScore ==
  ASSUME limits \in AllLimits, call \in [Call -> Calls], LimitsTold, Classes = {},
         NEW p \in {"normal", "high"}, NEW s \in Sizes,
         p = "high" \/ limits.reserve = 0
  PROVE  ScoredExactly(ThePool, Null, p, s)
<1> DEFINE r == Asked(Null, p, s)
           h == Headrooms(ThePool, p, Null, Reserved(r))
<1>1. /\ r.class = Null /\ r.priority = p /\ Reserved(r) \in Nat
      /\ limits.budget # Null => Reserved(r) > 0 /\ EffectiveBudget(p) = limits.budget
  BY AskedTyped
<1>2. /\ ThePool.mode = mode /\ ThePool.closed = closed
      /\ ThePool.available = NonNegative(limits.max - InFlight)
      /\ ThePool.budget = IF limits.budget = Null THEN Null ELSE TheBudget
      /\ limits.budget # Null => TheBudget # Null
      /\ ThePool.classes = Null
  BY Publishes
<1>3. /\ limits.budget \in Nat \cup {Null} /\ TokenUse \in Nat /\ limits.max \in Nat
      /\ InFlight \in Nat
  BY LimitsTyped, UseTyped, InFlightType
<1> HIDE DEF r
<1>4. SelectedClass(ThePool, Null) = Null
  BY <1>2 DEF SelectedClass
<1>5. /\ h.missing = FALSE /\ h.classSlots = Null /\ h.classTokens = Null
      /\ h.sharedSlots = Null /\ h.sharedTokens = Null
      /\ h.tokens = Minus(AvailableTokens(ThePool, p), Reserved(r))
  BY <1>4 DEF Headrooms
<1>6. AvailableTokens(ThePool, p)
        = IF limits.budget = Null THEN Null ELSE NonNegative(limits.budget - TokenUse)
  BY <1>2 DEF AvailableTokens, TheBudget
<1>7. Enough(h.tokens) <=> (limits.budget = Null \/ TokenUse + Reserved(r) <= limits.budget)
  <2>1. CASE limits.budget = Null
    BY <1>5, <1>6, <2>1 DEF Enough, Minus
  <2>2. CASE limits.budget # Null
    <3>1. h.tokens = NonNegative(limits.budget - TokenUse) - Reserved(r)
          /\ h.tokens \in Int
      BY <1>1, <1>3, <1>5, <1>6, <2>2, NullAssumption DEF Minus, NonNegative
    <3>2. Enough(h.tokens) <=> h.tokens >= 0
      BY <3>1, NullAssumption DEF Enough
    <3> QED BY <1>1, <1>3, <2>2, <3>1, <3>2 DEF NonNegative
  <2> QED BY <2>1, <2>2
<1> HIDE DEF h
<1>8. Refused(r, 0) <=> (limits.budget # Null /\ TokenUse + Reserved(r) > limits.budget)
  BY <1>1 DEF Refused
<1>9. ThePool.available > 0 <=> InFlight < limits.max
  BY <1>2, <1>3 DEF NonNegative
<1>10. Admissible(ThePool, h) <=> AdmitsNow(r)
  <2>1. Admissible(ThePool, h) <=> /\ mode = "enforce" /\ ~ closed /\ InFlight < limits.max
                                   /\ Enough(h.tokens)
    BY <1>2, <1>5, <1>9 DEF Admissible, Enough
  <2>2. Enough(h.tokens) <=> ~ Refused(r, 0)
    BY <1>1, <1>3, <1>7, <1>8
  <2> QED BY <2>1, <2>2 DEF AdmitsNow
<1> QED BY <1>10 DEF ScoredExactly, Asked, h, r

(* What a class of a pool is checked for, by the bulkhead and by the score.*)
LEMMA ClassScore ==
  ASSUME limits \in AllLimits, call \in [Call -> Calls], LimitsTold,
         NEW k \in Classes, NEW p \in {"normal", "high"}, NEW s \in Sizes,
         p = "high" \/ limits.reserve = 0
  PROVE  ScoredExactly(ThePool, k, p, s)
<1> DEFINE r == Asked(k, p, s)
           q == Reserved(r)
           h == Headrooms(ThePool, p, k, q)
           su == SlotUseOf(k)
           tu == TokenUseOf(k)
           sb == limits.slots[k]
           tb == limits.tokens[k]
           F == FloorSum(limits.slots)
           G == FloorSum(limits.tokens)
           slots == TheShared.slots
           tokens == TheShared.tokens
<1>1. /\ r.class = k /\ r.priority = p /\ q \in Nat
      /\ limits.budget # Null => q > 0 /\ EffectiveBudget(p) = limits.budget
      /\ limits.budget = Null => q = 0
  BY AskedTyped
<1>2. /\ ThePool.mode = mode /\ ThePool.closed = closed
      /\ ThePool.available = NonNegative(limits.max - InFlight)
      /\ ThePool.budget = IF limits.budget = Null THEN Null ELSE TheBudget
      /\ limits.budget # Null => TheBudget # Null
      /\ ThePool.classes = TheClasses /\ TheClasses # Null
  BY Publishes
<1>3. /\ limits.budget \in Nat \cup {Null} /\ TokenUse \in Nat /\ limits.max \in Nat
      /\ InFlight \in Nat /\ k \in Class /\ k # Null
      /\ su \in Nat /\ tu \in Nat
      /\ sb \in [floor: Nat, ceiling: Nat \cup {Null}]
      /\ tb \in [floor: Nat, ceiling: Nat \cup {Null}]
  BY LimitsTyped, UseTyped, InFlightType, NullAssumption
<1>4. /\ sb.floor \in Nat /\ sb.ceiling \in Nat \cup {Null}
      /\ tb.floor \in Nat /\ tb.ceiling \in Nat \cup {Null}
  BY <1>3
<1>5. /\ Bounded(sb.floor, sb.ceiling) /\ Bounded(tb.floor, tb.ceiling)
      /\ limits.budget = Null => tb.floor = 0 /\ tb.ceiling = Null
      /\ F <= limits.max /\ (limits.budget # Null => G <= limits.budget)
  BY DEF LimitsTold, LimitsFit, ClassBoundsValid, Classes
<1>6. /\ TheClasses.of[k].slots = PublishShare(SlotShare(k))
      /\ TheClasses.of[k].tokens = PublishShare(TokenShare(k))
      /\ k \in DOMAIN TheClasses.of /\ TheClasses.shared = TheShared
  BY DEF TheClasses
<1>7. /\ PublishShare(SlotShare(k)).floorLeft = NonNegative(sb.floor - su)
      /\ PublishShare(SlotShare(k)).left
           = IF sb.ceiling = Null THEN Null ELSE NonNegative(sb.ceiling - su)
      /\ PublishShare(TokenShare(k)).floorLeft = NonNegative(tb.floor - tu)
      /\ PublishShare(TokenShare(k)).left
           = IF tb.ceiling = Null THEN Null ELSE NonNegative(tb.ceiling - tu)
  BY <1>3, <1>5, ShareIsConsistent DEF SlotShare, TokenShare
<1>8. /\ FloorLeft(SlotShare(k)) = NonNegative(sb.floor - su)
      /\ FloorLeft(TokenShare(k)) = NonNegative(tb.floor - tu)
  BY DEF FloorLeft, SlotShare, TokenShare, ShareOf
<1>9. SelectedClass(ThePool, k) = k
  BY <1>3 DEF SelectedClass
<1>10. AvailableTokens(ThePool, p)
         = IF limits.budget = Null THEN Null ELSE NonNegative(limits.budget - TokenUse)
  BY <1>2 DEF AvailableTokens, TheBudget
<1>11. UnusedTokenFloors(ThePool) = TokenFloorsLeft
  <2>1. \A x \in Classes : PublishShare(TokenShare(x)).floorLeft = FloorLeft(TokenShare(x))
    BY DEF PublishShare, FloorLeft
  <2>2. [x \in DOMAIN TheClasses.of |-> TheClasses.of[x].tokens.floorLeft]
          = [x \in Classes |-> FloorLeft(TokenShare(x))]
    BY <2>1 DEF TheClasses
  <2> QED BY <1>2, <2>2 DEF UnusedTokenFloors, TokenFloorsLeft, Total
<1> HIDE DEF r, q, su, tu, sb, tb, F, G
<1>12. /\ h.missing = FALSE
       /\ h.tokens = Minus(AvailableTokens(ThePool, p), q)
       /\ h.classSlots = Minus(PublishShare(SlotShare(k)).left, 1)
       /\ h.classTokens = Minus(PublishShare(TokenShare(k)).left, q)
       /\ h.sharedSlots = slots.available - Borrowed(PublishShare(SlotShare(k)), 1)
       /\ h.sharedTokens =
            IF AvailableTokens(ThePool, p) # Null
            THEN NonNegative(AvailableTokens(ThePool, p) - UnusedTokenFloors(ThePool))
                   - Borrowed(PublishShare(TokenShare(k)), q)
            ELSE Null
  BY <1>2, <1>3, <1>6, <1>9 DEF Headrooms
<1> HIDE DEF h
<1> DEFINE bs == NonNegative(1 - NonNegative(sb.floor - su))
           bt == NonNegative(q - NonNegative(tb.floor - tu))
<1>13. /\ Borrowed(PublishShare(SlotShare(k)), 1) = bs /\ bs \in {0, 1}
       /\ BorrowsSlot(r) <=> bs = 1
       /\ Borrowed(PublishShare(TokenShare(k)), q) = bt /\ bt \in Nat
       /\ BorrowsTokens(r) = bt
  <2>1. bs \in {0, 1} /\ (bs = 1 <=> NonNegative(sb.floor - su) = 0) /\ bt \in Nat
    BY <1>1, <1>3, <1>4 DEF NonNegative
  <2>2. BorrowsSlot(r) <=> NonNegative(sb.floor - su) = 0
    BY <1>1, <1>3, <1>8 DEF BorrowsSlot
  <2>3. BorrowsTokens(r) = bt
    BY <1>1, <1>3, <1>8 DEF BorrowsTokens, q
  <2> QED BY <1>7, <2>1, <2>2, <2>3 DEF Borrowed
<1> DEFINE D1 == limits.budget # Null /\ TokenUse + q > limits.budget
           D2 == tb.ceiling # Null /\ tu + q > tb.ceiling
           D3 == sb.ceiling # Null /\ su >= sb.ceiling
           D4 == F > 0 /\ bs = 1 /\ slots.use + 1 > NonNegative(limits.max - F)
           D5 == /\ limits.budget # Null /\ G > 0 /\ bt > 0
                 /\ tokens.use + bt > NonNegative(limits.budget - G)
<1>14. Refused(r, 0) <=> D1 \/ D2 \/ D3 \/ D4 \/ D5
  <2>1. InFlight - 0 = InFlight
    BY <1>3
  <2>2. /\ SharedOf(limits.max, InFlight - 0, SlotShares).use = slots.use
        /\ limits.budget # Null => SharedOf(limits.budget, TokenUse, TokenShares).use = tokens.use
    BY <2>1 DEF TheShared
  <2> HIDE DEF bs, bt
  <2> QED BY <1>1, <1>3, <1>13, <2>2 DEF Refused, q, su, tu, sb, tb, F, G
<1>15. Enough(h.tokens) <=> ~ D1
  <2>1. CASE limits.budget = Null
    BY <1>10, <1>12, <2>1 DEF Enough, Minus
  <2>2. CASE limits.budget # Null
    <3>1. h.tokens = NonNegative(limits.budget - TokenUse) - q /\ h.tokens \in Int
      BY <1>1, <1>3, <1>10, <1>12, <2>2, NullAssumption DEF Minus, NonNegative
    <3>2. Enough(h.tokens) <=> h.tokens >= 0
      BY <3>1, NullAssumption DEF Enough
    <3> QED BY <1>1, <1>3, <2>2, <3>1, <3>2 DEF NonNegative
  <2> QED BY <2>1, <2>2
<1>16. Enough(h.classTokens) <=> ~ D2
  <2>1. CASE tb.ceiling = Null
    BY <1>7, <1>12, <2>1 DEF Enough, Minus
  <2>2. CASE tb.ceiling # Null
    <3>1. h.classTokens = NonNegative(tb.ceiling - tu) - q /\ h.classTokens \in Int
      BY <1>1, <1>3, <1>4, <1>7, <1>12, <2>2, NullAssumption DEF Minus, NonNegative
    <3>2. Enough(h.classTokens) <=> h.classTokens >= 0
      BY <3>1, NullAssumption DEF Enough
    <3>3. q > 0
      BY <1>1, <1>5, <2>2
    <3> QED BY <1>1, <1>3, <1>4, <2>2, <3>1, <3>2, <3>3 DEF NonNegative
  <2> QED BY <2>1, <2>2
<1>17. Enough(h.classSlots) <=> ~ D3
  <2>1. CASE sb.ceiling = Null
    BY <1>7, <1>12, <2>1 DEF Enough, Minus
  <2>2. CASE sb.ceiling # Null
    <3>1. h.classSlots = NonNegative(sb.ceiling - su) - 1 /\ h.classSlots \in Int
      BY <1>3, <1>4, <1>7, <1>12, <2>2, NullAssumption DEF Minus, NonNegative
    <3>2. Enough(h.classSlots) <=> h.classSlots >= 0
      BY <3>1, NullAssumption DEF Enough
    <3> QED BY <1>3, <1>4, <2>2, <3>1, <3>2 DEF NonNegative
  <2> QED BY <2>1, <2>2
<1> DEFINE us == FloorUseSum(SlotShares)
           ut == FloorUseSum(TokenShares)
<1>18. /\ F \in Nat /\ G \in Nat /\ us \in Nat /\ ut \in Nat
       /\ FloorSum(SlotShares) = F /\ FloorSum(TokenShares) = G
       /\ us <= F /\ TokenFloorsLeft \in Nat /\ TokenFloorsLeft + ut = G
       /\ ut <= TokenUse /\ sb.floor <= F /\ tb.floor <= G
  <2>1. /\ F \in Nat /\ G \in Nat
        /\ FloorSum(SlotShares) = F /\ FloorSum(TokenShares) = G
    BY FloorSumsTyped DEF F, G
  <2>2. /\ SlotFloorsLeft \in Nat /\ TokenFloorsLeft \in Nat /\ us \in Nat /\ ut \in Nat
        /\ SlotFloorsLeft + us = F /\ TokenFloorsLeft + ut = G
        /\ ut <= TokenUse /\ sb.floor <= F /\ tb.floor <= G
    BY FloorsAddUp DEF F, G, sb, tb
  <2> HIDE DEF us, ut
  <2> QED BY <2>1, <2>2
<1>19. /\ slots.use = NonNegative(InFlight - us)
       /\ slots.available = NonNegative(NonNegative(limits.max - F) - slots.use)
       /\ limits.budget # Null => tokens.use = NonNegative(TokenUse - ut)
  BY <1>18 DEF TheShared, SharedOf
<1> HIDE DEF bs, bt, us, ut, slots, tokens
<1>20. ASSUME InFlight < limits.max
       PROVE  Enough(h.sharedSlots) <=> ~ D4
  <2>1. h.sharedSlots = slots.available - bs /\ slots.available \in Nat /\ slots.use \in Nat
    BY <1>3, <1>12, <1>13, <1>18, <1>19 DEF NonNegative
  <2>2. Enough(h.sharedSlots) <=> h.sharedSlots >= 0
    BY <1>13, <2>1, NullAssumption DEF Enough
  <2> QED BY <1>3, <1>5, <1>13, <1>18, <1>19, <1>20, <2>1, <2>2 DEF NonNegative
<1>21. ASSUME ~ D1
       PROVE  Enough(h.sharedTokens) <=> ~ D5
  <2>1. CASE limits.budget = Null
    BY <1>10, <1>12, <2>1 DEF Enough
  <2>2. CASE limits.budget # Null
    <3>1. AvailableTokens(ThePool, p) = NonNegative(limits.budget - TokenUse)
          /\ AvailableTokens(ThePool, p) # Null
      BY <1>3, <1>10, <2>2, NullAssumption DEF NonNegative
    <3>2. h.sharedTokens
            = NonNegative(NonNegative(limits.budget - TokenUse) - TokenFloorsLeft) - bt
      BY <1>11, <1>12, <1>13, <3>1
    <3>3. NonNegative(NonNegative(limits.budget - TokenUse) - TokenFloorsLeft) \in Nat
      BY <1>3, <1>18, <2>2 DEF NonNegative
    <3>4. Enough(h.sharedTokens) <=> h.sharedTokens >= 0
      BY <1>13, <3>2, <3>3, NullAssumption DEF Enough
    <3>5. bt <= q /\ q <= limits.budget - TokenUse
      BY <1>1, <1>3, <1>4, <1>21, <2>2 DEF NonNegative, bt
    <3> QED BY <1>1, <1>3, <1>5, <1>13, <1>18, <1>19, <2>2, <3>2, <3>4, <3>5 DEF NonNegative
  <2> QED BY <2>1, <2>2
<1>22. ThePool.available > 0 <=> InFlight < limits.max
  BY <1>2, <1>3 DEF NonNegative
<1> HIDE DEF D1, D2, D3, D4, D5
<1>23. Admissible(ThePool, h) <=> AdmitsNow(r)
  <2>1. Admissible(ThePool, h) <=>
          /\ mode = "enforce" /\ ~ closed /\ InFlight < limits.max
          /\ Enough(h.tokens) /\ Enough(h.classSlots) /\ Enough(h.classTokens)
          /\ Enough(h.sharedSlots) /\ Enough(h.sharedTokens)
    BY <1>2, <1>12, <1>22 DEF Admissible
  <2> QED BY <1>14, <1>15, <1>16, <1>17, <1>20, <1>21, <2>1 DEF AdmitsNow
<1> QED BY <1>23 DEF ScoredExactly, Asked, h, r, q

(* scoreCapacityCandidate and the bulkhead's admission check: a request of *)
(* high priority, or of any when nothing is reserved for them, is scored   *)
(* admissible on a replica exactly when that replica would start it.       *)
THEOREM ScoresAreExact == Spec => []ScoreIsExact
<1>1. CallFacts /\ LimitsTold => ScoreIsExact
  <2> SUFFICES ASSUME CallFacts, LimitsTold, NEW k \in SelectableClasses,
                      NEW s \in Sizes, NEW p \in {"normal", "high"},
                      p = "high" \/ limits.reserve = 0
               PROVE  ScoredExactly(ThePool, k, p, s)
    BY DEF ScoreIsExact, ThePool
  <2>1. limits \in AllLimits /\ call \in [Call -> Calls]
    BY DEF CallFacts, PoolTypes
  <2>2. CASE Classes = {}
    <3>1. k = Null
      BY <2>2 DEF SelectableClasses
    <3> QED BY <2>1, <2>2, <3>1, PlainScore
  <2>3. CASE Classes # {}
    <3>1. k \in Classes
      BY <2>3 DEF SelectableClasses
    <3> QED BY <2>1, <3>1, ClassScore
  <2> QED BY <2>2, <2>3
<1> QED BY <1>1, LimitsInvariant, PTL

---------------------------------------------------------------------------
(* Unused floors.                                                          *)

(* Who waits holds nothing, and is of a class the pool has.                *)
Waiter(r) == r.held = 0 /\ r.class \in SelectableClasses
WaitTold ==
  \A c \in Call : call[c].stage \in {"queued", "granted"} => Waiter(call[c])

(* While slots await their postcheck, no more are taken than there are.    *)
FlightTold == granted # <<>> => InFlight <= limits.max

FloorFacts == CallFacts /\ LimitsTold /\ WaitTold /\ FlightTold

Flying(calls) == {c \in Call : calls[c].stage \in {"granted", "running"}}

LEMMA FlyingCounts ==
  /\ InFlight = Cardinality(Flying(call))
  /\ \A calls : IsFiniteSet(Flying(calls)) /\ Cardinality(Flying(calls)) \in Nat
<1>1. \A calls : IsFiniteSet(Flying(calls))
  BY PoolAssumption, FS_Subset DEF Flying
<1>2. {c \in Call : HasSlot(c)} = Flying(call)
  BY DEF HasSlot, Flying
<1> QED BY <1>1, <1>2, FS_CardinalityType DEF InFlight

(* One call changes its stage.                                             *)
LEMMA FlyingChanges ==
  ASSUME call \in [Call -> Calls], NEW c \in Call, NEW r
  PROVE  LET new == Cardinality(Flying([call EXCEPT ![c] = r]))
             flew == call[c].stage \in {"granted", "running"}
             flies == r.stage \in {"granted", "running"}
         IN /\ flew /\ flies => new = InFlight
            /\ flew /\ ~ flies => new = InFlight - 1
            /\ ~ flew /\ flies => new = InFlight + 1
            /\ ~ flew /\ ~ flies => new = InFlight
<1> DEFINE calls == [call EXCEPT ![c] = r]
<1>1. \A d \in Call : calls[d] = IF d = c THEN r ELSE call[d]
  OBVIOUS
<1>2. /\ c \in Flying(calls) <=> r.stage \in {"granted", "running"}
      /\ c \in Flying(call) <=> call[c].stage \in {"granted", "running"}
      /\ Flying(calls) \ {c} = Flying(call) \ {c}
  BY <1>1 DEF Flying
<1>3. /\ InFlight = Cardinality(Flying(call)) /\ InFlight \in Nat
      /\ IsFiniteSet(Flying(call)) /\ IsFiniteSet(Flying(calls))
      /\ Cardinality(Flying(calls)) \in Nat
  BY FlyingCounts
<1> HIDE DEF calls
<1>4. CASE c \in Flying(call) /\ c \in Flying(calls)
  <2>1. Flying(calls) = Flying(call)
    BY <1>2, <1>4
  <2> QED BY <1>2, <1>3, <1>4, <2>1 DEF calls
<1>5. CASE c \in Flying(call) /\ c \notin Flying(calls)
  <2>1. Flying(calls) = Flying(call) \ {c}
    BY <1>2, <1>5
  <2>2. Cardinality(Flying(calls)) = InFlight - 1
    BY <1>3, <1>5, <2>1, FS_RemoveElement
  <2> QED BY <1>2, <1>5, <2>2 DEF calls
<1>6. CASE c \notin Flying(call) /\ c \in Flying(calls)
  <2>1. Flying(calls) = Flying(call) \cup {c}
    BY <1>2, <1>6
  <2>2. Cardinality(Flying(calls)) = InFlight + 1
    BY <1>3, <1>6, <2>1, FS_AddElement
  <2> QED BY <1>2, <1>6, <2>2 DEF calls
<1>7. CASE c \notin Flying(call) /\ c \notin Flying(calls)
  <2>1. Flying(calls) = Flying(call)
    BY <1>2, <1>7
  <2> QED BY <1>2, <1>3, <1>7, <2>1 DEF calls
<1> QED BY <1>4, <1>5, <1>6, <1>7

(* Waiters are granted only slots that are free.                           *)
LEMMA ProceedFlies ==
  ASSUME NEW calls \in [Call -> Calls], NEW q \in Seq(Call), NEW g \in Seq(Call),
         Lists(q, calls, "queued"),
         NEW max \in Nat, g # <<>> => Cardinality(Flying(calls)) <= max,
         Proceed(calls, q, g, Cardinality(Flying(calls)), max)
  PROVE  granted' # <<>> => Cardinality(Flying(call')) <= max
<1> DEFINE used == Cardinality(Flying(calls))
           lucky == Grants(q, used, max)
<1>1. used \in Nat /\ IsFiniteSet(Flying(calls))
  BY FlyingCounts
<1>2. /\ call' = [c \in Call |-> IF c \in Range(lucky)
                                 THEN [calls[c] EXCEPT !.stage = "granted"] ELSE calls[c]]
      /\ granted' = g \o lucky
  BY DEF Proceed
<1>3. lucky \in Seq(Call) /\ Len(lucky) \in 0 .. Len(q)
  BY <1>1, GrantsProperties
<1>4. Len(q) \in Nat /\ Len(lucky) \in Nat
  BY <1>3, LenProperties
<1>5. lucky # <<>> => used + Len(lucky) <= max
  <2> DEFINE n == NonNegative(Smaller(Len(q), max - used))
  <2>1. n \in 0 .. Len(q) /\ (n > 0 => used + n <= max)
    BY <1>1, <1>4 DEF NonNegative, Smaller
  <2>2. \A i \in 1 .. Len(q) : q[i] \in Call
    BY ElementOfSeq
  <2> HIDE DEF n
  <2>3. lucky = SubSeq(q, 1, n)
    BY DEF Grants, n
  <2>4. \A i \in 1 .. n : q[i] \in Call
    BY <1>4, <2>1, <2>2
  <2>5. Len(lucky) = n
    BY <1>4, <2>1, <2>3, <2>4, SubSeqProperties
  <2>6. lucky # <<>> => Len(lucky) > 0
    BY <1>3, <1>4, EmptySeq
  <2> QED BY <2>1, <2>5, <2>6
<1>6. Range(lucky) = {lucky[i] : i \in 1 .. Len(lucky)}
  BY <1>3, LenProperties DEF Range
<1> HIDE DEF lucky, used
<1>7. IsFiniteSet(Range(lucky)) /\ Cardinality(Range(lucky)) <= Len(lucky)
  <2>1. IsFiniteSet(1 .. Len(lucky)) /\ Cardinality(1 .. Len(lucky)) = Len(lucky)
    <3>1. 1 \in Int /\ Len(lucky) \in Int
      BY <1>4
    <3> HIDE DEF lucky
    <3>2. /\ IsFiniteSet(1 .. Len(lucky))
          /\ Cardinality(1 .. Len(lucky))
               = IF 1 > Len(lucky) THEN 0 ELSE Len(lucky) - 1 + 1
      BY <3>1, FS_Interval
    <3> QED BY <1>4, <3>2
  <2> DEFINE f == [i \in 1 .. Len(lucky) |-> lucky[i]]
  <2>2. f \in Surjection(1 .. Len(lucky), Range(lucky))
    BY <1>6 DEF Surjection
  <2> QED BY <2>1, <2>2, FS_Surjection
<1>8. Flying(call') \subseteq Flying(calls) \cup Range(lucky)
  BY <1>2 DEF Flying
<1>9. Cardinality(Flying(call')) <= used + Cardinality(Range(lucky))
  <2>1. /\ IsFiniteSet(Flying(calls) \cup Range(lucky))
        /\ Cardinality(Flying(calls) \cup Range(lucky))
             = Cardinality(Flying(calls)) + Cardinality(Range(lucky))
                 - Cardinality(Flying(calls) \cap Range(lucky))
    BY <1>1, <1>7, FS_Union
  <2>2. /\ Cardinality(Flying(calls) \cap Range(lucky)) \in Nat
        /\ Cardinality(Range(lucky)) \in Nat
    BY <1>1, <1>7, FS_Subset, FS_CardinalityType
  <2>3. Cardinality(Flying(call')) <= Cardinality(Flying(calls) \cup Range(lucky))
    BY <1>8, <2>1, FS_Subset
  <2>4. Cardinality(Flying(call')) \in Nat
    BY FlyingCounts
  <2> QED BY <1>1, <2>1, <2>2, <2>3, <2>4 DEF used
<1>10. Cardinality(Flying(call')) \in Nat /\ Cardinality(Range(lucky)) \in Nat
  BY <1>7, FlyingCounts, FS_CardinalityType
<1>11. CASE lucky # <<>>
  BY <1>1, <1>4, <1>5, <1>7, <1>9, <1>10, <1>11
<1>12. CASE lucky = <<>>
  <2>1. granted' # <<>> => g # <<>>
    BY <1>2, <1>12, ConcatEmptySeq
  <2>2. Len(lucky) = 0
    BY <1>12
  <2>3. Cardinality(Range(lucky)) = 0
    BY <1>7, <1>10, <2>2
  <2> QED BY <1>1, <1>9, <1>10, <2>1, <2>3 DEF used
<1> QED BY <1>11, <1>12

LEMMA FlyingNext == InFlight' = Cardinality(Flying(call'))
<1>1. {c \in Call : HasSlot(c)'} = Flying(call')
  BY DEF HasSlot, Flying
<1> QED BY <1>1 DEF InFlight

(* One call changes, and with it at most the slots that await a postcheck. *)
LEMMA OneCallWaits ==
  ASSUME FloorFacts, UNCHANGED limits, NEW c \in Call, NEW r,
         call' = [call EXCEPT ![c] = r],
         r.stage \in {"queued", "granted"} => Waiter(r),
         \/ granted' = <<>>
         \/ /\ r.stage = "granted" /\ call[c].stage = "new"
            /\ InFlight < limits.max
         \/ /\ granted # <<>>
            /\ r.stage = "running" /\ call[c].stage = "granted"
  PROVE  (WaitTold /\ FlightTold)'
<1>1. call \in [Call -> Calls] /\ limits.max \in Nat /\ InFlight \in Nat
  BY MaxType, InFlightType DEF FloorFacts, CallFacts, PoolTypes
<1>2. SelectableClasses' = SelectableClasses
  BY DEF SelectableClasses, Classes
<1>3. WaitTold'
  BY <1>1, <1>2 DEF WaitTold, Waiter, FloorFacts
<1>4. ASSUME granted' # <<>> PROVE InFlight' <= limits'.max
  <2>1. CASE r.stage = "granted" /\ call[c].stage = "new" /\ InFlight < limits.max
    <3>1. InFlight' = InFlight + 1
      BY <1>1, <2>1, FlyingChanges, FlyingNext
    <3> QED BY <1>1, <2>1, <3>1
  <2>2. CASE granted # <<>> /\ r.stage = "running" /\ call[c].stage = "granted"
    <3>1. InFlight' = InFlight
      BY <1>1, <2>2, FlyingChanges, FlyingNext
    <3> QED BY <2>2, <3>1 DEF FloorFacts, FlightTold
  <2> QED BY <1>4, <2>1, <2>2
<1> QED BY <1>3, <1>4 DEF FlightTold

(* One call leaves, and waiters get the slots that are free.               *)
LEMMA ProceedWaits ==
  ASSUME FloorFacts, UNCHANGED limits, NEW c \in Call, NEW r, r \in Calls,
         r.stage \notin {"queued", "granted", "running"},
         call[c].stage # "queued", NEW g \in Seq(Call),
         g # <<>> => granted # <<>> /\ call[c].stage = "granted",
         Lists(g, [call EXCEPT ![c] = r], "granted"), NEW used,
         used = IF HasSlot(c) THEN InFlight - 1 ELSE InFlight,
         Proceed([call EXCEPT ![c] = r], queue, g, used, limits.max)
  PROVE  (WaitTold /\ FlightTold)'
<1> DEFINE calls == [call EXCEPT ![c] = r]
<1>1. /\ call \in [Call -> Calls] /\ queue \in Seq(Call) /\ Lists(queue, call, "queued")
      /\ limits.max \in Nat /\ InFlight \in Nat
  BY MaxType, InFlightType DEF FloorFacts, CallFacts, PoolTypes, QueuesTold
<1>2. calls \in [Call -> Calls] /\ Lists(queue, calls, "queued")
  BY <1>1, ListsUndisturbed
<1>3. used = Cardinality(Flying(calls)) /\ used \in Int
  <2> HIDE DEF calls
  <2>1. /\ HasSlot(c) => Cardinality(Flying(calls)) = InFlight - 1
        /\ ~ HasSlot(c) => Cardinality(Flying(calls)) = InFlight
    BY <1>1, FlyingChanges DEF HasSlot, calls
  <2> QED BY <1>1, <2>1
<1>4. \A d \in Call : calls[d].stage \in {"queued", "granted"} =>
        /\ calls[d] = call[d] /\ Waiter(calls[d])
  BY <1>1 DEF FloorFacts, WaitTold
<1>5. g # <<>> => Cardinality(Flying(calls)) <= limits.max
  BY <1>1, <1>3 DEF FloorFacts, FlightTold, HasSlot
<1> HIDE DEF calls
<1>6. Proceed(calls, queue, g, used, limits.max) /\ Lists(g, calls, "granted")
  BY DEF calls
<1>7. SelectableClasses' = SelectableClasses
  BY DEF SelectableClasses, Classes
<1>8. \A d \in Call : \/ call'[d] = calls[d]
                      \/ /\ calls[d].stage = "queued"
                         /\ call'[d] = [calls[d] EXCEPT !.stage = "granted"]
  BY <1>1, <1>2, <1>3, <1>6, ProceedKeeps
<1>9. WaitTold'
  <2>1. ASSUME NEW d \in Call, call'[d].stage \in {"queued", "granted"}
        PROVE  Waiter(call'[d])
    <3>1. calls[d] \in Calls
      BY <1>2
    <3>2. CASE call'[d] = calls[d]
      BY <1>4, <2>1, <3>2
    <3>3. CASE calls[d].stage = "queued" /\ call'[d] = [calls[d] EXCEPT !.stage = "granted"]
      BY <1>4, <3>1, <3>3 DEF Waiter, Calls
    <3> QED BY <1>8, <3>2, <3>3
  <2> QED BY <1>7, <2>1 DEF WaitTold, Waiter
<1>10. granted' # <<>> => Cardinality(Flying(call')) <= limits.max
  BY <1>1, <1>2, <1>3, <1>5, <1>6, ProceedFlies
<1>11. FlightTold'
  BY <1>10, FlyingNext DEF FlightTold
<1> QED BY <1>9, <1>11

LEMMA SubmitWaits ==
  ASSUME FloorFacts, NEW c \in Call, NEW k, NEW p, NEW s, Submit(c, k, p, s)
  PROVE  (WaitTold /\ FlightTold)'
<1> DEFINE r == [Fresh EXCEPT !.class = k, !.priority = p, !.size = s]
           entered(stage) == [r EXCEPT !.stage = stage]
<1>1. /\ granted = <<>> /\ call[c].stage = "new" /\ UNCHANGED limits
      /\ k \in SelectableClasses
  BY DEF Submit, Turn, SelectableClasses
<1>2. \A stage : Waiter(entered(stage)) /\ entered(stage).stage = stage
  BY <1>1 DEF Waiter, Fresh
<1>3. \A stage : Outside(stage).stage = stage
  BY DEF Outside, Fresh
<1>4. \/ call' = [call EXCEPT ![c] = Outside(RefusedStage)] /\ UNCHANGED granted
      \/ call' = [call EXCEPT ![c] = entered("granted")] /\ InFlight < limits.max
      \/ call' = [call EXCEPT ![c] = entered("queued")] /\ UNCHANGED granted
  BY DEF Submit
<1> HIDE DEF entered
<1>5. CASE call' = [call EXCEPT ![c] = Outside(RefusedStage)] /\ UNCHANGED granted
  <2>1. Outside(RefusedStage).stage \notin {"queued", "granted"}
    BY <1>3, RefusedStageType
  <2> QED BY <1>1, <1>5, <2>1, OneCallWaits
<1>6. CASE call' = [call EXCEPT ![c] = entered("granted")] /\ InFlight < limits.max
  BY <1>1, <1>2, <1>6, OneCallWaits
<1>7. CASE call' = [call EXCEPT ![c] = entered("queued")] /\ UNCHANGED granted
  BY <1>1, <1>2, <1>7, OneCallWaits
<1> QED BY <1>4, <1>5, <1>6, <1>7

LEMMA PostcheckWaits ==
  ASSUME FloorFacts, Postcheck
  PROVE  (WaitTold /\ FlightTold)'
<1> DEFINE c == Head(granted)
           rest == Tail(granted)
<1>1. /\ call \in [Call -> Calls] /\ granted \in Seq(Call) /\ granted # <<>>
      /\ Lists(granted, call, "granted") /\ UNCHANGED limits
  BY DEF FloorFacts, Postcheck, CallFacts, PoolTypes, QueuesTold
<1>2. c \in Call /\ call[c].stage = "granted" /\ rest \in Seq(Call)
      /\ \A r : Lists(rest, [call EXCEPT ![c] = r], "granted")
  BY <1>1, TailLists
<1>3. call[c] \in Calls
  BY <1>1, <1>2
<1> HIDE DEF c, rest
<1>4. ASSUME NEW held, NEW borrows,
             call' = [call EXCEPT ![c].stage = "running", ![c].priority = Null,
                                  ![c].held = held, ![c].borrowed = borrows]
      PROVE  (WaitTold /\ FlightTold)'
  <2> DEFINE r == [call[c] EXCEPT !.stage = "running", !.priority = Null,
                                  !.held = held, !.borrowed = borrows]
  <2>1. call' = [call EXCEPT ![c] = r]
    BY <1>1, <1>2, <1>4
  <2>2. r.stage = "running"
    BY <1>3 DEF Calls
  <2> HIDE DEF r
  <2> QED BY <1>1, <1>2, <2>1, <2>2, OneCallWaits
<1>5. CASE Proceed([call EXCEPT ![c] = Outside(RefusedStage)], queue, rest,
                   InFlight - 1, limits.max)
  <2>1. /\ Outside(RefusedStage) \in Calls
        /\ Outside(RefusedStage).stage \notin {"queued", "granted", "running"}
    BY RefusedStageType, OutsideIsWelcome DEF Welcome, Outside, Fresh
  <2>2. HasSlot(c)
    BY <1>2 DEF HasSlot
  <2> QED BY <1>1, <1>2, <1>5, <2>1, <2>2, ProceedWaits
<1> QED BY <1>4, <1>5 DEF Postcheck, c, rest

LEMMA NextFloors == FloorFacts /\ [Next]_vars => (WaitTold /\ FlightTold)'
<1> SUFFICES ASSUME FloorFacts, [Next]_vars PROVE (WaitTold /\ FlightTold)'
  OBVIOUS
<1>1. /\ call \in [Call -> Calls] /\ queue \in Seq(Call) /\ granted \in Seq(Call)
      /\ Lists(queue, call, "queued") /\ Lists(granted, call, "granted")
      /\ limits.max \in Nat /\ InFlight \in Nat
  BY MaxType, InFlightType DEF FloorFacts, CallFacts, PoolTypes, QueuesTold
<1>2. \A stage \in {"ended", "bypassed"} :
        Outside(stage) \in Calls /\ Outside(stage).stage = stage
  BY OutsideIsWelcome DEF Welcome, Outside, Fresh
<1>3. ASSUME NEW c \in Call, LeaveQueue(c) PROVE (WaitTold /\ FlightTold)'
  <2>1. granted' = <<>> /\ UNCHANGED limits
    BY <1>3 DEF LeaveQueue, Turn
  <2>2. PICK stage \in {"ended", RefusedStage} : call' = [call EXCEPT ![c] = Outside(stage)]
    BY <1>3 DEF LeaveQueue
  <2>3. Outside(stage).stage \notin {"queued", "granted"}
    BY <1>2, RefusedStageType
  <2> QED BY <2>1, <2>2, <2>3, OneCallWaits
<1>4. ASSUME NEW c \in Call, NEW o, Report(c, o) PROVE (WaitTold /\ FlightTold)'
  <2>1. granted' = <<>> /\ UNCHANGED limits /\ call[c].stage \in {"running", "detached"}
    BY <1>4 DEF Report, Turn
  <2>2. PICK seen, left, held : call' = [call EXCEPT ![c].output = seen,
                                           ![c].remaining = left, ![c].held = held]
    BY <1>4 DEF Report
  <2> DEFINE r == [call[c] EXCEPT !.output = seen, !.remaining = left, !.held = held]
  <2>3. call' = [call EXCEPT ![c] = r]
    BY <1>1, <2>2
  <2>4. r.stage = call[c].stage
    BY <1>1 DEF Calls
  <2> HIDE DEF r
  <2> QED BY <2>1, <2>3, <2>4, OneCallWaits
<1>5. ASSUME NEW c \in Call, Deadline(c) PROVE (WaitTold /\ FlightTold)'
  <2> DEFINE r == [call[c] EXCEPT !.stage = "detached"]
  <2>1. granted = <<>> /\ UNCHANGED limits /\ call[c].stage = "running"
    BY <1>5 DEF Deadline, Turn
  <2>2. r \in Calls /\ r.stage = "detached"
    BY <1>1 DEF Calls, Stages
  <2>3. [call EXCEPT ![c].stage = "detached"] = [call EXCEPT ![c] = r]
    BY <1>1
  <2> HIDE DEF r
  <2>4. Proceed([call EXCEPT ![c] = r], queue, granted, InFlight - 1, limits.max)
    BY <1>5, <2>3 DEF Deadline
  <2>5. Lists(granted, [call EXCEPT ![c] = r], "granted") /\ HasSlot(c)
    BY <1>1, <2>1, ListsUndisturbed DEF HasSlot
  <2> QED BY <1>1, <2>1, <2>2, <2>4, <2>5, ProceedWaits
<1>6. ASSUME NEW c \in Call, Settle(c) PROVE (WaitTold /\ FlightTold)'
  <2> DEFINE used == IF HasSlot(c) THEN InFlight - 1 ELSE InFlight
  <2>1. granted = <<>> /\ UNCHANGED limits
        /\ call[c].stage \in {"running", "detached", "bypassed"}
    BY <1>6 DEF Settle, Turn
  <2>2. Proceed([call EXCEPT ![c] = Outside("ended")], queue, granted, used, limits.max)
    BY <1>6 DEF Settle
  <2>3. Lists(granted, [call EXCEPT ![c] = Outside("ended")], "granted")
    BY <1>1, <2>1, ListsUndisturbed
  <2> HIDE DEF used
  <2>4. used = IF HasSlot(c) THEN InFlight - 1 ELSE InFlight
    BY DEF used
  <2> QED BY <1>1, <1>2, <2>1, <2>2, <2>3, <2>4, ProceedWaits
<1>7. ASSUME NEW next \in Offers, NEW g, ApplyLimits(next, g)
      PROVE  (WaitTold /\ FlightTold)'
  <2>1. /\ granted = <<>> /\ limits' = next /\ DOMAIN next.slots = DOMAIN limits.slots
        /\ Proceed(call, queue, granted, InFlight, next.max) /\ next.max \in Nat
    BY <1>7, LimitsAssumption DEF ApplyLimits, Turn, ValidLimits
  <2>2. InFlight = Cardinality(Flying(call))
    BY FlyingCounts
  <2>3. SelectableClasses' = SelectableClasses
    BY <2>1 DEF SelectableClasses, Classes
  <2>4. ASSUME NEW d \in Call, call'[d].stage \in {"queued", "granted"}
        PROVE  Waiter(call'[d])
    <3>1. \/ call'[d] = call[d]
          \/ call[d].stage = "queued" /\ call'[d] = [call[d] EXCEPT !.stage = "granted"]
      <4>1. InFlight \in Int /\ next.max \in Int
        BY <1>1, <2>1
      <4> QED BY <1>1, <2>1, <4>1, ProceedKeeps
    <3> QED BY <1>1, <2>4, <3>1 DEF Waiter, WaitTold, FloorFacts, Calls
  <2>5. granted' # <<>> => Cardinality(Flying(call')) <= next.max
    BY <1>1, <2>1, <2>2, ProceedFlies
  <2> QED BY <2>1, <2>3, <2>4, <2>5, FlyingNext DEF WaitTold, Waiter, FlightTold
<1>8. CASE Drain
  <2>1. granted' = <<>> /\ UNCHANGED limits
    BY <1>8 DEF Drain, Turn
  <2>2. SelectableClasses' = SelectableClasses
    BY <2>1 DEF SelectableClasses, Classes
  <2>3. \A d \in Call : call'[d] = Outside("ended") \/ call'[d] = call[d]
    BY <1>8 DEF Drain
  <2> QED BY <1>2, <2>1, <2>2, <2>3 DEF WaitTold, Waiter, FlightTold, FloorFacts
<1>9. CASE DrainEnds \/ UNCHANGED vars
  <2>1. UNCHANGED <<limits, call, granted>>
    BY <1>9 DEF DrainEnds, vars
  <2> QED BY <2>1 DEF FloorFacts, WaitTold, Waiter, SelectableClasses, Classes,
                      FlightTold, InFlight, HasSlot
<1> QED BY <1>3, <1>4, <1>5, <1>6, <1>7, <1>8, <1>9, SubmitWaits, PostcheckWaits DEF Next

(* The call that is admitted takes its slot and its tokens from its class; *)
(* the other classes are used as before.                                   *)
Admitted(c) ==
  /\ granted # <<>> /\ UNCHANGED limits /\ ~ Refused(call[c], 1)
  /\ call' = [call EXCEPT ![c] = [call[c] EXCEPT
                !.stage = "running", !.priority = Null,
                !.held = Reserved(call[c]), !.borrowed = BorrowsSlot(call[c])]]

LEMMA AdmittedUses ==
  ASSUME FloorFacts, NEW c \in Call, call[c].stage = "granted", Admitted(c)
  PROVE  /\ Reserved(call[c]) \in Nat
         /\ TokenUse' = TokenUse + Reserved(call[c])
         /\ \A k : /\ SlotUseOf(k)' = SlotUseOf(k) + (IF k = call[c].class THEN 1 ELSE 0)
                   /\ TokenUseOf(k)' = TokenUseOf(k)
                        + (IF k = call[c].class THEN Reserved(call[c]) ELSE 0)
         /\ Cardinality(RunningCalls) \in Nat
         /\ Cardinality(RunningCalls)' = Cardinality(RunningCalls) + 1
         /\ Cardinality(RunningCalls) + 1 <= InFlight
<1> DEFINE q == Reserved(call[c])
           r == [call[c] EXCEPT !.stage = "running", !.priority = Null,
                                !.held = q, !.borrowed = BorrowsSlot(call[c])]
<1>1. call \in [Call -> Calls] /\ IsFiniteSet(Call)
  BY PoolAssumption DEF FloorFacts, CallFacts, PoolTypes
<1>2. call[c] \in Calls /\ call[c].held = 0 /\ call[c].size \in Sizes
  BY <1>1 DEF FloorFacts, CallFacts, HoldsTold, HoldTold, WaitTold, Waiter, Pooled
<1>3. q \in Nat
  BY <1>2, PoolAssumption DEF Reserved
<1> HIDE DEF q
<1>4. call' = [call EXCEPT ![c] = r]
  BY DEF Admitted, q
<1>5. r.stage = "running" /\ r.held = q /\ r.class = call[c].class
  BY <1>2 DEF Calls
<1> HIDE DEF r
<1>6. \A d \in Call : call'[d] = IF d = c THEN r ELSE call[d]
  BY <1>1, <1>4
<1>7. \A d \in Call : call[d].held \in Nat
  BY <1>1 DEF Calls
<1>8. TokenUse' = TokenUse + q
  <2> DEFINE f == [d \in Call |-> call[d].held]
             g == [d \in Call |-> call'[d].held]
  <2>1. f \in [Call -> Int] /\ g \in [Call -> Int]
    BY <1>3, <1>5, <1>6, <1>7
  <2>2. f[c] = 0 /\ g[c] = q /\ \A d \in Call : d # c => g[d] = f[d]
    BY <1>2, <1>5, <1>6
  <2>3. TokenUse = SumFunction(f) /\ TokenUse' = SumFunction(g)
    BY DEF TokenUse, Total
  <2> HIDE DEF f, g
  <2>4. SumFunction(g) = SumFunction(f) + (g[c] - f[c]) /\ SumFunction(f) \in Int
    BY <1>1, <2>1, <2>2, SumChanges, SumType
  <2> QED BY <1>3, <2>2, <2>3, <2>4
<1>9. ASSUME NEW k
      PROVE  TokenUseOf(k)' = TokenUseOf(k) + (IF k = call[c].class THEN q ELSE 0)
  <2> DEFINE f == [d \in Call |-> IF call[d].class = k THEN call[d].held ELSE 0]
             g == [d \in Call |-> IF call'[d].class = k THEN call'[d].held ELSE 0]
  <2>1. f \in [Call -> Int] /\ g \in [Call -> Int]
    BY <1>3, <1>5, <1>6, <1>7
  <2>2. /\ f[c] = 0 /\ g[c] = IF k = call[c].class THEN q ELSE 0
        /\ \A d \in Call : d # c => g[d] = f[d]
    BY <1>2, <1>5, <1>6
  <2>3. TokenUseOf(k) = SumFunction(f) /\ TokenUseOf(k)' = SumFunction(g)
    BY DEF TokenUseOf, Total
  <2> HIDE DEF f, g
  <2>4. SumFunction(g) = SumFunction(f) + (g[c] - f[c]) /\ SumFunction(f) \in Int
    BY <1>1, <2>1, <2>2, SumChanges, SumType
  <2> QED BY <1>3, <2>2, <2>3, <2>4
<1>10. ASSUME NEW k
       PROVE  SlotUseOf(k)' = SlotUseOf(k) + (IF k = call[c].class THEN 1 ELSE 0)
  <2> DEFINE S == {d \in Call : call[d].stage = "running" /\ call[d].class = k}
             T == {d \in Call : call'[d].stage = "running" /\ call'[d].class = k}
  <2>1. c \notin S /\ T = IF k = call[c].class THEN S \cup {c} ELSE S
    BY <1>5, <1>6
  <2>2. IsFiniteSet(S) /\ Cardinality(S) \in Nat
    BY <1>1, FS_Subset, FS_CardinalityType
  <2>3. SlotUseOf(k) = Cardinality(S) /\ SlotUseOf(k)' = Cardinality(T)
    BY DEF SlotUseOf
  <2> HIDE DEF S, T
  <2> QED BY <2>1, <2>2, <2>3, FS_AddElement, SMTT(30)
<1>11. /\ Cardinality(RunningCalls) \in Nat
       /\ Cardinality(RunningCalls)' = Cardinality(RunningCalls) + 1
       /\ Cardinality(RunningCalls) + 1 <= InFlight
  <2> DEFINE S == RunningCalls
             T == {d \in Call : call'[d].stage = "running"}
  <2>1. c \notin S /\ T = S \cup {c} /\ S \cup {c} \in SUBSET Flying(call)
    BY <1>5, <1>6 DEF RunningCalls, Flying
  <2>2. IsFiniteSet(S) /\ Cardinality(S) \in Nat
    BY <1>1, FS_Subset, FS_CardinalityType DEF RunningCalls
  <2>3. Cardinality(RunningCalls)' = Cardinality(T)
    BY DEF RunningCalls
  <2> HIDE DEF S, T
  <2>4. Cardinality(S \cup {c}) = Cardinality(S) + 1
    BY <2>1, <2>2, FS_AddElement
  <2>5. Cardinality(S \cup {c}) <= InFlight
    BY <2>1, FlyingCounts, FS_Subset
  <2> QED BY <2>1, <2>2, <2>3, <2>4, <2>5 DEF S
<1> QED BY <1>3, <1>8, <1>9, <1>10, <1>11 DEF q

(* What the class's floor has left shrinks by what is taken from it, and   *)
(* the floors of the others keep what they have.                           *)
LEMMA FloorsLeftChange ==
  ASSUME FloorFacts, NEW c \in Call, call[c].stage = "granted", Admitted(c),
         NEW k, k = call[c].class
  PROVE  /\ k \in Classes =>
              /\ SlotFloorsLeft' = SlotFloorsLeft
                   + (FloorLeft(SlotShare(k))' - FloorLeft(SlotShare(k)))
              /\ TokenFloorsLeft' = TokenFloorsLeft
                   + (FloorLeft(TokenShare(k))' - FloorLeft(TokenShare(k)))
              /\ FloorLeft(SlotShare(k)) \in Nat /\ FloorLeft(TokenShare(k)) \in Nat
              /\ FloorLeft(SlotShare(k))' = NonNegative(FloorLeft(SlotShare(k)) - 1)
              /\ FloorLeft(TokenShare(k))'
                   = NonNegative(FloorLeft(TokenShare(k)) - Reserved(call[c]))
         /\ k \notin Classes => SlotFloorsLeft' = 0 /\ TokenFloorsLeft' = 0
<1> DEFINE q == Reserved(call[c])
           f == [x \in Classes |-> FloorLeft(SlotShare(x))]
           g == [x \in Classes |-> FloorLeft(SlotShare(x))']
           s == [x \in Classes |-> FloorLeft(TokenShare(x))]
           t == [x \in Classes |-> FloorLeft(TokenShare(x))']
<1>1. limits \in AllLimits /\ call \in [Call -> Calls]
      /\ UNCHANGED limits /\ Classes' = Classes
  BY DEF FloorFacts, CallFacts, PoolTypes, Admitted, Classes
<1>2. /\ IsFiniteSet(Classes)
      /\ \A x \in Classes : /\ limits.slots[x].floor \in Nat /\ limits.tokens[x].floor \in Nat
                            /\ SlotUseOf(x) \in Nat /\ TokenUseOf(x) \in Nat
  BY <1>1, LimitsTyped, UseTyped
<1>3. /\ q \in Nat
      /\ \A x : /\ SlotUseOf(x)' = SlotUseOf(x) + (IF x = k THEN 1 ELSE 0)
                /\ TokenUseOf(x)' = TokenUseOf(x) + (IF x = k THEN q ELSE 0)
  BY AdmittedUses
<1> HIDE DEF q
<1>4. ASSUME NEW x \in Classes
      PROVE  /\ FloorLeft(SlotShare(x)) = NonNegative(limits.slots[x].floor - SlotUseOf(x))
             /\ FloorLeft(SlotShare(x))' = NonNegative(limits.slots[x].floor - SlotUseOf(x)')
             /\ FloorLeft(TokenShare(x)) = NonNegative(limits.tokens[x].floor - TokenUseOf(x))
             /\ FloorLeft(TokenShare(x))' = NonNegative(limits.tokens[x].floor - TokenUseOf(x)')
  BY <1>1 DEF FloorLeft, SlotShare, TokenShare, ShareOf
<1>5. \A x \in Classes : /\ f[x] \in Nat /\ g[x] \in Nat /\ s[x] \in Nat /\ t[x] \in Nat
                         /\ x # k => g[x] = f[x] /\ t[x] = s[x]
                         /\ x = k => /\ g[x] = NonNegative(f[x] - 1)
                                     /\ t[x] = NonNegative(s[x] - q)
  <2> SUFFICES ASSUME NEW x \in Classes
               PROVE  /\ f[x] \in Nat /\ g[x] \in Nat /\ s[x] \in Nat /\ t[x] \in Nat
                      /\ x # k => g[x] = f[x] /\ t[x] = s[x]
                      /\ x = k => /\ g[x] = NonNegative(f[x] - 1)
                                  /\ t[x] = NonNegative(s[x] - q)
    OBVIOUS
  <2>1. /\ f[x] = NonNegative(limits.slots[x].floor - SlotUseOf(x))
        /\ g[x] = NonNegative(limits.slots[x].floor - SlotUseOf(x)')
        /\ s[x] = NonNegative(limits.tokens[x].floor - TokenUseOf(x))
        /\ t[x] = NonNegative(limits.tokens[x].floor - TokenUseOf(x)')
    BY <1>4
  <2> HIDE DEF f, g, s, t
  <2> QED BY <1>2, <1>3, <2>1 DEF NonNegative
<1>6. /\ f \in [Classes -> Int] /\ g \in [Classes -> Int]
      /\ s \in [Classes -> Int] /\ t \in [Classes -> Int]
  BY <1>5
<1>7. /\ SlotFloorsLeft = SumFunction(f) /\ SlotFloorsLeft' = SumFunction(g)
      /\ TokenFloorsLeft = SumFunction(s) /\ TokenFloorsLeft' = SumFunction(t)
  BY <1>1 DEF SlotFloorsLeft, TokenFloorsLeft, Total
<1>8. \A x \in Classes : /\ f[x] = FloorLeft(SlotShare(x)) /\ g[x] = FloorLeft(SlotShare(x))'
                         /\ s[x] = FloorLeft(TokenShare(x)) /\ t[x] = FloorLeft(TokenShare(x))'
  OBVIOUS
<1> HIDE DEF f, g, s, t
<1>9. CASE k \in Classes
  <2>1. /\ SumFunction(g) = SumFunction(f) + (g[k] - f[k])
        /\ SumFunction(t) = SumFunction(s) + (t[k] - s[k])
    <3>1. SumFunction(g) = SumFunction(f) + (g[k] - f[k])
      BY <1>2, <1>5, <1>6, <1>9, SumChanges
    <3>2. SumFunction(t) = SumFunction(s) + (t[k] - s[k])
      BY <1>2, <1>5, <1>6, <1>9, SumChanges
    <3> QED BY <3>1, <3>2
  <2> QED BY <1>5, <1>7, <1>8, <1>9, <2>1 DEF q
<1>10. CASE k \notin Classes
  <2>1. Classes = {}
    <3>1. k \in SelectableClasses
      BY DEF FloorFacts, WaitTold, Waiter
    <3> QED BY <1>10, <3>1 DEF SelectableClasses
  <2>2. SumFunction(g) = 0 /\ SumFunction(t) = 0
    BY <1>2, <1>6, <2>1, SumOfNothing
  <2> QED BY <1>7, <1>10, <2>2
<1> QED BY <1>9, <1>10

(* The bulkhead's borrowing check.                                         *)
LEMMA AdmittedKeepsSlots ==
  ASSUME FloorFacts, NEW c \in Call, call[c].stage = "granted", Admitted(c),
         BorrowsSlot(call[c]) \/ SlotFloorsKept
  PROVE  SlotFloorsKept'
<1> SUFFICES ASSUME NEW k, k = call[c].class PROVE SlotFloorsKept'
  OBVIOUS
<1> DEFINE N == InFlight
           R == Cardinality(RunningCalls)
           M == limits.max
           F == FloorSum(limits.slots)
           U == FloorUseSum(SlotShares)
           L == SlotFloorsLeft
<1>1. limits \in AllLimits /\ call \in [Call -> Calls] /\ UNCHANGED limits
      /\ k \in SelectableClasses
  BY DEF FloorFacts, CallFacts, PoolTypes, Admitted, WaitTold, Waiter
<1>2. /\ N \in Nat /\ R \in Nat /\ M \in Nat /\ R + 1 <= N /\ N <= M
      /\ Cardinality(RunningCalls)' = R + 1
  BY <1>1, AdmittedUses, InFlightType, MaxType DEF FloorFacts, FlightTold, Admitted
<1>3. F \in Nat /\ U \in Nat /\ L \in Nat /\ L + U = F
  BY <1>1, FloorSumsTyped, FloorsAddUp
<1>4. /\ SlotFloorsKept <=> R + L <= M
      /\ SlotFloorsKept' <=> Cardinality(RunningCalls)' + L' <= M
  BY <1>1 DEF SlotFloorsKept, SlotFloorsLeft
<1>5. k # Null => k \in Classes
  BY <1>1 DEF SelectableClasses
<1>6. k \in Classes => k # Null
  BY <1>1, LimitsTyped, NullAssumption
<1>7. BorrowsSlot(call[c]) <=> k \in Classes /\ FloorLeft(SlotShare(k)) = 0
  BY <1>5, <1>6 DEF BorrowsSlot
<1>8. k \in Classes => /\ L' = L + (FloorLeft(SlotShare(k))' - FloorLeft(SlotShare(k)))
                       /\ FloorLeft(SlotShare(k)) \in Nat
                       /\ FloorLeft(SlotShare(k))' = NonNegative(FloorLeft(SlotShare(k)) - 1)
  BY FloorsLeftChange
<1>9. k \notin Classes => L' = 0
  BY FloorsLeftChange
<1>10. F > 0 /\ BorrowsSlot(call[c]) =>
         NonNegative(N - 1 - U) + 1 <= NonNegative(M - F)
  <2>1. ~ /\ call[c].class # Null /\ F > 0 /\ BorrowsSlot(call[c])
          /\ SharedOf(M, N - 1, SlotShares).use + 1 > NonNegative(M - F)
    BY DEF Admitted, Refused
  <2>2. SharedOf(M, N - 1, SlotShares).use = NonNegative(N - 1 - U)
    BY DEF SharedOf
  <2>3. BorrowsSlot(call[c]) => call[c].class # Null
    BY DEF BorrowsSlot
  <2> HIDE DEF N, M, F, U
  <2> QED BY <1>2, <1>3, <2>1, <2>2, <2>3 DEF NonNegative
<1> HIDE DEF N, R, M, F, U, L
<1>11. CASE k \notin Classes
  BY <1>2, <1>4, <1>9, <1>11
<1>12. CASE k \in Classes /\ FloorLeft(SlotShare(k)) = 0
  <2>1. L' = L
    BY <1>3, <1>8, <1>12 DEF NonNegative
  <2>2. BorrowsSlot(call[c])
    BY <1>7, <1>12
  <2> QED BY <1>2, <1>3, <1>4, <1>10, <2>1, <2>2 DEF NonNegative
<1>13. CASE k \in Classes /\ FloorLeft(SlotShare(k)) # 0
  <2>1. L' = L - 1
    BY <1>3, <1>8, <1>13 DEF NonNegative
  <2>2. SlotFloorsKept
    BY <1>7, <1>13
  <2> QED BY <1>2, <1>3, <1>4, <2>1, <2>2
<1> QED BY <1>11, <1>12, <1>13

LEMMA AdmittedKeepsTokens ==
  ASSUME FloorFacts, NEW c \in Call, call[c].stage = "granted", Admitted(c),
         BorrowsTokens(call[c]) > 0 \/ TokenFloorsKept
  PROVE  TokenFloorsKept'
<1> SUFFICES ASSUME limits.budget # Null, NEW k, k = call[c].class
             PROVE  TokenFloorsKept'
  BY DEF TokenFloorsKept, Admitted
<1> DEFINE q == Reserved(call[c])
           b == BorrowsTokens(call[c])
           E == EffectiveBudget(call[c].priority)
           B == limits.budget
           T == TokenUse
           G == FloorSum(limits.tokens)
           U == FloorUseSum(TokenShares)
           L == TokenFloorsLeft
<1>1. limits \in AllLimits /\ call \in [Call -> Calls] /\ UNCHANGED limits
      /\ k \in SelectableClasses
  BY DEF FloorFacts, CallFacts, PoolTypes, Admitted, WaitTold, Waiter
<1>2. /\ B \in Nat /\ limits.reserve \in Nat /\ T \in Nat /\ q \in Nat
      /\ TokenUse' = T + q
  BY <1>1, LimitsTyped, UseTyped, AdmittedUses
<1>3. G \in Nat /\ U \in Nat /\ L \in Nat /\ L + U = G
  BY <1>1, FloorSumsTyped, FloorsAddUp
<1>4. /\ TokenFloorsKept <=> T + L <= B
      /\ TokenFloorsKept' <=> TokenUse' + L' <= B
  BY <1>1 DEF TokenFloorsKept, TokenFloorsLeft
<1>5. E \in Nat /\ E <= B
  BY <1>2 DEF EffectiveBudget, NonNegative
<1>6. k # Null => k \in Classes
  BY <1>1 DEF SelectableClasses
<1>7. k \in Classes => k # Null
  BY <1>1, LimitsTyped, NullAssumption
<1>8. b = IF k \in Classes THEN NonNegative(q - FloorLeft(TokenShare(k))) ELSE 0
  BY <1>6, <1>7 DEF BorrowsTokens
<1>9. k \in Classes => /\ L' = L + (FloorLeft(TokenShare(k))' - FloorLeft(TokenShare(k)))
                       /\ FloorLeft(TokenShare(k)) \in Nat
                       /\ FloorLeft(TokenShare(k))' = NonNegative(FloorLeft(TokenShare(k)) - q)
                       /\ FloorLeft(TokenShare(k)) <= L
  <2>1. k \in Classes => FloorLeft(TokenShare(k)) <= L
    <3> DEFINE f == [x \in Classes |-> FloorLeft(TokenShare(x))]
    <3>1. f \in [Classes -> Nat] /\ IsFiniteSet(Classes)
      BY <1>1, FloorsLeftTyped, LimitsTyped
    <3> HIDE DEF f
    <3>2. \A x \in Classes : f[x] <= SumFunction(f)
      BY <3>1, SumOfNats
    <3> QED BY <3>2 DEF f, TokenFloorsLeft, Total
  <2> QED BY <2>1, FloorsLeftChange
<1>10. k \notin Classes => L' = 0
  BY FloorsLeftChange
<1>11. T + q <= E
  <2>1. ~ (T + q > E)
    BY DEF Admitted, Refused
  <2> QED BY <1>2, <1>5, <2>1
<1>12. k \in Classes /\ G > 0 /\ b > 0 => NonNegative(T - U) + b <= NonNegative(E - G)
  <2>1. ~ /\ k # Null /\ G > 0 /\ b > 0
          /\ SharedOf(B, T, TokenShares).use + b > NonNegative(E - G)
    BY DEF Admitted, Refused
  <2>2. SharedOf(B, T, TokenShares).use = NonNegative(T - U)
    BY DEF SharedOf
  <2>3. k \in Classes => b \in Int
    BY <1>2, <1>8, <1>9 DEF NonNegative
  <2> HIDE DEF q, b, E, B, T, G, U
  <2> QED BY <1>2, <1>3, <1>5, <1>7, <2>1, <2>2, <2>3 DEF NonNegative
<1> HIDE DEF q, b, E, B, T, G, U, L
<1>13. CASE k \notin Classes
  BY <1>2, <1>4, <1>5, <1>10, <1>11, <1>13
<1>14. CASE k \in Classes /\ b > 0
  <2>1. L' + q = L + b
    BY <1>2, <1>3, <1>8, <1>9, <1>14 DEF NonNegative
  <2>2. CASE G > 0
    BY <1>2, <1>3, <1>4, <1>5, <1>8, <1>9, <1>12, <1>14, <2>1, <2>2 DEF NonNegative
  <2>3. CASE ~ (G > 0)
    BY <1>2, <1>3, <1>4, <1>5, <1>8, <1>9, <1>11, <1>14, <2>1, <2>3 DEF NonNegative
  <2> QED BY <2>2, <2>3
<1>15. CASE k \in Classes /\ ~ (b > 0)
  <2>1. L' + q = L
    BY <1>2, <1>3, <1>8, <1>9, <1>15 DEF NonNegative
  <2>2. T + L <= B
    BY <1>4, <1>15 DEF b
  <2>3. TokenUse' + L' <= B
    BY <1>2, <1>3, <1>8, <1>9, <1>15, <2>1, <2>2 DEF NonNegative
  <2> QED BY <1>4, <2>3
<1> QED BY <1>13, <1>14, <1>15

(* Nobody is admitted where the others proceed.                            *)
LEMMA ProceedAdmitsNobody ==
  ASSUME NEW calls \in [Call -> Calls], NEW q, NEW g, NEW used, NEW max,
         Proceed(calls, q, g, used, max),
         NEW c \in Call, calls[c].stage # "running"
  PROVE  ~ Admits(c)
<1>1. calls[c] \in Calls
  OBVIOUS
<1>2. call'[c] = calls[c] \/ call'[c] = [calls[c] EXCEPT !.stage = "granted"]
  BY DEF Proceed
<1>3. call'[c].stage # "running"
  BY <1>1, <1>2 DEF Calls
<1> QED BY <1>3 DEF Admits

(* Only the postcheck admits.                                              *)
LEMMA OnlyPostcheckAdmits ==
  ASSUME FloorFacts, [Next]_vars, NEW c \in Call, Admits(c)
  PROVE  Admitted(c)
<1>1. /\ call \in [Call -> Calls] /\ granted \in Seq(Call)
      /\ Lists(granted, call, "granted") /\ limits \in AllLimits
      /\ call[c].stage = "granted" /\ call'[c].stage = "running"
  BY DEF FloorFacts, CallFacts, PoolTypes, QueuesTold, Admits
<1>2. \A stage \in {"ended", "bypassed"} :
        Outside(stage) \in Calls /\ Outside(stage).stage = stage
  BY OutsideIsWelcome DEF Welcome, Outside, Fresh
<1>3. ASSUME NEW d \in Call, call[d].stage # "granted", NEW r,
             call' = [call EXCEPT ![d] = r]
      PROVE  FALSE
  BY <1>1, <1>3
<1>4. ASSUME NEW d \in Call, NEW k, NEW p, NEW s, Submit(d, k, p, s) PROVE FALSE
  BY <1>3, <1>4 DEF Submit
<1>5. ASSUME NEW d \in Call, LeaveQueue(d) PROVE FALSE
  BY <1>3, <1>5 DEF LeaveQueue
<1>6. ASSUME NEW d \in Call, NEW o, Report(d, o) PROVE FALSE
  <2>1. call[d].stage # "granted"
    BY <1>6 DEF Report
  <2>2. d # c
    BY <1>1, <2>1
  <2>3. call'[c] = call[c]
    BY <1>1, <1>6, <2>2 DEF Report
  <2> QED BY <1>1, <2>3
<1>7. ASSUME NEW d \in Call, Deadline(d) PROVE FALSE
  <2> DEFINE calls == [call EXCEPT ![d].stage = "detached"]
  <2>1. call[d].stage = "running" /\ call[d] \in Calls
    BY <1>1, <1>7 DEF Deadline
  <2>2. calls \in [Call -> Calls] /\ calls[c].stage = "granted"
    BY <1>1, <2>1 DEF Calls, Stages
  <2>3. PICK q, g, used, max : Proceed(calls, q, g, used, max)
    BY <1>7 DEF Deadline
  <2> HIDE DEF calls
  <2> QED BY <2>2, <2>3, ProceedAdmitsNobody
<1>8. ASSUME NEW d \in Call, Settle(d) PROVE FALSE
  <2> DEFINE calls == [call EXCEPT ![d] = Outside("ended")]
  <2>1. call[d].stage # "granted"
    BY <1>8 DEF Settle
  <2>2. calls \in [Call -> Calls] /\ calls[c].stage = "granted"
    BY <1>1, <1>2, <2>1
  <2>3. PICK q, g, used, max : Proceed(calls, q, g, used, max)
    BY <1>8 DEF Settle
  <2> HIDE DEF calls
  <2> QED BY <2>2, <2>3, ProceedAdmitsNobody
<1>9. ASSUME NEW next \in Offers, NEW g, ApplyLimits(next, g) PROVE FALSE
  <2>1. PICK q, h, used, max : Proceed(call, q, h, used, max)
    BY <1>9 DEF ApplyLimits
  <2> QED BY <1>1, <2>1, ProceedAdmitsNobody
<1>10. CASE Drain
  <2>1. call'[c] = call[c]
    BY <1>1, <1>10 DEF Drain
  <2> QED BY <1>1, <2>1
<1>11. CASE DrainEnds \/ UNCHANGED vars
  <2>1. call' = call
    BY <1>11 DEF DrainEnds, vars
  <2> QED BY <1>1, <2>1
<1>12. CASE Postcheck
  <2> DEFINE d == Head(granted)
             r == [call[d] EXCEPT !.stage = "running", !.priority = Null,
                     !.held = Reserved(call[d]), !.borrowed = BorrowsSlot(call[d])]
             out == [call EXCEPT ![d] = Outside(RefusedStage)]
  <2>1. granted # <<>> /\ UNCHANGED limits
    BY <1>12 DEF Postcheck
  <2>2. d \in Call
    BY <1>1, <2>1, TailLists
  <2>3. ASSUME NEW q, NEW g, NEW used, NEW max, Proceed(out, q, g, used, max) PROVE FALSE
    <3>1. out \in [Call -> Calls] /\ out[c].stage # "running"
      BY <1>1, <1>2, <2>2, RefusedStageType
    <3> HIDE DEF out
    <3> QED BY <2>3, <3>1, ProceedAdmitsNobody
  <2>4. /\ ~ Refused(call[d], 1)
        /\ call' = [call EXCEPT ![d].stage = "running", ![d].priority = Null,
                                ![d].held = Reserved(call[d]),
                                ![d].borrowed = BorrowsSlot(call[d])]
    BY <1>12, <2>3 DEF Postcheck
  <2>5. call' = [call EXCEPT ![d] = r]
    BY <1>1, <2>2, <2>4
  <2>6. d = c
    BY <1>1, <2>2, <2>5
  <2> QED BY <2>1, <2>4, <2>5, <2>6 DEF Admitted
<1> QED BY <1>4, <1>5, <1>6, <1>7, <1>8, <1>9, <1>10, <1>11, <1>12 DEF Next

LEMMA FloorInvariant == Spec => []FloorFacts
<1>1. Init => FloorFacts
  <2>1. Init => WaitTold /\ FlightTold
    BY DEF Init, WaitTold, FlightTold, Fresh
  <2> QED BY <2>1, InitCalls, InitLimits DEF FloorFacts
<1>2. FloorFacts /\ [Next]_vars => FloorFacts'
  BY NextCalls, NextLimits, NextFloors DEF FloorFacts
<1> QED BY <1>1, <1>2, PTL DEF Spec

(* createPool, the bulkhead's admission check: whichever limits came since *)
(* its slot was granted and however many slots were granted with it, a     *)
(* call that is admitted leaves every class what its floors still promise. *)
THEOREM AdmissionsKeepFloors == Spec => UnusedFloorsKept
<1>1. ASSUME FloorFacts, [Next]_vars, NEW c \in Call, Admits(c)
      PROVE  /\ call'[c].borrowed \/ SlotFloorsKept => SlotFloorsKept'
             /\ BorrowsTokens(call[c]) > 0 \/ TokenFloorsKept => TokenFloorsKept'
  <2>1. Admitted(c) /\ call[c].stage = "granted"
    BY <1>1, OnlyPostcheckAdmits DEF Admits
  <2>2. call[c] \in Calls /\ call \in [Call -> Calls]
    BY <1>1 DEF FloorFacts, CallFacts, PoolTypes
  <2>3. call'[c].borrowed = BorrowsSlot(call[c])
    BY <2>1, <2>2 DEF Admitted, Calls
  <2> QED BY <1>1, <2>1, <2>3, AdmittedKeepsSlots, AdmittedKeepsTokens
<1> DEFINE Kept ==
      \A c \in Call : Admits(c) =>
        /\ call'[c].borrowed \/ SlotFloorsKept => SlotFloorsKept'
        /\ BorrowsTokens(call[c]) > 0 \/ TokenFloorsKept => TokenFloorsKept'
<1>2. FloorFacts /\ [Next]_vars => [Kept]_vars
  BY <1>1
<1> HIDE DEF Kept
<1>3. UnusedFloorsKept <=> [][Kept]_vars
  BY DEF UnusedFloorsKept, Kept
<1> QED BY <1>2, <1>3, FloorInvariant, PTL DEF Spec
=============================================================================
