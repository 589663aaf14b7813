------------------------ MODULE RequestIngressProofs -----------------------
(***************************************************************************)
(* What verification owes to the rotation of keys, and a forwarded request *)
(* to its first replica, for all documents, policies, tokens and times.    *)
(***************************************************************************)
EXTENDS RequestIngress, TLAPS

Loads == [stage: {"asking", "reading"}, doc: Documents \cup {Null}, waited: Nat]

IngressTypes ==
  /\ policy \in Policies /\ published \in Documents
  /\ cache \in [keys: SUBSET UNION Documents, left: 0 .. CacheTtl]
  /\ load \in Loads \cup {Null}
  /\ request \in [Request -> [arrival: Arrivals, waited: Nat] \cup {Null}]
  /\ \A r \in Waiting : Readable(request[r].arrival.token)
  /\ gone \in [Key -> Nat] /\ present \in [Key -> Nat]

(* No load outlives its deadline; a document is read once it has come.     *)
LoadInTime ==
  load # Null =>
    /\ load.stage = "asking" => load.waited <= RequestTimeout
    /\ load.stage = "reading" => load.waited <= BodyTime /\ load.doc \in Documents

(* How long ago the provider can have answered the load in flight.         *)
SinceAnswer == load.waited + (IF load.stage = "asking" THEN 0 ELSE RequestTimeout)

(* The two histories tell what is published now from what is not.          *)
PublicationTold ==
  \A k \in Key : IF Carries(published, k) THEN gone[k] = 0 ELSE present[k] = 0

(* What a document on its way carries was published when it was answered,  *)
(* and what it does not carry was not.                                     *)
DocumentTold ==
  load # Null /\ load.doc \in Documents =>
    \A k \in Key : IF Carries(load.doc, k) THEN gone[k] <= SinceAnswer
                   ELSE present[k] <= SinceAnswer

(* A cached key is as old as its document was when it came, and the time   *)
(* it is cached for.                                                       *)
CacheTold ==
  cache.left > 0 =>
    \A e \in cache.keys : gone[e.key] <= CacheTtl - cache.left + LoadTime

TellsTime == LoadInTime /\ PublicationTold /\ DocumentTold /\ CacheTold

(* What was decided in the last step was decided rightly.                  *)
DecidedRightly == RevokedKeyLapses /\ PublishedKeyFound /\ HopKeepsDecision

IInv == IngressTypes /\ TellsTime /\ DecidedRightly

---------------------------------------------------------------------------
LEMMA MinOfTwo ==
  ASSUME NEW m \in Int, NEW n \in Int
  PROVE  Min({m, n}) = IF m <= n THEN m ELSE n
<1>1. \E x \in {m, n} : \A y \in {m, n} : x <= y
  OBVIOUS
<1> QED BY <1>1 DEF Min

LEMMA MaxOfTwo ==
  ASSUME NEW m \in Int, NEW n \in Int
  PROVE  Max({m, n}) = IF m >= n THEN m ELSE n
<1>1. \E x \in {m, n} : \A y \in {m, n} : x >= y
  OBVIOUS
<1> QED BY <1>1 DEF Max

---------------------------------------------------------------------------
(* Decisions.                                                              *)

(* What of a decision the hop must keep.                                   *)
HopKeeps(d) ==
  LET seen == [d.arrival EXCEPT !.routing = ForwardedHeaders(d)] IN
  /\ Classify(seen.routing) = "internal"
  /\ Priorities(seen, d.identity) = {d.priority}
  /\ ClassChoices(seen, d.identity) = {d.class}

(* A decision made on keys of a document: its key is in it, or is missing. *)
MadeOn(d, keys) ==
  /\ d.verdict \in {"passed", "forbidden"} =>
       d.arrival.token # Null /\ \E e \in keys : e.key = d.arrival.token.key
  /\ d.verdict = "unknown key" =>
       d.arrival.token # Null /\ Matching(keys, d.arrival.token) = {}
  /\ d.verdict = "passed" => HopKeeps(d)

LEMMA PriorityIsOneOfTwo ==
  ASSUME NEW arrival \in Arrivals, NEW identity, NEW p \in Priorities(arrival, identity)
  PROVE  p \in {"normal", "high"}
<1>1. Classify(arrival.routing) = "internal" => arrival.routing.priority \in {"normal", "high"}
  BY DEF Classify
<1> QED BY <1>1, ArrivalAssumption DEF Priorities

(* Whatever gave a request its class, a request without one comes from a   *)
(* gateway without classes, and there the peer finds none either.          *)
LEMMA ClasslessStaysClassless ==
  ASSUME NEW arrival \in Arrivals, NEW identity, Null \in ClassChoices(arrival, identity)
  PROVE  ResolveClass(policy.classes, identity) = Null
  BY NullAssumption DEF ClassChoices, Assigned

LEMMA EntitledHopKeeps ==
  ASSUME policy \in Policies,
         NEW q, q.arrival \in Arrivals, NEW identity, NEW d,
         d \in Entitled(q, identity)
  PROVE  /\ d.arrival = q.arrival /\ d.verdict \in {"passed", "failed"}
         /\ d.verdict = "passed" => HopKeeps(d)
<1>1. PICK p \in Priorities(q.arrival, identity), c \in ClassChoices(q.arrival, identity) :
        d = Decision(q, identity, p, c)
  BY DEF Entitled
<1>2. /\ d.arrival = q.arrival /\ d.identity = identity /\ d.priority = p /\ d.class = c
      /\ d.verdict = IF Configured(c) THEN "passed" ELSE "failed"
  BY <1>1 DEF Decision, Verdict
<1>3. p \in {"normal", "high"}
  BY PriorityIsOneOfTwo
<1>4. c = Null => ResolveClass(policy.classes, identity) = Null
  BY ClasslessStaysClassless
<1> DEFINE seen == [d.arrival EXCEPT !.routing = ForwardedHeaders(d)]
<1>5. seen.routing = ForwardedHeaders(d)
  BY <1>2, ArrivalAssumption
<1>6. SUFFICES ASSUME Configured(c) PROVE HopKeeps(d)
  BY <1>2
<1>7. c \in Class \cup {Null}
  BY <1>6, PolicyAssumption DEF Configured
<1>8. ForwardedHeaders(d) # Null
  BY <1>2, <1>3, <1>7, NullAssumption DEF ForwardedHeaders
<1>9. /\ seen.routing.token = Secret /\ seen.routing.hop = "1"
      /\ seen.routing.source = "peer"
      /\ seen.routing.priority = p /\ seen.routing.class = c
  BY <1>2, <1>5 DEF ForwardedHeaders
<1>10. Classify(seen.routing) = "internal"
  BY <1>3, <1>5, <1>8, <1>9, NullAssumption DEF Classify
<1>11. Priorities(seen, d.identity) = {d.priority}
  BY <1>2, <1>9, <1>10 DEF Priorities
<1>12. ClassChoices(seen, d.identity) = {d.class}
  BY <1>2, <1>4, <1>9, <1>10 DEF ClassChoices, Assigned
<1> QED BY <1>10, <1>11, <1>12 DEF HopKeeps

(* find(): a token passes on the key it was signed with, and is refused    *)
(* for want of a key only when no key matches.                             *)
LEMMA VerifiedOnKeys ==
  ASSUME policy \in Policies, NEW q, q.arrival \in Arrivals, Readable(q.arrival.token),
         NEW keys, NEW d, d \in Verified(q, keys)
  PROVE  d.arrival = q.arrival /\ MadeOn(d, keys)
<1> DEFINE token == q.arrival.token
           entries == Matching(keys, token)
<1>1. token # Null
  BY DEF Readable
<1>2. CASE entries = {}
  <2>1. d = Verdict(q, "unknown key")
    BY <1>2 DEF Verified
  <2> QED BY <1>1, <1>2, <2>1 DEF Verdict, MadeOn
<1>3. CASE entries # {} /\ (\/ Cardinality(entries) # 1
                           \/ ~ Signed(entries, token)
                           \/ ~ ClaimsHold(token, q.waited)
                           \/ ~ HasIdentity(token))
  <2>1. d = Verdict(q, "unauthorized")
    BY <1>3 DEF Verified
  <2> QED BY <2>1 DEF Verdict, MadeOn
<1>4. CASE entries # {} /\ Signed(entries, token) /\ ClaimsHold(token, q.waited)
           /\ HasIdentity(token) /\ Cardinality(entries) = 1
  <2>1. \E e \in keys : e.key = token.key
    BY <1>4 DEF Signed, Matching
  <2>2. CASE ~ Invoked(token.claims)
    <3>1. d = Verdict(q, "forbidden")
      BY <1>4, <2>2 DEF Verified
    <3> QED BY <1>1, <2>1, <3>1 DEF Verdict, MadeOn
  <2>3. CASE Invoked(token.claims)
    <3>1. d \in Entitled(q, token.claims)
      BY <1>4, <2>3 DEF Verified
    <3> QED BY <1>1, <2>1, <3>1, EntitledHopKeeps DEF MadeOn
  <2> QED BY <2>2, <2>3
<1> QED BY <1>2, <1>3, <1>4

---------------------------------------------------------------------------
(* What a decision owes to the documents and to the peer it is sent to.    *)
Right(d) ==
  /\ Authenticated(d) => gone[d.arrival.token.key] <= CacheTtl + LoadTime
  /\ d.verdict = "unknown key" /\ Genuine(d.arrival.token)
       => present[d.arrival.token.key] <= LoadTime
  /\ d.verdict = "passed" => HopKeeps(d)

(* The hop depends on the configuration alone.                             *)
LEMMA HopStays ==
  ASSUME policy' = policy, NEW d, HopKeeps(d)
  PROVE  HopKeeps(d)'
  BY DEF HopKeeps, Classify, Priorities, ClassChoices, Assigned, ResolveClass,
         ForwardedHeaders

LEMMA RightStays ==
  ASSUME UNCHANGED <<policy, gone, present>>, NEW d, Right(d)
  PROVE  Right(d)'
  BY HopStays DEF Right, Authenticated, Genuine, Matching

LEMMA DecidesRightly ==
  ASSUME UNCHANGED <<policy, gone, present>>, \A d \in decided' : Right(d)
  PROVE  DecidedRightly'
<1>1. \A d \in decided' : Right(d)'
  BY RightStays
<1> QED BY <1>1 DEF DecidedRightly, Right, RevokedKeyLapses, PublishedKeyFound,
                    HopKeepsDecision, HopKeeps

(* A verdict that lets nobody in and misses no key owes nothing.           *)
LEMMA RefusalIsRight ==
  ASSUME NEW d, d.verdict \in {"unauthorized", "unavailable", "failed"}
  PROVE  Right(d)
  BY DEF Right, Authenticated

(* ... nor does what is let in without an identity, but to the peer.       *)
LEMMA EntitledIsRight ==
  ASSUME policy \in Policies, ~ policy.identity,
         NEW q, q.arrival \in Arrivals, NEW d, d \in Entitled(q, Null)
  PROVE  Right(d)
<1>1. d.verdict \in {"passed", "failed"} /\ (d.verdict = "passed" => HopKeeps(d))
  BY EntitledHopKeeps
<1> QED BY <1>1 DEF Right, Authenticated

(* What was decided on keys that are young enough is right.                *)
LEMMA VerifiedIsRight ==
  ASSUME policy \in Policies, NEW q, q.arrival \in Arrivals, Readable(q.arrival.token),
         NEW keys, NEW d, d \in Verified(q, keys),
         \A e \in keys : gone[e.key] <= CacheTtl + LoadTime,
         Matching(keys, q.arrival.token) = {} /\ Genuine(q.arrival.token)
           => present[q.arrival.token.key] <= LoadTime
  PROVE  Right(d)
<1>1. d.arrival = q.arrival /\ MadeOn(d, keys)
  BY VerifiedOnKeys
<1> QED BY <1>1 DEF Right, Authenticated, MadeOn

(* find(): a fresh cache that has a key is young enough.                   *)
LEMMA ArriveDecidesRightly ==
  ASSUME IInv, NEW r \in Request, NEW arrival \in Arrivals, Arrive(r, arrival)
  PROVE  DecidedRightly'
<1> DEFINE q == [arrival |-> arrival, waited |-> 0]
<1>1. q.arrival \in Arrivals /\ q.arrival = arrival
  OBVIOUS
<1>2. policy \in Policies /\ UNCHANGED <<policy, gone, present>>
  BY DEF Arrive, IInv, IngressTypes
<1>3. SUFFICES \A d \in decided' : Right(d)
  BY <1>2, DecidesRightly
<1>4. CASE Classify(arrival.routing) = "invalid"
  <2>1. decided' = {Verdict(q, "unauthorized")}
    BY <1>4 DEF Arrive
  <2> QED BY <2>1, RefusalIsRight DEF Verdict
<1>5. CASE Classify(arrival.routing) # "invalid" /\ ~ policy.identity
  <2>1. PICK d \in Entitled(q, Null) : decided' = {d}
    BY <1>5 DEF Arrive
  <2> HIDE DEF q
  <2> QED BY <1>1, <1>2, <1>5, <2>1, EntitledIsRight
<1>6. CASE Classify(arrival.routing) # "invalid" /\ policy.identity /\ ~ Readable(arrival.token)
  <2>1. decided' = {Verdict(q, "unauthorized")}
    BY <1>6 DEF Arrive
  <2> QED BY <2>1, RefusalIsRight DEF Verdict
<1>7. CASE /\ Classify(arrival.routing) # "invalid" /\ policy.identity
           /\ Readable(arrival.token) /\ KeysKnown(arrival.token)
  <2>1. PICK d \in Verified(q, cache.keys) : decided' = {d}
    BY <1>7 DEF Arrive
  <2>2. \A e \in cache.keys : gone[e.key] <= CacheTtl + LoadTime
    <3>1. \A e \in cache.keys : gone[e.key] \in Nat
      BY DocumentAssumption DEF IInv, IngressTypes
    <3> QED BY <1>7, <3>1, IngressAssumption
            DEF KeysKnown, IInv, IngressTypes, TellsTime, CacheTold, LoadTime
  <2>3. Matching(cache.keys, arrival.token) # {}
    BY <1>7 DEF KeysKnown
  <2> HIDE DEF q
  <2> QED BY <1>1, <1>2, <1>7, <2>1, <2>2, <2>3, VerifiedIsRight
<1>8. CASE /\ Classify(arrival.routing) # "invalid" /\ policy.identity
           /\ Readable(arrival.token) /\ ~ KeysKnown(arrival.token)
  BY <1>8 DEF Arrive
<1> QED BY <1>4, <1>5, <1>6, <1>7, <1>8

(* A document carries no matching key although its provider names keys as  *)
(* tokens do: then it does not carry the key at all.                       *)
LEMMA MissingIsNotCarried ==
  ASSUME NEW doc \in Documents, NEW token, Genuine(token),
         Matching(Usable(doc), token) = {}
  PROVE  ~ Carries(doc, token.key)
<1>1. SUFFICES ASSUME NEW e \in Usable(doc), e.key = token.key PROVE FALSE
  BY DEF Carries
<1>2. Matching({e}, token) # {}
  BY <1>1 DEF Genuine
<1> QED BY <1>1, <1>2 DEF Matching

(* #load(): what everyone who waited learns from the document.             *)
LEMMA LoadedDecidesRightly ==
  ASSUME IInv, Loaded
  PROVE  DecidedRightly'
<1> DEFINE keys == Usable(load.doc)
<1>1. policy \in Policies /\ UNCHANGED <<policy, gone, present>>
  BY DEF Loaded, IInv, IngressTypes
<1>2. load \in Loads /\ load # Null /\ load.stage = "reading" /\ load.doc \in Documents
  BY DEF Loaded, IInv, IngressTypes, TellsTime, LoadInTime
<1>3. SinceAnswer <= LoadTime
  BY <1>2, IngressAssumption
     DEF IInv, TellsTime, LoadInTime, SinceAnswer, LoadTime, Loads
<1>4. \A k \in Key : IF Carries(load.doc, k) THEN gone[k] <= LoadTime
                     ELSE present[k] <= LoadTime
  <2>1. \A k \in Key : gone[k] \in Nat /\ present[k] \in Nat
    BY DEF IInv, IngressTypes
  <2>2. SinceAnswer \in Int /\ LoadTime \in Int
    BY <1>2, IngressAssumption DEF SinceAnswer, LoadTime, Loads
  <2> QED BY <1>2, <1>3, <2>1, <2>2 DEF IInv, TellsTime, DocumentTold
<1>5. \A e \in keys : gone[e.key] <= CacheTtl + LoadTime
  <2>1. SUFFICES ASSUME NEW e \in keys PROVE gone[e.key] <= CacheTtl + LoadTime
    OBVIOUS
  <2>2. e.key \in Key
    BY <1>2, DocumentAssumption DEF Usable
  <2>3. Carries(load.doc, e.key)
    BY DEF Carries
  <2> QED BY <1>4, <2>2, <2>3, IngressAssumption DEF IInv, IngressTypes, LoadTime
<1>6. SUFFICES ASSUME NEW r \in Waiting, NEW d, d \in Verified(request[r], keys)
               PROVE  Right(d)
  <2>1. \A d \in decided' : \E r \in Waiting : d \in Verified(request[r], keys)
    BY DEF Loaded
  <2> QED BY <1>1, <2>1, DecidesRightly
<1>7. request[r].arrival \in Arrivals /\ Readable(request[r].arrival.token)
  BY DEF IInv, IngressTypes, Waiting
<1>8. ASSUME Matching(keys, request[r].arrival.token) = {},
             Genuine(request[r].arrival.token)
      PROVE  present[request[r].arrival.token.key] <= LoadTime
  <2>1. request[r].arrival.token.key \in Key
    BY <1>7, ArrivalAssumption DEF Readable
  <2> QED BY <1>2, <1>4, <1>8, <2>1, MissingIsNotCarried
<1> QED BY <1>1, <1>5, <1>6, <1>7, <1>8, VerifiedIsRight

LEMMA LoadFailsDecidesRightly ==
  ASSUME IInv, LoadFails
  PROVE  DecidedRightly'
<1>1. \A d \in decided' : d.verdict = "unavailable"
  BY DEF LoadFails, Verdict
<1>2. UNCHANGED <<policy, gone, present>>
  BY DEF LoadFails
<1> QED BY <1>1, <1>2, RefusalIsRight, DecidesRightly

(* A step that decides nothing.                                            *)
LEMMA UndecidedIsRight ==
  ASSUME decided' = {}
  PROVE  DecidedRightly'
  BY DEF DecidedRightly, RevokedKeyLapses, PublishedKeyFound, HopKeepsDecision

---------------------------------------------------------------------------
(* Time.                                                                   *)

LEMMA ArriveTells ==
  ASSUME IngressTypes, TellsTime, NEW r \in Request, NEW arrival \in Arrivals,
         Arrive(r, arrival)
  PROVE  IngressTypes' /\ TellsTime'
<1> DEFINE q == [arrival |-> arrival, waited |-> 0]
<1>1. UNCHANGED <<policy, published, cache, gone, present>>
  BY DEF Arrive
<1>2. \/ UNCHANGED <<load, request>>
      \/ Refresh /\ request' = [request EXCEPT ![r] = q] /\ Readable(q.arrival.token)
  BY DEF Arrive
<1>3. CASE UNCHANGED <<load, request>>
  BY <1>1, <1>3 DEF IngressTypes, TellsTime, LoadInTime, PublicationTold,
     DocumentTold, CacheTold, SinceAnswer, Waiting, Carries, Usable, Readable
<1>4. CASE Refresh /\ request' = [request EXCEPT ![r] = q] /\ Readable(q.arrival.token)
  <2>1. \/ load # Null /\ load' = load
        \/ load = Null /\ load' = [stage |-> "asking", doc |-> Null, waited |-> 0]
    BY <1>4 DEF Refresh
  <2>2. load' \in Loads \cup {Null} /\ LoadInTime' /\ DocumentTold'
    BY <1>1, <2>1, NullAssumption, IngressAssumption
       DEF IngressTypes, TellsTime, Loads, LoadInTime, DocumentTold, SinceAnswer,
           Carries, Usable
  <2>3. /\ request' \in [Request -> [arrival: Arrivals, waited: Nat] \cup {Null}]
        /\ \A x \in Waiting' : Readable(request'[x].arrival.token)
    BY <1>4 DEF IngressTypes, Waiting
  <2>4. PublicationTold' /\ CacheTold'
    BY <1>1 DEF TellsTime, PublicationTold, CacheTold, Carries, Usable
  <2> QED BY <1>1, <2>2, <2>3, <2>4 DEF IngressTypes, TellsTime, Readable
<1> QED BY <1>2, <1>3, <1>4

LEMMA SampleTells ==
  ASSUME IngressTypes, TellsTime, Sample
  PROVE  IngressTypes' /\ TellsTime'
<1>1. /\ UNCHANGED <<policy, published, cache, request, gone, present>>
      /\ load # Null /\ load.stage = "asking" /\ load' = [load EXCEPT !.doc = published]
  BY DEF Sample
<1>2. IngressTypes'
  BY <1>1 DEF IngressTypes, Loads, Waiting, Readable
<1>3. LoadInTime' /\ PublicationTold' /\ CacheTold'
  BY <1>1 DEF IngressTypes, Loads, TellsTime, LoadInTime, PublicationTold, CacheTold,
              Carries, Usable
<1>4. DocumentTold'
  <2>1. load'.doc = published /\ SinceAnswer' \in Nat
    BY <1>1, IngressAssumption DEF IngressTypes, Loads, SinceAnswer
  <2>2. \A k \in Key : IF Carries(published, k) THEN gone'[k] = 0 ELSE present'[k] = 0
    BY <1>1 DEF TellsTime, PublicationTold
  <2>3. \A k \in Key : Carries(load.doc, k)' <=> Carries(published, k)
    BY <2>1 DEF Carries, Usable
  <2> QED BY <2>1, <2>2, <2>3 DEF DocumentTold
<1> QED BY <1>2, <1>3, <1>4 DEF TellsTime

LEMMA HeadersTell ==
  ASSUME IngressTypes, TellsTime, HeadersArrive
  PROVE  IngressTypes' /\ TellsTime'
<1>1. /\ UNCHANGED <<policy, published, cache, request, gone, present>>
      /\ load \in Loads /\ load # Null /\ load.stage = "asking" /\ load.doc \in Documents
      /\ load' = [load EXCEPT !.stage = "reading", !.waited = 0]
  BY DEF HeadersArrive, IngressTypes, Loads
<1>2. IngressTypes'
  BY <1>1 DEF IngressTypes, Loads, Waiting, Readable
<1>3. LoadInTime' /\ PublicationTold' /\ CacheTold'
  BY <1>1, IngressAssumption
     DEF Loads, TellsTime, LoadInTime, PublicationTold, CacheTold, Carries, Usable
<1>4. DocumentTold'
  <2>1. SinceAnswer \in Nat /\ SinceAnswer' = RequestTimeout /\ SinceAnswer <= RequestTimeout
    BY <1>1, IngressAssumption DEF Loads, SinceAnswer, TellsTime, LoadInTime
  <2>2. \A k \in Key : gone[k] \in Nat /\ present[k] \in Nat
    BY DEF IngressTypes
  <2>3. load'.doc = load.doc
    BY <1>1 DEF Loads
  <2>4. \A k \in Key : Carries(load.doc, k)' <=> Carries(load.doc, k)
    BY <2>3 DEF Carries, Usable
  <2>5. \A k \in Key : IF Carries(load.doc, k) THEN gone[k] <= SinceAnswer
                       ELSE present[k] <= SinceAnswer
    BY <1>1 DEF TellsTime, DocumentTold
  <2> QED BY <1>1, <2>1, <2>2, <2>4, <2>5, IngressAssumption DEF DocumentTold
<1> QED BY <1>2, <1>3, <1>4 DEF TellsTime

LEMMA LoadedTells ==
  ASSUME IngressTypes, TellsTime, Loaded
  PROVE  IngressTypes' /\ TellsTime'
<1>1. /\ UNCHANGED <<policy, published, gone, present>>
      /\ load \in Loads /\ load # Null /\ load.stage = "reading" /\ load.doc \in Documents
      /\ cache' = [keys |-> Usable(load.doc), left |-> CacheTtl]
      /\ load' = Null /\ request' = Nobody
  BY DEF Loaded, IngressTypes, TellsTime, LoadInTime
<1>2. IngressTypes'
  BY <1>1, IngressAssumption DEF IngressTypes, Usable, Nobody, Waiting
<1>3. LoadInTime' /\ PublicationTold' /\ DocumentTold'
  BY <1>1 DEF TellsTime, LoadInTime, PublicationTold, DocumentTold, Carries, Usable
<1>4. CacheTold'
  <2>1. SinceAnswer \in Int /\ SinceAnswer <= LoadTime /\ LoadTime \in Nat
    BY <1>1, IngressAssumption DEF TellsTime, LoadInTime, SinceAnswer, LoadTime, Loads
  <2>2. SUFFICES ASSUME NEW e \in Usable(load.doc) PROVE gone[e.key] <= LoadTime
    BY <1>1, <2>1, IngressAssumption DEF CacheTold
  <2>3. e.key \in Key
    BY <1>1, DocumentAssumption DEF Usable
  <2>4. Carries(load.doc, e.key)
    BY DEF Carries
  <2>5. gone[e.key] <= SinceAnswer
    BY <1>1, <2>3, <2>4 DEF TellsTime, DocumentTold
  <2> QED BY <2>1, <2>3, <2>5 DEF IngressTypes
<1> QED BY <1>2, <1>3, <1>4 DEF TellsTime

LEMMA LoadFailsTells ==
  ASSUME IngressTypes, TellsTime, LoadFails
  PROVE  IngressTypes' /\ TellsTime'
<1>1. /\ UNCHANGED <<policy, published, cache, gone, present>>
      /\ load' = Null /\ request' = Nobody
  BY DEF LoadFails
<1>2. IngressTypes'
  BY <1>1 DEF IngressTypes, Nobody, Waiting
<1>3. LoadInTime' /\ PublicationTold' /\ DocumentTold' /\ CacheTold'
  BY <1>1 DEF TellsTime, LoadInTime, PublicationTold, DocumentTold, CacheTold,
              Carries, Usable
<1> QED BY <1>2, <1>3 DEF TellsTime

LEMMA RotateTells ==
  ASSUME IngressTypes, TellsTime, NEW doc \in Documents, Rotate(doc)
  PROVE  IngressTypes' /\ TellsTime'
<1>1. /\ UNCHANGED <<policy, cache, load, request>> /\ published' = doc
      /\ present' = [k \in Key |-> IF Carries(doc, k) THEN present[k] ELSE 0]
      /\ gone' = [k \in Key |-> IF Carries(doc, k) THEN 0 ELSE gone[k]]
  BY DEF Rotate
<1>2. \A k \in Key : /\ gone[k] \in Nat /\ present[k] \in Nat
                     /\ gone'[k] \in Nat /\ present'[k] \in Nat
                     /\ gone'[k] <= gone[k] /\ present'[k] <= present[k]
  BY <1>1 DEF IngressTypes
<1>3. IngressTypes'
  BY <1>1 DEF IngressTypes, Waiting, Readable
<1>4. LoadInTime'
  BY <1>1 DEF TellsTime, LoadInTime
<1>5. PublicationTold'
  BY <1>1 DEF PublicationTold, Carries, Usable
<1>6. DocumentTold'
  <2>1. SUFFICES ASSUME load # Null, load.doc \in Documents, NEW k \in Key
                 PROVE  IF Carries(load.doc, k) THEN gone'[k] <= SinceAnswer
                        ELSE present'[k] <= SinceAnswer
    BY <1>1 DEF DocumentTold, Carries, Usable, SinceAnswer
  <2>2. SinceAnswer \in Int
    BY <2>1, IngressAssumption DEF IngressTypes, Loads, SinceAnswer
  <2> QED BY <1>2, <2>1, <2>2 DEF TellsTime, DocumentTold
<1>7. CacheTold'
  <2>1. SUFFICES ASSUME cache.left > 0, NEW e \in cache.keys
                 PROVE  gone'[e.key] <= CacheTtl - cache.left + LoadTime
    BY <1>1 DEF CacheTold
  <2>2. e.key \in Key
    BY DocumentAssumption DEF IngressTypes
  <2>3. CacheTtl - cache.left + LoadTime \in Int
    BY IngressAssumption DEF IngressTypes, LoadTime
  <2> QED BY <1>2, <2>1, <2>2, <2>3 DEF TellsTime, CacheTold
<1> QED BY <1>3, <1>4, <1>5, <1>6, <1>7 DEF TellsTime

(* Everything ages by one, up to the bounds of the histories.              *)
LEMMA TickTells ==
  ASSUME IngressTypes, TellsTime, Tick
  PROVE  IngressTypes' /\ TellsTime'
<1>1. /\ UNCHANGED <<policy, published>> /\ ~ LoadDue
      /\ cache' = [cache EXCEPT !.left = Max({cache.left - 1, 0})]
      /\ load' = IF load = Null THEN Null ELSE [load EXCEPT !.waited = load.waited + 1]
  BY DEF Tick
<1>2. LoadTime \in Nat /\ CacheTtl \in Nat
  BY IngressAssumption DEF LoadTime
<1>3. request' \in [Request -> [arrival: Arrivals, waited: Nat] \cup {Null}]
      /\ \A r \in Waiting' : r \in Waiting /\ request'[r].arrival = request[r].arrival
  <2>1. \A r \in Request :
          request[r] # Null => Min({request[r].waited + 1, LoadTime + 1}) \in Nat
    BY <1>2, MinOfTwo DEF IngressTypes
  <2>2. request' = [r \in Request |->
                      IF request[r] = Null THEN Null
                      ELSE [request[r] EXCEPT
                              !.waited = Min({request[r].waited + 1, LoadTime + 1})]]
    BY DEF Tick
  <2> QED BY <2>1, <2>2 DEF IngressTypes, Waiting
<1>4. /\ gone' \in [Key -> Nat] /\ present' \in [Key -> Nat]
      /\ \A k \in Key : /\ gone'[k] <= gone[k] + 1 /\ present'[k] <= present[k] + 1
                        /\ IF Carries(published, k) THEN gone'[k] = 0 ELSE present'[k] = 0
  <2> DEFINE older(k) == Min({gone[k] + 1, CacheTtl + LoadTime + 1})
             longer(k) == Min({present[k] + 1, LoadTime + 1})
  <2>1. \A k \in Key : /\ older(k) \in Nat /\ older(k) <= gone[k] + 1
                       /\ longer(k) \in Nat /\ longer(k) <= present[k] + 1
    BY <1>2, MinOfTwo DEF IngressTypes
  <2>2. /\ gone' = [k \in Key |-> IF Carries(published, k) THEN 0 ELSE older(k)]
        /\ present' = [k \in Key |-> IF Carries(published, k) THEN longer(k) ELSE 0]
    BY DEF Tick
  <2>3. \A k \in Key : gone[k] \in Nat /\ present[k] \in Nat
    BY DEF IngressTypes
  <2> HIDE DEF older, longer
  <2> QED BY <2>1, <2>2, <2>3
<1>5. /\ cache' \in [keys: SUBSET UNION Documents, left: 0 .. CacheTtl]
      /\ cache'.keys = cache.keys
      /\ cache'.left > 0 => cache.left > 0 /\ cache'.left = cache.left - 1
  <2>1. /\ cache.left \in 0 .. CacheTtl
        /\ cache \in [keys: SUBSET UNION Documents, left: 0 .. CacheTtl]
    BY DEF IngressTypes
  <2>2. Max({cache.left - 1, 0}) = IF cache.left - 1 >= 0 THEN cache.left - 1 ELSE 0
    BY <1>2, <2>1, MaxOfTwo
  <2> QED BY <1>1, <1>2, <2>1, <2>2
<1>6. IngressTypes'
  <2>1. load' \in Loads \cup {Null}
    BY <1>1 DEF IngressTypes, Loads
  <2> QED BY <1>1, <1>3, <1>4, <1>5, <2>1 DEF IngressTypes, Readable
<1>7. LoadInTime'
  BY <1>1, IngressAssumption DEF IngressTypes, Loads, TellsTime, LoadInTime, LoadDue
<1>8. PublicationTold'
  BY <1>1, <1>4 DEF PublicationTold, Carries, Usable
<1>9. DocumentTold'
  <2>1. SUFFICES ASSUME load # Null, load' # Null, load'.doc \in Documents, NEW k \in Key
                 PROVE  IF Carries(load'.doc, k) THEN gone'[k] <= SinceAnswer'
                        ELSE present'[k] <= SinceAnswer'
    BY <1>1 DEF DocumentTold, Carries, Usable
  <2>2. load'.doc = load.doc /\ SinceAnswer' = SinceAnswer + 1 /\ SinceAnswer \in Int
    BY <1>1, <2>1, IngressAssumption DEF IngressTypes, Loads, SinceAnswer
  <2>3. gone[k] \in Nat /\ present[k] \in Nat /\ gone'[k] \in Nat /\ present'[k] \in Nat
    BY <1>4 DEF IngressTypes
  <2> QED BY <1>4, <2>1, <2>2, <2>3 DEF TellsTime, DocumentTold
<1>10. CacheTold'
  <2>1. SUFFICES ASSUME cache'.left > 0, NEW e \in cache'.keys
                 PROVE  gone'[e.key] <= CacheTtl - cache'.left + LoadTime
    BY DEF CacheTold
  <2>2. e.key \in Key /\ cache.left \in Int
    BY <1>5, DocumentAssumption DEF IngressTypes
  <2>3. gone[e.key] <= CacheTtl - cache.left + LoadTime
    BY <1>5, <2>1 DEF TellsTime, CacheTold
  <2>4. gone[e.key] \in Nat /\ gone'[e.key] \in Nat
    BY <1>4, <2>2 DEF IngressTypes
  <2> QED BY <1>2, <1>4, <1>5, <2>1, <2>2, <2>3, <2>4
<1> QED BY <1>6, <1>7, <1>8, <1>9, <1>10 DEF TellsTime

---------------------------------------------------------------------------
LEMMA InitIInv == Init => IInv
<1> SUFFICES ASSUME Init PROVE IInv
  OBVIOUS
<1>1. IngressTypes
  BY IngressAssumption DEF Init, IngressTypes, Waiting
<1>2. TellsTime
  BY DEF Init, TellsTime, LoadInTime, PublicationTold, DocumentTold, CacheTold
<1>3. DecidedRightly
  BY DEF Init, DecidedRightly, RevokedKeyLapses, PublishedKeyFound, HopKeepsDecision
<1> QED BY <1>1, <1>2, <1>3 DEF IInv

LEMMA NextIInv == IInv /\ [Next]_vars => IInv'
<1> SUFFICES ASSUME IInv, [Next]_vars PROVE IInv'
  OBVIOUS
<1> USE DEF IInv
<1>1. ASSUME NEW r \in Request, NEW arrival \in Arrivals, Arrive(r, arrival) PROVE IInv'
  BY <1>1, ArriveTells, ArriveDecidesRightly
<1>2. CASE Sample
  BY <1>2, SampleTells, UndecidedIsRight DEF Sample
<1>3. CASE HeadersArrive
  BY <1>3, HeadersTell, UndecidedIsRight DEF HeadersArrive
<1>4. CASE Loaded
  BY <1>4, LoadedTells, LoadedDecidesRightly
<1>5. CASE LoadFails
  BY <1>5, LoadFailsTells, LoadFailsDecidesRightly
<1>6. ASSUME NEW doc \in Documents, Rotate(doc) PROVE IInv'
  BY <1>6, RotateTells, UndecidedIsRight DEF Rotate
<1>7. CASE Tick
  BY <1>7, TickTells, UndecidedIsRight DEF Tick
<1>8. CASE UNCHANGED vars
  <2>1. IngressTypes' /\ TellsTime'
    BY <1>8 DEF vars, IngressTypes, TellsTime, LoadInTime, PublicationTold, DocumentTold,
                CacheTold, SinceAnswer, Waiting, Carries, Usable, Readable
  <2>2. UNCHANGED <<policy, gone, present, decided>>
    BY <1>8 DEF vars
  <2>3. \A d \in decided' : Right(d)
    BY <2>2 DEF DecidedRightly, RevokedKeyLapses, PublishedKeyFound, HopKeepsDecision,
                HopKeeps, Right
  <2> QED BY <2>1, <2>2, <2>3, DecidesRightly
<1> QED BY <1>1, <1>2, <1>3, <1>4, <1>5, <1>6, <1>7, <1>8 DEF Next

LEMMA Invariant == Spec => []IInv
  BY InitIInv, NextIInv, PTL DEF Spec

(* identity.ts: a token of a withdrawn key is let in for no longer than    *)
(* its document is cached and may take to come, for any rotation, load     *)
(* that is shared, late or failed.                                         *)
THEOREM RevokedKeysLapse == Spec => []RevokedKeyLapses
  BY Invariant, PTL DEF IInv, DecidedRightly

(* identity.ts, find(): no token is refused for want of a key that has     *)
(* been published for longer than a load may take.                         *)
THEOREM PublishedKeysFound == Spec => []PublishedKeyFound
  BY Invariant, PTL DEF IInv, DecidedRightly

(* server.ts, handle() at both replicas: the second sees the priority and  *)
(* the class the first decided, for any policy, rule, hook and header.     *)
THEOREM HopsKeepDecisions == Spec => []HopKeepsDecision
  BY Invariant, PTL DEF IInv, DecidedRightly
============================================================================
