-------------------------- MODULE RequestIngress --------------------------
(***************************************************************************)
(* How a request becomes entitled to anything: server.ts tells requests of *)
(* peers from those of clients, identity.ts verifies the token against a   *)
(* cached JWKS document, and identity, roles, rules, hooks and headers     *)
(* give the priority and the admission class (admission-policy.ts).        *)
(*                                                                         *)
(* The JWKS provider is external: it rotates its keys at will, and its     *)
(* answer is what it published when it answered.  A refresh is shared by   *)
(* every request that needs one; the deadline of the code ends with the    *)
(* headers, and BodyTime is how long the HTTP client lets a body take.     *)
(* Tokens and documents are what parsing leaves of them.                   *)
(***************************************************************************)
EXTENDS Integers, FiniteSets, Functions, Sequences, SequencesExt, FiniteSetsExt

CONSTANTS
  Null,
  Request,
  Key, Class,
  Tokens,          \* [wellFormed, kid, alg, key, addressed, exp, active, claims]:
                   \* exp and active are ticks from the arrival, exp may be Null
  Arrivals,        \* the headers of a request: [routing, xPriority, token]
  Documents,       \* what the provider may publish: sets of [kid, alg, key, usable]
  Policies,        \* configurations: see PolicyUsable
  Algorithms,      \* the allowed JWT algorithms
  Secret,          \* sharedSecret of the fleet
  CacheTtl, RequestTimeout, Skew,     \* in ticks
  BodyTime

ASSUME IngressAssumption ==
  /\ CacheTtl \in Nat /\ RequestTimeout \in Nat \ {0} /\ Skew \in Nat
  /\ BodyTime \in Nat

ASSUME ArrivalAssumption ==
  \A arrival \in Arrivals :
    /\ DOMAIN arrival = {"routing", "xPriority", "token"}
    /\ arrival.xPriority \in {"normal", "high"}
    /\ arrival.token # Null => arrival.token.key \in Key

ASSUME DocumentAssumption == \A doc \in Documents : \A e \in doc : e.key \in Key

ASSUME PolicyAssumption ==
  \A p \in Policies : p.classes # Null => p.classes.ids \subseteq Class

ASSUME NullAssumption ==
  /\ Null \notin Class /\ Null # "peer" /\ Null \notin Documents
  /\ Null \notin [token: {Secret}, hop: {"1"}, source: {"peer"},
                 priority: {"normal", "high"}, class: Class \cup {Null}]

VARIABLES
  policy,      \* the configuration, fixed
  published,   \* the document of the provider
  cache,       \* #keys, and how long they are fresh (#expiresAt)
  load,        \* #refreshing: [stage, doc, waited], or Null
  request,     \* the requests that wait for a load: [arrival, waited], or Null
  gone,        \* history: ticks since each key was last published
  present,     \* history: ticks for which it has been published unbroken
  decided      \* history: what the last step decided

vars == <<policy, published, cache, load, request, gone, present, decided>>

LoadTime == RequestTimeout + BodyTime

---------------------------------------------------------------------------
(* Requests of peers.                                                      *)

(* Mutant: the class is left for the peer to resolve.                      *)
ForwardedWithoutClass(d) ==
  [token |-> Secret, hop |-> "1", source |-> "peer",
   priority |-> d.priority, class |-> Null]

(* forwardedHeaders(): what the replica a request is forwarded to sees.    *)
ForwardedHeaders(d) ==
  [token |-> Secret, hop |-> "1", source |-> "peer",
   priority |-> d.priority, class |-> d.class]

(* classify(): routing headers are all right or the request is refused.    *)
Classify(routing) ==
  IF routing = Null THEN "external"
  ELSE IF /\ routing.token = Secret
          /\ routing.hop = "1"
          /\ routing.source # Null
          /\ routing.priority \in {"normal", "high"}
       THEN "internal"
       ELSE "invalid"

---------------------------------------------------------------------------
(* Policy.                                                                 *)

Selectors == {"subjects", "tenants", "applications", "roles"}

(* normalizeAdmissionClassesConfig and validateGatewayOptions.             *)
PolicyUsable(p) ==
  p.classes # Null =>
    /\ p.classes.ids # {}
    /\ p.classes.default \in p.classes.ids
    /\ \A i \in DOMAIN p.classes.rules :
         LET rule == p.classes.rules[i] IN
         /\ rule.class \in p.classes.ids
         /\ DOMAIN rule.select # {}
         /\ \A s \in DOMAIN rule.select : s \in Selectors /\ rule.select[s] # {}

(* What of an identity a selector looks at.                                *)
Looked(identity, selector) ==
  CASE selector = "subjects" -> {identity.subject}
    [] selector = "tenants" -> {identity.tenant}
    [] selector = "applications" -> {identity.application}
    [] selector = "roles" -> identity.roles

(* matchesRule: every selector of the rule must match.                     *)
MatchesRule(rule, identity) ==
  \A s \in DOMAIN rule.select :
    (Looked(identity, s) \ {Null}) \cap rule.select[s] # {}

(* resolveAdmissionClass: rules in order, then the default.                *)
ResolveClass(classes, identity) ==
  IF classes = Null THEN Null
  ELSE LET matching == {i \in DOMAIN classes.rules :
                          identity # Null /\ MatchesRule(classes.rules[i], identity)}
       IN IF matching = {} THEN classes.default
          ELSE classes.rules[Min(matching)].class

HasAnyRole(identity, roles) == identity.roles \cap roles # {}

(* handle(): where the priority comes from.                                *)
Priorities(arrival, identity) ==
  IF Classify(arrival.routing) = "internal" THEN {arrival.routing.priority}
  ELSE IF policy.priorityHook THEN {"normal", "high"}
  ELSE IF identity # Null
       THEN {IF HasAnyRole(identity, policy.high) THEN "high" ELSE "normal"}
  ELSE IF policy.trustHeader THEN {arrival.xPriority}
  ELSE {"normal"}

(* ... and the admission class.                                            *)
Assigned(arrival, identity) ==
  IF Classify(arrival.routing) = "internal" /\ arrival.routing.class # Null
  THEN arrival.routing.class
  ELSE ResolveClass(policy.classes, identity)

ClassChoices(arrival, identity) ==
  {Assigned(arrival, identity)}
    \cup (IF Classify(arrival.routing) = "external" /\ policy.classHook
          THEN Class ELSE {})

Configured(class) ==
  class # Null => policy.classes # Null /\ class \in policy.classes.ids

---------------------------------------------------------------------------
(* Tokens.                                                                 *)

(* find(): the cached keys a token may have been signed with.              *)
Matching(keys, token) ==
  {e \in keys : e.kid = token.kid /\ (e.alg = Null \/ e.alg = token.alg)}

Signed(entries, token) == \A e \in entries : e.key = token.key

(* validateRegisteredClaims, after the key was found.                      *)
ClaimsHold(token, waited) ==
  /\ token.addressed
  /\ token.exp = Null => ~ policy.requireExpiration
  /\ token.exp # Null => waited - Skew < token.exp
  /\ waited + Skew >= token.active

(* normalizeRequestIdentity: whatever authenticates must name a subject.   *)
Acceptable(identity) == identity.subject # Null

(* buildIdentity: the claims have the right types, and a subject.          *)
HasIdentity(token) == token.claims # Null /\ Acceptable(token.claims)

Invoked(identity) ==
  policy.invoke = {} \/ HasAnyRole(identity, policy.invoke)

Verdicts == {"passed", "unauthorized", "forbidden", "unavailable", "unknown key",
             "failed"}

Verdict(q, verdict) ==
  [verdict |-> verdict, arrival |-> q.arrival,
   identity |-> Null, priority |-> Null, class |-> Null]

(* The end of handle()'s first part, with a priority and a class.          *)
Decision(q, identity, p, c) ==
  [Verdict(q, IF Configured(c) THEN "passed" ELSE "failed") EXCEPT
     !.identity = identity, !.priority = p, !.class = c]

(* What is decided of a request with its identity, which is Null when      *)
(* there is nothing to authenticate.                                       *)
Entitled(q, identity) ==
  {Decision(q, identity, p, c) :
     p \in Priorities(q.arrival, identity), c \in ClassChoices(q.arrival, identity)}

(* ... and once find() has its keys.                                       *)
Verified(q, keys) ==
  LET token == q.arrival.token
      entries == Matching(keys, token)
  IN IF entries = {} THEN {Verdict(q, "unknown key")}
     ELSE IF \/ Cardinality(entries) # 1
             \/ ~ Signed(entries, token)
             \/ ~ ClaimsHold(token, q.waited)
             \/ ~ HasIdentity(token)
          THEN {Verdict(q, "unauthorized")}
     ELSE IF ~ Invoked(token.claims) THEN {Verdict(q, "forbidden")}
     ELSE Entitled(q, token.claims)

Readable(token) ==
  token # Null /\ token.wellFormed /\ token.alg \in Algorithms

Usable(doc) == {e \in doc : e.usable}
Carries(doc, k) == \E e \in Usable(doc) : e.key = k

Init ==
  /\ policy \in {p \in Policies : PolicyUsable(p)}
  /\ published \in Documents
  /\ cache = [keys |-> {}, left |-> 0]
  /\ load = Null
  /\ request = [r \in Request |-> Null]
  /\ gone = [k \in Key |-> 0]
  /\ present = [k \in Key |-> 0]
  /\ decided = {}

---------------------------------------------------------------------------
(* #refresh(): a load in flight is joined.                                 *)
Refresh ==
  load' = IF load # Null THEN load
          ELSE [stage |-> "asking", doc |-> Null, waited |-> 0]

(* Mutant: a fresh cache is the last word.                                 *)
KeysAtHand(token) == cache.left > 0

(* find() uses a fresh cache that has the key, and asks otherwise.         *)
KeysKnown(token) == cache.left > 0 /\ Matching(cache.keys, token) # {}

(* handle() up to its first await, or to the class of the request when     *)
(* nothing is to be waited for.                                            *)
Arrive(r, arrival) ==
  LET token == arrival.token
      q == [arrival |-> arrival, waited |-> 0]
      Decide(outcomes) ==
        /\ \E d \in outcomes : decided' = {d}
        /\ UNCHANGED <<load, request>>
  IN
  /\ request[r] = Null
  /\ IF Classify(arrival.routing) = "invalid"
     THEN Decide({Verdict(q, "unauthorized")})
     ELSE IF ~ policy.identity THEN Decide(Entitled(q, Null))
     ELSE IF ~ Readable(token) THEN Decide({Verdict(q, "unauthorized")})
     ELSE IF KeysKnown(token) THEN Decide(Verified(q, cache.keys))
     ELSE /\ request' = [request EXCEPT ![r] = q]
          /\ Refresh
          /\ decided' = {}
  /\ UNCHANGED <<policy, published, cache, gone, present>>

(* The provider answers with what it publishes.                            *)
Sample ==
  /\ load # Null /\ load.stage = "asking" /\ load.doc = Null
  /\ load' = [load EXCEPT !.doc = published]
  /\ decided' = {}
  /\ UNCHANGED <<policy, published, cache, request, gone, present>>

(* The headers arrive, and the timer is cleared.                           *)
HeadersArrive ==
  /\ load # Null /\ load.stage = "asking" /\ load.doc # Null
  /\ load' = [load EXCEPT !.stage = "reading", !.waited = 0]
  /\ decided' = {}
  /\ UNCHANGED <<policy, published, cache, request, gone, present>>

Waiting == {r \in Request : request[r] # Null}
Nobody == [r \in Request |-> Null]

(* The document is read: everyone who waits goes on with its keys, which   *)
(* are fresh from now on.                                                  *)
Loaded ==
  /\ load # Null /\ load.stage = "reading"
  /\ LET keys == Usable(load.doc) IN
     /\ keys # {}
     /\ cache' = [keys |-> keys, left |-> CacheTtl]
     /\ decided' \in {{c[r] : r \in Waiting} :
                       c \in {f \in [Waiting -> UNION {Verified(request[r], keys) :
                                                     r \in Waiting}] :
                               \A r \in Waiting : f[r] \in Verified(request[r], keys)}}
  /\ load' = Null
  /\ request' = Nobody
  /\ UNCHANGED <<policy, published, gone, present>>

(* Mutant: only one of those who wait learns that the load failed.         *)
LoadFailsForOne ==
  /\ load # Null
  /\ \E r \in Waiting :
       /\ request' = [request EXCEPT ![r] = Null]
       /\ decided' = {Verdict(request[r], "unavailable")}
  /\ load' = Null
  /\ UNCHANGED <<policy, published, cache, gone, present>>

(* Mutant: a failed load keeps the old keys alive.                         *)
LoadFailsStale ==
  /\ load # Null
  /\ decided' = {Verdict(request[r], "unavailable") : r \in Waiting}
  /\ load' = Null
  /\ request' = Nobody
  /\ cache' = [cache EXCEPT !.left = CacheTtl]
  /\ UNCHANGED <<policy, published, gone, present>>

(* The deadline, a transport error, a status, a body that is too long, no  *)
(* JWKS or without a usable key: what is cached stays as it is.            *)
LoadFails ==
  /\ load # Null
  /\ decided' = {Verdict(request[r], "unavailable") : r \in Waiting}
  /\ load' = Null
  /\ request' = Nobody
  /\ UNCHANGED <<policy, published, cache, gone, present>>

(* The provider publishes another document.                                *)
Rotate(doc) ==
  /\ doc # published
  /\ published' = doc
  /\ present' = [k \in Key |-> IF Carries(doc, k) THEN present[k] ELSE 0]
  /\ gone' = [k \in Key |-> IF Carries(doc, k) THEN 0 ELSE gone[k]]
  /\ decided' = {}
  /\ UNCHANGED <<policy, cache, load, request>>

LoadDue ==
  load # Null /\
  load.waited = (IF load.stage = "asking" THEN RequestTimeout ELSE BodyTime)

(* No load outlives its deadline, or the patience of the HTTP client.      *)
Tick ==
  /\ ~ LoadDue
  /\ cache' = [cache EXCEPT !.left = Max({@ - 1, 0})]
  /\ load' = IF load = Null THEN Null ELSE [load EXCEPT !.waited = @ + 1]
  /\ request' = [r \in Request |->
                   IF request[r] = Null THEN Null
                   ELSE [request[r] EXCEPT !.waited = Min({@ + 1, LoadTime + 1})]]
  /\ gone' = [k \in Key |-> IF Carries(published, k) THEN 0
                            ELSE Min({gone[k] + 1, CacheTtl + LoadTime + 1})]
  /\ present' = [k \in Key |-> IF Carries(published, k)
                               THEN Min({present[k] + 1, LoadTime + 1})
                               ELSE 0]
  /\ decided' = {}
  /\ UNCHANGED <<policy, published>>

Next ==
  \/ \E r \in Request, arrival \in Arrivals : Arrive(r, arrival)
  \/ Sample \/ HeadersArrive \/ Loaded \/ LoadFails
  \/ \E doc \in Documents : Rotate(doc)
  \/ Tick

Spec == Init /\ [][Next]_vars

(* Loads end: by an answer, by the deadline or by the HTTP client.         *)
FairSpec == Spec /\ WF_vars(Tick) /\ WF_vars(LoadFails \/ Loaded)

---------------------------------------------------------------------------
(* Everyone who waits, waits for the load in flight.                       *)
TypeOK ==
  /\ PolicyUsable(policy)
  /\ published \in Documents
  /\ cache.left \in 0 .. CacheTtl
  /\ Waiting # {} => load # Null
  /\ load # Null => /\ load.stage \in {"asking", "reading"}
                    /\ load.waited \in 0 .. LoadTime
  /\ \A r \in Waiting : request[r].waited <= LoadTime
  /\ \A d \in decided : d.verdict \in Verdicts

Authenticated(d) == policy.identity /\ d.verdict \in {"passed", "forbidden"}

(* A key the provider has withdrawn stops opening doors: its tokens pass   *)
(* for no longer than a document may be cached and may take to arrive,     *)
(* whatever loads were shared, failed or overtaken by the rotation.        *)
RevokedKeyLapses ==
  \A d \in decided :
    Authenticated(d) => gone[d.arrival.token.key] <= CacheTtl + LoadTime

(* Documents name a key the way its tokens do.                             *)
Genuine(token) ==
  \A doc \in Documents : \A e \in Usable(doc) :
    e.key = token.key => Matching({e}, token) # {}

(* ... and a new key opens them: a token is not refused for want of its    *)
(* key once that has been published for longer than a load may take.  A    *)
(* cached document that does not have it is not the last word, and neither *)
(* is the load somebody else had begun.                                    *)
PublishedKeyFound ==
  \A d \in decided :
    d.verdict = "unknown key" /\ Genuine(d.arrival.token)
      => present[d.arrival.token.key] <= LoadTime

(* A request that is forwarded keeps its priority and its class: the peer  *)
(* sees a request of a peer, asks nobody again and forwards it no further. *)
HopKeepsDecision ==
  \A d \in decided :
    d.verdict = "passed" =>
      LET seen == [d.arrival EXCEPT !.routing = ForwardedHeaders(d)] IN
      /\ Classify(seen.routing) = "internal"
      /\ Priorities(seen, d.identity) = {d.priority}
      /\ ClassChoices(seen, d.identity) = {d.class}

(* requestTimeoutMs is a deadline: nobody waits for keys longer than that. *)
DeadlineHolds == \A r \in Waiting : request[r].waited <= RequestTimeout

(* Every request is decided, whatever the provider does.                   *)
AuthenticationEnds ==
  \A r \in Request : request[r] # Null ~> request[r] = Null
=============================================================================
