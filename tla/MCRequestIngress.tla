------------------------- MODULE MCRequestIngress -------------------------
(* Instances of RequestIngress: two keys that rotate, two classes, gateways*)
(* with and without identities, rules and hooks.                           *)
EXTENDS RequestIngress

CONSTANTS k1, k2,    \* keys
          a, b       \* classes

Entry(kid, key) == [kid |-> kid, alg |-> Null, key |-> key, usable |-> TRUE]

\* The old key, the new one beside another under the same name, and a document
\* whose only key cannot be used.
TheDocuments ==
  {{Entry("1", k1)},
   {Entry("2", k2), [Entry("2", k1) EXCEPT !.alg = "RS512"]},
   {[Entry("1", k1) EXCEPT !.usable = FALSE]}}

Person(subject, roles) ==
  [subject |-> subject, tenant |-> "t", application |-> Null, roles |-> roles]

Token(kid, key, exp, claims) ==
  [wellFormed |-> TRUE, kid |-> kid, alg |-> "RS256", key |-> key,
   addressed |-> TRUE, exp |-> exp, active |-> 0, claims |-> claims]

Ops == Person("ops", {"high", "ops"})
User == Person("user", {})

TheTokens ==
  {Token("1", k1, 9, Ops), Token("2", k2, 1, User),
   Token("1", k2, 9, [User EXCEPT !.subject = Null])}

Arrival(routing, xPriority, token) ==
  [routing |-> routing, xPriority |-> xPriority, token |-> token]

FromPeer(secret, class) ==
  [token |-> secret, hop |-> "1", source |-> "peer", priority |-> "high",
   class |-> class]

TheArrivals ==
  {Arrival(Null, "high", token) : token \in TheTokens \cup {Null}}
    \cup {Arrival(FromPeer(Secret, b), "normal", Token("1", k1, 9, Ops)),
          Arrival(FromPeer(Null, a), "normal", Null)}

Policy(identity, invoke, hooks, classes) ==
  [identity |-> identity, invoke |-> invoke, high |-> {"high"},
   requireExpiration |-> TRUE, trustHeader |-> ~ identity,
   priorityHook |-> hooks, classHook |-> hooks, classes |-> classes]

Rule(class, selector, values) ==
  [class |-> class, select |-> [s \in {selector} |-> values]]

\* Rules that overlap, classes without rules, a rule that selects nothing.
TwoRules ==
  [default |-> b, ids |-> {a, b},
   rules |-> <<Rule(a, "roles", {"ops"}), Rule(b, "tenants", {"t"})>>]
NoRules == [default |-> a, ids |-> {a, b}, rules |-> <<>>]
EmptyRule ==
  [default |-> a, ids |-> {a}, rules |-> <<[class |-> a, select |-> <<>>]>>]

ThePolicies ==
  {Policy(TRUE, {}, FALSE, TwoRules), Policy(TRUE, {"ops"}, FALSE, NoRules),
   Policy(FALSE, {}, TRUE, NoRules),
   Policy(FALSE, {}, FALSE, Null), Policy(FALSE, {}, FALSE, EmptyRule)}
=============================================================================
