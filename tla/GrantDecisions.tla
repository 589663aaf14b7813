-------------------------- MODULE GrantDecisions --------------------------
(***************************************************************************)
(* How the Latchflo agent (src/latchflo.ts) judges one capacity grant      *)
(* against the limits that are installed, and what it installs for it: the *)
(* pure helpers #applyDesiredState and the expiration kill switch call.    *)
(*                                                                         *)
(* An offer is what the control plane ships for one pool:                  *)
(*    revision, expiresAt, and limits (a LimitContent).                    *)
(* Parsing has already established that limits.revision equals revision.   *)
(***************************************************************************)
EXTENDS PoolLimits

CONSTANT NoGrant     \* no grant for a pool

Offer == [revision: Nat, expiresAt: Nat, limits: LimitContent]

(* parseLimits: limits that do not agree with themselves never reach the   *)
(* agent; the whole answer is given up.                                    *)
Parses(content) ==
  content.classes # NoTable =>
    /\ Keys(content.classes) # {}
    /\ FloorTotal(content.classes) <= content.maxConcurrent

(* A grant that omits classes has no opinion about them; otherwise the     *)
(* tables must agree field by field, an absent floor differing from 0.     *)
AdmissionClassesEqual(left, right) == right = NoTable \/ left = right

(* Mutant: the concurrency ceiling is not compared.                        *)
LimitsEqualButConcurrency(applied, offer) ==
  /\ applied.revision = offer.revision
  /\ applied.budget = offer.limits.budget
  /\ AdmissionClassesEqual(applied.classes, offer.limits.classes)

LimitsEqual(applied, offer) ==
  /\ applied.revision = offer.revision
  /\ applied.maxConcurrent = offer.limits.maxConcurrent
  /\ applied.budget = offer.limits.budget
  /\ AdmissionClassesEqual(applied.classes, offer.limits.classes)

(* The table the agent falls back to when a grant carries none.            *)
FallbackTable(applied, fallback) ==
  IF fallback = NoTable THEN applied.classes ELSE fallback

ClassesResolve(applied, offer, fallback) ==
  LET known == FallbackTable(applied, fallback) IN
  \/ offer.limits.classes = NoTable
  \/ known # NoTable /\ Keys(known) = Keys(offer.limits.classes)

ResolvedTable(applied, offer, fallback) ==
  IF offer.limits.classes = NoTable
  THEN FallbackTable(applied, fallback)
  ELSE offer.limits.classes

(* Mutant: a delayed, older grant is taken for the current one.            *)
NeverAhead(applied, offer) == FALSE

(* Why the agent turns one grant down before it applies anything.          *)
LocalRevisionAhead(applied, offer) == applied.revision > offer.revision

RevisionContentConflict(applied, offer) ==
  applied.revision = offer.revision /\ ~ LimitsEqual(applied, offer)

ClassesUnresolved(applied, offer, fallback) ==
  applied.revision < offer.revision /\ ~ ClassesResolve(applied, offer, fallback)

Refused(applied, offer, fallback) ==
  \/ LocalRevisionAhead(applied, offer)
  \/ RevisionContentConflict(applied, offer)
  \/ ClassesUnresolved(applied, offer, fallback)

(* grantUpdate: the snapshot that is installed for a newer grant.          *)
GrantUpdate(applied, offer, fallback) ==
  [WithRevision(offer.revision, offer.limits) EXCEPT
     !.classes = ResolvedTable(applied, offer, fallback)]

(* drainEvidenceTarget: installing `next' shrinks the physical pool, its   *)
(* token budget, or the capacity its classes share, so work admitted       *)
(* earlier may still exceed it and Latchflo waits for published evidence.  *)
NeedsDrainEvidence(applied, next) ==
  \/ next.maxConcurrent < applied.maxConcurrent
  \/ /\ next.budget # Unset
     /\ applied.budget = Unset \/ next.budget < applied.budget
  \/ /\ applied.classes # NoTable
     /\ next.classes # NoTable
     /\ \E c \in Keys(next.classes) \cap Keys(applied.classes) :
          FloorOf(next.classes, c) > FloorOf(applied.classes, c)

(* Mutant: the floors stay while the pool is closed.                       *)
OpenTable(table) == table

(* failClosedAdmissionClasses: every floor that is present becomes 0.      *)
FailClosedTable(table) ==
  IF table = NoTable THEN NoTable
  ELSE [c \in Class |-> IF table[c] \in Nat THEN 0 ELSE table[c]]

(* Mutant: only the budget is closed.                                      *)
KillSwitchOnBudget(grant, applied) ==
  [revision      |-> grant.revision + 1,
   maxConcurrent |-> applied.maxConcurrent,
   budget        |-> IF grant.limits.budget = Unset THEN Unset ELSE 0,
   classes       |-> FailClosedTable(applied.classes)]

(* The expiration kill switch: zero capacity at the revision after the     *)
(* grant's, which the control plane reserves for it.                       *)
KillSwitch(grant, applied) ==
  [revision      |-> grant.revision + 1,
   maxConcurrent |-> 0,
   budget        |-> IF grant.limits.budget = Unset THEN Unset ELSE 0,
   classes       |-> FailClosedTable(applied.classes)]
=============================================================================
