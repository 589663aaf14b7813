---------------------------- MODULE PoolLimits ----------------------------
(***************************************************************************)
(* The admission limits of Tyr's pools and the all-or-nothing transaction  *)
(* that replaces them (src/pools.ts, createPools().applyLimits).           *)
(*                                                                         *)
(* A snapshot of limits is a record                                        *)
(*    revision       the revision stamped on it,                           *)
(*    maxConcurrent  the physical concurrency ceiling,                     *)
(*    budget         the token budget, or Unset on a concurrency-only pool,*)
(*    classes        the admission-class table, or NoTable.                *)
(* A class table maps each class to its protected floor, to Unset when the *)
(* class is in the table without one, and to Absent when it is not a key   *)
(* of the table at all.  maxQueue, highPriorityReserve, token   *)
(* floors and hard class ceilings are treated by the code exactly as the   *)
(* fields kept here, and are left out.                                     *)
(***************************************************************************)
EXTENDS Integers, Functions

CONSTANTS
  Pool,      \* names of the managed pools
  Class,     \* admission class identifiers
  Unset,     \* an absent optional number
  Absent,    \* not a key of a class table
  NoTable    \* an absent class table

ASSUME UnsetAssumption ==
  /\ Unset \notin Nat
  /\ Absent \notin Nat
  /\ Unset # Absent
  /\ NoTable \notin [Class -> Nat \cup {Unset, Absent}]

Table == [Class -> Nat \cup {Unset, Absent}]

Keys(table) == {c \in Class : table[c] # Absent}

(* Everything in a snapshot but its revision: what a grant can change.     *)
LimitContent ==
  [maxConcurrent: Nat, budget: Nat \cup {Unset}, classes: Table \cup {NoTable}]

Limits ==
  [revision: Nat, maxConcurrent: Nat, budget: Nat \cup {Unset},
   classes: Table \cup {NoTable}]

WithRevision(r, content) ==
  [revision |-> r, maxConcurrent |-> content.maxConcurrent,
   budget |-> content.budget, classes |-> content.classes]

FloorOf(table, c) == IF table[c] \in {Unset, Absent} THEN 0 ELSE table[c]

FloorTotal(table) == SumFunction([c \in Class |-> FloorOf(table, c)])

(* validateLimitSnapshot: the snapshot keeps the shape the pool was built  *)
(* with, and its protected floors fit.  The code throws otherwise.         *)
ValidSnapshot(current, next) ==
  /\ (next.budget = Unset) <=> (current.budget = Unset)
  /\ (next.classes = NoTable) <=> (current.classes = NoTable)
  /\ next.classes # NoTable =>
       /\ Keys(next.classes) = Keys(current.classes)
       /\ FloorTotal(next.classes) <= next.maxConcurrent

(* The bulkhead reports a floor of zero as no floor at all.                *)
ReportedTable(table) ==
  IF table = NoTable THEN NoTable
  ELSE [c \in Class |-> IF table[c] = 0 THEN Unset ELSE table[c]]

(* What limits() of the pool returns once `next' is installed.             *)
Installed(next) == [next EXCEPT !.classes = ReportedTable(@)]

(* The preflight of applyLimits.  `updates' maps some pools to their next  *)
(* snapshots; they are examined in an order the caller chooses, and the    *)
(* first problem decides, so either outcome is possible when two updates   *)
(* fail differently.                                                       *)
PreflightThrows(limits, updates) ==
  \E p \in DOMAIN updates : ~ ValidSnapshot(limits[p], updates[p])

PreflightRefuses(limits, updates) ==
  \E p \in DOMAIN updates :
    /\ ValidSnapshot(limits[p], updates[p])
    /\ updates[p].revision <= limits[p].revision

(* Mutant: the preflight does not compare revisions.                       *)
PreflightWithoutRevision(limits, updates) ==
  \A p \in DOMAIN updates : ValidSnapshot(limits[p], updates[p])

PreflightPasses(limits, updates) ==
  \A p \in DOMAIN updates :
    /\ ValidSnapshot(limits[p], updates[p])
    /\ updates[p].revision > limits[p].revision

(* The synchronous second half of applyLimits: every update is installed.  *)
ApplyLimits(limits, updates) ==
  [p \in DOMAIN limits |->
     IF p \in DOMAIN updates THEN Installed(updates[p]) ELSE limits[p]]
=============================================================================
