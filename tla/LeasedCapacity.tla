--------------------------- MODULE LeasedCapacity --------------------------
(***************************************************************************)
(* What LatchfloTyrAgent promises the control plane that lends it capacity *)
(* (README "Failure behavior", applyDesiredState and                       *)
(* failClosedExpiredGrants in src/latchflo.ts), with polls,                *)
(* acknowledgements, timers and heartbeats left out:                       *)
(*                                                                         *)
(*   - a pool's slots change under a higher revision only, and only for a  *)
(*     lease that still runs, or because its lease has run out;            *)
(*   - the end of one pool's lease closes no pool whose lease runs on;     *)
(*   - time does not pass over capacity whose lease has run out, unless    *)
(*     the agent has stopped or a batch of grants is still being settled.  *)
(*                                                                         *)
(* The last one is a guard of Tick, the way deadlines are usually stated:  *)
(* the clock waits for what is due.                                        *)
(***************************************************************************)
EXTENDS Naturals

CONSTANTS
  Pool,
  Skews      \* how far the lender's clock may be ahead of the local one


VARIABLES
  now,       \* the local clock
  serving,   \* is the agent running
  settled,   \* has every grant of the last batch been recorded and answered
  slots,     \* the capacity installed in each pool
  revision,  \* the revision it was installed under
  lease      \* the instant it has to be closed by, 0 when there is no lease

leased == <<slots, revision, lease>>
vars == <<now, serving, settled, leased>>

Init ==
  /\ now = 0
  /\ serving = FALSE
  /\ settled = TRUE
  /\ slots = [p \in Pool |-> 0]
  /\ revision = [p \in Pool |-> 0]
  /\ lease = [p \in Pool |-> 0]

(* The agent starts, stops, or fails to start.  None of it moves capacity. *)
Switch ==
  /\ serving' = ~ serving
  /\ UNCHANGED <<now, settled, leased>>

(* A batch: every pool gets a lease that has not run out, and slots change *)
(* only where the revision rises.                                          *)
Lend ==
  /\ settled' = FALSE
  /\ slots' \in [Pool -> Nat]
  /\ revision' \in [Pool -> Nat]
  /\ lease' \in [Pool -> Nat]
  /\ \A p \in Pool :
       /\ lease'[p] > now
       /\ revision'[p] >= revision[p]
       /\ slots'[p] # slots[p] => revision'[p] > revision[p]
  /\ UNCHANGED <<now, serving>>

Settle ==
  /\ ~ settled
  /\ settled' = TRUE
  /\ UNCHANGED <<now, serving, leased>>

(* Some pools whose lease has run out, by one clock or the other, close.   *)
Over(ahead) == {p \in Pool : lease[p] # 0 /\ lease[p] <= now + ahead}

Expire ==
  /\ \E ahead \in Skews : \E dead \in (SUBSET Over(ahead)) \ {{}} :
       /\ slots' = [p \in Pool |-> IF p \in dead THEN 0 ELSE slots[p]]
       /\ lease' = [p \in Pool |-> IF p \in dead THEN 0 ELSE lease[p]]
       /\ \A p \in Pool :
            IF p \in dead THEN revision'[p] > revision[p]
            ELSE revision'[p] = revision[p]
  /\ UNCHANGED <<now, serving, settled>>

Overdue == {p \in Pool : slots[p] > 0 /\ lease[p] <= now}

Tick ==
  /\ serving /\ settled => Overdue = {}
  /\ now' = now + 1
  /\ UNCHANGED <<serving, settled, leased>>

Next == Switch \/ Lend \/ Settle \/ Expire \/ Tick

Spec == Init /\ [][Next]_vars
=============================================================================
