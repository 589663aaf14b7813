------------------------- MODULE LatchfloSession -------------------------
(***************************************************************************)
(* How a replica gets and keeps its connection to Latchflo (latchflo.ts):  *)
(* managed mode starts the agent, and starts it again until it succeeds;   *)
(* its requests carry the agent token; a request without a token registers *)
(* first, one that is answered 401 discards its token and registers again; *)
(* whoever needs a registration shares the one in flight; a new token is   *)
(* written to a file, from which the next process of the replica begins.   *)
(*                                                                         *)
(* Latchflo is external: it issues tokens at registration, and each token  *)
(* ends the one before it.  It may forget the valid one.  What polls and   *)
(* heartbeats say is left out (LatchfloAgent, DemandHeartbeats), and so    *)
(* are acknowledgements, which carry the token like a heartbeat.  Events   *)
(* are taken one at a time: who waited for a registration goes on before   *)
(* the next one (Settled).                                                 *)
(***************************************************************************)
EXTENDS Integers, FiniteSets

CONSTANTS
  Null,
  Starter,         \* the caller of agent.start()
  Pollers,         \* poll loops at most in flight, an old one among them
  Heartbeats,      \* the heartbeats queue one behind the other, so one
  MaxTokens,       \* bound: tokens Latchflo issues; never reached
  MaxFaults,       \* bound: requests, registrations and writes that fail
  MaxRevoked,      \* bound: how often Latchflo forgets the valid token
  MaxStarts,       \* bound: start() calls of a process
  MaxCrashes       \* bound: restarts of the process

ASSUME SessionAssumption ==
  /\ MaxTokens \in Nat /\ MaxFaults \in Nat /\ MaxRevoked \in Nat
  /\ MaxStarts \in Nat /\ MaxCrashes \in Nat

ASSUME NullAssumption == Null \notin Nat /\ Null \notin [token: Nat \cup {Null}]

VARIABLES
  bootstrap,       \* a bootstrap token is configured, fixed
  file,            \* an agent token file is configured, fixed
  token,           \* #agentToken
  registration,    \* #registration: Null, or [token], Null until it is issued
  flow,            \* per caller: the request it is at
  running,         \* #running
  pollTimer, heartbeatTimer,
  stopped, starting, started,       \* of managed mode
  retryTimer,      \* the retry stop() can cancel is pending
  orphans,         \* retries pending that it cannot
  valid,           \* the token Latchflo takes
  disk,            \* the token in the file
  issued,          \* history: tokens issued
  losses,          \* history: events after which the valid token is lost
  cutShort,        \* history: stop() came while a start was in flight
  starts, faults, revoked, crashes  \* what the bounds count

latchfloVars == <<valid, issued, losses>>
agentVars == <<running, pollTimer, heartbeatTimer>>
modeVars == <<stopped, starting, started, retryTimer, orphans, cutShort, starts>>
countVars == <<faults, revoked, crashes>>
fixedVars == <<bootstrap, file>>
vars == <<fixedVars, token, registration, flow, agentVars, modeVars, latchfloVars,
          disk, countVars>>

Caller == {Starter} \cup Pollers \cup Heartbeats

Idle == [at |-> "idle", token |-> Null, again |-> FALSE]
Sent(t, again) == [at |-> "sent", token |-> t, again |-> again]
Awaiting(at, stale) == [at |-> at, token |-> stale, again |-> stale # Null]

RegistrationAsked == registration # Null /\ registration.token = Null
RegistrationIssued == registration # Null /\ registration.token # Null

(* How requests fail: LatchfloRequestError.retryable.                      *)
Kind == {"retryable", "permanent"}

(* Nobody is about to go on after a registration that has ended.  (Without *)
(* a way to register nothing is shared, and nothing to be waited for.)     *)
Settled ==
  bootstrap => \A f \in Caller : flow[f].at \notin {"registered", "unregistered"}

Init ==
  /\ bootstrap \in BOOLEAN /\ file \in BOOLEAN
  /\ disk \in IF file THEN {Null, 0} ELSE {Null}
  /\ valid \in IF disk = Null THEN {Null} ELSE {Null, 0}
  /\ token = disk /\ registration = Null
  /\ flow = [f \in Caller |-> Idle]
  /\ running = FALSE /\ pollTimer = FALSE /\ heartbeatTimer = FALSE
  /\ stopped = FALSE /\ starting = FALSE /\ started = FALSE
  /\ retryTimer = FALSE /\ orphans = 0 /\ cutShort = FALSE /\ starts = 0
  /\ issued = 0 /\ losses = (IF valid = Null THEN 1 ELSE 0)
  /\ faults = 0 /\ revoked = 0 /\ crashes = 0

---------------------------------------------------------------------------
(* Ends of requests.                                                       *)

(* Mutant: only transient failures are tried again.                        *)
RetriesTransient(kind) == kind = "retryable"

(* scheduleRetry: permanent failures are tried again too.                  *)
Retries(kind) == TRUE

(* agent.stop() *)
AgentStop == running' = FALSE /\ pollTimer' = FALSE /\ heartbeatTimer' = FALSE

(* finally of attemptStart: the agent is stopped if stop() came meanwhile. *)
AttemptEnds(now, timers) ==
  IF stopped THEN AgentStop
  ELSE /\ running' = now
       /\ pollTimer' = (pollTimer \/ timers)
       /\ heartbeatTimer' = (heartbeatTimer \/ timers)

(* agent.start() resolves, and managed mode has started.                   *)
StartSucceeds ==
  /\ started' = TRUE /\ starting' = FALSE
  /\ AttemptEnds(running, running)
  /\ UNCHANGED <<stopped, retryTimer, orphans, cutShort, starts>>

(* ... or throws, and a retry is scheduled.                                *)
StartThrows(kind) ==
  /\ starting' = FALSE
  /\ AttemptEnds(FALSE, FALSE)
  /\ IF ~ stopped /\ ~ started /\ Retries(kind)
     THEN /\ retryTimer' = TRUE
          /\ orphans' = orphans + (IF retryTimer THEN 1 ELSE 0)
     ELSE UNCHANGED <<retryTimer, orphans>>
  /\ UNCHANGED <<stopped, started, cutShort, starts>>

(* Mutant: a request in flight at stop() arms its timer again.             *)
ReschedulesAlways(f) ==
  /\ pollTimer' = (pollTimer \/ f \in Pollers)
  /\ heartbeatTimer' = (heartbeatTimer \/ f \in Heartbeats)
  /\ UNCHANGED <<running, modeVars>>

(* #runPollLoop and #runHeartbeatLoop go on, whatever became of a request. *)
Reschedules(f) ==
  /\ pollTimer' = (pollTimer \/ (running /\ f \in Pollers))
  /\ heartbeatTimer' = (heartbeatTimer \/ (running /\ f \in Heartbeats))
  /\ UNCHANGED <<running, modeVars>>

Done(f) ==
  /\ flow' = [flow EXCEPT ![f] = Idle]
  /\ IF f = Starter THEN StartSucceeds ELSE Reschedules(f)

Throws(f, kind) ==
  /\ flow' = [flow EXCEPT ![f] = Idle]
  /\ IF f = Starter THEN StartThrows(kind) ELSE Reschedules(f)

Continues(f, next) ==
  flow' = [flow EXCEPT ![f] = next] /\ UNCHANGED <<agentVars, modeVars>>

---------------------------------------------------------------------------
(* Requests.                                                               *)

(* #ensureRegistered, by f, whose token stale was refused or Null.         *)
EnsureRegistered(f, stale) ==
  IF bootstrap
  THEN /\ flow' = [flow EXCEPT ![f] = Awaiting("registering", stale)]
       /\ registration' = IF registration = Null THEN [token |-> Null] ELSE registration
  ELSE /\ flow' = [flow EXCEPT ![f] = Awaiting("unregistered", stale)]
       /\ UNCHANGED registration

(* #authorizedFetch begins.                                                *)
Asks(f) ==
  /\ flow[f].at = "idle"
  /\ IF token # Null
     THEN flow' = [flow EXCEPT ![f] = Sent(token, FALSE)] /\ UNCHANGED registration
     ELSE EnsureRegistered(f, Null)

(* Latchflo answers a request.                                             *)
Serve(f) ==
  /\ Settled /\ flow[f].at = "sent"
  /\ flow' = [flow EXCEPT ![f].at = IF flow[f].token = valid THEN "ok"
                                    ELSE "rejected"]
  /\ UNCHANGED <<fixedVars, token, registration, agentVars, modeVars, latchfloVars,
                 disk, countVars>>

(* The deadline, a transport error, another status, a response that makes  *)
(* no sense, a body that is cut off.                                       *)
Fails(f) ==
  /\ Settled /\ flow[f].at \in {"sent", "ok"} /\ faults < MaxFaults
  /\ \E kind \in Kind : Throws(f, kind)
  /\ faults' = faults + 1
  /\ UNCHANGED <<fixedVars, token, registration, latchfloVars, disk,
                 revoked, crashes>>

(* The body of an answer is read, without a deadline.                      *)
Receive(f) ==
  /\ Settled /\ flow[f].at = "ok"
  /\ Done(f)
  /\ UNCHANGED <<fixedVars, token, registration, latchfloVars, disk,
                 countVars>>

(* Mutant: whatever token there is now is discarded.                       *)
AnyToken(t) == token # Null

(* The token that was refused is the one in use.                           *)
InUse(t) == token = t

(* Without a way to register, the token is of no more use.                 *)
TokenWithoutBootstrap(t) == IF InUse(t) THEN Null ELSE token

(* 401: #refreshAuthorization, and the request once more with a new token. *)
Rejected(f) ==
  LET t == flow[f].token IN
  /\ Settled /\ flow[f].at = "rejected"
  /\ \/ /\ flow[f].again
        /\ Throws(f, "permanent") /\ UNCHANGED <<token, registration>>
     \/ /\ ~ flow[f].again /\ ~ bootstrap
        /\ Throws(f, "permanent")
        /\ token' = TokenWithoutBootstrap(t) /\ UNCHANGED registration
     \/ /\ ~ flow[f].again /\ bootstrap /\ InUse(t)
        /\ token' = Null
        /\ EnsureRegistered(f, t) /\ UNCHANGED <<agentVars, modeVars>>
     \/ /\ ~ flow[f].again /\ bootstrap /\ ~ InUse(t)
        /\ IF token = Null THEN Throws(f, "permanent")      \* not tried again
           ELSE Continues(f, Sent(token, TRUE))
        /\ UNCHANGED <<token, registration>>
  /\ UNCHANGED <<fixedVars, latchfloVars, disk, countVars>>

---------------------------------------------------------------------------
(* Registration.                                                           *)

Waiters == {f \in Caller : flow[f].at = "registering"}
Wake(at) ==
  flow' = [f \in Caller |-> IF f \in Waiters THEN [flow[f] EXCEPT !.at = at] ELSE flow[f]]

(* Latchflo issues a token.                                                *)
Issue ==
  /\ Settled /\ RegistrationAsked /\ issued < MaxTokens
  /\ issued' = issued + 1
  /\ valid' = issued + 1
  /\ registration' = [token |-> issued + 1]
  /\ UNCHANGED <<fixedVars, token, flow, agentVars, modeVars, losses, disk,
                 countVars>>

(* The rest of #register, and #persistAgentToken, which may fail.          *)
Registered ==
  /\ Settled /\ RegistrationIssued
  /\ token' = registration.token
  /\ \/ disk' = (IF file THEN registration.token ELSE disk) /\ UNCHANGED faults
     \/ file /\ faults < MaxFaults /\ faults' = faults + 1 /\ UNCHANGED disk
  /\ registration' = Null
  /\ Wake("registered")
  /\ UNCHANGED <<fixedVars, agentVars, modeVars, latchfloVars, revoked,
                 crashes>>

RegistrationFaulty ==
  /\ Settled /\ registration # Null /\ faults < MaxFaults
  /\ faults' = faults + 1
  /\ losses' = losses + (IF RegistrationIssued THEN 1 ELSE 0)
  /\ Wake("unregistered")
  /\ UNCHANGED <<fixedVars, token, agentVars, modeVars, valid, issued, disk,
                 revoked, crashes>>

(* It fails, before or after Latchflo has issued the token.                *)
RegistrationFails == RegistrationFaulty /\ registration' = Null

(* Whoever waited goes on, with the token there is.                        *)
Resume(f) ==
  /\ \/ /\ flow[f].at = "unregistered"
        /\ Throws(f, IF bootstrap THEN "retryable" ELSE "permanent")
     \/ /\ flow[f].at = "registered"
        /\ IF token \notin {Null, flow[f].token}
           THEN Continues(f, Sent(token, flow[f].again))
           ELSE Throws(f, "permanent")
  /\ UNCHANGED <<fixedVars, token, registration, latchfloVars, disk,
                 countVars>>

---------------------------------------------------------------------------
(* The agent and managed mode.                                             *)

PollTimerFires(f) ==
  /\ Settled /\ pollTimer /\ f \in Pollers /\ Asks(f)
  /\ pollTimer' = FALSE
  /\ UNCHANGED <<fixedVars, token, running, heartbeatTimer, modeVars, latchfloVars,
                 disk, countVars>>

HeartbeatTimerFires(f) ==
  /\ Settled /\ heartbeatTimer /\ f \in Heartbeats /\ Asks(f)
  /\ heartbeatTimer' = FALSE
  /\ UNCHANGED <<fixedVars, token, running, pollTimer, modeVars, latchfloVars,
                 disk, countVars>>

(* attemptStart, when managed mode is not stopped.                         *)
AttemptStart ==
  IF starting \/ started
  THEN UNCHANGED <<starting, running, registration, flow>>
  ELSE starting' = TRUE /\ running' = TRUE /\ Asks(Starter)

Start ==
  /\ Settled /\ starts < MaxStarts
  /\ starts' = starts + 1
  /\ stopped' = FALSE
  /\ AttemptStart
  /\ UNCHANGED <<fixedVars, token, pollTimer, heartbeatTimer, started, retryTimer,
                 orphans, cutShort, latchfloVars, disk, countVars>>

Stop ==
  /\ Settled /\ starts > 0 /\ ~ stopped
  /\ stopped' = TRUE /\ started' = FALSE /\ retryTimer' = FALSE
  /\ AgentStop
  /\ cutShort' = (cutShort \/ starting)
  /\ UNCHANGED <<fixedVars, token, registration, flow, starting, orphans, starts,
                 latchfloVars, disk, countVars>>

RetryFires ==
  /\ Settled
  /\ \/ retryTimer /\ retryTimer' = FALSE /\ UNCHANGED orphans
     \/ orphans > 0 /\ orphans' = orphans - 1 /\ UNCHANGED retryTimer
  /\ IF stopped THEN UNCHANGED <<starting, running, registration, flow>>
     ELSE AttemptStart
  /\ UNCHANGED <<fixedVars, token, pollTimer, heartbeatTimer, stopped, started,
                 cutShort, starts, latchfloVars, disk, countVars>>

---------------------------------------------------------------------------
(* The outside.                                                            *)

(* Latchflo forgets the valid token.                                       *)
Revoke ==
  /\ Settled /\ valid # Null /\ revoked < MaxRevoked
  /\ revoked' = revoked + 1 /\ losses' = losses + 1
  /\ valid' = Null
  /\ UNCHANGED <<fixedVars, token, registration, flow, agentVars, modeVars, issued,
                 disk, faults, crashes>>

(* The process ends; the next one reads the file.  A registration it has   *)
(* asked for may still be served.                                          *)
Crash ==
  /\ Settled /\ crashes < MaxCrashes
  /\ crashes' = crashes + 1
  /\ \/ UNCHANGED <<valid, issued>>
     \/ RegistrationAsked /\ issued < MaxTokens
        /\ issued' = issued + 1 /\ valid' = issued + 1
  /\ losses' = losses + (IF valid' # Null /\ valid' # disk THEN 1 ELSE 0)
  /\ token' = disk /\ registration' = Null
  /\ flow' = [f \in Caller |-> Idle]
  /\ running' = FALSE /\ pollTimer' = FALSE /\ heartbeatTimer' = FALSE
  /\ stopped' = FALSE /\ starting' = FALSE /\ started' = FALSE
  /\ retryTimer' = FALSE /\ orphans' = 0 /\ cutShort' = FALSE /\ starts' = 0
  /\ UNCHANGED <<fixedVars, disk, faults, revoked>>

Next ==
  \/ \E f \in Caller :
       \/ Serve(f) \/ Fails(f) \/ Receive(f) \/ Rejected(f) \/ Resume(f)
       \/ PollTimerFires(f) \/ HeartbeatTimerFires(f)
  \/ Issue \/ Registered \/ RegistrationFails
  \/ Start \/ Stop \/ RetryFires
  \/ Revoke \/ Crash

Spec == Init /\ [][Next]_vars

(* Requests are answered or time out before their headers arrive, timers   *)
(* fire and continuations run.                                             *)
HeaderSpec ==
  /\ Spec
  /\ WF_vars(Issue) /\ WF_vars(RetryFires)
  /\ \A f \in Caller :
       /\ WF_vars(Serve(f) \/ Rejected(f)) /\ WF_vars(Resume(f))
       /\ WF_vars(PollTimerFires(f)) /\ WF_vars(HeartbeatTimerFires(f))

(* ... and what Latchflo begins to answer, it answers to the end.          *)
FairSpec ==
  HeaderSpec /\ WF_vars(Registered) /\ \A f \in Caller : WF_vars(Receive(f))

---------------------------------------------------------------------------
Token == 0 .. MaxTokens

(* There is a registration in flight exactly when somebody waits for it,   *)
(* and none while there is a token.                                        *)
TypeOK ==
  /\ token \in Token \cup {Null} /\ valid \in Token \cup {Null}
  /\ disk \in Token \cup {Null}
  /\ registration # Null => token = Null
  /\ registration # Null <=> Waiters # {}
  /\ running => starting \/ started
  /\ issued < MaxTokens

(* One registration is enough for every loss of the valid token: requests  *)
(* refused together, late refusals of older tokens, restarts, and retries  *)
(* of managed mode never cost one that is good.                            *)
RegistersOncePerLoss == issued <= losses

(* After stop() nothing of the agent goes on, and nothing brings it back,  *)
(* although starts, retries and polls were in flight.                      *)
StaysStopped ==
  stopped /\ ~ starting => ~ running /\ ~ pollTimer /\ ~ heartbeatTimer

Wanted == bootstrap /\ starts > 0 /\ ~ stopped /\ ~ cutShort

Connected ==
  /\ running /\ token # Null /\ token = valid
  /\ pollTimer \/ \E f \in Pollers : flow[f].at # "idle"
  /\ heartbeatTimer \/ \E f \in Heartbeats : flow[f].at # "idle"

(* A replica that can register gets connected, and connected again,        *)
(* whatever failed, for good or not, was revoked, or restarted; unless a   *)
(* stop() came while a start was in flight, after which start() may do     *)
(* nothing.                                                                *)
Connects == Wanted ~> (Connected \/ ~ Wanted)

(* Every request is bounded by requestTimeoutMs.                           *)
RequestsEnd ==
  \A f \in Caller : (flow[f].at # "idle") ~> (flow[f].at = "idle")
=============================================================================
