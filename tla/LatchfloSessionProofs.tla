------------------------ MODULE LatchfloSessionProofs ----------------------
(***************************************************************************)
(* A replica registers once for every loss of its token, and stays stopped *)
(* once it was stopped, whatever the number of polls, faults and restarts. *)
(***************************************************************************)
EXTENDS LatchfloSession, TLAPS

(* Tokens are numbered in the order Latchflo issues them.                  *)
Issued == 0 .. issued

Stage ==
  {"idle", "sent", "ok", "rejected", "registering", "registered", "unregistered"}

SessionTypes ==
  /\ issued \in Nat /\ losses \in Nat
  /\ token \in Issued \cup {Null} /\ valid \in Issued \cup {Null}
  /\ disk \in Issued \cup {Null}
  /\ registration \in [token: Issued \cup {Null}] \cup {Null}
  /\ flow \in [Caller -> [at: Stage, token: Issued \cup {Null}, again: BOOLEAN]]
  /\ \A f \in Caller : flow[f].at \in {"sent", "ok", "rejected"} => flow[f].token # Null

(* While a registration is in flight there is no token.                    *)
RegistersWithoutToken == registration # Null => token = Null

(* A refusal is final: the token it was about is never valid again.        *)
RefusalIsFinal == \A f \in Caller : flow[f].at = "rejected" => flow[f].token # valid

(* The token Latchflo takes is in use, or on its way.                      *)
ValidIsKnown ==
  /\ valid # Null
  /\ token = valid \/ (registration # Null /\ registration.token = valid)

(* Every registration but the one to come has been paid for by a loss.     *)
LossesCoverIssued == issued + (IF ValidIsKnown THEN 0 ELSE 1) <= losses

IInv == SessionTypes /\ RegistersWithoutToken /\ RefusalIsFinal /\ LossesCoverIssued

(* What a caller may be at.                                                *)
Allowed(e) ==
  /\ e \in [at: Stage, token: Issued \cup {Null}, again: BOOLEAN]
  /\ e.at \in {"sent", "ok", "rejected"} => e.token # Null
  /\ e.at = "rejected" => e.token # valid

(* A token is only dropped when it is not the one Latchflo takes.          *)
KeepsGoodToken == token' = token \/ (token' = Null /\ token # valid)

(* A registration only begins when there is none and no token.             *)
KeepsRegistration ==
  \/ registration' = registration
  \/ registration = Null /\ registration' = [token |-> Null] /\ token' = Null

---------------------------------------------------------------------------
LEMMA IdleAllowed == SessionTypes => Allowed(Idle)
  BY DEF SessionTypes, Allowed, Idle, Stage

LEMMA SentAllowed ==
  ASSUME SessionTypes, token # Null, NEW again \in BOOLEAN
  PROVE  Allowed(Sent(token, again))
  BY DEF SessionTypes, Allowed, Sent, Stage

LEMMA AwaitingAllowed ==
  ASSUME SessionTypes, NEW stale \in Issued \cup {Null},
         NEW at \in {"registering", "unregistered"}
  PROVE  Allowed(Awaiting(at, stale))
  BY DEF SessionTypes, Allowed, Awaiting, Stage

(* A step of one caller that loses no good token, issues none and asks for *)
(* a registration only without a token keeps the invariant.                *)
LEMMA OneCaller ==
  ASSUME IInv, NEW f \in Caller, NEW e, Allowed(e),
         flow' = [flow EXCEPT ![f] = e],
         UNCHANGED <<valid, issued, losses, disk>>,
         KeepsGoodToken, KeepsRegistration
  PROVE  IInv'
<1> USE NullAssumption DEF IInv, Issued
<1>1. SessionTypes'
  <2>1. token' \in Issued' \cup {Null} /\ registration' \in [token: Issued' \cup {Null}] \cup {Null}
    BY DEF SessionTypes, KeepsGoodToken, KeepsRegistration
  <2>2. flow' \in [Caller -> [at: Stage, token: Issued' \cup {Null}, again: BOOLEAN]]
    BY DEF SessionTypes, Allowed
  <2>3. \A g \in Caller : flow'[g].at \in {"sent", "ok", "rejected"} => flow'[g].token # Null
    BY DEF SessionTypes, Allowed
  <2> QED BY <2>1, <2>2, <2>3 DEF SessionTypes
<1>2. RegistersWithoutToken'
  BY DEF RegistersWithoutToken, KeepsGoodToken, KeepsRegistration
<1>3. RefusalIsFinal'
  BY DEF RefusalIsFinal, SessionTypes, Allowed
<1>4. LossesCoverIssued'
  <2>1. ValidIsKnown => ValidIsKnown'
    BY DEF ValidIsKnown, SessionTypes, KeepsGoodToken, KeepsRegistration
  <2> QED BY <2>1 DEF LossesCoverIssued, SessionTypes
<1> QED BY <1>1, <1>2, <1>3, <1>4

(* Nothing the invariant speaks of moves.                                  *)
LEMMA Undisturbed ==
  ASSUME IInv, UNCHANGED <<flow, token, registration, valid, issued, losses, disk>>
  PROVE  IInv'
  BY DEF IInv, SessionTypes, RegistersWithoutToken, RefusalIsFinal,
         LossesCoverIssued, ValidIsKnown, Issued

LEMMA InitIInv == Init => IInv
<1> SUFFICES ASSUME Init PROVE IInv
  OBVIOUS
<1> USE NullAssumption DEF Init, Issued
<1>1. SessionTypes
  BY DEF SessionTypes, Idle, Stage
<1>2. RegistersWithoutToken /\ RefusalIsFinal
  BY DEF RegistersWithoutToken, RefusalIsFinal, Idle
<1>3. LossesCoverIssued
  BY DEF LossesCoverIssued, ValidIsKnown
<1> QED BY <1>1, <1>2, <1>3 DEF IInv

(* Whoever asks has a token, or a registration is asked for.               *)
LEMMA AskingKeeps ==
  ASSUME IInv, NEW f \in Caller, Asks(f),
         UNCHANGED <<token, valid, issued, losses, disk>>
  PROVE  IInv'
<1>1. CASE token # Null
  <2>1. Allowed(Sent(token, FALSE))
    BY <1>1, SentAllowed DEF IInv
  <2> QED BY <1>1, <2>1, OneCaller DEF Asks, KeepsGoodToken, KeepsRegistration
<1>2. CASE token = Null
  <2>1. Allowed(Awaiting("registering", Null)) /\ Allowed(Awaiting("unregistered", Null))
    BY AwaitingAllowed DEF IInv
  <2>2. CASE bootstrap
    BY <1>2, <2>1, <2>2, OneCaller
       DEF Asks, EnsureRegistered, KeepsGoodToken, KeepsRegistration
  <2>3. CASE ~ bootstrap
    BY <1>2, <2>1, <2>3, OneCaller
       DEF Asks, EnsureRegistered, KeepsGoodToken, KeepsRegistration
  <2> QED BY <2>2, <2>3
<1> QED BY <1>1, <1>2

(* What wakes those who waited leaves the others where they are.           *)
LEMMA WakeKeepsFlow ==
  ASSUME IInv, NEW at \in {"registered", "unregistered"}, Wake(at),
         UNCHANGED <<valid, issued>>
  PROVE  /\ flow' \in [Caller -> [at: Stage, token: Issued' \cup {Null}, again: BOOLEAN]]
         /\ \A f \in Caller :
              flow'[f].at \in {"sent", "ok", "rejected"} => flow'[f].token # Null
         /\ RefusalIsFinal'
<1> USE DEF IInv, SessionTypes, Issued, Wake, Waiters
<1>1. \A f \in Caller :
        flow'[f] = IF flow[f].at = "registering" THEN [flow[f] EXCEPT !.at = at] ELSE flow[f]
  OBVIOUS
<1>2. \A f \in Caller : flow'[f] \in [at: Stage, token: Issued \cup {Null}, again: BOOLEAN]
  BY <1>1 DEF Stage
<1>3. \A f \in Caller :
        flow'[f].at \in {"sent", "ok", "rejected"} => flow'[f] = flow[f]
  BY <1>1
<1> QED BY <1>2, <1>3 DEF RefusalIsFinal

---------------------------------------------------------------------------
(* A 401: what was refused is dropped only while it is in use, and then it *)
(* is not the token Latchflo takes.                                        *)
LEMMA RejectedKeeps ==
  ASSUME IInv, NEW f \in Caller, Rejected(f)
  PROVE  IInv'
<1> DEFINE t == flow[f].token
<1>1. Allowed(Idle)
  BY IdleAllowed DEF IInv
<1>2. t \in Issued \cup {Null} /\ t # valid /\ t # Null
  BY DEF Rejected, IInv, RefusalIsFinal, SessionTypes
<1>3. UNCHANGED <<valid, issued, losses, disk>>
  BY DEF Rejected, latchfloVars
<1>4. CASE flow[f].again /\ Throws(f, "permanent") /\ UNCHANGED <<token, registration>>
  BY <1>1, <1>3, <1>4, OneCaller DEF Throws, KeepsGoodToken, KeepsRegistration
<1>5. CASE /\ ~ flow[f].again /\ ~ bootstrap /\ Throws(f, "permanent")
           /\ token' = TokenWithoutBootstrap(t) /\ UNCHANGED registration
  <2>1. KeepsGoodToken
    BY <1>2, <1>5 DEF KeepsGoodToken, TokenWithoutBootstrap, InUse
  <2> QED BY <1>1, <1>3, <1>5, <2>1, OneCaller DEF Throws, KeepsRegistration
<1>6. CASE /\ ~ flow[f].again /\ bootstrap /\ InUse(t)
           /\ token' = Null /\ EnsureRegistered(f, t)
  <2>1. Allowed(Awaiting("registering", t))
    BY <1>2, AwaitingAllowed DEF IInv
  <2>2. KeepsGoodToken
    BY <1>2, <1>6 DEF KeepsGoodToken, InUse
  <2>3. KeepsRegistration
    BY <1>6 DEF KeepsRegistration, EnsureRegistered
  <2> HIDE DEF t
  <2> QED BY <1>3, <1>6, <2>1, <2>2, <2>3, OneCaller DEF EnsureRegistered
<1>7. CASE /\ ~ flow[f].again /\ bootstrap /\ ~ InUse(t)
           /\ IF token = Null THEN Throws(f, "permanent")
              ELSE Continues(f, Sent(token, TRUE))
           /\ UNCHANGED <<token, registration>>
  <2>1. CASE token = Null
    BY <1>1, <1>3, <1>7, <2>1, OneCaller DEF Throws, KeepsGoodToken, KeepsRegistration
  <2>2. CASE token # Null
    <3>1. Allowed(Sent(token, TRUE))
      BY <2>2, SentAllowed DEF IInv
    <3> QED BY <1>3, <1>7, <2>2, <3>1, OneCaller
            DEF Continues, KeepsGoodToken, KeepsRegistration
  <2> QED BY <2>1, <2>2
<1> QED BY <1>4, <1>5, <1>6, <1>7 DEF Rejected

LEMMA ServeKeeps ==
  ASSUME IInv, NEW f \in Caller, Serve(f)
  PROVE  IInv'
<1> DEFINE e == [flow[f] EXCEPT !.at = IF flow[f].token = valid THEN "ok" ELSE "rejected"]
<1>1. flow' = [flow EXCEPT ![f] = e]
  BY DEF Serve
<1>2. Allowed(e)
  BY DEF Serve, Allowed, IInv, SessionTypes, Stage
<1> QED BY <1>1, <1>2, OneCaller
        DEF Serve, latchfloVars, KeepsGoodToken, KeepsRegistration

LEMMA ResumeKeeps ==
  ASSUME IInv, NEW f \in Caller, Resume(f)
  PROVE  IInv'
<1>1. Allowed(Idle)
  BY IdleAllowed DEF IInv
<1>2. UNCHANGED <<token, registration, valid, issued, losses, disk>>
  BY DEF Resume, latchfloVars
<1>3. CASE Throws(f, IF bootstrap THEN "retryable" ELSE "permanent")
  BY <1>1, <1>2, <1>3, OneCaller DEF Throws, KeepsGoodToken, KeepsRegistration
<1>4. CASE token \notin {Null, flow[f].token} /\ Continues(f, Sent(token, flow[f].again))
  <2>1. Allowed(Sent(token, flow[f].again))
    BY <1>4, SentAllowed DEF IInv, SessionTypes
  <2> QED BY <1>2, <1>4, <2>1, OneCaller DEF Continues, KeepsGoodToken, KeepsRegistration
<1>5. CASE Throws(f, "permanent")
  BY <1>1, <1>2, <1>5, OneCaller DEF Throws, KeepsGoodToken, KeepsRegistration
<1> QED BY <1>3, <1>4, <1>5 DEF Resume

(* A registration is only asked for without a token, and by the invariant  *)
(* some loss is still unpaid: the token issued now pays for it.  It is a   *)
(* new one, so no refusal is about it.                                     *)
LEMMA IssueKeeps ==
  ASSUME IInv, Issue
  PROVE  IInv'
<1> USE NullAssumption DEF IInv, Issued
<1>1. SessionTypes'
  BY DEF Issue, SessionTypes
<1>2. RegistersWithoutToken'
  BY DEF Issue, RegistersWithoutToken, RegistrationAsked
<1>3. RefusalIsFinal'
  BY DEF Issue, RefusalIsFinal, SessionTypes
<1>4. LossesCoverIssued'
  <2>1. ~ ValidIsKnown
    BY DEF Issue, ValidIsKnown, RegistersWithoutToken, RegistrationAsked
  <2>2. ValidIsKnown'
    BY DEF Issue, ValidIsKnown, SessionTypes
  <2> QED BY <2>1, <2>2 DEF Issue, LossesCoverIssued, SessionTypes
<1> QED BY <1>1, <1>2, <1>3, <1>4

LEMMA RegisteredKeeps ==
  ASSUME IInv, Registered
  PROVE  IInv'
<1> USE NullAssumption DEF IInv, Issued
<1>1. /\ UNCHANGED <<valid, issued, losses>> /\ Wake("registered") /\ RegistrationIssued
      /\ registration' = Null
  BY DEF Registered, latchfloVars
<1>2. SessionTypes'
  BY <1>1, WakeKeepsFlow DEF Registered, SessionTypes, RegistrationIssued
<1>3. RegistersWithoutToken'
  BY <1>1 DEF RegistersWithoutToken
<1>4. RefusalIsFinal'
  BY <1>1, WakeKeepsFlow
<1>5. LossesCoverIssued'
  <2>1. ValidIsKnown => ValidIsKnown'
    BY <1>1 DEF Registered, ValidIsKnown, RegistersWithoutToken, RegistrationIssued
  <2> QED BY <1>1, <2>1 DEF LossesCoverIssued, SessionTypes
<1> QED BY <1>2, <1>3, <1>4, <1>5

(* A registration that fails after the token was issued is a loss; before, *)
(* it had nothing to lose.                                                 *)
LEMMA RegistrationFailsKeeps ==
  ASSUME IInv, RegistrationFails
  PROVE  IInv'
<1> USE NullAssumption DEF IInv, Issued
<1>1. UNCHANGED <<valid, issued, token, disk>> /\ Wake("unregistered")
      /\ registration' = Null /\ registration # Null
  BY DEF RegistrationFails, RegistrationFaulty
<1>2. SessionTypes'
  BY <1>1, WakeKeepsFlow DEF RegistrationFails, RegistrationFaulty, SessionTypes
<1>3. RegistersWithoutToken' /\ RefusalIsFinal'
  BY <1>1, WakeKeepsFlow DEF RegistersWithoutToken
<1>4. LossesCoverIssued'
  <2>1. CASE RegistrationIssued
    BY <1>1, <2>1 DEF RegistrationFails, RegistrationFaulty, LossesCoverIssued, SessionTypes
  <2>2. CASE ~ RegistrationIssued
    <3>1. ValidIsKnown => ValidIsKnown'
      BY <1>1, <2>2 DEF ValidIsKnown, RegistrationIssued
    <3> QED BY <1>1, <2>2, <3>1
            DEF RegistrationFails, RegistrationFaulty, LossesCoverIssued, SessionTypes
  <2> QED BY <2>1, <2>2
<1> QED BY <1>2, <1>3, <1>4

LEMMA RevokeKeeps ==
  ASSUME IInv, Revoke
  PROVE  IInv'
<1> USE NullAssumption DEF IInv, Issued, Revoke
<1>1. SessionTypes'
  BY DEF SessionTypes
<1>2. RegistersWithoutToken'
  BY DEF RegistersWithoutToken
<1>3. RefusalIsFinal'
  BY DEF RefusalIsFinal, SessionTypes
<1>4. LossesCoverIssued'
  BY DEF LossesCoverIssued, SessionTypes, ValidIsKnown
<1> QED BY <1>1, <1>2, <1>3, <1>4

(* A restart forgets a token that did not reach the file, which is a loss. *)
LEMMA CrashKeeps ==
  ASSUME IInv, Crash
  PROVE  IInv'
<1> USE NullAssumption DEF IInv, Issued
<1>1. \/ UNCHANGED <<valid, issued>>
      \/ RegistrationAsked /\ issued' = issued + 1 /\ valid' = issued + 1
  BY DEF Crash
<1>2. /\ losses' = losses + (IF valid' # Null /\ valid' # disk THEN 1 ELSE 0)
      /\ token' = disk /\ registration' = Null /\ disk' = disk
      /\ flow' = [f \in Caller |-> Idle]
  BY DEF Crash
<1>3. SessionTypes'
  <2>1. issued' \in Nat /\ Issued \subseteq Issued' /\ valid' \in Issued' \cup {Null}
    BY <1>1 DEF SessionTypes
  <2>2. \A f \in Caller : flow'[f] = Idle
    BY <1>2
  <2>3. flow' \in [Caller -> [at: Stage, token: Issued' \cup {Null}, again: BOOLEAN]]
    BY <1>2 DEF Idle, Stage
  <2> QED BY <1>2, <2>1, <2>2, <2>3 DEF SessionTypes, Idle
<1>4. RegistersWithoutToken' /\ RefusalIsFinal'
  BY <1>2 DEF RegistersWithoutToken, RefusalIsFinal, Idle
<1>5. LossesCoverIssued'
  <2>1. ValidIsKnown' <=> valid' # Null /\ valid' = disk
    BY <1>2 DEF ValidIsKnown
  <2>2. CASE UNCHANGED <<valid, issued>>
    BY <1>2, <2>1, <2>2 DEF LossesCoverIssued, SessionTypes, ValidIsKnown
  <2>3. CASE RegistrationAsked /\ issued' = issued + 1 /\ valid' = issued + 1
    <3>1. ~ ValidIsKnown
      BY <2>3 DEF ValidIsKnown, RegistersWithoutToken, RegistrationAsked
    <3>2. valid' \notin Issued /\ valid' # Null /\ disk # valid'
      BY <2>3 DEF SessionTypes
    <3> QED BY <1>2, <2>1, <2>3, <3>1, <3>2 DEF LossesCoverIssued, SessionTypes
  <2> QED BY <1>1, <2>2, <2>3
<1> QED BY <1>3, <1>4, <1>5


LEMMA NextIInv == IInv /\ [Next]_vars => IInv'
<1> SUFFICES ASSUME IInv, [Next]_vars PROVE IInv'
  OBVIOUS
<1>1. CASE UNCHANGED vars
  BY <1>1, Undisturbed DEF vars, latchfloVars
<1>2. ASSUME NEW f \in Caller, Serve(f) PROVE IInv'
  BY <1>2, ServeKeeps
<1>3. ASSUME NEW f \in Caller, Fails(f) PROVE IInv'
  <2>1. Allowed(Idle)
    BY IdleAllowed DEF IInv
  <2> QED BY <1>3, <2>1, OneCaller
          DEF Fails, Throws, latchfloVars, KeepsGoodToken, KeepsRegistration
<1>4. ASSUME NEW f \in Caller, Receive(f) PROVE IInv'
  <2>1. Allowed(Idle)
    BY IdleAllowed DEF IInv
  <2> QED BY <1>4, <2>1, OneCaller
          DEF Receive, Done, latchfloVars, KeepsGoodToken, KeepsRegistration
<1>5. ASSUME NEW f \in Caller, Rejected(f) PROVE IInv'
  BY <1>5, RejectedKeeps
<1>6. ASSUME NEW f \in Caller, Resume(f) PROVE IInv'
  BY <1>6, ResumeKeeps
<1>7. ASSUME NEW f \in Caller, PollTimerFires(f) PROVE IInv'
  BY <1>7, AskingKeeps DEF PollTimerFires, latchfloVars
<1>8. ASSUME NEW f \in Caller, HeartbeatTimerFires(f) PROVE IInv'
  BY <1>8, AskingKeeps DEF HeartbeatTimerFires, latchfloVars
<1>9. CASE Issue
  BY <1>9, IssueKeeps
<1>10. CASE Registered
  BY <1>10, RegisteredKeeps
<1>11. CASE RegistrationFails
  BY <1>11, RegistrationFailsKeeps
<1>12. ASSUME AttemptStart, UNCHANGED <<token, valid, issued, losses, disk>> PROVE IInv'
  <2>1. Starter \in Caller
    BY DEF Caller
  <2>2. CASE starting \/ started
    BY <1>12, <2>2, Undisturbed DEF AttemptStart
  <2>3. CASE ~ (starting \/ started)
    BY <1>12, <2>1, <2>3, AskingKeeps DEF AttemptStart
  <2> QED BY <2>2, <2>3
<1>13. CASE Start
  BY <1>12, <1>13 DEF Start, latchfloVars
<1>14. CASE Stop
  BY <1>14, Undisturbed DEF Stop, latchfloVars
<1>15. CASE RetryFires
  BY <1>12, <1>15, Undisturbed DEF RetryFires, latchfloVars
<1>16. CASE Revoke
  BY <1>16, RevokeKeeps
<1>17. CASE Crash
  BY <1>17, CrashKeeps
<1> QED BY <1>1, <1>2, <1>3, <1>4, <1>5, <1>6, <1>7, <1>8, <1>9, <1>10, <1>11,
           <1>13, <1>14, <1>15, <1>16, <1>17 DEF Next

(* #ensureRegistered: whatever polls, heartbeats, starts and retries are   *)
(* refused or come without a token, however late and in whatever order,    *)
(* Latchflo issues one token for each time the last was lost.              *)
THEOREM RegistersOnce == Spec => []RegistersOncePerLoss
<1>1. IInv => RegistersOncePerLoss
  BY DEF IInv, SessionTypes, LossesCoverIssued, RegistersOncePerLoss
<1> QED BY <1>1, InitIInv, NextIInv, PTL DEF Spec

---------------------------------------------------------------------------
(* What ends a request of the starter or of a loop starts nothing that was *)
(* stopped.                                                                *)
LEMMA EndingStaysStopped ==
  ASSUME StaysStopped, NEW f \in Caller,
         Reschedules(f) \/ StartSucceeds \/ \E kind \in Kind : StartThrows(kind)
  PROVE  StaysStopped'
<1>1. CASE Reschedules(f)
  BY <1>1 DEF Reschedules, StaysStopped, modeVars
<1>2. CASE StartSucceeds
  BY <1>2 DEF StartSucceeds, AttemptEnds, AgentStop, StaysStopped
<1>3. ASSUME NEW kind \in Kind, StartThrows(kind) PROVE StaysStopped'
  BY <1>3 DEF StartThrows, AttemptEnds, AgentStop, StaysStopped
<1> QED BY <1>1, <1>2, <1>3

LEMMA NextStaysStopped == StaysStopped /\ [Next]_vars => StaysStopped'
<1> SUFFICES ASSUME StaysStopped, [Next]_vars PROVE StaysStopped'
  OBVIOUS
<1> USE DEF StaysStopped, agentVars, modeVars
<1>1. CASE UNCHANGED vars
  BY <1>1 DEF vars
<1>2. ASSUME NEW f \in Caller, NEW kind \in Kind, Throws(f, kind) PROVE StaysStopped'
  BY <1>2, EndingStaysStopped DEF Throws
<1>3. ASSUME NEW f \in Caller, Serve(f) PROVE StaysStopped'
  BY <1>3 DEF Serve
<1>4. ASSUME NEW f \in Caller, Fails(f) PROVE StaysStopped'
  BY <1>2, <1>4 DEF Fails
<1>5. ASSUME NEW f \in Caller, Receive(f) PROVE StaysStopped'
  BY <1>5, EndingStaysStopped DEF Receive, Done
<1>6. ASSUME NEW f \in Caller, Rejected(f) PROVE StaysStopped'
  BY <1>2, <1>6 DEF Rejected, Continues, Kind
<1>7. ASSUME NEW f \in Caller, Resume(f) PROVE StaysStopped'
  BY <1>2, <1>7 DEF Resume, Continues, Kind
<1>8. ASSUME NEW f \in Caller, PollTimerFires(f) PROVE StaysStopped'
  BY <1>8 DEF PollTimerFires
<1>9. ASSUME NEW f \in Caller, HeartbeatTimerFires(f) PROVE StaysStopped'
  BY <1>9 DEF HeartbeatTimerFires
<1>10. CASE Issue \/ Registered \/ RegistrationFails \/ Revoke
  BY <1>10 DEF Issue, Registered, RegistrationFails, RegistrationFaulty, Revoke
<1>11. CASE Start \/ Crash
  BY <1>11 DEF Start, Crash
<1>12. CASE Stop
  BY <1>12 DEF Stop, AgentStop
<1>13. CASE RetryFires
  BY <1>13 DEF RetryFires, AttemptStart
<1> QED BY <1>1, <1>3, <1>4, <1>5, <1>6, <1>7, <1>8, <1>9, <1>10, <1>11, <1>12,
           <1>13 DEF Next

(* stop(): a start, a retry or a loop in flight at stop() never arms a     *)
(* timer or runs the agent again once the start has ended.                 *)
THEOREM AgentStaysStopped == Spec => []StaysStopped
<1>1. Init => StaysStopped
  BY DEF Init, StaysStopped
<1> QED BY <1>1, NextStaysStopped, PTL DEF Spec
============================================================================
