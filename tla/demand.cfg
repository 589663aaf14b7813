\* A busy and an idle pool, two admissions, two heartbeats by anyone, answers
\* that arrive now and then.
SPECIFICATION FairSpec
CONSTANTS
  busy = busy  idle = idle
  Pool <- ThePools
  Ceilings <- TheCeilings
  NoTarget = NoTarget  NoCapture = NoCapture
  MaxAdmitted <- TheAdmissions
  MaxRevision <- TheRevisions
  MaxQueue = 2
  Embedded = TRUE
INVARIANTS ReportedOnce HeartbeatAlive
PROPERTIES DrainProofArrives
\* After stop() the agent does nothing more.
CHECK_DEADLOCK FALSE
