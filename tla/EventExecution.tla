--------------------------- MODULE EventExecution ---------------------------
(***************************************************************************)
(* Running a confirmed event: starting it, declaring it completed with a   *)
(* post-event report, the report's certification by the faculty advisor,   *)
(* and cancelling the event (EventExecutionService, and                    *)
(* EventService.cancel_confirmed_event).                                   *)
(***************************************************************************)
EXTENDS PostEventState

\* The wall clock reaches the start window (two hours before the start), then
\* the end of the booking.
ClockAdvances ==
    /\ \/ clock = "BEFORE" /\ clock' = "OPEN"
       \/ clock = "OPEN" /\ clock' = "ENDED"
    /\ UNCHANGED <<eventStatus, bookingActive, report, advance, ledgerVars,
                   settlementVars, closureVars>>

StartEvent ==
    /\ eventStatus = "SCHEDULED"
    /\ clock # "BEFORE"
    /\ eventStatus' = "IN_PROGRESS"
    /\ UNCHANGED <<clock, bookingActive, report, advance, ledgerVars,
                   settlementVars, closureVars>>

\* The administrator's emergency start skips the time window.
AdminStartEvent ==
    /\ eventStatus = "SCHEDULED"
    /\ eventStatus' = "IN_PROGRESS"
    /\ UNCHANGED <<clock, bookingActive, report, advance, ledgerVars,
                   settlementVars, closureVars>>

\* No time check: a SCHEDULED event may be completed before it starts.
CompleteAndSubmitReport ==
    /\ eventStatus \in {"SCHEDULED", "IN_PROGRESS"}
    /\ report = "NONE"
    /\ eventStatus' = "COMPLETED"
    /\ report' = "SUBMITTED"
    /\ UNCHANGED <<clock, bookingActive, advance, ledgerVars, settlementVars,
                   closureVars>>

\* One handler per transition of the report; each checks only that the event
\* is mutable and what the report's status is.
ReportTransition(from, to) ==
    /\ Mutable
    /\ report = from
    /\ report' = to
    /\ UNCHANGED <<eventStatus, clock, bookingActive, advance, ledgerVars,
                   settlementVars, closureVars>>

CertifyReport == ReportTransition("SUBMITTED", "CERTIFIED")
RequestReportRevision == ReportTransition("SUBMITTED", "REVISION_REQUIRED")
ResubmitReport == ReportTransition("REVISION_REQUIRED", "SUBMITTED")

\* Releases the hall and rejects an advance not yet paid out; an advance already
\* disbursed stays DISBURSED.
CancelConfirmedEvent ==
    /\ eventStatus \in {"SCHEDULED", "IN_PROGRESS"}
    /\ eventStatus' = "CANCELLED"
    /\ bookingActive' = FALSE
    /\ advance' = IF AdvanceUnresolved
                  THEN [advance EXCEPT !.status = "REJECTED"]
                  ELSE advance
    /\ UNCHANGED <<clock, report, ledgerVars, settlementVars, closureVars>>

ExecutionNext ==
    \/ ClockAdvances
    \/ StartEvent
    \/ AdminStartEvent
    \/ CompleteAndSubmitReport
    \/ CertifyReport
    \/ RequestReportRevision
    \/ ResubmitReport
    \/ CancelConfirmedEvent
=============================================================================
