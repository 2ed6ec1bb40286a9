------------------------------- MODULE AuditLog -------------------------------
(***************************************************************************)
(* The rows that AuditListener writes to audit_logs and login_history: one *)
(* handler per event, run after emit has returned to the request, and      *)
(* logged, not retried, when its insert fails.                             *)
(*                                                                         *)
(* An event is its name, LOGIN_FAILED its status.  A row is its table and  *)
(* the action or status it records.                                        *)
(***************************************************************************)
EXTENDS Naturals, FiniteSets

\* enum LoginStatus, without FAILED_UNVERIFIED, which nothing writes.
FailedStatuses == {"FAILED_PASSWORD", "FAILED_LOCKED", "FAILED_NOT_FOUND"}
LoginStatuses == FailedStatuses \cup {"SUCCESS"}

\* The events whose handlers record an action.
Actions == {"USER_REGISTERED", "USER_LOGGED_IN", "USER_LOGGED_OUT",
            "TOKEN_REUSE_DETECTED", "EMAIL_VERIFIED", "PASSWORD_CHANGED",
            "SESSION_REVOKED", "ALL_SESSIONS_REVOKED"}
Events == Actions \cup FailedStatuses \cup {"TOKEN_REFRESHED"}

AuditRow(action) == <<"audit_logs", action>>
HistoryRow(status) == <<"login_history", status>>
Rows == {AuditRow(a) : a \in Actions} \cup {HistoryRow(s) : s \in LoginStatuses}

\* Mutant: a successful login is not remembered in login_history.
StatusesFailedOnly(event) == {event} \cap FailedStatuses

\* The login attempts that an event tells of.
Statuses(event) ==
    IF event = "USER_LOGGED_IN" THEN {"SUCCESS"} ELSE {event} \cap FailedStatuses

\* The inserts that the handler of an event starts, all at once.
RowsOf(event) == {AuditRow(a) : a \in {event} \cap Actions}
                     \cup {HistoryRow(s) : s \in Statuses(event)}

=============================================================================
