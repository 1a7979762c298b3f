---------------------------- MODULE StatusStream ----------------------------
(***************************************************************************)
(* The validator's event logger and the publisher of its public status.    *)
(* The logger fences every event: a PENDING row in the status log, the     *)
(* event in the private log, the COMMITTED row in the status log.  The     *)
(* publisher, a timer job, reads the tail of the status log, derives one   *)
(* status document and replaces three public files: the status as PENDING, *)
(* two event views, and the status as COMMITTED.                           *)
(*                                                                         *)
(* The logger may die or fail to write between any two rows, and a dying   *)
(* machine may leave half a row; the publisher may die between two files.  *)
(***************************************************************************)
EXTENDS Integers, Sequences, FiniteSets, Functions, Absent

CONSTANTS
    LoggedEvents,       \* the events the validator logs: [code, facet]
    MaxTail,            \* MAX_EVENTS of the public tail
    MaxSourceRows,      \* rows in the last MAX_SOURCE_BYTES of the status log
    MaxEventAge,        \* MAX_EVENT_AGE_SECONDS, in clock steps
    MaxLogged, MaxStatusTime, MaxStatusFaults, MaxPublications     \* bounds

ASSUME StreamConstants ==
    /\ {MaxTail, MaxSourceRows, MaxEventAge, MaxLogged, MaxStatusTime, MaxStatusFaults,
        MaxPublications} \subseteq Nat
    /\ \A ev \in LoggedEvents : ev = [code |-> ev.code, facet |-> ev.facet]
    /\ NONE # "launch"

VARIABLES
    rawLog,         \* the private log
    rawPrivate,     \* its mode is 0600
    statusLog,      \* the status log: rows [phase, id, ev, ts]
    logger,         \* [pc, ev, id, ts], or down between two validator processes
    statusClock,
    publisher,      \* [pc, tail, doc, source]
    publicStatus,   \* status.json: [phase, tail, doc, seen]
    publicJsonl, publicLog,     \* the two event views
    statusFaults, publications

streamVars == <<rawLog, rawPrivate, statusLog, logger, statusClock, publisher, publicStatus,
                publicJsonl, publicLog, statusFaults, publications>>
LogFiles == <<rawLog, rawPrivate, statusLog>>
PublicFiles == <<publicStatus, publicJsonl, publicLog>>

-----------------------------------------------------------------------------
\* Rows and their fences

Authorities == {"WEIGHTS_SUBMITTED", "PENDING_RECEIPT_CONTRADICTION", "PENDING_RECEIPT_NOT_PROVEN",
                "PENDING_RECEIPT_RECOVERED", "TICK_FAILED", "VECTOR_REJECTED"}
Failures == {"PENDING_RECEIPT_CONTRADICTION", "TICK_FAILED", "VECTOR_REJECTED"}
Provenances == {"PROVENANCE_AUDIT_PASS", "PROVENANCE_AUDIT_FAIL", "PROVENANCE_AUDIT_NOT_PROVEN"}
ModeEvents == {"WEIGHTS_SUBMITTED", "WEIGHTS_DRY_RUN", "PENDING_RECEIPT_RECOVERED"}
Allowed == {"STARTUP", "LAUNCH_REWARDED_SET_GATE_PASS"} \cup Authorities \cup Provenances \cup ModeEvents

Row(phase, id, ev, ts) == [phase |-> phase, id |-> id, ev |-> ev, ts |-> ts]

\* A line that a dying machine cut short: whatever is appended next joins it and
\* neither can be parsed.
TornLine(row) == row.phase = "TORN"
AppendRow(log, row) ==
    IF log # <<>> /\ TornLine(log[Len(log)]) THEN [log EXCEPT ![Len(log)].phase = "TORN"] ELSE Append(log, row)

\* The public projection drops the modes of a STARTUP that contradicts itself,
\* so its COMMITTED row is invalid to the reader.
structured_status_value(facet) == IF facet = "contradictory" THEN NONE ELSE facet
sanitized_status_record(ev) == [ev EXCEPT !.facet = structured_status_value(@)]
pending_status_record(id, ev, ts) == Row("PENDING", id, sanitized_status_record(ev), ts)
committed_status_record(id, ev, ts) == Row("COMMITTED", id, sanitized_status_record(ev), ts)

\* What the reader accepts of a row.
clean_event(row) ==
    \/ row.phase = "PENDING"
    \/ /\ row.phase = "COMMITTED" /\ row.ev.code \in Allowed
       /\ row.ev.code = "STARTUP" => row.ev.facet # NONE
\* A COMMITTED row closes its fence; one of a public event only if it is valid.
closes_fence(row) == row.phase = "COMMITTED" /\ (row.ev.code \in Allowed => clean_event(row))
publication_commitment_matches(fence, row) == fence.id = row.id /\ fence.ev = row.ev /\ fence.ts = row.ts

\* The rows the tail shows, each under its place in the log: of the last rows of the
\* source, the clean ones without the fences that are closed, and the newest of these.
tail_events(log) ==
    LET recent == {i \in DOMAIN log : Len(log) - i < MaxSourceRows}
        closed(i) == \E j \in recent : /\ j > i /\ closes_fence(log[j])
                                       /\ publication_commitment_matches(log[i], log[j])
        shown == {i \in recent : clean_event(log[i]) /\ (log[i].phase = "PENDING" => ~closed(i))}
    IN  Restrict(log, {i \in shown : Cardinality({j \in shown : j > i}) < MaxTail})

-----------------------------------------------------------------------------
\* The status document

\* Where the rows of one of the codes are.  A fence matches no code.
Matching(rows, codes) == {i \in DOMAIN rows : rows[i].phase = "COMMITTED" /\ rows[i].ev.code \in codes}
Newest(places) == CHOOSE i \in places : \A j \in places : j <= i
\* The newest row of one of the codes, or NONE.
latest_matching(rows, codes) ==
    LET hits == Matching(rows, codes)
    IN  IF hits = {} THEN NONE ELSE rows[Newest(hits)]
\* The rows since the last STARTUP, which opens the session.
session_rows(rows) ==
    LET starts == Matching(rows, {"STARTUP"})
    IN  IF starts = {} THEN rows ELSE Restrict(rows, {i \in DOMAIN rows : i >= Newest(starts)})
event_fresh(row, now) == row # NONE /\ now - row.ts <= MaxEventAge

\* A live submission of the launch vector: one worker and the burn, 0.9 and 0.1.
is_launch_weight_boundary(row) ==
    row # NONE /\ row.ev.code \in {"WEIGHTS_SUBMITTED", "PENDING_RECEIPT_RECOVERED"} /\ row.ev.facet = "launch"
parse_weight_boundary_record(row) == IF row # NONE THEN "thin" ELSE "NOT_PROVEN"

build_status(rows, now) ==
    LET current == session_rows(rows)
        startup == latest_matching(current, {"STARTUP"})
        pending == \E i \in DOMAIN current : current[i].phase = "PENDING"
        authority == latest_matching(current, Authorities)
        provenance == latest_matching(current, Provenances)
        rewarded == latest_matching(current, {"LAUNCH_REWARDED_SET_GATE_PASS"})
        mode == IF startup # NONE THEN startup.ev.facet
                ELSE parse_weight_boundary_record(latest_matching(current, ModeEvents))
        authorityStatus ==
            IF pending \/ ~event_fresh(authority, now) THEN "NOT_PROVEN"
            ELSE IF authority.ev.code \in Failures THEN "FAIL"
            ELSE IF mode = "thin" /\ is_launch_weight_boundary(authority) THEN "PASS"
            ELSE "NOT_PROVEN"
        wholeEpoch ==
            IF pending \/ ~event_fresh(provenance, now) THEN "NOT_PROVEN"
            ELSE IF provenance.ev.code = "PROVENANCE_AUDIT_PASS" THEN "PASS"
            ELSE IF provenance.ev.code = "PROVENANCE_AUDIT_FAIL" THEN "FAIL"
            ELSE "NOT_PROVEN"
    IN  [mode |-> mode, authority |-> authorityStatus, wholeEpoch |-> wholeEpoch,
         rewarded |-> IF ~pending /\ event_fresh(rewarded, now) THEN "PASS" ELSE "NOT_PROVEN"]

-----------------------------------------------------------------------------
\* The validator's logger

Down == [pc |-> "down", started |-> FALSE, ev |-> NONE, id |-> 0, ts |-> 0]
PublisherIdle == [pc |-> "idle", tail |-> <<>>, doc |-> NONE, source |-> 0]
Unpublished == [phase |-> "PENDING", tail |-> <<>>, doc |-> NONE, seen |-> 0]

\* A host whose private log is still of the old mode 0640, or already of 0600.
StreamInit ==
    /\ rawLog = <<>> /\ statusLog = <<>> /\ rawPrivate \in BOOLEAN
    /\ logger = Down
    /\ publisher = PublisherIdle
    /\ publicStatus = Unpublished /\ publicJsonl = <<>> /\ publicLog = <<>>
    /\ statusClock = 0 /\ statusFaults = 0 /\ publications = 0

\* The cut-over migration: only with every writer stopped.
privatize_journal ==
    /\ logger.pc = "down" /\ ~rawPrivate
    /\ rawPrivate' = TRUE
    /\ UNCHANGED <<rawLog, statusLog, logger, statusClock, publisher, PublicFiles, statusFaults, publications>>

\* A log readable by a group nobody named refuses to open.
open_logger ==
    /\ logger.pc = "down" /\ rawPrivate
    /\ logger' = [Down EXCEPT !.pc = "idle"]
    /\ UNCHANGED <<LogFiles, statusClock, publisher, PublicFiles, statusFaults, publications>>

Logged == Len(rawLog) + statusFaults
\* event: the fence, the private row, the COMMITTED row, each synced before the
\* next.  A process logs its STARTUP first.
write_fence ==
    /\ logger.pc = "idle" /\ Logged < MaxLogged
    /\ \E ev \in LoggedEvents :
        LET id == Logged + 1
        IN  /\ (ev.code = "STARTUP") = ~logger.started
            /\ statusLog' = AppendRow(statusLog, pending_status_record(id, ev, statusClock))
            /\ logger' = [pc |-> "raw", started |-> TRUE, ev |-> ev, id |-> id, ts |-> statusClock]
    /\ UNCHANGED <<rawLog, rawPrivate, statusClock, publisher, PublicFiles, statusFaults, publications>>
write_raw ==
    /\ logger.pc = "raw"
    /\ rawLog' = Append(rawLog, logger.ev)
    /\ logger' = [logger EXCEPT !.pc = "commit"]
    /\ UNCHANGED <<rawPrivate, statusLog, statusClock, publisher, PublicFiles, statusFaults, publications>>
write_committed ==
    /\ logger.pc = "commit"
    /\ statusLog' = AppendRow(statusLog, committed_status_record(logger.id, logger.ev, logger.ts))
    /\ logger' = [logger EXCEPT !.pc = "idle"]
    /\ UNCHANGED <<rawLog, rawPrivate, statusClock, publisher, PublicFiles, statusFaults, publications>>

-----------------------------------------------------------------------------
\* One run of the publisher

read_tail ==
    /\ publisher.pc = "idle" /\ publications < MaxPublications
    /\ LET tail == tail_events(statusLog)
       IN  publisher' = [pc |-> "pending", tail |-> tail, doc |-> build_status(tail, statusClock),
                         source |-> Len(statusLog)]
    /\ publications' = publications + 1
    /\ UNCHANGED <<LogFiles, logger, statusClock, PublicFiles, statusFaults>>

\* status.json in its PENDING view: every verdict reads NOT_PROVEN.
status_publication_view(phase, seen) ==
    [phase |-> phase, tail |-> publisher.tail, doc |-> publisher.doc, seen |-> seen]
\* Mutant: the views are replaced under the previous COMMITTED marker.
mark_pending_skipped ==
    /\ publisher.pc = "pending"
    /\ publisher' = [publisher EXCEPT !.pc = "jsonl"]
    /\ UNCHANGED <<LogFiles, logger, statusClock, PublicFiles, statusFaults, publications>>
mark_pending ==
    /\ publisher.pc = "pending"
    /\ publicStatus' = status_publication_view("PENDING", 0)
    /\ publisher' = [publisher EXCEPT !.pc = "jsonl"]
    /\ UNCHANGED <<LogFiles, logger, statusClock, publicJsonl, publicLog, statusFaults, publications>>
publish_jsonl ==
    /\ publisher.pc = "jsonl"
    /\ publicJsonl' = publisher.tail
    /\ publisher' = [publisher EXCEPT !.pc = "log"]
    /\ UNCHANGED <<LogFiles, logger, statusClock, publicStatus, publicLog, statusFaults, publications>>
publish_log ==
    /\ publisher.pc = "log"
    /\ publicLog' = publisher.tail
    /\ publisher' = [publisher EXCEPT !.pc = "recheck"]
    /\ UNCHANGED <<LogFiles, logger, statusClock, publicStatus, publicJsonl, statusFaults, publications>>
\* Mutant: the source is not looked at again.
source_unchanged_always(source) == TRUE
source_unchanged(source) == Len(statusLog) = source
\* A status log that grew meanwhile leaves the publication pending.
recheck_source ==
    /\ publisher.pc = "recheck"
    /\ publisher' = IF source_unchanged(publisher.source)
                    THEN [publisher EXCEPT !.pc = "commit", !.source = Len(rawLog)] ELSE PublisherIdle
    /\ UNCHANGED <<LogFiles, logger, statusClock, PublicFiles, statusFaults, publications>>
mark_committed ==
    /\ publisher.pc = "commit"
    /\ publicStatus' = status_publication_view("COMMITTED", publisher.source)
    /\ publisher' = PublisherIdle
    /\ UNCHANGED <<LogFiles, logger, statusClock, publicJsonl, publicLog, statusFaults, publications>>

-----------------------------------------------------------------------------
\* Time and failures

StatusTick ==
    /\ statusClock < MaxStatusTime
    /\ statusClock' = statusClock + 1
    /\ UNCHANGED <<LogFiles, logger, publisher, PublicFiles, statusFaults, publications>>

\* The process is gone, or a write raised and the validator went on without it.
LoggerFails ==
    /\ logger.pc \in {"raw", "commit", "idle"} /\ statusFaults < MaxStatusFaults
    /\ logger' \in {Down, [logger EXCEPT !.pc = "idle"]}
    /\ logger' # logger
    /\ statusFaults' = statusFaults + 1
    /\ UNCHANGED <<LogFiles, statusClock, publisher, PublicFiles, publications>>
\* The machine dies while a row is on its way to the status log.
HostDies ==
    /\ logger.pc \in {"idle", "commit"} /\ statusFaults < MaxStatusFaults
    /\ statusLog' = AppendRow(statusLog, Row("TORN", 0, NONE, 0))
    /\ logger' = Down
    /\ publisher' = PublisherIdle
    /\ statusFaults' = statusFaults + 1
    /\ UNCHANGED <<rawLog, rawPrivate, statusClock, PublicFiles, publications>>
PublisherDies ==
    /\ publisher.pc # "idle" /\ statusFaults < MaxStatusFaults
    /\ publisher' = PublisherIdle
    /\ statusFaults' = statusFaults + 1
    /\ UNCHANGED <<LogFiles, logger, statusClock, PublicFiles, publications>>

StreamNext ==
    \/ privatize_journal \/ open_logger \/ write_fence \/ write_raw \/ write_committed
    \/ read_tail \/ mark_pending \/ publish_jsonl \/ publish_log \/ recheck_source \/ mark_committed
    \/ StatusTick \/ LoggerFails \/ HostDies \/ PublisherDies

-----------------------------------------------------------------------------
\* Properties

StreamTypeOK ==
    /\ rawLog \in Seq(LoggedEvents)
    /\ \A i \in DOMAIN statusLog : statusLog[i].phase \in {"PENDING", "COMMITTED", "TORN"}
    /\ logger.pc \in {"down", "idle", "raw", "commit"}
    /\ publisher.pc \in {"idle", "pending", "jsonl", "log", "recheck", "commit"}
    /\ publicStatus.phase \in {"PENDING", "COMMITTED"}

\* A committed PASS is current: of everything the validator had recorded in its
\* private log when the publisher last looked, the newest event that bears on
\* the authority is a submission of the launch vector, and no process started
\* since.  A torn line may have swallowed the fence that says otherwise.
PassIsCurrent ==
    (publicStatus.phase = "COMMITTED" /\ publicStatus.doc.authority = "PASS"
        /\ \A i \in DOMAIN statusLog : ~TornLine(statusLog[i])) =>
      LET seen == {i \in 1 .. publicStatus.seen : rawLog[i].code \in Authorities \cup {"STARTUP"}}
      IN  \E i \in seen : rawLog[i].facet = "launch" /\ \A j \in seen : j <= i

\* A committed status is consistent with the event views beside it: whoever
\* reads COMMITTED finds the events it was derived from.
ViewsMatchStatus ==
    publicStatus.phase = "COMMITTED" => publicJsonl = publicStatus.tail /\ publicLog = publicStatus.tail

\* The public status: types, a PASS is current, the views agree with it.
StreamInv == StreamTypeOK /\ PassIsCurrent /\ ViewsMatchStatus
=============================================================================
