----------------------------- MODULE LeanIngress -----------------------------
(***************************************************************************)
(* The lean V2 ingress: one process admits signed bitset submissions into  *)
(* a local SQLite log and answers with a receipt; a batch job flushes and  *)
(* verifies the log later.                                                 *)
(*                                                                         *)
(* Source: v2_lean_ingress.py.  A request is [hotkey, challenge, bits,     *)
(* token, wrong]: wrong names the first check it fails, or is NONE.  The   *)
(* idempotency key is <<hotkey, challenge>>.  The flush and the verdicts   *)
(* come from outside this module's source (external).                      *)
(***************************************************************************)
EXTENDS Absent, Naturals, FiniteSets

CONSTANTS
    IngressThreads,   \* requests the process handles at a time
    IngressRequests,  \* requests miners may send, again and again
    MaxUnflushed,     \* max_unflushed_events
    IpRpm,            \* ip_rpm
    MaxAnswers,       \* bound on answered requests
    MaxVerdicts       \* bound on rejections by the batch job

ASSUME IngressAssumption ==
    /\ {MaxUnflushed, IpRpm} \subseteq Nat \ {0} /\ MaxVerdicts \in Nat
    /\ NONE \notin IngressThreads

VARIABLES
    localEvents, \* submit_events_local: key -> [rid, bits, token, status, flushed, round]
    writeLock,      \* the thread inside BEGIN IMMEDIATE, or NONE
    handling,    \* thread -> [pc, req] of the request it serves
    hits,        \* requests of this minute, per hotkey's address
    pressed,     \* storage, disk or flush-lag pressure, read from the machine
    receipts,    \* answered receipts: [key, rid, bits, round]
    refused,     \* answered refusals, counted
    verdicts     \* rejections so far

ingressVars == <<localEvents, writeLock, handling, hits, pressed, receipts, refused, verdicts>>

At == [pc |-> "free", req |-> NONE]
Key(r) == <<r.hotkey, r.challenge>>
Unflushed == {k \in DOMAIN localEvents : ~localEvents[k].flushed}
RidOf(k) == k          \* a fresh uuid per key, kept when a rejected row is replaced

reject(t) ==
    /\ refused' = refused + 1
    /\ handling' = [handling EXCEPT ![t] = At]

Answer(t, k, row) ==
    /\ receipts' = receipts \cup {[key |-> k, rid |-> row.rid, bits |-> row.bits,
                                   round |-> row.round]}
    /\ handling' = [handling EXCEPT ![t] = At]

Answering == refused + Cardinality(receipts) < MaxAnswers

(* The per-address window comes before everything else.                    *)
check_ip_rate(t, r) ==
    /\ handling[t].pc = "free" /\ Answering
    /\ hits' = [hits EXCEPT ![r.hotkey] = IF @ > IpRpm THEN @ ELSE @ + 1]
    /\ IF hits[r.hotkey] >= IpRpm THEN reject(t)
       ELSE handling' = [handling EXCEPT ![t] = [pc |-> "check", req |-> r]] /\ UNCHANGED refused
    /\ UNCHANGED <<localEvents, writeLock, pressed, receipts, verdicts>>

(* Body size, JSON, shape, clock skew and signature, in this order; then   *)
(* an exact signed replay is answered from the log, before the token is    *)
(* looked at.                                                              *)
Checks(t) ==
    /\ handling[t].pc = "check"
    /\ LET r == handling[t].req
       IN  IF r.wrong \in {"size", "json", "shape", "skew", "signature"} THEN reject(t)
           ELSE handling' = [handling EXCEPT ![t].pc = "replay"] /\ UNCHANGED refused
    /\ UNCHANGED <<localEvents, writeLock, hits, pressed, receipts, verdicts>>

get_replay_candidate(t) ==
    /\ handling[t].pc = "replay"
    /\ LET r == handling[t].req
           k == Key(r)
       IN  IF /\ k \in DOMAIN localEvents
              /\ localEvents[k].token = r.token /\ localEvents[k].status # "rejected"
           THEN Answer(t, k, localEvents[k])
           ELSE handling' = [handling EXCEPT ![t].pc = "token"] /\ UNCHANGED receipts
    /\ UNCHANGED <<localEvents, writeLock, hits, pressed, refused, verdicts>>

(* The submit token must be genuine, unexpired and for this hotkey and     *)
(* challenge, and the assignment must decode to its variable count.        *)
verify_submit_token(t) ==
    /\ handling[t].pc = "token"
    /\ IF handling[t].req.wrong \in {"token", "bits"} THEN reject(t)
       ELSE handling' = [handling EXCEPT ![t].pc = "begin"] /\ UNCHANGED refused
    /\ UNCHANGED <<localEvents, writeLock, hits, pressed, receipts, verdicts>>

(* Mutant: the write lock is not taken before the rows are read.           *)
begin_immediate_deferred == TRUE

(* BEGIN IMMEDIATE: one writer at a time.                                  *)
begin_immediate == writeLock = NONE

Begin(t) ==
    /\ handling[t].pc = "begin" /\ begin_immediate
    /\ writeLock' = t
    /\ LET r == handling[t].req
           k == Key(r)
       IN  handling' = [handling EXCEPT ![t].pc =
             IF k \in DOMAIN localEvents /\ localEvents[k].status # "rejected" THEN "existing"
             ELSE IF Cardinality(Unflushed) >= MaxUnflushed \/ pressed THEN "pressure"
             ELSE "write"]
    /\ UNCHANGED <<localEvents, hits, pressed, receipts, refused, verdicts>>

(* Mutant: whatever row has the key is overwritten.                        *)
admitted_over(k, r) ==
    [rid |-> RidOf(k), bits |-> r.bits, token |-> r.token, status |-> "received",
     flushed |-> FALSE, round |-> IF k \in DOMAIN localEvents THEN localEvents[k].round ELSE 0]

(* The row of a new submission; a rejected one is replaced in place, under *)
(* its old receipt id, and has to be flushed again.                        *)
admitted(k, r) ==
    [rid |-> RidOf(k), bits |-> r.bits, token |-> r.token, status |-> "received",
     flushed |-> FALSE, round |-> IF k \in DOMAIN localEvents THEN localEvents[k].round + 1 ELSE 0]

(* The end of the transaction: the existing receipt, a refusal under       *)
(* pressure after a rollback, or the new row.                              *)
admit_event(t) ==
    /\ handling[t].pc \in {"existing", "pressure", "write"}
    /\ writeLock' = NONE
    /\ LET r == handling[t].req
           k == Key(r)
       IN  CASE handling[t].pc = "existing" ->
                  Answer(t, k, localEvents[k]) /\ UNCHANGED <<localEvents, refused>>
             [] handling[t].pc = "pressure" ->
                  reject(t) /\ UNCHANGED <<localEvents, receipts>>
             [] OTHER ->
                  /\ localEvents' = [x \in DOMAIN localEvents \cup {k} |->
                                  IF x = k THEN admitted(k, r) ELSE localEvents[x]]
                  /\ Answer(t, k, admitted(k, r))
                  /\ UNCHANGED refused
    /\ UNCHANGED <<hits, pressed, verdicts>>

(* The batch job reads the log, copies events away, and records verdicts.  *)
Flush(k) ==
    /\ writeLock = NONE
    /\ k \in Unflushed
    /\ localEvents' = [localEvents EXCEPT ![k].flushed = TRUE]
    /\ UNCHANGED <<writeLock, handling, hits, pressed, receipts, refused, verdicts>>

BatchVerdict(k, s) ==
    /\ writeLock = NONE
    /\ k \in DOMAIN localEvents /\ localEvents[k].flushed /\ localEvents[k].status = "received"
    /\ s = "rejected" => verdicts < MaxVerdicts
    /\ verdicts' = IF s = "rejected" THEN verdicts + 1 ELSE verdicts
    /\ localEvents' = [localEvents EXCEPT ![k].status = s]
    /\ UNCHANGED <<writeLock, handling, hits, pressed, receipts, refused>>

Minute == /\ \E h \in DOMAIN hits : hits[h] > 0
          /\ hits' = [h \in DOMAIN hits |-> 0]
          /\ UNCHANGED <<localEvents, writeLock, handling, pressed, receipts, refused, verdicts>>

Pressure == /\ pressed' = ~pressed
            /\ UNCHANGED <<localEvents, writeLock, handling, hits, receipts, refused, verdicts>>

(* The process dies: open transactions roll back, counters are lost.       *)
IngressCrash ==
    /\ \E t \in IngressThreads : handling[t] # At
    /\ handling' = [t \in IngressThreads |-> At]
    /\ writeLock' = NONE
    /\ hits' = [h \in DOMAIN hits |-> 0]
    /\ UNCHANGED <<localEvents, pressed, receipts, refused, verdicts>>

IngressInit ==
    /\ localEvents = << >> /\ writeLock = NONE
    /\ handling = [t \in IngressThreads |-> At]
    /\ hits = [h \in {r.hotkey : r \in IngressRequests} |-> 0]
    /\ pressed = FALSE /\ receipts = {} /\ refused = 0 /\ verdicts = 0

IngressNext ==
    \/ \E t \in IngressThreads :
         \/ \E r \in IngressRequests : check_ip_rate(t, r)
         \/ Checks(t) \/ get_replay_candidate(t) \/ verify_submit_token(t)
         \/ Begin(t) \/ admit_event(t)
    \/ \E k \in DOMAIN localEvents : Flush(k) \/ \E s \in {"verified", "rejected"} : BatchVerdict(k, s)
    \/ Minute \/ Pressure \/ IngressCrash

IngressSpec == IngressInit /\ [][IngressNext]_ingressVars

-----------------------------------------------------------------------------
(* Types of the ingress state.                                             *)
IngressTypeOK ==
    /\ \A k \in DOMAIN localEvents : localEvents[k].status \in {"received", "verified", "rejected"}
    /\ writeLock \in IngressThreads \cup {NONE}
    /\ \A h \in DOMAIN hits : hits[h] \in 0..(IpRpm + 1)
    /\ pressed \in BOOLEAN /\ refused \in Nat /\ verdicts \in 0..MaxVerdicts

(* A receipt stands: the log still holds its row under the same receipt    *)
(* id, with the very assignment that was acknowledged, unless a rejection  *)
(* opened the key for a new attempt - whatever replays, races and crashes  *)
(* came in between.                                                        *)
ReceiptStands ==
    \A a \in receipts :
       /\ a.key \in DOMAIN localEvents
       /\ localEvents[a.key].rid = a.rid
       /\ localEvents[a.key].round = a.round => localEvents[a.key].bits = a.bits

(* Concurrent admissions never push the backlog over its limit.            *)
BacklogBounded == Cardinality(Unflushed) <= MaxUnflushed

(* Lean ingress: types, receipts stand, the backlog keeps its limit.       *)
IngressInv == IngressTypeOK /\ ReceiptStands /\ BacklogBounded
=============================================================================
