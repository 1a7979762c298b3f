----------------------------- MODULE HostProofs -----------------------------
(***************************************************************************)
(* Proofs about the validator's host, for any hosts, documents, bounds and *)
(* deaths.  The rotation gives one swap at most to a node, the one on      *)
(* disk; the thin validator keeps its promises about what it has sent; the *)
(* one-shot launch signs what its approval reviewed; a durably replaced    *)
(* file is never torn; one public release is ever sealed, with what the    *)
(* finalizer examined; the evidence that is reserved is one line, and no   *)
(* audit that ended is lost; a PASS that is shown is current.              *)
(***************************************************************************)
EXTENDS HotkeyRotation, ThinValidator, LaunchGate, DurableFile, PublicRelease, ProvenanceAudit,
        StatusStream, Integers, FiniteSetTheorems, SequenceTheorems, TLAPS

----------------------------------------------------------------------------
(* The rotation                                                             *)

\* The places of an invocation, by what they carry.
BeforeSign == [pc : {"inspect", "refresh"}, ap : Approval]
WithCall == [pc : {"sign", "record", "fsync", "submit", "wait", "locate"},
             tx : Signed]
WithReceipt == [pc : {"receipt", "receipt_fsync", "proof", "finish"},
                tx : Signed, at : Blocks, reconcile : BOOLEAN]

\* The invocation goes by what is on disk.
Bound(o) == op[o].pc \in {"submit", "wait", "locate", "receipt", "receipt_fsync",
                          "proof", "finish"}

\* An invocation that creates the state file is alone in doing so; one that is
\* past it works on the recorded call.
RecordInv ==
    /\ \A o \in Operators : op[o].pc = "fsync" => stateFile = Torn
    /\ \A o, q \in Operators : op[o].pc = "fsync" /\ op[q].pc = "fsync" => o = q
    /\ \A o \in Operators :
          Bound(o) => stateFile \in Recorded /\ stateFile.tx = op[o].tx

RotationInv == RotationTypeOK /\ RecordInv /\ SentIsRecorded

\* The bounds and the era period are natural numbers.
LEMMA Numbers ==
    /\ EraPeriod \in Nat /\ MaxBlock \in Nat /\ MaxDrift \in Nat
    /\ MaxReviews \in Nat /\ MaxFaults \in Nat
BY RotationConstants

\* The three kinds of places and the idle one are all there is, and a place
\* tells what the invocation carries.
LEMMA Places ==
    ASSUME NEW x \in Invocation
    PROVE  /\ x = Idle \/ x \in BeforeSign \/ x \in WithCall \/ x \in WithReceipt
           /\ x.pc = "idle" => x = Idle
           /\ x.pc \in {"inspect", "refresh"} => x \in BeforeSign
           /\ x.pc \in {"sign", "record", "fsync", "submit", "wait", "locate"}
                => x \in WithCall
           /\ x.pc \in {"receipt", "receipt_fsync", "proof", "finish"}
                => x \in WithReceipt
<1>1. x = Idle \/ x \in BeforeSign \/ x \in WithCall \/ x \in WithReceipt
  BY DEF Invocation, BeforeSign, WithCall, WithReceipt
<1>2. Idle.pc = "idle"
  BY DEF Idle
<1>3. x \in BeforeSign => x.pc \in {"inspect", "refresh"}
  BY DEF BeforeSign
<1>4. x \in WithCall =>
        x.pc \in {"sign", "record", "fsync", "submit", "wait", "locate"}
  BY DEF WithCall
<1>5. x \in WithReceipt => x.pc \in {"receipt", "receipt_fsync", "proof", "finish"}
  BY DEF WithReceipt
<1>6. QED
  BY <1>1, <1>2, <1>3, <1>4, <1>5

\* Conversely, each kind of place is one an invocation may be in.
LEMMA KindsAreInvocations ==
    /\ Idle \in Invocation
    /\ BeforeSign \subseteq Invocation
    /\ WithCall \subseteq Invocation
    /\ WithReceipt \subseteq Invocation
BY DEF Invocation, BeforeSign, WithCall, WithReceipt

\* Moving on keeps what is carried.
LEMMA MovesOn ==
    /\ \A x \in WithCall, p \in {"record", "fsync", "submit", "wait"} :
          /\ [x EXCEPT !.pc = p] \in WithCall
          /\ [x EXCEPT !.pc = p].pc = p
          /\ [x EXCEPT !.pc = p].tx = x.tx
    /\ \A x \in WithReceipt, p \in {"receipt_fsync", "proof", "finish"} :
          /\ [x EXCEPT !.pc = p] \in WithReceipt
          /\ [x EXCEPT !.pc = p].pc = p
          /\ [x EXCEPT !.pc = p].tx = x.tx
BY DEF WithCall, WithReceipt

\* Only invocation o changes, and only to where it goes.
LEMMA GoesFacts ==
    ASSUME op \in [Operators -> Invocation], NEW o \in Operators,
           NEW what \in Invocation, Goes(o, what)
    PROVE  /\ op' \in [Operators -> Invocation]
           /\ op'[o] = what
           /\ \A q \in Operators \ {o} : op'[q] = op[q]
BY DEF Goes

\* A torn file is no record.
LEMMA TornIsNoRecord == Torn \notin Recorded
BY DEF Torn, Recorded

\* A step after which an invocation is where no file binds it and the files are
\* as before keeps the invariant on the record.
LEMMA UnboundMove ==
    ASSUME RotationInv, NEW o \in Operators, NEW what \in Invocation,
           Goes(o, what),
           what.pc \in {"idle", "inspect", "refresh", "sign", "record"},
           UNCHANGED <<stateFile, sent>>
    PROVE  RecordInv' /\ SentIsRecorded'
<1>1. /\ op'[o] = what
      /\ \A q \in Operators \ {o} : op'[q] = op[q]
  BY GoesFacts DEF RotationInv, RotationTypeOK
<1>2. QED
  BY <1>1 DEF RotationInv, RecordInv, SentIsRecorded, Bound

\* So does a step of an invocation that was bound and stays with its call.
LEMMA BoundMove ==
    ASSUME RotationInv, NEW o \in Operators, NEW what \in Invocation,
           Goes(o, what), Bound(o),
           what.pc \in {"wait", "receipt", "receipt_fsync", "proof", "finish"},
           what.tx = op[o].tx,
           UNCHANGED stateFile,
           sent' \subseteq sent \cup {op[o].tx}
    PROVE  RecordInv' /\ SentIsRecorded'
<1>1. /\ op'[o] = what
      /\ \A q \in Operators \ {o} : op'[q] = op[q]
  BY GoesFacts DEF RotationInv, RotationTypeOK
<1>2. stateFile \in Recorded /\ stateFile.tx = op[o].tx
  BY DEF RotationInv, RecordInv
<1>3. RecordInv'
  BY <1>1, <1>2 DEF RotationInv, RecordInv, Bound
<1>4. SentIsRecorded'
  BY <1>2 DEF RotationInv, SentIsRecorded
<1>5. QED
  BY <1>3, <1>4

\* What is left of the invariant when an invocation moves.
LEMMA TypeOfMove ==
    ASSUME RotationTypeOK, NEW o \in Operators, NEW what \in Invocation,
           Goes(o, what),
           UNCHANGED <<chainVars, reviews, faults>>,
           sent' \subseteq Signed, absent' \subseteq Signed,
           stateFile' \in {NONE, Torn} \cup Recorded,
           receipt' \in {NONE, Torn} \cup Receipt
    PROVE  RotationTypeOK'
<1>1. op' \in [Operators -> Invocation]
  BY GoesFacts DEF RotationTypeOK
<1>2. QED
  BY <1>1 DEF RotationTypeOK, chainVars

\* An operator starts from a review, or reads the record of another's attempt.
LEMMA StartKeeps ==
    ASSUME RotationInv, NEW o \in Operators,
           \/ \E ap \in reviews : validate_options(o, ap)
           \/ validate_pending_attempt(o)
    PROVE  RotationInv'
<1>1. ASSUME NEW ap \in reviews, validate_options(o, ap)
      PROVE  RotationInv'
  <2> DEFINE what == [pc |-> "inspect", ap |-> ap]
  <2>1. what \in BeforeSign /\ what.pc = "inspect"
    BY DEF BeforeSign, RotationInv, RotationTypeOK
  <2>2. what \in Invocation
    BY <2>1, KindsAreInvocations
  <2>3. /\ Goes(o, what)
        /\ UNCHANGED <<chainVars, sent, stateFile, receipt, reviews, absent, faults>>
    BY <1>1 DEF validate_options
  <2> HIDE DEF what
  <2>4. RotationTypeOK'
    BY <2>2, <2>3, TypeOfMove DEF RotationInv, RotationTypeOK
  <2>5. RecordInv' /\ SentIsRecorded'
    BY <2>1, <2>2, <2>3, UnboundMove
  <2>6. QED
    BY <2>4, <2>5 DEF RotationInv
<1>2. CASE validate_pending_attempt(o)
  <2> DEFINE what == [pc |-> "locate", tx |-> stateFile.tx]
  <2>1. stateFile \in Recorded
    BY <1>2 DEF validate_pending_attempt, Says, RotationInv, RotationTypeOK, Torn
  <2>2. what \in WithCall /\ what.pc = "locate" /\ what.tx = stateFile.tx
    BY <2>1 DEF WithCall, Recorded
  <2>3. what \in Invocation
    BY <2>2, KindsAreInvocations
  <2>4. /\ Goes(o, what)
        /\ UNCHANGED <<chainVars, sent, stateFile, receipt, reviews, absent, faults>>
    BY <1>2 DEF validate_pending_attempt
  <2> HIDE DEF what
  <2>5. RotationTypeOK'
    BY <2>3, <2>4, TypeOfMove DEF RotationInv, RotationTypeOK
  <2>6. /\ op'[o] = what
        /\ \A q \in Operators \ {o} : op'[q] = op[q]
    BY <2>3, <2>4, GoesFacts DEF RotationInv, RotationTypeOK
  <2>7. RecordInv' /\ SentIsRecorded'
    BY <2>1, <2>2, <2>4, <2>6 DEF RotationInv, RecordInv, SentIsRecorded, Bound
  <2>8. QED
    BY <2>5, <2>7 DEF RotationInv
<1>3. QED
  BY <1>1, <1>2

\* An invocation that ends, or dies, leaves the files as they are.
LEMMA ExitKeeps ==
    ASSUME RotationInv, NEW o \in Operators, Exits(o),
           UNCHANGED <<chainVars, sent, stateFile, receipt, reviews>>,
           absent' \subseteq Signed, faults' \in 0..MaxFaults
    PROVE  RotationInv'
<1>1. Goes(o, Idle) /\ Idle \in Invocation /\ Idle.pc = "idle"
  BY KindsAreInvocations DEF Exits, Idle
<1>2. RecordInv' /\ SentIsRecorded'
  BY <1>1, UnboundMove
<1>3. op' \in [Operators -> Invocation]
  BY <1>1, GoesFacts DEF RotationInv, RotationTypeOK
<1>4. RotationTypeOK'
  BY <1>3 DEF RotationInv, RotationTypeOK, chainVars
<1>5. QED
  BY <1>2, <1>4 DEF RotationInv

\* While the signed call is not on disk nothing is recorded or sent.
LEMMA NoRecordNothingSent ==
    ASSUME RotationInv, stateFile \in {NONE, Torn}
    PROVE  sent = {} /\ \A o \in Operators : ~Bound(o)
<1>1. stateFile \notin Recorded
  BY TornIsNoRecord, NoneIsNoFile
<1>2. QED
  BY <1>1 DEF RotationInv, RecordInv, SentIsRecorded

\* The steps up to the signature touch no file.
LEMMA BeforeRecordKeeps ==
    ASSUME RotationInv, NEW o \in Operators,
           \/ ConfirmDigest(o) \/ RefreshInspection(o)
           \/ create_signed_extrinsic(o)
    PROVE  RotationInv'
<1> USE DEF RotationInv
<1>1. op[o] \in Invocation
  BY DEF RotationTypeOK
<1>2. UNCHANGED <<chainVars, sent, stateFile, receipt, reviews, absent, faults>>
  BY DEF ConfirmDigest, RefreshInspection, create_signed_extrinsic
<1>3. CASE Exits(o)
  <2>1. absent' \subseteq Signed /\ faults' \in 0..MaxFaults
    BY <1>2 DEF RotationTypeOK
  <2>2. QED
    BY <1>2, <1>3, <2>1, ExitKeeps
<1>4. ASSUME NEW what \in Invocation, Goes(o, what),
             what.pc \in {"refresh", "sign", "record"}
      PROVE  RotationInv'
  <2>1. RotationTypeOK'
    BY <1>2, <1>4, TypeOfMove DEF RotationTypeOK
  <2>2. RecordInv' /\ SentIsRecorded'
    BY <1>2, <1>4, UnboundMove
  <2>3. QED
    BY <2>1, <2>2
<1>5. CASE ConfirmDigest(o) /\ ~Exits(o)
  <2> DEFINE what == [pc |-> "refresh", ap |-> op[o].ap]
  <2>1. op[o] \in BeforeSign
    BY <1>1, <1>5, Places DEF ConfirmDigest
  <2>2. what \in BeforeSign /\ what.pc = "refresh"
    BY <2>1 DEF BeforeSign
  <2>3. Goes(o, what)
    BY <1>5 DEF ConfirmDigest
  <2> HIDE DEF what
  <2>4. QED
    BY <1>4, <2>2, <2>3, KindsAreInvocations
<1>6. CASE RefreshInspection(o) /\ ~Exits(o)
  <2> DEFINE what == [pc |-> "sign", tx |-> [ap |-> op[o].ap, era |-> head]]
  <2>1. op[o] \in BeforeSign
    BY <1>1, <1>6, Places DEF RefreshInspection
  <2>2. what \in WithCall /\ what.pc = "sign"
    BY <2>1 DEF BeforeSign, WithCall, Signed, RotationTypeOK
  <2>3. Goes(o, what)
    BY <1>6 DEF RefreshInspection
  <2> HIDE DEF what
  <2>4. QED
    BY <1>4, <2>2, <2>3, KindsAreInvocations
<1>7. CASE create_signed_extrinsic(o) /\ ~Exits(o)
  <2> DEFINE what == [op[o] EXCEPT !.pc = "record"]
  <2>1. op[o] \in WithCall
    BY <1>1, <1>7, Places DEF create_signed_extrinsic
  <2>2. what \in WithCall /\ what.pc = "record"
    BY <2>1, MovesOn
  <2>3. Goes(o, what)
    BY <1>7 DEF create_signed_extrinsic
  <2> HIDE DEF what
  <2>4. QED
    BY <1>4, <2>2, <2>3, KindsAreInvocations
<1>8. QED
  BY <1>3, <1>5, <1>6, <1>7

\* O_EXCL lets one invocation create the file; the others exit.
LEMMA CreateStateKeeps ==
    ASSUME RotationInv, NEW o \in Operators, CreateState(o)
    PROVE  RotationInv'
<1> USE DEF RotationInv
<1>1. UNCHANGED <<chainVars, sent, receipt, reviews, absent, faults>>
  BY DEF CreateState
<1>2. CASE stateFile = NONE
  <2> DEFINE what == [op[o] EXCEPT !.pc = "fsync"]
  <2>1. op[o] \in WithCall
    BY Places DEF CreateState, RotationTypeOK
  <2>2. what \in WithCall /\ what.pc = "fsync"
    BY <2>1, MovesOn
  <2>3. what \in Invocation
    BY <2>2, KindsAreInvocations
  <2>4. Goes(o, what) /\ stateFile' = Torn
    BY <1>2 DEF CreateState
  <2> HIDE DEF what
  <2>5. RotationTypeOK'
    BY <1>1, <2>3, <2>4, TypeOfMove DEF RotationTypeOK
  <2>6. /\ op'[o] = what
        /\ \A q \in Operators \ {o} : op'[q] = op[q]
    BY <2>3, <2>4, GoesFacts DEF RotationTypeOK
  <2>7. sent = {} /\ \A q \in Operators : ~Bound(q)
    BY <1>2, NoRecordNothingSent
  <2>8. \A q \in Operators : op[q].pc # "fsync"
    BY <1>2, NoneIsNoFile DEF RecordInv
  <2>9. RecordInv'
    BY <2>2, <2>4, <2>6, <2>7, <2>8 DEF RecordInv, Bound
  <2>10. SentIsRecorded'
    BY <1>1, <2>7 DEF SentIsRecorded
  <2>11. QED
    BY <2>5, <2>9, <2>10
<1>3. CASE stateFile # NONE
  <2>1. Exits(o) /\ UNCHANGED stateFile
    BY <1>3 DEF CreateState
  <2>2. absent' \subseteq Signed /\ faults' \in 0..MaxFaults
    BY <1>1 DEF RotationTypeOK
  <2>3. QED
    BY <1>1, <2>1, <2>2, ExitKeeps
<1>4. QED
  BY <1>2, <1>3

\* The content becomes durable before anything is bound by it.
LEMMA FsyncStateKeeps ==
    ASSUME RotationInv, NEW o \in Operators, FsyncState(o)
    PROVE  RotationInv'
<1> USE DEF RotationInv
<1> DEFINE what == [op[o] EXCEPT !.pc = "submit"]
<1> DEFINE rec == [phase |-> "broadcast_pending", tx |-> op[o].tx]
<1>1. /\ op[o].pc = "fsync"
      /\ stateFile' = rec /\ Goes(o, what)
      /\ UNCHANGED <<chainVars, sent, receipt, reviews, absent, faults>>
  BY DEF FsyncState
<1>2. op[o] \in WithCall
  BY <1>1, Places DEF RotationTypeOK
<1>3. what \in WithCall /\ what.pc = "submit" /\ what.tx = op[o].tx
  BY <1>2, MovesOn
<1>4. what \in Invocation
  BY <1>3, KindsAreInvocations
<1>5. rec \in Recorded /\ rec.tx = op[o].tx
  BY <1>2 DEF WithCall, Recorded
<1>6. sent = {} /\ \A q \in Operators : ~Bound(q)
  BY <1>1, NoRecordNothingSent DEF RecordInv
<1> HIDE DEF what, rec
<1>7. /\ op'[o] = what
      /\ \A q \in Operators \ {o} : op'[q] = op[q]
  BY <1>1, <1>4, GoesFacts DEF RotationTypeOK
<1>8. RotationTypeOK'
  BY <1>1, <1>4, <1>5, TypeOfMove DEF RotationTypeOK
<1>9. \A q \in Operators : op'[q].pc # "fsync"
  BY <1>1, <1>3, <1>7 DEF RecordInv
<1>10. \A q \in Operators : Bound(q)' => q = o
  BY <1>6, <1>7 DEF Bound
<1>11. RecordInv'
  BY <1>1, <1>3, <1>5, <1>7, <1>9, <1>10 DEF RecordInv
<1>12. SentIsRecorded'
  BY <1>1, <1>6 DEF SentIsRecorded
<1>13. QED
  BY <1>8, <1>11, <1>12

\* A bound invocation that moves on with its call keeps the whole invariant.
LEMMA BoundKeeps ==
    ASSUME RotationInv, NEW o \in Operators, NEW what \in Invocation,
           Goes(o, what), Bound(o),
           what.pc \in {"wait", "receipt", "receipt_fsync", "proof", "finish"},
           what.tx = op[o].tx,
           UNCHANGED <<chainVars, reviews, faults, stateFile, absent>>,
           sent' \in {sent, sent \cup {op[o].tx}}, op[o].tx \in Signed,
           receipt' \in {NONE, Torn} \cup Receipt
    PROVE  RotationInv'
<1>1. sent' \subseteq sent \cup {op[o].tx}
  OBVIOUS
<1>2. sent' \subseteq Signed
  BY <1>1 DEF RotationInv, RotationTypeOK
<1>3. RotationTypeOK'
  BY <1>2, TypeOfMove DEF RotationInv, RotationTypeOK
<1>4. RecordInv' /\ SentIsRecorded'
  BY <1>1, BoundMove
<1>5. QED
  BY <1>3, <1>4 DEF RotationInv

\* The call is handed over, and its receipt awaited or looked for in history.
LEMMA SubmitKeeps ==
    ASSUME RotationInv, NEW o \in Operators,
           \/ submit_extrinsic(o) \/ AwaitReceipt(o)
           \/ historical_rotation_receipt(o)
    PROVE  RotationInv'
<1> USE DEF RotationInv
<1>1. /\ op[o].pc \in {"submit", "wait", "locate"}
      /\ UNCHANGED <<chainVars, stateFile, receipt, reviews, faults>>
  BY DEF submit_extrinsic, AwaitReceipt, historical_rotation_receipt
<1>2. op[o] \in WithCall
  BY <1>1, Places DEF RotationTypeOK
<1>3. op[o].tx \in Signed /\ Bound(o)
  BY <1>1, <1>2 DEF WithCall, Bound
<1>4. receipt' \in {NONE, Torn} \cup Receipt
  BY <1>1 DEF RotationTypeOK
<1>5. CASE Exits(o) /\ UNCHANGED sent
  <2>1. absent' \subseteq Signed
    BY <1>3 DEF submit_extrinsic, AwaitReceipt, historical_rotation_receipt,
                RotationTypeOK
  <2>2. faults' \in 0..MaxFaults
    BY <1>1 DEF RotationTypeOK
  <2>3. QED
    BY <1>1, <1>5, <2>1, <2>2, ExitKeeps
<1>6. CASE submit_extrinsic(o) /\ ~(Exits(o) /\ UNCHANGED sent)
  <2> DEFINE what == [op[o] EXCEPT !.pc = "wait"]
  <2>1. what \in WithCall /\ what.pc = "wait" /\ what.tx = op[o].tx
    BY <1>2, MovesOn
  <2>2. what \in Invocation
    BY <2>1, KindsAreInvocations
  <2>3. Goes(o, what) /\ sent' = sent \cup {op[o].tx} /\ UNCHANGED absent
    BY <1>6 DEF submit_extrinsic
  <2> HIDE DEF what
  <2>4. QED
    BY <1>1, <1>3, <1>4, <2>1, <2>2, <2>3, BoundKeeps
<1>7. ASSUME NEW l \in landed, NEW r \in BOOLEAN, l.tx = op[o].tx,
             Goes(o, [pc |-> "receipt", tx |-> l.tx, at |-> l.at, reconcile |-> r]),
             UNCHANGED <<sent, absent>>
      PROVE  RotationInv'
  <2> DEFINE what == [pc |-> "receipt", tx |-> l.tx, at |-> l.at, reconcile |-> r]
  <2>1. l.tx \in Signed /\ l.at \in Blocks
    BY DEF RotationTypeOK, Landed
  <2>2. what \in WithReceipt /\ what.pc = "receipt" /\ what.tx = op[o].tx
    BY <1>7, <2>1 DEF WithReceipt
  <2>3. what \in Invocation
    BY <2>2, KindsAreInvocations
  <2>4. Goes(o, what)
    BY <1>7
  <2> HIDE DEF what
  <2>5. QED
    BY <1>1, <1>3, <1>4, <1>7, <2>2, <2>3, <2>4, BoundKeeps
<1>8. CASE AwaitReceipt(o) /\ ~(Exits(o) /\ UNCHANGED sent)
  <2>1. PICK l \in landed :
          /\ l.tx = op[o].tx
          /\ Goes(o, [pc |-> "receipt", tx |-> l.tx, at |-> l.at,
                      reconcile |-> FALSE])
    BY <1>8 DEF AwaitReceipt
  <2>2. UNCHANGED <<sent, absent>>
    BY <1>8 DEF AwaitReceipt
  <2>3. QED
    BY <1>7, <2>1, <2>2
<1>9. CASE historical_rotation_receipt(o) /\ ~(Exits(o) /\ UNCHANGED sent)
  <2>1. PICK l \in Found(op[o].tx) :
          /\ Goes(o, [pc |-> "receipt", tx |-> l.tx, at |-> l.at,
                      reconcile |-> TRUE])
          /\ UNCHANGED absent
    BY <1>9 DEF historical_rotation_receipt
  <2>2. l \in landed /\ l.tx = op[o].tx
    BY DEF Found
  <2>3. UNCHANGED <<sent, absent>>
    BY <1>9, <2>1 DEF historical_rotation_receipt
  <2>4. QED
    BY <1>7, <2>1, <2>2, <2>3
<1>10. QED
  BY <1>5, <1>6, <1>8, <1>9

\* The receipt and the proof: the state file is as it was.
LEMMA ReceiptKeeps ==
    ASSUME RotationInv, NEW o \in Operators,
           CreateReceipt(o) \/ FsyncReceipt(o) \/ post_rotation_proof(o)
    PROVE  RotationInv'
<1> USE DEF RotationInv
<1>1. /\ op[o].pc \in {"receipt", "receipt_fsync", "proof"}
      /\ UNCHANGED <<chainVars, sent, stateFile, reviews, absent, faults>>
  BY DEF CreateReceipt, FsyncReceipt, post_rotation_proof
<1>2. op[o] \in WithReceipt
  BY <1>1, Places DEF RotationTypeOK
<1>3. /\ op[o].tx \in Signed /\ op[o].at \in Blocks /\ Bound(o)
      /\ ReceiptOf(o) \in Receipt
  BY <1>1, <1>2 DEF WithReceipt, Bound, ReceiptOf, Receipt
<1>4. CASE Exits(o) /\ UNCHANGED receipt
  <2>1. absent' \subseteq Signed /\ faults' \in 0..MaxFaults
    BY <1>1 DEF RotationTypeOK
  <2>2. QED
    BY <1>1, <1>4, <2>1, ExitKeeps
<1>5. ASSUME NEW p \in {"receipt_fsync", "proof", "finish"},
             Goes(o, [op[o] EXCEPT !.pc = p]),
             receipt' \in {receipt, Torn, ReceiptOf(o)}
      PROVE  RotationInv'
  <2> DEFINE what == [op[o] EXCEPT !.pc = p]
  <2>1. what \in WithReceipt /\ what.pc = p /\ what.tx = op[o].tx
    BY <1>2, MovesOn
  <2>2. what \in Invocation /\ Goes(o, what)
    BY <1>5, <2>1, KindsAreInvocations
  <2>3. receipt' \in {NONE, Torn} \cup Receipt
    BY <1>3, <1>5 DEF RotationTypeOK
  <2> HIDE DEF what
  <2>4. QED
    BY <1>1, <1>3, <2>1, <2>2, <2>3, BoundKeeps
<1>6. CASE CreateReceipt(o)
  BY <1>4, <1>5, <1>6 DEF CreateReceipt
<1>7. CASE FsyncReceipt(o)
  BY <1>5, <1>7 DEF FsyncReceipt
<1>8. CASE post_rotation_proof(o)
  BY <1>4, <1>5, <1>8 DEF post_rotation_proof
<1>9. QED
  BY <1>6, <1>7, <1>8

\* The record changes its phase, never its call.
LEMMA FinishKeeps ==
    ASSUME RotationInv, NEW o \in Operators, atomic_replace_private(o)
    PROVE  RotationInv'
<1> USE DEF RotationInv
<1> DEFINE rec == [phase |-> "finalized", tx |-> op[o].tx]
<1>1. /\ op[o].pc = "finish" /\ stateFile' = rec /\ Goes(o, Idle)
      /\ UNCHANGED <<chainVars, sent, receipt, reviews, absent, faults>>
  BY DEF atomic_replace_private, Exits
<1>2. stateFile \in Recorded /\ stateFile.tx = op[o].tx
  BY <1>1 DEF RecordInv, Bound
<1>3. rec \in Recorded /\ rec.tx = stateFile.tx
  BY <1>2 DEF Recorded
<1>4. Idle \in Invocation /\ Idle.pc = "idle"
  BY KindsAreInvocations DEF Idle
<1> HIDE DEF rec
<1>5. RotationTypeOK'
  BY <1>1, <1>3, <1>4, TypeOfMove DEF RotationTypeOK
<1>6. /\ op'[o] = Idle
      /\ \A q \in Operators \ {o} : op'[q] = op[q]
  BY <1>1, <1>4, GoesFacts DEF RotationTypeOK
<1>7. \A q \in Operators : op[q].pc # "fsync"
  BY <1>2, TornIsNoRecord DEF RecordInv
<1>8. RecordInv'
  BY <1>1, <1>3, <1>4, <1>6, <1>7 DEF RecordInv, Bound
<1>9. SentIsRecorded'
  BY <1>1, <1>3 DEF SentIsRecorded
<1>10. QED
  BY <1>5, <1>8, <1>9

\* Blocks, drift and reviews leave the files and the invocations alone.
LEMMA WorldKeeps ==
    ASSUME RotationInv,
           FinalizeBlock \/ Drift \/ \E n \in NewHotkeys : inspect_rotation(n)
    PROVE  RotationInv'
<1> USE DEF RotationInv
<1>1. UNCHANGED <<sent, stateFile, receipt, op, absent, faults>>
  BY DEF FinalizeBlock, Drift, inspect_rotation
<1>2. RecordInv' /\ SentIsRecorded'
  BY <1>1 DEF RecordInv, SentIsRecorded, Bound
<1>3. CASE FinalizeBlock
  <2>1. head' \in Blocks /\ UNCHANGED <<world, reviews>> /\ head' = head + 1
    BY <1>3, Numbers DEF FinalizeBlock, RotationTypeOK, Blocks
  <2>2. ASSUME NEW tx \in sent, Includes(tx, head + 1)
        PROVE  landed' \subseteq Landed /\ nonce' \in Nat
    <3>1. PICK ok \in BOOLEAN, clean \in BOOLEAN :
            landed' = landed \cup {[tx |-> tx, at |-> head + 1, ok |-> ok,
                                    clean |-> clean]}
      BY <2>2 DEF Includes
    <3>2. [tx |-> tx, at |-> head + 1, ok |-> ok, clean |-> clean] \in Landed
      BY <2>1 DEF Landed, RotationTypeOK
    <3>3. nonce' = nonce + 1
      BY <2>2 DEF Includes
    <3>4. QED
      BY <3>1, <3>2, <3>3 DEF RotationTypeOK
  <2>3. landed' \subseteq Landed /\ nonce' \in Nat
    BY <1>3, <2>2 DEF FinalizeBlock, RotationTypeOK
  <2>4. QED
    BY <1>1, <1>2, <2>1, <2>3 DEF RotationTypeOK
<1>4. CASE Drift
  <2>1. /\ nonce' \in Nat /\ world' \in 0..MaxDrift
        /\ UNCHANGED <<head, landed, reviews>>
    BY <1>4, Numbers DEF Drift, RotationTypeOK
  <2>2. QED
    BY <1>1, <1>2, <2>1 DEF RotationTypeOK
<1>5. ASSUME NEW n \in NewHotkeys, inspect_rotation(n)
      PROVE  RotationInv'
  <2>1. PICK k \in Nonces :
          reviews' = reviews \cup
            {[new |-> n, block |-> head, nonce |-> k, world |-> world]}
    BY <1>5 DEF inspect_rotation
  <2>2. [new |-> n, block |-> head, nonce |-> k, world |-> world] \in Approval
    BY DEF Approval, RotationTypeOK
  <2>3. reviews' \subseteq Approval
    BY <2>1, <2>2 DEF RotationTypeOK
  <2>4. UNCHANGED chainVars
    BY <1>5 DEF inspect_rotation
  <2>5. QED
    BY <1>1, <1>2, <2>3, <2>4 DEF RotationTypeOK, chainVars
<1>6. QED
  BY <1>3, <1>4, <1>5

\* Nothing is on disk, sent or running when the tool is first used.
LEMMA RotationInvInit == RotationInit => RotationInv
<1> SUFFICES ASSUME RotationInit PROVE RotationInv
  OBVIOUS
<1>1. \A o \in Operators : op[o] = Idle /\ op[o].pc = "idle"
  BY DEF RotationInit, Idle
<1>2. RotationTypeOK
  BY Numbers, KindsAreInvocations DEF RotationInit, RotationTypeOK, Blocks
<1>3. RecordInv /\ SentIsRecorded
  BY <1>1 DEF RotationInit, RecordInv, SentIsRecorded, Bound
<1>4. QED
  BY <1>2, <1>3 DEF RotationInv

\* Every step of the tool, of the chain and of the operators' world keeps it.
LEMMA RotationInvStep ==
    RotationInv /\ [RotationNext]_rotationVars => RotationInv'
<1> SUFFICES ASSUME RotationInv, [RotationNext]_rotationVars
             PROVE  RotationInv'
  OBVIOUS
<1>1. CASE UNCHANGED rotationVars
  BY <1>1 DEF rotationVars, RotationInv, RotationTypeOK, RecordInv,
              SentIsRecorded, Bound
<1>2. CASE FinalizeBlock \/ Drift \/ \E n \in NewHotkeys : inspect_rotation(n)
  BY <1>2, WorldKeeps
<1>3. ASSUME NEW o \in Operators,
             \/ \E ap \in reviews : validate_options(o, ap)
             \/ validate_pending_attempt(o)
      PROVE  RotationInv'
  BY <1>3, StartKeeps
<1>4. ASSUME NEW o \in Operators, ToolStep(o)
      PROVE  RotationInv'
  BY <1>4, BeforeRecordKeeps, CreateStateKeeps, FsyncStateKeeps, SubmitKeeps,
     ReceiptKeeps, FinishKeeps DEF ToolStep
<1>5. ASSUME NEW o \in Operators, OperatorDies(o)
      PROVE  RotationInv'
  <2>1. absent' \subseteq Signed /\ faults' \in 0..MaxFaults
    BY <1>5, Numbers DEF OperatorDies, RotationInv, RotationTypeOK
  <2>2. QED
    BY <1>5, <2>1, ExitKeeps DEF OperatorDies
<1>6. QED
  BY <1>1, <1>2, <1>3, <1>4, <1>5 DEF RotationNext

\* Whatever was given to a node is the one attempt on disk: O_EXCL on a path
\* named after the old hotkey is enough, for any number of operators working
\* under any reviews and dying anywhere, since the intent is durable before
\* submit_extrinsic and nothing removes or replaces its call.
THEOREM SentAlwaysRecorded == RotationSpec => []SentIsRecorded
<1>1. RotationInv => SentIsRecorded
  BY DEF RotationInv
<1>2. QED
  BY <1>1, RotationInvInit, RotationInvStep, PTL DEF RotationSpec
----------------------------------------------------------------------------
(* What lands and what is recorded of it.                                   *)

EraFits(tx) == LastBlock(tx) <= ValidUntil(tx.ap)

HasCall(x) ==
    x.pc \in {"sign", "record", "fsync", "submit", "wait", "locate",
              "receipt", "receipt_fsync", "proof", "finish"}

\* A call is signed for an era inside its approval.
CallsFit ==
    /\ \A o \in Operators : HasCall(op[o]) => EraFits(op[o].tx)
    /\ stateFile \in Recorded => EraFits(stateFile.tx)

\* What landed was sent and landed in its era, once, for its nonce is used up; an
\* absence was declared after the era.
ChainHolds ==
    /\ \A l \in landed : /\ l.tx \in sent /\ l.tx.ap.nonce < nonce
                         /\ l.tx.era < l.at /\ l.at <= LastBlock(l.tx)
    /\ \A l, m \in landed : l.tx = m.tx => l = m
    /\ \A tx \in absent : LastBlock(tx) <= head /\ \A l \in landed : l.tx # tx

LandedAt(x) == \E l \in landed : l.tx = x.tx /\ l.at = x.at /\ l.ok

\* An invocation that creates the receipt is alone in doing so, one that is past it
\* finds its receipt on disk, and one that finishes has seen its call clean.
ReceiptHolds ==
    /\ \A o \in Operators : op[o].pc = "receipt_fsync" => receipt = Torn
    /\ \A o, q \in Operators :
          op[o].pc = "receipt_fsync" /\ op[q].pc = "receipt_fsync" => o = q
    /\ \A o \in Operators :
          op[o].pc \in {"receipt", "receipt_fsync", "proof", "finish"} => LandedAt(op[o])
    /\ \A o \in Operators : op[o].pc \in {"proof", "finish"} => receipt = ReceiptOf(o)
    /\ \A o \in Operators :
          op[o].pc = "finish" =>
              \E l \in landed : l.tx = op[o].tx /\ l.at = op[o].at /\ l.clean

SwapHolds == CallsFit /\ ChainHolds /\ ReceiptHolds /\ FinalizedIsProven

\* Where an invocation goes when it takes a step, and what it carries there.
RotationMoves(o, what) ==
    \/ what = Idle
    \/ op[o].pc = "inspect" /\ what.pc = "refresh"
    \/ /\ op[o].pc = "refresh" /\ what.pc = "sign"
       /\ ReviewHolds(op[o].ap) /\ what.tx = [ap |-> op[o].ap, era |-> head]
    \/ /\ op[o].pc \in {"sign", "record", "fsync", "submit"}
       /\ what.pc \in {"record", "fsync", "submit", "wait"}
       /\ what.tx = op[o].tx
    \/ /\ op[o].pc \in {"wait", "locate"} /\ what.pc = "receipt"
       /\ what.tx = op[o].tx /\ LandedAt(what)
    \/ /\ op[o].pc \in {"receipt", "receipt_fsync", "proof"}
       /\ what.pc \in {"receipt_fsync", "proof", "finish"}
       /\ what.tx = op[o].tx /\ what.at = op[o].at

\* What moves on keeps the block of its call, too.
LEMMA MovesOnAt ==
    \A x \in WithReceipt, p \in {"receipt_fsync", "proof", "finish"} :
        [x EXCEPT !.pc = p].at = x.at
BY DEF WithReceipt

LEMMA EveryToolStepMoves ==
    ASSUME RotationTypeOK, NEW o \in Operators, ToolStep(o)
    PROVE  /\ \E what \in Invocation : Goes(o, what) /\ RotationMoves(o, what)
           /\ UNCHANGED <<chainVars, reviews, faults>>
           /\ stateFile' = stateFile \/ stateFile' = Torn
                \/ (stateFile'.tx = op[o].tx /\ op[o].pc \in {"fsync", "finish"})
<1>1. op[o] \in Invocation
  BY DEF RotationTypeOK
<1>2. UNCHANGED <<chainVars, reviews, faults>>
  BY DEF ToolStep, ConfirmDigest, RefreshInspection, create_signed_extrinsic, CreateState,
         FsyncState, submit_extrinsic, AwaitReceipt, historical_rotation_receipt,
         CreateReceipt, FsyncReceipt, post_rotation_proof, atomic_replace_private
<1>3. stateFile' = stateFile \/ stateFile' = Torn
        \/ (stateFile'.tx = op[o].tx /\ op[o].pc \in {"fsync", "finish"})
  <2>1. CASE CreateState(o)
    BY <2>1 DEF CreateState
  <2>2. CASE FsyncState(o)
    BY <2>2 DEF FsyncState
  <2>3. CASE atomic_replace_private(o)
    BY <2>3 DEF atomic_replace_private
  <2>4. CASE \/ ConfirmDigest(o) \/ RefreshInspection(o) \/ create_signed_extrinsic(o)
             \/ submit_extrinsic(o) \/ AwaitReceipt(o) \/ historical_rotation_receipt(o)
    BY <2>4 DEF ConfirmDigest, RefreshInspection, create_signed_extrinsic,
                submit_extrinsic, AwaitReceipt, historical_rotation_receipt
  <2>5. CASE CreateReceipt(o) \/ FsyncReceipt(o) \/ post_rotation_proof(o)
    BY <2>5 DEF CreateReceipt, FsyncReceipt, post_rotation_proof
  <2>6. QED
    BY <2>1, <2>2, <2>3, <2>4, <2>5 DEF ToolStep
<1> DEFINE Goal == \E what \in Invocation : Goes(o, what) /\ RotationMoves(o, what)
<1>4. Exits(o) => Goal
  BY KindsAreInvocations DEF Exits, RotationMoves
<1>5. ASSUME ConfirmDigest(o) /\ ~Exits(o)
      PROVE  Goal
  <2> DEFINE what == [pc |-> "refresh", ap |-> op[o].ap]
  <2>1. op[o] \in BeforeSign
    BY <1>1, <1>5, Places DEF ConfirmDigest
  <2>2. what \in BeforeSign /\ what.pc = "refresh"
    BY <2>1 DEF BeforeSign
  <2>3. Goes(o, what) /\ op[o].pc = "inspect"
    BY <1>5 DEF ConfirmDigest
  <2> HIDE DEF what
  <2>4. what \in Invocation /\ RotationMoves(o, what)
    BY <2>2, <2>3, KindsAreInvocations DEF RotationMoves
  <2>5. QED
    BY <2>3, <2>4
<1>6. ASSUME RefreshInspection(o) /\ ~Exits(o)
      PROVE  Goal
  <2> DEFINE what == [pc |-> "sign", tx |-> [ap |-> op[o].ap, era |-> head]]
  <2>1. op[o] \in BeforeSign
    BY <1>1, <1>6, Places DEF RefreshInspection
  <2>2. /\ what \in WithCall /\ what.pc = "sign"
        /\ what.tx = [ap |-> op[o].ap, era |-> head]
    BY <2>1 DEF BeforeSign, WithCall, Signed, RotationTypeOK
  <2>3. Goes(o, what) /\ op[o].pc = "refresh" /\ ReviewHolds(op[o].ap)
    BY <1>6 DEF RefreshInspection
  <2> HIDE DEF what
  <2>4. what \in Invocation /\ RotationMoves(o, what)
    BY <2>2, <2>3, KindsAreInvocations DEF RotationMoves
  <2>5. QED
    BY <2>3, <2>4
<1>7. ASSUME NEW p \in {"record", "fsync", "submit", "wait"},
             Goes(o, [op[o] EXCEPT !.pc = p]),
             op[o].pc \in {"sign", "record", "fsync", "submit"}
      PROVE  Goal
  <2> DEFINE what == [op[o] EXCEPT !.pc = p]
  <2>1. op[o] \in WithCall
    BY <1>1, <1>7, Places
  <2>2. what \in WithCall /\ what.pc = p /\ what.tx = op[o].tx
    BY <2>1, MovesOn, ZenonT(30)
  <2>3. Goes(o, what)
    BY <1>7
  <2> HIDE DEF what
  <2>4. QED
    BY <1>7, <2>2, <2>3, KindsAreInvocations DEF RotationMoves
<1>8. ASSUME \/ create_signed_extrinsic(o) \/ CreateState(o) \/ FsyncState(o)
           \/ submit_extrinsic(o)
      PROVE  Goal
  <2>1. CASE create_signed_extrinsic(o)
    BY <1>4, <1>7, <2>1 DEF create_signed_extrinsic
  <2>2. CASE CreateState(o)
    BY <1>4, <1>7, <2>2 DEF CreateState
  <2>3. CASE FsyncState(o)
    BY <1>7, <2>3 DEF FsyncState
  <2>4. CASE submit_extrinsic(o)
    BY <1>4, <1>7, <2>4 DEF submit_extrinsic
  <2>5. QED
    BY <1>8, <2>1, <2>2, <2>3, <2>4
<1>9. ASSUME NEW l \in landed, NEW r \in BOOLEAN, l.tx = op[o].tx, l.ok,
             op[o].pc \in {"wait", "locate"},
             Goes(o, [pc |-> "receipt", tx |-> l.tx, at |-> l.at, reconcile |-> r])
      PROVE  Goal
  <2> DEFINE what == [pc |-> "receipt", tx |-> l.tx, at |-> l.at, reconcile |-> r]
  <2>1. l.tx \in Signed /\ l.at \in Blocks
    BY DEF RotationTypeOK, Landed
  <2>2. what \in WithReceipt /\ what.pc = "receipt" /\ what.tx = l.tx /\ what.at = l.at
    BY <2>1 DEF WithReceipt
  <2>3. Goes(o, what)
    BY <1>9
  <2> HIDE DEF what
  <2>4. QED
    BY <1>9, <2>2, <2>3, KindsAreInvocations DEF RotationMoves, LandedAt
<1>10. ASSUME AwaitReceipt(o) \/ historical_rotation_receipt(o)
       PROVE  Goal
  <2>1. CASE AwaitReceipt(o)
    BY <1>4, <1>9, <2>1 DEF AwaitReceipt
  <2>2. CASE historical_rotation_receipt(o)
    BY <1>4, <1>9, <2>2 DEF historical_rotation_receipt, Found
  <2>3. QED
    BY <1>10, <2>1, <2>2
<1>11. ASSUME NEW p \in {"receipt_fsync", "proof", "finish"},
              Goes(o, [op[o] EXCEPT !.pc = p]),
              op[o].pc \in {"receipt", "receipt_fsync", "proof"}
       PROVE  Goal
  <2> DEFINE what == [op[o] EXCEPT !.pc = p]
  <2>1. op[o] \in WithReceipt
    BY <1>1, <1>11, Places
  <2>2. what \in WithReceipt /\ what.pc = p /\ what.tx = op[o].tx /\ what.at = op[o].at
    BY <2>1, MovesOn, MovesOnAt, ZenonT(30)
  <2>3. Goes(o, what)
    BY <1>11
  <2> HIDE DEF what
  <2>4. QED
    BY <1>11, <2>2, <2>3, KindsAreInvocations DEF RotationMoves
<1>12. ASSUME CreateReceipt(o) \/ FsyncReceipt(o) \/ post_rotation_proof(o)
       PROVE  Goal
  <2>1. CASE CreateReceipt(o)
    BY <1>4, <1>11, <2>1 DEF CreateReceipt
  <2>2. CASE FsyncReceipt(o)
    BY <1>11, <2>2 DEF FsyncReceipt
  <2>3. CASE post_rotation_proof(o)
    BY <1>4, <1>11, <2>3 DEF post_rotation_proof
  <2>4. QED
    BY <1>12, <2>1, <2>2, <2>3
<1>13. ASSUME atomic_replace_private(o)
       PROVE  Goal
  BY <1>4, <1>13 DEF atomic_replace_private
<1>14. QED
  BY <1>2, <1>3, <1>4, <1>5, <1>6, <1>8, <1>10, <1>12, <1>13 DEF ToolStep

\* Every call is signed for an era inside its approval, and stays as it is.
LEMMA CallsFitStep ==
    ASSUME RotationInv, RotationInv', CallsFit, [RotationNext]_rotationVars
    PROVE  CallsFit'
<1> USE DEF RotationInv
<1>1. \A o \in Operators : op[o] \in Invocation
  BY DEF RotationTypeOK
<1>2. op' = op /\ stateFile' = stateFile => CallsFit'
  BY DEF CallsFit, HasCall
<1>3. ASSUME NEW o \in Operators, NEW what \in Invocation, Goes(o, what),
             HasCall(what) => EraFits(what.tx),
             stateFile' \in Recorded => EraFits(stateFile'.tx)
      PROVE  CallsFit'
  <2>1. /\ op'[o] = what
        /\ \A q \in Operators \ {o} : op'[q] = op[q]
    BY <1>3, GoesFacts DEF RotationTypeOK
  <2>2. QED
    BY <1>3, <2>1 DEF CallsFit, HasCall
<1>4. ASSUME NEW o \in Operators, NEW ap \in reviews, validate_options(o, ap)
      PROVE  CallsFit'
  <2> DEFINE what == [pc |-> "inspect", ap |-> ap]
  <2>1. what \in BeforeSign /\ what.pc = "inspect"
    BY DEF BeforeSign, RotationTypeOK
  <2>2. Goes(o, what) /\ stateFile' = stateFile
    BY <1>4 DEF validate_options
  <2> HIDE DEF what
  <2>3. QED
    BY <1>3, <2>1, <2>2, KindsAreInvocations DEF CallsFit, HasCall
<1>5. ASSUME NEW o \in Operators, validate_pending_attempt(o)
      PROVE  CallsFit'
  <2> DEFINE what == [pc |-> "locate", tx |-> stateFile.tx]
  <2>1. stateFile \in Recorded
    BY <1>5 DEF validate_pending_attempt, Says, RotationTypeOK, Torn
  <2>2. what \in WithCall /\ what.tx = stateFile.tx
    BY <2>1 DEF WithCall, Recorded
  <2>3. Goes(o, what) /\ stateFile' = stateFile
    BY <1>5 DEF validate_pending_attempt
  <2> HIDE DEF what
  <2>4. QED
    BY <1>3, <2>1, <2>2, <2>3, KindsAreInvocations DEF CallsFit
<1>6. ASSUME NEW o \in Operators, ToolStep(o)
      PROVE  CallsFit'
  <2>1. PICK what \in Invocation : Goes(o, what) /\ RotationMoves(o, what)
    BY <1>6, EveryToolStepMoves
  <2>2. HasCall(what) => EraFits(what.tx)
    <3>1. ASSUME op[o].pc = "refresh", ReviewHolds(op[o].ap),
                 what.tx = [ap |-> op[o].ap, era |-> head]
          PROVE  EraFits(what.tx)
      BY <3>1 DEF ReviewHolds, EraFits, LastBlock
    <3>2. ASSUME HasCall(op[o]), what.tx = op[o].tx
          PROVE  EraFits(what.tx)
      BY <3>2 DEF CallsFit
    <3>3. Idle.pc = "idle"
      BY DEF Idle
    <3>4. QED
      BY <2>1, <3>1, <3>2, <3>3 DEF RotationMoves, HasCall
  <2>3. stateFile' \in Recorded => EraFits(stateFile'.tx)
    <3>1. stateFile' = stateFile \/ stateFile' = Torn
            \/ (stateFile'.tx = op[o].tx /\ op[o].pc \in {"fsync", "finish"})
      BY <1>6, EveryToolStepMoves
    <3>2. QED
      BY <3>1, TornIsNoRecord DEF CallsFit, HasCall
  <2>4. QED
    BY <1>3, <2>1, <2>2, <2>3
<1>7. ASSUME NEW o \in Operators, OperatorDies(o)
      PROVE  CallsFit'
  <2>1. Goes(o, Idle) /\ Idle \in Invocation /\ ~HasCall(Idle) /\ stateFile' = stateFile
    BY <1>7, KindsAreInvocations DEF OperatorDies, Exits, HasCall, Idle
  <2>2. QED
    BY <1>3, <2>1 DEF CallsFit
<1>8. CASE FinalizeBlock \/ Drift \/ \E n \in NewHotkeys : inspect_rotation(n)
  BY <1>2, <1>8 DEF FinalizeBlock, Drift, inspect_rotation
<1>9. CASE UNCHANGED rotationVars
  BY <1>2, <1>9 DEF rotationVars
<1>10. QED
  BY <1>4, <1>5, <1>6, <1>7, <1>8, <1>9 DEF RotationNext

\* A call lands at most once, inside its era, and not after its absence was
\* declared: the whole window was final by then.
LEMMA ChainStep ==
    ASSUME RotationInv, CallsFit, ChainHolds, [RotationNext]_rotationVars
    PROVE  ChainHolds'
<1> USE DEF RotationInv
<1>1. ASSUME UNCHANGED <<landed, nonce, head>>, sent \subseteq sent', absent' = absent
      PROVE  ChainHolds'
  BY <1>1 DEF ChainHolds
<1>2. CASE FinalizeBlock
  <2>0. UNCHANGED <<sent, absent>> /\ head' = head + 1 /\ head \in Nat /\ nonce \in Nat
    BY <1>2 DEF FinalizeBlock, RotationTypeOK, Blocks
  <2>1. CASE UNCHANGED <<landed, nonce>>
    <3>1. \A tx \in absent : LastBlock(tx) \in Int
      BY Numbers DEF RotationTypeOK, Signed, LastBlock, Blocks
    <3>2. QED
      BY <2>0, <2>1, <3>1 DEF ChainHolds
  <2>2. ASSUME NEW tx \in sent, Includes(tx, head + 1)
        PROVE  ChainHolds'
    <3>1. PICK ok \in BOOLEAN, clean \in BOOLEAN :
            landed' = landed \cup {[tx |-> tx, at |-> head + 1, ok |-> ok,
                                    clean |-> clean]}
      BY <2>2 DEF Includes
    <3> DEFINE new == [tx |-> tx, at |-> head + 1, ok |-> ok, clean |-> clean]
    <3>2. landed' = landed \cup {new} /\ new.tx = tx /\ new.at = head + 1
      BY <3>1
    <3> HIDE DEF new
    <3>3. /\ nonce' = nonce + 1 /\ tx.ap.nonce = nonce
          /\ tx.era < head + 1 /\ head + 1 <= LastBlock(tx)
      BY <2>2 DEF Includes
    <3>4. \A l \in landed : l.tx # tx /\ l.tx.ap.nonce < nonce + 1
      <4> SUFFICES ASSUME NEW l \in landed
                   PROVE  l.tx # tx /\ l.tx.ap.nonce < nonce + 1
        OBVIOUS
      <4>1. l.tx.ap.nonce \in Nat
        BY DEF RotationTypeOK, Landed, Signed, Approval, Nonces
      <4>2. l.tx.ap.nonce < nonce
        BY DEF ChainHolds
      <4>3. QED
        BY <2>0, <3>3, <4>1, <4>2
    <3>5. \A a \in absent : a # tx /\ LastBlock(a) <= head + 1
      <4> SUFFICES ASSUME NEW a \in absent
                   PROVE  a # tx /\ LastBlock(a) <= head + 1
        OBVIOUS
      <4>1. LastBlock(a) \in Int /\ LastBlock(a) <= head
        BY Numbers DEF RotationTypeOK, Signed, LastBlock, Blocks, ChainHolds
      <4>2. QED
        BY <2>0, <3>3, <4>1
    <3>6. \A l \in landed' : /\ l.tx \in sent' /\ l.tx.ap.nonce < nonce'
                             /\ l.tx.era < l.at /\ l.at <= LastBlock(l.tx)
      BY <2>0, <3>2, <3>3, <3>4 DEF ChainHolds
    <3>7. \A l, m \in landed' : l.tx = m.tx => l = m
      BY <3>2, <3>4 DEF ChainHolds
    <3>8. \A a \in absent' : LastBlock(a) <= head' /\ \A l \in landed' : l.tx # a
      BY <2>0, <3>2, <3>5 DEF ChainHolds
    <3>9. QED
      BY <3>6, <3>7, <3>8 DEF ChainHolds
  <2>3. QED
    BY <1>2, <2>1, <2>2 DEF FinalizeBlock
<1>3. CASE Drift
  <2>1. /\ UNCHANGED <<head, landed, sent, absent>>
        /\ nonce \in Nat /\ nonce' \in {nonce, nonce + 1}
    BY <1>3 DEF Drift, RotationTypeOK
  <2>2. \A l \in landed : l.tx.ap.nonce \in Nat
    BY DEF RotationTypeOK, Landed, Signed, Approval, Nonces
  <2>3. QED
    BY <2>1, <2>2 DEF ChainHolds
<1>4. ASSUME NEW o \in Operators, historical_rotation_receipt(o)
      PROVE  ChainHolds'
  <2>0. UNCHANGED <<landed, nonce, head, sent>>
    BY <1>4 DEF historical_rotation_receipt, chainVars
  <2>1. CASE absent' = absent
    BY <1>1, <2>0, <2>1
  <2>2. CASE /\ Found(op[o].tx) = {} /\ WindowClosed(op[o].tx)
             /\ absent' = absent \cup {op[o].tx}
    <3>1. op[o] \in WithCall
      BY <1>4, Places DEF historical_rotation_receipt, RotationTypeOK
    <3>2. PICK tx \in Signed : tx = op[o].tx
      BY <3>1 DEF WithCall
    <3>3. \A l \in landed : l.tx # tx
      <4> SUFFICES ASSUME NEW l \in landed, l.tx = tx PROVE FALSE
        OBVIOUS
      <4>1. l.tx.era < l.at /\ l.at <= LastBlock(l.tx)
        BY DEF ChainHolds
      <4>2. l.at \in Nat /\ l.tx.era \in Nat
        BY Numbers DEF RotationTypeOK, Landed, Signed, Blocks
      <4>3. l \in Found(tx)
        BY <4>1, <4>2 DEF Found
      <4>4. QED
        BY <2>2, <3>2, <4>3
    <3>4. LastBlock(tx) <= head
      <4>1. tx.era \in Nat /\ head \in Nat
        BY Numbers DEF RotationTypeOK, Signed, Blocks
      <4>2. QED
        BY <2>2, <3>2, <4>1, Numbers DEF WindowClosed, LastBlock
    <3>5. QED
      BY <2>0, <2>2, <3>2, <3>3, <3>4 DEF ChainHolds
  <2>3. QED
    BY <1>4, <2>1, <2>2 DEF historical_rotation_receipt
<1>5. ASSUME NEW o \in Operators, ToolStep(o), ~historical_rotation_receipt(o)
      PROVE  ChainHolds'
  <2>1. UNCHANGED <<landed, nonce, head>> /\ sent \subseteq sent' /\ absent' = absent
    BY <1>5 DEF ToolStep, ConfirmDigest, RefreshInspection, create_signed_extrinsic,
                CreateState, FsyncState, submit_extrinsic, AwaitReceipt, CreateReceipt,
                FsyncReceipt, post_rotation_proof, atomic_replace_private, chainVars
  <2>2. QED
    BY <1>1, <2>1
<1>6. ASSUME NEW o \in Operators,
             \/ \E ap \in reviews : validate_options(o, ap)
             \/ validate_pending_attempt(o) \/ OperatorDies(o)
      PROVE  ChainHolds'
  <2>1. UNCHANGED <<landed, nonce, head, sent, absent>>
    BY <1>6 DEF validate_options, validate_pending_attempt, OperatorDies, chainVars
  <2>2. QED
    BY <1>1, <2>1
<1>7. ASSUME NEW n \in NewHotkeys, inspect_rotation(n)
      PROVE  ChainHolds'
  BY <1>1, <1>7 DEF inspect_rotation, chainVars
<1>8. CASE UNCHANGED rotationVars
  BY <1>1, <1>8 DEF rotationVars
<1>9. QED
  BY <1>2, <1>3, <1>4, <1>5, <1>6, <1>7, <1>8 DEF RotationNext

\* What a step of the tool does to the receipt, and what it has seen when it goes
\* on to finish.
LEMMA ReceiptMoves ==
    ASSUME RotationTypeOK, NEW o \in Operators, ToolStep(o)
    PROVE  /\ op'[o].pc = "receipt_fsync" => receipt = NONE /\ receipt' = Torn
           /\ op'[o].pc = "proof" =>
                /\ receipt' = ReceiptOf(o)
                /\ receipt' = receipt \/ op[o].pc = "receipt_fsync"
           /\ op'[o].pc \notin {"receipt_fsync", "proof"} => receipt' = receipt
           /\ op'[o].pc = "finish" =>
                /\ op[o].pc = "proof"
                /\ \E l \in landed : l.tx = op[o].tx /\ l.at = op[o].at /\ l.clean
<1> DEFINE Goal == /\ op'[o].pc = "receipt_fsync" => receipt = NONE /\ receipt' = Torn
                   /\ op'[o].pc = "proof" =>
                        /\ receipt' = ReceiptOf(o)
                        /\ receipt' = receipt \/ op[o].pc = "receipt_fsync"
                   /\ op'[o].pc \notin {"receipt_fsync", "proof"} => receipt' = receipt
                   /\ op'[o].pc = "finish" =>
                        /\ op[o].pc = "proof"
                        /\ \E l \in landed : /\ l.tx = op[o].tx /\ l.at = op[o].at
                                             /\ l.clean
<1>1. op[o] \in Invocation /\ op \in [Operators -> Invocation]
  BY DEF RotationTypeOK
<1>2. ASSUME Exits(o)
      PROVE  op'[o].pc = "idle"
  BY <1>1, <1>2 DEF Exits, Goes, Idle
<1>3. ASSUME NEW p \in {"receipt_fsync", "proof", "finish"}, op[o] \in WithReceipt,
             Goes(o, [op[o] EXCEPT !.pc = p])
      PROVE  op'[o].pc = p
  BY <1>1, <1>3, MovesOn DEF Goes
<1>4. op[o].pc \in {"receipt", "receipt_fsync", "proof", "finish"} => op[o] \in WithReceipt
  BY <1>1, Places
<1>5. ASSUME CreateReceipt(o)
      PROVE  Goal
  <2>1. op[o] \in WithReceipt
    BY <1>4, <1>5 DEF CreateReceipt
  <2>2. CASE /\ receipt = NONE /\ receipt' = Torn
             /\ Goes(o, [op[o] EXCEPT !.pc = "receipt_fsync"])
    BY <1>3, <2>1, <2>2
  <2>3. CASE /\ ReceiptStands(o) /\ UNCHANGED receipt
             /\ Goes(o, [op[o] EXCEPT !.pc = "proof"])
    BY <1>3, <2>1, <2>3 DEF ReceiptStands
  <2>4. CASE Exits(o) /\ UNCHANGED receipt
    BY <1>2, <2>4
  <2>5. QED
    BY <1>5, <2>2, <2>3, <2>4 DEF CreateReceipt
<1>6. ASSUME FsyncReceipt(o)
      PROVE  Goal
  BY <1>3, <1>4, <1>6 DEF FsyncReceipt
<1>7. ASSUME post_rotation_proof(o)
      PROVE  Goal
  BY <1>2, <1>3, <1>4, <1>7 DEF post_rotation_proof
<1>8. ASSUME atomic_replace_private(o)
      PROVE  Goal
  BY <1>2, <1>8 DEF atomic_replace_private
<1>9. ASSUME op[o].pc \notin {"receipt", "receipt_fsync", "proof", "finish"},
             UNCHANGED receipt
      PROVE  Goal
  <2>1. PICK what \in Invocation : Goes(o, what) /\ RotationMoves(o, what)
    BY EveryToolStepMoves
  <2>2. op'[o] = what
    BY <1>1, <2>1 DEF Goes
  <2>3. what.pc \notin {"receipt_fsync", "proof", "finish"}
    BY <1>9, <2>1 DEF RotationMoves, Idle
  <2>4. QED
    BY <1>9, <2>2, <2>3
<1>10. CASE \/ ConfirmDigest(o) \/ RefreshInspection(o) \/ create_signed_extrinsic(o)
            \/ CreateState(o) \/ FsyncState(o) \/ submit_extrinsic(o)
            \/ AwaitReceipt(o) \/ historical_rotation_receipt(o)
  <2>1. /\ op[o].pc \notin {"receipt", "receipt_fsync", "proof", "finish"}
        /\ UNCHANGED receipt
    BY <1>10 DEF ConfirmDigest, RefreshInspection, create_signed_extrinsic,
                 CreateState, FsyncState, submit_extrinsic, AwaitReceipt,
                 historical_rotation_receipt
  <2>2. QED
    BY <1>9, <2>1
<1>11. QED
  BY <1>5, <1>6, <1>7, <1>8, <1>10 DEF ToolStep

\* A receipt is no torn file, and neither is absent.
LEMMA TornIsNoReceipt == Torn \notin Receipt /\ Torn # NONE /\ NONE \notin Receipt
BY NoneIsNoFile DEF Torn, Receipt

\* The receipt is made by one invocation, and stays as it is from then on.
LEMMA ReceiptStep ==
    ASSUME RotationInv, RotationInv', ReceiptHolds, [RotationNext]_rotationVars
    PROVE  ReceiptHolds'
<1> USE DEF RotationInv
<1>1. op \in [Operators -> Invocation] /\ \A o \in Operators : op[o] \in Invocation
  BY DEF RotationTypeOK
<1>2. landed \subseteq landed'
  BY DEF RotationNext, FinalizeBlock, Includes, Drift, inspect_rotation, validate_options,
         validate_pending_attempt, ToolStep, OperatorDies, ConfirmDigest,
         RefreshInspection, create_signed_extrinsic, CreateState, FsyncState,
         submit_extrinsic, AwaitReceipt, historical_rotation_receipt, CreateReceipt,
         FsyncReceipt, post_rotation_proof, atomic_replace_private, rotationVars, chainVars
<1>3. ASSUME UNCHANGED <<op, receipt>>
      PROVE  ReceiptHolds'
  BY <1>2, <1>3 DEF ReceiptHolds, LandedAt, ReceiptOf
<1>4. ASSUME NEW o \in Operators, NEW what \in Invocation, Goes(o, what),
             what.pc \notin {"receipt", "receipt_fsync", "proof", "finish"},
             UNCHANGED receipt
      PROVE  ReceiptHolds'
  <2>1. /\ op'[o] = what
        /\ \A q \in Operators \ {o} : op'[q] = op[q]
    BY <1>1, <1>4, GoesFacts
  <2>2. QED
    BY <1>2, <1>4, <2>1 DEF ReceiptHolds, LandedAt, ReceiptOf
<1>5. ASSUME NEW o \in Operators, ToolStep(o)
      PROVE  ReceiptHolds'
  <2>1. PICK what \in Invocation : Goes(o, what) /\ RotationMoves(o, what)
    BY <1>5, EveryToolStepMoves
  <2>2. /\ op'[o] = what
        /\ \A q \in Operators \ {o} : op'[q] = op[q]
    BY <1>1, <2>1, GoesFacts
  <2>3. /\ what.pc = "receipt_fsync" => receipt = NONE /\ receipt' = Torn
        /\ what.pc = "proof" =>
             /\ receipt' = ReceiptOf(o)
             /\ receipt' = receipt \/ op[o].pc = "receipt_fsync"
        /\ what.pc \notin {"receipt_fsync", "proof"} => receipt' = receipt
        /\ what.pc = "finish" =>
             /\ op[o].pc = "proof"
             /\ \E l \in landed : l.tx = op[o].tx /\ l.at = op[o].at /\ l.clean
    BY <1>5, <2>2, ReceiptMoves
  <2>4. \A q \in Operators : op[q].pc \in {"proof", "finish"} =>
            receipt \in Receipt /\ receipt = ReceiptOf(q)
    BY <1>1, Places DEF ReceiptHolds, ReceiptOf, WithReceipt, Receipt
  <2>5. what.pc \in {"receipt_fsync", "proof", "finish"} =>
            /\ what.tx = op[o].tx /\ what.at = op[o].at
            /\ op[o].pc \in {"receipt", "receipt_fsync", "proof"}
    BY <2>1 DEF RotationMoves, Idle
  <2>6. what.pc = "proof" => ReceiptOf(o) \in Receipt
    BY <1>1, <2>5, Places DEF ReceiptOf, WithReceipt, Receipt
  <2>7. \A q \in Operators : op'[q].pc = "receipt_fsync" => receipt' = Torn
    BY <2>2, <2>3, <2>6, TornIsNoReceipt DEF ReceiptHolds
  <2>8. \A q, r \in Operators :
            op'[q].pc = "receipt_fsync" /\ op'[r].pc = "receipt_fsync" => q = r
    BY <2>2, <2>3, TornIsNoReceipt DEF ReceiptHolds
  <2>9. what.pc \in {"receipt", "receipt_fsync", "proof", "finish"} => LandedAt(what)
    <3>1. CASE what.pc = "receipt"
      BY <2>1, <3>1 DEF RotationMoves, Idle
    <3>2. CASE what.pc \in {"receipt_fsync", "proof", "finish"}
      BY <2>5, <3>2 DEF ReceiptHolds, LandedAt
    <3>3. QED
      BY <3>1, <3>2
  <2>10. \A q \in Operators :
            op'[q].pc \in {"receipt", "receipt_fsync", "proof", "finish"} =>
                \E l \in landed' : l.tx = op'[q].tx /\ l.at = op'[q].at /\ l.ok
    BY <1>2, <2>2, <2>9 DEF ReceiptHolds, LandedAt
  <2>11. \A q \in Operators : op'[q].pc \in {"proof", "finish"} =>
            receipt' = [tx |-> op'[q].tx, at |-> op'[q].at]
    <3>1. CASE what.pc \in {"proof", "finish"}
      <4>1. receipt' = ReceiptOf(o)
        BY <2>3, <3>1 DEF ReceiptHolds
      <4>2. receipt' = [tx |-> what.tx, at |-> what.at]
        BY <2>5, <3>1, <4>1 DEF ReceiptOf
      <4>3. \A q \in Operators \ {o} : op[q].pc \in {"proof", "finish"} =>
                receipt' = ReceiptOf(q)
        BY <2>3, <2>4, <3>1, TornIsNoReceipt DEF ReceiptHolds
      <4>4. QED
        BY <2>2, <4>2, <4>3 DEF ReceiptOf
    <3>2. CASE what.pc \notin {"proof", "finish"}
      <4>1. \A q \in Operators \ {o} : op[q].pc \in {"proof", "finish"} =>
                receipt' = ReceiptOf(q)
        BY <2>3, <2>4, <3>2, TornIsNoReceipt
      <4>2. QED
        BY <2>2, <3>2, <4>1 DEF ReceiptOf
    <3>3. QED
      BY <3>1, <3>2
  <2>12. \A q \in Operators : op'[q].pc = "finish" =>
            \E l \in landed' : l.tx = op'[q].tx /\ l.at = op'[q].at /\ l.clean
    BY <1>2, <2>2, <2>3, <2>5 DEF ReceiptHolds
  <2>13. QED
    BY <2>7, <2>8, <2>10, <2>11, <2>12 DEF ReceiptHolds, LandedAt, ReceiptOf
<1>6. ASSUME NEW o \in Operators, NEW ap \in reviews, validate_options(o, ap)
      PROVE  ReceiptHolds'
  <2> DEFINE what == [pc |-> "inspect", ap |-> ap]
  <2>1. what \in BeforeSign /\ what.pc = "inspect"
    BY DEF BeforeSign, RotationTypeOK
  <2>2. Goes(o, what) /\ receipt' = receipt
    BY <1>6 DEF validate_options
  <2> HIDE DEF what
  <2>3. QED
    BY <1>4, <2>1, <2>2, KindsAreInvocations
<1>7. ASSUME NEW o \in Operators, validate_pending_attempt(o)
      PROVE  ReceiptHolds'
  <2> DEFINE what == [pc |-> "locate", tx |-> stateFile.tx]
  <2>1. stateFile \in Recorded
    BY <1>7 DEF validate_pending_attempt, Says, RotationTypeOK, Torn
  <2>2. what \in WithCall /\ what.pc = "locate"
    BY <2>1 DEF WithCall, Recorded
  <2>3. Goes(o, what) /\ receipt' = receipt
    BY <1>7 DEF validate_pending_attempt
  <2> HIDE DEF what
  <2>4. QED
    BY <1>4, <2>2, <2>3, KindsAreInvocations
<1>8. ASSUME NEW o \in Operators, OperatorDies(o)
      PROVE  ReceiptHolds'
  <2>1. /\ Goes(o, Idle) /\ Idle \in Invocation /\ Idle.pc = "idle"
        /\ receipt' = receipt
    BY <1>8, KindsAreInvocations DEF OperatorDies, Exits, Idle
  <2>2. QED
    BY <1>4, <2>1
<1>9. CASE FinalizeBlock \/ Drift \/ \E n \in NewHotkeys : inspect_rotation(n)
  BY <1>3, <1>9 DEF FinalizeBlock, Drift, inspect_rotation
<1>10. CASE UNCHANGED rotationVars
  BY <1>3, <1>10 DEF rotationVars
<1>11. QED
  BY <1>5, <1>6, <1>7, <1>8, <1>9, <1>10 DEF RotationNext

\* The record is finalized only by an invocation that has seen its call executed
\* clean, and neither the record nor the receipt is touched again.
LEMMA FinalizedStep ==
    ASSUME RotationInv, ChainHolds, ReceiptHolds, FinalizedIsProven,
           [RotationNext]_rotationVars
    PROVE  FinalizedIsProven'
<1> USE DEF RotationInv
<1>1. op \in [Operators -> Invocation] /\ \A o \in Operators : op[o] \in Invocation
  BY DEF RotationTypeOK
<1>2. landed \subseteq landed'
  BY DEF RotationNext, FinalizeBlock, Includes, Drift, inspect_rotation, validate_options,
         validate_pending_attempt, ToolStep, OperatorDies, ConfirmDigest,
         RefreshInspection, create_signed_extrinsic, CreateState, FsyncState,
         submit_extrinsic, AwaitReceipt, historical_rotation_receipt, CreateReceipt,
         FsyncReceipt, post_rotation_proof, atomic_replace_private, rotationVars, chainVars
<1>3. ASSUME UNCHANGED <<stateFile, receipt>>
      PROVE  FinalizedIsProven'
  BY <1>2, <1>3 DEF FinalizedIsProven, Says
<1>4. ASSUME NEW o \in Operators, CreateState(o) \/ FsyncState(o)
      PROVE  FinalizedIsProven'
  <2>1. CASE UNCHANGED stateFile
    BY <1>3, <1>4, <2>1 DEF CreateState, FsyncState
  <2>2. CASE stateFile' = Torn
    BY <2>2 DEF FinalizedIsProven, Says, Torn
  <2>3. CASE stateFile' = [phase |-> "broadcast_pending", tx |-> op[o].tx]
    BY <2>3 DEF FinalizedIsProven, Says
  <2>4. QED
    BY <1>4, <2>1, <2>2, <2>3 DEF CreateState, FsyncState
<1>5. ASSUME NEW o \in Operators, CreateReceipt(o) \/ FsyncReceipt(o)
      PROVE  FinalizedIsProven'
  <2>1. stateFile' = stateFile
    BY <1>5 DEF CreateReceipt, FsyncReceipt
  <2>2. CASE receipt \in {NONE, Torn}
    <3>1. ~Says("finalized")
      <4> SUFFICES ASSUME Says("finalized") PROVE FALSE
        OBVIOUS
      <4>1. PICK l \in landed : receipt = [tx |-> l.tx, at |-> l.at]
        BY DEF FinalizedIsProven
      <4>2. l.tx \in Signed /\ l.at \in Blocks
        BY DEF RotationTypeOK, Landed
      <4>3. receipt \in Receipt
        BY <4>1, <4>2 DEF Receipt
      <4>4. QED
        BY <2>2, <4>3, TornIsNoReceipt
    <3>2. QED
      BY <2>1, <3>1 DEF FinalizedIsProven, Says
  <2>3. CASE receipt \notin {NONE, Torn}
    <3>1. receipt' = receipt
      BY <1>5, <2>3 DEF CreateReceipt, FsyncReceipt, ReceiptHolds
    <3>2. QED
      BY <1>3, <2>1, <3>1
  <2>4. QED
    BY <2>2, <2>3
<1>6. ASSUME NEW o \in Operators, atomic_replace_private(o)
      PROVE  FinalizedIsProven'
  <2>1. /\ op[o].pc = "finish" /\ receipt' = receipt
        /\ stateFile' = [phase |-> "finalized", tx |-> op[o].tx]
    BY <1>6 DEF atomic_replace_private
  <2>2. /\ receipt = [tx |-> op[o].tx, at |-> op[o].at]
        /\ \E l \in landed : l.tx = op[o].tx /\ l.at = op[o].at /\ l.ok
        /\ \E l \in landed : l.tx = op[o].tx /\ l.at = op[o].at /\ l.clean
    BY <2>1 DEF ReceiptHolds, LandedAt, ReceiptOf
  <2>3. \E l \in landed : l.tx = op[o].tx /\ l.at = op[o].at /\ l.ok /\ l.clean
    BY <2>2 DEF ChainHolds
  <2>4. QED
    BY <1>2, <2>1, <2>2, <2>3 DEF FinalizedIsProven, Says
<1>7. ASSUME NEW o \in Operators, ToolStep(o)
      PROVE  FinalizedIsProven'
  <2>1. CASE \/ ConfirmDigest(o) \/ RefreshInspection(o) \/ create_signed_extrinsic(o)
             \/ submit_extrinsic(o) \/ AwaitReceipt(o) \/ historical_rotation_receipt(o)
             \/ post_rotation_proof(o)
    BY <1>3, <2>1 DEF ConfirmDigest, RefreshInspection, create_signed_extrinsic,
                      submit_extrinsic, AwaitReceipt, historical_rotation_receipt,
                      post_rotation_proof
  <2>2. QED
    BY <1>4, <1>5, <1>6, <1>7, <2>1 DEF ToolStep
<1>8. ASSUME NEW o \in Operators,
             \/ \E ap \in reviews : validate_options(o, ap)
             \/ validate_pending_attempt(o) \/ OperatorDies(o)
      PROVE  FinalizedIsProven'
  BY <1>3, <1>8 DEF validate_options, validate_pending_attempt, OperatorDies
<1>9. CASE FinalizeBlock \/ Drift \/ \E n \in NewHotkeys : inspect_rotation(n)
  BY <1>3, <1>9 DEF FinalizeBlock, Drift, inspect_rotation
<1>10. CASE UNCHANGED rotationVars
  BY <1>3, <1>10 DEF rotationVars
<1>11. QED
  BY <1>7, <1>8, <1>9, <1>10 DEF RotationNext

\* What holds of every state gives the run's invariant: what landed was recorded,
\* and its era ends inside its approval.
LEMMA SwapHoldsGives ==
    ASSUME RotationInv, SwapHolds
    PROVE  SwapInv
<1> USE DEF RotationInv, SwapHolds
<1>1. \A l \in landed : l.at <= l.tx.ap.block + Lifetime
  <2> SUFFICES ASSUME NEW l \in landed PROVE l.at <= l.tx.ap.block + Lifetime
    OBVIOUS
  <2>1. l.tx \in Signed /\ l.at \in Nat /\ l.tx.ap.block \in Nat /\ l.tx.era \in Nat
    BY Numbers DEF RotationTypeOK, Landed, Signed, Approval, Blocks
  <2>2. l.tx \in sent /\ l.at <= LastBlock(l.tx)
    BY DEF ChainHolds
  <2>3. EraFits(l.tx)
    BY <2>2 DEF SentIsRecorded, CallsFit
  <2>4. QED
    BY <2>1, <2>2, <2>3, Numbers DEF EraFits, LastBlock, ValidUntil, Lifetime
<1>2. AbsentNeverLands
  BY DEF AbsentNeverLands, ChainHolds
<1>3. QED
  BY <1>1, <1>2 DEF SwapInv, LandsInsideApproval

LEMMA SwapHoldsInit == RotationInit => SwapHolds
<1> SUFFICES ASSUME RotationInit PROVE SwapHolds
  OBVIOUS
<1>1. \A o \in Operators : op[o].pc = "idle"
  BY DEF RotationInit, Idle
<1>2. NONE \notin Recorded
  BY NoneIsNoFile
<1>3. CallsFit
  BY <1>1, <1>2 DEF RotationInit, CallsFit, HasCall
<1>4. ChainHolds
  BY DEF RotationInit, ChainHolds
<1>5. ReceiptHolds
  BY <1>1 DEF ReceiptHolds
<1>6. FinalizedIsProven
  BY DEF RotationInit, FinalizedIsProven, Says
<1>7. QED
  BY <1>3, <1>4, <1>5, <1>6 DEF SwapHolds

\* A swap lands inside its approval, a finalized record is proven by the chain and by
\* the receipt beside it, and a call declared never included never lands, whatever
\* dies in between (broadcast_rotation, reconcile_rotation, _post_rotation_proof).
THEOREM SwapHonest == RotationSpec => []SwapInv
<1>1. RotationInit => RotationInv /\ SwapHolds
  BY RotationInvInit, SwapHoldsInit
<1>2. RotationInv /\ [RotationNext]_rotationVars => RotationInv'
  BY RotationInvStep
<1>3. RotationInv /\ RotationInv' /\ SwapHolds /\ [RotationNext]_rotationVars
        => SwapHolds'
  <2> SUFFICES ASSUME RotationInv, RotationInv', SwapHolds, [RotationNext]_rotationVars
               PROVE  SwapHolds'
    OBVIOUS
  <2>1. CallsFit'
    BY CallsFitStep DEF SwapHolds
  <2>2. ChainHolds'
    BY ChainStep DEF SwapHolds
  <2>3. ReceiptHolds'
    BY ReceiptStep DEF SwapHolds
  <2>4. FinalizedIsProven'
    BY FinalizedStep DEF SwapHolds
  <2>5. QED
    BY <2>1, <2>2, <2>3, <2>4 DEF SwapHolds
<1>4. RotationInv /\ SwapHolds => SwapInv
  BY SwapHoldsGives
<1>5. QED
  BY <1>1, <1>2, <1>3, <1>4, PTL DEF RotationSpec

----------------------------------------------------------------------------
(* The thin validator.  What a process knows is the state file as long as   *)
(* no save failed, and its memory as long as none died: the argument        *)
(* follows that state, whichever of the two holds it.                       *)

\* The state the next call is made from: the file, or the memory of the process
\* that holds the lease on it.
Known == IF lease = NONE THEN disk ELSE mem[lease]

\* A vector that was sent is not ahead of the state: of its configuration no
\* round is above the last, the last round's is the one pending, and the report
\* behind it is the mark or of an earlier epoch.
ReportBehind(r, mark) ==
    r # NONE =>
        /\ mark # NONE /\ r.epoch <= mark.epoch
        /\ r.epoch = mark.epoch => r = mark
Behind(v, s) ==
    /\ v.era <= s.config
    /\ v.era = s.config => /\ v.round <= s.last
                           /\ v.round = s.last /\ s.pending # NONE => v = s.pending.vector
    /\ ReportBehind(v.report, s.report)

\* What is pending is the vector of the last round, under the report of the mark.
PendingFits(s) ==
    s.pending # NONE =>
        LET v == s.pending.vector
        IN  /\ v.era = s.config /\ v.round = s.last
            /\ v.report # NONE => v.report = s.report

\* The last call of the pending vector failed, was lost, or is marked unknown.
LastOf(log, i, v) ==
    /\ log[i].vector = v
    /\ \A k \in (i + 1)..Len(log) : log[k].vector # v
Held(s, log) ==
    s.pending # NONE =>
        \A i \in 1..Len(log) : LastOf(log, i, s.pending.vector) =>
            log[i].answer \in {"rejected", "lost"} \/ s.pending.ambiguous

SentFits(s, log) == PendingFits(s) /\ \A i \in 1..Len(log) : Behind(log[i].vector, s)

Awaiting == lease # NONE /\ place[lease] = "await"

\* Where a process is in its tick says what it holds.
Working == {"registration", "report", "commit"}
Sending == {"recheck", "submit", "await"}
PlaceFits(h) ==
    /\ place[h] # "off" => lease = h /\ mem[h] \in ThinState
    /\ place[h] \in Working =>
          /\ draft[h] \in Draft /\ mem[h].pending = NONE
          /\ draft[h].vector.era = mem[h].config
          /\ draft[h].vector.round > mem[h].last /\ draft[h].vector.round <= round
          /\ draft[h].vector.report # NONE => Extends(draft[h].vector.report, mem[h].report)
    /\ place[h] \in Sending => mem[h].pending # NONE
    /\ place[h] \in {"recheck", "submit"} =>
          (mem[h].pending.ambiguous => mode[h] = "retry_ambiguous")
    /\ place[h] = "await" => Len(calls) > 0 /\ calls[Len(calls)].vector = mem[h].pending.vector

\* The file is what the process remembers unless a save failed, and nobody
\* leaves it but by dying.
DiskFits ==
    /\ disk # NONE => disk.last <= round
    /\ disk = NONE => lease = NONE /\ calls = <<>>
    /\ lease # NONE => place[lease] # "off"
    /\ lease # NONE /\ saveFaults = 0 => mem[lease] = disk
    /\ lease = NONE /\ kills = 0 => disk = NONE

CallsRight == OneVectorPerRound /\ SourceNeverRollsBack /\ UnknownIsHeld

ThinBook ==
    /\ ThinTypeOK
    /\ \A h \in Hosts : PlaceFits(h)
    /\ DiskFits
    /\ CallsRight
    /\ NothingForgotten /\ disk # NONE =>
          SentFits(Known, calls) /\ (~Awaiting => Held(Known, calls))

LEMMA ThinNumbers ==
    /\ MaxRound \in Nat /\ MaxChurn \in Nat /\ MaxAccepts \in Nat /\ MaxFailures \in Nat
    /\ NONE \notin ThinState /\ NONE \notin Pending
    /\ NONE \notin Hosts /\ NONE \notin Reports
    /\ \A r \in Reports : r.epoch \in Nat
BY ThinConstants, NoStateIsNone

\* Calls whose vectors and opt-ins stay, and whose answers stay but the last.
LEMMA CallsKept ==
    ASSUME CallsRight, NothingForgotten' => NothingForgotten,
           Len(calls) \in Nat, Len(calls') = Len(calls),
           \A i \in 1..Len(calls) : /\ calls'[i].vector = calls[i].vector
                                    /\ calls'[i].optIn = calls[i].optIn
                                    /\ i < Len(calls) => calls'[i].answer = calls[i].answer
    PROVE  CallsRight'
<1>1. OneVectorPerRound'
  BY DEF CallsRight, OneVectorPerRound
<1>2. SourceNeverRollsBack'
  BY DEF CallsRight, SourceNeverRollsBack
<1>3. UnknownIsHeld'
  <2> SUFFICES ASSUME NothingForgotten, NEW i \in 1..Len(calls), NEW j \in 1..Len(calls), Earlier(i, j)'
               PROVE  calls'[j].optIn \/ calls'[i].answer \in {"rejected", "lost"}
    BY DEF UnknownIsHeld
  <2>1. i < j /\ calls'[i].vector = calls'[j].vector
        /\ \A k \in (i + 1)..(j - 1) : calls'[k].vector # calls'[j].vector
    BY DEF Earlier
  <2>2. \A k \in (i + 1)..(j - 1) : k \in 1..Len(calls)
    OBVIOUS
  <2>3. Earlier(i, j) /\ i < Len(calls)
    BY <2>1, <2>2 DEF Earlier
  <2>4. calls[j].optIn \/ calls[i].answer \in {"rejected", "lost"}
    BY <2>3 DEF CallsRight, UnknownIsHeld
  <2>5. calls'[j].optIn = calls[j].optIn /\ calls'[i].answer = calls[i].answer
    BY <2>3
  <2>6. QED
    BY <2>4, <2>5, Zenon
<1>4. QED
  BY <1>1, <1>2, <1>3 DEF CallsRight

\* Only one process is anywhere but off.
LEMMA OneProcess ==
    ASSUME ThinBook, NEW h \in Hosts, place[h] # "off"
    PROVE  /\ lease = h /\ lease # NONE /\ mem[h] \in ThinState /\ disk # NONE
           /\ Known = mem[h] /\ mem[h].last <= round
           /\ \A g \in Hosts \ {h} : place[g] = "off"
           /\ Awaiting <=> place[h] = "await"
BY ThinNumbers DEF ThinBook, PlaceFits, DiskFits, Known, ThinTypeOK, Awaiting

\* A step of the tick that saves nothing.
LEMMA MoveKeeps ==
    ASSUME ThinBook, NEW h \in Hosts, place[h] \notin {"off", "await"},
           NEW next \in {"loop", "registration", "report", "commit", "recheck", "submit"},
           Moves(h, next), UNCHANGED <<worldVars, processVars, calls>>,
           draft' \in [Hosts -> Draft \cup {NONE}], PlaceFits(h)'
    PROVE  ThinBook'
<1> USE ThinNumbers
<1>1. /\ place' = [place EXCEPT ![h] = next]
      /\ UNCHANGED <<mem, disk, saveFaults, round, seats, authority, churn, lease, mode, kills, calls>>
  BY DEF Moves, worldVars, processVars
<1>2. /\ place' \in [Hosts -> {"off", "loop", "registration", "report", "commit",
                               "recheck", "submit", "await"}]
      /\ place'[h] = next /\ \A g \in Hosts \ {h} : place'[g] = place[g]
  BY <1>1 DEF ThinBook, ThinTypeOK
<1>3. ThinTypeOK'
  BY <1>1, <1>2 DEF ThinBook, ThinTypeOK
<1>4. \A g \in Hosts : PlaceFits(g)'
  <2>1. \A g \in Hosts \ {h} : place'[g] = "off"
    BY <1>2, OneProcess
  <2>2. \A g \in Hosts \ {h} : PlaceFits(g)'
    BY <2>1 DEF PlaceFits, Working, Sending
  <2>3. QED
    BY <2>2
<1>5. DiskFits'
  BY <1>1, <1>2, OneProcess DEF ThinBook, DiskFits
<1>6. CallsRight'
  <2>1. Len(calls) \in Nat
    BY DEF ThinBook, ThinTypeOK
  <2>2. NothingForgotten' => NothingForgotten
    BY <1>1 DEF NothingForgotten
  <2>3. QED
    BY <1>1, <2>1, <2>2, CallsKept DEF ThinBook
<1>7. NothingForgotten' = NothingForgotten /\ Known' = Known
  BY <1>1 DEF NothingForgotten, Known
<1>8. ~Awaiting
  BY OneProcess
<1>9. NothingForgotten' /\ disk' # NONE =>
          SentFits(Known, calls)' /\ (~Awaiting' => Held(Known, calls)')
  BY <1>1, <1>7, <1>8 DEF ThinBook, SentFits, Held, LastOf
<1>10. QED
  BY <1>3, <1>4, <1>5, <1>6, <1>9 DEF ThinBook

\* A step that ends with store.save: what is saved is known from now on,
\* whether the save reached the file or not.
LEMMA SaveKeeps ==
    ASSUME ThinBook, NEW h \in Hosts, place[h] # "off", NEW state \in ThinState,
           NEW next \in {"loop", "submit"}, Save(h, state, next),
           state.last <= round,
           next = "submit" => state.pending # NONE /\ state.pending.ambiguous = FALSE,
           UNCHANGED <<worldVars, processVars>>,
           draft' \in [Hosts -> Draft \cup {NONE}],
           calls' \in Seq(Call), CallsRight',
           NothingForgotten => SentFits(state, calls') /\ Held(state, calls')
    PROVE  ThinBook'
<1> USE ThinNumbers
<1>1. /\ UNCHANGED <<round, seats, authority, churn, lease, mode, kills>>
      /\ mem' = [mem EXCEPT ![h] = state]
      /\ \/ /\ disk' = state /\ place' = [place EXCEPT ![h] = next] /\ saveFaults' = saveFaults
         \/ /\ kills + saveFaults < MaxFailures /\ saveFaults' = saveFaults + 1
            /\ place' = [place EXCEPT ![h] = "loop"] /\ disk' = disk
  BY DEF Save, worldVars, processVars
<1>2. /\ lease = h /\ lease # NONE /\ disk # NONE
      /\ \A g \in Hosts \ {h} : place[g] = "off"
  BY OneProcess
<1>3. PICK n \in {"loop", "submit"} : /\ place' = [place EXCEPT ![h] = n]
                                      /\ n = "submit" => next = "submit"
  BY <1>1
<1>4. /\ place' \in [Hosts -> {"off", "loop", "registration", "report", "commit",
                               "recheck", "submit", "await"}]
      /\ place'[h] = n /\ \A g \in Hosts \ {h} : place'[g] = "off"
  BY <1>2, <1>3 DEF ThinBook, ThinTypeOK
<1>5. /\ mem' \in [Hosts -> ThinState \cup {NONE}] /\ mem'[h] = state
      /\ \A g \in Hosts \ {h} : mem'[g] = mem[g]
  BY <1>1 DEF ThinBook, ThinTypeOK
<1>6. ThinTypeOK'
  <2>1. disk' \in ThinState \cup {NONE}
    BY <1>1 DEF ThinBook, ThinTypeOK
  <2>2. saveFaults' \in 0..MaxFailures
    BY <1>1 DEF ThinBook, ThinTypeOK
  <2>3. \A g \in Hosts : mem'[g] # NONE => mem'[g].last <= round'
    BY <1>1, <1>5 DEF ThinBook, ThinTypeOK
  <2>4. QED
    BY <1>1, <1>4, <1>5, <2>1, <2>2, <2>3 DEF ThinBook, ThinTypeOK
<1>7. \A g \in Hosts : PlaceFits(g)'
  <2>1. \A g \in Hosts \ {h} : PlaceFits(g)'
    BY <1>4 DEF PlaceFits, Working, Sending
  <2>2. PlaceFits(h)'
    BY <1>1, <1>2, <1>3, <1>4, <1>5 DEF PlaceFits, Working, Sending
  <2>3. QED
    BY <2>1, <2>2
<1>8. DiskFits'
  <2>1. disk' # NONE /\ disk'.last <= round'
    BY <1>1, <1>2 DEF ThinBook, DiskFits
  <2>2. saveFaults' = 0 => disk' = state
    BY <1>1 DEF ThinBook, ThinTypeOK
  <2>3. QED
    BY <1>1, <1>2, <1>4, <1>5, <2>1, <2>2 DEF DiskFits
<1>9. NothingForgotten' => NothingForgotten
  BY <1>1 DEF NothingForgotten, ThinBook, ThinTypeOK
<1>10. Known' = state /\ ~Awaiting'
  BY <1>1, <1>2, <1>4, <1>5 DEF Known, Awaiting
<1>11. NothingForgotten' /\ disk' # NONE =>
          SentFits(Known, calls)' /\ (~Awaiting' => Held(Known, calls)')
  <2>1. NothingForgotten' => SentFits(state, calls') /\ Held(state, calls')
    BY <1>9
  <2>2. QED
    BY <1>10, <2>1 DEF SentFits, Held, LastOf, PendingFits, Behind, ReportBehind
<1>12. QED
  BY <1>6, <1>7, <1>8, <1>11 DEF ThinBook

----------------------------------------------------------------------------
(* The tick                                                                 *)

LEMMA TickKeeps ==
    ASSUME ThinBook, NEW h \in Hosts, tick(h)
    PROVE  ThinBook'
<1> USE ThinNumbers
<1> DEFINE v == [round |-> round, seats |-> seats, era |-> mem[h].config,
                 registration |-> NONE, report |-> NONE]
           d == [vector |-> v, owner |-> authority]
<1>1. /\ place[h] = "loop" /\ mem[h].pending = NONE /\ round > mem[h].last
      /\ draft' = [draft EXCEPT ![h] = d] /\ Moves(h, "registration")
      /\ UNCHANGED <<worldVars, processVars, calls>>
  BY DEF tick
<1>2. lease = h /\ mem[h] \in ThinState
  BY <1>1, OneProcess
<1>3. v \in Vector
  BY <1>2 DEF ThinBook, ThinTypeOK, Vector, ThinState
<1>4. d \in Draft /\ d.vector.era = mem[h].config /\ d.vector.round = round /\ d.vector.report = NONE
  BY <1>3 DEF Draft, ThinBook, ThinTypeOK
<1> HIDE DEF d
<1>5. draft' \in [Hosts -> Draft \cup {NONE}] /\ draft'[h] = d
  BY <1>1, <1>4 DEF ThinBook, ThinTypeOK
<1>6. /\ place'[h] = "registration"
      /\ UNCHANGED <<mem, lease, round, mode, calls>>
  BY <1>1 DEF Moves, worldVars, processVars, ThinBook, ThinTypeOK
<1>7. PlaceFits(h)'
  <2>1. round \in Nat /\ mem[h].last \in Nat
    BY <1>2 DEF ThinBook, ThinTypeOK, ThinState
  <2>2. QED
    BY <1>1, <1>2, <1>4, <1>5, <1>6, <2>1 DEF PlaceFits, Working, Sending
<1>8. QED
  BY <1>1, <1>5, <1>7, MoveKeeps

\* The tick fails, or goes on with what it has: a revoked class.
LEMMA DraftStays ==
    ASSUME ThinBook, NEW h \in Hosts, place[h] \in Working,
           UNCHANGED <<worldVars, processVars, calls>>,
           Raises(h) \/ (Moves(h, "commit") /\ UNCHANGED draft)
    PROVE  ThinBook'
<1> USE ThinNumbers
<1>1. lease = h /\ mem[h] \in ThinState /\ place[h] \notin {"off", "await"}
  BY OneProcess DEF Working
<1>2. CASE Raises(h)
  <2>1. Moves(h, "loop") /\ draft' = [draft EXCEPT ![h] = NONE]
    BY <1>2 DEF Raises, Moves
  <2>2. draft' \in [Hosts -> Draft \cup {NONE}]
    BY <2>1 DEF ThinBook, ThinTypeOK
  <2>3. PlaceFits(h)'
    BY <1>1, <2>1 DEF Moves, processVars, PlaceFits, Working, Sending, ThinBook, ThinTypeOK
  <2>4. QED
    BY <1>1, <2>1, <2>2, <2>3, MoveKeeps
<1>3. CASE Moves(h, "commit") /\ UNCHANGED draft
  <2>1. PlaceFits(h)'
    BY <1>1, <1>3 DEF Moves, worldVars, processVars, PlaceFits, Working, Sending, ThinBook, ThinTypeOK
  <2>2. draft' \in [Hosts -> Draft \cup {NONE}]
    BY <1>3 DEF ThinBook, ThinTypeOK
  <2>3. QED
    BY <1>1, <1>3, <2>1, <2>2, MoveKeeps
<1>4. QED
  BY <1>2, <1>3

LEMMA LoadRegistrationKeeps ==
    ASSUME ThinBook, NEW h \in Hosts, load_owner_registrations(h)
    PROVE  ThinBook'
<1> USE ThinNumbers
<1>1. place[h] = "registration" /\ UNCHANGED <<worldVars, processVars, calls>>
  BY DEF load_owner_registrations
<1>2. CASE Raises(h) \/ (Moves(h, "commit") /\ UNCHANGED draft)
  BY <1>1, <1>2, DraftStays DEF Working
<1>3. ASSUME NEW r \in Registrations, Moves(h, "report"),
             draft' = [draft EXCEPT ![h].vector.registration = r]
      PROVE  ThinBook'
  <2> DEFINE v == [draft[h].vector EXCEPT !.registration = r]
             d == [draft[h] EXCEPT !.vector = v]
  <2>1. draft[h] \in Draft
    BY <1>1 DEF ThinBook, PlaceFits, Working
  <2>2. /\ v \in Vector /\ v.round = draft[h].vector.round /\ v.era = draft[h].vector.era
        /\ v.report = draft[h].vector.report
    BY <2>1 DEF Draft, Vector
  <2>3. draft' = [draft EXCEPT ![h] = d]
    BY <1>3
  <2> HIDE DEF v
  <2>4. d \in Draft /\ d.vector = v
    BY <2>1, <2>2 DEF Draft
  <2> HIDE DEF d
  <2>5. draft' \in [Hosts -> Draft \cup {NONE}] /\ draft'[h] = d
    BY <2>3, <2>4 DEF ThinBook, ThinTypeOK
  <2>6. PlaceFits(h)'
    BY <1>1, <1>3, <2>2, <2>4, <2>5 DEF Moves, worldVars, processVars, PlaceFits, Working, Sending,
       ThinBook, ThinTypeOK
  <2>7. QED
    BY <1>1, <1>3, <2>5, <2>6, MoveKeeps
<1>4. QED
  BY <1>1, <1>2, <1>3 DEF load_owner_registrations, LoadableRegistrations

\* A report is loaded only if it extends the mark (enforce_checkpoint).
LEMMA LoadReportKeeps ==
    ASSUME ThinBook, NEW h \in Hosts, load_external(h)
    PROVE  ThinBook'
<1> USE ThinNumbers
<1>1. place[h] = "report" /\ UNCHANGED <<worldVars, processVars, calls>>
  BY DEF load_external
<1>2. CASE Raises(h) \/ (Moves(h, "commit") /\ UNCHANGED draft)
  BY <1>1, <1>2, DraftStays DEF Working
<1>3. ASSUME NEW r \in Reports, Extends(r, mem[h].report), Moves(h, "commit"),
             draft' = [draft EXCEPT ![h].vector.report = r]
      PROVE  ThinBook'
  <2> DEFINE v == [draft[h].vector EXCEPT !.report = r]
             d == [draft[h] EXCEPT !.vector = v]
  <2>1. draft[h] \in Draft
    BY <1>1 DEF ThinBook, PlaceFits, Working
  <2>2. /\ v \in Vector /\ v.round = draft[h].vector.round /\ v.era = draft[h].vector.era
        /\ v.report = r
    BY <2>1 DEF Draft, Vector
  <2>3. draft' = [draft EXCEPT ![h] = d]
    BY <1>3
  <2> HIDE DEF v
  <2>4. d \in Draft /\ d.vector = v
    BY <2>1, <2>2 DEF Draft
  <2> HIDE DEF d
  <2>5. draft' \in [Hosts -> Draft \cup {NONE}] /\ draft'[h] = d
    BY <2>3, <2>4 DEF ThinBook, ThinTypeOK
  <2>6. PlaceFits(h)'
    <3>1. UNCHANGED <<mem, lease, round, mode, calls>> /\ place'[h] = "commit"
      BY <1>3, <1>1 DEF Moves, worldVars, processVars, ThinBook, ThinTypeOK
    <3>2. /\ lease = h /\ mem[h] \in ThinState /\ mem[h].pending = NONE
          /\ draft[h].vector.era = mem[h].config
          /\ draft[h].vector.round > mem[h].last /\ draft[h].vector.round <= round
      BY <1>1 DEF ThinBook, PlaceFits, Working
    <3>3. draft'[h].vector.report = r /\ draft'[h] \in Draft
          /\ draft'[h].vector.era = draft[h].vector.era
          /\ draft'[h].vector.round = draft[h].vector.round
      BY <2>2, <2>4, <2>5
    <3>4. Extends(draft'[h].vector.report, mem'[h].report)
      BY <1>3, <3>1, <3>3
    <3>5. QED
      BY <3>1, <3>2, <3>3, <3>4 DEF PlaceFits, Working, Sending
  <2>7. QED
    BY <1>1, <1>3, <2>5, <2>6, MoveKeeps
<1>4. QED
  BY <1>1, <1>2, <1>3 DEF load_external, LoadableReports

----------------------------------------------------------------------------
(* What is saved                                                            *)

\* The states a save may leave: fields of the old one, a completed round, a
\* pending vector that is cancelled or marked.
LEMMA StateParts ==
    ASSUME NEW s \in ThinState
    PROVE  /\ s.config \in 0..MaxAccepts /\ s.last \in 0..MaxRound
           /\ s.report \in Reports \cup {NONE}
           /\ s.pending \in Pending \cup {NONE}
           /\ s.pending # NONE => s.pending.vector \in Vector /\ s.pending.ambiguous \in BOOLEAN
BY DEF ThinState, Pending

LEMMA CancelledState ==
    ASSUME NEW s \in ThinState
    PROVE  \E t \in ThinState :
              /\ [s EXCEPT !.pending = NONE] = t
              /\ t.config = s.config /\ t.last = s.last /\ t.report = s.report
              /\ t.pending = NONE
<1> DEFINE t == [s EXCEPT !.pending = NONE]
<1>1. /\ t \in ThinState /\ t.config = s.config /\ t.last = s.last /\ t.report = s.report
      /\ t.pending = NONE
  BY DEF ThinState
<1> HIDE DEF t
<1>2. QED
  BY <1>1 DEF t

LEMMA MarkedState ==
    ASSUME NEW s \in ThinState, s.pending # NONE, NEW u \in BOOLEAN
    PROVE  \E t \in ThinState :
              /\ [s EXCEPT !.pending.ambiguous = u] = t
              /\ t.config = s.config /\ t.last = s.last /\ t.report = s.report
              /\ t.pending # NONE
              /\ t.pending.vector = s.pending.vector /\ t.pending.ambiguous = u
<1> DEFINE p == [s.pending EXCEPT !.ambiguous = u]
           t == [s EXCEPT !.pending = p]
<1>1. s.pending \in Pending
  BY DEF ThinState
<1>2. p \in Pending /\ p.vector = s.pending.vector /\ p.ambiguous = u
  BY <1>1 DEF Pending
<1>3. [s EXCEPT !.pending.ambiguous = u] = t
  BY DEF ThinState
<1> HIDE DEF p
<1>4. /\ t \in ThinState /\ t.config = s.config /\ t.last = s.last /\ t.report = s.report
      /\ t.pending = p
  BY <1>2 DEF ThinState
<1> HIDE DEF t
<1>5. QED
  BY <1>2, <1>3, <1>4, ThinNumbers

\* A state that only drops what was pending is behind nothing that was sent.
LEMMA CancelFits ==
    ASSUME NEW s \in ThinState, NEW t \in ThinState, NEW log,
           t.config = s.config, t.last = s.last, t.report = s.report, t.pending = NONE,
           SentFits(s, log)
    PROVE  SentFits(t, log) /\ Held(t, log)
BY DEF SentFits, PendingFits, Behind, Held

LEMMA MarkFits ==
    ASSUME NEW s \in ThinState, NEW t \in ThinState, NEW log,
           t.config = s.config, t.last = s.last, t.report = s.report,
           s.pending # NONE, t.pending # NONE, t.pending.vector = s.pending.vector,
           SentFits(s, log)
    PROVE  SentFits(t, log)
BY DEF SentFits, PendingFits, Behind

\* A save outside a call: the calls are as they were.
LEMMA QuietSaveKeeps ==
    ASSUME ThinBook, NEW h \in Hosts, place[h] \notin {"off", "await"}, NEW state \in ThinState,
           NEW next \in {"loop", "submit"}, Save(h, state, next),
           state.last <= round,
           next = "submit" => state.pending # NONE /\ state.pending.ambiguous = FALSE,
           UNCHANGED <<worldVars, processVars, calls>>,
           draft' \in [Hosts -> Draft \cup {NONE}],
           SentFits(mem[h], calls) /\ Held(mem[h], calls) =>
               SentFits(state, calls) /\ Held(state, calls)
    PROVE  ThinBook'
<1>1. calls' = calls /\ calls \in Seq(Call) /\ Len(calls) \in Nat
  BY DEF ThinBook, ThinTypeOK
<1>2. NothingForgotten' => NothingForgotten
  BY ThinNumbers DEF Save, processVars, NothingForgotten, ThinBook, ThinTypeOK
<1>3. CallsRight'
  BY <1>1, <1>2, CallsKept DEF ThinBook
<1>4. NothingForgotten => SentFits(mem[h], calls) /\ Held(mem[h], calls)
  BY OneProcess DEF ThinBook
<1>5. NothingForgotten => SentFits(state, calls') /\ Held(state, calls')
  BY <1>1, <1>4
<1>6. QED
  BY <1>1, <1>3, <1>5, SaveKeeps

\* The round is completed: every vector of this configuration that was sent is
\* of an earlier round, and its report is behind the one this round works with.
LEMMA CommitKeeps ==
    ASSUME ThinBook, NEW h \in Hosts, mark_pending_vector(h)
    PROVE  ThinBook'
<1> USE ThinNumbers
<1>1. place[h] = "commit" /\ UNCHANGED <<worldVars, processVars, calls>>
  BY DEF mark_pending_vector
<1>2. CASE Raises(h)
  BY <1>1, <1>2, DraftStays DEF Working
<1>3. ASSUME NEW pending \in Composed(h), draft' = [draft EXCEPT ![h] = NONE],
             Save(h, Completed(h, pending), IF pending = NONE THEN "loop" ELSE "submit")
      PROVE  ThinBook'
  <2>1. PICK s, v : s = mem[h] /\ v = draft[h].vector
    OBVIOUS
  <2>2. /\ s \in ThinState /\ draft[h] \in Draft /\ v \in Vector /\ s.pending = NONE
        /\ v.era = s.config /\ v.round > s.last /\ v.round <= round
        /\ v.report # NONE => Extends(v.report, s.report)
    BY <1>1, <2>1, OneProcess DEF ThinBook, PlaceFits, Working, Draft
  <2> DEFINE state == [s EXCEPT !.last = v.round,
                           !.report = IF v.report = NONE THEN @ ELSE v.report,
                           !.registration = IF v.report = NONE THEN @ ELSE v.registration,
                           !.pending = pending]
  <2>3. state = Completed(h, pending)
    BY <2>1 DEF Completed
  <2>4. /\ pending \in Pending \cup {NONE}
        /\ pending # NONE => pending.vector = v /\ pending.ambiguous = FALSE
    <3>1. pending = NONE \/ pending = [vector |-> v, ambiguous |-> FALSE]
      BY <2>1 DEF Composed
    <3>2. [vector |-> v, ambiguous |-> FALSE] \in Pending
      BY <2>2 DEF Pending
    <3>3. /\ [vector |-> v, ambiguous |-> FALSE].vector = v
          /\ [vector |-> v, ambiguous |-> FALSE].ambiguous = FALSE
      OBVIOUS
    <3>4. CASE pending = NONE
      BY <3>4
    <3>5. CASE pending = [vector |-> v, ambiguous |-> FALSE]
      BY <3>2, <3>3, <3>5, Zenon
    <3>6. QED
      BY <3>1, <3>4, <3>5
  <2>5. /\ v.round \in 0..MaxRound /\ v.report \in Reports \cup {NONE}
        /\ v.registration \in Registrations \cup {NONE}
        /\ s.report \in Reports \cup {NONE} /\ s.registration \in Registrations \cup {NONE}
    BY <2>2 DEF Vector, ThinState
  <2>6. /\ state \in ThinState /\ state.config = s.config /\ state.last = v.round
        /\ state.report = (IF v.report = NONE THEN s.report ELSE v.report)
        /\ state.pending = pending
    BY <2>2, <2>4, <2>5 DEF ThinState
  <2> HIDE DEF state
  <2>7. ASSUME SentFits(s, calls) PROVE SentFits(state, calls) /\ Held(state, calls)
    <3>1. /\ s.last \in Nat /\ v.round \in Nat /\ s.config \in Nat
          /\ \A i \in 1..Len(calls) : calls[i].vector \in Vector
      <4>1. s.last \in Nat /\ v.round \in Nat /\ s.config \in Nat
        BY <2>2 DEF ThinState, Vector
      <4>2. \A i \in 1..Len(calls) : calls[i] \in Call
        BY DEF ThinBook, ThinTypeOK
      <4>3. \A c \in Call : c.vector \in Vector
        BY DEF Call
      <4>4. QED
        BY <4>1, <4>2, <4>3
    <3>2. ASSUME NEW i \in 1..Len(calls)
          PROVE  /\ calls[i].vector.era = s.config => calls[i].vector.round < v.round
                 /\ calls[i].vector.era <= s.config
                 /\ ReportBehind(calls[i].vector.report, s.report)
      BY <2>2, <2>7, <3>1 DEF SentFits, Behind, Vector
    <3>3. ASSUME NEW i \in 1..Len(calls)
          PROVE  ReportBehind(calls[i].vector.report, state.report)
      <4> DEFINE r == calls[i].vector.report
      <4>1. CASE r = NONE \/ v.report = NONE
        BY <2>6, <3>2, <4>1 DEF ReportBehind
      <4>2. CASE r # NONE /\ v.report # NONE
        <5>1. /\ state.report = v.report /\ r \in Reports /\ v.report \in Reports
              /\ s.report \in Reports
              /\ r.epoch \in Nat /\ v.report.epoch \in Nat /\ s.report.epoch \in Nat
          BY <2>5, <2>6, <3>1, <3>2, <4>2 DEF Vector, ReportBehind
        <5>2. r.epoch <= s.report.epoch /\ (r.epoch = s.report.epoch => r = s.report)
          BY <3>2, <4>2 DEF ReportBehind
        <5>3. v.report = s.report \/ v.report.epoch > s.report.epoch
          BY <2>2, <4>2, <5>1, SMTT(30) DEF Extends
        <5>4. QED
          BY <5>1, <5>2, <5>3 DEF ReportBehind
      <4>3. QED
        BY <4>1, <4>2
    <3>4. \A i \in 1..Len(calls) : Behind(calls[i].vector, state)
      <4> SUFFICES ASSUME NEW i \in 1..Len(calls) PROVE Behind(calls[i].vector, state)
        OBVIOUS
      <4>1. calls[i].vector.round \in Nat
        BY <3>1 DEF Vector
      <4>2. QED
        BY <2>6, <3>1, <3>2, <3>3, <4>1 DEF Behind
    <3>5. PendingFits(state)
      BY <2>2, <2>4, <2>6 DEF PendingFits
    <3>6. Held(state, calls)
      <4> SUFFICES ASSUME pending # NONE, NEW i \in 1..Len(calls), calls[i].vector = v PROVE FALSE
        BY <2>4, <2>6 DEF Held, LastOf
      <4>1. QED
        BY <2>2, <3>1, <3>2
    <3>7. QED
      BY <3>4, <3>5, <3>6 DEF SentFits
  <2>8. draft' \in [Hosts -> Draft \cup {NONE}]
    BY <1>3 DEF ThinBook, ThinTypeOK
  <2>9. PICK next \in {"loop", "submit"} : /\ Save(h, state, next)
                                           /\ next = "submit" => pending # NONE
    BY <1>3, <2>3
  <2>10. /\ place[h] \notin {"off", "await"} /\ state.last <= round
         /\ next = "submit" => state.pending # NONE /\ state.pending.ambiguous = FALSE
         /\ SentFits(mem[h], calls) => SentFits(state, calls) /\ Held(state, calls)
    BY <1>1, <2>1, <2>2, <2>4, <2>6, <2>7, <2>9
  <2>11. QED
    BY <1>1, <2>6, <2>8, <2>9, <2>10, QuietSaveKeeps
<1>4. QED
  BY <1>2, <1>3 DEF mark_pending_vector

----------------------------------------------------------------------------
(* Retries                                                                  *)

\* A check before a retry that saves: nothing was sent, or what is pending is
\* dropped.
LEMMA CheckSaveKeeps ==
    ASSUME ThinBook, NEW h \in Hosts, place[h] \in {"loop", "recheck"},
           UNCHANGED <<worldVars, processVars, calls, draft>>,
           Save(h, NotSent(h), "loop") \/ Save(h, Cancelled(h), "loop")
    PROVE  ThinBook'
<1>1. PICK s \in ThinState : s = mem[h]
  BY OneProcess
<1>2. s.last <= round /\ place[h] \notin {"off", "await"}
  BY <1>1, OneProcess
<1>3. draft' \in [Hosts -> Draft \cup {NONE}]
  BY DEF ThinBook, ThinTypeOK
<1>4. CASE Save(h, NotSent(h), "loop")
  BY <1>1, <1>2, <1>3, <1>4, QuietSaveKeeps DEF NotSent
<1>5. CASE Save(h, Cancelled(h), "loop")
  <2>1. PICK t \in ThinState : /\ Cancelled(h) = t
                               /\ t.config = s.config /\ t.last = s.last /\ t.report = s.report
                               /\ t.pending = NONE
    BY <1>1, CancelledState DEF Cancelled
  <2>2. SentFits(s, calls) => SentFits(t, calls) /\ Held(t, calls)
    BY <2>1, CancelFits
  <2>3. QED
    BY <1>1, <1>2, <1>3, <1>5, <2>1, <2>2, QuietSaveKeeps
<1>6. QED
  BY <1>4, <1>5

LEMMA RetryKeeps ==
    ASSUME ThinBook, NEW h \in Hosts, submit_pending(h) \/ recheck_authority(h)
    PROVE  ThinBook'
<1> USE ThinNumbers
<1>1. /\ place[h] \in {"loop", "recheck"} /\ mem[h].pending # NONE
      /\ mem[h].pending.ambiguous => mode[h] = "retry_ambiguous"
      /\ UNCHANGED <<worldVars, processVars, calls, draft>>
  BY DEF submit_pending, recheck_authority, ThinBook, PlaceFits, Sending
<1>2. \/ Save(h, NotSent(h), "loop") \/ Save(h, Cancelled(h), "loop")
      \/ \E next \in {"loop", "recheck", "submit"} : Moves(h, next)
  BY DEF submit_pending, recheck_authority
<1>3. ASSUME NEW next \in {"loop", "recheck", "submit"}, Moves(h, next) PROVE ThinBook'
  <2>1. draft' \in [Hosts -> Draft \cup {NONE}]
    BY <1>1 DEF ThinBook, ThinTypeOK
  <2>2. PlaceFits(h)'
    BY <1>1, <1>3, OneProcess DEF Moves, worldVars, processVars, PlaceFits, Working, Sending,
       ThinBook, ThinTypeOK
  <2>3. QED
    BY <1>1, <1>3, <2>1, <2>2, MoveKeeps
<1>4. QED
  BY <1>1, <1>2, <1>3, CheckSaveKeeps

----------------------------------------------------------------------------
(* Calls and their answers                                                  *)

\* The call that is added is the pending vector: of its round there is no other
\* vector, its report is the mark, and the call before it is not unknown unless
\* the operator opted in.
LEMMA SendKeeps ==
    ASSUME ThinBook, NEW h \in Hosts, submit_weights(h)
    PROVE  ThinBook'
<1> USE ThinNumbers
<1>1. PICK s \in ThinState : s = mem[h]
  BY OneProcess DEF submit_weights
<1>2. PICK p, n, c :
          /\ p = s.pending.vector /\ n = Len(calls)
          /\ c = [vector |-> p, optIn |-> mode[h] = "retry_ambiguous", answer |-> "none"]
          /\ calls' = Append(calls, c)
  BY <1>1 DEF submit_weights, Vec
<1>3. /\ place[h] = "submit" /\ place' = [place EXCEPT ![h] = "await"]
      /\ UNCHANGED <<round, seats, authority, churn, lease, mode, kills, mem, disk, saveFaults, draft>>
  BY DEF submit_weights, Moves, worldVars, processVars
<1>4. /\ lease = h /\ lease # NONE /\ disk # NONE /\ Known = s /\ ~Awaiting
      /\ \A g \in Hosts \ {h} : place[g] = "off"
      /\ s.last <= round
  BY <1>1, <1>3, OneProcess
<1>5. /\ s.pending # NONE /\ p \in Vector /\ s.pending.ambiguous \in BOOLEAN
      /\ s.pending.ambiguous => mode[h] = "retry_ambiguous"
  BY <1>1, <1>2, <1>3, StateParts DEF ThinBook, PlaceFits, Sending
<1>6. /\ c.vector = p /\ c.optIn = (mode[h] = "retry_ambiguous") /\ c.answer = "none"
      /\ c \in Call
  BY <1>2, <1>5 DEF Call
<1>7. /\ n \in Nat /\ calls' \in Seq(Call) /\ Len(calls') = n + 1 /\ calls'[n + 1] = c
      /\ \A i \in 1..n : calls'[i] = calls[i] /\ calls[i] \in Call
  BY <1>2, <1>6 DEF ThinBook, ThinTypeOK
<1>8. /\ place' \in [Hosts -> {"off", "loop", "registration", "report", "commit",
                               "recheck", "submit", "await"}]
      /\ place'[h] = "await" /\ \A g \in Hosts \ {h} : place'[g] = "off"
  BY <1>3, <1>4 DEF ThinBook, ThinTypeOK
<1>9. ThinTypeOK'
  BY <1>3, <1>7, <1>8 DEF ThinBook, ThinTypeOK
<1>10. \A g \in Hosts : PlaceFits(g)'
  <2>1. \A g \in Hosts \ {h} : PlaceFits(g)'
    BY <1>8 DEF PlaceFits, Working, Sending
  <2>2. Len(calls') > 0 /\ calls'[Len(calls')].vector = s.pending.vector
    BY <1>2, <1>6, <1>7
  <2>3. PlaceFits(h)'
    BY <1>1, <1>3, <1>4, <1>5, <1>8, <2>2 DEF PlaceFits, Working, Sending
  <2>4. QED
    BY <2>1, <2>3
<1>11. DiskFits'
  BY <1>3, <1>4, <1>8 DEF ThinBook, DiskFits
<1>12. NothingForgotten => SentFits(s, calls) /\ Held(s, calls)
  BY <1>4 DEF ThinBook
<1>13. (NothingForgotten' <=> NothingForgotten) /\ Known' = s /\ Awaiting'
  <2>1. NothingForgotten' <=> NothingForgotten
    BY <1>3 DEF NothingForgotten
  <2>2. Known' = s
    BY <1>1, <1>3, <1>4 DEF Known
  <2>3. Awaiting'
    BY <1>3, <1>4, <1>8 DEF Awaiting
  <2>4. QED
    BY <2>1, <2>2, <2>3
<1>14. ASSUME NothingForgotten
       PROVE  /\ p.era = s.config /\ p.round = s.last
              /\ p.report # NONE => p.report = s.report
              /\ \A i \in 1..n : Behind(calls[i].vector, s)
              /\ \A i \in 1..n : LastOf(calls, i, p) =>
                    calls[i].answer \in {"rejected", "lost"} \/ s.pending.ambiguous
  BY <1>2, <1>5, <1>12, <1>14 DEF SentFits, PendingFits, Held
<1>15. NothingForgotten => SentFits(s, calls')
  <2> SUFFICES ASSUME NothingForgotten PROVE SentFits(s, calls')
    OBVIOUS
  <2>1. s.config \in Nat /\ s.last \in Nat /\ p.report \in Reports \cup {NONE}
    BY <1>5 DEF ThinState, Vector
  <2>2. Behind(p, s)
    <3>1. ReportBehind(p.report, s.report)
      BY <1>14, <2>1 DEF ReportBehind
    <3>2. QED
      BY <1>2, <1>14, <2>1, <3>1 DEF Behind
  <2>3. \A i \in 1..Len(calls') : i = n + 1 \/ i \in 1..n
    BY <1>7
  <2>4. \A i \in 1..Len(calls') : Behind(calls'[i].vector, s)
    BY <1>6, <1>7, <1>14, <2>2, <2>3
  <2>5. PendingFits(s)
    BY <1>12 DEF SentFits
  <2>6. QED
    BY <2>4, <2>5 DEF SentFits
<1>16. OneVectorPerRound'
  <2> SUFFICES ASSUME NothingForgotten, NEW i \in 1..Len(calls'), NEW j \in 1..Len(calls'),
                      calls'[i].vector.round = calls'[j].vector.round,
                      calls'[i].vector.era = calls'[j].vector.era
               PROVE  calls'[i].vector = calls'[j].vector
    BY <1>13 DEF OneVectorPerRound
  <2>1. ASSUME NEW k \in 1..n, calls[k].vector.round = p.round, calls[k].vector.era = p.era
        PROVE  calls[k].vector = p
    BY <1>2, <1>5, <1>14, <2>1 DEF Behind
  <2>2. CASE i \in 1..n /\ j \in 1..n
    BY <1>2, <1>7, <2>2 DEF ThinBook, CallsRight, OneVectorPerRound
  <2>3. CASE i = n + 1 \/ j = n + 1
    <3>1. \A k \in 1..Len(calls') : k = n + 1 \/ k \in 1..n
      BY <1>7
    <3>2. QED
      BY <1>6, <1>7, <2>1, <2>3, <3>1
  <2>4. QED
    BY <1>7, <2>2, <2>3
<1>17. SourceNeverRollsBack'
  <2> SUFFICES ASSUME NothingForgotten, NEW i \in 1..Len(calls'), NEW j \in 1..Len(calls'), i < j,
                      calls'[i].vector.report # NONE, calls'[j].vector.report # NONE
               PROVE  LET a == calls'[i].vector.report
                          b == calls'[j].vector.report
                      IN  a.epoch <= b.epoch /\ (a.epoch = b.epoch => a = b)
    BY <1>13 DEF SourceNeverRollsBack
  <2>1. CASE j \in 1..n
    <3>1. i \in 1..n
      BY <1>7, <2>1
    <3>2. QED
      BY <1>2, <1>7, <2>1, <3>1 DEF ThinBook, CallsRight, SourceNeverRollsBack
  <2>2. CASE j = n + 1
    <3>1. i \in 1..n
      BY <1>7, <2>2
    <3>2. calls'[j].vector.report = s.report
      BY <1>6, <1>7, <1>14, <2>2
    <3>3. QED
      BY <1>7, <1>14, <3>1, <3>2 DEF Behind, ReportBehind
  <2>3. QED
    BY <1>7, <2>1, <2>2
<1>18. UnknownIsHeld'
  <2> SUFFICES ASSUME NothingForgotten, NEW i \in 1..Len(calls'), NEW j \in 1..Len(calls'), Earlier(i, j)'
               PROVE  calls'[j].optIn \/ calls'[i].answer \in {"rejected", "lost"}
    BY <1>13 DEF UnknownIsHeld
  <2>1. /\ i < j /\ calls'[i].vector = calls'[j].vector
        /\ \A k \in (i + 1)..(j - 1) : calls'[k].vector # calls'[j].vector
    BY DEF Earlier
  <2>2. i \in 1..n /\ \A k \in (i + 1)..(j - 1) : k \in 1..n
    BY <1>7, <2>1
  <2>3. CASE j \in 1..n
    <3>1. Earlier(i, j)
      BY <1>7, <2>1, <2>2, <2>3 DEF Earlier
    <3>2. calls[j].optIn \/ calls[i].answer \in {"rejected", "lost"}
      BY <1>2, <2>2, <2>3, <3>1 DEF ThinBook, CallsRight, UnknownIsHeld
    <3>3. calls'[i] = calls[i] /\ calls'[j] = calls[j]
      BY <1>7, <2>2, <2>3
    <3>4. QED
      BY <3>2, <3>3, Zenon
  <2>4. CASE j = n + 1
    <3>1. LastOf(calls, i, p)
      <4>1. \A k \in (i + 1)..n : k \in (i + 1)..(j - 1) /\ k \in 1..n
        BY <1>7, <2>2, <2>4
      <4>2. calls[i].vector = p
        BY <1>6, <1>7, <2>1, <2>2, <2>4
      <4>3. \A k \in (i + 1)..n : calls[k].vector # p
        BY <1>6, <1>7, <2>1, <2>4, <4>1
      <4>4. QED
        BY <1>2, <4>2, <4>3 DEF LastOf
    <3>2. calls[i].answer \in {"rejected", "lost"} \/ mode[h] = "retry_ambiguous"
      BY <1>5, <1>14, <2>2, <3>1
    <3>3. calls'[i] = calls[i] /\ calls'[j] = c
      BY <1>7, <2>2, <2>4
    <3>4. CASE mode[h] = "retry_ambiguous"
      BY <1>6, <3>3, <3>4
    <3>5. CASE calls[i].answer \in {"rejected", "lost"}
      BY <3>3, <3>5
    <3>6. QED
      BY <3>2, <3>4, <3>5
  <2>5. QED
    BY <1>7, <2>3, <2>4
<1>19. NothingForgotten' /\ disk' # NONE =>
          SentFits(Known, calls)' /\ (~Awaiting' => Held(Known, calls)')
  <2>1. NothingForgotten' => SentFits(Known, calls)'
    BY <1>13, <1>15 DEF SentFits, PendingFits, Behind, ReportBehind
  <2>2. QED
    BY <1>13, <2>1
<1>20. QED
  BY <1>9, <1>10, <1>11, <1>16, <1>17, <1>18, <1>19 DEF ThinBook, CallsRight

\* The last call is answered: vectors and opt-ins are as they were.
LEMMA AnswerFacts ==
    ASSUME calls \in Seq(Call), Len(calls) > 0, NEW a \in {"ok", "rejected", "unknown", "lost"},
           calls' = [calls EXCEPT ![Len(calls)].answer = a]
    PROVE  /\ calls' \in Seq(Call) /\ Len(calls') = Len(calls) /\ Len(calls) \in Nat
           /\ calls'[Len(calls)].answer = a
           /\ \A i \in 1..Len(calls) : /\ calls'[i].vector = calls[i].vector
                                       /\ calls'[i].optIn = calls[i].optIn
                                       /\ i < Len(calls) => calls'[i].answer = calls[i].answer
<1> DEFINE n == Len(calls)
           e == [calls[n] EXCEPT !.answer = a]
<1>1. n \in Nat /\ n \in 1..n /\ calls[n] \in Call
  OBVIOUS
<1>2. e \in Call /\ e.answer = a /\ e.vector = calls[n].vector /\ e.optIn = calls[n].optIn
  BY <1>1 DEF Call
<1>3. calls' = [calls EXCEPT ![n] = e]
  OBVIOUS
<1> HIDE DEF e
<1>4. calls' \in Seq(Call) /\ Len(calls') = n /\ calls'[n] = e
      /\ \A i \in 1..n : i # n => calls'[i] = calls[i]
  BY <1>1, <1>2, <1>3
<1>5. \A i \in 1..n : i < n => i # n
  OBVIOUS
<1>6. QED
  BY <1>1, <1>2, <1>4, <1>5

\* The same vectors behind the same state.
LEMMA SameVectorsFit ==
    ASSUME NEW s, NEW log, NEW new, Len(new) = Len(log),
           \A i \in 1..Len(log) : new[i].vector = log[i].vector,
           SentFits(s, log)
    PROVE  SentFits(s, new)
BY DEF SentFits

\* The call in flight is the last of its vector.
LEMMA LastIsLatest ==
    ASSUME NEW log, NEW v, Len(log) \in Nat, Len(log) > 0, log[Len(log)].vector = v,
           NEW i \in 1..Len(log), LastOf(log, i, v)
    PROVE  i = Len(log)
<1> SUFFICES ASSUME i # Len(log) PROVE FALSE
  OBVIOUS
<1>1. Len(log) \in (i + 1)..Len(log)
  OBVIOUS
<1>2. QED
  BY <1>1 DEF LastOf

LEMMA AnswerKeeps ==
    ASSUME ThinBook, NEW h \in Hosts, note_submission(h)
    PROVE  ThinBook'
<1> USE ThinNumbers
<1>1. PICK s \in ThinState : s = mem[h]
  BY OneProcess DEF note_submission
<1>2. /\ place[h] = "await" /\ UNCHANGED <<worldVars, processVars, draft>>
      /\ s.pending # NONE /\ s.last <= round
      /\ Len(calls) > 0 /\ calls[Len(calls)].vector = s.pending.vector
  BY <1>1, OneProcess DEF note_submission, ThinBook, PlaceFits, Sending
<1>3. calls \in Seq(Call) /\ draft' \in [Hosts -> Draft \cup {NONE}]
  BY <1>2 DEF ThinBook, ThinTypeOK
<1>4. NothingForgotten => SentFits(s, calls)
  BY <1>1, <1>2, OneProcess DEF ThinBook
<1>5. ASSUME NEW a \in {"ok", "rejected", "unknown"}, NEW t \in ThinState,
             calls' = [calls EXCEPT ![Len(calls)].answer = a], Save(h, t, "loop"),
             t.last = s.last,
             NothingForgotten => SentFits(t, calls),
             t.pending = NONE \/ (/\ t.pending # NONE /\ t.pending.vector = s.pending.vector
                                  /\ a = "rejected" \/ t.pending.ambiguous)
      PROVE  ThinBook'
  <2>1. /\ calls' \in Seq(Call) /\ Len(calls') = Len(calls) /\ Len(calls) \in Nat
        /\ calls'[Len(calls)].answer = a
        /\ \A i \in 1..Len(calls) : /\ calls'[i].vector = calls[i].vector
                                    /\ calls'[i].optIn = calls[i].optIn
                                    /\ i < Len(calls) => calls'[i].answer = calls[i].answer
    BY <1>2, <1>3, <1>5, AnswerFacts
  <2>2. NothingForgotten' => NothingForgotten
    BY <1>2, <1>5 DEF Save, processVars, NothingForgotten, ThinBook, ThinTypeOK
  <2>3. CallsRight'
    BY <2>1, <2>2, CallsKept DEF ThinBook
  <2>4. NothingForgotten => SentFits(t, calls')
    BY <1>5, <2>1, SameVectorsFit
  <2>5. Held(t, calls')
    <3>1. CASE t.pending = NONE
      BY <3>1 DEF Held
    <3>2. CASE /\ t.pending # NONE /\ t.pending.vector = s.pending.vector
               /\ a = "rejected" \/ t.pending.ambiguous
      <4> SUFFICES ASSUME NEW i \in 1..Len(calls'), LastOf(calls', i, t.pending.vector)
                   PROVE  calls'[i].answer \in {"rejected", "lost"} \/ t.pending.ambiguous
        BY DEF Held
      <4>1. Len(calls') \in 1..Len(calls) /\ calls'[Len(calls')].vector = t.pending.vector
        BY <1>2, <2>1, <3>2
      <4>2. i = Len(calls')
        BY <1>2, <2>1, <4>1, LastIsLatest
      <4>3. calls'[i].answer = a
        BY <2>1, <4>2
      <4>4. QED
        BY <3>2, <4>3
    <3>3. QED
      BY <1>5, <3>1, <3>2
  <2>6. QED
    BY <1>2, <1>3, <1>5, <2>1, <2>3, <2>4, <2>5, SaveKeeps
<1>6. \/ \E t \in ThinState : /\ Cancelled(h) = t /\ t.config = s.config /\ t.last = s.last
                              /\ t.report = s.report /\ t.pending = NONE
                              /\ Answered(h, "ok", t)
      \/ \E u \in BOOLEAN : /\ Answered(h, IF u THEN "unknown" ELSE "rejected",
                                        [s EXCEPT !.pending.ambiguous = u])
  <2>1. PICK t \in ThinState : /\ Cancelled(h) = t /\ t.config = s.config /\ t.last = s.last
                               /\ t.report = s.report /\ t.pending = NONE
    BY <1>1, CancelledState DEF Cancelled
  <2>2. \/ Answered(h, "ok", Cancelled(h))
        \/ Answered(h, "rejected", [mem[h] EXCEPT !.pending.ambiguous = FALSE])
        \/ Answered(h, "unknown", [mem[h] EXCEPT !.pending.ambiguous = TRUE])
    BY DEF note_submission
  <2>3. CASE Answered(h, "ok", Cancelled(h))
    BY <2>1, <2>3
  <2>4. CASE Answered(h, "rejected", [mem[h] EXCEPT !.pending.ambiguous = FALSE])
    BY <1>1, <2>4
  <2>5. CASE Answered(h, "unknown", [mem[h] EXCEPT !.pending.ambiguous = TRUE])
    BY <1>1, <2>5
  <2>6. QED
    BY <2>2, <2>3, <2>4, <2>5
<1>7. ASSUME NEW t \in ThinState, t.config = s.config, t.last = s.last, t.report = s.report,
             t.pending = NONE, Answered(h, "ok", t)
      PROVE  ThinBook'
  <2>1. SentFits(s, calls) => SentFits(t, calls)
    BY <1>7, CancelFits
  <2>2. calls' = [calls EXCEPT ![Len(calls)].answer = "ok"] /\ Save(h, t, "loop")
    BY <1>7 DEF Answered
  <2>3. QED
    BY <1>4, <1>5, <1>7, <2>1, <2>2
<1>8. ASSUME NEW u \in BOOLEAN, NEW a \in {"rejected", "unknown"}, u \/ a = "rejected",
             Answered(h, a, [s EXCEPT !.pending.ambiguous = u])
      PROVE  ThinBook'
  <2>1. PICK t \in ThinState :
            /\ [s EXCEPT !.pending.ambiguous = u] = t
            /\ t.config = s.config /\ t.last = s.last /\ t.report = s.report
            /\ t.pending # NONE
            /\ t.pending.vector = s.pending.vector /\ t.pending.ambiguous = u
    BY <1>2, MarkedState
  <2>2. SentFits(s, calls) => SentFits(t, calls)
    BY <1>2, <2>1, MarkFits
  <2>3. calls' = [calls EXCEPT ![Len(calls)].answer = a] /\ Save(h, t, "loop")
    BY <1>8, <2>1 DEF Answered
  <2>4. a = "rejected" \/ t.pending.ambiguous
    BY <1>8, <2>1, Zenon
  <2>5. QED
    BY <1>4, <1>5, <2>1, <2>2, <2>3, <2>4
<1>9. QED
  BY <1>6, <1>7, <1>8

----------------------------------------------------------------------------
(* Deaths, starts and the world                                             *)

\* After a death the file is what is known: without a failed save it is what
\* the process remembered, and with one there is nothing left to keep.
LEMMA KilledKeeps ==
    ASSUME ThinBook, NEW h \in Hosts, Killed(h)
    PROVE  ThinBook'
<1> USE ThinNumbers
<1>1. PICK s \in ThinState : s = mem[h]
  BY OneProcess DEF Killed
<1>2. /\ lease = h /\ place[h] # "off" /\ disk # NONE /\ Known = s
      /\ \A g \in Hosts \ {h} : place[g] = "off"
      /\ Awaiting <=> place[h] = "await"
  BY <1>1, OneProcess DEF Killed
<1>3. /\ kills + saveFaults < MaxFailures /\ kills' = kills + 1 /\ lease' = NONE
      /\ UNCHANGED <<round, seats, authority, churn, disk, saveFaults>>
      /\ place' = [place EXCEPT ![h] = "off"] /\ mem' = [mem EXCEPT ![h] = NONE]
      /\ draft' = [draft EXCEPT ![h] = NONE] /\ mode' = [mode EXCEPT ![h] = NONE]
  BY <1>2 DEF Killed, worldVars
<1>4. /\ calls \in Seq(Call) /\ calls' \in Seq(Call)
      /\ Len(calls') = Len(calls) /\ Len(calls) \in Nat
      /\ \A i \in 1..Len(calls) : /\ calls'[i].vector = calls[i].vector
                                  /\ calls'[i].optIn = calls[i].optIn
                                  /\ i < Len(calls) => calls'[i].answer = calls[i].answer
      /\ place[h] = "await" => /\ Len(calls) > 0 /\ calls'[Len(calls)].answer = "lost"
                               /\ calls[Len(calls)].vector = s.pending.vector
      /\ place[h] # "await" => calls' = calls
  <2>1. calls \in Seq(Call) /\ Len(calls) \in Nat
    BY DEF ThinBook, ThinTypeOK
  <2>2. CASE place[h] = "await"
    <3>1. Len(calls) > 0 /\ calls[Len(calls)].vector = s.pending.vector
      BY <1>1, <2>2 DEF ThinBook, PlaceFits
    <3>2. calls' = [calls EXCEPT ![Len(calls)].answer = "lost"]
      BY <2>2 DEF Killed
    <3>3. QED
      BY <2>1, <2>2, <3>1, <3>2, AnswerFacts
  <2>3. CASE place[h] # "await"
    BY <2>1, <2>3 DEF Killed
  <2>4. QED
    BY <2>2, <2>3
<1>5. /\ place' \in [Hosts -> {"off", "loop", "registration", "report", "commit",
                               "recheck", "submit", "await"}]
      /\ \A g \in Hosts : place'[g] = "off"
  BY <1>2, <1>3 DEF ThinBook, ThinTypeOK
<1>6. ThinTypeOK'
  <2>1. /\ mem' \in [Hosts -> ThinState \cup {NONE}]
        /\ draft' \in [Hosts -> Draft \cup {NONE}] /\ mode' \in [Hosts -> Modes \cup {NONE}]
        /\ \A g \in Hosts : mem'[g] \in {mem[g], NONE}
    BY <1>3 DEF ThinBook, ThinTypeOK
  <2>2. kills' \in 0..MaxFailures
    BY <1>3 DEF ThinBook, ThinTypeOK
  <2>3. QED
    BY <1>3, <1>4, <1>5, <2>1, <2>2 DEF ThinBook, ThinTypeOK
<1>7. \A g \in Hosts : PlaceFits(g)'
  BY <1>5 DEF PlaceFits, Working, Sending
<1>8. kills' # 0
  BY <1>3 DEF ThinBook, ThinTypeOK
<1>9. DiskFits'
  BY <1>2, <1>3, <1>8 DEF ThinBook, DiskFits
<1>10. NothingForgotten' => NothingForgotten /\ disk = s
  BY <1>1, <1>2, <1>3, <1>8 DEF NothingForgotten, ThinBook, DiskFits
<1>11. CallsRight'
  BY <1>4, <1>10, CallsKept DEF ThinBook
<1>12. Known' = disk
  BY <1>3 DEF Known
<1>13. ASSUME NothingForgotten' PROVE SentFits(s, calls') /\ Held(s, calls')
  <2>1. SentFits(s, calls) /\ (~Awaiting => Held(s, calls))
    BY <1>2, <1>10, <1>13 DEF ThinBook
  <2>2. SentFits(s, calls')
    BY <1>4, <2>1, SameVectorsFit
  <2>3. Held(s, calls')
    <3>1. CASE place[h] # "await"
      BY <1>2, <1>4, <2>1, <3>1
    <3>2. CASE place[h] = "await"
      <4> SUFFICES ASSUME NEW i \in 1..Len(calls'), LastOf(calls', i, s.pending.vector)
                   PROVE  calls'[i].answer \in {"rejected", "lost"}
        BY DEF Held
      <4>1. Len(calls') \in 1..Len(calls) /\ calls'[Len(calls')].vector = s.pending.vector
        BY <1>4, <3>2
      <4>2. i = Len(calls')
        BY <1>4, <3>2, <4>1, LastIsLatest
      <4>3. QED
        BY <1>4, <3>2, <4>2
    <3>3. QED
      BY <3>1, <3>2
  <2>4. QED
    BY <2>2, <2>3
<1>14. NothingForgotten' /\ disk' # NONE =>
          SentFits(Known, calls)' /\ (~Awaiting' => Held(Known, calls)')
  <2>1. NothingForgotten' => Known' = s
    BY <1>10, <1>12
  <2>2. QED
    BY <1>13, <2>1 DEF SentFits, Held, LastOf, PendingFits, Behind, ReportBehind
<1>15. QED
  BY <1>6, <1>7, <1>9, <1>11, <1>14 DEF ThinBook

----------------------------------------------------------------------------
(* Processes start                                                          *)

\* What load_or_create returns is a state, under which whatever was sent fits.
LEMMA LoadFits ==
    ASSUME ThinBook, lease = NONE, NEW c \in 0..MaxAccepts, NEW accept \in BOOLEAN,
           c \in IF disk = NONE THEN {0} ELSE {disk.config, disk.config + 1},
           NEW state \in Loaded(c, accept)
    PROVE  /\ state \in ThinState /\ state.last <= round
           /\ NothingForgotten => SentFits(state, calls) /\ Held(state, calls)
<1> USE ThinNumbers
<1>1. round \in Nat /\ calls \in Seq(Call) /\ (disk # NONE => disk \in ThinState /\ disk.last <= round)
  BY DEF ThinBook, ThinTypeOK, DiskFits
<1>2. CASE disk = NONE
  <2>1. calls = <<>>
    BY <1>2 DEF ThinBook, DiskFits
  <2>2. state = Fresh(c)
    BY <1>2 DEF Loaded
  <2>3. state \in ThinState /\ state.last = 0 /\ state.pending = NONE
    BY <2>2 DEF Fresh, ThinState
  <2>4. SentFits(state, calls) /\ Held(state, calls)
    BY <2>1, <2>3 DEF SentFits, PendingFits, Held
  <2>5. QED
    BY <1>1, <2>3, <2>4
<1>3. CASE disk # NONE /\ state = disk
  BY <1>1, <1>3 DEF ThinBook, Known, Awaiting
<1>4. CASE disk # NONE /\ c # disk.config /\ state = Reconfigured(disk, c) /\ disk.pending = NONE
  <2>1. c = disk.config + 1 /\ disk.config \in Nat
    BY <1>1, <1>4 DEF ThinState
  <2>2. /\ state \in ThinState /\ state.config = c /\ state.last = 0
        /\ state.report = disk.report /\ state.pending = NONE
    <3> DEFINE t == [config |-> c, last |-> 0, report |-> disk.report,
                     registration |-> disk.registration, pending |-> disk.pending]
    <3>1. state = t
      BY <1>1, <1>4 DEF Reconfigured, ThinState
    <3>2. t \in ThinState
      BY <1>1, <1>4 DEF ThinState
    <3>3. QED
      BY <1>4, <3>1, <3>2
  <2>3. \A i \in 1..Len(calls) : calls[i].vector.era \in Nat
    <3>1. \A i \in 1..Len(calls) : calls[i] \in Call
      BY <1>1
    <3>2. QED
      BY <3>1 DEF Call, Vector
  <2>4. SentFits(disk, calls) => SentFits(state, calls)
    BY <2>1, <2>2, <2>3 DEF SentFits, PendingFits, Behind, ReportBehind
  <2>5. Held(state, calls)
    BY <2>2 DEF Held
  <2>6. NothingForgotten => SentFits(disk, calls)
    BY <1>4 DEF ThinBook, Known
  <2>7. QED
    BY <1>1, <2>2, <2>4, <2>5, <2>6
<1>5. QED
  BY <1>2, <1>3, <1>4 DEF Loaded

LEMMA ProcessStartKeeps ==
    ASSUME ThinBook, NEW h \in Hosts, NEW accept \in BOOLEAN, async_main(h, accept)
    PROVE  ThinBook'
<1> USE ThinNumbers
<1>1. PICK c \in IF disk = NONE THEN {0} ELSE {disk.config, disk.config + 1} :
          /\ c <= MaxAccepts
          /\ \E state \in Loaded(c, accept) :
                mem' = [mem EXCEPT ![h] = state] /\ disk' = state
  BY DEF async_main
<1>2. PICK state \in Loaded(c, accept) : mem' = [mem EXCEPT ![h] = state] /\ disk' = state
  BY <1>1
<1>3. /\ lease = NONE /\ lease' = h
      /\ place' = [place EXCEPT ![h] = "loop"]
      /\ UNCHANGED <<round, seats, authority, churn, draft, calls, kills, saveFaults>>
  BY DEF async_main, StateLease, worldVars
<1>4. c \in 0..MaxAccepts
  BY <1>1 DEF ThinBook, ThinTypeOK, ThinState
<1>5. /\ state \in ThinState /\ state.last <= round
      /\ NothingForgotten => SentFits(state, calls) /\ Held(state, calls)
  BY <1>1, <1>2, <1>3, <1>4, LoadFits
<1>6. \A g \in Hosts : place[g] = "off"
  BY <1>3 DEF ThinBook, PlaceFits
<1>7. /\ place' \in [Hosts -> {"off", "loop", "registration", "report", "commit",
                               "recheck", "submit", "await"}]
      /\ place'[h] = "loop" /\ \A g \in Hosts \ {h} : place'[g] = "off"
  BY <1>3, <1>6 DEF ThinBook, ThinTypeOK
<1>8. /\ mem' \in [Hosts -> ThinState \cup {NONE}] /\ mem'[h] = state
      /\ \A g \in Hosts \ {h} : mem'[g] = mem[g]
  BY <1>2, <1>5 DEF ThinBook, ThinTypeOK
<1>9. mode' \in [Hosts -> Modes \cup {NONE}]
  BY DEF async_main, ThinBook, ThinTypeOK
<1>10. ThinTypeOK'
  BY <1>2, <1>3, <1>5, <1>7, <1>8, <1>9 DEF ThinBook, ThinTypeOK
<1>11. \A g \in Hosts : PlaceFits(g)'
  BY <1>3, <1>5, <1>7, <1>8 DEF PlaceFits, Working, Sending
<1>12. DiskFits'
  BY <1>2, <1>3, <1>5, <1>7, <1>8 DEF DiskFits
<1>13. CallsRight' /\ NothingForgotten' = NothingForgotten
  <2>1. Len(calls) \in Nat
    BY DEF ThinBook, ThinTypeOK
  <2>2. NothingForgotten' = NothingForgotten
    BY <1>3 DEF NothingForgotten
  <2>3. QED
    BY <1>3, <2>1, <2>2, CallsKept DEF ThinBook
<1>14. Known' = state
  BY <1>3, <1>8 DEF Known
<1>15. NothingForgotten' /\ disk' # NONE =>
          SentFits(Known, calls)' /\ (~Awaiting' => Held(Known, calls)')
  BY <1>3, <1>5, <1>13, <1>14 DEF SentFits, Held, LastOf, PendingFits, Behind, ReportBehind
<1>16. QED
  BY <1>10, <1>11, <1>12, <1>13, <1>15 DEF ThinBook

----------------------------------------------------------------------------
(* The world moves, or nothing does                                         *)

LEMMA SurroundingsKeep ==
    ASSUME ThinBook, round' \in 1..MaxRound, round' >= round, seats' \in Seats,
           authority' \in Owners \cup {NONE}, churn' \in 0..MaxChurn,
           UNCHANGED <<processVars, disk, place, mem, draft, calls, saveFaults>>
    PROVE  ThinBook'
<1> USE ThinNumbers
<1>1. UNCHANGED <<lease, mode, kills, disk, place, mem, draft, calls, saveFaults>>
  BY DEF processVars
<1>2. round \in Nat /\ round' \in Nat
  BY DEF ThinBook, ThinTypeOK
<1>3. ThinTypeOK'
  <2>1. \A h \in Hosts : mem[h] # NONE => mem[h].last <= round'
    BY <1>2 DEF ThinBook, ThinTypeOK, ThinState
  <2>2. QED
    BY <1>1, <2>1 DEF ThinBook, ThinTypeOK
<1>4. \A h \in Hosts : PlaceFits(h)'
  <2> SUFFICES ASSUME NEW h \in Hosts PROVE PlaceFits(h)'
    OBVIOUS
  <2>1. PlaceFits(h)
    BY DEF ThinBook
  <2>2. place[h] \in Working => draft[h].vector.round <= round'
    BY <1>2, <2>1 DEF PlaceFits, Draft, Vector
  <2>3. QED
    BY <1>1, <2>1, <2>2 DEF PlaceFits
<1>5. DiskFits'
  <2>1. disk # NONE => disk.last <= round'
    BY <1>2 DEF ThinBook, ThinTypeOK, DiskFits, ThinState
  <2>2. QED
    BY <1>1, <2>1 DEF ThinBook, DiskFits
<1>6. CallsRight' /\ NothingForgotten' = NothingForgotten
  <2>1. Len(calls) \in Nat
    BY DEF ThinBook, ThinTypeOK
  <2>2. NothingForgotten' = NothingForgotten
    BY <1>1 DEF NothingForgotten
  <2>3. QED
    BY <1>1, <2>1, <2>2, CallsKept DEF ThinBook
<1>7. Known' = Known /\ Awaiting' = Awaiting
  BY <1>1 DEF Known, Awaiting
<1>8. NothingForgotten' /\ disk' # NONE =>
          SentFits(Known, calls)' /\ (~Awaiting' => Held(Known, calls)')
  BY <1>1, <1>6, <1>7 DEF ThinBook, SentFits, Held, LastOf, PendingFits, Behind, ReportBehind
<1>9. QED
  BY <1>3, <1>4, <1>5, <1>6, <1>8 DEF ThinBook

LEMMA ThinBookInit ==
    ASSUME ThinInit, MaxRound > 0
    PROVE  ThinBook
<1> USE ThinNumbers
<1>1. ThinTypeOK
  BY ThinConstants DEF ThinInit, ThinTypeOK, Seats
<1>2. \A h \in Hosts : PlaceFits(h)
  BY DEF ThinInit, PlaceFits, Working, Sending
<1>3. DiskFits
  BY DEF ThinInit, DiskFits
<1>4. CallsRight
  BY DEF ThinInit, CallsRight, OneVectorPerRound, SourceNeverRollsBack, UnknownIsHeld
<1>5. QED
  BY <1>1, <1>2, <1>3, <1>4 DEF ThinInit, ThinBook

LEMMA ThinBookKept ==
    ASSUME ThinBook, [ThinNext]_thinVars
    PROVE  ThinBook'
<1> USE ThinNumbers
<1>1. CASE NextRound
  <2>1. round' \in 1..MaxRound /\ round' >= round
    BY <1>1 DEF NextRound, ThinBook, ThinTypeOK
  <2>2. QED
    BY <1>1, <2>1, SurroundingsKeep DEF NextRound, ThinBook, ThinTypeOK
<1>2. CASE Churn
  <2>1. churn' \in 0..MaxChurn /\ seats' \in Seats
    BY <1>2 DEF Churn, Seats, ThinBook, ThinTypeOK
  <2>2. round' \in 1..MaxRound /\ round' >= round
    BY <1>2 DEF Churn, ThinBook, ThinTypeOK
  <2>3. QED
    BY <1>2, <2>1, <2>2, SurroundingsKeep DEF Churn
<1>3. ASSUME NEW h \in Hosts, NEW accept \in BOOLEAN, async_main(h, accept)
      PROVE  ThinBook'
  BY <1>3, ProcessStartKeeps
<1>4. ASSUME NEW h \in Hosts,
             \/ tick(h) \/ load_owner_registrations(h) \/ load_external(h)
             \/ mark_pending_vector(h)
      PROVE  ThinBook'
  BY <1>4, TickKeeps, LoadRegistrationKeeps, LoadReportKeeps, CommitKeeps
<1>5. ASSUME NEW h \in Hosts,
             \/ submit_pending(h) \/ recheck_authority(h)
             \/ submit_weights(h) \/ note_submission(h)
      PROVE  ThinBook'
  BY <1>5, RetryKeeps, SendKeeps, AnswerKeeps
<1>6. ASSUME NEW h \in Hosts, Killed(h)
      PROVE  ThinBook'
  BY <1>6, KilledKeeps
<1>7. CASE UNCHANGED thinVars
  <2>1. round \in 1..MaxRound /\ round >= round /\ seats \in Seats
        /\ authority \in Owners \cup {NONE} /\ churn \in 0..MaxChurn
    BY DEF ThinBook, ThinTypeOK
  <2>2. QED
    BY <1>7, <2>1, SurroundingsKeep DEF thinVars, processVars
<1>8. QED
  BY <1>1, <1>2, <1>3, <1>4, <1>5, <1>6, <1>7 DEF ThinNext

\* Whatever the processes, restarts and crashes: one vector per round, sources
\* that never roll back, an unknown outcome is held (cathedral_thin/validator.py).
THEOREM ThinKeepsWord == ThinSpec => []ThinInv
<1>1. ThinInit => ThinBook
  BY ThinBookInit, ThinNumbers, ThinConstants
<1>2. ThinBook /\ [ThinNext]_thinVars => ThinBook'
  BY ThinBookKept
<1>3. ThinBook => ThinInv
  BY DEF ThinBook, ThinInv, CallsRight
<1>4. QED
  BY <1>1, <1>2, <1>3, PTL DEF ThinSpec

-----------------------------------------------------------------------------
\* The launch gate

Targets == {RewardedUid, BurnUid}
ReadingOK(seen) == seen.block \in Nat /\ seen.block <= launchBlock

\* A reading of the head's block is a reading of the head: a rotation takes a block.
ReadingCurrent(seen) ==
    seen.block = launchBlock => seen.map = hotkeyAt /\ seen.rotated = rotatedAt

\* The evidence of a launch is younger than every rotation of the reading's targets.
EvidenceYoung(rep, seen) ==
    /\ seen.rotated \in [Targets -> Nat]
    /\ \A uid \in Targets : seen.rotated[uid] < rep.cand

\* What require_launch_approval established of the approval the launcher took.
ApprovalBinds(a, s) ==
    /\ a \in approvals
    /\ a.bindings.release = release /\ a.bindings.vector = s.vector
    /\ a.bindings.report = s.report.id /\ a.bindings.map = s.seen.map
    /\ a.reviewed <= s.seen.block /\ s.seen.block + MortalEra <= a.until

RotationsKnown ==
    /\ rotatedAt \in [Targets -> Nat]
    /\ rotatedAt[RewardedUid] >= 1
ApprovalsWellMade ==
    /\ approvalFile = NONE \/ approvalFile \in approvals
    /\ \A a \in approvals : a.until = a.reviewed + ApprovalLifetime
RoomToReview ==
    /\ IsFiniteSet(approvals)
    /\ reviewer.pc # "idle" => Cardinality(approvals) < MaxApprovals
ActorShape(s) ==
    s = [pc |-> s.pc, vector |-> s.vector, report |-> s.report, seen |-> s.seen,
         approval |-> s.approval]
LauncherKnows(s) ==
    /\ s.pc # "idle" => s.report \in LaunchReports
    /\ s.pc \in {"approve", "authorize", "sign"} =>
          ReadingOK(s.seen) /\ ReadingCurrent(s.seen) /\ EvidenceYoung(s.report, s.seen)
    /\ s.pc \in {"authorize", "sign"} => ApprovalBinds(s.approval, s)

LaunchIInv ==
    /\ LaunchTypeOK
    /\ report \in LaunchReports
    /\ RotationsKnown
    /\ ApprovalsWellMade
    /\ RoomToReview
    /\ ActorShape(launcher) /\ ActorShape(reviewer)
    /\ LauncherKnows(launcher)
    /\ LaunchedIsReviewed

LEMMA LaunchBegins == LaunchInit => LaunchIInv
  <1> SUFFICES ASSUME LaunchInit PROVE LaunchIInv
    OBVIOUS
  <1>1. LaunchTypeOK
    BY LaunchConstants, FS_EmptySet DEF LaunchInit, LaunchTypeOK, Resting
  <1>2. RotationsKnown
    BY DEF LaunchInit, RotationsKnown, Targets
  <1>3. ApprovalsWellMade /\ RoomToReview
    BY FS_EmptySet DEF LaunchInit, ApprovalsWellMade, RoomToReview, Resting
  <1>4. ActorShape(launcher) /\ ActorShape(reviewer) /\ LauncherKnows(launcher)
    BY DEF LaunchInit, ActorShape, LauncherKnows, Resting
  <1>5. report \in LaunchReports /\ LaunchedIsReviewed
    BY DEF LaunchInit, LaunchedIsReviewed
  <1> QED
    BY <1>1, <1>2, <1>3, <1>4, <1>5 DEF LaunchIInv

\* What a launcher knows depends on nothing that a step leaves alone.
LEMMA LauncherKept ==
  ASSUME LauncherKnows(launcher), ActorShape(launcher), LaunchedIsReviewed,
         UNCHANGED <<launcher, launchSigned, launchBlock, hotkeyAt, rotatedAt, release>>,
         approvals \subseteq approvals'
  PROVE  LauncherKnows(launcher)' /\ ActorShape(launcher)' /\ LaunchedIsReviewed'
  <1>1. LauncherKnows(launcher)'
    BY DEF LauncherKnows, ReadingOK, ReadingCurrent, EvidenceYoung, ApprovalBinds, Targets
  <1>2. LaunchedIsReviewed'
    BY DEF LaunchedIsReviewed
  <1> QED
    BY <1>1, <1>2 DEF ActorShape

\* Candidate and rotations: the check covers the rotated targets, and one target of the
\* launch lane always is one, so the candidate also postdates the genesis.
LEMMA EvidenceIsYoung ==
  ASSUME NEW vec, NEW rep \in LaunchReports, RotationsKnown,
         launch_evidence_after_rotations(vec, rep, chain_preflight)
  PROVE  EvidenceYoung(rep, chain_preflight)
  <1> DEFINE seen == chain_preflight
  <1>1. seen.rotated = rotatedAt
    BY DEF chain_preflight
  <1>2. seen.rotated \in [Targets -> Nat] /\ seen.rotated[RewardedUid] >= 1 /\ rep.cand \in Nat
    BY <1>1, LaunchConstants DEF RotationsKnown
  <1>3. \A uid \in Targets : seen.rotated[uid] # 0 => rep.cand > seen.rotated[uid]
    BY <1>2 DEF launch_evidence_after_rotations
  <1> HIDE DEF seen
  <1>4. rep.cand > 1 \/ rep.cand > seen.rotated[RewardedUid]
    BY <1>2, <1>3 DEF Targets
  <1>5. rep.cand > 0
    BY <1>2, <1>4 DEF Targets
  <1>6. \A uid \in Targets : seen.rotated[uid] < rep.cand
    BY <1>2, <1>3, <1>5
  <1>7. EvidenceYoung(rep, seen)
    BY <1>2, <1>6 DEF EvidenceYoung
  <1> QED
    BY <1>7 DEF seen

LEMMA ReviewStep ==
  ASSUME LaunchIInv, ReviewGate \/ ReviewFresh \/ ReviewWrite
  PROVE  LaunchIInv'
  <1> USE DEF LaunchIInv
  <1>1. LaunchTypeOK /\ RoomToReview /\ ApprovalsWellMade /\ ActorShape(reviewer)
    OBVIOUS
  <1>2. CASE ReviewGate
    <2>1. UNCHANGED <<World, approvalFile, launcher, launchSigned, approvals>>
      BY <1>2 DEF ReviewGate
    <2>2. reviewer' = Resting
            \/ reviewer' = [Resting EXCEPT !.pc = "fresh", !.vector = feed, !.report = report]
      BY <1>2 DEF ReviewGate, Proceeds
    <2>3. ActorShape(reviewer') /\ reviewer'.pc \in {"idle", "fresh"}
      <3>1. CASE reviewer' = Resting
        BY <3>1 DEF ActorShape, Resting
      <3>2. CASE reviewer' = [Resting EXCEPT !.pc = "fresh", !.vector = feed, !.report = report]
        BY <3>2 DEF ActorShape, Resting
      <3> QED
        BY <2>2, <3>1, <3>2
    <2>4. Cardinality(approvals) < MaxApprovals
      BY <1>2 DEF ReviewGate
    <2>5. LauncherKnows(launcher)' /\ ActorShape(launcher)' /\ LaunchedIsReviewed'
      BY <2>1, LauncherKept DEF World
    <2>6. LaunchTypeOK' /\ RoomToReview' /\ ApprovalsWellMade'
      BY <1>1, <2>1, <2>3, <2>4 DEF LaunchTypeOK, RoomToReview, ApprovalsWellMade, World
    <2> QED
      BY <2>1, <2>3, <2>5, <2>6 DEF World, RotationsKnown, ActorShape
  <1>3. CASE ReviewFresh
    <2>1. UNCHANGED <<World, approvalFile, launcher, launchSigned, approvals>> /\ reviewer.pc = "fresh"
      BY <1>3 DEF ReviewFresh
    <2>2. reviewer' = Resting
            \/ reviewer' = [reviewer EXCEPT !.pc = "write", !.seen = chain_preflight]
      BY <1>3 DEF ReviewFresh, Proceeds
    <2>3. ActorShape(reviewer') /\ reviewer'.pc \in {"idle", "write"}
      <3>1. CASE reviewer' = Resting
        BY <3>1 DEF ActorShape, Resting
      <3>2. CASE reviewer' = [reviewer EXCEPT !.pc = "write", !.seen = chain_preflight]
        BY <1>1, <3>2 DEF ActorShape
      <3> QED
        BY <2>2, <3>1, <3>2
    <2>5. LauncherKnows(launcher)' /\ ActorShape(launcher)' /\ LaunchedIsReviewed'
      BY <2>1, LauncherKept DEF World
    <2>6. LaunchTypeOK' /\ RoomToReview' /\ ApprovalsWellMade'
      BY <1>1, <2>1, <2>3 DEF LaunchTypeOK, RoomToReview, ApprovalsWellMade, World
    <2> QED
      BY <2>1, <2>3, <2>5, <2>6 DEF World, RotationsKnown, ActorShape
  <1>4. CASE ReviewWrite
    <2>1. PICK doc : doc = build_launch_approval(reviewer.vector, reviewer.report, reviewer.seen)
      OBVIOUS
    <2>2. /\ approvalFile' = doc /\ approvals' = approvals \cup {doc} /\ reviewer' = Resting
          /\ UNCHANGED <<World, launcher, launchSigned>> /\ reviewer.pc = "write"
      BY <1>4, <2>1 DEF ReviewWrite
    <2>3. doc.until = doc.reviewed + ApprovalLifetime
      BY <2>1 DEF build_launch_approval
    <2>4. Cardinality(approvals) < MaxApprovals /\ IsFiniteSet(approvals)
      BY <1>1, <2>2 DEF RoomToReview
    <2>5. IsFiniteSet(approvals') /\ Cardinality(approvals') <= MaxApprovals
      <3>1. Cardinality(approvals) \in Nat /\ IsFiniteSet(approvals \cup {doc})
        BY <2>4, FS_CardinalityType, FS_AddElement
      <3>2. \/ Cardinality(approvals \cup {doc}) = Cardinality(approvals)
            \/ Cardinality(approvals \cup {doc}) = Cardinality(approvals) + 1
        BY <2>4, FS_AddElement
      <3> QED
        BY <2>2, <2>4, <3>1, <3>2, LaunchConstants
    <2>6. LauncherKnows(launcher)' /\ ActorShape(launcher)' /\ LaunchedIsReviewed'
      BY <2>2, LauncherKept DEF World
    <2>7. LaunchTypeOK' /\ RoomToReview'
      BY <1>1, <2>2, <2>5 DEF LaunchTypeOK, RoomToReview, World, Resting
    <2>8. ApprovalsWellMade'
      BY <1>1, <2>2, <2>3 DEF ApprovalsWellMade
    <2> QED
      BY <2>2, <2>6, <2>7, <2>8 DEF World, RotationsKnown, ActorShape, Resting
  <1> QED
    BY <1>2, <1>3, <1>4

LEMMA LauncherStep ==
  ASSUME LaunchIInv,
         LaunchGateStep \/ LaunchFresh \/ LaunchApprove \/ LaunchAuthorize \/ LaunchSign
  PROVE  LaunchIInv'
  <1> USE DEF LaunchIInv
  <1>1. UNCHANGED <<World, approvalFile, reviewer, approvals>>
    BY DEF LaunchGateStep, LaunchFresh, LaunchApprove, LaunchAuthorize, LaunchSign
  <1>2. LaunchTypeOK /\ LauncherKnows(launcher) /\ ActorShape(launcher) /\ RotationsKnown
        /\ ApprovalsWellMade /\ LaunchedIsReviewed
    OBVIOUS
  <1>3. RoomToReview' /\ ApprovalsWellMade' /\ RotationsKnown' /\ ActorShape(reviewer)'
        /\ report' \in LaunchReports
    BY <1>1 DEF RoomToReview, ApprovalsWellMade, RotationsKnown, ActorShape, World
  <1>4. SUFFICES ASSUME TRUE
        PROVE /\ ActorShape(launcher') /\ LauncherKnows(launcher)' /\ LaunchedIsReviewed'
              /\ launcher'.pc \in {"idle", "fresh", "approve", "authorize", "sign"}
    BY <1>1, <1>2, <1>3 DEF LaunchTypeOK, World, ActorShape
  <1>5. ASSUME launcher' = Resting, launchSigned' = launchSigned
        PROVE /\ ActorShape(launcher') /\ LauncherKnows(launcher)' /\ LaunchedIsReviewed'
              /\ launcher'.pc \in {"idle", "fresh", "approve", "authorize", "sign"}
    BY <1>1, <1>2, <1>5 DEF Resting, ActorShape, LauncherKnows, LaunchedIsReviewed
  <1>6. ASSUME launchSigned' = launchSigned PROVE LaunchedIsReviewed'
    BY <1>1, <1>2, <1>6 DEF LaunchedIsReviewed
  <1>7. CASE LaunchGateStep
    <2>1. launchSigned' = launchSigned
          /\ (\/ launcher' = Resting
              \/ launcher' = [Resting EXCEPT !.pc = "fresh", !.vector = feed, !.report = report])
      BY <1>7 DEF LaunchGateStep, Proceeds
    <2>2. CASE launcher' = [Resting EXCEPT !.pc = "fresh", !.vector = feed, !.report = report]
      <3>1. ActorShape(launcher') /\ launcher'.pc = "fresh" /\ launcher'.report = report
        BY <2>2 DEF ActorShape, Resting
      <3> QED
        BY <1>6, <2>1, <3>1 DEF LauncherKnows
    <2> QED
      BY <1>5, <2>1, <2>2
  <1>8. CASE LaunchFresh
    <2>1. launchSigned' = launchSigned /\ launcher.pc = "fresh"
          /\ (\/ launcher' = Resting
              \/ /\ launcher' = [launcher EXCEPT !.pc = "approve", !.seen = chain_preflight]
                 /\ revalidate_launch(launcher.vector, launcher.report, chain_preflight))
      BY <1>8 DEF LaunchFresh, Proceeds
    <2>2. ASSUME launcher' = [launcher EXCEPT !.pc = "approve", !.seen = chain_preflight],
                 revalidate_launch(launcher.vector, launcher.report, chain_preflight)
          PROVE  /\ ActorShape(launcher') /\ LauncherKnows(launcher)' /\ LaunchedIsReviewed'
                 /\ launcher'.pc \in {"idle", "fresh", "approve", "authorize", "sign"}
      <3>1. PICK seen : seen = chain_preflight
        OBVIOUS
      <3>2. PICK rep \in LaunchReports : rep = launcher.report
        BY <1>2, <2>1 DEF LauncherKnows
      <3>3. ActorShape(launcher') /\ launcher'.pc = "approve" /\ launcher'.report = rep
            /\ launcher'.seen = seen
        BY <1>2, <2>2, <3>1, <3>2 DEF ActorShape
      <3>4. EvidenceYoung(rep, seen)
        BY <1>2, <2>2, <3>1, <3>2, EvidenceIsYoung DEF revalidate_launch
      <3>5. seen.block = launchBlock' /\ seen.map = hotkeyAt' /\ seen.rotated = rotatedAt'
            /\ launchBlock' \in Nat
        BY <1>1, <1>2, <3>1, LaunchConstants DEF chain_preflight, World, LaunchTypeOK
      <3>6. ReadingOK(seen)' /\ ReadingCurrent(seen)'
        BY <3>5 DEF ReadingOK, ReadingCurrent
      <3> QED
        BY <1>6, <2>1, <3>3, <3>4, <3>6
        DEF LauncherKnows, ReadingOK, ReadingCurrent, EvidenceYoung
    <2> QED
      BY <1>5, <2>1, <2>2
  <1>9. CASE LaunchApprove
    <2>1. launchSigned' = launchSigned /\ launcher.pc = "approve"
          /\ (\/ launcher' = Resting
              \/ /\ launcher' = [launcher EXCEPT !.pc = "authorize", !.approval = approvalFile]
                 /\ require_launch_approval(approvalFile, launcher.vector, launcher.report, launcher.seen))
      BY <1>9 DEF LaunchApprove, Proceeds
    <2>2. ASSUME launcher' = [launcher EXCEPT !.pc = "authorize", !.approval = approvalFile],
                 require_launch_approval(approvalFile, launcher.vector, launcher.report, launcher.seen)
          PROVE  /\ ActorShape(launcher') /\ LauncherKnows(launcher)' /\ LaunchedIsReviewed'
                 /\ launcher'.pc \in {"idle", "fresh", "approve", "authorize", "sign"}
      <3>1. PICK s : s = launcher'
        OBVIOUS
      <3>2. ActorShape(s) /\ s.pc = "authorize" /\ s.report = launcher.report /\ s.seen = launcher.seen
            /\ s.vector = launcher.vector /\ s.approval = approvalFile
        BY <1>2, <2>2, <3>1 DEF ActorShape
      <3>3. approvalFile \in approvals
        BY <1>2, <2>2 DEF require_launch_approval, validate_launch_approval_envelope, ApprovalsWellMade
      <3>4. ApprovalBinds(s.approval, s)
        BY <2>2, <3>2, <3>3
        DEF require_launch_approval, validate_launch_approval_envelope, launch_approval_bindings,
            ApprovalBinds
      <3>5. s.report \in LaunchReports /\ ReadingOK(s.seen) /\ ReadingCurrent(s.seen)
            /\ EvidenceYoung(s.report, s.seen)
        BY <1>2, <2>1, <3>2 DEF LauncherKnows
      <3>6. LauncherKnows(s)'
        BY <1>1, <3>2, <3>4, <3>5
        DEF LauncherKnows, ReadingOK, ReadingCurrent, EvidenceYoung, ApprovalBinds, World, Targets
      <3>7. LauncherKnows(launcher)'
        BY <3>1, <3>6 DEF LauncherKnows, ReadingOK, ReadingCurrent, EvidenceYoung, ApprovalBinds
      <3> QED
        BY <1>6, <2>1, <3>1, <3>2, <3>7
    <2> QED
      BY <1>5, <2>1, <2>2
  <1>10. CASE LaunchAuthorize
    <2>1. launchSigned' = launchSigned /\ launcher.pc = "authorize"
          /\ (launcher' = Resting \/ launcher' = [launcher EXCEPT !.pc = "sign"])
      BY <1>10 DEF LaunchAuthorize, Proceeds
    <2>2. CASE launcher' = [launcher EXCEPT !.pc = "sign"]
      <3>1. PICK s : s = launcher'
        OBVIOUS
      <3>2. ActorShape(s) /\ s.pc = "sign" /\ s.report = launcher.report /\ s.seen = launcher.seen
            /\ s.vector = launcher.vector /\ s.approval = launcher.approval
        BY <1>2, <2>2, <3>1 DEF ActorShape
      <3>3. s.report \in LaunchReports /\ ReadingOK(s.seen) /\ ReadingCurrent(s.seen)
            /\ EvidenceYoung(s.report, s.seen)
        BY <1>2, <2>1, <3>2 DEF LauncherKnows
      <3>4. ApprovalBinds(s.approval, s)
        BY <1>2, <2>1, <3>2 DEF LauncherKnows, ApprovalBinds
      <3>5. LauncherKnows(s)'
        BY <1>1, <3>2, <3>3, <3>4
        DEF LauncherKnows, ReadingOK, ReadingCurrent, EvidenceYoung, ApprovalBinds, World, Targets
      <3>6. LauncherKnows(launcher)'
        BY <3>1, <3>5 DEF LauncherKnows, ReadingOK, ReadingCurrent, EvidenceYoung, ApprovalBinds
      <3> QED
        BY <1>6, <2>1, <3>1, <3>2, <3>6
    <2> QED
      BY <1>5, <2>1, <2>2
  <1>11. CASE LaunchSign
    <2>1. launcher' = Resting /\ launcher.pc = "sign"
      BY <1>11 DEF LaunchSign
    <2>2. ActorShape(launcher') /\ LauncherKnows(launcher)' /\ launcher'.pc = "idle"
      BY <2>1 DEF Resting, ActorShape, LauncherKnows
    <2>3. PICK s : s = [vector |-> launcher.vector, report |-> launcher.report.id,
                        block |-> launcher.seen.block, approval |-> launcher.approval,
                        release |-> release, map |-> hotkeyAt, rotated |-> rotatedAt,
                        cand |-> launcher.report.cand]
      OBVIOUS
    <2>4. CASE launchBlock = launcher.seen.block
      <3>1. launchSigned' = s
        BY <1>11, <2>3, <2>4 DEF LaunchSign
      <3>2. PICK a : a = launcher.approval
        OBVIOUS
      <3>3. ApprovalBinds(a, launcher) /\ ReadingCurrent(launcher.seen)
            /\ EvidenceYoung(launcher.report, launcher.seen)
        BY <1>2, <2>1, <3>2 DEF LauncherKnows
      <3>4. launcher.seen.map = hotkeyAt /\ launcher.seen.rotated = rotatedAt
        BY <2>4, <3>3 DEF ReadingCurrent
      <3>5. a \in approvals /\ a = s.approval /\ a.bindings.release = s.release
            /\ a.bindings.vector = s.vector /\ a.bindings.report = s.report /\ a.bindings.map = s.map
        BY <2>3, <3>2, <3>3, <3>4 DEF ApprovalBinds
      <3>6. a.reviewed <= s.block /\ s.block + MortalEra <= a.reviewed + ApprovalLifetime
        BY <1>2, <2>3, <3>3, <3>5 DEF ApprovalBinds, ApprovalsWellMade
      <3>7. \A uid \in DOMAIN s.rotated : s.rotated[uid] < s.cand
        BY <2>3, <3>3, <3>4 DEF EvidenceYoung
      <3>8. a \in approvals'
        BY <1>1, <3>5
      <3>9. LaunchedIsReviewed'
        BY <3>1, <3>5, <3>6, <3>7, <3>8 DEF LaunchedIsReviewed
      <3> QED
        BY <2>2, <3>9
    <2>5. CASE launchBlock # launcher.seen.block
      <3>1. launchSigned' = NONE
        BY <1>11, <2>5 DEF LaunchSign
      <3> QED
        BY <2>2, <3>1 DEF LaunchedIsReviewed
    <2> QED
      BY <2>4, <2>5
  <1> QED
    BY <1>7, <1>8, <1>9, <1>10, <1>11

\* A block later than the reading's: nothing is claimed of the chain any more.
LEMMA BlockStep ==
  ASSUME LaunchIInv, NewLaunchBlock \/ \E uid \in Targets, h \in LaunchHotkeys : Rotate(uid, h)
  PROVE  LaunchIInv'
  <1> USE DEF LaunchIInv
  <1>1. LaunchTypeOK /\ LauncherKnows(launcher) /\ RotationsKnown /\ LaunchedIsReviewed
    OBVIOUS
  <1>2. /\ launchBlock < LastLaunchBlock /\ launchBlock' = launchBlock + 1
        /\ UNCHANGED <<feed, report, release, approvalFile, reviewer, launcher, launchSigned, approvals>>
    BY DEF NewLaunchBlock, Rotate
  <1>3. launchBlock \in Nat /\ launchBlock' \in FirstLaunchBlock .. LastLaunchBlock
    BY <1>1, <1>2, LaunchConstants DEF LaunchTypeOK
  <1>4. RotationsKnown' /\ DOMAIN hotkeyAt' = Targets
    <2>1. CASE NewLaunchBlock
      BY <1>1, <2>1 DEF NewLaunchBlock, RotationsKnown, LaunchTypeOK, Targets
    <2>2. CASE \E uid \in Targets, h \in LaunchHotkeys : Rotate(uid, h)
      <3>1. PICK uid \in Targets, h \in LaunchHotkeys : Rotate(uid, h)
        BY <2>2
      <3>2. hotkeyAt' = [hotkeyAt EXCEPT ![uid] = h]
            /\ rotatedAt' = [rotatedAt EXCEPT ![uid] = launchBlock + 1]
        BY <3>1 DEF Rotate
      <3>3. rotatedAt' \in [Targets -> Nat]
        BY <1>1, <1>3, <3>2 DEF RotationsKnown
      <3>4. rotatedAt'[RewardedUid] >= 1
        BY <1>1, <1>3, <3>2 DEF RotationsKnown, Targets
      <3> QED
        BY <1>1, <3>2, <3>3, <3>4 DEF RotationsKnown, LaunchTypeOK, Targets
    <2> QED
      BY <2>1, <2>2
  <1>5. LaunchTypeOK'
    BY <1>1, <1>2, <1>3, <1>4 DEF LaunchTypeOK, Targets
  <1>6. LauncherKnows(launcher)'
    <2>1. ASSUME ReadingOK(launcher.seen) PROVE ReadingOK(launcher.seen)' /\ ReadingCurrent(launcher.seen)'
      BY <1>2, <1>3, <2>1 DEF ReadingOK, ReadingCurrent
    <2> QED
      BY <1>1, <1>2, <2>1 DEF LauncherKnows, EvidenceYoung, ApprovalBinds, Targets
  <1>7. RoomToReview' /\ ApprovalsWellMade' /\ ActorShape(launcher)' /\ ActorShape(reviewer)'
    BY <1>2 DEF RoomToReview, ApprovalsWellMade, ActorShape
  <1>8. LaunchedIsReviewed'
    BY <1>1, <1>2 DEF LaunchedIsReviewed
  <1> QED
    BY <1>2, <1>4, <1>5, <1>6, <1>7, <1>8

\* What is published changes no reading; another release is another process.
LEMMA PublishStep ==
  ASSUME LaunchIInv, NEW vec \in LaunchVectors, NEW rep \in LaunchReports, NEW rel \in LaunchReleases,
         Publish(vec, rep, rel)
  PROVE  LaunchIInv'
  <1> USE DEF LaunchIInv
  <1>1. LaunchTypeOK /\ LauncherKnows(launcher) /\ ActorShape(launcher) /\ ActorShape(reviewer)
        /\ RoomToReview /\ ApprovalsWellMade /\ RotationsKnown /\ LaunchedIsReviewed
    OBVIOUS
  <1>2. report' = rep /\ release' = rel
        /\ UNCHANGED <<launchBlock, hotkeyAt, rotatedAt, approvalFile, launchSigned, approvals>>
    BY DEF Publish
  <1>3. launcher' = Resting \/ (launcher' = launcher /\ release' = release)
    BY DEF Publish
  <1>4. reviewer' = Resting \/ reviewer' = reviewer
    BY DEF Publish
  <1>5. ActorShape(launcher') /\ LauncherKnows(launcher)'
        /\ launcher'.pc \in {"idle", "fresh", "approve", "authorize", "sign"}
    <2>1. CASE launcher' = Resting
      BY <2>1 DEF Resting, ActorShape, LauncherKnows
    <2>2. CASE launcher' = launcher /\ release' = release
      <3>1. LauncherKnows(launcher)'
        BY <1>1, <1>2, <2>2
        DEF LauncherKnows, ReadingOK, ReadingCurrent, EvidenceYoung, ApprovalBinds, Targets
      <3> QED
        BY <1>1, <2>2, <3>1 DEF ActorShape, LaunchTypeOK
    <2> QED
      BY <1>3, <2>1, <2>2
  <1>6. ActorShape(reviewer') /\ reviewer'.pc \in {"idle", "fresh", "write"}
        /\ (reviewer'.pc # "idle" => reviewer.pc # "idle")
    <2>1. CASE reviewer' = Resting
      BY <2>1 DEF Resting, ActorShape
    <2>2. CASE reviewer' = reviewer
      BY <1>1, <2>2 DEF ActorShape, LaunchTypeOK
    <2> QED
      BY <1>4, <2>1, <2>2
  <1>7. LaunchTypeOK' /\ RoomToReview'
    BY <1>1, <1>2, <1>5, <1>6 DEF LaunchTypeOK, RoomToReview
  <1>8. ApprovalsWellMade' /\ RotationsKnown' /\ LaunchedIsReviewed'
    BY <1>1, <1>2 DEF ApprovalsWellMade, RotationsKnown, LaunchedIsReviewed
  <1> QED
    BY <1>2, <1>5, <1>6, <1>7, <1>8 DEF ActorShape

\* A signed launch is exactly what one review bound: its release, vector, report and mapping
\* (_launch_approval_bindings), a mortal era inside the approval's lifetime, and a candidate
\* snapshot younger than every rotation of its targets, for any set of vectors, reports,
\* releases and hotkeys and whatever the publisher, the chain and the installer do.
THEOREM LaunchReviewed == LaunchSpec => []LaunchGateInv
  <1>1. LaunchInit => LaunchIInv
    BY LaunchBegins
  <1>2. LaunchIInv /\ [LaunchNext]_launchVars => LaunchIInv'
    <2> SUFFICES ASSUME LaunchIInv, [LaunchNext]_launchVars PROVE LaunchIInv'
      OBVIOUS
    <2>1. CASE ReviewGate \/ ReviewFresh \/ ReviewWrite
      BY <2>1, ReviewStep
    <2>2. CASE LaunchGateStep \/ LaunchFresh \/ LaunchApprove \/ LaunchAuthorize \/ LaunchSign
      BY <2>2, LauncherStep
    <2>3. CASE NewLaunchBlock \/ \E uid \in Targets, h \in LaunchHotkeys : Rotate(uid, h)
      BY <2>3, BlockStep
    <2>4. CASE \E vec \in LaunchVectors, rep \in LaunchReports, rel \in LaunchReleases :
                  Publish(vec, rep, rel)
      BY <2>4, PublishStep
    <2>5. CASE UNCHANGED launchVars
      <3>1. LaunchTypeOK' /\ RotationsKnown' /\ ApprovalsWellMade' /\ RoomToReview'
        BY <2>5 DEF launchVars, LaunchIInv, LaunchTypeOK, RotationsKnown, ApprovalsWellMade, RoomToReview
      <3>2. LauncherKnows(launcher)' /\ ActorShape(launcher)' /\ LaunchedIsReviewed'
        BY <2>5, LauncherKept DEF launchVars, LaunchIInv
      <3> QED
        BY <2>5, <3>1, <3>2 DEF launchVars, LaunchIInv, ActorShape
    <2> QED
      BY <2>1, <2>2, <2>3, <2>4, <2>5 DEF LaunchNext, Targets
  <1>3. LaunchIInv => LaunchGateInv
    BY DEF LaunchIInv, LaunchGateInv
  <1> QED
    BY <1>1, <1>2, <1>3, PTL DEF LaunchSpec

-----------------------------------------------------------------------------
\* Durable files

FilePcs == {"idle", "unlink", "create", "write", "fsync", "replace", "dirsync", "swallowed", "return"}
Inode == [doc : Nat, whole : BOOLEAN, synced : BOOLEAN]

\* A lock or a fresh name keeps the writers off each other's temporary file.
Apart == tool.locked \/ tool.temp = "fresh"

FileTypes ==
    /\ tool \in FileTools
    /\ inodes \in Seq(Inode)
    /\ entries \in [Names -> DOMAIN inodes \cup {NONE}]
    /\ entries["target"] \in DOMAIN inodes /\ synced \in DOMAIN inodes
    /\ writer \in [FileWriters -> [pc : FilePcs, doc : 0 .. MaxWrites, inode : Nat]]
    /\ \A w \in FileWriters : writer[w].pc \in {"write", "fsync"} => writer[w].inode \in DOMAIN inodes
    /\ acked \in Nat /\ writes \in 0 .. MaxWrites

\* Written and synced: no crash tears it any more.
Solid(n) == inodes[n].whole /\ inodes[n].synced

\* Between its creation and its rename a writer's file is under the writer's temporary name.
Owns(w) ==
    /\ writer[w].pc \in {"write", "fsync", "replace"} =>
          /\ entries[temp_name(w)] = writer[w].inode /\ writer[w].inode \in DOMAIN inodes
          /\ inodes[writer[w].inode].doc = writer[w].doc
    /\ writer[w].pc \in {"fsync", "replace"} => inodes[writer[w].inode].whole
    /\ writer[w].pc = "replace" => inodes[writer[w].inode].synced

\* One writer at a time, of the newest document; what it returns is in the directory as last
\* synced, so that neither the name nor its undone rename means an older document.
Serial ==
    /\ \A v, w \in FileWriters : writer[v].pc # "idle" /\ writer[w].pc # "idle" => v = w
    /\ acked <= writes
    /\ inodes[entries["target"]].doc >= acked /\ inodes[synced].doc >= acked
    /\ \A w \in FileWriters :
          /\ writer[w].pc # "idle" => writer[w].doc = writes
          /\ writer[w].pc \in {"dirsync", "swallowed", "return"} => inodes[entries["target"]].doc = writes
          /\ writer[w].pc = "return" => inodes[synced].doc = writes

FileIInv ==
    /\ FileTypes
    /\ Apart => Solid(entries["target"]) /\ Solid(synced) /\ \A w \in FileWriters : Owns(w)
    /\ tool.locked => Serial

\* Files are only added and made safer by whoever writes.
Grows ==
    /\ DOMAIN inodes \subseteq DOMAIN inodes'
    /\ \A n \in DOMAIN inodes :
          /\ inodes'[n].doc = inodes[n].doc
          /\ inodes[n].whole => inodes'[n].whole
          /\ inodes[n].synced => inodes'[n].synced

\* Every tool that keeps other writers out also syncs the directory.
LEMMA LockedSyncs == tool \in FileTools => (tool.locked => tool.dirsync)
  BY DEF FileTools, Tool, replace_private_state, write_launch_approval, write_authorization,
         write_snapshot_atomic, publish_status_file, atomic_replace_receipt, thin_state_save,
         verifyml_write, policy_write, decision_record_write, write_report

LEMMA TempIsNoTarget ==
  ASSUME NEW w \in FileWriters PROVE temp_name(w) \in Names \ {"target"}
  BY FileNames DEF temp_name, Names, TempNames

\* A file that was solid stays solid when files only grow.
LEMMA SolidKept ==
  ASSUME NEW n \in DOMAIN inodes, Solid(n), Grows PROVE Solid(n)'
  BY DEF Solid, Grows

LEMMA OwnsKept ==
  ASSUME NEW v \in FileWriters, Owns(v), Grows, tool' = tool, writer'[v] = writer[v],
         entries'[temp_name(v)] = entries[temp_name(v)]
  PROVE  Owns(v)'
  <1>1. temp_name(v)' = temp_name(v)
    BY DEF temp_name
  <1>2. PICK r : r = writer[v]
    OBVIOUS
  <1>3. ASSUME r.inode \in DOMAIN inodes
        PROVE  /\ r.inode \in DOMAIN inodes' /\ inodes'[r.inode].doc = inodes[r.inode].doc
               /\ inodes[r.inode].whole => inodes'[r.inode].whole
               /\ inodes[r.inode].synced => inodes'[r.inode].synced
    BY <1>3 DEF Grows
  <1> QED
    BY <1>1, <1>2, <1>3 DEF Owns

\* What a writer does to its temporary name and the target is no other writer's business.
LEMMA OthersOwn ==
  ASSUME FileIInv, Apart, NEW w \in FileWriters, NEW v \in FileWriters \ {w}, Grows, tool' = tool,
         writer[w].pc # "idle", writer'[v] = writer[v],
         \A n \in Names \ {"target", temp_name(w)} : entries'[n] = entries[n]
  PROVE  Owns(v)'
  <1>1. CASE tool.locked
    <2>1. writer[v].pc = "idle"
      BY <1>1 DEF FileIInv, Serial
    <2> QED
      BY <2>1 DEF Owns
  <1>2. CASE tool.temp = "fresh"
    <2>1. temp_name(v) = v /\ temp_name(w) = w
      BY <1>2 DEF temp_name
    <2>2. entries'[temp_name(v)] = entries[temp_name(v)]
      BY <2>1, FileNames DEF Names, TempNames
    <2> QED
      BY <2>2, OwnsKept DEF FileIInv
  <1> QED
    BY <1>1, <1>2 DEF Apart

LEMMA FileBegins == FileInit => FileIInv
  <1> SUFFICES ASSUME FileInit PROVE FileIInv
    OBVIOUS
  <1>1. PICK e : e = [doc |-> 0, whole |-> TRUE, synced |-> TRUE]
    OBVIOUS
  <1>2. inodes = <<e>> /\ e \in Inode /\ e.doc = 0 /\ e.whole /\ e.synced
    BY <1>1 DEF FileInit, Inode
  <1>3. inodes \in Seq(Inode) /\ DOMAIN inodes = {1} /\ inodes[1] = e
    BY <1>2
  <1>4. entries \in [Names -> DOMAIN inodes \cup {NONE}] /\ entries["target"] = 1
    BY <1>3 DEF FileInit, Names
  <1>5. writer \in [FileWriters -> [pc : FilePcs, doc : 0 .. MaxWrites, inode : Nat]]
        /\ \A w \in FileWriters : writer[w].pc = "idle"
    BY FileConstants DEF FileInit, FileIdle, FilePcs
  <1>6. tool \in FileTools /\ synced = 1 /\ acked = 0 /\ writes = 0
    BY DEF FileInit
  <1>7. FileTypes
    BY <1>3, <1>4, <1>5, <1>6, FileConstants DEF FileTypes
  <1>8. Solid(entries["target"]) /\ Solid(synced)
    BY <1>2, <1>3, <1>4, <1>6 DEF Solid
  <1>9. \A w \in FileWriters : Owns(w)
    BY <1>5 DEF Owns
  <1>10. Serial
    BY <1>2, <1>3, <1>4, <1>5, <1>6 DEF Serial
  <1> QED
    BY <1>7, <1>8, <1>9, <1>10 DEF FileIInv

LEMMA BeginWrite ==
  ASSUME FileIInv, NEW w \in FileWriters, begin_write(w), UNCHANGED tool
  PROVE  FileIInv'
  <1> DEFINE r == [pc |-> "unlink", doc |-> writes + 1, inode |-> 0]
  <1>1. FileTypes
    BY DEF FileIInv
  <1>2. writer[w].pc = "idle" /\ writes < MaxWrites /\ Locked(w) /\ writes' = writes + 1
        /\ writer' = [writer EXCEPT ![w] = r] /\ UNCHANGED <<inodes, entries, synced, acked>>
    BY DEF begin_write, WriterAt
  <1>3. writes \in Nat /\ writes' \in 0 .. MaxWrites
    BY <1>1, <1>2, FileConstants DEF FileTypes
  <1>4. r \in [pc : FilePcs, doc : 0 .. MaxWrites, inode : Nat] /\ r.pc = "unlink" /\ r.doc = writes'
    BY <1>2, <1>3 DEF FilePcs
  <1> HIDE DEF r
  <1>5. writer' \in [FileWriters -> [pc : FilePcs, doc : 0 .. MaxWrites, inode : Nat]]
        /\ writer'[w] = r /\ \A v \in FileWriters \ {w} : writer'[v] = writer[v]
    BY <1>1, <1>2, <1>4 DEF FileTypes
  <1>6. FileTypes'
    BY <1>1, <1>2, <1>3, <1>4, <1>5 DEF FileTypes
  <1>7. ASSUME Apart PROVE Solid(entries["target"])' /\ Solid(synced)' /\ \A v \in FileWriters : Owns(v)'
    <2>1. Solid(entries["target"]) /\ Solid(synced) /\ \A v \in FileWriters : Owns(v)
      BY <1>7 DEF FileIInv
    <2>2. Grows
      BY <1>2 DEF Grows
    <2>3. Owns(w)'
      BY <1>4, <1>5 DEF Owns
    <2>4. \A v \in FileWriters \ {w} : Owns(v)'
      BY <1>2, <1>5, <2>1, <2>2, OwnsKept
    <2>5. Solid(entries["target"])' /\ Solid(synced)'
      BY <1>2, <2>1 DEF Solid
    <2> QED
      BY <2>3, <2>4, <2>5
  <1>8. ASSUME tool.locked PROVE Serial'
    <2>1. \A v \in FileWriters \ {w} : writer'[v].pc = "idle"
      BY <1>2, <1>5, <1>8 DEF Locked, WriterAt
    <2>2. Serial
      BY <1>8 DEF FileIInv
    <2>3. acked' <= writes'
      BY <1>1, <1>2, <1>3, <2>2 DEF Serial, FileTypes
    <2> QED
      BY <1>2, <1>4, <1>5, <2>1, <2>2, <2>3 DEF Serial
  <1> QED
    BY <1>6, <1>7, <1>8 DEF FileIInv, Apart

\* The writer type, after any step of one writer.
Writer == [pc : FilePcs, doc : 0 .. MaxWrites, inode : Nat]

LEMMA WriterMoves ==
  ASSUME FileTypes, NEW w \in FileWriters, NEW pc \in FilePcs, WriterTo(w, pc)
  PROVE  /\ writer' \in [FileWriters -> Writer]
         /\ writer'[w].pc = pc /\ writer'[w].doc = writer[w].doc /\ writer'[w].inode = writer[w].inode
         /\ \A v \in FileWriters \ {w} : writer'[v] = writer[v]
  <1>1. writer \in [FileWriters -> Writer]
    BY DEF FileTypes, Writer
  <1>2. writer' = [writer EXCEPT ![w].pc = pc]
    BY DEF WriterTo
  <1>3. \A v \in FileWriters \ {w} : writer'[v] = writer[v]
    BY <1>1, <1>2
  <1> DEFINE r == [writer[w] EXCEPT !.pc = pc]
  <1>4. writer[w] \in Writer
    BY <1>1
  <1>5. r \in Writer /\ r.pc = pc /\ r.doc = writer[w].doc /\ r.inode = writer[w].inode
    BY <1>4 DEF Writer
  <1>6. writer' = [writer EXCEPT ![w] = r]
    BY <1>1, <1>2
  <1> HIDE DEF r
  <1>7. writer' \in [FileWriters -> Writer] /\ writer'[w] = r
    BY <1>1, <1>5, <1>6
  <1> QED
    BY <1>3, <1>5, <1>7

LEMMA WriterRests ==
  ASSUME FileTypes, NEW w \in FileWriters, writer' = [writer EXCEPT ![w] = FileIdle]
  PROVE  /\ writer' \in [FileWriters -> Writer] /\ writer'[w].pc = "idle"
         /\ \A v \in FileWriters \ {w} : writer'[v] = writer[v]
  <1>1. FileIdle \in Writer /\ FileIdle.pc = "idle"
    BY FileConstants DEF FileIdle, Writer, FilePcs
  <1> QED
    BY <1>1 DEF FileTypes, Writer

\* A writer that gives up, fails or dies leaves the files and the names as they are.
LEMMA GivesUp ==
  ASSUME FileIInv, NEW w \in FileWriters, writer' = [writer EXCEPT ![w] = FileIdle],
         UNCHANGED <<tool, inodes, entries, synced, acked, writes>>
  PROVE  FileIInv'
  <1>1. FileTypes
    BY DEF FileIInv
  <1>2. /\ writer' \in [FileWriters -> Writer] /\ writer'[w].pc = "idle"
        /\ \A v \in FileWriters \ {w} : writer'[v] = writer[v]
    BY <1>1, WriterRests
  <1>3. FileTypes'
    BY <1>1, <1>2 DEF FileTypes, Writer
  <1>4. ASSUME Apart PROVE Solid(entries["target"])' /\ Solid(synced)' /\ \A v \in FileWriters : Owns(v)'
    <2>1. Solid(entries["target"]) /\ Solid(synced) /\ \A v \in FileWriters : Owns(v)
      BY <1>4 DEF FileIInv
    <2>2. Grows
      BY DEF Grows
    <2>3. Owns(w)'
      BY <1>2 DEF Owns
    <2>4. \A v \in FileWriters \ {w} : Owns(v)'
      BY <1>2, <2>1, <2>2, OwnsKept
    <2> QED
      BY <2>1, <2>3, <2>4 DEF Solid
  <1>5. ASSUME tool.locked PROVE Serial'
    <2>1. Serial
      BY <1>5 DEF FileIInv
    <2> QED
      BY <1>2, <2>1 DEF Serial
  <1> QED
    BY <1>3, <1>4, <1>5 DEF FileIInv, Apart

LEMMA UnlinkTemporary ==
  ASSUME FileIInv, NEW w \in FileWriters, unlink_temporary(w), UNCHANGED tool
  PROVE  FileIInv'
  <1>1. FileTypes /\ writer[w].pc = "unlink" /\ WriterTo(w, "create")
        /\ entries' = [entries EXCEPT ![temp_name(w)] = NONE] /\ UNCHANGED <<inodes, synced, acked, writes>>
    BY DEF FileIInv, unlink_temporary, WriterAt
  <1>2. /\ writer' \in [FileWriters -> Writer] /\ writer'[w].pc = "create" /\ writer'[w].doc = writer[w].doc
        /\ \A v \in FileWriters \ {w} : writer'[v] = writer[v]
    BY <1>1, WriterMoves DEF FilePcs
  <1>3. entries' \in [Names -> DOMAIN inodes \cup {NONE}] /\ entries'["target"] = entries["target"]
        /\ \A n \in Names \ {"target", temp_name(w)} : entries'[n] = entries[n]
    BY <1>1, TempIsNoTarget DEF FileTypes, Names
  <1>4. FileTypes'
    BY <1>1, <1>2, <1>3 DEF FileTypes, Writer
  <1>5. ASSUME Apart PROVE Solid(entries["target"])' /\ Solid(synced)' /\ \A v \in FileWriters : Owns(v)'
    <2>1. Solid(entries["target"]) /\ Solid(synced)
      BY <1>5 DEF FileIInv
    <2>2. Grows
      BY <1>1 DEF Grows
    <2>3. Owns(w)'
      BY <1>2 DEF Owns
    <2>4. \A v \in FileWriters \ {w} : Owns(v)'
      BY <1>1, <1>2, <1>3, <1>5, <2>2, OthersOwn
    <2> QED
      BY <1>1, <1>3, <2>1, <2>3, <2>4 DEF Solid
  <1>6. ASSUME tool.locked PROVE Serial'
    <2>1. Serial
      BY <1>6 DEF FileIInv
    <2> QED
      BY <1>1, <1>2, <1>3, <2>1 DEF Serial
  <1> QED
    BY <1>4, <1>5, <1>6 DEF FileIInv, Apart

\* O_EXCL: the name was free, so the new file is the writer's own.
LEMMA CreateExclusive ==
  ASSUME FileIInv, NEW w \in FileWriters, create_exclusive(w), UNCHANGED tool
  PROVE  FileIInv'
  <1>1. FileTypes /\ writer[w].pc = "create" /\ UNCHANGED <<synced, acked, writes>>
    BY DEF FileIInv, create_exclusive, WriterAt
  <1>2. CASE entries[temp_name(w)] # NONE
    BY <1>1, <1>2, GivesUp DEF create_exclusive
  <1>3. CASE entries[temp_name(w)] = NONE
    <2> DEFINE n == Len(inodes) + 1
               file == [doc |-> writer[w].doc, whole |-> FALSE, synced |-> FALSE]
               r == [writer[w] EXCEPT !.pc = "write", !.inode = n]
    <2>1. /\ inodes' = Append(inodes, file) /\ entries' = [entries EXCEPT ![temp_name(w)] = n]
          /\ writer' = [writer EXCEPT ![w].pc = "write", ![w].inode = n]
      BY <1>3 DEF create_exclusive
    <2>2. writer \in [FileWriters -> Writer] /\ writer[w] \in Writer
      BY <1>1 DEF FileTypes, Writer
    <2>3. file \in Inode /\ file.doc = writer[w].doc
      BY <2>2 DEF Inode, Writer
    <2>4. writer' = [writer EXCEPT ![w] = r]
      BY <2>1, <2>2
    <2>5. inodes \in Seq(Inode) /\ n \in Nat
      BY <1>1 DEF FileTypes
    <2>6. r \in Writer /\ r.pc = "write" /\ r.inode = n /\ r.doc = writer[w].doc
      BY <2>2, <2>5 DEF Writer, FilePcs
    <2> HIDE DEF n, file, r
    <2>7. inodes' \in Seq(Inode) /\ DOMAIN inodes' = DOMAIN inodes \cup {n} /\ inodes'[n] = file
          /\ \A i \in DOMAIN inodes : inodes'[i] = inodes[i]
      BY <2>1, <2>3, <2>5 DEF n
    <2>8. Grows
      BY <2>7 DEF Grows
    <2>9. writer' \in [FileWriters -> Writer] /\ writer'[w] = r
          /\ \A v \in FileWriters \ {w} : writer'[v] = writer[v]
      BY <2>2, <2>4, <2>6
    <2>10. entries' \in [Names -> DOMAIN inodes' \cup {NONE}] /\ entries'["target"] = entries["target"]
           /\ entries'[temp_name(w)] = n
           /\ \A i \in Names \ {"target", temp_name(w)} : entries'[i] = entries[i]
      BY <1>1, <2>1, <2>7, TempIsNoTarget DEF FileTypes, Names
    <2>11. FileTypes'
      <3>1. \A v \in FileWriters : writer'[v].pc \in {"write", "fsync"} => writer'[v].inode \in DOMAIN inodes'
        BY <1>1, <2>6, <2>7, <2>9 DEF FileTypes
      <3> QED
        BY <1>1, <2>7, <2>9, <2>10, <3>1 DEF FileTypes, Writer
    <2>12. ASSUME Apart PROVE Solid(entries["target"])' /\ Solid(synced)' /\ \A v \in FileWriters : Owns(v)'
      <3>1. Solid(entries["target"]) /\ Solid(synced)
        BY <2>12 DEF FileIInv
      <3>2. Solid(entries["target"])' /\ Solid(synced)'
        BY <1>1, <2>7, <2>10, <3>1 DEF Solid, FileTypes
      <3>3. temp_name(w)' = temp_name(w)
        BY DEF temp_name
      <3>4. Owns(w)'
        BY <2>3, <2>6, <2>7, <2>9, <2>10, <3>3 DEF Owns
      <3>5. \A v \in FileWriters \ {w} : Owns(v)'
        BY <1>1, <2>8, <2>9, <2>10, <2>12, OthersOwn
      <3> QED
        BY <3>2, <3>4, <3>5
    <2>13. ASSUME tool.locked PROVE Serial'
      <3>1. Serial
        BY <2>13 DEF FileIInv
      <3>2. /\ inodes'[entries'["target"]].doc = inodes[entries["target"]].doc
            /\ inodes'[synced'].doc = inodes[synced].doc
        BY <1>1, <2>7, <2>10 DEF FileTypes
      <3>3. \A v \in FileWriters : writer'[v].pc # "idle" => writer[v].pc # "idle"
        BY <1>1, <2>9
      <3>4. \A v \in FileWriters \ {w} : writer'[v].pc = "idle"
        BY <1>1, <2>9, <3>1 DEF Serial
      <3> QED
        BY <1>1, <2>6, <2>9, <3>1, <3>2, <3>3, <3>4 DEF Serial
    <2> QED
      BY <2>11, <2>12, <2>13 DEF FileIInv, Apart
  <1> QED
    BY <1>2, <1>3

\* Writing and syncing change the writer's own file only, and for the better.
LEMMA FileImproves ==
  ASSUME FileIInv, NEW w \in FileWriters, NEW file \in Inode, NEW pc \in {"fsync", "replace"},
         WriterTo(w, pc), UNCHANGED <<tool, entries, synced, acked, writes>>,
         writer[w].pc \in {"write", "fsync"},
         inodes' = [inodes EXCEPT ![writer[w].inode] = file],
         file.doc = inodes[writer[w].inode].doc,
         inodes[writer[w].inode].whole => file.whole,
         inodes[writer[w].inode].synced => file.synced,
         Apart => file.whole /\ (pc = "replace" => file.synced)
  PROVE  FileIInv'
  <1> DEFINE n == writer[w].inode
  <1>1. FileTypes /\ n \in DOMAIN inodes
    BY DEF FileIInv, FileTypes
  <1>2. /\ writer' \in [FileWriters -> Writer] /\ writer'[w].pc = pc /\ writer'[w].doc = writer[w].doc
        /\ writer'[w].inode = n /\ \A v \in FileWriters \ {w} : writer'[v] = writer[v]
    BY <1>1, WriterMoves DEF FilePcs
  <1>3. inodes \in Seq(Inode)
    BY <1>1 DEF FileTypes
  <1> HIDE DEF n
  <1>4. inodes' = [inodes EXCEPT ![n] = file]
    BY DEF n
  <1>5. inodes' \in Seq(Inode) /\ DOMAIN inodes' = DOMAIN inodes /\ inodes'[n] = file
        /\ \A i \in DOMAIN inodes \ {n} : inodes'[i] = inodes[i]
    <2>1. DOMAIN inodes = 1 .. Len(inodes)
      BY <1>3, LenProperties
    <2>2. inodes' \in Seq(Inode) /\ Len(inodes') = Len(inodes)
          /\ \A j \in 1 .. Len(inodes) : inodes'[j] = IF j = n THEN file ELSE inodes[j]
      <3>1. n \in 1 .. Len(inodes)
        BY <1>1, <2>1
      <3>2. /\ [inodes EXCEPT ![n] = file] \in Seq(Inode)
            /\ Len([inodes EXCEPT ![n] = file]) = Len(inodes)
            /\ \A j \in 1 .. Len(inodes) :
                  [inodes EXCEPT ![n] = file][j] = IF j = n THEN file ELSE inodes[j]
        BY <1>3, <3>1, ExceptSeq
      <3> QED
        BY <1>4, <3>2
    <2>3. DOMAIN inodes' = 1 .. Len(inodes')
      BY <2>2, LenProperties
    <2> QED
      BY <1>1, <2>1, <2>2, <2>3
  <1>6. Grows
    BY <1>5 DEF Grows, n
  <1>7. FileTypes'
    BY <1>1, <1>2, <1>5 DEF FileTypes, Writer
  <1>8. ASSUME Apart PROVE Solid(entries["target"])' /\ Solid(synced)' /\ \A v \in FileWriters : Owns(v)'
    <2>1. Solid(entries["target"]) /\ Solid(synced) /\ Owns(w)
      BY <1>8 DEF FileIInv
    <2>2. Solid(entries["target"])' /\ Solid(synced)'
      <3>1. \A i \in DOMAIN inodes : inodes[i].whole /\ inodes[i].synced => inodes'[i].whole /\ inodes'[i].synced
        BY <1>6 DEF Grows
      <3> QED
        BY <1>1, <2>1, <3>1 DEF Solid, FileTypes
    <2>3. temp_name(w)' = temp_name(w)
      BY DEF temp_name
    <2>4. entries[temp_name(w)] = n /\ file.doc = writer[w].doc
      BY <2>1 DEF Owns, n
    <2>5. Owns(w)'
      <3>1. inodes'[writer'[w].inode].whole /\ (writer'[w].pc = "replace" => inodes'[writer'[w].inode].synced)
        BY <1>2, <1>5, <1>8
      <3>2. inodes'[writer'[w].inode].doc = writer'[w].doc /\ writer'[w].inode \in DOMAIN inodes'
            /\ entries'[temp_name(w)'] = writer'[w].inode
        BY <1>1, <1>2, <1>5, <2>3, <2>4
      <3> QED
        BY <3>1, <3>2 DEF Owns
    <2>6. \A v \in FileWriters \ {w} : Owns(v)'
      BY <1>2, <1>6, <1>8, OthersOwn
    <2> QED
      BY <2>2, <2>5, <2>6
  <1>9. ASSUME tool.locked PROVE Serial'
    <2>1. Serial
      BY <1>9 DEF FileIInv
    <2>2. inodes'[entries["target"]].doc = inodes[entries["target"]].doc
          /\ inodes'[synced].doc = inodes[synced].doc
      BY <1>1, <1>6 DEF Grows, FileTypes
    <2>3. pc \notin {"idle", "dirsync", "swallowed", "return"}
      OBVIOUS
    <2> QED
      BY <1>2, <2>1, <2>2, <2>3 DEF Serial
  <1> QED
    BY <1>7, <1>8, <1>9 DEF FileIInv, Apart

LEMMA WriteDocument ==
  ASSUME FileIInv, NEW w \in FileWriters, write_document(w), UNCHANGED tool
  PROVE  FileIInv'
  <1> DEFINE n == writer[w].inode
             file == [inodes[n] EXCEPT !.whole = TRUE]
  <1>1. FileTypes /\ writer[w].pc = "write" /\ n \in DOMAIN inodes
    BY DEF FileIInv, FileTypes, write_document, WriterAt
  <1>2. inodes[n] \in Inode
    BY <1>1 DEF FileTypes
  <1>3. file \in Inode /\ file.doc = inodes[n].doc /\ file.synced = inodes[n].synced /\ file.whole
    BY <1>2 DEF Inode
  <1>4. inodes' = [inodes EXCEPT ![n] = file]
    BY <1>1 DEF write_document
  <1>5. WriterTo(w, "fsync") /\ UNCHANGED <<tool, entries, synced, acked, writes>>
    BY DEF write_document
  <1> HIDE DEF file
  <1> QED
    BY <1>1, <1>3, <1>4, <1>5, FileImproves

LEMMA FsyncFile ==
  ASSUME FileIInv, NEW w \in FileWriters, fsync_file(w), UNCHANGED tool
  PROVE  FileIInv'
  <1> DEFINE n == writer[w].inode
             file == [inodes[n] EXCEPT !.synced = TRUE]
  <1>1. FileTypes /\ writer[w].pc = "fsync" /\ n \in DOMAIN inodes
    BY DEF FileIInv, FileTypes, fsync_file, WriterAt
  <1>2. inodes[n] \in Inode
    BY <1>1 DEF FileTypes
  <1>3. file \in Inode /\ file.doc = inodes[n].doc /\ file.whole = inodes[n].whole /\ file.synced
    BY <1>2 DEF Inode
  <1>4. inodes' = [inodes EXCEPT ![n] = file]
    BY <1>1 DEF fsync_file
  <1>5. WriterTo(w, "replace") /\ UNCHANGED <<tool, entries, synced, acked, writes>>
    BY DEF fsync_file
  <1>6. Apart => inodes[n].whole
    BY <1>1 DEF FileIInv, Owns
  <1> HIDE DEF file
  <1>7. inodes[n].whole => file.whole
    BY <1>3
  <1> QED
    BY <1>1, <1>3, <1>4, <1>5, <1>6, <1>7, FileImproves

\* The name that moves to the target is the writer's own file, written and synced.
LEMMA ReplaceTarget ==
  ASSUME FileIInv, NEW w \in FileWriters, replace_target(w), UNCHANGED tool
  PROVE  FileIInv'
  <1>1. FileTypes /\ writer[w].pc = "replace" /\ UNCHANGED <<inodes, synced, acked, writes>>
    BY DEF FileIInv, replace_target, WriterAt
  <1>2. PICK tmp : tmp = entries[temp_name(w)]
    OBVIOUS
  <1>3. CASE tmp = NONE
    BY <1>1, <1>2, <1>3, GivesUp DEF replace_target
  <1>4. CASE tmp # NONE
    <2>1. PICK pc : pc = IF tool.dirsync THEN "dirsync" ELSE "return"
      OBVIOUS
    <2>2. entries' = [entries EXCEPT !["target"] = tmp, ![temp_name(w)] = NONE] /\ WriterTo(w, pc)
      BY <1>2, <1>4, <2>1 DEF replace_target
    <2>3. pc \in {"dirsync", "return"} /\ pc \in FilePcs
      BY <2>1 DEF FilePcs
    <2>4. /\ writer' \in [FileWriters -> Writer] /\ writer'[w].pc = pc /\ writer'[w].doc = writer[w].doc
          /\ \A v \in FileWriters \ {w} : writer'[v] = writer[v]
      BY <1>1, <2>2, <2>3, WriterMoves
    <2>5. tmp \in DOMAIN inodes
      BY <1>1, <1>2, <1>4, TempIsNoTarget DEF FileTypes
    <2>6. entries' \in [Names -> DOMAIN inodes \cup {NONE}] /\ entries'["target"] = tmp
          /\ \A i \in Names \ {"target", temp_name(w)} : entries'[i] = entries[i]
      BY <1>1, <2>2, <2>5, TempIsNoTarget DEF FileTypes, Names
    <2>7. FileTypes'
      BY <1>1, <2>3, <2>4, <2>5, <2>6 DEF FileTypes, Writer
    <2>8. ASSUME Apart
          PROVE  tmp = writer[w].inode /\ inodes[tmp].doc = writer[w].doc
                 /\ inodes[tmp].whole /\ inodes[tmp].synced
      BY <1>1, <1>2, <2>8 DEF FileIInv, Owns
    <2>9. ASSUME Apart PROVE Solid(entries["target"])' /\ Solid(synced)' /\ \A v \in FileWriters : Owns(v)'
      <3>1. Solid(synced)
        BY <2>9 DEF FileIInv
      <3>2. Solid(entries["target"])' /\ Solid(synced)'
        BY <1>1, <2>6, <2>8, <2>9, <3>1 DEF Solid
      <3>3. Grows
        BY <1>1 DEF Grows
      <3>4. Owns(w)'
        BY <2>3, <2>4 DEF Owns
      <3>5. \A v \in FileWriters \ {w} : Owns(v)'
        BY <1>1, <2>4, <2>6, <2>9, <3>3, OthersOwn
      <3> QED
        BY <3>2, <3>4, <3>5
    <2>10. ASSUME tool.locked PROVE Serial'
      <3>1. Serial
        BY <2>10 DEF FileIInv
      <3>2. pc = "dirsync"
        BY <1>1, <2>1, <2>10, LockedSyncs DEF FileTypes
      <3>3. inodes[tmp].doc = writes /\ writer[w].doc = writes
        BY <1>1, <2>8, <2>10, <3>1 DEF Serial, Apart
      <3>4. \A v \in FileWriters \ {w} : writer'[v].pc = "idle"
        BY <1>1, <2>4, <3>1 DEF Serial
      <3>5. writes \in Nat /\ acked \in Nat /\ acked <= writes
        BY <1>1, <3>1, FileConstants DEF FileTypes, Serial
      <3> QED
        BY <1>1, <2>4, <2>6, <3>1, <3>2, <3>3, <3>4, <3>5 DEF Serial
    <2> QED
      BY <2>7, <2>9, <2>10 DEF FileIInv, Apart
  <1> QED
    BY <1>3, <1>4

LEMMA FsyncDirectory ==
  ASSUME FileIInv, NEW w \in FileWriters, fsync_directory(w), UNCHANGED tool
  PROVE  FileIInv'
  <1>1. FileTypes /\ writer[w].pc = "dirsync" /\ WriterTo(w, "return") /\ synced' = entries["target"]
        /\ UNCHANGED <<inodes, entries, acked, writes>>
    BY DEF FileIInv, fsync_directory, WriterAt
  <1>2. /\ writer' \in [FileWriters -> Writer] /\ writer'[w].pc = "return" /\ writer'[w].doc = writer[w].doc
        /\ \A v \in FileWriters \ {w} : writer'[v] = writer[v]
    BY <1>1, WriterMoves DEF FilePcs
  <1>3. FileTypes'
    BY <1>1, <1>2 DEF FileTypes, Writer
  <1>4. ASSUME Apart PROVE Solid(entries["target"])' /\ Solid(synced)' /\ \A v \in FileWriters : Owns(v)'
    <2>1. Solid(entries["target"]) /\ \A v \in FileWriters : Owns(v)
      BY <1>4 DEF FileIInv
    <2>2. Grows
      BY <1>1 DEF Grows
    <2>3. Owns(w)'
      BY <1>2 DEF Owns
    <2>4. \A v \in FileWriters \ {w} : Owns(v)'
      BY <1>1, <1>2, <2>1, <2>2, OwnsKept
    <2> QED
      BY <1>1, <2>1, <2>3, <2>4 DEF Solid
  <1>5. ASSUME tool.locked PROVE Serial'
    <2>1. Serial
      BY <1>5 DEF FileIInv
    <2>2. \A v \in FileWriters \ {w} : writer'[v].pc = "idle"
      BY <1>1, <1>2, <2>1 DEF Serial
    <2> QED
      BY <1>1, <1>2, <2>1, <2>2 DEF Serial
  <1> QED
    BY <1>3, <1>4, <1>5 DEF FileIInv, Apart

\* The end of a write, or its failure after the rename, removes the temporary name.
LEMMA WriteEnds ==
  ASSUME FileIInv, NEW w \in FileWriters, writer[w].pc \in {"dirsync", "swallowed", "return"},
         writer' = [writer EXCEPT ![w] = FileIdle], Cleaned(w),
         acked' = acked \/ (acked' = writer[w].doc /\ writer[w].pc = "return"),
         UNCHANGED <<tool, inodes, synced, writes>>
  PROVE  FileIInv'
  <1>1. FileTypes
    BY DEF FileIInv
  <1>2. entries' = entries \/ entries' = [entries EXCEPT ![temp_name(w)] = NONE]
    BY DEF Cleaned
  <1>3. /\ writer' \in [FileWriters -> Writer] /\ writer'[w].pc = "idle"
        /\ \A v \in FileWriters \ {w} : writer'[v] = writer[v]
    BY <1>1, WriterRests
  <1>4. entries' \in [Names -> DOMAIN inodes \cup {NONE}] /\ entries'["target"] = entries["target"]
        /\ \A n \in Names \ {"target", temp_name(w)} : entries'[n] = entries[n]
    BY <1>1, <1>2, TempIsNoTarget DEF FileTypes, Names
  <1>5. writer[w].doc \in Nat /\ acked \in Nat /\ acked' \in Nat
    BY <1>1, FileConstants DEF FileTypes
  <1>6. FileTypes'
    BY <1>1, <1>3, <1>4, <1>5 DEF FileTypes, Writer
  <1>7. ASSUME Apart PROVE Solid(entries["target"])' /\ Solid(synced)' /\ \A v \in FileWriters : Owns(v)'
    <2>1. Solid(entries["target"]) /\ Solid(synced)
      BY <1>7 DEF FileIInv
    <2>2. Grows
      BY DEF Grows
    <2>3. Owns(w)'
      BY <1>3 DEF Owns
    <2>4. writer[w].pc # "idle"
      OBVIOUS
    <2>5. \A v \in FileWriters \ {w} : Owns(v)'
      BY <1>3, <1>4, <1>7, <2>2, <2>4, OthersOwn
    <2> QED
      BY <1>4, <2>1, <2>3, <2>5 DEF Solid
  <1>8. ASSUME tool.locked PROVE Serial'
    <2>1. Serial
      BY <1>8 DEF FileIInv
    <2>2. \A v \in FileWriters : writer'[v].pc = "idle"
      BY <1>3, <2>1 DEF Serial
    <2>3. writer[w].doc = writes /\ acked <= writes /\ inodes[entries["target"]].doc = writes
          /\ (writer[w].pc = "return" => inodes[synced].doc = writes)
          /\ inodes[entries["target"]].doc >= acked /\ inodes[synced].doc >= acked
      BY <2>1 DEF Serial
    <2>4. writes \in Nat
      BY <1>1, FileConstants DEF FileTypes
    <2>5. acked' <= writes /\ inodes[entries["target"]].doc >= acked' /\ inodes[synced].doc >= acked'
      BY <1>5, <2>3, <2>4
    <2> QED
      BY <1>4, <2>2, <2>5 DEF Serial
  <1> QED
    BY <1>6, <1>7, <1>8 DEF FileIInv, Apart

LEMMA WriteReturns ==
  ASSUME FileIInv, NEW w \in FileWriters, write_returns(w), UNCHANGED tool
  PROVE  FileIInv'
  <1>1. /\ writer[w].pc \in {"dirsync", "swallowed", "return"} /\ Cleaned(w)
        /\ writer' = [writer EXCEPT ![w] = FileIdle] /\ UNCHANGED <<inodes, synced, writes>>
    BY DEF write_returns, WriterAt
  <1>2. acked' = acked \/ (acked' = writer[w].doc /\ writer[w].pc = "return")
    BY DEF write_returns, WriterAt
  <1> QED
    BY <1>1, <1>2, WriteEnds

\* The renamed file is the newest, whether the directory is synced or not.
LEMMA DirectorySyncFails ==
  ASSUME FileIInv, NEW w \in FileWriters, directory_fsync_fails(w), UNCHANGED tool
  PROVE  FileIInv'
  <1>1. FileTypes /\ writer[w].pc = "dirsync" /\ UNCHANGED <<inodes, synced, acked, writes>>
    BY DEF FileIInv, directory_fsync_fails, WriterAt
  <1>2. CASE tool # thin_state_save
    BY <1>1, <1>2, WriteEnds DEF directory_fsync_fails
  <1>3. CASE tool = thin_state_save
    <2>1. WriterTo(w, "swallowed") /\ UNCHANGED entries
      BY <1>3 DEF directory_fsync_fails
    <2>2. /\ writer' \in [FileWriters -> Writer] /\ writer'[w].pc = "swallowed" /\ writer'[w].doc = writer[w].doc
          /\ \A v \in FileWriters \ {w} : writer'[v] = writer[v]
      BY <1>1, <2>1, WriterMoves DEF FilePcs
    <2>3. FileTypes'
      BY <1>1, <2>1, <2>2 DEF FileTypes, Writer
    <2>4. ASSUME Apart PROVE Solid(entries["target"])' /\ Solid(synced)' /\ \A v \in FileWriters : Owns(v)'
      <3>1. Solid(entries["target"]) /\ Solid(synced) /\ \A v \in FileWriters : Owns(v)
        BY <2>4 DEF FileIInv
      <3>2. Grows
        BY <1>1 DEF Grows
      <3>3. Owns(w)'
        BY <2>2 DEF Owns
      <3>4. \A v \in FileWriters \ {w} : Owns(v)'
        BY <2>1, <2>2, <3>1, <3>2, OwnsKept
      <3> QED
        BY <1>1, <2>1, <3>1, <3>3, <3>4 DEF Solid
    <2>5. ASSUME tool.locked PROVE Serial'
      <3>1. Serial
        BY <2>5 DEF FileIInv
      <3>2. \A v \in FileWriters \ {w} : writer'[v].pc = "idle"
        BY <1>1, <2>2, <3>1 DEF Serial
      <3> QED
        BY <1>1, <2>1, <2>2, <3>1, <3>2 DEF Serial
    <2> QED
      BY <2>3, <2>4, <2>5 DEF FileIInv, Apart
  <1> QED
    BY <1>2, <1>3

\* What was solid was synced, so nothing of it is torn, and both the name in the directory
\* and the name it may go back to were solid.
LEMMA PowerIsLost ==
  ASSUME FileIInv, PowerLoss, UNCHANGED tool
  PROVE  FileIInv'
  <1>1. FileTypes /\ UNCHANGED <<acked, writes>> /\ writer' = [w \in FileWriters |-> FileIdle]
    BY DEF FileIInv, PowerLoss
  <1>2. PICK torn \in SUBSET {n \in DOMAIN inodes : ~inodes[n].synced} :
           inodes' = [n \in DOMAIN inodes |->
                        [inodes[n] EXCEPT !.whole = @ /\ n \notin torn, !.synced = TRUE]]
    BY DEF PowerLoss
  <1>3. PICK target \in {synced, entries["target"]} :
           entries' = [entries EXCEPT !["target"] = target] /\ synced' = target
    BY DEF PowerLoss
  <1>4. \A n \in DOMAIN inodes :
           /\ inodes'[n] \in Inode /\ inodes'[n].doc = inodes[n].doc /\ inodes'[n].synced
           /\ inodes[n].whole /\ inodes[n].synced => inodes'[n].whole
    <2> SUFFICES ASSUME NEW n \in DOMAIN inodes
        PROVE /\ inodes'[n] \in Inode /\ inodes'[n].doc = inodes[n].doc /\ inodes'[n].synced
              /\ inodes[n].whole /\ inodes[n].synced => inodes'[n].whole
      OBVIOUS
    <2>1. PICK old \in Inode : old = inodes[n]
      BY <1>1 DEF FileTypes
    <2>2. PICK keep : keep = (old.whole /\ n \notin torn)
      OBVIOUS
    <2>3. keep \in BOOLEAN
      BY <2>2
    <2>4. inodes'[n] = [old EXCEPT !.whole = keep, !.synced = TRUE]
      BY <1>2, <2>1, <2>2
    <2>5. inodes'[n] \in Inode /\ inodes'[n].doc = old.doc /\ inodes'[n].synced = TRUE
          /\ inodes'[n].whole = keep
      BY <2>1, <2>3, <2>4 DEF Inode
    <2>6. old.whole /\ old.synced => keep
      BY <1>2, <2>1, <2>2, Zenon
    <2>7. inodes[n].whole /\ inodes[n].synced => inodes'[n].whole
      BY <2>1, <2>5, <2>6, Zenon
    <2> QED
      BY <2>1, <2>5, <2>7, Zenon
  <1>5. DOMAIN inodes' = DOMAIN inodes /\ inodes' \in Seq(Inode)
    <2>1. DOMAIN inodes = 1 .. Len(inodes) /\ Len(inodes) \in Nat
      BY <1>1, LenProperties DEF FileTypes
    <2>2. DOMAIN inodes' = 1 .. Len(inodes)
      BY <1>2, <2>1
    <2>3. inodes' \in [1 .. Len(inodes) -> Inode]
      BY <1>2, <1>4, <2>1
    <2>4. PICK n \in Nat : n = Len(inodes)
      BY <2>1
    <2>5. inodes' \in Seq(Inode)
      BY <2>3, <2>4
    <2> QED
      BY <2>1, <2>2, <2>5
  <1>6. target \in DOMAIN inodes /\ entries'["target"] = target
        /\ entries' \in [Names -> DOMAIN inodes \cup {NONE}]
    BY <1>1, <1>3 DEF FileTypes, Names
  <1>7. writer' \in [FileWriters -> Writer] /\ \A w \in FileWriters : writer'[w].pc = "idle"
    BY <1>1, FileConstants DEF FileIdle, Writer, FilePcs
  <1>8. FileTypes'
    BY <1>1, <1>3, <1>5, <1>6, <1>7 DEF FileTypes, Writer
  <1>9. ASSUME Apart PROVE Solid(entries["target"])' /\ Solid(synced)' /\ \A v \in FileWriters : Owns(v)'
    <2>1. Solid(target)
      BY <1>3, <1>9 DEF FileIInv
    <2>2. inodes'[target].whole /\ inodes'[target].synced
      BY <1>4, <1>6, <2>1 DEF Solid
    <2> QED
      BY <1>3, <1>6, <1>7, <2>2 DEF Solid, Owns
  <1>10. ASSUME tool.locked PROVE Serial'
    <2>1. Serial
      BY <1>10 DEF FileIInv
    <2>2. inodes'[target].doc >= acked
      BY <1>3, <1>4, <1>6, <2>1 DEF Serial
    <2> QED
      BY <1>1, <1>3, <1>6, <1>7, <2>1, <2>2 DEF Serial
  <1> QED
    BY <1>8, <1>9, <1>10 DEF FileIInv, Apart

\* Whatever crashes when, for any number of writers and documents: a file that one lock or
\* fresh temporary names protect is always one whole document (_read_state and its siblings
\* open nothing else), and under the lock no write that has returned is undone
\* (_replace_private_state), but for a save of the thin validator whose directory sync
\* failed unsaid (core.py 818).
THEOREM FilesDurable == FileSpec => []FileInv
  <1>1. FileInit => FileIInv
    BY FileBegins
  <1>2. FileIInv /\ [FileNext]_fileVars => FileIInv'
    <2> SUFFICES ASSUME FileIInv, [FileNext]_fileVars PROVE FileIInv'
      OBVIOUS
    <2>1. CASE UNCHANGED fileVars
      BY <2>1 DEF fileVars, FileIInv, FileTypes, Apart, Solid, Owns, temp_name, Serial
    <2>2. CASE FileNext
      <3>1. UNCHANGED tool
        BY <2>2 DEF FileNext
      <3>2. CASE FileFault
        <4>1. ASSUME NEW w \in FileWriters, ProcessDies(w) PROVE FileIInv'
          BY <3>1, <4>1, GivesUp DEF ProcessDies
        <4>2. ASSUME NEW w \in FileWriters, directory_fsync_fails(w) PROVE FileIInv'
          BY <3>1, <4>2, DirectorySyncFails
        <4> QED
          BY <3>1, <3>2, <4>1, <4>2, PowerIsLost DEF FileFault
      <3>3. ASSUME NEW w \in FileWriters, WriteStep(w) PROVE FileIInv'
        BY <3>1, <3>3, BeginWrite, UnlinkTemporary, CreateExclusive, WriteDocument, FsyncFile,
           ReplaceTarget, FsyncDirectory, WriteReturns DEF WriteStep
      <3> QED
        BY <2>2, <3>2, <3>3 DEF FileNext
    <2> QED
      BY <2>1, <2>2
  <1>3. FileIInv => FileInv
    BY DEF FileIInv, FileInv, FileTypes, FileTypeOK, NeverTorn, ReturnedSurvives, Apart, Solid, Serial
  <1> QED
    BY <1>1, <1>2, <1>3, PTL DEF FileSpec

-----------------------------------------------------------------------------
\* The public release

\* The releases a finalizer may seal.
Sealable == {rel \in {ReleaseOf(req) : req \in Requests} : rel.wrong = {}}
FinalizerPcs == {"idle", "prove", "enter", "examine", "refuse", "refused", "restage", "create", "write",
                 "link", "sync", "unstage", "leave"}
\* Where a finalizer holds the lock of its directory, and what it relies on there.
Holding == {"examine", "refuse", "restage", "create", "write", "link", "sync", "unstage", "leave"}
Empty == {"restage", "create", "write", "link"}
Filled == {"sync", "unstage", "leave"}

Payloads(n) == IF n = "blob" THEN {"replay"} ELSE Sealable
PublicFile(n) ==
    [pending : Payloads(n) \cup {NONE}, whole : BOOLEAN, final : Payloads(n) \cup {NONE}, linked : BOOLEAN]
RunFile(p) == pubDir[NameAt(p)]
RunPayload(p) == PayloadOf(finalizer[p].req, NameAt(p))

Directory(dir) == dir = [n \in PublicNames |-> dir[n]]
RelTypes ==
    /\ \A n \in PublicNames : pubDir[n] \in PublicFile(n) /\ durableDir[n] \in PublicFile(n)
    /\ Directory(pubDir) /\ Directory(durableDir)
    /\ finalizer \in [Finalizers -> [pc : FinalizerPcs, req : Requests \cup {NONE}, step : 1 .. 3]]
    /\ \A p \in Finalizers : finalizer[p].pc # "idle" => finalizer[p].req \in Requests
    /\ \A p \in Finalizers : finalizer[p].pc \notin {"idle", "prove"} => ReleaseOf(finalizer[p].req) \in Sealable
    /\ pubLock \in [{"blobs", "root"} -> Finalizers \cup {NONE}]

\* The seal of a release: on disk before its signature is, and for good.
Sealed(rel) == rel # NONE /\ durableDir["release"].final = rel

\* A linked name is the staged one.
LinksRight(file) == file.linked => file.final # NONE /\ file.final = file.pending
RunRight(p) ==
    /\ finalizer[p].pc \in Holding => pubLock[DirectoryOf(NameAt(p))] = p
    /\ finalizer[p].pc \in Empty => RunFile(p).final = NONE
    /\ finalizer[p].pc = "link" => RunFile(p).pending = RunPayload(p)
    /\ finalizer[p].pc = "write" => RunFile(p).pending = RunPayload(p)
    /\ finalizer[p].pc \in Filled => RunFile(p).final = RunPayload(p)
    /\ finalizer[p].pc = "refuse" => RunFile(p).final \notin {NONE, RunPayload(p)}
    /\ finalizer[p].step = 3 => Sealed(ReleaseOf(finalizer[p].req))

DirectoriesRight ==
    /\ \A n \in PublicNames : LinksRight(pubDir[n]) /\ LinksRight(durableDir[n])
    /\ \A n \in PublicNames : durableDir[n].final # NONE => pubDir[n].final = durableDir[n].final
    /\ pubDir["sig"].final # NONE => Sealed(pubDir["sig"].final)

ReaderRight ==
    /\ reader.pc \in {"idle", "sig", "verify", "done"}
    /\ reader = [pc |-> reader.pc, rev |-> reader.rev, release |-> reader.release, sig |-> reader.sig,
                 verdict |-> reader.verdict]
    /\ reader.pc # "done" => reader.verdict = NONE
    /\ reader.pc # "idle" => reader.release \in Sealable \cup {NONE}
    /\ reader.pc \in {"verify", "done"} => (reader.sig # NONE => Sealed(reader.sig))
    /\ reader.verdict = "PASS" => reader.release \in passed
    /\ reader.verdict = "FAIL" =>
          \/ reader.release.sha # reader.rev
          \/ reader.sig # NONE /\ reader.sig # reader.release
PassedRight ==
    /\ \A rel \in passed : Sealed(rel) /\ rel \in Sealable
    /\ reconciled # NONE => reconciled \in passed

RelIInv ==
    /\ RelTypes
    /\ \A p \in Finalizers : RunRight(p)
    /\ DirectoriesRight
    /\ ReaderRight
    /\ PassedRight

Run == [pc : FinalizerPcs, req : Requests \cup {NONE}, step : 1 .. 3]

\* What a step leaves of the directories: finals stay, and a sync takes what is there.
DirStep ==
    /\ \A n \in PublicNames : pubDir'[n] \in PublicFile(n) /\ durableDir'[n] \in PublicFile(n)
    /\ Directory(pubDir') /\ Directory(durableDir')
    /\ DirectoriesRight'
    /\ \A rel : Sealed(rel) => Sealed(rel)'
    /\ durableDir["release"].final # NONE => durableDir'["release"].final = durableDir["release"].final

LEMMA NameIsPublic ==
  ASSUME RelTypes, NEW p \in Finalizers
  PROVE  /\ NameAt(p) \in PublicNames
         /\ NameAt(p) = IF finalizer[p].step = 1 THEN "blob" ELSE IF finalizer[p].step = 2 THEN "release" ELSE "sig"
  <1>1. finalizer[p].step \in 1 .. 3
    BY DEF RelTypes
  <1>2. finalizer[p].step = 1 \/ finalizer[p].step = 2 \/ finalizer[p].step = 3
    BY <1>1
  <1> QED
    BY <1>2 DEF NameAt, Names3, PublicNames

\* A sealable release passes every check a reader repeats.
LEMMA SealablePasses ==
  ASSUME NEW rel \in Sealable
  PROVE  /\ validate_launch_submission(rel) /\ verify_historical_launch(rel) /\ verify_frozen_evidence(rel)
         /\ rel # NONE
  <1>1. rel.wrong = {}
    BY DEF Sealable
  <1>2. \A facts : Agrees(rel, facts)
    BY <1>1 DEF Agrees
  <1>3. rel # NONE
    BY ReleaseConstants DEF Sealable, ReleaseOf
  <1> QED
    BY <1>2, <1>3
    DEF validate_launch_submission, validate_post_rotation_boundary, verify_historical_launch,
        recompute_uid_safety, recompute_swap_safety, inclusion_block_proven, inclusion_call_proven,
        verify_frozen_evidence, validate_frozen_manifest, validate_controlled_replay_result,
        verify_historical_candidates

\* What the finalizer proves covers every fact a release states.
LEMMA ProofsCover ==
  ASSUME NEW req \in Requests, build_release(req), verify_frozen_evidence(ReleaseOf(req))
  PROVE  ReleaseOf(req) \in Sealable
  <1> DEFINE doc == ReleaseOf(req)
  <1>1. doc.wrong = req.journal.wrong /\ doc.wrong \subseteq ReleaseFacts
    BY ReleaseConstants DEF ReleaseOf
  <1>2. /\ doc.wrong \cap {"intent"} = {} /\ doc.wrong \cap {"mapping"} = {}
        /\ doc.wrong \cap {"rotation"} = {} /\ doc.wrong \cap {"swap"} = {}
        /\ doc.wrong \cap {"registration"} = {} /\ doc.wrong \cap {"envelope"} = {}
        /\ doc.wrong \cap {"replay"} = {}
    BY <1>1
    DEF build_release, read_launch_journal, launch_identity_proven, validated_broadcast_intent,
        archive_snapshot, archive_uid_safety, archive_swap_safety, archive_rotation_receipt,
        replay_frozen_controlled_positive, replay_rewarded_envelopes, read_controlled_envelope, Agrees
  <1>3. doc.wrong \cap {"index", "manifest", "evidence"} = {}
    BY <1>1 DEF build_release, read_launch_journal, replay_frozen_controlled_positive, Agrees
  <1>4. /\ doc.wrong \cap {"shape"} = {} /\ doc.wrong \cap {"vector", "mapping"} = {}
        /\ doc.wrong \cap {"inclusion"} = {} /\ doc.wrong \cap {"call", "era", "weights"} = {}
    BY DEF build_release, verify_historical_launch, validate_launch_submission, inclusion_block_proven,
           inclusion_call_proven, Agrees
  <1>5. doc.wrong \cap {"candidates"} = {}
    BY DEF verify_frozen_evidence, verify_historical_candidates, Agrees
  <1> HIDE DEF doc
  <1>6. doc.wrong = {}
    BY <1>1, <1>2, <1>3, <1>4, <1>5 DEF ReleaseFacts
  <1> QED
    BY <1>6 DEF Sealable, doc

LEMMA PayloadTyped ==
  ASSUME RelTypes, NEW p \in Finalizers, finalizer[p].pc \notin {"idle", "prove"}
  PROVE  RunPayload(p) \in Payloads(NameAt(p)) /\ RunPayload(p) # NONE
  <1>1. ReleaseOf(finalizer[p].req) \in Sealable
    BY DEF RelTypes
  <1>2. ReleaseOf(finalizer[p].req) # NONE
    BY <1>1, SealablePasses
  <1> QED
    BY <1>1, <1>2, NameIsPublic, ReleaseConstants DEF RunPayload, PayloadOf, Payloads, build_signature

\* The directories under a step that replaces one file and may sync its directory.
LEMMA OneFileStep ==
  ASSUME RelTypes, DirectoriesRight, NEW p \in Finalizers, NEW file \in PublicFile(NameAt(p)),
         pubDir' = [pubDir EXCEPT ![NameAt(p)] = file],
         LinksRight(file),
         pubDir[NameAt(p)].final # NONE => file.final = pubDir[NameAt(p)].final,
         NameAt(p) = "sig" /\ file.final # NONE => Sealed(file.final),
         durableDir' = durableDir \/ fsync_public_directory(p, pubDir')
  PROVE  DirStep
  <1>1. PICK n \in PublicNames : n = NameAt(p)
    BY NameIsPublic
  <1>2. pubDir'[n] = file /\ \A m \in PublicNames \ {n} : pubDir'[m] = pubDir[m]
    BY <1>1 DEF RelTypes, Directory
  <1>3. \A m \in PublicNames : durableDir'[m] = durableDir[m] \/ durableDir'[m] = pubDir'[m]
    BY DEF fsync_public_directory
  <1>4. Directory(pubDir') /\ Directory(durableDir')
    BY DEF fsync_public_directory, RelTypes, Directory
  <1>5. \A m \in PublicNames : pubDir'[m] \in PublicFile(m) /\ LinksRight(pubDir'[m])
    BY <1>1, <1>2 DEF RelTypes, DirectoriesRight
  <1>6. \A m \in PublicNames : durableDir'[m] \in PublicFile(m) /\ LinksRight(durableDir'[m])
    BY <1>3, <1>5 DEF RelTypes, DirectoriesRight
  <1>7. \A m \in PublicNames : pubDir[m].final # NONE => pubDir'[m].final = pubDir[m].final
    BY <1>1, <1>2
  <1>8. \A m \in PublicNames : durableDir[m].final # NONE => durableDir'[m].final = durableDir[m].final
    BY <1>3, <1>7 DEF DirectoriesRight
  <1>9. \A m \in PublicNames : durableDir'[m].final # NONE => pubDir'[m].final = durableDir'[m].final
    BY <1>3, <1>7 DEF DirectoriesRight
  <1>10. \A rel : Sealed(rel) => Sealed(rel)'
    BY <1>8 DEF Sealed, PublicNames
  <1>11. pubDir'["sig"].final # NONE => Sealed(pubDir'["sig"].final)
    BY <1>1, <1>2 DEF DirectoriesRight, PublicNames
  <1>12. pubDir'["sig"].final # NONE => Sealed(pubDir["sig"].final)'
    BY <1>10, <1>11 DEF Sealed
  <1>13. DirectoriesRight'
    BY <1>5, <1>6, <1>9, <1>12 DEF DirectoriesRight, LinksRight
  <1> QED
    BY <1>4, <1>5, <1>6, <1>8, <1>10, <1>13 DEF DirStep, PublicNames

\* Another finalizer's name is another one, or nobody's business without the lock.
LEMMA OtherRuns ==
  ASSUME RelIInv, NEW p \in Finalizers, NEW q \in Finalizers \ {p}, DirStep,
         finalizer'[q] = finalizer[q],
         \A m \in PublicNames \ {NameAt(p)} : pubDir'[m] = pubDir[m],
         pubDir' = pubDir \/ finalizer[p].pc \in Holding,
         \A d \in {"blobs", "root"} : pubLock[d] \notin {NONE, p} => pubLock'[d] = pubLock[d]
  PROVE  RunRight(q)'
  <1>1. RelTypes /\ RunRight(q) /\ RunRight(p)
    BY DEF RelIInv
  <1>2. NameAt(q)' = NameAt(q) /\ RunPayload(q)' = RunPayload(q) /\ NameAt(q) \in PublicNames
    BY <1>1, NameIsPublic DEF NameAt, RunPayload
  <1>3. finalizer'[q].step = 3 => Sealed(ReleaseOf(finalizer[q].req))'
    <2>1. finalizer[q].step = 3 => Sealed(ReleaseOf(finalizer[q].req))
      BY <1>1 DEF RunRight
    <2> QED
      BY <2>1 DEF DirStep, Sealed, ReleaseOf
  <1>4. CASE finalizer[q].pc \notin Holding
    BY <1>1, <1>3, <1>4 DEF RunRight, Holding, Empty, Filled
  <1>5. CASE finalizer[q].pc \in Holding
    <2>1. pubLock[DirectoryOf(NameAt(q))] = q
      BY <1>1, <1>5 DEF RunRight
    <2>2. DirectoryOf(NameAt(q)) \in {"blobs", "root"} /\ q # NONE
      BY ReleaseConstants DEF DirectoryOf
    <2>3. pubLock'[DirectoryOf(NameAt(q))] = q
      BY <2>1, <2>2
    <2>4. pubDir'[NameAt(q)] = pubDir[NameAt(q)]
      <3>1. CASE pubDir' = pubDir
        BY <3>1
      <3>2. CASE finalizer[p].pc \in Holding
        <4>1. NameAt(q) # NameAt(p)
          BY <1>1, <2>1, <3>2 DEF RunRight
        <4> QED
          BY <1>2, <4>1
      <3> QED
        BY <3>1, <3>2
    <2>5. RunFile(q)' = RunFile(q)
      BY <1>2, <2>4 DEF RunFile
    <2> QED
      BY <1>1, <1>2, <1>3, <2>3, <2>5 DEF RunRight
  <1> QED
    BY <1>4, <1>5

LEMMA ReadersKept ==
  ASSUME ReaderRight, PassedRight, DirStep, UNCHANGED <<reader, passed, reconciled>>
  PROVE  ReaderRight' /\ PassedRight'
  <1>1. \A rel : Sealed(rel) => Sealed(rel)'
    BY DEF DirStep
  <1>2. ReaderRight'
    BY <1>1 DEF ReaderRight
  <1>3. \A rel \in passed' : rel \in Sealable /\ Sealed(rel)'
    BY <1>1 DEF PassedRight
  <1>4. PassedRight'
    BY <1>3 DEF PassedRight, Sealed
  <1> QED
    BY <1>2, <1>4

LEMMA DirUnchanged ==
  ASSUME RelTypes, DirectoriesRight, UNCHANGED <<pubDir, durableDir>> PROVE DirStep
  <1>1. DirectoriesRight'
    BY DEF DirectoriesRight, LinksRight, Sealed
  <1> QED
    BY <1>1 DEF DirStep, RelTypes, Sealed

\* A step of one finalizer, in its parts.
LEMMA RunStep ==
  ASSUME RelIInv, NEW p \in Finalizers, NEW r \in Run, DirStep,
         finalizer' = [finalizer EXCEPT ![p] = r],
         r.pc # "idle" => r.req \in Requests,
         r.pc \notin {"idle", "prove"} => ReleaseOf(r.req) \in Sealable,
         pubLock' \in [{"blobs", "root"} -> Finalizers \cup {NONE}],
         RunRight(p)',
         \A m \in PublicNames \ {NameAt(p)} : pubDir'[m] = pubDir[m],
         pubDir' = pubDir \/ finalizer[p].pc \in Holding,
         \A d \in {"blobs", "root"} : pubLock[d] \notin {NONE, p} => pubLock'[d] = pubLock[d],
         UNCHANGED <<reader, passed, reconciled>>
  PROVE  RelIInv'
  <1>1. RelTypes /\ ReaderRight /\ PassedRight
    BY DEF RelIInv
  <1>2. finalizer' \in [Finalizers -> Run] /\ finalizer'[p] = r
        /\ \A q \in Finalizers \ {p} : finalizer'[q] = finalizer[q]
    BY <1>1 DEF RelTypes, Run
  <1>3. RelTypes'
    <2>1. \A q \in Finalizers :
             /\ finalizer'[q].pc # "idle" => finalizer'[q].req \in Requests
             /\ finalizer'[q].pc \notin {"idle", "prove"} => ReleaseOf(finalizer'[q].req) \in Sealable
      BY <1>1, <1>2 DEF RelTypes
    <2> QED
      BY <1>2, <2>1 DEF RelTypes, DirStep, Run
  <1>4. \A q \in Finalizers : RunRight(q)'
    <2>1. \A q \in Finalizers \ {p} : RunRight(q)'
      BY <1>2, OtherRuns
    <2> QED
      BY <2>1
  <1>5. ReaderRight' /\ PassedRight'
    BY <1>1, ReadersKept
  <1> QED
    BY <1>3, <1>4, <1>5 DEF RelIInv, DirStep

LEMMA RunMoves ==
  ASSUME RelTypes, NEW p \in Finalizers, NEW pc \in FinalizerPcs, finalizer[p].pc # "idle", PcTo(p, pc)
  PROVE  \E r \in Run : /\ finalizer' = [finalizer EXCEPT ![p] = r]
                        /\ r.pc = pc /\ r.req = finalizer[p].req /\ r.step = finalizer[p].step
  <1>1. finalizer \in [Finalizers -> Run]
    BY DEF RelTypes, Run
  <1>2. PICK old \in Run : old = finalizer[p]
    BY <1>1
  <1> DEFINE r == [old EXCEPT !.pc = pc]
  <1>3. r \in Run /\ r.pc = pc /\ r.req = finalizer[p].req /\ r.step = finalizer[p].step
    BY <1>2 DEF Run
  <1>4. finalizer' = [finalizer EXCEPT ![p] = r]
    BY <1>1, <1>2 DEF PcTo
  <1> QED
    BY <1>3, <1>4

\* A step under the lock: the name gets the file, and the file is what the next step relies on.
LEMMA HeldStep ==
  ASSUME RelIInv, NEW p \in Finalizers, NEW pc \in Holding, finalizer[p].pc \in Holding, PcTo(p, pc),
         NEW file \in PublicFile(NameAt(p)),
         pubDir' = [pubDir EXCEPT ![NameAt(p)] = file],
         LinksRight(file),
         file.final = RunFile(p).final \/ (RunFile(p).final = NONE /\ file.final = RunPayload(p)),
         durableDir' = durableDir \/ fsync_public_directory(p, pubDir'),
         pc \in Empty => file.final = NONE,
         pc \in {"link", "write"} => file.pending = RunPayload(p),
         pc \in Filled => file.final = RunPayload(p),
         pc = "refuse" => file.final \notin {NONE, RunPayload(p)},
         UNCHANGED <<pubLock, reader, passed, reconciled>>
  PROVE  RelIInv'
  <1>1. RelTypes /\ RunRight(p) /\ DirectoriesRight
    BY DEF RelIInv
  <1>2. PICK n \in PublicNames : n = NameAt(p)
    BY <1>1, NameIsPublic
  <1>3. finalizer[p].pc \notin {"idle", "prove"} /\ pc \in FinalizerPcs /\ pc \notin {"idle", "prove"}
    BY DEF Holding, FinalizerPcs
  <1>4. PICK r \in Run : /\ finalizer' = [finalizer EXCEPT ![p] = r]
                         /\ r.pc = pc /\ r.req = finalizer[p].req /\ r.step = finalizer[p].step
    BY <1>1, <1>3, RunMoves
  <1>5. n = "sig" /\ file.final # NONE => Sealed(file.final)
    <2>1. SUFFICES ASSUME n = "sig", file.final # NONE PROVE Sealed(file.final)
      OBVIOUS
    <2>2. CASE file.final = RunFile(p).final
      BY <1>1, <1>2, <2>1, <2>2 DEF RunFile, DirectoriesRight
    <2>3. CASE file.final = RunPayload(p)
      <3>1. finalizer[p].step = 3
        <4>1. NameAt(p) = IF finalizer[p].step = 1 THEN "blob"
                          ELSE IF finalizer[p].step = 2 THEN "release" ELSE "sig"
          BY <1>1, NameIsPublic
        <4>2. finalizer[p].step \in 1 .. 3
          BY <1>1 DEF RelTypes
        <4>3. finalizer[p].step = 1 \/ finalizer[p].step = 2 \/ finalizer[p].step = 3
          BY <4>2
        <4>4. NameAt(p) = "sig"
          BY <1>2, <2>1
        <4> QED
          BY <4>1, <4>3, <4>4
      <3>2. RunPayload(p) = ReleaseOf(finalizer[p].req)
        BY <1>2, <2>1 DEF RunPayload, PayloadOf, build_signature
      <3> QED
        BY <1>1, <2>3, <3>1, <3>2 DEF RunRight
    <2> QED
      BY <2>2, <2>3
  <1>6. pubDir[NameAt(p)].final # NONE => file.final = pubDir[NameAt(p)].final
    BY DEF RunFile
  <1>7. DirStep
    BY <1>1, <1>2, <1>5, <1>6, OneFileStep
  <1>8. finalizer'[p] = r
    BY <1>1, <1>4 DEF RelTypes
  <1>9. NameAt(p)' = NameAt(p) /\ RunPayload(p)' = RunPayload(p)
    BY <1>4, <1>8 DEF NameAt, RunPayload, PayloadOf, ReleaseOf, build_signature
  <1>10. pubDir'[NameAt(p)] = file
    BY <1>1, <1>2 DEF RelTypes, Directory
  <1>11. RunFile(p)' = file
    BY <1>9, <1>10 DEF RunFile
  <1>12. r.step = 3 => Sealed(ReleaseOf(r.req))'
    <2>1. r.step = 3 => Sealed(ReleaseOf(r.req))
      BY <1>1, <1>4 DEF RunRight
    <2> QED
      BY <1>7, <2>1 DEF DirStep, Sealed, ReleaseOf
  <1>13. Sealed(ReleaseOf(finalizer[p].req))' = (Sealed(ReleaseOf(r.req)))'
    BY <1>8 DEF Sealed, ReleaseOf
  <1>14. pubLock'[DirectoryOf(NameAt(p))'] = p
    BY <1>1, <1>9 DEF RunRight, DirectoryOf
  <1>15. RunRight(p)'
    BY <1>4, <1>8, <1>9, <1>11, <1>12, <1>13, <1>14 DEF RunRight
  <1>16. r.req \in Requests /\ ReleaseOf(r.req) \in Sealable
    BY <1>1, <1>3, <1>4 DEF RelTypes
  <1>17. pubLock' \in [{"blobs", "root"} -> Finalizers \cup {NONE}]
    BY <1>1 DEF RelTypes
  <1>18. \A m \in PublicNames \ {NameAt(p)} : pubDir'[m] = pubDir[m]
    BY <1>1 DEF RelTypes, Directory
  <1> QED
    BY <1>4, <1>7, <1>15, <1>16, <1>17, <1>18, RunStep

\* The file a finalizer finds under its name.
LEMMA FoundFile ==
  ASSUME RelIInv, NEW p \in Finalizers
  PROVE  /\ RunFile(p) \in PublicFile(NameAt(p)) /\ LinksRight(RunFile(p))
         /\ pubDir = [pubDir EXCEPT ![NameAt(p)] = RunFile(p)]
  <1>1. PICK n \in PublicNames : n = NameAt(p)
    BY NameIsPublic DEF RelIInv
  <1>2. Directory(pubDir) /\ pubDir[n] \in PublicFile(n) /\ LinksRight(pubDir[n])
    BY DEF RelIInv, RelTypes, DirectoriesRight
  <1>3. pubDir = [pubDir EXCEPT ![n] = pubDir[n]]
    BY <1>2 DEF Directory
  <1> QED
    BY <1>1, <1>2, <1>3 DEF RunFile

LEMMA Examined ==
  ASSUME RelIInv, NEW p \in Finalizers, publish_once_locked(p) PROVE RelIInv'
  <1>1. PICK file : file = RunFile(p)
    OBVIOUS
  <1>2. PICK pc : pc = examine(file, RunPayload(p))
    OBVIOUS
  <1>3. finalizer[p].pc = "examine" /\ PcTo(p, pc) /\ UNCHANGED <<pubDir, durableDir, pubLock>>
        /\ UNCHANGED <<reader, passed, reconciled>>
    BY <1>1, <1>2 DEF publish_once_locked, DirVars, Quiet, ReaderVars, RunFile, RunPayload
  <1>4. file \in PublicFile(NameAt(p)) /\ LinksRight(file) /\ pubDir = [pubDir EXCEPT ![NameAt(p)] = file]
    BY <1>1, FoundFile
  <1>5. RunPayload(p) # NONE
    BY <1>3, PayloadTyped DEF RelIInv
  <1>6. /\ pc \in {"refuse", "unstage", "link", "restage", "create"}
        /\ pc \in {"link", "restage", "create"} => file.final = NONE
        /\ pc = "link" => file.pending = RunPayload(p)
        /\ pc = "unstage" => file.final = RunPayload(p)
        /\ pc = "refuse" => file.final \notin {NONE, RunPayload(p)}
    BY <1>2, <1>5 DEF examine
  <1> QED
    BY <1>1, <1>3, <1>4, <1>6, HeldStep DEF Holding, Empty, Filled

\* The steps under the lock that change the name's file, one after the other.
LEMMA StageStep ==
  ASSUME RelIInv, NEW p \in Finalizers, restage(p) \/ create_stage(p) \/ write_stage(p) PROVE RelIInv'
  <1>1. PICK file : file = RunFile(p)
    OBVIOUS
  <1>2. file \in PublicFile(NameAt(p)) /\ LinksRight(file)
    BY <1>1, FoundFile
  <1>3. RunRight(p)
    BY DEF RelIInv
  <1>4. UNCHANGED <<pubLock, reader, passed, reconciled>>
    BY DEF restage, create_stage, write_stage, Quiet, ReaderVars
  <1>5. finalizer[p].pc \in {"restage", "create", "write"} /\ file.final = NONE /\ ~file.linked
    BY <1>1, <1>2, <1>3 DEF restage, create_stage, write_stage, RunRight, Empty, LinksRight
  <1>6. RunPayload(p) \in Payloads(NameAt(p)) /\ RunPayload(p) # NONE
    BY <1>5, PayloadTyped DEF RelIInv
  <1>7. CASE restage(p)
    <2> DEFINE new == [file EXCEPT !.pending = NONE, !.whole = FALSE]
    <2>1. new \in PublicFile(NameAt(p)) /\ new.final = NONE /\ new.linked = file.linked
      BY <1>2, <1>5 DEF PublicFile
    <2>2. PcTo(p, "create") /\ pubDir' = [pubDir EXCEPT ![NameAt(p)] = new]
          /\ fsync_public_directory(p, pubDir')
      BY <1>1, <1>7 DEF restage, SetFile, RunFile
    <2> HIDE DEF new
    <2>3. LinksRight(new)
      BY <1>5, <2>1, Zenon DEF LinksRight
    <2> QED
      BY <1>1, <1>4, <1>5, <2>1, <2>2, <2>3, HeldStep DEF Holding, Empty, Filled
  <1>8. CASE create_stage(p)
    <2> DEFINE new == [file EXCEPT !.pending = RunPayload(p), !.whole = FALSE]
    <2>1. new \in PublicFile(NameAt(p)) /\ new.final = NONE /\ new.linked = file.linked
          /\ new.pending = RunPayload(p)
      BY <1>2, <1>5, <1>6 DEF PublicFile
    <2>2. PcTo(p, "write") /\ pubDir' = [pubDir EXCEPT ![NameAt(p)] = new] /\ durableDir' = durableDir
      BY <1>1, <1>8 DEF create_stage, SetFile, RunFile, RunPayload
    <2> HIDE DEF new
    <2>3. LinksRight(new)
      BY <1>5, <2>1, Zenon DEF LinksRight
    <2> QED
      BY <1>1, <1>4, <1>5, <2>1, <2>2, <2>3, HeldStep DEF Holding, Empty, Filled
  <1>9. CASE write_stage(p)
    <2> DEFINE new == [file EXCEPT !.whole = TRUE]
    <2>1. new \in PublicFile(NameAt(p)) /\ new.final = NONE /\ new.linked = file.linked
          /\ new.pending = file.pending
      BY <1>2, <1>5 DEF PublicFile
    <2>2. PcTo(p, "link") /\ pubDir' = [pubDir EXCEPT ![NameAt(p)] = new]
          /\ fsync_public_directory(p, pubDir') /\ finalizer[p].pc = "write"
      BY <1>1, <1>9 DEF write_stage, SetFile, RunFile
    <2>3. file.pending = RunPayload(p)
      BY <1>1, <1>3, <2>2 DEF RunRight
    <2> HIDE DEF new
    <2>4. LinksRight(new)
      BY <1>5, <2>1, Zenon DEF LinksRight
    <2> QED
      BY <1>1, <1>4, <1>5, <2>1, <2>2, <2>3, <2>4, HeldStep DEF Holding, Empty, Filled
  <1> QED
    BY <1>7, <1>8, <1>9

LEMMA LinkStep ==
  ASSUME RelIInv, NEW p \in Finalizers, link_final(p) \/ sync_link(p) \/ unlink_stage(p) PROVE RelIInv'
  <1>1. PICK file : file = RunFile(p)
    OBVIOUS
  <1>2. file \in PublicFile(NameAt(p)) /\ LinksRight(file) /\ pubDir = [pubDir EXCEPT ![NameAt(p)] = file]
    BY <1>1, FoundFile
  <1>3. RunRight(p)
    BY DEF RelIInv
  <1>4. UNCHANGED <<pubLock, reader, passed, reconciled>>
    BY DEF link_final, sync_link, unlink_stage, Quiet, ReaderVars
  <1>5. finalizer[p].pc \in {"link", "sync", "unstage"}
    BY DEF link_final, sync_link, unlink_stage
  <1>6. RunPayload(p) \in Payloads(NameAt(p)) /\ RunPayload(p) # NONE
    BY <1>5, PayloadTyped DEF RelIInv
  <1>7. CASE link_final(p)
    <2> DEFINE new == [file EXCEPT !.final = file.pending, !.linked = TRUE]
    <2>1. PcTo(p, "sync") /\ pubDir' = [pubDir EXCEPT ![NameAt(p)] = new] /\ durableDir' = durableDir
          /\ finalizer[p].pc = "link"
      BY <1>1, <1>7 DEF link_final, SetFile, RunFile
    <2>2. file.final = NONE /\ file.pending = RunPayload(p)
      BY <1>1, <1>3, <2>1 DEF RunRight, Empty
    <2>3. new \in PublicFile(NameAt(p)) /\ new.final = RunPayload(p) /\ new.pending = RunPayload(p)
      BY <1>2, <1>6, <2>2 DEF PublicFile
    <2> HIDE DEF new
    <2>4. LinksRight(new)
      BY <1>6, <2>3 DEF LinksRight
    <2> QED
      BY <1>1, <1>4, <1>5, <2>1, <2>2, <2>3, <2>4, HeldStep DEF Holding, Empty, Filled
  <1>8. CASE sync_link(p)
    <2>1. PcTo(p, "unstage") /\ pubDir' = pubDir /\ fsync_public_directory(p, pubDir')
          /\ finalizer[p].pc = "sync"
      BY <1>8 DEF sync_link, fsync_public_directory
    <2>2. file.final = RunPayload(p)
      BY <1>1, <1>3, <2>1 DEF RunRight, Filled
    <2>3. pubDir' = [pubDir EXCEPT ![NameAt(p)] = file]
      BY <1>2, <2>1
    <2> QED
      BY <1>1, <1>2, <1>4, <1>5, <2>1, <2>2, <2>3, HeldStep DEF Holding, Empty, Filled
  <1>9. CASE unlink_stage(p)
    <2> DEFINE new == [file EXCEPT !.pending = NONE, !.whole = FALSE, !.linked = FALSE]
    <2>1. PcTo(p, "leave") /\ pubDir' = [pubDir EXCEPT ![NameAt(p)] = new] /\ durableDir' = durableDir
          /\ finalizer[p].pc = "unstage"
      BY <1>1, <1>9 DEF unlink_stage, SetFile, RunFile
    <2>2. file.final = RunPayload(p)
      BY <1>1, <1>3, <2>1 DEF RunRight, Filled
    <2>3. new \in PublicFile(NameAt(p)) /\ new.final = RunPayload(p) /\ ~new.linked
      BY <1>2, <1>6, <2>2 DEF PublicFile
    <2> HIDE DEF new
    <2>4. LinksRight(new)
      BY <2>3, Zenon DEF LinksRight
    <2> QED
      BY <1>1, <1>4, <1>5, <2>1, <2>2, <2>3, <2>4, HeldStep DEF Holding, Empty, Filled
  <1> QED
    BY <1>7, <1>8, <1>9

LEMMA StartStep ==
  ASSUME RelIInv, NEW p \in Finalizers, start_finalizer(p) \/ prove_launch(p) PROVE RelIInv'
  <1>1. RelTypes /\ RunRight(p) /\ DirectoriesRight
    BY DEF RelIInv
  <1>2. UNCHANGED <<pubDir, durableDir, pubLock>> /\ UNCHANGED <<reader, passed, reconciled>>
    BY DEF start_finalizer, prove_launch, DirVars, ReaderVars
  <1>3. DirStep
    BY <1>1, <1>2, DirUnchanged
  <1>4. ASSUME NEW r \in Run, finalizer' = [finalizer EXCEPT ![p] = r], r.pc \in {"idle", "prove", "enter"},
               r.pc # "idle" => r.req \in Requests,
               r.pc \notin {"idle", "prove"} => ReleaseOf(r.req) \in Sealable,
               r.step = 3 => Sealed(ReleaseOf(r.req))
        PROVE  RelIInv'
    <2>1. finalizer'[p] = r
      BY <1>1, <1>4 DEF RelTypes
    <2>2. r.step = 3 => Sealed(ReleaseOf(r.req))'
      BY <1>3, <1>4 DEF DirStep, Sealed, ReleaseOf
    <2>3. Sealed(ReleaseOf(finalizer[p].req))' = (Sealed(ReleaseOf(r.req)))'
      BY <2>1 DEF Sealed, ReleaseOf
    <2>4. RunRight(p)'
      BY <1>4, <2>1, <2>2, <2>3 DEF RunRight, Holding, Empty, Filled
    <2>5. pubLock' \in [{"blobs", "root"} -> Finalizers \cup {NONE}]
      BY <1>1, <1>2 DEF RelTypes
    <2> QED
      BY <1>2, <1>3, <1>4, <2>4, <2>5, RunStep
  <1>5. CASE start_finalizer(p)
    <2>1. PICK req \in Requests :
             finalizer' = [finalizer EXCEPT ![p] = [pc |-> "prove", req |-> req, step |-> 1]]
      BY <1>5 DEF start_finalizer
    <2>2. PICK r : r = [pc |-> "prove", req |-> req, step |-> 1]
      OBVIOUS
    <2>3. r \in Run /\ r.pc = "prove" /\ r.req \in Requests /\ r.step = 1
      BY <2>2 DEF Run, FinalizerPcs
    <2>4. finalizer' = [finalizer EXCEPT ![p] = r]
      BY <2>1, <2>2
    <2>5. r.pc \in {"idle", "prove", "enter"} /\ r.step # 3
      BY <2>3
    <2> QED
      BY <1>4, <2>3, <2>4, <2>5
  <1>6. CASE prove_launch(p)
    <2>1. PICK req \in Requests : req = finalizer[p].req
      BY <1>1, <1>6 DEF prove_launch, RelTypes
    <2>2. \/ finalizer' = [finalizer EXCEPT ![p] = NoRun]
          \/ /\ build_release(req) /\ verify_frozen_evidence(ReleaseOf(req))
             /\ PcTo(p, "enter")
      BY <1>6, <2>1 DEF prove_launch, PcTo
    <2>3. CASE finalizer' = [finalizer EXCEPT ![p] = NoRun]
      <3>1. NoRun \in Run /\ NoRun.pc = "idle" /\ NoRun.step = 1
        BY DEF NoRun, Run, FinalizerPcs
      <3>2. PICK r \in Run : r = NoRun
        BY <3>1
      <3>3. finalizer' = [finalizer EXCEPT ![p] = r] /\ r.pc = "idle" /\ r.step # 3
        BY <2>3, <3>1, <3>2
      <3> QED
        BY <1>4, <3>3
    <2>4. ASSUME build_release(req), verify_frozen_evidence(ReleaseOf(req)), PcTo(p, "enter")
          PROVE  RelIInv'
      <3>1. ReleaseOf(req) \in Sealable
        BY <2>4, ProofsCover
      <3>2. PICK r \in Run : /\ finalizer' = [finalizer EXCEPT ![p] = r]
                             /\ r.pc = "enter" /\ r.req = finalizer[p].req /\ r.step = finalizer[p].step
        BY <1>1, <1>6, <2>4, RunMoves DEF prove_launch, FinalizerPcs
      <3>3. r.step = 3 => Sealed(ReleaseOf(r.req))
        BY <1>1, <3>2 DEF RunRight
      <3> QED
        BY <1>4, <2>1, <3>1, <3>2, <3>3
    <2> QED
      BY <2>2, <2>3, <2>4
  <1> QED
    BY <1>5, <1>6

LEMMA LockStep ==
  ASSUME RelIInv, NEW p \in Finalizers, publication_lock(p) \/ refuse_publication(p) PROVE RelIInv'
  <1>1. RelTypes /\ RunRight(p) /\ DirectoriesRight
    BY DEF RelIInv
  <1>2. UNCHANGED <<pubDir, durableDir>> /\ UNCHANGED <<reader, passed, reconciled>>
    BY DEF publication_lock, refuse_publication, Quiet, ReaderVars
  <1>3. DirStep
    BY <1>1, <1>2, DirUnchanged
  <1>4. PICK d \in {"blobs", "root"} : d = DirectoryOf(NameAt(p))
    BY DEF DirectoryOf
  <1>5. PICK pc \in {"examine", "refused"} :
           /\ finalizer[p].pc \in {"enter", "refuse"} /\ PcTo(p, pc)
           /\ pc = "examine" => pubLock[d] = NONE /\ pubLock' = [pubLock EXCEPT ![d] = p]
           /\ pc = "refused" => pubLock[d] = p /\ pubLock' = [pubLock EXCEPT ![d] = NONE]
    BY <1>1, <1>4 DEF publication_lock, refuse_publication, RunRight, Holding
  <1>6. PICK r \in Run : /\ finalizer' = [finalizer EXCEPT ![p] = r]
                         /\ r.pc = pc /\ r.req = finalizer[p].req /\ r.step = finalizer[p].step
    BY <1>1, <1>5, RunMoves DEF FinalizerPcs
  <1>7. finalizer'[p] = r
    BY <1>1, <1>6 DEF RelTypes
  <1>8. NameAt(p)' = NameAt(p) /\ Sealed(ReleaseOf(finalizer[p].req))' = Sealed(ReleaseOf(r.req))
    BY <1>2, <1>6, <1>7 DEF NameAt, Sealed, ReleaseOf
  <1>9. pubLock' \in [{"blobs", "root"} -> Finalizers \cup {NONE}] /\ (pc = "examine" => pubLock'[d] = p)
        /\ \A e \in {"blobs", "root"} : pubLock[e] \notin {NONE, p} => pubLock'[e] = pubLock[e]
    BY <1>1, <1>5 DEF RelTypes
  <1>10. RunRight(p)'
    BY <1>1, <1>4, <1>5, <1>6, <1>7, <1>8, <1>9 DEF RunRight, Holding, Empty, Filled, DirectoryOf
  <1>11. r.req \in Requests /\ ReleaseOf(r.req) \in Sealable
    BY <1>1, <1>5, <1>6 DEF RelTypes
  <1> QED
    BY <1>2, <1>3, <1>6, <1>9, <1>10, <1>11, RunStep

\* A name is left synced: the release is sealed before its signature is begun.
LEMMA LeaveStep ==
  ASSUME RelIInv, NEW p \in Finalizers, leave_publication(p) PROVE RelIInv'
  <1>1. RelTypes /\ RunRight(p) /\ DirectoriesRight
    BY DEF RelIInv
  <1>2. PICK file : file = RunFile(p)
    OBVIOUS
  <1>3. finalizer[p].pc = "leave" /\ pubDir' = pubDir /\ fsync_public_directory(p, pubDir')
        /\ UNCHANGED <<reader, passed, reconciled>>
    BY DEF leave_publication, Quiet, ReaderVars, fsync_public_directory
  <1>4. file \in PublicFile(NameAt(p)) /\ LinksRight(file) /\ pubDir' = [pubDir EXCEPT ![NameAt(p)] = file]
    BY <1>2, <1>3, FoundFile
  <1>5. file.final = RunPayload(p) /\ file.final = pubDir[NameAt(p)].final
    BY <1>1, <1>2, <1>3 DEF RunRight, Filled, RunFile
  <1>6. PICK n \in PublicNames : n = NameAt(p)
    BY <1>1, NameIsPublic
  <1>7. NameAt(p) = "sig" /\ file.final # NONE => Sealed(file.final)
    BY <1>1, <1>5 DEF DirectoriesRight
  <1>8. DirStep
    BY <1>1, <1>3, <1>4, <1>5, <1>7, OneFileStep
  <1>9. PICK d \in {"blobs", "root"} : d = DirectoryOf(NameAt(p))
    BY DEF DirectoryOf
  <1>10. pubLock[d] = p /\ pubLock' = [pubLock EXCEPT ![d] = NONE]
    BY <1>1, <1>3, <1>9 DEF leave_publication, RunRight, Holding
  <1>11. pubLock' \in [{"blobs", "root"} -> Finalizers \cup {NONE}]
         /\ \A e \in {"blobs", "root"} : pubLock[e] \notin {NONE, p} => pubLock'[e] = pubLock[e]
    BY <1>1, <1>10 DEF RelTypes
  <1>12. PICK old \in Run : old = finalizer[p]
    BY <1>1 DEF RelTypes, Run
  <1>13. old.req \in Requests /\ ReleaseOf(old.req) \in Sealable /\ ReleaseOf(old.req) # NONE
    BY <1>1, <1>3, <1>12, SealablePasses DEF RelTypes
  <1>14. PICK r \in Run :
           /\ finalizer' = [finalizer EXCEPT ![p] = r]
           /\ \/ r.pc = "idle" /\ r.step = 1
              \/ r.pc = "enter" /\ r.req = old.req /\ r.step = old.step + 1
    <2>1. CASE old.step = 3
      <3>1. NoRun \in Run /\ NoRun.pc = "idle" /\ NoRun.step = 1
        BY DEF NoRun, Run, FinalizerPcs
      <3>2. finalizer' = [finalizer EXCEPT ![p] = NoRun]
        BY <1>1, <1>12, <2>1 DEF leave_publication, RelTypes
      <3> QED
        BY <3>1, <3>2
    <2>2. CASE old.step # 3
      <3> DEFINE next == [old EXCEPT !.pc = "enter", !.step = old.step + 1]
      <3>1. old.step + 1 \in 1 .. 3
        BY <1>12, <2>2 DEF Run
      <3>2. next \in Run /\ next.pc = "enter" /\ next.req = old.req /\ next.step = old.step + 1
        BY <1>12, <3>1 DEF Run, FinalizerPcs
      <3>3. finalizer' = [finalizer EXCEPT ![p].pc = "enter", ![p].step = finalizer[p].step + 1]
        BY <1>12, <2>2 DEF leave_publication
      <3>4. finalizer' = [finalizer EXCEPT ![p] = next]
        BY <1>1, <1>12, <3>3 DEF RelTypes
      <3> HIDE DEF next
      <3> QED
        BY <3>2, <3>4
    <2> QED
      BY <2>1, <2>2
  <1>15. finalizer'[p] = r
    BY <1>1, <1>14 DEF RelTypes
  <1>16. r.step = 3 => Sealed(ReleaseOf(r.req))'
    <2>1. SUFFICES ASSUME r.step = 3 PROVE Sealed(ReleaseOf(r.req))'
      OBVIOUS
    <2>2. old.step = 2 /\ r.req = old.req
      BY <1>12, <1>14, <2>1 DEF Run
    <2>3. NameAt(p) = "release"
      BY <1>12, <2>2 DEF NameAt, Names3
    <2>4. durableDir'["release"] = pubDir'["release"]
      BY <1>3, <2>3 DEF fsync_public_directory, PublicNames
    <2>5. durableDir'["release"].final = ReleaseOf(old.req)
      BY <1>3, <1>5, <1>12, <2>3, <2>4 DEF RunPayload, PayloadOf
    <2> QED
      BY <1>13, <2>2, <2>5 DEF Sealed, ReleaseOf
  <1>17. Sealed(ReleaseOf(finalizer[p].req))' = (Sealed(ReleaseOf(r.req)))'
    BY <1>15 DEF Sealed, ReleaseOf
  <1>18. RunRight(p)'
    BY <1>14, <1>15, <1>16, <1>17 DEF RunRight, Holding, Empty, Filled
  <1> QED
    BY <1>3, <1>8, <1>11, <1>13, <1>14, <1>18, RunStep

LEMMA FinalizerLost ==
  ASSUME RelIInv, NEW p \in Finalizers, FinalizerDies(p) PROVE RelIInv'
  <1>1. RelTypes /\ DirectoriesRight
    BY DEF RelIInv
  <1>2. UNCHANGED <<pubDir, durableDir>> /\ UNCHANGED <<reader, passed, reconciled>>
        /\ finalizer' = [finalizer EXCEPT ![p] = NoRun]
        /\ pubLock' = [d \in DOMAIN pubLock |-> IF pubLock[d] = p THEN NONE ELSE pubLock[d]]
    BY DEF FinalizerDies, ReaderVars
  <1>3. DirStep
    BY <1>1, <1>2, DirUnchanged
  <1>4. NoRun \in Run /\ NoRun.pc = "idle" /\ NoRun.step = 1
    BY DEF NoRun, Run, FinalizerPcs
  <1>5. finalizer'[p] = NoRun
    BY <1>1, <1>2 DEF RelTypes
  <1>6. RunRight(p)'
    BY <1>4, <1>5 DEF RunRight, Holding, Empty, Filled
  <1>7. pubLock' \in [{"blobs", "root"} -> Finalizers \cup {NONE}]
        /\ \A e \in {"blobs", "root"} : pubLock[e] \notin {NONE, p} => pubLock'[e] = pubLock[e]
    BY <1>1, <1>2 DEF RelTypes
  <1> QED
    BY <1>2, <1>3, <1>4, <1>6, <1>7, RunStep

\* A power loss takes back only what was not synced, and no seal is.
LEMMA PublicPowerIsLost ==
  ASSUME RelIInv, PublicPowerLoss PROVE RelIInv'
  <1>1. RelTypes /\ DirectoriesRight /\ ReaderRight /\ PassedRight
    BY DEF RelIInv
  <1>2. PICK kept \in SUBSET {"blobs", "root"} :
           pubDir' = [n \in PublicNames |-> IF DirectoryOf(n) \in kept THEN pubDir[n] ELSE durableDir[n]]
    BY DEF PublicPowerLoss
  <1>3. durableDir' = pubDir' /\ finalizer' = [q \in Finalizers |-> NoRun]
        /\ pubLock' = [d \in DOMAIN pubLock |-> NONE] /\ UNCHANGED <<reader, passed, reconciled>>
    BY DEF PublicPowerLoss, ReaderVars
  <1>4. \A n \in PublicNames : pubDir'[n] = pubDir[n] \/ pubDir'[n] = durableDir[n]
    BY <1>2
  <1>5. \A n \in PublicNames : pubDir'[n] \in PublicFile(n) /\ LinksRight(pubDir'[n])
    BY <1>1, <1>4 DEF RelTypes, DirectoriesRight
  <1>6. \A n \in PublicNames : durableDir[n].final # NONE => pubDir'[n].final = durableDir[n].final
    BY <1>1, <1>4 DEF DirectoriesRight
  <1>7. \A rel : Sealed(rel) => Sealed(rel)'
    BY <1>3, <1>6 DEF Sealed, PublicNames
  <1>8. pubDir'["sig"].final # NONE => Sealed(pubDir["sig"].final)'
    <2>1. SUFFICES ASSUME pubDir'["sig"].final # NONE PROVE Sealed(pubDir["sig"].final)'
      OBVIOUS
    <2>2. PICK sig : sig = pubDir'["sig"].final
      OBVIOUS
    <2>3. sig # NONE /\ sig = pubDir["sig"].final
      BY <1>1, <1>4, <2>1, <2>2 DEF DirectoriesRight, PublicNames
    <2>4. Sealed(sig)'
      BY <1>1, <1>7, <2>3 DEF DirectoriesRight
    <2> QED
      BY <2>2, <2>4 DEF Sealed
  <1>9. DirectoriesRight'
    BY <1>3, <1>5, <1>8 DEF DirectoriesRight, LinksRight
  <1>10. DirStep
    BY <1>2, <1>3, <1>5, <1>6, <1>7, <1>9 DEF DirStep, Directory, PublicNames
  <1>11. NoRun \in Run /\ NoRun.pc = "idle" /\ NoRun.step = 1
    BY DEF NoRun, Run, FinalizerPcs
  <1>12. RelTypes' /\ \A q \in Finalizers : RunRight(q)'
    <2>1. finalizer' \in [Finalizers -> Run] /\ \A q \in Finalizers : finalizer'[q] = NoRun
      BY <1>3, <1>11
    <2>2. pubLock' \in [{"blobs", "root"} -> Finalizers \cup {NONE}]
      BY <1>1, <1>3 DEF RelTypes
    <2>3. RelTypes'
      BY <1>10, <1>11, <2>1, <2>2 DEF RelTypes, DirStep, Run
    <2>4. \A q \in Finalizers : RunRight(q)'
      BY <1>11, <2>1 DEF RunRight, Holding, Empty, Filled
    <2> QED
      BY <2>3, <2>4
  <1>13. ReaderRight' /\ PassedRight'
    BY <1>1, <1>3, <1>10, ReadersKept
  <1> QED
    BY <1>9, <1>12, <1>13 DEF RelIInv

ReaderShape(rd) ==
    rd = [pc |-> rd.pc, rev |-> rd.rev, release |-> rd.release, sig |-> rd.sig, verdict |-> rd.verdict]

\* What a reading leaves as it is.
LEMMA WritersKept ==
  ASSUME RelIInv, UNCHANGED <<pubDir, durableDir, finalizer, pubLock>>, ReaderRight', PassedRight'
  PROVE  RelIInv'
  <1>1. RelTypes' /\ DirectoriesRight'
    BY DEF RelIInv, RelTypes, DirectoriesRight, LinksRight, Sealed
  <1>2. \A p \in Finalizers : RunRight(p)'
    BY DEF RelIInv, RunRight, NameAt, RunFile, RunPayload, PayloadOf, build_signature, ReleaseOf, Sealed
  <1> QED
    BY <1>1, <1>2 DEF RelIInv

LEMMA FetchStep ==
  ASSUME RelIInv, fetch_release \/ fetch_signature PROVE RelIInv'
  <1>1. RelTypes /\ DirectoriesRight /\ ReaderRight /\ PassedRight
    BY DEF RelIInv
  <1>2. UNCHANGED <<pubDir, durableDir, finalizer, pubLock>> /\ UNCHANGED <<passed, reconciled>>
    BY DEF fetch_release, fetch_signature, Writers, DirVars
  <1>3. PassedRight'
    BY <1>1, <1>2 DEF PassedRight, Sealed
  <1>4. CASE fetch_release
    <2>0. PICK rel : rel = pubDir["release"].final
      OBVIOUS
    <2>1. PICK rev \in Revisions :
             reader' = [NoReader EXCEPT !.pc = "sig", !.rev = rev, !.release = rel]
      BY <1>4, <2>0 DEF fetch_release
    <2>2. rel \in Sealable \cup {NONE}
      BY <1>1, <2>0 DEF RelTypes, PublicFile, Payloads, PublicNames
    <2>3. ReaderShape(reader') /\ reader'.pc = "sig" /\ reader'.release = rel /\ reader'.verdict = NONE
      BY <2>1 DEF ReaderShape, NoReader
    <2>4. ReaderRight'
      BY <2>2, <2>3, ReleaseConstants DEF ReaderRight, ReaderShape
    <2> QED
      BY <1>2, <1>3, <2>4, WritersKept
  <1>5. CASE fetch_signature
    <2>1. PICK sig : sig = pubDir["sig"].final
      OBVIOUS
    <2>2. reader.pc = "sig" /\ reader' = [reader EXCEPT !.pc = "verify", !.sig = sig]
      BY <1>5, <2>1 DEF fetch_signature
    <2>3. sig # NONE => Sealed(sig)
      BY <1>1, <2>1 DEF DirectoriesRight
    <2>4. ReaderShape(reader)
      BY <1>1 DEF ReaderRight, ReaderShape
    <2>5. ReaderShape(reader') /\ reader'.pc = "verify" /\ reader'.release = reader.release
          /\ reader'.sig = sig /\ reader'.verdict = reader.verdict
      BY <2>2, <2>4 DEF ReaderShape
    <2>6. reader.release \in Sealable \cup {NONE} /\ reader.verdict = NONE
      BY <1>1, <2>2 DEF ReaderRight
    <2>7. ReaderRight'
      BY <1>2, <2>3, <2>5, <2>6, ReleaseConstants DEF ReaderRight, ReaderShape, Sealed
    <2> QED
      BY <1>2, <1>3, <2>7, WritersKept
  <1> QED
    BY <1>4, <1>5

\* The verdict of a reproduction: its signature was the seal, so what it passes is sealed.
LEMMA VerifyStep ==
  ASSUME RelIInv, verify_public_release PROVE RelIInv'
  <1>1. ReaderRight /\ PassedRight
    BY DEF RelIInv
  <1>2. UNCHANGED <<pubDir, durableDir, finalizer, pubLock>> /\ reconciled' = reconciled
        /\ reader.pc = "verify"
    BY DEF verify_public_release, Writers, DirVars
  <1>3. PICK rel, sig, rev : rel = reader.release /\ sig = reader.sig /\ rev = reader.rev
    OBVIOUS
  <1>4. PICK v, told : \E node \in ArchiveNodes :
           /\ v = reproduction_verdict(rel, sig, rev, node)
           /\ told = IF v = "FAIL" /\ node = "unfinalized" THEN "UNFINALIZED" ELSE v
           /\ reader' = [reader EXCEPT !.pc = "done", !.verdict = told]
           /\ passed' = IF v = "PASS" THEN passed \cup {rel} ELSE passed
    BY <1>3 DEF verify_public_release
  <1>5. rel \in Sealable \cup {NONE} /\ (sig # NONE => Sealed(sig))
    BY <1>1, <1>2, <1>3 DEF ReaderRight
  <1>6. rel \in Sealable /\ rel # NONE =>
          validate_launch_submission(rel) /\ verify_historical_launch(rel) /\ verify_frozen_evidence(rel)
    BY SealablePasses
  <1>7. v = "PASS" => rel # NONE /\ rel \in Sealable /\ Sealed(rel)
    BY <1>4, <1>5 DEF reproduction_verdict, verify_release_bytes
  <1>8. told = "FAIL" => rel.sha # rev \/ (sig # NONE /\ sig # rel)
    BY <1>4, <1>5, <1>6 DEF reproduction_verdict, verify_release_bytes
  <1>9. told = "PASS" => v = "PASS"
    BY <1>4
  <1>10. ReaderShape(reader)
    BY <1>1 DEF ReaderRight, ReaderShape
  <1>11. ReaderShape(reader') /\ reader'.pc = "done" /\ reader'.release = rel /\ reader'.sig = sig
         /\ reader'.rev = rev /\ reader'.verdict = told
    BY <1>3, <1>4, <1>10 DEF ReaderShape
  <1>12. \A x : Sealed(x)' <=> Sealed(x)
    BY <1>2 DEF Sealed
  <1>13. told = "PASS" => rel \in passed'
    BY <1>4, <1>9
  <1>14. ReaderRight'
    BY <1>5, <1>8, <1>11, <1>12, <1>13 DEF ReaderRight, ReaderShape, Sealed
  <1>15. \A x \in passed' : x \in Sealable /\ Sealed(x)'
    BY <1>1, <1>4, <1>7, <1>12 DEF PassedRight
  <1>16. reconciled' # NONE => reconciled' \in passed'
    BY <1>1, <1>2, <1>4 DEF PassedRight
  <1>17. PassedRight'
    BY <1>15, <1>16 DEF PassedRight, Sealed
  <1> QED
    BY <1>2, <1>14, <1>17, WritersKept

LEMMA EndStep ==
  ASSUME RelIInv, reconcile_release \/ end_reproduction PROVE RelIInv'
  <1>1. ReaderRight /\ PassedRight
    BY DEF RelIInv
  <1>2. UNCHANGED <<pubDir, durableDir, finalizer, pubLock>> /\ passed' = passed /\ reader' = NoReader
        /\ (reconciled' = reconciled \/ (reader.verdict = "PASS" /\ reconciled' = reader.release))
    BY DEF reconcile_release, end_reproduction, Writers, DirVars
  <1>3. ReaderRight'
    BY <1>2, ReleaseConstants DEF NoReader, ReaderRight
  <1>4. reconciled' # NONE => reconciled' \in passed
    BY <1>1, <1>2 DEF ReaderRight, PassedRight
  <1>5. PassedRight'
    BY <1>1, <1>2, <1>4 DEF PassedRight, Sealed
  <1> QED
    BY <1>2, <1>3, <1>5, WritersKept

LEMMA ReleaseBegins == RelInit => RelIInv
  <1> SUFFICES ASSUME RelInit PROVE RelIInv
    OBVIOUS
  <1>1. \A n \in PublicNames : NoFile \in PublicFile(n) /\ LinksRight(NoFile) /\ NoFile.final = NONE
    BY DEF NoFile, PublicFile, LinksRight
  <1>2. pubDir = [n \in PublicNames |-> NoFile] /\ durableDir = pubDir
    BY DEF RelInit
  <1>3. DirectoriesRight
    BY <1>1, <1>2 DEF DirectoriesRight, PublicNames
  <1>4. NoRun \in Run /\ NoRun.pc = "idle" /\ NoRun.step = 1
    BY DEF NoRun, Run, FinalizerPcs
  <1>5. finalizer \in [Finalizers -> Run] /\ \A p \in Finalizers : finalizer[p] = NoRun
    BY <1>4 DEF RelInit
  <1>6. RelTypes
    BY <1>1, <1>2, <1>4, <1>5 DEF RelTypes, Directory, Run, RelInit
  <1>7. \A p \in Finalizers : RunRight(p)
    BY <1>4, <1>5 DEF RunRight, Holding, Empty, Filled
  <1>8. ReaderRight
    BY ReleaseConstants DEF RelInit, ReaderRight, NoReader
  <1>9. PassedRight
    BY DEF RelInit, PassedRight
  <1> QED
    BY <1>3, <1>6, <1>7, <1>8, <1>9 DEF RelIInv

LEMMA ReleaseSafe == RelIInv => RelInv
  <1> SUFFICES ASSUME RelIInv PROVE RelInv
    OBVIOUS
  <1>1. RelTypes /\ DirectoriesRight /\ ReaderRight /\ PassedRight /\ \A p \in Finalizers : RunRight(p)
    BY DEF RelIInv
  <1>2. RelTypeOK
    <2>1. \A n \in PublicNames : pubDir[n].linked => pubDir[n].final = pubDir[n].pending
      BY <1>1 DEF DirectoriesRight, LinksRight
    <2>2. passed \subseteq {ReleaseOf(req) : req \in Requests}
      BY <1>1 DEF PassedRight, Sealable
    <2> QED
      BY <1>1, <2>1, <2>2 DEF RelTypeOK, RelTypes
  <1>3. RerunSucceeds
    BY <1>1 DEF RerunSucceeds, RunRight, RunFile, RunPayload
  <1>4. PICK seal : seal = durableDir["release"].final
    OBVIOUS
  <1>5. \A rel \in passed : rel = seal /\ rel # NONE
    BY <1>1, <1>4 DEF PassedRight, Sealed
  <1>6. OneRelease
    <2>1. Cardinality(passed) <= 1
      <3>1. passed = {} \/ passed = {seal}
        BY <1>5
      <3>2. Cardinality({seal}) = 1
        BY FS_Singleton
      <3>3. Cardinality({}) = 0
        BY FS_EmptySet
      <3> QED
        BY <3>1, <3>2, <3>3
    <2>2. reconciled # NONE => passed = {reconciled}
      BY <1>1, <1>5 DEF PassedRight
    <2>3. read_signed_release # NONE => read_signed_release = seal
      BY <1>1, <1>4 DEF read_signed_release, DirectoriesRight, Sealed
    <2> QED
      BY <1>5, <2>1, <2>2, <2>3 DEF OneRelease
  <1>7. VerdictIsRight
    <2>1. reader.verdict = "PASS" => reader.release.wrong = {}
      BY <1>1 DEF ReaderRight, PassedRight, Sealable
    <2>2. ASSUME reader.verdict = "FAIL", reader.release = pubDir["release"].final,
                 reader.release.sha = reader.rev
          PROVE  FALSE
      <3>1. reader.pc = "done"
        BY <1>1, <2>2, ReleaseConstants DEF ReaderRight
      <3>2. reader.sig # NONE /\ reader.sig # reader.release /\ Sealed(reader.sig)
        BY <1>1, <2>2, <3>1 DEF ReaderRight
      <3>3. pubDir["release"].final = reader.sig
        BY <1>1, <3>2 DEF DirectoriesRight, Sealed, PublicNames
      <3> QED
        BY <2>2, <3>2, <3>3
    <2> QED
      BY <2>1, <2>2 DEF VerdictIsRight
  <1> QED
    BY <1>2, <1>3, <1>6, <1>7 DEF RelInv

\* The public seal of a launch (_publish_once and its readers), for any finalizers, checkouts
\* and journals and through every death and power loss: one release at most is ever passed,
\* shown or reconciled, a run that proved its launch is refused only before other bytes, and
\* no verdict is wrong about the release that stands sealed.
THEOREM OneSeal == RelSpec => []RelInv
  <1>1. RelInit => RelIInv
    BY ReleaseBegins
  <1>2. RelIInv /\ [RelNext]_relVars => RelIInv'
    <2> SUFFICES ASSUME RelIInv, [RelNext]_relVars PROVE RelIInv'
      OBVIOUS
    <2>1. ASSUME NEW p \in Finalizers,
                 \/ start_finalizer(p) \/ prove_launch(p) \/ publication_lock(p) \/ publish_once_locked(p)
                 \/ refuse_publication(p) \/ restage(p) \/ create_stage(p) \/ write_stage(p) \/ link_final(p)
                 \/ sync_link(p) \/ unlink_stage(p) \/ leave_publication(p) \/ FinalizerDies(p)
          PROVE  RelIInv'
      BY <2>1, StartStep, LockStep, Examined, StageStep, LinkStep, LeaveStep, FinalizerLost
    <2>2. CASE fetch_release \/ fetch_signature \/ verify_public_release \/ reconcile_release
               \/ end_reproduction
      BY <2>2, FetchStep, VerifyStep, EndStep
    <2>3. CASE PublicPowerLoss
      BY <2>3, PublicPowerIsLost
    <2>4. CASE UNCHANGED relVars
      <3>1. RelTypes /\ DirectoriesRight /\ ReaderRight /\ PassedRight
        BY DEF RelIInv
      <3>2. UNCHANGED <<pubDir, durableDir, finalizer, pubLock>> /\ UNCHANGED <<reader, passed, reconciled>>
        BY <2>4 DEF relVars
      <3>3. ReaderRight' /\ PassedRight'
        BY <3>1, <3>2, DirUnchanged, ReadersKept
      <3> QED
        BY <3>2, <3>3, WritersKept
    <2> QED
      BY <2>1, <2>2, <2>3, <2>4 DEF RelNext
  <1>3. RelIInv => RelInv
    BY ReleaseSafe
  <1> QED
    BY <1>1, <1>2, <1>3, PTL DEF RelSpec

----------------------------------------------------------------------------
(* The provenance audits                                                    *)

MaybeManifest == DOMAIN Manifests \cup {NONE}
TickPlaces == {"idle", "log", "log_once", "wait", "audit", "judge", "announce", "bind"}
Questions == {"controlled", "hash", "candidates", "close"}
Ended == [n : Nat, status : {"PASS", "FAIL", "NOT_PROVEN"}, full : BOOLEAN, agrees : BOOLEAN, m : MaybeManifest]
Thread == [pc : TickPlaces, drained : Seq(Ended)]
Flight == [pc : {"none", "fetch"} \cup Questions, n : Nat, snap : MaybeManifest, idx : SignedIndexes \cup {NONE}]

AuditTypes ==
    /\ auditConf \in AuditConfs
    /\ main \in [Auditors -> Thread]
    /\ audit \in [Auditors -> Flight]
    /\ results \in [Auditors -> Seq(Ended)]
    /\ reported \in [Auditors -> Seq(Nat)]
    /\ abandoned \in [Auditors -> 0 .. ChainLookupSlotCap]
    /\ completed \in [Auditors -> 0 .. MaxAudits]
    /\ reserved \in MaybeManifest /\ tickLock \in Auditors \cup {NONE}
    /\ reservations \in Seq(DOMAIN Manifests) /\ announced \subseteq DOMAIN Manifests

\* What ended is reported, held by the main thread or queued, each with its number.
Waiting(t) == IF t.pc \in {"announce", "judge", "log", "log_once"} THEN t.drained ELSE <<>>
Lined(told, held, queue, ended) ==
    /\ Len(told) + Len(held) + Len(queue) = ended
    /\ \A i \in 1 .. Len(told) : told[i] = i
    /\ \A i \in 1 .. Len(held) : held[i].n = Len(told) + i
    /\ \A i \in 1 .. Len(queue) : queue[i].n = Len(told) + Len(held) + i
InOrder(p) == Lined(reported[p], Waiting(main[p]), results[p], completed[p])

\* A verdict that passed names what it verified.
Named(s) == \A i \in 1 .. Len(s) : s[i].status = "PASS" => s[i].m \in DOMAIN Manifests

\* The audit in flight and the main thread, by their places.
InFlight(p) ==
    /\ audit[p].pc # "none" => audit[p].n = completed[p] + 1 /\ completed[p] < MaxAudits
    /\ audit[p].pc \in Questions => audit[p].idx \in SignedIndexes
    /\ Mode(p) = "authority" => results[p] = <<>> /\ (audit[p].pc # "none" => main[p].pc = "audit")
    /\ Named(results[p])
OnMain(p) ==
    /\ IF Mode(p) = "authority" THEN main[p].pc \in {"idle", "audit", "judge", "announce", "bind"}
       ELSE main[p].pc \in {"idle", "log", "log_once", "wait"}
    /\ main[p].pc \in {"wait", "log_once"} => Mode(p) = "once"
    /\ main[p].pc \in {"idle", "wait", "audit"} => main[p].drained = <<>>
    /\ main[p].pc \in {"judge", "announce", "bind"} => Len(main[p].drained) = 1
    /\ main[p].pc \in {"log", "audit", "judge", "announce", "bind"} => tickLock = p
    /\ Named(main[p].drained)

\* Every reservation is made inside a tick.
InTicks == \A p \in Auditors : Mode(p) # "once"
\* What an authority tick has reserved is on the line, and while reservations are
\* made inside ticks it is the newest on it.
Reserved(p) ==
    main[p].pc \in {"announce", "bind"} =>
        /\ main[p].drained[1].m \in DOMAIN Manifests
        /\ \E i \in DOMAIN reservations : reservations[i] = main[p].drained[1].m
        /\ InTicks => reserved = main[p].drained[1].m

\* The line of evidence: it ends in what is reserved.
Follows(m, n) ==
    /\ Of(m).epoch < Of(n).epoch \/ m = n
    /\ Of(m).release < Of(n).release \/ (Of(m).release = Of(n).release /\ Of(m).digest = Of(n).digest)
OneLine ==
    /\ reservations # <<>> => reserved = reservations[Len(reservations)]
    /\ \A i, j \in 1 .. Len(reservations) : i < j => Follows(reservations[i], reservations[j])
    /\ \A m \in announced : \E i \in DOMAIN reservations : reservations[i] = m

AuditIInv ==
    /\ AuditTypes
    /\ \A p \in Auditors : InOrder(p) /\ InFlight(p) /\ OnMain(p) /\ Reserved(p)
    /\ OneLine /\ AttemptIsAudited

LEMMA AuditBegins == AuditInit => AuditIInv
  <1> SUFFICES ASSUME AuditInit PROVE AuditIInv
    OBVIOUS
  <1>1. /\ <<>> \in Seq(Ended) /\ <<>> \in Seq(Nat) /\ <<>> \in Seq(DOMAIN Manifests)
        /\ Len(<<>>) = 0
    OBVIOUS
  <1>2. Unoccupied \in Thread /\ NoAudit \in Flight
    BY <1>1 DEF Unoccupied, Thread, TickPlaces, NoAudit, Flight, MaybeManifest
  <1>3. AuditTypes
    BY <1>1, <1>2, AuditConstants DEF AuditInit, AuditTypes, MaybeManifest
  <1>4. ASSUME NEW p \in Auditors PROVE InOrder(p) /\ InFlight(p) /\ OnMain(p) /\ Reserved(p)
    <2>1. main[p] = Unoccupied /\ audit[p] = NoAudit /\ results[p] = <<>> /\ reported[p] = <<>> /\ completed[p] = 0
      BY DEF AuditInit
    <2>2. InOrder(p)
      BY <1>1, <2>1 DEF InOrder, Lined, Waiting, Unoccupied
    <2>3. InFlight(p)
      BY <1>1, <2>1 DEF InFlight, Named, NoAudit, Questions
    <2> QED
      BY <1>1, <2>1, <2>2, <2>3 DEF OnMain, Reserved, Named, Unoccupied
  <1>5. OneLine /\ AttemptIsAudited
    BY <1>1 DEF AuditInit, OneLine, AttemptIsAudited
  <1> QED
    BY <1>3, <1>4, <1>5 DEF AuditIInv

\* The lists that move: a report, a verdict, the queue that the main thread takes.
LEMMA FirstReported ==
  ASSUME NEW told \in Seq(Nat), NEW held \in Seq(Ended), NEW queue \in Seq(Ended), NEW ended \in Nat,
         Lined(told, held, queue, ended), held # <<>>
  PROVE  /\ Lined(Append(told, Head(held).n), Tail(held), queue, ended)
         /\ Append(told, Head(held).n) \in Seq(Nat) /\ Tail(held) \in Seq(Ended)
         /\ Named(held) => Named(Tail(held))
  <1>1. Len(held) > 0 /\ Head(held) = held[1] /\ held[1].n = Len(told) + 1 /\ held[1] \in Ended
    BY DEF Lined
  <1>2. Len(Tail(held)) = Len(held) - 1 /\ \A i \in 1 .. Len(held) - 1 : Tail(held)[i] = held[i + 1]
    BY <1>1
  <1>3. held[1].n \in Nat /\ Tail(held) \in Seq(Ended)
    BY <1>1 DEF Ended
  <1>4. PICK more : more = Append(told, held[1].n)
    OBVIOUS
  <1>5. /\ more \in Seq(Nat) /\ Len(more) = Len(told) + 1
        /\ \A i \in 1 .. Len(told) + 1 : more[i] = i
    BY <1>1, <1>3, <1>4 DEF Lined
  <1>6. Lined(more, Tail(held), queue, ended)
    <2>1. Len(told) \in Nat /\ Len(held) \in Nat /\ Len(queue) \in Nat /\ Len(more) \in Nat
      BY <1>5
    <2>2. ASSUME NEW i \in 1 .. Len(Tail(held)) PROVE Tail(held)[i].n = Len(more) + i
      <3>1. i + 1 \in 1 .. Len(held) /\ Tail(held)[i] = held[i + 1]
        BY <1>2, <2>1, <2>2
      <3> QED
        BY <1>5, <2>1, <3>1 DEF Lined
    <2>3. ASSUME NEW i \in 1 .. Len(queue) PROVE queue[i].n = Len(more) + Len(Tail(held)) + i
      BY <1>2, <1>5, <2>1, <2>3 DEF Lined
    <2>4. Len(more) + Len(Tail(held)) + Len(queue) = ended
      <3>1. Len(told) + Len(held) + Len(queue) = ended
        BY DEF Lined
      <3>2. PICK a, b, c, d : a = Len(told) /\ b = Len(held) /\ c = Len(queue) /\ d = Len(Tail(held))
        OBVIOUS
      <3>3. Len(more) = a + 1 /\ d = b - 1
        BY <1>2, <1>5, <3>2
      <3>4. a + 1 + d + c = ended
        BY <2>1, <3>1, <3>2, <3>3, SMTT(30)
      <3> QED
        BY <3>2, <3>3, <3>4
    <2> QED
      BY <1>5, <2>2, <2>3, <2>4 DEF Lined
  <1>7. Named(held) => Named(Tail(held))
    BY <1>2 DEF Named
  <1> QED
    BY <1>1, <1>3, <1>4, <1>5, <1>6, <1>7

LEMMA NewlyEnded ==
  ASSUME NEW told \in Seq(Nat), NEW held \in Seq(Ended), NEW queue \in Seq(Ended), NEW ended \in Nat,
         Lined(told, held, queue, ended), NEW v \in Ended, v.n = ended + 1,
         v.status = "PASS" => v.m \in DOMAIN Manifests
  PROVE  /\ Lined(told, held, Append(queue, v), ended + 1) /\ Append(queue, v) \in Seq(Ended)
         /\ held = <<>> /\ queue = <<>> => Lined(told, <<v>>, queue, ended + 1)
         /\ Named(queue) => Named(Append(queue, v))
         /\ Named(<<v>>) /\ <<v>> \in Seq(Ended)
  <1>1. PICK more : more = Append(queue, v)
    OBVIOUS
  <1>2. /\ more \in Seq(Ended) /\ Len(more) = Len(queue) + 1
        /\ \A i \in 1 .. Len(queue) : more[i] = queue[i]
        /\ more[Len(queue) + 1] = v
    BY <1>1
  <1>3. Lined(told, held, more, ended + 1)
    <2>1. Len(told) \in Nat /\ Len(held) \in Nat /\ Len(queue) \in Nat
      OBVIOUS
    <2>2. ASSUME NEW i \in 1 .. Len(more) PROVE more[i].n = Len(told) + Len(held) + i
      <3>1. CASE i \in 1 .. Len(queue)
        BY <1>2, <3>1 DEF Lined
      <3>2. CASE i = Len(queue) + 1
        BY <1>2, <2>1, <3>2 DEF Lined
      <3> QED
        BY <1>2, <2>1, <2>2, <3>1, <3>2
    <2>3. Len(told) + Len(held) + Len(more) = ended + 1
      <3>1. Len(told) + Len(held) + Len(queue) = ended
        BY DEF Lined
      <3>2. Len(more) = Len(queue) + 1
        BY <1>2
      <3> QED
        BY <2>1, <3>1, <3>2, SMTT(30)
    <2> QED
      BY <2>2, <2>3 DEF Lined
  <1>4. Named(queue) => Named(more)
    BY <1>2 DEF Named
  <1>5. <<v>> \in Seq(Ended) /\ Len(<<v>>) = 1 /\ <<v>>[1] = v
    OBVIOUS
  <1>6. held = <<>> /\ queue = <<>> => Lined(told, <<v>>, queue, ended + 1)
    BY <1>5 DEF Lined
  <1>7. Named(<<v>>)
    BY <1>5 DEF Named
  <1> QED
    BY <1>1, <1>2, <1>3, <1>4, <1>5, <1>6, <1>7

LEMMA QueueTaken ==
  ASSUME NEW told \in Seq(Nat), NEW queue \in Seq(Ended), NEW ended \in Nat
  PROVE  Lined(told, <<>>, queue, ended) <=> Lined(told, queue, <<>>, ended)
  BY DEF Lined

\* A manifest that the fence lets through continues the line.
LEMMA LineGrows ==
  ASSUME AuditIInv, NEW m \in DOMAIN Manifests, write_state_fenced(reserved, m), Reserve(m),
         announced' \subseteq announced \cup {m}
  PROVE  OneLine' /\ reservations' \in Seq(DOMAIN Manifests) /\ reserved' = m
         /\ (\E i \in DOMAIN reservations' : reservations'[i] = m)
         /\ \A n : (\E i \in DOMAIN reservations : reservations[i] = n)
                      => (\E i \in DOMAIN reservations' : reservations'[i] = n)
  <1>1. PICK old, new : old = reservations /\ new = reservations' /\ new = Append(old, m)
    BY DEF Reserve
  <1>2. old \in Seq(DOMAIN Manifests) /\ reserved' = m
    BY <1>1 DEF AuditIInv, AuditTypes, Reserve
  <1>3. /\ new \in Seq(DOMAIN Manifests) /\ Len(new) = Len(old) + 1 /\ new[Len(new)] = m /\ new # <<>>
        /\ \A i \in 1 .. Len(old) : new[i] = old[i]
        /\ DOMAIN new = 1 .. Len(old) + 1 /\ DOMAIN old = 1 .. Len(old) /\ Len(old) \in Nat
    BY <1>1, <1>2
  <1>4. ASSUME NEW i \in 1 .. Len(old) PROVE Follows(old[i], m)
    <2>1. PICK last : last = old[Len(old)] /\ reserved = last
      BY <1>1, <1>2, <1>4 DEF AuditIInv, OneLine
    <2>2. last \in DOMAIN Manifests /\ old[i] \in DOMAIN Manifests
      BY <1>2, <1>4, <2>1
    <2>3. Follows(last, m)
      BY <2>1, <2>2, NoAuditIsNone DEF write_state_fenced, Follows
    <2>4. i = Len(old) \/ Follows(old[i], last)
      BY <1>1, <1>2, <1>4, <2>1 DEF AuditIInv, OneLine
    <2>5. \A n \in {old[i], last, m} : Of(n).epoch \in Nat /\ Of(n).release \in Nat
      BY <2>2, AuditConstants DEF Of
    <2> QED
      BY <2>1, <2>3, <2>4, <2>5 DEF Follows
  <1>5. \A i, j \in 1 .. Len(new) : i < j => Follows(new[i], new[j])
    <2>1. SUFFICES ASSUME NEW i \in 1 .. Len(new), NEW j \in 1 .. Len(new), i < j
                   PROVE  Follows(new[i], new[j])
      OBVIOUS
    <2>2. CASE j = Len(new)
      BY <1>3, <1>4, <2>1, <2>2
    <2>3. CASE j # Len(new)
      BY <1>1, <1>3, <2>1, <2>3 DEF AuditIInv, OneLine
    <2> QED
      BY <2>2, <2>3
  <1>6. \A n : (\E i \in DOMAIN old : old[i] = n) => (\E i \in DOMAIN new : new[i] = n)
    BY <1>3
  <1>7. \E i \in DOMAIN new : new[i] = m
    BY <1>3
  <1>8. \A n \in announced : \E i \in DOMAIN old : old[i] = n
    BY <1>1 DEF AuditIInv, OneLine
  <1>9. \A n \in announced' : \E i \in DOMAIN new : new[i] = n
    BY <1>6, <1>7, <1>8
  <1> QED
    BY <1>1, <1>2, <1>3, <1>5, <1>6, <1>7, <1>9 DEF OneLine

\* A step of one process: what the others rely on.
LEMMA OneAuditor ==
  ASSUME AuditIInv, NEW p \in Auditors, AuditTypes', auditConf' = auditConf,
         \A q \in Auditors \ {p} :
            /\ main'[q] = main[q] /\ audit'[q] = audit[q] /\ results'[q] = results[q]
            /\ reported'[q] = reported[q] /\ completed'[q] = completed[q],
         InOrder(p)', InFlight(p)', OnMain(p)', Reserved(p)', OneLine',
         \/ tickLock' = tickLock
         \/ tickLock = NONE /\ tickLock' = p
         \/ tickLock = p /\ tickLock' = NONE,
         \/ UNCHANGED Durable
         \/ /\ tickLock = p \/ Mode(p) = "once"
            /\ \A n : (\E i \in DOMAIN reservations : reservations[i] = n)
                        => (\E i \in DOMAIN reservations' : reservations'[i] = n),
         \A a \in attempts' \ attempts : InTicks => a.weights = a.evidence
  PROVE  AuditIInv'
  <1>1. ASSUME NEW q \in Auditors \ {p}
        PROVE  InOrder(q)' /\ InFlight(q)' /\ OnMain(q)' /\ Reserved(q)'
    <2>1. /\ main'[q] = main[q] /\ audit'[q] = audit[q] /\ results'[q] = results[q]
          /\ reported'[q] = reported[q] /\ completed'[q] = completed[q]
      BY <1>1
    <2>2. InOrder(q)'
      BY <2>1 DEF AuditIInv, InOrder
    <2>3. InFlight(q)'
      BY <2>1 DEF AuditIInv, InFlight, Mode
    <2>4. tickLock = q => tickLock' = q
      BY <1>1, NoAuditIsNone
    <2>5. OnMain(q)'
      BY <2>1, <2>4 DEF AuditIInv, OnMain, Mode
    <2>6. Reserved(q)'
      <3>1. SUFFICES ASSUME main[q].pc \in {"announce", "bind"} PROVE Reserved(q)'
        BY <2>1 DEF Reserved
      <3>2. tickLock = q
        BY <3>1 DEF AuditIInv, OnMain
      <3>3. InTicks' <=> InTicks
        BY DEF InTicks, Mode
      <3>4. CASE UNCHANGED Durable
        BY <2>1, <3>3, <3>4 DEF Durable, AuditIInv, Reserved
      <3>5. CASE /\ Mode(p) = "once"
                 /\ \A n : (\E i \in DOMAIN reservations : reservations[i] = n)
                        => (\E i \in DOMAIN reservations' : reservations'[i] = n)
        <4>1. ~InTicks
          BY <3>5 DEF InTicks
        <4> QED
          BY <2>1, <3>3, <3>5, <4>1 DEF AuditIInv, Reserved
      <3> QED
        BY <1>1, <3>2, <3>4, <3>5
    <2> QED
      BY <2>2, <2>3, <2>5, <2>6
  <1>2. AttemptIsAudited'
    BY DEF AuditIInv, AttemptIsAudited, InTicks, Mode
  <1> QED
    BY <1>1, <1>2 DEF AuditIInv

\* What a step leaves as it was keeps its type.
LEMMA StillTyped ==
  ASSUME AuditIInv, UNCHANGED auditConf,
         UNCHANGED main \/ main' \in [Auditors -> Thread],
         UNCHANGED audit \/ audit' \in [Auditors -> Flight],
         UNCHANGED results \/ results' \in [Auditors -> Seq(Ended)],
         UNCHANGED reported \/ reported' \in [Auditors -> Seq(Nat)],
         UNCHANGED abandoned \/ abandoned' \in [Auditors -> 0 .. ChainLookupSlotCap],
         UNCHANGED completed \/ completed' \in [Auditors -> 0 .. MaxAudits],
         UNCHANGED tickLock \/ tickLock' \in Auditors \cup {NONE},
         UNCHANGED Durable \/ (reserved' \in MaybeManifest /\ reservations' \in Seq(DOMAIN Manifests)),
         UNCHANGED announced \/ announced' \subseteq DOMAIN Manifests
  PROVE  AuditTypes'
  BY DEF AuditIInv, AuditTypes, Durable

LEMMA LineStays ==
  ASSUME AuditIInv, UNCHANGED <<reserved, reservations, announced>>
  PROVE  OneLine'
  BY DEF AuditIInv, OneLine

\* An audit ends: its verdict waits on the main thread or in the queue.
LEMMA AuditEnds ==
  ASSUME AuditIInv, NEW p \in Auditors, audit[p].pc # "none", NEW v \in Ended, v.n = audit[p].n,
         v.status = "PASS" => v.m \in DOMAIN Manifests, Ends(p, v),
         UNCHANGED <<auditConf, tickLock, reported, Durable, announced, attempts>>,
         abandoned' \in [Auditors -> 0 .. ChainLookupSlotCap]
  PROVE  AuditIInv'
  <1>1. PICK told, held, queue, ended :
          told = reported[p] /\ held = Waiting(main[p]) /\ queue = results[p] /\ ended = completed[p]
    OBVIOUS
  <1>2. /\ told \in Seq(Nat) /\ queue \in Seq(Ended) /\ ended \in 0 .. MaxAudits /\ ended < MaxAudits
        /\ main[p] \in Thread /\ MaxAudits \in Nat /\ Named(queue) /\ v.n = ended + 1
    BY <1>1, AuditConstants DEF AuditIInv, AuditTypes, InFlight
  <1>3. held \in Seq(Ended) /\ Lined(told, held, queue, ended) /\ ended \in Nat /\ ended + 1 \in 0 .. MaxAudits
    BY <1>1, <1>2 DEF Waiting, Thread, AuditIInv, InOrder
  <1>4. /\ audit' = [audit EXCEPT ![p] = NoAudit] /\ completed' = [completed EXCEPT ![p] = @ + 1]
        /\ audit' \in [Auditors -> Flight] /\ completed' \in [Auditors -> 0 .. MaxAudits]
        /\ audit'[p] = NoAudit /\ completed'[p] = ended + 1
    <2>1. NoAudit \in Flight
      BY DEF NoAudit, Flight, MaybeManifest
    <2> QED
      BY <1>1, <1>3, <2>1 DEF Ends, AuditIInv, AuditTypes
  <1>5. OneLine'
    BY LineStays DEF Durable
  <1>6. PICK more, one : more = Append(queue, v) /\ one = <<v>>
    OBVIOUS
  <1>7. /\ Lined(told, held, more, ended + 1) /\ more \in Seq(Ended) /\ Named(more) /\ Named(one)
        /\ one \in Seq(Ended)
        /\ held = <<>> /\ queue = <<>> => Lined(told, one, queue, ended + 1)
    BY <1>2, <1>3, <1>6, NewlyEnded
  <1>8. CASE Mode(p) = "authority"
    <2>1. PICK t : t = [pc |-> "judge", drained |-> one]
      OBVIOUS
    <2>2. main' = [main EXCEPT ![p] = t] /\ UNCHANGED results
      BY <1>6, <1>8, <2>1 DEF Ends
    <2>3. t \in Thread /\ t.pc = "judge" /\ t.drained = one /\ Len(one) = 1
      BY <1>6, <1>7, <2>1 DEF Thread, TickPlaces
    <2>4. main' \in [Auditors -> Thread] /\ main'[p] = t
      BY <2>2, <2>3 DEF AuditIInv, AuditTypes
    <2>5. AuditTypes'
      BY <1>4, <2>2, <2>4, StillTyped
    <2>6. main[p].pc = "audit" /\ queue = <<>> /\ held = <<>> /\ tickLock = p
      BY <1>1, <1>8 DEF AuditIInv, InFlight, OnMain, Waiting
    <2>7. InOrder(p)'
      BY <1>1, <1>4, <1>7, <2>2, <2>3, <2>4, <2>6 DEF InOrder, Waiting
    <2>8. InFlight(p)' /\ OnMain(p)' /\ Reserved(p)'
      BY <1>1, <1>2, <1>4, <1>7, <1>8, <2>2, <2>3, <2>4, <2>6 DEF InFlight, OnMain, Reserved, Mode,
                                                                  NoAudit, Questions
    <2> QED
      BY <1>4, <1>5, <2>2, <2>5, <2>7, <2>8, OneAuditor DEF AuditIInv, AuditTypes
  <1>9. CASE Mode(p) # "authority"
    <2>1. results' = [results EXCEPT ![p] = more] /\ UNCHANGED main
      BY <1>1, <1>6, <1>9 DEF Ends, queue_result
    <2>2. results' \in [Auditors -> Seq(Ended)] /\ results'[p] = more
      BY <1>7, <2>1 DEF AuditIInv, AuditTypes
    <2>3. AuditTypes'
      BY <1>4, <2>1, <2>2, StillTyped
    <2>4. InOrder(p)'
      BY <1>1, <1>4, <1>7, <2>1, <2>2 DEF InOrder, Waiting
    <2>5. InFlight(p)'
      BY <1>4, <1>7, <1>9, <2>2 DEF InFlight, Mode, NoAudit, Questions
    <2>6. OnMain(p)' /\ Reserved(p)'
      BY <2>1 DEF AuditIInv, OnMain, Reserved, Mode, Durable, InTicks
    <2> QED
      BY <1>4, <1>5, <2>1, <2>3, <2>4, <2>5, <2>6, OneAuditor DEF AuditIInv, AuditTypes
  <1> QED
    BY <1>8, <1>9

\* The audit goes on to another question.
LEMMA AuditAsks ==
  ASSUME AuditIInv, NEW p \in Auditors, audit[p].pc # "none", NEW f \in Flight,
         f.pc \in Questions, f.n = audit[p].n, f.idx \in SignedIndexes,
         audit' = [audit EXCEPT ![p] = f],
         UNCHANGED <<auditConf, tickLock, main, results, completed, reported, abandoned, Durable,
                     announced, attempts>>
  PROVE  AuditIInv'
  <1>1. audit' \in [Auditors -> Flight] /\ audit'[p] = f
    BY DEF AuditIInv, AuditTypes
  <1>2. AuditTypes'
    BY <1>1, StillTyped
  <1>3. InOrder(p)' /\ OnMain(p)' /\ Reserved(p)'
    BY DEF AuditIInv, InOrder, OnMain, Reserved, Mode, Durable, InTicks, Waiting
  <1>4. InFlight(p)'
    BY <1>1 DEF AuditIInv, InFlight, Mode
  <1>5. OneLine'
    BY LineStays DEF Durable
  <1> QED
    BY <1>1, <1>2, <1>3, <1>4, <1>5, OneAuditor DEF AuditIInv, AuditTypes

LEMMA AuditStepFits ==
  ASSUME AuditIInv, NEW p \in Auditors, AuditStep(p)
  PROVE  AuditIInv'
  <1>1. /\ abandoned \in [Auditors -> 0 .. ChainLookupSlotCap] /\ ChainLookupSlotCap \in Nat
        /\ audit[p] \in Flight /\ audit \in [Auditors -> Flight] /\ audit[p].n \in Nat
        /\ auditConf[p].controlled \in BOOLEAN
    BY AuditConstants DEF AuditIInv, AuditTypes, Flight
  <1>2. audit[p].pc \in Questions => audit[p].idx \in SignedIndexes /\ audit[p].idx.latest \in DOMAIN Manifests
    BY AuditConstants DEF AuditIInv, InFlight
  <1>3. ASSUME NEW status \in {"FAIL", "NOT_PROVEN"}
        PROVE  /\ Verdict(p, status, FALSE) \in Ended /\ Verdict(p, status, FALSE).n = audit[p].n
               /\ Verdict(p, status, FALSE).status # "PASS"
    BY <1>1, <1>3 DEF Verdict, Ended, MaybeManifest
  <1>4. ASSUME NEW status \in {"FAIL", "NOT_PROVEN"}, audit[p].pc # "none", Ends(p, Verdict(p, status, FALSE)),
               UNCHANGED <<auditConf, tickLock, reported, Durable, announced, attempts>>,
               abandoned' \in [Auditors -> 0 .. ChainLookupSlotCap]
        PROVE  AuditIInv'
    <2>1. PICK v : v = Verdict(p, status, FALSE)
      OBVIOUS
    <2>2. v \in Ended /\ v.n = audit[p].n /\ v.status # "PASS" /\ Ends(p, v)
      BY <1>3, <1>4, <2>1
    <2> QED
      BY <1>4, <2>2, AuditEnds
  <1>5. ASSUME NEW pc \in Questions, audit[p].pc # "none", NEW idx \in SignedIndexes,
               audit' = [audit EXCEPT ![p] = [audit[p] EXCEPT !.pc = pc, !.idx = idx]],
               UNCHANGED <<auditConf, tickLock, main, results, completed, reported, abandoned, Durable,
                           announced, attempts>>
        PROVE  AuditIInv'
    <2>1. PICK f : f = [audit[p] EXCEPT !.pc = pc, !.idx = idx]
      OBVIOUS
    <2>2. f \in Flight /\ f.pc = pc /\ f.idx = idx /\ f.n = audit[p].n
      BY <1>1, <2>1 DEF Flight
    <2> QED
      BY <1>5, <2>1, <2>2, AuditAsks
  <1>6. ASSUME NEW pc \in Questions, audit[p].pc \in Questions, Asks(p, pc),
               UNCHANGED <<auditConf, tickLock, reported, abandoned, Durable, announced, attempts>>
        PROVE  AuditIInv'
    <2>1. PICK f : f = [audit[p] EXCEPT !.pc = pc]
      OBVIOUS
    <2>2. f \in Flight /\ f.pc = pc /\ f.idx = audit[p].idx /\ f.n = audit[p].n
      BY <1>1, <2>1 DEF Flight
    <2>3. audit' = [audit EXCEPT ![p] = f] /\ UNCHANGED <<completed, main, results>>
      BY <1>1, <1>6, <2>1 DEF Asks
    <2>4. audit[p].pc # "none"
      BY <1>6 DEF Questions
    <2> QED
      BY <1>2, <1>6, <2>2, <2>3, <2>4, AuditAsks
  <1>7. ASSUME NEW idx \in SignedIndexes, NEW answers \in Answers, NEW resolved \in BOOLEAN,
               Fetch(p, idx, resolved, answers)
        PROVE  AuditIInv'
    <2>1. audit[p].pc = "fetch" /\ UNCHANGED <<auditConf, tickLock, reported, abandoned, Durable,
                                               announced, attempts>>
      BY <1>7 DEF Fetch
    <2>2. CASE \E status \in {"FAIL", "NOT_PROVEN"} : Ends(p, Verdict(p, status, FALSE))
      BY <1>1, <1>4, <2>1, <2>2
    <2>3. CASE \E pc \in {"controlled", "close"} :
                 /\ audit' = [[audit EXCEPT ![p].idx = idx] EXCEPT ![p].pc = pc]
                 /\ UNCHANGED <<completed, main, results>>
      <3>1. PICK pc \in {"controlled", "close"} : audit' = [[audit EXCEPT ![p].idx = idx] EXCEPT ![p].pc = pc]
        BY <2>3
      <3>2. PICK f, g : f = [audit[p] EXCEPT !.idx = idx] /\ g = [f EXCEPT !.pc = pc]
        OBVIOUS
      <3>3. f \in Flight /\ f.idx = idx /\ f.n = audit[p].n
        BY <1>1, <3>2 DEF Flight
      <3>4. g \in Flight /\ g.pc = pc /\ g.idx = idx /\ g.n = audit[p].n
        BY <3>2, <3>3 DEF Flight, Questions
      <3>5. audit' = [audit EXCEPT ![p] = g]
        BY <1>1, <3>1, <3>2
      <3>6. pc \in Questions
        BY DEF Questions
      <3> QED
        BY <2>1, <2>3, <3>4, <3>5, <3>6, AuditAsks
    <2>4. validate_for_audit(auditConf[p]) \in {"PASS", "FAIL", "NOT_PROVEN"}
      BY DEF validate_for_audit
    <2> QED
      BY <1>7, <2>2, <2>3, <2>4 DEF Fetch
  <1>8. CASE Controlled(p)
    BY <1>1, <1>4, <1>6, <1>8 DEF Controlled, Questions
  <1>9. ASSUME NEW answer \in {"equal", "different", NONE}, LookupAnswers(p, answer)
        PROVE  AuditIInv'
    BY <1>1, <1>4, <1>6, <1>9 DEF LookupAnswers, NextQuestion, Questions
  <1>10. CASE LookupGivesUp(p)
    <2>1. abandoned' \in [Auditors -> 0 .. ChainLookupSlotCap]
      BY <1>1, <1>10 DEF LookupGivesUp, lookup_slot_free
    <2> QED
      BY <1>4, <1>10, <2>1 DEF LookupGivesUp
  <1>11. CASE LookupReturns(p)
    <2>1. abandoned' \in [Auditors -> 0 .. ChainLookupSlotCap]
      BY <1>1, <1>11 DEF LookupReturns
    <2>2. UNCHANGED <<auditConf, tickLock, main, audit, results, completed, reported, Durable,
                      announced, attempts>>
      BY <1>11 DEF LookupReturns
    <2>3. AuditTypes'
      BY <2>1, <2>2, StillTyped
    <2>4. InOrder(p)' /\ OnMain(p)' /\ Reserved(p)' /\ InFlight(p)'
      BY <2>2 DEF AuditIInv, InOrder, OnMain, Reserved, InFlight, Mode, Durable, InTicks, Waiting
    <2>5. OneLine'
      BY <2>2, LineStays DEF Durable
    <2> QED
      BY <2>2, <2>3, <2>4, <2>5, OneAuditor
  <1>12. CASE Close(p)
    <2>1. audit[p].pc = "close" /\ UNCHANGED <<auditConf, tickLock, reported, abandoned, Durable,
                                               announced, attempts>>
      BY <1>12 DEF Close
    <2>2. CASE Ends(p, Verdict(p, "FAIL", FALSE))
      BY <1>1, <1>4, <2>1, <2>2
    <2>3. CASE Ends(p, Verdict(p, "PASS", auditConf[p].controlled /\ replay_positive_miners(audit[p].idx)))
      <3>1. PICK full \in BOOLEAN : full = (auditConf[p].controlled /\ replay_positive_miners(audit[p].idx))
        BY DEF replay_positive_miners
      <3>2. PICK v : v = Verdict(p, "PASS", full)
        OBVIOUS
      <3>3. v \in Ended /\ v.n = audit[p].n /\ v.m = audit[p].idx.latest
        BY <1>1, <1>2, <2>1, <3>2 DEF Verdict, Ended, MaybeManifest, Questions
      <3>4. Ends(p, v)
        BY <2>3, <3>1, <3>2
      <3> QED
        BY <1>1, <1>2, <2>1, <3>3, <3>4, AuditEnds DEF Questions
    <2> QED
      BY <1>12, <2>2, <2>3 DEF Close
  <1> QED
    BY <1>7, <1>8, <1>9, <1>10, <1>11, <1>12 DEF AuditStep

\* A step of the main thread that leaves the audit in flight, the lookups and the
\* durable line alone.
LEMMA ThreadMoves ==
  ASSUME AuditIInv, NEW p \in Auditors, NEW t \in Thread, main' = [main EXCEPT ![p] = t],
         UNCHANGED <<auditConf, abandoned, completed, Durable, announced, attempts>>,
         audit' = audit, results' \in [Auditors -> Seq(Ended)], reported' \in [Auditors -> Seq(Nat)],
         \A q \in Auditors \ {p} : results'[q] = results[q] /\ reported'[q] = reported[q],
         Lined(reported'[p], Waiting(t), results'[p], completed[p]), Named(results'[p]),
         Mode(p) = "authority" => results'[p] = <<>> /\ (audit[p].pc # "none" => t.pc = "audit"),
         IF Mode(p) = "authority" THEN t.pc \in {"idle", "audit", "judge"}
         ELSE t.pc \in {"idle", "log", "log_once", "wait"},
         t.pc \in {"wait", "log_once"} => Mode(p) = "once",
         t.pc \in {"idle", "wait", "audit"} => t.drained = <<>>,
         t.pc = "judge" => Len(t.drained) = 1,
         Named(t.drained),
         t.pc \in {"log", "audit", "judge"} => tickLock' = p,
         \/ tickLock' = tickLock
         \/ tickLock = NONE /\ tickLock' = p
         \/ tickLock = p /\ tickLock' = NONE
  PROVE  AuditIInv'
  <1>1. main' \in [Auditors -> Thread] /\ main'[p] = t /\ \A q \in Auditors \ {p} : main'[q] = main[q]
    BY DEF AuditIInv, AuditTypes
  <1>2. AuditTypes'
    BY <1>1, StillTyped
  <1>3. InOrder(p)'
    BY <1>1 DEF InOrder, Waiting
  <1>4. InFlight(p)'
    BY <1>1 DEF AuditIInv, InFlight, Mode
  <1>5. OnMain(p)'
    BY <1>1 DEF OnMain, Mode
  <1>6. Reserved(p)'
    BY <1>1 DEF Reserved
  <1>7. OneLine'
    BY LineStays DEF Durable
  <1> QED
    BY <1>1, <1>2, <1>3, <1>4, <1>5, <1>6, <1>7, OneAuditor

\* The main thread takes the queue, for a tick or after it.
LEMMA DrainStep ==
  ASSUME AuditIInv, NEW p \in Auditors, Drain(p) \/ DrainOnce(p)
  PROVE  AuditIInv'
  <1>1. PICK queue : queue = results[p]
    OBVIOUS
  <1>2. queue \in Seq(Ended) /\ Named(queue) /\ main[p] \in Thread /\ reported[p] \in Seq(Nat) /\ completed[p] \in Nat
    BY <1>1, AuditConstants DEF AuditIInv, AuditTypes, InFlight
  <1>3. main[p].pc \in {"idle", "wait"} /\ Mode(p) # "authority" /\ (DrainOnce(p) => Mode(p) = "once")
    BY DEF Drain, DrainOnce, Enters, AuditIInv, OnMain
  <1>4. Lined(reported[p], queue, <<>>, completed[p])
    BY <1>1, <1>2, <1>3, QueueTaken DEF AuditIInv, InOrder, Waiting
  <1>5. /\ UNCHANGED <<auditConf, audit, abandoned, completed, reported, Durable, announced, attempts>>
        /\ results' = [results EXCEPT ![p] = <<>>]
    BY DEF Drain, DrainOnce
  <1>6. /\ results' \in [Auditors -> Seq(Ended)] /\ results'[p] = <<>> /\ Named(<<>>)
        /\ reported' \in [Auditors -> Seq(Nat)]
        /\ \A q \in Auditors \ {p} : results'[q] = results[q]
    <2>1. <<>> \in Seq(Ended) /\ Named(<<>>)
      BY DEF Named
    <2> QED
      BY <1>5, <2>1 DEF AuditIInv, AuditTypes
  <1>7. PICK t : t = [pc |-> IF Drain(p) THEN "log" ELSE "log_once", drained |-> queue]
    OBVIOUS
  <1>8. t \in Thread /\ t.pc = (IF Drain(p) THEN "log" ELSE "log_once") /\ t.drained = queue
    BY <1>2, <1>7 DEF Thread, TickPlaces
  <1>9. main' = [main EXCEPT ![p] = t]
    BY <1>1, <1>7 DEF Drain, DrainOnce
  <1>10. Waiting(t) = queue
    BY <1>8 DEF Waiting
  <1>11. CASE Drain(p)
    <2>1. tickLock = NONE /\ tickLock' = p
      BY <1>11 DEF Drain, Enters
    <2> QED
      BY <1>2, <1>3, <1>4, <1>5, <1>6, <1>8, <1>9, <1>10, <1>11, <2>1, ThreadMoves
  <1>12. CASE DrainOnce(p) /\ ~Drain(p)
    <2>1. tickLock' = tickLock
      BY <1>12 DEF DrainOnce
    <2> QED
      BY <1>2, <1>3, <1>4, <1>5, <1>6, <1>8, <1>9, <1>10, <1>12, <2>1, ThreadMoves
  <1> QED
    BY <1>11, <1>12

\* A verdict is reported; a PASS that the fence lets through is reserved first.
LEMMA LogStep ==
  ASSUME AuditIInv, NEW p \in Auditors, LogOne(p)
  PROVE  AuditIInv'
  <1>1. PICK held, t : held = main[p].drained /\ t = [main[p] EXCEPT !.drained = Tail(held)]
    OBVIOUS
  <1>2. /\ main[p].pc \in {"log", "log_once"} /\ held # <<>> /\ main[p] \in Thread /\ held \in Seq(Ended)
        /\ reported[p] \in Seq(Nat) /\ completed[p] \in Nat /\ results[p] \in Seq(Ended) /\ Named(held)
    BY <1>1, AuditConstants DEF LogOne, AuditIInv, AuditTypes, Thread, OnMain
  <1>3. Lined(reported[p], held, results[p], completed[p])
    BY <1>1, <1>2 DEF AuditIInv, InOrder, Waiting
  <1>4. PICK more : more = Append(reported[p], Head(held).n)
    OBVIOUS
  <1>5. /\ Lined(more, Tail(held), results[p], completed[p]) /\ more \in Seq(Nat) /\ Tail(held) \in Seq(Ended)
        /\ Named(Tail(held))
    BY <1>2, <1>3, <1>4, FirstReported
  <1>6. t \in Thread /\ t.pc = main[p].pc /\ t.drained = Tail(held)
    BY <1>1, <1>2, <1>5 DEF Thread
  <1>7. /\ main' = [main EXCEPT ![p] = t] /\ reported' = [reported EXCEPT ![p] = more]
        /\ UNCHANGED <<auditConf, tickLock, audit, results, abandoned, completed, attempts>>
    BY <1>1, <1>2, <1>4 DEF LogOne, log_audit_events, Threads, AuditIInv, AuditTypes
  <1>8. /\ main' \in [Auditors -> Thread] /\ main'[p] = t /\ \A q \in Auditors \ {p} : main'[q] = main[q]
        /\ reported' \in [Auditors -> Seq(Nat)] /\ reported'[p] = more
        /\ \A q \in Auditors \ {p} : reported'[q] = reported[q]
    BY <1>5, <1>6, <1>7 DEF AuditIInv, AuditTypes
  <1>9. InOrder(p)'
    BY <1>2, <1>5, <1>6, <1>7, <1>8 DEF InOrder, Waiting
  <1>10. InFlight(p)' /\ OnMain(p)' /\ Reserved(p)'
    BY <1>2, <1>5, <1>6, <1>7, <1>8 DEF AuditIInv, InFlight, OnMain, Reserved, Mode
  <1>11. CASE UNCHANGED <<Durable, announced>>
    <2>1. OneLine' /\ AuditTypes'
      BY <1>7, <1>8, <1>11, LineStays, StillTyped DEF Durable
    <2> QED
      BY <1>7, <1>8, <1>9, <1>10, <1>11, <2>1, OneAuditor
  <1>12. ASSUME NEW m, m = Head(held).m, Head(held).status = "PASS",
                write_state_fenced(reserved, m), Reserve(m), Announce(p, m)
         PROVE  AuditIInv'
    <2>1. m \in DOMAIN Manifests
      BY <1>2, <1>12 DEF Named
    <2>2. /\ OneLine' /\ reservations' \in Seq(DOMAIN Manifests) /\ reserved' = m
          /\ \A n : (\E i \in DOMAIN reservations : reservations[i] = n)
                      => (\E i \in DOMAIN reservations' : reservations'[i] = n)
      BY <1>12, <2>1, LineGrows DEF Announce
    <2>3. announced' \subseteq DOMAIN Manifests
      BY <1>12, <2>1 DEF Announce, AuditIInv, AuditTypes
    <2>4. AuditTypes'
      BY <1>7, <1>8, <2>1, <2>2, <2>3, StillTyped DEF MaybeManifest
    <2>5. tickLock = p \/ Mode(p) = "once"
      BY <1>2 DEF AuditIInv, OnMain
    <2> QED
      BY <1>7, <1>8, <1>9, <1>10, <2>2, <2>4, <2>5, OneAuditor
  <1> QED
    BY <1>1, <1>11, <1>12 DEF LogOne, log_audit_events

LEMMA SubmitStep ==
  ASSUME AuditIInv, NEW p \in Auditors, Submit(p)
  PROVE  AuditIInv'
  <1>1. /\ main[p].pc = "log" /\ main[p].drained = <<>> /\ tickLock = p /\ tickLock' = NONE
        /\ main[p] \in Thread /\ Mode(p) # "authority"
        /\ UNCHANGED <<auditConf, results, abandoned, completed, reported, Durable, announced, attempts>>
    BY DEF Submit, AuditIInv, AuditTypes, OnMain
  <1>2. PICK t : t = [Unoccupied EXCEPT !.pc = IF Mode(p) = "once" THEN "wait" ELSE "idle"]
    OBVIOUS
  <1>3. t \in Thread /\ t.pc = (IF Mode(p) = "once" THEN "wait" ELSE "idle") /\ t.drained = <<>>
    <2>1. PICK spot : spot = (IF Mode(p) = "once" THEN "wait" ELSE "idle")
      OBVIOUS
    <2>2. spot \in TickPlaces /\ <<>> \in Seq(Ended)
      BY <2>1 DEF TickPlaces
    <2>3. t = [pc |-> spot, drained |-> <<>>]
      BY <1>2, <2>1 DEF Unoccupied
    <2> QED
      BY <2>1, <2>2, <2>3 DEF Thread
  <1>4. main' = [main EXCEPT ![p] = t]
    BY <1>2 DEF Submit
  <1>5. main' \in [Auditors -> Thread] /\ main'[p] = t /\ \A q \in Auditors \ {p} : main'[q] = main[q]
    BY <1>3, <1>4 DEF AuditIInv, AuditTypes
  <1>6. /\ audit' \in [Auditors -> Flight] /\ \A q \in Auditors \ {p} : audit'[q] = audit[q]
        /\ InFlight(p)'
    <2>1. CASE audit' = audit
      BY <1>1, <2>1 DEF AuditIInv, AuditTypes, InFlight, Mode
    <2>2. CASE audit' # audit
      <3>1. PICK f : f = [pc |-> "fetch", n |-> completed[p] + 1, snap |-> reserved, idx |-> NONE]
        OBVIOUS
      <3>2. audit' = [audit EXCEPT ![p] = f] /\ completed[p] < MaxAudits
        BY <2>2, <3>1 DEF Submit
      <3>3. f \in Flight /\ f.pc = "fetch" /\ f.n = completed[p] + 1
        BY <3>1, AuditConstants DEF Flight, AuditIInv, AuditTypes
      <3>4. audit' \in [Auditors -> Flight] /\ audit'[p] = f /\ \A q \in Auditors \ {p} : audit'[q] = audit[q]
        BY <3>2, <3>3 DEF AuditIInv, AuditTypes
      <3> QED
        BY <1>1, <3>2, <3>3, <3>4 DEF AuditIInv, InFlight, Mode, Questions
    <2> QED
      BY <2>1, <2>2
  <1>7. AuditTypes'
    BY <1>1, <1>5, <1>6, StillTyped
  <1>8. InOrder(p)'
    BY <1>1, <1>3, <1>5 DEF AuditIInv, InOrder, Waiting
  <1>9. OnMain(p)' /\ Reserved(p)'
    <2>1. Named(<<>>)
      BY DEF Named
    <2> QED
      BY <1>1, <1>3, <1>5, <2>1 DEF OnMain, Reserved, Mode
  <1>10. OneLine'
    BY <1>1, LineStays DEF Durable
  <1> QED
    BY <1>1, <1>5, <1>6, <1>7, <1>8, <1>9, <1>10, OneAuditor

LEMMA TickStep ==
  ASSUME AuditIInv, NEW p \in Auditors, AuthorityTick(p)
  PROVE  AuditIInv'
  <1>1. /\ main[p].pc = "idle" /\ main[p].drained = <<>> /\ tickLock = NONE /\ tickLock' = p
        /\ main[p] \in Thread /\ Mode(p) = "authority" /\ completed[p] < MaxAudits
        /\ UNCHANGED <<auditConf, results, abandoned, completed, reported, Durable, announced, attempts>>
    BY DEF AuthorityTick, Enters, AuditIInv, AuditTypes, OnMain
  <1>2. PICK t : t = [main[p] EXCEPT !.pc = "audit"]
    OBVIOUS
  <1>3. t \in Thread /\ t.pc = "audit" /\ t.drained = <<>>
    BY <1>1, <1>2 DEF Thread, TickPlaces
  <1>4. main' = [main EXCEPT ![p] = t]
    BY <1>2 DEF AuthorityTick
  <1>5. main' \in [Auditors -> Thread] /\ main'[p] = t /\ \A q \in Auditors \ {p} : main'[q] = main[q]
    BY <1>3, <1>4 DEF AuditIInv, AuditTypes
  <1>6. PICK f : f = [pc |-> "fetch", n |-> completed[p] + 1, snap |-> reserved, idx |-> NONE]
    OBVIOUS
  <1>7. f \in Flight /\ f.pc = "fetch" /\ f.n = completed[p] + 1 /\ audit' = [audit EXCEPT ![p] = f]
    BY <1>6, AuditConstants, SMTT(30) DEF AuthorityTick, Flight, AuditIInv, AuditTypes
  <1>8. audit' \in [Auditors -> Flight] /\ audit'[p] = f /\ \A q \in Auditors \ {p} : audit'[q] = audit[q]
    BY <1>7 DEF AuditIInv, AuditTypes
  <1>9. InFlight(p)'
    BY <1>1, <1>3, <1>5, <1>7, <1>8 DEF AuditIInv, InFlight, Mode, Questions
  <1>10. AuditTypes'
    BY <1>1, <1>5, <1>8, StillTyped
  <1>11. InOrder(p)'
    BY <1>1, <1>3, <1>5 DEF AuditIInv, InOrder, Waiting
  <1>12. OnMain(p)' /\ Reserved(p)'
    <2>1. Named(<<>>)
      BY DEF Named
    <2> QED
      BY <1>1, <1>3, <1>5, <2>1 DEF OnMain, Reserved, Mode
  <1>13. OneLine'
    BY <1>1, LineStays DEF Durable
  <1> QED
    BY <1>1, <1>5, <1>8, <1>9, <1>10, <1>11, <1>12, <1>13, OneAuditor

\* The verdict of an authority tick, in the hands of the process that holds the lock.
LEMMA JudgeFacts ==
  ASSUME AuditIInv, NEW p \in Auditors, main[p].pc \in {"judge", "announce", "bind"}
  PROVE  /\ main[p] \in Thread /\ Judged(p) = main[p].drained[1] /\ Judged(p) \in Ended /\ tickLock = p
         /\ main[p].drained \in Seq(Ended) /\ Len(main[p].drained) = 1 /\ Mode(p) = "authority"
         /\ results[p] = <<>> /\ audit[p].pc = "none" /\ reported[p] \in Seq(Nat) /\ completed[p] \in Nat
         /\ (Judged(p).status = "PASS" => Judged(p).m \in DOMAIN Manifests)
         /\ Tail(main[p].drained) = <<>>
  <1>1. /\ main[p] \in Thread /\ main[p].drained \in Seq(Ended) /\ Len(main[p].drained) = 1 /\ tickLock = p
        /\ Mode(p) = "authority" /\ Named(main[p].drained) /\ reported[p] \in Seq(Nat) /\ completed[p] \in Nat
    <2>1. main[p] \in Thread /\ reported[p] \in Seq(Nat) /\ completed[p] \in 0 .. MaxAudits
      BY DEF AuditIInv, AuditTypes
    <2>2. main[p].drained \in Seq(Ended)
      BY <2>1 DEF Thread
    <2>3. OnMain(p)
      BY DEF AuditIInv
    <2>4. Len(main[p].drained) = 1 /\ tickLock = p /\ Mode(p) = "authority" /\ Named(main[p].drained)
      BY <2>3 DEF OnMain
    <2> QED
      BY <2>1, <2>2, <2>4
  <1>2. Judged(p) = main[p].drained[1] /\ Judged(p) \in Ended /\ Tail(main[p].drained) = <<>>
    <2>1. PICK held : held = main[p].drained
      OBVIOUS
    <2>2. held \in Seq(Ended) /\ Len(held) = 1
      BY <1>1, <2>1
    <2>3. Head(held) = held[1] /\ held[1] \in Ended
      BY <2>2
    <2>4. held # <<>>
      <3>1. Len(<<>>) = 0
        BY EmptySeq
      <3>2. Len(held) # 0
        BY <2>2
      <3> QED
        BY <3>1, <3>2
    <2>5. Tail(held) \in Seq(Ended) /\ Len(Tail(held)) = 0
      BY <2>2, <2>4, HeadTailProperties
    <2>6. Tail(held) = <<>>
      BY <2>5, EmptySeq
    <2> QED
      BY <2>1, <2>3, <2>6 DEF Judged
  <1>3. results[p] = <<>> /\ audit[p].pc = "none"
    BY <1>1 DEF AuditIInv, InFlight
  <1> QED
    BY <1>1, <1>2, <1>3 DEF Named

LEMMA LeavesTick ==
  ASSUME AuditIInv, NEW p \in Auditors, main[p].pc \in {"judge", "announce", "bind"}, Leaves(p),
         UNCHANGED <<auditConf, Threads, Durable, announced>>,
         reported' \in [Auditors -> Seq(Nat)], \A q \in Auditors \ {p} : reported'[q] = reported[q],
         Lined(reported'[p], <<>>, <<>>, completed[p]),
         \A a \in attempts' \ attempts : InTicks => a.weights = a.evidence
  PROVE  AuditIInv'
  <1>1. PICK t : t = Unoccupied
    OBVIOUS
  <1>2. t \in Thread /\ t.pc = "idle" /\ t.drained = <<>> /\ main' = [main EXCEPT ![p] = t]
    BY <1>1 DEF Leaves, Unoccupied, Thread, TickPlaces
  <1>3. main' \in [Auditors -> Thread] /\ main'[p] = t /\ \A q \in Auditors \ {p} : main'[q] = main[q]
    BY <1>2 DEF AuditIInv, AuditTypes
  <1>4. tickLock = p /\ tickLock' = NONE /\ Mode(p) = "authority" /\ results[p] = <<>>
    BY JudgeFacts DEF Leaves
  <1>5. AuditTypes'
    BY <1>3, <1>4, StillTyped DEF Threads
  <1>6. InOrder(p)'
    BY <1>2, <1>3, <1>4 DEF InOrder, Waiting, Threads
  <1>7. InFlight(p)'
    BY <1>3, JudgeFacts DEF AuditIInv, InFlight, Mode, Threads, Questions
  <1>8. OnMain(p)' /\ Reserved(p)'
    <2>1. Named(<<>>)
      BY DEF Named
    <2> QED
      BY <1>2, <1>3, <1>4, <2>1 DEF OnMain, Reserved, Mode
  <1>9. OneLine'
    BY LineStays DEF Durable
  <1> QED
    BY <1>3, <1>4, <1>5, <1>6, <1>7, <1>8, <1>9, OneAuditor DEF Threads

LEMMA ReserveStep ==
  ASSUME AuditIInv, NEW p \in Auditors, AuthorityReserve(p)
  PROVE  AuditIInv'
  <1>1. main[p].pc = "judge" /\ UNCHANGED <<auditConf, Threads, announced, attempts>>
    BY DEF AuthorityReserve
  <1>2. PICK held : held = main[p].drained
    OBVIOUS
  <1>3. /\ held \in Seq(Ended) /\ held # <<>> /\ Head(held) = Judged(p) /\ Tail(held) = <<>>
        /\ held[1] = Judged(p)
        /\ Lined(reported[p], held, <<>>, completed[p]) /\ <<>> \in Seq(Ended)
    BY <1>1, <1>2, JudgeFacts DEF Judged, AuditIInv, InOrder, Waiting
  <1>4. CASE reported' = [reported EXCEPT ![p] = Append(@, Judged(p).n)] /\ Leaves(p) /\ UNCHANGED Durable
    <2>1. PICK more : more = Append(reported[p], Head(held).n)
      OBVIOUS
    <2>2. Lined(more, <<>>, <<>>, completed[p]) /\ more \in Seq(Nat)
      BY <1>1, <1>3, <2>1, JudgeFacts, FirstReported, ZenonT(30)
    <2>3. reported' = [reported EXCEPT ![p] = more]
      BY <1>3, <1>4, <2>1
    <2>4. /\ reported' \in [Auditors -> Seq(Nat)] /\ reported'[p] = more
          /\ \A q \in Auditors \ {p} : reported'[q] = reported[q]
      BY <2>2, <2>3 DEF AuditIInv, AuditTypes
    <2> QED
      BY <1>1, <1>4, <2>2, <2>4, LeavesTick
  <1>5. CASE /\ Judged(p).status = "PASS" /\ write_state_fenced(reserved, Judged(p).m)
             /\ Reserve(Judged(p).m) /\ main' = [main EXCEPT ![p].pc = "announce"]
             /\ UNCHANGED <<tickLock, reported>>
    <2>1. PICK m \in DOMAIN Manifests : m = Judged(p).m
      BY <1>1, <1>5, JudgeFacts
    <2>2. PICK t : t = [main[p] EXCEPT !.pc = "announce"]
      OBVIOUS
    <2>3. t \in Thread /\ t.pc = "announce" /\ t.drained = held
      BY <1>1, <1>2, <2>2, JudgeFacts DEF Thread, TickPlaces
    <2>4. main' = [main EXCEPT ![p] = t]
      BY <1>5, <2>2
    <2>5. main' \in [Auditors -> Thread] /\ main'[p] = t /\ \A q \in Auditors \ {p} : main'[q] = main[q]
      BY <2>3, <2>4 DEF AuditIInv, AuditTypes
    <2>6. /\ OneLine' /\ reservations' \in Seq(DOMAIN Manifests) /\ reserved' = m
          /\ (\E i \in DOMAIN reservations' : reservations'[i] = m)
          /\ \A n : (\E i \in DOMAIN reservations : reservations[i] = n)
                      => (\E i \in DOMAIN reservations' : reservations'[i] = n)
      BY <1>1, <1>5, <2>1, LineGrows
    <2>7. AuditTypes'
      BY <1>1, <1>5, <2>1, <2>5, <2>6, StillTyped DEF Threads, MaybeManifest
    <2>8. InOrder(p)'
      BY <1>1, <1>2, <1>3, <1>5, <2>3, <2>5, JudgeFacts DEF InOrder, Waiting, Threads
    <2>9. InFlight(p)'
      BY <1>1, <2>5, JudgeFacts DEF AuditIInv, InFlight, Mode, Threads, Questions
    <2>10. OnMain(p)'
      BY <1>1, <1>2, <1>5, <2>3, <2>5, JudgeFacts DEF AuditIInv, OnMain, Mode
    <2>11. Reserved(p)'
      BY <1>3, <2>1, <2>3, <2>5, <2>6 DEF Reserved
    <2> QED
      BY <1>1, <1>5, <2>5, <2>6, <2>7, <2>8, <2>9, <2>10, <2>11, JudgeFacts, OneAuditor DEF Threads
  <1> QED
    BY <1>4, <1>5 DEF AuthorityReserve

LEMMA AnnounceStep ==
  ASSUME AuditIInv, NEW p \in Auditors, AuthorityAnnounce(p)
  PROVE  AuditIInv'
  <1>1. /\ main[p].pc = "announce" /\ UNCHANGED <<auditConf, tickLock, audit, results, abandoned,
                                                  completed, Durable, attempts>>
        /\ reported' = [reported EXCEPT ![p] = Append(@, Judged(p).n)]
        /\ main' = [main EXCEPT ![p].pc = "bind"]
        /\ announced' \subseteq announced \cup {Judged(p).m}
    BY DEF AuthorityAnnounce, Announce, Threads
  <1>2. PICK held : held = main[p].drained
    OBVIOUS
  <1>3. /\ held \in Seq(Ended) /\ held # <<>> /\ Head(held) = Judged(p) /\ Tail(held) = <<>>
        /\ held[1] = Judged(p)
        /\ Lined(reported[p], held, <<>>, completed[p]) /\ <<>> \in Seq(Ended)
    BY <1>1, <1>2, JudgeFacts DEF Judged, AuditIInv, InOrder, Waiting
  <1>4. PICK more : more = Append(reported[p], Head(held).n)
    OBVIOUS
  <1>5. Lined(more, <<>>, <<>>, completed[p]) /\ more \in Seq(Nat)
    BY <1>1, <1>3, <1>4, JudgeFacts, FirstReported, ZenonT(30)
  <1>6. reported' = [reported EXCEPT ![p] = more]
    BY <1>1, <1>3, <1>4
  <1>7. /\ reported' \in [Auditors -> Seq(Nat)] /\ reported'[p] = more
        /\ \A q \in Auditors \ {p} : reported'[q] = reported[q]
    BY <1>5, <1>6 DEF AuditIInv, AuditTypes
  <1>8. PICK t : t = [main[p] EXCEPT !.pc = "bind"]
    OBVIOUS
  <1>9. t \in Thread /\ t.pc = "bind" /\ t.drained = held /\ main' = [main EXCEPT ![p] = t]
    BY <1>1, <1>2, <1>8, JudgeFacts DEF Thread, TickPlaces
  <1>10. main' \in [Auditors -> Thread] /\ main'[p] = t /\ \A q \in Auditors \ {p} : main'[q] = main[q]
    BY <1>9 DEF AuditIInv, AuditTypes
  <1>11. PICK m : m = Judged(p).m
    OBVIOUS
  <1>12. /\ m \in DOMAIN Manifests /\ (\E i \in DOMAIN reservations : reservations[i] = m)
         /\ (InTicks => reserved = m)
    BY <1>1, <1>2, <1>3, <1>11 DEF AuditIInv, Reserved
  <1>13. announced' \subseteq DOMAIN Manifests
    BY <1>1, <1>11, <1>12 DEF AuditIInv, AuditTypes
  <1>14. AuditTypes'
    BY <1>1, <1>7, <1>10, <1>13, StillTyped
  <1>15. OneLine'
    BY <1>1, <1>11, <1>12 DEF AuditIInv, OneLine, Durable
  <1>16. InOrder(p)'
    BY <1>1, <1>5, <1>7, <1>9, <1>10, JudgeFacts DEF InOrder, Waiting
  <1>17. InFlight(p)' /\ OnMain(p)'
    BY <1>1, <1>2, <1>9, <1>10, JudgeFacts DEF AuditIInv, InFlight, OnMain, Mode, Questions
  <1>18. Reserved(p)'
    BY <1>1, <1>3, <1>9, <1>10, <1>11, <1>12 DEF Reserved, InTicks, Mode, Durable
  <1> QED
    BY <1>1, <1>7, <1>10, <1>14, <1>15, <1>16, <1>17, <1>18, OneAuditor

LEMMA BindStep ==
  ASSUME AuditIInv, NEW p \in Auditors, AuthorityBind(p)
  PROVE  AuditIInv'
  <1>1. /\ main[p].pc = "bind" /\ Leaves(p) /\ UNCHANGED <<auditConf, Threads, reported, Durable, announced>>
        /\ attempts' = attempts \cup {[weights |-> Judged(p).m, evidence |-> reserved]}
    BY DEF AuthorityBind
  <1>2. Lined(reported[p], <<>>, <<>>, completed[p])
    BY <1>1, JudgeFacts DEF AuditIInv, InOrder, Waiting
  <1>3. InTicks => reserved = Judged(p).m
    BY <1>1, JudgeFacts DEF AuditIInv, Reserved
  <1>4. reported' \in [Auditors -> Seq(Nat)]
    BY <1>1 DEF AuditIInv, AuditTypes
  <1>5. \A a \in attempts' \ attempts : InTicks => a.weights = a.evidence
    BY <1>1, <1>3
  <1> QED
    BY <1>1, <1>2, <1>4, <1>5, LeavesTick

\* A restarted process starts its count anew.
LEMMA AuditorDies ==
  ASSUME AuditIInv, NEW p \in Auditors, Dies(p)
  PROVE  AuditIInv'
  <1>1. <<>> \in Seq(Ended) /\ <<>> \in Seq(Nat) /\ Len(<<>>) = 0 /\ Named(<<>>)
    BY DEF Named
  <1>2. PICK t, f : t = Unoccupied /\ f = NoAudit
    OBVIOUS
  <1>3. t \in Thread /\ t.pc = "idle" /\ t.drained = <<>> /\ f \in Flight /\ f.pc = "none"
    BY <1>1, <1>2 DEF Unoccupied, Thread, TickPlaces, NoAudit, Flight, MaybeManifest
  <1>4. /\ main' = [main EXCEPT ![p] = t] /\ audit' = [audit EXCEPT ![p] = f]
        /\ results' = [results EXCEPT ![p] = <<>>] /\ abandoned' = [abandoned EXCEPT ![p] = 0]
        /\ completed' = [completed EXCEPT ![p] = 0] /\ reported' = [reported EXCEPT ![p] = <<>>]
        /\ UNCHANGED <<auditConf, Durable, announced, attempts>>
        /\ tickLock' = IF tickLock = p THEN NONE ELSE tickLock
    BY <1>2 DEF Dies
  <1>5. /\ main' \in [Auditors -> Thread] /\ audit' \in [Auditors -> Flight]
        /\ results' \in [Auditors -> Seq(Ended)] /\ abandoned' \in [Auditors -> 0 .. ChainLookupSlotCap]
        /\ completed' \in [Auditors -> 0 .. MaxAudits] /\ reported' \in [Auditors -> Seq(Nat)]
    BY <1>1, <1>3, <1>4, AuditConstants DEF AuditIInv, AuditTypes
  <1>6. /\ main'[p] = t /\ audit'[p] = f /\ results'[p] = <<>> /\ completed'[p] = 0 /\ reported'[p] = <<>>
        /\ \A q \in Auditors \ {p} :
              /\ main'[q] = main[q] /\ audit'[q] = audit[q] /\ results'[q] = results[q]
              /\ reported'[q] = reported[q] /\ completed'[q] = completed[q]
    BY <1>4 DEF AuditIInv, AuditTypes
  <1>7. tickLock' \in Auditors \cup {NONE}
    BY <1>4 DEF AuditIInv, AuditTypes
  <1>8. AuditTypes'
    BY <1>4, <1>5, <1>7, StillTyped
  <1>9. InOrder(p)'
    BY <1>1, <1>3, <1>6 DEF InOrder, Waiting, Lined
  <1>10. InFlight(p)' /\ OnMain(p)' /\ Reserved(p)'
    BY <1>1, <1>3, <1>6 DEF InFlight, OnMain, Reserved, Questions
  <1>11. OneLine'
    BY <1>4, LineStays DEF Durable
  <1> QED
    BY <1>4, <1>6, <1>8, <1>9, <1>10, <1>11, OneAuditor

LEMMA AuditNextStep == AuditIInv /\ [AuditNext]_auditVars => AuditIInv'
  <1> SUFFICES ASSUME AuditIInv, [AuditNext]_auditVars PROVE AuditIInv'
    OBVIOUS
  <1>1. CASE UNCHANGED auditVars
    BY <1>1 DEF auditVars, AuditIInv, AuditTypes, InOrder, InFlight, OnMain, Reserved, OneLine,
                AttemptIsAudited, Mode, InTicks
  <1>2. ASSUME NEW p \in Auditors, AuditStep(p) \/ MainStep(p) \/ Dies(p)
        PROVE  AuditIInv'
    BY <1>2, AuditStepFits, DrainStep, LogStep, SubmitStep, TickStep, ReserveStep, AnnounceStep, BindStep,
       AuditorDies DEF MainStep
  <1> QED
    BY <1>1, <1>2 DEF AuditNext

\* The serials of a list of verdicts, and two lists that count on.
LEMMA SerialsOf ==
  ASSUME NEW s \in Seq(Ended)
  PROVE  /\ [i \in DOMAIN s |-> s[i].n] \in Seq(Nat)
         /\ Len([i \in DOMAIN s |-> s[i].n]) = Len(s)
         /\ \A i \in 1 .. Len(s) : [j \in DOMAIN s |-> s[j].n][i] = s[i].n
  <1>1. DOMAIN s = 1 .. Len(s) /\ Len(s) \in Nat /\ \A i \in 1 .. Len(s) : s[i] \in Ended
    OBVIOUS
  <1>2. \A i \in 1 .. Len(s) : s[i].n \in Nat
    BY <1>1 DEF Ended
  <1>3. PICK ids : ids = [i \in 1 .. Len(s) |-> s[i].n]
    OBVIOUS
  <1>4. ids \in [1 .. Len(s) -> Nat] /\ \A i \in 1 .. Len(s) : ids[i] = s[i].n
    BY <1>2, <1>3
  <1>5. ids \in Seq(Nat) /\ Len(ids) = Len(s)
    BY <1>1, <1>4
  <1>6. ids = [i \in DOMAIN s |-> s[i].n]
    BY <1>1, <1>3
  <1> QED
    BY <1>4, <1>5, <1>6

LEMMA Counted ==
  ASSUME NEW s \in Seq(Nat), NEW t \in Seq(Nat),
         \A i \in 1 .. Len(s) : s[i] = i, \A i \in 1 .. Len(t) : t[i] = Len(s) + i
  PROVE  /\ s \o t \in Seq(Nat) /\ Len(s \o t) = Len(s) + Len(t)
         /\ \A i \in 1 .. Len(s \o t) : (s \o t)[i] = i
  <1>1. /\ s \o t \in Seq(Nat) /\ Len(s \o t) = Len(s) + Len(t) /\ Len(s) \in Nat /\ Len(t) \in Nat
        /\ \A i \in 1 .. Len(s) + Len(t) : (s \o t)[i] = IF i <= Len(s) THEN s[i] ELSE t[i - Len(s)]
    BY ConcatProperties
  <1>2. ASSUME NEW i \in 1 .. Len(s \o t) PROVE (s \o t)[i] = i
    <2>1. CASE i <= Len(s)
      BY <1>1, <2>1
    <2>2. CASE ~(i <= Len(s))
      <3>1. i - Len(s) \in 1 .. Len(t)
        BY <1>1, <2>2
      <3>2. t[i - Len(s)] = Len(s) + (i - Len(s))
        BY <3>1
      <3> QED
        BY <1>1, <2>2, <3>2
    <2> QED
      BY <2>1, <2>2
  <1> QED
    BY <1>1, <1>2

LEMMA AuditSafe == AuditIInv => AuditInv
  <1> SUFFICES ASSUME AuditIInv PROVE AuditInv
    OBVIOUS
  <1>1. AuditTypeOK
    BY AuditConstants DEF AuditIInv, AuditTypes, AuditTypeOK, Thread, TickPlaces, Flight, Questions,
                          MaybeManifest
  <1>2. EveryAuditReported
    <2>1. SUFFICES ASSUME NEW p \in Auditors,
                          NEW held, held = IF main[p].pc \in {"announce", "judge", "log", "log_once"}
                                           THEN [i \in DOMAIN main[p].drained |-> main[p].drained[i].n] ELSE <<>>
                   PROVE  reported[p] \o held \o [i \in DOMAIN results[p] |-> results[p][i].n]
                            = [i \in 1 .. completed[p] |-> i]
      BY DEF EveryAuditReported
    <2>2. PICK told, queue, ended : told = reported[p] /\ ended = completed[p]
                                    /\ queue = [i \in DOMAIN results[p] |-> results[p][i].n]
      OBVIOUS
    <2>3. PICK w, r : w = Waiting(main[p]) /\ r = results[p]
      OBVIOUS
    <2>4. /\ told \in Seq(Nat) /\ w \in Seq(Ended) /\ r \in Seq(Ended) /\ ended \in Nat
          /\ Lined(told, w, r, ended)
      BY <2>2, <2>3, AuditConstants DEF AuditIInv, AuditTypes, InOrder, Waiting, Thread
    <2>5. held \in Seq(Nat) /\ Len(held) = Len(w) /\ \A i \in 1 .. Len(w) : held[i] = w[i].n
      <3>1. CASE main[p].pc \in {"announce", "judge", "log", "log_once"}
        <4>1. w = main[p].drained /\ held = [i \in DOMAIN w |-> w[i].n]
          BY <2>1, <2>3, <3>1 DEF Waiting
        <4> QED
          BY <2>4, <4>1, SerialsOf
      <3>2. CASE main[p].pc \notin {"announce", "judge", "log", "log_once"}
        <4>1. w = <<>> /\ held = <<>>
          BY <2>1, <2>3, <3>2 DEF Waiting
        <4> QED
          BY <4>1
      <3> QED
        BY <3>1, <3>2
    <2>6. queue \in Seq(Nat) /\ Len(queue) = Len(r) /\ \A i \in 1 .. Len(r) : queue[i] = r[i].n
      BY <2>2, <2>3, <2>4, SerialsOf
    <2>7. PICK first : first = told \o held
      OBVIOUS
    <2>8. /\ first \in Seq(Nat) /\ Len(first) = Len(told) + Len(held)
          /\ \A i \in 1 .. Len(first) : first[i] = i
      <3>1. /\ \A i \in 1 .. Len(told) : told[i] = i
            /\ \A i \in 1 .. Len(held) : held[i] = Len(told) + i
        BY <2>4, <2>5 DEF Lined
      <3> QED
        BY <2>4, <2>5, <2>7, <3>1, Counted
    <2>9. PICK all : all = first \o queue
      OBVIOUS
    <2>10. /\ all \in Seq(Nat) /\ Len(all) = ended /\ \A i \in 1 .. ended : all[i] = i
      <3>1. Len(first) + Len(queue) = ended
        BY <2>4, <2>5, <2>6, <2>8 DEF Lined
      <3>2. \A i \in 1 .. Len(queue) : queue[i] = Len(first) + i
        BY <2>4, <2>5, <2>6, <2>8 DEF Lined
      <3> QED
        BY <2>6, <2>8, <2>9, <3>1, <3>2, Counted
    <2>11. all = [i \in 1 .. ended |-> i]
      BY <2>4, <2>10
    <2> QED
      BY <2>2, <2>7, <2>9, <2>11
  <1>3. AnnouncedOnOneLine
    <2>1. DOMAIN reservations = 1 .. Len(reservations)
      BY DEF AuditIInv, AuditTypes
    <2> QED
      BY <2>1 DEF AuditIInv, OneLine, Follows, AnnouncedOnOneLine
  <1> QED
    BY <1>1, <1>2, <1>3 DEF AuditIInv, AuditInv

\* No audit that ended is lost or reported twice, what is announced lies on one line of
\* evidence that never moves back, and while reservations are made inside ticks an attempt
\* is recorded under the evidence it was computed from (AuditInv), for any processes on one
\* state file, any evidence the host serves and any deaths.
THEOREM AuditsOnOneLine == AuditSpec => []AuditInv
  BY AuditBegins, AuditNextStep, AuditSafe, PTL DEF AuditSpec

----------------------------------------------------------------------------
(* The status stream                                                        *)

Bearing == Authorities \cup {"STARTUP"}
StatusEvents == {sanitized_status_record(ev) : ev \in LoggedEvents}
StatusRows == [phase : {"PENDING", "COMMITTED", "TORN"}, id : Nat, ev : StatusEvents \cup {NONE}, ts : Nat]
Untorn == \A i \in DOMAIN statusLog : ~TornLine(statusLog[i])

\* In a log, the newest row or fence that bears on the authority is a launch.
LaunchIsLast(log) ==
    \E q \in DOMAIN log :
        /\ log[q].phase = "COMMITTED" /\ log[q].ev.code \in Authorities /\ log[q].ev.facet = "launch"
        /\ \A p \in DOMAIN log : p > q /\ log[p].phase = "PENDING" => log[p].ev.code \notin Bearing

\* Of the first n events of the private log, the newest that bears on it is one.
LaunchIsNewest(n) ==
    \E i \in 1..n : /\ rawLog[i].code \in Authorities /\ rawLog[i].facet = "launch"
                    /\ \A k \in 1..n : rawLog[k].code \in Bearing => k <= i

StreamShapes ==
    /\ rawLog \in Seq(LoggedEvents) /\ statusLog \in Seq(StatusRows)
    /\ logger = [pc |-> logger.pc, started |-> logger.started, ev |-> logger.ev, id |-> logger.id, ts |-> logger.ts]
    /\ logger.pc \in {"down", "idle", "raw", "commit"} /\ logger.id \in Nat /\ logger.ts \in Nat
    /\ logger.pc \in {"raw", "commit"} => logger.ev \in LoggedEvents
    /\ publisher = [pc |-> publisher.pc, tail |-> publisher.tail, doc |-> publisher.doc, source |-> publisher.source]
    /\ publisher.pc \in {"idle", "pending", "jsonl", "log", "recheck", "commit"}
    /\ publicStatus.phase \in {"PENDING", "COMMITTED"}
    /\ statusClock \in Nat /\ statusFaults \in Nat /\ publications \in Nat

\* While no line is torn, the rows of an event are in order: what the logger has
\* written of the event at hand, and each committed row of an event whose
\* successors in the private log have their fences behind it.
RowsInOrder ==
    Untorn =>
        /\ logger.pc = "raw" => /\ Len(statusLog) > 0 /\ statusLog[Len(statusLog)].phase = "PENDING"
                                /\ statusLog[Len(statusLog)].ev = sanitized_status_record(logger.ev)
        /\ logger.pc = "commit" => Len(rawLog) > 0 /\ rawLog[Len(rawLog)] = logger.ev
        /\ \A c \in DOMAIN statusLog : statusLog[c].phase = "COMMITTED" =>
              \E i \in DOMAIN rawLog :
                  /\ statusLog[c].ev = sanitized_status_record(rawLog[i])
                  /\ \A k \in DOMAIN rawLog : k > i =>
                        \E p \in DOMAIN statusLog : /\ p > c /\ statusLog[p].phase = "PENDING"
                                                    /\ statusLog[p].ev = sanitized_status_record(rawLog[k])

\* What a PASS the publisher has in hand, or has shown, rests on.
DocFits ==
    /\ publisher.pc \in {"pending", "jsonl", "log", "recheck"} =>
          /\ publisher.source \in 0..Len(statusLog)
          /\ Untorn /\ publisher.source = Len(statusLog) /\ publisher.doc.authority = "PASS" => LaunchIsLast(statusLog)
    /\ publisher.pc = "commit" =>
          /\ publisher.source \in 0..Len(rawLog)
          /\ Untorn /\ publisher.doc.authority = "PASS" => LaunchIsNewest(publisher.source)
    /\ publicStatus.phase = "COMMITTED" =>
          /\ publicStatus.seen \in 0..Len(rawLog)
          /\ Untorn /\ publicStatus.doc.authority = "PASS" => LaunchIsNewest(publicStatus.seen)

\* The views are replaced under the pending marker only.
ViewsFit ==
    /\ publisher.pc \in {"jsonl", "log", "recheck", "commit"} => publicStatus.phase = "PENDING"
    /\ publisher.pc \in {"log", "recheck", "commit"} => publicJsonl = publisher.tail
    /\ publisher.pc \in {"recheck", "commit"} => publicLog = publisher.tail
    /\ ViewsMatchStatus

StreamIInv == StreamShapes /\ RowsInOrder /\ DocFits /\ ViewsFit


\* The newest of some places of a log is the last of them.
LEMMA NewestIsLast ==
  ASSUME NEW places \in SUBSET Nat, NEW n \in Nat, places \subseteq 1..n, places # {}
  PROVE  Newest(places) \in places /\ \A j \in places : j <= Newest(places)
  <1>1. PICK R : R = StrictSubsetOrdering(Nat)
    OBVIOUS
  <1>2. PICK D : D = FiniteSubsetsOf(Nat)
    OBVIOUS
  <1>3. IsWellFoundedOn(R, D)
    BY <1>1, <1>2, FS_StrictSubsetOrderingWellFounded
  <1>4. PICK T : T = {{j \in places : j > i} : i \in places}
    OBVIOUS
  <1>5. T \subseteq D /\ T # {}
    <2>1. IsFiniteSet(1..n)
      BY FS_Interval
    <2>2. ASSUME NEW i \in places PROVE {j \in places : j > i} \in D
      <3>1. PICK later : later = {j \in places : j > i}
        OBVIOUS
      <3>2. later \subseteq 1..n /\ later \subseteq Nat
        BY <3>1
      <3> QED
        BY <1>2, <2>1, <3>1, <3>2, FS_Subset DEF FiniteSubsetsOf
    <2> QED
      BY <1>4, <2>2
  <1>6. PICK least \in T : \A y \in T : ~(<<y, least>> \in R)
    BY <1>3, <1>5, WFMin
  <1>7. PICK m \in places : least = {j \in places : j > m}
    BY <1>4
  <1>8. ASSUME NEW j \in places PROVE j <= m
    <2> SUFFICES ASSUME j > m PROVE FALSE
      OBVIOUS
    <2>1. PICK later : later = {k \in places : k > j}
      OBVIOUS
    <2>2. later \in T
      BY <1>4, <2>1
    <2>3. later \subseteq least /\ j \in least /\ j \notin later /\ later \subseteq Nat /\ least \subseteq Nat
      <3>1. j \in Nat /\ m \in Nat
        OBVIOUS
      <3>2. \A k \in later : k \in places /\ k \in Nat /\ k > j
        BY <2>1
      <3>3. \A k \in later : k \in least
        BY <1>7, <3>1, <3>2
      <3>4. j \in least /\ j \notin later
        BY <1>7, <2>1, <3>1
      <3> QED
        BY <1>7, <3>2, <3>3, <3>4
    <2>4. <<later, least>> \in R
      BY <1>1, <2>3 DEF StrictSubsetOrdering
    <2> QED
      BY <1>6, <2>2, <2>4
  <1> QED
    BY <1>8 DEF Newest

\* A tail keeps every row it shows that is newer than one it keeps.
TailKeeps(log, tail) ==
    /\ DOMAIN tail \subseteq DOMAIN log
    /\ \A i \in DOMAIN tail : tail[i] = log[i]
    /\ \A q \in DOMAIN tail : \A p \in DOMAIN log :
          p > q =>
            /\ log[p].phase = "COMMITTED" /\ clean_event(log[p]) => p \in DOMAIN tail
            /\ log[p].phase = "PENDING" =>
                  \/ p \in DOMAIN tail
                  \/ \E j \in DOMAIN tail : /\ j > p /\ closes_fence(log[j])
                                            /\ publication_commitment_matches(log[p], log[j])
                  \/ log[p].ev.code \notin Allowed

LEMMA TailFacts ==
  ASSUME NEW log \in Seq(StatusRows)
  PROVE  TailKeeps(log, tail_events(log))
  <1> DEFINE recent == {i \in DOMAIN log : Len(log) - i < MaxSourceRows}
             closed(i) == \E j \in recent : /\ j > i /\ closes_fence(log[j])
                                            /\ publication_commitment_matches(log[i], log[j])
             shown == {i \in recent : clean_event(log[i]) /\ (log[i].phase = "PENDING" => ~closed(i))}
             newest == {i \in shown : Cardinality({j \in shown : j > i}) < MaxTail}
  <1>1. PICK tail : tail = tail_events(log)
    OBVIOUS
  <1>2. tail = [i \in newest |-> log[i]]
    BY <1>1 DEF tail_events, Restrict
  <1>3. DOMAIN log = 1..Len(log) /\ Len(log) \in Nat /\ MaxTail \in Nat /\ MaxSourceRows \in Nat
    BY StreamConstants
  <1>6. newest \subseteq shown /\ shown \subseteq recent /\ recent \subseteq DOMAIN log
    OBVIOUS
  <1>4. ASSUME NEW q \in newest, NEW p \in shown, p > q
        PROVE  p \in newest
    <2>1. PICK A : A = {j \in shown : j > q}
      OBVIOUS
    <2>2. PICK B : B = {j \in shown : j > p}
      OBVIOUS
    <2>3. IsFiniteSet(A)
      <3>1. A \subseteq DOMAIN log
        <4> HIDE DEF shown, recent
        <4> QED
          BY <1>6, <2>1
      <3>2. A \subseteq 1..Len(log)
        BY <1>3, <3>1
      <3>3. PICK n \in Nat : n = Len(log)
        BY <1>3
      <3>4. IsFiniteSet(1..n)
        BY FS_Interval
      <3>5. A \subseteq 1..n
        BY <3>2, <3>3
      <3> QED
        BY <3>4, <3>5, FS_Subset
    <2>4. B \subseteq A
      BY <1>3, <1>4, <2>1, <2>2
    <2>5. Cardinality(B) <= Cardinality(A) /\ Cardinality(A) \in Nat /\ Cardinality(B) \in Nat
      BY <2>3, <2>4, FS_Subset, FS_CardinalityType
    <2>6. Cardinality(A) < MaxTail
      BY <2>1
    <2>7. Cardinality(B) < MaxTail
      BY <1>3, <2>5, <2>6
    <2> QED
      BY <2>2, <2>7
  <1>5. \A i \in recent : \A p \in DOMAIN log : p > i => p \in recent
    BY <1>3
  <1>7. ASSUME NEW q \in newest, NEW p \in DOMAIN log, p > q, log[p].phase = "COMMITTED", clean_event(log[p])
        PROVE  p \in newest
    <2>1. p \in recent
      BY <1>5, <1>6, <1>7
    <2>2. p \in shown
      BY <1>7, <2>1
    <2> HIDE DEF shown, newest
    <2> QED
      BY <1>4, <1>7, <2>2
  <1>8. ASSUME NEW q \in newest, NEW p \in DOMAIN log, p > q, log[p].phase = "PENDING", p \notin newest,
               log[p].ev.code \in Allowed
        PROVE  \E j \in newest : j > p /\ closes_fence(log[j]) /\ publication_commitment_matches(log[p], log[j])
    <2>1. p \in recent
      BY <1>5, <1>6, <1>8
    <2>2. p \notin shown
      <3> HIDE DEF shown, newest
      <3> QED
        BY <1>4, <1>8
    <2>3. clean_event(log[p])
      BY <1>8 DEF clean_event
    <2>4. PICK j \in recent : j > p /\ closes_fence(log[j]) /\ publication_commitment_matches(log[p], log[j])
      BY <1>8, <2>1, <2>2, <2>3
    <2>5. log[j].phase = "COMMITTED" /\ clean_event(log[j])
      BY <1>8, <2>4 DEF closes_fence, publication_commitment_matches
    <2>6. j \in DOMAIN log /\ j > q
      <3>1. j \in DOMAIN log /\ q \in DOMAIN log
        BY <1>6
      <3> QED
        BY <1>3, <1>8, <2>4, <3>1
    <2>7. j \in newest
      BY <1>7, <2>5, <2>6
    <2> QED
      BY <2>4, <2>7
  <1> HIDE DEF newest
  <1>9. DOMAIN tail = newest /\ \A i \in newest : tail[i] = log[i]
    BY <1>2
  <1>10. newest \subseteq DOMAIN log
    BY <1>6
  <1> QED
    BY <1>1, <1>7, <1>8, <1>9, <1>10 DEF TailKeeps

\* A PASS of a status document: the session of the tail has a launch, no newer row
\* of the authority and no open fence.
LEMMA PassFacts ==
  ASSUME NEW rows, NEW now, NEW n \in Nat, DOMAIN rows \subseteq 1..n,
         build_status(rows, now).authority = "PASS"
  PROVE  \E q \in DOMAIN rows :
            /\ rows[q].phase = "COMMITTED" /\ rows[q].ev.code \in Authorities /\ rows[q].ev.facet = "launch"
            /\ \A p \in DOMAIN rows : p > q =>
                  /\ rows[p].phase # "PENDING"
                  /\ rows[p].phase = "COMMITTED" => rows[p].ev.code \notin Bearing
  <1>1. PICK current : current = session_rows(rows)
    OBVIOUS
  <1>2. /\ DOMAIN current \subseteq DOMAIN rows /\ \A i \in DOMAIN current : current[i] = rows[i]
        /\ \A i \in DOMAIN current : \A p \in DOMAIN rows :
              p > i => p \in DOMAIN current /\ (rows[p].phase = "COMMITTED" => rows[p].ev.code # "STARTUP")
    <2>1. PICK starts : starts = Matching(rows, {"STARTUP"})
      OBVIOUS
    <2>2. starts \subseteq DOMAIN rows /\ starts \in SUBSET Nat /\ starts \subseteq 1..n
      BY <2>1 DEF Matching
    <2>3. \A p \in DOMAIN rows : rows[p].phase = "COMMITTED" /\ rows[p].ev.code = "STARTUP" => p \in starts
      BY <2>1 DEF Matching
    <2>4. CASE starts = {}
      <3>1. current = rows
        BY <1>1, <2>1, <2>4 DEF session_rows
      <3> QED
        BY <2>3, <2>4, <3>1
    <2>5. CASE starts # {}
      <3>1. PICK last : last = Newest(starts)
        OBVIOUS
      <3>2. last \in starts /\ \A j \in starts : j <= last
        BY <2>2, <2>5, <3>1, NewestIsLast
      <3>3. current = [i \in {j \in DOMAIN rows : j >= last} |-> rows[i]]
        BY <1>1, <2>1, <2>5, <3>1 DEF session_rows, Restrict
      <3>4. DOMAIN current = {j \in DOMAIN rows : j >= last} /\ \A i \in DOMAIN current : current[i] = rows[i]
        BY <3>3
      <3>5. ASSUME NEW i \in DOMAIN current, NEW p \in DOMAIN rows, p > i
            PROVE  p >= last /\ p > last
        <4>1. i \in Nat /\ p \in Nat /\ last \in Nat /\ i >= last
          BY <2>2, <3>2, <3>4
        <4> QED
          BY <3>5, <4>1
      <3>6. ASSUME NEW i \in DOMAIN current, NEW p \in DOMAIN rows, p > i
            PROVE  p \notin starts
        <4>1. p \in Nat /\ last \in Nat
          BY <2>2, <3>2
        <4> QED
          BY <3>2, <3>5, <3>6, <4>1
      <3> QED
        BY <2>3, <3>4, <3>5, <3>6
    <2> QED
      BY <2>4, <2>5
  <1>3. PICK pending \in BOOLEAN : pending = \E i \in DOMAIN current : current[i].phase = "PENDING"
    OBVIOUS
  <1>4. PICK decision : decision = latest_matching(current, Authorities)
    OBVIOUS
  <1>5. ~pending /\ event_fresh(decision, now) /\ is_launch_weight_boundary(decision)
    BY <1>1, <1>3, <1>4 DEF build_status
  <1>6. PICK hits : hits = Matching(current, Authorities)
    OBVIOUS
  <1>7. hits # {} /\ decision = current[Newest(hits)]
    BY <1>4, <1>5, <1>6 DEF latest_matching, event_fresh
  <1>8. PICK q : q = Newest(hits)
    OBVIOUS
  <1>9. q \in hits /\ \A j \in hits : j <= q
    <2>1. hits \subseteq 1..n /\ hits \in SUBSET Nat
      BY <1>2, <1>6 DEF Matching
    <2> QED
      BY <1>7, <1>8, <2>1, NewestIsLast
  <1>10. /\ q \in DOMAIN rows /\ q \in DOMAIN current /\ rows[q].phase = "COMMITTED"
         /\ rows[q].ev.code \in Authorities /\ current[q] = rows[q]
    BY <1>2, <1>6, <1>9 DEF Matching
  <1>11. rows[q].ev.facet = "launch"
    BY <1>5, <1>7, <1>8, <1>10 DEF is_launch_weight_boundary
  <1>12. ASSUME NEW p \in DOMAIN rows, p > q
         PROVE  /\ rows[p].phase # "PENDING"
                /\ rows[p].phase = "COMMITTED" => rows[p].ev.code \notin Bearing
    <2>1. /\ p \in DOMAIN current /\ current[p] = rows[p]
          /\ rows[p].phase = "COMMITTED" => rows[p].ev.code # "STARTUP"
      BY <1>2, <1>10, <1>12
    <2>2. rows[p].phase # "PENDING"
      BY <1>3, <1>5, <2>1
    <2>3. p \notin hits
      <3>1. p \in Nat /\ q \in Nat
        BY <1>10
      <3> QED
        BY <1>9, <1>12, <3>1
    <2>4. rows[p].phase = "COMMITTED" => rows[p].ev.code \notin Authorities
      BY <1>6, <2>1, <2>3 DEF Matching
    <2> QED
      BY <2>1, <2>2, <2>4 DEF Bearing
  <1> QED
    BY <1>10, <1>11, <1>12

\* A PASS read from a log: the newest row or fence of it that bears on the
\* authority is a launch.
LEMMA PassMeansLaunch ==
  ASSUME NEW log \in Seq(StatusRows), NEW now, build_status(tail_events(log), now).authority = "PASS"
  PROVE  LaunchIsLast(log)
  <1>1. PICK tail : tail = tail_events(log)
    OBVIOUS
  <1>2. TailKeeps(log, tail)
    BY <1>1, TailFacts
  <1>3. DOMAIN log = 1..Len(log) /\ Len(log) \in Nat
    OBVIOUS
  <1>4. DOMAIN tail \subseteq 1..Len(log) /\ DOMAIN tail \subseteq DOMAIN log
    BY <1>2, <1>3 DEF TailKeeps
  <1>5. PICK q \in DOMAIN tail :
            /\ tail[q].phase = "COMMITTED" /\ tail[q].ev.code \in Authorities /\ tail[q].ev.facet = "launch"
            /\ \A p \in DOMAIN tail : p > q =>
                  /\ tail[p].phase # "PENDING"
                  /\ tail[p].phase = "COMMITTED" => tail[p].ev.code \notin Bearing
    BY <1>1, <1>3, <1>4, PassFacts
  <1>6. q \in DOMAIN log /\ tail[q] = log[q]
    BY <1>2 DEF TailKeeps
  <1>7. ASSUME NEW p \in DOMAIN log, p > q, log[p].phase = "PENDING", log[p].ev.code \in Bearing
        PROVE  FALSE
    <2>1. log[p].ev.code \in Allowed
      BY <1>7 DEF Bearing, Allowed
    <2>2. p \notin DOMAIN tail
      BY <1>2, <1>5, <1>7 DEF TailKeeps
    <2>3. PICK j \in DOMAIN tail : j > p /\ closes_fence(log[j]) /\ publication_commitment_matches(log[p], log[j])
      BY <1>2, <1>7, <2>1, <2>2 DEF TailKeeps
    <2>4. tail[j] = log[j] /\ tail[j].phase = "COMMITTED" /\ tail[j].ev.code \in Bearing
      BY <1>2, <1>7, <2>3 DEF TailKeeps, closes_fence, publication_commitment_matches
    <2>5. j > q
      BY <1>3, <1>4, <1>7, <2>3
    <2> QED
      BY <1>5, <2>4, <2>5
  <1> QED
    BY <1>5, <1>6, <1>7 DEF LaunchIsLast

----------------------------------------------------------------------------
\* Rows are appended; while no line is torn they stay where they are.
LEMMA Appended ==
  ASSUME NEW log \in Seq(StatusRows), NEW row \in StatusRows
  PROVE  /\ AppendRow(log, row) \in Seq(StatusRows)
         /\ Len(AppendRow(log, row)) >= Len(log)
         /\ (\E i \in DOMAIN log : TornLine(log[i])) =>
               \E i \in DOMAIN AppendRow(log, row) : TornLine(AppendRow(log, row)[i])
         /\ (\A i \in DOMAIN log : ~TornLine(log[i])) => AppendRow(log, row) = Append(log, row)
  <1>1. PICK n \in Nat : n = Len(log) /\ DOMAIN log = 1..n
    OBVIOUS
  <1>2. CASE log # <<>> /\ TornLine(log[Len(log)])
    <2>1. n \in DOMAIN log
      BY <1>1, <1>2
    <2>2. PICK torn : torn = [log[n] EXCEPT !.phase = "TORN"]
      OBVIOUS
    <2>3. torn \in StatusRows /\ torn.phase = "TORN"
      <3>1. PICK last \in StatusRows : last = log[n]
        BY <1>1, <2>1
      <3>2. torn = [last EXCEPT !.phase = "TORN"]
        BY <2>2, <3>1
      <3> QED
        BY <3>1, <3>2 DEF StatusRows
    <2>4. PICK longer : longer = [log EXCEPT ![n] = torn]
      OBVIOUS
    <2>5. AppendRow(log, row) = longer
      BY <1>1, <1>2, <2>2, <2>4 DEF AppendRow
    <2>6. longer \in Seq(StatusRows) /\ Len(longer) = n /\ DOMAIN longer = 1..n /\ longer[n] = torn
      BY <1>1, <2>1, <2>3, <2>4
    <2> QED
      BY <1>1, <1>2, <2>1, <2>3, <2>5, <2>6 DEF TornLine
  <1>3. CASE ~(log # <<>> /\ TornLine(log[Len(log)]))
    <2>1. AppendRow(log, row) = Append(log, row)
      BY <1>3 DEF AppendRow
    <2>2. PICK longer : longer = Append(log, row)
      OBVIOUS
    <2>3. /\ longer \in Seq(StatusRows) /\ Len(longer) = n + 1 /\ DOMAIN longer = 1..n + 1
          /\ \A i \in 1..n : longer[i] = log[i]
      BY <1>1, <2>2
    <2> QED
      BY <1>1, <2>1, <2>2, <2>3
  <1> QED
    BY <1>2, <1>3

\* The sanitized event keeps its code, and a launch remains one and nothing else
\* becomes one.
LEMMA Sanitized ==
  ASSUME NEW ev \in LoggedEvents
  PROVE  /\ sanitized_status_record(ev) \in StatusEvents
         /\ sanitized_status_record(ev).code = ev.code
         /\ sanitized_status_record(ev).facet = "launch" => ev.facet = "launch"
  <1>1. ev = [code |-> ev.code, facet |-> ev.facet]
    BY StreamConstants
  <1>2. PICK facet : facet = structured_status_value(ev.facet)
    OBVIOUS
  <1>3. sanitized_status_record(ev) = [code |-> ev.code, facet |-> facet]
    BY <1>1, <1>2 DEF sanitized_status_record
  <1>4. facet = "launch" => ev.facet = "launch"
    BY <1>2, StreamConstants DEF structured_status_value
  <1> QED
    BY <1>3, <1>4 DEF StatusEvents

\* What a PASS of the status log says of the private log.
LEMMA LaunchOfBoth ==
  ASSUME StreamIInv, Untorn, LaunchIsLast(statusLog)
  PROVE  LaunchIsNewest(Len(rawLog))
  <1>1. PICK q \in DOMAIN statusLog :
            /\ statusLog[q].phase = "COMMITTED" /\ statusLog[q].ev.code \in Authorities
            /\ statusLog[q].ev.facet = "launch"
            /\ \A p \in DOMAIN statusLog : p > q /\ statusLog[p].phase = "PENDING" => statusLog[p].ev.code \notin Bearing
    BY DEF LaunchIsLast
  <1>2. PICK i \in DOMAIN rawLog :
            /\ statusLog[q].ev = sanitized_status_record(rawLog[i])
            /\ \A k \in DOMAIN rawLog : k > i =>
                  \E p \in DOMAIN statusLog : /\ p > q /\ statusLog[p].phase = "PENDING"
                                              /\ statusLog[p].ev = sanitized_status_record(rawLog[k])
    BY <1>1 DEF StreamIInv, RowsInOrder
  <1>3. rawLog \in Seq(LoggedEvents) /\ DOMAIN rawLog = 1..Len(rawLog) /\ Len(rawLog) \in Nat
        /\ \A k \in DOMAIN rawLog : rawLog[k] \in LoggedEvents
    BY DEF StreamIInv, StreamShapes
  <1>4. rawLog[i].code \in Authorities /\ rawLog[i].facet = "launch"
    BY <1>1, <1>2, <1>3, Sanitized
  <1>5. ASSUME NEW k \in 1..Len(rawLog), rawLog[k].code \in Bearing
        PROVE  k <= i
    <2>1. SUFFICES ASSUME k > i PROVE FALSE
      BY <1>3
    <2>2. PICK p \in DOMAIN statusLog : /\ p > q /\ statusLog[p].phase = "PENDING"
                                        /\ statusLog[p].ev = sanitized_status_record(rawLog[k])
      BY <1>2, <1>3, <2>1
    <2>3. statusLog[p].ev.code \in Bearing
      BY <1>3, <1>5, <2>2, Sanitized
    <2> QED
      BY <1>1, <2>2, <2>3
  <1> QED
    BY <1>3, <1>4, <1>5 DEF LaunchIsNewest

LEMMA StreamBegins == StreamInit => StreamIInv
  <1> SUFFICES ASSUME StreamInit PROVE StreamIInv
    OBVIOUS
  <1>1. /\ rawLog = <<>> /\ statusLog = <<>> /\ logger.pc = "down" /\ publisher.pc = "idle"
        /\ publicStatus.phase = "PENDING"
    BY DEF StreamInit, Down, PublisherIdle, Unpublished
  <1>2. StreamShapes
    <2>1. rawLog \in Seq(LoggedEvents) /\ statusLog \in Seq(StatusRows)
      BY <1>1
    <2> QED
      BY <1>1, <2>1 DEF StreamInit, Down, PublisherIdle, StreamShapes
  <1>3. RowsInOrder
    BY <1>1 DEF RowsInOrder
  <1>4. DocFits /\ ViewsFit
    BY <1>1 DEF DocFits, ViewsFit, ViewsMatchStatus
  <1> QED
    BY <1>2, <1>3, <1>4 DEF StreamIInv

\* What a longer private log changes of what was found in it: nothing.
LEMMA RawKept ==
  ASSUME StreamShapes, NEW ev \in LoggedEvents, rawLog' = Append(rawLog, ev),
         NEW n \in 0..Len(rawLog), LaunchIsNewest(n)
  PROVE  LaunchIsNewest(n)'
  <1>1. rawLog \in Seq(LoggedEvents) /\ Len(rawLog) \in Nat
    BY DEF StreamShapes
  <1>2. \A i \in 1..n : rawLog'[i] = rawLog[i]
    BY <1>1
  <1> QED
    BY <1>2 DEF LaunchIsNewest

\* The length of a sequence and its places.
LEMMA SeqLength ==
  ASSUME NEW S, NEW s \in Seq(S)
  PROVE  \E n \in Nat : n = Len(s) /\ DOMAIN s = 1..n
  OBVIOUS

\* A step that leaves the logs and what is published of them.
LEMMA LogsLeft ==
  ASSUME StreamIInv, UNCHANGED <<rawLog, statusLog, publisher, PublicFiles>>, StreamShapes',
         logger'.pc \in {"raw", "commit"} => logger' = logger
  PROVE  StreamIInv'
  <1>1. Untorn' = Untorn /\ (\A n : LaunchIsNewest(n)' = LaunchIsNewest(n))
        /\ LaunchIsLast(statusLog)' = LaunchIsLast(statusLog)
    BY DEF Untorn, LaunchIsNewest, LaunchIsLast
  <1>2. RowsInOrder'
    <2>1. CASE logger'.pc \in {"raw", "commit"}
      BY <1>1, <2>1 DEF StreamIInv, RowsInOrder
    <2>2. CASE logger'.pc \notin {"raw", "commit"}
      BY <1>1, <2>2 DEF StreamIInv, RowsInOrder
    <2> QED
      BY <2>1, <2>2
  <1>3. DocFits'
    BY <1>1 DEF StreamIInv, DocFits, PublicFiles
  <1>4. ViewsFit'
    BY DEF StreamIInv, ViewsFit, ViewsMatchStatus, PublicFiles
  <1> QED
    BY <1>2, <1>3, <1>4 DEF StreamIInv

----------------------------------------------------------------------------
\* A row that comes to the status log; what it is for the logger is said apart.
LEMMA RowComes ==
  ASSUME StreamIInv, NEW row \in StatusRows, statusLog' = AppendRow(statusLog, row),
         UNCHANGED <<rawLog, PublicFiles>>, StreamShapes', RowsInOrder',
         publisher' = publisher \/ publisher' = PublisherIdle
  PROVE  StreamIInv'
  <1>1. PICK n \in Nat : n = Len(statusLog) /\ DOMAIN statusLog = 1..n
    <2>1. statusLog \in Seq(StatusRows)
      BY DEF StreamIInv, StreamShapes
    <2> QED
      BY <2>1, SeqLength
  <1>2. statusLog \in Seq(StatusRows)
    BY DEF StreamIInv, StreamShapes
  <1>3. Len(statusLog') >= n /\ Len(statusLog') \in Nat /\ (Untorn' => Untorn /\ statusLog' = Append(statusLog, row))
    <2>1. PICK longer : longer = AppendRow(statusLog, row)
      OBVIOUS
    <2>2. /\ longer \in Seq(StatusRows) /\ Len(longer) >= n
          /\ (\E i \in DOMAIN statusLog : TornLine(statusLog[i])) => \E i \in DOMAIN longer : TornLine(longer[i])
          /\ (\A i \in DOMAIN statusLog : ~TornLine(statusLog[i])) => longer = Append(statusLog, row)
      BY <1>1, <1>2, <2>1, Appended
    <2>3. Len(longer) >= n /\ Len(longer) \in Nat
      BY <2>2
    <2>4. Untorn' => Untorn
      BY <2>1, <2>2 DEF Untorn
    <2>5. Untorn => longer = Append(statusLog, row)
      BY <2>2 DEF Untorn
    <2> QED
      BY <2>1, <2>3, <2>4, <2>5
  <1>4. Untorn' => Len(statusLog') = n + 1
    BY <1>1, <1>2, <1>3
  <1>5. \A m : LaunchIsNewest(m)' = LaunchIsNewest(m)
    BY DEF LaunchIsNewest
  <1>6. DocFits'
    <2>1. ASSUME publisher'.pc \in {"pending", "jsonl", "log", "recheck"}
          PROVE  publisher'.source \in 0..Len(statusLog') /\ ~(Untorn' /\ publisher'.source = Len(statusLog'))
      <3>1. publisher' = publisher /\ publisher.source \in 0..n
        BY <1>1, <2>1 DEF PublisherIdle, StreamIInv, DocFits
      <3> QED
        BY <1>3, <1>4, <3>1
    <2>2. ASSUME publisher'.pc = "commit"
          PROVE  /\ publisher'.source \in 0..Len(rawLog')
                 /\ Untorn' /\ publisher'.doc.authority = "PASS" => LaunchIsNewest(publisher.source)'
      <3>1. publisher' = publisher
        BY <2>2 DEF PublisherIdle
      <3> QED
        BY <1>3, <1>5, <2>2, <3>1 DEF StreamIInv, DocFits
    <2>3. publisher'.pc = "commit" => publisher' = publisher
      BY DEF PublisherIdle
    <2> QED
      BY <1>3, <1>5, <2>1, <2>2, <2>3 DEF StreamIInv, DocFits, PublicFiles
  <1>7. ViewsFit'
    BY DEF StreamIInv, ViewsFit, ViewsMatchStatus, PublicFiles, PublisherIdle
  <1> QED
    BY <1>6, <1>7 DEF StreamIInv

LEMMA FenceWritten == StreamIInv /\ write_fence => StreamIInv'
  <1> SUFFICES ASSUME StreamIInv, write_fence PROVE StreamIInv'
    OBVIOUS
  <1>1. PICK ev \in LoggedEvents :
            /\ statusLog' = AppendRow(statusLog, pending_status_record(Logged + 1, ev, statusClock))
            /\ logger' = [pc |-> "raw", started |-> TRUE, ev |-> ev, id |-> Logged + 1, ts |-> statusClock]
    BY DEF write_fence
  <1>2. PICK id \in Nat : id = Logged + 1
    BY DEF Logged, StreamIInv, StreamShapes
  <1>3. PICK row : row = pending_status_record(id, ev, statusClock)
    OBVIOUS
  <1>4. row \in StatusRows /\ row.phase = "PENDING" /\ row.ev = sanitized_status_record(ev)
    BY <1>3, Sanitized DEF pending_status_record, Row, StatusRows, StreamIInv, StreamShapes
  <1>5. statusLog' = AppendRow(statusLog, row) /\ statusLog \in Seq(StatusRows) /\ rawLog' = rawLog
    BY <1>1, <1>2, <1>3 DEF write_fence, StreamIInv, StreamShapes
  <1>6. StreamShapes'
    BY <1>1, <1>2, <1>4, <1>5, Appended DEF write_fence, PublicFiles, StreamIInv, StreamShapes
  <1>7. RowsInOrder'
    <2> SUFFICES ASSUME Untorn' PROVE RowsInOrder'
      BY DEF RowsInOrder
    <2>1. Untorn /\ statusLog' = Append(statusLog, row)
      BY <1>4, <1>5, Appended DEF Untorn
    <2>2. PICK n \in Nat : n = Len(statusLog) /\ DOMAIN statusLog = 1..n
      <3>1. statusLog \in Seq(StatusRows)
        BY DEF StreamIInv, StreamShapes
      <3> QED
        BY <3>1, SeqLength
    <2>3. /\ Len(statusLog') = n + 1 /\ DOMAIN statusLog' = 1..n + 1 /\ statusLog'[n + 1] = row
          /\ \A i \in 1..n : statusLog'[i] = statusLog[i]
      BY <1>5, <2>1, <2>2
    <2>4. ASSUME NEW c \in DOMAIN statusLog', statusLog'[c].phase = "COMMITTED"
          PROVE  \E i \in DOMAIN rawLog' :
                  /\ statusLog'[c].ev = sanitized_status_record(rawLog'[i])
                  /\ \A k \in DOMAIN rawLog' : k > i =>
                        \E p \in DOMAIN statusLog' : /\ p > c /\ statusLog'[p].phase = "PENDING"
                                                     /\ statusLog'[p].ev = sanitized_status_record(rawLog'[k])
      <3>1. c \in 1..n /\ statusLog'[c] = statusLog[c]
        BY <1>4, <2>3, <2>4
      <3>2. PICK i \in DOMAIN rawLog :
                  /\ statusLog[c].ev = sanitized_status_record(rawLog[i])
                  /\ \A k \in DOMAIN rawLog : k > i =>
                        \E p \in DOMAIN statusLog : /\ p > c /\ statusLog[p].phase = "PENDING"
                                                    /\ statusLog[p].ev = sanitized_status_record(rawLog[k])
        BY <2>1, <2>2, <2>4, <3>1 DEF StreamIInv, RowsInOrder
      <3> QED
        BY <1>5, <2>2, <2>3, <3>1, <3>2
    <2>5. logger'.pc = "raw" /\ logger'.ev = ev
      BY <1>1
    <2> QED
      BY <1>4, <2>3, <2>4, <2>5 DEF RowsInOrder
  <1> QED
    BY <1>4, <1>5, <1>6, <1>7, RowComes DEF write_fence, PublicFiles

LEMMA RawWritten == StreamIInv /\ write_raw => StreamIInv'
  <1> SUFFICES ASSUME StreamIInv, write_raw PROVE StreamIInv'
    OBVIOUS
  <1>1. PICK ev \in LoggedEvents : ev = logger.ev
    BY DEF write_raw, StreamIInv, StreamShapes
  <1>2. /\ rawLog' = Append(rawLog, ev) /\ statusLog' = statusLog /\ publisher' = publisher
        /\ logger' = [logger EXCEPT !.pc = "commit"] /\ logger.pc = "raw" /\ UNCHANGED PublicFiles
        /\ UNCHANGED <<statusClock, statusFaults, publications>>
    BY <1>1 DEF write_raw
  <1>3. rawLog \in Seq(LoggedEvents)
    BY DEF StreamIInv, StreamShapes
  <1>4. PICK m \in Nat : m = Len(rawLog) /\ DOMAIN rawLog = 1..m
    <2>1. rawLog \in Seq(LoggedEvents)
      BY DEF StreamIInv, StreamShapes
    <2> QED
      BY <2>1, SeqLength
  <1>5. /\ rawLog' \in Seq(LoggedEvents) /\ Len(rawLog') = m + 1 /\ DOMAIN rawLog' = 1..m + 1
        /\ rawLog'[m + 1] = ev /\ \A i \in 1..m : rawLog'[i] = rawLog[i]
    BY <1>2, <1>3, <1>4
  <1>6. logger'.pc = "commit" /\ logger'.ev = ev
    BY <1>1, <1>2 DEF StreamIInv, StreamShapes
  <1>7. StreamShapes'
    BY <1>2, <1>5, <1>6 DEF StreamIInv, StreamShapes, PublicFiles
  <1>8. Untorn' = Untorn /\ LaunchIsLast(statusLog)' = LaunchIsLast(statusLog)
    BY <1>2 DEF Untorn, LaunchIsLast
  <1>9. RowsInOrder'
    <2> SUFFICES ASSUME Untorn' PROVE RowsInOrder'
      BY DEF RowsInOrder
    <2>1. PICK n \in Nat : n = Len(statusLog) /\ DOMAIN statusLog = 1..n
      <3>1. statusLog \in Seq(StatusRows)
        BY DEF StreamIInv, StreamShapes
      <3> QED
        BY <3>1, SeqLength
    <2>2. n > 0 /\ statusLog[n].phase = "PENDING" /\ statusLog[n].ev = sanitized_status_record(ev)
      BY <1>1, <1>2, <1>8, <2>1 DEF StreamIInv, RowsInOrder
    <2>3. ASSUME NEW c \in DOMAIN statusLog, statusLog[c].phase = "COMMITTED"
          PROVE  \E i \in DOMAIN rawLog' :
                  /\ statusLog[c].ev = sanitized_status_record(rawLog'[i])
                  /\ \A k \in DOMAIN rawLog' : k > i =>
                        \E p \in DOMAIN statusLog : /\ p > c /\ statusLog[p].phase = "PENDING"
                                                    /\ statusLog[p].ev = sanitized_status_record(rawLog'[k])
      <3>1. PICK i \in DOMAIN rawLog :
                  /\ statusLog[c].ev = sanitized_status_record(rawLog[i])
                  /\ \A k \in DOMAIN rawLog : k > i =>
                        \E p \in DOMAIN statusLog : /\ p > c /\ statusLog[p].phase = "PENDING"
                                                    /\ statusLog[p].ev = sanitized_status_record(rawLog[k])
        BY <1>8, <2>3 DEF StreamIInv, RowsInOrder
      <3>2. c < n
        <4>1. c \in 1..n /\ c # n
          BY <2>1, <2>2, <2>3
        <4> QED
          BY <4>1
      <3>3. ASSUME NEW k \in DOMAIN rawLog', k > i
            PROVE  \E p \in DOMAIN statusLog : /\ p > c /\ statusLog[p].phase = "PENDING"
                                               /\ statusLog[p].ev = sanitized_status_record(rawLog'[k])
        <4>1. CASE k = m + 1
          <5>1. n \in DOMAIN statusLog /\ n > c
            BY <2>1, <2>2, <3>2
          <5> QED
            BY <1>5, <2>2, <4>1, <5>1
        <4>2. CASE k # m + 1
          <5>1. k \in DOMAIN rawLog /\ rawLog'[k] = rawLog[k]
            BY <1>4, <1>5, <4>2
          <5> QED
            BY <3>1, <3>3, <5>1
        <4> QED
          BY <4>1, <4>2
      <3>4. i \in DOMAIN rawLog' /\ rawLog'[i] = rawLog[i]
        BY <1>4, <1>5
      <3> QED
        BY <3>1, <3>3, <3>4
    <2> QED
      BY <1>2, <1>5, <1>6, <2>3 DEF RowsInOrder
  <1>10. DocFits'
    <2>1. ASSUME publisher.pc = "commit"
          PROVE  /\ publisher.source \in 0..Len(rawLog')
                 /\ Untorn /\ publisher.doc.authority = "PASS" => LaunchIsNewest(publisher.source)'
      <3>1. publisher.source \in 0..m
        BY <1>4, <2>1 DEF StreamIInv, DocFits
      <3> QED
        BY <1>2, <1>4, <1>5, <2>1, <3>1, RawKept DEF StreamIInv, DocFits
    <2>2. ASSUME publicStatus.phase = "COMMITTED"
          PROVE  /\ publicStatus.seen \in 0..Len(rawLog')
                 /\ Untorn /\ publicStatus.doc.authority = "PASS" => LaunchIsNewest(publicStatus.seen)'
      <3>1. PICK s \in 0..m : s = publicStatus.seen
        BY <1>4, <2>2 DEF StreamIInv, DocFits
      <3>2. s \in 0..Len(rawLog') /\ s = publicStatus'.seen
        BY <1>2, <1>5, <3>1 DEF PublicFiles
      <3>3. Untorn /\ publicStatus.doc.authority = "PASS" => LaunchIsNewest(s)
        BY <2>2, <3>1 DEF StreamIInv, DocFits
      <3>4. Untorn /\ publicStatus.doc.authority = "PASS" => LaunchIsNewest(s)'
        BY <1>2, <1>4, <3>3, RawKept DEF StreamIInv
      <3> QED
        BY <3>1, <3>2, <3>4
    <2> QED
      BY <1>2, <1>8, <2>1, <2>2 DEF StreamIInv, DocFits, PublicFiles
  <1>11. ViewsFit'
    BY <1>2 DEF StreamIInv, ViewsFit, ViewsMatchStatus, PublicFiles
  <1> QED
    BY <1>7, <1>9, <1>10, <1>11 DEF StreamIInv

LEMMA CommitWritten == StreamIInv /\ write_committed => StreamIInv'
  <1> SUFFICES ASSUME StreamIInv, write_committed PROVE StreamIInv'
    OBVIOUS
  <1>1. PICK ev \in LoggedEvents : ev = logger.ev
    BY DEF write_committed, StreamIInv, StreamShapes
  <1>2. PICK row : row = committed_status_record(logger.id, ev, logger.ts)
    OBVIOUS
  <1>3. row \in StatusRows /\ row.phase = "COMMITTED" /\ row.ev = sanitized_status_record(ev)
    BY <1>2, Sanitized DEF committed_status_record, Row, StatusRows, StreamIInv, StreamShapes
  <1>4. /\ statusLog' = AppendRow(statusLog, row) /\ statusLog \in Seq(StatusRows) /\ rawLog' = rawLog
        /\ logger' = [logger EXCEPT !.pc = "idle"] /\ logger.pc = "commit" /\ publisher' = publisher
        /\ UNCHANGED PublicFiles /\ UNCHANGED <<statusClock, statusFaults, publications>>
    BY <1>1, <1>2 DEF write_committed, StreamIInv, StreamShapes
  <1>5. StreamShapes'
    BY <1>3, <1>4, Appended DEF StreamIInv, StreamShapes, PublicFiles
  <1>6. RowsInOrder'
    <2> SUFFICES ASSUME Untorn' PROVE RowsInOrder'
      BY DEF RowsInOrder
    <2>1. Untorn /\ statusLog' = Append(statusLog, row)
      BY <1>3, <1>4, Appended DEF Untorn
    <2>2. PICK n \in Nat : n = Len(statusLog) /\ DOMAIN statusLog = 1..n
      <3>1. statusLog \in Seq(StatusRows)
        BY DEF StreamIInv, StreamShapes
      <3> QED
        BY <3>1, SeqLength
    <2>3. /\ Len(statusLog') = n + 1 /\ DOMAIN statusLog' = 1..n + 1 /\ statusLog'[n + 1] = row
          /\ \A i \in 1..n : statusLog'[i] = statusLog[i]
      BY <1>3, <1>4, <2>1, <2>2
    <2>4. PICK m \in Nat : m = Len(rawLog) /\ DOMAIN rawLog = 1..m
      <3>1. rawLog \in Seq(LoggedEvents)
        BY DEF StreamIInv, StreamShapes
      <3> QED
        BY <3>1, SeqLength
    <2>5. m > 0 /\ rawLog[m] = ev
      BY <1>1, <1>4, <2>1, <2>4 DEF StreamIInv, RowsInOrder
    <2>6. ASSUME NEW c \in DOMAIN statusLog', statusLog'[c].phase = "COMMITTED"
          PROVE  \E i \in DOMAIN rawLog' :
                  /\ statusLog'[c].ev = sanitized_status_record(rawLog'[i])
                  /\ \A k \in DOMAIN rawLog' : k > i =>
                        \E p \in DOMAIN statusLog' : /\ p > c /\ statusLog'[p].phase = "PENDING"
                                                     /\ statusLog'[p].ev = sanitized_status_record(rawLog'[k])
      <3>1. CASE c = n + 1
        <4>1. m \in DOMAIN rawLog' /\ \A k \in DOMAIN rawLog' : ~(k > m)
          BY <1>4, <2>4, <2>5
        <4>2. statusLog'[c].ev = sanitized_status_record(rawLog'[m])
          BY <1>3, <1>4, <2>3, <2>5, <3>1
        <4> QED
          BY <4>1, <4>2
      <3>2. CASE c # n + 1
        <4>1. c \in 1..n /\ statusLog'[c] = statusLog[c]
          BY <2>3, <2>6, <3>2
        <4>2. PICK i \in DOMAIN rawLog :
                  /\ statusLog[c].ev = sanitized_status_record(rawLog[i])
                  /\ \A k \in DOMAIN rawLog : k > i =>
                        \E p \in DOMAIN statusLog : /\ p > c /\ statusLog[p].phase = "PENDING"
                                                    /\ statusLog[p].ev = sanitized_status_record(rawLog[k])
          BY <2>1, <2>2, <2>6, <4>1 DEF StreamIInv, RowsInOrder
        <4> QED
          BY <1>4, <2>2, <2>3, <4>1, <4>2
      <3> QED
        BY <3>1, <3>2
    <2>7. logger'.pc = "idle"
      BY <1>4 DEF StreamIInv, StreamShapes
    <2> QED
      BY <2>6, <2>7 DEF RowsInOrder
  <1> QED
    BY <1>3, <1>4, <1>5, <1>6, RowComes

LEMMA HostDeath == StreamIInv /\ HostDies => StreamIInv'
  <1> SUFFICES ASSUME StreamIInv, HostDies PROVE StreamIInv'
    OBVIOUS
  <1>1. PICK row : row = Row("TORN", 0, NONE, 0)
    OBVIOUS
  <1>2. row \in StatusRows /\ TornLine(row) /\ row.phase = "TORN"
    BY <1>1 DEF Row, StatusRows, TornLine
  <1>3. /\ statusLog' = AppendRow(statusLog, row) /\ statusLog \in Seq(StatusRows) /\ rawLog' = rawLog
        /\ logger' = Down /\ publisher' = PublisherIdle /\ statusFaults' = statusFaults + 1
        /\ UNCHANGED PublicFiles /\ UNCHANGED <<statusClock, publications>>
    BY <1>1 DEF HostDies, StreamIInv, StreamShapes
  <1>4. statusLog' \in Seq(StatusRows)
    BY <1>2, <1>3, Appended
  <1>5. StreamShapes'
    BY <1>3, <1>4 DEF Down, PublisherIdle, StreamIInv, StreamShapes, PublicFiles
  <1>6. ~Untorn'
    <2>1. CASE Untorn
      <3>1. statusLog' = Append(statusLog, row)
        BY <1>2, <1>3, <2>1, Appended DEF Untorn
      <3>2. PICK n \in Nat : n = Len(statusLog)
        BY <1>3
      <3>3. n + 1 \in DOMAIN statusLog' /\ statusLog'[n + 1] = row
        BY <1>2, <1>3, <3>1, <3>2
      <3> QED
        BY <1>2, <3>3 DEF Untorn
    <2>2. CASE ~Untorn
      <3>1. PICK longer : longer = AppendRow(statusLog, row)
        OBVIOUS
      <3>2. \E i \in DOMAIN longer : TornLine(longer[i])
        BY <1>2, <1>3, <2>2, <3>1, Appended DEF Untorn
      <3> QED
        BY <1>3, <3>1, <3>2 DEF Untorn
    <2> QED
      BY <2>1, <2>2
  <1>7. RowsInOrder'
    BY <1>6 DEF RowsInOrder
  <1> QED
    BY <1>2, <1>3, <1>5, <1>7, RowComes

LEMMA LoggerSteps ==
  ASSUME StreamIInv, privatize_journal \/ open_logger \/ StatusTick \/ LoggerFails
  PROVE  StreamIInv'
  <1>1. CASE privatize_journal
    <2>1. StreamShapes'
      BY <1>1 DEF privatize_journal, PublicFiles, StreamIInv, StreamShapes
    <2> QED
      BY <1>1, <2>1, LogsLeft DEF privatize_journal, PublicFiles
  <1>2. CASE open_logger
    <2>1. logger'.pc = "idle"
      BY <1>2 DEF open_logger, Down
    <2>2. StreamShapes'
      BY <1>2 DEF open_logger, Down, LogFiles, PublicFiles, StreamIInv, StreamShapes
    <2> QED
      BY <1>2, <2>1, <2>2, LogsLeft DEF open_logger, LogFiles, PublicFiles
  <1>3. CASE StatusTick
    <2>1. StreamShapes'
      BY <1>3 DEF StatusTick, LogFiles, PublicFiles, StreamIInv, StreamShapes
    <2> QED
      BY <1>3, <2>1, LogsLeft DEF StatusTick, LogFiles, PublicFiles
  <1>4. CASE LoggerFails
    <2>1. logger'.pc \in {"down", "idle"}
      BY <1>4 DEF LoggerFails, Down, StreamIInv, StreamShapes
    <2>2. StreamShapes'
      <3>1. logger' = Down \/ logger' = [logger EXCEPT !.pc = "idle"]
        BY <1>4 DEF LoggerFails
      <3>2. /\ logger' = [pc |-> logger'.pc, started |-> logger'.started, ev |-> logger'.ev, id |-> logger'.id, ts |-> logger'.ts]
            /\ logger'.id \in Nat /\ logger'.ts \in Nat
        BY <3>1 DEF Down, StreamIInv, StreamShapes
      <3> QED
        BY <1>4, <2>1, <3>2 DEF LoggerFails, LogFiles, PublicFiles, StreamIInv, StreamShapes
    <2> QED
      BY <1>4, <2>1, <2>2, LogsLeft DEF LoggerFails, LogFiles, PublicFiles
  <1> QED
    BY <1>1, <1>2, <1>3, <1>4

\* The publisher leaves the logs to the logger.
LEMMA PublisherLeaves ==
  ASSUME StreamIInv, UNCHANGED <<LogFiles, logger, statusClock, statusFaults>>,
         publisher' = [pc |-> publisher'.pc, tail |-> publisher'.tail, doc |-> publisher'.doc, source |-> publisher'.source],
         publisher'.pc \in {"idle", "pending", "jsonl", "log", "recheck", "commit"},
         publications' \in Nat, publicStatus'.phase \in {"PENDING", "COMMITTED"}
  PROVE  /\ StreamShapes' /\ RowsInOrder' /\ Untorn' = Untorn
         /\ LaunchIsLast(statusLog)' = LaunchIsLast(statusLog) /\ \A n : LaunchIsNewest(n)' = LaunchIsNewest(n)
  <1>1. Untorn' = Untorn
    BY DEF Untorn, LogFiles
  <1>2. LaunchIsLast(statusLog)' = LaunchIsLast(statusLog) /\ \A n : LaunchIsNewest(n)' = LaunchIsNewest(n)
    BY DEF LaunchIsLast, LaunchIsNewest, LogFiles
  <1>3. StreamShapes'
    BY DEF StreamIInv, StreamShapes, LogFiles
  <1>4. RowsInOrder'
    BY <1>1 DEF StreamIInv, RowsInOrder, LogFiles
  <1> QED
    BY <1>1, <1>2, <1>3, <1>4

LEMMA PublisherSteps ==
  ASSUME StreamIInv,
         read_tail \/ mark_pending \/ publish_jsonl \/ publish_log \/ recheck_source \/ mark_committed \/ PublisherDies
  PROVE  StreamIInv'
  <1>1. CASE read_tail
    <2>1. PICK tail : tail = tail_events(statusLog)
      OBVIOUS
    <2>2. PICK doc : doc = build_status(tail, statusClock)
      OBVIOUS
    <2>3. /\ publisher' = [pc |-> "pending", tail |-> tail, doc |-> doc, source |-> Len(statusLog)]
          /\ publications' = publications + 1 /\ publisher.pc = "idle"
          /\ UNCHANGED <<LogFiles, logger, statusClock, PublicFiles, statusFaults>>
      BY <1>1, <2>1, <2>2 DEF read_tail
    <2>4. /\ StreamShapes' /\ RowsInOrder' /\ Untorn' = Untorn
          /\ LaunchIsLast(statusLog)' = LaunchIsLast(statusLog) /\ \A n : LaunchIsNewest(n)' = LaunchIsNewest(n)
      BY <2>3, PublisherLeaves DEF StreamIInv, StreamShapes, PublicFiles
    <2>5. statusLog \in Seq(StatusRows) /\ statusLog' = statusLog /\ Len(statusLog) \in Nat /\ rawLog' = rawLog
      BY <2>3 DEF StreamIInv, StreamShapes, LogFiles
    <2>6. doc.authority = "PASS" => LaunchIsLast(statusLog)
      BY <2>1, <2>2, <2>5, PassMeansLaunch
    <2>7. DocFits'
      BY <2>3, <2>4, <2>5, <2>6 DEF DocFits, StreamIInv, PublicFiles
    <2>8. ViewsFit'
      BY <2>3 DEF ViewsFit, ViewsMatchStatus, StreamIInv, PublicFiles
    <2> QED
      BY <2>4, <2>7, <2>8 DEF StreamIInv
  <1>2. ASSUME mark_pending \/ publish_jsonl \/ publish_log
        PROVE  StreamIInv'
    <2>1. /\ publisher' = [publisher EXCEPT !.pc = publisher'.pc]
          /\ publisher.pc \in {"pending", "jsonl", "log"} /\ publisher'.pc \in {"jsonl", "log", "recheck"}
          /\ UNCHANGED <<LogFiles, logger, statusClock, statusFaults, publications>>
          /\ publicStatus' = publicStatus \/ publicStatus'.phase = "PENDING"
          /\ publicStatus'.phase \in {"PENDING", "COMMITTED"}
      BY <1>2 DEF mark_pending, publish_jsonl, publish_log, status_publication_view, StreamIInv, StreamShapes
    <2>2. /\ publisher' = [pc |-> publisher'.pc, tail |-> publisher'.tail, doc |-> publisher'.doc, source |-> publisher'.source]
          /\ publisher'.tail = publisher.tail /\ publisher'.doc = publisher.doc /\ publisher'.source = publisher.source
      BY <2>1 DEF StreamIInv, StreamShapes
    <2>3. /\ StreamShapes' /\ RowsInOrder' /\ Untorn' = Untorn
          /\ LaunchIsLast(statusLog)' = LaunchIsLast(statusLog) /\ \A n : LaunchIsNewest(n)' = LaunchIsNewest(n)
      BY <2>1, <2>2, PublisherLeaves DEF StreamIInv, StreamShapes
    <2>4. statusLog' = statusLog /\ rawLog' = rawLog
      BY <2>1 DEF LogFiles
    <2>5. DocFits'
      BY <2>1, <2>2, <2>3, <2>4 DEF DocFits, StreamIInv
    <2>6. ViewsFit'
      <3>1. publicStatus'.phase = "PENDING"
        BY <1>2 DEF mark_pending, publish_jsonl, publish_log, status_publication_view, StreamIInv, ViewsFit
      <3>2. publisher'.pc \in {"log", "recheck", "commit"} => publicJsonl' = publisher.tail
        BY <1>2, <2>2 DEF mark_pending, publish_jsonl, publish_log, StreamIInv, StreamShapes, ViewsFit
      <3>3. publisher'.pc \in {"recheck", "commit"} => publicLog' = publisher.tail
        BY <1>2, <2>2 DEF mark_pending, publish_jsonl, publish_log, StreamIInv, StreamShapes, ViewsFit
      <3> QED
        BY <2>2, <3>1, <3>2, <3>3 DEF ViewsFit, ViewsMatchStatus
    <2> QED
      BY <2>3, <2>5, <2>6 DEF StreamIInv
  <1>3. CASE recheck_source
    <2>1. /\ UNCHANGED <<LogFiles, logger, statusClock, PublicFiles, statusFaults, publications>> /\ publisher.pc = "recheck"
          /\ \/ /\ Len(statusLog) = publisher.source
                /\ publisher' = [publisher EXCEPT !.pc = "commit", !.source = Len(rawLog)]
             \/ publisher' = PublisherIdle
      BY <1>3 DEF recheck_source, source_unchanged
    <2>2. statusLog' = statusLog /\ rawLog' = rawLog /\ Len(rawLog) \in Nat
      BY <2>1 DEF LogFiles, StreamIInv, StreamShapes
    <2>3. CASE publisher' = PublisherIdle
      <3>1. /\ StreamShapes' /\ RowsInOrder' /\ Untorn' = Untorn
            /\ LaunchIsLast(statusLog)' = LaunchIsLast(statusLog) /\ \A n : LaunchIsNewest(n)' = LaunchIsNewest(n)
        BY <2>1, <2>3, PublisherLeaves DEF StreamIInv, StreamShapes, PublicFiles, PublisherIdle
      <3>2. DocFits' /\ ViewsFit'
        BY <2>1, <2>2, <2>3, <3>1 DEF DocFits, ViewsFit, ViewsMatchStatus, StreamIInv, PublicFiles, PublisherIdle
      <3> QED
        BY <3>1, <3>2 DEF StreamIInv
    <2>4. CASE /\ Len(statusLog) = publisher.source
               /\ publisher' = [publisher EXCEPT !.pc = "commit", !.source = Len(rawLog)]
      <3>1. /\ publisher' = [pc |-> "commit", tail |-> publisher.tail, doc |-> publisher.doc, source |-> Len(rawLog)]
            /\ publisher'.tail = publisher.tail /\ publisher'.doc = publisher.doc /\ publisher'.source = Len(rawLog)
            /\ publisher'.pc = "commit"
        BY <2>4 DEF StreamIInv, StreamShapes
      <3>2. /\ StreamShapes' /\ RowsInOrder' /\ Untorn' = Untorn
            /\ LaunchIsLast(statusLog)' = LaunchIsLast(statusLog) /\ \A n : LaunchIsNewest(n)' = LaunchIsNewest(n)
        BY <2>1, <3>1, PublisherLeaves DEF StreamIInv, StreamShapes, PublicFiles
      <3>3. Untorn /\ publisher.doc.authority = "PASS" => LaunchIsNewest(Len(rawLog))
        BY <2>1, <2>4, LaunchOfBoth DEF StreamIInv, DocFits
      <3>4. Untorn' /\ publisher'.doc.authority = "PASS" => LaunchIsNewest(publisher.source)'
        <4>1. PICK s : s = Len(rawLog)
          OBVIOUS
        <4>2. Untorn /\ publisher.doc.authority = "PASS" => LaunchIsNewest(s)'
          BY <3>2, <3>3, <4>1
        <4> QED
          BY <3>1, <3>2, <4>1, <4>2
      <3>5. DocFits'
        BY <2>1, <2>2, <3>1, <3>2, <3>4 DEF DocFits, StreamIInv, PublicFiles
      <3>6. ViewsFit'
        BY <2>1, <3>1 DEF ViewsFit, ViewsMatchStatus, StreamIInv, PublicFiles
      <3> QED
        BY <3>2, <3>5, <3>6 DEF StreamIInv
    <2> QED
      BY <2>1, <2>3, <2>4
  <1>4. CASE mark_committed
    <2>1. /\ UNCHANGED <<LogFiles, logger, statusClock, publicJsonl, publicLog, statusFaults, publications>>
          /\ publisher.pc = "commit" /\ publisher' = PublisherIdle
          /\ publicStatus' = [phase |-> "COMMITTED", tail |-> publisher.tail, doc |-> publisher.doc, seen |-> publisher.source]
      BY <1>4 DEF mark_committed, status_publication_view
    <2>2. /\ StreamShapes' /\ RowsInOrder' /\ Untorn' = Untorn
          /\ LaunchIsLast(statusLog)' = LaunchIsLast(statusLog) /\ \A n : LaunchIsNewest(n)' = LaunchIsNewest(n)
      BY <2>1, PublisherLeaves DEF StreamIInv, StreamShapes, PublisherIdle
    <2>3. PICK s : s = publisher.source
      OBVIOUS
    <2>4. s \in 0..Len(rawLog) /\ (Untorn /\ publisher.doc.authority = "PASS" => LaunchIsNewest(s))
      BY <2>1, <2>3 DEF StreamIInv, DocFits
    <2>5. /\ rawLog' = rawLog /\ publicStatus'.seen = s /\ publicStatus'.doc = publisher.doc
          /\ publicStatus'.tail = publisher.tail /\ publisher'.pc = "idle"
      BY <2>1, <2>3 DEF LogFiles, PublisherIdle
    <2>6. Untorn' /\ publicStatus'.doc.authority = "PASS" => LaunchIsNewest(publicStatus.seen)'
      <3>1. Untorn' /\ publicStatus'.doc.authority = "PASS" => LaunchIsNewest(s)'
        BY <2>2, <2>4, <2>5
      <3> QED
        BY <2>5, <3>1
    <2>7. DocFits'
      BY <2>4, <2>5, <2>6 DEF DocFits
    <2>8. ViewsFit'
      BY <2>1, <2>5 DEF ViewsFit, ViewsMatchStatus, StreamIInv
    <2> QED
      BY <2>2, <2>7, <2>8 DEF StreamIInv
  <1>5. CASE PublisherDies
    <2>1. publisher' = PublisherIdle /\ rawLog' = rawLog /\ statusLog' = statusLog /\ UNCHANGED <<rawPrivate, PublicFiles, logger, statusClock>>
          /\ publications' = publications /\ statusFaults' = statusFaults + 1
      BY <1>5 DEF PublisherDies, LogFiles
    <2>2. Untorn' = Untorn /\ \A n : LaunchIsNewest(n)' = LaunchIsNewest(n)
      BY <2>1 DEF Untorn, LaunchIsNewest
    <2>3. StreamShapes'
      BY <2>1 DEF StreamIInv, StreamShapes, PublisherIdle, PublicFiles
    <2>4. RowsInOrder'
      BY <2>1, <2>2 DEF StreamIInv, RowsInOrder
    <2>5. DocFits' /\ ViewsFit'
      BY <2>1, <2>2 DEF DocFits, ViewsFit, ViewsMatchStatus, StreamIInv, PublicFiles, PublisherIdle
    <2> QED
      BY <2>3, <2>4, <2>5 DEF StreamIInv
  <1> QED
    BY <1>1, <1>2, <1>3, <1>4, <1>5

LEMMA StreamSafe == StreamIInv => StreamInv
  <1> SUFFICES ASSUME StreamIInv PROVE StreamInv
    OBVIOUS
  <1>1. StreamTypeOK
    <2>1. \A i \in DOMAIN statusLog : statusLog[i] \in StatusRows
      BY DEF StreamIInv, StreamShapes
    <2>2. \A i \in DOMAIN statusLog : statusLog[i].phase \in {"PENDING", "COMMITTED", "TORN"}
      BY <2>1 DEF StatusRows
    <2> QED
      BY <2>2 DEF StreamIInv, StreamShapes, StreamTypeOK
  <1>2. PassIsCurrent
    <2> SUFFICES ASSUME publicStatus.phase = "COMMITTED", publicStatus.doc.authority = "PASS", Untorn
                 PROVE  PassIsCurrent
      BY DEF PassIsCurrent, Untorn
    <2>1. PICK n \in Nat : n = publicStatus.seen
      BY DEF StreamIInv, DocFits, StreamShapes
    <2>2. PICK seen : seen = {i \in 1..n : rawLog[i].code \in Bearing}
      OBVIOUS
    <2>3. PICK i \in 1..n : /\ rawLog[i].code \in Authorities /\ rawLog[i].facet = "launch"
                            /\ \A k \in 1..n : rawLog[k].code \in Bearing => k <= i
      BY <2>1 DEF StreamIInv, DocFits, LaunchIsNewest
    <2>4. i \in seen /\ rawLog[i].facet = "launch" /\ \A j \in seen : j <= i
      BY <2>2, <2>3 DEF Bearing
    <2> QED
      BY <2>1, <2>2, <2>4 DEF PassIsCurrent, Bearing
  <1> QED
    BY <1>1, <1>2 DEF StreamIInv, ViewsFit, StreamInv

\* The public status says what the logs say: from its initial states the stream
\* keeps a committed PASS to the newest event that bears on the authority, and the
\* views beside it to the rows it was derived from (events.py,
\* publish_sn39_validator_status.py).
THEOREM StatusIsCurrent == StreamInit /\ [][StreamNext]_streamVars => []StreamInv
  <1>1. StreamInit => StreamIInv
    BY StreamBegins
  <1>2. StreamIInv /\ [StreamNext]_streamVars => StreamIInv'
    <2> SUFFICES ASSUME StreamIInv, [StreamNext]_streamVars PROVE StreamIInv'
      OBVIOUS
    <2>1. CASE UNCHANGED streamVars
      <3>1. StreamShapes'
        BY <2>1 DEF streamVars, StreamIInv, StreamShapes
      <3> QED
        BY <2>1, <3>1, LogsLeft DEF streamVars, PublicFiles
    <2>2. CASE privatize_journal \/ open_logger \/ StatusTick \/ LoggerFails
      BY <2>2, LoggerSteps
    <2>3. CASE write_fence \/ write_raw \/ write_committed \/ HostDies
      BY <2>3, FenceWritten, RawWritten, CommitWritten, HostDeath
    <2>4. CASE read_tail \/ mark_pending \/ publish_jsonl \/ publish_log \/ recheck_source \/ mark_committed \/ PublisherDies
      BY <2>4, PublisherSteps
    <2> QED
      BY <2>1, <2>2, <2>3, <2>4 DEF StreamNext
  <1>3. StreamIInv => StreamInv
    BY StreamSafe
  <1> QED
    BY <1>1, <1>2, <1>3, PTL
=============================================================================
