--------------------------- MODULE HotkeyRotation ---------------------------
(***************************************************************************)
(* The operator tool that swaps one validator hotkey on chain              *)
(* (scripts/sn39_hotkey_rotation_operator.py): a review that signs         *)
(* nothing, a broadcast under exactly that review, and a reconciliation    *)
(* that completes a signed attempt from chain history alone.  Invocations  *)
(* share no lock, only two files named after the old hotkey; each may die  *)
(* at any point.                                                           *)
(*                                                                         *)
(* An approval pins the new hotkey, the reviewed block, the coldkey nonce  *)
(* and everything else it lists (runtime, call bytes, cost, balance,       *)
(* owners, UID), which is one number here: the world.  A signed extrinsic  *)
(* stands for its hash.                                                    *)
(***************************************************************************)
EXTENDS Naturals, FiniteSets, Absent

CONSTANTS
    Operators,      \* invocations that may run at the same time
    NewHotkeys,     \* replacements an operator may choose
    EraPeriod,      \* ERA_PERIOD_BLOCKS
    MaxBlock, MaxDrift, MaxReviews, MaxFaults     \* bounds of the model

ASSUME RotationConstants ==
    /\ EraPeriod \in Nat \ {0, 1}
    /\ {MaxBlock, MaxDrift, MaxReviews, MaxFaults} \subseteq Nat

Lifetime == 2 * EraPeriod      \* APPROVAL_LIFETIME_BLOCKS

VARIABLES
    head,       \* the finalized head
    nonce,      \* of the coldkey, at the finalized head
    world,      \* what else an approval pins
    sent,       \* signed extrinsics given to a node
    landed,     \* those in finalized blocks
    stateFile,  \* rotation-<target>.attempt.json
    receipt,    \* rotation-<target>.receipt.json
    reviews,    \* approvals an inspection has printed
    op,         \* what each invocation is doing
    absent,     \* extrinsics a reconciliation has declared never included
    faults

rotationVars == <<head, nonce, world, sent, landed, stateFile, receipt, reviews,
                  op, absent, faults>>
chainVars == <<head, nonce, world, landed>>

Blocks == 1..(MaxBlock + 1)
Nonces == 0..(MaxDrift + 1)
Approval == [new : NewHotkeys, block : Blocks, nonce : Nonces, world : 0..MaxDrift]
Signed == [ap : Approval, era : Blocks]
Landed == [tx : Signed, at : Blocks, ok : BOOLEAN, clean : BOOLEAN]
Receipt == [tx : Signed, at : Blocks]
Torn == [phase |-> "torn"]      \* created, its content not yet durable
Recorded == [phase : {"broadcast_pending", "finalized"}, tx : Signed]

ASSUME NoneIsNoFile == NONE \notin {Torn} \cup Recorded \cup Receipt

Idle == [pc |-> "idle"]
Invocation ==
    {Idle}
      \cup [pc : {"inspect", "refresh"}, ap : Approval]
      \cup [pc : {"sign", "record", "fsync", "submit", "wait", "locate"}, tx : Signed]
      \cup [pc : {"receipt", "receipt_fsync", "proof", "finish"},
            tx : Signed, at : Blocks, reconcile : BOOLEAN]

RotationInit ==
    /\ head = 1 /\ nonce = 0 /\ world = 0
    /\ sent = {} /\ landed = {} /\ absent = {} /\ reviews = {}
    /\ stateFile = NONE /\ receipt = NONE
    /\ op = [o \in Operators |-> Idle]
    /\ faults = 0

Goes(o, what) == op' = [op EXCEPT ![o] = what]
\* RotationError or RotationNotProven: the tool exits.
Exits(o) == Goes(o, Idle)

----------------------------------------------------------------------------
(* Reading the chain                                                        *)

Swapped == \E l \in landed : l.ok

\* account_nextIndex counts what the node asked has in its pool.
NextIndex(n) ==
    \/ n = nonce
    \/ n = nonce + 1 /\ \E tx \in sent : tx.ap.nonce = nonce

\* Mutant: one block more than the review said.
ValidUntil_one_more(ap) == ap.block + Lifetime + 1
ValidUntil(ap) == ap.block + Lifetime
LastBlock(tx) == tx.era + EraPeriod - 1

\* The old hotkey is registered, the new one fresh; the approval that is
\* composed now has the digest that was confirmed.
ReviewHolds(ap) ==
    /\ ~Swapped
    /\ head + EraPeriod - 1 <= ValidUntil(ap)
    /\ NextIndex(ap.nonce)
    /\ world = ap.world

\* _require_best_runtime_identity: the same at the best block, which may be
\* ahead of the finalized one.
BestBoundary(ap) ==
    \E best \in {head, head + 1} :
        /\ ~Swapped
        /\ best + EraPeriod - 1 <= ValidUntil(ap)
        /\ NextIndex(ap.nonce)
        /\ world = ap.world

----------------------------------------------------------------------------
(* Inspection and broadcast                                                 *)

\* The default mode prints an approval; nothing is signed.
inspect_rotation(n) ==
    /\ ~Swapped
    /\ Cardinality(reviews) < MaxReviews
    /\ \E k \in Nonces :
          /\ NextIndex(k)
          /\ reviews' = reviews \cup
                {[new |-> n, block |-> head, nonce |-> k, world |-> world]}
    /\ UNCHANGED <<chainVars, sent, stateFile, receipt, op, absent, faults>>

\* _validate_options: both outputs are absent.  They are the same two files for
\* every choice of a new hotkey.
validate_options(o, ap) ==
    /\ op[o] = Idle
    /\ stateFile = NONE /\ receipt = NONE
    /\ Goes(o, [pc |-> "inspect", ap |-> ap])
    /\ UNCHANGED <<chainVars, sent, stateFile, receipt, reviews, absent, faults>>

\* First inspection and digest, then the new hotkey's proof of possession.
ConfirmDigest(o) ==
    /\ op[o].pc = "inspect"
    /\ \/ ReviewHolds(op[o].ap) /\ Goes(o, [pc |-> "refresh", ap |-> op[o].ap])
       \/ Exits(o)
    /\ UNCHANGED <<chainVars, sent, stateFile, receipt, reviews, absent, faults>>

\* The coldkey is unlocked and the boundary inspected again; the finalized head
\* of this inspection is the era reference.
RefreshInspection(o) ==
    /\ op[o].pc = "refresh"
    /\ \/ /\ ReviewHolds(op[o].ap)
          /\ Goes(o, [pc |-> "sign", tx |-> [ap |-> op[o].ap, era |-> head]])
       \/ Exits(o)
    /\ UNCHANGED <<chainVars, sent, stateFile, receipt, reviews, absent, faults>>

\* Boundary at the best block, fee estimate, boundary, signature, boundary.
create_signed_extrinsic(o) ==
    /\ op[o].pc = "sign"
    /\ \/ BestBoundary(op[o].tx.ap) /\ Goes(o, [op[o] EXCEPT !.pc = "record"])
       \/ Exits(o)
    /\ UNCHANGED <<chainVars, sent, stateFile, receipt, reviews, absent, faults>>

\* _atomic_create of the signed intent: O_EXCL decides between two broadcasts,
\* then the content is written and fsynced.
\* Mutant: the file is opened without O_EXCL.
CreateState_overwrites(o) ==
    /\ op[o].pc = "record"
    /\ stateFile' = Torn
    /\ Goes(o, [op[o] EXCEPT !.pc = "fsync"])
    /\ UNCHANGED <<chainVars, sent, receipt, reviews, absent, faults>>
CreateState(o) ==
    /\ op[o].pc = "record"
    /\ \/ /\ stateFile = NONE
          /\ stateFile' = Torn
          /\ Goes(o, [op[o] EXCEPT !.pc = "fsync"])
       \/ stateFile # NONE /\ Exits(o) /\ UNCHANGED stateFile
    /\ UNCHANGED <<chainVars, sent, receipt, reviews, absent, faults>>

FsyncState(o) ==
    /\ op[o].pc = "fsync"
    /\ stateFile' = [phase |-> "broadcast_pending", tx |-> op[o].tx]
    /\ Goes(o, [op[o] EXCEPT !.pc = "submit"])
    /\ UNCHANGED <<chainVars, sent, receipt, reviews, absent, faults>>

\* submit_extrinsic hands the call over; an exception may come before or after.
submit_extrinsic(o) ==
    /\ op[o].pc = "submit"
    /\ \/ /\ sent' = sent \cup {op[o].tx}
          /\ Goes(o, [op[o] EXCEPT !.pc = "wait"])
       \/ Exits(o) /\ UNCHANGED sent
    /\ UNCHANGED <<chainVars, stateFile, receipt, reviews, absent, faults>>

\* The receipt of a finalized call, checked by _receipt_artifact: the canonical
\* block holds it once and it executed.  Any doubt ends the tool.
AwaitReceipt(o) ==
    /\ op[o].pc = "wait"
    /\ \/ \E l \in landed :
             /\ l.tx = op[o].tx /\ l.ok
             /\ Goes(o, [pc |-> "receipt", tx |-> l.tx, at |-> l.at,
                         reconcile |-> FALSE])
       \/ Exits(o)
    /\ UNCHANGED <<chainVars, sent, stateFile, receipt, reviews, absent, faults>>

----------------------------------------------------------------------------
(* Reconciliation                                                           *)

Says(phase) == stateFile # NONE /\ stateFile.phase = phase

\* A complete pending record for the approved target; anything else ends it.
validate_pending_attempt(o) ==
    /\ op[o] = Idle
    /\ Says("broadcast_pending")
    /\ Goes(o, [pc |-> "locate", tx |-> stateFile.tx])
    /\ UNCHANGED <<chainVars, sent, stateFile, receipt, reviews, absent, faults>>

Found(tx) == {l \in landed : l.tx = tx /\ l.at >= tx.era /\ l.at <= LastBlock(tx)}

\* _historical_rotation_receipt: every finalized block of the mortal window is
\* searched; absence is a verdict only when the whole window is finalized.
\* Mutant: the last block of the window is not waited for.
WindowClosed_early(tx) == head >= LastBlock(tx) - 1
WindowClosed(tx) == head >= LastBlock(tx)

historical_rotation_receipt(o) ==
    /\ op[o].pc = "locate"
    /\ \/ \E l \in Found(op[o].tx) :
             /\ l.ok
             /\ Goes(o, [pc |-> "receipt", tx |-> l.tx, at |-> l.at,
                         reconcile |-> TRUE])
             /\ UNCHANGED absent
       \/ /\ Found(op[o].tx) = {} /\ WindowClosed(op[o].tx)
          /\ absent' = absent \cup {op[o].tx}
          /\ Exits(o)
       \/ Exits(o) /\ UNCHANGED absent
    /\ UNCHANGED <<chainVars, sent, stateFile, receipt, reviews, faults>>

----------------------------------------------------------------------------
(* Recording the outcome, after a broadcast or a reconciliation             *)

ReceiptOf(o) == [tx |-> op[o].tx, at |-> op[o].at]

\* A broadcast needs the receipt path to be absent; a reconciliation accepts
\* the receipt that says the same.
\* Mutant: a reconciliation takes an existing receipt as it is.
ReceiptStands_any(o) == op[o].reconcile /\ receipt # NONE
\* Mutant: a reconciliation too refuses an existing receipt.
ReceiptStands_never(o) == FALSE
ReceiptStands(o) == op[o].reconcile /\ receipt = ReceiptOf(o)

CreateReceipt(o) ==
    /\ op[o].pc = "receipt"
    /\ \/ /\ receipt = NONE
          /\ receipt' = Torn
          /\ Goes(o, [op[o] EXCEPT !.pc = "receipt_fsync"])
       \/ /\ ReceiptStands(o)
          /\ Goes(o, [op[o] EXCEPT !.pc = "proof"])
          /\ UNCHANGED receipt
       \/ receipt # NONE /\ ~ReceiptStands(o) /\ Exits(o) /\ UNCHANGED receipt
    /\ UNCHANGED <<chainVars, sent, stateFile, reviews, absent, faults>>

FsyncReceipt(o) ==
    /\ op[o].pc = "receipt_fsync"
    /\ receipt' = ReceiptOf(o)
    /\ Goes(o, [op[o] EXCEPT !.pc = "proof"])
    /\ UNCHANGED <<chainVars, sent, stateFile, reviews, absent, faults>>

\* _post_rotation_proof: UID, owner, role and lineage at the block of the call.
post_rotation_proof(o) ==
    /\ op[o].pc = "proof"
    /\ \/ /\ \E l \in landed : l.tx = op[o].tx /\ l.at = op[o].at /\ l.clean
          /\ Goes(o, [op[o] EXCEPT !.pc = "finish"])
       \/ Exits(o)
    /\ UNCHANGED <<chainVars, sent, stateFile, receipt, reviews, absent, faults>>

\* _atomic_replace_private: a temporary file and a rename.
atomic_replace_private(o) ==
    /\ op[o].pc = "finish"
    /\ stateFile' = [phase |-> "finalized", tx |-> op[o].tx]
    /\ Exits(o)
    /\ UNCHANGED <<chainVars, sent, receipt, reviews, absent, faults>>

----------------------------------------------------------------------------
(* The chain and the operators' world                                       *)

\* The call executes, or fails, or does not keep the approved boundary.
Includes(tx, b) ==
    /\ tx.ap.nonce = nonce
    /\ b > tx.era /\ b <= LastBlock(tx)
    /\ \E ok, clean \in BOOLEAN :
          /\ ok => ~Swapped
          /\ landed' = landed \cup {[tx |-> tx, at |-> b, ok |-> ok, clean |-> clean]}
    /\ nonce' = nonce + 1

FinalizeBlock ==
    /\ head < MaxBlock
    /\ head' = head + 1
    /\ \/ \E tx \in sent : Includes(tx, head + 1)
       \/ UNCHANGED <<landed, nonce>>
    /\ UNCHANGED <<world, sent, stateFile, receipt, reviews, op, absent, faults>>

\* A runtime upgrade, a fee or balance change, another call of the coldkey.
Drift ==
    /\ world < MaxDrift
    /\ world' = world + 1
    /\ nonce' \in {nonce, nonce + 1}
    /\ UNCHANGED <<head, landed, sent, stateFile, receipt, reviews, op, absent,
                   faults>>

\* The invocation dies, or a write fails half-way.
OperatorDies(o) ==
    /\ op[o] # Idle
    /\ faults < MaxFaults
    /\ faults' = faults + 1
    /\ Exits(o)
    /\ UNCHANGED <<chainVars, sent, stateFile, receipt, reviews, absent>>

\* A running invocation, step by step.
ToolStep(o) ==
    \/ ConfirmDigest(o) \/ RefreshInspection(o) \/ create_signed_extrinsic(o)
    \/ CreateState(o) \/ FsyncState(o) \/ submit_extrinsic(o) \/ AwaitReceipt(o)
    \/ historical_rotation_receipt(o)
    \/ CreateReceipt(o) \/ FsyncReceipt(o)
    \/ post_rotation_proof(o) \/ atomic_replace_private(o)

RotationNext ==
    \/ FinalizeBlock
    \/ Drift
    \/ \E n \in NewHotkeys : inspect_rotation(n)
    \/ \E o \in Operators :
          \/ \E ap \in reviews : validate_options(o, ap)
          \/ validate_pending_attempt(o)
          \/ ToolStep(o)
          \/ OperatorDies(o)

RotationSpec == RotationInit /\ [][RotationNext]_rotationVars

----------------------------------------------------------------------------
RotationTypeOK ==
    /\ head \in Blocks /\ nonce \in Nat /\ world \in 0..MaxDrift
    /\ sent \subseteq Signed /\ absent \subseteq Signed
    /\ landed \subseteq Landed
    /\ stateFile \in {NONE, Torn} \cup Recorded
    /\ receipt \in {NONE, Torn} \cup Receipt
    /\ reviews \subseteq Approval
    /\ op \in [Operators -> Invocation]
    /\ faults \in 0..MaxFaults

\* Whatever a node was given is the one attempt on disk: no second swap of this
\* hotkey is in flight, whichever operators, reviews and deaths there were.
SentIsRecorded ==
    \A tx \in sent : stateFile \in Recorded /\ stateFile.tx = tx

\* A swap lands inside the lifetime of its approval, although the approval is
\* last checked before the call is signed.
LandsInsideApproval == \A l \in landed : l.at <= l.tx.ap.block + Lifetime

\* A state file that says finalized names a call that executed as approved, and
\* the receipt beside it names its block.
FinalizedIsProven ==
    Says("finalized") =>
        \E l \in landed : /\ l.tx = stateFile.tx /\ l.ok /\ l.clean
                          /\ receipt = [tx |-> l.tx, at |-> l.at]

\* "was not included anywhere in its finalized mortal window" is final: the
\* operator may plan another rotation.
AbsentNeverLands == \A l \in landed : l.tx \notin absent

\* A swap that executed as approved ends in a finalized record, unless a death
\* inside the receipt's creation left a file no reconciliation accepts.
RotationCompletes ==
    []((\E l \in landed : l.ok /\ l.clean) =>
          <>(Says("finalized") \/ [](receipt = Torn)))

\* The swap: types, it lands inside its approval, a finalized record is proven and a
\* swap recorded as absent never lands (sn39_hotkey_rotation_operator.py).
SwapInv == RotationTypeOK /\ LandsInsideApproval /\ FinalizedIsProven /\ AbsentNeverLands
=============================================================================
