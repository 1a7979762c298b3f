---------------------------- MODULE ServiceProofs ----------------------------
(***************************************************************************)
(* The services of the publisher that are worked by many processes at a    *)
(* time, each on its own: the V2 bitset lane, the V2 manifest queue, the   *)
(* lean ingress, solver attestation and the singleton lock.  For any number*)
(* of workers, miners, rows and deaths, and any limits, the safety of each *)
(* follows from what the processes remember of what they read.             *)
(***************************************************************************)
EXTENDS V2Bitset, V2Manifests, LeanIngress, SolverAttest, SingletonLock,
        FiniteSetTheorems, TLAPS

----------------------------------------------------------------------------
(* The bitset lane                                                          *)

\* A queued key has its row, and a worker's verdict was true of the row, whose
\* token and witness never change.
RowsStay == \A i \in 1..Len(queue) : events[queue[i]] # NONE
WindowOf(c) == {ChEpoch[c], ChEpoch[c] + 1}
JobsFit ==
    \A w \in Workers, k \in Keys : jobs[w][k] # NONE =>
        /\ events[k] # NONE
        /\ jobs[w][k].verdict = "verified" =>
              events[k].wit = events[k].cnf /\ jobs[w][k].at \in WindowOf(k[2])

LaneInv == BitsetInv /\ RowsStay /\ JobsFit

LEMMA BitsetConstants ==
    /\ NONE \notin Row /\ NONE \notin Job /\ NONE \notin Paid /\ NONE \notin Configs
    /\ MaxEpoch \in Nat /\ MaxChanges \in Nat /\ MaxFails \in Nat /\ BridgeOn \in BOOLEAN
    /\ ChEpoch \in [Challenges -> Nat]
BY V2Constants, NoRowIsNone

LEMMA BitsetInitFits ==
    ASSUME BitsetInit
    PROVE  LaneInv
<1>1. BitsetTypeOK
  BY BitsetConstants DEF BitsetInit, BitsetTypeOK
<1>2. \A k \in Keys : events[k] = NONE /\ ledger[k] = NONE
  BY DEF BitsetInit
<1>3. \A w \in Workers, k \in Keys : jobs[w][k] = NONE
  BY DEF BitsetInit
<1>4. RowsStay
  BY DEF BitsetInit, RowsStay
<1>5. QED
  BY <1>1, <1>2, <1>3, <1>4 DEF LaneInv, BitsetInv, PaidWitnessChecked, SolvedInWindow,
     VerifiedIsPaid, JobsFit

\* Steps that touch neither rows, jobs nor payouts.
LEMMA BitsetFrame ==
    ASSUME LaneInv, BitsetTypeOK', UNCHANGED <<events, queue, ledger, jobs>>
    PROVE  LaneInv'
BY DEF LaneInv, BitsetInv, PaidWitnessChecked, SolvedInWindow, VerifiedIsPaid, RowsStay,
       JobsFit, WindowOf

\* The environment, the CNF store and the requests before their admit.
LEMMA EnvironmentKeeps ==
    ASSUME LaneInv,
           \/ EpochRolls \/ ConfigDrifts
           \/ \E h \in Hotkeys : Remap(h)
           \/ \E t \in tokens : ExpireToken(t)
           \/ \E c \in Challenges : purge_older_than(c)
    PROVE  LaneInv'
<1> USE BitsetConstants DEF LaneInv, BitsetInv
<1>1. UNCHANGED <<events, queue, ledger, jobs>>
  BY DEF EpochRolls, ConfigDrifts, Remap, ExpireToken, purge_older_than
<1>2. BitsetTypeOK'
  <2>1. CASE EpochRolls
    BY <2>1 DEF EpochRolls, BitsetTypeOK
  <2>2. CASE ConfigDrifts
    BY <2>2 DEF ConfigDrifts, BitsetTypeOK
  <2>3. ASSUME NEW h \in Hotkeys, Remap(h) PROVE BitsetTypeOK'
    BY <2>3 DEF Remap, BitsetTypeOK
  <2>4. ASSUME NEW t \in tokens, ExpireToken(t) PROVE BitsetTypeOK'
    BY <2>4 DEF ExpireToken, BitsetTypeOK, env
  <2>5. ASSUME NEW c \in Challenges, purge_older_than(c) PROVE BitsetTypeOK'
    BY <2>5 DEF purge_older_than, BitsetTypeOK, env
  <2>6. QED
    BY <2>1, <2>2, <2>3, <2>4, <2>5
<1>3. QED
  BY <1>1, <1>2, BitsetFrame

LEMMA RequestKeeps ==
    ASSUME LaneInv,
           \/ \E h \in Hotkeys, c \in Challenges : mint_submit_token(h, c)
           \/ \E a \in Handlers, t \in tokens, wit \in Configs \cup {NONE} :
                 submit_bitset_v2(a, t, wit)
    PROVE  LaneInv'
<1> USE BitsetConstants DEF LaneInv, BitsetInv
<1>1. UNCHANGED <<events, queue, ledger, jobs>>
  BY DEF mint_submit_token, submit_bitset_v2
<1>2. ASSUME NEW h \in Hotkeys, NEW c \in Challenges, mint_submit_token(h, c)
      PROVE  BitsetTypeOK'
  <2> DEFINE text == IF get(c, NONE) # NONE THEN get(c, NONE) ELSE config
  <2>1. text \in Configs
    BY DEF get, BitsetTypeOK
  <2>2. tokens' \subseteq Token /\ cnfStore' \in [Challenges -> Configs \cup {NONE}]
    BY <1>2, <2>1 DEF mint_submit_token, put, Token, BitsetTypeOK
  <2>3. QED
    BY <1>2, <2>2 DEF mint_submit_token, BitsetTypeOK, env
<1>3. ASSUME NEW a \in Handlers, NEW t \in tokens, NEW wit \in Configs \cup {NONE},
             submit_bitset_v2(a, t, wit)
      PROVE  BitsetTypeOK'
  BY <1>3 DEF submit_bitset_v2, BitsetTypeOK, env
<1>4. QED
  BY <1>1, <1>2, <1>3, BitsetFrame

LEMMA AdmitKeeps ==
    ASSUME LaneInv, NEW a \in Handlers, admit_received_event(a)
    PROVE  LaneInv'
<1> USE BitsetConstants DEF LaneInv, BitsetInv
<1> DEFINE t == handlers[a].tok
           k == <<t.hk, t.ch>>
           row == [status |-> "received", cnf |-> t.cnf, wit |-> handlers[a].wit,
                   locked |-> FALSE]
<1>1. k \in Keys /\ row \in Row /\ row.status = "received"
  BY DEF admit_received_event, BitsetTypeOK, Token, Keys, Row
<1>2. \/ events' = events /\ queue' = queue
      \/ /\ events[k] = NONE
         /\ events' = [events EXCEPT ![k] = row] /\ queue' = Append(queue, k)
  BY DEF admit_received_event
<1>3. /\ UNCHANGED <<now, config, ident, changes, cnfStore, tokens, ledger, files, jobs,
                     results, fails>>
      /\ handlers' = [handlers EXCEPT ![a] = NONE]
  BY DEF admit_received_event, env
<1> HIDE DEF t, k, row
<1>4. BitsetTypeOK'
  <2>1. events' \in [Keys -> Row \cup {NONE}] /\ queue' \in Seq(Keys)
    <3>1. events \in [Keys -> Row \cup {NONE}] /\ queue \in Seq(Keys)
      BY DEF BitsetTypeOK
    <3>2. [events EXCEPT ![k] = row] \in [Keys -> Row \cup {NONE}]
      BY <1>1, <3>1
    <3>3. Append(queue, k) \in Seq(Keys)
      BY <1>1, <3>1
    <3>4. QED
      BY <1>2, <3>1, <3>2, <3>3
  <2>2. QED
    BY <1>3, <2>1 DEF BitsetTypeOK
<1>5. CASE events' = events /\ queue' = queue
  BY <1>3, <1>4, <1>5, BitsetFrame
<1>6. CASE /\ events[k] = NONE
           /\ events' = [events EXCEPT ![k] = row] /\ queue' = Append(queue, k)
  <2>1. /\ \A j \in Keys \ {k} : events'[j] = events[j]
        /\ events'[k] = row /\ row # NONE
    BY <1>1, <1>6 DEF BitsetTypeOK
  <2>2. RowsStay'
    <3>1. \A i \in 1..Len(queue) : queue[i] \in Keys /\ queue'[i] = queue[i]
      BY <1>1, <1>6 DEF BitsetTypeOK
    <3>2. Len(queue') = Len(queue) + 1 /\ queue'[Len(queue) + 1] = k /\ Len(queue) \in Nat
      BY <1>1, <1>6 DEF BitsetTypeOK
    <3>3. QED
      BY <2>1, <3>1, <3>2 DEF RowsStay
  <2>3. JobsFit' /\ PaidWitnessChecked'
    BY <1>3, <1>6, <2>1 DEF JobsFit, PaidWitnessChecked, WindowOf
  <2>4. SolvedInWindow' /\ VerifiedIsPaid'
    BY <1>1, <1>3, <2>1 DEF SolvedInWindow, VerifiedIsPaid
  <2>5. QED
    BY <1>4, <2>2, <2>3, <2>4
<1>7. QED
  BY <1>2, <1>5, <1>6

\* A row keeps its token and witness; what is paid stays paid.
LEMMA RowsKept ==
    ASSUME LaneInv, BitsetTypeOK', UNCHANGED <<queue, ledger>>,
           \A k \in Keys : events[k] # NONE =>
               /\ events'[k] # NONE
               /\ events'[k].wit = events[k].wit /\ events'[k].cnf = events[k].cnf
               /\ events'[k].status = events[k].status,
           \A k \in Keys : events[k] = NONE => events'[k] = NONE,
           JobsFit'
    PROVE  LaneInv'
<1>1. PaidWitnessChecked' /\ SolvedInWindow' /\ VerifiedIsPaid'
  BY DEF LaneInv, BitsetInv, PaidWitnessChecked, SolvedInWindow, VerifiedIsPaid
<1>2. RowsStay'
  BY DEF LaneInv, BitsetInv, RowsStay, BitsetTypeOK
<1>3. QED
  BY <1>1, <1>2 DEF LaneInv, BitsetInv

LEMMA ClaimKeeps ==
    ASSUME LaneInv, NEW w \in Workers, claim_bitset_batch(w)
    PROVE  LaneInv'
<1> USE BitsetConstants DEF LaneInv, BitsetInv
<1> DEFINE fresh == [verdict |-> "undecided", at |-> 0]
<1>1. PICK picked \in SUBSET Keys :
          /\ \A k \in picked : events[k] # NONE
          /\ events' = [k \in Keys |-> IF k \in picked
                                       THEN [events[k] EXCEPT !.locked = TRUE]
                                       ELSE events[k]]
          /\ jobs' = [jobs EXCEPT ![w] = [k \in Keys |-> IF k \in picked THEN fresh ELSE NONE]]
  <2> DEFINE open == {i \in 1..Len(queue) : Claimable(queue[i])}
             first == {j \in open : Cardinality({h \in open : h < j}) < BatchSize}
             P == {queue[i] : i \in first}
  <2>1. /\ events' = [k \in Keys |-> IF k \in P THEN [events[k] EXCEPT !.locked = TRUE]
                                     ELSE events[k]]
        /\ jobs' = [jobs EXCEPT ![w] = [k \in Keys |-> IF k \in P THEN fresh ELSE NONE]]
    BY DEF claim_bitset_batch
  <2>2. first \subseteq 1..Len(queue)
    OBVIOUS
  <2> HIDE DEF first
  <2>3. \A i \in 1..Len(queue) : queue[i] \in Keys /\ events[queue[i]] # NONE
    BY DEF BitsetTypeOK, RowsStay
  <2>4. P \in SUBSET Keys /\ \A k \in P : events[k] # NONE
    BY <2>2, <2>3
  <2>5. QED
    BY <2>1, <2>4
<1>2. /\ UNCHANGED <<now, config, ident, changes, cnfStore, tokens, queue, ledger, files,
                     handlers, results, fails>>
  BY DEF claim_bitset_batch, env
<1>3. \A r \in Row : /\ [r EXCEPT !.locked = TRUE] \in Row
                     /\ [r EXCEPT !.locked = TRUE].wit = r.wit
                     /\ [r EXCEPT !.locked = TRUE].cnf = r.cnf
                     /\ [r EXCEPT !.locked = TRUE].status = r.status
  BY DEF Row
<1>4. \A k \in Keys : events[k] \in Row \cup {NONE}
  BY DEF BitsetTypeOK
<1>5. \A k \in Keys : /\ events'[k] \in Row \cup {NONE}
                      /\ events[k] = NONE => events'[k] = NONE
                      /\ events[k] # NONE =>
                            /\ events'[k] # NONE /\ events'[k].wit = events[k].wit
                            /\ events'[k].cnf = events[k].cnf
                            /\ events'[k].status = events[k].status
  BY <1>1, <1>3, <1>4
<1>6. events' \in [Keys -> Row \cup {NONE}]
  BY <1>1, <1>5
<1>7. fresh \in Job /\ fresh.verdict = "undecided"
  BY DEF Job
<1> HIDE DEF fresh
<1>8. jobs' \in [Workers -> [Keys -> Job \cup {NONE}]]
  BY <1>1, <1>7 DEF BitsetTypeOK
<1>9. BitsetTypeOK'
  BY <1>2, <1>6, <1>8 DEF BitsetTypeOK
<1>10. JobsFit'
  <2> SUFFICES ASSUME NEW v \in Workers, NEW k \in Keys, jobs'[v][k] # NONE
               PROVE  /\ events'[k] # NONE
                      /\ jobs'[v][k].verdict = "verified" =>
                            events'[k].wit = events'[k].cnf
                            /\ jobs'[v][k].at \in WindowOf(k[2])
    BY DEF JobsFit, WindowOf
  <2>1. CASE v = w
    BY <1>1, <1>5, <1>7, <2>1 DEF BitsetTypeOK
  <2>2. CASE v # w
    BY <1>1, <1>5, <2>2 DEF BitsetTypeOK, JobsFit
  <2>3. QED
    BY <2>1, <2>2
<1> HIDE DEF LaneInv, BitsetInv
<1>11. QED
  BY <1>2, <1>5, <1>9, <1>10, RowsKept

\* Changes of a row's lock alone, with jobs that only get fewer.
LEMMA LockKeeps ==
    ASSUME LaneInv, NEW k \in Keys, events[k] # NONE,
           events' = [events EXCEPT ![k].locked = FALSE],
           BitsetTypeOK', UNCHANGED <<queue, ledger>>,
           \A v \in Workers, j \in Keys : jobs'[v][j] \in {jobs[v][j], NONE}
    PROVE  LaneInv'
<1>1. \A r \in Row : /\ [r EXCEPT !.locked = FALSE] \in Row
                     /\ [r EXCEPT !.locked = FALSE].wit = r.wit
                     /\ [r EXCEPT !.locked = FALSE].cnf = r.cnf
                     /\ [r EXCEPT !.locked = FALSE].status = r.status
  BY DEF Row
<1>2. \A j \in Keys : events[j] \in Row \cup {NONE}
  BY DEF LaneInv, BitsetInv, BitsetTypeOK
<1>3. /\ events'[k] = [events[k] EXCEPT !.locked = FALSE]
      /\ \A j \in Keys \ {k} : events'[j] = events[j]
  BY DEF LaneInv, BitsetInv, BitsetTypeOK
<1>4. \A j \in Keys : /\ events[j] = NONE => events'[j] = NONE
                      /\ events[j] # NONE =>
                            /\ events'[j] # NONE /\ events'[j].wit = events[j].wit
                            /\ events'[j].cnf = events[j].cnf
                            /\ events'[j].status = events[j].status
  BY <1>1, <1>2, <1>3, BitsetConstants
<1>5. JobsFit'
  BY <1>4 DEF LaneInv, JobsFit, WindowOf
<1>6. QED
  BY <1>4, <1>5, RowsKept

LEMMA LockLapsesKeeps ==
    ASSUME LaneInv, NEW k \in Keys, LockLapses(k)
    PROVE  LaneInv'
<1>1. /\ events[k] # NONE /\ events' = [events EXCEPT ![k].locked = FALSE]
      /\ UNCHANGED <<now, config, ident, changes, cnfStore, tokens, queue, ledger, files,
                     handlers, jobs, results, fails>>
  BY DEF LockLapses, env
<1>2. events' \in [Keys -> Row \cup {NONE}]
  BY <1>1, ZenonT(30) DEF LaneInv, BitsetInv, BitsetTypeOK, Row
<1>3. BitsetTypeOK'
  BY <1>1, <1>2 DEF LaneInv, BitsetInv, BitsetTypeOK
<1>4. QED
  BY <1>1, <1>3, LockKeeps

LEMMA ErrorKeeps ==
    ASSUME LaneInv, NEW w \in Workers, NEW k \in Keys, verify_error(w, k)
    PROVE  LaneInv'
<1>1. /\ jobs[w][k] # NONE /\ events' = [events EXCEPT ![k].locked = FALSE]
      /\ jobs' = [jobs EXCEPT ![w][k] = NONE]
      /\ results' = [results EXCEPT ![w] = @ \cup {[hk |-> NONE, epoch |-> NONE]}]
      /\ fails < MaxFails /\ fails' = fails + 1
      /\ UNCHANGED <<now, config, ident, changes, cnfStore, tokens, queue, ledger, files,
                     handlers>>
  BY DEF verify_error, env
<1>2. events[k] # NONE
  BY <1>1 DEF LaneInv, JobsFit
<1>3. events' \in [Keys -> Row \cup {NONE}]
  BY <1>1, <1>2, ZenonT(30) DEF LaneInv, BitsetInv, BitsetTypeOK, Row
<1>4. jobs' \in [Workers -> [Keys -> Job \cup {NONE}]]
  BY <1>1 DEF LaneInv, BitsetInv, BitsetTypeOK
<1>5. results' \in [Workers -> SUBSET Result]
  BY <1>1 DEF LaneInv, BitsetInv, BitsetTypeOK, Result
<1>6. BitsetTypeOK'
  BY <1>1, <1>3, <1>4, <1>5, BitsetConstants DEF LaneInv, BitsetInv, BitsetTypeOK
<1>7. \A v \in Workers, j \in Keys : jobs'[v][j] \in {jobs[v][j], NONE}
  BY <1>1 DEF LaneInv, BitsetInv, BitsetTypeOK
<1>8. QED
  BY <1>1, <1>2, <1>6, <1>7, LockKeeps

\* A V1 payout is written only inside the window of its challenge.
LEMMA RecordKeeps ==
    ASSUME LaneInv, NEW h \in Hotkeys, NEW c \in Challenges, record_perminer_solve(h, c)
    PROVE  LaneInv'
<1> USE BitsetConstants DEF LaneInv, BitsetInv
<1> DEFINE k == <<h, c>>
           paid == [proto |-> "v1", at |-> now]
<1>1. /\ now \in WindowOf(c) /\ ledger[k] = NONE /\ ledger' = [ledger EXCEPT ![k] = paid]
      /\ UNCHANGED <<now, config, ident, changes, cnfStore, tokens, events, queue, files,
                     handlers, jobs, results, fails>>
  BY DEF record_perminer_solve, env, InWindow, WindowOf
<1>2. k \in Keys /\ k[2] = c
  BY DEF Keys
<1>3. paid \in Paid /\ paid.proto = "v1" /\ paid.at = now
  BY DEF Paid, BitsetTypeOK
<1> HIDE DEF k, paid
<1>4. /\ ledger' \in [Keys -> Paid \cup {NONE}] /\ ledger'[k] = paid
      /\ \A j \in Keys \ {k} : ledger'[j] = ledger[j]
  BY <1>1, <1>2, <1>3 DEF BitsetTypeOK
<1>5. BitsetTypeOK'
  BY <1>1, <1>4 DEF BitsetTypeOK
<1>6. PaidWitnessChecked'
  BY <1>1, <1>3, <1>4 DEF PaidWitnessChecked
<1>7. SolvedInWindow'
  BY <1>1, <1>2, <1>3, <1>4 DEF SolvedInWindow, WindowOf
<1>8. VerifiedIsPaid'
  BY <1>1, <1>3, <1>4 DEF VerifiedIsPaid
<1>9. RowsStay' /\ JobsFit'
  BY <1>1 DEF RowsStay, JobsFit, WindowOf
<1>10. QED
  BY <1>5, <1>6, <1>7, <1>8, <1>9

\* A verdict of "verified" is read off the row and the clock of one instant.
LEMMA VerifyKeeps ==
    ASSUME LaneInv, NEW w \in Workers, NEW k \in Keys, verify_bitset_one(w, k)
    PROVE  LaneInv'
<1> USE BitsetConstants DEF LaneInv, BitsetInv
<1> DEFINE job == [verdict |-> Verdict(k), at |-> now]
<1>1. /\ jobs[w][k] # NONE /\ jobs' = [jobs EXCEPT ![w][k] = job]
      /\ UNCHANGED <<now, config, ident, changes, tokens, events, queue, ledger, files,
                     handlers, results, fails>>
  BY DEF verify_bitset_one, Undecided, env
<1>2. events[k] # NONE /\ events[k] \in Row /\ k[2] \in Challenges /\ k[1] \in Hotkeys
  BY <1>1 DEF JobsFit, BitsetTypeOK, Keys
<1>3. CheckedCnf(k) \in {events[k].cnf, NONE}
  BY <1>2 DEF CheckedCnf, get, Row
<1>4. job \in Job /\ job # NONE
  BY DEF Job, Verdict, BitsetTypeOK
<1>5. job.verdict = "verified" => events[k].wit = events[k].cnf /\ job.at \in WindowOf(k[2])
  BY <1>3 DEF Verdict, InWindow, WindowOf
<1> HIDE DEF job
<1>6. cnfStore' \in [Challenges -> Configs \cup {NONE}]
  <2>1. CheckedCnf(k) \in Configs \cup {NONE}
    BY <1>2, <1>3 DEF Row
  <2>2. put(k[2], CheckedCnf(k)) \in [Challenges -> Configs \cup {NONE}]
    BY <1>2, <2>1 DEF put, BitsetTypeOK
  <2>3. cnfStore' \in {put(k[2], CheckedCnf(k)), cnfStore}
    BY DEF verify_bitset_one
  <2>4. QED
    BY <2>2, <2>3 DEF BitsetTypeOK
<1>7. /\ jobs' \in [Workers -> [Keys -> Job \cup {NONE}]] /\ jobs'[w][k] = job
      /\ \A v \in Workers, j \in Keys : v # w \/ j # k => jobs'[v][j] = jobs[v][j]
  BY <1>1, <1>4 DEF BitsetTypeOK
<1>8. BitsetTypeOK'
  BY <1>1, <1>6, <1>7 DEF BitsetTypeOK
<1>9. JobsFit'
  <2> SUFFICES ASSUME NEW v \in Workers, NEW j \in Keys, jobs'[v][j] # NONE
               PROVE  /\ events[j] # NONE
                      /\ jobs'[v][j].verdict = "verified" =>
                            events[j].wit = events[j].cnf /\ jobs'[v][j].at \in WindowOf(j[2])
    BY <1>1 DEF JobsFit, WindowOf
  <2>1. CASE v = w /\ j = k
    BY <1>2, <1>5, <1>7, <2>1
  <2>2. CASE v # w \/ j # k
    BY <1>7, <2>2 DEF JobsFit
  <2>3. QED
    BY <2>1, <2>2
<1>10. PaidWitnessChecked' /\ SolvedInWindow' /\ VerifiedIsPaid' /\ RowsStay'
  BY <1>1 DEF PaidWitnessChecked, SolvedInWindow, VerifiedIsPaid, RowsStay
<1>11. QED
  BY <1>8, <1>9, <1>10

\* The payout and the terminal status are written together, and the row is
\* still the one the verdict was read off.
LEMMA FinishKeeps ==
    ASSUME LaneInv, NEW w \in Workers, NEW k \in Keys, finish(w, k)
    PROVE  LaneInv'
<1> USE BitsetConstants DEF LaneInv, BitsetInv
<1> DEFINE j == jobs[w][k]
           row == [events[k] EXCEPT !.status = j.verdict, !.locked = FALSE]
           paid == [proto |-> "v2", at |-> j.at]
<1>1. /\ j # NONE /\ j.verdict # "undecided"
      /\ events' = [events EXCEPT ![k].status = j.verdict, ![k].locked = FALSE]
      /\ ledger' = IF j.verdict = "verified" /\ BridgeOn /\ ledger[k] = NONE
                   THEN [ledger EXCEPT ![k] = paid] ELSE ledger
      /\ jobs' = [jobs EXCEPT ![w][k] = NONE]
      /\ results' = [results EXCEPT ![w] = @ \cup {ResultOf(k, j.verdict)}]
      /\ UNCHANGED <<now, config, ident, changes, cnfStore, tokens, queue, files, handlers,
                     fails>>
  BY DEF finish, Decided, env
<1>2. j \in Job /\ j.verdict \in {"verified", "rejected"}
  BY <1>1 DEF BitsetTypeOK, Job
<1>3. /\ events[k] # NONE /\ events[k] \in Row
      /\ j.verdict = "verified" => events[k].wit = events[k].cnf /\ j.at \in WindowOf(k[2])
  BY <1>1 DEF JobsFit, BitsetTypeOK
<1>4. /\ row \in Row /\ row.status = j.verdict
      /\ row.wit = events[k].wit /\ row.cnf = events[k].cnf
  BY <1>2, <1>3 DEF Row
<1>5. paid \in Paid /\ paid.proto = "v2" /\ paid.at = j.at
  BY <1>2 DEF Job, Paid
<1>6. events' = [events EXCEPT ![k] = row]
  BY <1>1 DEF BitsetTypeOK
<1>7. ResultOf(k, j.verdict) \in Result
  BY DEF ResultOf, Result, Keys
<1> HIDE DEF j, row, paid
<1>8. /\ events' \in [Keys -> Row \cup {NONE}] /\ events'[k] = row /\ row # NONE
      /\ \A i \in Keys \ {k} : events'[i] = events[i]
  BY <1>4, <1>6 DEF BitsetTypeOK
<1>9. /\ ledger' \in [Keys -> Paid \cup {NONE}]
      /\ \A i \in Keys \ {k} : ledger'[i] = ledger[i]
  BY <1>1, <1>5 DEF BitsetTypeOK
<1>10. \/ ledger'[k] = ledger[k] /\ (ledger[k] # NONE \/ j.verdict # "verified" \/ ~BridgeOn)
       \/ ledger'[k] = paid /\ j.verdict = "verified"
  BY <1>1 DEF BitsetTypeOK
<1>11. /\ jobs' \in [Workers -> [Keys -> Job \cup {NONE}]]
       /\ \A v \in Workers, i \in Keys : jobs'[v][i] \in {jobs[v][i], NONE}
  BY <1>1 DEF BitsetTypeOK
<1>12. results' \in [Workers -> SUBSET Result]
  BY <1>1, <1>7 DEF BitsetTypeOK
<1>13. BitsetTypeOK'
  BY <1>1, <1>8, <1>9, <1>11, <1>12 DEF BitsetTypeOK
<1>14. PaidWitnessChecked'
  BY <1>3, <1>4, <1>5, <1>8, <1>9, <1>10 DEF PaidWitnessChecked
<1>15. SolvedInWindow'
  BY <1>3, <1>5, <1>9, <1>10 DEF SolvedInWindow, WindowOf
<1>16. VerifiedIsPaid'
  BY <1>4, <1>5, <1>8, <1>9, <1>10 DEF VerifiedIsPaid
<1>17. RowsStay'
  <2>1. \A i \in 1..Len(queue) : queue[i] \in Keys
    BY DEF BitsetTypeOK
  <2>2. \A i \in Keys : events[i] # NONE => events'[i] # NONE
    BY <1>8
  <2>3. QED
    BY <1>1, <2>1, <2>2 DEF RowsStay
<1>18. JobsFit'
  <2>1. \A i \in Keys : events[i] # NONE => /\ events'[i] # NONE
                                            /\ events'[i].wit = events[i].wit
                                            /\ events'[i].cnf = events[i].cnf
    BY <1>4, <1>8
  <2>2. QED
    BY <1>11, <2>1 DEF JobsFit, WindowOf
<1>19. QED
  BY <1>13, <1>14, <1>15, <1>16, <1>17, <1>18

LEMMA WorkerKeeps ==
    ASSUME LaneInv, NEW w \in Workers, WorkerDies(w) \/ publish_changed_miners(w)
    PROVE  LaneInv'
<1> USE BitsetConstants DEF LaneInv, BitsetInv
<1>1. /\ UNCHANGED <<now, config, ident, changes, cnfStore, tokens, events, queue, ledger,
                     handlers>>
      /\ results' = [results EXCEPT ![w] = {}]
  BY DEF WorkerDies, publish_changed_miners, env
<1>2. results' \in [Workers -> SUBSET Result]
  BY <1>1 DEF BitsetTypeOK
<1>3. CASE WorkerDies(w)
  <2>1. /\ jobs' = [jobs EXCEPT ![w] = [k \in Keys |-> NONE]]
        /\ fails < MaxFails /\ fails' = fails + 1 /\ files' = files
    BY <1>3 DEF WorkerDies
  <2>2. /\ jobs' \in [Workers -> [Keys -> Job \cup {NONE}]]
        /\ \A v \in Workers, k \in Keys : jobs'[v][k] \in {jobs[v][k], NONE}
    BY <2>1 DEF BitsetTypeOK
  <2>3. BitsetTypeOK'
    BY <1>1, <1>2, <2>1, <2>2 DEF BitsetTypeOK
  <2>4. JobsFit'
    BY <1>1, <2>2 DEF JobsFit, WindowOf
  <2>5. QED
    BY <1>1, <2>3, <2>4, RowsKept
<1>4. CASE publish_changed_miners(w)
  <2>1. fails' = fails /\ jobs' = jobs
    BY <1>4 DEF publish_changed_miners
  <2>2. PICK pick : files' = [h \in Hotkeys |->
                                 IF pick[h] = NONE THEN files[h]
                                 ELSE publish_miner_results(h, pick[h].epoch)]
    BY <1>4 DEF publish_changed_miners
  <2>3. files' \in [Hotkeys -> SUBSET Keys]
    BY <2>2 DEF publish_miner_results, BitsetTypeOK
  <2>4. BitsetTypeOK'
    BY <1>1, <1>2, <2>1, <2>3 DEF BitsetTypeOK
  <2>5. QED
    BY <1>1, <2>1, <2>4, BitsetFrame
<1>5. QED
  BY <1>3, <1>4

\* The bitset lane, for any miners, workers, configurations and limits: a
\* payout of the bridge has a witness for the CNF its token was bound to, was
\* decided inside the window of its challenge, and a verified receipt is paid,
\* however often a lapsed lock let two workers finish the same row
\* (finish tests neither status nor lock).
THEOREM BitsetSafe == BitsetSpec => []BitsetInv
<1>1. ASSUME LaneInv, [BitsetNext]_bitsetVars PROVE LaneInv'
  <2>1. CASE UNCHANGED bitsetVars
    <3>1. BitsetTypeOK' /\ UNCHANGED <<events, queue, ledger, jobs>>
      BY <1>1, <2>1 DEF LaneInv, BitsetInv, BitsetTypeOK, bitsetVars
    <3>2. QED
      BY <1>1, <3>1, BitsetFrame
  <2>2. ASSUME NEW w \in Workers,
               \/ claim_bitset_batch(w)
               \/ publish_changed_miners(w)
               \/ WorkerDies(w)
               \/ \E k \in Keys : verify_bitset_one(w, k) \/ finish(w, k)
                                  \/ verify_error(w, k)
        PROVE  LaneInv'
    BY <1>1, <2>2, ClaimKeeps, WorkerKeeps, VerifyKeeps, FinishKeeps, ErrorKeeps
  <2>3. ASSUME NEW h \in Hotkeys, NEW c \in Challenges,
               mint_submit_token(h, c) \/ record_perminer_solve(h, c)
        PROVE  LaneInv'
    BY <1>1, <2>3, RequestKeeps, RecordKeeps
  <2>4. ASSUME \/ EpochRolls \/ ConfigDrifts
               \/ \E h \in Hotkeys : Remap(h)
               \/ \E t \in tokens : ExpireToken(t)
               \/ \E c \in Challenges : purge_older_than(c)
        PROVE  LaneInv'
    BY <1>1, <2>4, EnvironmentKeeps
  <2>5. ASSUME \/ \E a \in Handlers, t \in tokens, wit \in Configs \cup {NONE} :
                    submit_bitset_v2(a, t, wit)
               \/ \E a \in Handlers : admit_received_event(a)
               \/ \E k \in Keys : LockLapses(k)
        PROVE  LaneInv'
    BY <1>1, <2>5, RequestKeeps, AdmitKeeps, LockLapsesKeeps
  <2>6. CASE BitsetNext
    BY <2>2, <2>3, <2>4, <2>5, <2>6 DEF BitsetNext
  <2>7. QED
    BY <1>1, <2>1, <2>6
<1>2. LaneInv => BitsetInv
  BY DEF LaneInv
<1>3. QED
  BY <1>1, <1>2, BitsetInitFits, PTL DEF BitsetSpec

----------------------------------------------------------------------------
(* The manifest queue                                                       *)

\* A row whose inline copy decides for its manifest is waiting for its first
\* claim, claimed, or verified: it never waits for a retry, and what sweep
\* sees of it has attempts left.
Deciding(r) ==
    r # NONE /\ r.inline =>
        /\ r.status \in {"received", "verifying", "verified"}
        /\ r.status = "received" => r.attempts = 0
ArrivedHaveRows == \A i \in 1..Len(arrival) : rows[arrival[i]] # NONE

DecidedInline ==
    /\ QueueInv
    /\ ArrivedHaveRows
    /\ \A m \in Sound \cap owned : Deciding(rows[m])

LEMMA QueueConstants ==
    /\ NONE \notin ManifestRow /\ Sound \subseteq Manifests
    /\ MaxAttempts \in Nat \ {0} /\ MaxAborts \in Nat
BY ManifestConstants, NoManifestRowIsNone

\* Steps that leave the arrivals and who owns a challenge: rows neither come
\* nor go, and every changed row still decides.
LEMMA RowsSettle ==
    ASSUME DecidedInline, ManifestTypeOK', UNCHANGED arrival, owned' \subseteq owned,
           \A m \in Manifests : rows[m] # NONE => rows'[m] # NONE,
           \A m \in Sound \cap owned : Deciding(rows'[m])
    PROVE  DecidedInline'
<1>1. ArrivedHaveRows'
  <2>1. \A i \in 1..Len(arrival) : arrival[i] \in Manifests
    BY DEF DecidedInline, QueueInv, ManifestTypeOK
  <2>2. QED
    BY <2>1 DEF DecidedInline, ArrivedHaveRows
<1>2. \A m \in Sound \cap owned' : Deciding(rows'[m])
  OBVIOUS
<1>3. QED
  BY <1>1, <1>2 DEF DecidedInline, QueueInv, SoundInlineNeverRejected, Deciding

LEMMA AdmitManifestKeeps ==
    ASSUME DecidedInline, NEW m \in Manifests, NEW inline \in BOOLEAN,
           admit_manifest(m, inline)
    PROVE  DecidedInline'
<1> USE QueueConstants DEF DecidedInline, QueueInv
<1> DEFINE row == [status |-> "received", attempts |-> 0, locked |-> FALSE, due |-> TRUE,
                   inline |-> inline]
<1>1. /\ rows[m] = NONE /\ rows' = [rows EXCEPT ![m] = row] /\ arrival' = Append(arrival, m)
      /\ UNCHANGED <<phase, batch, owned, aborts>>
  BY DEF admit_manifest
<1>2. row \in ManifestRow /\ Deciding(row) /\ row # NONE
  <2>1. row \in ManifestRow
    BY DEF ManifestRow
  <2>2. row.status = "received" /\ row.attempts = 0
    OBVIOUS
  <2> HIDE DEF row
  <2>3. QED
    BY <2>1, <2>2 DEF Deciding
<1> HIDE DEF row
<1>3. /\ rows' \in [Manifests -> ManifestRow \cup {NONE}] /\ rows'[m] = row
      /\ \A n \in Manifests \ {m} : rows'[n] = rows[n]
  BY <1>1, <1>2 DEF ManifestTypeOK
<1>4. /\ arrival' \in Seq(Manifests) /\ Len(arrival') = Len(arrival) + 1 /\ Len(arrival) \in Nat
      /\ arrival'[Len(arrival) + 1] = m
      /\ \A i \in 1..Len(arrival) : arrival[i] \in Manifests /\ arrival'[i] = arrival[i]
  BY <1>1 DEF ManifestTypeOK
<1>5. ManifestTypeOK'
  <2>1. 1..Len(arrival) \subseteq 1..Len(arrival')
    BY <1>4
  <2>2. batch' \in [Verifiers -> SUBSET (1..Len(arrival'))]
    BY <1>1, <2>1 DEF ManifestTypeOK
  <2>3. QED
    BY <1>1, <1>3, <1>4, <2>2 DEF ManifestTypeOK
<1>6. ArrivedHaveRows'
  BY <1>2, <1>3, <1>4 DEF ArrivedHaveRows
<1>7. \A n \in Sound \cap owned' : Deciding(rows'[n])
  BY <1>1, <1>2, <1>3
<1>8. QED
  BY <1>5, <1>6, <1>7 DEF SoundInlineNeverRejected, Deciding

LEMMA ClaimBatchKeeps ==
    ASSUME DecidedInline, NEW w \in Verifiers, claim_batch(w)
    PROVE  DecidedInline'
<1> USE QueueConstants DEF DecidedInline, QueueInv
<1> DEFINE claimed(r) == [r EXCEPT !.status = "verifying", !.locked = TRUE,
                                   !.attempts = @ + 1]
<1>1. PICK picked \in SUBSET (1..Len(arrival)) :
          /\ \A i \in picked : Reclaimable(arrival[i])
          /\ rows' = [m \in Manifests |-> IF \E i \in picked : arrival[i] = m
                                          THEN claimed(rows[m]) ELSE rows[m]]
          /\ batch' = [batch EXCEPT ![w] = picked]
          /\ phase' = [phase EXCEPT ![w] = IF picked = {} THEN "sweep" ELSE "verify"]
  <2> DEFINE open == {i \in 1..Len(arrival) : Reclaimable(arrival[i])}
             P == {i \in open : Cardinality({j \in open : j < i}) < ManifestBatch}
  <2>1. /\ rows' = [m \in Manifests |-> IF \E i \in P : arrival[i] = m
                                        THEN claimed(rows[m]) ELSE rows[m]]
        /\ batch' = [batch EXCEPT ![w] = P]
        /\ phase' = [phase EXCEPT ![w] = IF P = {} THEN "sweep" ELSE "verify"]
    BY DEF claim_batch
  <2>2. P \in SUBSET (1..Len(arrival)) /\ \A i \in P : Reclaimable(arrival[i])
    OBVIOUS
  <2> HIDE DEF P
  <2>3. QED
    BY <2>1, <2>2
<1>2. UNCHANGED <<arrival, owned, aborts>>
  BY DEF claim_batch
<1>3. ASSUME NEW r \in ManifestRow, r.attempts < MaxAttempts
      PROVE  /\ claimed(r) \in ManifestRow /\ claimed(r).status = "verifying"
             /\ claimed(r).inline = r.inline
  <2>1. r.attempts \in 0..MaxAttempts
    BY DEF ManifestRow
  <2>2. r.attempts + 1 \in 0..MaxAttempts
    BY <1>3, <2>1
  <2>3. QED
    BY <2>2 DEF ManifestRow
<1>4. ASSUME NEW m \in Manifests
      PROVE  /\ rows'[m] \in ManifestRow \cup {NONE}
             /\ rows[m] # NONE => rows'[m] # NONE
             /\ Deciding(rows[m]) => Deciding(rows'[m])
  <2>1. CASE \E i \in picked : arrival[i] = m
    <3>1. rows[m] \in ManifestRow /\ rows[m].attempts < MaxAttempts
      BY <2>1, <1>1 DEF Reclaimable, Is, ManifestTypeOK
    <3>2. rows'[m] = claimed(rows[m])
      BY <1>1, <2>1
    <3> HIDE DEF claimed
    <3>3. QED
      BY <1>3, <3>1, <3>2 DEF Deciding
  <2>2. CASE ~\E i \in picked : arrival[i] = m
    BY <1>1, <2>2 DEF ManifestTypeOK
  <2>3. QED
    BY <2>1, <2>2
<1> HIDE DEF claimed
<1>5. rows' \in [Manifests -> ManifestRow \cup {NONE}]
  BY <1>1, <1>4
<1>6. ManifestTypeOK'
  BY <1>1, <1>2, <1>5 DEF ManifestTypeOK
<1>7. QED
  BY <1>2, <1>4, <1>6, RowsSettle

LEMMA VerifyOneKeeps ==
    ASSUME DecidedInline, NEW w \in Verifiers, verify_one(w)
    PROVE  DecidedInline'
<1> USE QueueConstants DEF DecidedInline, QueueInv
<1>0. PICK i \in batch[w] : \E s \in Outcomes(arrival[i]) :
          /\ rows' = [rows EXCEPT ![arrival[i]].status = s, ![arrival[i]].locked = FALSE,
                                  ![arrival[i]].due = (s # "retry")]
          /\ batch' = [batch EXCEPT ![w] = batch[w] \ {i}]
          /\ phase' = [phase EXCEPT ![w] = IF batch[w] \ {i} = {} THEN "sweep" ELSE "verify"]
          /\ UNCHANGED <<arrival, owned, aborts>>
  BY DEF verify_one
<1>1. PICK s \in Outcomes(arrival[i]) :
          /\ rows' = [rows EXCEPT ![arrival[i]].status = s, ![arrival[i]].locked = FALSE,
                                  ![arrival[i]].due = (s # "retry")]
          /\ batch' = [batch EXCEPT ![w] = batch[w] \ {i}]
          /\ phase' = [phase EXCEPT ![w] = IF batch[w] \ {i} = {} THEN "sweep" ELSE "verify"]
          /\ UNCHANGED <<arrival, owned, aborts>>
  BY <1>0
<1> DEFINE m == arrival[i]
           row == [rows[m] EXCEPT !.status = s, !.locked = FALSE, !.due = (s # "retry")]
<1>2. i \in 1..Len(arrival) /\ m \in Manifests /\ rows[m] # NONE /\ rows[m] \in ManifestRow
  BY <1>1 DEF ManifestTypeOK, ArrivedHaveRows
<1>3. s \in {"verified", "rejected", "retry"}
  BY <1>1 DEF Outcomes
<1>4. rows[m].inline /\ m \in Sound \cap owned => s = "verified"
  BY <1>1 DEF Outcomes
<1>5. row \in ManifestRow /\ row.status = s /\ row.inline = rows[m].inline
  BY <1>2, <1>3 DEF ManifestRow, Terminal
<1>6. rows' = [rows EXCEPT ![m] = row]
  BY <1>1, <1>2 DEF ManifestTypeOK
<1> HIDE DEF m, row
<1>7. /\ rows' \in [Manifests -> ManifestRow \cup {NONE}] /\ rows'[m] = row /\ row # NONE
      /\ \A n \in Manifests \ {m} : rows'[n] = rows[n]
  BY <1>2, <1>5, <1>6 DEF ManifestTypeOK
<1>8. batch' \in [Verifiers -> SUBSET (1..Len(arrival'))]
  BY <1>1 DEF ManifestTypeOK
<1>9. ManifestTypeOK'
  BY <1>1, <1>7, <1>8 DEF ManifestTypeOK
<1>10. \A n \in Sound \cap owned : Deciding(rows'[n])
  BY <1>4, <1>5, <1>7 DEF Deciding
<1>11. QED
  BY <1>1, <1>7, <1>9, <1>10, RowsSettle

LEMMA SweepKeeps ==
    ASSUME DecidedInline, NEW w \in Verifiers, sweep_exhausted(w)
    PROVE  DecidedInline'
<1> USE QueueConstants DEF DecidedInline, QueueInv
<1> DEFINE swept(r) == [r EXCEPT !.status = "rejected", !.locked = FALSE, !.due = TRUE]
<1>1. /\ rows' = [m \in Manifests |-> IF Exhausted(m) THEN swept(rows[m]) ELSE rows[m]]
      /\ phase' = [phase EXCEPT ![w] = "idle"]
      /\ UNCHANGED <<arrival, batch, owned, aborts>>
  BY DEF sweep_exhausted
<1>2. \A r \in ManifestRow : swept(r) \in ManifestRow
  BY DEF ManifestRow, Terminal
<1>3. ASSUME NEW m \in Manifests
      PROVE  /\ rows'[m] \in ManifestRow \cup {NONE}
             /\ rows[m] # NONE => rows'[m] # NONE
             /\ Deciding(rows[m]) => Deciding(rows'[m])
  <2>1. CASE Exhausted(m)
    <3>1. /\ rows[m] \in ManifestRow /\ rows[m].status \in {"received", "retry"}
          /\ rows[m].attempts >= MaxAttempts
      BY <2>1 DEF Exhausted, Is, ManifestTypeOK
    <3>2. rows'[m] = swept(rows[m])
      BY <1>1, <2>1
    <3>3. ~(rows[m].status = "received" /\ rows[m].attempts = 0)
      BY <3>1
    <3>4. swept(rows[m]).inline = rows[m].inline
      BY <3>1 DEF ManifestRow
    <3> HIDE DEF swept
    <3>5. QED
      BY <1>2, <3>1, <3>2, <3>3, <3>4 DEF Deciding
  <2>2. CASE ~Exhausted(m)
    BY <1>1, <2>2 DEF ManifestTypeOK
  <2>3. QED
    BY <2>1, <2>2
<1> HIDE DEF swept
<1>4. rows' \in [Manifests -> ManifestRow \cup {NONE}]
  BY <1>1, <1>3
<1>5. ManifestTypeOK'
  BY <1>1, <1>4 DEF ManifestTypeOK
<1>6. QED
  BY <1>1, <1>3, <1>5, RowsSettle

LEMMA DeadlineKeeps ==
    ASSUME DecidedInline, NEW m \in Manifests, Deadline(m)
    PROVE  DecidedInline'
<1> USE QueueConstants DEF DecidedInline, QueueInv
<1>1. rows[m] # NONE /\ rows[m] \in ManifestRow /\ UNCHANGED <<arrival, phase, batch, owned, aborts>>
  BY DEF Deadline, LeaseLapses, RetryDue, ManifestTypeOK
<1>2. PICK row \in ManifestRow :
          /\ rows' = [rows EXCEPT ![m] = row] /\ row.status = rows[m].status
          /\ row.inline = rows[m].inline /\ row.attempts = rows[m].attempts
  <2>1. CASE LeaseLapses(m)
    <3> DEFINE e == [rows[m] EXCEPT !.locked = FALSE]
    <3>1. /\ e \in ManifestRow /\ e.status = rows[m].status
          /\ e.inline = rows[m].inline /\ e.attempts = rows[m].attempts
      BY <1>1 DEF ManifestRow
    <3>2. rows' = [rows EXCEPT ![m] = e]
      BY <2>1 DEF LeaseLapses, ManifestTypeOK
    <3> HIDE DEF e
    <3>3. QED
      BY <3>1, <3>2
  <2>2. CASE RetryDue(m)
    <3> DEFINE e == [rows[m] EXCEPT !.due = TRUE]
    <3>1. /\ e \in ManifestRow /\ e.status = rows[m].status
          /\ e.inline = rows[m].inline /\ e.attempts = rows[m].attempts
      BY <1>1 DEF ManifestRow
    <3>2. rows' = [rows EXCEPT ![m] = e]
      BY <2>2 DEF RetryDue, ManifestTypeOK
    <3> HIDE DEF e
    <3>3. QED
      BY <3>1, <3>2
  <2>3. QED
    BY <2>1, <2>2 DEF Deadline
<1>3. /\ rows' \in [Manifests -> ManifestRow \cup {NONE}] /\ rows'[m] = row
      /\ \A n \in Manifests \ {m} : rows'[n] = rows[n]
  BY <1>2 DEF ManifestTypeOK
<1>4. ManifestTypeOK'
  BY <1>1, <1>3 DEF ManifestTypeOK
<1>5. \A n \in Sound \cap owned : Deciding(rows'[n])
  BY <1>1, <1>2, <1>3 DEF Deciding
<1>6. QED
  BY <1>1, <1>3, <1>4, <1>5, RowsSettle

LEMMA TickEndsKeeps ==
    ASSUME DecidedInline,
           (\E w \in Verifiers : TickAborts(w)) \/ (\E m \in Manifests : Disowned(m))
    PROVE  DecidedInline'
<1> USE QueueConstants DEF DecidedInline, QueueInv
<1>1. UNCHANGED <<rows, arrival>> /\ owned' \subseteq owned
  BY DEF TickAborts, Disowned
<1>2. ManifestTypeOK'
  <2>1. ASSUME NEW w \in Verifiers, TickAborts(w) PROVE ManifestTypeOK'
    BY <2>1 DEF TickAborts, ManifestTypeOK
  <2>2. ASSUME NEW m \in Manifests, Disowned(m) PROVE ManifestTypeOK'
    BY <2>2 DEF Disowned, ManifestTypeOK
  <2>3. QED
    BY <2>1, <2>2
<1>3. QED
  BY <1>1, <1>2, RowsSettle

\* The manifest queue, for any manifests, workers, batch size and attempt cap:
\* what was admitted with a sound inline copy is not rejected while its
\* challenge is its miner's, whatever the blob store, aborted batches, lapsed
\* leases and late workers do (verify_one, sweep_exhausted, claim_batch).
THEOREM QueueSafe == ManifestSpec => []QueueInv
<1>1. ManifestInit => DecidedInline
  <2> SUFFICES ASSUME ManifestInit PROVE DecidedInline
    OBVIOUS
  <2>1. ManifestTypeOK
    BY QueueConstants DEF ManifestInit, ManifestTypeOK
  <2>2. QED
    BY <2>1, QueueConstants DEF ManifestInit, DecidedInline, QueueInv, ArrivedHaveRows,
       SoundInlineNeverRejected, Deciding
<1>2. ASSUME DecidedInline, [ManifestNext]_manifestVars PROVE DecidedInline'
  <2>1. CASE UNCHANGED manifestVars
    BY <1>2, <2>1 DEF manifestVars, DecidedInline, QueueInv, ManifestTypeOK,
       SoundInlineNeverRejected, ArrivedHaveRows, Deciding
  <2>2. CASE ManifestNext
    BY <1>2, <2>2, AdmitManifestKeeps, ClaimBatchKeeps, VerifyOneKeeps, SweepKeeps,
       DeadlineKeeps, TickEndsKeeps DEF ManifestNext, TickStep
  <2>3. QED
    BY <1>2, <2>1, <2>2
<1>3. DecidedInline => QueueInv
  BY DEF DecidedInline
<1>4. QED
  BY <1>1, <1>2, <1>3, PTL DEF ManifestSpec

----------------------------------------------------------------------------
(* The lean ingress                                                         *)

Addresses == {r.hotkey : r \in IngressRequests}
LogRow == [rid : {Key(r) : r \in IngressRequests}, bits : {r.bits : r \in IngressRequests},
           token : {r.token : r \in IngressRequests},
           status : {"received", "verified", "rejected"}, flushed : BOOLEAN, round : Nat]
InTxn == {"existing", "pressure", "write"}
Service == [pc : {"free", "check", "replay", "token", "begin"} \cup InTxn,
            req : IngressRequests \cup {NONE}]

LogTyped ==
    /\ localEvents \in [DOMAIN localEvents -> LogRow]
    /\ IsFiniteSet(DOMAIN localEvents)
    /\ \A k \in DOMAIN localEvents : localEvents[k].rid = k
ServiceTyped ==
    /\ handling \in [IngressThreads -> Service]
    /\ \A t \in IngressThreads : handling[t].pc # "free" => handling[t].req \in IngressRequests
    /\ hits \in [Addresses -> 0..(IpRpm + 1)]

\* What a thread remembers of the log inside its transaction is still so, and
\* it is the one that holds the write lock.
TxnHolds ==
    \A t \in IngressThreads : handling[t].pc \in InTxn =>
        /\ writeLock = t
        /\ handling[t].pc = "existing" => Key(handling[t].req) \in DOMAIN localEvents
        /\ handling[t].pc = "write" => Cardinality(Unflushed) < MaxUnflushed

\* A receipt's row is there, of the receipt's attempt or a later one.
Stands(a, log) ==
    /\ a.key \in DOMAIN log /\ log[a.key].rid = a.rid
    /\ a.round \in Nat /\ a.round <= log[a.key].round
    /\ log[a.key].round = a.round => log[a.key].bits = a.bits
ReceiptsHold == \A a \in receipts : Stands(a, localEvents)

LogInv == IngressInv /\ LogTyped /\ ServiceTyped /\ TxnHolds /\ ReceiptsHold

LEMMA IngressConstants ==
    /\ MaxUnflushed \in Nat \ {0} /\ IpRpm \in Nat \ {0} /\ MaxVerdicts \in Nat
    /\ NONE \notin IngressThreads
BY IngressAssumption

LEMMA PlaceMoves ==
    ASSUME NEW s \in Service, NEW p \in {"replay", "token", "begin"} \cup InTxn
    PROVE  \E h \in Service : [s EXCEPT !.pc = p] = h /\ h.pc = p /\ h.req = s.req
<1> DEFINE h == [s EXCEPT !.pc = p]
<1>1. h \in Service /\ h.pc = p /\ h.req = s.req
  BY DEF Service
<1> HIDE DEF h
<1>2. QED
  BY <1>1 DEF h

\* Steps of one thread outside its transaction: its place changes, the counters
\* may, and a receipt that stands may be answered.
LEMMA ThreadKeeps ==
    ASSUME LogInv, NEW t \in IngressThreads, NEW h \in Service,
           handling' = [handling EXCEPT ![t] = h], UNCHANGED <<localEvents, writeLock, verdicts>>,
           h.pc \notin InTxn, h.pc # "free" => h.req \in IngressRequests,
           hits' \in [Addresses -> 0..(IpRpm + 1)], pressed' \in BOOLEAN, refused' \in Nat,
           \A a \in receipts' : a \in receipts \/ Stands(a, localEvents)
    PROVE  LogInv'
<1> USE DEF LogInv, IngressInv
<1>1. /\ handling' \in [IngressThreads -> Service] /\ handling'[t] = h
      /\ \A u \in IngressThreads \ {t} : handling'[u] = handling[u]
  BY DEF ServiceTyped
<1>2. IngressTypeOK'
  BY DEF IngressTypeOK
<1>3. LogTyped'
  BY DEF LogTyped
<1>4. ServiceTyped'
  BY <1>1 DEF ServiceTyped
<1>5. TxnHolds'
  BY <1>1 DEF TxnHolds, Unflushed
<1>6. ReceiptsHold'
  BY DEF ReceiptsHold
<1>7. ReceiptStands'
  BY <1>6 DEF ReceiptsHold, ReceiptStands, Stands
<1>8. BacklogBounded'
  BY DEF BacklogBounded, Unflushed
<1>9. QED
  BY <1>2, <1>3, <1>4, <1>5, <1>6, <1>7, <1>8

LEMMA CheckKeeps ==
    ASSUME LogInv, NEW t \in IngressThreads,
           \/ \E r \in IngressRequests : check_ip_rate(t, r)
           \/ Checks(t) \/ get_replay_candidate(t) \/ verify_submit_token(t)
    PROVE  LogInv'
<1> USE IngressConstants
<1>1. /\ At \in Service /\ At.pc = "free"
      /\ \A r \in IngressRequests : [pc |-> "check", req |-> r] \in Service
      /\ handling[t] \in Service
      /\ hits \in [Addresses -> 0..(IpRpm + 1)] /\ pressed \in BOOLEAN /\ refused \in Nat
  BY DEF At, Service, InTxn, LogInv, ServiceTyped, IngressInv, IngressTypeOK
<1>2. ASSUME NEW p \in {"replay", "token", "begin"}, handling[t].pc # "free"
      PROVE  \E h \in Service : /\ [handling[t] EXCEPT !.pc = p] = h
                                /\ h.pc = p /\ h.req \in IngressRequests
  <2>1. handling[t].req \in IngressRequests
    BY <1>2 DEF LogInv, ServiceTyped
  <2>2. \E h \in Service : /\ [handling[t] EXCEPT !.pc = p] = h
                           /\ h.pc = p /\ h.req = handling[t].req
    <3>1. p \in {"replay", "token", "begin"} \cup InTxn
      OBVIOUS
    <3>2. handling[t] \in Service
      BY <1>1
    <3>3. QED
      BY <3>1, <3>2, PlaceMoves, Zenon
  <2>3. QED
    BY <2>1, <2>2
<1>3. ASSUME NEW r \in IngressRequests, check_ip_rate(t, r) PROVE LogInv'
  <2>1. hits' \in [Addresses -> 0..(IpRpm + 1)]
    <3>1. r.hotkey \in Addresses
      BY DEF Addresses
    <3>2. (IF hits[r.hotkey] > IpRpm THEN hits[r.hotkey] ELSE hits[r.hotkey] + 1) \in 0..(IpRpm + 1)
      BY <1>1, <3>1
    <3>3. QED
      BY <1>1, <1>3, <3>1, <3>2 DEF check_ip_rate
  <2>2. refused' \in Nat
    BY <1>1, <1>3 DEF check_ip_rate, reject
  <2>3. UNCHANGED <<localEvents, writeLock, verdicts, pressed, receipts>>
    BY <1>3 DEF check_ip_rate
  <2>4. CASE handling' = [handling EXCEPT ![t] = At]
    BY <1>1, <2>1, <2>2, <2>3, <2>4, ThreadKeeps DEF InTxn
  <2>5. CASE handling' = [handling EXCEPT ![t] = [pc |-> "check", req |-> r]]
    <3> DEFINE h == [pc |-> "check", req |-> r]
    <3>1. h \in Service /\ h.pc \notin InTxn /\ h.req \in IngressRequests
      BY <1>1 DEF InTxn
    <3> HIDE DEF h
    <3>2. QED
      BY <1>1, <2>1, <2>2, <2>3, <2>5, <3>1, ThreadKeeps DEF h
  <2>6. QED
    BY <1>3, <2>4, <2>5 DEF check_ip_rate, reject
<1>4. CASE Checks(t)
  <2>1. handling[t].pc # "free" /\ UNCHANGED <<localEvents, writeLock, verdicts, hits, pressed, receipts>>
    BY <1>4 DEF Checks
  <2>2. refused' \in Nat
    BY <1>1, <1>4 DEF Checks, reject
  <2>3. PICK h \in Service : [handling[t] EXCEPT !.pc = "replay"] = h
                             /\ h.pc = "replay" /\ h.req \in IngressRequests
    BY <1>2, <2>1
  <2>4. handling' = [handling EXCEPT ![t] = At] \/ handling' = [handling EXCEPT ![t] = h]
    BY <1>4, <2>3 DEF Checks, reject, LogInv, ServiceTyped
  <2>5. QED
    BY <1>1, <2>1, <2>2, <2>3, <2>4, ThreadKeeps DEF InTxn
<1>5. CASE verify_submit_token(t)
  <2>1. handling[t].pc # "free" /\ UNCHANGED <<localEvents, writeLock, verdicts, hits, pressed, receipts>>
    BY <1>5 DEF verify_submit_token
  <2>2. refused' \in Nat
    BY <1>1, <1>5 DEF verify_submit_token, reject
  <2>3. PICK h \in Service : [handling[t] EXCEPT !.pc = "begin"] = h
                             /\ h.pc = "begin" /\ h.req \in IngressRequests
    BY <1>2, <2>1
  <2>4. handling' = [handling EXCEPT ![t] = At] \/ handling' = [handling EXCEPT ![t] = h]
    BY <1>5, <2>3 DEF verify_submit_token, reject, LogInv, ServiceTyped
  <2>5. QED
    BY <1>1, <2>1, <2>2, <2>3, <2>4, ThreadKeeps DEF InTxn
<1>6. CASE get_replay_candidate(t)
  <2> DEFINE k == Key(handling[t].req)
             a == [key |-> k, rid |-> localEvents[k].rid, bits |-> localEvents[k].bits,
                   round |-> localEvents[k].round]
  <2>1. handling[t].pc # "free" /\ UNCHANGED <<localEvents, writeLock, verdicts, hits, pressed, refused>>
    BY <1>6 DEF get_replay_candidate
  <2>2. PICK h \in Service : [handling[t] EXCEPT !.pc = "token"] = h
                             /\ h.pc = "token" /\ h.req \in IngressRequests
    BY <1>2, <2>1
  <2>3. CASE handling' = [handling EXCEPT ![t] = h] /\ receipts' = receipts
    BY <1>1, <2>1, <2>2, <2>3, ThreadKeeps DEF InTxn
  <2>4. CASE /\ k \in DOMAIN localEvents
             /\ handling' = [handling EXCEPT ![t] = At] /\ receipts' = receipts \cup {a}
    <3>1. Stands(a, localEvents)
      <4>1. localEvents[k] \in LogRow
        BY <2>4 DEF LogInv, LogTyped
      <4>2. QED
        BY <2>4, <4>1 DEF Stands, LogRow
    <3> HIDE DEF a
    <3>2. \A b \in receipts' : b \in receipts \/ Stands(b, localEvents)
      BY <2>4, <3>1
    <3>3. QED
      BY <1>1, <2>1, <2>4, <3>2, ThreadKeeps DEF InTxn
  <2>5. QED
    BY <1>6, <2>2, <2>3, <2>4 DEF get_replay_candidate, Answer, LogInv, ServiceTyped
<1>7. QED
  BY <1>3, <1>4, <1>5, <1>6

LEMMA BeginKeeps ==
    ASSUME LogInv, NEW t \in IngressThreads, Begin(t)
    PROVE  LogInv'
<1> USE IngressConstants DEF LogInv, IngressInv
<1> DEFINE k == Key(handling[t].req)
           p == IF k \in DOMAIN localEvents /\ localEvents[k].status # "rejected" THEN "existing"
                ELSE IF Cardinality(Unflushed) >= MaxUnflushed \/ pressed THEN "pressure"
                ELSE "write"
<1>1. /\ handling[t].pc = "begin" /\ writeLock = NONE /\ writeLock' = t
      /\ handling' = [handling EXCEPT ![t].pc = p]
      /\ UNCHANGED <<localEvents, hits, pressed, receipts, refused, verdicts>>
  BY DEF Begin, begin_immediate
<1>2. handling[t] \in Service /\ handling[t].req \in IngressRequests
  BY <1>1 DEF ServiceTyped
<1>3. /\ p \in InTxn
      /\ p = "existing" => k \in DOMAIN localEvents
      /\ p = "write" => ~(Cardinality(Unflushed) >= MaxUnflushed)
  BY DEF InTxn
<1>4. Cardinality(Unflushed) \in Nat
  BY FS_CardinalityType, FS_Subset DEF LogTyped, Unflushed
<1> HIDE DEF p
<1>5. PICK h \in Service : [handling[t] EXCEPT !.pc = p] = h
                           /\ h.pc = p /\ h.req = handling[t].req
  BY <1>2, <1>3, PlaceMoves
<1>6. /\ handling' \in [IngressThreads -> Service] /\ handling'[t] = h
      /\ \A u \in IngressThreads \ {t} : handling'[u] = handling[u]
  BY <1>1, <1>5 DEF ServiceTyped
<1>7. TxnHolds'
  <2>1. \A u \in IngressThreads : handling[u].pc \notin InTxn
    BY <1>1 DEF TxnHolds
  <2>2. Cardinality(Unflushed)' = Cardinality(Unflushed)
    BY <1>1 DEF Unflushed
  <2>3. QED
    BY <1>1, <1>3, <1>4, <1>5, <1>6, <2>1, <2>2 DEF TxnHolds
<1>8. ServiceTyped'
  BY <1>1, <1>2, <1>5, <1>6 DEF ServiceTyped
<1>9. QED
  BY <1>1, <1>7, <1>8 DEF IngressTypeOK, LogTyped, ReceiptsHold, ReceiptStands,
     BacklogBounded, Unflushed

\* Steps of the batch job: one row changes its status or is flushed while no
\* transaction is open.
LEMMA LogStepKeeps ==
    ASSUME LogInv, NEW k \in DOMAIN localEvents, NEW row \in LogRow,
           localEvents' = [localEvents EXCEPT ![k] = row],
           row.rid = localEvents[k].rid, row.bits = localEvents[k].bits,
           row.round = localEvents[k].round, localEvents[k].flushed => row.flushed,
           writeLock = NONE, UNCHANGED <<writeLock, handling, hits, pressed, receipts, refused>>,
           verdicts' \in 0..MaxVerdicts
    PROVE  LogInv'
<1> USE IngressConstants DEF LogInv, IngressInv
<1>1. /\ DOMAIN localEvents' = DOMAIN localEvents /\ localEvents'[k] = row
      /\ \A j \in DOMAIN localEvents : j # k => localEvents'[j] = localEvents[j]
      /\ localEvents' \in [DOMAIN localEvents -> LogRow]
  BY DEF LogTyped
<1>2. LogTyped'
  BY <1>1 DEF LogTyped
<1>3. IngressTypeOK'
  <2>1. \A j \in DOMAIN localEvents' : localEvents'[j].status \in {"received", "verified", "rejected"}
    BY <1>1 DEF LogRow
  <2>2. QED
    BY <2>1 DEF IngressTypeOK
<1>4. ServiceTyped'
  BY DEF ServiceTyped
<1>5. TxnHolds'
  BY DEF TxnHolds
<1>6. ReceiptsHold'
  BY <1>1 DEF ReceiptsHold, Stands
<1>7. ReceiptStands'
  BY <1>6 DEF ReceiptsHold, ReceiptStands, Stands
<1>8. BacklogBounded'
  <2>1. Unflushed' \subseteq Unflushed
    BY <1>1 DEF Unflushed
  <2>2. IsFiniteSet(Unflushed)
    BY FS_Subset DEF LogTyped, Unflushed
  <2>3. Cardinality(Unflushed') <= Cardinality(Unflushed)
    BY <2>1, <2>2, FS_Subset
  <2>4. Cardinality(Unflushed') \in Nat /\ Cardinality(Unflushed) \in Nat
    BY <2>1, <2>2, FS_Subset, FS_CardinalityType
  <2>5. QED
    BY <2>3, <2>4 DEF BacklogBounded
<1>9. QED
  BY <1>2, <1>3, <1>4, <1>5, <1>6, <1>7, <1>8

LEMMA BatchJobKeeps ==
    ASSUME LogInv, NEW k \in DOMAIN localEvents,
           Flush(k) \/ \E s \in {"verified", "rejected"} : BatchVerdict(k, s)
    PROVE  LogInv'
<1>1. localEvents[k] \in LogRow
  BY DEF LogInv, LogTyped
<1>2. verdicts \in 0..MaxVerdicts /\ MaxVerdicts \in Nat
  BY IngressConstants DEF LogInv, IngressInv, IngressTypeOK
<1>3. CASE Flush(k)
  <2> DEFINE row == [localEvents[k] EXCEPT !.flushed = TRUE]
  <2>1. /\ row \in LogRow /\ row.rid = localEvents[k].rid /\ row.bits = localEvents[k].bits
        /\ row.round = localEvents[k].round /\ row.flushed
    BY <1>1 DEF LogRow
  <2>2. /\ localEvents' = [localEvents EXCEPT ![k] = row] /\ writeLock = NONE
        /\ UNCHANGED <<writeLock, handling, hits, pressed, receipts, refused, verdicts>>
    BY <1>3 DEF Flush
  <2> HIDE DEF row
  <2>3. QED
    BY <1>2, <2>1, <2>2, LogStepKeeps
<1>4. ASSUME NEW s \in {"verified", "rejected"}, BatchVerdict(k, s) PROVE LogInv'
  <2> DEFINE row == [localEvents[k] EXCEPT !.status = s]
  <2>1. /\ row \in LogRow /\ row.rid = localEvents[k].rid /\ row.bits = localEvents[k].bits
        /\ row.round = localEvents[k].round /\ row.flushed = localEvents[k].flushed
    BY <1>1 DEF LogRow
  <2>2. /\ localEvents' = [localEvents EXCEPT ![k] = row] /\ writeLock = NONE
        /\ UNCHANGED <<writeLock, handling, hits, pressed, receipts, refused>>
    BY <1>4 DEF BatchVerdict
  <2>3. verdicts' \in 0..MaxVerdicts
    BY <1>2, <1>4 DEF BatchVerdict
  <2> HIDE DEF row
  <2>4. QED
    BY <2>1, <2>2, <2>3, LogStepKeeps
<1>5. QED
  BY <1>3, <1>4

\* The end of a transaction.  The log was last read by the writeLock of the write
\* lock, so the limit it compared the backlog with still has room.
LEMMA AdmitEventKeeps ==
    ASSUME LogInv, NEW t \in IngressThreads, admit_event(t)
    PROVE  LogInv'
<1> USE IngressConstants DEF LogInv, IngressInv
<1> DEFINE r == handling[t].req
           k == Key(r)
           row == admitted(k, r)
           answer(x) == [key |-> k, rid |-> x.rid, bits |-> x.bits, round |-> x.round]
<1>1. /\ handling[t].pc \in InTxn /\ writeLock' = NONE /\ UNCHANGED <<hits, pressed, verdicts>>
      /\ handling' = [handling EXCEPT ![t] = At]
  BY DEF admit_event, InTxn, Answer, reject
<1>2. writeLock = t /\ r \in IngressRequests /\ refused' \in Nat
  <2>1. writeLock = t /\ r \in IngressRequests /\ refused \in Nat
    BY <1>1 DEF TxnHolds, ServiceTyped, InTxn, IngressTypeOK
  <2>2. refused' = refused \/ refused' = refused + 1
    BY DEF admit_event, reject
  <2>3. QED
    BY <2>1, <2>2
<1>3. /\ At \in Service /\ At.pc = "free"
      /\ handling' \in [IngressThreads -> Service]
      /\ \A u \in IngressThreads : handling'[u].pc \notin InTxn
      /\ \A u \in IngressThreads : u = t \/ handling'[u] = handling[u]
      /\ handling'[t] = At
  <2>1. At \in Service /\ At.pc = "free"
    BY DEF At, Service
  <2>2. \A u \in IngressThreads : handling[u].pc \in InTxn => u = t
    BY <1>2 DEF TxnHolds
  <2>3. QED
    BY <1>1, <2>1, <2>2 DEF ServiceTyped, InTxn
<1>4. ServiceTyped' /\ TxnHolds'
  BY <1>1, <1>3 DEF ServiceTyped, TxnHolds
<1>5. writeLock' \in IngressThreads \cup {NONE} /\ pressed' \in BOOLEAN /\ refused' \in Nat
  BY <1>1, <1>2 DEF IngressTypeOK
<1>6. CASE localEvents' = localEvents
  <2>1. \A a \in receipts' : a \in receipts \/ Stands(a, localEvents)
    <3>1. CASE handling[t].pc = "existing"
      <4>1. k \in DOMAIN localEvents /\ receipts' = receipts \cup {answer(localEvents[k])}
        BY <1>1, <3>1 DEF TxnHolds, admit_event, Answer
      <4>2. localEvents[k] \in LogRow
        BY <4>1 DEF LogTyped
      <4>3. Stands(answer(localEvents[k]), localEvents)
        BY <4>1, <4>2 DEF Stands, LogRow
      <4> HIDE DEF answer
      <4>4. QED
        BY <4>1, <4>3
    <3>2. CASE handling[t].pc = "pressure"
      BY <3>2 DEF admit_event
    <3>3. CASE handling[t].pc = "write"
      <4>1. /\ localEvents' = [x \in DOMAIN localEvents \cup {k} |->
                                  IF x = k THEN row ELSE localEvents[x]]
        BY <3>3 DEF admit_event
      <4>2. k \in DOMAIN localEvents /\ localEvents[k] = row
        BY <1>6, <4>1
      <4>3. localEvents[k].round = localEvents[k].round + 1 /\ localEvents[k] \in LogRow
        BY <4>2 DEF admitted, LogTyped
      <4>4. FALSE
        BY <4>3 DEF LogRow
      <4>5. QED
        BY <4>4
    <3>4. QED
      BY <1>1, <3>1, <3>2, <3>3 DEF InTxn
  <2>2. ReceiptsHold'
    BY <1>6, <2>1 DEF ReceiptsHold
  <2>3. ReceiptStands'
    BY <2>2 DEF ReceiptsHold, ReceiptStands, Stands
  <2>4. QED
    BY <1>1, <1>4, <1>5, <1>6, <2>2, <2>3 DEF IngressTypeOK, LogTyped, BacklogBounded, Unflushed
<1>7. CASE localEvents' # localEvents
  <2>1. /\ handling[t].pc = "write"
        /\ localEvents' = [x \in DOMAIN localEvents \cup {k} |->
                                IF x = k THEN row ELSE localEvents[x]]
        /\ receipts' = receipts \cup {answer(row)}
    BY <1>1, <1>7 DEF admit_event, Answer, InTxn
  <2>2. /\ row \in LogRow /\ row.rid = k /\ ~row.flushed /\ row.status = "received"
        /\ k \in DOMAIN localEvents => row.round > localEvents[k].round
    <3>1. k \in DOMAIN localEvents => localEvents[k].round \in Nat
      BY DEF LogTyped, LogRow
    <3>2. QED
      BY <1>2, <3>1 DEF admitted, RidOf, LogRow
  <2>3. answer(row).key = k /\ Stands(answer(row), localEvents')
    BY <2>1, <2>2 DEF Stands, LogRow
  <2> HIDE DEF row, answer
  <2>4. /\ DOMAIN localEvents' = DOMAIN localEvents \cup {k} /\ localEvents'[k] = row
        /\ \A j \in DOMAIN localEvents : j # k => localEvents'[j] = localEvents[j]
    BY <2>1
  <2>5. LogTyped'
    <3>1. IsFiniteSet(DOMAIN localEvents')
      BY <2>4, FS_AddElement DEF LogTyped
    <3>2. localEvents' \in [DOMAIN localEvents' -> LogRow]
      BY <2>1, <2>2, <2>4 DEF LogTyped
    <3>3. \A j \in DOMAIN localEvents' : localEvents'[j].rid = j
      BY <2>2, <2>4 DEF LogTyped
    <3>4. QED
      BY <3>1, <3>2, <3>3 DEF LogTyped
  <2>6. IngressTypeOK'
    <3>1. \A j \in DOMAIN localEvents' : localEvents'[j].status \in {"received", "verified", "rejected"}
      BY <2>2, <2>4 DEF IngressTypeOK
    <3>2. QED
      BY <1>1, <1>5, <3>1 DEF IngressTypeOK
  <2>7. \A a \in receipts : Stands(a, localEvents')
    <3> SUFFICES ASSUME NEW a \in receipts PROVE Stands(a, localEvents')
      OBVIOUS
    <3>1. Stands(a, localEvents) /\ a.key \in DOMAIN localEvents'
      BY <2>4 DEF ReceiptsHold, Stands
    <3>2. CASE a.key # k
      BY <2>4, <3>1, <3>2 DEF Stands
    <3>3. CASE a.key = k
      <4>1. /\ localEvents[k].round \in Nat /\ row.round \in Nat /\ a.round <= localEvents[k].round
            /\ a.round \in Nat /\ localEvents[k].rid = a.rid /\ localEvents[k].rid = k
            /\ row.round > localEvents[k].round
        BY <2>2, <3>1, <3>3 DEF Stands, LogTyped, LogRow
      <4>2. QED
        BY <2>2, <2>4, <3>1, <3>3, <4>1 DEF Stands
    <3>4. QED
      BY <3>2, <3>3
  <2>8. ReceiptsHold'
    BY <2>1, <2>3, <2>7 DEF ReceiptsHold
  <2>9. ReceiptStands'
    BY <2>8 DEF ReceiptsHold, ReceiptStands, Stands
  <2>10. BacklogBounded'
    <3>1. Cardinality(Unflushed) < MaxUnflushed
      BY <1>1, <2>1 DEF TxnHolds
    <3>2. IsFiniteSet(Unflushed) /\ Cardinality(Unflushed) \in Nat
      BY FS_Subset, FS_CardinalityType DEF LogTyped, Unflushed
    <3>3. Unflushed' \subseteq Unflushed \cup {k}
      BY <2>4 DEF Unflushed
    <3>4. /\ IsFiniteSet(Unflushed \cup {k}) /\ Cardinality(Unflushed \cup {k}) \in Nat
          /\ Cardinality(Unflushed \cup {k}) <= Cardinality(Unflushed) + 1
      <4>1. IsFiniteSet(Unflushed \cup {k})
        BY <3>2, FS_AddElement
      <4>2. \/ Cardinality(Unflushed \cup {k}) = Cardinality(Unflushed) + 1
            \/ Cardinality(Unflushed \cup {k}) = Cardinality(Unflushed)
        BY <3>2, FS_AddElement
      <4>3. QED
        BY <3>2, <4>1, <4>2
    <3>5. IsFiniteSet(Unflushed') /\ Cardinality(Unflushed') \in Nat
          /\ Cardinality(Unflushed') <= Cardinality(Unflushed \cup {k})
      BY <3>3, <3>4, FS_Subset, FS_CardinalityType
    <3>6. QED
      BY <3>1, <3>2, <3>4, <3>5 DEF BacklogBounded
  <2>11. QED
    BY <1>4, <2>5, <2>6, <2>8, <2>9, <2>10
<1>8. QED
  BY <1>6, <1>7

\* The clock, the machine and a crash of the process.
LEMMA MachineKeeps ==
    ASSUME LogInv, Minute \/ Pressure \/ IngressCrash
    PROVE  LogInv'
<1> USE IngressConstants DEF LogInv, IngressInv
<1>1. UNCHANGED <<localEvents, receipts, refused, verdicts>>
  BY DEF Minute, Pressure, IngressCrash
<1>2. hits' \in [Addresses -> 0..(IpRpm + 1)] /\ pressed' \in BOOLEAN
  <2>1. hits' = hits \/ hits' = [h \in DOMAIN hits |-> 0]
    BY DEF Minute, Pressure, IngressCrash
  <2>2. pressed' = pressed \/ pressed' = ~pressed
    BY DEF Minute, Pressure, IngressCrash
  <2>3. hits' \in [Addresses -> 0..(IpRpm + 1)]
    <3>1. DOMAIN hits = Addresses /\ 0 \in 0..(IpRpm + 1)
      BY DEF ServiceTyped
    <3>2. QED
      BY <2>1, <3>1 DEF ServiceTyped
  <2>4. pressed' \in BOOLEAN
    BY <2>2, Zenon DEF IngressTypeOK
  <2>5. QED
    BY <2>3, <2>4
<1>3. \/ handling' = handling /\ writeLock' = writeLock
      \/ handling' = [t \in IngressThreads |-> At] /\ writeLock' = NONE
  BY DEF Minute, Pressure, IngressCrash
<1>4. At \in Service /\ At.pc = "free" /\ "free" \notin InTxn
  BY DEF At, Service, InTxn
<1>5. ServiceTyped'
  BY <1>2, <1>3, <1>4 DEF ServiceTyped
<1>6. TxnHolds'
  <2>1. CASE handling' = handling /\ writeLock' = writeLock
    BY <1>1, <2>1 DEF TxnHolds, Unflushed
  <2>2. CASE handling' = [t \in IngressThreads |-> At]
    BY <1>4, <2>2 DEF TxnHolds
  <2>3. QED
    BY <1>3, <2>1, <2>2
<1>7. IngressTypeOK'
  <2>1. writeLock' \in IngressThreads \cup {NONE}
    BY <1>3 DEF IngressTypeOK
  <2>2. \A h \in DOMAIN hits' : hits'[h] \in 0..(IpRpm + 1)
    BY <1>2
  <2>3. QED
    BY <1>1, <1>2, <2>1, <2>2 DEF IngressTypeOK
<1>8. QED
  BY <1>1, <1>5, <1>6, <1>7 DEF LogTyped, ReceiptsHold, ReceiptStands, BacklogBounded, Unflushed

\* The lean ingress, for any number of threads and requests and any limits: a
\* receipt keeps its row and assignment until a rejection opens the key again,
\* and concurrent admissions never exceed max_unflushed_events
\* (v2_lean_ingress.admit_event under BEGIN IMMEDIATE).
THEOREM IngressSafe == IngressSpec => []IngressInv
<1>1. IngressInit => LogInv
  <2> SUFFICES ASSUME IngressInit PROVE LogInv
    OBVIOUS
  <2> USE IngressConstants DEF IngressInit
  <2>1. DOMAIN localEvents = {} /\ localEvents \in [DOMAIN localEvents -> LogRow]
    OBVIOUS
  <2>2. LogTyped
    BY <2>1, FS_EmptySet DEF LogTyped
  <2>3. ServiceTyped /\ TxnHolds
    <3>1. At \in Service /\ At.pc = "free" /\ "free" \notin InTxn
      BY DEF At, Service, InTxn
    <3>2. hits \in [Addresses -> 0..(IpRpm + 1)]
      BY DEF Addresses
    <3>3. QED
      BY <3>1, <3>2 DEF ServiceTyped, TxnHolds
  <2>4. IngressTypeOK
    <3>1. \A h \in DOMAIN hits : hits[h] \in 0..(IpRpm + 1)
      BY <2>3 DEF ServiceTyped
    <3>2. verdicts \in 0..MaxVerdicts /\ refused \in Nat
      OBVIOUS
    <3>3. pressed \in BOOLEAN
      BY Zenon
    <3>4. writeLock \in IngressThreads \cup {NONE}
      OBVIOUS
    <3>5. QED
      BY <2>1, <3>1, <3>2, <3>3, <3>4 DEF IngressTypeOK
  <2>5. BacklogBounded
    <3>1. Unflushed = {}
      BY <2>1 DEF Unflushed
    <3>2. QED
      BY <3>1, FS_EmptySet DEF BacklogBounded
  <2>6. QED
    BY <2>2, <2>3, <2>4, <2>5 DEF LogInv, IngressInv, ReceiptStands, ReceiptsHold
<1>2. ASSUME LogInv, [IngressNext]_ingressVars PROVE LogInv'
  <2>1. CASE UNCHANGED ingressVars
    BY <1>2, <2>1 DEF ingressVars, LogInv, IngressInv, IngressTypeOK, LogTyped, ServiceTyped,
       TxnHolds, ReceiptsHold, ReceiptStands, BacklogBounded, Unflushed
  <2>2. CASE IngressNext
    BY <1>2, <2>2, CheckKeeps, BeginKeeps, AdmitEventKeeps, BatchJobKeeps, MachineKeeps
       DEF IngressNext
  <2>3. QED
    BY <1>2, <2>1, <2>2
<1>3. LogInv => IngressInv
  BY DEF LogInv
<1>4. QED
  BY <1>1, <1>2, <1>3, PTL DEF IngressSpec

----------------------------------------------------------------------------
(* Solver attestation                                                       *)

Nonce == [hk : Provers, ch : Instances, used : BOOLEAN, expires : Nat]

\* A payload names a nonce that was issued to the miner of its row, for the
\* challenge of its row.
Bound(m, issued) ==
    /\ m.nonce \in DOMAIN issued
    /\ issued[m.nonce].hk = RunOwner[m.run] /\ issued[m.nonce].ch = RunInstance[m.run]

Of(r) == {m \in attestations : m.run = r}

\* Row, flag and attestations move together; what a process remembers of the
\* nonce it checked stays true, for nonces are only marked as used.
AttestBook ==
    /\ AttestTypeOK
    /\ attestTime \in Nat
    /\ multiplied \in [EvalRuns -> Nat] /\ attested \in [EvalRuns -> BOOLEAN]
    /\ verifying \in [AttestWorkers -> AttestPayload \cup {NONE}]
    /\ \E n \in Nat : nonces \in [1..n -> Nonce]
    /\ \A v \in AttestWorkers : verifying[v] # NONE => Bound(verifying[v], nonces)
    /\ \A m \in attestations : Bound(m, nonces)
    /\ \A r \in EvalRuns : /\ ~attested[r] => Of(r) = {} /\ multiplied[r] = 0
                           /\ attested[r] => multiplied[r] = 1 /\ \E m : Of(r) = {m}

LEMMA BookGivesInv ==
    ASSUME AttestBook
    PROVE  AttestInv
<1> SUFFICES ASSUME NEW r \in EvalRuns
             PROVE  /\ Cardinality(Of(r)) = multiplied[r] /\ multiplied[r] <= 1
                    /\ \A m \in Of(r) : /\ nonces[m.nonce].hk = RunOwner[r]
                                        /\ nonces[m.nonce].ch = RunInstance[r]
  BY DEF AttestBook, AttestInv, MultipliedOnce, Of
<1>1. \A m \in Of(r) : /\ nonces[m.nonce].hk = RunOwner[r]
                       /\ nonces[m.nonce].ch = RunInstance[r]
  BY DEF AttestBook, Of, Bound
<1>2. CASE ~attested[r]
  <2>1. Of(r) = {} /\ multiplied[r] = 0
    BY <1>2 DEF AttestBook
  <2>2. Cardinality({}) = 0
    BY FS_EmptySet
  <2>3. QED
    BY <1>1, <2>1, <2>2
<1>3. CASE attested[r]
  <2>1. PICK m : Of(r) = {m}
    BY <1>3 DEF AttestBook
  <2>2. Cardinality({m}) = 1
    BY FS_Singleton
  <2>3. QED
    BY <1>1, <1>3, <2>1, <2>2 DEF AttestBook
<1>4. QED
  BY <1>2, <1>3

LEMMA IssueKeeps ==
    ASSUME AttestBook, NEW hk \in Provers, NEW ch \in Instances, issue_nonce(hk, ch)
    PROVE  AttestBook'
<1> USE DEF AttestBook
<1>1. PICK k \in Nat : nonces \in [1..k -> Nonce]
  OBVIOUS
<1> DEFINE new == [hk |-> hk, ch |-> ch, used |-> FALSE, expires |-> attestTime]
<1>2. Cardinality(DOMAIN nonces) = k
  <2>1. Cardinality(1..k) = k
    BY FS_Interval
  <2>2. QED
    BY <1>1, <2>1
<1>3. nonces' = [i \in 1..(k + 1) |-> IF i = k + 1 THEN new ELSE nonces[i]]
  BY <1>2 DEF issue_nonce
<1>4. UNCHANGED <<multiplied, attested, attestations, solvers, verifying, attestTime>>
  BY DEF issue_nonce
<1>5. new \in Nonce
  BY DEF Nonce
<1> HIDE DEF new
<1>6. nonces' \in [1..(k + 1) -> Nonce] /\ k + 1 \in Nat
  <2>1. \A i \in 1..(k + 1) : i = k + 1 \/ i \in 1..k
    OBVIOUS
  <2>2. QED
    BY <1>1, <1>3, <1>5, <2>1
<1>7. \A i \in DOMAIN nonces : i \in DOMAIN nonces' /\ nonces'[i] = nonces[i]
  BY <1>1, <1>3
<1>8. \A m : Bound(m, nonces) => Bound(m, nonces')
  BY <1>7 DEF Bound
<1>9. QED
  BY <1>4, <1>6, <1>8 DEF AttestTypeOK, Of

LEMMA VerifyAttestationKeeps ==
    ASSUME AttestBook, NEW v \in AttestWorkers, NEW m \in AttestPayload, verify_attestation(v, m)
    PROVE  AttestBook'
<1> USE DEF AttestBook
<1>1. /\ verifying' = [verifying EXCEPT ![v] = m]
      /\ UNCHANGED <<nonces, multiplied, attested, attestations, solvers, attestTime>>
  BY DEF verify_attestation
<1>2. Bound(m, nonces)
  BY DEF verify_attestation, eval_run_matches, nonce_matches, Bound
<1>3. /\ verifying' \in [AttestWorkers -> AttestPayload \cup {NONE}] /\ verifying'[v] = m
      /\ \A u \in AttestWorkers \ {v} : verifying'[u] = verifying[u]
  BY <1>1
<1>4. QED
  BY <1>1, <1>2, <1>3 DEF AttestTypeOK, Of

\* The upgrade tests the row's flag in the transaction that multiplies its
\* score, whatever it was when the payload was checked.
LEMMA UpgradeKeeps ==
    ASSUME AttestBook, NEW v \in AttestWorkers, upgrade(v)
    PROVE  AttestBook'
<1> USE DEF AttestBook
<1>0. PICK m : m = verifying[v]
  OBVIOUS
<1>1. m # NONE /\ m \in AttestPayload /\ Bound(m, nonces) /\ m.run \in EvalRuns
  BY <1>0 DEF upgrade, AttestPayload
<1>2. /\ verifying' = [verifying EXCEPT ![v] = NONE] /\ UNCHANGED <<solvers, attestTime>>
  BY DEF upgrade
<1>3. /\ verifying' \in [AttestWorkers -> AttestPayload \cup {NONE}]
      /\ \A u \in AttestWorkers : verifying'[u] \in {verifying[u], NONE}
  BY <1>2
<1>4. CASE attested[m.run]
  <2>1. UNCHANGED <<nonces, multiplied, attested, attestations>>
    BY <1>0, <1>4 DEF upgrade, upgrade_guard
  <2>2. QED
    BY <1>2, <1>3, <2>1 DEF AttestTypeOK, Of
<1>5. CASE ~attested[m.run]
  <2>1. /\ multiplied' = [multiplied EXCEPT ![m.run] = @ + 1]
        /\ attested' = [attested EXCEPT ![m.run] = TRUE]
        /\ nonces' = [nonces EXCEPT ![m.nonce].used = TRUE]
        /\ attestations' = attestations \cup {m}
    BY <1>0, <1>5 DEF upgrade, upgrade_guard
  <2>2. PICK k \in Nat : nonces \in [1..k -> Nonce]
    OBVIOUS
  <2> DEFINE spent == [nonces[m.nonce] EXCEPT !.used = TRUE]
  <2>3. nonces[m.nonce] \in Nonce /\ m.nonce \in 1..k
    BY <1>1, <2>2 DEF Bound
  <2>4. spent \in Nonce /\ spent.hk = nonces[m.nonce].hk /\ spent.ch = nonces[m.nonce].ch
    BY <2>3 DEF Nonce
  <2>5. nonces' = [nonces EXCEPT ![m.nonce] = spent]
    BY <2>1
  <2> HIDE DEF spent
  <2>6. /\ nonces' \in [1..k -> Nonce] /\ nonces'[m.nonce] = spent
        /\ \A i \in 1..k : i # m.nonce => nonces'[i] = nonces[i]
    BY <2>2, <2>3, <2>4, <2>5
  <2>7. \A x : Bound(x, nonces) => Bound(x, nonces')
    BY <2>2, <2>4, <2>6 DEF Bound
  <2>8. /\ multiplied' \in [EvalRuns -> Nat] /\ attested' \in [EvalRuns -> BOOLEAN]
        /\ multiplied'[m.run] = 1 /\ attested'[m.run]
        /\ \A r \in EvalRuns \ {m.run} : /\ multiplied'[r] = multiplied[r]
                                         /\ attested'[r] = attested[r]
    <3>1. multiplied[m.run] = 0
      BY <1>1, <1>5
    <3>2. /\ multiplied' \in [EvalRuns -> Nat] /\ multiplied'[m.run] = 1
          /\ \A r \in EvalRuns \ {m.run} : multiplied'[r] = multiplied[r]
      BY <1>1, <2>1, <3>1
    <3>3. /\ attested' \in [EvalRuns -> BOOLEAN] /\ attested'[m.run]
          /\ \A r \in EvalRuns \ {m.run} : attested'[r] = attested[r]
      BY <1>1, <2>1
    <3>4. QED
      BY <3>2, <3>3
  <2>9. /\ Of(m.run)' = {m}
        /\ \A r \in EvalRuns \ {m.run} : Of(r)' = Of(r)
    <3>1. Of(m.run) = {}
      BY <1>1, <1>5
    <3>2. Of(m.run)' = {x \in attestations \cup {m} : x.run = m.run}
      BY <1>2, <2>1 DEF Of
    <3>3. {x \in attestations \cup {m} : x.run = m.run} = Of(m.run) \cup {m}
      BY DEF Of
    <3>4. ASSUME NEW r \in EvalRuns \ {m.run} PROVE Of(r)' = Of(r)
      BY <2>1 DEF Of
    <3>5. QED
      BY <3>1, <3>2, <3>3, <3>4
  <2>10. \A r \in EvalRuns : /\ ~attested'[r] => Of(r)' = {} /\ multiplied'[r] = 0
                             /\ attested'[r] => multiplied'[r] = 1 /\ \E x : Of(r)' = {x}
    <3> SUFFICES ASSUME NEW r \in EvalRuns
                 PROVE  /\ ~attested'[r] => Of(r)' = {} /\ multiplied'[r] = 0
                        /\ attested'[r] => multiplied'[r] = 1 /\ \E x : Of(r)' = {x}
      OBVIOUS
    <3>1. CASE r = m.run
      BY <2>8, <2>9, <3>1
    <3>2. CASE r # m.run
      <4>1. multiplied'[r] = multiplied[r] /\ attested'[r] = attested[r] /\ Of(r)' = Of(r)
        BY <2>8, <2>9, <3>2
      <4>2. /\ ~attested[r] => Of(r) = {} /\ multiplied[r] = 0
            /\ attested[r] => multiplied[r] = 1 /\ \E x : Of(r) = {x}
        OBVIOUS
      <4>3. QED
        BY <4>1, <4>2, Zenon
    <3>3. QED
      BY <3>1, <3>2
  <2>11. \A x \in attestations' : Bound(x, nonces') /\ x \in AttestPayload
    BY <1>1, <2>1, <2>7 DEF AttestTypeOK
  <2>12. \A u \in AttestWorkers : verifying'[u] # NONE => Bound(verifying'[u], nonces')
    BY <1>3, <2>7
  <2>13. QED
    BY <1>2, <1>3, <2>6, <2>8, <2>10, <2>11, <2>12 DEF AttestTypeOK
<1>6. QED
  BY <1>4, <1>5

\* Attestation, for any number of processes, rows, nonces and solvers: a row's
\* score is multiplied at most once, and only by an attestation of its own
\* miner and challenge (verify_attestation, _upgrade).
THEOREM AttestSafe == AttestSpec => []AttestInv
<1>1. AttestInit => AttestBook
  <2> SUFFICES ASSUME AttestInit PROVE AttestBook
    OBVIOUS
  <2>1. nonces \in [1..0 -> Nonce]
    BY DEF AttestInit
  <2>2. /\ \A v \in AttestWorkers : verifying[v] = NONE
        /\ verifying \in [AttestWorkers -> AttestPayload \cup {NONE}]
        /\ attestations = {} /\ attestTime \in Nat
        /\ multiplied \in [EvalRuns -> Nat] /\ attested \in [EvalRuns -> BOOLEAN]
        /\ \A r \in EvalRuns : multiplied[r] = 0 /\ attested[r] = FALSE
    BY DEF AttestInit
  <2>3. QED
    BY <2>1, <2>2 DEF AttestBook, AttestTypeOK, Of
<1>2. ASSUME AttestBook, [AttestNext]_attestVars PROVE AttestBook'
  <2>1. CASE UNCHANGED attestVars
    BY <1>2, <2>1 DEF attestVars, AttestBook, AttestTypeOK, Of
  <2>2. CASE AttestTick \/ \E hk \in Provers, d \in Digests : register_solver(hk, d)
    <3>1. /\ UNCHANGED <<nonces, multiplied, attested, attestations, verifying>>
          /\ attestTime' \in Nat
      BY <1>2, <2>2 DEF AttestTick, register_solver, AttestBook
    <3>2. QED
      BY <1>2, <3>1 DEF AttestBook, AttestTypeOK, Of
  <2>3. CASE AttestNext
    BY <1>2, <2>2, <2>3, IssueKeeps, VerifyAttestationKeeps, UpgradeKeeps DEF AttestNext
  <2>4. QED
    BY <1>2, <2>1, <2>3
<1>3. QED
  BY <1>1, <1>2, BookGivesInv, PTL DEF AttestSpec

----------------------------------------------------------------------------
(* The singleton lock                                                       *)

LockInv == LockTypeOK /\ LoopHoldsLock /\ HolderLooksAlive

Places == {"waiting", "pause", "batch", "draining", "dead"}

\* The constants are natural numbers and ages have room for the limit.
LEMMA ConstantsNat == StealIdleSecs \in Nat /\ MaxDeaths \in Nat
BY LockConstants

\* An age stays an age, and of two ages the older stays the older.
LEMMA OlderAge ==
    ASSUME NEW a \in Ages, NEW b \in Ages
    PROVE  /\ Older(a) \in Ages
           /\ a <= b => Older(a) <= Older(b)
BY ConstantsNat DEF Older, Ages

\* Moving process p changes where it is and leaves the others where they are.
LEMMA GotoFacts ==
    ASSUME LockTypeOK, NEW p \in Processes, NEW w \in Places, Goto(p, w)
    PROVE  /\ up' \in [Processes -> Places]
           /\ up'[p] = w
           /\ \A q \in Processes \ {p} : up'[q] = up[q]
BY DEF Goto, LockTypeOK, Places

\* Setting the silence of process p leaves that of the others.
LEMMA QuietFacts ==
    ASSUME LockTypeOK, NEW p \in Processes, Quiet(p, 0)
    PROVE  /\ quiet' \in [Processes -> Ages]
           /\ quiet'[p] = 0
           /\ \A q \in Processes \ {p} : quiet'[q] = quiet[q]
BY ConstantsNat DEF Quiet, LockTypeOK, Ages

\* The invariant holds at the start.
LEMMA LockInvInit == LockInit => LockInv
BY ConstantsNat DEF LockInit, LockInv, LockTypeOK, Ages, LoopHoldsLock,
                    HolderLooksAlive, InLoop

\* A holder whose lock is taken over is not in its loop, or is overdue.
LEMMA StolenWasOverdue ==
    ASSUME LockInv, NEW p \in Processes, steal_stale_advisory_lock(p)
    PROVE  \A q \in Processes : InLoop(q) /\ holder = q => q \in lost'
<1> SUFFICES ASSUME NEW q \in Processes, InLoop(q), holder = q
             PROVE  q \in lost'
  OBVIOUS
<1>1. /\ idle > StealIdleSecs /\ beat > StealIdleSecs
      /\ lost' = lost \cup {r \in {holder} : Overdue(r)}
  BY DEF steal_stale_advisory_lock
<1>2. idle <= quiet[q] \/ beat <= quiet[q]
  BY DEF LockInv, HolderLooksAlive
<1>3. idle \in Nat /\ beat \in Nat /\ quiet[q] \in Nat
  BY ConstantsNat DEF LockInv, LockTypeOK, Ages
<1>4. Overdue(q)
  BY <1>1, <1>2, <1>3, ConstantsNat DEF Overdue
<1>5. QED
  BY <1>1, <1>4

\* Time keeps the invariant: idle, beat and the silence age together.
LEMMA ClockKeeps ==
    ASSUME LockInv, Clock
    PROVE  LockInv'
<1>t. LockTypeOK /\ LoopHoldsLock /\ HolderLooksAlive
  BY DEF LockInv
<1>1. /\ idle' = Older(idle) /\ beat' = Older(beat)
      /\ quiet' = [q \in Processes |-> IF InLoop(q) THEN Older(quiet[q]) ELSE 0]
      /\ holder' = holder /\ up' = up /\ deaths' = deaths /\ lost' = lost
  BY DEF Clock
<1>2. idle \in Ages /\ beat \in Ages /\ \A q \in Processes : quiet[q] \in Ages
  BY <1>t DEF LockTypeOK
<1>3. 0 \in Ages
  BY ConstantsNat DEF Ages
<1>4. idle' \in Ages /\ beat' \in Ages /\ quiet' \in [Processes -> Ages]
  BY <1>1, <1>2, <1>3, OlderAge
<1>5. LockTypeOK'
  BY <1>1, <1>4, <1>t DEF LockTypeOK
<1>6. LoopHoldsLock'
  BY <1>1, <1>t DEF LoopHoldsLock, InLoop
<1>7. ASSUME NEW q \in Processes, InLoop(q)', holder' = q
      PROVE  idle' <= quiet'[q] \/ beat' <= quiet'[q]
  <2>1. InLoop(q) /\ holder = q
    BY <1>1, <1>7 DEF InLoop
  <2>2. idle <= quiet[q] \/ beat <= quiet[q]
    BY <2>1, <1>t DEF HolderLooksAlive
  <2>3. quiet'[q] = Older(quiet[q])
    BY <1>1, <2>1
  <2>4. QED
    BY <2>2, <2>3, <1>1, <1>2, OlderAge
<1>8. QED
  BY <1>5, <1>6, <1>7 DEF LockInv, HolderLooksAlive

\* Every step of the lock protocol keeps the invariant.
LEMMA LockInvStep ==
    ASSUME LockInv, [LockNext]_lockVars
    PROVE  LockInv'
<1>t. LockTypeOK /\ LoopHoldsLock /\ HolderLooksAlive
  BY DEF LockInv
<1>1. CASE UNCHANGED lockVars
  BY <1>1, <1>t DEF lockVars, LockInv, LockTypeOK, LoopHoldsLock,
                    HolderLooksAlive, InLoop
<1>2. CASE Clock
  BY <1>2, ClockKeeps
<1>3. ASSUME NEW p \in Processes, advisory_lock(p) PROVE LockInv'
  <2>1. /\ holder = NONE /\ holder' = p /\ idle' = 0 /\ beat' = beat
        /\ deaths' = deaths /\ lost' = lost /\ Goto(p, "pause") /\ Quiet(p, 0)
    BY <1>3 DEF advisory_lock
  <2>2. LockTypeOK'
    BY <2>1, <1>t, GotoFacts, QuietFacts, ConstantsNat DEF LockTypeOK, Ages, Places
  <2>3. \A q \in Processes \ {p} : InLoop(q)' => q \in lost'
    BY <2>1, <1>t, GotoFacts, LockConstants DEF InLoop, LoopHoldsLock, Places
  <2>4. quiet'[p] = 0
    BY <2>1, <1>t, QuietFacts
  <2>5. QED
    BY <2>1, <2>2, <2>3, <2>4 DEF LockInv, LoopHoldsLock, HolderLooksAlive
<1>4. ASSUME NEW p \in Processes, steal_stale_advisory_lock(p) PROVE LockInv'
  <2>1. /\ holder' = NONE /\ idle' = idle /\ beat' = beat /\ up' = up
        /\ deaths' = deaths /\ quiet' = quiet
        /\ lost' = lost \cup {r \in {holder} : Overdue(r)}
        /\ holder # NONE
    BY <1>4 DEF steal_stale_advisory_lock, FreeLock
  <2>2. LockTypeOK'
    BY <2>1, <1>t DEF LockTypeOK
  <2>3. LoopHoldsLock'
    BY <2>1, <1>4, <1>t, StolenWasOverdue DEF LoopHoldsLock, InLoop
  <2>4. HolderLooksAlive'
    BY <2>1, LockConstants DEF HolderLooksAlive
  <2>5. QED
    BY <2>2, <2>3, <2>4 DEF LockInv
<1>5. ASSUME NEW p \in Processes, write_v2_worker_heartbeat(p) PROVE LockInv'
  <2>1. /\ up[p] = "pause" /\ holder' = holder /\ idle' = idle
        /\ deaths' = deaths /\ lost' = lost /\ Goto(p, "batch")
    BY <1>5 DEF write_v2_worker_heartbeat
  <2>2. /\ up' \in [Processes -> Places] /\ up'[p] = "batch"
        /\ \A q \in Processes \ {p} : up'[q] = up[q]
    BY <2>1, <1>t, GotoFacts DEF Places
  <2>3. LoopHoldsLock'
    BY <2>1, <2>2, <1>t DEF LoopHoldsLock, InLoop
  <2>4. CASE beat' = 0 /\ Quiet(p, 0)
    <3>1. /\ quiet' \in [Processes -> Ages] /\ 0 \in Ages
          /\ \A q \in Processes : 0 <= quiet'[q]
      BY <2>4, <1>t, QuietFacts, ConstantsNat DEF Ages
    <3>2. LockTypeOK'
      BY <2>1, <2>2, <2>4, <3>1, <1>t DEF LockTypeOK, Places
    <3>3. QED
      BY <2>3, <2>4, <3>1, <3>2 DEF LockInv, HolderLooksAlive
  <2>5. CASE UNCHANGED <<beat, quiet>>
    <3>1. LockTypeOK'
      BY <2>1, <2>2, <2>5, <1>t DEF LockTypeOK, Places
    <3>2. HolderLooksAlive'
      BY <2>1, <2>2, <2>5, <1>t DEF HolderLooksAlive, InLoop
    <3>3. QED
      BY <2>3, <3>1, <3>2 DEF LockInv
  <2>6. QED
    BY <1>5, <2>4, <2>5 DEF write_v2_worker_heartbeat
<1>6. ASSUME NEW p \in Processes, BatchEnds(p) PROVE LockInv'
  <2>1. /\ up[p] = "batch" /\ holder' = holder /\ idle' = idle /\ beat' = beat
        /\ deaths' = deaths /\ quiet' = quiet /\ lost' = lost /\ Goto(p, "pause")
    BY <1>6 DEF BatchEnds
  <2>2. /\ up' \in [Processes -> Places] /\ up'[p] = "pause"
        /\ \A q \in Processes \ {p} : up'[q] = up[q]
    BY <2>1, <1>t, GotoFacts DEF Places
  <2>3. LockTypeOK'
    BY <2>1, <2>2, <1>t DEF LockTypeOK, Places
  <2>4. QED
    BY <2>1, <2>2, <2>3, <1>t DEF LockInv, LoopHoldsLock, HolderLooksAlive, InLoop
<1>7. ASSUME NEW p \in Processes, Shutdown(p) \/ Die(p) PROVE LockInv'
  <2>1. PICK w \in {"draining", "dead"} :
           /\ holder' \in {holder, NONE} /\ (holder # p => holder' = holder)
           /\ idle' = idle /\ beat' = beat /\ deaths' = deaths + 1
           /\ deaths < MaxDeaths /\ LeaveLoop(p, w)
    BY <1>7 DEF Shutdown, Die
  <2>2. Goto(p, w) /\ Quiet(p, 0) /\ lost' = lost \ {p}
    BY <2>1 DEF LeaveLoop
  <2>3. /\ up' \in [Processes -> Places] /\ up'[p] = w
        /\ \A q \in Processes \ {p} : up'[q] = up[q]
    BY <2>2, <1>t, GotoFacts DEF Places
  <2>4. /\ quiet' \in [Processes -> Ages]
        /\ \A q \in Processes \ {p} : quiet'[q] = quiet[q]
    BY <2>2, <1>t, QuietFacts
  <2>5. LockTypeOK'
    BY <2>1, <2>2, <2>3, <2>4, <1>t, ConstantsNat DEF LockTypeOK, Places
  <2>6. ~InLoop(p)'
    BY <2>3 DEF InLoop
  <2>7. QED
    <3>1. LoopHoldsLock'
      BY <2>1, <2>2, <2>3, <2>6, <1>t DEF LoopHoldsLock, InLoop
    <3>2. HolderLooksAlive'
      BY <2>1, <2>3, <2>4, <2>6, <1>t, LockConstants DEF HolderLooksAlive, InLoop
    <3>3. QED
      BY <2>5, <3>1, <3>2 DEF LockInv
<1>8. ASSUME NEW p \in Processes, SessionEnds(p) PROVE LockInv'
  <2>1. /\ holder = p /\ up[p] = "dead" /\ holder' = NONE
        /\ UNCHANGED <<idle, beat, up, deaths, quiet, lost>>
    BY <1>8 DEF SessionEnds, FreeLock
  <2>2. LockTypeOK'
    BY <2>1, <1>t DEF LockTypeOK
  <2>3. LoopHoldsLock'
    BY <2>1, <1>t DEF LoopHoldsLock, InLoop
  <2>4. HolderLooksAlive'
    BY <2>1, LockConstants DEF HolderLooksAlive
  <2>5. QED
    BY <2>2, <2>3, <2>4 DEF LockInv
<1>9. ASSUME NEW p \in Processes, SessionCut(p) PROVE LockInv'
  <2>1. /\ holder = p /\ holder' = NONE /\ lost' = lost \cup {p}
        /\ deaths < MaxDeaths /\ deaths' = deaths + 1
        /\ UNCHANGED <<idle, beat, up, quiet>>
    BY <1>9 DEF SessionCut
  <2>2. LockTypeOK'
    BY <2>1, <1>t, ConstantsNat DEF LockTypeOK
  <2>3. QED
    BY <2>1, <2>2, <1>t, LockConstants
       DEF LockInv, LoopHoldsLock, HolderLooksAlive, InLoop
<1>10. ASSUME NEW p \in Processes, ThreadEnds(p) \/ Restart(p) PROVE LockInv'
  <2>1. PICK w \in {"waiting", "dead"} :
           /\ Goto(p, w) /\ UNCHANGED <<holder, idle, beat, deaths, quiet, lost>>
    BY <1>10 DEF ThreadEnds, Restart
  <2>2. /\ up' \in [Processes -> Places] /\ up'[p] = w
        /\ \A q \in Processes \ {p} : up'[q] = up[q]
    BY <2>1, <1>t, GotoFacts DEF Places
  <2>3. LockTypeOK'
    BY <2>1, <2>2, <1>t DEF LockTypeOK, Places
  <2>4. QED
    BY <2>1, <2>2, <2>3, <1>t DEF LockInv, LoopHoldsLock, HolderLooksAlive, InLoop
<1>11. QED
  BY <1>1, <1>2, <1>3, <1>4, <1>5, <1>6, <1>7, <1>8, <1>9, <1>10
     DEF LockNext, LoopStep

\* However long a batch is and whichever heartbeat writes fail, two processes
\* work at once only by one of the three exceptions OneLoop names: a holder that
\* was heard of within StealIdleSecs keeps its lock (advisory_lock,
\* steal_stale_advisory_lock).
THEOREM OneLoopAlways == LockSpec => []OneLoop
<1>1. LockInit => LockInv
  BY LockInvInit
<1>2. LockInv /\ [LockNext]_lockVars => LockInv'
  BY LockInvStep
<1>3. LockInv => OneLoop
  BY DEF LockInv, LoopHoldsLock, OneLoop, Working
<1>4. QED
  BY <1>1, <1>2, <1>3, PTL DEF LockSpec
=============================================================================
