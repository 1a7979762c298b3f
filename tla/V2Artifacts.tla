----------------------------- MODULE V2Artifacts -----------------------------
(***************************************************************************)
(* Publication of V2 CNF bytes as immutable content-addressed objects, and *)
(* the two signed routes that hand a miner its challenge.                  *)
(*                                                                         *)
(* Source: epoch_publisher.py, run_epoch_publish.py, cnf_store.py (object  *)
(* put and get) and the cnf-access and cnf routes of app.py.  A challenge  *)
(* is <<identity, epoch>>: one item per identity and epoch, as tiers and   *)
(* sequence numbers only multiply the items.  Its bytes, and their hash,   *)
(* are the challenge itself, or foreign.  The bucket is external.           *)
(***************************************************************************)
EXTENDS Absent, Naturals, FiniteSets, Sequences

CONSTANTS
    EpochPublishers,  \* operators' runs of run_epoch_publish
    IdentityLists,    \* sorted identity lists a run may publish for
    ArtifactBases,    \* CATHEDRAL_V2_CNF_ARTIFACT_BASE_URL of a run
    MinerHotkeys,     \* hotkeys that ask for a challenge
    LastEpoch,        \* bound on the epoch clock
    MaxBucketFaults,  \* bound on lost and failing bucket calls
    MaxGrants,        \* bound on remembered answers
    MaxRemaps         \* bound on coldkey changes of a hotkey

Identities == UNION {{l[i] : i \in DOMAIN l} : l \in IdentityLists}

ASSUME ArtifactAssumption ==
    /\ LastEpoch \in Nat \ {0} /\ MaxRemaps \in Nat /\ MaxBucketFaults \in Nat
    /\ \A l \in IdentityLists : l \in Seq(Identities) /\ Len(l) > 0

VARIABLES
    bucket,      \* object key -> bytes
    catalog,     \* v2_cnf_artifacts: challenge -> [sha, url]
    readiness,   \* v2_cnf_epoch_readiness: epoch -> [expected, current, next, ready, ids]
    cnfRows,     \* v2_cnf_store: challenges whose text is kept
    runs,        \* publisher -> [pc, epoch, ids, base, done, verified]
    identity,    \* hotkey -> assignment identity (coldkey collapse)
    epoch,       \* per_miner.current_epoch
    granted,     \* answered: [hk, owner, cid, sha, url, route]
    remaps,
    bucketFaults

artifactVars == <<bucket, catalog, readiness, cnfRows, runs, identity, epoch, granted,
                  remaps, bucketFaults>>

ForeignBytes == <<NONE, 0>>
Stopped == [pc |-> "stopped", epoch |-> 0, ids |-> << >>, base |-> NONE, done |-> 0, verified |-> {}]
Put(f, k, v) == [x \in DOMAIN f \cup {k} |-> IF x = k THEN v ELSE f[x]]

-----------------------------------------------------------------------------
(* The publisher.  Items are taken epoch by epoch, identity by identity.   *)
Total(p) == 2 * Len(runs[p].ids)
Item(p) ==
    LET n == Len(runs[p].ids)
    IN  IF runs[p].done < n THEN <<runs[p].ids[runs[p].done + 1], runs[p].epoch>>
        ELSE <<runs[p].ids[runs[p].done - n + 1], runs[p].epoch + 1>>
PublishedIn(p, k) ==
    LET n == Len(runs[p].ids)
    IN  IF k = 0 THEN IF runs[p].done < n THEN runs[p].done ELSE n
        ELSE IF runs[p].done < n THEN 0 ELSE runs[p].done - n

write_readiness(p, ready) ==
    readiness' = Put(readiness, runs[p].epoch,
                     [expected |-> Len(runs[p].ids), current |-> PublishedIn(p, 0),
                      next |-> PublishedIn(p, 1), ready |-> ready, ids |-> runs[p].ids])

To(p, pc) == runs' = [runs EXCEPT ![p].pc = pc]

(* main(): identities and base are read once; the readiness row is reset.  *)
StartPublish(p, l, b, e) ==
    /\ runs[p].pc = "stopped" /\ e \in 1..epoch
    /\ runs' = [runs EXCEPT ![p] = [pc |-> "item", epoch |-> e, ids |-> l, base |-> b, done |-> 0, verified |-> {}]]
    /\ readiness' = Put(readiness, e, [expected |-> Len(l), current |-> 0, next |-> 0,
                                       ready |-> FALSE, ids |-> l])
    /\ UNCHANGED <<bucket, catalog, cnfRows, identity, epoch, granted, remaps, bucketFaults>>

verify_artifact_bytes(body, c) == body = c

(* An object that is already there is verified, never overwritten.         *)
read_existing(p) ==
    /\ runs[p].pc = "item" /\ runs[p].done < Total(p)
    /\ LET c == Item(p)
       IN  IF c \in runs[p].verified THEN To(p, "register")
           ELSE IF c \notin DOMAIN bucket THEN To(p, "put")
           ELSE IF verify_artifact_bytes(bucket[c], c)
                THEN runs' = [runs EXCEPT ![p].pc = "register", ![p].verified = @ \cup {c}]
           ELSE To(p, "failed")
    /\ UNCHANGED <<bucket, catalog, readiness, cnfRows, identity, epoch, granted, remaps, bucketFaults>>

(* put_object: a put replaces the whole object or nothing, but the bucket  *)
(* may acknowledge what it lost, or raise before or after storing.         *)
put_immutable_object(p, how) ==
    /\ runs[p].pc = "put"
    /\ how # "stored" => bucketFaults < MaxBucketFaults
    /\ bucketFaults' = IF how = "stored" THEN bucketFaults ELSE bucketFaults + 1
    /\ bucket' = IF how \in {"stored", "answer_lost"} THEN Put(bucket, Item(p), Item(p)) ELSE bucket
    /\ To(p, IF how \in {"raises", "answer_lost"} THEN "failed" ELSE "readback")
    /\ UNCHANGED <<catalog, readiness, cnfRows, identity, epoch, granted, remaps>>

(* Mutant: the put's acknowledgement is taken for the object.              *)
readback_ok_skipped(c) == TRUE

readback_ok(c) == c \in DOMAIN bucket /\ verify_artifact_bytes(bucket[c], c)

publish_verified_object(p) ==
    /\ runs[p].pc = "readback"
    /\ IF readback_ok(Item(p))
       THEN runs' = [runs EXCEPT ![p].pc = "register", ![p].verified = @ \cup {Item(p)}]
       ELSE To(p, "failed")
    /\ UNCHANGED <<bucket, catalog, readiness, cnfRows, identity, epoch, granted, remaps, bucketFaults>>

(* INSERT OR IGNORE, then the row that is there must be the one meant.     *)
register_artifact(p) ==
    /\ runs[p].pc = "register"
    /\ LET c == Item(p)
           row == [sha |-> c, url |-> <<runs[p].base, c>>]
       IN  /\ catalog' = IF c \in DOMAIN catalog THEN catalog ELSE Put(catalog, c, row)
           /\ To(p, IF catalog'[c] = row THEN "keep" ELSE "failed")
    /\ UNCHANGED <<bucket, readiness, cnfRows, identity, epoch, granted, remaps, bucketFaults>>

(* The database copy is best effort; the item is counted either way.       *)
KeepText(p, kept) ==
    /\ runs[p].pc = "keep"
    /\ cnfRows' = IF kept THEN cnfRows \cup {Item(p)} ELSE cnfRows
    /\ runs' = [runs EXCEPT ![p].pc = "item", ![p].done = @ + 1]
    /\ UNCHANGED <<bucket, catalog, readiness, identity, epoch, granted, remaps, bucketFaults>>

(* The last write of the run: ready, or the exact progress of a failure.   *)
prepublish_epoch_pair(p) ==
    /\ \/ runs[p].pc = "item" /\ runs[p].done = Total(p) /\ write_readiness(p, TRUE)
       \/ runs[p].pc = "failed" /\ write_readiness(p, FALSE)
    /\ runs' = [runs EXCEPT ![p] = Stopped]
    /\ UNCHANGED <<bucket, catalog, cnfRows, identity, epoch, granted, remaps, bucketFaults>>

(* A run killed between two steps leaves what it wrote.                    *)
PublisherDies(p) ==
    /\ runs[p].pc # "stopped"
    /\ runs' = [runs EXCEPT ![p] = Stopped]
    /\ UNCHANGED <<bucket, catalog, readiness, cnfRows, identity, epoch, granted, remaps, bucketFaults>>

-----------------------------------------------------------------------------
(* The routes.                                                             *)
epoch_is_ready(e) ==
    /\ e \in DOMAIN readiness
    /\ readiness[e].ready /\ readiness[e].expected > 0
    /\ readiness[e].current = readiness[e].expected /\ readiness[e].next = readiness[e].expected

(* Mutant: the challenge's own identity is trusted.                        *)
authorize_v2_cnf_access_any(h, c) == c[2] \in {epoch, epoch - 1}

(* The current and the previous epoch, and only the caller's own set.      *)
authorize_v2_cnf_access(h, c) ==
    /\ c[2] \in {epoch, epoch - 1}
    /\ c[1] = identity[h]

artifact_for_v2_cnf_context(c) == IF c \in DOMAIN catalog THEN catalog[c] ELSE NONE

Grant(h, c, sha, url, route) ==
    /\ Cardinality(granted) < MaxGrants
    /\ granted' = granted \cup {[hk |-> h, owner |-> identity[h], cid |-> c, sha |-> sha,
                                 url |-> url, route |-> route]}

(* The metadata route: a ready epoch and a catalogued artifact, or 503.    *)
v2_per_miner_cnf_access(h, c) ==
    /\ authorize_v2_cnf_access(h, c)
    /\ epoch_is_ready(c[2])
    /\ artifact_for_v2_cnf_context(c) # NONE
    /\ Grant(h, c, catalog[c].sha, catalog[c].url, "access")
    /\ UNCHANGED <<bucket, catalog, readiness, cnfRows, runs, identity, epoch, remaps, bucketFaults>>

(* The body route: the kept text, or a generated one that is kept too.     *)
v2_per_miner_cnf(h, c) ==
    /\ authorize_v2_cnf_access(h, c)
    /\ cnfRows' \in {cnfRows, cnfRows \cup {c}}
    /\ c \in cnfRows => cnfRows' = cnfRows
    /\ Grant(h, c, c, NONE, "body")
    /\ UNCHANGED <<bucket, catalog, readiness, runs, identity, epoch, remaps, bucketFaults>>

(* External: retention of kept texts, the epoch clock, the metagraph.      *)
PurgeTexts == /\ cnfRows # {} /\ cnfRows' = {}
              /\ UNCHANGED <<bucket, catalog, readiness, runs, identity, epoch, granted, remaps, bucketFaults>>

EpochPasses == /\ epoch < LastEpoch /\ epoch' = epoch + 1
               /\ UNCHANGED <<bucket, catalog, readiness, cnfRows, runs, identity, granted, remaps, bucketFaults>>

Remap(h, i) ==
    /\ remaps < MaxRemaps /\ i # identity[h]
    /\ identity' = [identity EXCEPT ![h] = i] /\ remaps' = remaps + 1
    /\ UNCHANGED <<bucket, catalog, readiness, cnfRows, runs, epoch, granted, bucketFaults>>

ArtifactInit ==
    /\ bucket \in {<< >>} \cup {Put(<< >>, <<i, 1>>, ForeignBytes) : i \in Identities}
    /\ catalog = << >> /\ readiness = << >> /\ cnfRows = {}
    /\ runs = [p \in EpochPublishers |-> Stopped]
    /\ identity = [h \in MinerHotkeys |-> CHOOSE i \in Identities : TRUE]
    /\ epoch = 1 /\ granted = {} /\ remaps = 0 /\ bucketFaults = 0

ArtifactNext ==
    \/ \E p \in EpochPublishers :
         \/ \E l \in IdentityLists, b \in ArtifactBases, e \in 1..LastEpoch : StartPublish(p, l, b, e)
         \/ \E how \in {"stored", "lost", "raises", "answer_lost"} : put_immutable_object(p, how)
         \/ \E kept \in BOOLEAN : KeepText(p, kept)
         \/ read_existing(p) \/ publish_verified_object(p) \/ register_artifact(p)
         \/ prepublish_epoch_pair(p) \/ PublisherDies(p)
    \/ \E h \in MinerHotkeys :
         \/ \E c \in Identities \X (1..LastEpoch) :
              v2_per_miner_cnf_access(h, c) \/ v2_per_miner_cnf(h, c)
         \/ \E i \in Identities : Remap(h, i)
    \/ PurgeTexts \/ EpochPasses
ArtifactSpec == ArtifactInit /\ [][ArtifactNext]_artifactVars

-----------------------------------------------------------------------------
(* Types of the publication state.                                         *)
ArtifactTypeOK ==
    /\ \A c \in DOMAIN bucket : bucket[c] \in {c, ForeignBytes}
    /\ \A e \in DOMAIN readiness : readiness[e].ready \in BOOLEAN
    /\ DOMAIN catalog \cup cnfRows \subseteq Identities \X (1..LastEpoch + 1)
    /\ epoch \in 1..LastEpoch /\ remaps \in 0..MaxRemaps /\ bucketFaults \in 0..MaxBucketFaults

(* A ready epoch is complete whatever was lost, killed or raced:           *)
(* for every identity of the run that marked it, the artifacts of the      *)
(* epoch and of its successor are catalogued and their objects hold the    *)
(* assigned bytes.                                                         *)
ReadyIsComplete ==
    \A e \in DOMAIN readiness : readiness[e].ready =>
       \A i \in DOMAIN readiness[e].ids : \A d \in {0, 1} :
          LET c == <<readiness[e].ids[i], e + d>>
          IN  c \in DOMAIN catalog /\ c \in DOMAIN bucket /\ bucket[c] = c

(* Whatever a miner was told stays true: the hash in its token is that of  *)
(* its own challenge, and the URL it was given still names those bytes.    *)
GrantedBytesExist ==
    \A g \in granted :
       /\ g.cid[1] = g.owner /\ g.sha = g.cid
       /\ g.route = "access" => /\ catalog[g.cid].url = g.url
                                /\ g.cid \in DOMAIN bucket /\ bucket[g.cid] = g.cid

(* Epoch artifacts: types, ready epochs are complete, granted bytes exist. *)
ArtifactInv == ArtifactTypeOK /\ ReadyIsComplete /\ GrantedBytesExist
=============================================================================
