--------------------------- MODULE PublisherProofs ---------------------------
(***************************************************************************)
(* Proofs about what the publisher keeps for others: the epoch artifacts a *)
(* miner is sent to, the GPU capacity an operator approved, the blobs a    *)
(* solution is scored from, what the solver arena pays, the UIDs that the  *)
(* weights it signs are sent to, and the caches it answers readers from.   *)
(* Any number of processes, any limits.                                    *)
(***************************************************************************)
EXTENDS V2Artifacts, TeeGpu, V2Blobs, SolverArena, UidMapping, ReadCaches,
        SetSums, SequenceTheorems

----------------------------------------------------------------------------
(* Epoch artifacts                                                          *)

\* The bucket holds the assigned bytes of a challenge; once so, always so.
Held(c) == c \in DOMAIN bucket /\ bucket[c] = c
Published(c) == c \in DOMAIN catalog /\ Held(c)

\* The k-th item of a run, of the twice Len(ids) it works through.
ItemOf(ids, e, k) ==
    IF k < Len(ids) THEN <<ids[k + 1], e>> ELSE <<ids[k - Len(ids) + 1], e + 1>>

Working == {"item", "put", "readback", "register", "keep", "failed"}
Mid == {"put", "readback", "register", "keep"}
RunFits(r) ==
    /\ r = [pc |-> r.pc, epoch |-> r.epoch, ids |-> r.ids, base |-> r.base,
            done |-> r.done, verified |-> r.verified]
    /\ r.pc \in Working \cup {"stopped"}
    /\ r.pc # "stopped" =>
          /\ r.ids \in IdentityLists /\ r.epoch \in 1..epoch
          /\ r.done \in 0..2 * Len(r.ids)
          /\ \A c \in r.verified : Held(c)
          /\ \A k \in 0..r.done - 1 : Published(ItemOf(r.ids, r.epoch, k))
    /\ r.pc \in Mid => r.done < 2 * Len(r.ids)
    /\ r.pc = "register" => Held(ItemOf(r.ids, r.epoch, r.done))
    /\ r.pc = "keep" => Published(ItemOf(r.ids, r.epoch, r.done))

CatalogFits == \A c \in DOMAIN catalog : Held(c) /\ catalog[c].sha = c
ReadyFits ==
    \A e \in DOMAIN readiness :
        /\ e \in Nat
        /\ readiness[e].ready => \A i \in DOMAIN readiness[e].ids : \A d \in {0, 1} :
                                     Published(<<readiness[e].ids[i], e + d>>)
GrantsFit ==
    \A g \in granted :
       /\ g.cid[1] = g.owner /\ g.sha = g.cid
       /\ g.route = "access" => g.cid \in DOMAIN catalog /\ catalog[g.cid].url = g.url

ArtifactIInv ==
    /\ ArtifactTypeOK
    /\ runs = [p \in EpochPublishers |-> runs[p]]
    /\ \A p \in EpochPublishers : RunFits(runs[p])
    /\ CatalogFits /\ ReadyFits /\ GrantsFit

\* A put or a registration takes nothing back that was held or catalogued.
Grows ==
    /\ \A c : Held(c) => Held(c)'
    /\ \A c \in DOMAIN catalog : c \in DOMAIN catalog' /\ catalog'[c] = catalog[c]
    /\ epoch' = epoch

LEMMA ItemFacts ==
  ASSUME NEW l \in IdentityLists, NEW e \in 1..LastEpoch, NEW k \in 0..2 * Len(l) - 1
  PROVE  ItemOf(l, e, k) \in Identities \X (1..LastEpoch + 1)
  <1>1. l \in Seq(Identities) /\ Len(l) \in Nat /\ LastEpoch \in Nat
    BY ArtifactAssumption
  <1>2. CASE k < Len(l)
    <2>1. l[k + 1] \in Identities
      BY <1>1, <1>2
    <2> QED
      BY <1>1, <1>2, <2>1 DEF ItemOf
  <1>3. CASE ~(k < Len(l))
    <2>1. l[k - Len(l) + 1] \in Identities
      BY <1>1, <1>3
    <2> QED
      BY <1>1, <1>3, <2>1 DEF ItemOf
  <1> QED
    BY <1>2, <1>3

LEMMA RunKept ==
  ASSUME NEW r, RunFits(r), Grows
  PROVE  RunFits(r)'
  <1>1. \A c : Published(c) => Published(c)'
    BY DEF Published, Grows
  <1>2. \A c : Held(c) => Held(c)'
    BY DEF Grows
  <1>3. epoch' = epoch
    BY DEF Grows
  <1> QED
    BY <1>1, <1>2, <1>3 DEF RunFits

\* The readiness and the grants of a step that publishes nothing.
LEMMA AnswersKept ==
  ASSUME ReadyFits, GrantsFit, Grows
  PROVE  /\ readiness' = readiness => ReadyFits'
         /\ granted' = granted => GrantsFit'
  <1>1. \A c : Published(c) => Published(c)'
    BY DEF Published, Grows
  <1>2. ASSUME readiness' = readiness PROVE ReadyFits'
    BY <1>1, <1>2 DEF ReadyFits
  <1>3. ASSUME granted' = granted PROVE GrantsFit'
    BY <1>3 DEF GrantsFit, Grows
  <1> QED
    BY <1>2, <1>3

\* A publisher's step: its run, and nothing of the other runs.
LEMMA PublisherStep ==
  ASSUME ArtifactIInv, NEW p \in EpochPublishers, NEW r, runs' = [runs EXCEPT ![p] = r],
         RunFits(r)', Grows
  PROVE  runs' = [q \in EpochPublishers |-> runs'[q]] /\ \A q \in EpochPublishers : RunFits(runs[q])'
  <1>1. runs' = [q \in EpochPublishers |-> runs'[q]] /\ runs'[p] = r
        /\ \A q \in EpochPublishers \ {p} : runs'[q] = runs[q]
    BY DEF ArtifactIInv
  <1>2. ASSUME NEW q \in EpochPublishers PROVE RunFits(runs[q])'
    <2>1. CASE q = p
      BY <1>1, <2>1 DEF RunFits
    <2>2. CASE q # p
      <3>1. PICK s : s = runs[q]
        OBVIOUS
      <3>2. RunFits(s) /\ runs'[q] = s
        BY <1>1, <2>2, <3>1 DEF ArtifactIInv
      <3>3. RunFits(s)'
        BY <3>2, RunKept
      <3> QED
        BY <3>2, <3>3 DEF RunFits
    <2> QED
      BY <2>1, <2>2
  <1> QED
    BY <1>1, <1>2

\* What every step of a publisher must leave behind.
LEMMA ArtifactsFit ==
  ASSUME ArtifactIInv, ArtifactTypeOK', NEW p \in EpochPublishers, NEW r,
         runs' = [runs EXCEPT ![p] = r], RunFits(r)', Grows, CatalogFits', ReadyFits',
         granted' = granted
  PROVE  ArtifactIInv'
  <1>1. GrantsFit'
    BY AnswersKept DEF ArtifactIInv
  <1>2. runs' = [q \in EpochPublishers |-> runs'[q]] /\ \A q \in EpochPublishers : RunFits(runs[q])'
    BY PublisherStep
  <1> QED
    BY <1>1, <1>2 DEF ArtifactIInv

\* The rows of the catalog stay right when the bucket only gains assigned bytes.
LEMMA CatalogKept ==
  ASSUME CatalogFits, Grows, catalog' = catalog
  PROVE  CatalogFits'
  BY DEF CatalogFits, Grows

LEMMA ArtifactBegins == ArtifactInit => ArtifactIInv
  <1> SUFFICES ASSUME ArtifactInit PROVE ArtifactIInv
    OBVIOUS
  <1>1. catalog = << >> /\ readiness = << >> /\ DOMAIN catalog = {} /\ DOMAIN readiness = {}
    BY DEF ArtifactInit
  <1>2. \A c \in DOMAIN bucket : bucket[c] \in {c, ForeignBytes}
    <2>1. CASE bucket = << >>
      BY <2>1
    <2>2. CASE \E i \in Identities : bucket = Put(<< >>, <<i, 1>>, ForeignBytes)
      BY <2>2 DEF Put
    <2> QED
      BY <2>1, <2>2 DEF ArtifactInit
  <1>3. ArtifactTypeOK
    BY <1>1, <1>2, ArtifactAssumption DEF ArtifactInit, ArtifactTypeOK
  <1>4. runs = [p \in EpochPublishers |-> runs[p]] /\ \A p \in EpochPublishers : RunFits(runs[p])
    BY DEF ArtifactInit, RunFits, Stopped, Working, Mid
  <1>5. CatalogFits /\ ReadyFits /\ GrantsFit
    BY <1>1 DEF ArtifactInit, CatalogFits, ReadyFits, GrantsFit
  <1> QED
    BY <1>3, <1>4, <1>5 DEF ArtifactIInv

LEMMA StartStep ==
  ASSUME ArtifactIInv, NEW p \in EpochPublishers, NEW l \in IdentityLists, NEW b, NEW e \in 1..LastEpoch,
         StartPublish(p, l, b, e)
  PROVE  ArtifactIInv'
  <1> DEFINE r == [pc |-> "item", epoch |-> e, ids |-> l, base |-> b, done |-> 0, verified |-> {}]
  <1>1. runs' = [runs EXCEPT ![p] = r] /\ e \in 1..epoch
    BY DEF StartPublish
  <1>2. PICK row : row.ready = FALSE /\ readiness' = Put(readiness, e, row)
    BY DEF StartPublish
  <1>3. UNCHANGED <<bucket, catalog, cnfRows, epoch, granted, remaps, bucketFaults>>
    BY DEF StartPublish
  <1>4. Grows /\ CatalogFits'
    BY <1>3, CatalogKept DEF Grows, Held, ArtifactIInv
  <1>5. ArtifactTypeOK'
    <2>1. \A x \in DOMAIN readiness' : readiness'[x].ready \in BOOLEAN
      BY <1>2 DEF ArtifactIInv, ArtifactTypeOK, Put
    <2> QED
      BY <1>3, <2>1 DEF ArtifactIInv, ArtifactTypeOK
  <1>6. ReadyFits'
    <2>0. /\ DOMAIN Put(readiness, e, row) = DOMAIN readiness \cup {e} /\ Put(readiness, e, row)[e] = row
          /\ \A x \in DOMAIN readiness \ {e} : Put(readiness, e, row)[x] = readiness[x]
      BY DEF Put
    <2>1. \A x \in DOMAIN readiness' : x = e \/ (x \in DOMAIN readiness /\ readiness'[x] = readiness[x])
      BY <1>2, <2>0
    <2>2. readiness'[e] = row /\ e \in Nat
      BY <1>2, <2>0, ArtifactAssumption
    <2> QED
      BY <1>2, <1>3, <2>1, <2>2 DEF ArtifactIInv, ReadyFits, Published, Held
  <1>7. RunFits(r)'
    <2>1. l \in Seq(Identities) /\ Len(l) \in Nat /\ epoch' = epoch
      BY <1>3, ArtifactAssumption
    <2> QED
      BY <1>1, <2>1 DEF RunFits, Working, Mid
  <1> HIDE DEF r
  <1> QED
    BY <1>1, <1>3, <1>4, <1>5, <1>6, <1>7, ArtifactsFit

\* The steps of a run that only move it on: what they rely on is in the bucket.
LEMMA LookStep ==
  ASSUME ArtifactIInv, NEW p \in EpochPublishers, read_existing(p) \/ publish_verified_object(p)
  PROVE  ArtifactIInv'
  <1> DEFINE r == runs[p]
             c == ItemOf(r.ids, r.epoch, r.done)
             Next(pc, seen) == [pc |-> pc, epoch |-> r.epoch, ids |-> r.ids, base |-> r.base,
                                done |-> r.done, verified |-> seen]
  <1>1. RunFits(r) /\ Item(p) = c
    BY DEF ArtifactIInv, Item, ItemOf
  <1>2. UNCHANGED <<bucket, catalog, readiness, cnfRows, epoch, granted, remaps, bucketFaults>>
    BY DEF read_existing, publish_verified_object
  <1>3. r.pc # "stopped" /\ r.done < 2 * Len(r.ids)
    BY <1>1 DEF read_existing, publish_verified_object, Total, RunFits, Mid
  <1>4. \/ \E pc \in {"put", "failed"} : runs' = [runs EXCEPT ![p].pc = pc]
        \/ c \in r.verified /\ runs' = [runs EXCEPT ![p].pc = "register"]
        \/ Held(c) /\ runs' = [runs EXCEPT ![p].pc = "register", ![p].verified = r.verified \cup {c}]
    BY <1>1 DEF read_existing, publish_verified_object, To, readback_ok, verify_artifact_bytes, Held
  <1>5. runs = [q \in EpochPublishers |-> runs[q]] /\ r = Next(r.pc, r.verified)
    BY <1>1 DEF ArtifactIInv, RunFits
  <1>6. \/ \E pc \in {"put", "failed"} : runs' = [runs EXCEPT ![p] = Next(pc, r.verified)]
        \/ c \in r.verified /\ runs' = [runs EXCEPT ![p] = Next("register", r.verified)]
        \/ Held(c) /\ runs' = [runs EXCEPT ![p] = Next("register", r.verified \cup {c})]
    <2>1. ASSUME NEW pc, runs' = [runs EXCEPT ![p].pc = pc]
          PROVE  runs' = [runs EXCEPT ![p] = Next(pc, r.verified)]
      <3>1. runs'[p] = Next(pc, r.verified)
        BY <1>5, <2>1
      <3>2. runs' = [q \in EpochPublishers |-> runs'[q]] /\ \A q \in EpochPublishers \ {p} : runs'[q] = runs[q]
        BY <1>5, <2>1
      <3> HIDE DEF Next
      <3> QED
        BY <1>5, <3>1, <3>2
    <2>2. ASSUME NEW seen, runs' = [runs EXCEPT ![p].pc = "register", ![p].verified = seen]
          PROVE  runs' = [runs EXCEPT ![p] = Next("register", seen)]
      <3>1. runs'[p] = Next("register", seen)
        BY <1>5, <2>2
      <3>2. runs' = [q \in EpochPublishers |-> runs'[q]] /\ \A q \in EpochPublishers \ {p} : runs'[q] = runs[q]
        BY <1>5, <2>2
      <3> HIDE DEF Next
      <3> QED
        BY <1>5, <3>1, <3>2
    <2> HIDE DEF Next
    <2> QED
      BY <1>4, <2>1, <2>2
  <1>7. PICK pc, seen :
           /\ pc \in {"put", "failed", "register"}
           /\ runs' = [runs EXCEPT ![p] = Next(pc, seen)]
           /\ \A x \in seen : Held(x)
           /\ pc = "register" => Held(c)
    <2>1. \A x \in r.verified : Held(x)
      BY <1>1, <1>3 DEF RunFits
    <2> HIDE DEF Next, r, c
    <2> QED
      BY <1>6, <2>1
  <1>8. Grows /\ CatalogFits' /\ ReadyFits' /\ ArtifactTypeOK'
    BY <1>2, CatalogKept, AnswersKept DEF Grows, Held, ArtifactIInv, ArtifactTypeOK
  <1>9. PICK new : new = Next(pc, seen)
    OBVIOUS
  <1>10. /\ new.pc = pc /\ new.epoch = r.epoch /\ new.ids = r.ids /\ new.done = r.done /\ new.verified = seen
         /\ new = [pc |-> new.pc, epoch |-> new.epoch, ids |-> new.ids, base |-> new.base,
                   done |-> new.done, verified |-> new.verified]
    BY <1>9
  <1>11. RunFits(new)
    BY <1>1, <1>3, <1>7, <1>10 DEF RunFits, Working, Mid
  <1>12. RunFits(new)'
    BY <1>8, <1>11, RunKept
  <1> QED
    BY <1>2, <1>7, <1>8, <1>9, <1>12, ArtifactsFit

\* A run at rest again, or dead.
LEMMA StoppedFits == RunFits(Stopped)'
  BY DEF RunFits, Stopped, Working, Mid

\* Moving on: only the place of the run changes.
LEMMA PlaceStep ==
  ASSUME ArtifactIInv, NEW p \in EpochPublishers, NEW pc, runs' = [runs EXCEPT ![p].pc = pc]
  PROVE  \E r : /\ runs' = [runs EXCEPT ![p] = r] /\ r.pc = pc
                /\ r = [pc |-> r.pc, epoch |-> r.epoch, ids |-> r.ids, base |-> r.base,
                        done |-> r.done, verified |-> r.verified]
                /\ r.epoch = runs[p].epoch /\ r.ids = runs[p].ids /\ r.done = runs[p].done
                /\ r.verified = runs[p].verified
  <1>1. runs = [q \in EpochPublishers |-> runs[q]] /\ RunFits(runs[p])
    BY DEF ArtifactIInv
  <1>2. PICK old : old = runs[p]
    OBVIOUS
  <1>3. old = [pc |-> old.pc, epoch |-> old.epoch, ids |-> old.ids, base |-> old.base,
               done |-> old.done, verified |-> old.verified]
    BY <1>1, <1>2 DEF RunFits
  <1>4. PICK r : r = [pc |-> pc, epoch |-> old.epoch, ids |-> old.ids, base |-> old.base,
                      done |-> old.done, verified |-> old.verified]
    OBVIOUS
  <1>5. [old EXCEPT !.pc = pc] = r
    BY <1>3, <1>4
  <1>6. runs' = [runs EXCEPT ![p] = r]
    BY <1>1, <1>2, <1>5
  <1>7. /\ r.pc = pc
        /\ r = [pc |-> r.pc, epoch |-> r.epoch, ids |-> r.ids, base |-> r.base,
                done |-> r.done, verified |-> r.verified]
        /\ r.epoch = runs[p].epoch /\ r.ids = runs[p].ids /\ r.done = runs[p].done
        /\ r.verified = runs[p].verified
    BY <1>2, <1>4
  <1> QED
    BY <1>6, <1>7

LEMMA PutStep ==
  ASSUME ArtifactIInv, NEW p \in EpochPublishers, NEW how \in {"stored", "lost", "raises", "answer_lost"},
         put_immutable_object(p, how)
  PROVE  ArtifactIInv'
  <1>1. PICK c, pc : /\ c = Item(p) /\ pc \in {"failed", "readback"} /\ runs' = [runs EXCEPT ![p].pc = pc]
                     /\ bucket' \in {bucket, Put(bucket, c, c)}
    BY DEF put_immutable_object, To
  <1>2. UNCHANGED <<catalog, readiness, cnfRows, epoch, granted, remaps>> /\ runs[p].pc = "put"
        /\ bucketFaults' \in 0..MaxBucketFaults
    BY ArtifactAssumption DEF put_immutable_object, ArtifactIInv, ArtifactTypeOK
  <1>3. \A x : Held(x) => Held(x)'
    <2>1. CASE bucket' = bucket
      BY <2>1 DEF Held
    <2>2. CASE bucket' = Put(bucket, c, c)
      BY <2>2 DEF Held, Put
    <2> QED
      BY <1>1, <2>1, <2>2
  <1>4. Grows /\ CatalogFits' /\ ReadyFits'
    BY <1>2, <1>3, CatalogKept, AnswersKept DEF Grows, ArtifactIInv
  <1>5. ArtifactTypeOK'
    <2>1. \A x \in DOMAIN bucket' : bucket'[x] \in {x, ForeignBytes}
      <3>1. CASE bucket' = bucket
        BY <3>1 DEF ArtifactIInv, ArtifactTypeOK
      <3>2. CASE bucket' = Put(bucket, c, c)
        BY <3>2 DEF ArtifactIInv, ArtifactTypeOK, Put
      <3> QED
        BY <1>1, <3>1, <3>2
    <2> QED
      BY <1>2, <2>1 DEF ArtifactIInv, ArtifactTypeOK
  <1>6. PICK r : /\ runs' = [runs EXCEPT ![p] = r] /\ r.pc = pc
                 /\ r = [pc |-> r.pc, epoch |-> r.epoch, ids |-> r.ids, base |-> r.base,
                         done |-> r.done, verified |-> r.verified]
                 /\ r.epoch = runs[p].epoch /\ r.ids = runs[p].ids /\ r.done = runs[p].done
                 /\ r.verified = runs[p].verified
    BY <1>1, PlaceStep
  <1>7. RunFits(runs[p])
    BY DEF ArtifactIInv
  <1>8. RunFits(r)
    BY <1>1, <1>2, <1>6, <1>7 DEF RunFits, Working, Mid
  <1>9. RunFits(r)'
    BY <1>4, <1>8, RunKept
  <1> QED
    BY <1>2, <1>4, <1>5, <1>6, <1>9, ArtifactsFit

LEMMA RegisterStep ==
  ASSUME ArtifactIInv, NEW p \in EpochPublishers, register_artifact(p)
  PROVE  ArtifactIInv'
  <1>1. RunFits(runs[p]) /\ runs[p].pc = "register" /\ Item(p) = ItemOf(runs[p].ids, runs[p].epoch, runs[p].done)
    BY DEF ArtifactIInv, register_artifact, Item, ItemOf
  <1>2. PICK c, row : /\ c = Item(p) /\ row.sha = c
                      /\ catalog' = IF c \in DOMAIN catalog THEN catalog ELSE Put(catalog, c, row)
    BY DEF register_artifact
  <1>3. PICK pc \in {"keep", "failed"} : runs' = [runs EXCEPT ![p].pc = pc]
    BY DEF register_artifact, To
  <1>4. UNCHANGED <<bucket, readiness, cnfRows, epoch, granted, remaps, bucketFaults>>
    BY DEF register_artifact
  <1>5. Held(c)
    BY <1>1, <1>2 DEF RunFits
  <1>6. /\ DOMAIN catalog' = DOMAIN catalog \cup {c}
        /\ \A x \in DOMAIN catalog : catalog'[x] = catalog[x]
        /\ catalog'[c].sha = c
    <2>1. CASE c \in DOMAIN catalog
      BY <1>2, <2>1 DEF ArtifactIInv, CatalogFits
    <2>2. CASE c \notin DOMAIN catalog
      BY <1>2, <2>2 DEF Put
    <2> QED
      BY <2>1, <2>2
  <1>7. Grows /\ ReadyFits'
    BY <1>4, <1>6, AnswersKept DEF Grows, Held, ArtifactIInv
  <1>8. CatalogFits'
    BY <1>4, <1>5, <1>6 DEF ArtifactIInv, CatalogFits, Held
  <1>9. c \in Identities \X (1..LastEpoch + 1)
    <2>1. runs[p].ids \in IdentityLists /\ runs[p].epoch \in 1..LastEpoch
          /\ runs[p].done \in 0..2 * Len(runs[p].ids) - 1
      <3>1. Len(runs[p].ids) \in Nat /\ epoch \in 1..LastEpoch
        BY <1>1, ArtifactAssumption DEF RunFits, ArtifactIInv, ArtifactTypeOK
      <3> QED
        BY <1>1, <3>1, ArtifactAssumption DEF RunFits, Mid
    <2> QED
      BY <1>1, <1>2, <2>1, ItemFacts
  <1>10. ArtifactTypeOK'
    BY <1>4, <1>6, <1>9 DEF ArtifactIInv, ArtifactTypeOK
  <1>11. PICK r : /\ runs' = [runs EXCEPT ![p] = r] /\ r.pc = pc
                  /\ r = [pc |-> r.pc, epoch |-> r.epoch, ids |-> r.ids, base |-> r.base,
                          done |-> r.done, verified |-> r.verified]
                  /\ r.epoch = runs[p].epoch /\ r.ids = runs[p].ids /\ r.done = runs[p].done
                  /\ r.verified = runs[p].verified
    BY <1>3, PlaceStep
  <1>12. Published(c)' /\ (\A x : Published(x) => Published(x)') /\ (\A x : Held(x) => Held(x)')
    BY <1>5, <1>6, <1>7 DEF Published, Grows
  <1>13. RunFits(r)'
    BY <1>1, <1>2, <1>3, <1>4, <1>11, <1>12 DEF RunFits, Working, Mid
  <1> QED
    BY <1>4, <1>7, <1>8, <1>10, <1>11, <1>13, ArtifactsFit

LEMMA KeepStep ==
  ASSUME ArtifactIInv, NEW p \in EpochPublishers, NEW left \in BOOLEAN, KeepText(p, left)
  PROVE  ArtifactIInv'
  <1>1. PICK old : old = runs[p]
    OBVIOUS
  <1>2. RunFits(old) /\ old.pc = "keep" /\ Item(p) = ItemOf(old.ids, old.epoch, old.done)
    BY <1>1 DEF ArtifactIInv, KeepText, Item, ItemOf
  <1>3. UNCHANGED <<bucket, catalog, readiness, epoch, granted, remaps, bucketFaults>>
        /\ cnfRows' \subseteq cnfRows \cup {Item(p)}
    BY DEF KeepText
  <1>4. Grows /\ CatalogFits' /\ ReadyFits'
    BY <1>3, CatalogKept, AnswersKept DEF Grows, Held, ArtifactIInv
  <1>5. Item(p) \in DOMAIN catalog
    BY <1>2 DEF RunFits, Published
  <1>6. ArtifactTypeOK'
    BY <1>3, <1>5 DEF ArtifactIInv, ArtifactTypeOK
  <1>7. PICK r : r = [pc |-> "item", epoch |-> old.epoch, ids |-> old.ids, base |-> old.base,
                      done |-> old.done + 1, verified |-> old.verified]
    OBVIOUS
  <1>8. runs' = [runs EXCEPT ![p] = r]
    <2>1. runs = [q \in EpochPublishers |-> runs[q]]
          /\ runs[p] = [pc |-> runs[p].pc, epoch |-> runs[p].epoch, ids |-> runs[p].ids, base |-> runs[p].base,
                        done |-> runs[p].done, verified |-> runs[p].verified]
      BY <1>1, <1>2 DEF ArtifactIInv, RunFits
    <2>2. runs' = [runs EXCEPT ![p].pc = "item", ![p].done = runs[p].done + 1]
      BY DEF KeepText
    <2>3. runs'[p] = r
      BY <1>1, <1>7, <2>1, <2>2
    <2>4. runs' = [q \in EpochPublishers |-> runs'[q]] /\ \A q \in EpochPublishers \ {p} : runs'[q] = runs[q]
      BY <2>1, <2>2
    <2> QED
      BY <2>1, <2>3, <2>4
  <1>9. RunFits(r)
    <2>1. Len(old.ids) \in Nat
      BY <1>2, ArtifactAssumption DEF RunFits
    <2>2. \A k \in 0..old.done : Published(ItemOf(old.ids, old.epoch, k))
      BY <1>2, <2>1 DEF RunFits
    <2>3. old.done + 1 \in 0..2 * Len(old.ids) /\ old.done + 1 - 1 = old.done
      BY <1>2, <2>1 DEF RunFits, Mid
    <2> QED
      BY <1>2, <1>7, <2>2, <2>3 DEF RunFits, Working, Mid
  <1>10. RunFits(r)'
    BY <1>4, <1>9, RunKept
  <1> QED
    BY <1>3, <1>4, <1>6, <1>8, <1>10, ArtifactsFit

\* A run that has worked through its items has published both epochs of each identity.
LEMMA AllPublished ==
  ASSUME NEW r, RunFits(r), r.pc # "stopped", r.done = 2 * Len(r.ids),
         NEW i \in DOMAIN r.ids, NEW d \in {0, 1}
  PROVE  Published(<<r.ids[i], r.epoch + d>>)
  <1>1. r.ids \in Seq(Identities) /\ r.epoch \in Nat
    BY ArtifactAssumption DEF RunFits
  <1>2. Len(r.ids) \in Nat /\ i \in 1..Len(r.ids)
    BY <1>1
  <1>3. CASE d = 0
    <2>1. i - 1 \in 0..r.done - 1
      BY <1>2
    <2>2. ItemOf(r.ids, r.epoch, i - 1) = <<r.ids[i], r.epoch>>
      BY <1>2 DEF ItemOf
    <2> QED
      BY <1>1, <1>3, <2>1, <2>2 DEF RunFits
  <1>4. CASE d = 1
    <2>1. Len(r.ids) + i - 1 \in 0..r.done - 1
      BY <1>2
    <2>2. ItemOf(r.ids, r.epoch, Len(r.ids) + i - 1) = <<r.ids[i], r.epoch + 1>>
      BY <1>2 DEF ItemOf
    <2> QED
      BY <1>4, <2>1, <2>2 DEF RunFits
  <1> QED
    BY <1>3, <1>4

LEMMA FinishStep ==
  ASSUME ArtifactIInv, NEW p \in EpochPublishers, prepublish_epoch_pair(p) \/ PublisherDies(p)
  PROVE  ArtifactIInv'
  <1>1. runs' = [runs EXCEPT ![p] = Stopped] /\ UNCHANGED <<bucket, catalog, cnfRows, epoch, granted, remaps, bucketFaults>>
    BY DEF prepublish_epoch_pair, PublisherDies
  <1>2. Grows /\ CatalogFits'
    BY <1>1, CatalogKept DEF Grows, Held, ArtifactIInv
  <1>3. PICK old : old = runs[p] /\ RunFits(old)
    BY DEF ArtifactIInv
  <1>4. PICK row : /\ row.ready \in BOOLEAN
                   /\ row.ready => row.ids = old.ids /\ old.pc = "item" /\ old.done = 2 * Len(old.ids)
                   /\ readiness' = readiness \/ (old.pc # "stopped" /\ readiness' = Put(readiness, old.epoch, row))
    <2>1. CASE PublisherDies(p)
      <3>1. PICK none : none = [ready |-> FALSE]
        OBVIOUS
      <3>2. none.ready = FALSE /\ none.ready \in BOOLEAN /\ readiness' = readiness
        BY <2>1, <3>1 DEF PublisherDies
      <3> QED
        BY <3>2
    <2>2. ASSUME NEW whole \in BOOLEAN, write_readiness(p, whole),
                 IF whole THEN old.pc = "item" /\ old.done = Total(p) ELSE old.pc = "failed"
          PROVE  \E row : /\ row.ready \in BOOLEAN
                          /\ row.ready => row.ids = old.ids /\ old.pc = "item" /\ old.done = 2 * Len(old.ids)
                          /\ readiness' = readiness
                             \/ (old.pc # "stopped" /\ readiness' = Put(readiness, old.epoch, row))
      <3>1. PICK row : /\ row = [expected |-> Len(runs[p].ids), current |-> PublishedIn(p, 0),
                                 next |-> PublishedIn(p, 1), ready |-> whole, ids |-> runs[p].ids]
                       /\ readiness' = Put(readiness, runs[p].epoch, row)
        BY <2>2 DEF write_readiness
      <3>2. row.ready = whole /\ row.ids = old.ids
        BY <1>3, <3>1
      <3>3. old.done = 2 * Len(old.ids) \/ ~whole
        BY <1>3, <2>2 DEF Total
      <3> QED
        BY <1>3, <2>2, <3>1, <3>2, <3>3
    <2> QED
      BY <1>3, <2>1, <2>2 DEF prepublish_epoch_pair
  <1>5. \A e \in DOMAIN readiness' :
           \/ e \in DOMAIN readiness /\ readiness'[e] = readiness[e]
           \/ old.pc # "stopped" /\ e = old.epoch /\ readiness'[e] = row
    <2>1. CASE readiness' = readiness
      BY <2>1
    <2>2. CASE old.pc # "stopped" /\ readiness' = Put(readiness, old.epoch, row)
      BY <2>2 DEF Put
    <2> QED
      BY <1>4, <2>1, <2>2
  <1>6. ReadyFits'
    <2>1. \A c : Published(c) => Published(c)'
      BY <1>2 DEF Published, Grows
    <2>2. ASSUME NEW e \in DOMAIN readiness', e \in DOMAIN readiness, readiness'[e] = readiness[e]
          PROVE  e \in Nat /\ (readiness'[e].ready => \A i \in DOMAIN readiness'[e].ids : \A d \in {0, 1} :
                                     Published(<<readiness'[e].ids[i], e + d>>))
      BY <2>2 DEF ArtifactIInv, ReadyFits
    <2>3. old.pc # "stopped" => old.epoch \in Nat
      BY <1>3, ArtifactAssumption DEF RunFits
    <2>4. ASSUME old.pc # "stopped", row.ready, NEW i \in DOMAIN row.ids, NEW d \in {0, 1}
          PROVE  Published(<<row.ids[i], old.epoch + d>>)
      BY <1>3, <1>4, <2>4, AllPublished
    <2>5. ASSUME NEW e \in DOMAIN readiness', old.pc # "stopped", e = old.epoch, readiness'[e] = row
          PROVE  e \in Nat /\ (readiness'[e].ready => \A i \in DOMAIN readiness'[e].ids : \A d \in {0, 1} :
                                     Published(<<readiness'[e].ids[i], e + d>>))
      BY <2>3, <2>4, <2>5
    <2>6. \A e \in DOMAIN readiness' :
             e \in Nat /\ (readiness'[e].ready => \A i \in DOMAIN readiness'[e].ids : \A d \in {0, 1} :
                                     Published(<<readiness'[e].ids[i], e + d>>))
      BY <1>5, <2>2, <2>5
    <2> QED
      BY <2>1, <2>6 DEF ReadyFits
  <1>7. ArtifactTypeOK'
    <2>1. \A e \in DOMAIN readiness' : readiness'[e].ready \in BOOLEAN
      BY <1>4, <1>5 DEF ArtifactIInv, ArtifactTypeOK
    <2> QED
      BY <1>1, <2>1 DEF ArtifactIInv, ArtifactTypeOK
  <1> QED
    BY <1>1, <1>2, <1>6, <1>7, StoppedFits, ArtifactsFit

\* A miner is answered: for its own challenge, from the catalog or with the text.
LEMMA GrantStep ==
  ASSUME ArtifactIInv, NEW h \in MinerHotkeys, NEW c \in Identities \X (1..LastEpoch),
         v2_per_miner_cnf_access(h, c) \/ v2_per_miner_cnf(h, c)
  PROVE  ArtifactIInv'
  <1>1. UNCHANGED <<bucket, catalog, readiness, runs, epoch, remaps, bucketFaults>>
        /\ cnfRows' \subseteq cnfRows \cup {c} /\ c[1] = identity[h]
    BY DEF v2_per_miner_cnf_access, v2_per_miner_cnf, authorize_v2_cnf_access
  <1>2. Grows
    BY <1>1 DEF Grows, Held
  <1>3. \A p \in EpochPublishers : RunFits(runs[p])'
    <2>1. ASSUME NEW p \in EpochPublishers PROVE RunFits(runs[p])'
      <3>1. PICK r : r = runs[p] /\ RunFits(r)
        BY DEF ArtifactIInv
      <3>2. RunFits(r)'
        BY <1>2, <3>1, RunKept
      <3> QED
        BY <1>1, <3>1, <3>2 DEF RunFits
    <2> QED
      BY <2>1
  <1>4. PICK sha, url, route :
           /\ granted' = granted \cup {[hk |-> h, owner |-> identity[h], cid |-> c, sha |-> sha,
                                       url |-> url, route |-> route]}
           /\ sha = c /\ (route = "access" => c \in DOMAIN catalog /\ catalog[c].url = url)
    <2>1. CASE v2_per_miner_cnf_access(h, c)
      <3>1. c \in DOMAIN catalog
        BY <2>1 DEF v2_per_miner_cnf_access, artifact_for_v2_cnf_context
      <3>2. catalog[c].sha = c
        BY <3>1 DEF ArtifactIInv, CatalogFits
      <3> QED
        BY <2>1, <3>1, <3>2 DEF v2_per_miner_cnf_access, Grant
    <2>2. CASE v2_per_miner_cnf(h, c)
      BY <2>2, SMTT(30) DEF v2_per_miner_cnf, Grant
    <2> QED
      BY <2>1, <2>2
  <1>5. GrantsFit'
    BY <1>1, <1>4 DEF ArtifactIInv, GrantsFit
  <1>6. CatalogFits' /\ ReadyFits'
    BY <1>1, <1>2, CatalogKept, AnswersKept DEF ArtifactIInv
  <1>7. ArtifactTypeOK'
    <2>1. c \in Identities \X (1..LastEpoch + 1)
      BY ArtifactAssumption
    <2> QED
      BY <1>1, <2>1 DEF ArtifactIInv, ArtifactTypeOK
  <1> QED
    BY <1>1, <1>3, <1>5, <1>6, <1>7 DEF ArtifactIInv

\* Outside the publisher: retention, the clock, the metagraph.
LEMMA OutsideStep ==
  ASSUME ArtifactIInv,
         PurgeTexts \/ EpochPasses \/ (\E h \in MinerHotkeys, i \in Identities : Remap(h, i))
         \/ UNCHANGED artifactVars
  PROVE  ArtifactIInv'
  <1>1. UNCHANGED <<bucket, catalog, readiness, runs, granted, bucketFaults>>
        /\ cnfRows' \subseteq cnfRows
    BY DEF PurgeTexts, EpochPasses, Remap, artifactVars
  <1>2. epoch' \in 1..LastEpoch /\ epoch <= epoch' /\ remaps' \in 0..MaxRemaps /\ epoch \in Nat
    BY ArtifactAssumption DEF ArtifactIInv, ArtifactTypeOK, PurgeTexts, EpochPasses, Remap, artifactVars
  <1>3. ArtifactTypeOK'
    BY <1>1, <1>2 DEF ArtifactIInv, ArtifactTypeOK
  <1>4. \A c : (Held(c)' <=> Held(c)) /\ (Published(c)' <=> Published(c))
    BY <1>1 DEF Held, Published
  <1>5. \A p \in EpochPublishers : RunFits(runs[p])'
    BY <1>1, <1>2, <1>4 DEF ArtifactIInv, RunFits
  <1>6. CatalogFits' /\ ReadyFits' /\ GrantsFit'
    BY <1>1, <1>4 DEF ArtifactIInv, CatalogFits, ReadyFits, GrantsFit
  <1> QED
    BY <1>1, <1>3, <1>5, <1>6 DEF ArtifactIInv

LEMMA ArtifactStep ==
  ASSUME ArtifactIInv, [ArtifactNext]_artifactVars PROVE ArtifactIInv'
  <1>1. ASSUME NEW p \in EpochPublishers, NEW l \in IdentityLists, NEW b \in ArtifactBases,
               NEW e \in 1..LastEpoch, StartPublish(p, l, b, e)
        PROVE  ArtifactIInv'
    BY <1>1, StartStep
  <1>2. ASSUME NEW p \in EpochPublishers, NEW how \in {"stored", "lost", "raises", "answer_lost"},
               put_immutable_object(p, how)
        PROVE  ArtifactIInv'
    BY <1>2, PutStep
  <1>3. ASSUME NEW p \in EpochPublishers, NEW left \in BOOLEAN, KeepText(p, left) PROVE ArtifactIInv'
    BY <1>3, KeepStep
  <1>4. ASSUME NEW p \in EpochPublishers, read_existing(p) \/ publish_verified_object(p) PROVE ArtifactIInv'
    BY <1>4, LookStep
  <1>5. ASSUME NEW p \in EpochPublishers, register_artifact(p) PROVE ArtifactIInv'
    BY <1>5, RegisterStep
  <1>6. ASSUME NEW p \in EpochPublishers, prepublish_epoch_pair(p) \/ PublisherDies(p) PROVE ArtifactIInv'
    BY <1>6, FinishStep
  <1>7. ASSUME NEW h \in MinerHotkeys, NEW c \in Identities \X (1..LastEpoch),
               v2_per_miner_cnf_access(h, c) \/ v2_per_miner_cnf(h, c)
        PROVE  ArtifactIInv'
    BY <1>7, GrantStep
  <1>8. ASSUME PurgeTexts \/ EpochPasses \/ (\E h \in MinerHotkeys, i \in Identities : Remap(h, i))
               \/ UNCHANGED artifactVars
        PROVE  ArtifactIInv'
    BY <1>8, OutsideStep
  <1> QED
    BY <1>1, <1>2, <1>3, <1>4, <1>5, <1>6, <1>7, <1>8 DEF ArtifactNext

LEMMA ArtifactSafe == ArtifactIInv => ArtifactInv
  <1> SUFFICES ASSUME ArtifactIInv PROVE ArtifactInv
    OBVIOUS
  <1>1. ReadyIsComplete
    BY DEF ArtifactIInv, ReadyFits, Published, Held, ReadyIsComplete
  <1>2. GrantedBytesExist
    BY DEF ArtifactIInv, GrantsFit, CatalogFits, Held, GrantedBytesExist
  <1> QED
    BY <1>1, <1>2 DEF ArtifactIInv, ArtifactInv

\* A ready epoch is complete, and what a miner was granted stays true, whatever the
\* bucket lost, whichever runs raced or died, and whoever changed coldkeys
\* (epoch_publisher.py and the cnf-access route).
THEOREM ArtifactsComplete == ArtifactSpec => []ArtifactInv
  BY ArtifactBegins, ArtifactStep, ArtifactSafe, PTL DEF ArtifactSpec

----------------------------------------------------------------------------
(* GPU capacity                                                             *)

Accepted(m) == \E v \in verified : v.evidence = m
PatchSpace ==
    [status : {"active", "paused", "rejected", NONE}, evidence : GpuEvidence \cup {NONE},
     named : {TRUE, NONE}, machine : Machines \cup {NONE}]
ReadingPcs == {"update", "verifier", "verified", "provider", "claim", "command"}

\* What a handler may rely on between two of its statements.
HandlerFits(h) ==
    /\ h = [pc |-> h.pc, read |-> h.read, patch |-> h.patch, then |-> h.then]
    /\ h.pc \in ReadingPcs \cup {"idle", "health"}
    /\ h.read \in Capacity \cup {NONE}
    /\ h.pc \in ReadingPcs => h.read \in Capacity /\ capacity # NONE
    /\ h.pc = "update" =>
          /\ h.patch \in PatchSpace /\ h.then \in {"done", "health"}
          /\ AdminView(h.read, h.patch) # NONE
          /\ (h.patch.evidence # NONE /\ h.patch.evidence.review = "crypto") => Accepted(h.patch.evidence.of)
    /\ h.pc \in {"verifier", "verified"} => h.read.evidence # NONE
    /\ h.pc = "verified" => Accepted(h.read.evidence.of)

\* Commands that run, and those a row that is free to be claimed may still have.
Commands == {p \in GpuProcesses : Listing(p)}
CommandsCounted ==
    /\ replaced \in Nat
    /\ Cardinality(Commands) <= 1 + replaced
    /\ (capacity # NONE /\ capacity.chutes \notin {"listing", "listed"}) => Cardinality(Commands) <= replaced

\* One process: nothing happens to the row between its statements.
Alone == Cardinality(replicas) = 1
AloneFits ==
    Alone => \A p \in replicas :
        /\ handler[p].pc \in {"update", "provider", "claim"} => handler[p].read = capacity
        /\ handler[p].pc = "command" => handler[p].read.machine = capacity.machine

GpuIInv ==
    /\ GpuTypeOK /\ EvidenceWasVerified /\ ActiveWasApproved
    /\ handler = [p \in GpuProcesses |-> handler[p]]
    /\ replicas \subseteq GpuProcesses
    /\ \A p \in GpuProcesses : HandlerFits(handler[p]) /\ (p \notin replicas => handler[p].pc = "idle")
    /\ CommandsCounted /\ AloneFits

\* The functions on rows: their types, and the fields they keep.
LEMMA PreflightFacts ==
  ASSUME NEW c \in Capacity
  PROVE  /\ Preflighted(c) \in Capacity
         /\ Preflighted(c).machine = c.machine /\ Preflighted(c).status = c.status
         /\ Preflighted(c).evidence = c.evidence /\ Preflighted(c).chutes = c.chutes
         /\ Preflighted(c).named = c.named
  <1>1. preflight_capacity(c) \in {"eligible", "blocked", "exploratory"}
    BY DEF preflight_capacity
  <1> QED
    BY <1>1 DEF Preflighted, Capacity

LEMMA ReopenedFacts ==
  ASSUME NEW old \in Capacity, NEW new \in Capacity
  PROVE  /\ Reopened(old, new) \in Capacity /\ Reopened(old, new).status # "active"
         /\ Reopened(old, new).machine = new.machine /\ Reopened(old, new).evidence = new.evidence
  BY DEF Reopened, Capacity

LEMMA SettledFacts ==
  ASSUME NEW c \in Capacity
  PROVE  /\ Settled(c) \in Capacity /\ (Settled(c).status = "active" => c.status = "active")
         /\ Settled(c).machine = c.machine /\ Settled(c).evidence = c.evidence
         /\ Settled(c).chutes = c.chutes
  BY DEF Settled, Capacity

LEMMA PatchedFacts ==
  ASSUME NEW c \in Capacity, NEW t \in PatchSpace
  PROVE  Patched(c, t) \in Capacity /\ Patched(c, t).machine = Or(t.machine, c.machine)
  BY ZenonT(30) DEF Patched, Or, Capacity, PatchSpace

LEMMA AdminViewFacts ==
  ASSUME NEW read \in Capacity, NEW t \in PatchSpace, AdminView(read, t) # NONE
  PROVE  AdminView(read, t) \in Capacity /\ AdminView(read, t).machine = Or(t.machine, read.machine)
  <1> DEFINE merged == Patched(read, t)
             opened == IF material_changed(read, merged) THEN Reopened(read, merged) ELSE merged
             left == IF t.status = NONE THEN opened ELSE [opened EXCEPT !.status = t.status]
             view == Preflighted(left)
  <1>1. merged \in Capacity /\ merged.machine = Or(t.machine, read.machine)
    BY PatchedFacts
  <1> HIDE DEF merged
  <1>2. opened \in Capacity /\ opened.machine = merged.machine
    BY <1>1, ReopenedFacts
  <1> HIDE DEF opened
  <1>3. left \in Capacity /\ left.machine = opened.machine
    <2>1. CASE t.status = NONE
      BY <1>2, <2>1
    <2>2. CASE t.status # NONE
      <3>1. t.status \in {"active", "paused", "rejected"}
        BY <2>2 DEF PatchSpace
      <3>2. [opened EXCEPT !.status = t.status] \in Capacity /\ [opened EXCEPT !.status = t.status].machine = opened.machine
        BY <1>2, <3>1 DEF Capacity
      <3> QED
        BY <2>2, <3>2
    <2> QED
      BY <2>1, <2>2
  <1> HIDE DEF left
  <1>4. view \in Capacity /\ view.machine = left.machine
    BY <1>3, PreflightFacts
  <1>5. AdminView(read, t) = Settled(view)
    BY DEF AdminView, merged, opened, left
  <1> HIDE DEF view
  <1> QED
    BY <1>1, <1>2, <1>3, <1>4, <1>5, SettledFacts

LEMMA SameView ==
  ASSUME gpuPolicy' = gpuPolicy
  PROVE  \A r, t : AdminView(r, t)' = AdminView(r, t)
  BY DEF AdminView, Preflighted, preflight_capacity

\* The other handlers, while the row stays a row and the verifier forgets nothing.
LEMMA HandlerKept ==
  ASSUME NEW h, HandlerFits(h), gpuPolicy' = gpuPolicy, verified \subseteq verified',
         capacity # NONE => capacity' # NONE
  PROVE  HandlerFits(h)'
  <1>1. \A m : Accepted(m) => Accepted(m)'
    BY DEF Accepted
  <1>2. AdminView(h.read, h.patch)' = AdminView(h.read, h.patch)
    BY SameView
  <1> QED
    BY <1>1, <1>2 DEF HandlerFits

LEMMA OneReplica ==
  ASSUME GpuIInv, Alone, NEW p \in replicas
  PROVE  replicas = {p}
  <1>1. IsFiniteSet(replicas)
    BY GpuConstants, FS_Subset DEF GpuIInv
  <1>2. \E q : replicas = {q}
    BY <1>1, FS_Singleton DEF Alone
  <1> QED
    BY <1>2

LEMMA CommandsFinite == IsFiniteSet(Commands) /\ Cardinality(Commands) \in Nat
  <1>1. IsFiniteSet(Commands)
    BY GpuConstants, FS_Subset DEF Commands
  <1> QED
    BY <1>1, FS_CardinalityType

\* A step of one handler, with what it leaves on the row.
LEMMA GpuStepFits ==
  ASSUME GpuIInv, NEW p \in replicas, NEW h,
         handler' = [handler EXCEPT ![p] = h], HandlerFits(h)',
         UNCHANGED <<gpuPolicy, replicas>>, verified \subseteq verified',
         receipts' \subseteq {"provider", "health", "usage"},
         capacity' \in Capacity \cup {NONE}, capacity # NONE => capacity' # NONE,
         EvidenceWasVerified', CommandsCounted',
         Alone => ((capacity' # NONE /\ capacity'.status = "active") => approved' = capacity'.machine),
         Alone => (h.pc \in {"update", "provider", "claim"} => h.read = capacity'),
         Alone => (h.pc = "command" => h.read.machine = capacity'.machine)
  PROVE  GpuIInv'
  <1>1. handler = [q \in GpuProcesses |-> handler[q]] /\ replicas \subseteq GpuProcesses
    BY DEF GpuIInv
  <1>2. handler' = [q \in GpuProcesses |-> handler'[q]] /\ handler'[p] = h
        /\ \A q \in GpuProcesses \ {p} : handler'[q] = handler[q]
    BY <1>1
  <1>3. ASSUME NEW q \in GpuProcesses
        PROVE  HandlerFits(handler[q])' /\ (q \notin replicas => handler'[q].pc = "idle")
    <2>1. CASE q = p
      BY <1>2, <2>1 DEF HandlerFits
    <2>2. CASE q # p
      <3>1. PICK g : g = handler[q]
        OBVIOUS
      <3>2. HandlerFits(g) /\ handler'[q] = g /\ (q \notin replicas => g.pc = "idle")
        BY <1>2, <2>2, <3>1 DEF GpuIInv
      <3>3. HandlerFits(g)'
        BY <3>2, HandlerKept
      <3> QED
        BY <3>2, <3>3 DEF HandlerFits
    <2> QED
      BY <2>1, <2>2
  <1>4. GpuTypeOK'
    <2>1. \A q \in GpuProcesses : handler'[q].read \in Capacity \cup {NONE}
      BY <1>3 DEF HandlerFits
    <2> QED
      BY <2>1 DEF GpuTypeOK
  <1>5. Alone' <=> Alone
    BY DEF Alone
  <1>6. AloneFits'
    <2>1. ASSUME Alone PROVE replicas' = {p}
      BY <2>1, OneReplica
    <2> QED
      BY <1>2, <1>5, <2>1 DEF AloneFits
  <1>7. ActiveWasApproved'
    BY DEF ActiveWasApproved, Alone
  <1> QED
    BY <1>1, <1>2, <1>3, <1>4, <1>6, <1>7 DEF GpuIInv

\* Commands only start by a claim.
LEMMA NoCommandStarts ==
  ASSUME GpuIInv, NEW p \in replicas, NEW h, handler' = [handler EXCEPT ![p] = h], h.pc # "command"
  PROVE  Commands' = Commands \ {p}
  BY DEF GpuIInv, Commands, Listing

\* The commands that run are counted as long as a row leaves "listing" and "listed"
\* only where the step counts it.
LEMMA StillCounted ==
  ASSUME GpuIInv, Commands' \subseteq Commands,
         \/ replaced' = replaced + 1
         \/ replaced' = replaced /\ capacity = NONE
         \/ replaced' = replaced /\ capacity'.chutes = capacity.chutes
  PROVE  CommandsCounted'
  <1>1. IsFiniteSet(Commands) /\ Cardinality(Commands) \in Nat /\ replaced \in Nat
        /\ Cardinality(Commands) <= 1 + replaced
    BY CommandsFinite DEF GpuIInv, CommandsCounted
  <1>2. PICK cs : cs = Commands'
    OBVIOUS
  <1>3. IsFiniteSet(cs) /\ Cardinality(cs) <= Cardinality(Commands)
    BY <1>1, <1>2, FS_Subset
  <1>4. Cardinality(cs) \in Nat
    BY <1>3, FS_CardinalityType
  <1>5. CASE replaced' = replaced + 1
    BY <1>1, <1>2, <1>3, <1>4, <1>5 DEF CommandsCounted
  <1>6. CASE replaced' = replaced /\ capacity = NONE
    <2>1. Commands = {}
      BY <1>6 DEF GpuIInv, HandlerFits, ReadingPcs, Commands, Listing
    <2>2. Cardinality(cs) = 0
      BY <1>2, <2>1, FS_EmptySet
    <2> QED
      BY <1>1, <1>2, <1>6, <2>2 DEF CommandsCounted
  <1>7. CASE replaced' = replaced /\ capacity # NONE /\ capacity'.chutes = capacity.chutes
    <2>1. capacity.chutes \notin {"listing", "listed"} => Cardinality(Commands) <= replaced
      BY <1>7 DEF GpuIInv, CommandsCounted
    <2> QED
      BY <1>1, <1>2, <1>3, <1>4, <1>7, <2>1 DEF CommandsCounted
  <1> QED
    BY <1>5, <1>6, <1>7

LEMMA EvidenceKept ==
  ASSUME EvidenceWasVerified, verified \subseteq verified',
         capacity' = capacity \/ (capacity # NONE /\ capacity'.evidence = capacity.evidence)
  PROVE  EvidenceWasVerified'
  BY DEF EvidenceWasVerified

\* A handler moves on and the row stays as it is.
LEMMA HandlerMoves ==
  ASSUME GpuIInv, NEW p \in replicas, NEW h,
         handler' = [handler EXCEPT ![p] = h], HandlerFits(h)', h.pc # "command",
         UNCHANGED <<gpuPolicy, replicas, capacity, approved, replaced>>, verified \subseteq verified',
         receipts' \subseteq {"provider", "health", "usage"},
         Alone => (h.pc \in {"update", "provider", "claim"} => h.read = capacity)
  PROVE  GpuIInv'
  <1>1. CommandsCounted'
    BY NoCommandStarts, StillCounted
  <1>2. EvidenceWasVerified'
    BY EvidenceKept DEF GpuIInv
  <1>3. Alone => ((capacity' # NONE /\ capacity'.status = "active") => approved' = capacity'.machine)
    BY DEF GpuIInv, ActiveWasApproved, Alone
  <1>4. capacity' \in Capacity \cup {NONE}
    BY DEF GpuIInv, GpuTypeOK
  <1> QED
    BY <1>1, <1>2, <1>3, <1>4, GpuStepFits

LEMMA IdleFits ==
  /\ HandlerFits(GpuIdle) /\ HandlerFits(GpuIdle)' /\ GpuIdle.pc = "idle"
  BY DEF HandlerFits, GpuIdle, ReadingPcs

LEMMA AloneReads ==
  ASSUME GpuIInv, NEW p \in replicas, Alone
  PROVE  /\ handler[p].pc \in {"update", "provider", "claim"} => handler[p].read = capacity
         /\ handler[p].pc = "command" => handler[p].read.machine = capacity.machine
  BY DEF GpuIInv, AloneFits

\* An update that was let through waits for its write.
LEMMA UpdateStarts ==
  ASSUME GpuIInv, NEW p \in replicas, NEW patch \in PatchSpace, NEW then \in {"done", "health"},
         (patch.evidence # NONE /\ patch.evidence.review = "crypto") => Accepted(patch.evidence.of),
         update_capacity_admin(p, patch, then),
         UNCHANGED <<gpuPolicy, replicas, capacity, gpuLog, approved, replaced>>
  PROVE  GpuIInv'
  <1>1. capacity \in Capacity /\ capacity # NONE
    BY DEF update_capacity_admin, GpuIInv, GpuTypeOK
  <1>2. UNCHANGED <<receipts, request, verified>> /\ receipts \subseteq {"provider", "health", "usage"}
    BY DEF gpuLog, GpuIInv, GpuTypeOK
  <1>3. CASE AdminView(capacity, patch) = NONE
    BY <1>2, <1>3, IdleFits, HandlerMoves DEF update_capacity_admin, GpuGo
  <1>4. CASE AdminView(capacity, patch) # NONE
    <2>1. PICK h : h = [pc |-> "update", read |-> capacity, patch |-> patch, then |-> then]
      OBVIOUS
    <2>2. handler' = [handler EXCEPT ![p] = h]
      BY <1>4, <2>1 DEF update_capacity_admin, GpuGo
    <2>3. h.pc = "update" /\ h.read = capacity /\ h.patch = patch /\ h.then = then
          /\ h = [pc |-> h.pc, read |-> h.read, patch |-> h.patch, then |-> h.then]
      BY <2>1
    <2>4. HandlerFits(h)
      BY <1>1, <1>4, <2>3 DEF HandlerFits, ReadingPcs
    <2>5. HandlerFits(h)'
      BY <1>1, <1>2, <2>4, HandlerKept
    <2> QED
      BY <1>2, <2>2, <2>3, <2>5, HandlerMoves
  <1> QED
    BY <1>3, <1>4

LEMMA PatchTypes ==
  /\ Patches \subseteq PatchSpace /\ \A t \in Patches : t.evidence = NONE
  /\ NoPatch \in PatchSpace /\ NoPatch.evidence = NONE
  /\ \A e \in GpuEvidence : [NoPatch EXCEPT !.evidence = e] \in PatchSpace
                            /\ [NoPatch EXCEPT !.evidence = e].evidence = e
  <1>1. NoPatch \in PatchSpace /\ NoPatch.evidence = NONE
    BY DEF NoPatch, PatchSpace
  <1>2. \A e \in GpuEvidence : [NoPatch EXCEPT !.evidence = e] \in PatchSpace
                            /\ [NoPatch EXCEPT !.evidence = e].evidence = e
    BY DEF NoPatch, PatchSpace
  <1>3. ASSUME NEW t \in Patches PROVE t \in PatchSpace /\ t.evidence = NONE
    <2>1. CASE \E s \in {"active", "paused", "rejected"} : t = [NoPatch EXCEPT !.status = s]
      BY <2>1 DEF NoPatch, PatchSpace
    <2>2. CASE t = [NoPatch EXCEPT !.named = TRUE, !.status = "active"]
      <3>1. t.named = TRUE /\ t.status = "active" /\ t.evidence = NONE /\ t.machine = NONE
            /\ t \in PatchSpace
        BY <2>2 DEF NoPatch, PatchSpace
      <3> QED
        BY <3>1
    <2>3. CASE \E mm \in Machines : t = [NoPatch EXCEPT !.machine = mm]
      BY <2>3 DEF NoPatch, PatchSpace
    <2> QED
      BY <2>1, <2>2, <2>3 DEF Patches
  <1> QED
    BY <1>1, <1>2, <1>3

LEMMA UpdateRequests ==
  ASSUME GpuIInv, NEW p \in replicas, UNCHANGED <<gpuPolicy, replicas>>,
         tee_gpu_admin_update(p) \/ record_health_receipt(p)
  PROVE  GpuIInv'
  <1>1. CASE tee_gpu_admin_update(p)
    <2>1. PICK patch \in Patches : update_capacity_admin(p, patch, "done")
      BY <1>1 DEF tee_gpu_admin_update
    <2>2. patch \in PatchSpace /\ patch.evidence = NONE
      BY PatchTypes
    <2> QED
      BY <1>1, <2>1, <2>2, UpdateStarts DEF tee_gpu_admin_update
  <1>2. CASE record_health_receipt(p)
    BY <1>2, PatchTypes, UpdateStarts DEF record_health_receipt
  <1> QED
    BY <1>1, <1>2

LEMMA ReviewRequest ==
  ASSUME GpuIInv, NEW p \in replicas, UNCHANGED <<gpuPolicy, replicas>>, review_capacity_evidence(p)
  PROVE  GpuIInv'
  <1>1. PICK status \in {"operator_reviewed", "needs_review", "rejected"} :
           update_capacity_admin(p, [NoPatch EXCEPT !.evidence = [capacity.evidence EXCEPT !.review = status]], "done")
    BY DEF review_capacity_evidence
  <1>2. capacity \in Capacity /\ capacity.evidence \in GpuEvidence
    BY DEF review_capacity_evidence, GpuIInv, GpuTypeOK, Capacity
  <1>3. PICK e : e = [capacity.evidence EXCEPT !.review = status]
    OBVIOUS
  <1>4. e \in GpuEvidence /\ e.review = status
    BY <1>2, <1>3 DEF GpuEvidence, Reviews
  <1>5. PICK patch : patch = [NoPatch EXCEPT !.evidence = e]
    OBVIOUS
  <1>6. patch \in PatchSpace /\ patch.evidence = e
    BY <1>4, <1>5, PatchTypes
  <1>7. update_capacity_admin(p, patch, "done")
    BY <1>1, <1>3, <1>5
  <1> QED
    BY <1>4, <1>6, <1>7, UpdateStarts DEF review_capacity_evidence

LEMMA VerifiedRequest ==
  ASSUME GpuIInv, NEW p \in replicas, UNCHANGED <<gpuPolicy, replicas>>, attestation_verified(p)
  PROVE  GpuIInv'
  <1>1. update_capacity_admin(p, [NoPatch EXCEPT !.evidence = [handler[p].read.evidence EXCEPT !.review = "crypto"]], "done")
    BY DEF attestation_verified
  <1>2. PICK old : old = handler[p].read.evidence
    OBVIOUS
  <1>3. old \in GpuEvidence /\ Accepted(old.of)
    BY <1>2 DEF attestation_verified, GpuAt, GpuIInv, HandlerFits, ReadingPcs, Capacity
  <1>4. PICK e : e = [old EXCEPT !.review = "crypto"]
    OBVIOUS
  <1>5. e \in GpuEvidence /\ e.of = old.of
    BY <1>3, <1>4 DEF GpuEvidence, Reviews
  <1>6. PICK patch : patch = [NoPatch EXCEPT !.evidence = e]
    OBVIOUS
  <1>7. patch \in PatchSpace /\ patch.evidence = e
    BY <1>5, <1>6, PatchTypes
  <1>8. update_capacity_admin(p, patch, "done")
    BY <1>1, <1>2, <1>4, <1>6
  <1> QED
    BY <1>3, <1>5, <1>7, <1>8, UpdateStarts DEF attestation_verified

\* A handler keeps the row it read: for the verifier, a provider receipt or a listing.
LEMMA RowRead ==
  ASSUME GpuIInv, NEW p \in replicas, UNCHANGED <<gpuPolicy, replicas>>,
         verify_capacity_evidence(p) \/ record_provider_status(p) \/ list_capacity_on_chutes(p)
  PROVE  GpuIInv'
  <1>1. PICK pc \in {"verifier", "provider", "claim"} :
           /\ handler' = [handler EXCEPT ![p] = [GpuIdle EXCEPT !.pc = pc, !.read = capacity]]
           /\ pc = "verifier" => capacity.evidence # NONE
    BY DEF verify_capacity_evidence, record_provider_status, list_capacity_on_chutes, GpuGo
  <1>2. capacity \in Capacity /\ capacity # NONE
    BY DEF verify_capacity_evidence, record_provider_status, list_capacity_on_chutes, GpuIInv, GpuTypeOK,
           require_launch_ready_base, chutes_manifest_ready
  <1>3. UNCHANGED <<capacity, receipts, request, verified, approved, replaced>>
    BY DEF verify_capacity_evidence, record_provider_status, list_capacity_on_chutes, gpuLog
  <1>4. PICK h : h = [GpuIdle EXCEPT !.pc = pc, !.read = capacity]
    OBVIOUS
  <1>5. h.pc = pc /\ h.read = capacity
        /\ h = [pc |-> h.pc, read |-> h.read, patch |-> h.patch, then |-> h.then]
    BY <1>4 DEF GpuIdle
  <1>6. HandlerFits(h)
    BY <1>1, <1>2, <1>5 DEF HandlerFits, ReadingPcs
  <1>7. HandlerFits(h)'
    BY <1>2, <1>3, <1>6, HandlerKept
  <1>8. receipts \subseteq {"provider", "health", "usage"}
    BY DEF GpuIInv, GpuTypeOK
  <1>9. handler' = [handler EXCEPT ![p] = h]
    BY <1>1, <1>4
  <1> QED
    BY <1>3, <1>5, <1>7, <1>8, <1>9, HandlerMoves

LEMMA VerifierStep ==
  ASSUME GpuIInv, NEW p \in replicas, UNCHANGED <<gpuPolicy, replicas>>, run_evidence_verifier(p)
  PROVE  GpuIInv'
  <1>1. PICK old : old = handler[p] /\ HandlerFits(old) /\ old.pc = "verifier"
    BY DEF GpuIInv, run_evidence_verifier, GpuAt
  <1>2. UNCHANGED <<capacity, receipts, approved, replaced>> /\ receipts \subseteq {"provider", "health", "usage"}
    BY DEF run_evidence_verifier, GpuIInv, GpuTypeOK
  <1>3. CASE handler' = [handler EXCEPT ![p] = GpuIdle] /\ UNCHANGED verified
    BY <1>2, <1>3, IdleFits, HandlerMoves
  <1>4. ASSUME verified' = verified \cup {[evidence |-> old.read.evidence.of, machine |-> old.read.machine]},
               handler' = [handler EXCEPT ![p] = [old EXCEPT !.pc = "verified"]]
        PROVE  GpuIInv'
    <2>1. PICK h : h = [old EXCEPT !.pc = "verified"]
      OBVIOUS
    <2>2. h.pc = "verified" /\ h.read = old.read
          /\ h = [pc |-> h.pc, read |-> h.read, patch |-> h.patch, then |-> h.then]
      BY <1>1, <2>1 DEF HandlerFits
    <2>3. verified \subseteq verified'
      BY <1>4
    <2>4. PICK m, v : m = old.read.evidence.of /\ v = [evidence |-> m, machine |-> old.read.machine]
      OBVIOUS
    <2>5. v \in verified' /\ v.evidence = m
      BY <1>4, <2>4
    <2>6. Accepted(m)'
      BY <2>5 DEF Accepted
    <2>7. HandlerFits(h)'
      BY <1>1, <1>2, <2>2, <2>4, <2>6 DEF HandlerFits, ReadingPcs
    <2> QED
      BY <1>2, <1>4, <2>1, <2>2, <2>3, <2>7, HandlerMoves
  <1> QED
    BY <1>1, <1>3, <1>4 DEF run_evidence_verifier, GpuGo

\* Only receipts or the request change.
LEMMA HandlersStay ==
  ASSUME GpuIInv, receipts' \subseteq {"provider", "health", "usage"},
         UNCHANGED <<gpuPolicy, replicas, handler, capacity, verified, approved, replaced>>
  PROVE  GpuIInv'
  <1>1. \A h : HandlerFits(h) => HandlerFits(h)'
    BY HandlerKept
  <1>2. \A q \in GpuProcesses : HandlerFits(handler[q])'
    BY <1>1 DEF GpuIInv, HandlerFits
  <1>3. CommandsCounted'
    BY StillCounted DEF Commands, Listing
  <1>4. GpuTypeOK' /\ EvidenceWasVerified' /\ ActiveWasApproved' /\ AloneFits'
    BY EvidenceKept DEF GpuIInv, GpuTypeOK, ActiveWasApproved, AloneFits, Alone
  <1> QED
    BY <1>2, <1>3, <1>4 DEF GpuIInv

LEMMA SmallSteps ==
  ASSUME GpuIInv, NEW p \in replicas, UNCHANGED <<gpuPolicy, replicas>>,
         health_receipt_event(p) \/ record_usage_receipt(p) \/ create_evidence_request(p)
         \/ GpuDies(p)
  PROVE  GpuIInv'
  <1>1. UNCHANGED <<capacity, verified, approved, replaced>>
        /\ receipts' \subseteq receipts \cup {"health", "usage"}
        /\ handler' \in {handler, [handler EXCEPT ![p] = GpuIdle]}
    BY DEF health_receipt_event, record_usage_receipt, create_evidence_request, GpuDies, GpuGo, gpuLog
  <1>2. receipts' \subseteq {"provider", "health", "usage"}
    BY <1>1 DEF GpuIInv, GpuTypeOK
  <1>3. CASE handler' = [handler EXCEPT ![p] = GpuIdle]
    BY <1>1, <1>2, <1>3, IdleFits, HandlerMoves
  <1>4. CASE handler' = handler
    BY <1>1, <1>2, <1>4, HandlersStay
  <1> QED
    BY <1>1, <1>3, <1>4

\* A receipt of the provider, written for the row that was read.
LEMMA ProviderStep ==
  ASSUME GpuIInv, NEW p \in replicas, UNCHANGED <<gpuPolicy, replicas>>, provider_status_write(p)
  PROVE  GpuIInv'
  <1>1. PICK old : old = handler[p] /\ HandlerFits(old) /\ old.pc = "provider"
    BY DEF GpuIInv, provider_status_write, GpuAt
  <1>2. capacity \in Capacity /\ capacity # NONE /\ old.read \in Capacity
    BY <1>1 DEF HandlerFits, ReadingPcs, GpuIInv, GpuTypeOK
  <1>3. PICK row : /\ row = [capacity EXCEPT !.status = "active", !.chutes = "listed", !.named = old.read.named]
                   /\ capacity' = row
    BY <1>1 DEF provider_status_write
  <1>4. row \in Capacity /\ row.machine = capacity.machine /\ row.evidence = capacity.evidence
        /\ row.chutes = "listed"
    BY <1>2, <1>3 DEF Capacity
  <1>5. /\ handler' = [handler EXCEPT ![p] = GpuIdle] /\ UNCHANGED <<verified, replaced>>
        /\ approved' = old.read.machine
        /\ receipts' \subseteq {"provider", "health", "usage"}
    BY <1>1 DEF provider_status_write, GpuGo, GpuIInv, GpuTypeOK
  <1>6. CommandsCounted'
    <2>1. PICK cs : cs = Commands' /\ cs \subseteq Commands
      BY <1>5, IdleFits, NoCommandStarts
    <2>2. IsFiniteSet(Commands) /\ Cardinality(Commands) \in Nat /\ replaced \in Nat
          /\ Cardinality(Commands) <= 1 + replaced
      BY CommandsFinite DEF GpuIInv, CommandsCounted
    <2>3. IsFiniteSet(cs) /\ Cardinality(cs) <= Cardinality(Commands)
      BY <2>1, <2>2, FS_Subset
    <2>4. Cardinality(cs) \in Nat
      BY <2>3, FS_CardinalityType
    <2> QED
      BY <1>3, <1>4, <1>5, <2>1, <2>2, <2>3, <2>4 DEF CommandsCounted
  <1>7. EvidenceWasVerified'
    BY <1>2, <1>3, <1>4, <1>5, EvidenceKept DEF GpuIInv
  <1>8. Alone => approved' = capacity'.machine
    BY <1>1, <1>3, <1>4, <1>5, AloneReads
  <1>9. capacity' # NONE
    BY <1>3, <1>4, NoCapacityIsNone
  <1> QED
    BY <1>3, <1>4, <1>5, <1>6, <1>7, <1>8, <1>9, IdleFits, GpuStepFits

LEMMA ClaimStep ==
  ASSUME GpuIInv, NEW p \in replicas, UNCHANGED <<gpuPolicy, replicas>>, claim_chutes_listing(p)
  PROVE  GpuIInv'
  <1>1. PICK old : old = handler[p] /\ HandlerFits(old) /\ old.pc = "claim"
    BY DEF GpuIInv, claim_chutes_listing, GpuAt
  <1>2. capacity \in Capacity /\ capacity # NONE /\ old.read \in Capacity
    BY <1>1 DEF HandlerFits, ReadingPcs, GpuIInv, GpuTypeOK
  <1>3. UNCHANGED <<receipts, verified, approved, replaced>> /\ receipts \subseteq {"provider", "health", "usage"}
    BY DEF claim_chutes_listing, gpuLog, GpuIInv, GpuTypeOK
  <1>4. CASE ~claim_granted
    BY <1>3, <1>4, IdleFits, HandlerMoves DEF claim_chutes_listing, GpuGo
  <1>5. CASE claim_granted
    <2>1. PICK row : row = [capacity EXCEPT !.chutes = "listing"] /\ capacity' = row
      BY <1>5 DEF claim_chutes_listing
    <2>2. row \in Capacity /\ row.machine = capacity.machine /\ row.evidence = capacity.evidence
          /\ row.status = capacity.status /\ row.chutes = "listing"
      BY <1>2, <2>1 DEF Capacity
    <2>3. PICK h : h = [old EXCEPT !.pc = "command"]
      OBVIOUS
    <2>4. h.pc = "command" /\ h.read = old.read
          /\ h = [pc |-> h.pc, read |-> h.read, patch |-> h.patch, then |-> h.then]
      BY <1>1, <2>3 DEF HandlerFits
    <2>5. handler' = [handler EXCEPT ![p] = h]
      BY <1>1, <1>5, <2>3 DEF claim_chutes_listing, GpuGo
    <2>6. capacity' # NONE /\ capacity' \in Capacity
      BY <2>1, <2>2, NoCapacityIsNone
    <2>7. HandlerFits(h)'
      BY <1>2, <2>4, <2>6 DEF HandlerFits, ReadingPcs
    <2>8. p \notin Commands /\ Commands' = Commands \cup {p}
      BY <1>1, <2>4, <2>5 DEF GpuIInv, Commands, Listing
    <2>9. Cardinality(Commands) <= replaced /\ replaced \in Nat
      <3>1. CASE capacity.chutes = "listing"
        <4>1. Commands = {}
          BY <1>5, <3>1 DEF claim_granted, Commands
        <4>2. Cardinality(Commands) = 0
          BY <4>1, FS_EmptySet
        <4> QED
          BY <4>2 DEF GpuIInv, CommandsCounted
      <3>2. CASE capacity.chutes # "listing"
        BY <1>2, <1>5, <3>2 DEF claim_granted, GpuIInv, CommandsCounted
      <3> QED
        BY <3>1, <3>2
    <2>10. CommandsCounted'
      <3>1. PICK cs, bigger : cs = Commands /\ bigger = Commands' /\ bigger = cs \cup {p} /\ p \notin cs
        BY <2>8
      <3>2. Cardinality(bigger) = Cardinality(cs) + 1 /\ Cardinality(cs) \in Nat
        BY <3>1, CommandsFinite, FS_AddElement
      <3> QED
        BY <1>3, <2>1, <2>2, <2>9, <3>1, <3>2 DEF CommandsCounted
    <2>11. EvidenceWasVerified'
      BY <1>2, <1>3, <2>1, <2>2, EvidenceKept DEF GpuIInv
    <2>12. Alone => h.read.machine = capacity'.machine
      BY <1>1, <2>1, <2>2, <2>4, AloneReads
    <2>13. Alone => ((capacity' # NONE /\ capacity'.status = "active") => approved' = capacity'.machine)
      BY <1>2, <1>3, <2>1, <2>2 DEF GpuIInv, ActiveWasApproved, Alone
    <2> QED
      BY <1>3, <2>4, <2>5, <2>6, <2>7, <2>10, <2>11, <2>12, <2>13, GpuStepFits
  <1> QED
    BY <1>4, <1>5

LEMMA ListStep ==
  ASSUME GpuIInv, NEW p \in replicas, UNCHANGED <<gpuPolicy, replicas>>, chutes_list_write(p)
  PROVE  GpuIInv'
  <1>1. PICK old : old = handler[p] /\ HandlerFits(old) /\ old.pc = "command"
    BY DEF GpuIInv, chutes_list_write, GpuAt
  <1>2. capacity \in Capacity /\ capacity # NONE /\ old.read \in Capacity
    BY <1>1 DEF HandlerFits, ReadingPcs, GpuIInv, GpuTypeOK
  <1>3. PICK status, chutes : /\ status \in {"active", old.read.status} /\ chutes \in {"listed", "list_failed"}
                              /\ capacity' = [capacity EXCEPT !.status = status, !.chutes = chutes]
                              /\ approved' = old.read.machine
    BY <1>1 DEF chutes_list_write
  <1>4. PICK row : row = [capacity EXCEPT !.status = status, !.chutes = chutes] /\ capacity' = row
    BY <1>3
  <1>5. row \in Capacity /\ row.machine = capacity.machine /\ row.evidence = capacity.evidence
    BY <1>2, <1>3, <1>4 DEF Capacity
  <1>6. handler' = [handler EXCEPT ![p] = GpuIdle] /\ UNCHANGED <<verified, replaced, receipts>>
        /\ receipts \subseteq {"provider", "health", "usage"}
    BY DEF chutes_list_write, GpuGo, gpuLog, GpuIInv, GpuTypeOK
  <1>7. CommandsCounted'
    <2>1. PICK cs, less : cs = Commands /\ less = Commands' /\ less = cs \ {p} /\ p \in cs
      BY <1>1, <1>6, IdleFits, NoCommandStarts DEF Commands, Listing, GpuIInv
    <2>2. Cardinality(cs) \in Nat /\ replaced \in Nat /\ Cardinality(cs) <= 1 + replaced
      BY <2>1, CommandsFinite DEF GpuIInv, CommandsCounted
    <2>3. Cardinality(less) = Cardinality(cs) - 1
      BY <2>1, CommandsFinite, FS_RemoveElement
    <2> QED
      BY <1>6, <2>1, <2>2, <2>3 DEF CommandsCounted
  <1>8. EvidenceWasVerified'
    BY <1>2, <1>4, <1>5, <1>6, EvidenceKept DEF GpuIInv
  <1>9. Alone => approved' = capacity'.machine
    BY <1>1, <1>3, <1>4, <1>5, AloneReads
  <1>10. capacity' # NONE
    BY <1>4, <1>5, NoCapacityIsNone
  <1> QED
    BY <1>4, <1>5, <1>6, <1>7, <1>8, <1>9, <1>10, IdleFits, GpuStepFits

\* A request of one transaction that writes the row of an idle process.
LEMMA RowWritten ==
  ASSUME GpuIInv, NEW p \in replicas, handler[p].pc = "idle", NEW row \in Capacity, capacity' = row,
         UNCHANGED <<gpuPolicy, replicas, handler, receipts, verified>>,
         row.evidence # NONE => row.evidence.review # "crypto",
         \/ replaced' = replaced + 1
         \/ replaced' = replaced /\ capacity = NONE
         \/ replaced' = replaced /\ capacity'.chutes = capacity.chutes,
         Alone => (row.status = "active" => approved' = row.machine)
  PROVE  GpuIInv'
  <1>1. PICK h : h = handler[p] /\ HandlerFits(h) /\ h.pc = "idle"
    BY DEF GpuIInv
  <1>2. handler' = [handler EXCEPT ![p] = h]
    BY <1>1 DEF GpuIInv
  <1>3. capacity' \in Capacity /\ capacity' # NONE
    BY NoCapacityIsNone
  <1>4. HandlerFits(h)'
    BY <1>1, <1>3, HandlerKept
  <1>5. CommandsCounted'
    BY StillCounted DEF Commands, Listing
  <1>6. EvidenceWasVerified'
    BY DEF EvidenceWasVerified
  <1>7. receipts' \subseteq {"provider", "health", "usage"}
    BY DEF GpuIInv, GpuTypeOK
  <1> QED
    BY <1>1, <1>2, <1>3, <1>4, <1>5, <1>6, <1>7, GpuStepFits

LEMMA NewCapacityFacts ==
  ASSUME NEW m \in Machines, NEW e \in GpuEvidence \cup {NONE}
  PROVE  /\ NewCapacity(m, e, TRUE) \in Capacity /\ NewCapacity(m, e, TRUE).machine = m
         /\ NewCapacity(m, e, TRUE).evidence = e /\ NewCapacity(m, e, TRUE).status = "pending"
  <1>1. PICK c : c = [machine |-> m, authorized |-> TRUE, evidence |-> e, status |-> "pending",
                      preflight |-> "blocked", named |-> FALSE, chutes |-> ""]
    OBVIOUS
  <1>2. c \in Capacity /\ c.machine = m /\ c.evidence = e /\ c.status = "pending"
    BY <1>1 DEF Capacity
  <1>3. NewCapacity(m, e, TRUE) = Preflighted(c)
    BY <1>1 DEF NewCapacity
  <1> QED
    BY <1>2, <1>3, PreflightFacts

\* An offer: what it changes of an approved row sends it back to review.
LEMMA OfferStep ==
  ASSUME GpuIInv, NEW p \in replicas, NEW m \in Machines, NEW e \in GpuEvidence \cup {NONE},
         UNCHANGED <<gpuPolicy, replicas>>, tee_gpu_submit_offer(p, m, e)
  PROVE  GpuIInv'
  <1>1. PICK ev : ev = attestation_input_json(e)
    OBVIOUS
  <1>2. ev \in GpuEvidence \cup {NONE} /\ (ev # NONE => ev.review = "none")
    BY <1>1 DEF attestation_input_json, GpuEvidence, Reviews
  <1>3. PICK row : row = NewCapacity(m, ev, TRUE)
    OBVIOUS
  <1>4. row \in Capacity /\ row.machine = m /\ row.evidence = ev /\ row.status = "pending"
    BY <1>2, <1>3, NewCapacityFacts
  <1>5. /\ handler[p].pc = "idle" /\ UNCHANGED <<handler, receipts, verified, approved>>
        /\ replaced' = IF capacity # NONE /\ material_changed(capacity, row) THEN replaced + 1 ELSE replaced
    BY <1>1, <1>3 DEF tee_gpu_submit_offer, GpuAt, gpuLog, Replaced
  <1>6. CASE capacity = NONE
    <2>1. capacity' = row
      BY <1>1, <1>3, <1>6 DEF tee_gpu_submit_offer
    <2> QED
      BY <1>2, <1>4, <1>5, <1>6, <2>1, RowWritten
  <1>7. CASE capacity # NONE
    <2>1. capacity \in Capacity
      BY <1>7 DEF GpuIInv, GpuTypeOK
    <2>2. PICK left : left = [row EXCEPT !.status = capacity.status, !.named = capacity.named, !.chutes = capacity.chutes]
      OBVIOUS
    <2>3. left \in Capacity /\ left.machine = m /\ left.evidence = ev
          /\ left.status = capacity.status /\ left.chutes = capacity.chutes
      BY <1>4, <2>1, <2>2 DEF Capacity
    <2>4. capacity' = Settled(IF material_changed(capacity, row) THEN Reopened(capacity, left) ELSE left)
      BY <1>1, <1>3, <1>7, <2>2 DEF tee_gpu_submit_offer
    <2>5. CASE material_changed(capacity, row)
      <3>1. PICK now : now = Settled(Reopened(capacity, left))
        OBVIOUS
      <3>2. now \in Capacity /\ now.evidence = ev /\ now.status # "active"
        BY <2>1, <2>3, <3>1, ReopenedFacts, SettledFacts
      <3> QED
        BY <1>2, <1>5, <1>7, <2>4, <2>5, <3>1, <3>2, RowWritten
    <2>6. CASE ~material_changed(capacity, row)
      <3>1. PICK now : now = Settled(left)
        OBVIOUS
      <3>2. /\ now \in Capacity /\ now.evidence = ev /\ now.machine = capacity.machine
            /\ now.chutes = capacity.chutes /\ (now.status = "active" => capacity.status = "active")
        BY <1>4, <2>3, <2>6, <3>1, SettledFacts DEF material_changed
      <3>3. Alone => (now.status = "active" => approved' = now.machine)
        BY <1>5, <1>7, <3>2 DEF GpuIInv, ActiveWasApproved, Alone
      <3> QED
        BY <1>2, <1>5, <2>4, <2>6, <3>1, <3>2, <3>3, RowWritten
    <2> QED
      BY <2>5, <2>6
  <1> QED
    BY <1>6, <1>7

\* An admin record: the operator saw what it makes active.
LEMMA CreateStep ==
  ASSUME GpuIInv, NEW p \in replicas, NEW m \in Machines, NEW e \in GpuEvidence, NEW active \in BOOLEAN,
         UNCHANGED <<gpuPolicy, replicas>>, tee_gpu_admin_create(p, m, e, active)
  PROVE  GpuIInv'
  <1>1. PICK bare : bare = NewCapacity(m, e, TRUE)
    OBVIOUS
  <1>2. bare \in Capacity /\ bare.evidence = e
    BY <1>1, NewCapacityFacts
  <1>3. PICK row : row = [bare EXCEPT !.named = TRUE]
    OBVIOUS
  <1>4. PICK full : full = IF active THEN [row EXCEPT !.status = "active"] ELSE row
    OBVIOUS
  <1>5. row \in Capacity /\ row.evidence = e
    BY <1>2, <1>3 DEF Capacity
  <1>6. full \in Capacity /\ full.evidence = e
    BY <1>4, <1>5 DEF Capacity
  <1>7. PICK now : now = Settled(full)
    OBVIOUS
  <1>8. now \in Capacity /\ now.evidence = e
    BY <1>6, <1>7, SettledFacts
  <1>9. /\ handler[p].pc = "idle" /\ UNCHANGED <<handler, receipts, verified>>
        /\ replaced' = IF capacity # NONE THEN replaced + 1 ELSE replaced
        /\ capacity' = now /\ (now.status = "active" => approved' = now.machine)
    BY <1>1, <1>3, <1>4, <1>7 DEF tee_gpu_admin_create, GpuAt, gpuLog, Replaced, Seen
  <1>10. e # NONE => e.review # "crypto"
    BY DEF tee_gpu_admin_create
  <1> QED
    BY <1>8, <1>9, <1>10, RowWritten

\* The write of an update: the columns that it changes.
LEMMA UpdateWrites ==
  ASSUME GpuIInv, NEW p \in replicas, UNCHANGED <<gpuPolicy, replicas>>, admin_update_write(p)
  PROVE  GpuIInv'
  <1>1. PICK old : old = handler[p] /\ HandlerFits(old) /\ old.pc = "update"
    BY DEF GpuIInv, admin_update_write, GpuAt
  <1>2. PICK read, patch, view : read = old.read /\ patch = old.patch /\ view = AdminView(read, patch)
    OBVIOUS
  <1>3. capacity \in Capacity /\ capacity # NONE /\ read \in Capacity /\ patch \in PatchSpace /\ view # NONE
    BY <1>1, <1>2 DEF HandlerFits, ReadingPcs, GpuIInv, GpuTypeOK
  <1>4. view \in Capacity /\ view.machine = Or(patch.machine, read.machine)
    BY <1>2, <1>3, AdminViewFacts
  <1>5. PICK status, chutes :
           /\ status = IF patch.status # NONE \/ view.status # read.status THEN view.status ELSE capacity.status
           /\ chutes = IF view.chutes # read.chutes THEN view.chutes ELSE capacity.chutes
    OBVIOUS
  <1>6. PICK evidence, named, machine :
           /\ evidence = Or(patch.evidence, capacity.evidence) /\ named = Or(patch.named, capacity.named)
           /\ machine = Or(patch.machine, capacity.machine)
    OBVIOUS
  <1>7. PICK row : row = [capacity EXCEPT !.status = status, !.evidence = evidence, !.named = named,
                                          !.machine = machine, !.chutes = chutes, !.preflight = view.preflight]
    OBVIOUS
  <1>8. capacity' = row
    BY <1>1, <1>2, <1>5, <1>6, <1>7 DEF admin_update_write
  <1>9. /\ status \in {"pending", "active", "paused", "rejected"}
        /\ chutes \in {"", "listing", "listed", "list_failed", "needs_relisting", "needs_review"}
        /\ view.preflight \in {"eligible", "blocked", "exploratory"}
    BY <1>3, <1>4, <1>5 DEF Capacity
  <1>10. evidence \in GpuEvidence \cup {NONE} /\ named \in BOOLEAN /\ machine \in Machines
    BY <1>3, <1>6 DEF Or, PatchSpace, Capacity
  <1>11. row \in Capacity /\ row.status = status /\ row.evidence = evidence /\ row.machine = machine
         /\ row.chutes = chutes
    <2>1. PICK half : half = [capacity EXCEPT !.status = status, !.evidence = evidence, !.named = named]
      OBVIOUS
    <2>2. half \in Capacity /\ half.status = status /\ half.evidence = evidence
      BY <1>3, <1>9, <1>10, <2>1 DEF Capacity
    <2>3. row = [half EXCEPT !.machine = machine, !.chutes = chutes, !.preflight = view.preflight]
      BY <1>7, <2>1, Zenon
    <2> QED
      BY <1>9, <1>10, <2>2, <2>3 DEF Capacity
  <1>12. PICK h : h = IF old.then = "done" THEN GpuIdle ELSE [GpuIdle EXCEPT !.pc = old.then]
    OBVIOUS
  <1>13. /\ handler' = [handler EXCEPT ![p] = h] /\ UNCHANGED <<receipts, verified>>
         /\ receipts \subseteq {"provider", "health", "usage"}
         /\ replaced' = IF view.chutes # read.chutes THEN replaced + 1 ELSE replaced
         /\ approved' = IF view.status = "active" THEN view.machine ELSE approved
    BY <1>1, <1>2, <1>12 DEF admin_update_write, GpuGo, Replaced, Seen, gpuLog, GpuIInv, GpuTypeOK
  <1>14. h.pc \in {"idle", "health"} /\ HandlerFits(h)'
    <2>1. old.then \in {"done", "health"}
      BY <1>1 DEF HandlerFits
    <2>2. h.pc \in {"idle", "health"} /\ h.read = NONE
          /\ h = [pc |-> h.pc, read |-> h.read, patch |-> h.patch, then |-> h.then]
      BY <1>12, <2>1 DEF GpuIdle
    <2> QED
      BY <2>2 DEF HandlerFits, ReadingPcs
  <1>15. capacity' \in Capacity /\ capacity' # NONE
    BY <1>8, <1>11, NoCapacityIsNone
  <1>16. CommandsCounted'
    <2>1. Commands' \subseteq Commands
      BY <1>13, <1>14, NoCommandStarts
    <2> QED
      BY <1>5, <1>8, <1>11, <1>13, <2>1, StillCounted
  <1>17. EvidenceWasVerified'
    <2>1. CASE patch.evidence = NONE
      BY <1>3, <1>6, <1>8, <1>11, <1>13, <2>1, EvidenceKept DEF GpuIInv, Or
    <2>2. CASE patch.evidence # NONE
      <3>1. patch.evidence.review = "crypto" => Accepted(patch.evidence.of)
        BY <1>1, <1>2, <2>2 DEF HandlerFits
      <3> QED
        BY <1>6, <1>8, <1>11, <1>13, <2>2, <3>1 DEF Or, Accepted, EvidenceWasVerified
    <2> QED
      BY <2>1, <2>2
  <1>18. Alone => (capacity'.status = "active" => approved' = capacity'.machine)
    <2>1. SUFFICES ASSUME Alone PROVE capacity'.status = "active" => approved' = capacity'.machine
      OBVIOUS
    <2>2. read = capacity
      BY <1>1, <1>2, <2>1, AloneReads
    <2>3. status = view.status /\ machine = view.machine
      BY <1>4, <1>5, <1>6, <2>2
    <2> QED
      BY <1>8, <1>11, <1>13, <2>3
  <1> QED
    BY <1>13, <1>14, <1>15, <1>16, <1>17, <1>18, GpuStepFits

LEMMA GpuBegins == GpuInit => GpuIInv
  <1> SUFFICES ASSUME GpuInit PROVE GpuIInv
    OBVIOUS
  <1>1. handler = [p \in GpuProcesses |-> GpuIdle] /\ replaced = 0
        /\ receipts \subseteq {"provider", "health", "usage"}
    BY DEF GpuInit
  <1>2. replicas \subseteq GpuProcesses
    BY GpuConstants DEF GpuInit
  <1>3. \A p \in GpuProcesses : handler[p] = GpuIdle
    BY <1>1
  <1>4. Commands = {}
    BY <1>3, IdleFits DEF Commands, Listing
  <1>5. CommandsCounted
    <2>1. Cardinality(Commands) = 0
      BY <1>4, FS_EmptySet
    <2> QED
      BY <1>1, <2>1 DEF CommandsCounted
  <1>6. /\ capacity \in Capacity \cup {NONE} /\ EvidenceWasVerified
        /\ (capacity # NONE => approved = capacity.machine)
    <2>1. CASE capacity = NONE
      BY <2>1 DEF EvidenceWasVerified
    <2>2. CASE capacity # NONE
      <3>1. PICK m \in TeeProfiles, listed \in BOOLEAN :
              /\ capacity = [machine |-> m, authorized |-> TRUE, preflight |-> "eligible",
                             evidence |-> [of |-> m, asked |-> TRUE, review |-> "crypto"],
                             status |-> "active", named |-> TRUE, chutes |-> IF listed THEN "listed" ELSE ""]
              /\ verified = {[evidence |-> m, machine |-> m]} /\ approved = m
        BY <2>2 DEF GpuInit
      <3>2. m \in Machines
        BY GpuConstants
      <3>3. PICK e : e = [of |-> m, asked |-> TRUE, review |-> "crypto"]
        OBVIOUS
      <3>4. e \in GpuEvidence /\ e.of = m
        BY <3>2, <3>3 DEF GpuEvidence, Reviews
      <3>5. capacity \in Capacity /\ capacity.machine = m /\ capacity.evidence = e
        BY <3>1, <3>2, <3>3, <3>4 DEF Capacity
      <3>6. PICK v : v = [evidence |-> m, machine |-> m]
        OBVIOUS
      <3>7. v \in verified /\ v.evidence = capacity.evidence.of
        BY <3>1, <3>4, <3>5, <3>6
      <3> QED
        BY <3>1, <3>5, <3>7 DEF EvidenceWasVerified
    <2> QED
      BY <2>1, <2>2
  <1>7. GpuTypeOK /\ ActiveWasApproved
    BY <1>1, <1>3, <1>6 DEF GpuTypeOK, ActiveWasApproved, GpuIdle
  <1>8. AloneFits
    BY <1>2, <1>3, IdleFits DEF AloneFits
  <1>9. \A p \in GpuProcesses : HandlerFits(handler[p]) /\ (p \notin replicas => handler[p].pc = "idle")
    BY <1>3, IdleFits
  <1>10. handler = [p \in GpuProcesses |-> handler[p]]
    BY <1>1
  <1> QED
    BY <1>2, <1>5, <1>6, <1>7, <1>8, <1>9, <1>10 DEF GpuIInv

LEMMA OfferedStep ==
  ASSUME GpuIInv, UNCHANGED <<gpuPolicy, replicas>>, Offered
  PROVE  GpuIInv'
  <1>1. PICK p \in replicas, m \in Machines :
          \/ tee_gpu_submit_offer(p, m, NONE)
          \/ \E asked \in BOOLEAN, r \in {"none", "crypto"} :
                tee_gpu_submit_offer(p, m, [of |-> m, asked |-> asked, review |-> r])
          \/ \E active \in BOOLEAN : tee_gpu_admin_create(p, m, [of |-> m, asked |-> TRUE, review |-> "operator_reviewed"], active)
    BY DEF Offered
  <1>2. CASE tee_gpu_submit_offer(p, m, NONE)
    BY <1>2, OfferStep
  <1>3. CASE \E asked \in BOOLEAN, r \in {"none", "crypto"} :
                tee_gpu_submit_offer(p, m, [of |-> m, asked |-> asked, review |-> r])
    <2>1. PICK asked \in BOOLEAN, r \in {"none", "crypto"} :
                tee_gpu_submit_offer(p, m, [of |-> m, asked |-> asked, review |-> r])
      BY <1>3
    <2>2. [of |-> m, asked |-> asked, review |-> r] \in GpuEvidence
      BY DEF GpuEvidence, Reviews
    <2> QED
      BY <2>1, <2>2, OfferStep
  <1>4. CASE \E active \in BOOLEAN : tee_gpu_admin_create(p, m, [of |-> m, asked |-> TRUE, review |-> "operator_reviewed"], active)
    <2>1. [of |-> m, asked |-> TRUE, review |-> "operator_reviewed"] \in GpuEvidence
      BY DEF GpuEvidence, Reviews
    <2> QED
      BY <1>4, <2>1, CreateStep
  <1> QED
    BY <1>1, <1>2, <1>3, <1>4

LEMMA GpuNextStep ==
  ASSUME GpuIInv, [GpuNext]_gpuVars
  PROVE  GpuIInv'
  <1>1. CASE UNCHANGED gpuVars
    BY <1>1, HandlersStay DEF gpuVars, GpuIInv, GpuTypeOK
  <1>2. CASE GpuNext
    <2>1. UNCHANGED <<gpuPolicy, replicas>>
      BY <1>2 DEF GpuNext
    <2>2. CASE Offered
      BY <2>1, <2>2, OfferedStep
    <2>3. CASE request_expires
      BY <2>1, <2>3, HandlersStay DEF request_expires, GpuIInv, GpuTypeOK
    <2>4. ASSUME NEW p \in replicas, Administered(p)
          PROVE  GpuIInv'
      <3>1. CASE tee_gpu_admin_update(p) \/ record_health_receipt(p)
        BY <2>1, <3>1, UpdateRequests
      <3>2. CASE review_capacity_evidence(p)
        BY <2>1, <3>2, ReviewRequest
      <3>3. CASE attestation_verified(p)
        BY <2>1, <3>3, VerifiedRequest
      <3>4. CASE verify_capacity_evidence(p) \/ record_provider_status(p) \/ list_capacity_on_chutes(p)
        BY <2>1, <3>4, RowRead
      <3>5. CASE run_evidence_verifier(p)
        BY <2>1, <3>5, VerifierStep
      <3>6. CASE health_receipt_event(p) \/ record_usage_receipt(p) \/ create_evidence_request(p)
        BY <2>1, <3>6, SmallSteps
      <3>7. CASE provider_status_write(p)
        BY <2>1, <3>7, ProviderStep
      <3>8. CASE claim_chutes_listing(p)
        BY <2>1, <3>8, ClaimStep
      <3>9. CASE chutes_list_write(p)
        BY <2>1, <3>9, ListStep
      <3>10. CASE admin_update_write(p)
        BY <2>1, <3>10, UpdateWrites
      <3> QED
        BY <2>4, <3>1, <3>2, <3>3, <3>4, <3>5, <3>6, <3>7, <3>8, <3>9, <3>10 DEF Administered
    <2>5. ASSUME NEW p \in replicas, GpuDies(p)
          PROVE  GpuIInv'
      BY <2>1, <2>5, SmallSteps
    <2> QED
      BY <1>2, <2>2, <2>3, <2>4, <2>5 DEF GpuNext
  <1> QED
    BY <1>1, <1>2

LEMMA GpuSafe == GpuIInv => GpuInv
  BY DEF GpuIInv, GpuInv, CommandsCounted, Commands, OneAddNode

\* A capacity row is never active for a machine no operator saw, its evidence is
\* never called verified unless the verifier accepted it, and the listing command
\* runs at most once for each time the row was replaced or reopened (GpuInv), for
\* any number of processes, machines and requests.
THEOREM CapacityApproved == GpuSpec => []GpuInv
  <1>1. GpuIInv /\ [GpuNext]_gpuVars => GpuIInv'
    BY GpuNextStep
  <1> QED
    BY <1>1, GpuBegins, GpuSafe, PTL DEF GpuSpec

----------------------------------------------------------------------------
(* Blobs                                                                    *)
WebJob == [pc : {"free", "put", "fill", "close", "answer", "inline"},
           route : {"upload", "mirror", "manifest", NONE}, blob : Blobs \cup {NONE}]
\* A process at work serves a blob; a worker has claimed a row that is there.
BlobIInv ==
    /\ BlobInv
    /\ webs \in [Webs -> WebJob] /\ \A t \in Webs : webs[t].pc # "free" => webs[t].blob \in Blobs
    /\ checking \in [Checkers -> Blobs \cup {NONE}]
    /\ \A w \in Checkers : checking[w] # NONE => manifests[checking[w]] \in Manifest

LEMMA BlobBegins == BlobInit => BlobIInv
  BY DEF BlobInit, BlobIInv, BlobInv, BlobTypeOK, TornNeverScored, NoJob, Kinds, WebJob, Contents

\* A process that takes up, goes on with or ends a request.
LEMMA WebsKept ==
  ASSUME BlobIInv, NEW t \in Webs, NEW job \in WebJob, job.pc # "free" => job.blob \in Blobs,
         webs' = [webs EXCEPT ![t] = job]
  PROVE  webs' \in [Webs -> WebJob] /\ \A v \in Webs : webs'[v].pc # "free" => webs'[v].blob \in Blobs
  BY DEF BlobIInv

LEMMA BlobStep ==
  ASSUME BlobIInv, [BlobNext]_blobVars PROVE BlobIInv'
  <1> USE DEF BlobIInv, BlobInv, BlobTypeOK, TornNeverScored
  <1>0. NoJob \in WebJob /\ NoJob.pc = "free"
    BY DEF NoJob, WebJob
  <1>1. ASSUME NEW t \in Webs, NEW route \in {"upload", "mirror", "manifest"}, NEW b \in Blobs,
               NEW wrong \in Faulty \cup {NONE}, Request(t, route, b, wrong)
        PROVE  BlobIInv'
    <2>1. PICK pc \in {"inline", "put"} :
             webs' = [webs EXCEPT ![t] = [route |-> route, blob |-> b, pc |-> pc]]
      BY <1>1 DEF Request
    <2>2. [route |-> route, blob |-> b, pc |-> pc] \in WebJob
      BY DEF WebJob
    <2> QED
      BY <1>1, <2>1, <2>2, WebsKept DEF Request
  <1>2. ASSUME NEW t \in Webs, put_blob(t) PROVE BlobIInv'
    <2>1. PICK pc \in {"fill", "close", "answer"} : webs' = [webs EXCEPT ![t].pc = pc]
      BY <1>2 DEF put_blob, Goto
    <2>2. \/ disk' = disk
          \/ \E c \in {"empty", "part", "whole"} : disk' = [disk EXCEPT ![PathOf(t)] = c]
      BY <1>2 DEF put_blob
    <2>3. disk' \in [Kinds \X Blobs -> Contents]
      BY <2>2 DEF Contents
    <2>4. webs[t] \in WebJob /\ webs[t].blob \in Blobs
      BY <1>2 DEF put_blob
    <2>5. PICK job \in WebJob : job.blob \in Blobs /\ webs' = [webs EXCEPT ![t] = job]
      BY <2>1, <2>4 DEF WebJob
    <2>6. UNCHANGED <<uploaded, mirrored, manifests, checking, scored>>
      BY <1>2 DEF put_blob
    <2>7. webs' \in [Webs -> WebJob] /\ \A v \in Webs : webs'[v].pc # "free" => webs'[v].blob \in Blobs
      BY <2>5, WebsKept
    <2> QED
      BY <2>3, <2>6, <2>7 DEF WebJob
  <1>3. ASSUME NEW t \in Webs, upload_solution_blob_v2(t) \/ shadow_v1_submit_v2(t) PROVE BlobIInv'
    <2>1. webs[t].blob \in Blobs /\ webs' = [webs EXCEPT ![t] = NoJob]
      BY <1>3 DEF upload_solution_blob_v2, shadow_v1_submit_v2, Done
    <2> QED
      BY <1>0, <1>3, <2>1, WebsKept DEF upload_solution_blob_v2, shadow_v1_submit_v2, v2_shadow_v1_admit
  <1>4. ASSUME NEW t \in Webs, submit_solution_manifest_v2(t) PROVE BlobIInv'
    <2>1. PICK b, c : /\ b = webs[t].blob /\ c = fetch(b)
                      /\ manifests' = [manifests EXCEPT ![b] =
                             IF manifests[b] # NONE THEN manifests[b] ELSE [inline |-> c, status |-> "received"]]
      BY <1>4 DEF submit_solution_manifest_v2
    <2>2. b \in Blobs
      BY <1>4, <2>1 DEF submit_solution_manifest_v2
    <2>3. [inline |-> c, status |-> "received"] \in Manifest
      BY <2>1, <2>2 DEF fetch, Kinds, Manifest
    <2>4. manifests' \in [Blobs -> Manifest \cup {NONE}]
      BY <2>1, <2>2, <2>3
    <2>5. \A x \in Blobs : manifests[x] \in Manifest => manifests'[x] = manifests[x]
      BY <2>1, <2>2, NoManifestIsNone
    <2>6. webs' = [webs EXCEPT ![t] = NoJob] /\ UNCHANGED <<disk, uploaded, mirrored, checking, scored>>
      BY <1>4 DEF submit_solution_manifest_v2, Done
    <2>7. \A w \in Checkers : checking[w] # NONE => manifests'[checking[w]] \in Manifest
      BY <2>5
    <2> QED
      BY <1>0, <2>4, <2>6, <2>7, WebsKept
  <1>5. ASSUME NEW t \in Webs, WebDies(t) PROVE BlobIInv'
    BY <1>0, <1>5, WebsKept DEF WebDies, Done
  <1>6. ASSUME NEW w \in Checkers, NEW b \in Blobs, Claim(w, b) PROVE BlobIInv'
    <2>1. manifests[b] \in Manifest /\ manifests' = [manifests EXCEPT ![b].status = "verifying"]
          /\ checking' = [checking EXCEPT ![w] = b] /\ UNCHANGED <<disk, webs, uploaded, mirrored, scored>>
      BY <1>6 DEF Claim
    <2>2. manifests' \in [Blobs -> Manifest \cup {NONE}] /\ manifests'[b] \in Manifest
          /\ \A x \in Blobs : manifests[x] \in Manifest => manifests'[x] \in Manifest
      BY <2>1 DEF Manifest
    <2>3. \A v \in Checkers : checking'[v] # NONE => manifests'[checking'[v]] \in Manifest
      BY <2>1, <2>2
    <2> QED
      BY <2>1, <2>2, <2>3
  <1>7. ASSUME NEW w \in Checkers, verify_bytes(w) PROVE BlobIInv'
    <2>1. PICK b, s : /\ b = checking[w] /\ s \in {"verified", "rejected"}
                      /\ manifests' = [manifests EXCEPT ![b].status = s]
      BY <1>7 DEF verify_bytes
    <2>2. b \in Blobs /\ manifests[b] \in Manifest
      BY <1>7, <2>1 DEF verify_bytes
    <2>3. scored' \subseteq {"whole"}
      BY <1>7 DEF verify_bytes, sha_matches
    <2>4. checking' = [checking EXCEPT ![w] = NONE] /\ UNCHANGED <<disk, webs, uploaded, mirrored>>
      BY <1>7 DEF verify_bytes
    <2>5. manifests' \in [Blobs -> Manifest \cup {NONE}]
          /\ \A x \in Blobs : manifests[x] \in Manifest => manifests'[x] \in Manifest
      BY <2>1, <2>2 DEF Manifest
    <2>6. \A v \in Checkers : checking'[v] # NONE => manifests'[checking'[v]] \in Manifest
      BY <2>4, <2>5
    <2> QED
      BY <2>3, <2>4, <2>5, <2>6
  <1>8. CASE Redeploy
    BY <1>0, <1>8 DEF Redeploy, Contents
  <1>9. CASE UNCHANGED blobVars
    BY <1>9 DEF blobVars
  <1>10. ASSUME NEW t \in Webs, NEW route, NEW b, NEW wrong, normalize_manifest(t, route, b, wrong)
         PROVE  BlobIInv'
    BY <1>9, <1>10 DEF normalize_manifest
  <1> QED
    BY <1>1, <1>2, <1>3, <1>4, <1>5, <1>6, <1>7, <1>8, <1>9, <1>10 DEF BlobNext

\* No solution is scored from a file that was captured half written, whatever web
\* process dies and however often the disk is emptied (blob_store.py, verify_one).
THEOREM BlobsWhole == BlobSpec => []BlobInv
  <1>1. BlobIInv => BlobInv
    BY DEF BlobIInv
  <1> QED
    BY <1>1, BlobBegins, BlobStep, PTL DEF BlobSpec

----------------------------------------------------------------------------
(* The solver arena                                                         *)

LEMMA MinIsIn ==
  ASSUME NEW T \in SUBSET Nat, T # {}
  PROVE  Min(T) \in T
  BY LeastNatural DEF Min

\* A list of anything grows at its end.
LEMMA Appended ==
  ASSUME NEW s, \E S : s \in Seq(S), NEW x, NEW t, t = Append(s, x)
  PROVE  /\ \E S : t \in Seq(S)
         /\ Len(s) \in Nat /\ Len(t) = Len(s) + 1 /\ DOMAIN s = 1 .. Len(s) /\ DOMAIN t = 1 .. Len(s) + 1
         /\ \A i \in 1 .. Len(s) : t[i] = s[i]
         /\ t[Len(s) + 1] = x
  <1>1. PICK S : s \in Seq(S)
    OBVIOUS
  <1>2. PICK S2 : S2 = S \cup {x}
    OBVIOUS
  <1>3. s \in Seq(S2) /\ x \in S2
    <2>1. \A i \in 1 .. Len(s) : s[i] \in S2
      BY <1>1, <1>2
    <2> QED
      BY <1>1, <1>2, <2>1
  <1> QED
    BY <1>3

Statuses == {"pending", "evaluated", "champion", "retired"}
Owners == {e[2] : e \in Publications}
Row == [source : Sources, owner : Owners, status : Statuses]
Instance == [owner : {b.owner : b \in Breakers}, task : {b.task : b \in Breakers},
             round : {b.round : b \in Breakers}, body : {b.body : b \in Breakers}, last : Nat \cup {NONE}]

LaneShape ==
    /\ lane = [known |-> lane.known, evaluated |-> lane.evaluated, cid |-> lane.cid, total |-> lane.total,
               closed |-> lane.closed, seed |-> lane.seed]
    /\ lane.known \subseteq Sources /\ lane.evaluated \subseteq lane.known
    /\ lane.cid \in lane.evaluated \cup {NONE}

\* A source has one row, of a hotkey that published it.
RowsFit ==
    /\ solvers \in Seq(Row)
    /\ \A i \in DOMAIN solvers : <<solvers[i].source, solvers[i].owner>> \in Publications
    /\ \A i, j \in DOMAIN solvers : solvers[i].source = solvers[j].source => i = j
    /\ \A e \in enrolling : e = [source |-> e.source, owner |-> e.owner] /\ <<e.source, e.owner>> \in Publications

\* What the tick has yet to evaluate is still pending.
TickFits ==
    /\ evaluator = [pc |-> evaluator.pc, queue |-> evaluator.queue, batch |-> evaluator.batch,
                    verdict |-> evaluator.verdict]
    /\ evaluator.pc \in {"idle", "next", "write"}
    /\ evaluator.queue \subseteq DOMAIN solvers
    /\ \A i \in evaluator.queue : solvers[i].status = "pending"
    /\ evaluator.pc = "write" => evaluator.queue # {}

\* A record is of a solver that has left pending, and names its owner.
RecordsFit ==
    /\ \E S : records \in Seq(S)
    /\ \A i, j \in DOMAIN records : records[i].source = records[j].source => i = j
    /\ \A i \in DOMAIN records : \E k \in DOMAIN solvers :
          /\ solvers[k].source = records[i].source /\ solvers[k].owner = records[i].owner
          /\ solvers[k].status \in {"champion", "retired"}

\* What a settlement tick found stays so: who runs, and the instances it read.
Copy(q) == /\ q = <<q[1], q[2]>> /\ q[1] \in DOMAIN breakers
           /\ q[2].task = breakers[q[1]].task /\ q[2] \in Instance
CanRun == {s \in Sources : adapter_for_spec(s) # NONE}
Disagrees(c, h, task) ==
    /\ c # h /\ c \in CanRun
    /\ LET r == Behaves[adapter_for_spec(c)][task] IN r.genuine /\ ~TimesOut(r)
    /\ champion_times_out(h, task)
PayerFits(p) ==
    /\ payer[p] = [pc |-> payer[p].pc, queue |-> payer[p].queue, champ |-> payer[p].champ,
                   closers |-> payer[p].closers, round |-> payer[p].round, due |-> payer[p].due]
    /\ payer[p].pc \in {"idle", "settle", "pay"}
    /\ payer[p].closers \subseteq CanRun /\ payer[p].round \in Nat
    /\ \E S : payer[p].queue \in Seq(S)
    /\ \A i \in DOMAIN payer[p].queue : Copy(payer[p].queue[i])
    /\ payer[p].pc = "pay" =>
          /\ payer[p].queue # <<>>
          /\ Disagrees(payer[p].due.closer, payer[p].champ, Head(payer[p].queue)[2].task)

\* The last payment of an instance is the one its row knows.
LedgerFits ==
    /\ \E S : settlements \in Seq(S)
    /\ \A i \in DOMAIN settlements :
          LET x == settlements[i]
          IN  /\ x.breaker \in DOMAIN breakers
              /\ Disagrees(x.closer, x.champ, breakers[x.breaker].task)
              /\ (\A j \in i + 1 .. Len(settlements) : settlements[j].breaker # x.breaker)
                    => breakers[x.breaker].last = x.round


\* Two payments of an instance for one round have one of another round between them.
OncePerRound ==
    \A i, j \in DOMAIN settlements :
        i < j /\ settlements[i].breaker = settlements[j].breaker /\ settlements[i].round = settlements[j].round
          => \E k \in i + 1 .. j - 1 : /\ settlements[k].breaker = settlements[i].breaker
                                       /\ settlements[k].round # settlements[i].round

LaneS == LaneShape /\ RowsFit /\ TickFits /\ RecordsFit
LaneI ==
    /\ breakers \in Seq(Instance) /\ arenaRound \in Nat
    /\ payer = [p \in Payers |-> payer[p]] /\ \A p \in Payers : PayerFits(p)
    /\ LedgerFits /\ OncePerRound
ArenaIInv == LaneS /\ LaneI

LEMMA LaneSKept ==
  ASSUME LaneS, UNCHANGED <<lane, solvers, enrolling, evaluator, records>>
  PROVE  LaneS'
  BY DEF LaneS, LaneShape, RowsFit, TickFits, RecordsFit

LEMMA LaneIKept ==
  ASSUME LaneI, UNCHANGED <<runner, breakers, payer, arenaRound, settlements>>
  PROVE  LaneI'
  <1>1. \A s : adapter_for_spec(s)' = adapter_for_spec(s)
    BY DEF adapter_for_spec
  <1>2. CanRun' = CanRun /\ \A c, h, task : Disagrees(c, h, task)' = Disagrees(c, h, task)
    BY <1>1 DEF CanRun, Disagrees, champion_times_out
  <1>3. \A q : Copy(q)' = Copy(q)
    BY DEF Copy
  <1>4. \A p \in Payers : PayerFits(p)'
    BY <1>2, <1>3 DEF LaneI, PayerFits
  <1>5. LedgerFits'
    BY <1>2 DEF LaneI, LedgerFits
  <1> QED
    BY <1>4, <1>5 DEF LaneI, OncePerRound

LEMMA ArenaBegins == ArenaInit => ArenaIInv
  <1> SUFFICES ASSUME ArenaInit PROVE ArenaIInv
    OBVIOUS
  <1>1. \A S : <<>> \in Seq(S)
    OBVIOUS
  <1>2. DOMAIN <<>> = {} /\ Len(<<>>) = 0
    OBVIOUS
  <1>3. LaneS
    BY <1>1, <1>2 DEF ArenaInit, LaneS, LaneShape, RowsFit, TickFits, RecordsFit, Fresh, IdleTick
  <1>4. ASSUME NEW p \in Payers PROVE PayerFits(p)
    BY <1>1, <1>2 DEF ArenaInit, PayerFits, IdlePayer
  <1>5. LaneI
    BY <1>1, <1>2, <1>4 DEF ArenaInit, LaneI, LedgerFits, OncePerRound
  <1> QED
    BY <1>3, <1>5 DEF ArenaIInv

\* Registration
LEMMA EnrolStep ==
  ASSUME LaneS, NEW e \in Publications, arena_register_solver(e[1], e[2])
  PROVE  LaneS'
  <1>1. e[1] \in Sources /\ e = <<e[1], e[2]>>
    BY ArenaAssumption
  <1>2. LaneShape'
    BY <1>1 DEF LaneS, LaneShape, arena_register_solver
  <1>3. RowsFit'
    BY <1>1 DEF LaneS, RowsFit, arena_register_solver
  <1> QED
    BY <1>2, <1>3 DEF LaneS, TickFits, RecordsFit, arena_register_solver

LEMMA InsertStep ==
  ASSUME LaneS, NEW e \in enrolling, InsertSolver(e) \/ InsertFails(e)
  PROVE  LaneS'
  <1>1. /\ UNCHANGED <<lane, evaluator, records>> /\ enrolling' \subseteq enrolling
        /\ e = [source |-> e.source, owner |-> e.owner] /\ <<e.source, e.owner>> \in Publications
    BY DEF InsertSolver, InsertFails, LaneS, RowsFit
  <1>2. CASE solvers' = solvers
    BY <1>1, <1>2 DEF LaneS, LaneShape, RowsFit, TickFits, RecordsFit
  <1>3. CASE solvers' # solvers
    <2>1. PICK row : row = [source |-> e.source, owner |-> e.owner, status |-> "pending"]
      OBVIOUS
    <2>2. solvers' = Append(solvers, row) /\ \A i \in DOMAIN solvers : solvers[i].source # e.source
      BY <1>3, <2>1 DEF InsertSolver, InsertFails
    <2>3. e.source \in Sources /\ e.owner \in Owners
      <3>1. PICK c \in Publications : c = <<e.source, e.owner>>
        BY <1>1
      <3> QED
        BY <3>1, ArenaAssumption DEF Owners
    <2>4. row \in Row /\ row.source = e.source /\ row.owner = e.owner
      BY <2>1, <2>3 DEF Row, Statuses
    <2>5. PICK n \in Nat : n = Len(solvers)
      BY DEF LaneS, RowsFit
    <2>6. /\ DOMAIN solvers = 1 .. n /\ DOMAIN solvers' = 1 .. n + 1 /\ solvers' \in Seq(Row)
          /\ \A i \in 1 .. n : solvers'[i] = solvers[i]
          /\ solvers'[n + 1] = row
      BY <2>2, <2>4, <2>5 DEF LaneS, RowsFit
    <2>7. RowsFit'
      <3>1. \A i \in DOMAIN solvers' : <<solvers'[i].source, solvers'[i].owner>> \in Publications
        <4>1. ASSUME NEW i \in 1 .. n + 1 PROVE <<solvers'[i].source, solvers'[i].owner>> \in Publications
          <5>1. CASE i = n + 1
            BY <1>1, <2>4, <2>6, <5>1
          <5>2. CASE i # n + 1
            <6>1. i \in DOMAIN solvers /\ solvers'[i] = solvers[i]
              BY <2>5, <2>6, <5>2
            <6> QED
              BY <6>1 DEF LaneS, RowsFit
          <5> QED
            BY <5>1, <5>2
        <4> QED
          BY <2>6, <4>1
      <3>2. \A i, j \in DOMAIN solvers' : solvers'[i].source = solvers'[j].source => i = j
        BY <2>2, <2>4, <2>5, <2>6 DEF LaneS, RowsFit
      <3> QED
        BY <1>1, <2>6, <3>1, <3>2 DEF LaneS, RowsFit
    <2>8. TickFits' /\ RecordsFit'
      <3>1. DOMAIN solvers \subseteq DOMAIN solvers' /\ \A i \in DOMAIN solvers : solvers'[i] = solvers[i]
        BY <2>5, <2>6
      <3>2. TickFits'
        BY <1>1, <3>1 DEF LaneS, TickFits
      <3>3. RecordsFit'
        BY <1>1, <3>1 DEF LaneS, RecordsFit
      <3> QED
        BY <3>2, <3>3
    <2> QED
      BY <1>1, <2>7, <2>8 DEF LaneS, LaneShape
  <1> QED
    BY <1>2, <1>3

\* The evaluation tick up to its write
LEMMA NextRowFits ==
  ASSUME LaneS, evaluator.queue # {}
  PROVE  /\ Min(evaluator.queue) \in evaluator.queue /\ Min(evaluator.queue) \in DOMAIN solvers
         /\ NextRow \in Row /\ NextRow.status = "pending" /\ <<NextRow.source, NextRow.owner>> \in Publications
         /\ NextRow.source \in Sources
  <1>1. DOMAIN solvers \subseteq Nat
    BY DEF LaneS, RowsFit
  <1>2. evaluator.queue \in SUBSET Nat
    BY <1>1 DEF LaneS, TickFits
  <1>3. Min(evaluator.queue) \in evaluator.queue
    BY <1>2, MinIsIn
  <1>4. PICK m : m = Min(evaluator.queue)
    OBVIOUS
  <1>5. m \in DOMAIN solvers /\ solvers[m].status = "pending" /\ solvers[m] \in Row
        /\ <<solvers[m].source, solvers[m].owner>> \in Publications
    BY <1>3, <1>4 DEF LaneS, TickFits, RowsFit
  <1> QED
    BY <1>3, <1>4, <1>5 DEF NextRow, Row

LEMMA EvaluateStep ==
  ASSUME LaneS, EvalStart \/ validate_submission \/ PromoteFails \/ EvalEnds
  PROVE  LaneS'
  <1>1. UNCHANGED <<solvers, enrolling, records>>
    BY DEF EvalStart, validate_submission, PromoteFails, EvalEnds
  <1>2. RowsFit' /\ RecordsFit'
    BY <1>1 DEF LaneS, RowsFit, RecordsFit
  <1>3. CASE EvalStart
    BY <1>1, <1>2, <1>3 DEF EvalStart, LaneS, LaneShape, TickFits, pending_solvers
  <1>4. CASE validate_submission
    <2>1. PICK row, tail : row = NextRow /\ tail = QueueTail
      OBVIOUS
    <2>2. evaluator.pc = "next" /\ evaluator.queue # {}
      BY <1>4 DEF validate_submission
    <2>3. row.source \in Sources /\ tail \subseteq evaluator.queue
      BY <2>1, <2>2, NextRowFits DEF QueueTail
    <2>4. LaneShape /\ TickFits
      BY DEF LaneS
    <2>5. CASE evaluator' = [evaluator EXCEPT !.queue = tail] /\ UNCHANGED lane
      <3>1. evaluator' = [pc |-> "next", queue |-> tail, batch |-> evaluator.batch,
                          verdict |-> evaluator.verdict]
        BY <2>2, <2>4, <2>5 DEF TickFits
      <3>2. TickFits'
        BY <1>1, <2>3, <2>4, <3>1 DEF TickFits
      <3>3. LaneShape'
        BY <2>4, <2>5 DEF LaneShape
      <3> QED
        BY <1>2, <3>2, <3>3 DEF LaneS
    <2>6. CASE (\E v : evaluator' = [evaluator EXCEPT !.pc = "write", !.verdict = v]) /\ UNCHANGED lane
      BY <1>1, <1>2, <2>2, <2>4, <2>6 DEF LaneS, LaneShape, TickFits
    <2>7. CASE /\ \E v : evaluator' = [evaluator EXCEPT !.pc = "write", !.verdict = v]
               /\ \E fell, total, closed :
                     lane' = [lane EXCEPT !.known = @ \cup {row.source}, !.evaluated = @ \cup {row.source},
                                          !.cid = IF fell THEN row.source ELSE @,
                                          !.total = IF fell THEN total ELSE @,
                                          !.closed = IF fell THEN closed ELSE @]
      <3>1. TickFits'
        BY <1>1, <2>2, <2>4, <2>7 DEF TickFits
      <3>2. /\ lane'.cid \in {row.source, lane.cid}
            /\ lane'.known = lane.known \cup {row.source} /\ lane'.evaluated = lane.evaluated \cup {row.source}
            /\ lane' = [known |-> lane'.known, evaluated |-> lane'.evaluated, cid |-> lane'.cid,
                        total |-> lane'.total, closed |-> lane'.closed, seed |-> lane'.seed]
        <4>1. PICK fell, t, k :
                 lane' = [lane EXCEPT !.known = @ \cup {row.source}, !.evaluated = @ \cup {row.source},
                                      !.cid = IF fell THEN row.source ELSE @,
                                      !.total = IF fell THEN t ELSE @,
                                      !.closed = IF fell THEN k ELSE @]
          BY <2>7
        <4>2. PICK c, t2, k2 : /\ c = (IF fell THEN row.source ELSE lane.cid)
                               /\ t2 = (IF fell THEN t ELSE lane.total) /\ k2 = (IF fell THEN k ELSE lane.closed)
          OBVIOUS
        <4>3. PICK l : l = lane
          OBVIOUS
        <4>4. l = [known |-> l.known, evaluated |-> l.evaluated, cid |-> l.cid, total |-> l.total,
                   closed |-> l.closed, seed |-> l.seed]
          BY <2>4, <4>3 DEF LaneShape
        <4>5. PICK half : half = [l EXCEPT !.known = @ \cup {row.source}, !.evaluated = @ \cup {row.source}]
          OBVIOUS
        <4>6. half = [known |-> l.known \cup {row.source}, evaluated |-> l.evaluated \cup {row.source},
                      cid |-> l.cid, total |-> l.total, closed |-> l.closed, seed |-> l.seed]
          BY <4>4, <4>5
        <4>7. lane' = [half EXCEPT !.cid = c, !.total = t2, !.closed = k2]
          BY <4>1, <4>2, <4>3, <4>5
        <4>8. lane' = [known |-> l.known \cup {row.source}, evaluated |-> l.evaluated \cup {row.source},
                       cid |-> c, total |-> t2, closed |-> k2, seed |-> l.seed]
          BY <4>6, <4>7
        <4>9. c \in {row.source, lane.cid}
          BY <4>2
        <4>10. lane' = [known |-> lane.known \cup {row.source}, evaluated |-> lane.evaluated \cup {row.source},
                        cid |-> c, total |-> t2, closed |-> k2, seed |-> lane.seed]
          BY <4>3, <4>8
        <4> QED
          BY <4>9, <4>10
      <3>3. LaneShape'
        BY <2>3, <2>4, <3>2 DEF LaneShape
      <3> QED
        BY <1>2, <3>1, <3>3 DEF LaneS
    <2> QED
      BY <1>4, <2>1, <2>5, <2>6, <2>7 DEF validate_submission
  <1>5. CASE PromoteFails \/ EvalEnds
    <2>1. evaluator' = IdleTick /\ UNCHANGED lane
      BY <1>5 DEF PromoteFails, EvalEnds
    <2> QED
      BY <1>1, <1>2, <2>1 DEF LaneS, LaneShape, TickFits, IdleTick
  <1> QED
    BY <1>3, <1>4, <1>5

LEMMA DiesStep ==
  ASSUME LaneS, ArenaDies
  PROVE  LaneS'
  BY DEF LaneS, LaneShape, RowsFit, TickFits, RecordsFit, ArenaDies, Fresh, IdleTick

\* The write of the tick: one record for a solver that was pending until now.
LEMMA PromoteStep ==
  ASSUME LaneS, promote
  PROVE  LaneS'
  <1>1. PICK m, s, v, own : m = Min(evaluator.queue) /\ s = solvers[m].source /\ v = evaluator.verdict
                            /\ own = solvers[m].owner
    OBVIOUS
  <1>2. /\ evaluator.pc = "write" /\ UNCHANGED <<lane, enrolling>>
        /\ evaluator' = [evaluator EXCEPT !.pc = "next", !.queue = QueueTail, !.verdict = NONE]
    BY DEF promote
  <1>3. /\ m \in evaluator.queue /\ m \in DOMAIN solvers /\ solvers[m].status = "pending"
        /\ s \in Sources /\ <<s, own>> \in Publications
    BY <1>1, <1>2, NextRowFits DEF LaneS, TickFits, NextRow
  <1>4. PICK rows : rows = solvers'
    OBVIOUS
  <1>5. /\ rows \in Seq(Row) /\ DOMAIN rows = DOMAIN solvers
        /\ \A i \in DOMAIN solvers :
              /\ rows[i].source = solvers[i].source /\ rows[i].owner = solvers[i].owner
              /\ i # m /\ solvers[i].status = "pending" => rows[i].status = "pending"
              /\ solvers[i].status \in {"champion", "retired"} => rows[i].status \in {"champion", "retired"}
        /\ v.fell => rows[m].status = "champion"
    <2>1. \A i \in DOMAIN solvers : solvers[i] \in Row /\ (solvers[i].source = s => i = m)
      BY <1>1, <1>3 DEF LaneS, RowsFit
    <2>2. CASE v.fell
      <3>1. PICK nr : nr = [i \in DOMAIN solvers |->
                       IF solvers[i].source = s THEN [solvers[i] EXCEPT !.status = "champion"]
                       ELSE IF solvers[i].status = "champion"
                       THEN [solvers[i] EXCEPT !.status = "retired"] ELSE solvers[i]]
        OBVIOUS
      <3>2. rows = nr
        BY <1>1, <1>4, <2>2, <3>1 DEF promote, NextRow
      <3>3. \A i \in DOMAIN solvers :
              /\ nr[i] \in Row /\ nr[i].source = solvers[i].source /\ nr[i].owner = solvers[i].owner
              /\ i # m /\ solvers[i].status = "pending" => nr[i].status = "pending"
              /\ solvers[i].status \in {"champion", "retired"} => nr[i].status \in {"champion", "retired"}
              /\ i = m => nr[i].status = "champion"
        BY <1>1, <2>1, <3>1 DEF Row, Statuses
      <3>4. nr \in Seq(Row)
        <4>1. DOMAIN nr = 1 .. Len(solvers) /\ Len(solvers) \in Nat
          BY <3>1 DEF LaneS, RowsFit
        <4>2. nr = [i \in 1 .. Len(solvers) |-> nr[i]] /\ \A i \in 1 .. Len(solvers) : nr[i] \in Row
          BY <3>1, <3>3, <4>1
        <4> QED
          BY <4>1, <4>2
      <3> QED
        BY <1>3, <3>1, <3>2, <3>3, <3>4
    <2>3. CASE ~v.fell
      <3>1. PICK nr : nr = [i \in DOMAIN solvers |->
                       IF solvers[i].source = s /\ solvers[i].status = "pending"
                       THEN [solvers[i] EXCEPT !.status = "evaluated"] ELSE solvers[i]]
        OBVIOUS
      <3>2. rows = nr
        BY <1>1, <1>4, <2>3, <3>1 DEF promote, NextRow
      <3>3. \A i \in DOMAIN solvers :
              /\ nr[i] \in Row /\ nr[i].source = solvers[i].source /\ nr[i].owner = solvers[i].owner
              /\ i # m /\ solvers[i].status = "pending" => nr[i].status = "pending"
              /\ solvers[i].status \in {"champion", "retired"} => nr[i].status \in {"champion", "retired"}
        BY <1>1, <2>1, <3>1 DEF Row, Statuses
      <3>4. nr \in Seq(Row)
        <4>1. DOMAIN nr = 1 .. Len(solvers) /\ Len(solvers) \in Nat
          BY <3>1 DEF LaneS, RowsFit
        <4>2. nr = [i \in 1 .. Len(solvers) |-> nr[i]] /\ \A i \in 1 .. Len(solvers) : nr[i] \in Row
          BY <3>1, <3>3, <4>1
        <4> QED
          BY <4>1, <4>2
      <3> QED
        BY <2>3, <3>1, <3>2, <3>3, <3>4
    <2> QED
      BY <2>2, <2>3
  <1>6. RowsFit'
    BY <1>2, <1>4, <1>5 DEF LaneS, RowsFit
  <1>7. TickFits'
    <2>1. QueueTail = evaluator.queue \ {m}
      BY <1>1 DEF QueueTail
    <2> QED
      BY <1>2, <1>4, <1>5, <2>1 DEF LaneS, TickFits
  <1>8. RecordsFit'
    <2>1. CASE v.fell
      <3>1. PICK x : x = [source |-> s, score |-> v.score, owner |-> own, total |-> v.total]
        OBVIOUS
      <3>2. records' = Append(records, x)
        BY <1>1, <2>1, <3>1 DEF promote, NextRow
      <3>3. PICK r2, n : r2 = records' /\ n = Len(records) /\ n \in Nat
        BY <3>2, Appended DEF LaneS, RecordsFit
      <3>4. /\ \E S : r2 \in Seq(S)
            /\ DOMAIN records = 1 .. n /\ DOMAIN r2 = 1 .. n + 1
            /\ \A i \in 1 .. n : r2[i] = records[i]
            /\ r2[n + 1] = x
        BY <3>2, <3>3, Appended, SMTT(30) DEF LaneS, RecordsFit
      <3>5. \A i \in DOMAIN records : records[i].source # s
        BY <1>1, <1>3 DEF LaneS, RowsFit, RecordsFit
      <3>6. \A i, j \in DOMAIN r2 : r2[i].source = r2[j].source => i = j
        BY <3>1, <3>3, <3>4, <3>5 DEF LaneS, RecordsFit
      <3>7. ASSUME NEW i \in DOMAIN r2
            PROVE  \E k \in DOMAIN rows : /\ rows[k].source = r2[i].source /\ rows[k].owner = r2[i].owner
                                          /\ rows[k].status \in {"champion", "retired"}
        <4>1. CASE i = n + 1
          BY <1>1, <1>3, <1>5, <2>1, <3>1, <3>4, <4>1
        <4>2. CASE i # n + 1
          <5>1. i \in DOMAIN records /\ r2[i] = records[i]
            BY <3>3, <3>4, <4>2
          <5>2. PICK k \in DOMAIN solvers :
                   /\ solvers[k].source = records[i].source /\ solvers[k].owner = records[i].owner
                   /\ solvers[k].status \in {"champion", "retired"}
            BY <5>1 DEF LaneS, RecordsFit
          <5> QED
            BY <1>5, <5>1, <5>2
        <4> QED
          BY <4>1, <4>2
      <3> QED
        BY <1>4, <3>3, <3>4, <3>6, <3>7 DEF RecordsFit
    <2>2. CASE ~v.fell
      <3>1. records' = records
        BY <1>1, <2>2 DEF promote
      <3>2. ASSUME NEW i \in DOMAIN records
            PROVE  \E k \in DOMAIN rows : /\ rows[k].source = records[i].source /\ rows[k].owner = records[i].owner
                                          /\ rows[k].status \in {"champion", "retired"}
        <4>1. PICK k \in DOMAIN solvers :
                   /\ solvers[k].source = records[i].source /\ solvers[k].owner = records[i].owner
                   /\ solvers[k].status \in {"champion", "retired"}
          BY DEF LaneS, RecordsFit
        <4> QED
          BY <1>5, <4>1
      <3> QED
        BY <1>4, <3>1, <3>2 DEF LaneS, RecordsFit
    <2> QED
      BY <2>1, <2>2
  <1> QED
    BY <1>2, <1>6, <1>7, <1>8 DEF LaneS, LaneShape

\* Lane I: what the other lane leaves alone, and the row of an instance that is added.
LEMMA CopiesKept ==
  ASSUME DOMAIN breakers \subseteq DOMAIN breakers',
         \A i \in DOMAIN breakers : breakers'[i].task = breakers[i].task,
         UNCHANGED runner, NEW p \in Payers, PayerFits(p), payer'[p] = payer[p]
  PROVE  PayerFits(p)'
  <1>1. \A s : adapter_for_spec(s)' = adapter_for_spec(s)
    BY DEF adapter_for_spec
  <1>2. CanRun' = CanRun /\ \A c, h, task : Disagrees(c, h, task)' = Disagrees(c, h, task)
    BY <1>1 DEF CanRun, Disagrees, champion_times_out
  <1>3. \A q : Copy(q) => Copy(q)'
    BY DEF Copy
  <1> QED
    BY <1>2, <1>3 DEF PayerFits

LEMMA SubmitInstanceStep ==
  ASSUME LaneI, NEW b \in Breakers, arena_submit_instance(b)
  PROVE  LaneI'
  <1>1. PICK row : row = [owner |-> b.owner, task |-> b.task, round |-> b.round, body |-> b.body, last |-> NONE]
    OBVIOUS
  <1>2. row \in Instance
    BY <1>1 DEF Instance
  <1>3. PICK n \in Nat : n = Len(breakers)
    BY DEF LaneI
  <1> PICK more : more = Append(breakers, row)
    OBVIOUS
  <1>4. /\ breakers' = more /\ UNCHANGED <<runner, payer, arenaRound, settlements>>
        /\ more \in Seq(Instance) /\ DOMAIN breakers = 1 .. n /\ DOMAIN more = 1 .. n + 1
        /\ \A i \in 1 .. n : more[i] = breakers[i]
    BY <1>1, <1>2, <1>3 DEF LaneI, arena_submit_instance
  <1>5. DOMAIN breakers \subseteq DOMAIN breakers' /\ \A i \in DOMAIN breakers : breakers'[i] = breakers[i]
    BY <1>3, <1>4
  <1>6. \A p \in Payers : PayerFits(p)'
    BY <1>4, <1>5, CopiesKept DEF LaneI
  <1>7. LedgerFits'
    <2>1. \A s : adapter_for_spec(s)' = adapter_for_spec(s)
      BY <1>4 DEF adapter_for_spec
    <2>2. \A c, h, task : Disagrees(c, h, task)' = Disagrees(c, h, task)
      BY <2>1 DEF CanRun, Disagrees, champion_times_out
    <2> QED
      BY <1>4, <1>5, <2>2 DEF LaneI, LedgerFits
  <1> QED
    BY <1>4, <1>6, <1>7 DEF LaneI, OncePerRound

LEMMA RoundStep ==
  ASSUME LaneI, RoundAdvances
  PROVE  LaneI'
  <1>1. arenaRound' \in Nat /\ UNCHANGED <<runner, breakers, payer, settlements>>
    BY DEF RoundAdvances, LaneI
  <1>2. \A p \in Payers : PayerFits(p)'
    BY <1>1, CopiesKept DEF LaneI
  <1>3. \A c, h, task : Disagrees(c, h, task)' = Disagrees(c, h, task)
    BY <1>1 DEF CanRun, Disagrees, champion_times_out, adapter_for_spec
  <1> QED
    BY <1>1, <1>2, <1>3 DEF LaneI, LedgerFits, OncePerRound

\* A step of one settlement tick that pays nothing.
LEMMA PayerMoves ==
  ASSUME LaneI, NEW p \in Payers, NEW r, payer' = [payer EXCEPT ![p] = r],
         UNCHANGED <<runner, breakers, arenaRound, settlements>>,
         r = [pc |-> r.pc, queue |-> r.queue, champ |-> r.champ, closers |-> r.closers, round |-> r.round,
              due |-> r.due],
         r.pc \in {"idle", "settle", "pay"}, r.closers \subseteq CanRun, r.round \in Nat,
         \E S : r.queue \in Seq(S), \A i \in DOMAIN r.queue : Copy(r.queue[i]),
         r.pc = "pay" => r.queue # <<>> /\ Disagrees(r.due.closer, r.champ, Head(r.queue)[2].task)
  PROVE  LaneI'
  <1>1. /\ payer'[p] = r /\ payer' = [q \in Payers |-> payer'[q]]
        /\ \A q \in Payers \ {p} : payer'[q] = payer[q]
    BY DEF LaneI
  <1>2. \A s : adapter_for_spec(s)' = adapter_for_spec(s)
    BY DEF adapter_for_spec
  <1>3. CanRun' = CanRun /\ \A c, h, task : Disagrees(c, h, task)' = Disagrees(c, h, task)
    BY <1>2 DEF CanRun, Disagrees, champion_times_out
  <1>4. \A q : Copy(q)' = Copy(q)
    BY DEF Copy
  <1>5. PayerFits(p)'
    BY <1>1, <1>3, <1>4 DEF PayerFits
  <1>6. \A q \in Payers \ {p} : PayerFits(q)'
    BY <1>1, CopiesKept DEF LaneI
  <1>7. LedgerFits' /\ OncePerRound'
    BY <1>3 DEF LaneI, LedgerFits, OncePerRound
  <1> QED
    BY <1>1, <1>5, <1>6, <1>7 DEF LaneI

LEMMA TailCopies ==
  ASSUME NEW S, NEW q \in Seq(S), q # <<>>, \A i \in DOMAIN q : Copy(q[i])
  PROVE  Tail(q) \in Seq(S) /\ \A i \in DOMAIN Tail(q) : Copy(Tail(q)[i])
  <1>0. Len(q) \in Nat
    OBVIOUS
  <1>1. PICK n, r : n = Len(q) /\ r = Tail(q) /\ n \in Nat
    BY <1>0
  <1>2. n # 0 /\ r \in Seq(S) /\ DOMAIN q = 1 .. n /\ DOMAIN r = 1 .. n - 1
        /\ \A i \in 1 .. n - 1 : r[i] = q[i + 1] /\ i + 1 \in 1 .. n
    BY <1>1
  <1> QED
    BY <1>1, <1>2

LEMMA PayoutStartStep ==
  ASSUME LaneI, RowsFit, NEW p \in Payers, PayoutStart(p)
  PROVE  LaneI'
  <1>1. PICK c : /\ payer' = [payer EXCEPT ![p] = [pc |-> "settle", champ |-> c,
                        closers |-> closers_provider, round |-> arenaRound, due |-> NONE,
                        queue |-> [i \in DOMAIN breakers |-> <<i, breakers[i]>>]]]
                 /\ UNCHANGED <<runner, breakers, arenaRound, settlements>>
    BY DEF PayoutStart
  <1>2. PICK read, run : read = [i \in DOMAIN breakers |-> <<i, breakers[i]>>] /\ run = closers_provider
    OBVIOUS
  <1>3. PICK r : r = [pc |-> "settle", champ |-> c, closers |-> run, round |-> arenaRound, due |-> NONE,
                      queue |-> read]
    OBVIOUS
  <1>4. run \subseteq CanRun
    <2>1. SUFFICES ASSUME NEW s \in run PROVE s \in CanRun
      OBVIOUS
    <2>2. PICK i \in DOMAIN solvers : s = solvers[i].source /\ adapter_for_spec(s) # NONE
      BY <1>2 DEF closers_provider
    <2>3. solvers[i] \in Row
      BY DEF RowsFit
    <2> QED
      BY <2>2, <2>3 DEF CanRun, Row
  <1>5. PICK n \in Nat : n = Len(breakers)
    BY DEF LaneI
  <1>6. DOMAIN breakers = 1 .. n /\ \A i \in 1 .. n : breakers[i] \in Instance
    BY <1>5 DEF LaneI
  <1>7. /\ read = [i \in 1 .. n |-> <<i, breakers[i]>>] /\ DOMAIN read = 1 .. n
        /\ \A i \in 1 .. n : read[i] = <<i, breakers[i]>>
    BY <1>2, <1>6
  <1>8. read \in Seq(Nat \X Instance)
    <2>1. \A i \in 1 .. n : <<i, breakers[i]>> \in Nat \X Instance
      BY <1>6
    <2> QED
      BY <1>5, <1>7, <2>1
  <1>9. \A i \in DOMAIN read : Copy(read[i])
    BY <1>6, <1>7 DEF Copy
  <1>10. payer' = [payer EXCEPT ![p] = r]
    BY <1>1, <1>2, <1>3
  <1>11. arenaRound \in Nat
    BY DEF LaneI
  <1>12. /\ r.pc = "settle" /\ r.queue = read /\ r.closers = run /\ r.round = arenaRound
         /\ r = [pc |-> r.pc, queue |-> r.queue, champ |-> r.champ, closers |-> r.closers, round |-> r.round,
                 due |-> r.due]
    BY <1>3
  <1> QED
    BY <1>1, <1>4, <1>8, <1>9, <1>10, <1>11, <1>12, PayerMoves

LEMMA HeadIsFirst ==
  ASSUME NEW S, NEW q \in Seq(S), q # <<>>
  PROVE  1 \in DOMAIN q /\ Head(q) = q[1]
  OBVIOUS

\* Of the closers that may be paid one is the fastest, and it did close the instance.
LEMMA FastestCloses ==
  ASSUME LaneI, NEW p \in Payers, payer[p].queue # <<>>,
         NEW b, b = Head(payer[p].queue)[2], NEW ok, ok = Eligible(payer[p], b), ok # {},
         champion_times_out(payer[p].champ, b.task),
         NEW best, best = CHOOSE s \in ok : \A r \in ok :
                              Behaves[adapter_for_spec(s)][b.task].wall
                                  <= Behaves[adapter_for_spec(r)][b.task].wall
  PROVE  Disagrees(best, payer[p].champ, b.task)
  <1>1. PayerFits(p) /\ \E S : payer[p].queue \in Seq(S)
    BY DEF LaneI, PayerFits
  <1>2. Copy(Head(payer[p].queue))
    <2>1. PICK S, q : q = payer[p].queue /\ q \in Seq(S)
      BY <1>1
    <2>2. q # <<>>
      BY <2>1
    <2>3. 1 \in DOMAIN q /\ Head(q) = q[1]
      BY <2>1, <2>2, HeadIsFirst
    <2> QED
      BY <1>1, <2>1, <2>3 DEF PayerFits
  <1>3. b.task \in {c.task : c \in Breakers}
    BY <1>2 DEF Copy, Instance
  <1>4. \A s \in ok : s \in CanRun /\ s # payer[p].champ /\ adapter_for_spec(s) \in Sources
    BY <1>1, ArenaAssumption DEF Eligible, PayerFits, CanRun, adapter_for_spec
  <1>5. PICK Wall : Wall = [s \in ok |-> Behaves[adapter_for_spec(s)][b.task].wall]
    OBVIOUS
  <1>6. \A s \in ok : Wall[s] \in Nat /\ Wall[s] = Behaves[adapter_for_spec(s)][b.task].wall
    BY <1>3, <1>4, <1>5, ArenaAssumption
  <1>7. PICK T : T = {Wall[s] : s \in ok}
    OBVIOUS
  <1>8. T \in SUBSET Nat /\ T # {}
    BY <1>6, <1>7
  <1>9. PICK w \in T : \A y \in T : w <= y
    BY <1>8, LeastNatural
  <1>10. \E s \in ok : \A r \in ok : Wall[s] <= Wall[r]
    <2>1. PICK s \in ok : w = Wall[s]
      BY <1>7
    <2>2. \A r \in ok : Wall[r] \in T
      BY <1>7
    <2> QED
      BY <1>9, <2>1, <2>2
  <1>11. best \in ok
    BY <1>6, <1>10
  <1>12. Closed(run_batch(adapter_for_spec(best), {b.task})) # {}
    <2>1. \A s \in Eligible(payer[p], b) : Closed(run_batch(adapter_for_spec(s), {b.task})) # {}
      BY DEF Eligible
    <2> QED
      BY <1>11, <2>1
  <1>13. certify(Behaves[adapter_for_spec(best)][b.task]) \in {"sat", "unsat"}
    BY <1>12 DEF Closed, run_batch
  <1>14. LET r == Behaves[adapter_for_spec(best)][b.task] IN r.genuine /\ ~TimesOut(r)
    BY <1>13 DEF certify
  <1> QED
    BY <1>4, <1>11, <1>14 DEF Disagrees

LEMMA SettleStep ==
  ASSUME LaneI, NEW p \in Payers, settle_instance(p)
  PROVE  LaneI'
  <1>1. PICK t : t = payer[p]
    OBVIOUS
  <1>2. /\ t.pc = "settle" /\ t.queue # <<>> /\ UNCHANGED <<runner, breakers, arenaRound, settlements>>
        /\ PayerFits(p)
    BY <1>1 DEF settle_instance, LaneI
  <1>3. PICK S, q : q = t.queue /\ q \in Seq(S)
    BY <1>1, <1>2 DEF PayerFits
  <1>4. /\ t = [pc |-> t.pc, queue |-> t.queue, champ |-> t.champ, closers |-> t.closers, round |-> t.round,
                due |-> t.due]
        /\ t.closers \subseteq CanRun /\ t.round \in Nat /\ \A i \in DOMAIN q : Copy(q[i])
    BY <1>1, <1>2, <1>3 DEF PayerFits
  <1>5. Tail(q) \in Seq(S) /\ \A i \in DOMAIN Tail(q) : Copy(Tail(q)[i])
    BY <1>2, <1>3, <1>4, TailCopies
  <1>6. CASE payer' = [payer EXCEPT ![p] = [t EXCEPT !.queue = Tail(q)]]
    <2>1. PICK r : r = [t EXCEPT !.queue = Tail(q)]
      OBVIOUS
    <2>2. r = [pc |-> "settle", queue |-> Tail(q), champ |-> t.champ, closers |-> t.closers, round |-> t.round,
               due |-> t.due]
      BY <1>2, <1>4, <2>1
    <2>3. /\ r.pc = "settle" /\ r.queue = Tail(q) /\ r.closers = t.closers /\ r.round = t.round
          /\ r = [pc |-> r.pc, queue |-> r.queue, champ |-> r.champ, closers |-> r.closers, round |-> r.round,
                  due |-> r.due]
      BY <2>2
    <2> QED
      BY <1>2, <1>4, <1>5, <1>6, <2>1, <2>3, PayerMoves
  <1>7. ASSUME NEW best, NEW price,
               payer' = [payer EXCEPT ![p] = [t EXCEPT !.pc = "pay", !.due = [closer |-> best, price |-> price]]],
               Disagrees(best, t.champ, Head(q)[2].task)
        PROVE  LaneI'
    <2>1. PICK r : r = [t EXCEPT !.pc = "pay", !.due = [closer |-> best, price |-> price]]
      OBVIOUS
    <2>2. r = [pc |-> "pay", queue |-> q, champ |-> t.champ, closers |-> t.closers, round |-> t.round,
               due |-> [closer |-> best, price |-> price]]
      BY <1>3, <1>4, <2>1
    <2>3. /\ r.pc = "pay" /\ r.queue = q /\ r.closers = t.closers /\ r.round = t.round /\ r.champ = t.champ
          /\ r.due.closer = best
          /\ r = [pc |-> r.pc, queue |-> r.queue, champ |-> r.champ, closers |-> r.closers, round |-> r.round,
                  due |-> r.due]
      BY <2>2
    <2>4. payer' = [payer EXCEPT ![p] = r]
      BY <1>7, <2>1
    <2>5. r.queue # <<>> /\ Disagrees(r.due.closer, r.champ, Head(r.queue)[2].task)
      BY <1>2, <1>3, <1>7, <2>3
    <2>6. /\ r.closers \subseteq CanRun /\ r.round \in Nat /\ \A i \in DOMAIN r.queue : Copy(r.queue[i])
          /\ r.queue \in Seq(S)
      BY <1>3, <1>4, <2>3
    <2> QED
      BY <1>2, <2>3, <2>4, <2>5, <2>6, PayerMoves
  <1>8. PICK b, ok : b = Head(payer[p].queue)[2] /\ ok = Eligible(payer[p], b)
    OBVIOUS
  <1>9. PICK best : best = CHOOSE s \in ok : \A r \in ok :
                              Behaves[adapter_for_spec(s)][b.task].wall
                                  <= Behaves[adapter_for_spec(r)][b.task].wall
    OBVIOUS
  <1>10. \/ payer' = [payer EXCEPT ![p] = [payer[p] EXCEPT !.queue = Tail(payer[p].queue)]]
         \/ /\ ok # {} /\ champion_times_out(payer[p].champ, b.task)
            /\ \E price : payer' = [payer EXCEPT ![p] = [payer[p] EXCEPT !.pc = "pay",
                                                            !.due = [closer |-> best, price |-> price]]]
    <2>1. \E skip, price :
             /\ (ok = {} \/ ~champion_times_out(payer[p].champ, b.task)) => skip
             /\ payer' = [payer EXCEPT ![p] =
                  IF skip THEN [payer[p] EXCEPT !.queue = Tail(payer[p].queue)]
                  ELSE [payer[p] EXCEPT !.pc = "pay", !.due = [closer |-> best, price |-> price]]]
      <3> DEFINE t0 == payer[p]
                 b0 == Head(t0.queue)[2]
                 champA == adapter_for_spec(t0.champ)
                 ok0 == Eligible(t0, b0)
                 best0 == CHOOSE s \in ok0 : \A r \in ok0 :
                              Behaves[adapter_for_spec(s)][b0.task].wall
                                  <= Behaves[adapter_for_spec(r)][b0.task].wall
                 price0 == lane_i_price(par2(champA, run_batch(champA, {b0.task})),
                               Behaves[adapter_for_spec(best0)][b0.task].wall, t0.round)
                 skip0 == \/ b0.last = t0.round \/ ~b0.body \/ ~champion_times_out(t0.champ, b0.task)
                          \/ ok0 = {} \/ price0 <= 0
      <3>1. payer' = [payer EXCEPT ![p] =
                  IF skip0 THEN [t0 EXCEPT !.queue = Tail(t0.queue)]
                  ELSE [t0 EXCEPT !.pc = "pay", !.due = [closer |-> best0, price |-> price0]]]
        BY DEF settle_instance
      <3>2. PICK skip : skip = skip0
        OBVIOUS
      <3>3. ok = {} \/ ~champion_times_out(payer[p].champ, b.task) => skip
        BY <1>8, <3>2
      <3>4. PICK price : price = price0
        OBVIOUS
      <3>5. best0 = best
        BY <1>8, <1>9
      <3> HIDE DEF best0, price0, skip0
      <3>7. payer' = [payer EXCEPT ![p] =
                  IF skip0 THEN [payer[p] EXCEPT !.queue = Tail(payer[p].queue)]
                  ELSE [payer[p] EXCEPT !.pc = "pay", !.due = [closer |-> best0, price |-> price0]]]
        BY <3>1
      <3>6. payer' = [payer EXCEPT ![p] =
                  IF skip THEN [payer[p] EXCEPT !.queue = Tail(payer[p].queue)]
                  ELSE [payer[p] EXCEPT !.pc = "pay", !.due = [closer |-> best, price |-> price]]]
        BY <3>2, <3>4, <3>5, <3>7
      <3> QED
        BY <3>3, <3>6
    <2> QED
      BY <2>1
  <1>11. ok # {} /\ champion_times_out(payer[p].champ, b.task) => Disagrees(best, payer[p].champ, b.task)
    <2>1. payer[p].queue # <<>>
      BY <1>1, <1>2
    <2> QED
      BY <1>8, <1>9, <2>1, FastestCloses, ZenonT(30)
  <1>12. b = Head(q)[2]
    BY <1>1, <1>3, <1>8
  <1> QED
    BY <1>1, <1>3, <1>6, <1>7, <1>10, <1>11, <1>12

\* The payment: the row knows the round of the last one.
LEMMA PayStep ==
  ASSUME LaneI, NEW p \in Payers, pay(p)
  PROVE  LaneI'
  <1>1. PICK t : t = payer[p]
    OBVIOUS
  <1>2. t.pc = "pay" /\ t.queue # <<>> /\ PayerFits(p) /\ UNCHANGED <<runner, arenaRound>>
    BY <1>1 DEF pay, LaneI, PayerFits
  <1>3. PICK S, q : q = t.queue /\ q \in Seq(S)
    BY <1>1, <1>2 DEF PayerFits
  <1>4. /\ t = [pc |-> t.pc, queue |-> t.queue, champ |-> t.champ, closers |-> t.closers, round |-> t.round,
                due |-> t.due]
        /\ t.closers \subseteq CanRun /\ t.round \in Nat /\ \A k \in DOMAIN q : Copy(q[k])
        /\ Disagrees(t.due.closer, t.champ, Head(q)[2].task)
    BY <1>1, <1>2, <1>3 DEF PayerFits
  <1>5. Tail(q) \in Seq(S) /\ \A k \in DOMAIN Tail(q) : Copy(Tail(q)[k])
    BY <1>2, <1>3, <1>4, TailCopies
  <1>6. PICK i : i = Head(q)[1]
    OBVIOUS
  <1>7. i \in DOMAIN breakers /\ Head(q)[2].task = breakers[i].task /\ breakers[i] \in Instance
    <2>1. 1 \in DOMAIN q /\ Head(q) = q[1]
      BY <1>2, <1>3
    <2>2. Copy(Head(q))
      BY <1>4, <2>1
    <2> QED
      BY <1>6, <2>2 DEF Copy, LaneI
  <1>8. PICK r : r = [pc |-> "settle", queue |-> Tail(q), champ |-> t.champ, closers |-> t.closers,
                      round |-> t.round, due |-> NONE]
    OBVIOUS
  <1>9. payer' = [payer EXCEPT ![p] = r]
    <2>1. payer' = [payer EXCEPT ![p] = [t EXCEPT !.pc = "settle", !.queue = Tail(t.queue), !.due = NONE]]
      BY <1>1 DEF pay, LaneI
    <2>2. [t EXCEPT !.pc = "settle", !.queue = Tail(t.queue), !.due = NONE] = r
      <3>1. PICK tail : tail = Tail(t.queue)
        OBVIOUS
      <3>2. [t EXCEPT !.pc = "settle", !.queue = tail, !.due = NONE]
              = [pc |-> "settle", queue |-> tail, champ |-> t.champ, closers |-> t.closers,
                 round |-> t.round, due |-> NONE]
        <4>1. PICK half : half = [t EXCEPT !.pc = "settle"]
          OBVIOUS
        <4>2. half = [pc |-> "settle", queue |-> t.queue, champ |-> t.champ, closers |-> t.closers,
                      round |-> t.round, due |-> t.due]
          BY <1>4, <4>1
        <4>3. [half EXCEPT !.queue = tail, !.due = NONE]
                = [pc |-> "settle", queue |-> tail, champ |-> t.champ, closers |-> t.closers,
                   round |-> t.round, due |-> NONE]
          <5>1. PICK more : more = [half EXCEPT !.queue = tail]
            OBVIOUS
          <5>2. more = [pc |-> "settle", queue |-> tail, champ |-> t.champ, closers |-> t.closers,
                        round |-> t.round, due |-> t.due]
            BY <4>2, <5>1
          <5>3. [more EXCEPT !.due = NONE]
                  = [pc |-> "settle", queue |-> tail, champ |-> t.champ, closers |-> t.closers,
                     round |-> t.round, due |-> NONE]
            BY <5>2
          <5> QED
            BY <5>1, <5>3
        <4>4. [t EXCEPT !.pc = "settle", !.queue = tail, !.due = NONE]
                = [half EXCEPT !.queue = tail, !.due = NONE]
          BY <4>1
        <4> QED
          BY <4>3, <4>4
      <3> QED
        BY <1>3, <1>8, <3>1, <3>2
    <2> QED
      BY <2>1, <2>2
  <1>10. /\ r.pc = "settle" /\ r.queue = Tail(q) /\ r.closers = t.closers /\ r.round = t.round
         /\ r = [pc |-> r.pc, queue |-> r.queue, champ |-> r.champ, closers |-> r.closers, round |-> r.round,
                 due |-> r.due]
    BY <1>8
  <1>11. /\ payer'[p] = r /\ payer' = [c \in Payers |-> payer'[c]]
         /\ \A c \in Payers \ {p} : payer'[c] = payer[c]
    BY <1>9 DEF LaneI
  <1>12. /\ CanRun' = CanRun /\ \A c, h, task : Disagrees(c, h, task)' = Disagrees(c, h, task)
    <2>1. \A s : adapter_for_spec(s)' = adapter_for_spec(s)
      BY <1>2 DEF adapter_for_spec
    <2> QED
      BY <2>1 DEF CanRun, Disagrees, champion_times_out
  <1>13. CASE UNCHANGED <<breakers, settlements>>
    BY <1>2, <1>4, <1>5, <1>9, <1>10, <1>13, PayerMoves
  <1>14. CASE ~UNCHANGED <<breakers, settlements>>
    <2>1. PICK x : x = [breaker |-> i, owner |-> Head(q)[2].owner, round |-> t.round,
                        price |-> t.due.price, closer |-> t.due.closer, champ |-> t.champ]
      OBVIOUS
    <2>2. /\ breakers[i].last # t.round /\ breakers' = [breakers EXCEPT ![i].last = t.round]
          /\ settlements' = Append(settlements, x)
      BY <1>1, <1>3, <1>6, <1>14, <2>1 DEF pay, unpaid
    <2>3. /\ breakers' \in Seq(Instance) /\ DOMAIN breakers' = DOMAIN breakers
          /\ \A k \in DOMAIN breakers : breakers'[k].task = breakers[k].task
          /\ \A k \in DOMAIN breakers \ {i} : breakers'[k] = breakers[k]
          /\ breakers'[i].last = t.round
      <3>1. PICK row : row = [breakers[i] EXCEPT !.last = t.round]
        OBVIOUS
      <3>2. row \in Instance /\ row.task = breakers[i].task /\ row.last = t.round
        BY <1>4, <1>7, <3>1 DEF Instance
      <3>3. breakers' = [breakers EXCEPT ![i] = row]
        BY <2>2, <3>1
      <3> QED
        BY <1>7, <3>2, <3>3 DEF LaneI
    <2>4. \A c \in Payers \ {p} : PayerFits(c)'
      BY <1>2, <1>11, <2>3, CopiesKept DEF LaneI
    <2>5. PayerFits(p)'
      <3>1. \A c : Copy(c) => Copy(c)'
        BY <2>3 DEF Copy
      <3> QED
        BY <1>4, <1>5, <1>10, <1>11, <1>12, <3>1 DEF PayerFits
    <2>6. PICK s2, n : s2 = settlements' /\ n = Len(settlements) /\ n \in Nat
      BY <2>2, Appended DEF LaneI, LedgerFits
    <2>7. /\ \E D : s2 \in Seq(D)
          /\ Len(s2) = n + 1 /\ DOMAIN settlements = 1 .. n /\ DOMAIN s2 = 1 .. n + 1
          /\ \A k \in 1 .. n : s2[k] = settlements[k]
          /\ s2[n + 1] = x
      <3>1. PICK s1 : s1 = settlements
        OBVIOUS
      <3>2. (\E D : s1 \in Seq(D)) /\ s2 = Append(s1, x) /\ n = Len(s1)
        BY <2>2, <2>6, <3>1 DEF LaneI, LedgerFits
      <3> QED
        BY <3>1, <3>2, Appended
    <2>8. LedgerFits'
      <3>1. ASSUME NEW k \in 1 .. n + 1
            PROVE  /\ s2[k].breaker \in DOMAIN breakers'
                   /\ Disagrees(s2[k].closer, s2[k].champ, breakers'[s2[k].breaker].task)
                   /\ (\A j \in k + 1 .. n + 1 : s2[j].breaker # s2[k].breaker)
                        => breakers'[s2[k].breaker].last = s2[k].round
        <4>1. CASE k = n + 1
          BY <1>4, <1>7, <2>1, <2>3, <2>7, <4>1
        <4>2. CASE k # n + 1
          <5>1. k \in DOMAIN settlements /\ s2[k] = settlements[k] /\ n + 1 \in k + 1 .. n + 1
            BY <2>6, <2>7, <4>2
          <5>2. /\ settlements[k].breaker \in DOMAIN breakers
                /\ Disagrees(settlements[k].closer, settlements[k].champ, breakers[settlements[k].breaker].task)
                /\ (\A j \in k + 1 .. n : settlements[j].breaker # settlements[k].breaker)
                        => breakers[settlements[k].breaker].last = settlements[k].round
            BY <2>6, <5>1 DEF LaneI, LedgerFits
          <5>3. ASSUME \A j \in k + 1 .. n + 1 : s2[j].breaker # s2[k].breaker
                PROVE  breakers'[s2[k].breaker].last = s2[k].round
            <6>1. s2[k].breaker # i
              BY <2>1, <2>7, <5>1, <5>3
            <6>2. \A j \in k + 1 .. n : settlements[j].breaker # settlements[k].breaker
              BY <2>6, <2>7, <5>1, <5>3
            <6> QED
              BY <2>3, <5>1, <5>2, <6>1, <6>2
          <5> QED
            BY <2>3, <5>1, <5>2, <5>3
        <4> QED
          BY <4>1, <4>2
      <3> QED
        BY <1>12, <2>6, <2>7, <3>1 DEF LedgerFits
    <2>9. OncePerRound'
      <3>1. ASSUME NEW a \in 1 .. n, settlements[a].breaker = i, settlements[a].round = t.round
            PROVE  \E k \in a + 1 .. n : settlements[k].breaker = i /\ settlements[k].round # t.round
        <4>1. PICK T : T = {k \in 1 .. n : a <= k /\ settlements[k].breaker = i}
          OBVIOUS
        <4>2. T \in SUBSET Nat /\ T # {} /\ \A y \in T : y <= n
          BY <3>1, <4>1
        <4>3. PICK m \in T : \A y \in T : y <= m
          BY <2>6, <4>2, GreatestNatural
        <4>4. m \in DOMAIN settlements /\ \A j \in m + 1 .. n : settlements[j].breaker # i
          BY <2>6, <2>7, <4>1, <4>3
        <4>5. breakers[i].last = settlements[m].round
          BY <2>6, <4>1, <4>3, <4>4 DEF LaneI, LedgerFits
        <4>6. m # a /\ settlements[m].round # t.round /\ settlements[m].breaker = i
          BY <2>2, <3>1, <4>1, <4>3, <4>5
        <4> QED
          BY <4>1, <4>3, <4>6
      <3>2. ASSUME NEW a \in 1 .. n + 1, NEW b \in 1 .. n + 1, a < b,
                   s2[a].breaker = s2[b].breaker, s2[a].round = s2[b].round
            PROVE  \E k \in a + 1 .. b - 1 : s2[k].breaker = s2[a].breaker /\ s2[k].round # s2[a].round
        <4>1. a \in 1 .. n /\ s2[a] = settlements[a]
          BY <2>6, <2>7, <3>2
        <4>2. CASE b = n + 1
          <5>1. settlements[a].breaker = i /\ settlements[a].round = t.round
            BY <2>1, <2>7, <3>2, <4>1, <4>2
          <5>2. PICK k \in a + 1 .. n : settlements[k].breaker = i /\ settlements[k].round # t.round
            BY <3>1, <4>1, <5>1
          <5>3. k \in 1 .. n /\ k \in a + 1 .. b - 1 /\ s2[k] = settlements[k]
            BY <2>6, <2>7, <4>1, <4>2, <5>2
          <5> QED
            BY <4>1, <5>1, <5>2, <5>3
        <4>3. CASE b # n + 1
          <5>1. b \in 1 .. n /\ s2[b] = settlements[b]
            BY <2>6, <2>7, <4>3
          <5>2. PICK k \in a + 1 .. b - 1 : /\ settlements[k].breaker = settlements[a].breaker
                                            /\ settlements[k].round # settlements[a].round
            BY <2>7, <3>2, <4>1, <5>1 DEF LaneI, OncePerRound
          <5>3. k \in 1 .. n /\ s2[k] = settlements[k]
            BY <2>6, <2>7, <4>1, <5>1, <5>2
          <5> QED
            BY <4>1, <5>2, <5>3
        <4> QED
          BY <4>2, <4>3
      <3> QED
        BY <2>6, <2>7, <3>2, ZenonT(30) DEF OncePerRound
    <2> QED
      BY <1>2, <1>11, <2>3, <2>4, <2>5, <2>8, <2>9 DEF LaneI
  <1> QED
    BY <1>13, <1>14

LEMMA PayoutEndsStep ==
  ASSUME LaneI, NEW p \in Payers, PayoutEnds(p)
  PROVE  LaneI'
  <1>1. PICK r : r = IdlePayer
    OBVIOUS
  <1>2. payer' = [payer EXCEPT ![p] = r] /\ UNCHANGED <<runner, breakers, arenaRound, settlements>>
    BY <1>1 DEF PayoutEnds
  <1>3. /\ r.pc = "idle" /\ r.queue = <<>> /\ r.closers = {} /\ r.round = 0
        /\ r = [pc |-> r.pc, queue |-> r.queue, champ |-> r.champ, closers |-> r.closers, round |-> r.round,
                due |-> r.due]
    BY <1>1 DEF IdlePayer
  <1>4. /\ \E S : r.queue \in Seq(S)
        /\ \A i \in DOMAIN r.queue : Copy(r.queue[i])
        /\ r.closers \subseteq CanRun /\ r.round \in Nat
    <2>1. \E S : <<>> \in Seq(S)
      BY EmptySeq
    <2>2. DOMAIN <<>> = {}
      OBVIOUS
    <2> QED
      BY <1>3, <2>1, <2>2
  <1> QED
    BY <1>2, <1>3, <1>4, PayerMoves

LEMMA ArenaNextStep == ArenaIInv /\ [ArenaNext]_arenaVars => ArenaIInv'
  <1> SUFFICES ASSUME ArenaIInv, [ArenaNext]_arenaVars PROVE ArenaIInv'
    OBVIOUS
  <1>1. LaneS /\ LaneI
    BY DEF ArenaIInv
  <1>2. CASE UNCHANGED arenaVars
    BY <1>1, <1>2, LaneSKept, LaneIKept DEF arenaVars, ArenaIInv
  <1>3. ASSUME NEW e \in Publications, arena_register_solver(e[1], e[2])
        PROVE  ArenaIInv'
    BY <1>1, <1>3, EnrolStep, LaneIKept DEF arena_register_solver, ArenaIInv
  <1>4. ASSUME NEW e \in enrolling, InsertSolver(e) \/ InsertFails(e)
        PROVE  ArenaIInv'
    BY <1>1, <1>4, InsertStep, LaneIKept DEF InsertSolver, InsertFails, ArenaIInv
  <1>5. CASE EvalStart \/ validate_submission \/ PromoteFails \/ EvalEnds
    <2>1. UNCHANGED <<runner, breakers, payer, arenaRound, settlements>>
      BY <1>5 DEF EvalStart, validate_submission, PromoteFails, EvalEnds
    <2> QED
      BY <1>1, <1>5, <2>1, EvaluateStep, LaneIKept DEF ArenaIInv
  <1>6. CASE promote \/ ArenaDies
    BY <1>1, <1>6, PromoteStep, DiesStep, LaneIKept DEF promote, ArenaDies, ArenaIInv
  <1>7. ASSUME NEW b \in Breakers, arena_submit_instance(b)
        PROVE  ArenaIInv'
    BY <1>1, <1>7, SubmitInstanceStep, LaneSKept DEF arena_submit_instance, ArenaIInv
  <1>8. CASE RoundAdvances
    BY <1>1, <1>8, RoundStep, LaneSKept DEF RoundAdvances, ArenaIInv
  <1>9. ASSUME NEW p \in Payers, PayoutStart(p) \/ settle_instance(p) \/ pay(p) \/ PayoutEnds(p)
        PROVE  ArenaIInv'
    <2>1. UNCHANGED <<lane, solvers, enrolling, evaluator, records>>
      BY <1>9 DEF PayoutStart, settle_instance, pay, PayoutEnds
    <2>2. RowsFit
      BY <1>1 DEF LaneS
    <2> QED
      BY <1>1, <1>9, <2>1, <2>2, PayoutStartStep, SettleStep, PayStep, PayoutEndsStep, LaneSKept DEF ArenaIInv
  <1> QED
    BY <1>2, <1>3, <1>4, <1>5, <1>6, <1>7, <1>8, <1>9 DEF ArenaNext

LEMMA ArenaSafe == ArenaIInv => ArenaInv
  <1> SUFFICES ASSUME ArenaIInv PROVE ArenaInv
    OBVIOUS
  <1>1. ArenaTypeOK
    <2>1. \A i \in DOMAIN solvers : /\ <<solvers[i].source, solvers[i].owner>> \in Publications
                                    /\ solvers[i].status \in {"pending", "evaluated", "champion", "retired"}
      <3>1. \A i \in DOMAIN solvers : solvers[i] \in Row
        BY DEF ArenaIInv, LaneS, RowsFit
      <3> QED
        BY <3>1 DEF ArenaIInv, LaneS, RowsFit, Row, Statuses
    <2> QED
      BY <2>1 DEF ArenaIInv, LaneS, LaneI, LaneShape, TickFits, PayerFits, ArenaTypeOK
  <1>2. RecordEarnedOnce
    BY DEF ArenaIInv, LaneS, RecordsFit, RecordEarnedOnce
  <1>3. SettledOncePerRound
    <2>1. ASSUME NEW i \in DOMAIN settlements
          PROVE  LET RunOf(s) == Behaves[IF runner.command = "safe" THEN s ELSE Installed]
                                        [breakers[settlements[i].breaker].task]
                 IN  /\ settlements[i].closer # settlements[i].champ
                     /\ RunOf(settlements[i].champ).late \/ RunOf(settlements[i].champ).claim = "none"
                     /\ ~RunOf(settlements[i].closer).late /\ RunOf(settlements[i].closer).claim # "none"
                     /\ RunOf(settlements[i].closer).genuine
      <3>1. Disagrees(settlements[i].closer, settlements[i].champ, breakers[settlements[i].breaker].task)
        BY DEF ArenaIInv, LaneI, LedgerFits
      <3>2. \A s : adapter_for_spec(s) = IF runner.command = "safe" THEN s ELSE Installed
        BY <3>1 DEF Disagrees, CanRun, adapter_for_spec
      <3> QED
        BY <3>1, <3>2 DEF Disagrees, champion_times_out, TimesOut
    <2>2. ASSUME NEW i \in DOMAIN settlements, NEW j \in i + 1 .. Len(settlements),
                 settlements[j].breaker = settlements[i].breaker, settlements[j].round = settlements[i].round
          PROVE  \E k \in i + 1 .. j - 1 : /\ settlements[k].breaker = settlements[i].breaker
                                           /\ settlements[k].round # settlements[i].round
      <3>1. PICK S : settlements \in Seq(S)
        BY DEF ArenaIInv, LaneI, LedgerFits
      <3>2. PICK n \in Nat : n = Len(settlements) /\ DOMAIN settlements = 1 .. n
        BY <3>1
      <3>3. j \in DOMAIN settlements /\ i < j
        BY <2>2, <3>2
      <3> QED
        BY <2>2, <3>3 DEF ArenaIInv, LaneI, OncePerRound
    <2> QED
      BY <2>1, <2>2 DEF SettledOncePerRound
  <1> QED
    BY <1>1, <1>2, <1>3 DEF ArenaInv

\* A published solver earns one record at most, whatever dies between the champion machine and
\* its write, and an instance is paid once for a round and for disagreement alone (ArenaInv),
\* for any deployment, solvers and settling processes.
THEOREM ArenaFair == ArenaInit /\ [][ArenaNext]_arenaVars => []ArenaInv
  BY ArenaBegins, ArenaNextStep, ArenaSafe, PTL

----------------------------------------------------------------------------
(* UID mapping                                                              *)

\* A subnet: each UID has a hotkey of its own and the block it registered at.
SubnetFits(s) ==
    /\ DOMAIN s \subseteq SubnetUids
    /\ s = [u \in DOMAIN s |-> s[u]]
    /\ \A u \in DOMAIN s : s[u] = [hk |-> s[u].hk, reg |-> s[u].reg] /\ s[u].reg \in Nat
    /\ \A u, w \in DOMAIN s : s[u].hk = s[w].hk => u = w

LEMMA UidOfHotkey ==
  ASSUME NEW s, SubnetFits(s), NEW h \in HotkeysOf(s)
  PROVE  /\ UidOf(s, h) \in DOMAIN s /\ UidOf(s, h) \in Nat
         /\ s[UidOf(s, h)].hk = h /\ RegOf(s, h) \in Nat
  <1>1. PICK u \in DOMAIN s : s[u].hk = h
    BY DEF HotkeysOf
  <1>2. UidOf(s, h) \in DOMAIN s /\ s[UidOf(s, h)].hk = h
    BY <1>1 DEF UidOf
  <1> QED
    BY <1>2, UidConstants DEF RegOf, SubnetFits

LEMMA HotkeyOfUid ==
  ASSUME NEW s, SubnetFits(s), NEW u \in DOMAIN s
  PROVE  s[u].hk \in HotkeysOf(s) /\ UidOf(s, s[u].hk) = u /\ RegOf(s, s[u].hk) = s[u].reg
  <1>1. s[u].hk \in HotkeysOf(s)
    BY DEF HotkeysOf
  <1>2. UidOf(s, s[u].hk) \in DOMAIN s /\ s[UidOf(s, s[u].hk)].hk = s[u].hk
    BY <1>1, UidOfHotkey
  <1>3. UidOf(s, s[u].hk) = u
    BY <1>2 DEF SubnetFits
  <1> QED
    BY <1>1, <1>3 DEF RegOf

LEMMA SubnetFinite ==
  ASSUME NEW s, SubnetFits(s)
  PROVE  /\ IsFiniteSet(DOMAIN s) /\ IsFiniteSet(HotkeysOf(s))
         /\ Cardinality(HotkeysOf(s)) = Cardinality(DOMAIN s)
  <1>1. IsFiniteSet(DOMAIN s)
    BY UidConstants, FS_Subset DEF SubnetFits
  <1>2. PICK f : f = [u \in DOMAIN s |-> s[u].hk]
    OBVIOUS
  <1>3. f \in Bijection(DOMAIN s, HotkeysOf(s))
    BY <1>2 DEF Bijection, Injection, Surjection, IsInjective, HotkeysOf, SubnetFits
  <1> QED
    BY <1>1, <1>3, FS_Bijection DEF ExistsBijection

\* The hotkeys that may be pruned, as the UIDs they hold.
PrunableUids(s, block) ==
    {u \in DOMAIN s : s[u].hk \notin owner_immortal_hotkeys(s) /\ s[u].reg + Immunity <= block}

LEMMA PrunableCount ==
  ASSUME NEW s, SubnetFits(s), NEW block
  PROVE  /\ IsFiniteSet(PrunableUids(s, block))
         /\ Cardinality(Prunable(s, block)) = Cardinality(PrunableUids(s, block))
  <1>1. PICK I : I = owner_immortal_hotkeys(s)
    OBVIOUS
  <1>2. PICK A : A = PrunableUids(s, block)
    OBVIOUS
  <1>3. PICK B : B = Prunable(s, block)
    OBVIOUS
  <1>4. A \subseteq DOMAIN s /\ IsFiniteSet(A)
    BY <1>2, SubnetFinite, FS_Subset DEF PrunableUids
  <1>5. PICK f : f = [u \in A |-> s[u].hk]
    OBVIOUS
  <1>6. \A u \in A : s[u].hk \in B
    <2>1. TAKE u \in A
    <2>2. u \in DOMAIN s /\ s[u].hk \notin owner_immortal_hotkeys(s) /\ s[u].reg + Immunity <= block
      BY <1>2, <2>1 DEF PrunableUids
    <2>3. s[u].hk \in HotkeysOf(s) /\ RegOf(s, s[u].hk) = s[u].reg
      BY <2>2, HotkeyOfUid
    <2> QED
      BY <1>3, <2>2, <2>3 DEF Prunable
  <1>7. \A h \in B : \E u \in A : s[u].hk = h
    <2>1. TAKE h \in B
    <2>2. h \in HotkeysOf(s) /\ h \notin owner_immortal_hotkeys(s) /\ RegOf(s, h) + Immunity <= block
      BY <1>3, <2>1 DEF Prunable
    <2>3. UidOf(s, h) \in DOMAIN s /\ s[UidOf(s, h)].hk = h
      BY <2>2, UidOfHotkey
    <2>4. UidOf(s, h) \in A
      BY <1>2, <2>2, <2>3 DEF PrunableUids, RegOf
    <2> QED
      BY <2>3, <2>4
  <1>8. \A u, w \in A : s[u].hk = s[w].hk => u = w
    BY <1>4 DEF SubnetFits
  <1>9. f \in Bijection(A, B)
    BY <1>5, <1>6, <1>7, <1>8 DEF Bijection, Injection, Surjection, IsInjective
  <1> QED
    BY <1>2, <1>3, <1>4, <1>9, FS_Bijection DEF ExistsBijection

\* The order among the owner's hotkeys, and who comes before one of them.
Ahead(s, h) == {g \in OwnedHotkeys \cap HotkeysOf(s) : Earlier(s, g, h)}

LEMMA EarlierOrders ==
  ASSUME NEW s, SubnetFits(s), NEW a \in HotkeysOf(s), NEW b \in HotkeysOf(s), NEW c \in HotkeysOf(s)
  PROVE  /\ ~Earlier(s, a, a)
         /\ Earlier(s, a, b) /\ Earlier(s, b, c) => Earlier(s, a, c)
         /\ a # b => Earlier(s, a, b) \/ Earlier(s, b, a)
  <1>1. PICK ra, ua : ra = RegOf(s, a) /\ ua = UidOf(s, a)
    OBVIOUS
  <1>2. PICK rb, ub : rb = RegOf(s, b) /\ ub = UidOf(s, b)
    OBVIOUS
  <1>3. PICK rc, uc : rc = RegOf(s, c) /\ uc = UidOf(s, c)
    OBVIOUS
  <1>4. {ra, ua, rb, ub, rc, uc} \subseteq Nat
    BY <1>1, <1>2, <1>3, UidOfHotkey
  <1>5. a # b => ua # ub
    BY <1>1, <1>2, UidOfHotkey
  <1> QED
    BY <1>1, <1>2, <1>3, <1>4, <1>5 DEF Earlier

LEMMA AheadFinite ==
  ASSUME NEW s, SubnetFits(s), NEW h
  PROVE  IsFiniteSet(Ahead(s, h)) /\ Cardinality(Ahead(s, h)) \in Nat
  <1>1. Ahead(s, h) \subseteq HotkeysOf(s)
    BY DEF Ahead
  <1> QED
    BY <1>1, SubnetFinite, FS_Subset, FS_CardinalityType

LEMMA AheadStrict ==
  ASSUME NEW s, SubnetFits(s), NEW a \in OwnedHotkeys \cap HotkeysOf(s), NEW b \in HotkeysOf(s),
         Earlier(s, a, b)
  PROVE  Ahead(s, a) \subseteq Ahead(s, b) \ {a} /\ Cardinality(Ahead(s, a)) < Cardinality(Ahead(s, b))
  <1>1. PICK A : A = Ahead(s, a)
    OBVIOUS
  <1>2. PICK B : B = Ahead(s, b)
    OBVIOUS
  <1>3. \A g \in A : g \in B /\ g # a
    BY <1>1, <1>2, EarlierOrders DEF Ahead
  <1>4. a \in B
    BY <1>2 DEF Ahead
  <1>5. IsFiniteSet(A) /\ IsFiniteSet(B)
    BY <1>1, <1>2, AheadFinite
  <1>6. A \subseteq B \ {a} /\ A # B
    BY <1>3, <1>4
  <1>7. Cardinality(A) <= Cardinality(B) /\ Cardinality(A) # Cardinality(B)
    BY <1>5, <1>6, FS_Subset
  <1>8. Cardinality(A) \in Nat /\ Cardinality(B) \in Nat
    BY <1>5, FS_CardinalityType
  <1> QED
    BY <1>1, <1>2, <1>6, <1>7, <1>8

\* From s to t the subnet loses at most the hotkey "out" of the owner's.
Loses(s, t, out) ==
    /\ OwnedHotkeys \cap HotkeysOf(t) = (OwnedHotkeys \cap HotkeysOf(s)) \ {out}
    /\ \A h \in OwnedHotkeys \cap HotkeysOf(t) : UidOf(t, h) = UidOf(s, h) /\ RegOf(t, h) = RegOf(s, h)
    /\ OwnerHotkey \in HotkeysOf(t) <=> OwnerHotkey \in HotkeysOf(s) /\ OwnerHotkey # out

LEMMA FirstKept ==
  ASSUME NEW s, SubnetFits(s), NEW t, SubnetFits(t), NEW out, Loses(s, t, out),
         NEW n \in Int, out \notin FirstOwned(s, n)
  PROVE  FirstOwned(t, n) = FirstOwned(s, n)
  <1>1. PICK here : here = OwnedHotkeys \cap HotkeysOf(s)
    OBVIOUS
  <1>2. OwnedHotkeys \cap HotkeysOf(t) = here \ {out}
    BY <1>1 DEF Loses
  <1>3. FirstOwned(s, n) = {h \in here : Cardinality(Ahead(s, h)) < n}
    BY <1>1 DEF FirstOwned, Ahead
  <1>4. FirstOwned(t, n) = {h \in here \ {out} : Cardinality(Ahead(t, h)) < n}
    BY <1>2 DEF FirstOwned, Ahead
  <1>5. ASSUME NEW h \in here \ {out} PROVE Ahead(t, h) = Ahead(s, h) \ {out}
    <2>1. \A g \in here \ {out} : Earlier(t, g, h) <=> Earlier(s, g, h)
      BY <1>2, <1>5 DEF Loses, Earlier
    <2> QED
      BY <1>1, <1>2, <2>1 DEF Ahead
  <1>6. ASSUME NEW h \in here \ {out}
        PROVE  Cardinality(Ahead(s, h)) < n <=> Cardinality(Ahead(t, h)) < n
    <2>1. PICK A : A = Ahead(s, h)
      OBVIOUS
    <2>2. PICK B : B = Ahead(t, h)
      OBVIOUS
    <2>3. IsFiniteSet(A) /\ IsFiniteSet(B) /\ Cardinality(A) \in Nat /\ Cardinality(B) \in Nat
      BY <2>1, <2>2, AheadFinite
    <2>4. B = A \ {out}
      BY <1>5, <1>6, <2>1, <2>2
    <2>5. Cardinality(B) <= Cardinality(A)
      BY <2>3, <2>4, FS_Subset
    <2>6. CASE out \notin A
      BY <2>1, <2>2, <2>4, <2>6
    <2>7. CASE out \in A
      <3>1. out \in here /\ Earlier(s, out, h)
        BY <1>1, <2>1, <2>7 DEF Ahead
      <3>2. PICK C : C = Ahead(s, out)
        OBVIOUS
      <3>3. C \subseteq B
        BY <1>1, <1>6, <2>1, <2>4, <3>1, <3>2, AheadStrict
      <3>4. ~(Cardinality(C) < n)
        BY <1>3, <3>1, <3>2
      <3>5. Cardinality(C) <= Cardinality(B) /\ Cardinality(C) \in Nat
        BY <2>3, <3>2, <3>3, FS_Subset, AheadFinite
      <3> QED
        BY <2>1, <2>2, <2>3, <2>5, <3>4, <3>5
    <2> QED
      BY <2>6, <2>7
  <1>7. out \notin {h \in here : Cardinality(Ahead(s, h)) < n}
    BY <1>3
  <1> QED
    BY <1>3, <1>4, <1>6, <1>7

\* Losing a hotkey that is not immortal makes no other one so.
LEMMA ImmortalKept ==
  ASSUME NEW s, SubnetFits(s), NEW t, SubnetFits(t), NEW out, Loses(s, t, out),
         out \notin owner_immortal_hotkeys(s)
  PROVE  owner_immortal_hotkeys(t) = owner_immortal_hotkeys(s)
  <1>1. PICK n : n = ImmuneOwnerLimit
    OBVIOUS
  <1>2. n \in Nat
    BY <1>1, UidConstants
  <1>3. \A h : Cardinality(Ahead(s, h)) \in Nat /\ Cardinality(Ahead(t, h)) \in Nat
    BY AheadFinite
  <1>4. \A m : /\ FirstOwned(s, m) = {h \in OwnedHotkeys \cap HotkeysOf(s) : Cardinality(Ahead(s, h)) < m}
               /\ FirstOwned(t, m) = {h \in OwnedHotkeys \cap HotkeysOf(t) : Cardinality(Ahead(t, h)) < m}
    BY DEF FirstOwned, Ahead
  <1>5. CASE ~(OwnerHotkey \in HotkeysOf(s) /\ OwnerHotkey \notin FirstOwned(s, n) /\ n > 0)
    <2>1. owner_immortal_hotkeys(s) = FirstOwned(s, n)
      BY <1>1, <1>5 DEF owner_immortal_hotkeys
    <2>2. FirstOwned(t, n) = FirstOwned(s, n)
      BY <1>2, <2>1, FirstKept
    <2>3. ~(OwnerHotkey \in HotkeysOf(t) /\ OwnerHotkey \notin FirstOwned(t, n) /\ n > 0)
      BY <1>5, <2>2 DEF Loses
    <2> QED
      BY <1>1, <2>1, <2>2, <2>3 DEF owner_immortal_hotkeys
  <1>6. CASE OwnerHotkey \in HotkeysOf(s) /\ OwnerHotkey \notin FirstOwned(s, n) /\ n > 0
    <2>1. owner_immortal_hotkeys(s) = {OwnerHotkey} \cup FirstOwned(s, n - 1)
      BY <1>1, <1>6 DEF owner_immortal_hotkeys
    <2>2. out # OwnerHotkey /\ out \notin FirstOwned(s, n - 1) /\ n - 1 \in Int
      BY <1>2, <2>1
    <2>3. FirstOwned(t, n - 1) = FirstOwned(s, n - 1)
      BY <2>2, FirstKept
    <2>4. OwnerHotkey \in HotkeysOf(t)
      BY <1>6, <2>2 DEF Loses
    <2>5. CASE OwnerHotkey \notin FirstOwned(t, n)
      <3>1. owner_immortal_hotkeys(t) = {OwnerHotkey} \cup FirstOwned(t, n - 1)
        BY <1>1, <1>6, <2>4, <2>5 DEF owner_immortal_hotkeys
      <3> QED
        BY <2>1, <2>3, <3>1
    <2>6. CASE OwnerHotkey \in FirstOwned(t, n)
      <3>1. owner_immortal_hotkeys(t) = FirstOwned(t, n)
        BY <1>1, <2>6 DEF owner_immortal_hotkeys
      <3>2. FirstOwned(t, n - 1) \subseteq FirstOwned(t, n) /\ FirstOwned(s, n - 1) \subseteq FirstOwned(s, n)
        <4>1. \A x \in Nat : x < n - 1 => x < n
          BY <1>2
        <4> QED
          BY <1>3, <1>4, <4>1
      <3>3. OwnerHotkey \notin FirstOwned(t, n - 1)
        BY <1>6, <2>3, <3>2
      <3>4. \A x \in Nat : x < n /\ ~(x < n - 1) => x = n - 1
        BY <1>2
      <3>5. \A h \in FirstOwned(t, n) \ FirstOwned(t, n - 1) :
               h \in OwnedHotkeys \cap HotkeysOf(t) /\ Cardinality(Ahead(t, h)) = n - 1
        BY <1>3, <1>4, <3>4
      <3>6. ASSUME NEW h \in FirstOwned(t, n) \ FirstOwned(t, n - 1) PROVE h = OwnerHotkey
        <4>1. h \in OwnedHotkeys \cap HotkeysOf(t) /\ Cardinality(Ahead(t, h)) = n - 1
          BY <3>5, <3>6
        <4>2. OwnerHotkey \in OwnedHotkeys \cap HotkeysOf(t) /\ Cardinality(Ahead(t, OwnerHotkey)) = n - 1
          BY <2>6, <3>3, <3>5
        <4>3. ~(n - 1 < n - 1)
          BY <1>2
        <4>4. ~Earlier(t, h, OwnerHotkey) /\ ~Earlier(t, OwnerHotkey, h)
          BY <4>1, <4>2, <4>3, AheadStrict
        <4> QED
          BY <4>1, <4>2, <4>4, EarlierOrders
      <3> QED
        BY <2>1, <2>3, <2>6, <3>1, <3>2, <3>6
    <2> QED
      BY <2>5, <2>6
  <1> QED
    BY <1>5, <1>6

LEMMA ImmortalIsOwned ==
  ASSUME NEW s
  PROVE  owner_immortal_hotkeys(s) \subseteq (OwnedHotkeys \cup {OwnerHotkey}) \cap HotkeysOf(s)
  BY DEF owner_immortal_hotkeys, FirstOwned

\* A UID gets another hotkey; all the others keep theirs.
Placed(s, uid, hk, r) ==
    [u \in DOMAIN s \cup {uid} |-> IF u = uid THEN [hk |-> hk, reg |-> r] ELSE s[u]]

PlacedRight(s, uid, hk, r, t) ==
    /\ SubnetFits(t) /\ DOMAIN t = DOMAIN s \cup {uid} /\ t[uid] = [hk |-> hk, reg |-> r]
    /\ \A u \in DOMAIN s \ {uid} : t[u] = s[u]
    /\ HotkeysOf(t) = {hk} \cup {s[u].hk : u \in DOMAIN s \ {uid}}

LEMMA PlacedFits ==
  ASSUME NEW s, SubnetFits(s), NEW uid \in SubnetUids, NEW hk, hk \notin HotkeysOf(s), NEW r \in Nat
  PROVE  PlacedRight(s, uid, hk, r, Placed(s, uid, hk, r))
  <1>0. PICK t : t = Placed(s, uid, hk, r)
    OBVIOUS
  <1>1. DOMAIN t = DOMAIN s \cup {uid} /\ t[uid] = [hk |-> hk, reg |-> r] /\ t = [u \in DOMAIN t |-> t[u]]
    BY <1>0 DEF Placed
  <1>2. \A u \in DOMAIN s \ {uid} : t[u] = s[u]
    BY <1>0 DEF Placed
  <1>3. \A u \in DOMAIN s : s[u].hk # hk
    BY DEF HotkeysOf
  <1>4. \A u \in DOMAIN t : t[u] = [hk |-> t[u].hk, reg |-> t[u].reg] /\ t[u].reg \in Nat
    BY <1>1, <1>2 DEF SubnetFits
  <1>5. \A u, w \in DOMAIN t : t[u].hk = t[w].hk => u = w
    <2>1. TAKE u, w \in DOMAIN t
    <2>2. CASE u = uid \/ w = uid
      BY <1>1, <1>2, <1>3, <2>2
    <2>3. CASE u # uid /\ w # uid
      BY <1>1, <1>2, <2>3 DEF SubnetFits
    <2> QED
      BY <2>2, <2>3
  <1>6. DOMAIN t \subseteq SubnetUids
    BY <1>1 DEF SubnetFits
  <1>7. HotkeysOf(t) = {hk} \cup {s[u].hk : u \in DOMAIN s \ {uid}}
    <2>1. HotkeysOf(t) = {t[uid].hk} \cup {t[u].hk : u \in DOMAIN s \ {uid}}
      BY <1>1 DEF HotkeysOf
    <2>2. t[uid].hk = hk
      BY <1>1
    <2> QED
      BY <1>2, <2>1, <2>2
  <1> QED
    BY <1>0, <1>1, <1>2, <1>4, <1>5, <1>6, <1>7 DEF SubnetFits, PlacedRight

LEMMA PlacedLoses ==
  ASSUME NEW s, SubnetFits(s), NEW uid \in SubnetUids, NEW hk, hk \notin HotkeysOf(s), NEW r \in Nat,
         NEW t, t = Placed(s, uid, hk, r), hk \notin OwnedHotkeys \cup {OwnerHotkey},
         NEW out, out = (IF uid \in DOMAIN s THEN s[uid].hk ELSE hk)
  PROVE  Loses(s, t, out)
  <1>0. PlacedRight(s, uid, hk, r, t)
    BY PlacedFits
  <1>1. /\ SubnetFits(t) /\ DOMAIN t = DOMAIN s \cup {uid}
        /\ \A u \in DOMAIN s \ {uid} : t[u] = s[u]
        /\ HotkeysOf(t) = {hk} \cup {s[u].hk : u \in DOMAIN s \ {uid}}
    BY <1>0 DEF PlacedRight
  <1>2. {s[u].hk : u \in DOMAIN s \ {uid}} = HotkeysOf(s) \ {out}
    <2>1. \A u \in DOMAIN s \ {uid} : s[u].hk \in HotkeysOf(s) /\ s[u].hk # out
      BY DEF HotkeysOf, SubnetFits
    <2>2. \A h \in HotkeysOf(s) \ {out} : \E u \in DOMAIN s \ {uid} : h = s[u].hk
      BY DEF HotkeysOf
    <2> QED
      BY <2>1, <2>2
  <1>3. OwnedHotkeys \cap HotkeysOf(t) = (OwnedHotkeys \cap HotkeysOf(s)) \ {out}
    BY <1>1, <1>2
  <1>4. OwnerHotkey \in HotkeysOf(t) <=> OwnerHotkey \in HotkeysOf(s) /\ OwnerHotkey # out
    BY <1>1, <1>2
  <1>5. ASSUME NEW h \in OwnedHotkeys \cap HotkeysOf(t)
        PROVE  UidOf(t, h) = UidOf(s, h) /\ RegOf(t, h) = RegOf(s, h)
    <2>1. PICK u \in DOMAIN s \ {uid} : h = s[u].hk
      BY <1>1, <1>5
    <2>2. u \in DOMAIN t /\ t[u] = s[u]
      BY <1>1
    <2>3. UidOf(s, h) = u /\ RegOf(s, h) = s[u].reg
      BY <2>1, HotkeyOfUid
    <2>4. UidOf(t, h) = u /\ RegOf(t, h) = t[u].reg
      BY <1>1, <2>1, <2>2, HotkeyOfUid
    <2> QED
      BY <2>2, <2>3, <2>4
  <1> QED
    BY <1>3, <1>4, <1>5 DEF Loses

\* One UID that changes hands takes one from the prunable at most, and from the
\* free ones when it was free.
FreeUids(s) == SubnetUids \ DOMAIN s

LEMMA FreeCount ==
  ASSUME NEW s
  PROVE  IsFiniteSet(FreeUids(s)) /\ Cardinality(FreeUids(s)) \in Nat
  BY UidConstants, FS_Subset, FS_CardinalityType DEF FreeUids

LEMMA PlacedCounts ==
  ASSUME NEW s, SubnetFits(s), NEW uid \in SubnetUids, NEW hk, hk \notin HotkeysOf(s), NEW r \in Nat,
         NEW t, t = Placed(s, uid, hk, r), NEW block,
         owner_immortal_hotkeys(t) = owner_immortal_hotkeys(s)
  PROVE  LET p == Cardinality(PrunableUids(s, block))
             q == Cardinality(PrunableUids(t, block))
             f == Cardinality(FreeUids(s))
             g == Cardinality(FreeUids(t))
         IN  /\ {p, q, f, g} \subseteq Nat
             /\ uid \in DOMAIN s => q >= p - 1 /\ g = f
             /\ uid \notin DOMAIN s => q >= p /\ g = f - 1
  <1>0. PlacedRight(s, uid, hk, r, t)
    BY PlacedFits
  <1>1. /\ SubnetFits(t) /\ DOMAIN t = DOMAIN s \cup {uid}
        /\ \A u \in DOMAIN s \ {uid} : t[u] = s[u]
    BY <1>0 DEF PlacedRight
  <1>2. PICK P : P = PrunableUids(s, block)
    OBVIOUS
  <1>3. PICK Q : Q = PrunableUids(t, block)
    OBVIOUS
  <1>4. PICK F : F = FreeUids(s)
    OBVIOUS
  <1>5. PICK G : G = FreeUids(t)
    OBVIOUS
  <1>6. /\ IsFiniteSet(P) /\ IsFiniteSet(Q) /\ IsFiniteSet(F) /\ IsFiniteSet(G)
    BY <1>1, <1>2, <1>3, <1>4, <1>5, PrunableCount, FreeCount
  <1>7. /\ Cardinality(P) \in Nat /\ Cardinality(Q) \in Nat /\ Cardinality(F) \in Nat /\ Cardinality(G) \in Nat
    BY <1>6, FS_CardinalityType
  <1>8. P \ {uid} \subseteq Q
    BY <1>1, <1>2, <1>3 DEF PrunableUids
  <1>9. Cardinality(P \ {uid}) <= Cardinality(Q)
    BY <1>6, <1>8, FS_Subset
  <1>10. G = F \ {uid} /\ (uid \in F <=> uid \notin DOMAIN s)
    BY <1>1, <1>4, <1>5 DEF FreeUids
  <1>11. Cardinality(F \ {uid}) = (IF uid \in F THEN Cardinality(F) - 1 ELSE Cardinality(F))
    BY <1>6, FS_RemoveElement
  <1>12. Cardinality(P \ {uid}) = (IF uid \in P THEN Cardinality(P) - 1 ELSE Cardinality(P))
    BY <1>6, FS_RemoveElement
  <1>13. uid \in P => uid \in DOMAIN s
    BY <1>2 DEF PrunableUids
  <1> QED
    BY <1>2, <1>3, <1>4, <1>5, <1>7, <1>9, <1>10, <1>11, <1>12, <1>13

\* The chain's side, as rows of maps and numbers.
SubnetSide ==
    /\ SubnetFits(subnet)
    /\ chainBlock \in Nat /\ regsInBlock \in Nat /\ regsInBlock <= MaxRegs
    /\ DOMAIN announced \subseteq Sellers
    /\ announced = [h \in DOMAIN announced |-> announced[h]]
    /\ \A h \in DOMAIN announced : announced[h] \in Nat

\* What stays true of a snapshot of the head while the chain moves on: the
\* registrations its era still admits find a free UID or a prunable hotkey.
EraRegs == MaxRegs * MortalPeriod
Left(o) == MaxRegs * (o.block + MortalPeriod - 1 - chainBlock) + (MaxRegs - regsInBlock)
InEra(o) == SwapDelay >= MortalPeriod /\ chainBlock <= o.block + MortalPeriod - 1
Roomy(o) == Cardinality(FreeUids(o.map)) >= EraRegs
Buffered(o) ==
    Cardinality(Prunable(o.map, o.block)) >
        MinNonImmune + (IF EraRegs > Cardinality(FreeUids(o.map)) THEN EraRegs - Cardinality(FreeUids(o.map)) ELSE 0)
RoomLeft(o) ==
    /\ Roomy(o) => Cardinality(FreeUids(subnet)) >= Left(o)
    /\ Buffered(o) =>
          LET p == Cardinality(PrunableUids(subnet, chainBlock))
          IN  p > MinNonImmune /\ p + Cardinality(FreeUids(subnet)) > MinNonImmune + Left(o)
Lasting(o) == {u \in DOMAIN o.map : o.map[u].hk \in o.safe \ o.pendingSwaps}
Kept(o) ==
    /\ SubnetFits(o.map) /\ o.block \in Nat /\ o.block <= chainBlock
    /\ o.safe = replacement_safe_hotkeys(o.map, o.block)
    /\ owner_immortal_hotkeys(subnet) = owner_immortal_hotkeys(o.map)
    /\ \A h \in DOMAIN announced \ o.pendingSwaps : announced[h] >= o.block
    /\ InEra(o) => /\ RoomLeft(o)
                   /\ \A u \in Lasting(o) : u \in DOMAIN subnet /\ subnet[u] = o.map[u]

\* A registration takes a free UID, or one of a hotkey that is not immortal.
Taken(uid, hk) ==
    /\ uid \in SubnetUids /\ hk \notin HotkeysOf(subnet)
    /\ subnet' = Placed(subnet, uid, hk, chainBlock)
    /\ uid \in DOMAIN subnet =>
          /\ FreeUids(subnet) = {}
          /\ subnet[uid].hk \notin owner_immortal_hotkeys(subnet)
          /\ Cardinality(PrunableUids(subnet, chainBlock)) > MinNonImmune =>
                subnet[uid].reg + Immunity <= chainBlock

LEMMA RegisterTakes ==
  ASSUME SubnetSide, NEW hk \in Newcomers, Register(hk)
  PROVE  \E uid : Taken(uid, hk)
  <1>1. PICK s : s = subnet
    OBVIOUS
  <1>2. SubnetFits(s) /\ SubnetUids \subseteq Nat
    BY <1>1, UidConstants DEF SubnetSide
  <1>3. \A uid : Replaces(uid, hk) = Placed(s, uid, hk, chainBlock)
    BY <1>1 DEF Replaces, Placed
  <1>4. hk \notin HotkeysOf(s)
    BY <1>1 DEF Register
  <1>5. CASE FreeUids(s) # {} /\ subnet' = Replaces(Min(FreeUids(s)), hk)
    <2>1. Min(FreeUids(s)) \in FreeUids(s)
      <3>1. FreeUids(s) \in SUBSET Nat
        BY <1>2 DEF FreeUids
      <3> QED
        BY <1>5, <3>1, MinIsIn
    <2>2. Min(FreeUids(s)) \in SubnetUids /\ Min(FreeUids(s)) \notin DOMAIN s
      BY <2>1 DEF FreeUids
    <2> QED
      BY <1>1, <1>3, <1>4, <1>5, <2>2 DEF Taken
  <1>6. CASE FreeUids(s) = {} /\ \E out \in IF Cardinality(Prunable(s, chainBlock)) > MinNonImmune
                                            THEN Prunable(s, chainBlock)
                                            ELSE HotkeysOf(s) \ (owner_immortal_hotkeys(s) \cup Prunable(s, chainBlock)) :
                                    subnet' = Replaces(UidOf(s, out), hk)
    <2>1. PICK out \in IF Cardinality(Prunable(s, chainBlock)) > MinNonImmune
                       THEN Prunable(s, chainBlock)
                       ELSE HotkeysOf(s) \ (owner_immortal_hotkeys(s) \cup Prunable(s, chainBlock)) :
                    subnet' = Replaces(UidOf(s, out), hk)
      BY <1>6
    <2>2. out \in HotkeysOf(s) /\ out \notin owner_immortal_hotkeys(s)
      BY <2>1 DEF Prunable
    <2>3. PICK uid : uid = UidOf(s, out)
      OBVIOUS
    <2>4. uid \in DOMAIN s /\ s[uid].hk = out
      BY <1>2, <2>2, <2>3, UidOfHotkey
    <2>5. Cardinality(PrunableUids(s, chainBlock)) > MinNonImmune => s[uid].reg + Immunity <= chainBlock
      <3>1. SUFFICES ASSUME Cardinality(PrunableUids(s, chainBlock)) > MinNonImmune
                     PROVE  s[uid].reg + Immunity <= chainBlock
        OBVIOUS
      <3>2. out \in Prunable(s, chainBlock)
        BY <1>2, <2>1, <3>1, PrunableCount
      <3> QED
        BY <2>3, <3>2 DEF Prunable, RegOf
    <2>6. uid \in SubnetUids
      BY <1>2, <2>4 DEF SubnetFits
    <2> QED
      BY <1>1, <1>3, <1>4, <1>6, <2>1, <2>2, <2>3, <2>4, <2>5, <2>6 DEF Taken
  <1>7. \/ FreeUids(s) # {} /\ subnet' = Replaces(Min(FreeUids(s)), hk)
        \/ /\ FreeUids(s) = {}
           /\ \E out \in IF Cardinality(Prunable(s, chainBlock)) > MinNonImmune
                         THEN Prunable(s, chainBlock)
                         ELSE HotkeysOf(s) \ (owner_immortal_hotkeys(s) \cup Prunable(s, chainBlock)) :
                  subnet' = Replaces(UidOf(s, out), hk)
    BY <1>1 DEF Register, FreeUids
  <1> QED
    BY <1>5, <1>6, <1>7

LEMMA TakenKeeps ==
  ASSUME SubnetSide, NEW hk \in Newcomers, NEW uid, Taken(uid, hk)
  PROVE  /\ SubnetFits(subnet') /\ DOMAIN subnet' = DOMAIN subnet \cup {uid}
         /\ \A u \in DOMAIN subnet \ {uid} : subnet'[u] = subnet[u]
         /\ owner_immortal_hotkeys(subnet') = owner_immortal_hotkeys(subnet)
  <1>1. PICK s : s = subnet
    OBVIOUS
  <1>2. PICK t : t = subnet'
    OBVIOUS
  <1>3. PICK block : block = chainBlock
    OBVIOUS
  <1>4. /\ SubnetFits(s) /\ uid \in SubnetUids /\ hk \notin HotkeysOf(s) /\ block \in Nat
        /\ t = Placed(s, uid, hk, block)
    BY <1>1, <1>2, <1>3 DEF SubnetSide, Taken
  <1>5. PlacedRight(s, uid, hk, block, t)
    BY <1>4, PlacedFits
  <1>6. PICK out : out = (IF uid \in DOMAIN s THEN s[uid].hk ELSE hk)
    OBVIOUS
  <1>7. hk \notin OwnedHotkeys \cup {OwnerHotkey}
    BY OwnerStays
  <1>8. Loses(s, t, out)
    BY <1>4, <1>6, <1>7, PlacedLoses
  <1>9. out \notin owner_immortal_hotkeys(s)
    <2>1. CASE uid \in DOMAIN s
      BY <1>1, <1>6, <2>1 DEF Taken
    <2>2. CASE uid \notin DOMAIN s
      BY <1>6, <1>7, <2>2, ImmortalIsOwned
    <2> QED
      BY <2>1, <2>2
  <1>10. SubnetFits(t)
    BY <1>5 DEF PlacedRight
  <1>11. owner_immortal_hotkeys(t) = owner_immortal_hotkeys(s)
    BY <1>4, <1>8, <1>9, <1>10, ImmortalKept
  <1>12. DOMAIN t = DOMAIN s \cup {uid} /\ \A u \in DOMAIN s \ {uid} : t[u] = s[u]
    BY <1>5 DEF PlacedRight
  <1> QED
    BY <1>1, <1>2, <1>10, <1>11, <1>12

\* The registrations that are left in the era of a snapshot, as a number.
LEMMA LeftIsNat ==
  ASSUME SubnetSide, NEW o, o.block \in Nat, InEra(o)
  PROVE  Left(o) \in Nat /\ Left(o) >= MaxRegs - regsInBlock
  <1>1. PICK m, k, r : m = MaxRegs /\ k = o.block + MortalPeriod - 1 - chainBlock /\ r = regsInBlock
    OBVIOUS
  <1>2. m \in Nat /\ k \in Nat /\ r \in Nat /\ r <= m
    BY <1>1, UidConstants DEF SubnetSide, InEra
  <1>3. m * k \in Nat
    BY <1>2
  <1>4. Left(o) = m * k + (m - r)
    BY <1>1 DEF Left
  <1> QED
    BY <1>1, <1>2, <1>3, <1>4

LEMMA RegisterKeeps ==
  ASSUME SubnetSide, NEW hk \in Newcomers, Register(hk)
  PROVE  SubnetSide' /\ \A o : Kept(o) => Kept(o)'
  <1>1. PICK uid : Taken(uid, hk)
    BY RegisterTakes
  <1>2. /\ SubnetFits(subnet') /\ DOMAIN subnet' = DOMAIN subnet \cup {uid}
        /\ \A u \in DOMAIN subnet \ {uid} : subnet'[u] = subnet[u]
        /\ owner_immortal_hotkeys(subnet') = owner_immortal_hotkeys(subnet)
    BY <1>1, TakenKeeps
  <1>3. /\ chainBlock' = chainBlock /\ announced' = announced /\ regsInBlock' = regsInBlock + 1
        /\ regsInBlock < MaxRegs
    BY DEF Register
  <1>4. SubnetSide'
    BY <1>2, <1>3, UidConstants DEF SubnetSide
  <1>5. ASSUME NEW CONSTANT o, Kept(o) PROVE Kept(o)'
    <2>1. InEra(o)' = InEra(o)
      BY <1>3 DEF InEra
    <2>2. CASE ~InEra(o)
      <3>1. ~InEra(o)'
        BY <2>1, <2>2
      <3> QED
        BY <1>2, <1>3, <1>5, <3>1 DEF Kept
    <2>3. CASE InEra(o)
      <3>1. Left(o) \in Nat /\ Left(o) >= 1 /\ Left(o)' = Left(o) - 1
        <4>1. Left(o) \in Nat /\ Left(o) >= MaxRegs - regsInBlock
          BY <1>5, <2>3, LeftIsNat DEF Kept
        <4>2. PICK m, k, r : m = MaxRegs /\ k = o.block + MortalPeriod - 1 - chainBlock /\ r = regsInBlock
          OBVIOUS
        <4>3. m \in Nat /\ k \in Int /\ r \in Nat /\ r < m
          BY <1>3, <1>5, <4>2, UidConstants DEF SubnetSide, Kept
        <4>4. Left(o) = m * k + (m - r) /\ Left(o)' = m * k + (m - (r + 1)) /\ m * k \in Int
          BY <1>3, <4>2, <4>3 DEF Left
        <4> QED
          BY <4>1, <4>2, <4>3, <4>4
      <3>2. PICK p, q, f, g : /\ p = Cardinality(PrunableUids(subnet, chainBlock))
                              /\ q = Cardinality(PrunableUids(subnet', chainBlock))
                              /\ f = Cardinality(FreeUids(subnet))
                              /\ g = Cardinality(FreeUids(subnet'))
        OBVIOUS
      <3>3. /\ {p, q, f, g} \subseteq Nat
            /\ uid \in DOMAIN subnet => q >= p - 1 /\ g = f
            /\ uid \notin DOMAIN subnet => q >= p /\ g = f - 1
        <4>1. PICK s, t, block : s = subnet /\ t = subnet' /\ block = chainBlock
          OBVIOUS
        <4>2. /\ SubnetFits(s) /\ uid \in SubnetUids /\ hk \notin HotkeysOf(s) /\ block \in Nat
              /\ t = Placed(s, uid, hk, block) /\ owner_immortal_hotkeys(t) = owner_immortal_hotkeys(s)
          BY <1>1, <1>2, <4>1 DEF SubnetSide, Taken
        <4>3. /\ {Cardinality(PrunableUids(s, block)), Cardinality(PrunableUids(t, block)),
                  Cardinality(FreeUids(s)), Cardinality(FreeUids(t))} \subseteq Nat
              /\ uid \in DOMAIN s =>
                    /\ Cardinality(PrunableUids(t, block)) >= Cardinality(PrunableUids(s, block)) - 1
                    /\ Cardinality(FreeUids(t)) = Cardinality(FreeUids(s))
              /\ uid \notin DOMAIN s =>
                    /\ Cardinality(PrunableUids(t, block)) >= Cardinality(PrunableUids(s, block))
                    /\ Cardinality(FreeUids(t)) = Cardinality(FreeUids(s)) - 1
          BY <4>2, PlacedCounts
        <4> QED
          BY <3>2, <4>1, <4>3
      <3>4. uid \in DOMAIN subnet => f = 0
        <4>1. uid \in DOMAIN subnet => FreeUids(subnet) = {}
          BY <1>1 DEF Taken
        <4> QED
          BY <3>2, <4>1, FS_EmptySet
      <3>5. MinNonImmune \in Nat
        BY UidConstants
      <3>6. RoomLeft(o)
        BY <1>5, <2>3 DEF Kept
      <3>7. Roomy(o) => f >= Left(o)
        BY <3>2, <3>6 DEF RoomLeft
      <3>8. Buffered(o) => p > MinNonImmune /\ p + f > MinNonImmune + Left(o)
        BY <3>2, <3>6 DEF RoomLeft
      <3>9. Roomy(o)' = Roomy(o) /\ Buffered(o)' = Buffered(o)
        BY DEF Roomy, Buffered
      <3>10. Roomy(o) => g >= Left(o) - 1
        BY <3>1, <3>3, <3>4, <3>7
      <3>11. Buffered(o) => q > MinNonImmune /\ q + g > MinNonImmune + (Left(o) - 1)
        BY <3>1, <3>3, <3>4, <3>5, <3>8
      <3>12. RoomLeft(o)'
        <4>1. /\ q = Cardinality(PrunableUids(subnet', chainBlock'))
              /\ g = Cardinality(FreeUids(subnet'))
          BY <1>3, <3>2
        <4> QED
          BY <3>1, <3>9, <3>10, <3>11, <4>1 DEF RoomLeft
      <3>13. ASSUME NEW CONSTANT u \in Lasting(o) PROVE u # uid
        <4> SUFFICES ASSUME u = uid PROVE FALSE
          OBVIOUS
        <4>1. u \in DOMAIN o.map /\ o.map[u].hk \in o.safe /\ u \in DOMAIN subnet /\ subnet[u] = o.map[u]
          BY <1>5, <2>3, <3>13 DEF Kept, Lasting
        <4>2. PICK h : h = o.map[u].hk
          OBVIOUS
        <4>3. h \notin owner_immortal_hotkeys(o.map)
          BY <1>1, <1>5, <4>1, <4>2 DEF Taken, Kept
        <4>4. ~Roomy(o)
          BY <3>1, <3>4, <3>7, <4>1
        <4>5. h \in replacement_safe_hotkeys(o.map, o.block)
          BY <1>5, <4>1, <4>2 DEF Kept
        <4>6. ~Roomy(o) => /\ Buffered(o) \/ h \in owner_immortal_hotkeys(o.map)
                           /\ h \in owner_immortal_hotkeys(o.map) \cup temporally_immune_hotkeys(o.map, o.block)
          BY <4>5 DEF replacement_safe_hotkeys, Roomy, Buffered, EraRegs, FreeUids
        <4>7. Buffered(o) /\ h \in temporally_immune_hotkeys(o.map, o.block)
          BY <4>3, <4>4, <4>6
        <4>8. RegOf(o.map, h) + Immunity >= o.block + MortalPeriod
          BY <4>7 DEF temporally_immune_hotkeys
        <4>9. RegOf(o.map, h) = o.map[u].reg
          BY <1>5, <4>1, <4>2, HotkeyOfUid DEF Kept
        <4>10. p > MinNonImmune
          BY <3>8, <4>7
        <4>11. subnet[uid].reg + Immunity <= chainBlock
          BY <1>1, <3>2, <4>1, <4>10 DEF Taken
        <4>12. o.map[u].reg \in Nat /\ o.block \in Nat
          BY <1>5, <4>1 DEF Kept, SubnetFits
        <4> QED
          BY <2>3, <4>1, <4>8, <4>9, <4>11, <4>12, UidConstants DEF InEra, SubnetSide
      <3>14. \A u \in Lasting(o) : u \in DOMAIN subnet' /\ subnet'[u] = o.map[u]
        <4>1. TAKE u \in Lasting(o)
        <4>2. u \in DOMAIN subnet /\ subnet[u] = o.map[u]
          BY <1>5, <2>3, <4>1 DEF Kept
        <4> QED
          BY <1>2, <3>13, <4>1, <4>2
      <3>15. Lasting(o)' = Lasting(o)
        BY DEF Lasting
      <3> QED
        BY <1>2, <1>3, <1>5, <3>12, <3>14, <3>15 DEF Kept
    <2> QED
      BY <2>2, <2>3
  <1> QED
    BY <1>4, <1>5

LEMMA BlockKeeps ==
  ASSUME SubnetSide, NextBlock
  PROVE  SubnetSide' /\ \A o : Kept(o) => Kept(o)'
  <1>1. /\ chainBlock' = chainBlock + 1 /\ regsInBlock' = 0
        /\ subnet' = subnet /\ announced' = announced
    BY DEF NextBlock
  <1>2. SubnetSide'
    BY <1>1, UidConstants DEF SubnetSide
  <1>3. ASSUME NEW CONSTANT o, Kept(o) PROVE Kept(o)'
    <2>1. InEra(o)' => InEra(o)
      BY <1>1, <1>3, UidConstants DEF InEra, SubnetSide, Kept
    <2>2. CASE ~InEra(o)'
      BY <1>1, <1>3, <2>2 DEF Kept, SubnetSide
    <2>3. CASE InEra(o)'
      <3>1. InEra(o)
        BY <2>1, <2>3
      <3>2. Left(o)' <= Left(o) /\ Left(o)' \in Int /\ Left(o) \in Int
        <4>1. PICK m, k, r : m = MaxRegs /\ k = o.block + MortalPeriod - 1 - chainBlock /\ r = regsInBlock
          OBVIOUS
        <4>2. m \in Nat /\ k \in Int /\ r \in Nat /\ r <= m
          BY <1>3, <4>1, UidConstants DEF SubnetSide, Kept
        <4>3. o.block + MortalPeriod - 1 - (chainBlock + 1) = k - 1
          BY <1>3, <4>1, UidConstants DEF SubnetSide, Kept
        <4>4. Left(o) = m * k + (m - r) /\ Left(o)' = m * (k - 1) + (m - 0)
          BY <1>1, <4>1, <4>3 DEF Left
        <4>5. m * k \in Int /\ m * (k - 1) = m * k - m
          BY <4>2
        <4> QED
          BY <4>2, <4>4, <4>5
      <3>2a. PICK p, q, f : /\ p = Cardinality(PrunableUids(subnet, chainBlock))
                            /\ q = Cardinality(PrunableUids(subnet, chainBlock'))
                            /\ f = Cardinality(FreeUids(subnet))
        OBVIOUS
      <3>3. {p, q, f} \subseteq Nat /\ q >= p
        <4>1. PICK P, Q : P = PrunableUids(subnet, chainBlock) /\ Q = PrunableUids(subnet, chainBlock')
          OBVIOUS
        <4>2. IsFiniteSet(P) /\ IsFiniteSet(Q)
          <5>1. PICK s, b, c : s = subnet /\ b = chainBlock /\ c = chainBlock'
            OBVIOUS
          <5> QED
            BY <4>1, <5>1, PrunableCount DEF SubnetSide
        <4>3. P \subseteq Q
          <5>1. \A u \in DOMAIN subnet : subnet[u].reg \in Nat
            BY DEF SubnetSide, SubnetFits
          <5> QED
            BY <1>1, <4>1, <5>1, UidConstants DEF PrunableUids, SubnetSide
        <4>4. Cardinality(P) <= Cardinality(Q) /\ Cardinality(P) \in Nat /\ Cardinality(Q) \in Nat
          BY <4>2, <4>3, FS_Subset, FS_CardinalityType
        <4>5. f \in Nat
          BY <3>2a, FreeCount
        <4> QED
          BY <3>2a, <4>1, <4>4, <4>5
      <3>4. RoomLeft(o)
        BY <1>3, <3>1 DEF Kept
      <3>5. Roomy(o)' = Roomy(o) /\ Buffered(o)' = Buffered(o) /\ Lasting(o)' = Lasting(o)
        BY DEF Roomy, Buffered, Lasting
      <3>6. Roomy(o) => f >= Left(o)'
        <4>1. Roomy(o) => f >= Left(o)
          BY <3>2a, <3>4 DEF RoomLeft
        <4> QED
          BY <3>2, <3>3, <4>1
      <3>7. Buffered(o) => q > MinNonImmune /\ q + f > MinNonImmune + Left(o)'
        <4>1. Buffered(o) => p > MinNonImmune /\ p + f > MinNonImmune + Left(o)
          BY <3>2a, <3>4 DEF RoomLeft
        <4> QED
          BY <3>2, <3>3, <4>1, UidConstants
      <3>8. RoomLeft(o)'
        BY <1>1, <3>2a, <3>5, <3>6, <3>7 DEF RoomLeft
      <3>9. \A u \in Lasting(o) : u \in DOMAIN subnet /\ subnet[u] = o.map[u]
        BY <1>3, <3>1 DEF Kept
      <3>10. o.block <= chainBlock'
        BY <1>1, <1>3 DEF Kept, SubnetSide
      <3> QED
        BY <1>1, <1>3, <3>5, <3>8, <3>9, <3>10 DEF Kept
    <2> QED
      BY <2>2, <2>3
  <1> QED
    BY <1>2, <1>3

LEMMA AnnounceKeeps ==
  ASSUME SubnetSide, NEW hk, AnnounceColdkeySwap(hk)
  PROVE  SubnetSide' /\ \A o : Kept(o) => Kept(o)'
  <1>1. /\ hk \in Sellers /\ hk \notin DOMAIN announced
        /\ announced' = [h \in DOMAIN announced \cup {hk} |-> IF h = hk THEN chainBlock ELSE announced[h]]
        /\ subnet' = subnet /\ chainBlock' = chainBlock /\ regsInBlock' = regsInBlock
    BY DEF AnnounceColdkeySwap
  <1>2. /\ DOMAIN announced' = DOMAIN announced \cup {hk} /\ announced'[hk] = chainBlock
        /\ \A h \in DOMAIN announced : announced'[h] = announced[h]
        /\ announced' = [h \in DOMAIN announced' |-> announced'[h]]
    BY <1>1
  <1>3. SubnetSide'
    BY <1>1, <1>2 DEF SubnetSide
  <1>4. ASSUME NEW CONSTANT o, Kept(o) PROVE Kept(o)'
    <2>1. /\ InEra(o)' = InEra(o) /\ RoomLeft(o)' = RoomLeft(o) /\ Lasting(o)' = Lasting(o)
      BY <1>1 DEF InEra, RoomLeft, Roomy, Buffered, Lasting, Left
    <2>2. \A h \in DOMAIN announced' \ o.pendingSwaps : announced'[h] >= o.block
      BY <1>2, <1>4 DEF Kept, SubnetSide
    <2> QED
      BY <1>1, <1>4, <2>1, <2>2 DEF Kept
  <1> QED
    BY <1>3, <1>4

\* A rotation leaves the registration block, and so the counts, alone.
LEMMA RotationKeeps ==
  ASSUME SubnetSide, NEW hk, NEW new \in Newcomers, ForeignRotation(hk, new)
  PROVE  SubnetSide' /\ \A o : Kept(o) => Kept(o)'
  <1>1. /\ hk \in DOMAIN announced /\ hk \in HotkeysOf(subnet) /\ chainBlock >= announced[hk] + SwapDelay
        /\ new \notin HotkeysOf(subnet) /\ subnet' = [subnet EXCEPT ![UidOf(subnet, hk)].hk = new]
        /\ chainBlock' = chainBlock /\ regsInBlock' = regsInBlock /\ announced' = announced
    BY DEF ForeignRotation
  <1>2. PICK s, t, uid, r : s = subnet /\ t = subnet' /\ uid = UidOf(subnet, hk) /\ r = subnet[uid].reg
    OBVIOUS
  <1>3. SubnetFits(s) /\ hk \in HotkeysOf(s) /\ new \notin HotkeysOf(s)
    BY <1>1, <1>2 DEF SubnetSide
  <1>4. uid \in DOMAIN s /\ s[uid].hk = hk /\ r = s[uid].reg
    BY <1>2, <1>3, UidOfHotkey
  <1>5. uid \in SubnetUids /\ r \in Nat
    BY <1>3, <1>4 DEF SubnetFits
  <1>6. t = Placed(s, uid, new, r)
    <2>1. t = [s EXCEPT ![uid].hk = new]
      BY <1>1, <1>2
    <2>2. DOMAIN t = DOMAIN s /\ t = [u \in DOMAIN t |-> t[u]]
      BY <2>1
    <2>3. \A u \in DOMAIN s : t[u] = (IF u = uid THEN [s[u] EXCEPT !.hk = new] ELSE s[u])
      BY <1>4, <2>1
    <2>4. [s[uid] EXCEPT !.hk = new] = [hk |-> new, reg |-> r]
      <3>1. s[uid] = [hk |-> s[uid].hk, reg |-> r]
        BY <1>3, <1>4 DEF SubnetFits
      <3> QED
        BY <3>1
    <2>5. DOMAIN s \cup {uid} = DOMAIN s
      BY <1>4
    <2> QED
      BY <2>2, <2>3, <2>4, <2>5 DEF Placed
  <1>7. PlacedRight(s, uid, new, r, t)
    BY <1>3, <1>5, <1>6, PlacedFits
  <1>8. SubnetFits(t) /\ DOMAIN t = DOMAIN s /\ t[uid].reg = s[uid].reg /\ t[uid].hk = new
        /\ \A u \in DOMAIN s \ {uid} : t[u] = s[u]
    BY <1>4, <1>7 DEF PlacedRight
  <1>9. /\ hk \notin OwnedHotkeys \cup {OwnerHotkey} /\ new \notin OwnedHotkeys \cup {OwnerHotkey}
    BY <1>1, OwnerStays DEF SubnetSide
  <1>10. hk \notin owner_immortal_hotkeys(s) /\ new \notin owner_immortal_hotkeys(s)
    BY <1>9, ImmortalIsOwned
  <1>11. owner_immortal_hotkeys(t) = owner_immortal_hotkeys(s)
    <2>1. hk = (IF uid \in DOMAIN s THEN s[uid].hk ELSE new)
      BY <1>4
    <2>2. Loses(s, t, hk)
      BY <1>3, <1>5, <1>6, <1>9, <2>1, PlacedLoses
    <2> QED
      BY <1>3, <1>8, <1>10, <2>2, ImmortalKept
  <1>12. PrunableUids(t, chainBlock) = PrunableUids(s, chainBlock) /\ FreeUids(t) = FreeUids(s)
    <2>1. \A u \in DOMAIN s : t[u].reg = s[u].reg
      BY <1>8
    <2>2. \A u \in DOMAIN s :
             t[u].hk \in owner_immortal_hotkeys(s) <=> s[u].hk \in owner_immortal_hotkeys(s)
      BY <1>4, <1>8, <1>10
    <2> QED
      BY <1>8, <1>11, <2>1, <2>2 DEF PrunableUids, FreeUids
  <1>13. SubnetSide'
    BY <1>1, <1>2, <1>8 DEF SubnetSide
  <1>14. ASSUME NEW CONSTANT o, Kept(o) PROVE Kept(o)'
    <2>1. /\ InEra(o)' = InEra(o) /\ Lasting(o)' = Lasting(o) /\ Left(o)' = Left(o)
          /\ Roomy(o)' = Roomy(o) /\ Buffered(o)' = Buffered(o)
      BY <1>1 DEF InEra, Roomy, Buffered, Lasting, Left
    <2>2. /\ Cardinality(PrunableUids(subnet', chainBlock')) = Cardinality(PrunableUids(subnet, chainBlock))
          /\ Cardinality(FreeUids(subnet')) = Cardinality(FreeUids(subnet))
      BY <1>1, <1>2, <1>12
    <2>3. RoomLeft(o)' = RoomLeft(o)
      BY <2>1, <2>2 DEF RoomLeft
    <2>4. ASSUME InEra(o), NEW CONSTANT u \in Lasting(o) PROVE u \in DOMAIN t /\ t[u] = o.map[u]
      <3>1. u \in DOMAIN s /\ s[u] = o.map[u] /\ o.map[u].hk \notin o.pendingSwaps
        BY <1>2, <1>14, <2>4 DEF Kept, Lasting
      <3>2. u # uid
        <4> SUFFICES ASSUME u = uid PROVE FALSE
          OBVIOUS
        <4>1. hk \notin o.pendingSwaps
          BY <1>4, <3>1
        <4>2. announced[hk] >= o.block
          BY <1>1, <1>14, <4>1 DEF Kept
        <4> QED
          BY <1>1, <1>14, <2>4, <4>2, UidConstants DEF Kept, SubnetSide, InEra
      <3> QED
        BY <1>8, <3>1, <3>2
    <2>5. owner_immortal_hotkeys(subnet') = owner_immortal_hotkeys(o.map)
      BY <1>2, <1>11, <1>14 DEF Kept
    <2>6. InEra(o)' => RoomLeft(o)' /\ \A u \in Lasting(o)' : u \in DOMAIN subnet' /\ subnet'[u] = o.map[u]
      BY <1>2, <1>14, <2>1, <2>3, <2>4 DEF Kept
    <2> QED
      BY <1>1, <1>14, <2>5, <2>6 DEF Kept
  <1> QED
    BY <1>13, <1>14

\* A signature names UIDs that last, of hotkeys the vector means.
Signed(o, x) ==
    /\ x.at = o.block /\ SwapDelay >= MortalPeriod
    /\ DOMAIN x.weights \subseteq Lasting(o)
    /\ \A u \in DOMAIN x.weights : o.map[u].hk \in PositiveHotkeys(x.vector) \cup {x.vector.burn} \/ u = x.vector.burnUid
    /\ x.vector.policy \in {"primary", "supply"} =>
          PositiveHotkeys(x.vector) \subseteq {o.map[u].hk : u \in DOMAIN x.weights}

UidIInv ==
    /\ SubnetSide
    /\ observed # NONE => Kept(observed)
    /\ extrinsic # NONE => observed # NONE /\ Signed(observed, extrinsic)

LEMMA UidBegins == UidInit => UidIInv
  <1> SUFFICES ASSUME UidInit PROVE UidIInv
    OBVIOUS
  <1>1. SubnetFits(subnet)
    <2>1. subnet \in Subnets
      BY DEF UidInit
    <2>2. PICK s : s = subnet
      OBVIOUS
    <2>3. /\ DOMAIN s \subseteq SubnetUids
          /\ s = [u \in DOMAIN s |-> [hk |-> s[u].hk, reg |-> s[u].reg]] /\ \A u \in DOMAIN s : s[u].reg \in Nat
          /\ \A u, w \in DOMAIN s : s[u].hk = s[w].hk => u = w
      BY <2>1, <2>2, SubnetsAreMaps
    <2>4. \A u \in DOMAIN s : s[u] = [hk |-> s[u].hk, reg |-> s[u].reg]
      BY <2>3
    <2>5. s = [u \in DOMAIN s |-> s[u]]
      BY <2>3
    <2> QED
      BY <2>2, <2>3, <2>4, <2>5 DEF SubnetFits
  <1>2. chainBlock \in Nat /\ regsInBlock \in Nat /\ regsInBlock <= MaxRegs
    BY UidConstants DEF UidInit
  <1>3. /\ DOMAIN announced \subseteq Sellers /\ announced = [h \in DOMAIN announced |-> announced[h]]
        /\ \A h \in DOMAIN announced : announced[h] \in Nat
    <2>1. announced \in {[h \in S |-> FirstBlock] : S \in {{}, Sellers}}
      BY DEF UidInit
    <2>2. PICK S \in {{}, Sellers} : announced = [h \in S |-> FirstBlock]
      BY <2>1
    <2> QED
      BY <2>2, UidConstants
  <1> QED
    BY <1>1, <1>2, <1>3 DEF UidInit, UidIInv, SubnetSide

LEMMA SubnetMoves ==
  ASSUME UidIInv, SubnetStep
  PROVE  UidIInv'
  <1>1. SubnetSide' /\ \A o : Kept(o) => Kept(o)'
    BY RegisterKeeps, BlockKeeps, AnnounceKeeps, RotationKeeps DEF SubnetStep, UidIInv
  <1>2. observed' = observed /\ extrinsic' = extrinsic
    BY DEF SubnetStep
  <1>3. PICK o, x : o = observed /\ x = extrinsic
    OBVIOUS
  <1>4. o # NONE => Kept(o)'
    BY <1>1, <1>3 DEF UidIInv
  <1>5. x # NONE => o # NONE /\ Signed(o, x)
    BY <1>3 DEF UidIInv
  <1>6. o = observed' /\ x = extrinsic'
    BY <1>2, <1>3
  <1> QED
    BY <1>1, <1>4, <1>5, <1>6 DEF UidIInv, Kept, Signed, InEra, RoomLeft, Roomy, Buffered, Lasting, Left

LEMMA PreflightKeeps ==
  ASSUME UidIInv, chain_preflight
  PROVE  UidIInv'
  <1>1. /\ subnet' = subnet /\ chainBlock' = chainBlock /\ regsInBlock' = regsInBlock
        /\ announced' = announced /\ extrinsic' = extrinsic
        /\ observed = NONE /\ observed' = snapshot_of_head
    BY DEF chain_preflight, chainSide
  <1>2. extrinsic = NONE
    BY <1>1 DEF UidIInv
  <1>3. SubnetSide'
    BY <1>1 DEF UidIInv, SubnetSide
  <1>4. PICK o : o = observed'
    OBVIOUS
  <1>5. /\ o.block = chainBlock /\ o.map = subnet /\ o.pendingSwaps = DOMAIN announced
        /\ o.safe = replacement_safe_hotkeys(subnet, chainBlock)
    BY <1>1, <1>4 DEF snapshot_of_head
  <1>6. /\ SubnetFits(subnet) /\ chainBlock \in Nat
    BY DEF UidIInv, SubnetSide
  <1>7. RoomLeft(o)'
    <2>1. PICK p, f : p = Cardinality(PrunableUids(subnet, chainBlock)) /\ f = Cardinality(FreeUids(subnet))
      OBVIOUS
    <2>2. Cardinality(Prunable(subnet, chainBlock)) = p /\ p \in Nat /\ f \in Nat
      <3>1. PICK s, b : s = subnet /\ b = chainBlock
        OBVIOUS
      <3>2. IsFiniteSet(PrunableUids(s, b)) /\ Cardinality(Prunable(s, b)) = Cardinality(PrunableUids(s, b))
        BY <1>6, <3>1, PrunableCount
      <3> QED
        BY <2>1, <3>1, <3>2, FreeCount, FS_CardinalityType
    <2>3. EraRegs \in Nat /\ Left(o)' \in Int /\ Left(o)' <= EraRegs
      <3>1. PICK m, k, r : m = MaxRegs /\ k = MortalPeriod /\ r = regsInBlock
        OBVIOUS
      <3>2. m \in Nat /\ k \in Nat /\ r \in Nat
        BY <3>1, UidConstants DEF UidIInv, SubnetSide
      <3>3. o.block + MortalPeriod - 1 - chainBlock = k - 1
        BY <1>5, <1>6, <3>1, <3>2
      <3>4. EraRegs = m * k /\ Left(o)' = m * (k - 1) + (m - r)
        BY <1>1, <3>1, <3>3 DEF EraRegs, Left
      <3>5. m * k \in Nat /\ m * (k - 1) = m * k - m
        BY <3>2
      <3> QED
        BY <3>2, <3>4, <3>5
    <2>4. Roomy(o)' => f >= EraRegs
      BY <1>5, <2>1 DEF Roomy
    <2>5. Buffered(o)' => p > MinNonImmune + (IF EraRegs > f THEN EraRegs - f ELSE 0)
      BY <1>5, <2>1, <2>2 DEF Buffered
    <2>6. Buffered(o)' => p > MinNonImmune /\ p + f > MinNonImmune + EraRegs
      BY <2>2, <2>3, <2>5, UidConstants
    <2>7. Roomy(o)' => f >= Left(o)'
      BY <2>2, <2>3, <2>4
    <2>8. Buffered(o)' => p > MinNonImmune /\ p + f > MinNonImmune + Left(o)'
      BY <2>2, <2>3, <2>6, UidConstants
    <2> QED
      BY <1>1, <2>1, <2>7, <2>8 DEF RoomLeft
  <1>8. Kept(o)'
    BY <1>1, <1>5, <1>6, <1>7 DEF Kept, Lasting
  <1> QED
    BY <1>1, <1>2, <1>3, <1>4, <1>8 DEF UidIInv, Kept, InEra, RoomLeft, Roomy, Buffered, Lasting, Left

\* Burning drops what maps onto the burn UID and keeps every other miner.
LEMMA BurnKeepsMiners ==
  ASSUME NEW scores, NEW burn, NEW percent, NEW w, w = apply_burn(scores, burn, percent), w # NONE
  PROVE  /\ \A u \in DOMAIN w : u = burn \/ (u \in DOMAIN scores /\ scores[u] > 0)
         /\ \A u \in DOMAIN scores : u # burn /\ scores[u] > 0 => u \in DOMAIN w
  <1>1. PICK miners : miners = {u \in DOMAIN scores : u # burn /\ scores[u] > 0}
    OBVIOUS
  <1>2. CASE miners = {}
    <2>1. w = [u \in {burn} |-> 100]
      BY <1>1, <1>2 DEF apply_burn
    <2> QED
      BY <1>1, <1>2, <2>1
  <1>3. CASE miners # {}
    <2>1. DOMAIN w = IF burn = NONE \/ percent = 0 THEN miners ELSE miners \cup {burn}
      BY <1>1, <1>3 DEF apply_burn
    <2> QED
      BY <1>1, <2>1
  <1> QED
    BY <1>2, <1>3

\* What an extrinsic names, at the snapshot it was mapped at.
MeansVector(v, w) ==
    /\ \A u \in DOMAIN w : \/ u = burn_uid(v)
                           \/ \E hk \in PositiveHotkeys(v) \cap HotkeysOf(observed.map) : u = UidOf(observed.map, hk)
    /\ v.policy \in {"primary", "supply"} =>
          \A hk \in PositiveHotkeys(v) : /\ hk \in HotkeysOf(observed.map)
                                         /\ UidOf(observed.map, hk) \in DOMAIN w

LEMMA PrimaryMeans ==
  ASSUME SubnetFits(observed.map), NEW v \in SignedVectors,
         NEW w, w = confidential_primary_to_uid_weights(v), w # NONE
  PROVE  MeansVector(v, w)
  <1>1. PICK s, b : s = observed.map /\ b = burn_uid(v)
    OBVIOUS
  <1>2. PICK scores : scores = primary_mapping(v)
    OBVIOUS
  <1>3. scores # NONE /\ w = apply_burn(scores, b, v.percent)
    BY <1>1, <1>2 DEF confidential_primary_to_uid_weights
  <1>4. /\ PositiveHotkeys(v) \subseteq HotkeysOf(s)
        /\ \A hk \in PositiveHotkeys(v) : UidOf(s, hk) # b
        /\ scores = [u \in {UidOf(s, hk) : hk \in PositiveHotkeys(v)} |-> Weight(v, s[u].hk)]
    BY <1>1, <1>2, <1>3 DEF primary_mapping, Mapped
  <1>5. \A hk \in PositiveHotkeys(v) : /\ UidOf(s, hk) \in DOMAIN scores /\ s[UidOf(s, hk)].hk = hk
                                       /\ scores[UidOf(s, hk)] = Weight(v, hk) /\ Weight(v, hk) > 0
    <2>1. TAKE hk \in PositiveHotkeys(v)
    <2>2. s[UidOf(s, hk)].hk = hk
      BY <1>1, <1>4, <2>1, UidOfHotkey
    <2>3. UidOf(s, hk) \in DOMAIN scores /\ scores[UidOf(s, hk)] = Weight(v, s[UidOf(s, hk)].hk)
      BY <1>4, <2>1
    <2> QED
      BY <2>1, <2>2, <2>3 DEF PositiveHotkeys
  <1>6. /\ \A u \in DOMAIN w : u = b \/ (u \in DOMAIN scores /\ scores[u] > 0)
        /\ \A u \in DOMAIN scores : u # b /\ scores[u] > 0 => u \in DOMAIN w
    BY <1>3, BurnKeepsMiners
  <1>7. \A hk \in PositiveHotkeys(v) : hk \in HotkeysOf(s) /\ UidOf(s, hk) \in DOMAIN w
    BY <1>4, <1>5, <1>6
  <1>8. \A u \in DOMAIN w : u = b \/ \E hk \in PositiveHotkeys(v) \cap HotkeysOf(s) : u = UidOf(s, hk)
    BY <1>4, <1>6
  <1> QED
    BY <1>1, <1>7, <1>8 DEF MeansVector

\* Parts of signed rows are numbers: what is paid a part of is paid.
LEMMA WeightIsPositive ==
  ASSUME NEW v \in SignedVectors, NEW hk \in DOMAIN v.rows
  PROVE  /\ v.rows[hk].base > 0 => hk \in PositiveHotkeys(v)
         /\ Weight(v, hk) > 0 => hk \in PositiveHotkeys(v)
  BY VectorsAreSigned DEF SignedVector, PositiveHotkeys, Weight

LEMMA OthersMean ==
  ASSUME SubnetFits(observed.map), NEW v \in SignedVectors, v.policy \in {"v3", "legacy"},
         NEW w, w \in {v3_to_uid_weights(v), legacy_to_uid_weights(v)}, w # NONE
  PROVE  MeansVector(v, w)
  <1>1. PICK s, b : s = observed.map /\ b = burn_uid(v)
    OBVIOUS
  <1>2. PICK here : here = DOMAIN v.rows \cap HotkeysOf(s)
    OBVIOUS
  <1>3. PICK uids : uids = {UidOf(s, hk) : hk \in here}
    OBVIOUS
  <1>4. PICK scores : /\ w = apply_burn(scores, b, v.percent)
                      /\ DOMAIN scores = uids
                      /\ \A u \in uids : \/ scores[u] = Weight(v, s[u].hk)
                                         \/ scores[u] = v.rows[s[u].hk].base
    <2>1. CASE w = v3_to_uid_weights(v)
      <3>1. PICK scores : scores = [u \in uids |-> IF here = DOMAIN v.rows THEN Weight(v, s[u].hk)
                                                  ELSE v.rows[s[u].hk].base]
        OBVIOUS
      <3>2. w = apply_burn(scores, b, v.percent)
        BY <1>1, <1>2, <1>3, <2>1, <3>1 DEF v3_to_uid_weights, Mapped
      <3>3. DOMAIN scores = uids
        BY <3>1
      <3>4. \A u \in uids : scores[u] = Weight(v, s[u].hk) \/ scores[u] = v.rows[s[u].hk].base
        BY <3>1
      <3> QED
        BY <3>2, <3>3, <3>4
    <2>2. CASE w = legacy_to_uid_weights(v)
      <3>1. w = apply_burn([u \in uids |-> Weight(v, s[u].hk)], b, v.percent)
        BY <1>1, <1>2, <1>3, <2>2 DEF legacy_to_uid_weights, Mapped
      <3> QED
        BY <3>1
    <2> QED
      BY <2>1, <2>2
  <1>5. \A u \in DOMAIN w : u = b \/ (u \in uids /\ scores[u] > 0)
    BY <1>4, BurnKeepsMiners
  <1>6. \A u \in DOMAIN w : u = b \/ \E hk \in PositiveHotkeys(v) \cap HotkeysOf(s) : u = UidOf(s, hk)
    <2>1. SUFFICES ASSUME NEW u \in uids, scores[u] > 0
                   PROVE  \E hk \in PositiveHotkeys(v) \cap HotkeysOf(s) : u = UidOf(s, hk)
      BY <1>5
    <2>2. PICK hk \in here : u = UidOf(s, hk)
      BY <1>3, <2>1
    <2>3. s[u].hk = hk
      BY <1>1, <1>2, <2>2, UidOfHotkey
    <2>4. hk \in PositiveHotkeys(v)
      BY <1>2, <1>4, <2>1, <2>3, WeightIsPositive
    <2> QED
      BY <1>2, <2>2, <2>4
  <1> QED
    BY <1>1, <1>6 DEF MeansVector

LEMMA VectorMeans ==
  ASSUME SubnetFits(observed.map), NEW v \in SignedVectors,
         NEW w, w = vector_to_uid_weights(v), w # NONE
  PROVE  MeansVector(v, w) /\ resolve_burn_hotkey(v)
  <1>1. v.policy \in {"primary", "supply", "v3", "legacy"}
    BY VectorsAreSigned DEF SignedVector
  <1>2. resolve_burn_hotkey(v)
    BY DEF vector_to_uid_weights
  <1>3. CASE v.policy \in {"primary", "supply"}
    <2>1. w = confidential_primary_to_uid_weights(v)
      BY <1>3 DEF vector_to_uid_weights
    <2> QED
      BY <1>2, <2>1, PrimaryMeans
  <1>4. CASE v.policy \in {"v3", "legacy"}
    <2>1. w \in {v3_to_uid_weights(v), legacy_to_uid_weights(v)}
      BY <1>4 DEF vector_to_uid_weights
    <2> QED
      BY <1>2, <1>4, <2>1, OthersMean
  <1> QED
    BY <1>1, <1>3, <1>4

LEMMA SignKeeps ==
  ASSUME UidIInv, NEW v \in SignedVectors, sign_weights(v)
  PROVE  UidIInv'
  <1>1. PICK o, w : o = observed /\ w = vector_to_uid_weights(v)
    OBVIOUS
  <1>2. /\ o # NONE /\ w # NONE /\ DOMAIN w \subseteq DOMAIN o.map
        /\ uid_mapping_stable({o.map[u].hk : u \in DOMAIN w})
        /\ extrinsic' = [vector |-> v, weights |-> w, at |-> o.block]
        /\ subnet' = subnet /\ chainBlock' = chainBlock /\ regsInBlock' = regsInBlock
        /\ announced' = announced /\ observed' = observed
    BY <1>1 DEF sign_weights, chainSide
  <1>3. Kept(o) /\ SubnetFits(o.map)
    BY <1>1, <1>2 DEF UidIInv, Kept
  <1>4. MeansVector(v, w) /\ resolve_burn_hotkey(v)
    BY <1>1, <1>2, <1>3, VectorMeans
  <1>5. SwapDelay >= MortalPeriod /\ DOMAIN w \subseteq Lasting(o)
    <2>1. \A u \in DOMAIN w : o.map[u].hk \in o.safe /\ o.map[u].hk \notin o.pendingSwaps
      BY <1>1, <1>2 DEF uid_mapping_stable
    <2> QED
      BY <1>2, <2>1 DEF uid_mapping_stable, Lasting
  <1>6. \A u \in DOMAIN w : o.map[u].hk \in PositiveHotkeys(v) \cup {v.burn} \/ u = v.burnUid
    <2>1. TAKE u \in DOMAIN w
    <2>2. CASE u = burn_uid(v)
      <3>1. CASE v.burn = NONE
        BY <2>2, <3>1 DEF burn_uid
      <3>2. CASE v.burn # NONE
        <4>1. v.burn \in HotkeysOf(o.map) /\ u = UidOf(o.map, v.burn)
          BY <1>1, <1>4, <2>2, <3>2 DEF burn_uid, resolve_burn_hotkey
        <4> QED
          BY <1>3, <4>1, UidOfHotkey
      <3> QED
        BY <3>1, <3>2
    <2>3. CASE \E hk \in PositiveHotkeys(v) \cap HotkeysOf(o.map) : u = UidOf(o.map, hk)
      BY <1>3, <2>3, UidOfHotkey
    <2> QED
      BY <1>1, <1>4, <2>1, <2>2, <2>3 DEF MeansVector
  <1>7. v.policy \in {"primary", "supply"} => PositiveHotkeys(v) \subseteq {o.map[u].hk : u \in DOMAIN w}
    <2>1. SUFFICES ASSUME v.policy \in {"primary", "supply"}, NEW hk \in PositiveHotkeys(v)
                   PROVE  \E u \in DOMAIN w : hk = o.map[u].hk
      OBVIOUS
    <2>2. hk \in HotkeysOf(o.map) /\ UidOf(o.map, hk) \in DOMAIN w
      BY <1>1, <1>4, <2>1 DEF MeansVector
    <2> QED
      BY <1>3, <2>2, UidOfHotkey
  <1>8. PICK x : x = extrinsic'
    OBVIOUS
  <1>9. x.vector = v /\ x.weights = w /\ x.at = o.block
    BY <1>2, <1>8
  <1>10. Signed(o, x)
    BY <1>5, <1>6, <1>7, <1>9 DEF Signed
  <1>11. Kept(o)'
    BY <1>2, <1>3 DEF Kept, InEra, RoomLeft, Roomy, Buffered, Lasting, Left
  <1>12. SubnetSide' /\ o = observed'
    BY <1>1, <1>2 DEF UidIInv, SubnetSide
  <1> QED
    BY <1>2, <1>8, <1>10, <1>11, <1>12 DEF UidIInv, Kept, Signed, InEra, RoomLeft, Roomy, Buffered, Lasting, Left

LEMMA UidStep == UidIInv /\ [UidNext]_uidVars => UidIInv'
  <1> SUFFICES ASSUME UidIInv, [UidNext]_uidVars PROVE UidIInv'
    OBVIOUS
  <1>1. CASE SubnetStep
    BY <1>1, SubnetMoves
  <1>2. CASE chain_preflight
    BY <1>2, PreflightKeeps
  <1>3. CASE \E v \in SignedVectors : sign_weights(v)
    BY <1>3, SignKeeps
  <1>4. CASE UNCHANGED uidVars
    <2>1. PICK o, x : o = observed /\ x = extrinsic
      OBVIOUS
    <2>2. /\ subnet' = subnet /\ chainBlock' = chainBlock /\ regsInBlock' = regsInBlock
          /\ announced' = announced /\ o = observed' /\ x = extrinsic'
      BY <1>4, <2>1 DEF uidVars
    <2>3. o # NONE => Kept(o)'
      BY <2>1, <2>2 DEF UidIInv, Kept, InEra, RoomLeft, Roomy, Buffered, Lasting, Left
    <2> QED
      BY <2>1, <2>2, <2>3 DEF UidIInv, SubnetSide, Kept, Signed, InEra, RoomLeft, Roomy, Buffered, Lasting, Left
  <1> QED
    BY <1>1, <1>2, <1>3, <1>4 DEF UidNext

LEMMA UidImplies == UidIInv => UidInv
  <1> SUFFICES ASSUME UidIInv PROVE UidInv
    OBVIOUS
  <1>1. UidTypeOK
    <2>1. PICK s : s = subnet
      OBVIOUS
    <2>2. SubnetFits(s)
      BY <2>1 DEF UidIInv, SubnetSide
    <2> QED
      BY <2>1, <2>2, SubnetFinite, VectorsAreSigned DEF UidTypeOK, SubnetFits
  <1>2. LandsOnSigned
    <2>1. SUFFICES ASSUME CanLand
          PROVE  /\ DOMAIN extrinsic.weights \subseteq DOMAIN subnet
                 /\ \A u \in DOMAIN extrinsic.weights :
                       subnet[u].hk \in PositiveHotkeys(extrinsic.vector) \cup {extrinsic.vector.burn}
                         \/ u = extrinsic.vector.burnUid
                 /\ extrinsic.vector.policy \in {"primary", "supply"} =>
                       PositiveHotkeys(extrinsic.vector) \subseteq {subnet[u].hk : u \in DOMAIN extrinsic.weights}
      BY DEF LandsOnSigned
    <2>2. Kept(observed) /\ Signed(observed, extrinsic)
      BY <2>1 DEF UidIInv, CanLand
    <2>3. InEra(observed)
      BY <2>1, <2>2 DEF CanLand, Signed, InEra
    <2>4. \A u \in DOMAIN extrinsic.weights : u \in DOMAIN subnet /\ subnet[u] = observed.map[u]
      BY <2>2, <2>3 DEF Kept, Signed
    <2> QED
      BY <2>2, <2>4 DEF Signed
  <1> QED
    BY <1>1, <1>2 DEF UidInv

\* Whatever registers, is pruned or changes owner between the snapshot and the
\* end of the era: an extrinsic that can land pays the hotkeys that were signed
\* (_chain_preflight_unbounded, _require_uid_mapping_stability, vector_to_uid_weights).
THEOREM UidsLast == UidInit /\ [][UidNext]_uidVars => []UidInv
  <1> QED
    BY UidBegins, UidStep, UidImplies, PTL

----------------------------------------------------------------------------
(* The read caches                                                          *)

Builder(t) == building[t] # NONE /\ ~building[t].sync

\* Threads, timers and answers have their shapes; the two times of a payload are
\* one, and a cached "ready" is of a heartbeat that is recent enough until it ends.
CachesFit ==
    /\ cacheNow \in 0..MaxCacheTime /\ coldAsync \in BOOLEAN /\ hung \in BOOLEAN
    /\ building = [t \in Threads |-> building[t]]
    /\ \A t \in Threads : \/ building[t] = NONE
                          \/ /\ building[t] = [began |-> building[t].began, sync |-> building[t].sync]
                             /\ building[t].began \in 0..cacheNow /\ building[t].sync \in BOOLEAN
    /\ failedAt \in 0..cacheNow \cup {NONE} /\ beat \in 0..cacheNow \cup {NONE}
TimersFit ==
    /\ snaps = [n \in SnapshotNames |-> snaps[n]]
    /\ \A n \in SnapshotNames :
          /\ snaps[n] = [made |-> snaps[n].made, done |-> snaps[n].done, building |-> snaps[n].building]
          /\ snaps[n].made = snaps[n].done /\ snaps[n].done \in 0..cacheNow \cup {NONE}
    /\ topLock \in TopProcesses \cup {NONE}
HeartbeatFits ==
    /\ ready = [until |-> ready.until, ready |-> ready.ready] /\ ready.until \in Nat
    /\ ready.ready => beat \in 0..cacheNow /\ ready.until <= beat + WorkerStale + ReadyCache
AnswerFits ==
    /\ shown.age \in Nat
    /\ ServedIsRecent

\* With asynchronous first builds and none given up, the builder that runs is
\* the one the entry speaks of, and the entry remembers the failure before it.
Paced ==
    coldAsync /\ ~hung =>
        /\ \A t \in Threads : building[t] # NONE => ~building[t].sync
        /\ \A t, u \in Threads : Builder(t) /\ Builder(u) => t = u
        /\ entry # NONE => entry \in Entries
        /\ \A t \in Threads : Builder(t) => entry # NONE /\ entry.refreshing
        /\ failedAt # NONE => /\ entry # NONE
                              /\ ~entry.refreshing => entry.failures # 0 /\ entry.attempted = failedAt
                              /\ \A t \in Threads : Builder(t) => building[t].began >= failedAt + Backoff

CacheIInv == CachesFit /\ TimersFit /\ HeartbeatFits /\ AnswerFits /\ Paced

CacheNext == SoftNext \/ TimerNext \/ ReadyNext

LEMMA CacheBegins == CacheInit => CacheIInv
  <1> SUFFICES ASSUME CacheInit PROVE CacheIInv
    OBVIOUS
  <1>1. CachesFit
    <2>1. building = [t \in Threads |-> building[t]] /\ \A t \in Threads : building[t] = NONE
      BY DEF CacheInit
    <2>2. cacheNow \in 0..MaxCacheTime /\ coldAsync \in BOOLEAN /\ hung \in BOOLEAN
      <3>1. MaxCacheTime \in Nat
        BY CacheAssumption
      <3>2. cacheNow = 0 /\ coldAsync \in BOOLEAN /\ hung = FALSE
        BY DEF CacheInit
      <3>3. cacheNow \in 0..MaxCacheTime
        BY <3>1, <3>2
      <3>4. hung \in BOOLEAN
        BY <3>2
      <3> QED
        BY <3>2, <3>3, <3>4
    <2>3. failedAt = NONE /\ beat = NONE
      BY DEF CacheInit
    <2> QED
      BY <2>1, <2>2, <2>3 DEF CachesFit
  <1>2. TimersFit
    BY DEF CacheInit, TimersFit, Unbuilt
  <1>3. HeartbeatFits
    BY DEF CacheInit, HeartbeatFits
  <1>4. AnswerFits
    BY DEF CacheInit, AnswerFits, ServedIsRecent
  <1>5. Paced
    BY DEF CacheInit, Paced, Builder
  <1> QED
    BY <1>1, <1>2, <1>3, <1>4, <1>5 DEF CacheIInv

LEMMA TimersKeep ==
  ASSUME CacheIInv, TimerNext
  PROVE  CacheIInv'
  <1>1. CASE \E n \in SnapshotNames : TimerFires(n)
    <2>1. PICK n \in SnapshotNames : TimerFires(n)
      BY <1>1
    <2>2. TimersFit'
      <3>1. snaps' = [snaps EXCEPT ![n].building = TRUE] /\ topLock' = topLock /\ cacheNow' = cacheNow
        BY <2>1 DEF TimerFires
      <3>2. snaps[n] = [made |-> snaps[n].made, done |-> snaps[n].done, building |-> snaps[n].building]
        BY DEF CacheIInv, TimersFit
      <3>3. snaps'[n] = [made |-> snaps[n].made, done |-> snaps[n].done, building |-> TRUE]
        BY <3>1, <3>2 DEF CacheIInv, TimersFit
      <3>4. \A m \in SnapshotNames \ {n} : snaps'[m] = snaps[m]
        BY <3>1 DEF CacheIInv, TimersFit
      <3>5. snaps' = [m \in SnapshotNames |-> snaps'[m]]
        BY <3>1 DEF CacheIInv, TimersFit
      <3>6. \A m \in SnapshotNames :
               /\ snaps'[m] = [made |-> snaps'[m].made, done |-> snaps'[m].done, building |-> snaps'[m].building]
               /\ snaps'[m].made = snaps'[m].done /\ snaps'[m].done \in 0..cacheNow \cup {NONE}
        BY <3>3, <3>4 DEF CacheIInv, TimersFit
      <3> QED
        BY <3>1, <3>5, <3>6 DEF CacheIInv, TimersFit
    <2> QED
      BY <2>1, <2>2 DEF TimerFires, CacheIInv, CachesFit, HeartbeatFits, AnswerFits, Paced, Builder, ServedIsRecent,
                        softVars, readyVars
  <1>2. CASE \E n \in SnapshotNames : refresh_once(n)
    BY <1>2 DEF refresh_once, Built, kept, CacheIInv, CachesFit, TimersFit, HeartbeatFits, AnswerFits, Paced, Builder,
                ServedIsRecent, softVars, readyVars
  <1>3. CASE \E n \in SnapshotNames : snapshot_get(n)
    <2>1. PICK n \in SnapshotNames : snapshot_get(n)
      BY <1>3
    <2>2. /\ CachesFit' /\ TimersFit' /\ HeartbeatFits' /\ Paced'
      BY <2>1 DEF snapshot_get, CacheIInv, CachesFit, TimersFit, HeartbeatFits, Paced, Builder, softVars, timerVars, readyVars
    <2>3. shown'.from \in {"snapshot", "none", "live"}
      BY <2>1 DEF snapshot_get, Show
    <2>4. CASE Usable(snaps[n])
      <3>1. shown'.age = cacheNow - snaps[n].done
        BY <2>1, <2>4 DEF snapshot_get, Show, CacheIInv, TimersFit
      <3>2. snaps[n].done \in 0..cacheNow /\ cacheNow \in Nat
        BY <2>1, <2>4, CacheAssumption DEF Usable, CacheIInv, TimersFit, CachesFit
      <3> QED
        BY <2>2, <2>3, <2>4, <3>1, <3>2, CacheAssumption DEF Usable, CacheIInv, AnswerFits, ServedIsRecent
    <2>5. CASE ~Usable(snaps[n])
      <3>1. shown'.age = 0 /\ shown'.from # "snapshot"
        BY <2>1, <2>5 DEF snapshot_get, Show
      <3> QED
        BY <2>2, <2>3, <3>1 DEF CacheIInv, AnswerFits, ServedIsRecent
    <2> QED
      BY <2>4, <2>5
  <1>4. CASE \E p \in TopProcesses : TopFires(p) \/ TopBuilt(p)
    BY <1>4 DEF TopFires, TopBuilt, CacheIInv, CachesFit, TimersFit, HeartbeatFits, AnswerFits, Paced, Builder,
                ServedIsRecent, softVars, readyVars
  <1>5. CASE CacheTick
    <2>1. cacheNow' = cacheNow + 1 /\ cacheNow \in Nat /\ cacheNow' \in 0..MaxCacheTime
      BY <1>5, CacheAssumption DEF CacheTick, CacheIInv, CachesFit
    <2>2. \A x : x \in 0..cacheNow => x \in 0..cacheNow'
      BY <2>1
    <2> QED
      BY <1>5, <2>1, <2>2 DEF CacheTick, CacheIInv, CachesFit, TimersFit, HeartbeatFits, AnswerFits, Paced, Builder,
                              ServedIsRecent, softVars, timerVars, readyVars
  <1> QED
    BY <1>1, <1>2, <1>3, <1>4, <1>5 DEF TimerNext

LEMMA ReadyKeeps ==
  ASSUME CacheIInv, ReadyNext
  PROVE  CacheIInv'
  <1>1. CASE WorkerBeats
    <2>1. beat' = cacheNow /\ ready' = ready /\ cacheNow' = cacheNow /\ cacheNow \in Nat
      BY <1>1, CacheAssumption DEF WorkerBeats, CacheIInv, CachesFit
    <2>2. HeartbeatFits'
      BY <2>1, CacheAssumption DEF CacheIInv, HeartbeatFits
    <2> QED
      BY <1>1, <2>1, <2>2 DEF WorkerBeats, CacheIInv, CachesFit, TimersFit, AnswerFits, Paced, Builder,
                              ServedIsRecent, softVars, timerVars
  <1>2. CASE require_async_worker_ready
    <2>1. /\ ready' = async_worker_ready /\ beat' = beat /\ cacheNow' = cacheNow /\ cacheNow \in Nat
      BY <1>2, CacheAssumption DEF require_async_worker_ready, CacheIInv, CachesFit
    <2>2. HeartbeatFits' /\ (ready'.ready => beat \in 0..cacheNow /\ cacheNow - beat < WorkerStale + ReadyCache)
      <3>1. CASE cacheNow < ready.until
        <4>1. ready' = ready
          BY <2>1, <3>1 DEF async_worker_ready
        <4> QED
          BY <2>1, <3>1, <4>1, CacheAssumption DEF CacheIInv, HeartbeatFits
      <3>2. CASE ~(cacheNow < ready.until)
        <4>1. ready' = [until |-> cacheNow + ReadyCache, ready |-> beat # NONE /\ cacheNow - beat <= WorkerStale]
          BY <2>1, <3>2 DEF async_worker_ready
        <4>2. ready'.until = cacheNow + ReadyCache /\ ready' = [until |-> ready'.until, ready |-> ready'.ready]
              /\ (ready'.ready => beat # NONE /\ cacheNow - beat <= WorkerStale)
          BY <4>1
        <4>3. ready'.ready => beat \in 0..cacheNow
          BY <4>2 DEF CacheIInv, CachesFit
        <4> QED
          BY <2>1, <4>2, <4>3, CacheAssumption DEF HeartbeatFits
      <3> QED
        BY <3>1, <3>2
    <2>3. AnswerFits'
      <3>1. CASE ready'.ready
        BY <1>2, <2>1, <2>2, <3>1 DEF require_async_worker_ready, Show, AnswerFits, ServedIsRecent
      <3>2. CASE ~ready'.ready
        BY <1>2, <3>2 DEF require_async_worker_ready, Show, AnswerFits, ServedIsRecent
      <3> QED
        BY <3>1, <3>2
    <2> QED
      BY <1>2, <2>2, <2>3 DEF require_async_worker_ready, CacheIInv, CachesFit, TimersFit, Paced, Builder,
                              softVars, timerVars
  <1>3. CASE CacheTick
    BY <1>3, TimersKeep DEF TimerNext
  <1> QED
    BY <1>1, <1>2, <1>3 DEF ReadyNext

LEMMA SpawnFits ==
  ASSUME CachesFit, NEW sync \in BOOLEAN, Spawn(sync), cacheNow' = cacheNow
  PROVE  \E t \in Threads :
            /\ building[t] = NONE /\ building' = [building EXCEPT ![t] = [began |-> cacheNow, sync |-> sync]]
            /\ building' = [u \in Threads |-> building'[u]]
            /\ building'[t] = [began |-> cacheNow, sync |-> sync] /\ cacheNow \in 0..cacheNow
            /\ \A u \in Threads \ {t} : building'[u] = building[u]
  <1>1. PICK t \in Spare : building' = [building EXCEPT ![t] = [began |-> cacheNow, sync |-> sync]]
    BY DEF Spawn
  <1>2. t \in Threads /\ building[t] = NONE
    BY DEF Spare
  <1>3. /\ building'[t] = [began |-> cacheNow, sync |-> sync]
        /\ \A u \in Threads \ {t} : building'[u] = building[u]
        /\ building' = [u \in Threads |-> building'[u]]
    BY <1>1, <1>2 DEF CachesFit
  <1>4. cacheNow \in 0..cacheNow
    BY CacheAssumption DEF CachesFit
  <1> QED
    BY <1>1, <1>2, <1>3, <1>4

LEMMA SpawnShapes ==
  ASSUME CachesFit, NEW sync \in BOOLEAN, Spawn(sync), cacheNow' = cacheNow, coldAsync' = coldAsync,
         beat' = beat, failedAt' = failedAt, hung' \in BOOLEAN
  PROVE  CachesFit'
  <1>1. PICK t \in Threads :
            /\ building' = [u \in Threads |-> building'[u]]
            /\ building'[t] = [began |-> cacheNow, sync |-> sync] /\ cacheNow \in 0..cacheNow
            /\ \A u \in Threads \ {t} : building'[u] = building[u]
    BY SpawnFits
  <1>2. \A u \in Threads : \/ building'[u] = NONE
                           \/ /\ building'[u] = [began |-> building'[u].began, sync |-> building'[u].sync]
                              /\ building'[u].began \in 0..cacheNow /\ building'[u].sync \in BOOLEAN
    <2>1. TAKE u \in Threads
    <2>2. CASE u = t
      BY <1>1, <2>2
    <2>3. CASE u # t
      <3>1. building'[u] = building[u]
        BY <1>1, <2>3
      <3> QED
        BY <3>1 DEF CachesFit
    <2> QED
      BY <2>2, <2>3
  <1> QED
    BY <1>1, <1>2 DEF CachesFit

LEMMA OthersKept ==
  ASSUME TimersFit, HeartbeatFits, UNCHANGED <<cacheNow, snaps, tops, topLock, beat, ready>>
  PROVE  TimersFit' /\ HeartbeatFits'
  BY DEF TimersFit, HeartbeatFits

LEMMA StaleKeeps ==
  ASSUME CacheIInv, UNCHANGED <<coldAsync, cacheNow, beat, failedAt>>,
         entry # NONE, may_spawn(entry), Spawn(FALSE), hung' = (hung \/ entry.refreshing),
         entry' = [entry EXCEPT !.refreshing = TRUE, !.attempted = cacheNow, !.started = cacheNow]
  PROVE  Paced'
  <1>1. SUFFICES ASSUME coldAsync, ~hung, ~entry.refreshing PROVE Paced'
    BY DEF Paced
  <1>2. PICK t \in Threads :
            /\ building[t] = NONE
            /\ building'[t] = [began |-> cacheNow, sync |-> FALSE]
            /\ \A u \in Threads \ {t} : building'[u] = building[u]
    BY SpawnFits DEF CacheIInv
  <1>3. Paced
    BY DEF CacheIInv
  <1>4. \A u \in Threads : ~Builder(u)
    BY <1>1, <1>3 DEF Paced
  <1>5. \A u \in Threads \ {t} : ~Builder(u)' /\ building'[u] = NONE
    BY <1>1, <1>2, <1>3, <1>4 DEF Builder, Paced
  <1>6. building'[t].began = cacheNow /\ building'[t].sync = FALSE
    BY <1>2
  <1>7. entry \in Entries /\ cacheNow \in 0..MaxCacheTime
    BY <1>1, <1>3 DEF Paced, CacheIInv, CachesFit
  <1>8. entry' \in Entries /\ entry'.refreshing
    BY <1>7 DEF Entries
  <1>9. entry' # NONE
    BY <1>8, NoEntryIsNone
  <1>10. failedAt # NONE => cacheNow >= failedAt + Backoff
    <2>1. SUFFICES ASSUME failedAt # NONE PROVE cacheNow >= failedAt + Backoff
      OBVIOUS
    <2>2. entry.failures # 0 /\ entry.attempted = failedAt
      BY <1>1, <1>3, <2>1 DEF Paced
    <2>3. cacheNow - entry.attempted >= Backoff
      BY <2>2 DEF may_spawn
    <2>4. failedAt \in Nat /\ cacheNow \in Nat /\ Backoff \in Nat
      BY <2>1, CacheAssumption DEF CacheIInv, CachesFit
    <2> QED
      BY <2>2, <2>3, <2>4
  <1> QED
    BY <1>5, <1>6, <1>8, <1>9, <1>10 DEF Paced, Builder

LEMMA ColdKeeps ==
  ASSUME CacheIInv, UNCHANGED <<coldAsync, cacheNow, beat, failedAt, hung>>, entry = NONE, Spawn(FALSE),
         entry' = [done |-> 0, refreshing |-> TRUE, attempted |-> cacheNow, started |-> cacheNow,
                   failures |-> 0, ok |-> FALSE]
  PROVE  Paced'
  <1>1. SUFFICES ASSUME coldAsync, ~hung PROVE Paced'
    BY DEF Paced
  <1>2. PICK t \in Threads :
            /\ building[t] = NONE
            /\ building'[t] = [began |-> cacheNow, sync |-> FALSE]
            /\ \A u \in Threads \ {t} : building'[u] = building[u]
    BY SpawnFits DEF CacheIInv
  <1>3. Paced
    BY DEF CacheIInv
  <1>4. \A u \in Threads \ {t} : ~Builder(u)' /\ building'[u] = NONE
    BY <1>1, <1>2, <1>3 DEF Builder, Paced
  <1>5. building'[t].began = cacheNow /\ building'[t].sync = FALSE
    BY <1>2
  <1>6. cacheNow \in 0..MaxCacheTime /\ 0 \in 0..MaxCacheTime
    BY CacheAssumption DEF CacheIInv, CachesFit
  <1>7. entry' \in Entries /\ entry'.refreshing
    BY <1>6 DEF Entries
  <1>8. entry' # NONE
    BY <1>7, NoEntryIsNone
  <1>9. failedAt = NONE
    BY <1>1, <1>3 DEF Paced
  <1> QED
    BY <1>4, <1>5, <1>7, <1>8, <1>9 DEF Paced, Builder

LEMMA EndKeeps ==
  ASSUME CacheIInv, NEW t \in Threads, building[t] # NONE, building' = [building EXCEPT ![t] = NONE],
         UNCHANGED <<coldAsync, cacheNow, hung, snaps, tops, topLock, beat, ready, shown>>,
         \/ /\ entry' = [done |-> cacheNow, refreshing |-> FALSE, attempted |-> cacheNow, started |-> 0,
                         failures |-> 0, ok |-> TRUE]
            /\ failedAt' = NONE
         \/ building[t].sync /\ UNCHANGED <<entry, failedAt>>
         \/ /\ ~building[t].sync
            /\ entry' = [entry EXCEPT !.refreshing = FALSE, !.attempted = cacheNow,
                                      !.failures = IF @ = 0 THEN 1 ELSE @]
            /\ failedAt' = cacheNow
  PROVE  CacheIInv'
  <1>1. /\ building'[t] = NONE /\ building' = [u \in Threads |-> building'[u]]
        /\ \A u \in Threads \ {t} : building'[u] = building[u]
    BY DEF CacheIInv, CachesFit
  <1>2. cacheNow \in 0..MaxCacheTime /\ cacheNow \in 0..cacheNow /\ 0 \in 0..MaxCacheTime
    BY CacheAssumption DEF CacheIInv, CachesFit
  <1>3. failedAt' \in 0..cacheNow \cup {NONE}
    BY <1>2 DEF CacheIInv, CachesFit
  <1>4. CachesFit'
    <2>1. \A u \in Threads : \/ building'[u] = NONE
                             \/ /\ building'[u] = [began |-> building'[u].began, sync |-> building'[u].sync]
                                /\ building'[u].began \in 0..cacheNow /\ building'[u].sync \in BOOLEAN
      BY <1>1 DEF CacheIInv, CachesFit
    <2> QED
      BY <1>1, <1>3, <2>1 DEF CacheIInv, CachesFit
  <1>5. TimersFit' /\ HeartbeatFits' /\ AnswerFits'
    BY DEF CacheIInv, TimersFit, HeartbeatFits, AnswerFits, ServedIsRecent
  <1>6. Paced'
    <2>1. SUFFICES ASSUME coldAsync, ~hung PROVE Paced'
      BY DEF Paced
    <2>2. Paced
      BY DEF CacheIInv
    <2>3. Builder(t) /\ ~building[t].sync
      BY <2>1, <2>2 DEF Paced, Builder
    <2>4. \A u \in Threads : ~Builder(u)' /\ building'[u] = NONE
      <3>1. TAKE u \in Threads
      <3>2. CASE u = t
        BY <1>1, <3>2 DEF Builder
      <3>3. CASE u # t
        <4>1. building'[u] = building[u] /\ ~Builder(u)
          BY <1>1, <2>1, <2>2, <2>3, <3>3 DEF Paced
        <4> QED
          BY <2>1, <2>2, <4>1 DEF Builder, Paced
      <3> QED
        BY <3>2, <3>3
    <2>5. entry \in Entries
      BY <2>1, <2>2, <2>3 DEF Paced
    <2>6. entry' \in Entries /\ (failedAt' # NONE => ~entry'.refreshing /\ entry'.failures # 0 /\ entry'.attempted = failedAt')
      <3>1. CASE /\ entry' = [done |-> cacheNow, refreshing |-> FALSE, attempted |-> cacheNow, started |-> 0,
                              failures |-> 0, ok |-> TRUE]
                 /\ failedAt' = NONE
        BY <1>2, <3>1 DEF Entries
      <3>2. CASE /\ entry' = [entry EXCEPT !.refreshing = FALSE, !.attempted = cacheNow,
                                           !.failures = IF @ = 0 THEN 1 ELSE @]
                 /\ failedAt' = cacheNow
        <4>1. entry = [done |-> entry.done, refreshing |-> entry.refreshing, attempted |-> entry.attempted,
                       started |-> entry.started, failures |-> entry.failures, ok |-> entry.ok]
          BY <2>5 DEF Entries
        <4>2. entry' = [done |-> entry.done, refreshing |-> FALSE, attempted |-> cacheNow,
                        started |-> entry.started, failures |-> IF entry.failures = 0 THEN 1 ELSE entry.failures,
                        ok |-> entry.ok]
          BY <3>2, <4>1
        <4>3. /\ entry.done \in 0..MaxCacheTime /\ entry.started \in 0..MaxCacheTime
              /\ entry.failures \in {0, 1} /\ entry.ok \in BOOLEAN
          BY <2>5 DEF Entries
        <4>4. PICK k \in {1} : k = IF entry.failures = 0 THEN 1 ELSE entry.failures
          BY <4>3
        <4>5. entry' = [done |-> entry.done, refreshing |-> FALSE, attempted |-> cacheNow,
                        started |-> entry.started, failures |-> k, ok |-> entry.ok]
          BY <4>2, <4>4
        <4>6. entry' \in Entries
          BY <1>2, <4>3, <4>5 DEF Entries
        <4>7. ~entry'.refreshing /\ entry'.failures # 0 /\ entry'.attempted = cacheNow
          BY <4>5
        <4> QED
          BY <3>2, <4>6, <4>7
      <3> QED
        BY <2>3, <3>1, <3>2
    <2>7. entry' # NONE
      BY <2>6, NoEntryIsNone
    <2> QED
      BY <2>4, <2>6, <2>7 DEF Paced
  <1> QED
    BY <1>4, <1>5, <1>6 DEF CacheIInv

LEMMA SoftKeeps ==
  ASSUME CacheIInv, SoftNext
  PROVE  CacheIInv'
  <1>1. CASE SoftGet
    <2> USE <1>1
    <2>1. UNCHANGED <<coldAsync, cacheNow, snaps, tops, topLock, beat, ready>>
      BY DEF SoftGet, timerVars, readyVars
    <2>2. TimersFit' /\ HeartbeatFits'
      BY <2>1, OthersKept DEF CacheIInv
    <2>3. CASE entry # NONE /\ IsFresh(entry) /\ Show("hit", 0) /\ UNCHANGED softVars
      <3>1. UNCHANGED <<entry, building, failedAt, hung>>
        BY <2>3 DEF softVars
      <3>2. CachesFit' /\ Paced'
        BY <2>1, <3>1 DEF CacheIInv, CachesFit, Paced, Builder
      <3>3. AnswerFits'
        BY <2>3 DEF Show, AnswerFits, ServedIsRecent
      <3> QED
        BY <2>2, <3>2, <3>3 DEF CacheIInv
    <2>4. CASE /\ entry # NONE /\ ~IsFresh(entry)
               /\ IF may_spawn(entry)
                  THEN /\ Spawn(FALSE)
                       /\ entry' = [entry EXCEPT !.refreshing = TRUE, !.attempted = cacheNow, !.started = cacheNow]
                       /\ hung' = (hung \/ entry.refreshing)
                  ELSE UNCHANGED <<entry, building, hung>>
               /\ Show(IF entry'.refreshing THEN (IF entry.ok THEN "stale" ELSE "warming") ELSE "degraded", 0)
               /\ UNCHANGED failedAt
      <3>1. AnswerFits'
        <4>1. shown'.age = 0 /\ shown'.from \in {"stale", "warming", "degraded"}
          BY <2>4 DEF Show
        <4> QED
          BY <4>1 DEF AnswerFits, ServedIsRecent
      <3>2. CASE may_spawn(entry)
        <4>1. hung' \in BOOLEAN
          BY <2>4, <3>2
        <4>2. CachesFit'
          BY <2>1, <2>4, <3>2, <4>1, SpawnShapes DEF CacheIInv
        <4>3. Paced'
          BY <2>1, <2>4, <3>2, StaleKeeps
        <4> QED
          BY <2>2, <3>1, <4>2, <4>3 DEF CacheIInv
      <3>3. CASE ~may_spawn(entry)
        <4>1. CachesFit' /\ Paced'
          BY <2>1, <2>4, <3>3 DEF CacheIInv, CachesFit, Paced, Builder
        <4> QED
          BY <2>2, <3>1, <4>1 DEF CacheIInv
      <3> QED
        BY <3>2, <3>3
    <2>5. CASE /\ entry = NONE /\ coldAsync /\ Spawn(FALSE)
               /\ entry' = [done |-> 0, refreshing |-> TRUE, attempted |-> cacheNow, started |-> cacheNow,
                            failures |-> 0, ok |-> FALSE]
               /\ Show("warming", 0) /\ UNCHANGED <<failedAt, hung>>
      <3>1. hung' \in BOOLEAN
        BY <2>5 DEF CacheIInv, CachesFit
      <3>2. CachesFit'
        BY <2>1, <2>5, <3>1, SpawnShapes DEF CacheIInv
      <3>3. Paced'
        BY <2>1, <2>5, ColdKeeps
      <3>4. AnswerFits'
        BY <2>5 DEF Show, AnswerFits, ServedIsRecent
      <3> QED
        BY <2>2, <3>2, <3>3, <3>4 DEF CacheIInv
    <2>6. CASE entry = NONE /\ ~coldAsync /\ Spawn(TRUE) /\ UNCHANGED <<entry, failedAt, hung, shown>>
      <3>1. hung' \in BOOLEAN
        BY <2>6 DEF CacheIInv, CachesFit
      <3>2. CachesFit'
        BY <2>1, <2>6, <3>1, SpawnShapes DEF CacheIInv
      <3>3. Paced' /\ AnswerFits'
        BY <2>1, <2>6 DEF Paced, CacheIInv, AnswerFits, ServedIsRecent
      <3> QED
        BY <2>2, <3>2, <3>3 DEF CacheIInv
    <2> QED
      BY <2>3, <2>4, <2>5, <2>6 DEF SoftGet, soft_get
  <1>2. CASE \E t \in Threads : RefreshReturns(t)
    <2>1. PICK t \in Threads : RefreshReturns(t)
      BY <1>2
    <2> QED
      BY <2>1, EndKeeps DEF RefreshReturns, timerVars, readyVars
  <1>3. CASE \E t \in Threads : RefreshFails(t)
    <2>1. PICK t \in Threads : RefreshFails(t)
      BY <1>3
    <2> QED
      BY <2>1, EndKeeps DEF RefreshFails, timerVars, readyVars
  <1>4. CASE CacheTick
    BY <1>4, TimersKeep DEF TimerNext
  <1> QED
    BY <1>1, <1>2, <1>3, <1>4 DEF SoftNext

LEMMA CacheStep == CacheIInv /\ [CacheNext]_cacheVars => CacheIInv'
  <1> SUFFICES ASSUME CacheIInv, [CacheNext]_cacheVars PROVE CacheIInv'
    OBVIOUS
  <1>1. CASE UNCHANGED cacheVars
    BY <1>1 DEF cacheVars, CacheIInv, CachesFit, TimersFit, HeartbeatFits, AnswerFits, Paced, Builder, ServedIsRecent
  <1> QED
    BY <1>1, SoftKeeps, TimersKeep, ReadyKeeps DEF CacheNext

LEMMA CacheImplies == CacheIInv => CacheInv
  <1> SUFFICES ASSUME CacheIInv PROVE CacheInv
    OBVIOUS
  <1>1. CacheTypeOK
    BY DEF CacheIInv, CachesFit, TimersFit, AnswerFits, CacheTypeOK
  <1>2. RefreshesPaced
    <2>1. SUFFICES ASSUME coldAsync, ~hung
                   PROVE  /\ Cardinality(Running) <= 1
                          /\ \A t \in Running : failedAt = NONE \/ building[t].began >= failedAt + Backoff
      BY DEF RefreshesPaced
    <2>2. Paced
      BY DEF CacheIInv
    <2>3. \A t \in Running : t \in Threads /\ Builder(t)
      BY DEF Running, Builder
    <2>4. Cardinality(Running) <= 1
      <3>1. CASE Running = {}
        BY <3>1, FS_EmptySet
      <3>2. CASE Running # {}
        <4>1. PICK t \in Running : TRUE
          BY <3>2
        <4>2. \A u \in Running : u = t
          BY <2>1, <2>2, <2>3 DEF Paced
        <4>3. Running = {t}
          BY <4>1, <4>2
        <4> QED
          BY <4>3, FS_Singleton
      <3> QED
        BY <3>1, <3>2
    <2> QED
      BY <2>1, <2>2, <2>3, <2>4 DEF Paced
  <1> QED
    BY <1>1, <1>2 DEF CacheIInv, AnswerFits, CacheInv

\* Whatever builds fail, end late or never: with asynchronous first builds no
\* second refresh runs beside one that was not given up, a failed one is followed by
\* its backoff, and what is served is recent (_SoftTtlCache, MaterializedSnapshot,
\* _async_worker_ready).
THEOREM ReadsRecent == CacheInit /\ [][CacheNext]_cacheVars => []CacheInv
  <1> QED
    BY CacheBegins, CacheStep, CacheImplies, PTL
=============================================================================
