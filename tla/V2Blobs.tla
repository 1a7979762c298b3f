------------------------------- MODULE V2Blobs -------------------------------
(***************************************************************************)
(* Solution blobs of the V2 stack: the local content-addressed store, the  *)
(* upload route, the mirror of V1 submissions, the manifest route with its *)
(* inline copy, and the bytes verification uses.                           *)
(*                                                                         *)
(* Source: blob_store.py, solution_manifest.py, v2_pipeline.verify_one and *)
(* the three routes of app.py.  A blob stands for its sha256.  A file is   *)
(* created empty and filled in two writes; what is on it is one of none,   *)
(* empty, part, whole.  Manifests name local CIDs and hash soundly; the    *)
(* check of the solution itself and retries are in V2Manifests.            *)
(***************************************************************************)
EXTENDS Absent, Naturals

CONSTANTS
    Webs,          \* web processes on one blob directory; each serves one request at a time
    Blobs,         \* solutions
    Faulty,        \* first check a bad request may fail
    Checkers,      \* verify workers
    MaxBlobFaults  \* bound on deaths and redeploys

Kinds == {"solution", "v1_submit_solution"}
Contents == {"none", "empty", "part", "whole"}
Manifest == [inline : Contents, status : {"received", "verifying", "verified", "rejected"}]
ASSUME NoManifestIsNone == NONE \notin Manifest
KindOf(route) == IF route = "mirror" THEN "v1_submit_solution" ELSE "solution"

VARIABLES
    disk,        \* <<kind, blob>> -> contents of the file at its path
    webs,        \* process -> [pc, route, blob]
    uploaded,    \* blobs an upload was answered for since the disk was wiped
    mirrored,    \* v2_shadow_v1_submits, by idempotency key
    manifests,   \* solution_manifests: blob -> its row, or NONE
    checking,    \* worker -> the row it has claimed, or NONE
    scored,      \* contents that a verified row was scored from
    blobFaults

blobVars == <<disk, webs, uploaded, mirrored, manifests, checking, scored, blobFaults>>

NoJob == [pc |-> "free", route |-> NONE, blob |-> NONE]
PathOf(t) == <<KindOf(webs[t].route), webs[t].blob>>
Goto(t, pc) == webs' = [webs EXCEPT ![t].pc = pc]
Done(t) == webs' = [webs EXCEPT ![t] = NoJob]

(* Size, form, declared hash, clock skew and signature; a manifest that is *)
(* not well formed is refused in the same way.                             *)
Request(t, route, b, wrong) ==
    /\ webs[t].pc = "free" /\ wrong = NONE
    /\ webs' = [webs EXCEPT ![t] = [route |-> route, blob |-> b,
                    pc |-> IF route = "manifest" THEN "inline" ELSE "put"]]
    /\ UNCHANGED <<disk, uploaded, mirrored, manifests, checking, scored, blobFaults>>

normalize_manifest(t, route, b, wrong) ==
    /\ webs[t].pc = "free" /\ wrong # NONE
    /\ UNCHANGED blobVars

(* A file that exists is left alone, whatever is on it.                    *)
put_blob(t) ==
    /\ webs[t].pc \in {"put", "fill", "close"}
    /\ CASE webs[t].pc = "put" /\ disk[PathOf(t)] # "none" -> Goto(t, "answer") /\ UNCHANGED disk
         [] webs[t].pc = "put" /\ disk[PathOf(t)] = "none" ->
                Goto(t, "fill") /\ disk' = [disk EXCEPT ![PathOf(t)] = "empty"]
         [] webs[t].pc = "fill" -> Goto(t, "close") /\ disk' = [disk EXCEPT ![PathOf(t)] = "part"]
         [] webs[t].pc = "close" ->
                Goto(t, "answer") /\ disk' = [disk EXCEPT ![PathOf(t)] = "whole"]
    /\ UNCHANGED <<uploaded, mirrored, manifests, checking, scored, blobFaults>>

upload_solution_blob_v2(t) ==
    /\ webs[t].pc = "answer" /\ webs[t].route = "upload"
    /\ uploaded' = uploaded \cup {webs[t].blob}
    /\ Done(t)
    /\ UNCHANGED <<disk, mirrored, manifests, checking, scored, blobFaults>>

(* Inserted unless the key of hotkey, challenge and hash is there.         *)
v2_shadow_v1_admit(b) == mirrored \cup {b}

shadow_v1_submit_v2(t) ==
    /\ webs[t].pc = "answer" /\ webs[t].route = "mirror"
    /\ mirrored' = v2_shadow_v1_admit(webs[t].blob)
    /\ Done(t)
    /\ UNCHANGED <<disk, uploaded, manifests, checking, scored, blobFaults>>

fetch(b) == disk[<<"solution", b>>]

(* The inline copy is what the file holds at this moment, or nothing; an   *)
(* admitted manifest keeps the copy it came with.                          *)
submit_solution_manifest_v2(t) ==
    /\ webs[t].pc = "inline"
    /\ manifests' = [manifests EXCEPT ![webs[t].blob] =
           IF @ # NONE THEN @ ELSE [inline |-> fetch(webs[t].blob), status |-> "received"]]
    /\ Done(t)
    /\ UNCHANGED <<disk, uploaded, mirrored, checking, scored, blobFaults>>

(* A worker claims a row, also one whose lock has lapsed.                  *)
Claim(w, b) ==
    /\ checking[w] = NONE
    /\ manifests[b] # NONE /\ manifests[b].status \in {"received", "verifying"}
    /\ checking' = [checking EXCEPT ![w] = b]
    /\ manifests' = [manifests EXCEPT ![b].status = "verifying"]
    /\ UNCHANGED <<disk, webs, uploaded, mirrored, scored, blobFaults>>

(* An empty inline copy counts as none.                                    *)
BytesFor(b) == IF manifests[b].inline \in {"part", "whole"} THEN manifests[b].inline ELSE fetch(b)

(* Mutant: only the blob store's copy is hashed.                           *)
sha_matches_fetched(b, bytes) == bytes # "none" /\ (manifests[b].inline # "none" \/ bytes = "whole")
sha_matches(b, bytes) == bytes = "whole"

(* The verdict is written by id, whatever the row says by now.             *)
verify_bytes(w) ==
    /\ checking[w] # NONE
    /\ LET b == checking[w]
           bytes == BytesFor(b)
           ok == sha_matches(b, bytes)
       IN  /\ manifests' = [manifests EXCEPT ![b].status = IF ok THEN "verified" ELSE "rejected"]
           /\ scored' = IF ok THEN scored \cup {bytes} ELSE scored
    /\ checking' = [checking EXCEPT ![w] = NONE]
    /\ UNCHANGED <<disk, webs, uploaded, mirrored, blobFaults>>

(* A web process dies; what was written stays.                             *)
WebDies(t) ==
    /\ blobFaults < MaxBlobFaults
    /\ blobFaults' = blobFaults + 1
    /\ Done(t)
    /\ UNCHANGED <<disk, uploaded, mirrored, manifests, checking, scored>>

(* A redeploy also starts from an empty disk.                              *)
Redeploy ==
    /\ blobFaults < MaxBlobFaults
    /\ blobFaults' = blobFaults + 1
    /\ webs' = [t \in Webs |-> NoJob]
    /\ disk' = [f \in DOMAIN disk |-> "none"]
    /\ uploaded' = {}
    /\ UNCHANGED <<mirrored, manifests, checking, scored>>

BlobInit ==
    /\ disk = [f \in Kinds \X Blobs |-> "none"]
    /\ webs = [t \in Webs |-> NoJob]
    /\ uploaded = {} /\ mirrored = {} /\ manifests = [b \in Blobs |-> NONE]
    /\ checking = [w \in Checkers |-> NONE] /\ scored = {} /\ blobFaults = 0

BlobNext ==
    \/ \E t \in Webs :
          \/ \E route \in {"upload", "mirror", "manifest"}, b \in Blobs, wrong \in Faulty \cup {NONE} :
                Request(t, route, b, wrong) \/ normalize_manifest(t, route, b, wrong)
          \/ put_blob(t) \/ upload_solution_blob_v2(t) \/ shadow_v1_submit_v2(t)
          \/ submit_solution_manifest_v2(t) \/ WebDies(t)
    \/ \E w \in Checkers : verify_bytes(w) \/ \E b \in Blobs : Claim(w, b)
    \/ Redeploy
BlobSpec == BlobInit /\ [][BlobNext]_blobVars

----------------------------------------------------------------------------
BlobTypeOK ==
    /\ disk \in [Kinds \X Blobs -> Contents]
    /\ \A t \in Webs : webs[t].pc \in {"free", "put", "fill", "close", "answer", "inline"}
    /\ uploaded \subseteq Blobs /\ mirrored \subseteq Blobs
    /\ manifests \in [Blobs -> Manifest \cup {NONE}]

(* A torn file, left by a death in a write or read in the middle of one,   *)
(* may be captured inline, but nothing is ever scored from it.             *)
TornNeverScored == scored \subseteq {"whole"}

(* Blobs: types, and no score from a torn file.                            *)
BlobInv == BlobTypeOK /\ TornNeverScored
=============================================================================
