----------------------------- MODULE DurableFile -----------------------------
(***************************************************************************)
(* How the validator, its operators and the thin subnet replace a file     *)
(* that must survive a crash: a temporary file, fsync, rename, fsync of    *)
(* the directory.  The tools differ in the name of the temporary file, in  *)
(* whether a lock serialises the writers and in the last fsync.            *)
(*                                                                         *)
(* The file system is external: a process may die between two calls, the   *)
(* sync of the directory may fail; after a power loss a file that was not  *)
(* synced may be torn and a rename that was not synced may be undone.      *)
(***************************************************************************)
EXTENDS Naturals, Sequences, Absent

CONSTANTS
    FileWriters,
    MaxWrites, MaxFileFaults    \* bounds
ASSUME FileConstants == {MaxWrites, MaxFileFaults} \subseteq Nat
\* No temporary name is the name of the file itself.
ASSUME FileNames == "target" \notin FileWriters

\* How a tool writes: the name of its temporary file, whether a lock or a lease
\* keeps other writers out, whether it syncs the directory after the rename and
\* whether it removes the temporary name at the end whatever happened.
Tool(temp, locked, dirsync, cleans) ==
    [temp |-> temp, locked |-> locked, dirsync |-> dirsync, cleans |-> cleans]
replace_private_state    == Tool("fixed", TRUE,  TRUE,  TRUE)
write_launch_approval    == Tool("fixed", FALSE, TRUE,  TRUE)
write_authorization      == Tool("fixed", FALSE, TRUE,  TRUE)
write_snapshot_atomic    == Tool("fixed", FALSE, TRUE,  FALSE)
publish_status_file      == Tool("fresh", FALSE, TRUE,  TRUE)
atomic_replace_receipt   == Tool("fresh", FALSE, TRUE,  TRUE)
thin_state_save          == Tool("fresh", TRUE,  TRUE,  TRUE)
verifyml_write           == Tool("fresh", FALSE, TRUE,  TRUE)
policy_write             == Tool("fresh", FALSE, FALSE, TRUE)
decision_record_write    == Tool("fresh", FALSE, FALSE, TRUE)
write_report             == Tool("fresh", FALSE, FALSE, TRUE)
FileTools ==
    {replace_private_state, write_launch_approval, write_authorization, write_snapshot_atomic,
     publish_status_file, atomic_replace_receipt, thin_state_save, verifyml_write, policy_write,
     decision_record_write, write_report}

VARIABLES
    tool,       \* the tool whose file this is
    inodes,     \* the files ever created: [doc, whole, synced]
    entries,    \* names in the directory, to inodes
    synced,     \* the directory as of its last fsync
    writer,     \* the write each process is in
    acked,      \* the newest document whose write has returned with the directory synced
    writes, fileFaults

fileVars == <<tool, inodes, entries, synced, writer, acked, writes, fileFaults>>

TempNames == {"tmp"} \cup FileWriters
Names == {"target"} \cup TempNames
temp_name(w) == IF tool.temp = "fresh" THEN w ELSE "tmp"
FileIdle == [pc |-> "idle", doc |-> 0, inode |-> 0]

\* The file exists before the first write, with document 0.
FileInit ==
    /\ tool \in FileTools
    /\ inodes = <<[doc |-> 0, whole |-> TRUE, synced |-> TRUE]>>
    /\ entries = [n \in Names |-> IF n = "target" THEN 1 ELSE NONE]
    /\ synced = 1
    /\ writer = [w \in FileWriters |-> FileIdle]
    /\ acked = 0 /\ writes = 0 /\ fileFaults = 0

WriterAt(w, pc) == writer[w].pc = pc
WriterTo(w, pc) == writer' = [writer EXCEPT ![w].pc = pc]

\* The lock of the validator's tick, the lease of the thin validator
Locked(w) == tool.locked => \A v \in FileWriters \ {w} : WriterAt(v, "idle")

begin_write(w) ==
    /\ WriterAt(w, "idle") /\ writes < MaxWrites /\ Locked(w)
    /\ writes' = writes + 1
    /\ writer' = [writer EXCEPT ![w] = [pc |-> "unlink", doc |-> writes + 1, inode |-> 0]]
    /\ UNCHANGED <<inodes, entries, synced, acked>>

\* A temporary file that a dead process left is removed first; a fresh name has
\* none.
unlink_temporary(w) ==
    /\ WriterAt(w, "unlink")
    /\ entries' = [entries EXCEPT ![temp_name(w)] = NONE]
    /\ WriterTo(w, "create")
    /\ UNCHANGED <<inodes, synced, acked, writes>>

\* O_EXCL: the name must be free, or the write fails.
create_exclusive(w) ==
    /\ WriterAt(w, "create")
    /\ IF entries[temp_name(w)] = NONE
       THEN LET n == Len(inodes) + 1
            IN  /\ inodes' = Append(inodes, [doc |-> writer[w].doc, whole |-> FALSE, synced |-> FALSE])
                /\ entries' = [entries EXCEPT ![temp_name(w)] = n]
                /\ writer' = [writer EXCEPT ![w].pc = "write", ![w].inode = n]
       ELSE writer' = [writer EXCEPT ![w] = FileIdle] /\ UNCHANGED <<inodes, entries>>
    /\ UNCHANGED <<synced, acked, writes>>

write_document(w) ==
    /\ WriterAt(w, "write")
    /\ inodes' = [inodes EXCEPT ![writer[w].inode].whole = TRUE]
    /\ WriterTo(w, "fsync")
    /\ UNCHANGED <<entries, synced, acked, writes>>
\* Mutant: the file is not synced before the rename.
fsync_file_skipped(w) ==
    /\ WriterAt(w, "fsync")
    /\ WriterTo(w, "replace")
    /\ UNCHANGED <<inodes, entries, synced, acked, writes>>
fsync_file(w) ==
    /\ WriterAt(w, "fsync")
    /\ inodes' = [inodes EXCEPT ![writer[w].inode].synced = TRUE]
    /\ WriterTo(w, "replace")
    /\ UNCHANGED <<entries, synced, acked, writes>>

\* os.replace moves whatever the temporary name now means; with no such file it
\* raises.
replace_target(w) ==
    LET tmp == entries[temp_name(w)]
    IN  /\ WriterAt(w, "replace")
        /\ IF tmp = NONE
           THEN writer' = [writer EXCEPT ![w] = FileIdle] /\ UNCHANGED entries
           ELSE /\ entries' = [entries EXCEPT !["target"] = tmp, ![temp_name(w)] = NONE]
                /\ WriterTo(w, IF tool.dirsync THEN "dirsync" ELSE "return")
        /\ UNCHANGED <<inodes, synced, acked, writes>>
\* finally: the temporary name is removed again, whoever's it is.
Cleaned(w) == entries' = IF tool.cleans THEN [entries EXCEPT ![temp_name(w)] = NONE] ELSE entries

\* Mutant: the rename is never synced.
fsync_directory_skipped(w) ==
    /\ WriterAt(w, "dirsync")
    /\ WriterTo(w, "return")
    /\ UNCHANGED <<inodes, entries, synced, acked, writes>>
fsync_directory(w) ==
    /\ WriterAt(w, "dirsync")
    /\ synced' = entries["target"]
    /\ WriterTo(w, "return")
    /\ UNCHANGED <<inodes, entries, acked, writes>>
\* The directory cannot be opened or synced: StateStore.save goes on as if it
\* had been, every other tool raises.
directory_fsync_fails(w) ==
    /\ WriterAt(w, "dirsync")
    /\ IF tool = thin_state_save
       THEN WriterTo(w, "swallowed") /\ UNCHANGED entries
       ELSE writer' = [writer EXCEPT ![w] = FileIdle] /\ Cleaned(w)
    /\ UNCHANGED <<inodes, synced, acked, writes>>
write_returns(w) ==
    /\ WriterAt(w, "return") \/ WriterAt(w, "swallowed")
    /\ Cleaned(w)
    /\ acked' = IF WriterAt(w, "return") /\ writer[w].doc > acked THEN writer[w].doc ELSE acked
    /\ writer' = [writer EXCEPT ![w] = FileIdle]
    /\ UNCHANGED <<inodes, synced, writes>>

WriteStep(w) ==
    \/ begin_write(w) \/ unlink_temporary(w) \/ create_exclusive(w) \/ write_document(w)
    \/ fsync_file(w) \/ replace_target(w) \/ fsync_directory(w) \/ write_returns(w)

ProcessDies(w) ==
    /\ ~WriterAt(w, "idle")
    /\ writer' = [writer EXCEPT ![w] = FileIdle]
    /\ UNCHANGED <<inodes, entries, synced, acked, writes>>
\* Files that were not synced are torn or whole, the target is one of the
\* entries since the last sync of the directory.
PowerLoss ==
    /\ \E torn \in SUBSET {n \in DOMAIN inodes : ~inodes[n].synced} :
          inodes' = [n \in DOMAIN inodes |-> [inodes[n] EXCEPT !.whole = @ /\ n \notin torn, !.synced = TRUE]]
    /\ \E target \in {synced, entries["target"]} :
          /\ entries' = [entries EXCEPT !["target"] = target]
          /\ synced' = target
    /\ writer' = [w \in FileWriters |-> FileIdle]
    /\ UNCHANGED <<acked, writes>>
FileFault ==
    /\ fileFaults < MaxFileFaults
    /\ fileFaults' = fileFaults + 1
    /\ PowerLoss \/ \E w \in FileWriters : ProcessDies(w) \/ directory_fsync_fails(w)

FileNext ==
    /\ UNCHANGED tool
    /\ FileFault \/ (UNCHANGED fileFaults /\ \E w \in FileWriters : WriteStep(w))
FileSpec == FileInit /\ [][FileNext]_fileVars

----------------------------------------------------------------------------
(* Properties                                                               *)

FileTypeOK ==
    /\ entries["target"] \in DOMAIN inodes
    /\ \A w \in FileWriters : writer[w].doc \in 0..MaxWrites

\* What _read_state and the other readers can open is always one whole
\* document, however processes and the host crash: a lock or a fresh temporary
\* name keeps two writers apart.  The tools with neither (launch approval,
\* continuous authorization, candidate snapshot) promise it only to one operator at a time.
NeverTorn == (tool.locked \/ tool.temp = "fresh") => inodes[entries["target"]].whole

\* Under the lock, a write that has returned is not undone by any crash: the
\* policy fence, the journal and the launch record do not go back
\* (_replace_private_state).  Excepted is a save of the thin validator that could
\* not sync the directory: "except OSError: pass" (core.py 818) returns all the
\* same, and a power loss may undo it (acked leaves it out); what was synced
\* before it stays.
ReturnedSurvives == tool.locked => inodes[entries["target"]].doc >= acked

\* Durable files: types, whole documents, and no returned write undone.
FileInv == FileTypeOK /\ NeverTorn /\ ReturnedSurvives
=============================================================================
