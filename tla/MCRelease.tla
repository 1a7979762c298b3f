----------------------------- MODULE MCRelease -----------------------------
(* What the validator's host keeps and shows, for TLC: the durable writers, *)
(* the status publisher, the public release, the provenance audit and the   *)
(* launch gate.  Each behaviour runs one of them, the others stay in one    *)
(* initial state.                                                           *)
EXTENDS DurableFile, StatusStream, PublicRelease, ProvenanceAudit, LaunchGate

VARIABLE program

vars == <<fileVars, streamVars, relVars, auditVars, launchVars, program>>

----------------------------------------------------------------------------
\* Status: an event of each kind the classifier tells apart.
Event(c, f) == [code |-> c, facet |-> f]
TheEvents ==
    {Event("STARTUP", "thin"), Event("STARTUP", "contradictory"), Event("WEIGHTS_SUBMITTED", "launch"),
     Event("TICK_FAILED", "none"), Event("PROVENANCE_AUDIT_PASS", "none"), Event("PRIVATE_EVENT", "none")}

\* Release: two revisions, journals that disagree with the chain, launches that
\* may not be released.
Journal(w) == [final |-> TRUE, wrong |-> w]
Seals(s, j) == [sha |-> s, launcher |-> TRUE, pristine |-> TRUE, journal |-> j]
TheRequests ==
    {Seals("s1", Journal({})), Seals("s2", Journal({})), Seals("s1", Journal({"envelope"})),
     Seals("s1", Journal({"candidates"})), [Seals("s1", Journal({})) EXCEPT !.launcher = FALSE],
     Seals("s1", [Journal({}) EXCEPT !.final = FALSE])}

\* Audit: a line of three exports and a fork of the second; indexes that are
\* current, rolled back, forked or wrong.
Export(e, r, prev, rel, dig) ==
    [epoch |-> e, report |-> r, prev |-> prev, release |-> rel, digest |-> dig]
TheManifests ==
    "a" :> Export(1, "A", "0", 1, "x") @@ "b" :> Export(2, "B", "A", 1, "x")
    @@ "b2" :> Export(2, "B2", "A", 1, "x") @@ "c" :> Export(3, "C", "B", 2, "y")
Index(l, r, w) == [latest |-> l, recent |-> r, wrong |-> w]
TheIndexes ==
    {Index("b", {"a"}, NONE), Index("b2", {"a"}, "vector"),
     Index("c", {"a", "b"}, NONE), Index("b", {"a"}, "envelope")}
Full(m) == [mode |-> m, pins |-> "immutable", controlled |-> TRUE]
TheConfs ==
    {1 :> Full("shadow") @@ 2 :> Full("authority"),
     1 :> Full("once") @@ 2 :> [Full("shadow") EXCEPT !.pins = "missing"],
     1 :> [Full("once") EXCEPT !.controlled = FALSE] @@ 2 :> [Full("authority") EXCEPT !.controlled = FALSE]}

\* Launch: three vectors and their reports, one report without replayed receipts.
LaunchVector(i, r, g) == [id |-> i, row |-> r, burn |-> "o", gen |-> g, exp |-> 9]
TheLaunchVectors == {LaunchVector("v", "m", 2), LaunchVector("w", "m", 3), LaunchVector("x", "n", 5)}
LaunchReport(i, m, rp, a, f) ==
    [id |-> i, miners |-> {m}, receipts |-> {m}, replayed |-> rp, agrees |-> a,
     from |-> f, until |-> 9, cand |-> f, gen |-> f]
TheLaunchReports ==
    {LaunchReport("r", "m", {"m"}, "v", 2), LaunchReport("s", "m", {"m"}, "w", 3),
     LaunchReport("t", "n", {"n"}, "x", 5), LaunchReport("u", "m", {}, "v", 2)}

----------------------------------------------------------------------------
Init ==
    /\ FileInit /\ StreamInit /\ RelInit /\ AuditInit /\ LaunchInit
    /\ program \in {"file", "status", "release", "audit", "launch"}
    /\ program # "file" => tool = replace_private_state
    /\ program # "status" => rawPrivate
    /\ program # "launch" =>
          /\ feed.id = "v" /\ report.id = "r"
          /\ release = CHOOSE r \in LaunchReleases : TRUE
    /\ program # "audit" => auditConf = CHOOSE c \in AuditConfs : TRUE

Only(name, step, rest) == program = name /\ step /\ UNCHANGED <<rest, program>>

Next ==
    \/ Only("file", FileNext, <<streamVars, relVars, auditVars, launchVars>>)
    \/ Only("status", StreamNext, <<fileVars, relVars, auditVars, launchVars>>)
    \/ Only("release", RelNext, <<fileVars, streamVars, auditVars, launchVars>>)
    \/ Only("audit", AuditNext, <<fileVars, streamVars, relVars, launchVars>>)
    \/ Only("launch", LaunchNext, <<fileVars, streamVars, relVars, auditVars>>)

Spec == Init /\ [][Next]_vars
=============================================================================
