------------------------------ MODULE WGEnroll ------------------------------
(***************************************************************************)
(* WireGuard enrolment by the root helper (internal/dnsadmin/admin.go).    *)
(*                                                                         *)
(* `peer-enroll' adds one pinned peer to the interface's configuration     *)
(* file and to the kernel's peers.  A journal written first makes the two  *)
(* look like one: whoever finds it rolls back to what it recorded.  Any    *)
(* step may fail, the helper may be killed between any two, and a power    *)
(* failure forgets whatever no directory sync made durable and loads the   *)
(* kernel's peers from the file again.                                     *)
(*                                                                         *)
(* The helper runs under an exclusive lock that a second one does not wait *)
(* for, so at most one runs.  The administrator takes no lock: he edits    *)
(* the other peers whenever he likes, also between the helper's reading of *)
(* the file, its reading of the kernel's peers and its writing of either.  *)
(***************************************************************************)

CONSTANTS Me,          \* the pinned peer
          Others,      \* every other peer
          Want,        \* the pinned address range
          OtherRanges, \* ranges another peer may have
          Overlapping, \* those that overlap the pinned one
          Absent,      \* the peer is not there
          None         \* no journal, nothing read

VARIABLES config,     \* peers in the configuration file
          configMay,  \* what the file may hold after a power failure
          live,       \* peers in the kernel
          pending,    \* the journal file
          pendingMay, \* what it may hold after a power failure
          pc,         \* the helper's next step, "idle" when none runs
          undo,       \* what a rollback is for
          j,          \* the journal in the helper's memory
          seen,       \* the first of two things it compares, once it has read it
          unseen,     \* history: peers edited since it began its last comparison
          answer,     \* what the last helper answered
          confirmed,  \* history: Me's present enrolment passed its checks
          calm        \* the environment has stopped interfering

files == <<config, configMay, pending, pendingMay>>
helper == <<pc, undo, j, seen, unseen, answer>>
vars == <<config, configMay, live, pending, pendingMay, pc, undo, j, seen, unseen, answer,
          confirmed, calm>>

Peers == Others \cup {Me}
Contents == {c \in [Peers -> OtherRanges \cup {Want, Absent}] : c[Me] \in {Want, Absent}}

\* The helper enrols nobody who is there, so the journal's PeerExisted is always false.
Journals == [original : Contents, live : Contents]

ASSUME EnrollAssumption ==
    /\ Me \notin Others
    /\ Absent \notin OtherRanges \cup {Want}
    /\ Want \in Overlapping
    /\ None \notin Journals \cup Contents

Patched(c) == [c EXCEPT ![Me] = Want]

Steps == {"idle", "recover", "inspect", "journal", "config", "set", "confirm", "unlink",
          "verify", "check", "restore", "remove", "compare", "forget"}
RollingBack == {"check", "restore", "remove", "compare", "forget"}

\* Steps that compare the file with the kernel's peers, or both with the journal.
Looks == {"inspect", "confirm", "verify", "check", "compare"}
Answers == {"none", "denied", "configured", "rolled_back", "rollback_failed",
            "pending_recovery"}

TypeOK == /\ config \in Contents /\ live \in Contents
          /\ configMay \subseteq Contents /\ config \in configMay
          /\ pending \in Journals \cup {None}
          /\ pendingMay \subseteq Journals \cup {None} /\ pending \in pendingMay
          /\ pc \in Steps
          /\ undo \in {"recovery", "abort"}
          /\ pc \in RollingBack \cup {"journal", "config", "set", "confirm"} => j \in Journals
          /\ seen \in Contents \cup {None}
          /\ unseen \subseteq Others
          /\ answer \in Answers
          /\ confirmed \in BOOLEAN /\ calm \in BOOLEAN

\* check: nobody else's range overlaps the pinned one.
Check(c) == \A o \in Others : c[o] \notin Overlapping

\* atomic: write a temporary file, rename it, sync the directory.  It may fail, and the
\* helper may die, before the rename or between it and the sync.
WriteConfig(c) == config' = c /\ configMay' = {c}
WriteConfigFails(c) == \/ UNCHANGED <<config, configMay>>
                       \/ config' = c /\ configMay' = configMay \cup {c}
WriteJournal == pending' = j /\ pendingMay' = {j}

Goto(step) == pc' = step /\ seen' = None /\ UNCHANGED <<undo, j, unseen, answer>>
Return(a) == /\ pc' = "idle" /\ answer' = a
             /\ j' = None /\ seen' = None /\ unseen' = {} /\ UNCHANGED undo
RollBack(why) == pc' = "check" /\ undo' = why /\ seen' = None /\ UNCHANGED <<j, unseen, answer>>

\* The file is read before the kernel's peers, after a rollback the other way round.
ReadFirst ==
    /\ pc \in Looks /\ seen = None
    /\ seen' = IF pc = "compare" THEN live ELSE config
    /\ unseen' = {}
    /\ UNCHANGED <<files, live, pc, undo, j, answer, confirmed, calm>>

-----------------------------------------------------------------------------
(* Enrolling                                                               *)

Begin ==
    /\ pc = "idle"
    /\ pc' = "recover" /\ answer' = "none"
    /\ UNCHANGED <<files, live, undo, j, seen, unseen, confirmed, calm>>

\* A journal left behind is rolled back first.
Recover ==
    /\ pc = "recover"
    /\ IF pending = None
       THEN Goto("inspect")
       ELSE /\ pc' = "check" /\ undo' = "recovery" /\ j' = pending
            /\ UNCHANGED <<seen, unseen, answer>>
    /\ UNCHANGED <<files, live, confirmed, calm>>

\* File and kernel must agree, and nobody's range overlap; who is there is only verified.
Inspect ==
    /\ pc = "inspect" /\ seen # None
    /\ IF ~Check(seen) \/ seen # live THEN Return("denied")
       ELSE IF seen[Me] = Want THEN Goto("verify")
       ELSE /\ pc' = "journal" /\ seen' = None
            /\ j' = [original |-> seen, live |-> live]
            /\ UNCHANGED <<undo, unseen, answer>>
    /\ UNCHANGED <<files, live, confirmed, calm>>

\* Fault: the directory is not synced.
Journal_Unsynced ==
    /\ pc = "journal"
    /\ pending' = j /\ pendingMay' = pendingMay \cup {j}
    /\ Goto("config")
    /\ UNCHANGED <<config, configMay, live, confirmed, calm>>

Journal ==
    /\ pc = "journal"
    /\ WriteJournal
    /\ Goto("config")
    /\ UNCHANGED <<config, configMay, live, confirmed, calm>>

JournalFails ==
    /\ pc = "journal" /\ ~calm
    /\ \/ UNCHANGED <<pending, pendingMay>>
       \/ pending' = j /\ pendingMay' = pendingMay \cup {j}
    /\ Return("denied")
    /\ UNCHANGED <<config, configMay, live, confirmed, calm>>

Configure ==
    /\ pc = "config"
    /\ WriteConfig(Patched(j.original))
    /\ Goto("set")
    /\ UNCHANGED <<pending, pendingMay, live, confirmed, calm>>

ConfigureFails ==
    /\ pc = "config" /\ ~calm
    /\ WriteConfigFails(Patched(j.original))
    /\ RollBack("abort")
    /\ UNCHANGED <<pending, pendingMay, live, confirmed, calm>>

\* `wg set': a failure may come after the effect.
Set ==
    /\ pc = "set"
    /\ \/ live' = Patched(live) /\ Goto("confirm")
       \/ ~calm /\ live' \in {live, Patched(live)} /\ RollBack("abort")
    /\ UNCHANGED <<files, confirmed, calm>>

Confirm ==
    /\ pc = "confirm" /\ seen # None
    /\ IF seen = Patched(j.original) /\ Check(live) /\ live = Patched(j.live)
       THEN Goto("unlink") /\ confirmed' = TRUE
       ELSE RollBack("abort") /\ UNCHANGED confirmed
    /\ UNCHANGED <<files, live, calm>>

\* The journal is removed; nothing syncs its directory.
Unlink ==
    /\ pc = "unlink"
    /\ pending' = None /\ pendingMay' = pendingMay \cup {None}
    /\ Goto("verify")
    /\ UNCHANGED <<config, configMay, live, confirmed, calm>>

UnlinkFails ==
    /\ pc = "unlink" /\ ~calm
    /\ Return("pending_recovery")
    /\ UNCHANGED <<files, live, confirmed, calm>>

\* Fault: the kernel's peers are not looked at.
Verified_FileOnly == pending = None /\ Check(seen) /\ seen[Me] = Want

Verified == pending = None /\ seen = live /\ Check(seen) /\ seen[Me] = Want

Verify ==
    /\ pc = "verify" /\ seen # None
    /\ Return(IF Verified THEN "configured" ELSE "denied")
    /\ UNCHANGED <<files, live, confirmed, calm>>

-----------------------------------------------------------------------------
(* Rolling back                                                            *)

\* Fault: whatever the file holds is overwritten.
RollbackCheck_AnyFile ==
    /\ pc = "check" /\ seen # None
    /\ IF Check(live) THEN Goto("restore") ELSE Return("rollback_failed")
    /\ UNCHANGED <<files, live, confirmed, calm>>

\* Fault: the file the transaction wrote is not recognised.
RollbackCheck_OriginalOnly ==
    /\ pc = "check" /\ seen # None
    /\ IF seen = j.original /\ Check(live) THEN Goto("restore") ELSE Return("rollback_failed")
    /\ UNCHANGED <<files, live, confirmed, calm>>

\* The file holds what the transaction read or what it wrote, nothing else.
RollbackCheck ==
    /\ pc = "check" /\ seen # None
    /\ IF seen \in {j.original, Patched(j.original)} /\ Check(live)
       THEN Goto("restore")
       ELSE Return("rollback_failed")
    /\ UNCHANGED <<files, live, confirmed, calm>>

Restore ==
    /\ pc = "restore"
    /\ WriteConfig(j.original)
    /\ Goto("remove")
    /\ UNCHANGED <<pending, pendingMay, live, confirmed, calm>>

RestoreFails ==
    /\ pc = "restore" /\ ~calm
    /\ WriteConfigFails(j.original)
    /\ Return("rollback_failed")
    /\ UNCHANGED <<pending, pendingMay, live, confirmed, calm>>

Remove ==
    /\ pc = "remove"
    /\ \/ live' = [live EXCEPT ![Me] = Absent] /\ Goto("compare")
       \/ /\ ~calm /\ live[Me] # Absent
          /\ live' \in {live, [live EXCEPT ![Me] = Absent]}
          /\ Return("rollback_failed")
    /\ UNCHANGED <<files, confirmed, calm>>

Compare ==
    /\ pc = "compare" /\ seen # None
    /\ IF config = j.original /\ seen = j.live THEN Goto("forget") ELSE Return("rollback_failed")
    /\ UNCHANGED <<files, live, confirmed, calm>>

\* After a recovery the enrolment goes on; otherwise the helper is done.
Forget ==
    /\ pc = "forget"
    /\ pending' = None /\ pendingMay' = pendingMay \cup {None}
    /\ IF undo = "recovery" THEN Goto("inspect") ELSE Return("rolled_back")
    /\ confirmed' = FALSE
    /\ UNCHANGED <<config, configMay, live, calm>>

\* A file or `wg show' cannot be read, an old temporary file or the journal not removed.
ReadFails ==
    /\ ~calm
    /\ \/ pc \in {"recover", "inspect", "verify"} /\ Return("denied")
       \/ pc = "confirm" /\ RollBack("abort")
       \/ pc \in {"check", "compare", "forget"} /\ Return("rollback_failed")
    /\ UNCHANGED <<files, live, confirmed, calm>>

-----------------------------------------------------------------------------
(* The environment                                                         *)

\* `peer-inspect' and `peer-verify' only verify.
InspectPeer ==
    /\ pc = "idle"
    /\ pc' = "verify" /\ answer' = "none"
    /\ UNCHANGED <<files, live, undo, j, seen, unseen, confirmed, calm>>

Crash ==
    /\ pc # "idle" /\ ~calm
    /\ pc' = "idle" /\ j' = None /\ seen' = None /\ unseen' = {}
    /\ UNCHANGED <<files, live, undo, answer, confirmed, calm>>

PowerFailure ==
    /\ ~calm
    /\ pc' = "idle" /\ j' = None /\ seen' = None /\ unseen' = {}
    /\ \E c \in configMay, p \in pendingMay :
         /\ config' = c /\ configMay' = {c} /\ live' = c
         /\ pending' = p /\ pendingMay' = {p}
    /\ UNCHANGED <<undo, answer, confirmed, calm>>

\* The system writes back what it has not yet.
Flush ==
    /\ configMay' = {config} /\ pendingMay' = {pending}
    /\ UNCHANGED <<config, pending, live, helper, confirmed, calm>>

\* The administrator changes another peer, in the file (synced or not) or in the kernel.
Edit ==
    /\ ~calm
    /\ \E o \in Others, r \in OtherRanges \cup {Absent} :
       /\ unseen' = IF pc = "idle" THEN {} ELSE unseen \cup {o}
       /\ \/ /\ config' = [config EXCEPT ![o] = r]
             /\ configMay' \in {{config'}, configMay \cup {config'}}
             /\ UNCHANGED live
          \/ live' = [live EXCEPT ![o] = r] /\ UNCHANGED <<config, configMay>>
    /\ UNCHANGED <<pending, pendingMay, pc, undo, j, seen, answer, confirmed, calm>>

CalmDown == calm' = TRUE /\ UNCHANGED <<files, live, helper, confirmed>>

\* Me is enrolled or not; the other peers are as they are.
Init ==
    /\ config \in Contents /\ configMay = {config}
    /\ live \in {c \in Contents : c[Me] = config[Me]}
    /\ pending = None /\ pendingMay = {None}
    /\ pc = "idle" /\ undo = "abort" /\ j = None /\ seen = None /\ unseen = {}
    /\ answer = "none"
    /\ confirmed = (config[Me] = Want)
    /\ calm = FALSE

Enrolling == \/ Recover \/ Inspect \/ Journal \/ JournalFails
             \/ Configure \/ ConfigureFails \/ Set \/ Confirm
             \/ Unlink \/ UnlinkFails \/ Verify
RollbackStep == \/ RollbackCheck \/ Restore \/ RestoreFails \/ Remove \/ Compare \/ Forget
Step == ReadFirst \/ Enrolling \/ RollbackStep \/ ReadFails
Helper == Begin \/ Step \/ InspectPeer
Environment == Crash \/ PowerFailure \/ Flush \/ Edit \/ CalmDown

Next == Helper \/ Environment

Spec == Init /\ [][Next]_vars

\* A started helper goes on (each tool is killed after four seconds), and the owner, who
\* may also inspect, asks again until the peer is enrolled.
Fairness == WF_vars(Step) /\ SF_vars(Begin)

FairSpec == Spec /\ Fairness

-----------------------------------------------------------------------------
(* Properties                                                              *)

\* Without a journal there is nothing half done, whatever was killed or lost: the file
\* and the kernel agree about Me, and Me is there only if the enrolment passed its checks.
NothingHalfDone ==
    pending = None => /\ config[Me] = live[Me]
                      /\ config[Me] = Want => confirmed

\* No step of the helper changes another peer: neither the enrolment nor a rollback from a
\* journal older than the administrator's last edit.  The one exception is a peer edited in
\* the file after the helper read it and before it replaced the file whole (admin.go:437,
\* 533); the kernel's other peers are never touched.
OthersPreserved ==
    [][Helper => /\ \A o \in Others : live'[o] = live[o]
                 /\ \A o \in Others \ unseen : config'[o] = config[o]]_vars

\* The file and the kernel's peers agree, but for peers edited behind the helper's back.
Agreeing == \A p \in Peers \ unseen : config'[p] = live'[p]

\* What the helper answers is so when it answers (admin_test.go:178-186), but for what was
\* edited after it began the comparison the answer rests on.
AnswersTrue ==
    [][/\ answer' = "configured" /\ answer # "configured" =>
            pending' = None /\ Agreeing /\ config'[Me] = Want
       /\ answer' = "rolled_back" /\ answer # "rolled_back" =>
            pending' = None /\ Agreeing /\ config'[Me] = Absent
       /\ answer' \in {"rollback_failed", "pending_recovery"} /\ answer # answer' =>
            pending' # None]_vars

Enrolled == pending = None /\ config = live /\ config[Me] = Want

\* The other peers are in order, no edit crossed a running helper, and a journal is about
\* this configuration.
Recoverable ==
    /\ Check(config) /\ \A o \in Others : config[o] = live[o]
    /\ unseen = {}
    /\ pending # None => /\ config \in {pending.original, Patched(pending.original)}
                         /\ \A o \in Others : pending.live[o] = live[o]

\* Wherever failures and power cuts leave it, an enrolment asked for again completes.
EventuallyEnrolled == calm /\ Recoverable ~> Enrolled
=============================================================================
