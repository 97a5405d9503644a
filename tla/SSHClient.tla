----------------------------- MODULE SSHClient -----------------------------
(***************************************************************************)
(* The SSH client of the command line (cmd/21pins/ssh.go, ssh_client.go):  *)
(* commands that run side by side on one runtime directory, and the lease  *)
(* service they call, which is here what LeaseAuthority promises. Every    *)
(* command first sweeps the directory. A call may be refused, lost, or     *)
(* performed without an answer; a file may fail to be written; a command   *)
(* may die between any two steps.                                          *)
(***************************************************************************)
EXTENDS LeaseAuthority, FiniteSets

CONSTANTS Procs,       \* commands that may run at the same time
          Me,          \* the token of this client
          HardTTL, CertTTL, RenewBefore,
          MaxTime, MaxCerts,             \* bounds of the instance
          Faults, Lossy, Crashes,        \* which failures happen
          NoDir, NoCommand

VARIABLES cache,      \* LeaseIds -> the lease's directory, or NoDir
          scratch,    \* Keys -> "absent", "fresh", or "old" (an hour): opening-*
          pc,         \* Procs -> the next step of the command
          cmd,        \* Procs -> its local state, or NoCommand
          removed,    \* history: leases whose private key was removed
          disturbed   \* history: a call was lost, a first certificate refused, a command died

server == <<leases, issuances, now>>
files == <<cache, scratch>>
vars == <<server, files, pc, cmd, removed, disturbed>>

Running == {p \in Procs : pc[p] # "idle"}
IsLeast(i, S) == i \in S /\ \A j \in S : i <= j

\* A lease's directory: the private key, the certificate, and lease.json.
Metas == [status : Live, hardExp : Nat, before : Nat]
Dirs == [key : Keys \cup {None}, cert : Certificate \cup {None}, meta : Metas \cup {None}]
EmptyDir == [key |-> None, cert |-> None, meta |-> None]
HasKey(id) == cache[id] # NoDir /\ cache[id].key # None

ASSUME ClientAssumption ==
    /\ LeaseIds \subseteq Nat /\ Me \in Tokens
    /\ {HardTTL, CertTTL, RenewBefore} \subseteq Nat \ {0}
    /\ MaxTime \in Nat /\ MaxCerts \in Nat
    /\ {Faults, Lossy, Crashes} \subseteq BOOLEAN
    /\ None \notin Keys /\ NoDir \notin Dirs /\ NoLease \notin Lease

-----------------------------------------------------------------------------
(* The beginning of every command *)

Goto(p, next) == pc' = [pc EXCEPT ![p] = next]
Note(p, field, value) == cmd' = [cmd EXCEPT ![p][field] = value]
Stop(p) == Goto(p, "idle") /\ cmd' = [cmd EXCEPT ![p] = NoCommand]
Calm == UNCHANGED disturbed
Local == UNCHANGED <<server, disturbed>>

Begin(p, op, id) ==
    /\ pc[p] = "idle"
    /\ Goto(p, "sweep")
    /\ cmd' = [cmd EXCEPT ![p] =
          [op |-> op, id |-> id, key |-> None, cert |-> None, meta |-> None,
           todo |-> {i \in LeaseIds : cache[i] # NoDir},
           ended |-> {i \in Known : leases[i].status \in Terminal}]]
    /\ UNCHANGED <<server, files, removed, disturbed>>

\* cleanupLease: no error if the directory is not there.
CleanupKeepsKey(id) ==
    /\ cache' = [cache EXCEPT ![id] = IF HasKey(id) THEN [EmptyDir EXCEPT !.key = cache[id].key]
                                                    ELSE NoDir]
    /\ removed' = IF HasKey(id) THEN removed \cup {id} ELSE removed
Cleanup(id) == /\ cache' = [cache EXCEPT ![id] = NoDir]
               /\ removed' = IF HasKey(id) THEN removed \cup {id} ELSE removed

\* loadClient begins with PrivateDir, which makes a directory that is missing;
\* an empty one has no lease.json, which is an error.
CanLoad(id) == cache[id] # NoDir /\ cache[id].meta # None
FailToLoad(p, id) ==
    /\ ~CanLoad(id)
    /\ cache' = [cache EXCEPT ![id] = IF cache[id] = NoDir THEN EmptyDir ELSE cache[id]]
    /\ Stop(p)
    /\ UNCHANGED <<scratch, removed>> /\ Local

\* sweepClient: the directories that were there at the beginning, in order.
Over(meta) == meta.status \in Terminal \/ meta.hardExp <= now
SweepEntry(p) ==
    /\ pc[p] = "sweep"
    /\ \E id \in cmd[p].todo :
         /\ IsLeast(id, cmd[p].todo)
         /\ \/ FailToLoad(p, id)
            \/ /\ CanLoad(id)
               /\ IF Over(cache[id].meta) THEN Cleanup(id) ELSE UNCHANGED <<cache, removed>>
               /\ Note(p, "todo", cmd[p].todo \ {id})
               /\ UNCHANGED <<scratch, pc>> /\ Local

FirstStep == [open |-> "keygen", status |-> "get", exec |-> "load",
              close |-> "close", objective |-> "list"]
SweepScratch(p) ==
    /\ pc[p] = "sweep" /\ cmd[p].todo = {}
    /\ scratch' = [k \in Keys |-> IF scratch[k] = "old" THEN "absent" ELSE scratch[k]]
    /\ Goto(p, FirstStep[cmd[p].op])
    /\ UNCHANGED <<cache, cmd, removed>> /\ Local

-----------------------------------------------------------------------------
(* open *)

Taken(k) == \/ scratch[k] # "absent"
            \/ \E id \in Known : leases[id].key = k
            \/ \E q \in Running : cmd[q].key = k

\* A new key in a scratch directory.
GenerateLeaseKey(p) ==
    /\ pc[p] = "keygen"
    /\ \/ \E k \in Keys : /\ ~Taken(k)
                          /\ scratch' = [scratch EXCEPT ![k] = "fresh"]
                          /\ Note(p, "key", k) /\ Goto(p, "open")
       \/ Stop(p) /\ UNCHANGED scratch
    /\ UNCHANGED <<cache, removed>> /\ Local

\* The service grants a lease, and issues the first certificate with it if it
\* is active; Issue of the client only hands that one out.
CertificateFor(id) ==
    LET end == leases[id].hardExp
    IN [lease |-> id, key |-> leases[id].key, serial |-> Cardinality(issuances) + 1,
        at |-> now, before |-> IF now + CertTTL < end THEN now + CertTTL ELSE end]
Issues(id) == /\ Cardinality(issuances) < MaxCerts
              /\ now < leases[id].hardExp
              /\ Certify(CertificateFor(id))

ServiceOpens(p) ==
    /\ pc[p] = "open"
    /\ \E id \in LeaseIds \ Known, policy \in Policies, objective \in Objectives :
          LET status == IF NeedsApproval(policy, Me) THEN "PENDING_APPROVAL" ELSE "ACTIVE"
          IN /\ leases' = [leases EXCEPT ![id] =
                   [requester |-> Me, key |-> cmd[p].key, objective |-> objective,
                    policy |-> policy, hardExp |-> now + HardTTL, status |-> status,
                    approvedBy |-> None]]
             /\ Grant(id)
             /\ cmd' = [cmd EXCEPT ![p].id = id,
                                   ![p].meta = [status |-> status, hardExp |-> now + HardTTL,
                                                before |-> 0]]
             /\ Goto(p, IF status = "ACTIVE" THEN "initial" ELSE "rename")
    /\ UNCHANGED <<files, removed>> /\ Calm

ServiceIssuesFirst(p) ==
    /\ pc[p] = "initial"
    /\ Issues(cmd[p].id)
    /\ cmd' = [cmd EXCEPT ![p].cert = CertificateFor(cmd[p].id),
                          ![p].meta.before = CertificateFor(cmd[p].id).before]
    /\ Goto(p, "rename")
    /\ UNCHANGED <<files, removed>> /\ Calm

\* The call fails: the lease is refused, or its first certificate is (the lease
\* then stays: the client has not learnt its identity), or the answer is lost.
OpenFails(p) ==
    /\ pc[p] \in {"open", "initial"} \/ (pc[p] = "rename" /\ Lossy)
    /\ disturbed' = (disturbed \/ pc[p] # "open")
    /\ scratch' = [scratch EXCEPT ![cmd[p].key] = "absent"]
    /\ Stop(p)
    /\ UNCHANGED <<server, cache, removed>>

\* The scratch directory becomes the lease's.
AfterRename(p) == Goto(p, IF cmd[p].cert = None THEN "save" ELSE "cert")
RenameByCopy(p) ==
    /\ pc[p] = "rename"
    /\ cache[cmd[p].id] = NoDir
    /\ cache' = [cache EXCEPT ![cmd[p].id] = [EmptyDir EXCEPT !.key = cmd[p].key]]
    /\ AfterRename(p)
    /\ UNCHANGED <<scratch, cmd, removed>> /\ Local
Rename(p) ==
    /\ pc[p] = "rename"
    /\ cache[cmd[p].id] = NoDir
    /\ cache' = [cache EXCEPT ![cmd[p].id] = [EmptyDir EXCEPT !.key = cmd[p].key]]
    /\ scratch' = [scratch EXCEPT ![cmd[p].key] = "absent"]
    /\ AfterRename(p)
    /\ UNCHANGED <<cmd, removed>> /\ Local
RenameFails(p) ==
    /\ pc[p] = "rename"
    /\ Faults \/ cache[cmd[p].id] # NoDir
    /\ Goto(p, "undo")
    /\ UNCHANGED <<files, cmd, removed>> /\ Local

\* AtomicPrivate: a file appears whole, if its directory is there.
Write(p, file, value, next) ==
    /\ cache[cmd[p].id] # NoDir
    /\ cache' = [cache EXCEPT ![cmd[p].id][file] = value]
    /\ next
    /\ UNCHANGED <<scratch, removed>> /\ Local
WriteFails(p, next) ==
    /\ Faults \/ cache[cmd[p].id] = NoDir
    /\ next
    /\ UNCHANGED <<files, removed>> /\ Local

WriteCert(p) == /\ pc[p] = "cert"
                /\ \/ Write(p, "cert", cmd[p].cert, Goto(p, "save") /\ UNCHANGED cmd)
                   \/ WriteFails(p, Goto(p, "undo") /\ UNCHANGED cmd)
SaveClient(p) == /\ pc[p] = "save"
                 /\ \/ Write(p, "meta", cmd[p].meta, Stop(p))
                    \/ WriteFails(p, Goto(p, "undo") /\ UNCHANGED cmd)

\* A call that ends a lease: refused if it has ended, or lost.
CallClose(id) ==
    \/ Terminate(id) /\ Calm
    \/ id \notin {i \in Known : leases[i].status \in Live} /\ UNCHANGED server /\ Calm
    \/ Lossy /\ UNCHANGED server /\ disturbed' = TRUE

\* What open does when a file fails: cancel as lost_client, remove the directory.
UndoLocally(p) == /\ pc[p] = "undo"
                  /\ Goto(p, "remove")
                  /\ UNCHANGED <<files, cmd, removed>> /\ Local
Undo(p) == /\ pc[p] = "undo"
           /\ CallClose(cmd[p].id)
           /\ Goto(p, "remove")
           /\ UNCHANGED <<files, cmd, removed>>
Remove(p) ==
    /\ pc[p] = "remove"
    /\ IF scratch[cmd[p].key] = "absent"
       THEN Cleanup(cmd[p].id) /\ UNCHANGED scratch
       ELSE /\ scratch' = [scratch EXCEPT ![cmd[p].key] = "absent"]
            /\ UNCHANGED <<cache, removed>>
    /\ Stop(p)
    /\ Local

-----------------------------------------------------------------------------
(* status, exec and connect *)

Load(p) ==
    /\ pc[p] = "load"
    /\ \/ FailToLoad(p, cmd[p].id)
       \/ /\ CanLoad(cmd[p].id)
          /\ Note(p, "meta", cache[cmd[p].id].meta)
          /\ Goto(p, "get")
          /\ UNCHANGED <<files, removed>> /\ Local

\* Get answers with the lease, expired if its time is over.
NowStatus(id) == IF leases[id].status \in Live /\ leases[id].hardExp <= now
                 THEN "EXPIRED" ELSE leases[id].status
AnswerGet(id) == leases' = [leases EXCEPT ![id].status = NowStatus(id)]

\* exec goes on only if the service says ACTIVE, and renews if it is time.
AfterGet(p) == Goto(p, IF cmd[p].meta.before < now + RenewBefore THEN "renew" ELSE "ssh")
GetAnyStatus(p) ==
    LET id == cmd[p].id IN
    /\ pc[p] = "get" /\ id \in Known
    /\ AnswerGet(id)
    /\ IF cmd[p].op = "exec"
       THEN AfterGet(p) /\ UNCHANGED <<cache, removed, cmd>>
       ELSE /\ Stop(p)
            /\ IF NowStatus(id) \in Terminal THEN Cleanup(id) ELSE UNCHANGED <<cache, removed>>
    /\ UNCHANGED <<issuances, now, scratch>> /\ Calm
Get(p) ==
    LET id == cmd[p].id IN
    /\ pc[p] = "get" /\ id \in Known
    /\ AnswerGet(id)
    /\ IF cmd[p].op = "exec" /\ NowStatus(id) = "ACTIVE"
       THEN AfterGet(p) /\ UNCHANGED <<cache, removed, cmd>>
       ELSE /\ Stop(p)
            /\ IF NowStatus(id) \in Terminal THEN Cleanup(id) ELSE UNCHANGED <<cache, removed>>
    /\ UNCHANGED <<issuances, now, scratch>> /\ Calm

\* A Get, List or Issue that is refused or not answered ends the command.
CallFails(p) ==
    /\ pc[p] \in {"get", "renew", "list"}
    /\ Stop(p)
    /\ UNCHANGED <<files, removed>> /\ Local

Renew(p) ==
    /\ pc[p] = "renew" /\ HasKey(cmd[p].id)
    /\ Issues(cmd[p].id)
    /\ \/ /\ cmd' = [cmd EXCEPT ![p].cert = CertificateFor(cmd[p].id),
                                ![p].meta = [status |-> "ACTIVE", hardExp |-> leases[cmd[p].id].hardExp,
                                             before |-> CertificateFor(cmd[p].id).before]]
          /\ Goto(p, "recert")
       \/ Lossy /\ Stop(p)
    /\ UNCHANGED <<files, removed>> /\ Calm

WriteRenewed(p) == /\ pc[p] = "recert"
                   /\ \/ Write(p, "cert", cmd[p].cert, Goto(p, "resave") /\ UNCHANGED cmd)
                      \/ WriteFails(p, Stop(p))
SaveRenewed(p) == /\ pc[p] = "resave"
                  /\ \/ Write(p, "meta", cmd[p].meta, Goto(p, "ssh") /\ UNCHANGED cmd)
                     \/ WriteFails(p, Stop(p))

StartSSH(p) ==
    /\ pc[p] = "ssh"
    /\ IF HasKey(cmd[p].id) THEN Goto(p, "running") /\ UNCHANGED cmd ELSE Stop(p)
    /\ UNCHANGED <<files, removed>> /\ Local

\* The session ends by itself, or by a signal, which closes the lease.
EndSSH(p) == /\ pc[p] = "running" /\ Stop(p)
             /\ UNCHANGED <<files, removed>> /\ Local
Signalled(p) == /\ pc[p] = "running" /\ Goto(p, "close")
                /\ UNCHANGED <<files, cmd, removed>> /\ Local

-----------------------------------------------------------------------------
(* complete, cancel, revoke, and all leases of an objective *)

List(p) ==
    /\ pc[p] = "list"
    /\ \E o \in Objectives : Note(p, "todo", {id \in Known : leases[id].objective = o})
    /\ Goto(p, "each")
    /\ UNCHANGED <<server, files, removed>> /\ Calm

NextOfObjective(p) ==
    /\ pc[p] = "each"
    /\ IF cmd[p].todo = {} THEN Stop(p)
       ELSE \E id \in cmd[p].todo :
              /\ IsLeast(id, cmd[p].todo)
              /\ cmd' = [cmd EXCEPT ![p].id = id, ![p].todo = @ \ {id}]
              /\ Goto(p, "close")
    /\ UNCHANGED <<files, removed>> /\ Local

Close(p) == /\ pc[p] = "close"
            /\ CallClose(cmd[p].id)
            /\ Goto(p, "cleanup")
            /\ UNCHANGED <<files, cmd, removed>>

\* The local directory goes, whatever the service said.
AfterClose(p) ==
    /\ pc[p] = "cleanup"
    /\ Cleanup(cmd[p].id)
    /\ IF cmd[p].op = "objective" THEN Goto(p, "each") /\ UNCHANGED cmd ELSE Stop(p)
    /\ UNCHANGED scratch /\ Local

-----------------------------------------------------------------------------
Crash(p) == /\ Crashes /\ pc[p] # "idle"
            /\ Stop(p)
            /\ disturbed' = TRUE
            /\ UNCHANGED <<server, files, removed>>

\* An hour passes over what a dead command left.
Age(k) == /\ scratch[k] = "fresh" /\ \A p \in Running : cmd[p].key # k
          /\ scratch' = [scratch EXCEPT ![k] = "old"]
          /\ UNCHANGED <<cache, pc, cmd, removed>> /\ Local

\* Other clients, approvers and administrators, and the clock.
Elsewhere == /\ \/ \E id \in LeaseIds : Decide(id) \/ Terminate(id)
                \/ now < MaxTime /\ Pass
             /\ UNCHANGED <<files, pc, cmd, removed, disturbed>>

Init == /\ AInit
        /\ cache = [id \in LeaseIds |-> NoDir]
        /\ scratch = [k \in Keys |-> "absent"]
        /\ pc = [p \in Procs |-> "idle"]
        /\ cmd = [p \in Procs |-> NoCommand]
        /\ removed = {} /\ disturbed = FALSE

Step(p) ==
    \/ SweepEntry(p) \/ SweepScratch(p)
    \/ GenerateLeaseKey(p) \/ ServiceOpens(p) \/ ServiceIssuesFirst(p) \/ OpenFails(p)
    \/ Rename(p) \/ RenameFails(p) \/ WriteCert(p) \/ SaveClient(p) \/ Undo(p) \/ Remove(p)
    \/ Load(p) \/ Get(p) \/ CallFails(p) \/ Renew(p) \/ WriteRenewed(p) \/ SaveRenewed(p)
    \/ StartSSH(p) \/ EndSSH(p)
    \/ List(p) \/ NextOfObjective(p) \/ Close(p) \/ AfterClose(p)

\* An ID is drawn at random: nobody names a lease before it is granted.
Run(p) == \/ \E op \in {"open", "objective"} : Begin(p, op, None)
          \/ \E op \in {"status", "exec", "close"}, id \in Known : Begin(p, op, id)

Next == \/ \E p \in Procs : Run(p) \/ Step(p) \/ Signalled(p) \/ Crash(p)
        \/ \E k \in Keys : Age(k)
        \/ Elsewhere

Spec == Init /\ [][Next]_vars

\* A command that runs comes to its end, and commands go on being run.
FairSpec == Spec /\ \A p \in Procs : WF_vars(Step(p)) /\ WF_vars(Run(p))

-----------------------------------------------------------------------------
(* Properties *)

\* The types, and that a private key is in one directory at most.
TypeOK ==
    /\ \A id \in LeaseIds : cache[id] # NoDir =>
          /\ cache[id].key \in Keys \cup {None}
          /\ cache[id].cert \in issuances \cup {None}
          /\ cache[id].meta # None => cache[id].meta.status \in Live /\ cache[id].meta.hardExp \in Nat
    /\ scratch \in [Keys -> {"absent", "fresh", "old"}]
    /\ \A k \in Keys :
          Cardinality({id \in LeaseIds : HasKey(id) /\ cache[id].key = k})
              + (IF scratch[k] = "absent" THEN 0 ELSE 1) <= 1
    /\ removed \subseteq LeaseIds /\ disturbed \in BOOLEAN

\* Once a command has removed the private key of a lease, no other command that
\* was at work on the lease brings it back.
KeyGoneForGood == \A id \in removed : ~HasKey(id)

\* If no call was lost, no first certificate refused and nothing died, then whatever failed locally and
\* whichever commands overlapped, a lease that can still be used has its key
\* here: open cancels what it cannot keep.
NoLeaseWithoutKey ==
    ~disturbed /\ (\A p \in Procs : pc[p] = "idle") =>
        \A id \in Known : leases[id].status \in Live /\ now < leases[id].hardExp => HasKey(id)

\* A session starts only under a lease that had not ended when its command
\* began, whatever lease.json says.
NoSessionAfterEnd ==
    [][\A p \in Procs : pc[p] = "ssh" /\ pc'[p] = "running" => cmd[p].id \notin cmd[p].ended]_vars

\* What is over is removed: while commands go on being run, a directory whose
\* lease is past its deadline does not keep its private key for ever (the sweep
\* at the beginning of every command, src/docs/ssh-harness-integration.md:49).
Overdue(id) == HasKey(id) /\ id \in Known /\ leases[id].hardExp <= now
ExpiredKeysRemoved == \A id \in LeaseIds : Overdue(id) ~> ~HasKey(id)
=============================================================================
