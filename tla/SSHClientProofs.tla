--------------------------- MODULE SSHClientProofs ---------------------------
(***************************************************************************)
(* What SSHClient promises for any number of commands, leases and keys,    *)
(* and with any of the failures: a key in one place only, a removed key    *)
(* gone for good, no usable lease without its key unless a call was lost   *)
(* or a command died, and no session under a lease that had ended.         *)
(*                                                                         *)
(* The invariant says of each command what it knows at the step it is at   *)
(* (Fits), of each directory whose key and deadline it holds (FilesOK),    *)
(* that no two commands have one key (KeysApart), and of each lease that   *)
(* can be used and has no key here, who is about to give it one or to end  *)
(* it (Cared). A step of one command disturbs another's Fits only by what  *)
(* it does to the service and the files, which is the same few things for  *)
(* every step (Forward, KeyRule).                                          *)
(***************************************************************************)
EXTENDS SSHClient, FiniteSetTheorems, TLAPS

USE ClientAssumption

-----------------------------------------------------------------------------
(* The invariant                                                           *)

\* The steps of every command.
OpSteps == [open |-> {"sweep", "keygen", "open", "initial", "rename", "cert", "save", "undo", "remove"},
            status |-> {"sweep", "get"},
            exec |-> {"sweep", "load", "get", "renew", "recert", "resave", "ssh", "running",
                      "close", "cleanup"},
            close |-> {"sweep", "close", "cleanup"},
            objective |-> {"sweep", "list", "each", "close", "cleanup"}]
Ops == {"open", "status", "exec", "close", "objective"}
Cmd == [op : Ops, id : LeaseIds \cup {None}, key : Keys \cup {None}, cert : Certificate \cup {None},
        meta : Metas \cup {None}, todo : SUBSET LeaseIds, ended : SUBSET LeaseIds]

Steps == {"idle", "sweep", "keygen", "open", "initial", "rename", "cert", "save", "undo", "remove",
          "load", "get", "renew", "recert", "resave", "ssh", "running", "close", "cleanup", "list", "each"}
Shape == pc \in [Procs -> Steps] /\ cmd \in [Procs -> Cmd \cup {NoCommand}]

\* What the service holds: no two leases under one key.
ServerOK ==
    /\ leases \in [LeaseIds -> Lease \cup {NoLease}] /\ issuances \subseteq Certificate /\ now \in Nat
    /\ \A a, b \in Known : leases[a].key = leases[b].key => a = b

\* A directory holds its lease's key and deadline; the key is not in a scratch directory too,
\* and a removed one is nowhere.
FilesOK ==
    /\ cache \in [LeaseIds -> Dirs \cup {NoDir}]
    /\ \A id \in LeaseIds : cache[id] # NoDir => cache[id].cert \in issuances \cup {None}
    /\ scratch \in [Keys -> {"absent", "fresh", "old"}]
    /\ removed \subseteq Known /\ disturbed \in BOOLEAN
    /\ \A id \in LeaseIds : HasKey(id) => /\ id \in Known /\ cache[id].key = leases[id].key
                                          /\ scratch[cache[id].key] = "absent"
    /\ \A id \in LeaseIds : cache[id] # NoDir /\ cache[id].meta # None =>
           id \in Known /\ cache[id].meta.hardExp = leases[id].hardExp
    /\ KeyGoneForGood

\* What a command at step s with the local state c knows.
AtLease == {"initial", "rename", "cert", "save", "undo", "remove", "load", "get", "renew", "recert",
            "resave", "ssh", "running", "close", "cleanup"}
Granted == {"initial", "rename", "cert", "save", "undo", "remove"}
Fits(s, c) ==
    s # "idle" =>
      /\ c \in Cmd /\ s \in OpSteps[c.op] /\ c.cert \in issuances \cup {None}
      /\ s \in AtLease \/ c.op \in {"status", "exec", "close"} => c.id \in Known
      /\ c.op = "objective" => c.meta = None /\ (s \in {"each", "close", "cleanup"} => c.todo \subseteq Known)
      /\ s \in Granted \cup {"open"} => c.key \in Keys
      /\ s \in Granted => leases[c.id].key = c.key
      /\ s \in {"initial", "rename"} => ~HasKey(c.id) /\ c.id \notin removed
      /\ c.meta # None => c.id \in Known /\ c.meta.hardExp = leases[c.id].hardExp
      /\ s = "initial" => c.meta \in Metas /\ c.meta.hardExp = leases[c.id].hardExp
      /\ \A id \in c.ended : id \in Known /\ leases[id].status \in Terminal
      /\ s \in {"renew", "recert", "resave", "ssh"} => c.id \notin c.ended
      /\ ~disturbed /\ s \in {"cleanup", "remove"} => leases[c.id].status \in Terminal

KeysApart == \A p, q \in Procs :
    pc[p] # "idle" /\ pc[q] # "idle" /\ cmd[p].key = cmd[q].key /\ cmd[p].key # None => p = q

\* A lease that can be used has its key here, or a command is about to bring it or to end it.
Usable(id) == leases[id].status \in Live /\ now < leases[id].hardExp
Caring == {"initial", "rename", "undo"}
Cared == ~disturbed =>
    \A id \in Known : Usable(id) /\ ~HasKey(id) => \E p \in Procs : pc[p] \in Caring /\ cmd[p].id = id

IInv == /\ Shape /\ ServerOK /\ FilesOK /\ KeysApart /\ Cared
        /\ \A p \in Procs : Fits(pc[p], cmd[p])

-----------------------------------------------------------------------------
(* What a step of one command does to the others                           *)

Becomes(p, s, c) == pc' = [pc EXCEPT ![p] = s] /\ cmd' = [cmd EXCEPT ![p] = c]

\* What any step does to the service.
Forward ==
    /\ \A id \in Known : /\ id \in Known' /\ leases'[id].key = leases[id].key
                         /\ leases'[id].hardExp = leases[id].hardExp
                         /\ leases[id].status \in Terminal => leases'[id].status \in Terminal
    /\ issuances \subseteq issuances' /\ now <= now'
    /\ disturbed => disturbed'

\* Only a rename brings a key, and only a key that is there is removed.
KeyRule(p) ==
    /\ \A id \in LeaseIds : HasKey(id)' => HasKey(id) \/ (pc[p] = "rename" /\ id = cmd[p].id)
    /\ \A id \in removed' : id \in removed \/ HasKey(id)

\* What a command that does not move was at remains so.
LEMMA FitsOn ==
    ASSUME IInv, NEW q \in Procs, Forward, pc'[q] = pc[q], cmd'[q] = cmd[q],
           pc[q] \in {"initial", "rename"} => ~HasKey(cmd[q].id)' /\ cmd[q].id \notin removed'
    PROVE  Fits(pc[q], cmd[q])'
<1> SUFFICES ASSUME pc[q] # "idle" PROVE Fits(pc[q], cmd[q])'
  BY DEF Fits
<1> DEFINE c == cmd[q]
<1>1. Fits(pc[q], c) /\ c \in Cmd
  BY DEF IInv, Fits
<1>2. pc[q] \in {"initial", "rename"} => ~HasKey(c.id)' /\ c.id \notin removed'
  OBVIOUS
<1>3. pc[q] \in AtLease \/ c.op \in {"status", "exec", "close"} => c.id \in Known'
  BY <1>1 DEF Fits, Forward
<1>4. c.op = "objective" => c.meta = None /\ (pc[q] \in {"each", "close", "cleanup"} => c.todo \subseteq Known')
  BY <1>1 DEF Fits, Forward
<1>5. pc[q] \in Granted => leases'[c.id].key = c.key
  BY <1>1 DEF Fits, Forward, Granted, AtLease
<1>6. c.meta # None => c.id \in Known' /\ c.meta.hardExp = leases'[c.id].hardExp
  BY <1>1 DEF Fits, Forward
<1>7. \A id \in c.ended : id \in Known' /\ leases'[id].status \in Terminal
  BY <1>1 DEF Fits, Forward
<1>8. ~disturbed' /\ pc[q] \in {"cleanup", "remove"} => leases'[c.id].status \in Terminal
  BY <1>1 DEF Fits, Forward, AtLease
<1>9. c.cert \in issuances' \cup {None}
  BY <1>1 DEF Fits, Forward
<1>10. pc[q] = "initial" => c.meta \in Metas /\ c.meta.hardExp = leases'[c.id].hardExp
  BY <1>1 DEF Fits, Forward, AtLease
<1> QED BY <1>1, <1>2, <1>3, <1>4, <1>5, <1>6, <1>7, <1>8, <1>9, <1>10 DEF Fits

\* When one command moves, the others stay at what they were at.
LEMMA OthersFit ==
    ASSUME IInv, NEW p \in Procs, NEW q \in Procs, q # p, Forward, KeyRule(p),
           pc'[q] = pc[q], cmd'[q] = cmd[q]
    PROVE  Fits(pc[q], cmd[q])'
<1> DEFINE c == cmd[q]
<1> SUFFICES ASSUME pc[q] \in {"initial", "rename"} PROVE ~HasKey(c.id)' /\ c.id \notin removed'
  BY FitsOn
<1>1. Fits(pc[q], c)
  BY DEF IInv
<1>2. /\ ~HasKey(c.id) /\ c.id \notin removed /\ c.id \in Known /\ c.id \in LeaseIds
      /\ c.key \in Keys /\ leases[c.id].key = c.key
  BY <1>1 DEF Fits, AtLease, Granted, Known
<1>3. ~(pc[p] = "rename" /\ c.id = cmd[p].id)
  <2> SUFFICES ASSUME pc[p] = "rename", c.id = cmd[p].id PROVE FALSE
    OBVIOUS
  <2>1. leases[cmd[p].id].key = cmd[p].key
    BY DEF IInv, Fits, Granted
  <2> QED BY <1>2, <2>1 DEF IInv, KeysApart
<1> QED BY <1>2, <1>3 DEF KeyRule

LEMMA BecomesFacts ==
    ASSUME Shape, NEW p \in Procs, NEW s \in Steps, NEW c \in Cmd \cup {NoCommand}, Becomes(p, s, c)
    PROVE  /\ Shape' /\ pc'[p] = s /\ cmd'[p] = c
           /\ \A q \in Procs : q # p => pc'[q] = pc[q] /\ cmd'[q] = cmd[q]
BY DEF Shape, Becomes

\* What a step of one command must do for the whole.
LEMMA StepOK ==
    ASSUME IInv, NEW p \in Procs, NEW s \in Steps, NEW c \in Cmd \cup {NoCommand}, Becomes(p, s, c),
           Forward, KeyRule(p), ServerOK', FilesOK', Fits(pc[p], cmd[p])',
           \* its key is its own
           s # "idle" => c.key = None \/ (pc[p] # "idle" /\ c.key = cmd[p].key)
                         \/ \A q \in Procs : pc[q] # "idle" => cmd[q].key # c.key,
           \* no key goes while its lease can be used, and no care is given up
           ~disturbed' => \A id \in Known :
               Usable(id)' /\ ~HasKey(id)' /\ (HasKey(id) \/ (pc[p] \in Caring /\ cmd[p].id = id))
               => s \in Caring /\ c.id = id,
           ~disturbed' => \A id \in Known' : id \notin Known => s \in Caring /\ c.id = id
    PROVE  IInv'
<1>1. /\ Shape' /\ pc'[p] = s /\ cmd'[p] = c
      /\ \A q \in Procs : q # p => pc'[q] = pc[q] /\ cmd'[q] = cmd[q]
  BY BecomesFacts DEF IInv
<1>2. ASSUME NEW q \in Procs PROVE Fits(pc[q], cmd[q])'
  BY <1>1, OthersFit
<1>3. KeysApart'
  BY <1>1 DEF IInv, KeysApart
<1>4. Cared'
  <2> SUFFICES ASSUME ~disturbed', NEW id \in Known', Usable(id)', ~HasKey(id)'
               PROVE  \E q \in Procs : pc'[q] \in Caring /\ cmd'[q].id = id
    BY DEF Cared
  <2>1. CASE id \notin Known
    BY <1>1, <2>1
  <2>2. CASE id \in Known /\ (HasKey(id) \/ (pc[p] \in Caring /\ cmd[p].id = id))
    BY <1>1, <2>2
  <2>3. CASE id \in Known /\ ~HasKey(id) /\ ~(pc[p] \in Caring /\ cmd[p].id = id)
    <3>1. Usable(id)
      <4>1. /\ leases'[id].hardExp = leases[id].hardExp /\ now <= now'
            /\ leases[id].status \in Terminal => leases'[id].status \in Terminal
        BY <2>3 DEF Forward
      <4>2. leases[id] \in Lease
        BY <2>3 DEF IInv, ServerOK, Known
      <4>3. leases[id].hardExp \in Nat /\ leases[id].status \in Live \cup Terminal
        BY <4>2 DEF Lease, Status
      <4>4. leases'[id].status \in Live => leases'[id].status \notin Terminal
        BY DEF Live, Terminal
      <4>5. leases[id].status \in Live
        BY <4>1, <4>3, <4>4 DEF Usable
      <4>6. now \in Nat /\ now' \in Nat /\ now' < leases'[id].hardExp
        BY DEF IInv, ServerOK, Usable
      <4> QED BY <4>1, <4>3, <4>5, <4>6 DEF Usable
    <3>2. PICK q \in Procs : pc[q] \in Caring /\ cmd[q].id = id
      BY <2>3, <3>1 DEF IInv, Cared, Forward
    <3>3. q # p
      BY <2>3, <3>2
    <3> QED BY <1>1, <3>2, <3>3
  <2> QED BY <2>1, <2>2, <2>3
<1> QED BY <1>1, <1>2, <1>3, <1>4 DEF IInv

\* Nothing else than the command moves.
LEMMA CalmStep ==
    ASSUME IInv, NEW p \in Procs, NEW s \in Steps, NEW c \in Cmd \cup {NoCommand}, Becomes(p, s, c),
           UNCHANGED <<server, files, removed, disturbed>>,
           Fits(s, c),
           s # "idle" => c.key = None \/ (pc[p] # "idle" /\ c.key = cmd[p].key),
           pc[p] \in Caring /\ ~disturbed => s \in Caring /\ c.id = cmd[p].id
    PROVE  IInv'
<1>1. /\ leases' = leases /\ issuances' = issuances /\ now' = now
      /\ cache' = cache /\ scratch' = scratch /\ removed' = removed /\ disturbed' = disturbed
  BY DEF server, files
<1>2. Forward
  BY <1>1 DEF Forward, Known, IInv, ServerOK
<1>3. KeyRule(p)
  BY <1>1 DEF KeyRule, HasKey
<1>4. ServerOK' /\ FilesOK'
  BY <1>1 DEF IInv, ServerOK, FilesOK, Known, HasKey, KeyGoneForGood
<1>5. pc'[p] = s /\ cmd'[p] = c
  BY BecomesFacts DEF IInv
<1>6. Fits(pc[p], cmd[p])'
  BY <1>1, <1>5 DEF Fits, Known, HasKey
<1>7. ~disturbed' => \A id \in Known :
        Usable(id)' /\ ~HasKey(id)' /\ (HasKey(id) \/ (pc[p] \in Caring /\ cmd[p].id = id))
        => s \in Caring /\ c.id = id
  BY <1>1 DEF HasKey
<1>8. \A id \in Known' : id \in Known
  BY <1>1 DEF Known
<1> QED BY <1>2, <1>3, <1>4, <1>6, <1>7, <1>8, StepOK

-----------------------------------------------------------------------------
(* Steps that change nothing but what a command knows                      *)

\* What is known of a command that runs.
LEMMA AtWork ==
    ASSUME IInv, NEW p \in Procs, pc[p] # "idle"
    PROVE  /\ cmd[p] \in Cmd /\ Fits(pc[p], cmd[p]) /\ pc[p] \in OpSteps[cmd[p].op]
           /\ pc[p] \in AtLease => cmd[p].id \in Known /\ cmd[p].id \in LeaseIds
           /\ pc[p] \in Granted \cup {"open"} => cmd[p].op = "open" /\ cmd[p].key \in Keys
           /\ pc[p] \in Granted => leases[cmd[p].id].key = cmd[p].key
<1>1. cmd[p] \in Cmd /\ Fits(pc[p], cmd[p]) /\ pc[p] \in OpSteps[cmd[p].op]
  BY DEF IInv, Fits
<1>2. pc[p] \in Granted \cup {"open"} => cmd[p].op = "open"
  BY <1>1 DEF Granted, OpSteps, Cmd, Ops
<1> QED BY <1>1, <1>2 DEF Fits, AtLease, Granted, Known

\* Which steps follow each other in a command, and which command is at a step.
LEMMA OpStepsFacts ==
    ASSUME NEW c \in Cmd
    PROVE  /\ "rename" \in OpSteps[c.op] => "undo" \in OpSteps[c.op] /\ c.op = "open"
           /\ "ssh" \in OpSteps[c.op] => "running" \in OpSteps[c.op]
           /\ "running" \in OpSteps[c.op] => "close" \in OpSteps[c.op] /\ c.op = "exec"
           /\ "list" \in OpSteps[c.op] => "each" \in OpSteps[c.op] /\ c.op = "objective"
           /\ "load" \in OpSteps[c.op] => "get" \in OpSteps[c.op] /\ c.op = "exec"
           /\ "each" \in OpSteps[c.op] => "close" \in OpSteps[c.op] /\ c.op = "objective"
<1>1. c.op \in Ops
  BY DEF Cmd
<1> QED BY <1>1 DEF Ops, OpSteps

\* The same of open, of exec, and of the ways to close.
LEMMA MoreStepsFacts ==
    ASSUME NEW c \in Cmd
    PROVE  /\ OpSteps[c.op] \cap (Granted \cup {"keygen", "open"}) # {} =>
                c.op = "open" /\ {"keygen", "open"} \cup Granted \subseteq OpSteps[c.op]
           /\ "get" \in OpSteps[c.op] /\ c.op = "exec" => {"renew", "ssh"} \subseteq OpSteps[c.op]
           /\ {"renew", "recert", "resave"} \cap OpSteps[c.op] # {} =>
                {"recert", "resave", "ssh"} \subseteq OpSteps[c.op] /\ c.op = "exec"
           /\ "close" \in OpSteps[c.op] => "cleanup" \in OpSteps[c.op]
           /\ c.op = "objective" => "each" \in OpSteps[c.op]
           /\ FirstStep[c.op] \in OpSteps[c.op] \cap {"keygen", "get", "load", "close", "list"}
           /\ FirstStep[c.op] \in AtLease => c.op \in {"status", "exec", "close"}
           /\ c.op = "objective" => FirstStep[c.op] = "list"
<1>1. c.op \in Ops
  BY DEF Cmd
<1> QED BY <1>1 DEF Ops, OpSteps, Granted, FirstStep, AtLease

\* The service does nothing.
LEMMA ServerStays ==
    ASSUME IInv, UNCHANGED server, disturbed => disturbed'
    PROVE  /\ Forward /\ ServerOK' /\ Known' = Known
           /\ leases' = leases /\ issuances' = issuances /\ now' = now
<1>1. leases' = leases /\ issuances' = issuances /\ now' = now
  BY DEF server
<1>2. Forward
  BY <1>1 DEF Forward, Known, IInv, ServerOK
<1>3. ServerOK' /\ Known' = Known
  BY <1>1 DEF IInv, ServerOK, Known
<1> QED BY <1>1, <1>2, <1>3

\* The files stay as they are, whatever the service does.
LEMMA FilesStay ==
    ASSUME IInv, Forward, UNCHANGED <<files, removed>>, disturbed' \in BOOLEAN, NEW p
    PROVE  FilesOK' /\ KeyRule(p) /\ \A id \in LeaseIds : HasKey(id)' = HasKey(id)
<1>1. cache' = cache /\ scratch' = scratch /\ removed' = removed
  BY DEF files
<1>2. \A id \in LeaseIds : HasKey(id)' = HasKey(id)
  BY <1>1 DEF HasKey
<1>3. FilesOK
  BY DEF IInv
<1>4. \A id \in LeaseIds : HasKey(id)' => /\ id \in Known' /\ cache'[id].key = leases'[id].key
                                          /\ scratch'[cache'[id].key] = "absent"
  BY <1>1, <1>2, <1>3 DEF FilesOK, Forward
<1>5. removed' \subseteq Known' /\ KeyGoneForGood'
  <2>1. removed' \subseteq Known'
    BY <1>1, <1>3 DEF FilesOK, Forward
  <2>2. \A id \in removed' : ~HasKey(id)'
    BY <1>1, <1>2, <1>3 DEF FilesOK, KeyGoneForGood, Known
  <2> QED BY <2>1, <2>2 DEF KeyGoneForGood
<1>6. FilesOK'
  BY <1>1, <1>3, <1>4, <1>5 DEF FilesOK, Forward
<1> QED BY <1>1, <1>2, <1>6 DEF KeyRule

LEMMA BeginKeeps ==
    ASSUME IInv, NEW p \in Procs, NEW op \in Ops, NEW id \in LeaseIds \cup {None},
           op \in {"status", "exec", "close"} => id \in Known, Begin(p, op, id)
    PROVE  IInv'
<1> DEFINE c == [op |-> op, id |-> id, key |-> None, cert |-> None, meta |-> None,
                 todo |-> {i \in LeaseIds : cache[i] # NoDir},
                 ended |-> {i \in Known : leases[i].status \in Terminal}]
<1>1. Becomes(p, "sweep", c) /\ pc[p] = "idle" /\ UNCHANGED <<server, files, removed, disturbed>>
  BY DEF Begin, Goto, Becomes
<1>2. c \in Cmd /\ c.key = None
  BY DEF Cmd, Known
<1>3. Fits("sweep", c)
  <2>1. "sweep" \in OpSteps[op]
    BY DEF Ops, OpSteps
  <2>2. \A i \in c.ended : i \in Known /\ leases[i].status \in Terminal
    OBVIOUS
  <2>3. "sweep" \notin AtLease /\ "sweep" \notin Granted
    BY DEF AtLease, Granted
  <2> QED BY <1>2, <2>1, <2>2, <2>3 DEF Fits
<1> HIDE DEF c
<1> QED BY <1>1, <1>2, <1>3, CalmStep DEF Caring, Steps

\* A command ends and leaves no lease uncared for.
LEMMA StopKeeps ==
    ASSUME IInv, NEW p \in Procs, Stop(p), UNCHANGED <<server, files, removed, disturbed>>,
           pc[p] \in Caring => disturbed
    PROVE  IInv'
<1>1. Becomes(p, "idle", NoCommand)
  BY DEF Stop, Goto, Becomes
<1>2. Fits("idle", NoCommand)
  BY DEF Fits
<1>3. pc[p] \in Caring /\ ~disturbed => FALSE
  OBVIOUS
<1>4. "idle" \in Steps /\ NoCommand \in Cmd \cup {NoCommand}
  BY DEF Steps
<1>5. "idle" # "idle" => NoCommand.key = None \/ (pc[p] # "idle" /\ NoCommand.key = cmd[p].key)
  OBVIOUS
<1>6. pc[p] \in Caring /\ ~disturbed => "idle" \in Caring /\ NoCommand.id = cmd[p].id
  BY <1>3
<1> QED BY <1>1, <1>2, <1>4, <1>5, <1>6, CalmStep

\* A command goes on and knows what it knew.
LEMMA GoOnKeeps ==
    ASSUME IInv, NEW p \in Procs, NEW s \in Steps, pc[p] # "idle",
           Goto(p, s), UNCHANGED cmd, UNCHANGED <<server, files, removed, disturbed>>,
           Fits(s, cmd[p]), pc[p] \in Caring /\ ~disturbed => s \in Caring
    PROVE  IInv'
<1>1. cmd[p] \in Cmd
  BY AtWork
<1>2. Becomes(p, s, cmd[p])
  BY DEF Goto, Becomes, IInv, Shape
<1> QED BY <1>1, <1>2, CalmStep

LEMMA RenameFailsKeeps == ASSUME IInv, NEW p \in Procs, RenameFails(p) PROVE IInv'
<1>1. /\ pc[p] = "rename" /\ Goto(p, "undo") /\ UNCHANGED cmd
      /\ UNCHANGED <<server, files, removed, disturbed>>
  BY DEF RenameFails, Local
<1>2. Fits("rename", cmd[p])
  BY <1>1 DEF IInv
<1>3. Fits("undo", cmd[p])
  BY <1>2, OpStepsFacts DEF Fits, AtLease, Granted, Cmd, Ops
<1> QED BY <1>1, <1>3, GoOnKeeps DEF Caring, Steps

\* The step to load, get and the end of sessions.
LEMMA StartSSHKeeps == ASSUME IInv, NEW p \in Procs, StartSSH(p) PROVE IInv'
<1>1. pc[p] = "ssh" /\ UNCHANGED <<server, files, removed, disturbed>>
  BY DEF StartSSH, Local
<1>2. CASE Stop(p)
  BY <1>1, <1>2, StopKeeps DEF Caring
<1>3. CASE Goto(p, "running") /\ UNCHANGED cmd
  <2>1. Fits("running", cmd[p])
    <3>1. Fits("ssh", cmd[p])
      BY <1>1 DEF IInv
    <3> QED BY <3>1, OpStepsFacts DEF Fits, AtLease, Granted
  <2> QED BY <1>1, <1>3, <2>1, GoOnKeeps DEF Caring, Steps
<1> QED BY <1>2, <1>3 DEF StartSSH

LEMMA SignalledKeeps == ASSUME IInv, NEW p \in Procs, Signalled(p) PROVE IInv'
<1>1. /\ pc[p] = "running" /\ Goto(p, "close") /\ UNCHANGED cmd
      /\ UNCHANGED <<server, files, removed, disturbed>>
  BY DEF Signalled, Local
<1>2. Fits("close", cmd[p])
  <2>1. Fits("running", cmd[p])
    BY <1>1 DEF IInv
  <2> QED BY <2>1, OpStepsFacts DEF Fits, AtLease, Granted
<1> QED BY <1>1, <1>2, GoOnKeeps DEF Caring, Steps

LEMMA ListKeeps == ASSUME IInv, NEW p \in Procs, List(p) PROVE IInv'
<1>1. PICK o \in Objectives : Note(p, "todo", {id \in Known : leases[id].objective = o})
  BY DEF List
<1> DEFINE c == [cmd[p] EXCEPT !["todo"] = {id \in Known : leases[id].objective = o}]
<1>2. pc[p] = "list" /\ UNCHANGED <<server, files, removed, disturbed>>
  BY DEF List, Calm
<1>3. cmd[p] \in Cmd /\ Fits("list", cmd[p])
  BY <1>2, AtWork
<1>4. Becomes(p, "each", c)
  BY <1>1 DEF List, Goto, Note, Becomes, IInv, Shape
<1>5. /\ c \in Cmd /\ c.todo \subseteq Known
      /\ \A f \in {"op", "id", "key", "cert", "meta", "ended"} : c[f] = cmd[p][f]
  BY <1>3 DEF Cmd, Known
<1> HIDE DEF c
<1>6. Fits("each", c)
  BY <1>3, <1>5, OpStepsFacts DEF Fits, AtLease, Granted
<1> QED BY <1>2, <1>4, <1>5, <1>6, CalmStep DEF Caring, Steps

LEMMA NextKeeps == ASSUME IInv, NEW p \in Procs, NextOfObjective(p) PROVE IInv'
<1>1. pc[p] = "each" /\ UNCHANGED <<server, files, removed, disturbed>>
  BY DEF NextOfObjective, Local
<1>2. cmd[p] \in Cmd /\ Fits("each", cmd[p])
  BY <1>1, AtWork
<1>3. CASE Stop(p)
  BY <1>1, <1>3, StopKeeps DEF Caring
<1>4. ASSUME NEW id \in cmd[p].todo,
             cmd' = [cmd EXCEPT ![p].id = id, ![p].todo = cmd[p].todo \ {id}], Goto(p, "close")
      PROVE  IInv'
  <2> DEFINE c == [cmd[p] EXCEPT !.id = id, !.todo = cmd[p].todo \ {id}]
  <2>1. Becomes(p, "close", c)
    BY <1>4 DEF Goto, Becomes, IInv, Shape
  <2>2. cmd[p].op = "objective"
    BY <1>2, OpStepsFacts DEF Fits
  <2>3. id \in Known /\ id \in LeaseIds /\ cmd[p].meta = None
    BY <1>2, <2>2 DEF Fits, Cmd
  <2>4. /\ c \in Cmd /\ c.id = id /\ c.todo \subseteq cmd[p].todo
        /\ \A f \in {"op", "key", "cert", "meta", "ended"} : c[f] = cmd[p][f]
    BY <1>2, <2>3 DEF Cmd
  <2> HIDE DEF c
  <2>5. Fits("close", c)
    BY <1>2, <2>2, <2>3, <2>4, OpStepsFacts DEF Fits, AtLease, Granted
  <2> QED BY <1>1, <2>1, <2>4, <2>5, CalmStep DEF Caring, Steps
<1> QED BY <1>3, <1>4 DEF NextOfObjective

-----------------------------------------------------------------------------
(* Steps that change files                                                 *)

\* The service and the history of failures stay; files change as they may.
LEMMA FileStep ==
    ASSUME IInv, NEW p \in Procs, NEW s \in Steps, NEW c \in Cmd \cup {NoCommand}, Becomes(p, s, c),
           UNCHANGED <<server, disturbed>>, FilesOK', KeyRule(p),
           Fits(s, c), s \notin {"initial", "rename"},
           s # "idle" => c.key = None \/ (pc[p] # "idle" /\ c.key = cmd[p].key)
                         \/ \A q \in Procs : pc[q] # "idle" => cmd[q].key # c.key,
           ~disturbed => \A id \in Known :
               Usable(id) /\ ~HasKey(id)' /\ (HasKey(id) \/ (pc[p] \in Caring /\ cmd[p].id = id))
               => s \in Caring /\ c.id = id
    PROVE  IInv'
<1>1. leases' = leases /\ issuances' = issuances /\ now' = now /\ disturbed' = disturbed
  BY DEF server
<1>2. Forward
  BY <1>1 DEF Forward, Known, IInv, ServerOK
<1>3. ServerOK'
  BY <1>1 DEF IInv, ServerOK, Known
<1>4. pc'[p] = s /\ cmd'[p] = c
  BY BecomesFacts DEF IInv
<1>5. Fits(pc[p], cmd[p])'
  BY <1>1, <1>4 DEF Fits, Known
<1>6. ~disturbed' => \A id \in Known :
        Usable(id)' /\ ~HasKey(id)' /\ (HasKey(id) \/ (pc[p] \in Caring /\ cmd[p].id = id))
        => s \in Caring /\ c.id = id
  BY <1>1 DEF Usable
<1>7. \A id \in Known' : id \in Known
  BY <1>1 DEF Known
<1> QED BY <1>2, <1>3, <1>5, <1>6, <1>7, StepOK

\* A directory goes.
LEMMA CleanupFiles ==
    ASSUME IInv, NEW p, NEW id \in LeaseIds, Cleanup(id), UNCHANGED <<scratch, disturbed>>, Forward
    PROVE  /\ FilesOK' /\ KeyRule(p)
           /\ \A j \in LeaseIds : HasKey(j)' = (HasKey(j) /\ j # id)
<1>1. scratch' = scratch /\ disturbed' = disturbed
  OBVIOUS
<1>2. FilesOK
  BY DEF IInv
<1>3. /\ cache' \in [LeaseIds -> Dirs \cup {NoDir}]
      /\ \A j \in LeaseIds : cache'[j] = IF j = id THEN NoDir ELSE cache[j]
  BY <1>2 DEF Cleanup, FilesOK
<1>4. \A j \in LeaseIds : HasKey(j)' = (HasKey(j) /\ j # id)
  BY <1>3 DEF HasKey
<1>5. \A j \in removed' : j \in removed \/ (j = id /\ HasKey(j))
  BY DEF Cleanup
<1>6. removed' \subseteq Known' /\ KeyGoneForGood'
  <2>1. removed' \subseteq Known
    BY <1>2, <1>5 DEF FilesOK
  <2>2. \A j \in removed' : ~HasKey(j)'
    BY <1>2, <1>4, <1>5, <2>1 DEF FilesOK, KeyGoneForGood, Known
  <2> QED BY <2>1, <2>2 DEF Forward, KeyGoneForGood
<1>7. \A j \in LeaseIds : HasKey(j)' => /\ j \in Known' /\ cache'[j].key = leases'[j].key
                                        /\ scratch'[cache'[j].key] = "absent"
  BY <1>1, <1>2, <1>3, <1>4 DEF FilesOK, Forward
<1>8. \A j \in LeaseIds : cache'[j] # NoDir /\ cache'[j].meta # None =>
           j \in Known' /\ cache'[j].meta.hardExp = leases'[j].hardExp
  BY <1>2, <1>3 DEF FilesOK, Forward
<1>9. \A j \in LeaseIds : cache'[j] # NoDir => cache'[j].cert \in issuances' \cup {None}
  BY <1>2, <1>3 DEF FilesOK, Forward
<1>10. FilesOK'
  BY <1>1, <1>2, <1>3, <1>6, <1>7, <1>8, <1>9 DEF FilesOK
<1>11. KeyRule(p)
  BY <1>4, <1>5 DEF KeyRule
<1> QED BY <1>4, <1>10, <1>11

\* A missing directory is made, empty; no key comes or goes.
LEMMA FailToLoadKeeps ==
    ASSUME IInv, NEW p \in Procs, pc[p] \notin Caring, NEW id \in LeaseIds, FailToLoad(p, id)
    PROVE  IInv'
<1>1. /\ leases' = leases /\ issuances' = issuances /\ now' = now
      /\ scratch' = scratch /\ disturbed' = disturbed /\ removed' = removed
  BY DEF FailToLoad, Local, server
<1>2. FilesOK
  BY DEF IInv
<1>3. EmptyDir \in Dirs /\ EmptyDir.key = None /\ EmptyDir.cert = None /\ EmptyDir.meta = None
  BY DEF EmptyDir, Dirs
<1>4. /\ cache' \in [LeaseIds -> Dirs \cup {NoDir}]
      /\ \A j \in LeaseIds : \/ cache'[j] = cache[j]
                             \/ cache[j] = NoDir /\ cache'[j] = EmptyDir
  BY <1>2, <1>3 DEF FailToLoad, FilesOK
<1>5. \A j \in LeaseIds : HasKey(j)' = HasKey(j)
  BY <1>3, <1>4 DEF HasKey
<1>6. FilesOK'
  <2>1. \A j \in LeaseIds : HasKey(j)' => /\ j \in Known' /\ cache'[j].key = leases'[j].key
                                          /\ scratch'[cache'[j].key] = "absent"
    BY <1>1, <1>2, <1>4, <1>5 DEF FilesOK, Known, HasKey
  <2>2. \A j \in LeaseIds : cache'[j] # NoDir /\ cache'[j].meta # None =>
             j \in Known' /\ cache'[j].meta.hardExp = leases'[j].hardExp
    BY <1>1, <1>2, <1>3, <1>4 DEF FilesOK, Known
  <2>3. \A j \in LeaseIds : cache'[j] # NoDir => cache'[j].cert \in issuances' \cup {None}
    BY <1>1, <1>2, <1>3, <1>4 DEF FilesOK
  <2>4. removed' \subseteq Known' /\ KeyGoneForGood'
    <3>1. removed' \subseteq Known'
      BY <1>1, <1>2 DEF FilesOK, Known
    <3>2. \A j \in removed' : ~HasKey(j)'
      BY <1>1, <1>2, <1>5 DEF FilesOK, KeyGoneForGood, Known
    <3> QED BY <3>1, <3>2 DEF KeyGoneForGood
  <2> QED BY <1>1, <1>2, <1>4, <2>1, <2>2, <2>3, <2>4 DEF FilesOK
<1>7. KeyRule(p)
  BY <1>1, <1>5 DEF KeyRule
<1>8. Becomes(p, "idle", NoCommand) /\ Fits("idle", NoCommand) /\ "idle" \in Steps
  BY DEF FailToLoad, Stop, Goto, Becomes, Fits, Steps
<1>9. \A j \in Known : ~HasKey(j)' => ~HasKey(j)
  BY <1>5 DEF Known
<1> QED BY <1>1, <1>6, <1>7, <1>8, <1>9, FileStep DEF server

LEMMA LoadKeeps == ASSUME IInv, NEW p \in Procs, Load(p) PROVE IInv'
<1>1. /\ pc[p] = "load" /\ cmd[p] \in Cmd /\ Fits("load", cmd[p])
      /\ cmd[p].id \in LeaseIds /\ cmd[p].id \in Known
  BY AtWork DEF Load, AtLease
<1>2. CASE FailToLoad(p, cmd[p].id)
  BY <1>1, <1>2, FailToLoadKeeps DEF Caring
<1>3. CASE /\ CanLoad(cmd[p].id) /\ Note(p, "meta", cache[cmd[p].id].meta) /\ Goto(p, "get")
           /\ UNCHANGED <<server, files, removed, disturbed>>
  <2> DEFINE c == [cmd[p] EXCEPT !["meta"] = cache[cmd[p].id].meta]
  <2>1. Becomes(p, "get", c)
    BY <1>3 DEF Goto, Note, Becomes, IInv, Shape
  <2>2. /\ cache[cmd[p].id].meta \in Metas \cup {None}
        /\ cache[cmd[p].id].meta.hardExp = leases[cmd[p].id].hardExp
    BY <1>1, <1>3 DEF IInv, FilesOK, CanLoad, Dirs
  <2>3. /\ c \in Cmd /\ c.meta = cache[cmd[p].id].meta
        /\ \A f \in {"op", "id", "key", "cert", "todo", "ended"} : c[f] = cmd[p][f]
    BY <1>1, <2>2 DEF Cmd
  <2> HIDE DEF c
  <2>4. Fits("get", c)
    BY <1>1, <2>2, <2>3, OpStepsFacts DEF Fits, AtLease, Granted
  <2> QED BY <1>1, <1>3, <2>1, <2>3, <2>4, CalmStep DEF Caring, Steps
<1> QED BY <1>2, <1>3 DEF Load, Local

LEMMA SweepEntryKeeps == ASSUME IInv, NEW p \in Procs, SweepEntry(p) PROVE IInv'
<1>1. pc[p] = "sweep" /\ cmd[p] \in Cmd /\ Fits("sweep", cmd[p])
  BY AtWork DEF SweepEntry
<1>2. PICK id \in cmd[p].todo :
        \/ FailToLoad(p, id)
        \/ /\ CanLoad(id)
           /\ IF Over(cache[id].meta) THEN Cleanup(id) ELSE UNCHANGED <<cache, removed>>
           /\ Note(p, "todo", cmd[p].todo \ {id})
           /\ UNCHANGED <<scratch, pc>> /\ Local
  BY DEF SweepEntry
<1>3. id \in LeaseIds
  BY <1>1 DEF Cmd
<1>4. CASE FailToLoad(p, id)
  BY <1>1, <1>3, <1>4, FailToLoadKeeps DEF Caring
<1>5. ASSUME CanLoad(id), Note(p, "todo", cmd[p].todo \ {id}), UNCHANGED <<scratch, pc>>, Local,
             IF Over(cache[id].meta) THEN Cleanup(id) ELSE UNCHANGED <<cache, removed>>
      PROVE  IInv'
  <2> DEFINE c == [cmd[p] EXCEPT !["todo"] = cmd[p].todo \ {id}]
  <2>1. Becomes(p, "sweep", c)
    BY <1>1, <1>5 DEF Note, Becomes, IInv, Shape
  <2>2. /\ c \in Cmd /\ c.todo \subseteq cmd[p].todo
        /\ \A f \in {"op", "id", "key", "cert", "meta", "ended"} : c[f] = cmd[p][f]
    BY <1>1 DEF Cmd
  <2> HIDE DEF c
  <2>3. Fits("sweep", c)
    BY <1>1, <2>2 DEF Fits, AtLease, Granted
  <2>4. CASE UNCHANGED <<cache, removed>>
    BY <1>1, <1>5, <2>1, <2>2, <2>3, <2>4, CalmStep DEF Local, files, Caring, Steps
  <2>5. CASE Over(cache[id].meta) /\ Cleanup(id)
    <3>1. /\ FilesOK' /\ KeyRule(p) /\ UNCHANGED <<server, disturbed>>
          /\ \A j \in LeaseIds : HasKey(j)' = (HasKey(j) /\ j # id)
      <4>1. Forward
        BY <1>5, ServerStays DEF Local
      <4> QED BY <1>3, <1>5, <2>5, <4>1, CleanupFiles DEF Local
    <3>2. ~Usable(id)
      <4>1. /\ cache[id].meta \in Metas /\ id \in Known
            /\ cache[id].meta.hardExp = leases[id].hardExp
        BY <1>3, <1>5 DEF CanLoad, IInv, FilesOK, Dirs
      <4>2. cache[id].meta.status \notin Terminal /\ cache[id].meta.hardExp \in Nat
        BY <4>1 DEF Metas, Live, Terminal
      <4>3. leases[id].hardExp <= now /\ now \in Nat
        BY <2>5, <4>1, <4>2 DEF Over, IInv, ServerOK
      <4> QED BY <4>1, <4>2, <4>3 DEF Usable
    <3>3. \A j \in Known : Usable(j) /\ ~HasKey(j)' => ~HasKey(j)
      BY <3>1, <3>2 DEF Known
    <3> QED BY <1>1, <2>1, <2>2, <2>3, <3>1, <3>3, FileStep DEF Caring, Steps
  <2> QED BY <1>5, <2>4, <2>5
<1> QED BY <1>2, <1>4, <1>5

\* Scratch directories come and go, but none for the key of a lease.
LEMMA ScratchFiles ==
    ASSUME IInv, Forward, UNCHANGED <<cache, removed>>, disturbed' \in BOOLEAN, NEW p,
           scratch' \in [Keys -> {"absent", "fresh", "old"}],
           \A k \in Keys : scratch[k] = "absent" => \/ scratch'[k] = "absent"
                                                   \/ \A id \in Known : leases[id].key # k
    PROVE  FilesOK' /\ KeyRule(p) /\ \A id \in LeaseIds : HasKey(id)' = HasKey(id)
<1>1. \A id \in LeaseIds : HasKey(id)' = HasKey(id)
  BY DEF HasKey
<1>2. FilesOK
  BY DEF IInv
<1>3. \A id \in LeaseIds : HasKey(id) => cache[id].key \in Keys
  BY <1>2 DEF FilesOK, HasKey, Dirs
<1>4. \A id \in LeaseIds : HasKey(id)' => /\ id \in Known' /\ cache'[id].key = leases'[id].key
                                          /\ scratch'[cache'[id].key] = "absent"
  BY <1>1, <1>2, <1>3 DEF FilesOK, Forward
<1>5. KeyGoneForGood'
  <2>1. \A id \in removed' : ~HasKey(id)'
    BY <1>1, <1>2 DEF FilesOK, KeyGoneForGood, Known
  <2> QED BY <2>1 DEF KeyGoneForGood
<1>6. FilesOK'
  BY <1>2, <1>4, <1>5 DEF FilesOK, Forward
<1> QED BY <1>1, <1>6 DEF KeyRule

LEMMA SweepScratchKeeps == ASSUME IInv, NEW p \in Procs, SweepScratch(p) PROVE IInv'
<1> DEFINE s == FirstStep[cmd[p].op]
<1>1. pc[p] = "sweep" /\ cmd[p] \in Cmd /\ Fits("sweep", cmd[p])
  BY AtWork DEF SweepScratch
<1>2. /\ UNCHANGED <<server, disturbed>> /\ cache' = cache /\ removed' = removed
      /\ scratch' = [k \in Keys |-> IF scratch[k] = "old" THEN "absent" ELSE scratch[k]]
  BY DEF SweepScratch, Local
<1>3. /\ s \in OpSteps[cmd[p].op] /\ s \in {"keygen", "get", "load", "close", "list"}
      /\ s \in AtLease => cmd[p].op \in {"status", "exec", "close"}
      /\ cmd[p].op = "objective" => s = "list"
  BY <1>1, MoreStepsFacts
<1>4. Becomes(p, s, cmd[p])
  BY DEF SweepScratch, Goto, Becomes, IInv, Shape
<1> HIDE DEF s
<1>5. Fits(s, cmd[p])
  BY <1>1, <1>3 DEF Fits, Granted
<1>6. s \in Steps /\ s \notin {"initial", "rename"}
  BY <1>3 DEF Steps
<1>7. Forward /\ disturbed' \in BOOLEAN
  BY <1>2, ServerStays DEF IInv, FilesOK
<1>8. scratch' \in [Keys -> {"absent", "fresh", "old"}] /\ \A k \in Keys : scratch[k] = "absent" => scratch'[k] = "absent"
  BY <1>2 DEF IInv, FilesOK
<1>9. FilesOK' /\ KeyRule(p) /\ \A id \in LeaseIds : HasKey(id)' = HasKey(id)
  BY <1>2, <1>7, <1>8, ScratchFiles
<1>10. \A id \in Known : HasKey(id)' = HasKey(id)
  BY <1>9 DEF Known
<1> QED BY <1>1, <1>2, <1>4, <1>5, <1>6, <1>9, <1>10, FileStep DEF Caring

LEMMA GenerateLeaseKeyKeeps == ASSUME IInv, NEW p \in Procs, GenerateLeaseKey(p) PROVE IInv'
<1>1. pc[p] = "keygen" /\ cmd[p] \in Cmd /\ Fits("keygen", cmd[p])
  BY AtWork DEF GenerateLeaseKey
<1>2. UNCHANGED <<server, disturbed>> /\ cache' = cache /\ removed' = removed
  BY DEF GenerateLeaseKey, Local
<1>3. CASE Stop(p) /\ UNCHANGED scratch
  <2>1. UNCHANGED <<server, files, removed, disturbed>>
    BY <1>2, <1>3 DEF files
  <2> QED BY <1>1, <1>3, <2>1, StopKeeps DEF Caring
<1>4. ASSUME NEW k \in Keys, ~Taken(k), scratch' = [scratch EXCEPT ![k] = "fresh"],
             Note(p, "key", k), Goto(p, "open")
      PROVE  IInv'
  <2> DEFINE c == [cmd[p] EXCEPT !["key"] = k]
  <2>1. Becomes(p, "open", c)
    BY <1>4 DEF Goto, Note, Becomes, IInv, Shape
  <2>2. /\ c \in Cmd /\ c.key = k
        /\ \A f \in {"op", "id", "cert", "todo", "meta", "ended"} : c[f] = cmd[p][f]
    BY <1>1 DEF Cmd
  <2> HIDE DEF c
  <2>3. "open" \in OpSteps[c.op] /\ c.op = "open"
    BY <1>1, <2>2, MoreStepsFacts DEF Fits
  <2>4. Fits("open", c)
    BY <1>1, <1>4, <2>2, <2>3 DEF Fits, AtLease, Granted
  <2>5. Forward /\ disturbed' \in BOOLEAN
    BY <1>2, ServerStays DEF IInv, FilesOK
  <2>6. scratch' \in [Keys -> {"absent", "fresh", "old"}] /\ \A j \in Keys : j # k => scratch'[j] = scratch[j]
    BY <1>4 DEF IInv, FilesOK
  <2>7. \A id \in Known : leases[id].key # k
    BY <1>4 DEF Taken
  <2>8. FilesOK' /\ KeyRule(p) /\ \A id \in LeaseIds : HasKey(id)' = HasKey(id)
    BY <1>2, <2>5, <2>6, <2>7, ScratchFiles
  <2>9. \A id \in Known : HasKey(id)' = HasKey(id)
    BY <2>8 DEF Known
  <2>10. \A q \in Procs : pc[q] # "idle" => cmd[q].key # c.key
    BY <1>4, <2>2 DEF Taken, Running
  <2> QED BY <1>1, <1>2, <2>1, <2>2, <2>4, <2>8, <2>9, <2>10, FileStep DEF Caring, Steps
<1> QED BY <1>3, <1>4 DEF GenerateLeaseKey

-----------------------------------------------------------------------------
(* Steps that call the service                                             *)

LEMMA ServiceOpensKeeps == ASSUME IInv, NEW p \in Procs, ServiceOpens(p) PROVE IInv'
<1>1. /\ pc[p] = "open" /\ cmd[p] \in Cmd /\ Fits("open", cmd[p])
      /\ cmd[p].op = "open" /\ cmd[p].key \in Keys
  BY AtWork DEF ServiceOpens
<1>2. UNCHANGED <<files, removed>> /\ disturbed' = disturbed
  BY DEF ServiceOpens, Calm
<1>3. PICK id \in LeaseIds \ Known, policy \in Policies, objective \in Objectives :
        LET status == IF NeedsApproval(policy, Me) THEN "PENDING_APPROVAL" ELSE "ACTIVE"
        IN /\ leases' = [leases EXCEPT ![id] =
                 [requester |-> Me, key |-> cmd[p].key, objective |-> objective,
                  policy |-> policy, hardExp |-> now + HardTTL, status |-> status,
                  approvedBy |-> None]]
           /\ Grant(id)
           /\ cmd' = [cmd EXCEPT ![p].id = id,
                                 ![p].meta = [status |-> status, hardExp |-> now + HardTTL,
                                              before |-> 0]]
           /\ Goto(p, IF status = "ACTIVE" THEN "initial" ELSE "rename")
  BY DEF ServiceOpens
<1> DEFINE status == IF NeedsApproval(policy, Me) THEN "PENDING_APPROVAL" ELSE "ACTIVE"
           l == [requester |-> Me, key |-> cmd[p].key, objective |-> objective,
                 policy |-> policy, hardExp |-> now + HardTTL, status |-> status, approvedBy |-> None]
           m == [status |-> status, hardExp |-> now + HardTTL, before |-> 0]
           c == [cmd[p] EXCEPT !.id = id, !.meta = m]
           s == IF status = "ACTIVE" THEN "initial" ELSE "rename"
<1>4. status \in Live /\ s \in {"initial", "rename"}
  BY DEF Live
<1>5. leases' = [leases EXCEPT ![id] = l] /\ Grant(id) /\ Becomes(p, s, c)
  BY <1>3 DEF Becomes, Goto, IInv, Shape
<1>6. l.key = cmd[p].key /\ l.hardExp = now + HardTTL /\ l.status = status
  OBVIOUS
<1>7. m \in Metas /\ m.hardExp = now + HardTTL
  <2>1. now + HardTTL \in Nat
    BY DEF IInv, ServerOK
  <2> QED BY <1>4, <2>1 DEF Metas
<1>8. /\ c \in Cmd /\ c.id = id /\ c.meta = m
      /\ \A f \in {"op", "key", "cert", "todo", "ended"} : c[f] = cmd[p][f]
  BY <1>1, <1>7 DEF Cmd
<1> HIDE DEF c, m, l, s, status
<1>9. /\ leases'[id] = l /\ l \in Lease /\ id \notin Known /\ id \in LeaseIds
      /\ \A j \in LeaseIds : j # id => leases'[j] = leases[j]
      /\ \A j \in Known : leases[j].key # l.key
      /\ issuances' = issuances /\ now' = now
  BY <1>5 DEF Grant, IInv, ServerOK
<1>10. Known' = Known \cup {id}
  BY <1>9 DEF Known
<1>11. Forward
  BY <1>2, <1>9, <1>10 DEF Forward, Known, IInv, ServerOK
<1>12. ServerOK'
  <2>1. leases' \in [LeaseIds -> Lease \cup {NoLease}]
    BY <1>5, <1>9 DEF IInv, ServerOK
  <2>2. \A a, b \in Known' : leases'[a].key = leases'[b].key => a = b
    BY <1>9, <1>10 DEF IInv, ServerOK, Known
  <2> QED BY <1>9, <2>1, <2>2 DEF IInv, ServerOK
<1>13. FilesOK' /\ KeyRule(p) /\ \A j \in LeaseIds : HasKey(j)' = HasKey(j)
  <2>1. disturbed' \in BOOLEAN
    BY <1>2 DEF IInv, FilesOK
  <2> QED BY <1>2, <1>11, <2>1, FilesStay
<1>14. ~HasKey(id)' /\ id \notin removed'
  BY <1>2, <1>9, <1>13 DEF IInv, FilesOK
<1>15. pc'[p] = s /\ cmd'[p] = c /\ s \in Steps
  BY <1>4, <1>5, <1>8, BecomesFacts DEF IInv, Steps
<1>16. Fits(pc[p], cmd[p])'
  <2>1. s \in OpSteps[c.op]
    BY <1>1, <1>4, <1>8, MoreStepsFacts DEF Fits, Granted
  <2>2. \A j \in c.ended : j \in Known' /\ leases'[j].status \in Terminal
    BY <1>1, <1>8, <1>9, <1>10 DEF Fits, Known
  <2>3. leases'[c.id].key = c.key /\ c.meta.hardExp = leases'[c.id].hardExp /\ c.id \in Known'
    BY <1>6, <1>7, <1>8, <1>9, <1>10
  <2> QED BY <1>1, <1>4, <1>7, <1>8, <1>9, <1>14, <1>15, <2>1, <2>2, <2>3 DEF Fits
<1>17. \A j \in Known : HasKey(j)' = HasKey(j)
  BY <1>13 DEF Known
<1>18. s \in Caring
  BY <1>4 DEF Caring
<1>19. \A j \in Known' : j \notin Known => s \in Caring /\ c.id = j
  BY <1>8, <1>10, <1>18
<1> QED BY <1>1, <1>5, <1>8, <1>11, <1>12, <1>13, <1>15, <1>16, <1>17, <1>19, StepOK DEF Caring

\* The service issues a certificate of the lease, under its key.
LEMMA IssuesFacts ==
    ASSUME IInv, NEW id \in Known, Issues(id), UNCHANGED disturbed
    PROVE  /\ leases' = leases /\ now' = now /\ Known' = Known
           /\ CertificateFor(id) \in Certificate /\ CertificateFor(id) \in issuances'
           /\ Forward /\ ServerOK'
<1> DEFINE c == CertificateFor(id)
<1>1. c \in Certificate /\ issuances' = issuances \cup {c} /\ leases' = leases /\ now' = now
  BY DEF Issues, Certify
<1> HIDE DEF c
<1>2. Known' = Known
  BY <1>1 DEF Known
<1>3. Forward
  BY <1>1, <1>2 DEF Forward, IInv, ServerOK
<1>4. ServerOK'
  BY <1>1, <1>2 DEF IInv, ServerOK
<1> QED BY <1>1, <1>2, <1>3, <1>4 DEF c

LEMMA ServiceIssuesFirstKeeps == ASSUME IInv, NEW p \in Procs, ServiceIssuesFirst(p) PROVE IInv'
<1> DEFINE id == cmd[p].id
           n == CertificateFor(id)
           m == [cmd[p].meta EXCEPT !.before = n.before]
           c == [cmd[p] EXCEPT !.cert = n, !.meta = m]
<1>1. /\ pc[p] = "initial" /\ cmd[p] \in Cmd /\ Fits("initial", cmd[p])
      /\ id \in Known /\ id \in LeaseIds
  BY AtWork DEF ServiceIssuesFirst, AtLease
<1>2. Issues(id) /\ UNCHANGED <<files, removed>> /\ disturbed' = disturbed
  BY DEF ServiceIssuesFirst, Calm
<1>3. Becomes(p, "rename", c)
  BY DEF ServiceIssuesFirst, Goto, Becomes, IInv, Shape
<1>4. /\ leases' = leases /\ now' = now /\ Known' = Known
      /\ n \in Certificate /\ n \in issuances' /\ Forward /\ ServerOK'
  BY <1>1, <1>2, IssuesFacts
<1> HIDE DEF n
<1>5. cmd[p].meta \in Metas /\ n.before \in Nat
  BY <1>1, <1>4 DEF Fits, Certificate
<1>6. m \in Metas /\ m.hardExp = leases[id].hardExp
  BY <1>1, <1>5 DEF Metas, Fits
<1> HIDE DEF m
<1>7. /\ c.cert = n /\ c.meta = m /\ c \in Cmd
      /\ \A f \in {"op", "id", "key", "todo", "ended"} : c[f] = cmd[p][f]
  BY <1>1, <1>4, <1>6 DEF Cmd
<1> HIDE DEF c
<1>9. FilesOK' /\ KeyRule(p) /\ \A j \in LeaseIds : HasKey(j)' = HasKey(j)
  <2>1. disturbed' \in BOOLEAN
    BY <1>2 DEF IInv, FilesOK
  <2> QED BY <1>2, <1>4, <2>1, FilesStay
<1>10. pc'[p] = "rename" /\ cmd'[p] = c /\ "rename" \in Steps
  BY <1>3, <1>7, BecomesFacts DEF IInv, Steps
<1>11. Fits(pc[p], cmd[p])'
  <2>1. "rename" \in OpSteps[c.op] /\ c.op = "open"
    BY <1>1, <1>7, MoreStepsFacts DEF Fits, Granted
  <2>2. ~HasKey(cmd[p].id)' /\ cmd'[p].id \notin removed'
    BY <1>1, <1>2, <1>7, <1>9, <1>10 DEF Fits, HasKey
  <2>3. c.id \in Known' /\ leases'[c.id].key = c.key /\ c.key \in Keys /\ c.cert \in issuances' \cup {None}
        /\ c.meta.hardExp = leases'[c.id].hardExp
    BY <1>1, <1>4, <1>6, <1>7 DEF Fits, Granted
  <2>4. \A j \in c.ended : j \in Known' /\ leases'[j].status \in Terminal
    BY <1>1, <1>4, <1>7 DEF Fits
  <2> QED BY <1>4, <1>6, <1>7, <1>10, <2>1, <2>2, <2>3, <2>4 DEF Fits
<1>12. \A j \in Known : HasKey(j)' = HasKey(j)
  BY <1>9 DEF Known
<1>13. c.id = cmd[p].id /\ c.key = cmd[p].key /\ "rename" \in Caring
  BY <1>7 DEF Caring
<1> QED BY <1>1, <1>3, <1>4, <1>7, <1>9, <1>10, <1>11, <1>12, <1>13, StepOK

\* A command ends; what it gives up is no key, and no lease it cares for unless that is noted.
LEMMA EndKeeps ==
    ASSUME IInv, NEW p \in Procs, Stop(p), Forward, ServerOK', FilesOK', KeyRule(p), Known' \subseteq Known,
           ~disturbed' => \A id \in Known : Usable(id)' /\ HasKey(id) => HasKey(id)',
           ~disturbed' /\ pc[p] \in Caring =>
               \A id \in Known : id = cmd[p].id => ~Usable(id)' \/ HasKey(id)'
    PROVE  IInv'
<1>1. Becomes(p, "idle", NoCommand) /\ "idle" \in Steps
  BY DEF Stop, Goto, Becomes, Steps
<1>2. pc'[p] = "idle"
  BY <1>1, BecomesFacts DEF IInv
<1>3. Fits(pc[p], cmd[p])'
  BY <1>2 DEF Fits
<1>4. ~disturbed' => \A id \in Known : Usable(id)' /\ ~HasKey(id)'
         /\ (HasKey(id) \/ (pc[p] \in Caring /\ cmd[p].id = id)) => FALSE
  OBVIOUS
<1> QED BY <1>1, <1>3, <1>4, StepOK

LEMMA OpenFailsKeeps == ASSUME IInv, NEW p \in Procs, OpenFails(p) PROVE IInv'
<1>1. /\ pc[p] \in {"open", "initial", "rename"} /\ Stop(p)
      /\ disturbed' = (disturbed \/ pc[p] # "open")
      /\ scratch' = [scratch EXCEPT ![cmd[p].key] = "absent"]
      /\ UNCHANGED server /\ cache' = cache /\ removed' = removed
  BY DEF OpenFails
<1>2. Forward /\ ServerOK' /\ Known' = Known /\ leases' = leases /\ issuances' = issuances
  BY <1>1, ServerStays DEF IInv, FilesOK
<1>3. /\ scratch' \in [Keys -> {"absent", "fresh", "old"}] /\ disturbed' \in BOOLEAN
      /\ \A k \in Keys : scratch[k] = "absent" => scratch'[k] = "absent"
  BY <1>1 DEF IInv, FilesOK
<1>4. FilesOK' /\ KeyRule(p) /\ \A id \in LeaseIds : HasKey(id)' = HasKey(id)
  BY <1>1, <1>2, <1>3, ScratchFiles
<1>5. \A id \in Known : HasKey(id)' = HasKey(id)
  BY <1>4 DEF Known
<1>6. disturbed' \/ pc[p] \notin Caring
  BY <1>1 DEF Caring
<1> QED BY <1>1, <1>2, <1>4, <1>5, <1>6, EndKeeps

LEMMA RenewKeeps == ASSUME IInv, NEW p \in Procs, Renew(p) PROVE IInv'
<1> DEFINE id == cmd[p].id
           n == CertificateFor(id)
<1>1. /\ pc[p] = "renew" /\ cmd[p] \in Cmd /\ Fits("renew", cmd[p])
      /\ id \in Known /\ id \in LeaseIds
  BY AtWork DEF Renew, AtLease
<1>2. Issues(id) /\ UNCHANGED <<files, removed>> /\ disturbed' = disturbed
  BY DEF Renew, Calm
<1>3. /\ leases' = leases /\ now' = now /\ Known' = Known
      /\ n \in Certificate /\ n \in issuances' /\ Forward /\ ServerOK'
  BY <1>1, <1>2, IssuesFacts
<1>4. FilesOK' /\ KeyRule(p) /\ \A j \in LeaseIds : HasKey(j)' = HasKey(j)
  <2>1. disturbed' \in BOOLEAN
    BY <1>2 DEF IInv, FilesOK
  <2> QED BY <1>2, <1>3, <2>1, FilesStay
<1>5. \A j \in Known : HasKey(j)' = HasKey(j)
  BY <1>4 DEF Known
<1> HIDE DEF n
<1>6. CASE Stop(p)
  BY <1>1, <1>3, <1>4, <1>5, <1>6, EndKeeps DEF Caring
<1>7. ASSUME Goto(p, "recert"),
             cmd' = [cmd EXCEPT ![p].cert = n, ![p].meta =
                       [status |-> "ACTIVE", hardExp |-> leases[id].hardExp, before |-> n.before]]
      PROVE  IInv'
  <2> DEFINE m == [status |-> "ACTIVE", hardExp |-> leases[id].hardExp, before |-> n.before]
             c == [cmd[p] EXCEPT !.cert = n, !.meta = m]
  <2>1. Becomes(p, "recert", c)
    BY <1>7 DEF Goto, Becomes, IInv, Shape
  <2>2. m \in Metas /\ m.hardExp = leases[id].hardExp
    <3>1. leases[id] \in Lease
      BY <1>1 DEF IInv, ServerOK, Known
    <3>2. leases[id].hardExp \in Nat /\ n.before \in Nat
      BY <1>3, <3>1 DEF Lease, Certificate
    <3> QED BY <3>2 DEF Metas, Live
  <2> HIDE DEF m
  <2>3. /\ c \in Cmd /\ c.cert = n /\ c.meta = m
        /\ \A f \in {"op", "id", "key", "todo", "ended"} : c[f] = cmd[p][f]
    BY <1>1, <1>3, <2>2 DEF Cmd
  <2> HIDE DEF c
  <2>4. pc'[p] = "recert" /\ cmd'[p] = c /\ "recert" \in Steps
    BY <2>1, <2>3, BecomesFacts DEF IInv, Steps
  <2>5. Fits(pc[p], cmd[p])'
    <3>1. "recert" \in OpSteps[c.op] /\ c.op = "exec"
      BY <1>1, <2>3, MoreStepsFacts DEF Fits
    <3>2. \A j \in c.ended : j \in Known' /\ leases'[j].status \in Terminal
      BY <1>1, <1>3, <2>3 DEF Fits
    <3>3. c.id \in Known' /\ c.meta.hardExp = leases'[c.id].hardExp /\ c.id \notin c.ended
      BY <1>1, <1>3, <2>2, <2>3 DEF Fits
    <3> QED BY <1>3, <2>3, <2>4, <3>1, <3>2, <3>3 DEF Fits, Granted
  <2> QED BY <1>1, <1>3, <1>4, <1>5, <2>1, <2>3, <2>4, <2>5, StepOK DEF Caring
<1> QED BY <1>6, <1>7 DEF Renew, n

\* One lease changes, under the same key and to the same deadline.
LEMMA LeaseChange ==
    ASSUME IInv, NEW id \in Known, NEW l \in Lease, leases' = [leases EXCEPT ![id] = l],
           UNCHANGED <<issuances, now>>, disturbed => disturbed',
           l.key = leases[id].key, l.hardExp = leases[id].hardExp,
           leases[id].status \in Terminal => l.status \in Terminal
    PROVE  /\ Forward /\ ServerOK' /\ Known' = Known /\ leases'[id] = l
           /\ \A j \in Known : j # id => leases'[j] = leases[j]
<1>1. leases \in [LeaseIds -> Lease \cup {NoLease}] /\ id \in LeaseIds /\ issuances \subseteq Certificate /\ now \in Nat
  BY DEF IInv, ServerOK, Known
<1>2. leases' \in [LeaseIds -> Lease \cup {NoLease}]
  BY <1>1
<1>3. leases'[id] = l /\ \A j \in LeaseIds : j # id => leases'[j] = leases[j]
  BY <1>1
<1>4. Known' = Known
  <2>1. leases'[id] # NoLease /\ leases[id] # NoLease
    BY <1>3 DEF Known
  <2> QED BY <1>1, <1>3, <2>1 DEF Known
<1>5. \A j \in Known : j # id => leases'[j] = leases[j]
  BY <1>3 DEF Known
<1>6. \A j \in Known : leases'[j].key = leases[j].key /\ leases'[j].hardExp = leases[j].hardExp
                       /\ (leases[j].status \in Terminal => leases'[j].status \in Terminal)
  BY <1>3, <1>5
<1>7. Forward
  BY <1>1, <1>4, <1>6 DEF Forward
<1>8. \A a, b \in Known' : leases'[a].key = leases'[b].key => a = b
  BY <1>4, <1>6 DEF IInv, ServerOK
<1>9. ServerOK'
  BY <1>1, <1>2, <1>8 DEF ServerOK
<1> QED BY <1>3, <1>4, <1>5, <1>7, <1>9

\* A lease of which only the status changes.
LEMMA WithStatus ==
    ASSUME IInv, NEW id \in Known, NEW s \in Status
    PROVE  LET l == [leases[id] EXCEPT !.status = s]
           IN /\ l \in Lease /\ l.status = s /\ leases[id].status \in Status
              /\ l.key = leases[id].key /\ l.hardExp = leases[id].hardExp
<1>1. leases[id] \in Lease
  BY DEF IInv, ServerOK, Known
<1> QED BY <1>1 DEF Lease

\* A call that ends a lease: the lease has ended, or a call was lost.
LEMMA CallCloseFacts ==
    ASSUME IInv, NEW id \in Known, CallClose(id)
    PROVE  /\ Forward /\ ServerOK' /\ Known' = Known /\ disturbed' \in BOOLEAN /\ issuances' = issuances
           /\ ~disturbed' => leases'[id].status \in Terminal
<1>1. \A j \in Known : leases[j] \in Lease
  BY DEF IInv, ServerOK, Known
<1>2. leases[id].status \in Live \cup Terminal /\ disturbed \in BOOLEAN
  BY <1>1 DEF Lease, Status, IInv, FilesOK
<1>3. CASE Terminate(id) /\ Calm
  <2>1. PICK s \in Terminal : leases' = [leases EXCEPT ![id].status = s]
    BY <1>3 DEF Terminate
  <2> DEFINE l == [leases[id] EXCEPT !.status = s]
  <2>2. l \in Lease /\ l.status = s /\ l.key = leases[id].key /\ l.hardExp = leases[id].hardExp
    BY <2>1, WithStatus DEF Status
  <2>3. leases' = [leases EXCEPT ![id] = l]
    BY <2>1 DEF IInv, ServerOK
  <2> HIDE DEF l
  <2>4. UNCHANGED <<issuances, now>> /\ disturbed' = disturbed
    BY <1>3 DEF Terminate, Calm
  <2> QED BY <1>2, <2>1, <2>2, <2>3, <2>4, LeaseChange
<1>4. CASE id \notin {i \in Known : leases[i].status \in Live} /\ UNCHANGED server /\ Calm
  BY <1>2, <1>4, ServerStays DEF Calm
<1>5. CASE Lossy /\ UNCHANGED server /\ disturbed' = TRUE
  BY <1>5, ServerStays
<1> QED BY <1>3, <1>4, <1>5 DEF CallClose

\* A lease that has ended cannot be used.
LEMMA EndedIsUseless ==
    ASSUME NEW id, leases[id].status \in Terminal PROVE ~Usable(id)
BY DEF Usable, Live, Terminal

LEMMA CallCloseKeeps ==
    ASSUME IInv, NEW p \in Procs, NEW s \in Steps, pc[p] \in AtLease, CallClose(cmd[p].id),
           UNCHANGED <<files, cmd, removed>>, Goto(p, s),
           s \in {"cleanup", "remove"}, s \in OpSteps[cmd[p].op],
           s = "remove" => pc[p] \in Granted, pc[p] \in Granted => s = "remove"
    PROVE  IInv'
<1> DEFINE c == cmd[p]
           id == cmd[p].id
<1>1. cmd[p] \in Cmd /\ Fits(pc[p], cmd[p]) /\ id \in Known /\ id \in LeaseIds /\ pc[p] # "idle"
  BY AtWork DEF AtLease
<1>2. /\ Forward /\ ServerOK' /\ Known' = Known /\ disturbed' \in BOOLEAN /\ issuances' = issuances
      /\ ~disturbed' => leases'[id].status \in Terminal
  BY <1>1, CallCloseFacts
<1>3. FilesOK' /\ KeyRule(p) /\ \A j \in LeaseIds : HasKey(j)' = HasKey(j)
  BY <1>2, FilesStay
<1>4. Becomes(p, s, c) /\ pc'[p] = s /\ cmd'[p] = c
  BY DEF Goto, Becomes, IInv, Shape
<1>5. Fits(pc[p], cmd[p])'
  <2>1. \A j \in c.ended : j \in Known' /\ leases'[j].status \in Terminal
    BY <1>1, <1>2 DEF Fits, Forward
  <2>2. c.meta # None => c.id \in Known' /\ c.meta.hardExp = leases'[c.id].hardExp
    BY <1>1, <1>2 DEF Fits, Forward
  <2>3. s \in Granted => c.key \in Keys /\ leases'[c.id].key = c.key
    BY <1>1, <1>2 DEF Fits, Forward, Granted
  <2>4. c.op = "objective" => c.meta = None /\ c.todo \subseteq Known'
    <3>1. c.op = "objective" => pc[p] \in {"close", "cleanup"}
      <4>1. c.op = "objective" => pc[p] \in {"sweep", "list", "each", "close", "cleanup"}
        BY <1>1 DEF Fits, OpSteps
      <4> QED BY <4>1 DEF AtLease
    <3> QED BY <1>1, <1>2, <3>1 DEF Fits
  <2> QED BY <1>1, <1>2, <1>4, <2>1, <2>2, <2>3, <2>4 DEF Fits, Granted
<1>6. \A j \in Known : HasKey(j)' = HasKey(j)
  BY <1>3 DEF Known
<1>7. ~disturbed' => \A j \in Known : j = id => ~Usable(j)'
  BY <1>2 DEF Usable, Live, Terminal
<1> QED BY <1>1, <1>2, <1>3, <1>4, <1>5, <1>6, <1>7, StepOK

LEMMA UndoKeeps == ASSUME IInv, NEW p \in Procs, Undo(p) PROVE IInv'
<1>1. pc[p] = "undo" /\ CallClose(cmd[p].id) /\ Goto(p, "remove") /\ UNCHANGED <<files, cmd, removed>>
  BY DEF Undo
<1>2. cmd[p] \in Cmd /\ "undo" \in OpSteps[cmd[p].op]
  BY <1>1, AtWork
<1>3. "remove" \in OpSteps[cmd[p].op]
  BY <1>2, MoreStepsFacts DEF Granted
<1> QED BY <1>1, <1>3, CallCloseKeeps DEF AtLease, Granted, Steps

LEMMA CloseKeeps == ASSUME IInv, NEW p \in Procs, Close(p) PROVE IInv'
<1>1. pc[p] = "close" /\ CallClose(cmd[p].id) /\ Goto(p, "cleanup") /\ UNCHANGED <<files, cmd, removed>>
  BY DEF Close
<1>2. cmd[p] \in Cmd /\ "close" \in OpSteps[cmd[p].op]
  BY <1>1, AtWork
<1>3. "cleanup" \in OpSteps[cmd[p].op]
  BY <1>2, MoreStepsFacts
<1> QED BY <1>1, <1>3, CallCloseKeeps DEF AtLease, Granted, Steps

LEMMA RemoveKeeps == ASSUME IInv, NEW p \in Procs, Remove(p) PROVE IInv'
<1>1. /\ pc[p] = "remove" /\ Fits("remove", cmd[p])
      /\ cmd[p].id \in Known /\ cmd[p].id \in LeaseIds /\ cmd[p].key \in Keys
  BY AtWork DEF Remove, AtLease, Granted
<1>2. Stop(p) /\ UNCHANGED <<server, disturbed>>
  BY DEF Remove, Local
<1>3. Forward /\ ServerOK' /\ Known' = Known /\ leases' = leases /\ disturbed' \in BOOLEAN /\ disturbed' = disturbed
  BY <1>2, ServerStays DEF IInv, FilesOK
<1>4. CASE Cleanup(cmd[p].id) /\ UNCHANGED scratch
  <2>1. /\ FilesOK' /\ KeyRule(p)
        /\ \A j \in LeaseIds : HasKey(j)' = (HasKey(j) /\ j # cmd[p].id)
    BY <1>1, <1>3, <1>4, CleanupFiles
  <2>2. ~disturbed' => \A j \in Known : j = cmd[p].id => ~Usable(j)'
    BY <1>1, <1>3 DEF Fits, Usable, Live, Terminal
  <2>3. \A j \in Known : HasKey(j)' = (HasKey(j) /\ j # cmd[p].id)
    BY <2>1 DEF Known
  <2>4. ~disturbed' => \A j \in Known : Usable(j)' /\ HasKey(j) => HasKey(j)'
    BY <2>2, <2>3
  <2> QED BY <1>1, <1>2, <1>3, <2>1, <2>4, EndKeeps DEF Caring
<1>5. CASE scratch' = [scratch EXCEPT ![cmd[p].key] = "absent"] /\ UNCHANGED <<cache, removed>>
  <2>1. /\ scratch' \in [Keys -> {"absent", "fresh", "old"}]
        /\ \A k \in Keys : scratch[k] = "absent" => scratch'[k] = "absent"
    BY <1>1, <1>5 DEF IInv, FilesOK
  <2>2. FilesOK' /\ KeyRule(p) /\ \A id \in LeaseIds : HasKey(id)' = HasKey(id)
    BY <1>3, <1>5, <2>1, ScratchFiles
  <2>3. \A id \in Known : HasKey(id)' = HasKey(id)
    BY <2>2 DEF Known
  <2> QED BY <1>1, <1>2, <1>3, <2>2, <2>3, EndKeeps DEF Caring
<1> QED BY <1>4, <1>5 DEF Remove

LEMMA AfterCloseKeeps == ASSUME IInv, NEW p \in Procs, AfterClose(p) PROVE IInv'
<1>1. /\ pc[p] = "cleanup" /\ cmd[p] \in Cmd /\ Fits("cleanup", cmd[p])
      /\ cmd[p].id \in Known /\ cmd[p].id \in LeaseIds
  BY AtWork DEF AfterClose, AtLease
<1>2. Cleanup(cmd[p].id) /\ UNCHANGED <<scratch, server, disturbed>>
  BY DEF AfterClose, Local
<1>3. Forward /\ ServerOK' /\ Known' = Known /\ leases' = leases /\ disturbed' = disturbed
  BY <1>2, ServerStays
<1>4. /\ FilesOK' /\ KeyRule(p)
      /\ \A j \in LeaseIds : HasKey(j)' = (HasKey(j) /\ j # cmd[p].id)
  BY <1>1, <1>2, <1>3, CleanupFiles
<1>5. ~disturbed => ~Usable(cmd[p].id)
  BY <1>1 DEF Fits, Usable, Live, Terminal
<1>6. \A j \in Known : HasKey(j)' = (HasKey(j) /\ j # cmd[p].id)
  BY <1>4 DEF Known
<1>7. CASE Stop(p)
  <2>1. ~disturbed' => \A j \in Known : j = cmd[p].id => ~Usable(j)'
    BY <1>1, <1>3 DEF Fits, Usable, Live, Terminal
  <2>2. ~disturbed' => \A j \in Known : Usable(j)' /\ HasKey(j) => HasKey(j)'
    BY <1>6, <2>1
  <2> QED BY <1>1, <1>3, <1>4, <1>7, <2>2, EndKeeps DEF Caring
<1>8. CASE cmd[p].op = "objective" /\ Goto(p, "each") /\ UNCHANGED cmd
  <2>1. Becomes(p, "each", cmd[p])
    BY <1>8 DEF Goto, Becomes, IInv, Shape
  <2>2. Fits("each", cmd[p])
    BY <1>1, <1>8, MoreStepsFacts DEF Fits, Granted, AtLease
  <2> QED BY <1>1, <1>2, <1>4, <1>5, <1>6, <2>1, <2>2, FileStep DEF Caring, Steps
<1> QED BY <1>7, <1>8 DEF AfterClose

LEMMA GetKeeps == ASSUME IInv, NEW p \in Procs, Get(p) PROVE IInv'
<1> DEFINE id == cmd[p].id
           s == NowStatus(id)
           l == [leases[id] EXCEPT !.status = s]
<1>1. /\ pc[p] = "get" /\ cmd[p] \in Cmd /\ Fits("get", cmd[p]) /\ "get" \in OpSteps[cmd[p].op]
      /\ id \in Known /\ id \in LeaseIds
  BY AtWork DEF Get, AtLease
<1>2. UNCHANGED <<issuances, now, scratch>> /\ disturbed' = disturbed
  BY DEF Get, Calm
<1>3. s \in Status /\ (leases[id].status \in Terminal => s = leases[id].status) /\ (s = "ACTIVE" => s = leases[id].status)
  <2>1. leases[id].status \in Status
    <3>1. leases[id] \in Lease
      BY <1>1 DEF IInv, ServerOK, Known
    <3> QED BY <3>1 DEF Lease
  <2> QED BY <2>1 DEF NowStatus, Status, Live, Terminal
<1>4. leases' = [leases EXCEPT ![id] = l]
  BY DEF Get, AnswerGet, IInv, ServerOK
<1>5. l \in Lease /\ l.status = s /\ l.key = leases[id].key /\ l.hardExp = leases[id].hardExp
  BY <1>1, <1>3, WithStatus
<1> HIDE DEF l, s
<1>6. /\ Forward /\ ServerOK' /\ Known' = Known /\ leases'[id] = l
      /\ \A j \in Known : j # id => leases'[j] = leases[j]
  BY <1>1, <1>2, <1>3, <1>4, <1>5, LeaseChange
<1>7. CASE cmd[p].op = "exec" /\ s = "ACTIVE" /\ AfterGet(p) /\ UNCHANGED <<cache, removed, cmd>>
  <2>1. PICK next \in {"renew", "ssh"} : Goto(p, next)
    BY <1>7 DEF AfterGet
  <2>2. FilesOK' /\ KeyRule(p) /\ \A j \in LeaseIds : HasKey(j)' = HasKey(j)
    <3>1. UNCHANGED <<files, removed>> /\ disturbed' \in BOOLEAN
      BY <1>2, <1>7 DEF files, IInv, FilesOK
    <3> QED BY <1>6, <3>1, FilesStay
  <2>3. Becomes(p, next, cmd[p])
    BY <1>7, <2>1 DEF Goto, Becomes, IInv, Shape
  <2>4. pc'[p] = next /\ cmd'[p] = cmd[p] /\ next \in Steps
    BY <1>1, <2>3, BecomesFacts DEF IInv, Steps
  <2>5. Fits(pc[p], cmd[p])'
    <3>1. id \notin cmd[p].ended
      BY <1>1, <1>3, <1>7 DEF Fits, Terminal
    <3>2. next \in OpSteps[cmd[p].op]
      BY <1>1, <1>7, <2>1, MoreStepsFacts
    <3>3. \A j \in cmd[p].ended : j \in Known' /\ leases'[j].status \in Terminal
      BY <1>1, <1>6 DEF Fits, Forward
    <3>4. cmd[p].meta # None => id \in Known' /\ cmd[p].meta.hardExp = leases'[id].hardExp
      BY <1>1, <1>6 DEF Fits, Forward
    <3>5. id \in Known' /\ cmd[p].cert \in issuances' \cup {None}
      BY <1>1, <1>2, <1>6 DEF Fits
    <3> QED BY <1>1, <1>7, <2>1, <2>4, <3>1, <3>2, <3>3, <3>4, <3>5 DEF Fits, Granted
  <2>6. \A j \in Known : HasKey(j)' = HasKey(j)
    BY <2>2 DEF Known
  <2> QED BY <1>1, <1>6, <2>2, <2>3, <2>4, <2>5, <2>6, StepOK DEF Caring
<1>8. CASE Stop(p) /\ s \in Terminal /\ Cleanup(id)
  <2>1. FilesOK' /\ KeyRule(p) /\ \A j \in LeaseIds : HasKey(j)' = (HasKey(j) /\ j # id)
    BY <1>1, <1>2, <1>6, <1>8, CleanupFiles
  <2>2. \A j \in Known : j = id => ~Usable(j)'
    BY <1>5, <1>6, <1>8 DEF Usable, Live, Terminal
  <2>3. \A j \in Known : HasKey(j)' = (HasKey(j) /\ j # id)
    BY <2>1 DEF Known
  <2>4. \A j \in Known : Usable(j)' /\ HasKey(j) => HasKey(j)'
    BY <2>2, <2>3
  <2> QED BY <1>1, <1>6, <1>8, <2>1, <2>4, EndKeeps DEF Caring
<1>9. CASE Stop(p) /\ UNCHANGED <<cache, removed>>
  <2>1. FilesOK' /\ KeyRule(p) /\ \A j \in LeaseIds : HasKey(j)' = HasKey(j)
    <3>1. UNCHANGED <<files, removed>> /\ disturbed' \in BOOLEAN
      BY <1>2, <1>9 DEF files, IInv, FilesOK
    <3> QED BY <1>6, <3>1, FilesStay
  <2>2. \A j \in Known : HasKey(j)' = HasKey(j)
    BY <2>1 DEF Known
  <2> QED BY <1>1, <1>6, <1>9, <2>1, <2>2, EndKeeps DEF Caring
<1> QED BY <1>7, <1>8, <1>9 DEF Get, s

\* A Get, List or Issue that fails, or the end of a session, only ends the command.
LEMMA EndsKeep == ASSUME IInv, NEW p \in Procs, CallFails(p) \/ EndSSH(p) PROVE IInv'
BY StopKeeps DEF CallFails, EndSSH, Local, Caring

LEMMA CrashKeeps == ASSUME IInv, NEW p \in Procs, Crash(p) PROVE IInv'
<1>1. Stop(p) /\ disturbed' = TRUE /\ UNCHANGED <<server, files, removed>>
  BY DEF Crash
<1>2. Forward /\ ServerOK' /\ Known' = Known
  BY <1>1, ServerStays
<1>3. FilesOK' /\ KeyRule(p)
  BY <1>1, <1>2, FilesStay
<1> QED BY <1>1, <1>2, <1>3, EndKeeps

-----------------------------------------------------------------------------
(* Steps of nobody here                                                    *)

\* The service, or time, moves; no command does.
LEMMA NobodyMoves ==
    ASSUME IInv, UNCHANGED <<cache, pc, cmd, removed, disturbed>>, Forward, ServerOK', FilesOK',
           Known' = Known
    PROVE  IInv'
<1>1. \A id \in LeaseIds : HasKey(id)' = HasKey(id)
  BY DEF HasKey
<1>2. ASSUME NEW q \in Procs PROVE Fits(pc[q], cmd[q])'
  <2>1. pc[q] \in {"initial", "rename"} => ~HasKey(cmd[q].id)' /\ cmd[q].id \notin removed'
    <3>1. Fits(pc[q], cmd[q])
      BY DEF IInv
    <3> QED BY <3>1 DEF Fits, HasKey
  <2> QED BY <2>1, FitsOn
<1>3. Shape' /\ KeysApart'
  BY DEF IInv, Shape, KeysApart
<1>4. Cared'
  <2> SUFFICES ASSUME ~disturbed', NEW id \in Known, Usable(id)', ~HasKey(id)'
               PROVE  \E q \in Procs : pc'[q] \in Caring /\ cmd'[q].id = id
    BY DEF Cared
  <2>1. leases[id] \in Lease
    BY DEF IInv, ServerOK, Known
  <2>2. leases[id].hardExp \in Nat /\ leases[id].status \in Live \cup Terminal
    BY <2>1 DEF Lease, Status
  <2>3. /\ leases'[id].hardExp = leases[id].hardExp /\ now <= now'
        /\ leases[id].status \in Terminal => leases'[id].status \in Terminal
    BY DEF Forward
  <2>4. leases'[id].status \in Live /\ now \in Nat /\ now' \in Nat /\ now' < leases'[id].hardExp
    BY DEF IInv, ServerOK, Usable
  <2>5. Usable(id)
    BY <2>2, <2>3, <2>4 DEF Usable, Live, Terminal
  <2>6. ~HasKey(id)
    BY <1>1 DEF Known
  <2> QED BY <2>5, <2>6 DEF IInv, Cared
<1> QED BY <1>2, <1>3, <1>4 DEF IInv

LEMMA AgeKeeps == ASSUME IInv, NEW k \in Keys, Age(k) PROVE IInv'
<1>1. /\ scratch[k] = "fresh" /\ scratch' = [scratch EXCEPT ![k] = "old"]
      /\ UNCHANGED <<cache, pc, cmd, removed>> /\ UNCHANGED <<server, disturbed>>
  BY DEF Age, Local
<1>2. Forward /\ ServerOK' /\ Known' = Known
  BY <1>1, ServerStays
<1>3. /\ scratch' \in [Keys -> {"absent", "fresh", "old"}] /\ disturbed' \in BOOLEAN
      /\ \A j \in Keys : scratch[j] = "absent" => scratch'[j] = "absent"
  BY <1>1 DEF IInv, FilesOK
<1>4. FilesOK'
  BY <1>1, <1>2, <1>3, ScratchFiles
<1> QED BY <1>1, <1>2, <1>4, NobodyMoves

LEMMA ElsewhereKeeps == ASSUME IInv, Elsewhere PROVE IInv'
<1>1. UNCHANGED <<files, pc, cmd, removed, disturbed>>
  BY DEF Elsewhere
<1>2. Forward /\ ServerOK' /\ Known' = Known
  <2>1. ASSUME NEW id \in LeaseIds, Decide(id) PROVE Forward /\ ServerOK' /\ Known' = Known
    <3>1. PICK t \in Tokens : leases' = [leases EXCEPT ![id].status = "ACTIVE", ![id].approvedBy = t]
      BY <2>1 DEF Decide
    <3> DEFINE l == [leases[id] EXCEPT !.status = "ACTIVE", !.approvedBy = t]
    <3>2. id \in Known /\ leases[id].status = "PENDING_APPROVAL" /\ leases[id] \in Lease
      BY <2>1 DEF Decide, IInv, ServerOK, Known
    <3>3. l \in Lease /\ l.key = leases[id].key /\ l.hardExp = leases[id].hardExp
      BY <3>2 DEF Lease, Status, Live
    <3>4. leases' = [leases EXCEPT ![id] = l]
      BY <3>1 DEF IInv, ServerOK
    <3> HIDE DEF l
    <3>5. UNCHANGED <<issuances, now>> /\ leases[id].status \notin Terminal
      BY <2>1, <3>2 DEF Decide, Terminal
    <3> QED BY <1>1, <3>2, <3>3, <3>4, <3>5, LeaseChange
  <2>2. ASSUME NEW id \in LeaseIds, Terminate(id) PROVE Forward /\ ServerOK' /\ Known' = Known
    <3>1. PICK s \in Terminal : leases' = [leases EXCEPT ![id].status = s]
      BY <2>2 DEF Terminate
    <3> DEFINE l == [leases[id] EXCEPT !.status = s]
    <3>2. id \in Known
      BY <2>2 DEF Terminate
    <3>3. l \in Lease /\ l.status = s /\ l.key = leases[id].key /\ l.hardExp = leases[id].hardExp
      BY <3>1, <3>2, WithStatus DEF Status
    <3>4. leases' = [leases EXCEPT ![id] = l]
      BY <3>1 DEF IInv, ServerOK
    <3> HIDE DEF l
    <3>5. UNCHANGED <<issuances, now>>
      BY <2>2 DEF Terminate
    <3> QED BY <1>1, <3>1, <3>2, <3>3, <3>4, <3>5, LeaseChange
  <2>3. CASE Pass
    <3>1. leases' = leases /\ issuances' = issuances /\ now' = now + 1 /\ now \in Nat
      BY <2>3 DEF Pass, IInv, ServerOK
    <3>2. Known' = Known
      BY <3>1 DEF Known
    <3> QED BY <1>1, <3>1, <3>2 DEF Forward, IInv, ServerOK
  <2> QED BY <2>1, <2>2, <2>3 DEF Elsewhere
<1>3. FilesOK'
  <2>1. disturbed' \in BOOLEAN
    BY <1>1 DEF IInv, FilesOK
  <2> QED BY <1>1, <1>2, <2>1, FilesStay
<1> QED BY <1>1, <1>2, <1>3, NobodyMoves DEF files

LEMMA RenameKeeps == ASSUME IInv, NEW p \in Procs, Rename(p) PROVE IInv'
<1> DEFINE id == cmd[p].id
           k == cmd[p].key
           d == [EmptyDir EXCEPT !.key = k]
           s == IF cmd[p].cert = None THEN "save" ELSE "cert"
<1>1. /\ pc[p] = "rename" /\ cmd[p] \in Cmd /\ Fits("rename", cmd[p]) /\ "rename" \in OpSteps[cmd[p].op]
      /\ id \in Known /\ id \in LeaseIds /\ k \in Keys /\ leases[id].key = k
  BY AtWork DEF Rename, AtLease, Granted
<1>2. /\ cache[id] = NoDir /\ cache' = [cache EXCEPT ![id] = d]
      /\ scratch' = [scratch EXCEPT ![k] = "absent"] /\ removed' = removed
      /\ UNCHANGED <<server, disturbed>>
  BY DEF Rename, Local
<1>3. d \in Dirs /\ d.key = k /\ d.cert = None /\ d.meta = None /\ d # NoDir /\ k # None
  BY <1>1 DEF Dirs, EmptyDir
<1>4. Becomes(p, s, cmd[p]) /\ s \in {"save", "cert"}
  BY DEF Rename, AfterRename, Goto, Becomes, IInv, Shape
<1> HIDE DEF d, s
<1>5. /\ cache' \in [LeaseIds -> Dirs \cup {NoDir}] /\ cache'[id] = d
      /\ \A j \in LeaseIds : j # id => cache'[j] = cache[j]
  BY <1>1, <1>2, <1>3 DEF IInv, FilesOK
<1>6. \A j \in LeaseIds : HasKey(j)' = (HasKey(j) \/ j = id)
  BY <1>2, <1>3, <1>5 DEF HasKey
<1>7. Forward /\ Known' = Known /\ leases' = leases /\ issuances' = issuances /\ disturbed' = disturbed
  BY <1>2, ServerStays
<1>8. FilesOK'
  <2>1. FilesOK
    BY DEF IInv
  <2>2. /\ scratch' \in [Keys -> {"absent", "fresh", "old"}] /\ scratch'[k] = "absent"
        /\ \A j \in Keys : scratch[j] = "absent" => scratch'[j] = "absent"
    BY <1>1, <1>2, <2>1 DEF FilesOK
  <2>3. \A j \in LeaseIds : HasKey(j) => cache[j].key \in Keys
    BY <2>1 DEF FilesOK, HasKey, Dirs
  <2>4. \A j \in LeaseIds : HasKey(j)' => /\ j \in Known' /\ cache'[j].key = leases'[j].key
                                          /\ scratch'[cache'[j].key] = "absent"
    BY <1>1, <1>3, <1>5, <1>6, <1>7, <2>1, <2>2, <2>3 DEF FilesOK
  <2>5. KeyGoneForGood'
    <3>1. \A j \in removed' : ~HasKey(j)'
      BY <1>1, <1>2, <1>6, <2>1 DEF FilesOK, KeyGoneForGood, Known, Fits
    <3> QED BY <3>1 DEF KeyGoneForGood
  <2>6. \A j \in LeaseIds : cache'[j] # NoDir /\ cache'[j].meta # None =>
             j \in Known' /\ cache'[j].meta.hardExp = leases'[j].hardExp
    BY <1>3, <1>5, <1>7, <2>1 DEF FilesOK
  <2>7. \A j \in LeaseIds : cache'[j] # NoDir => cache'[j].cert \in issuances' \cup {None}
    BY <1>3, <1>5, <1>7, <2>1 DEF FilesOK
  <2> QED BY <1>2, <1>5, <1>7, <2>1, <2>2, <2>4, <2>5, <2>6, <2>7 DEF FilesOK
<1>9. KeyRule(p)
  BY <1>1, <1>2, <1>6 DEF KeyRule
<1>10. Fits(s, cmd[p])
  <2>1. s \in OpSteps[cmd[p].op] /\ cmd[p].op = "open"
    BY <1>1, <1>4, MoreStepsFacts DEF Granted
  <2> QED BY <1>1, <1>4, <2>1 DEF Fits, Granted
<1>11. \A j \in Known : HasKey(j)' = (HasKey(j) \/ j = id)
  BY <1>6 DEF Known
<1>12. s \in Steps /\ s \notin {"initial", "rename"}
  BY <1>4 DEF Steps
<1> QED BY <1>1, <1>2, <1>4, <1>8, <1>9, <1>10, <1>11, <1>12, FileStep

\* A certificate or lease.json is written; no key comes or goes.
LEMMA WriteKeeps ==
    ASSUME IInv, NEW p \in Procs, NEW s \in Steps, NEW c \in Cmd \cup {NoCommand}, Becomes(p, s, c),
           NEW file \in {"cert", "meta"}, NEW value,
           pc[p] \in AtLease \ Caring, cache[cmd[p].id] # NoDir,
           cache' = [cache EXCEPT ![cmd[p].id][file] = value], UNCHANGED <<scratch, removed>>, Local,
           file = "cert" => value = cmd[p].cert, file = "meta" => value = cmd[p].meta,
           Fits(s, c), s \notin {"initial", "rename"}, s # "idle" => c.key = cmd[p].key
    PROVE  IInv'
<1> DEFINE id == cmd[p].id
           d == [cache[id] EXCEPT ![file] = value]
<1>1. /\ cmd[p] \in Cmd /\ Fits(pc[p], cmd[p]) /\ pc[p] # "idle"
      /\ id \in Known /\ id \in LeaseIds
  BY AtWork DEF AtLease
<1>2. FilesOK /\ cache[id] \in Dirs
  BY <1>1 DEF IInv, FilesOK
<1>3. cache' = [cache EXCEPT ![id] = d]
  BY <1>2 DEF FilesOK
<1>4. /\ d \in Dirs /\ d # NoDir /\ d.key = cache[id].key
      /\ d.cert \in issuances \cup {None}
      /\ d.meta # None => d.meta.hardExp = leases[id].hardExp
  <2>1. cache[id].cert \in issuances \cup {None} /\ cmd[p].cert \in issuances \cup {None}
    BY <1>1, <1>2 DEF FilesOK, Fits
  <2>2. /\ cache[id].meta # None => cache[id].meta.hardExp = leases[id].hardExp
        /\ cmd[p].meta # None => cmd[p].meta.hardExp = leases[id].hardExp
    BY <1>1, <1>2 DEF FilesOK, Fits
  <2>3. cmd[p].meta \in Metas \cup {None} /\ cmd[p].cert \in Certificate \cup {None}
    BY <1>1 DEF Cmd
  <2>4. CASE file = "cert"
    BY <1>2, <2>1, <2>2, <2>3, <2>4 DEF Dirs
  <2>5. CASE file = "meta"
    BY <1>2, <2>1, <2>2, <2>3, <2>5 DEF Dirs
  <2> QED BY <2>4, <2>5
<1> HIDE DEF d
<1>5. /\ cache' \in [LeaseIds -> Dirs \cup {NoDir}] /\ cache'[id] = d
      /\ \A j \in LeaseIds : j # id => cache'[j] = cache[j]
  BY <1>1, <1>2, <1>3, <1>4 DEF FilesOK
<1>6. \A j \in LeaseIds : HasKey(j)' = HasKey(j)
  BY <1>4, <1>5 DEF HasKey
<1>7. /\ Forward /\ Known' = Known /\ leases' = leases /\ issuances' = issuances /\ disturbed' = disturbed
      /\ UNCHANGED <<server, disturbed>>
  BY ServerStays DEF Local
<1>8. FilesOK'
  <2>1. \A j \in LeaseIds : HasKey(j)' => /\ j \in Known' /\ cache'[j].key = leases'[j].key
                                          /\ scratch'[cache'[j].key] = "absent"
    BY <1>2, <1>4, <1>5, <1>6, <1>7 DEF FilesOK
  <2>2. KeyGoneForGood'
    <3>1. \A j \in removed' : ~HasKey(j)'
      BY <1>2, <1>6 DEF FilesOK, KeyGoneForGood, Known
    <3> QED BY <3>1 DEF KeyGoneForGood
  <2>3. \A j \in LeaseIds : cache'[j] # NoDir /\ cache'[j].meta # None =>
             j \in Known' /\ cache'[j].meta.hardExp = leases'[j].hardExp
    BY <1>1, <1>2, <1>4, <1>5, <1>7 DEF FilesOK
  <2>4. \A j \in LeaseIds : cache'[j] # NoDir => cache'[j].cert \in issuances' \cup {None}
    BY <1>2, <1>4, <1>5, <1>7 DEF FilesOK
  <2> QED BY <1>2, <1>5, <1>7, <2>1, <2>2, <2>3, <2>4 DEF FilesOK
<1>9. KeyRule(p)
  BY <1>6 DEF KeyRule
<1>10. \A j \in Known : HasKey(j)' = HasKey(j)
  BY <1>6 DEF Known
<1> QED BY <1>1, <1>7, <1>8, <1>9, <1>10, FileStep

LEMMA WritesKeep ==
    ASSUME IInv, NEW p \in Procs, WriteCert(p) \/ SaveClient(p) \/ WriteRenewed(p) \/ SaveRenewed(p)
    PROVE  IInv'
<1>1. /\ pc[p] \in {"cert", "save", "recert", "resave"} /\ cmd[p] \in Cmd /\ Fits(pc[p], cmd[p])
      /\ pc[p] \in AtLease \ Caring /\ pc[p] # "idle" /\ pc[p] \in OpSteps[cmd[p].op]
  BY AtWork DEF WriteCert, SaveClient, WriteRenewed, SaveRenewed, AtLease, Caring
<1>2. CASE WriteFails(p, Stop(p))
  BY <1>1, <1>2, StopKeeps DEF WriteFails, Local
<1>3. CASE WriteFails(p, Goto(p, "undo") /\ UNCHANGED cmd) /\ pc[p] \in {"cert", "save"}
  <2>1. "undo" \in OpSteps[cmd[p].op]
    BY <1>1, <1>3, MoreStepsFacts DEF Granted
  <2>2. Fits("undo", cmd[p])
    BY <1>1, <1>3, <2>1 DEF Fits, Granted, AtLease
  <2>3. /\ Goto(p, "undo") /\ UNCHANGED cmd /\ UNCHANGED <<server, files, removed, disturbed>>
    BY <1>3 DEF WriteFails, Local
  <2> QED BY <1>1, <2>2, <2>3, GoOnKeeps DEF Caring, Steps
<1>4. CASE /\ Write(p, "meta", cmd[p].meta, Stop(p))
  <2>1. Becomes(p, "idle", NoCommand) /\ Fits("idle", NoCommand) /\ "idle" \in Steps
    BY <1>4 DEF Write, Stop, Goto, Becomes, Fits, Steps
  <2> QED BY <1>1, <1>4, <2>1, WriteKeeps DEF Write
<1>5. ASSUME NEW file \in {"cert", "meta"}, NEW s \in {"save", "resave", "ssh"},
             Write(p, file, cmd[p][file], Goto(p, s) /\ UNCHANGED cmd),
             <<pc[p], s>> \in {<<"cert", "save">>, <<"recert", "resave">>, <<"resave", "ssh">>}
      PROVE  IInv'
  <2>1. Becomes(p, s, cmd[p])
    BY <1>5 DEF Write, Goto, Becomes, IInv, Shape
  <2>2. s \in OpSteps[cmd[p].op] /\ s \in Steps /\ (s = "save" => cmd[p].op = "open")
                                 /\ (s # "save" => cmd[p].op = "exec")
    BY <1>1, <1>5, MoreStepsFacts DEF Granted, Steps
  <2>3. Fits(s, cmd[p])
    BY <1>1, <1>5, <2>2 DEF Fits, Granted, AtLease
  <2>4. /\ cache[cmd[p].id] # NoDir /\ cache' = [cache EXCEPT ![cmd[p].id][file] = cmd[p][file]]
        /\ UNCHANGED <<scratch, removed>> /\ Local
    BY <1>5 DEF Write
  <2> QED BY <1>1, <2>1, <2>2, <2>3, <2>4, WriteKeeps
<1>6. CASE WriteCert(p)
  BY <1>3, <1>5, <1>6 DEF WriteCert
<1>7. CASE SaveClient(p)
  BY <1>3, <1>4, <1>7 DEF SaveClient
<1>8. CASE WriteRenewed(p)
  BY <1>2, <1>5, <1>8 DEF WriteRenewed
<1>9. CASE SaveRenewed(p)
  BY <1>2, <1>5, <1>9 DEF SaveRenewed
<1> QED BY <1>6, <1>7, <1>8, <1>9

-----------------------------------------------------------------------------
(* The theorems                                                            *)

LEMMA InitGood == ASSUME Init PROVE IInv
<1>1. /\ leases = [id \in LeaseIds |-> NoLease] /\ issuances = {} /\ now = 0
      /\ cache = [id \in LeaseIds |-> NoDir] /\ scratch = [k \in Keys |-> "absent"]
      /\ pc = [p \in Procs |-> "idle"] /\ cmd = [p \in Procs |-> NoCommand]
      /\ removed = {} /\ disturbed = FALSE
  BY DEF Init, AInit
<1>2. Known = {} /\ \A id \in LeaseIds : ~HasKey(id)
  BY <1>1 DEF Known, HasKey
<1>3. Shape
  BY <1>1 DEF Shape, Steps
<1>4. ServerOK
  BY <1>1, <1>2 DEF ServerOK
<1>5. FilesOK
  BY <1>1, <1>2 DEF FilesOK, KeyGoneForGood
<1>6. KeysApart /\ Cared /\ \A p \in Procs : Fits(pc[p], cmd[p])
  BY <1>1, <1>2 DEF KeysApart, Cared, Fits
<1> QED BY <1>3, <1>4, <1>5, <1>6 DEF IInv

LEMMA StepKeeps == ASSUME IInv, [Next]_vars PROVE IInv'
<1>1. CASE UNCHANGED vars
  <2>1. UNCHANGED <<cache, pc, cmd, removed, disturbed>> /\ UNCHANGED <<server, files, removed>>
    BY <1>1 DEF vars, files, server
  <2>2. Forward /\ ServerOK' /\ Known' = Known
    BY <2>1, ServerStays
  <2>3. FilesOK'
    BY <2>1, <2>2, FilesStay DEF IInv, FilesOK
  <2> QED BY <2>1, <2>2, <2>3, NobodyMoves
<1>2. ASSUME NEW p \in Procs, Run(p) PROVE IInv'
  BY <1>2, BeginKeeps DEF Run, Ops, Known
<1>3. ASSUME NEW p \in Procs, Step(p) PROVE IInv'
  BY <1>3, SweepEntryKeeps, SweepScratchKeeps, GenerateLeaseKeyKeeps, ServiceOpensKeeps,
     ServiceIssuesFirstKeeps, OpenFailsKeeps, RenameKeeps, RenameFailsKeeps, WritesKeep, UndoKeeps,
     RemoveKeeps, LoadKeeps, GetKeeps, EndsKeep, RenewKeeps, StartSSHKeeps, ListKeeps, NextKeeps,
     CloseKeeps, AfterCloseKeeps DEF Step
<1> QED BY <1>1, <1>2, <1>3, SignalledKeeps, CrashKeeps, AgeKeeps, ElsewhereKeeps DEF Next

LEMMA Invariance == Spec => []IInv
<1>1. Init => IInv
  BY InitGood
<1>2. IInv /\ [Next]_vars => IInv'
  BY StepKeeps
<1> QED BY <1>1, <1>2, PTL DEF Spec

\* A directory and a scratch directory never hold one key, and no two directories do.
LEMMA OneKeyOnePlace ==
    ASSUME IInv
    PROVE  TypeOK
<1>1. FilesOK /\ ServerOK
  BY DEF IInv
<1>2. ASSUME NEW id \in LeaseIds, cache[id] # NoDir
      PROVE  /\ cache[id].key \in Keys \cup {None}
             /\ cache[id].cert \in issuances \cup {None}
             /\ cache[id].meta # None => cache[id].meta.status \in Live /\ cache[id].meta.hardExp \in Nat
  <2>1. cache[id] \in Dirs
    BY <1>1, <1>2 DEF FilesOK
  <2>2. cache[id].meta \in Metas \cup {None}
    BY <2>1 DEF Dirs
  <2> QED BY <1>1, <1>2, <2>1, <2>2 DEF FilesOK, Dirs, Metas
<1>3. ASSUME NEW k \in Keys
      PROVE  Cardinality({id \in LeaseIds : HasKey(id) /\ cache[id].key = k})
                 + (IF scratch[k] = "absent" THEN 0 ELSE 1) <= 1
  <2> DEFINE S == {id \in LeaseIds : HasKey(id) /\ cache[id].key = k}
  <2>1. CASE S = {}
    <3>1. Cardinality(S) = 0
      BY <2>1, FS_EmptySet
    <3> HIDE DEF S
    <3>2. Cardinality(S) + (IF scratch[k] = "absent" THEN 0 ELSE 1) <= 1
      BY <3>1
    <3> QED BY <3>2 DEF S
  <2>2. ASSUME NEW a \in S PROVE Cardinality(S) + (IF scratch[k] = "absent" THEN 0 ELSE 1) <= 1
    <3>1. \A b \in S : b = a
      BY <1>1, <2>2 DEF FilesOK, ServerOK
    <3>2. S = {a}
      BY <3>1, <2>2
    <3>3. Cardinality(S) = 1
      BY <3>2, FS_Singleton
    <3>4. scratch[k] = "absent"
      BY <1>1, <2>2 DEF FilesOK
    <3> HIDE DEF S
    <3> QED BY <3>3, <3>4
  <2> QED BY <2>1, <2>2
<1>4. scratch \in [Keys -> {"absent", "fresh", "old"}] /\ removed \subseteq LeaseIds /\ disturbed \in BOOLEAN
  BY <1>1 DEF FilesOK, Known
<1> QED BY <1>2, <1>3, <1>4 DEF TypeOK

\* The types, and a private key in one directory at most.
THEOREM TypeCorrect == Spec => []TypeOK
BY Invariance, OneKeyOnePlace, PTL

\* No command brings back a private key that another one removed.
THEOREM KeyGoneForGoodHolds == Spec => []KeyGoneForGood
<1>1. IInv => KeyGoneForGood
  BY DEF IInv, FilesOK
<1> QED BY <1>1, Invariance, PTL

\* A lease that can be used has its key here when all commands are over, unless
\* a call was lost, a first certificate refused or a command died.
THEOREM NoLeaseWithoutKeyHolds == Spec => []NoLeaseWithoutKey
<1>1. IInv => NoLeaseWithoutKey
  BY DEF IInv, Cared, NoLeaseWithoutKey, Usable, Caring
<1> QED BY <1>1, Invariance, PTL

\* No session starts under a lease that had ended when its command began.
THEOREM NoSessionAfterEndHolds == Spec => NoSessionAfterEnd
<1>1. IInv /\ [Next]_vars =>
        \A p \in Procs : pc[p] = "ssh" /\ pc'[p] = "running" => cmd[p].id \notin cmd[p].ended
  BY DEF IInv, Fits
<1>2. IInv /\ [Next]_vars =>
        [\A p \in Procs : pc[p] = "ssh" /\ pc'[p] = "running" => cmd[p].id \notin cmd[p].ended]_vars
  BY <1>1
<1> QED BY <1>2, Invariance, PTL DEF Spec, NoSessionAfterEnd
=============================================================================
