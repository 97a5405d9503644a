---------------------------- MODULE CommandGate ----------------------------
(***************************************************************************)
(* From a certificate to the root helper.  The signer puts a digest of the *)
(* rules into a certificate (internal/sshaccess/signer.go); sshd runs the  *)
(* gate with the digest that its own configuration names; the gate maps a  *)
(* literal command to a fixed one (internal/sshcommand/gate.go), which is  *)
(* `sudo' of the helper with the digest of a manifest; the helper runs     *)
(* only on that manifest (internal/dnsadmin/wg_beryl.go).                  *)
(*                                                                         *)
(* Five files on the host and the issuer's registration carry a digest.    *)
(* The administrator replaces each whenever he likes, in any order, while  *)
(* commands are under way; nothing locks them.  A digest is modelled by    *)
(* what it is a digest of.                                                 *)
(***************************************************************************)
EXTENDS CommandLine

CONSTANTS Sessions,   \* connections to the account
          Manifests,  \* contents of the helper's manifest
          Rules,      \* the rules of a role: functions from commands to what they run, a
                      \* record of an operation of the helper and a manifest
          Lines,      \* lines that a client may send that quotes nothing
          MaxEdits,   \* how often the administrator replaces something
          None        \* nothing (valid) is there

\* What a client may ask for by its words.
Commands == UNION {DOMAIN r : r \in Rules}

VARIABLES issuer,  \* the rules registered with the issuer
          certs,   \* the certificates that were delivered
          host,    \* the files of the host
          sess,    \* the sessions
          edits    \* replacements so far

vars == <<issuer, certs, host, sess, edits>>

\* What sshd's principals file, sshd's forced command and the gate's policy say of the
\* account, the manifest that the sudo rule names and the manifest itself.
Host == [principals : Rules, forced : Rules, policy : Rules \cup {None},
         sudoers : Manifests \cup {None}, manifest : Manifests \cup {None}]

\* A certificate: its critical option, its extensions, and whether key, serial, identity,
\* principal, validity and authority are those asked for.
Offered == [force : Rules \cup {None}, extensions : SUBSET {"pty"}, asAsked : BOOLEAN]

\* What clients send: a command, quoted; or a line of their own.
Requests == {[asked |-> c, line |-> LineOf(c)] : c \in Commands}
            \cup {[asked |-> None, line |-> l] : l \in Lines}
Nothing == [asked |-> None, line |-> <<>>]

\* A session: its certificate, whether the principals file lagged behind sshd's
\* configuration when it began, the rules that the gate is to follow, the request, the
\* fixed command it was mapped to, the manifest in the helper's memory, and (history) what
\* the files have been since it began.
Idle == [pc |-> "idle", cert |-> None, lag |-> FALSE, forced |-> None, request |-> Nothing,
         run |-> None, held |-> None, since |-> None]

Now == [f \in DOMAIN host |-> {host[f]}]
Seen(since, h) == [f \in DOMAIN h |-> since[f] \cup {h[f]}]

At(s, pc) == sess[s].pc = pc
Go(s, next) == sess' = [sess EXCEPT ![s] = next]
End(s) == Go(s, Idle)
OnHost == UNCHANGED <<issuer, certs, host, edits>>

-----------------------------------------------------------------------------
(* The issuer                                                              *)

\* verifyCertificate: what the native tool made is what was asked for, with the gate as the
\* one critical option and no extensions, which a role with a gate may not have.
Verified(c) == c.force = issuer /\ c.extensions = {} /\ c.asAsked

Sign == /\ \E c \in Offered : Verified(c) /\ certs' = certs \cup {c.force}
        /\ UNCHANGED <<issuer, host, sess, edits>>

-----------------------------------------------------------------------------
(* A session                                                               *)

\* sshd takes a certificate whose forced command, if it has one, is that of the principals
\* file, and runs the one of its configuration.
Connect(s) ==
    /\ At(s, "idle")
    /\ \E c \in certs \cap {host.principals, None}, q \in Requests :
          Go(s, [pc |-> "gate", cert |-> c, lag |-> host.principals # host.forced,
                 forced |-> host.forced, request |-> q, run |-> None, held |-> None,
                 since |-> Now])
    /\ OnHost

\* Fault: whatever rules the policy has are followed.
Permits_AnyRules(x) == host.policy # None /\ Parse(x.request.line) \in DOMAIN host.policy

\* The policy on disk is valid for this role and account, its rules are those that the
\* forced command names, and the line is literally one of their commands.
Permits(x) == host.policy = x.forced /\ Parse(x.request.line) \in DOMAIN host.policy

Gate(s) ==
    /\ At(s, "gate")
    /\ IF Permits(sess[s])
       THEN Go(s, [sess[s] EXCEPT !.pc = "sudo", !.run = host.policy[Parse(sess[s].request.line)]])
       ELSE End(s)
    /\ OnHost

\* Fault: the sudo rule names no digest.
Allowed_AnyDigest(x) == host.sudoers # None

\* The sudo rule allows each operation with one digest.
Allowed(x) == host.sudoers = x.run.manifest

Sudo(s) ==
    /\ At(s, "sudo")
    /\ IF Allowed(sess[s]) THEN Go(s, [sess[s] EXCEPT !.pc = "helper"]) ELSE End(s)
    /\ OnHost

\* The helper reads its manifest, which must be the one it was called with, and keeps it;
\* the lock comes after.
ReadManifest(s) ==
    /\ At(s, "helper")
    /\ IF host.manifest = sess[s].run.manifest
       THEN Go(s, [sess[s] EXCEPT !.pc = "lock", !.held = host.manifest])
       ELSE End(s)
    /\ OnHost

\* One helper works; another one does not wait.
Lock(s) ==
    /\ At(s, "lock")
    /\ IF \E t \in Sessions : At(t, "engine") THEN End(s) ELSE Go(s, [sess[s] EXCEPT !.pc = "engine"])
    /\ OnHost

\* It is done, a file was not to be trusted, or somebody killed it.
Leave(s) == ~At(s, "idle") /\ End(s) /\ OnHost

-----------------------------------------------------------------------------
(* The administrator                                                       *)

\* The session sees what is put in place while it lasts.
Replace(h) == /\ host' = h
              /\ sess' = [s \in Sessions |-> IF At(s, "idle") THEN sess[s]
                                              ELSE [sess[s] EXCEPT !.since = Seen(@, h)]]

Edit ==
    /\ edits < MaxEdits
    /\ edits' = edits + 1
    /\ \/ \E r \in Rules : issuer' = r /\ UNCHANGED <<host, sess>>
       \/ /\ \/ \E r \in Rules : \/ Replace([host EXCEPT !.principals = r])
                                \/ Replace([host EXCEPT !.forced = r])
             \/ \E r \in Rules \cup {None} : Replace([host EXCEPT !.policy = r])
             \/ \E m \in Manifests \cup {None} : \/ Replace([host EXCEPT !.sudoers = m])
                                               \/ Replace([host EXCEPT !.manifest = m])
          /\ UNCHANGED issuer
    /\ UNCHANGED certs

\* The bundle of a registration is installed.
Init == /\ issuer \in Rules
        /\ certs = {}
        /\ \E m \in Manifests :
             host = [principals |-> issuer, forced |-> issuer, policy |-> issuer, sudoers |-> m, manifest |-> m]
        /\ sess = [s \in Sessions |-> Idle]
        /\ edits = 0

Next == \/ Sign \/ Edit
        \/ \E s \in Sessions : Connect(s) \/ Gate(s) \/ Sudo(s) \/ ReadManifest(s) \/ Lock(s) \/ Leave(s)

Spec == Init /\ [][Next]_vars

-----------------------------------------------------------------------------
(* Properties                                                              *)

\* Past the gate, at sudo, in the helper: what runs is a fixed command of the rules that
\* the certificate names, the very one that they map the client's words to, on the
\* manifest that it names, whatever is replaced meanwhile ("old argv/cert policy cannot
\* silently operate new content", docs/ssh-dns-admin-design.md:36).  The exception: sshd's
\* configuration was replaced before the principals file, and a certificate of the old
\* rules runs the gate with the new ones.
SignedCommandsOnly ==
    \A s \in Sessions : sess[s].pc \in {"sudo", "helper", "lock", "engine"} =>
        LET x == sess[s] IN
        /\ x.cert = x.forced \/ x.lag
        /\ \E c \in DOMAIN x.forced : x.run = x.forced[c] /\ x.request.asked \in {c, None}
        /\ x.pc \in {"lock", "engine"} => x.held = x.run.manifest

\* Nothing is done as root on the word of files that were replaced before the session
\* began: policy, sudo rule and manifest each named this manifest or these rules at some
\* moment since.  So replacing any one of them disarms every certificate of the old rules
\* ("Drift fails closed", docs/ssh-command-authority.md:28).
ReplacedIsDisarmed ==
    \A s \in Sessions : sess[s].pc \in {"lock", "engine"} =>
        LET x == sess[s] IN
        /\ x.forced \in x.since.policy
        /\ x.run.manifest \in x.since.sudoers \cap x.since.manifest
=============================================================================
