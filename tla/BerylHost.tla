----------------------------- MODULE BerylHost ------------------------------
(***************************************************************************)
(* The host of the VPN: the way to the root helper (CommandGate) and what  *)
(* the helper does once it has its lock (WGEnroll).  The two share no      *)
(* state: the gate ends with a helper that runs on a manifest nobody       *)
(* replaces under it, and the enrolment begins with one.  So either is     *)
(* watched while the other one rests.                                      *)
(***************************************************************************)
EXTENDS WGEnroll

CONSTANTS Bare, Unsafe, MaxWords, MaxWord, MaxLine, \* of CommandLine
          Sessions, Manifests, Rules, Lines, MaxEdits

VARIABLES issuer, certs, host, sess, edits
gate == <<issuer, certs, host, sess, edits>>

Gate == INSTANCE CommandGate

\* Rules have words (validateRules), and the gate takes what a client quoted for the same
\* words, or for none when it is too long.
RoundTrip(c) == Gate!Parse(Gate!LineOf(c)) \in {c, Gate!Denied}
ASSUME RulesAssumption == /\ None \notin Rules
                          /\ \A r \in Rules : \A c \in DOMAIN r : RoundTrip(c) /\ c # Gate!Denied

GateRests == issuer = None /\ certs = {} /\ host = None /\ sess = None /\ edits = 0
Idle == [p \in Peers |-> Absent]
HelperRests == /\ config = Idle /\ configMay = {Idle} /\ live = Idle
               /\ pending = None /\ pendingMay = {None}
               /\ pc = "rests" /\ undo = "abort" /\ j = None /\ seen = None /\ unseen = {}
               /\ answer = "none" /\ confirmed = FALSE /\ calm = FALSE

InitEither == (Init /\ GateRests) \/ (Gate!Init /\ HelperRests)
NextEither == \/ pc # "rests" /\ Next /\ UNCHANGED gate
              \/ pc = "rests" /\ Gate!Next /\ UNCHANGED vars
SpecEither == InitEither /\ [][NextEither]_<<vars, gate>> /\ Fairness

\* Past the gate, at sudo and in the helper, nothing runs but what the certificate of the
\* session names, on the manifest that it names (CommandGate).
SignedCommandsOnly == pc = "rests" => Gate!SignedCommandsOnly

\* Nothing runs as root on the word of files that were replaced before the session began
\* (CommandGate).
ReplacedIsDisarmed == pc = "rests" => Gate!ReplacedIsDisarmed
=============================================================================
