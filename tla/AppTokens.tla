----------------------------- MODULE AppTokens ------------------------------
(***************************************************************************)
(* The applications' tokens in the state store (internal/store/store.go).  *)
(* Every process has a copy of the list, of an age of its own; a mutex     *)
(* orders the operations of one process and nothing those of several (see  *)
(* KeyRotation for the file).  A token is shown once and found by its      *)
(* hash, which is modelled by the token.  Scopes and times are left out:   *)
(* a request may ask for a scope that the token lacks.                     *)
(***************************************************************************)
EXTENDS Naturals, Sequences

CONSTANTS Procs,    \* processes that open the store
          Raws,     \* tokens: random, never drawn twice
          Names,    \* names for them, which nothing keeps apart
          NoState,  \* copy of a process that is not running
          NoCheck   \* a process that validates nothing

VARIABLES file,   \* the list in the file
          copy,   \* each process's copy
          check,  \* the validation that a process has decided and not answered yet
          live,   \* history: tokens that were handed out
          dead,   \* history: tokens whose revocation was reported
          stale   \* history: processes whose copy is older than what was reported of a token

vars == <<file, copy, check, live, dead, stale>>

Token == [name : Names, raw : Raws, revoked : BOOLEAN]

\* A validation: whether the file could be read, whether the token has the scope, the
\* answer, and (history) what had been reported of the token.
Check == [read : BOOLEAN, scope : BOOLEAN, ok : BOOLEAN, was : {"live", "dead", "unknown"}]

TypeOK == /\ file \in Seq(Token)
          /\ copy \in [Procs -> Seq(Token) \cup {NoState}]
          /\ check \in [Procs -> Check \cup {NoCheck}]
          /\ live \subseteq Raws /\ dead \subseteq Raws
          /\ stale \subseteq Procs \X Raws

Running(p) == copy[p] # NoState
Free(p) == Running(p) /\ check[p] = NoCheck

\* generateTokenAndHash: a token in no copy and not in the file.
Drawn(s) == {s[i].raw : i \in DOMAIN s}
Fresh == Raws \ (Drawn(file) \cup UNION {Drawn(copy[p]) : p \in {q \in Procs : Running(q)}})

-----------------------------------------------------------------------------
(* The file                                                                *)

Put(p, s) == copy' = [copy EXCEPT ![p] = s]
Forget(p) == stale' = {x \in stale : x[1] # p}

\* The file is replaced.  What was reported of tokens later than the copy was made is
\* lost: the last writer wins (README.md:313).  Of the tokens in "out" it is reported that
\* they are handed out, of those in "off" that they are revoked, which puts the copies
\* of the other processes out of date.
Written(p, s, out, off) ==
    LET lost == {r \in Raws : <<p, r>> \in stale}
    IN /\ file' = s /\ Put(p, s)
       /\ live' = (live \ (lost \cup off)) \cup out
       /\ dead' = (dead \ lost) \cup off
       /\ stale' = {x \in stale : x[2] \notin lost}
                   \cup {q \in Procs \ {p} : Running(q)} \X (out \cup off)

\* The save fails and the copy is read back.
ReadBack(p) == Put(p, file) /\ Forget(p) /\ UNCHANGED <<file, live, dead>>

\* It fails and cannot be read back: what the copy holds may yet be written.
Kept(p, s, off) == Put(p, s) /\ live' = live \ off /\ UNCHANGED <<file, dead, stale>>

Save(p, s, out, off) == Written(p, s, out, off) \/ ReadBack(p) \/ Kept(p, s, off)

Open(p) == /\ ~Running(p)
           /\ Put(p, file)
           /\ UNCHANGED <<file, check, live, dead, stale>>

\* A process ends or dies; an interrupted save leaves the file as it was.
Exit(p) == /\ Running(p)
           /\ Put(p, NoState) /\ Forget(p)
           /\ check' = [check EXCEPT ![p] = NoCheck]
           /\ UNCHANGED <<file, live, dead>>

\* Any other change of the state (keys, usage, grants, receipts) saves all of it.
SaveOther(p) == Free(p) /\ Save(p, copy[p], {}, {}) /\ UNCHANGED check

-----------------------------------------------------------------------------
(* Operations                                                              *)

CreateToken(p) ==
    /\ Free(p)
    /\ \E n \in Names, r \in Fresh :
         Save(p, Append(copy[p], [name |-> n, raw |-> r, revoked |-> FALSE]), {r}, {})
    /\ UNCHANGED check

Matches(t, what) == what \in {t.name, t.raw}
First(s, what, i) == Matches(s[i], what) /\ \A j \in 1..(i - 1) : ~Matches(s[j], what)
Revoked(s, i) == [s EXCEPT ![i].revoked = TRUE]

\* The first record that matches is revoked, whether it was before or not.  Where several
\* tokens have the name, the report is of that one.
RevokeToken(p) ==
    /\ Free(p)
    /\ \E what \in Names \cup Raws, i \in DOMAIN copy[p] :
         /\ First(copy[p], what, i)
         /\ Save(p, Revoked(copy[p], i), {}, {copy[p][i].raw})
    /\ UNCHANGED check

\* Fault: the copy is not brought up to date.
Latest_NoReload(p, read) == copy[p]

\* The file, which other processes may have replaced, or the copy if it cannot be read.
Latest(p, read) == IF read THEN file ELSE copy[p]

Valid(s, r) == \E i \in DOMAIN s : s[i].raw = r /\ ~s[i].revoked
Told(r) == IF r \in dead THEN "dead" ELSE IF r \in live THEN "live" ELSE "unknown"

\* The list is read again and the token looked up.
ValidateTokenRecord(p) ==
    /\ Free(p)
    /\ \E r \in Raws, read \in BOOLEAN, scope \in BOOLEAN :
         /\ Put(p, Latest(p, read))
         /\ IF read THEN Forget(p) ELSE UNCHANGED stale
         /\ check' = [check EXCEPT ![p] =
                        [read |-> read, scope |-> scope, was |-> Told(r),
                         ok |-> scope /\ Valid(Latest(p, read), r)]]
    /\ UNCHANGED <<file, live, dead>>

\* The time of use of a valid token is saved, whatever comes of it, and the answer given.
Answer(p) ==
    /\ Running(p) /\ check[p] # NoCheck
    /\ IF check[p].ok THEN Save(p, copy[p], {}, {}) ELSE UNCHANGED <<file, copy, live, dead, stale>>
    /\ check' = [check EXCEPT ![p] = NoCheck]

Init == /\ file = <<>>
        /\ copy = [p \in Procs |-> NoState]
        /\ check = [p \in Procs |-> NoCheck]
        /\ live = {} /\ dead = {} /\ stale = {}

Next == \E p \in Procs :
          \/ Open(p) \/ Exit(p) \/ SaveOther(p)
          \/ CreateToken(p) \/ RevokeToken(p) \/ ValidateTokenRecord(p) \/ Answer(p)

Spec == Init /\ [][Next]_vars

-----------------------------------------------------------------------------
(* Properties                                                              *)

\* "Token revoked." and a token handed out mean what they say, in every process that can
\* read the file: a revoked token is refused and one in use is accepted for its scopes,
\* however commands, failed saves and restarts of any process interleave, until a process
\* with an older copy writes it back (README.md:313, last-writer-wins).
AnswersAsTold ==
    \A p \in Procs : check[p] # NoCheck /\ check[p].read =>
        /\ check[p].was = "dead" => ~check[p].ok
        /\ check[p].was = "live" /\ check[p].scope => check[p].ok
=============================================================================
