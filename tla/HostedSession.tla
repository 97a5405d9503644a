--------------------------- MODULE HostedSession ---------------------------
(***************************************************************************)
(* A hosted attestation (website/api, internal/hosted/client.go): the      *)
(* command starts a session and polls it; a browser posts the code that    *)
(* the terminal shows, signs in at the identity provider, and comes back   *)
(* to the callback. Every endpoint reads the session's row, computes, and  *)
(* writes the whole row back; nothing compares before it writes.           *)
(***************************************************************************)
EXTENDS Naturals

CONSTANTS Requests,     \* requests to the website that may overlap
          Subjects,     \* who can sign in
          Verifiers,    \* PKCE verifiers that can be drawn
          MaxAttempts,  \* 5
          SessionTTL,   \* 10 minutes
          Timeout,      \* 2 minutes: how long the command polls
          Skew,         \* 2 minutes: what the verification tolerates
          RequestedTTL, \* what the command asks for
          MaxTime,      \* bound of the instance
          None

VARIABLES row,         \* the session's row, or None
          deadline,    \* its expires_at
          web,         \* Requests -> a request between its reads and writes, or None
          redirects,   \* verifiers whose challenge a browser took to the provider
          codes,       \* the identity provider: codes it will still exchange
          cli,         \* "idle", "starting", "polling", or how the command ended
          started,     \* the time the command took before it began
          got,         \* the attestation it stored, or None
          now,
          given,       \* history: verifiers that answered the right code
          signedIn,    \* history: who signed in behind which challenge
          guesses,     \* history: codes that were compared (no further than the limit)
          page,        \* history: a browser was told that the session is approved
          overlapped   \* history: two requests were between read and write

table == <<row, deadline>>
provider == <<redirects, codes>>
command == <<cli, started, got>>
history == <<given, signedIn, guesses, page, overlapped>>
vars == <<table, web, provider, command, now, history>>

Status == {"pending", "approved", "denied", "expired"}
Codes == [challenge : Verifiers, subject : Subjects]
Attestation == [subject : Subjects, issued : Nat, expires : Nat]
Row == [status : Status, attempts : 0..MaxAttempts + 1, verified : BOOLEAN,
        verifier : Verifiers \cup {None}, att : Attestation \cup {None}]
Request == [kind : {"attest", "callback", "approve", "expire"}, read : Row,
            code : Codes \cup {None}, mine : BOOLEAN]

ASSUME HostedAssumption ==
    /\ {MaxAttempts, SessionTTL, Timeout, Skew, RequestedTTL, MaxTime} \subseteq Nat
    /\ RequestedTTL >= 1
    /\ Timeout <= Skew
    /\ None \notin Verifiers /\ None \notin Codes /\ None \notin Attestation
    /\ None \notin Row /\ None \notin Request

\* signAttestation: the life it signs starts now.
Sign(subject) == [subject |-> subject, issued |-> now, expires |-> now + RequestedTTL]

-----------------------------------------------------------------------------
(* The endpoints *)

\* updateSession writes the whole row, whatever it holds by now.
UpdateSession(h, s) == /\ row' = s /\ web' = [web EXCEPT ![h] = None]
                       /\ UNCHANGED deadline

GetSession(h, kind, read, code, mine) ==
    /\ row # None /\ web[h] = None
    /\ web' = [web EXCEPT ![h] = [kind |-> kind, read |-> read, code |-> code, mine |-> mine]]
    /\ overlapped' = (overlapped \/ \E other \in Requests : web[other] # None)
    /\ UNCHANGED <<table, provider, command, now, given, signedIn, guesses, page>>
At(h, kind) == web[h] # None /\ web[h].kind = kind

\* POST /ck/attest: the row is read before the body.
ReadForAttest(h) == now < deadline /\ GetSession(h, "attest", row, None, FALSE)

\* Counting on beyond the limit makes no difference.
TooMany(h) == web[h].read.attempts >= MaxAttempts
Deny(h) ==
    /\ At(h, "attest") /\ TooMany(h)
    /\ UpdateSession(h, [web[h].read EXCEPT !.status = "denied", !.attempts = MaxAttempts + 1])
    /\ UNCHANGED <<provider, command, now, history>>

Compare == /\ guesses' = IF guesses > MaxAttempts THEN guesses ELSE guesses + 1
           /\ UNCHANGED <<codes, command, now, signedIn, page, overlapped>>
Draw == Verifiers \ (given \cup redirects)
Verified(h, v) == [web[h].read EXCEPT !.attempts = @ + 1, !.verified = TRUE, !.verifier = v]

WrongCodeUncounted(h) ==
    /\ At(h, "attest") /\ ~TooMany(h) /\ Compare
    /\ UpdateSession(h, web[h].read)
    /\ UNCHANGED <<redirects, given>>
WrongCodeRedirected(h) ==
    /\ At(h, "attest") /\ ~TooMany(h) /\ Compare
    /\ \E v \in Draw : UpdateSession(h, Verified(h, v)) /\ redirects' = redirects \cup {v}
    /\ UNCHANGED given
WrongCode(h) ==
    /\ At(h, "attest") /\ ~TooMany(h) /\ Compare
    /\ UpdateSession(h, [web[h].read EXCEPT !.attempts = @ + 1])
    /\ UNCHANGED <<redirects, given>>

\* A new verifier goes into the row, and its challenge with the browser to the
\* provider, unless the provider's address cannot be found.
RightCode(h) ==
    /\ At(h, "attest") /\ ~TooMany(h) /\ Compare
    /\ \E v \in Draw :
          /\ UpdateSession(h, Verified(h, v))
          /\ given' = given \cup {v}
          /\ redirects' \in {redirects, redirects \cup {v}}

\* Somebody signs in behind a redirect, once: the provider makes a code.
SignIn(v, s) ==
    LET c == [challenge |-> v, subject |-> s]
    IN /\ v \in redirects /\ c \notin signedIn
       /\ codes' = codes \cup {c} /\ signedIn' = signedIn \cup {c}
       /\ UNCHANGED <<table, web, redirects, command, now, given, guesses, page, overlapped>>

\* GET /ck/callback with a code; only attest signs the state it needs.
ReadForCallback(h) ==
    /\ row # None => row.verified /\ row.verifier # None
    /\ now < deadline
    /\ \E c \in codes : GetSession(h, "callback", row, c, FALSE)

\* exchangeCode with the verifier read before; the provider takes a code once.
ExchangeCode(h) ==
    LET c == web[h].code
        s == [web[h].read EXCEPT !.status = "approved", !.att = Sign(c.subject)]
    IN /\ At(h, "callback") /\ c \in codes
       /\ codes' = codes \ {c}
       /\ web' = [web EXCEPT ![h] = IF c.challenge = @.read.verifier
                                    THEN [@ EXCEPT !.kind = "approve", !.read = s] ELSE None]
       /\ UNCHANGED <<table, redirects, command, now, history>>

Approve(h) ==
    /\ At(h, "approve")
    /\ UpdateSession(h, web[h].read)
    /\ page' = TRUE
    /\ UNCHANGED <<provider, command, now, given, signedIn, guesses, overlapped>>

-----------------------------------------------------------------------------
(* Polls, and the command *)

\* Only the command knows the code, and it waits for each answer. It stops in
\* time: the context of its requests ends with it.
MyPoll == \E h \in Requests : At(h, "expire") /\ web[h].mine
AskedForEver == cli = "polling" /\ ~MyPoll
Asked == cli = "polling" /\ ~MyPoll /\ now <= started + Timeout

\* A poll of a pending session whose time is over writes that down first.
ReadAnyAsExpired(h, mine) ==
    /\ mine => Asked
    /\ deadline <= now
    /\ GetSession(h, "expire", [row EXCEPT !.status = "expired"], None, mine)
ReadAsExpired(h, mine) ==
    /\ mine => Asked
    /\ row # None => row.status = "pending"
    /\ deadline <= now
    /\ GetSession(h, "expire", [row EXCEPT !.status = "expired"], None, mine)

\* What the command does with an answer.
VerifyIdentityAttestation(a) == a.issued <= started + Skew /\ started < a.expires + Skew
Receive(s) ==
    IF s.status = "pending" THEN UNCHANGED command
    ELSE LET accepted == s.status = "approved" /\ VerifyIdentityAttestation(s.att)
         IN /\ cli' = IF accepted THEN "granted" ELSE IF s.status = "approved" THEN "refused" ELSE "failed"
            /\ got' = IF accepted THEN s.att ELSE got
            /\ UNCHANGED started

SaveExpired(h) ==
    /\ At(h, "expire")
    /\ UpdateSession(h, web[h].read)
    /\ IF web[h].mine /\ cli = "polling" THEN Receive(web[h].read) ELSE UNCHANGED command
    /\ UNCHANGED <<provider, now, history>>

Poll == /\ Asked /\ row # None
        /\ row.status = "pending" => now < deadline
        /\ Receive(row)
        /\ UNCHANGED <<table, web, provider, now, history>>

\* The command looks at the clock, starts a session, and polls. It ends at its
\* timeout, and with the first request that is not answered.
Begin == /\ cli = "idle"
         /\ cli' = "starting" /\ started' = now
         /\ UNCHANGED <<table, web, provider, got, now, history>>
StartAttestationSession ==
    /\ cli = "starting" /\ row = None
    /\ row' = [status |-> "pending", attempts |-> 0, verified |-> FALSE, verifier |-> None, att |-> None]
    /\ deadline' = now + SessionTTL
    /\ cli' \in {"polling", "failed"}
    /\ UNCHANGED <<web, provider, started, got, now, history>>
GiveUp == /\ cli \in {"starting", "polling"}
          /\ cli' = "failed"
          /\ UNCHANGED <<table, web, provider, started, got, now, history>>

\* A request dies, or the database refuses its write, or it is refused.
Abort(h) == /\ web[h] # None
            /\ web' = [web EXCEPT ![h] = None]
            /\ cli' = IF web[h].mine /\ cli = "polling" THEN "failed" ELSE cli
            /\ UNCHANGED <<table, provider, started, got, now, history>>

Tick == /\ now < MaxTime /\ now' = now + 1
        /\ UNCHANGED <<table, web, provider, command, history>>

Init == /\ row = None /\ deadline = 0
        /\ web = [h \in Requests |-> None]
        /\ redirects = {} /\ codes = {}
        /\ cli = "idle" /\ started = 0 /\ got = None
        /\ now = 0
        /\ given = {} /\ signedIn = {} /\ guesses = 0
        /\ page = FALSE /\ overlapped = FALSE

Serve(h) ==
    \/ ReadForAttest(h) \/ Deny(h) \/ WrongCode(h) \/ RightCode(h)
    \/ ReadForCallback(h) \/ ExchangeCode(h) \/ Approve(h)
    \/ SaveExpired(h) \/ Abort(h)
    \/ \E mine \in BOOLEAN : ReadAsExpired(h, mine)

Next == \/ Begin \/ StartAttestationSession \/ Poll \/ GiveUp \/ Tick
        \/ \E h \in Requests : Serve(h)
        \/ \E v \in Verifiers, s \in Subjects : SignIn(v, s)

Spec == Init /\ [][Next]_vars

-----------------------------------------------------------------------------
(* Properties *)

\* A row is one that some sequence of requests could have written: a verifier
\* exactly if the code was verified, an attestation if it is approved. Rows are
\* copied and written back by overlapping requests, and every copy is such a row.
GoodRow(s) == /\ s \in Row
              /\ s.verified <=> s.verifier # None
              /\ s.status = "approved" => s.att # None /\ s.verified
TypeOK ==
    /\ row # None => GoodRow(row)
    /\ deadline \in Nat /\ now \in Nat /\ started \in Nat /\ guesses \in Nat
    /\ web \in [Requests -> Request \cup {None}]
    /\ \A h \in Requests : web[h] # None => GoodRow(web[h].read)
    /\ redirects \subseteq Verifiers /\ given \subseteq Verifiers
    /\ codes \subseteq Codes /\ signedIn \subseteq Codes
    /\ cli \in {"idle", "starting", "polling", "granted", "refused", "failed"}
    /\ got \in Attestation \cup {None}
    /\ page \in BOOLEAN /\ overlapped \in BOOLEAN

\* Whichever requests overlap, an attestation names somebody who signed in at
\* the provider behind a redirect that answered the right code.
Earned(att) == \E v \in given : [challenge |-> v, subject |-> att.subject] \in signedIn
AttestationsEarned == /\ row # None /\ row.att # None => Earned(row.att)
                      /\ got # None => Earned(got)

\* Requests that do not overlap compare a code five times at most.
CodeTriedFiveTimes == ~overlapped => guesses <= MaxAttempts

\* "The grant command will continue automatically" (website/api/ck/callback.js:52):
\* without overlapping requests a session once approved does not become pending
\* or expired again; only too many codes can still deny it.
ApprovalKept == ~overlapped /\ page => row.status \in {"approved", "denied"}

\* The command took the time before the session began, and the attestation is
\* signed while it polls: what it is given in time is never outside the two
\* minutes that its verification tolerates.
AcceptsWhatItGets == cli # "refused"
=============================================================================
