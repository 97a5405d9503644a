------------------------ MODULE HostedSessionProofs ------------------------
(***************************************************************************)
(* Theorems about HostedSession, for all requests, subjects, verifiers,    *)
(* limits and durations.                                                   *)
(***************************************************************************)
EXTENDS HostedSession, TLAPS

\* Where an attestation comes from and when it was signed.
Sound(att) == /\ Earned(att)
              /\ started <= att.issued /\ att.issued <= now
              /\ att.expires = att.issued + RequestedTTL

\* What a request at each point knows.
RequestOK(h) ==
    /\ row # None
    /\ web[h].kind = "callback" => web[h].code \in signedIn
    /\ web[h].kind = "approve" => web[h].read.status = "approved"
    /\ web[h].kind = "expire" => web[h].read.status = "expired"
    /\ web[h].read.att # None => Sound(web[h].read.att)
RequestsOK == \A h \in Requests : web[h] # None => RequestOK(h)

Provenance == /\ codes \subseteq signedIn /\ redirects \subseteq given
              /\ \A c \in signedIn : c.challenge \in redirects
              /\ row # None /\ row.att # None => Sound(row.att)
              /\ got # None => Earned(got)

\* Before the session starts there is nothing.
CommandOK == /\ cli \in {"idle", "starting"} => row = None
             /\ started <= now
             /\ cli # "refused"

\* A request that no other overlaps has read the row as it still is.
Unchanged(h) ==
    /\ web[h].kind \in {"attest", "callback"} => web[h].read = row
    /\ web[h].read.attempts = row.attempts
    /\ web[h].kind = "expire" => row.status = "pending"
Alone == ~overlapped =>
    /\ \A h, other \in Requests : web[h] # None /\ web[other] # None => h = other
    /\ \A h \in Requests : web[h] # None => Unchanged(h)
    /\ row = None => guesses = 0 /\ ~page
    /\ row # None => guesses <= row.attempts /\ guesses <= MaxAttempts
    /\ page => row.status \in {"approved", "denied"}

IInv == TypeOK /\ RequestsOK /\ Provenance /\ CommandOK /\ Alone

-----------------------------------------------------------------------------
\* An attestation stays sound while sign-ins are added and time passes.
LEMMA SoundStays ==
    ASSUME NEW att \in Attestation, Sound(att), now \in Nat,
           given \subseteq given', signedIn \subseteq signedIn', started' = started,
           now' \in Nat, now <= now'
    PROVE  Sound(att)'
  <1>1. Earned(att)'
    BY DEF Sound, Earned
  <1>2. att.issued \in Nat
    BY DEF Attestation
  <1> QED
    BY <1>1, <1>2 DEF Sound

\* Reading the row for a request preserves the invariant.
LEMMA GetSessionStep ==
    ASSUME IInv, NEW h \in Requests, NEW kind \in {"attest", "callback", "expire"}, NEW read,
           NEW code \in Codes \cup {None}, NEW mine \in BOOLEAN,
           GetSession(h, kind, read, code, mine),
           kind = "callback" => code \in signedIn,
           kind # "expire" => read = row,
           kind = "expire" => row.status = "pending" /\ read = [row EXCEPT !.status = "expired"]
    PROVE  IInv'
  <1> DEFINE r == [kind |-> kind, read |-> read, code |-> code, mine |-> mine]
  <1>1. /\ web' = [web EXCEPT ![h] = r] /\ row # None /\ web[h] = None
        /\ UNCHANGED <<row, deadline, redirects, codes, cli, started, got, now, given, signedIn, guesses, page>>
        /\ overlapped' = (overlapped \/ \E other \in Requests : web[other] # None)
    BY DEF GetSession, table, provider, command
  <1>2. GoodRow(read) /\ read.att = row.att /\ read.attempts = row.attempts
        /\ (kind = "expire" => read.status = "expired")
    BY <1>1 DEF IInv, TypeOK, GoodRow, Row, Status
  <1>3. r \in Request /\ r # None
    BY <1>2, HostedAssumption DEF Request, GoodRow
  <1>4. web' \in [Requests -> Request \cup {None}] /\ web'[h] = r
        /\ \A k \in Requests : k # h => web'[k] = web[k]
    BY <1>1, <1>3 DEF IInv, TypeOK
  <1>5. TypeOK'
    BY <1>1, <1>2, <1>3, <1>4 DEF IInv, TypeOK, GoodRow
  <1>6. RequestsOK'
    BY <1>1, <1>2, <1>3, <1>4 DEF IInv, RequestsOK, RequestOK, Sound, Earned, Provenance
  <1>7. Provenance' /\ CommandOK'
    BY <1>1 DEF IInv, Provenance, CommandOK, Sound, Earned
  <1>8. Alone'
    BY <1>1, <1>2, <1>3, <1>4 DEF IInv, Alone, Unchanged
  <1> QED
    BY <1>5, <1>6, <1>7, <1>8 DEF IInv

\* Writing a row back, which every endpoint does last, preserves the invariant.
LEMMA WriteBack ==
    ASSUME IInv, NEW h \in Requests, web[h] # None, NEW s, UpdateSession(h, s), GoodRow(s),
           s.att # None => Sound(s.att)',
           UNCHANGED <<codes, started, now, signedIn, overlapped>>,
           given \subseteq given', given' \subseteq Verifiers,
           redirects \subseteq redirects', redirects' \subseteq given',
           got' = got \/ (got' \in Attestation /\ Earned(got)'),
           cli' \in {"granted", "failed", cli},
           guesses' \in Nat, page' \in BOOLEAN,
           ~overlapped => /\ guesses' <= s.attempts /\ guesses' <= MaxAttempts
                          /\ page' => s.status \in {"approved", "denied"}
    PROVE  IInv'
  <1>1. /\ row' = s /\ s # None /\ UNCHANGED deadline
        /\ web' \in [Requests -> Request \cup {None}] /\ web'[h] = None
        /\ \A k \in Requests : k # h => web'[k] = web[k]
    BY HostedAssumption DEF IInv, TypeOK, UpdateSession, GoodRow
  <1>2. TypeOK'
    BY <1>1 DEF IInv, TypeOK, GoodRow
  <1>3. ASSUME NEW k \in Requests, web'[k] # None PROVE RequestOK(k)'
    <2>1. k # h /\ web'[k] = web[k] /\ RequestOK(k)
      BY <1>1, <1>3 DEF IInv, RequestsOK
    <2>2. web[k].read.att # None => web[k].read.att \in Attestation
      BY <1>1, <1>3, <2>1 DEF IInv, TypeOK, GoodRow, Row
    <2>3. web[k].read.att # None => Sound(web[k].read.att)'
      BY <2>1, <2>2, SoundStays DEF RequestOK, IInv, TypeOK
    <2> QED
      BY <1>1, <2>1, <2>3 DEF RequestOK
  <1>4. Provenance'
    BY <1>1 DEF IInv, Provenance, Earned
  <1>5. CommandOK'
    BY <1>1 DEF IInv, CommandOK, RequestsOK, RequestOK
  <1>6. Alone'
    BY <1>1 DEF IInv, Alone
  <1> QED
    BY <1>2, <1>3, <1>4, <1>5, <1>6 DEF IInv, RequestsOK

-----------------------------------------------------------------------------
LEMMA InitEstablishes == Init => IInv
  <1> SUFFICES ASSUME Init PROVE IInv
    OBVIOUS
  <1>1. \A h \in Requests : web[h] = None
    BY DEF Init
  <1>2. TypeOK
    BY <1>1 DEF Init, TypeOK
  <1>3. RequestsOK /\ Provenance /\ CommandOK /\ Alone
    BY <1>1, HostedAssumption DEF Init, RequestsOK, Provenance, CommandOK, Alone
  <1> QED
    BY <1>2, <1>3 DEF IInv

\* A posted code: denied, wrong or right.
LEMMA AttestStep ==
    ASSUME IInv, NEW h \in Requests, Deny(h) \/ WrongCode(h) \/ RightCode(h)
    PROVE  IInv'
  <1>0. PICK s : s = web[h].read
    OBVIOUS
  <1>1. web[h] # None /\ web[h].kind = "attest"
    BY DEF Deny, WrongCode, RightCode, At
  <1>2. GoodRow(s) /\ s.attempts \in 0..MaxAttempts + 1 /\ MaxAttempts \in Nat
        /\ (s.att # None => s.att \in Attestation /\ Sound(s.att))
    BY <1>0, <1>1, HostedAssumption DEF IInv, TypeOK, GoodRow, Row, RequestsOK, RequestOK
  <1>3. ~overlapped => s = row
    BY <1>0, <1>1 DEF IInv, Alone, Unchanged
  <1>4. /\ given \subseteq Verifiers /\ redirects \subseteq given /\ signedIn = signedIn
        /\ now \in Nat /\ guesses \in Nat /\ page \in BOOLEAN
        /\ ~overlapped => guesses <= s.attempts /\ guesses <= MaxAttempts
        /\ ~overlapped /\ page => s.status \in {"approved", "denied"}
    BY <1>0, <1>1, <1>3 DEF IInv, TypeOK, Provenance, Alone, RequestsOK, RequestOK
  <1>5. CASE Deny(h)
    <2> DEFINE d == [s EXCEPT !.status = "denied", !.attempts = MaxAttempts + 1]
    <2>1. GoodRow(d) /\ d.att = s.att /\ d.status = "denied" /\ d.attempts = MaxAttempts + 1
      <3>1. s \in Row /\ MaxAttempts + 1 \in 0..MaxAttempts + 1 /\ "denied" \in Status
        BY <1>2 DEF GoodRow, Status
      <3>2. d \in Row
        BY <3>1 DEF Row
      <3>3. d.att = s.att /\ d.status = "denied" /\ d.attempts = MaxAttempts + 1
            /\ d.verified = s.verified /\ d.verifier = s.verifier
        BY <3>1 DEF Row
      <3> QED
        BY <1>2, <3>2, <3>3 DEF GoodRow
    <2>2. UpdateSession(h, d) /\ UNCHANGED <<redirects, codes, cli, started, got, now, given, signedIn, guesses, page, overlapped>>
      BY <1>0, <1>5 DEF Deny, provider, command, history
    <2>3. s.att # None => Sound(s.att)'
      BY <1>2, <1>4, <2>2, SoundStays
    <2> HIDE DEF d
    <2> QED
      BY <1>1, <1>2, <1>4, <2>1, <2>2, <2>3, WriteBack
  <1>6. CASE WrongCode(h)
    <2> DEFINE d == [s EXCEPT !.attempts = @ + 1]
    <2>1. s.attempts < MaxAttempts
      BY <1>0, <1>2, <1>6 DEF WrongCode, TooMany
    <2>2. GoodRow(d) /\ d.att = s.att /\ d.status = s.status /\ d.attempts = s.attempts + 1
      BY <1>2, <2>1 DEF GoodRow, Row, Status
    <2>3. /\ UpdateSession(h, d) /\ UNCHANGED <<redirects, codes, cli, started, got, now, given, signedIn, page, overlapped>>
          /\ guesses' = IF guesses > MaxAttempts THEN guesses ELSE guesses + 1
      BY <1>0, <1>6 DEF WrongCode, Compare, command
    <2>4. s.att # None => Sound(s.att)'
      BY <1>2, <1>4, <2>3, SoundStays
    <2>5. guesses' \in Nat /\ (~overlapped => guesses' <= d.attempts /\ guesses' <= MaxAttempts)
      BY <1>2, <1>4, <2>1, <2>2, <2>3
    <2> HIDE DEF d
    <2> QED
      BY <1>1, <1>2, <1>4, <2>2, <2>3, <2>4, <2>5, WriteBack
  <1>7. CASE RightCode(h)
    <2> DEFINE d(v) == [s EXCEPT !.attempts = @ + 1, !.verified = TRUE, !.verifier = v]
    <2>1. PICK v \in Verifiers : /\ UpdateSession(h, d(v))
                            /\ given' = given \cup {v}
                            /\ redirects' \in {redirects, redirects \cup {v}}
      BY <1>0, <1>7 DEF RightCode, Draw, Verified
    <2>2. s.attempts < MaxAttempts /\ v # None
      BY <1>0, <1>2, <1>7, HostedAssumption DEF RightCode, TooMany
    <2>3. GoodRow(d(v)) /\ d(v).att = s.att /\ d(v).status = s.status /\ d(v).attempts = s.attempts + 1
      <3>1. s \in Row /\ s.attempts + 1 \in 0..MaxAttempts + 1
        BY <1>2, <2>2 DEF GoodRow
      <3>2. d(v) \in Row
        BY <3>1 DEF Row
      <3>3. d(v).att = s.att /\ d(v).status = s.status /\ d(v).attempts = s.attempts + 1
            /\ d(v).verified = TRUE /\ d(v).verifier = v
        BY <3>1 DEF Row
      <3> QED
        BY <1>2, <2>2, <3>2, <3>3 DEF GoodRow
    <2>4. /\ UNCHANGED <<codes, cli, started, got, now, signedIn, page, overlapped>>
          /\ guesses' = IF guesses > MaxAttempts THEN guesses ELSE guesses + 1
      BY <1>7 DEF RightCode, Compare, command
    <2>5. s.att # None => Sound(s.att)'
      BY <1>2, <1>4, <2>1, <2>4, SoundStays
    <2>6. guesses' \in Nat /\ (~overlapped => guesses' <= d(v).attempts /\ guesses' <= MaxAttempts)
      BY <1>2, <1>4, <2>2, <2>3, <2>4
    <2>7. given' \subseteq Verifiers /\ redirects \subseteq redirects' /\ redirects' \subseteq given'
      BY <1>4, <2>1, <2>2
    <2> HIDE DEF d
    <2> QED
      BY <1>1, <1>2, <1>4, <2>1, <2>3, <2>4, <2>5, <2>6, <2>7, WriteBack
  <1> QED
    BY <1>5, <1>6, <1>7

\* The exchange of a provider's code, which does not touch the row.
LEMMA ExchangeStep ==
    ASSUME IInv, NEW h \in Requests, ExchangeCode(h)
    PROVE  IInv'
  <1>0. PICK q, c, t : q = web[h] /\ c = q.code /\ t = now
    OBVIOUS
  <1> DEFINE a == [subject |-> c.subject, issued |-> t, expires |-> t + RequestedTTL]
             s == [q.read EXCEPT !.status = "approved", !.att = a]
             r == [q EXCEPT !.kind = "approve", !.read = s]
  <1>1. /\ q # None /\ q.kind = "callback" /\ c \in codes
        /\ codes' = codes \ {c}
        /\ web' = [web EXCEPT ![h] = IF c.challenge = q.read.verifier THEN r ELSE None]
        /\ UNCHANGED <<row, deadline, redirects, cli, started, got, now, given, signedIn, guesses, page, overlapped>>
    BY <1>0 DEF ExchangeCode, At, table, command, history, Sign
  <1>2. q \in Request /\ GoodRow(q.read) /\ c \in Codes /\ c \in signedIn /\ row # None
        /\ t \in Nat /\ started <= t
    BY <1>0, <1>1 DEF IInv, TypeOK, RequestsOK, RequestOK, Provenance, CommandOK
  <1>3. c.challenge \in Verifiers /\ c.subject \in Subjects /\ c.challenge \in given
        /\ [challenge |-> c.challenge, subject |-> c.subject] = c
    BY <1>2 DEF Codes, IInv, Provenance
  <1>4. a \in Attestation /\ a # None
    BY <1>2, <1>3, HostedAssumption DEF Attestation
  <1>5. Sound(a)'
    BY <1>0, <1>1, <1>2, <1>3 DEF Sound, Earned
  <1> HIDE DEF a
  <1>6. s \in Row /\ s.att = a /\ s.status = "approved" /\ s.attempts = q.read.attempts
        /\ s.verified = q.read.verified /\ s.verifier = q.read.verifier
    BY <1>2, <1>4 DEF GoodRow, Row, Status
  <1> HIDE DEF s
  <1>7. ASSUME c.challenge = q.read.verifier PROVE GoodRow(s)
    BY <1>2, <1>3, <1>4, <1>6, <1>7, HostedAssumption DEF GoodRow
  <1>8. r \in Request /\ r # None /\ r.read = s /\ r.kind = "approve"
    BY <1>2, <1>6, HostedAssumption DEF Request
  <1> HIDE DEF r
  <1>9. /\ web' \in [Requests -> Request \cup {None}]
        /\ web'[h] = IF c.challenge = q.read.verifier THEN r ELSE None
        /\ \A k \in Requests : k # h => web'[k] = web[k]
    BY <1>1, <1>8 DEF IInv, TypeOK
  <1>10. TypeOK'
    BY <1>1, <1>7, <1>8, <1>9 DEF IInv, TypeOK, GoodRow
  <1>11. RequestsOK'
    BY <1>1, <1>2, <1>5, <1>6, <1>8, <1>9 DEF IInv, RequestsOK, RequestOK, Sound, Earned
  <1>12. Provenance' /\ CommandOK'
    BY <1>1 DEF IInv, Provenance, CommandOK, Sound, Earned
  <1>13. Alone'
    BY <1>0, <1>1, <1>6, <1>8, <1>9 DEF IInv, Alone, Unchanged
  <1> QED
    BY <1>10, <1>11, <1>12, <1>13 DEF IInv

\* The last write of a callback.
LEMMA ApproveStep ==
    ASSUME IInv, NEW h \in Requests, Approve(h)
    PROVE  IInv'
  <1>0. PICK s : s = web[h].read
    OBVIOUS
  <1>1. /\ web[h] # None /\ web[h].kind = "approve" /\ UpdateSession(h, s) /\ page' = TRUE
        /\ UNCHANGED <<redirects, codes, cli, started, got, now, given, signedIn, guesses, overlapped>>
    BY <1>0 DEF Approve, At, provider, command
  <1>2. GoodRow(s) /\ s.status = "approved" /\ (s.att # None => s.att \in Attestation /\ Sound(s.att))
        /\ row # None
    BY <1>0, <1>1 DEF IInv, TypeOK, GoodRow, Row, RequestsOK, RequestOK
  <1>3. s.att # None => Sound(s.att)'
    BY <1>1, <1>2, SoundStays DEF IInv, TypeOK
  <1>4. ~overlapped => guesses <= s.attempts /\ guesses <= MaxAttempts
    BY <1>0, <1>1, <1>2 DEF IInv, Alone, Unchanged
  <1> QED
    BY <1>1, <1>2, <1>3, <1>4, WriteBack DEF IInv, TypeOK, Provenance

\* The write of a poll that found the session's time over.
LEMMA SaveExpiredStep ==
    ASSUME IInv, NEW h \in Requests, SaveExpired(h)
    PROVE  IInv'
  <1>0. PICK s : s = web[h].read
    OBVIOUS
  <1>1. /\ web[h] # None /\ web[h].kind = "expire" /\ UpdateSession(h, s)
        /\ UNCHANGED <<redirects, codes, now, given, signedIn, guesses, page, overlapped>>
        /\ Receive(s) \/ UNCHANGED <<cli, started, got>>
    BY <1>0 DEF SaveExpired, At, provider, command, history
  <1>2. GoodRow(s) /\ s.status = "expired" /\ (s.att # None => s.att \in Attestation /\ Sound(s.att))
        /\ row # None
    BY <1>0, <1>1 DEF IInv, TypeOK, GoodRow, Row, RequestsOK, RequestOK
  <1>3. UNCHANGED <<started, got>> /\ cli' \in {"failed", cli}
    BY <1>1, <1>2 DEF Receive, command
  <1>4. s.att # None => Sound(s.att)'
    BY <1>1, <1>2, <1>3, SoundStays DEF IInv, TypeOK
  <1>5. ~overlapped => guesses <= s.attempts /\ guesses <= MaxAttempts /\ ~page
    BY <1>0, <1>1, <1>2 DEF IInv, Alone, Unchanged
  <1> QED
    BY <1>1, <1>2, <1>3, <1>4, <1>5, WriteBack DEF IInv, TypeOK, Provenance

\* A poll: what the command is given in time, its verification accepts.
LEMMA PollStep ==
    ASSUME IInv, Poll
    PROVE  IInv'
  <1>1. /\ cli = "polling" /\ now <= started + Timeout /\ row # None /\ Receive(row)
        /\ UNCHANGED <<row, deadline, web, redirects, codes, now, given, signedIn, guesses, page, overlapped>>
    BY DEF Poll, Asked, table, provider, history
  <1>2. /\ GoodRow(row) /\ now \in Nat /\ started \in Nat
        /\ row.att # None => row.att \in Attestation /\ Sound(row.att)
    BY <1>1 DEF IInv, TypeOK, GoodRow, Row, Provenance
  <1>3. row.att # None => VerifyIdentityAttestation(row.att) /\ Earned(row.att)
    <2> SUFFICES ASSUME row.att # None PROVE VerifyIdentityAttestation(row.att) /\ Earned(row.att)
      OBVIOUS
    <2>1. row.att.issued \in Nat /\ row.att.expires \in Nat
      BY <1>2 DEF Attestation
    <2> QED
      BY <1>1, <1>2, <2>1, HostedAssumption DEF Sound, VerifyIdentityAttestation
  <1>4. /\ started' = started /\ cli' \in {"polling", "granted", "failed"}
        /\ got' = got \/ (got' = row.att /\ row.att # None)
    BY <1>1, <1>2, <1>3 DEF Receive, command, GoodRow
  <1>5. TypeOK'
    BY <1>1, <1>2, <1>4 DEF IInv, TypeOK, GoodRow
  <1>6. RequestsOK' /\ Alone'
    BY <1>1, <1>4 DEF IInv, RequestsOK, RequestOK, Sound, Earned, Alone, Unchanged
  <1>7. Provenance' /\ CommandOK'
    BY <1>1, <1>3, <1>4 DEF IInv, Provenance, CommandOK, Sound, Earned
  <1> QED
    BY <1>5, <1>6, <1>7 DEF IInv

\* The command's other steps, and a request that comes to nothing.
LEMMA CommandStep ==
    ASSUME IInv, Begin \/ StartAttestationSession \/ GiveUp
    PROVE  IInv'
  <1>1. CASE Begin
    <2>1. /\ cli = "idle" /\ cli' = "starting" /\ started' = now
          /\ UNCHANGED <<row, deadline, web, redirects, codes, got, now, given, signedIn, guesses, page, overlapped>>
      BY <1>1 DEF Begin, table, provider, history
    <2>2. row = None /\ \A h \in Requests : web[h] = None
      BY <2>1 DEF IInv, CommandOK, RequestsOK, RequestOK
    <2>3. TypeOK'
      BY <2>1, <2>2 DEF IInv, TypeOK
    <2>4. RequestsOK' /\ Alone'
      BY <2>1, <2>2 DEF IInv, RequestsOK, Alone
    <2>5. Provenance'
      BY <2>1, <2>2 DEF IInv, Provenance, Earned
    <2>6. CommandOK'
      BY <2>1, <2>2 DEF IInv, TypeOK, CommandOK
    <2> QED
      BY <2>3, <2>4, <2>5, <2>6 DEF IInv
  <1>2. CASE StartAttestationSession
    <2> DEFINE r == [status |-> "pending", attempts |-> 0, verified |-> FALSE, verifier |-> None, att |-> None]
    <2>1. /\ row = None /\ row' = r /\ deadline' = now + SessionTTL /\ cli' \in {"polling", "failed"}
          /\ UNCHANGED <<web, redirects, codes, started, got, now, given, signedIn, guesses, page, overlapped>>
      BY <1>2 DEF StartAttestationSession, provider, history
    <2>2. \A h \in Requests : web[h] = None
      BY <2>1 DEF IInv, RequestsOK, RequestOK
    <2>3. GoodRow(r) /\ r # None /\ r.att = None /\ r.attempts = 0
      <3>1. 0 \in 0..MaxAttempts + 1
        BY HostedAssumption
      <3>2. r \in Row
        BY <3>1 DEF Row, Status
      <3> QED
        BY <3>2, HostedAssumption DEF GoodRow
    <2> HIDE DEF r
    <2>4. TypeOK'
      BY <2>1, <2>2, <2>3, HostedAssumption DEF IInv, TypeOK, GoodRow
    <2>5. RequestsOK' /\ Provenance' /\ CommandOK'
      BY <2>1, <2>2, <2>3 DEF IInv, RequestsOK, Provenance, CommandOK, Earned
    <2>6. Alone'
      BY <2>1, <2>2, <2>3, HostedAssumption DEF IInv, Alone
    <2> QED
      BY <2>4, <2>5, <2>6 DEF IInv
  <1>3. CASE GiveUp
    <2>1. /\ cli' = "failed"
          /\ UNCHANGED <<row, deadline, web, redirects, codes, started, got, now, given, signedIn, guesses, page, overlapped>>
      BY <1>3 DEF GiveUp, table, provider, history
    <2>2. TypeOK'
      BY <2>1 DEF IInv, TypeOK, GoodRow
    <2>3. RequestsOK' /\ Provenance' /\ CommandOK' /\ Alone'
      BY <2>1 DEF IInv, RequestsOK, RequestOK, Provenance, CommandOK, Alone, Unchanged, Sound, Earned
    <2> QED
      BY <2>2, <2>3 DEF IInv
  <1> QED
    BY <1>1, <1>2, <1>3

LEMMA AbortStep ==
    ASSUME IInv, NEW h \in Requests, Abort(h)
    PROVE  IInv'
  <1>1. /\ web' = [web EXCEPT ![h] = None] /\ cli' \in {"failed", cli}
        /\ UNCHANGED <<row, deadline, redirects, codes, started, got, now, given, signedIn, guesses, page, overlapped>>
    BY DEF Abort, table, provider, history
  <1>2. /\ web' \in [Requests -> Request \cup {None}] /\ web'[h] = None
        /\ \A k \in Requests : k # h => web'[k] = web[k]
    BY <1>1 DEF IInv, TypeOK
  <1>3. TypeOK'
    BY <1>1, <1>2 DEF IInv, TypeOK, GoodRow
  <1>4. RequestsOK'
    BY <1>1, <1>2 DEF IInv, RequestsOK, RequestOK, Sound, Earned
  <1>5. Provenance' /\ CommandOK'
    BY <1>1 DEF IInv, Provenance, CommandOK, Sound, Earned
  <1>6. Alone'
    BY <1>1, <1>2 DEF IInv, Alone, Unchanged
  <1> QED
    BY <1>3, <1>4, <1>5, <1>6 DEF IInv

\* A sign-in at the provider, and the clock.
LEMMA OutsideStep ==
    ASSUME IInv, Tick \/ \E v \in Verifiers, s \in Subjects : SignIn(v, s)
    PROVE  IInv'
  <1>1. /\ UNCHANGED <<row, deadline, web, redirects, cli, started, got, given, guesses, page, overlapped>>
        /\ now' \in Nat /\ now <= now' /\ now \in Nat
        /\ \/ UNCHANGED <<codes, signedIn>>
           \/ \E v \in redirects, s \in Subjects :
                 /\ codes' = codes \cup {[challenge |-> v, subject |-> s]}
                 /\ signedIn' = signedIn \cup {[challenge |-> v, subject |-> s]}
    <2>1. now \in Nat
      BY DEF IInv, TypeOK
    <2>2. CASE Tick
      BY <2>1, <2>2 DEF Tick, table, provider, command, history
    <2>3. CASE \E v \in Verifiers, s \in Subjects : SignIn(v, s)
      BY <2>1, <2>3 DEF SignIn, table, command
    <2> QED
      BY <2>2, <2>3
  <1>2. /\ codes' \subseteq Codes /\ signedIn' \subseteq Codes /\ signedIn \subseteq signedIn'
        /\ codes' \subseteq signedIn' /\ \A c \in signedIn' : c.challenge \in redirects
    BY <1>1 DEF IInv, TypeOK, Provenance, Codes
  <1>3. TypeOK'
    BY <1>1, <1>2 DEF IInv, TypeOK, GoodRow
  <1>4. ASSUME NEW h \in Requests, web[h] # None PROVE RequestOK(h)'
    <2>1. PICK a : a = web[h].read.att
      OBVIOUS
    <2>2. a # None => a \in Attestation /\ Sound(a)
      BY <1>4, <2>1 DEF IInv, TypeOK, GoodRow, Row, RequestsOK, RequestOK
    <2>3. a # None => Sound(a)'
      BY <1>1, <1>2, <2>2, SoundStays
    <2> QED
      BY <1>1, <1>2, <1>4, <2>1, <2>3 DEF IInv, RequestsOK, RequestOK
  <1>5. row # None /\ row.att # None => Sound(row.att)'
    <2>1. PICK a : a = row.att
      OBVIOUS
    <2>2. row # None /\ a # None => a \in Attestation /\ Sound(a)
      BY <2>1 DEF IInv, TypeOK, GoodRow, Row, Provenance
    <2>3. row # None /\ a # None => Sound(a)'
      BY <1>1, <1>2, <2>2, SoundStays
    <2> QED
      BY <1>1, <2>1, <2>3
  <1>6. Provenance'
    BY <1>1, <1>2, <1>5 DEF IInv, Provenance, Earned
  <1>7. CommandOK' /\ Alone'
    BY <1>1 DEF IInv, CommandOK, TypeOK, Alone, Unchanged
  <1> QED
    BY <1>1, <1>3, <1>4, <1>6, <1>7 DEF IInv, RequestsOK

LEMMA Preserves == IInv /\ [Next]_vars => IInv'
  <1> SUFFICES ASSUME IInv, [Next]_vars PROVE IInv'
    OBVIOUS
  <1>1. ASSUME NEW h \in Requests, Serve(h) PROVE IInv'
    <2>1. CASE Deny(h) \/ WrongCode(h) \/ RightCode(h)
      BY <2>1, AttestStep
    <2>2. CASE ReadForAttest(h)
      BY <2>2, GetSessionStep DEF ReadForAttest
    <2>3. CASE ReadForCallback(h)
      <3>1. PICK c \in codes : GetSession(h, "callback", row, c, FALSE)
        BY <2>3 DEF ReadForCallback
      <3>2. c \in Codes \cup {None} /\ c \in signedIn
        BY DEF IInv, TypeOK, Provenance
      <3> QED
        BY <3>1, <3>2, GetSessionStep
    <2>4. CASE \E mine \in BOOLEAN : ReadAsExpired(h, mine)
      <3>1. PICK mine \in BOOLEAN : ReadAsExpired(h, mine)
        BY <2>4
      <3>2. row.status = "pending"
        BY <3>1 DEF ReadAsExpired, GetSession
      <3> QED
        BY <3>1, <3>2, GetSessionStep DEF ReadAsExpired
    <2> QED
      BY <1>1, <2>1, <2>2, <2>3, <2>4, ExchangeStep, ApproveStep, SaveExpiredStep, AbortStep DEF Serve
  <1>2. CASE Begin \/ StartAttestationSession \/ GiveUp
    BY <1>2, CommandStep
  <1>3. CASE Tick \/ \E v \in Verifiers, s \in Subjects : SignIn(v, s)
    BY <1>3, OutsideStep
  <1>4. CASE UNCHANGED vars
    <2>1. TypeOK'
      BY <1>4 DEF IInv, TypeOK, GoodRow, vars, table, provider, command, history
    <2>2. RequestsOK' /\ Provenance' /\ CommandOK' /\ Alone'
      BY <1>4 DEF IInv, RequestsOK, RequestOK, Provenance, CommandOK, Alone, Unchanged, Sound, Earned,
                  vars, table, provider, command, history
    <2> QED
      BY <2>1, <2>2 DEF IInv
  <1> QED
    BY <1>1, <1>2, <1>3, <1>4, PollStep DEF Next

-----------------------------------------------------------------------------
\* In every behaviour the inductive invariant holds: every copy of the row that a
\* request carries is one that could have been written, whatever overlaps.
THEOREM Invariance == Spec => []IInv
  BY InitEstablishes, Preserves, PTL DEF Spec

\* Rows stay consistent although overlapping requests write stale copies back.
THEOREM RowsAreGood == Spec => []TypeOK
  <1>1. IInv => TypeOK
    BY DEF IInv
  <1> QED
    BY <1>1, Invariance, PTL

\* Whatever overlaps, an attestation names somebody who signed in behind a
\* redirect that answered the right code (ck/attest.js, ck/callback.js).
THEOREM AttestationsSound == Spec => []AttestationsEarned
  <1>1. IInv => AttestationsEarned
    BY DEF IInv, Provenance, AttestationsEarned, Sound
  <1> QED
    BY <1>1, Invariance, PTL

\* Without overlapping requests the limit of ck/attest.js on codes holds.
THEOREM AttemptsLimited == Spec => []CodeTriedFiveTimes
  <1>1. IInv => CodeTriedFiveTimes
    BY HostedAssumption DEF IInv, Alone, CodeTriedFiveTimes
  <1> QED
    BY <1>1, Invariance, PTL

\* Without overlapping requests an approval is kept (ck/callback.js:52).
THEOREM ApprovalStays == Spec => []ApprovalKept
  <1>1. IInv => ApprovalKept
    BY DEF IInv, Alone, ApprovalKept
  <1> QED
    BY <1>1, Invariance, PTL

\* The command never refuses an attestation it received in time
\* (internal/hosted/client.go:222), because Timeout <= Skew.
THEOREM GivenInTimeAccepted == Spec => []AcceptsWhatItGets
  <1>1. IInv => AcceptsWhatItGets
    BY DEF IInv, CommandOK, AcceptsWhatItGets
  <1> QED
    BY <1>1, Invariance, PTL
=============================================================================
