------------------------- MODULE KeyRotationProofs -------------------------
(***************************************************************************)
(* Theorems about the state file for any number of processes, keys and     *)
(* tokens: the key set stays consistent in the file and in every copy, a   *)
(* key that every copy knows to be revoked stays revoked, and tokens are   *)
(* accepted and refused as was reported of them.                           *)
(***************************************************************************)
EXTENDS StateFile, Sequences, TLAPS

-----------------------------------------------------------------------------
(* What each operation on a copy preserves                                 *)

\* A copy a process can hold.
Good(s) == s \in State /\ KeysAgree(s)

\* No operation but drawing a new key changes a revoked record.
Keeps(s, t) == \A k \in KeyIds : s.status[k] = "revoked" => t.status[k] = "revoked"

LEMMA SetKeyGood ==
    ASSUME NEW s, Good(s), NEW k \in KeyIds, s.status[k] = "unused"
    PROVE  Good(SetKey(s, k)) /\ Keeps(s, SetKey(s, k))
<1> PICK t : t = SetKey(s, k)
  OBVIOUS
<1>1. t \in State
  BY DEF Good, SetKey, State, Statuses, Usable
<1>2. \A x \in KeyIds : t.status[x] = IF x = k THEN "active"
                                     ELSE IF s.status[x] \in Usable THEN "revoked"
                                     ELSE s.status[x]
  BY DEF SetKey
<1>3. t.active = k /\ t.pending = NoKey /\ t.previous = NoKey /\ t.cache = k /\ k \in t.verified
  BY DEF SetKey
<1>4. \A x \in KeyIds : s.status[x] \in Statuses
  BY DEF Good, State
<1> QED BY <1>1, <1>2, <1>3, <1>4, KeyAssumption DEF Good, KeysAgree, Keeps, Usable, Statuses

LEMMA StartGood ==
    ASSUME NEW s, Good(s), NEW k \in KeyIds, s.status[k] = "unused", s.pending = NoKey
    PROVE  Good(StartRotation(s, k)) /\ Keeps(s, StartRotation(s, k))
<1> PICK t : t = StartRotation(s, k)
  OBVIOUS
<1>1. /\ t \in State
      /\ \A x \in KeyIds : t.status[x] = IF x = k THEN "pending" ELSE s.status[x]
      /\ t.pending = k /\ t.active = s.active /\ t.previous = s.previous
      /\ t.cache = s.cache /\ t.verified = s.verified
  BY DEF Good, StartRotation, State, Statuses
<1>2. s.previous # NoKey => s.previous \in KeyIds
  BY DEF Good, State
<1> QED BY <1>1, <1>2, KeyAssumption DEF Good, KeysAgree, Keeps

LEMMA VerifyGood ==
    ASSUME NEW s, Good(s), s.pending # NoKey
    PROVE  LET t == [s EXCEPT !.verified = @ \cup {s.pending}] IN Good(t) /\ Keeps(s, t)
<1> PICK t : t = [s EXCEPT !.verified = @ \cup {s.pending}]
  OBVIOUS
<1>1. s \in State /\ s.pending \in KeyIds
  BY DEF Good, State
<1>2. /\ t \in State /\ t.verified = s.verified \cup {s.pending} /\ t.status = s.status
      /\ t.active = s.active /\ t.pending = s.pending /\ t.previous = s.previous
      /\ t.cache = s.cache
  BY <1>1 DEF State
<1> QED BY <1>2 DEF Good, KeysAgree, Keeps

LEMMA CommitGood ==
    ASSUME NEW s, Good(s), s.pending \in s.verified, NEW keep \in BOOLEAN
    PROVE  Good(CommitRotation(s, keep)) /\ Keeps(s, CommitRotation(s, keep))
<1> PICK t : t = CommitRotation(s, keep)
  OBVIOUS
<1>1. s \in State /\ s.pending \in KeyIds
  BY DEF Good, State
<1>2. t.previous = IF s.active = NoKey THEN s.previous ELSE IF keep THEN s.active ELSE NoKey
  BY <1>1 DEF CommitRotation, State
<1>3. /\ \A x \in KeyIds : t.status[x] = IF x = s.pending THEN "active"
                                         ELSE IF x # s.active THEN s.status[x]
                                         ELSE IF keep THEN "previous" ELSE "revoked"
      /\ t.active = s.pending /\ t.pending = NoKey /\ t.cache = s.pending
      /\ t.verified = s.verified
  BY <1>1 DEF CommitRotation, State
<1>4. t \in State
  <2>1. t = [status |-> t.status, verified |-> t.verified, active |-> t.active,
             pending |-> t.pending, previous |-> t.previous, cache |-> t.cache]
    BY <1>1 DEF CommitRotation, State
  <2>2. t.status \in [KeyIds -> Statuses]
    BY <1>1 DEF CommitRotation, State, Statuses
  <2>3. t.previous \in KeyIds \cup {NoKey} /\ t.verified \in SUBSET KeyIds
    BY <1>1, <1>2, <1>3 DEF State
  <2> QED BY <1>1, <1>3, <2>1, <2>2, <2>3 DEF State
<1>5. s.status[s.pending] = "pending" /\ s.pending # s.active
      /\ (s.active # NoKey => s.active \in KeyIds /\ s.status[s.active] = "active")
      /\ (s.previous # NoKey => /\ s.previous \in KeyIds /\ s.status[s.previous] = "previous"
                               /\ s.previous \in s.verified)
      /\ (s.active # NoKey => s.active \in s.verified)
  BY <1>1 DEF Good, KeysAgree, State
<1>6. \A x \in KeyIds : t.status[x] = "active" <=> x = t.active
  BY <1>1, <1>3, <1>5 DEF Good, KeysAgree
<1>7. \A x \in KeyIds : t.status[x] = "pending" <=> x = t.pending
  BY <1>1, <1>3, <1>5, KeyAssumption DEF Good, KeysAgree
<1>8. t.previous # NoKey => t.status[t.previous] = "previous" /\ t.previous \in t.verified
  BY <1>1, <1>2, <1>3, <1>5
<1>9. Keeps(s, t)
  BY <1>1, <1>3, <1>5 DEF Good, KeysAgree, Keeps
<1> QED BY <1>3, <1>4, <1>6, <1>7, <1>8, <1>9 DEF Good, KeysAgree

LEMMA SwapGood ==
    ASSUME NEW s, Good(s), s.previous # NoKey, s.active # NoKey
    PROVE  Good(SwapPrevious(s)) /\ Keeps(s, SwapPrevious(s))
<1> PICK t : t = SwapPrevious(s)
  OBVIOUS
<1>1. s \in State /\ s.previous \in KeyIds /\ s.active \in KeyIds
  BY DEF Good, State
<1>2. s.status[s.previous] = "previous" /\ s.status[s.active] = "active" /\ s.previous # s.active
  BY <1>1 DEF Good, KeysAgree
<1>3. /\ t \in State
      /\ \A x \in KeyIds : t.status[x] = IF x = s.previous THEN "active"
                                         ELSE IF x = s.active THEN "previous" ELSE s.status[x]
      /\ t.active = s.previous /\ t.previous = s.active /\ t.cache = s.previous
      /\ t.pending = s.pending /\ t.verified = s.verified
  BY <1>1, <1>2 DEF SwapPrevious, State, Statuses
<1> QED BY <1>1, <1>2, <1>3 DEF Good, KeysAgree, Keeps

LEMMA RevokeGood ==
    ASSUME NEW s, Good(s), NEW k \in KeyIds, k # s.active
    PROVE  Good(RevokeRecord(s, k)) /\ Keeps(s, RevokeRecord(s, k))
<1> PICK t : t = RevokeRecord(s, k)
  OBVIOUS
<1>1. s \in State
  BY DEF Good
<1>2. /\ t \in State
      /\ \A x \in KeyIds : t.status[x] = IF x = k THEN "revoked" ELSE s.status[x]
      /\ t.pending = Cleared(s.pending, k) /\ t.previous = Cleared(s.previous, k)
      /\ t.active = s.active /\ t.cache = s.cache /\ t.verified = s.verified
  BY <1>1 DEF RevokeRecord, State, Statuses, Cleared
<1>3. s.previous # NoKey => s.previous \in KeyIds
  BY <1>1 DEF State
<1> QED BY <1>2, <1>3, KeyAssumption DEF Good, KeysAgree, Keeps, Cleared

LEMMA MigrateGood ==
    ASSUME NEW s \in State, KeysAgree(s) \/ Legacy(s), NEW k \in KeyIds, s.status[k] = "unused"
    PROVE  Good(Migrate(s, k)) /\ Keeps(s, Migrate(s, k))
<1> PICK t : t = Migrate(s, k)
  OBVIOUS
<1>1. CASE s.cache # NoKey /\ \A x \in KeyIds : s.status[x] = "unused"
  <2>1. s.pending = NoKey /\ s.previous = NoKey
    BY <1>1 DEF KeysAgree, Legacy, Empty, State
  <2>2. /\ t \in State
        /\ \A x \in KeyIds : t.status[x] = IF x = k THEN "active" ELSE "unused"
        /\ t.verified = {k} /\ t.active = k /\ t.cache = k
        /\ t.pending = NoKey /\ t.previous = NoKey
    BY <1>1, <2>1 DEF Migrate, State, Statuses
  <2> QED BY <1>1, <2>2, KeyAssumption DEF Good, KeysAgree, Keeps
<1>2. CASE ~(s.cache # NoKey /\ \A x \in KeyIds : s.status[x] = "unused")
  <2>1. KeysAgree(s)
    <3>1. CASE Legacy(s)
      <4>1. s = Empty
        BY <1>2, <3>1 DEF Legacy, Empty
      <4> QED BY <4>1, KeyAssumption DEF KeysAgree, Empty
    <3> QED BY <3>1
  <2>2. t = s
    BY <1>2, <2>1 DEF Migrate, KeysAgree, State
  <2> QED BY <2>1, <2>2 DEF Good, Keeps
<1> QED BY <1>1, <1>2

-----------------------------------------------------------------------------
(* The invariant                                                           *)

Inv == TypeOK /\ KeySetConsistent

\* A step of a process is one of the operations on its copy and a save, or a change of
\* the copy alone, or a start.
LEMMA FreshFacts ==
    ASSUME NEW p \in Procs, Running(p), NEW k \in Fresh
    PROVE  k \in KeyIds /\ mem[p].status[k] = "unused" /\ disk.status[k] = "unused"
<1>1. k \in KeyIds /\ k \notin Drawn(disk) /\ k \notin Drawn(mem[p])
  BY DEF Fresh
<1> QED BY <1>1 DEF Drawn

LEMMA Operations ==
    ASSUME Inv, NEW p \in Procs,
           \/ SaveOther(p) \/ SetProviderKey(p) \/ RotateStart(p) \/ RotateVerify(p)
           \/ RotateCommit(p) \/ RotateRollback(p) \/ RevokePrevious(p) \/ RevokeKey(p)
    PROVE  \E s : Good(s) /\ Keeps(mem[p], s) /\ Save(p, s) /\ Running(p)
<1>0. Running(p) /\ Good(mem[p])
  BY DEF SaveOther, SetProviderKey, RotateStart, RotateVerify, RotateCommit, RotateRollback,
         RevokePrevious, RevokeKey, Inv, TypeOK, KeySetConsistent, Good, Running
<1>1. CASE SaveOther(p)
  BY <1>0, <1>1 DEF SaveOther, Keeps
<1>2. CASE SetProviderKey(p)
  BY <1>0, <1>2, FreshFacts, SetKeyGood DEF SetProviderKey
<1>3. CASE RotateStart(p)
  BY <1>0, <1>3, FreshFacts, StartGood DEF RotateStart
<1>4. CASE RotateVerify(p)
  BY <1>0, <1>4, VerifyGood DEF RotateVerify
<1>5. CASE RotateCommit(p)
  BY <1>0, <1>5, CommitGood DEF RotateCommit
<1>6. CASE RotateRollback(p)
  BY <1>0, <1>6, SwapGood DEF RotateRollback
<1>7. CASE RevokePrevious(p)
  <2>1. mem[p].previous \in KeyIds /\ mem[p].previous # mem[p].active
    BY <1>0, <1>7, KeyAssumption DEF RevokePrevious, Good, State, KeysAgree
  <2> QED BY <1>0, <1>7, <2>1, RevokeGood DEF RevokePrevious
<1>8. CASE RevokeKey(p)
  BY <1>0, <1>8, RevokeGood DEF RevokeKey
<1> QED BY <1>1, <1>2, <1>3, <1>4, <1>5, <1>6, <1>7, <1>8

\* A running process has seen a file with a key set, and no file loses it again.
NotLegacy == (\E p \in Procs : Running(p)) => KeysAgree(disk)

IInv == Inv /\ NotLegacy

LEMMA OpenFacts ==
    ASSUME IInv, NEW p \in Procs, Open(p)
    PROVE  \E s : /\ Good(s) /\ Keeps(disk, s) /\ disk' = s
                  /\ mem' = [mem EXCEPT ![p] = s]
<1>1. disk \in State /\ (KeysAgree(disk) \/ Legacy(disk))
  BY DEF IInv, Inv, TypeOK, KeySetConsistent
<1>2. PICK k \in Fresh \cup {NoKey} :
        /\ k = NoKey => disk.cache = disk.active
        /\ disk' = (IF k = NoKey THEN disk ELSE Migrate(disk, k))
        /\ mem' = [mem EXCEPT ![p] = IF k = NoKey THEN disk ELSE Migrate(disk, k)]
  BY DEF Open
<1>3. CASE k = NoKey
  <2>1. KeysAgree(disk)
    <3>1. CASE Legacy(disk)
      <4>1. disk = Empty
        BY <1>2, <1>3, <3>1 DEF Legacy, Empty
      <4> QED BY <4>1, KeyAssumption DEF KeysAgree, Empty
    <3> QED BY <1>1, <3>1
  <2> QED BY <1>1, <1>2, <1>3, <2>1 DEF Good, Keeps
<1>4. CASE k # NoKey
  <2>1. k \in KeyIds /\ disk.status[k] = "unused"
    BY <1>2, <1>4 DEF Fresh, Drawn
  <2> QED BY <1>1, <1>2, <1>4, <2>1, MigrateGood
<1> QED BY <1>3, <1>4

LEMMA InitIInv == Init => IInv
<1> SUFFICES ASSUME Init PROVE IInv
  OBVIOUS
<1>1. disk \in State
  BY DEF Init, Empty, State, Statuses
<1>2. Legacy(disk)
  BY DEF Init, Legacy, Empty
<1>3. \A p \in Procs : ~Running(p)
  BY DEF Init, Running
<1> QED BY <1>1, <1>2, <1>3 DEF Init, IInv, Inv, TypeOK, KeySetConsistent, NotLegacy

LEMMA StepIInv == ASSUME IInv, [Next]_vars PROVE IInv'
<1> USE DEF IInv, Inv
<1>1. ASSUME NEW p \in Procs, NEW s, Good(s), mem' = [mem EXCEPT ![p] = s],
             disk' = disk \/ disk' = s, KeysAgree(disk')
      PROVE  IInv'
  BY <1>1 DEF TypeOK, KeySetConsistent, NotLegacy, Running, Good
<1>2. ASSUME NEW p \in Procs, Open(p) PROVE IInv'
  BY <1>1, <1>2, OpenFacts DEF Good
<1>3. ASSUME NEW p \in Procs, Exit(p) PROVE IInv'
  BY <1>3 DEF Exit, TypeOK, KeySetConsistent, NotLegacy, Running
<1>4. ASSUME NEW p \in Procs, Reload(p) PROVE IInv'
  BY <1>1, <1>4 DEF Reload, TypeOK, NotLegacy, Good
<1>5. ASSUME NEW p \in Procs, NEW s, Good(s), Running(p), Save(p, s) PROVE IInv'
  <2>1. KeysAgree(disk) /\ Good(disk) /\ KeysAgree(s)
    BY <1>5 DEF NotLegacy, Good, TypeOK
  <2> QED BY <1>1, <1>5, <2>1 DEF Save
<1>6. CASE UNCHANGED vars
  BY <1>6 DEF vars, TypeOK, KeySetConsistent, NotLegacy, Running
<1> QED BY <1>2, <1>3, <1>4, <1>5, <1>6, Operations DEF Next

-----------------------------------------------------------------------------
(* Theorems                                                                *)

\* The file and every copy always hold a well-typed key set.
THEOREM TypeCorrect == Spec => []TypeOK
BY InitIInv, StepIInv, PTL DEF Spec, IInv, Inv

\* Whatever any number of processes do, fail and overwrite, one verified key is active
\* and cached, and the pointers name records of their status.
THEOREM Consistency == Spec => []KeySetConsistent
BY InitIInv, StepIInv, PTL DEF Spec, IInv, Inv

\* Once no process holds an older copy, a revoked key stays revoked: no command, failed
\* save, reload or restart of any process makes it usable.
THEOREM RevocationHolds == Spec => RevokedForGood
<1>1. ASSUME IInv, [Next]_vars, NEW k \in KeyIds, Gone(k) PROVE Gone(k)'
  <2>1. ASSUME NEW p \in Procs, Open(p) PROVE Gone(k)'
    BY <1>1, <2>1, OpenFacts DEF Gone, Keeps, Running, IInv, Inv, TypeOK
  <2>2. ASSUME NEW p \in Procs, Exit(p) \/ Reload(p) PROVE Gone(k)'
    BY <1>1, <2>2 DEF Exit, Reload, Gone, Running, IInv, Inv, TypeOK
  <2>3. ASSUME NEW p \in Procs, NEW s, Keeps(mem[p], s), Running(p), Save(p, s) PROVE Gone(k)'
    BY <1>1, <2>3 DEF Save, Gone, Keeps, Running, IInv, Inv, TypeOK
  <2>4. CASE UNCHANGED vars
    BY <1>1, <2>4 DEF vars, Gone, Running
  <2> QED BY <1>1, <2>1, <2>2, <2>3, <2>4, Operations DEF Next, IInv
<1>2. IInv /\ [Next]_vars => [\A k \in KeyIds : Gone(k) => Gone(k)']_vars
  BY <1>1
<1> QED BY <1>2, InitIInv, StepIInv, PTL DEF Spec, RevokedForGood

-----------------------------------------------------------------------------
(* Tokens: lists of them                                                   *)

\* A list that a process can hold: no token is in it twice.
GoodList(s) == /\ s \in Seq(Tokens!Token)
               /\ \A i, j \in DOMAIN s : s[i].raw = s[j].raw => i = j

\* What was reported of a token is so in the list.
Agrees(s, r, on, off) == /\ r \in on => Tokens!Valid(s, r)
                         /\ r \in off => ~Tokens!Valid(s, r) /\ r \in Tokens!Drawn(s)

\* s becomes t by an operation that draws the tokens in "out" and revokes those in "off".
Becomes(s, t, out, off) ==
    /\ GoodList(t)
    /\ Tokens!Drawn(s) \subseteq Tokens!Drawn(t)
    /\ \A r \in out : Tokens!Valid(t, r) /\ r \notin Tokens!Drawn(s)
    /\ \A r \in off : ~Tokens!Valid(t, r) /\ r \in Tokens!Drawn(t)
    /\ \A r : r \notin out \cup off => (Tokens!Valid(t, r) <=> Tokens!Valid(s, r))

LEMMA SameBecomes == ASSUME NEW s, GoodList(s) PROVE Becomes(s, s, {}, {})
BY DEF Becomes

LEMMA AppendBecomes ==
    ASSUME NEW s, GoodList(s), NEW n \in Names, NEW r \in Raws, r \notin Tokens!Drawn(s)
    PROVE  Becomes(s, Append(s, [name |-> n, raw |-> r, revoked |-> FALSE]), {r}, {})
<1> DEFINE x == [name |-> n, raw |-> r, revoked |-> FALSE]
           t == Append(s, x)
<1>1. x \in Tokens!Token /\ x.raw = r /\ ~x.revoked
  BY DEF Tokens!Token
<1> HIDE DEF x
<1>2. /\ t \in Seq(Tokens!Token) /\ Len(s) \in Nat
      /\ DOMAIN s = 1..Len(s) /\ DOMAIN t = 1..(Len(s) + 1)
      /\ \A i \in 1..Len(s) : t[i] = s[i]
      /\ t[Len(s) + 1] = x
  BY <1>1 DEF GoodList
<1> HIDE DEF t
<1>3. \A i \in DOMAIN s : s[i].raw # r
  BY DEF Tokens!Drawn
<1>4. GoodList(t)
  BY <1>1, <1>2, <1>3 DEF GoodList
<1>5. Tokens!Drawn(s) \subseteq Tokens!Drawn(t)
  BY <1>2 DEF Tokens!Drawn
<1>6. Tokens!Valid(t, r)
  BY <1>1, <1>2 DEF Tokens!Valid
<1>7. ASSUME NEW q, q # r PROVE Tokens!Valid(t, q) <=> Tokens!Valid(s, q)
  BY <1>1, <1>2, <1>7 DEF Tokens!Valid
<1> QED BY <1>4, <1>5, <1>6, <1>7 DEF Becomes, t, x

LEMMA RevokedBecomes ==
    ASSUME NEW s, GoodList(s), NEW i \in DOMAIN s
    PROVE  Becomes(s, Tokens!Revoked(s, i), {}, {s[i].raw})
<1> PICK t : t = Tokens!Revoked(s, i)
  OBVIOUS
<1>1. s[i] \in Tokens!Token /\ Len(s) \in Nat /\ DOMAIN s = 1..Len(s)
  BY DEF GoodList
<1>2. [s[i] EXCEPT !.revoked = TRUE] \in Tokens!Token
  BY <1>1 DEF Tokens!Token
<1>3. /\ t = [s EXCEPT ![i] = [s[i] EXCEPT !.revoked = TRUE]]
      /\ t \in Seq(Tokens!Token) /\ DOMAIN t = DOMAIN s
  BY <1>2 DEF Tokens!Revoked, GoodList
<1>4. /\ \A j \in DOMAIN s : t[j].raw = s[j].raw /\ (j # i => t[j] = s[j])
      /\ t[i].revoked
  BY <1>1, <1>3 DEF GoodList, Tokens!Token
<1>5. GoodList(t)
  BY <1>3, <1>4 DEF GoodList
<1>6. Tokens!Drawn(s) \subseteq Tokens!Drawn(t) /\ s[i].raw \in Tokens!Drawn(t)
  BY <1>3, <1>4 DEF Tokens!Drawn
<1>7. ~Tokens!Valid(t, s[i].raw)
  BY <1>3, <1>4 DEF Tokens!Valid, GoodList
<1>8. ASSUME NEW q, q # s[i].raw PROVE Tokens!Valid(t, q) <=> Tokens!Valid(s, q)
  BY <1>3, <1>4, <1>8 DEF Tokens!Valid
<1> QED BY <1>5, <1>6, <1>7, <1>8 DEF Becomes

-----------------------------------------------------------------------------
(* Tokens: the invariant                                                   *)

Typed == /\ copy \in [Procs -> Seq(Tokens!Token) \cup {NoState}]
         /\ check \in [Procs -> Tokens!Check \cup {NoCheck}]
         /\ live \subseteq Raws /\ dead \subseteq Raws

\* The file, and every copy but the stale ones, agree with what was reported.
InFile == GoodList(file) /\ \A r \in Raws : Agrees(file, r, live, dead)
InCopies == \A p \in Procs : Tokens!Running(p) =>
               /\ GoodList(copy[p])
               /\ \A r \in Raws : <<p, r>> \notin stale => Agrees(copy[p], r, live, dead)

TokenInv == Typed /\ InFile /\ InCopies /\ Tokens!AnswersAsTold

\* Whatever comes of a save, what was reported agrees with the file and the copies.
LEMMA SaveKeeps ==
    ASSUME TokenInv, NEW p \in Procs, NEW s, NEW out \in SUBSET Raws, NEW off \in SUBSET Raws,
           Tokens!Running(p), Becomes(copy[p], s, out, off), out \cap off = {},
           out \cap Tokens!Drawn(file) = {},
           Tokens!Save(p, s, out, off)
    PROVE  /\ copy' \in [Procs -> Seq(Tokens!Token) \cup {NoState}]
           /\ \A q \in Procs \ {p} : copy'[q] = copy[q]
           /\ live' \subseteq Raws /\ dead' \subseteq Raws
           /\ InFile' /\ InCopies'
<1> USE DEF TokenInv, Typed, Tokens!Running
<1>1. /\ GoodList(copy[p]) /\ GoodList(s) /\ GoodList(file)
      /\ copy[p] \in Seq(Tokens!Token) /\ s \in Seq(Tokens!Token) /\ file \in Seq(Tokens!Token)
  BY DEF InCopies, InFile, Becomes, GoodList
<1>2. \A r \in out : r \notin dead
  BY DEF InFile, Agrees
<1>3. ASSUME NEW t, Tokens!Put(p, t), t \in Seq(Tokens!Token)
      PROVE  /\ copy' \in [Procs -> Seq(Tokens!Token) \cup {NoState}]
             /\ copy'[p] = t
             /\ \A q \in Procs \ {p} : copy'[q] = copy[q]
  BY <1>3 DEF Tokens!Put
<1>4. CASE Tokens!Written(p, s, out, off)
  <2> DEFINE lost == {r \in Raws : <<p, r>> \in stale}
  <2>1. /\ file' = s /\ Tokens!Put(p, s)
        /\ live' = (live \ (lost \cup off)) \cup out
        /\ dead' = (dead \ lost) \cup off
    BY <1>4 DEF Tokens!Written
  <2>2. ASSUME NEW r \in Raws PROVE (r \in live' => Tokens!Valid(s, r))
                                  /\ (r \in dead' => ~Tokens!Valid(s, r) /\ r \in Tokens!Drawn(s))
    <3>1. CASE r \in out \cup off
      BY <1>2, <2>1, <3>1 DEF Becomes
    <3>2. CASE r \notin out \cup off
      <4>1. r \in live' \/ r \in dead' => <<p, r>> \notin stale
        BY <2>1, <3>2
      <4>2. Tokens!Valid(s, r) <=> Tokens!Valid(copy[p], r)
        BY <3>2 DEF Becomes
      <4>3. r \in Tokens!Drawn(copy[p]) => r \in Tokens!Drawn(s)
        BY DEF Becomes
      <4> QED BY <2>1, <3>2, <4>1, <4>2, <4>3 DEF InCopies, Agrees
    <3> QED BY <3>1, <3>2
  <2>3. InFile'
    <3>1. GoodList(file')
      BY <1>1, <2>1
    <3>2. \A r \in Raws : Agrees(file', r, live', dead')
      BY <2>1, <2>2 DEF Agrees
    <3> QED BY <3>1, <3>2 DEF InFile
  <2>4. ASSUME NEW q \in Procs \ {p}, Tokens!Running(q), NEW r \in Raws, <<q, r>> \notin stale'
        PROVE  (r \in live' => Tokens!Valid(copy[q], r))
               /\ (r \in dead' => ~Tokens!Valid(copy[q], r) /\ r \in Tokens!Drawn(copy[q]))
    <3>1. r \notin out \cup off
      BY <1>4, <2>4 DEF Tokens!Written
    <3>2. r \in lost \/ <<q, r>> \notin stale
      BY <1>4, <2>4 DEF Tokens!Written
    <3> QED BY <2>1, <2>4, <3>1, <3>2 DEF InCopies, Agrees
  <2>5. InCopies'
    <3>1. ASSUME NEW q \in Procs, copy'[q] # NoState, NEW r \in Raws, <<q, r>> \notin stale'
          PROVE  GoodList(copy'[q]) /\ Agrees(copy'[q], r, live', dead')
      <4>1. CASE q = p
        BY <1>1, <1>3, <2>1, <2>2, <4>1 DEF Agrees
      <4>2. CASE q # p
        BY <1>1, <1>3, <2>1, <2>4, <3>1, <4>2 DEF InCopies, Agrees
      <4> QED BY <4>1, <4>2
    <3>2. ASSUME NEW q \in Procs, copy'[q] # NoState PROVE GoodList(copy'[q])
      BY <1>1, <1>3, <2>1, <3>2 DEF InCopies
    <3> QED BY <3>1, <3>2 DEF InCopies
  <2> QED BY <1>1, <1>3, <2>1, <2>3, <2>5
<1>5. CASE Tokens!ReadBack(p)
  <2>1. /\ file' = file /\ live' = live /\ dead' = dead /\ Tokens!Put(p, file)
        /\ \A q \in Procs \ {p}, r \in Raws : (<<q, r>> \notin stale' => <<q, r>> \notin stale)
    BY <1>5 DEF Tokens!ReadBack, Tokens!Forget
  <2>2. InFile'
    BY <2>1 DEF InFile, Agrees
  <2>3. \A r \in Raws : Agrees(file, r, live, dead)
    BY DEF InFile
  <2>4. ASSUME NEW q \in Procs, copy'[q] # NoState PROVE GoodList(copy'[q])
    BY <1>1, <1>3, <2>1, <2>4 DEF InCopies
  <2>5. ASSUME NEW q \in Procs, copy'[q] # NoState, NEW r \in Raws, <<q, r>> \notin stale'
        PROVE  Agrees(copy'[q], r, live', dead')
    <3>1. Agrees(copy'[q], r, live', dead')
      BY <1>1, <1>3, <2>1, <2>3, <2>5 DEF InCopies
    <3> QED BY <2>1, <3>1 DEF Agrees
  <2>6. InCopies'
    BY <2>4, <2>5 DEF InCopies
  <2> QED BY <1>1, <1>3, <2>1, <2>2, <2>6
<1>6. CASE Tokens!Kept(p, s, off)
  <2>1. /\ file' = file /\ live' = live \ off /\ dead' = dead /\ Tokens!Put(p, s) /\ stale' = stale
    BY <1>6 DEF Tokens!Kept
  <2>2. InFile'
    BY <2>1 DEF InFile, Agrees
  <2>3. ASSUME NEW r \in Raws, <<p, r>> \notin stale
        PROVE  (r \in live' => Tokens!Valid(s, r))
               /\ (r \in dead' => ~Tokens!Valid(s, r) /\ r \in Tokens!Drawn(s))
    <3>1. Agrees(copy[p], r, live, dead)
      BY <2>3 DEF InCopies
    <3>2. CASE r \in out \cup off
      BY <1>2, <2>1, <3>2 DEF Becomes
    <3>3. CASE r \notin out \cup off
      BY <2>1, <3>1, <3>3 DEF Becomes, Agrees
    <3> QED BY <3>2, <3>3
  <2>4. ASSUME NEW q \in Procs, copy'[q] # NoState PROVE GoodList(copy'[q])
    BY <1>1, <1>3, <2>1, <2>4 DEF InCopies
  <2>5. ASSUME NEW q \in Procs, copy'[q] # NoState, NEW r \in Raws, <<q, r>> \notin stale'
        PROVE  Agrees(copy'[q], r, live', dead')
    <3>1. CASE q = p
      BY <1>1, <1>3, <2>1, <2>3, <2>5, <3>1 DEF Agrees
    <3>2. CASE q # p
      BY <1>1, <1>3, <2>1, <2>5, <3>2 DEF InCopies, Agrees
    <3> QED BY <3>1, <3>2
  <2>6. InCopies'
    BY <2>4, <2>5 DEF InCopies
  <2> QED BY <1>1, <1>3, <2>1, <2>2, <2>6
<1> QED BY <1>4, <1>5, <1>6 DEF Tokens!Save

LEMMA InitTokens == Tokens!Init => TokenInv
<1> SUFFICES ASSUME Tokens!Init PROVE TokenInv
  OBVIOUS
<1>1. /\ file = <<>> /\ copy = [p \in Procs |-> NoState] /\ check = [p \in Procs |-> NoCheck]
      /\ live = {} /\ dead = {}
  BY DEF Tokens!Init
<1>2. Typed
  BY <1>1 DEF Typed
<1>3. GoodList(<<>>)
  BY DEF GoodList
<1>4. InFile
  BY <1>1, <1>3 DEF InFile, Agrees
<1>5. InCopies /\ Tokens!AnswersAsTold
  BY <1>1 DEF InCopies, Tokens!AnswersAsTold, Tokens!Running
<1> QED BY <1>2, <1>4, <1>5 DEF TokenInv

\* A process that saves something without an open validation, or ends one by it.
LEMMA SavingKeeps ==
    ASSUME TokenInv, NEW p \in Procs, NEW s, NEW out \in SUBSET Raws, NEW off \in SUBSET Raws,
           Tokens!Running(p), Becomes(copy[p], s, out, off), out \cap off = {},
           out \cap Tokens!Drawn(file) = {},
           Tokens!Save(p, s, out, off),
           check' \in [Procs -> Tokens!Check \cup {NoCheck}], check'[p] = NoCheck,
           \A q \in Procs \ {p} : check'[q] = check[q]
    PROVE  TokenInv'
<1>1. /\ copy' \in [Procs -> Seq(Tokens!Token) \cup {NoState}]
      /\ \A q \in Procs \ {p} : copy'[q] = copy[q]
      /\ live' \subseteq Raws /\ dead' \subseteq Raws
      /\ InFile' /\ InCopies'
  BY SaveKeeps
<1>2. Tokens!AnswersAsTold'
  BY DEF TokenInv, Tokens!AnswersAsTold
<1> QED BY <1>1, <1>2 DEF TokenInv, Typed

\* A process puts another copy in place of its own, or none.
LEMMA PuttingKeeps ==
    ASSUME TokenInv, NEW p \in Procs, NEW s, Tokens!Put(p, s), UNCHANGED <<file, live, dead>>,
           s \in {NoState, copy[p], file},
           \A q \in Procs, r \in Raws :
              q # p \/ s \notin {file, NoState} => (<<q, r>> \notin stale' => <<q, r>> \notin stale)
    PROVE  /\ copy' \in [Procs -> Seq(Tokens!Token) \cup {NoState}]
           /\ InFile' /\ InCopies'
<1> USE DEF TokenInv, Typed, Tokens!Running
<1>1. s \in Seq(Tokens!Token) \cup {NoState}
  BY DEF InFile, GoodList
<1>2. /\ copy' \in [Procs -> Seq(Tokens!Token) \cup {NoState}]
      /\ copy'[p] = s
      /\ \A q \in Procs \ {p} : copy'[q] = copy[q]
  BY <1>1 DEF Tokens!Put
<1>3. InFile'
  BY DEF InFile, Agrees
<1>4. ASSUME NEW q \in Procs, copy'[q] # NoState PROVE GoodList(copy'[q])
  BY <1>2, <1>4 DEF InCopies, InFile
<1>5. ASSUME NEW q \in Procs, copy'[q] # NoState, NEW r \in Raws, <<q, r>> \notin stale'
      PROVE  Agrees(copy'[q], r, live', dead')
  <2>1. CASE q = p /\ s = file
    BY <1>2, <2>1 DEF InFile
  <2>2. CASE ~(q = p /\ s = file)
    <3>1. <<q, r>> \notin stale /\ copy'[q] = copy[q]
      BY <1>2, <1>5, <2>2
    <3> QED BY <1>5, <3>1 DEF InCopies
  <2> QED BY <2>1, <2>2
<1> QED BY <1>2, <1>3, <1>4, <1>5 DEF InCopies

LEMMA StepTokens == ASSUME TokenInv, Tokens!Next PROVE TokenInv'
<1> Typed /\ InFile /\ InCopies /\ Tokens!AnswersAsTold
  BY DEF TokenInv
<1>0. ASSUME NEW p \in Procs, Tokens!Free(p) PROVE Tokens!Running(p) /\ GoodList(copy[p])
  BY <1>0 DEF Tokens!Free, InCopies
<1>1. ASSUME NEW p \in Procs, Tokens!Open(p) PROVE TokenInv'
  <2>1. /\ Tokens!Put(p, file) /\ copy[p] = NoState
        /\ UNCHANGED <<file, check, live, dead, stale>>
    BY <1>1 DEF Tokens!Open, Tokens!Running
  <2>2. /\ copy' \in [Procs -> Seq(Tokens!Token) \cup {NoState}]
        /\ InFile' /\ InCopies'
    BY <2>1, PuttingKeeps DEF InFile
  <2>3. Tokens!AnswersAsTold'
    BY <2>1 DEF Tokens!AnswersAsTold
  <2> QED BY <2>1, <2>2, <2>3 DEF Typed, TokenInv
<1>2. ASSUME NEW p \in Procs, Tokens!Exit(p) PROVE TokenInv'
  <2>1. /\ Tokens!Put(p, NoState) /\ check' = [check EXCEPT ![p] = NoCheck]
        /\ UNCHANGED <<file, live, dead>>
        /\ \A q \in Procs \ {p}, r \in Raws : (<<q, r>> \notin stale' => <<q, r>> \notin stale)
    BY <1>2 DEF Tokens!Exit, Tokens!Forget
  <2>2. copy[p] # NoState
    BY <1>2 DEF Tokens!Exit, Tokens!Running
  <2>3. /\ copy' \in [Procs -> Seq(Tokens!Token) \cup {NoState}]
        /\ InFile' /\ InCopies'
    BY <2>1, <2>2, PuttingKeeps
  <2>4. /\ check' \in [Procs -> Tokens!Check \cup {NoCheck}]
        /\ check'[p] = NoCheck /\ \A q \in Procs \ {p} : check'[q] = check[q]
    BY <2>1 DEF Typed
  <2>5. Tokens!AnswersAsTold'
    BY <2>4 DEF Tokens!AnswersAsTold
  <2> QED BY <2>1, <2>3, <2>4, <2>5 DEF Typed, TokenInv
<1>3. ASSUME NEW p \in Procs, Tokens!SaveOther(p) PROVE TokenInv'
  <2>1. Tokens!Running(p) /\ GoodList(copy[p]) /\ check[p] = NoCheck /\ check' = check
    BY <1>0, <1>3 DEF Tokens!SaveOther, Tokens!Free
  <2>2. Tokens!Save(p, copy[p], {}, {})
    BY <1>3 DEF Tokens!SaveOther
  <2>3. check' \in [Procs -> Tokens!Check \cup {NoCheck}]
    BY <2>1 DEF Typed
  <2>4. Becomes(copy[p], copy[p], {}, {})
    BY <2>1, SameBecomes
  <2> QED BY <2>1, <2>2, <2>3, <2>4, SavingKeeps
<1>4. ASSUME NEW p \in Procs, Tokens!CreateToken(p) PROVE TokenInv'
  <2>1. PICK n \in Names, r \in Tokens!Fresh :
          Tokens!Save(p, Append(copy[p], [name |-> n, raw |-> r, revoked |-> FALSE]), {r}, {})
    BY <1>4 DEF Tokens!CreateToken
  <2>2. Tokens!Running(p) /\ GoodList(copy[p]) /\ check[p] = NoCheck /\ check' = check
    BY <1>0, <1>4 DEF Tokens!CreateToken, Tokens!Free
  <2>3. r \in Raws /\ r \notin Tokens!Drawn(file) /\ r \notin Tokens!Drawn(copy[p])
    BY <2>2 DEF Tokens!Fresh
  <2>4. Becomes(copy[p], Append(copy[p], [name |-> n, raw |-> r, revoked |-> FALSE]), {r}, {})
    BY <2>2, <2>3, AppendBecomes
  <2>5. check' \in [Procs -> Tokens!Check \cup {NoCheck}]
    BY <2>2 DEF Typed
  <2> QED BY <2>1, <2>2, <2>3, <2>4, <2>5, SavingKeeps
<1>5. ASSUME NEW p \in Procs, Tokens!RevokeToken(p) PROVE TokenInv'
  <2>1. PICK i \in DOMAIN copy[p] :
          Tokens!Save(p, Tokens!Revoked(copy[p], i), {}, {copy[p][i].raw})
    BY <1>5 DEF Tokens!RevokeToken
  <2>2. Tokens!Running(p) /\ GoodList(copy[p]) /\ check[p] = NoCheck /\ check' = check
    BY <1>0, <1>5 DEF Tokens!RevokeToken, Tokens!Free
  <2>3. copy[p][i].raw \in Raws
    <3>1. copy[p] \in Seq(Tokens!Token)
      BY <2>2 DEF GoodList
    <3>2. copy[p][i] \in Tokens!Token
      BY <3>1
    <3> QED BY <3>2 DEF Tokens!Token
  <2>4. Becomes(copy[p], Tokens!Revoked(copy[p], i), {}, {copy[p][i].raw})
    BY <2>2, RevokedBecomes
  <2>5. check' \in [Procs -> Tokens!Check \cup {NoCheck}]
    BY <2>2 DEF Typed
  <2> QED BY <2>1, <2>2, <2>3, <2>4, <2>5, SavingKeeps
<1>6. ASSUME NEW p \in Procs, Tokens!ValidateTokenRecord(p) PROVE TokenInv'
  <2>1. PICK r \in Raws, read \in BOOLEAN, scope \in BOOLEAN :
          /\ Tokens!Put(p, Tokens!Latest(p, read))
          /\ IF read THEN Tokens!Forget(p) ELSE UNCHANGED stale
          /\ check' = [check EXCEPT ![p] =
                         [read |-> read, scope |-> scope, was |-> Tokens!Told(r),
                          ok |-> scope /\ Tokens!Valid(Tokens!Latest(p, read), r)]]
    BY <1>6 DEF Tokens!ValidateTokenRecord
  <2>2. UNCHANGED <<file, live, dead>> /\ Tokens!Running(p)
    BY <1>6 DEF Tokens!ValidateTokenRecord, Tokens!Free
  <2>3. \A q \in Procs, x \in Raws :
           q # p \/ ~read => (<<q, x>> \notin stale' => <<q, x>> \notin stale)
    BY <2>1 DEF Tokens!Forget
  <2> DEFINE new == [read |-> read, scope |-> scope, was |-> Tokens!Told(r),
                     ok |-> scope /\ Tokens!Valid(Tokens!Latest(p, read), r)]
  <2>4. /\ copy' \in [Procs -> Seq(Tokens!Token) \cup {NoState}]
        /\ InFile' /\ InCopies'
    <3>1. CASE read
      <4>1. Tokens!Put(p, file)
        BY <2>1, <3>1 DEF Tokens!Latest
      <4> QED BY <2>2, <2>3, <4>1, PuttingKeeps
    <3>2. CASE ~read
      <4>1. Tokens!Put(p, copy[p])
        BY <2>1, <3>2 DEF Tokens!Latest
      <4> QED BY <2>2, <2>3, <3>2, <4>1, PuttingKeeps
    <3> QED BY <3>1, <3>2
  <2>5. new \in Tokens!Check
    <3>1. Tokens!Told(r) \in {"live", "dead", "unknown"}
      BY DEF Tokens!Told
    <3> QED BY <3>1 DEF Tokens!Check
  <2>6. /\ check' \in [Procs -> Tokens!Check \cup {NoCheck}]
        /\ check'[p] = new /\ \A q \in Procs \ {p} : check'[q] = check[q]
    BY <2>1, <2>5 DEF Typed
  <2>7. new.read => /\ new.was = "dead" => ~new.ok
                    /\ new.was = "live" /\ new.scope => new.ok
    BY DEF InFile, Agrees, Tokens!Told, Tokens!Latest
  <2> HIDE DEF new
  <2>8. Tokens!AnswersAsTold'
    BY <2>6, <2>7 DEF Tokens!AnswersAsTold
  <2> QED BY <2>2, <2>4, <2>6, <2>8 DEF Typed, TokenInv
<1>7. ASSUME NEW p \in Procs, Tokens!Answer(p) PROVE TokenInv'
  <2>1. /\ Tokens!Running(p) /\ GoodList(copy[p])
        /\ check' \in [Procs -> Tokens!Check \cup {NoCheck}]
        /\ check'[p] = NoCheck /\ \A q \in Procs \ {p} : check'[q] = check[q]
    BY <1>7 DEF Tokens!Answer, InCopies, Typed
  <2>2. CASE Tokens!Save(p, copy[p], {}, {})
    BY <2>1, <2>2, SameBecomes, SavingKeeps
  <2>3. CASE UNCHANGED <<file, copy, live, dead, stale>>
    <3>1. InFile' /\ InCopies'
      BY <2>3 DEF InFile, InCopies, Agrees, Tokens!Running
    <3>2. Tokens!AnswersAsTold'
      BY <2>1, <2>3 DEF Tokens!AnswersAsTold
    <3> QED BY <2>1, <2>3, <3>1, <3>2 DEF Typed, TokenInv
  <2> QED BY <1>7, <2>2, <2>3 DEF Tokens!Answer
<1> QED BY <1>1, <1>2, <1>3, <1>4, <1>5, <1>6, <1>7 DEF Tokens!Next

\* store.go:712-761: whatever any number of processes do, fail and overwrite, a token is
\* accepted and refused as was reported of it, until an older copy is written back.
THEOREM ToldHolds == SpecEither => []AnswersAsTold
<1> DEFINE Held == file # Rests => TokenInv
<1>1. InitEither => Held
  BY InitTokens DEF InitEither, TokensRest
<1>2. Held /\ [NextEither]_<<vars, tokens>> => Held'
  <2>1. CASE file # Rests /\ Tokens!Next /\ TokenInv
    BY <2>1, StepTokens
  <2>2. CASE UNCHANGED tokens
    BY <2>2 DEF tokens, TokenInv, Typed, InFile, InCopies, Tokens!AnswersAsTold,
                Tokens!Running, Agrees
  <2> QED BY <2>1, <2>2 DEF NextEither, tokens
<1>3. Held => AnswersAsTold
  BY DEF AnswersAsTold, TokenInv
<1> QED BY <1>1, <1>2, <1>3, PTL DEF SpecEither
=============================================================================
