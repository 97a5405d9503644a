----------------------------- MODULE KeyRotation -----------------------------
(***************************************************************************)
(* Provider keys in the state store (internal/store/store.go): the key set *)
(* of one provider, its rotation, and the file it lives in.                *)
(*                                                                         *)
(* The state is one JSON file.  Every process (the gateway, each command)  *)
(* loads a copy, changes it under a mutex of its own and replaces the      *)
(* whole file; nothing locks the file between processes, so the last       *)
(* writer wins.  A save can fail, and then the copy is read back.          *)
(***************************************************************************)
EXTENDS Naturals

CONSTANTS Procs,    \* processes that open the store
          KeyIds,   \* identities of key records: random, never drawn twice
          NoKey,    \* an empty key identity
          NoState   \* copy of a process that is not running

ASSUME KeyAssumption == NoKey \notin KeyIds

VARIABLES disk,  \* the file
          mem    \* each process's copy

vars == <<disk, mem>>

Statuses == {"unused", "active", "pending", "previous", "revoked"}
Usable == {"active", "pending", "previous"}

\* A provider's part of the state: ProviderKeySet, its records by identity, and the
\* key cached in ProviderKeys.
State == [status : [KeyIds -> Statuses], verified : SUBSET KeyIds,
          active : KeyIds \cup {NoKey}, pending : KeyIds \cup {NoKey},
          previous : KeyIds \cup {NoKey}, cache : KeyIds \cup {NoKey}]

Empty == [status |-> [k \in KeyIds |-> "unused"], verified |-> {}, active |-> NoKey,
          pending |-> NoKey, previous |-> NoKey, cache |-> NoKey]

TypeOK == /\ disk \in State
          /\ mem \in [Procs -> State \cup {NoState}]

Running(p) == mem[p] # NoState

\* generateKeyID: an identity in no copy and not in the file.
Drawn(s) == {k \in KeyIds : s.status[k] # "unused"} \cup {s.cache}
Fresh == KeyIds \ (Drawn(disk) \cup UNION {Drawn(mem[p]) : p \in {q \in Procs : Running(q)}})

-----------------------------------------------------------------------------
(* Operations on a copy                                                    *)

\* A file from before key sets holds only the cached key.
Migrate(s, k) ==
    IF s.cache # NoKey /\ \A x \in KeyIds : s.status[x] = "unused"
    THEN [s EXCEPT !.status[k] = "active", !.verified = {k}, !.active = k, !.cache = k]
    ELSE [s EXCEPT !.cache = s.active]

SetKey(s, k) ==
    [status |-> [x \in KeyIds |-> IF x = k THEN "active"
                                  ELSE IF s.status[x] \in Usable THEN "revoked"
                                  ELSE s.status[x]],
     verified |-> s.verified \cup {k},
     active |-> k, pending |-> NoKey, previous |-> NoKey, cache |-> k]

StartRotation(s, k) == [s EXCEPT !.status[k] = "pending", !.pending = k]

\* Fault: the pending key stays pending.
CommitHalf(s, keep) ==
    [s EXCEPT !.status = [x \in KeyIds |-> IF x = s.pending THEN "active" ELSE
                                           IF x = s.active THEN "previous" ELSE s.status[x]],
              !.previous = s.active, !.active = s.pending, !.cache = s.pending]

\* The key that was active is kept for a while or revoked at once.
CommitRotation(s, keep) ==
    [s EXCEPT !.status = [x \in KeyIds |->
                            IF x = s.pending THEN "active"
                            ELSE IF x # s.active THEN s.status[x]
                            ELSE IF keep THEN "previous" ELSE "revoked"],
              !.previous = IF s.active = NoKey THEN @ ELSE IF keep THEN s.active ELSE NoKey,
              !.active = s.pending, !.pending = NoKey, !.cache = s.pending]

SwapPrevious(s) ==
    [s EXCEPT !.status[s.active] = "previous", !.status[s.previous] = "active",
              !.active = s.previous, !.previous = s.active, !.cache = s.previous]

Cleared(pointer, k) == IF pointer = k THEN NoKey ELSE pointer

\* Fault: the pointers to the revoked record stay.
RevokeRecordOnly(s, k) == [s EXCEPT !.status[k] = "revoked"]

RevokeRecord(s, k) ==
    [s EXCEPT !.status[k] = "revoked", !.pending = Cleared(@, k), !.previous = Cleared(@, k)]

-----------------------------------------------------------------------------
(* Processes                                                               *)

\* The end of an operation: the file is replaced; or the save fails and the copy is
\* read back; or it fails and cannot be read back (the file is gone or unreadable).
Save(p, s) == \/ mem' = [mem EXCEPT ![p] = s] /\ disk' = s
              \/ mem' = [mem EXCEPT ![p] = disk] /\ disk' = disk
              \/ mem' = [mem EXCEPT ![p] = s] /\ disk' = disk

\* A process starts: it loads the file, and migrates and saves an old one.
Open(p) ==
    /\ ~Running(p)
    /\ \E k \in Fresh \cup {NoKey} :
         /\ k = NoKey => disk.cache = disk.active
         /\ LET s == IF k = NoKey THEN disk ELSE Migrate(disk, k)
            IN disk' = s /\ mem' = [mem EXCEPT ![p] = s]

\* A process ends or dies; an interrupted save leaves the file as it was.
Exit(p) == /\ Running(p)
           /\ mem' = [mem EXCEPT ![p] = NoState]
           /\ UNCHANGED disk

\* Validating a token reads the file again.
Reload(p) == /\ Running(p)
             /\ mem' = [mem EXCEPT ![p] = disk]
             /\ UNCHANGED disk

\* Any other change of the state (tokens, usage, grants, receipts) saves all of it.
SaveOther(p) == Running(p) /\ Save(p, mem[p])

SetProviderKey(p) == /\ Running(p)
                     /\ \E k \in Fresh : Save(p, SetKey(mem[p], k))

RotateStart(p) == /\ Running(p)
                  /\ mem[p].pending = NoKey
                  /\ \E k \in Fresh : Save(p, StartRotation(mem[p], k))

RotateVerify(p) == /\ Running(p)
                   /\ mem[p].pending # NoKey
                   /\ Save(p, [mem[p] EXCEPT !.verified = @ \cup {mem[p].pending}])

RotateCommit(p) == /\ Running(p)
                   /\ mem[p].pending \in mem[p].verified
                   /\ \E keep \in BOOLEAN : Save(p, CommitRotation(mem[p], keep))

RotateRollback(p) == /\ Running(p)
                     /\ mem[p].previous # NoKey /\ mem[p].active # NoKey
                     /\ Save(p, SwapPrevious(mem[p]))

RevokePrevious(p) == /\ Running(p)
                     /\ mem[p].previous # NoKey
                     /\ Save(p, RevokeRecord(mem[p], mem[p].previous))

RevokeKey(p) ==
    /\ Running(p)
    /\ \E k \in KeyIds : /\ mem[p].status[k] # "unused" /\ mem[p].active # k
                         /\ Save(p, RevokeRecord(mem[p], k))

\* No file, or one of an old version.
Init == /\ disk \in {Empty} \cup {[Empty EXCEPT !.cache = k] : k \in KeyIds}
        /\ mem = [p \in Procs |-> NoState]

Next == \E p \in Procs :
          \/ Open(p) \/ Exit(p) \/ Reload(p) \/ SaveOther(p)
          \/ SetProviderKey(p) \/ RotateStart(p) \/ RotateVerify(p) \/ RotateCommit(p)
          \/ RotateRollback(p) \/ RevokePrevious(p) \/ RevokeKey(p)

Spec == Init /\ [][Next]_vars

-----------------------------------------------------------------------------
(* Properties                                                              *)

\* One key is served: the one the set calls active is the only active record, it was
\* verified, and it is what the cache holds; likewise for the pending key.  A previous
\* key can be rolled back to.
KeysAgree(s) ==
    /\ \A k \in KeyIds : s.status[k] = "active" <=> k = s.active
    /\ \A k \in KeyIds : s.status[k] = "pending" <=> k = s.pending
    /\ s.previous # NoKey => s.status[s.previous] = "previous" /\ s.previous \in s.verified
    /\ s.active # NoKey => s.active \in s.verified
    /\ s.cache = s.active

Legacy(s) == s = [Empty EXCEPT !.cache = s.cache]

\* Whatever the processes interleave, fail and overwrite, the file and every copy hold
\* a consistent key set.
KeySetConsistent ==
    /\ KeysAgree(disk) \/ Legacy(disk)
    /\ \A p \in Procs : Running(p) => KeysAgree(mem[p])

\* Nobody knows the key as anything but revoked.
Gone(k) == disk.status[k] = "revoked" /\ \A p \in Procs : Running(p) => mem[p].status[k] = "revoked"

\* A revoked key is never usable again, by whatever sequence of commands, failed saves and
\* restarts of any process, once no process holds a copy older than the revocation: such a
\* copy may still be written back, which README.md:313 warns of.
RevokedForGood == [][\A k \in KeyIds : Gone(k) => Gone(k)']_vars
=============================================================================
