--------------------------- MODULE WGEnrollProofs ---------------------------
(***************************************************************************)
(* Theorems about WGEnroll for any set of peers and ranges: nothing is     *)
(* half done without a journal; and, but for what the administrator edits  *)
(* behind the helper's back, other peers are preserved and answers true.   *)
(***************************************************************************)
EXTENDS BerylHost, TLAPS

\* A journal is of a state where file and kernel agreed and Me was not there.
JournalOK(p) == p \in Journals /\ p.original = p.live /\ p.original[Me] = Absent

JournalsOK == \A p \in pendingMay : p # None => JournalOK(p)

\* What the helper knows at each step of what it read before.
HelperOK ==
    /\ pc \in RollingBack \cup {"journal", "config", "set", "confirm"} => JournalOK(j)
    /\ pc \in RollingBack \cup {"config", "set", "confirm"} => pending = j
    /\ pc \in {"config", "set", "confirm"} => None \notin pendingMay
    /\ pc = "unlink" => pending # None /\ confirmed /\ config[Me] = live[Me]
    /\ pc \in {"remove", "compare", "forget"} => \A c \in configMay : c[Me] = Absent
    /\ pc \in {"compare", "forget"} => live[Me] = Absent

\* What it has read first is still so, but for what was edited since.
SeenOK ==
    /\ seen # None => pc \in Looks
    /\ seen # None /\ pc = "compare" => \A o \in Peers \ unseen : seen[o] = live[o]
    /\ seen # None /\ pc # "compare" => \A o \in Peers \ unseen : seen[o] = config[o]

\* And what it acts on is what the journal says, but for what was edited since.
StillThere ==
    /\ pc \in {"journal", "config", "restore"} =>
         \A o \in Others \ unseen : config[o] = j.original[o]
    /\ pc = "forget" =>
         \A o \in Others \ unseen : config[o] = j.original[o] /\ live[o] = j.live[o]

\* If a power failure may lose the journal, what it leaves has been confirmed.
LossOK == None \in pendingMay => \A c \in configMay : c[Me] = Want => confirmed

Agree == pending = None => config[Me] = live[Me]

\* The inductive invariant.
IInv == TypeOK /\ JournalsOK /\ HelperOK /\ SeenOK /\ StillThere /\ LossOK /\ Agree

LEMMA PatchedType ==
    ASSUME NEW c \in Contents
    PROVE  /\ Patched(c) \in Contents /\ Patched(c)[Me] = Want
           /\ \A o \in Others : Patched(c)[o] = c[o]
BY EnrollAssumption DEF Contents, Patched, Peers

LEMMA RemovedType ==
    ASSUME NEW c \in Contents
    PROVE  /\ [c EXCEPT ![Me] = Absent] \in Contents
           /\ [c EXCEPT ![Me] = Absent][Me] = Absent
           /\ \A o \in Others : [c EXCEPT ![Me] = Absent][o] = c[o]
BY EnrollAssumption DEF Contents, Peers

LEMMA EditedType ==
    ASSUME NEW c \in Contents, NEW o \in Others, NEW r \in OtherRanges \cup {Absent}
    PROVE  [c EXCEPT ![o] = r] \in Contents /\ [c EXCEPT ![o] = r][Me] = c[Me]
BY EnrollAssumption DEF Contents, Peers

LEMMA WantAbsent == Want # Absent
BY EnrollAssumption

LEMMA InitIInv == Init => IInv
<1> SUFFICES ASSUME Init PROVE IInv
  OBVIOUS
<1>1. TypeOK
  BY DEF Init, TypeOK, Contents, Steps, RollingBack, Looks, Answers
<1>2. JournalsOK /\ HelperOK /\ SeenOK /\ StillThere /\ LossOK /\ Agree
  BY DEF Init, JournalsOK, HelperOK, SeenOK, StillThere, LossOK, Agree, RollingBack, Looks
<1> QED BY <1>1, <1>2 DEF IInv

LEMMA BeginStep == IInv /\ Begin => IInv'
<1> SUFFICES ASSUME IInv, Begin PROVE IInv'
  OBVIOUS
<1> QED BY DEF IInv, Begin, TypeOK, JournalsOK, HelperOK, SeenOK, StillThere, LossOK, Agree,
            files, Steps, RollingBack, Looks, Answers, JournalOK

LEMMA ReadFirstStep == IInv /\ ReadFirst => IInv'
<1> SUFFICES ASSUME IInv, ReadFirst PROVE IInv'
  OBVIOUS
<1>1. TypeOK' /\ JournalsOK' /\ HelperOK' /\ LossOK' /\ Agree'
  BY DEF IInv, ReadFirst, files, TypeOK, JournalsOK, HelperOK, LossOK, Agree, JournalOK
<1>2. SeenOK' /\ StillThere'
  BY DEF IInv, ReadFirst, files, SeenOK, StillThere, Looks
<1> QED BY <1>1, <1>2 DEF IInv

LEMMA RecoverStep == IInv /\ Recover => IInv'
<1> SUFFICES ASSUME IInv, Recover PROVE IInv'
  OBVIOUS
<1>1. pending # None => JournalOK(pending)
  BY DEF IInv, TypeOK, JournalsOK
<1>2. TypeOK'
  BY <1>1 DEF IInv, TypeOK, Recover, Goto, files, Steps, RollingBack, Looks, JournalOK
<1>3. JournalsOK' /\ LossOK' /\ Agree'
  BY DEF IInv, Recover, files, JournalsOK, LossOK, Agree, JournalOK
<1>4. HelperOK' /\ SeenOK' /\ StillThere'
  BY <1>1 DEF IInv, Recover, Goto, files, HelperOK, SeenOK, StillThere, RollingBack, Looks, JournalOK
<1> QED BY <1>2, <1>3, <1>4 DEF IInv

LEMMA InspectStep == IInv /\ Inspect => IInv'
<1> SUFFICES ASSUME IInv, Inspect PROVE IInv'
  OBVIOUS
<1>1. /\ config \in Contents /\ live \in Contents /\ seen \in Contents
      /\ pc = "inspect" /\ unseen \subseteq Others /\ UNCHANGED files
  BY DEF IInv, TypeOK, Inspect
<1>2. CASE pc' = "journal"
  <2>1. /\ seen = live /\ j' = [original |-> seen, live |-> live] /\ seen[Me] # Want
        /\ seen' = None /\ UNCHANGED <<live, confirmed, calm, undo, unseen, answer>>
    BY <1>2 DEF Inspect, Return, Goto
  <2>2. JournalOK(j)'
    BY <1>1, <2>1 DEF JournalOK, Journals, Contents
  <2>3. \A o \in Others \ unseen : seen[o] = config[o]
    BY <1>1, EnrollAssumption DEF IInv, SeenOK, Peers, Contents
  <2>4. TypeOK'
    BY <1>1, <1>2, <2>1, <2>2 DEF IInv, TypeOK, files, Steps, RollingBack, JournalOK
  <2>5. JournalsOK' /\ HelperOK' /\ LossOK' /\ Agree'
    BY <1>1, <1>2, <2>1, <2>2 DEF IInv, JournalsOK, HelperOK, LossOK, Agree, files,
       RollingBack, JournalOK
  <2>6. SeenOK' /\ StillThere'
    BY <1>1, <1>2, <2>1, <2>3 DEF SeenOK, StillThere, files
  <2> QED BY <2>4, <2>5, <2>6 DEF IInv
<1>3. CASE pc' # "journal"
  BY <1>3 DEF IInv, Inspect, Return, Goto, TypeOK, JournalsOK, HelperOK, SeenOK,
            StillThere, LossOK, Agree, files, Steps, RollingBack, Looks, Answers, JournalOK
<1> QED BY <1>2, <1>3

LEMMA JournalStep == IInv /\ (Journal \/ JournalFails) => IInv'
<1> SUFFICES ASSUME IInv, Journal \/ JournalFails PROVE IInv'
  OBVIOUS
<1>1. JournalOK(j) /\ j # None /\ pc = "journal"
  BY EnrollAssumption DEF IInv, HelperOK, Journal, JournalFails, JournalOK
<1>2. CASE Journal
  BY <1>1, <1>2 DEF IInv, Journal, WriteJournal, Goto, TypeOK, JournalsOK, HelperOK,
            SeenOK, StillThere, LossOK, Agree, files, Steps, RollingBack, Looks, JournalOK
<1>3. CASE JournalFails
  BY <1>1, <1>3 DEF IInv, JournalFails, Return, TypeOK, JournalsOK, HelperOK,
            SeenOK, StillThere, LossOK, Agree, files, Steps, RollingBack, Looks, Answers, JournalOK
<1> QED BY <1>2, <1>3

LEMMA ConfigureStep == IInv /\ (Configure \/ ConfigureFails) => IInv'
<1> SUFFICES ASSUME IInv, Configure \/ ConfigureFails PROVE IInv'
  OBVIOUS
<1>1. /\ pc = "config" /\ JournalOK(j) /\ j # None /\ pending = j /\ None \notin pendingMay
      /\ j.original \in Contents
  BY EnrollAssumption
  DEF IInv, HelperOK, Configure, ConfigureFails, JournalOK, Journals
<1>2. Patched(j.original) \in Contents
  BY <1>1, PatchedType
<1>3. CASE Configure
  BY <1>1, <1>2, <1>3 DEF IInv, Configure, WriteConfig, Goto, TypeOK, JournalsOK, HelperOK,
            SeenOK, StillThere, LossOK, Agree, Steps, RollingBack, Looks, JournalOK
<1>4. CASE ConfigureFails
  BY <1>1, <1>2, <1>4 DEF IInv, ConfigureFails, WriteConfigFails, RollBack, TypeOK, JournalsOK,
            HelperOK, SeenOK, StillThere, LossOK, Agree, Steps, RollingBack, Looks, JournalOK
<1> QED BY <1>3, <1>4

LEMMA SetStep == IInv /\ Set => IInv'
<1> SUFFICES ASSUME IInv, Set PROVE IInv'
  OBVIOUS
<1>1. pc = "set" /\ JournalOK(j) /\ j # None /\ pending = j /\ None \notin pendingMay
  BY EnrollAssumption DEF IInv, HelperOK, Set, JournalOK
<1>2. live' \in Contents
  BY PatchedType DEF Set, IInv, TypeOK
<1> QED BY <1>1, <1>2 DEF IInv, Set, Goto, RollBack, TypeOK, JournalsOK, HelperOK,
            SeenOK, StillThere, LossOK, Agree, files, Steps, RollingBack, Looks, JournalOK

LEMMA ConfirmStep == IInv /\ Confirm => IInv'
<1> SUFFICES ASSUME IInv, Confirm PROVE IInv'
  OBVIOUS
<1>1. /\ pc = "confirm" /\ JournalOK(j) /\ j # None /\ pending = j /\ None \notin pendingMay
      /\ j.original \in Contents /\ j.live \in Contents
  BY EnrollAssumption DEF IInv, HelperOK, Confirm, JournalOK, Journals
<1>2. Patched(j.original)[Me] = Want /\ Patched(j.live)[Me] = Want
  BY <1>1, PatchedType
<1>3. seen \in Contents /\ seen[Me] = config[Me] /\ UNCHANGED <<files, live, calm>>
  BY EnrollAssumption DEF IInv, TypeOK, SeenOK, Confirm, Peers
<1>4. TypeOK' /\ JournalsOK' /\ LossOK' /\ Agree'
  BY <1>1, <1>3 DEF IInv, Confirm, Goto, RollBack, TypeOK, JournalsOK, LossOK, Agree, files,
            Steps, RollingBack, JournalOK
<1>5. HelperOK'
  BY <1>1, <1>2, <1>3 DEF IInv, Confirm, Goto, RollBack, HelperOK, files, RollingBack, JournalOK
<1>6. SeenOK' /\ StillThere'
  BY <1>1 DEF Confirm, Goto, RollBack, SeenOK, StillThere
<1> QED BY <1>4, <1>5, <1>6 DEF IInv

LEMMA UnlinkStep == IInv /\ (Unlink \/ UnlinkFails) => IInv'
<1> SUFFICES ASSUME IInv, Unlink \/ UnlinkFails PROVE IInv'
  OBVIOUS
<1>1. pc = "unlink" /\ confirmed /\ config[Me] = live[Me]
  BY DEF IInv, HelperOK, Unlink, UnlinkFails
<1>2. CASE Unlink
  BY <1>1, <1>2 DEF IInv, Unlink, Goto, TypeOK, JournalsOK, HelperOK,
            SeenOK, StillThere, LossOK, Agree, files, Steps, RollingBack, Looks, JournalOK
<1>3. CASE UnlinkFails
  BY <1>1, <1>3 DEF IInv, UnlinkFails, Return, TypeOK, JournalsOK, HelperOK,
            SeenOK, StillThere, LossOK, Agree, files, Steps, RollingBack, Looks, Answers, JournalOK
<1> QED BY <1>2, <1>3

\* Steps that change nothing but the helper's place and answer.
LEMMA LookStep ==
    IInv /\ (Verify \/ RollbackCheck \/ Compare \/ ReadFails \/ InspectPeer \/ Crash) => IInv'
<1> SUFFICES ASSUME IInv,
                    Verify \/ RollbackCheck \/ Compare \/ ReadFails \/ InspectPeer \/ Crash
             PROVE  IInv'
  OBVIOUS
<1> USE DEF IInv, Goto, Return, RollBack, TypeOK, JournalsOK, HelperOK, SeenOK, StillThere, LossOK,
            Agree, files, Steps, RollingBack, Looks, Answers, JournalOK
<1>1. CASE Verify
  BY <1>1 DEF Verify
<1>2. CASE RollbackCheck
  <2>1. \A o \in Others : Patched(j.original)[o] = j.original[o]
    BY <1>2, PatchedType DEF RollbackCheck, Journals
  <2>2. \A o \in Others \ unseen : seen[o] = config[o]
    BY <1>2 DEF RollbackCheck, Peers
  <2>3. pc' = "restore" => \A o \in Others \ unseen : config[o] = j.original[o]
    BY <1>2, <2>1, <2>2 DEF RollbackCheck
  <2>4. SeenOK' /\ StillThere'
    BY <1>2, <2>3 DEF RollbackCheck
  <2>5. TypeOK' /\ JournalsOK' /\ HelperOK' /\ LossOK' /\ Agree'
    BY <1>2 DEF RollbackCheck
  <2> QED BY <2>4, <2>5
<1>3. CASE Compare
  <2>1. \A o \in Others \ unseen : seen[o] = live[o]
    BY <1>3 DEF Compare, Peers
  <2>2. SeenOK' /\ StillThere'
    BY <1>3, <2>1 DEF Compare
  <2>3. TypeOK' /\ JournalsOK' /\ HelperOK' /\ LossOK' /\ Agree'
    BY <1>3 DEF Compare
  <2> QED BY <2>2, <2>3
<1>4. CASE ReadFails
  BY <1>4 DEF ReadFails
<1>5. CASE InspectPeer
  BY <1>5 DEF InspectPeer
<1>6. CASE Crash
  BY <1>6 DEF Crash
<1> QED BY <1>1, <1>2, <1>3, <1>4, <1>5, <1>6

LEMMA RestoreStep == IInv /\ (Restore \/ RestoreFails) => IInv'
<1> SUFFICES ASSUME IInv, Restore \/ RestoreFails PROVE IInv'
  OBVIOUS
<1>1. /\ pc = "restore" /\ JournalOK(j) /\ j # None /\ pending = j
      /\ j.original \in Contents /\ j.original[Me] = Absent
  BY EnrollAssumption DEF IInv, HelperOK, Restore, RestoreFails, RollingBack, Looks, JournalOK, Journals
<1>2. CASE Restore
  BY <1>1, <1>2, WantAbsent DEF IInv, Restore, WriteConfig, Goto, TypeOK, JournalsOK, HelperOK,
            SeenOK, StillThere, LossOK, Agree, Steps, RollingBack, Looks, JournalOK
<1>3. CASE RestoreFails
  BY <1>1, <1>3, WantAbsent DEF IInv, RestoreFails, WriteConfigFails, Return, TypeOK, JournalsOK,
            HelperOK, SeenOK, StillThere, LossOK, Agree, Steps, RollingBack, Looks, Answers, JournalOK
<1> QED BY <1>2, <1>3

LEMMA RemoveStep == IInv /\ Remove => IInv'
<1> SUFFICES ASSUME IInv, Remove PROVE IInv'
  OBVIOUS
<1>1. pc = "remove" /\ JournalOK(j) /\ j # None /\ pending = j
  BY EnrollAssumption DEF IInv, HelperOK, Remove, RollingBack, Looks, JournalOK
<1>2. live' \in Contents /\ (pc' = "compare" => live'[Me] = Absent)
  BY RemovedType DEF Remove, Goto, Return, IInv, TypeOK
<1> QED BY <1>1, <1>2 DEF IInv, Remove, Goto, Return, TypeOK, JournalsOK, HelperOK,
            SeenOK, StillThere, LossOK, Agree, files, Steps, RollingBack, Looks, Answers, JournalOK

LEMMA ForgetStep == IInv /\ Forget => IInv'
<1> SUFFICES ASSUME IInv, Forget PROVE IInv'
  OBVIOUS
<1>1. /\ pc = "forget" /\ live[Me] = Absent /\ config[Me] = Absent
      /\ \A c \in configMay : c[Me] = Absent
  BY DEF IInv, HelperOK, Forget, TypeOK
<1> QED BY <1>1, WantAbsent DEF IInv, Forget, Goto, Return, TypeOK, JournalsOK, HelperOK,
            SeenOK, StillThere, LossOK, Agree, Steps, RollingBack, Looks, Answers, JournalOK

LEMMA PowerStep == IInv /\ (PowerFailure \/ Flush \/ CalmDown) => IInv'
<1> SUFFICES ASSUME IInv, PowerFailure \/ Flush \/ CalmDown PROVE IInv'
  OBVIOUS
<1> USE DEF IInv, TypeOK, JournalsOK, HelperOK, SeenOK, StillThere, LossOK, Agree, files, helper,
            Steps, RollingBack, Looks, JournalOK
<1>1. CASE PowerFailure
  <2>1. PICK c \in configMay, p \in pendingMay :
          /\ config' = c /\ configMay' = {c} /\ live' = c
          /\ pending' = p /\ pendingMay' = {p}
    BY <1>1 DEF PowerFailure
  <2>2. /\ pc' = "idle" /\ seen' = None /\ unseen' = {}
        /\ UNCHANGED <<undo, answer, confirmed, calm>>
    BY <1>1 DEF PowerFailure
  <2> QED BY <2>1, <2>2
<1>2. CASE Flush
  BY <1>2 DEF Flush
<1>3. CASE CalmDown
  BY <1>3 DEF CalmDown
<1> QED BY <1>1, <1>2, <1>3

LEMMA EditStep == IInv /\ Edit => IInv'
<1> SUFFICES ASSUME IInv, Edit PROVE IInv'
  OBVIOUS
<1>1. UNCHANGED <<pending, pendingMay, pc, undo, j, seen, answer, confirmed, calm>>
  BY DEF Edit
<1>2. PICK o \in Others, r \in OtherRanges \cup {Absent} :
        /\ unseen' = IF pc = "idle" THEN {} ELSE unseen \cup {o}
        /\ \/ /\ config' = [config EXCEPT ![o] = r]
              /\ configMay' \in {{config'}, configMay \cup {config'}}
              /\ UNCHANGED live
           \/ live' = [live EXCEPT ![o] = r] /\ UNCHANGED <<config, configMay>>
  BY DEF Edit
<1>3. /\ config' \in Contents /\ config'[Me] = config[Me]
      /\ live' \in Contents /\ live'[Me] = live[Me]
      /\ \A c \in configMay' : c \in configMay \/ c = config'
      /\ config' \in configMay'
  BY <1>2, EditedType DEF IInv, TypeOK
<1>4. unseen' \subseteq Others
  BY <1>2 DEF IInv, TypeOK
<1>5. TypeOK'
  BY <1>1, <1>3, <1>4 DEF IInv, TypeOK, RollingBack, Looks, Steps
<1>6. JournalsOK' /\ HelperOK' /\ LossOK' /\ Agree'
  BY <1>1, <1>3 DEF IInv, TypeOK, JournalsOK, HelperOK, LossOK, Agree, JournalOK,
                    RollingBack, Looks
<1>7. \A q \in Peers \ {o} : config'[q] = config[q] /\ live'[q] = live[q]
  BY <1>2 DEF IInv, TypeOK, Contents
<1>8. pc # "idle" => unseen' = unseen \cup {o}
  BY <1>2
<1>9. SeenOK' /\ StillThere'
  <2>1. pc = "idle" => seen = None
    BY DEF IInv, SeenOK, Looks
  <2>2. SeenOK'
    BY <1>1, <1>7, <1>8, <2>1 DEF IInv, SeenOK
  <2>3. StillThere'
    BY <1>1, <1>7, <1>8 DEF IInv, StillThere, Peers
  <2> QED BY <2>2, <2>3
<1> QED BY <1>5, <1>6, <1>9 DEF IInv

LEMMA StepIInv == IInv /\ [Next]_vars => IInv'
<1> SUFFICES ASSUME IInv, [Next]_vars PROVE IInv'
  OBVIOUS
<1>1. CASE UNCHANGED vars
  BY <1>1 DEF vars, IInv, TypeOK, JournalsOK, HelperOK, SeenOK, StillThere, LossOK, Agree, JournalOK
<1>2. CASE Next
  BY <1>2, BeginStep, ReadFirstStep, RecoverStep, InspectStep, JournalStep, ConfigureStep, SetStep, ConfirmStep,
     UnlinkStep, LookStep, RestoreStep, RemoveStep, ForgetStep, PowerStep, EditStep
  DEF Next, Helper, Step, Enrolling, RollbackStep, Environment
<1> QED BY <1>1, <1>2

\* The inductive invariant holds throughout.
THEOREM Invariance == Spec => []IInv
BY InitIInv, StepIInv, PTL DEF Spec

\* Every variable keeps its type; in particular a helper past its inspection has a journal.
THEOREM TypeCorrect == Spec => []TypeOK
<1>1. IInv => TypeOK
  BY DEF IInv
<1> QED BY <1>1, Invariance, PTL

\* admin.go:424-558: without a journal nothing is half done, even with racing edits.
THEOREM NothingHalfDoneHolds == Spec => []NothingHalfDone
<1>1. IInv => NothingHalfDone
  BY DEF IInv, TypeOK, LossOK, Agree, NothingHalfDone
<1> QED BY <1>1, Invariance, PTL

LEMMA OthersStep ==
    ASSUME IInv, Helper
    PROVE  /\ \A o \in Others : live'[o] = live[o]
           /\ \A o \in Others \ unseen : config'[o] = config[o]
<1>1. config \in Contents /\ live \in Contents
  BY DEF IInv, TypeOK
<1>2. CASE Configure \/ ConfigureFails
  <2>1. j.original \in Contents /\ \A o \in Others \ unseen : config[o] = j.original[o]
    BY <1>2 DEF IInv, HelperOK, StillThere, JournalOK, Journals, Configure, ConfigureFails
  <2> QED BY <1>2, <2>1, PatchedType DEF Configure, ConfigureFails, WriteConfig, WriteConfigFails
<1>3. CASE Restore \/ RestoreFails
  <2>1. \A o \in Others \ unseen : config[o] = j.original[o]
    BY <1>3 DEF IInv, StillThere, Restore, RestoreFails
  <2> QED BY <1>3, <2>1 DEF Restore, RestoreFails, WriteConfig, WriteConfigFails
<1>4. CASE Set
  BY <1>1, <1>4, PatchedType DEF Set, files
<1>5. CASE Remove
  BY <1>1, <1>5, RemovedType DEF Remove, files
<1>6. CASE UNCHANGED <<config, live>>
  BY <1>6
<1>7. \/ Configure \/ ConfigureFails \/ Restore \/ RestoreFails \/ Set \/ Remove
      \/ UNCHANGED <<config, live>>
  BY DEF Helper, Step, Enrolling, RollbackStep, Begin, ReadFirst, Recover, Inspect, Journal,
         JournalFails, Confirm, Unlink, UnlinkFails, Verify, RollbackCheck, Compare, Forget,
         ReadFails, InspectPeer, files
<1> QED BY <1>2, <1>3, <1>4, <1>5, <1>6, <1>7

\* The helper changes another peer only where an edit came between its reading and its
\* writing of the file, and never in the kernel.
THEOREM OthersSafe == Spec => OthersPreserved
<1>1. IInv /\ [Next]_vars =>
        [Helper => /\ \A o \in Others : live'[o] = live[o]
                   /\ \A o \in Others \ unseen : config'[o] = config[o]]_vars
  BY OthersStep
<1> QED BY <1>1, Invariance, PTL DEF Spec, OthersPreserved

LEMMA AnswerStep ==
    ASSUME IInv, Next
    PROVE  /\ answer' = "configured" /\ answer # "configured" =>
                pending' = None /\ Agreeing /\ config'[Me] = Want
           /\ answer' = "rolled_back" /\ answer # "rolled_back" =>
                pending' = None /\ Agreeing /\ config'[Me] = Absent
           /\ answer' \in {"rollback_failed", "pending_recovery"} /\ answer # answer' =>
                pending' # None
<1>0. Me \in Peers \ unseen
  BY EnrollAssumption DEF IInv, TypeOK, Peers
<1>1. CASE Verify
  <2>1. CASE answer' = "configured"
    <3>1. seen = live /\ pending = None /\ seen[Me] = Want
      BY <1>1, <2>1 DEF Verify, Return, Verified
    <3>2. \A o \in Peers \ unseen : seen[o] = config[o]
      BY <1>1 DEF IInv, SeenOK, Verify
    <3>3. UNCHANGED <<config, live, pending>>
      BY <1>1 DEF Verify, files
    <3> QED BY <1>0, <2>1, <3>1, <3>2, <3>3 DEF Agreeing
  <2>2. CASE answer' = "denied"
    BY <2>2
  <2> QED BY <1>1, <2>1, <2>2 DEF Verify, Return
<1>2. CASE Forget
  <2>1. /\ \A o \in Others \ unseen : config[o] = j.original[o] /\ live[o] = j.live[o]
        /\ JournalOK(j) /\ pending' = None /\ UNCHANGED <<config, live>>
        /\ answer' \in {answer, "rolled_back"}
    BY <1>2 DEF IInv, StillThere, HelperOK, Forget, RollingBack, Goto, Return
  <2>2. config[Me] = Absent /\ live[Me] = Absent
    BY <1>2 DEF IInv, HelperOK, TypeOK, Forget
  <2>3. Agreeing
    BY <2>1, <2>2 DEF Agreeing, Peers, JournalOK
  <2> QED BY <2>1, <2>2, <2>3
<1>3. pc \in RollingBack => pending # None
  BY EnrollAssumption DEF IInv, HelperOK, JournalOK
<1>4. pc = "unlink" => pending # None
  BY DEF IInv, HelperOK
<1>5. CASE ReadFails \/ RollbackCheck \/ RestoreFails \/ Remove \/ Compare \/ UnlinkFails
  BY <1>3, <1>4, <1>5 DEF ReadFails, RollbackCheck, RestoreFails, Remove, Compare, UnlinkFails,
     Goto, Return, RollBack, RollingBack, files
<1>6. CASE answer' \in {answer, "none", "denied"}
  BY <1>6
<1>7. \/ Verify \/ Forget \/ ReadFails \/ RollbackCheck \/ RestoreFails \/ Remove
      \/ Compare \/ UnlinkFails \/ answer' \in {answer, "none", "denied"}
  BY DEF Next, Helper, Environment, Step, Enrolling, RollbackStep, Begin, ReadFirst, Recover,
         Inspect, Journal, JournalFails, Configure, ConfigureFails, Set, Confirm, Unlink, Restore,
         InspectPeer, Crash, PowerFailure, Flush, Edit, CalmDown, Goto, Return, RollBack, helper
<1> QED BY <1>1, <1>2, <1>5, <1>6, <1>7

\* Every answer is true when it is given, but for peers edited since the helper looked.
THEOREM AnswersSafe == Spec => AnswersTrue
<1>1. IInv /\ [Next]_vars =>
        [/\ answer' = "configured" /\ answer # "configured" =>
              pending' = None /\ Agreeing /\ config'[Me] = Want
         /\ answer' = "rolled_back" /\ answer # "rolled_back" =>
              pending' = None /\ Agreeing /\ config'[Me] = Absent
         /\ answer' \in {"rollback_failed", "pending_recovery"} /\ answer # answer' =>
              pending' # None]_vars
  BY AnswerStep
<1> QED BY <1>1, Invariance, PTL DEF Spec, AnswersTrue

-----------------------------------------------------------------------------
(* The way to the helper                                                   *)

Files == {"principals", "forced", "policy", "sudoers", "manifest"}
Things == Rules \cup Manifests \cup {None}
Places == {"idle", "gate", "sudo", "helper", "lock", "engine"}
Runs == UNION {{r[c] : c \in DOMAIN r} : r \in Rules}
Session == [pc : Places, cert : Rules \cup {None}, lag : BOOLEAN, forced : Rules \cup {None},
            request : Gate!Requests \cup {Gate!Nothing}, run : Runs \cup {None},
            held : Manifests \cup {None}, since : [Files -> SUBSET Things] \cup {None}]

GateTyped == /\ issuer \in Rules /\ certs \subseteq Rules
             /\ host \in Gate!Host
             /\ sess \in [Sessions -> Session]

\* What a session knows at each step, and that it has seen whatever the files are now.
Asked(x) == \E c \in DOMAIN x.forced : x.run = x.forced[c] /\ x.request.asked \in {c, None}
Begun(x) == /\ x.forced \in Rules /\ x.request \in Gate!Requests
            /\ x.cert = x.forced \/ x.lag
            /\ x.since \in [Files -> SUBSET Things]
Cleared(x) ==
    /\ x.pc \in {"sudo", "helper", "lock", "engine"} => Asked(x) /\ x.forced \in x.since["policy"]
    /\ x.pc \in {"helper", "lock", "engine"} => x.run.manifest \in x.since["sudoers"]
    /\ x.pc \in {"lock", "engine"} => /\ x.run.manifest \in x.since["manifest"]
                                      /\ x.held = x.run.manifest
Watching(x, h) == \A f \in Files : h[f] \in x.since[f]
SessionOK(x, h) == x.pc # "idle" => Begun(x) /\ Cleared(x) /\ Watching(x, h)

GateInv == GateTyped /\ \A s \in Sessions : SessionOK(sess[s], host)

LEMMA HostFacts == ASSUME NEW h \in Gate!Host
                   PROVE  DOMAIN h = Files /\ \A f \in Files : h[f] \in Things
BY DEF Gate!Host, Files, Things

LEMMA InitGate == Gate!Init => GateInv
<1> SUFFICES ASSUME Gate!Init PROVE GateInv
  OBVIOUS
<1>1. issuer \in Rules /\ certs = {} /\ host \in Gate!Host
  BY DEF Gate!Init, Gate!Host
<1>2. Gate!Idle \in Session /\ Gate!Idle.pc = "idle"
  BY DEF Gate!Idle, Session, Places
<1>3. sess = [s \in Sessions |-> Gate!Idle]
  BY DEF Gate!Init
<1> QED BY <1>1, <1>2, <1>3 DEF GateInv, GateTyped, SessionOK

\* A step of one session, by what it makes of the session.
LEMMA SessionStep ==
    ASSUME GateInv, NEW s \in Sessions, NEW next \in Session, Gate!Go(s, next),
           UNCHANGED <<issuer, certs, host>>, SessionOK(next, host)
    PROVE  GateInv'
<1>1. /\ sess' \in [Sessions -> Session] /\ sess'[s] = next
      /\ \A t \in Sessions \ {s} : sess'[t] = sess[t]
  BY DEF Gate!Go, GateInv, GateTyped
<1>2. \A t \in Sessions : SessionOK(sess'[t], host)
  BY <1>1 DEF GateInv
<1>3. \A t \in Sessions : SessionOK(sess'[t], host')
  BY <1>2
<1> QED BY <1>1, <1>3 DEF GateInv, GateTyped

LEMMA EndStep ==
    ASSUME GateInv, NEW s \in Sessions, Gate!End(s), UNCHANGED <<issuer, certs, host>>
    PROVE  GateInv'
<1>1. Gate!Idle \in Session /\ Gate!Idle.pc = "idle"
  BY DEF Gate!Idle, Session, Places
<1>2. SessionOK(Gate!Idle, host)
  BY <1>1 DEF SessionOK
<1> QED BY <1>1, <1>2, SessionStep DEF Gate!End

LEMMA ConnectStep == ASSUME GateInv, NEW s \in Sessions, Gate!Connect(s) PROVE GateInv'
<1>1. PICK c \in certs \cap {host.principals, None}, q \in Gate!Requests :
        Gate!Go(s, [pc |-> "gate", cert |-> c, lag |-> host.principals # host.forced,
                    forced |-> host.forced, request |-> q, run |-> None, held |-> None,
                    since |-> Gate!Now])
  BY DEF Gate!Connect
<1>2. c \in Rules /\ c = host.principals /\ host.forced \in Rules
  BY RulesAssumption DEF GateInv, GateTyped, Gate!Host
<1>3. Gate!Now \in [Files -> SUBSET Things] /\ \A f \in Files : Gate!Now[f] = {host[f]}
  BY HostFacts DEF Gate!Now, GateInv, GateTyped
<1>8. PICK lags \in BOOLEAN : lags = (host.principals # host.forced)
  OBVIOUS
<1>9. PICK since : since = Gate!Now
  OBVIOUS
<1> DEFINE x == [pc |-> "gate", cert |-> c, lag |-> lags, forced |-> host.forced, request |-> q,
                 run |-> None, held |-> None, since |-> since]
<1>5. x \in Session
  BY <1>2, <1>3, <1>9 DEF Session, Places
<1>6. SessionOK(x, host)
  <2>1. Begun(x)
    BY <1>2, <1>3, <1>8, <1>9 DEF Begun
  <2>2. Cleared(x) /\ Watching(x, host)
    BY <1>3, <1>9 DEF Cleared, Watching
  <2> QED BY <2>1, <2>2 DEF SessionOK
<1>7. Gate!Go(s, x) /\ UNCHANGED <<issuer, certs, host>>
  BY <1>1, <1>8, <1>9 DEF Gate!Connect, Gate!OnHost
<1> HIDE DEF x
<1> QED BY <1>5, <1>6, <1>7, SessionStep

LEMMA GateStep == ASSUME GateInv, NEW s \in Sessions, Gate!Gate(s) PROVE GateInv'
<1> DEFINE said == Gate!Parse(sess[s].request.line)
           x == [sess[s] EXCEPT !.pc = "sudo", !.run = host.policy[said]]
<1>0. UNCHANGED <<issuer, certs, host>> /\ sess[s].pc = "gate"
  BY DEF Gate!Gate, Gate!OnHost, Gate!At
<1>1. CASE Gate!Permits(sess[s])
  <2>1. Gate!Go(s, x)
    BY <1>1 DEF Gate!Gate
  <2>2. PICK y \in Session : y = sess[s]
    BY DEF GateInv, GateTyped
  <2>3. Begun(y) /\ Watching(y, host)
    BY <1>0, <2>2 DEF GateInv, SessionOK
  <2>4. host.policy = y.forced /\ said \in DOMAIN y.forced /\ y.forced \in Rules
    BY <1>1, <2>2, <2>3 DEF Gate!Permits, Begun
  <2>5. y.forced[said] \in Runs
    BY <2>4 DEF Runs
  <2>6. x \in Session /\ x = [y EXCEPT !.pc = "sudo", !.run = y.forced[said]]
    <3> HIDE DEF said
    <3> QED BY <2>2, <2>4, <2>5 DEF Session, Places
  <2>7. /\ x.pc = "sudo" /\ x.run = y.forced[said] /\ x.cert = y.cert /\ x.lag = y.lag
        /\ x.forced = y.forced /\ x.request = y.request /\ x.since = y.since
    BY <2>2, <2>6 DEF Session
  <2>8. y.request.asked \in {said, None}
    <3>1. CASE \E c \in Gate!Commands : y.request = [asked |-> c, line |-> Gate!LineOf(c)]
      <4>1. PICK c \in Gate!Commands : y.request = [asked |-> c, line |-> Gate!LineOf(c)]
        BY <3>1
      <4>2. RoundTrip(c) /\ y.request.asked = c /\ y.request.line = Gate!LineOf(c)
        BY <4>1, RulesAssumption DEF Gate!Commands
      <4>3. said # Gate!Denied
        BY <2>4, RulesAssumption
      <4> QED BY <2>2, <4>2, <4>3 DEF RoundTrip
    <3>2. CASE \E l \in Lines : y.request = [asked |-> None, line |-> l]
      BY <3>2
    <3> QED BY <2>3, <3>1, <3>2 DEF Begun, Gate!Requests
  <2> HIDE DEF x, said
  <2>9. Asked(x)
    BY <2>4, <2>7, <2>8 DEF Asked
  <2>10. x.forced \in x.since["policy"]
    BY <2>3, <2>4, <2>7 DEF Watching, Files
  <2>11. SessionOK(x, host)
    BY <2>3, <2>7, <2>9, <2>10 DEF SessionOK, Begun, Cleared, Watching
  <2> QED BY <1>0, <2>1, <2>6, <2>11, SessionStep
<1>2. CASE ~Gate!Permits(sess[s])
  BY <1>0, <1>2, EndStep DEF Gate!Gate
<1> QED BY <1>1, <1>2

LEMMA SudoStep == ASSUME GateInv, NEW s \in Sessions, Gate!Sudo(s) PROVE GateInv'
<1>0. UNCHANGED <<issuer, certs, host>> /\ sess[s].pc = "sudo"
  BY DEF Gate!Sudo, Gate!OnHost, Gate!At
<1>1. CASE Gate!Allowed(sess[s])
  <2>1. PICK y \in Session : y = sess[s]
    BY DEF GateInv, GateTyped
  <2>2. PICK x : x = [y EXCEPT !.pc = "helper"]
    OBVIOUS
  <2>3. /\ x \in Session /\ x.pc = "helper" /\ x.run = y.run /\ x.cert = y.cert /\ x.lag = y.lag
        /\ x.forced = y.forced /\ x.request = y.request /\ x.since = y.since
    BY <2>2 DEF Session, Places
  <2>4. Begun(y) /\ Cleared(y) /\ Watching(y, host)
    BY <1>0, <2>1 DEF GateInv, SessionOK
  <2>5. y.run.manifest \in y.since["sudoers"]
    BY <1>1, <2>1, <2>4 DEF Gate!Allowed, Watching, Files
  <2>6. SessionOK(x, host)
    BY <1>0, <2>1, <2>3, <2>4, <2>5 DEF SessionOK, Begun, Cleared, Watching, Asked
  <2>7. Gate!Go(s, x)
    BY <1>1, <2>1, <2>2 DEF Gate!Sudo
  <2> QED BY <1>0, <2>3, <2>6, <2>7, SessionStep
<1>2. CASE ~Gate!Allowed(sess[s])
  BY <1>0, <1>2, EndStep DEF Gate!Sudo
<1> QED BY <1>1, <1>2

LEMMA ManifestStep == ASSUME GateInv, NEW s \in Sessions, Gate!ReadManifest(s) PROVE GateInv'
<1>0. UNCHANGED <<issuer, certs, host>> /\ sess[s].pc = "helper"
  BY DEF Gate!ReadManifest, Gate!OnHost, Gate!At
<1>1. CASE host.manifest = sess[s].run.manifest
  <2>1. PICK y \in Session : y = sess[s]
    BY DEF GateInv, GateTyped
  <2>2. PICK x : x = [y EXCEPT !.pc = "lock", !.held = host.manifest]
    OBVIOUS
  <2>0. host.manifest \in Manifests \cup {None}
    BY DEF GateInv, GateTyped, Gate!Host
  <2>3. /\ x \in Session /\ x.pc = "lock" /\ x.run = y.run /\ x.cert = y.cert /\ x.lag = y.lag
        /\ x.forced = y.forced /\ x.request = y.request /\ x.since = y.since
        /\ x.held = host.manifest
    BY <2>0, <2>2 DEF Session, Places
  <2>4. Begun(y) /\ Cleared(y) /\ Watching(y, host)
    BY <1>0, <2>1 DEF GateInv, SessionOK
  <2>5. y.run.manifest \in y.since["manifest"]
    BY <1>1, <2>1, <2>4 DEF Watching, Files
  <2>6. SessionOK(x, host)
    BY <1>0, <1>1, <2>1, <2>3, <2>4, <2>5 DEF SessionOK, Begun, Cleared, Watching, Asked
  <2>7. Gate!Go(s, x)
    BY <1>1, <2>1, <2>2 DEF Gate!ReadManifest
  <2> QED BY <1>0, <2>3, <2>6, <2>7, SessionStep
<1>2. CASE host.manifest # sess[s].run.manifest
  BY <1>0, <1>2, EndStep DEF Gate!ReadManifest
<1> QED BY <1>1, <1>2

LEMMA LockStep == ASSUME GateInv, NEW s \in Sessions, Gate!Lock(s) PROVE GateInv'
<1>0. UNCHANGED <<issuer, certs, host>> /\ sess[s].pc = "lock"
  BY DEF Gate!Lock, Gate!OnHost, Gate!At
<1>1. CASE ~\E t \in Sessions : Gate!At(t, "engine")
  <2>1. PICK y \in Session : y = sess[s]
    BY DEF GateInv, GateTyped
  <2>2. PICK x : x = [y EXCEPT !.pc = "engine"]
    OBVIOUS
  <2>3. /\ x \in Session /\ x.pc = "engine" /\ x.run = y.run /\ x.cert = y.cert /\ x.lag = y.lag
        /\ x.forced = y.forced /\ x.request = y.request /\ x.since = y.since /\ x.held = y.held
    BY <2>2 DEF Session, Places
  <2>4. Begun(y) /\ Cleared(y) /\ Watching(y, host)
    BY <1>0, <2>1 DEF GateInv, SessionOK
  <2>5. SessionOK(x, host)
    BY <1>0, <2>1, <2>3, <2>4 DEF SessionOK, Begun, Cleared, Watching, Asked
  <2>6. Gate!Go(s, x)
    BY <1>1, <2>1, <2>2 DEF Gate!Lock
  <2> QED BY <1>0, <2>3, <2>5, <2>6, SessionStep
<1>2. CASE \E t \in Sessions : Gate!At(t, "engine")
  BY <1>0, <1>2, EndStep DEF Gate!Lock
<1> QED BY <1>1, <1>2

\* Whatever is put in place, every session that has begun sees it.
LEMMA ReplaceStep ==
    ASSUME GateInv, NEW h \in Gate!Host, Gate!Replace(h), UNCHANGED <<issuer, certs>>
    PROVE  GateInv'
<1>1. ASSUME NEW s \in Sessions, sess[s].pc # "idle"
      PROVE  sess'[s] \in Session /\ SessionOK(sess'[s], h)
  <2>1. PICK y \in Session : y = sess[s]
    BY DEF GateInv, GateTyped
  <2>2. PICK S : S = Gate!Seen(y.since, h)
    OBVIOUS
  <2>3. Begun(y) /\ Cleared(y)
    BY <1>1, <2>1 DEF GateInv, SessionOK
  <2>4. S \in [Files -> SUBSET Things] /\ \A f \in Files : S[f] = y.since[f] \cup {h[f]}
    BY <2>2, <2>3, HostFacts DEF Gate!Seen, Begun
  <2>5. sess'[s] = [y EXCEPT !.since = S]
    BY <1>1, <2>1, <2>2 DEF Gate!Replace, Gate!At
  <2>6. PICK x : x = sess'[s]
    OBVIOUS
  <2>7. /\ x \in Session /\ x.pc = y.pc /\ x.run = y.run /\ x.cert = y.cert /\ x.lag = y.lag
        /\ x.forced = y.forced /\ x.request = y.request /\ x.since = S /\ x.held = y.held
    BY <2>4, <2>5, <2>6 DEF Session
  <2>8. Begun(x) /\ Watching(x, h)
    BY <2>3, <2>4, <2>7 DEF Begun, Watching
  <2>9. Cleared(x)
    BY <2>3, <2>4, <2>7 DEF Cleared, Asked, Files
  <2> QED BY <2>6, <2>7, <2>8, <2>9 DEF SessionOK
<1>2. ASSUME NEW s \in Sessions, sess[s].pc = "idle"
      PROVE  sess'[s] \in Session /\ SessionOK(sess'[s], h)
  <2>1. sess'[s] = sess[s]
    BY <1>2 DEF Gate!Replace, Gate!At
  <2> QED BY <1>2, <2>1 DEF GateInv, GateTyped, SessionOK
<1>3. host' = h /\ sess' = [s \in Sessions |-> sess'[s]]
  BY DEF Gate!Replace
<1> QED BY <1>1, <1>2, <1>3 DEF GateInv, GateTyped

LEMMA EditGateStep == GateInv /\ Gate!Edit => GateInv'
<1> SUFFICES ASSUME GateInv, Gate!Edit PROVE GateInv'
  OBVIOUS
<1>1. CASE \E r \in Rules : issuer' = r /\ UNCHANGED <<host, sess>>
  BY <1>1 DEF Gate!Edit, GateInv, GateTyped, SessionOK
<1>2. ASSUME NEW h, Gate!Replace(h), UNCHANGED issuer,
             \/ \E r \in Rules \cup {None} :
                  \/ r \in Rules /\ (h = [host EXCEPT !.principals = r] \/ h = [host EXCEPT !.forced = r])
                  \/ h = [host EXCEPT !.policy = r]
             \/ \E m \in Manifests \cup {None} :
                  h = [host EXCEPT !.sudoers = m] \/ h = [host EXCEPT !.manifest = m]
      PROVE  GateInv'
  <2>1. h \in Gate!Host
    BY <1>2 DEF GateInv, GateTyped, Gate!Host
  <2>2. UNCHANGED <<issuer, certs>>
    BY <1>2 DEF Gate!Edit
  <2> QED BY <1>2, <2>1, <2>2, ReplaceStep
<1> QED BY <1>1, <1>2 DEF Gate!Edit

LEMMA NextGate == GateInv /\ [Gate!Next]_gate => GateInv'
<1> SUFFICES ASSUME GateInv, [Gate!Next]_gate PROVE GateInv'
  OBVIOUS
<1>1. CASE Gate!Sign
  <2>1. certs' \subseteq Rules /\ UNCHANGED <<issuer, host, sess>>
    BY <1>1 DEF Gate!Sign, Gate!Verified, GateInv, GateTyped
  <2> QED BY <2>1 DEF GateInv, GateTyped, SessionOK
<1>2. ASSUME NEW s \in Sessions, Gate!Leave(s) PROVE GateInv'
  BY <1>2, EndStep DEF Gate!Leave, Gate!OnHost
<1>3. CASE UNCHANGED gate
  BY <1>3 DEF gate, GateInv, GateTyped, SessionOK
<1> QED BY <1>1, <1>2, <1>3, EditGateStep, ConnectStep, GateStep, SudoStep, ManifestStep, LockStep
        DEF Gate!Next

\* One of the two is at work.
Either == (pc # "rests" /\ IInv) \/ (pc = "rests" /\ GateInv)

LEMMA EitherHolds == SpecEither => []Either
<1>1. InitEither => Either
  BY InitIInv, InitGate DEF InitEither, Either, HelperRests, Init
<1>2. Either /\ [NextEither]_<<vars, gate>> => Either'
  <2> SUFFICES ASSUME Either, [NextEither]_<<vars, gate>> PROVE Either'
    OBVIOUS
  <2>1. CASE pc # "rests"
    <3>1. IInv'
      BY <2>1, StepIInv DEF Either, NextEither
    <3>2. pc' # "rests"
      BY <3>1 DEF IInv, TypeOK, Steps
    <3> QED BY <3>1, <3>2 DEF Either
  <2>2. CASE pc = "rests"
    <3>1. [Gate!Next]_gate /\ pc' = pc
      BY <2>2 DEF NextEither, vars
    <3> QED BY <2>2, <3>1, NextGate DEF Either
  <2> QED BY <2>1, <2>2
<1> QED BY <1>1, <1>2, PTL DEF SpecEither

\* gate.go:268-315, wg_beryl.go:57-92: past the gate only commands of the rules that the
\* certificate names run, on the manifest they name, whatever is replaced meanwhile.
THEOREM SignedHolds == SpecEither => []SignedCommandsOnly
<1>1. Either => SignedCommandsOnly
  BY DEF Either, SignedCommandsOnly, Gate!SignedCommandsOnly, GateInv, SessionOK, Begun, Cleared, Asked
<1> QED BY <1>1, EitherHolds, PTL

\* The same of the files: each that a root operation rests on was in place at some moment
\* since its session began.
THEOREM DisarmedHolds == SpecEither => []ReplacedIsDisarmed
<1>1. Either => ReplacedIsDisarmed
  BY DEF Either, ReplacedIsDisarmed, Gate!ReplacedIsDisarmed, GateInv, SessionOK, Begun, Cleared
<1> QED BY <1>1, EitherHolds, PTL
=============================================================================
