----------------------- MODULE GrantEnforcementProofs -----------------------
(***************************************************************************)
(* What GrantEnforcement promises for every set of requests, commands,     *)
(* actions and costs, and every budget and threshold: the types; that a    *)
(* threshold-crossing request was approved, whatever is overwritten; and,  *)
(* when commands run alone and the file can be read, that the owner's      *)
(* decisions stick, that what is forwarded is accounted for, and that      *)
(* racing requests exceed the budget by a bounded amount.                  *)
(***************************************************************************)
EXTENDS GrantEnforcement, FiniteSetTheorems, TLAPS

USE GrantAssumption, CopyAssumption

-----------------------------------------------------------------------------
(* Types                                                                   *)

\* Amounts stay in their width when they are added.
LEMMA PlusType == ASSUME NEW x \in Cents, NEW y \in Cents PROVE Plus(x, y) \in Cents
BY DEF Plus, Cents

\* Every request works on the copy of a process.
LEMMA HomeType == ASSUME NEW h \in Requests PROVE Home(h) \in Procs
BY DEF Home, Procs, Requests

\* The copy a request works on is there.
LEMMA HomeCopy ==
    ASSUME TypeOK, NEW h \in Requests, pc[h] # "idle" PROVE mem[Home(h)] \in Copy
BY DEF TypeOK, Home, Procs, Requests

LEMMA InitType == Init => TypeOK
<1> SUFFICES ASSUME Init PROVE TypeOK OBVIOUS
<1>1. disk \in Copy BY DEF Init, Copy, Cents, Unused
<1>2. mem \in [Procs -> Copy \cup {NoCopy}] /\ mem[Gateway] # NoCopy
  BY <1>1 DEF Init, Procs
<1>3. pc \in [Requests -> Steps] BY DEF Init, Steps, Known
<1>4. DOMAIN req = Requests /\ \A h \in Requests : req[h] \in Known[pc[h]] BY DEF Init, Known
<1>5. forwarded \subseteq Allowed /\ total \in Nat
      /\ consents \subseteq [id : ApprovalIds, action : Actions, cost : Costs]
  BY DEF Init
<1> QED BY <1>1, <1>2, <1>3, <1>4, <1>5 DEF TypeOK, Init, Requests

\* A request's step moves it to a step whose knowledge it has.
LEMMA MoveType ==
    ASSUME TypeOK, NEW h \in Requests, NEW s \in Steps, NEW k \in Known[s],
           pc' = [pc EXCEPT ![h] = s], req' = [req EXCEPT ![h] = k]
    PROVE  /\ pc' \in [Requests -> Steps]
           /\ DOMAIN req' = Requests /\ \A g \in Requests : req'[g] \in Known[pc'[g]]
BY DEF TypeOK

LEMMA TypeStep == TypeOK /\ [Next]_vars => TypeOK'
<1> SUFFICES ASSUME TypeOK, [Next]_vars PROVE TypeOK' OBVIOUS
<1> DEFINE Amounts == forwarded' \subseteq Allowed /\ total' \in Nat
           Files == /\ disk' \in Copy /\ mem' \in [Procs -> Copy \cup {NoCopy}]
                    /\ mem'[Gateway] # NoCopy
                    /\ \A p \in Procs : mem[p] # NoCopy => mem'[p] # NoCopy
                    /\ trouble' \in {"none", "save", "read"}
           Moves == /\ pc' \in [Requests -> Steps]
                    /\ DOMAIN req' = Requests
                    /\ \A h \in Requests : req'[h] \in Known[pc'[h]]
           Quiet == UNCHANGED <<forwarded, total, consents>>
<1>v. ASSUME ValidateToken PROVE Files
  BY <1>v DEF ValidateToken, TypeOK, Procs
<1>s. ASSUME NEW p \in Procs, NEW s \in Copy, mem[p] \in Copy, Saved(p, s) \/ Unsaved(p, s) PROVE Files
  BY <1>s DEF Saved, Unsaved, TypeOK, Procs
<1>r. ASSUME NEW h \in Requests, NEW i \in ReceiptIds, pc[h] = "receipt"
      PROVE [mem[Home(h)] EXCEPT !.receipts[i] = req[h].decision] \in Copy
  <2>1. mem[Home(h)] \in Copy BY <1>r, HomeCopy
  <2>2. req[h] \in Decided BY <1>r DEF TypeOK, Known
  <2>3. req[h].decision \in Decisions BY <2>2 DEF Decided
  <2> QED BY <2>1, <2>3 DEF Copy
<1>1. ASSUME NEW h \in Handlers, Authenticate(h) PROVE TypeOK'
  <2> h \in Requests BY DEF Requests
  <2>1. PICK action \in Actions, cost \in Costs, approval \in ApprovalIds \cup {NoId} :
          Take(h, action, cost, approval) BY <1>1 DEF Authenticate
  <2>2. [action |-> action, cost |-> cost, approval |-> approval] \in Known["grant"]
    BY DEF Known, Stated, Named
  <2>3. Moves BY <2>1, <2>2, MoveType DEF Take, Steps, Known
  <2>4. Files BY <1>1, <1>v DEF Authenticate
  <2> QED BY <1>1, <2>1, <2>3, <2>4 DEF Authenticate, Take, TypeOK, Requests, Procs
<1>2. ASSUME NEW h \in Handlers, AuthenticateFree(h) PROVE TypeOK'
  <2> h \in Requests BY DEF Requests
  <2>1. req[h] = NoRequest BY <1>2 DEF AuthenticateFree, TypeOK, Known
  <2>2. Moves BY <1>2, <2>1 DEF AuthenticateFree, TypeOK, Steps, Known
  <2>3. Files BY <1>2, <1>v DEF AuthenticateFree
  <2> QED BY <1>2, <2>2, <2>3 DEF AuthenticateFree, TypeOK, Requests, Procs
<1>3. ASSUME NEW h \in Handlers, Answered(h) PROVE TypeOK'
  <2> h \in Requests BY DEF Requests
  <2>1. req[h] = NoRequest BY <1>3 DEF Answered, TypeOK, Known
  <2>2. Moves BY <1>3, <2>1 DEF Answered, TypeOK, Steps, Known
  <2>3. Files
    <3>1. CASE UNCHANGED <<disk, mem, trouble>> BY <3>1 DEF TypeOK
    <3>2. CASE ValidateToken BY <3>2, <1>v
    <3> QED BY <1>3, <3>1, <3>2 DEF Answered
  <2> QED BY <1>3, <2>2, <2>3 DEF Answered, TypeOK, Requests, Procs
<1>4. ASSUME NEW h \in Handlers, AddUsageEvent(h) PROVE TypeOK'
  <2> h \in Requests BY DEF Requests
  <2>1. req[h] = NoRequest BY <1>4 DEF AddUsageEvent, TypeOK, Known
  <2>2. Moves BY <1>4, <2>1 DEF AddUsageEvent, TypeOK, Steps, Known
  <2>3. Gateway \in Procs /\ mem[Gateway] \in Copy BY DEF TypeOK, Procs
  <2>4. Files BY <1>4, <2>3, <1>s DEF AddUsageEvent
  <2> QED BY <1>4, <2>2, <2>4 DEF AddUsageEvent, TypeOK, Requests, Procs
<1>5. ASSUME NEW e \in Evals, Evaluate(e) PROVE TypeOK'
  <2> e \in Requests /\ e \in Procs /\ e # Gateway BY DEF Requests, Procs
  <2>1. PICK action \in Actions, cost \in Costs, approval \in ApprovalIds \cup {NoId} :
          Take(e, action, cost, approval) BY <1>5 DEF Evaluate
  <2>2. [action |-> action, cost |-> cost, approval |-> approval] \in Known["grant"]
    BY DEF Known, Stated, Named
  <2>3. Moves BY <2>1, <2>2, MoveType DEF Take, Steps, Known
  <2>4. Files BY <1>5 DEF Evaluate, TypeOK, Procs
  <2> QED BY <1>5, <2>1, <2>3, <2>4 DEF Evaluate, Take, TypeOK, Requests, Procs
<1>6. ASSUME NEW e \in Evals, AskApproval(e) PROVE TypeOK'
  <2> e \in Requests /\ e \in Procs /\ pc[e] = "ask" BY <1>6 DEF Requests, Procs, AskApproval
  <2>1. PICK a \in FreshApproval : Saved(e, [mem[e] EXCEPT !.approvals[a] =
                     [status |-> "pending", action |-> req[e].action, cost |-> req[e].cost]])
    BY <1>6 DEF AskApproval
  <2>2. mem[e] \in Copy BY DEF TypeOK
  <2>3. req[e] \in Decided BY DEF TypeOK, Known
  <2>4. [mem[e] EXCEPT !.approvals[a] =
           [status |-> "pending", action |-> req[e].action, cost |-> req[e].cost]] \in Copy
    BY <2>2, <2>3 DEF Copy, Decided, Approval, FreshApproval
  <2>5. Files BY <2>1, <2>2, <2>4, <1>s
  <2>6. Moves BY <1>6, <2>3 DEF AskApproval, TypeOK, Steps, Known
  <2> QED BY <1>6, <2>5, <2>6 DEF AskApproval, TypeOK, Requests, Procs
<1>7. ASSUME NEW h \in Requests, ReadGrant(h) PROVE TypeOK'
  <2>1. req[h] \in Stated BY <1>7 DEF ReadGrant, TypeOK, Known
  <2>2. mem[Home(h)] \in Copy BY <1>7, HomeCopy DEF ReadGrant
  <2>3. [action |-> req[h].action, cost |-> req[h].cost, approval |-> req[h].approval,
         status |-> mem[Home(h)].status, spent |-> mem[Home(h)].spent] \in Known["approval"]
    BY <2>1, <2>2 DEF Known, Looked, Stated, Copy
  <2>4. req' = [req EXCEPT ![h] =
          [action |-> req[h].action, cost |-> req[h].cost, approval |-> req[h].approval,
           status |-> mem[Home(h)].status, spent |-> mem[Home(h)].spent]]
    BY <1>7 DEF ReadGrant, TypeOK
  <2>5. Moves BY <1>7, <2>3, <2>4, MoveType DEF ReadGrant, Steps, Known
  <2> QED BY <1>7, <2>5 DEF ReadGrant, TypeOK, Requests, Procs
<1>8. ASSUME NEW h \in Requests, Decide(h) PROVE TypeOK'
  <2>1. req[h] \in Looked BY <1>8 DEF Decide, TypeOK, Known
  <2>2. PICK d \in Decisions :
          /\ req' = [req EXCEPT ![h] = [action |-> req[h].action, cost |-> req[h].cost,
                                        approval |-> req[h].approval, decision |-> d]]
          /\ pc' = [pc EXCEPT ![h] = IF h \in Evals /\ d = "ask" THEN "ask" ELSE "receipt"]
    BY <1>8 DEF Decide, Decision, Decisions, TypeOK
  <2>3. [action |-> req[h].action, cost |-> req[h].cost,
         approval |-> req[h].approval, decision |-> d] \in Decided
    BY <2>1 DEF Looked, Decided
  <2>4. Moves BY <2>2, <2>3 DEF TypeOK, Known, Steps
  <2> QED BY <1>8, <2>4 DEF Decide, TypeOK, Requests, Procs
<1>9. ASSUME NEW h \in Requests, Refuse(h) PROVE TypeOK'
  <2>1. Moves BY <1>9 DEF Refuse, End, TypeOK, Steps, Known
  <2>2. /\ disk' \in Copy /\ mem' \in [Procs -> Copy \cup {NoCopy}] /\ mem'[Gateway] # NoCopy
        /\ \A e \in Evals : pc'[e] # "idle" => mem'[e] # NoCopy
    BY <1>9 DEF Refuse, End, TypeOK, Procs, Requests
  <2> QED BY <1>9, <2>1, <2>2 DEF Refuse, End, TypeOK
<1>10. ASSUME NEW h \in Requests, AddReceipt(h) PROVE TypeOK'
  <2>0. pc[h] = "receipt" /\ req[h] \in Decided BY <1>10 DEF AddReceipt, TypeOK, Known
  <2>1. PICK i \in FreshReceipt :
         /\ \/ Saved(Home(h), [mem[Home(h)] EXCEPT !.receipts[i] = req[h].decision])
            \/ h \in Handlers /\ Unsaved(Gateway, [mem[Gateway] EXCEPT !.receipts[i] = req[h].decision])
         /\ IF req[h].decision = "allow"
            THEN /\ pc' = [pc EXCEPT ![h] = "spend"]
                 /\ req' = [req EXCEPT ![h] = [action |-> req[h].action, cost |-> req[h].cost,
                                               approval |-> req[h].approval, id |-> i]]
            ELSE pc' = [pc EXCEPT ![h] = "idle"] /\ req' = [req EXCEPT ![h] = NoRequest]
    BY <1>10 DEF AddReceipt, TypeOK
  <2>2. i \in ReceiptIds BY DEF FreshReceipt
  <2>3. Files
    <3>1. h \in Handlers => Home(h) = Gateway BY DEF Home
    <3>2. Home(h) \in Procs /\ mem[Home(h)] \in Copy BY <2>0, HomeType, HomeCopy
    <3> QED BY <2>0, <2>1, <2>2, <3>1, <3>2, <1>r, <1>s
  <2>4. Moves
    <3>1. [action |-> req[h].action, cost |-> req[h].cost,
           approval |-> req[h].approval, id |-> i] \in Allowed
      BY <2>0, <2>2 DEF Decided, Allowed
    <3> QED BY <2>1, <3>1 DEF TypeOK, Known, Steps
  <2> QED BY <1>10, <2>0, <2>3, <2>4 DEF AddReceipt, TypeOK, Requests, Procs
<1>11. ASSUME NEW h \in Requests, AddGrantSpend(h) PROVE TypeOK'
  <2>0. pc[h] = "spend" /\ req[h] \in Allowed BY <1>11 DEF AddGrantSpend, TypeOK, Known
  <2>1. req[h].cost \in Costs /\ req[h].cost \in Cents BY <2>0 DEF Allowed, Cents
  <2>2. Home(h) \in Procs /\ mem[Home(h)] \in Copy BY <2>0, HomeType, HomeCopy
  <2>3. Files
    <3> DEFINE s == [mem[Home(h)] EXCEPT !.spent = Plus(@, req[h].cost)]
    <3>1. s \in Copy BY <2>1, <2>2, PlusType DEF Copy
    <3>2. CASE req[h].cost > 0
      <4>1. Saved(Home(h), s) \/ Unsaved(Home(h), s) BY <1>11, <3>2 DEF AddGrantSpend
      <4> HIDE DEF s
      <4> QED BY <2>2, <3>1, <4>1, <1>s
    <3>3. CASE ~(req[h].cost > 0) BY <1>11, <3>3 DEF AddGrantSpend, TypeOK
    <3> QED BY <3>2, <3>3
  <2>4. Moves
    <3>1. AfterSpend(h) \in Steps /\ NoRequest \in Known[AfterSpend(h)]
      BY DEF AfterSpend, Known, Steps
    <3> QED BY <1>11, <3>1, MoveType DEF AddGrantSpend
  <2>5. Amounts
    <3>1. total' \in Nat BY <1>11, <2>1 DEF AddGrantSpend, TypeOK, Cents
    <3> QED BY <1>11, <2>0, <3>1 DEF AddGrantSpend, TypeOK
  <2> QED BY <1>11, <2>0, <2>3, <2>4, <2>5 DEF AddGrantSpend, TypeOK, Requests, Procs
<1>12. ASSUME NEW o \in Owners, OpenStore(o) PROVE TypeOK'
  BY <1>12 DEF OpenStore, TypeOK, Procs, Requests
<1>13. ASSUME NEW o \in Owners, RevokeGrant(o) PROVE TypeOK'
  <2>1. mem[o] \in Copy BY <1>13 DEF RevokeGrant, Running, TypeOK, Procs
  <2>2. disk' \in Copy BY <1>13, <2>1 DEF RevokeGrant, Copy
  <2> QED BY <1>13, <2>2 DEF RevokeGrant, TypeOK, Procs, Requests
<1>14. ASSUME NEW o \in Owners, Resolve(o) PROVE TypeOK'
  <2>1. mem[o] \in Copy BY <1>14 DEF Resolve, Running, TypeOK, Procs
  <2>2. PICK a \in ApprovalIds, status \in {"approved", "rejected"} :
         /\ mem[o].approvals[a].status = "pending"
         /\ disk' = [mem[o] EXCEPT !.approvals[a].status = status]
         /\ consents' = IF status = "approved"
                        THEN consents \cup {[id |-> a, action |-> mem[o].approvals[a].action,
                                             cost |-> mem[o].approvals[a].cost]}
                        ELSE consents
    BY <1>14 DEF Resolve
  <2>3. mem[o].approvals[a] \in Approval BY <2>1, <2>2 DEF Copy, Unused
  <2>4. disk' \in Copy BY <2>1, <2>2, <2>3 DEF Copy, Approval
  <2>5. consents' \subseteq [id : ApprovalIds, action : Actions, cost : Costs]
    BY <2>2, <2>3 DEF TypeOK, Approval
  <2> QED BY <1>14, <2>4, <2>5 DEF Resolve, TypeOK, Procs, Requests
<1>15. ASSUME NEW p \in Commands, Exit(p) PROVE TypeOK'
  <2>1. Moves BY <1>15 DEF Exit, TypeOK, Steps, Known
  <2>2. p # Gateway BY DEF Commands
  <2> QED BY <1>15, <2>1, <2>2 DEF Exit, TypeOK, Procs, Requests
<1>16. ASSUME Restart PROVE TypeOK'
  <2>1. Moves BY <1>16 DEF Restart, TypeOK, Steps, Known
  <2> QED BY <1>16, <2>1 DEF Restart, TypeOK, Procs, Requests
<1>17. CASE UNCHANGED vars BY <1>17 DEF vars, TypeOK
<1> QED BY <1>1, <1>2, <1>3, <1>4, <1>5, <1>6, <1>7, <1>8, <1>9, <1>10, <1>11, <1>12, <1>13,
          <1>14, <1>15, <1>16, <1>17 DEF Next, RequestStep

\* Every variable keeps its type.
THEOREM TypeCorrect == Spec => []TypeOK
BY InitType, TypeStep, PTL DEF Spec

-----------------------------------------------------------------------------
(* Approvals.  Whatever copy overwrites whatever file, an approved approval *)
(* in any of them was approved once: copies only come from the file, and    *)
(* only Resolve approves.  A request that has been allowed has consulted    *)
(* such a copy.                                                             *)

CopyConsented(s) ==
    \A a \in ApprovalIds : s.approvals[a].status = "approved" =>
        [id |-> a, action |-> s.approvals[a].action, cost |-> s.approvals[a].cost] \in consents

CopiesConsented == CopyConsented(disk) /\ \A p \in Procs : Running(p) => CopyConsented(mem[p])

RequestsConsented ==
    \A h \in Requests :
        \/ pc[h] \in {"ask", "receipt"} /\ req[h].decision = "allow"
        \/ pc[h] = "spend"
        => Consented(req[h])

ConsentInv == TypeOK /\ CopiesConsented /\ RequestsConsented /\ CrossingApproved

LEMMA InitConsent == Init => ConsentInv
<1> SUFFICES ASSUME Init PROVE ConsentInv OBVIOUS
<1>1. TypeOK BY InitType
<1>2. \A a \in ApprovalIds : disk.approvals[a].status # "approved" BY DEF Init, Unused
<1>3. CopyConsented(disk) BY <1>2 DEF CopyConsented
<1>4. CopiesConsented BY <1>3 DEF Init, CopiesConsented, Running
<1> QED BY <1>1, <1>4 DEF Init, ConsentInv, RequestsConsented, CrossingApproved

\* What the gateway authenticates with leaves every copy as consented as it was.
LEMMA ValidateConsented ==
    ASSUME ConsentInv, ValidateToken, UNCHANGED consents PROVE CopiesConsented'
<1>1. TypeOK /\ CopyConsented(disk) /\ Gateway \in Procs /\ CopyConsented(mem[Gateway])
  BY DEF ConsentInv, CopiesConsented, TypeOK, Procs, Running
<1>2. CopyConsented(disk)'
  BY <1>1 DEF ValidateToken, CopyConsented
<1>3. ASSUME NEW p \in Procs, Running(p)' PROVE CopyConsented(mem[p])'
  BY <1>1, <1>3 DEF ValidateToken, CopyConsented, ConsentInv, CopiesConsented, Running, TypeOK
<1> QED BY <1>2, <1>3 DEF CopiesConsented

\* So does a save, done or failed, of a consented copy.
LEMMA SaveConsented ==
    ASSUME ConsentInv, NEW p \in Procs, NEW s, CopyConsented(s), Saved(p, s) \/ Unsaved(p, s),
           UNCHANGED consents
    PROVE  CopiesConsented'
<1>1. TypeOK /\ CopyConsented(disk) BY DEF ConsentInv, CopiesConsented
<1>2. CopyConsented(disk)' BY <1>1 DEF Saved, Unsaved, CopyConsented
<1>3. ASSUME NEW q \in Procs, Running(q)' PROVE CopyConsented(mem[q])'
  <2>1. CASE q = p
    BY <1>1, <2>1 DEF Saved, Unsaved, CopyConsented, TypeOK
  <2>2. CASE q # p
    <3>1. mem'[q] = mem[q] BY <1>1, <2>2 DEF Saved, Unsaved, TypeOK
    <3> QED BY <1>3, <3>1 DEF CopyConsented, ConsentInv, CopiesConsented, Running
  <2> QED BY <2>1, <2>2
<1> QED BY <1>2, <1>3 DEF CopiesConsented

\* A step that gives one request a place where nothing is owed keeps the others' consent.
LEMMA OneMoves ==
    ASSUME ConsentInv, NEW h \in Requests, consents \subseteq consents',
           \A g \in Requests : g # h => pc'[g] = pc[g] /\ req'[g] = req[g],
           \/ pc'[h] \in {"idle", "grant", "approval", "upstream", "usage"}
           \/ pc'[h] \in {"ask", "receipt"} /\ req'[h].decision # "allow"
           \/ Consented(req[h])'
    PROVE  RequestsConsented'
BY DEF ConsentInv, RequestsConsented, Consented

LEMMA ConsentStep == ConsentInv /\ [Next]_vars => ConsentInv'
<1> SUFFICES ASSUME ConsentInv, [Next]_vars PROVE ConsentInv' OBVIOUS
<1> TypeOK BY DEF ConsentInv
<1>t. TypeOK' BY TypeStep DEF ConsentInv
<1> DEFINE Kept == CopiesConsented' /\ RequestsConsented' /\ CrossingApproved'
<1>1. ASSUME NEW h \in Handlers, Authenticate(h) PROVE Kept
  <2> h \in Requests BY DEF Requests
  <2>1. pc'[h] = "grant" /\ \A g \in Requests : g # h => pc'[g] = pc[g] /\ req'[g] = req[g]
    BY <1>1 DEF Authenticate, Take, TypeOK
  <2>2. RequestsConsented' BY <1>1, <2>1, OneMoves DEF Authenticate
  <2>3. CopiesConsented' BY <1>1, ValidateConsented DEF Authenticate
  <2> QED BY <1>1, <2>2, <2>3 DEF Authenticate, ConsentInv, CrossingApproved, Consented
<1>2. ASSUME NEW h \in Handlers, AuthenticateFree(h) PROVE Kept
  <2> h \in Requests BY DEF Requests
  <2>1. pc'[h] = "upstream" /\ \A g \in Requests : g # h => pc'[g] = pc[g] /\ req'[g] = req[g]
    BY <1>2 DEF AuthenticateFree, TypeOK
  <2>2. RequestsConsented' BY <1>2, <2>1, OneMoves DEF AuthenticateFree
  <2>3. CopiesConsented' BY <1>2, ValidateConsented DEF AuthenticateFree
  <2> QED BY <1>2, <2>2, <2>3 DEF AuthenticateFree, ConsentInv, CrossingApproved, Consented
<1>3. ASSUME NEW h \in Handlers, Answered(h) PROVE Kept
  <2> h \in Requests BY DEF Requests
  <2>1. /\ pc'[h] \in {"idle", "usage"}
        /\ \A g \in Requests : g # h => pc'[g] = pc[g] /\ req'[g] = req[g]
    BY <1>3 DEF Answered, TypeOK
  <2>2. RequestsConsented' BY <1>3, <2>1, OneMoves DEF Answered
  <2>3. CopiesConsented'
    <3>1. CASE ValidateToken BY <1>3, <3>1, ValidateConsented DEF Answered
    <3>2. CASE UNCHANGED <<disk, mem>>
      BY <1>3, <3>2 DEF Answered, ConsentInv, CopiesConsented, CopyConsented, Running
    <3> QED BY <1>3, <3>1, <3>2 DEF Answered
  <2> QED BY <1>3, <2>2, <2>3 DEF Answered, ConsentInv, CrossingApproved, Consented
<1>4. ASSUME NEW h \in Handlers, AddUsageEvent(h) PROVE Kept
  <2> h \in Requests BY DEF Requests
  <2>1. pc'[h] = "idle" /\ \A g \in Requests : g # h => pc'[g] = pc[g] /\ req'[g] = req[g]
    BY <1>4 DEF AddUsageEvent, TypeOK
  <2>2. RequestsConsented' BY <1>4, <2>1, OneMoves DEF AddUsageEvent
  <2>3. Gateway \in Procs /\ CopyConsented(mem[Gateway])
    BY DEF ConsentInv, CopiesConsented, TypeOK, Procs, Running
  <2>4. CopiesConsented' BY <1>4, <2>3, SaveConsented DEF AddUsageEvent
  <2> QED BY <1>4, <2>2, <2>4 DEF AddUsageEvent, ConsentInv, CrossingApproved, Consented
<1>5. ASSUME NEW e \in Evals, Evaluate(e) PROVE Kept
  <2> e \in Requests BY DEF Requests
  <2>1. pc'[e] = "grant" /\ \A g \in Requests : g # e => pc'[g] = pc[g] /\ req'[g] = req[g]
    BY <1>5 DEF Evaluate, Take, TypeOK
  <2>2. RequestsConsented' BY <1>5, <2>1, OneMoves DEF Evaluate
  <2>3. CopiesConsented'
    BY <1>5 DEF Evaluate, ConsentInv, CopiesConsented, CopyConsented, Running, TypeOK
  <2> QED BY <1>5, <2>2, <2>3 DEF Evaluate, ConsentInv, CrossingApproved, Consented
<1>6. ASSUME NEW e \in Evals, AskApproval(e) PROVE Kept
  <2> e \in Requests /\ e \in Procs /\ pc[e] = "ask" BY <1>6 DEF Requests, Procs, AskApproval
  <2>1. /\ pc'[e] = "receipt" /\ req' = req
        /\ \A g \in Requests : g # e => pc'[g] = pc[g]
    BY <1>6 DEF AskApproval, TypeOK
  <2>2. RequestsConsented'
    BY <1>6, <2>1 DEF AskApproval, ConsentInv, RequestsConsented, Consented
  <2>3. PICK a \in FreshApproval : Saved(e, [mem[e] EXCEPT !.approvals[a] =
                     [status |-> "pending", action |-> req[e].action, cost |-> req[e].cost]])
    BY <1>6 DEF AskApproval
  <2>4. mem[e] \in Copy /\ CopyConsented(mem[e])
    BY DEF TypeOK, ConsentInv, CopiesConsented, Running
  <2> DEFINE s == [mem[e] EXCEPT !.approvals[a] =
                     [status |-> "pending", action |-> req[e].action, cost |-> req[e].cost]]
  <2>5. CopyConsented(s)
    <3>1. ASSUME NEW b \in ApprovalIds, s.approvals[b].status = "approved"
          PROVE s.approvals[b] = mem[e].approvals[b]
      BY <2>4, <3>1 DEF Copy
    <3> HIDE DEF s
    <3> QED BY <2>4, <3>1 DEF CopyConsented
  <2>6. CopiesConsented'
    <3>1. Saved(e, s) BY <2>3
    <3> HIDE DEF s
    <3> QED BY <1>6, <2>5, <3>1, SaveConsented DEF AskApproval
  <2> QED BY <1>6, <2>2, <2>6 DEF AskApproval, ConsentInv, CrossingApproved, Consented
<1>7. ASSUME NEW h \in Requests, ReadGrant(h) PROVE Kept
  <2>1. pc'[h] = "approval" /\ \A g \in Requests : g # h => pc'[g] = pc[g] /\ req'[g] = req[g]
    BY <1>7 DEF ReadGrant, TypeOK
  <2>2. RequestsConsented' BY <1>7, <2>1, OneMoves DEF ReadGrant
  <2>3. CopiesConsented'
    BY <1>7 DEF ReadGrant, ConsentInv, CopiesConsented, CopyConsented, Running
  <2> QED BY <1>7, <2>2, <2>3 DEF ReadGrant, ConsentInv, CrossingApproved, Consented
<1>8. ASSUME NEW h \in Requests, Decide(h) PROVE Kept
  <2>a. req[h] \in Looked BY <1>8 DEF Decide, TypeOK, Known
  <2>b. mem[Home(h)] \in Copy BY <1>8, HomeCopy DEF Decide
  <2>0. req[h] \in Looked /\ mem[Home(h)] \in Copy BY <2>a, <2>b
  <2>1. PICK inWindow \in BOOLEAN :
          /\ req' = [req EXCEPT ![h] = [action |-> req[h].action, cost |-> req[h].cost,
                                        approval |-> req[h].approval,
                                        decision |-> Decision(req[h], inWindow)]]
          /\ pc' = [pc EXCEPT ![h] = IF h \in Evals /\ Decision(req[h], inWindow) = "ask"
                                     THEN "ask" ELSE "receipt"]
    BY <1>8 DEF Decide, TypeOK
  <2>2. /\ pc'[h] \in {"ask", "receipt"}
        /\ req'[h] = [action |-> req[h].action, cost |-> req[h].cost,
                      approval |-> req[h].approval, decision |-> Decision(req[h], inWindow)]
        /\ \A g \in Requests : g # h => pc'[g] = pc[g] /\ req'[g] = req[g]
    BY <2>1 DEF TypeOK
  <2>3. ASSUME req'[h].decision = "allow" PROVE Consented(req[h])'
    <3> SUFFICES ASSUME Threshold > 0, req[h].cost >= Threshold
                 PROVE \E c \in consents : /\ c.id = req[h].approval /\ c.action = req[h].action
                                           /\ c.cost = req[h].cost
      BY <1>8, <2>2 DEF Consented, Decide
    <3>1. req[h].approval # NoId
      BY <2>2, <2>3 DEF Decision
    <3>2. Matches(h) /\ req[h].approval \in ApprovalIds
      BY <1>8, <2>0, <3>1 DEF Decide, Looked, Named
    <3>3. Home(h) \in Procs /\ mem[Home(h)] # NoCopy BY <2>0, HomeType
    <3>4. CopyConsented(mem[Home(h)])
      BY <3>3 DEF ConsentInv, CopiesConsented, Running
    <3> QED BY <3>2, <3>4 DEF Matches, CopyConsented
  <2>4. RequestsConsented' BY <1>8, <2>2, <2>3, OneMoves DEF Decide
  <2>5. CopiesConsented'
    BY <1>8 DEF Decide, ConsentInv, CopiesConsented, CopyConsented, Running
  <2> QED BY <1>8, <2>4, <2>5 DEF Decide, ConsentInv, CrossingApproved, Consented
<1>9. ASSUME NEW h \in Requests, Refuse(h) PROVE Kept
  <2>1. pc'[h] = "idle" /\ \A g \in Requests : g # h => pc'[g] = pc[g] /\ req'[g] = req[g]
    BY <1>9 DEF Refuse, End, TypeOK
  <2>2. RequestsConsented' BY <1>9, <2>1, OneMoves DEF Refuse, End
  <2>3. CopiesConsented'
    BY <1>9 DEF Refuse, End, ConsentInv, CopiesConsented, CopyConsented, Running, TypeOK
  <2> QED BY <1>9, <2>2, <2>3 DEF Refuse, End, ConsentInv, CrossingApproved, Consented
<1>10. ASSUME NEW h \in Requests, AddReceipt(h) PROVE Kept
  <2>0. pc[h] = "receipt" /\ req[h] \in Decided BY <1>10 DEF AddReceipt, TypeOK, Known
  <2>1. PICK i \in FreshReceipt :
         /\ \/ Saved(Home(h), [mem[Home(h)] EXCEPT !.receipts[i] = req[h].decision])
            \/ h \in Handlers /\ Unsaved(Gateway, [mem[Gateway] EXCEPT !.receipts[i] = req[h].decision])
         /\ IF req[h].decision = "allow"
            THEN /\ pc' = [pc EXCEPT ![h] = "spend"]
                 /\ req' = [req EXCEPT ![h] = [action |-> req[h].action, cost |-> req[h].cost,
                                               approval |-> req[h].approval, id |-> i]]
            ELSE pc' = [pc EXCEPT ![h] = "idle"] /\ req' = [req EXCEPT ![h] = NoRequest]
    BY <1>10 DEF AddReceipt, TypeOK
  <2>2. Home(h) \in Procs /\ mem[Home(h)] \in Copy /\ (h \in Handlers => Home(h) = Gateway)
    BY <2>0, HomeType, HomeCopy DEF Home
  <2> DEFINE s == [mem[Home(h)] EXCEPT !.receipts[i] = req[h].decision]
  <2>3. CopyConsented(s)
    <3>1. CopyConsented(mem[Home(h)]) BY <2>2 DEF ConsentInv, CopiesConsented, Running
    <3>2. s.approvals = mem[Home(h)].approvals BY <2>2 DEF Copy
    <3> HIDE DEF s
    <3> QED BY <3>1, <3>2 DEF CopyConsented
  <2>4. CopiesConsented'
    <3>1. Saved(Home(h), s) \/ Unsaved(Home(h), s) BY <2>1, <2>2
    <3> HIDE DEF s
    <3> QED BY <1>10, <2>2, <2>3, <3>1, SaveConsented DEF AddReceipt
  <2>5. \A g \in Requests : g # h => pc'[g] = pc[g] /\ req'[g] = req[g]
    BY <2>1 DEF TypeOK
  <2>6. pc'[h] = "idle" \/ Consented(req[h])'
    <3>1. CASE req[h].decision = "allow"
      <4>1. Consented(req[h]) BY <2>0, <3>1 DEF ConsentInv, RequestsConsented
      <4>2. /\ req'[h].action = req[h].action /\ req'[h].cost = req[h].cost
            /\ req'[h].approval = req[h].approval /\ consents' = consents
        BY <1>10, <2>1, <3>1 DEF TypeOK, AddReceipt
      <4> QED BY <4>1, <4>2 DEF Consented
    <3>2. CASE req[h].decision # "allow" BY <2>1, <3>2 DEF TypeOK
    <3> QED BY <3>1, <3>2
  <2>7. RequestsConsented' BY <1>10, <2>5, <2>6, OneMoves DEF AddReceipt
  <2> QED BY <1>10, <2>4, <2>7 DEF AddReceipt, ConsentInv, CrossingApproved, Consented
<1>11. ASSUME NEW h \in Requests, AddGrantSpend(h) PROVE Kept
  <2>0. pc[h] = "spend" BY <1>11 DEF AddGrantSpend
  <2>1. pc'[h] \in {"idle", "upstream"} /\ \A g \in Requests : g # h => pc'[g] = pc[g] /\ req'[g] = req[g]
    BY <1>11 DEF AddGrantSpend, AfterSpend, TypeOK
  <2>2. RequestsConsented' BY <1>11, <2>1, OneMoves DEF AddGrantSpend
  <2>3. Home(h) \in Procs /\ mem[Home(h)] \in Copy BY <2>0, HomeType, HomeCopy
  <2>4. CopiesConsented'
    <3> DEFINE s == [mem[Home(h)] EXCEPT !.spent = Plus(@, req[h].cost)]
    <3>1. CopyConsented(s)
      <4>1. CopyConsented(mem[Home(h)]) BY <2>3 DEF ConsentInv, CopiesConsented, Running
      <4>2. s.approvals = mem[Home(h)].approvals BY <2>3 DEF Copy
      <4> HIDE DEF s
      <4> QED BY <4>1, <4>2 DEF CopyConsented
    <3>2. CASE req[h].cost > 0
      <4>1. Saved(Home(h), s) \/ Unsaved(Home(h), s) BY <1>11, <3>2 DEF AddGrantSpend
      <4> HIDE DEF s
      <4> QED BY <1>11, <2>3, <3>1, <4>1, SaveConsented DEF AddGrantSpend
    <3>3. CASE ~(req[h].cost > 0)
      BY <1>11, <3>3 DEF AddGrantSpend, ConsentInv, CopiesConsented, CopyConsented, Running
    <3> QED BY <3>2, <3>3
  <2>5. Consented(req[h]) BY <2>0 DEF ConsentInv, RequestsConsented
  <2> QED BY <1>11, <2>2, <2>4, <2>5 DEF AddGrantSpend, ConsentInv, CrossingApproved, Consented
<1>12. ASSUME NEW o \in Owners, OpenStore(o) PROVE Kept
  BY <1>12 DEF OpenStore, ConsentInv, CopiesConsented, CopyConsented, Running, TypeOK,
               RequestsConsented, Consented, CrossingApproved
<1>13. ASSUME NEW o \in Owners, RevokeGrant(o) PROVE Kept
  <2>1. mem[o] \in Copy /\ CopyConsented(mem[o])
    BY <1>13 DEF RevokeGrant, Running, TypeOK, Procs, ConsentInv, CopiesConsented
  <2>2. disk'.approvals = mem[o].approvals BY <1>13, <2>1 DEF RevokeGrant, Copy
  <2>3. CopyConsented(disk)' BY <1>13, <2>1, <2>2 DEF RevokeGrant, CopyConsented
  <2>4. \A p \in Procs : mem'[p] = mem[p] \/ mem'[p] = NoCopy BY <1>13 DEF RevokeGrant, TypeOK
  <2>5. CopiesConsented'
    BY <1>13, <2>3, <2>4 DEF RevokeGrant, ConsentInv, CopiesConsented, CopyConsented, Running
  <2> QED BY <1>13, <2>5 DEF RevokeGrant, ConsentInv, RequestsConsented, Consented, CrossingApproved
<1>14. ASSUME NEW o \in Owners, Resolve(o) PROVE Kept
  <2>1. mem[o] \in Copy /\ CopyConsented(mem[o])
    BY <1>14 DEF Resolve, Running, TypeOK, Procs, ConsentInv, CopiesConsented
  <2>2. PICK a \in ApprovalIds, status \in {"approved", "rejected"} :
         /\ mem[o].approvals[a].status = "pending"
         /\ disk' = [mem[o] EXCEPT !.approvals[a].status = status]
         /\ consents' = IF status = "approved"
                        THEN consents \cup {[id |-> a, action |-> mem[o].approvals[a].action,
                                             cost |-> mem[o].approvals[a].cost]}
                        ELSE consents
    BY <1>14 DEF Resolve
  <2>3. consents \subseteq consents' BY <2>2
  <2>4. CopyConsented(disk)'
    <3> SUFFICES ASSUME NEW b \in ApprovalIds, disk'.approvals[b].status = "approved"
                 PROVE [id |-> b, action |-> disk'.approvals[b].action,
                        cost |-> disk'.approvals[b].cost] \in consents'
      BY DEF CopyConsented
    <3>1. CASE b = a
      <4>1. mem[o].approvals[a] \in Approval BY <2>1, <2>2 DEF Copy, Unused
      <4>2. disk'.approvals[a] = [mem[o].approvals[a] EXCEPT !.status = status]
        BY <2>1, <2>2 DEF Copy
      <4>3. status = "approved" BY <3>1, <4>1, <4>2 DEF Approval
      <4>4. /\ disk'.approvals[a].action = mem[o].approvals[a].action
            /\ disk'.approvals[a].cost = mem[o].approvals[a].cost
        BY <4>1, <4>2 DEF Approval
      <4> QED BY <2>2, <3>1, <4>3, <4>4
    <3>2. CASE b # a
      <4>1. disk'.approvals[b] = mem[o].approvals[b] BY <2>1, <2>2, <3>2 DEF Copy
      <4> QED BY <2>1, <2>3, <4>1 DEF CopyConsented
    <3> QED BY <3>1, <3>2
  <2>5. \A p \in Procs : mem'[p] = mem[p] \/ mem'[p] = NoCopy BY <1>14 DEF Resolve, TypeOK
  <2>6. CopiesConsented'
    BY <2>3, <2>4, <2>5 DEF ConsentInv, CopiesConsented, CopyConsented, Running
  <2>7. RequestsConsented' /\ CrossingApproved'
    BY <1>14, <2>3 DEF Resolve, ConsentInv, RequestsConsented, Consented, CrossingApproved
  <2> QED BY <2>6, <2>7
<1>15. ASSUME NEW p \in Commands, Exit(p) PROVE Kept
  <2>1. CopiesConsented'
    BY <1>15 DEF Exit, ConsentInv, CopiesConsented, CopyConsented, Running, TypeOK
  <2>2. RequestsConsented' BY <1>15 DEF Exit, ConsentInv, RequestsConsented, Consented
  <2> QED BY <1>15, <2>1, <2>2 DEF Exit, ConsentInv, CrossingApproved, Consented
<1>16. ASSUME Restart PROVE Kept
  <2>1. CopiesConsented'
    BY <1>16 DEF Restart, ConsentInv, CopiesConsented, CopyConsented, Running, TypeOK
  <2>2. RequestsConsented' BY <1>16 DEF Restart, ConsentInv, RequestsConsented, Consented
  <2> QED BY <1>16, <2>1, <2>2 DEF Restart, ConsentInv, CrossingApproved, Consented
<1>17. ASSUME UNCHANGED vars PROVE Kept
  <2>1. CopiesConsented' BY <1>17 DEF vars, ConsentInv, CopiesConsented, CopyConsented, Running
  <2>2. RequestsConsented' BY <1>17 DEF vars, ConsentInv, RequestsConsented, Consented
  <2> QED BY <1>17, <2>1, <2>2 DEF vars, ConsentInv, CrossingApproved, Consented
<1> QED BY <1>t, <1>1, <1>2, <1>3, <1>4, <1>5, <1>6, <1>7, <1>8, <1>9, <1>10, <1>11, <1>12,
          <1>13, <1>14, <1>15, <1>16, <1>17 DEF Next, RequestStep, ConsentInv

\* Nothing that crosses the approval threshold is forwarded or allowed unless an attested
\* approver approved this action at this cost, with any overlap and any failure.
THEOREM CrossingApprovedHolds == Spec => []CrossingApproved
<1>1. ConsentInv => CrossingApproved BY DEF ConsentInv
<1> QED BY <1>1, InitConsent, ConsentStep, PTL DEF Spec

-----------------------------------------------------------------------------
(* The owner's decisions, while commands run alone and reads succeed.  A    *)
(* running command's copy is the file, and so is the gateway's while it is  *)
(* between authentication and its last save.                                *)

Calm(h) == pc[h] \in {"idle", "upstream"}

Synced ==
    /\ \A p \in Commands : Running(p) =>
           /\ mem[p] = disk
           /\ \A q \in Commands : Running(q) => q = p
           /\ \A h \in Handlers : Calm(h)
    /\ \A h \in Handlers : Calm(h) \/ mem[Gateway] = disk

ReadTrue == \A h \in Requests : pc[h] = "approval" => req[h].status = disk.status

OwnerInv == TypeOK /\ (~Overlap /\ trouble # "read" => Synced /\ ReadTrue)

\* A step keeps what the owner decided.
Sticks ==
    /\ disk.status = "revoked" => disk'.status = "revoked"
    /\ \A a \in ApprovalIds : disk.approvals[a].status \in {"approved", "rejected"} =>
           disk'.approvals[a] = disk.approvals[a]

\* What every step but a revocation does for the requests that have read the grant.
StatusKept ==
    /\ disk'.status = disk.status
    /\ \A h \in Requests : pc'[h] = "approval" =>
           \/ pc[h] = "approval" /\ req'[h] = req[h]
           \/ req'[h].status = disk'.status

LEMMA InitOwner == Init => OwnerInv
BY InitType DEF Init, OwnerInv, Synced, ReadTrue, Calm, Running, Procs, Requests, Commands, GrantAssumption

\* A request that is between its first and last access works on what the file says, and no
\* other process is about to save.
LEMMA Exclusive ==
    ASSUME TypeOK, Synced, NEW h \in Requests, ~Calm(h)
    PROVE  /\ mem[Home(h)] = disk /\ disk \in Copy
           /\ h \in Handlers => Home(h) = Gateway /\ \A p \in Commands : ~Running(p)
           /\ h \in Evals => /\ Home(h) = h /\ h \in Commands
                             /\ \A p \in Commands : Running(p) => p = h
                             /\ \A g \in Handlers : Calm(g)
<1>1. disk \in Copy BY DEF TypeOK
<1>2. CASE h \in Evals
  <2>1. Running(h) /\ h \in Commands BY <1>2 DEF TypeOK, Calm, Running, Commands
  <2> QED BY <1>1, <1>2, <2>1 DEF Synced, Home
<1>3. CASE h \in Handlers
  BY <1>1, <1>3 DEF Synced, Home
<1> QED BY <1>2, <1>3 DEF Requests

\* The gateway's copy is the file again and no command runs.
LEMMA GatewaySync ==
    ASSUME TypeOK, \A p \in Commands : ~Running(p) /\ mem'[p] = mem[p], mem'[Gateway] = disk'
    PROVE  Synced'
BY DEF Synced, Running

\* The one command that runs has saved, or is done, while no request is at work.
LEMMA CommandSync ==
    ASSUME TypeOK, NEW p \in Commands, \A q \in Commands : Running(q) => q = p,
           \A q \in Commands : q # p => mem'[q] = mem[q],
           mem'[p] \in {disk', NoCopy}, \A h \in Handlers : Calm(h)'
    PROVE  Synced'
BY DEF Synced, Running

\* Nothing is read or saved.
LEMMA SameSync ==
    ASSUME Synced, UNCHANGED <<disk, mem>>, \A h \in Handlers : Calm(h) => Calm(h)'
    PROVE  Synced'
BY DEF Synced, Running

LEMMA ReadKept == ASSUME ReadTrue, StatusKept PROVE ReadTrue'
BY DEF ReadTrue, StatusKept

\* Once the file could not be read, that is never forgotten, and a failed save is not either.
LEMMA TroubleStays ==
    ASSUME TypeOK, [Next]_vars
    PROVE  (trouble = "read" => trouble' = "read") /\ (trouble' = "none" => trouble = "none")
BY DEF TypeOK, Next, RequestStep, vars, Authenticate, AuthenticateFree, Answered, AddUsageEvent,
       Evaluate, AskApproval, ReadGrant, Decide, Refuse, End, AddReceipt, AddGrantSpend,
       OpenStore, RevokeGrant, Resolve, Exit, Restart, Saved, Unsaved, ValidateToken

LEMMA OwnerStep ==
    ASSUME ~Overlap, trouble' # "read", OwnerInv, [Next]_vars
    PROVE  OwnerInv' /\ Sticks
<1> TypeOK /\ Synced /\ ReadTrue BY TroubleStays DEF OwnerInv
<1>t. TypeOK' BY TypeStep DEF OwnerInv
<1> DEFINE Good == Synced' /\ ReadTrue' /\ Sticks
<1>v. ASSUME ValidateToken PROVE /\ disk' = disk /\ mem'[Gateway] = disk'
                                 /\ \A p \in Commands : mem'[p] = mem[p]
  BY <1>v DEF ValidateToken, TypeOK, Procs, Commands
<1>s. ASSUME NEW h \in Requests, ~Calm(h), NEW s,
             Saved(Home(h), s) \/ Unsaved(Home(h), s),
             \A g \in Requests : g # h => pc'[g] = pc[g]
      PROVE  Synced' /\ disk' \in {s, disk}
  <2>1. disk' \in {s, disk} BY <1>s DEF Saved, Unsaved
  <2>2. Home(h) \in Procs BY HomeType
  <2>3. mem'[Home(h)] = disk' /\ \A p \in Procs : p # Home(h) => mem'[p] = mem[p]
    BY <1>s, <2>2 DEF Saved, Unsaved, TypeOK
  <2>4. CASE h \in Handlers
    <3>1. Home(h) = Gateway /\ \A p \in Commands : ~Running(p) BY <1>s, <2>4, Exclusive
    <3>2. \A p \in Commands : mem'[p] = mem[p] BY <2>3, <3>1 DEF Commands, Procs
    <3> QED BY <2>1, <2>3, <3>1, <3>2, GatewaySync
  <2>5. CASE h \in Evals
    <3>1. /\ Home(h) = h /\ h \in Commands /\ \A p \in Commands : Running(p) => p = h
          /\ \A g \in Handlers : Calm(g)
      BY <1>s, <2>5, Exclusive
    <3>2. \A g \in Handlers : Calm(g)' BY <1>s, <2>5, <3>1 DEF Calm, Requests
    <3>3. \A q \in Commands : q # h => mem'[q] = mem[q] BY <2>3, <3>1 DEF Commands, Procs
    <3> QED BY <2>1, <2>3, <3>1, <3>2, <3>3, CommandSync
  <2> QED BY <2>4, <2>5 DEF Requests
<1>1. ASSUME NEW h \in Handlers, Authenticate(h) PROVE Good
  <2>1. \A p \in Commands : ~Running(p) BY <1>1 DEF Authenticate, Alone
  <2>2. Synced' BY <1>1, <1>v, <2>1, GatewaySync DEF Authenticate
  <2>3. StatusKept BY <1>1, <1>v DEF Authenticate, Take, StatusKept, TypeOK
  <2> QED BY <1>1, <1>v, <2>2, <2>3, ReadKept DEF Authenticate, Sticks
<1>2. ASSUME NEW h \in Handlers, AuthenticateFree(h) PROVE Good
  <2>1. \A p \in Commands : ~Running(p) BY <1>2 DEF AuthenticateFree, Alone
  <2>2. Synced' BY <1>2, <1>v, <2>1, GatewaySync DEF AuthenticateFree
  <2>3. StatusKept BY <1>2, <1>v DEF AuthenticateFree, StatusKept, TypeOK
  <2> QED BY <1>2, <1>v, <2>2, <2>3, ReadKept DEF AuthenticateFree, Sticks
<1>3. ASSUME NEW h \in Handlers, Answered(h) PROVE Good
  <2>1. CASE UNCHANGED <<disk, mem>> /\ pc' = [pc EXCEPT ![h] = "idle"]
    <3>1. Synced' BY <1>3, <2>1, SameSync DEF Answered, Calm, TypeOK
    <3>2. StatusKept BY <1>3, <2>1 DEF Answered, StatusKept, TypeOK
    <3> QED BY <1>3, <2>1, <3>1, <3>2, ReadKept DEF Sticks
  <2>2. CASE Alone /\ ValidateToken /\ pc' = [pc EXCEPT ![h] = "usage"]
    <3>1. \A p \in Commands : ~Running(p) BY <2>2 DEF Alone
    <3>2. Synced' BY <1>v, <2>2, <3>1, GatewaySync
    <3>3. StatusKept BY <1>3, <1>v, <2>2 DEF Answered, StatusKept, TypeOK
    <3> QED BY <1>v, <2>2, <3>2, <3>3, ReadKept DEF Sticks
  <2> QED BY <1>3, <2>1, <2>2 DEF Answered
<1>4. ASSUME NEW h \in Handlers, AddUsageEvent(h) PROVE Good
  <2>1. h \in Requests /\ ~Calm(h) BY <1>4 DEF AddUsageEvent, Requests, Calm
  <2>2. mem[Gateway] = disk /\ Home(h) = Gateway BY <2>1, <1>4, Exclusive
  <2>3. \A g \in Requests : g # h => pc'[g] = pc[g] BY <1>4 DEF AddUsageEvent, TypeOK
  <2>4. Synced' /\ disk' = disk BY <1>4, <1>s, <2>1, <2>2, <2>3 DEF AddUsageEvent
  <2>5. StatusKept BY <1>4, <2>4 DEF AddUsageEvent, StatusKept, TypeOK
  <2> QED BY <2>4, <2>5, ReadKept DEF Sticks
<1>5. ASSUME NEW e \in Evals, Evaluate(e) PROVE Good
  <2> e \in Requests /\ e \in Procs /\ e \in Commands BY DEF Requests, Procs, Commands
  <2>1. /\ \A p \in Commands : ~Running(p)
        /\ \A h \in Handlers : Calm(h)
    BY <1>5 DEF Evaluate, MayStart, Alone, Calm
  <2>2. pc'[e] = "grant" /\ \A g \in Requests : g # e => pc'[g] = pc[g] /\ req'[g] = req[g]
    BY <1>5 DEF Evaluate, Take, TypeOK
  <2>3. \A h \in Handlers : Calm(h)' BY <2>1, <2>2 DEF Calm, Requests
  <2>4. disk' = disk /\ mem'[e] = disk /\ \A q \in Commands : q # e => mem'[q] = mem[q]
    BY <1>5 DEF Evaluate, TypeOK, Procs, Commands
  <2>5. Synced' BY <2>1, <2>3, <2>4, CommandSync
  <2>6. StatusKept BY <2>2, <2>4 DEF StatusKept
  <2> QED BY <2>4, <2>5, <2>6, ReadKept DEF Sticks
<1>6. ASSUME NEW e \in Evals, AskApproval(e) PROVE Good
  <2>1. e \in Requests /\ Home(e) = e /\ ~Calm(e)
    BY <1>6 DEF AskApproval, Requests, Calm, Home
  <2>2. mem[e] = disk /\ disk \in Copy BY <2>1, Exclusive
  <2>3. PICK a \in FreshApproval : Saved(e, [mem[e] EXCEPT !.approvals[a] =
                     [status |-> "pending", action |-> req[e].action, cost |-> req[e].cost]])
    BY <1>6 DEF AskApproval
  <2>4. pc'[e] = "receipt" /\ req' = req /\ \A g \in Requests : g # e => pc'[g] = pc[g]
    BY <1>6, <2>1 DEF AskApproval, TypeOK
  <2> DEFINE s == [mem[e] EXCEPT !.approvals[a] =
                     [status |-> "pending", action |-> req[e].action, cost |-> req[e].cost]]
  <2>5. disk' = s /\ Saved(Home(e), s) BY <2>1, <2>3 DEF Saved
  <2>6. /\ s.status = disk.status
        /\ \A b \in ApprovalIds : disk.approvals[b].status # "none" => s.approvals[b] = disk.approvals[b]
    <3>1. a \in ApprovalIds /\ disk.approvals[a].status = "none"
      BY DEF FreshApproval, Drawn
    <3> QED BY <2>2, <3>1 DEF Copy
  <2> HIDE DEF s
  <2>7. Synced' BY <1>s, <2>1, <2>4, <2>5
  <2>8. StatusKept BY <2>4, <2>5, <2>6, <2>1 DEF StatusKept
  <2>9. Sticks BY <2>5, <2>6 DEF Sticks
  <2> QED BY <2>7, <2>8, <2>9, ReadKept
<1>7. ASSUME NEW h \in Requests, ReadGrant(h) PROVE Good
  <2>1. ~Calm(h) BY <1>7 DEF ReadGrant, Calm
  <2>2. mem[Home(h)] = disk BY <2>1, Exclusive
  <2>3. Synced' BY <1>7, <2>1, SameSync DEF ReadGrant, Calm, TypeOK, Requests
  <2>4. StatusKept BY <1>7, <2>2 DEF ReadGrant, StatusKept, TypeOK
  <2> QED BY <1>7, <2>3, <2>4, ReadKept DEF ReadGrant, Sticks
<1>8. ASSUME NEW h \in Requests, Decide(h) PROVE Good
  <2>1. ~Calm(h) BY <1>8 DEF Decide, Calm
  <2>2. /\ pc'[h] # "approval"
        /\ \A g \in Requests : g # h => pc'[g] = pc[g] /\ req'[g] = req[g]
    BY <1>8 DEF Decide, TypeOK
  <2>3. Synced' BY <1>8, <2>1, <2>2, SameSync DEF Decide, Calm, Requests
  <2>4. StatusKept BY <1>8, <2>2 DEF Decide, StatusKept
  <2> QED BY <1>8, <2>3, <2>4, ReadKept DEF Decide, Sticks
<1>9. ASSUME NEW h \in Requests, Refuse(h) PROVE Good
  <2>1. ~Calm(h) BY <1>9 DEF Refuse, Calm
  <2>2. /\ pc'[h] = "idle" /\ disk' = disk
        /\ \A g \in Requests : g # h => pc'[g] = pc[g] /\ req'[g] = req[g]
    BY <1>9 DEF Refuse, End, TypeOK
  <2>3. Synced'
    <3>1. CASE h \in Evals
      <4>1. /\ h \in Commands /\ \A p \in Commands : Running(p) => p = h
            /\ \A g \in Handlers : Calm(g)
        BY <2>1, <3>1, Exclusive
      <4>2. \A g \in Handlers : Calm(g)' BY <2>2, <4>1 DEF Calm, Requests
      <4>3. mem'[h] = NoCopy /\ \A q \in Commands : q # h => mem'[q] = mem[q]
        BY <1>9, <3>1 DEF Refuse, End, TypeOK, Procs, Commands
      <4> QED BY <4>1, <4>2, <4>3, CommandSync
    <3>2. CASE h \notin Evals
      <4>1. UNCHANGED <<disk, mem>> BY <1>9, <3>2 DEF Refuse, End
      <4> QED BY <2>1, <2>2, <4>1, SameSync DEF Calm, Requests
    <3> QED BY <3>1, <3>2
  <2>4. StatusKept BY <2>2 DEF StatusKept
  <2> QED BY <2>2, <2>3, <2>4, ReadKept DEF Sticks
<1>10. ASSUME NEW h \in Requests, AddReceipt(h) PROVE Good
  <2>1. ~Calm(h) BY <1>10 DEF AddReceipt, Calm
  <2>2. mem[Home(h)] = disk /\ disk \in Copy /\ (h \in Handlers => Home(h) = Gateway)
    BY <2>1, Exclusive
  <2>3. PICK i \in FreshReceipt :
         \/ Saved(Home(h), [mem[Home(h)] EXCEPT !.receipts[i] = req[h].decision])
         \/ h \in Handlers /\ Unsaved(Gateway, [mem[Gateway] EXCEPT !.receipts[i] = req[h].decision])
    BY <1>10 DEF AddReceipt
  <2>4. /\ pc'[h] \in {"idle", "spend"}
        /\ \A g \in Requests : g # h => pc'[g] = pc[g] /\ req'[g] = req[g]
    BY <1>10 DEF AddReceipt, TypeOK
  <2> DEFINE s == [mem[Home(h)] EXCEPT !.receipts[i] = req[h].decision]
  <2>5. Saved(Home(h), s) \/ Unsaved(Home(h), s) BY <2>2, <2>3
  <2>6. s.status = disk.status /\ s.approvals = disk.approvals BY <2>2 DEF Copy
  <2> HIDE DEF s
  <2>7. Synced' /\ disk' \in {s, disk} BY <1>s, <2>1, <2>4, <2>5
  <2>8. StatusKept BY <2>4, <2>6, <2>7 DEF StatusKept
  <2> QED BY <2>6, <2>7, <2>8, ReadKept DEF Sticks
<1>11. ASSUME NEW h \in Requests, AddGrantSpend(h) PROVE Good
  <2>1. ~Calm(h) BY <1>11 DEF AddGrantSpend, Calm
  <2>2. mem[Home(h)] = disk /\ disk \in Copy BY <2>1, Exclusive
  <2>3. /\ pc'[h] \in {"idle", "upstream"}
        /\ \A g \in Requests : g # h => pc'[g] = pc[g] /\ req'[g] = req[g]
    BY <1>11 DEF AddGrantSpend, AfterSpend, TypeOK
  <2> DEFINE s == [mem[Home(h)] EXCEPT !.spent = Plus(@, req[h].cost)]
  <2>4. s.status = disk.status /\ s.approvals = disk.approvals BY <2>2 DEF Copy
  <2>5. CASE req[h].cost > 0
    <3>1. Saved(Home(h), s) \/ Unsaved(Home(h), s) BY <1>11, <2>5 DEF AddGrantSpend
    <3> HIDE DEF s
    <3>2. Synced' /\ disk' \in {s, disk} BY <1>s, <2>1, <2>3, <3>1
    <3>3. StatusKept BY <2>3, <2>4, <3>2 DEF StatusKept
    <3> QED BY <2>4, <3>2, <3>3, ReadKept DEF Sticks
  <2>6. CASE ~(req[h].cost > 0)
    <3>1. UNCHANGED <<disk, mem>> BY <1>11, <2>6 DEF AddGrantSpend
    <3>2. Synced' BY <2>3, <3>1, SameSync DEF Calm, Requests
    <3>3. StatusKept BY <2>3, <3>1 DEF StatusKept
    <3> QED BY <3>1, <3>2, <3>3, ReadKept DEF Sticks
  <2> QED BY <2>5, <2>6
<1>12. ASSUME NEW o \in Owners, OpenStore(o) PROVE Good
  <2> o \in Commands /\ o \in Procs BY DEF Commands, Procs
  <2>1. (\A p \in Commands : ~Running(p)) /\ \A h \in Handlers : Calm(h)
    BY <1>12 DEF OpenStore, MayStart, Alone, Calm
  <2>2. mem'[o] = disk' /\ \A q \in Commands : q # o => mem'[q] = mem[q]
    BY <1>12 DEF OpenStore, TypeOK, Procs, Commands
  <2>3. Synced' BY <1>12, <2>1, <2>2, CommandSync DEF OpenStore, Calm
  <2>4. StatusKept BY <1>12 DEF OpenStore, StatusKept
  <2> QED BY <1>12, <2>3, <2>4, ReadKept DEF OpenStore, Sticks
<1>o. ASSUME NEW o \in Owners, Running(o), mem' = [mem EXCEPT ![o] = NoCopy], UNCHANGED <<pc, req>>
      PROVE  Synced' /\ mem[o] = disk /\ disk \in Copy
  <2> o \in Commands BY DEF Commands
  <2>1. /\ \A q \in Commands : Running(q) => q = o
        /\ \A h \in Handlers : Calm(h)
        /\ mem[o] = disk /\ disk \in Copy
    BY <1>o DEF Synced, TypeOK
  <2>2. mem'[o] = NoCopy /\ \A q \in Commands : q # o => mem'[q] = mem[q]
    BY <1>o DEF TypeOK, Procs, Commands
  <2>3. \A h \in Handlers : Calm(h)' BY <1>o, <2>1 DEF Calm
  <2> QED BY <2>1, <2>2, <2>3, CommandSync
<1>13. ASSUME NEW o \in Owners, RevokeGrant(o) PROVE Good
  <2>1. Synced' /\ mem[o] = disk /\ disk \in Copy BY <1>13, <1>o DEF RevokeGrant
  <2>2. disk'.status = "revoked" /\ disk'.approvals = disk.approvals
    BY <1>13, <2>1 DEF RevokeGrant, Copy
  <2>3. \A h \in Requests : pc[h] # "approval"
    <3>1. o \in Commands /\ Running(o) /\ o \notin Evals BY <1>13 DEF RevokeGrant, Commands
    <3>2. \A h \in Requests : Calm(h)
      <4>1. \A h \in Handlers : Calm(h) BY <3>1 DEF Synced
      <4>2. ASSUME NEW h \in Evals, ~Calm(h) PROVE FALSE
        BY <3>1, <4>2, Exclusive DEF Requests
      <4> QED BY <4>1, <4>2 DEF Requests
    <3> QED BY <3>2 DEF Calm
  <2>4. ReadTrue' BY <1>13, <2>3 DEF RevokeGrant, ReadTrue
  <2> QED BY <2>1, <2>2, <2>4 DEF Sticks
<1>14. ASSUME NEW o \in Owners, Resolve(o) PROVE Good
  <2>1. Synced' /\ mem[o] = disk /\ disk \in Copy BY <1>14, <1>o DEF Resolve
  <2>2. PICK a \in ApprovalIds, status \in {"approved", "rejected"} :
          mem[o].approvals[a].status = "pending" /\ disk' = [mem[o] EXCEPT !.approvals[a].status = status]
    BY <1>14 DEF Resolve
  <2>3. /\ disk'.status = disk.status
        /\ \A b \in ApprovalIds : b # a => disk'.approvals[b] = disk.approvals[b]
    BY <2>1, <2>2 DEF Copy
  <2>4. StatusKept BY <1>14, <2>3 DEF Resolve, StatusKept
  <2> QED BY <2>1, <2>2, <2>3, <2>4, ReadKept DEF Sticks
<1>15. ASSUME NEW p \in Commands, Exit(p) PROVE Good
  <2>1. /\ \A q \in Commands : Running(q) => q = p
        /\ \A h \in Handlers : Calm(h)
    BY <1>15 DEF Exit, Synced
  <2>2. \A h \in Handlers : Calm(h)' BY <1>15, <2>1 DEF Exit, Calm, Requests
  <2>3. mem'[p] = NoCopy /\ \A q \in Commands : q # p => mem'[q] = mem[q]
    BY <1>15 DEF Exit, TypeOK, Procs, Commands
  <2>4. Synced' BY <2>1, <2>2, <2>3, CommandSync
  <2>5. StatusKept BY <1>15 DEF Exit, StatusKept
  <2> QED BY <1>15, <2>4, <2>5, ReadKept DEF Exit, Sticks
<1>16. ASSUME Restart PROVE Good
  <2>1. /\ mem'[Gateway] = disk' /\ disk' = disk
        /\ \A q \in Commands : mem'[q] = mem[q]
    BY <1>16 DEF Restart, TypeOK, Procs, Commands
  <2>2. \A h \in Handlers : Calm(h)' BY <1>16 DEF Restart, Calm, Requests
  <2>3. Synced' BY <2>1, <2>2 DEF Synced, Running
  <2>4. StatusKept BY <1>16 DEF Restart, StatusKept
  <2> QED BY <2>1, <2>3, <2>4, ReadKept DEF Sticks
<1>17. ASSUME UNCHANGED vars PROVE Good
  <2>1. Synced' BY <1>17, SameSync DEF vars, Calm
  <2> QED BY <1>17, <2>1 DEF vars, ReadTrue, Sticks
<1>18. Good
  BY <1>1, <1>2, <1>3, <1>4, <1>5, <1>6, <1>7, <1>8, <1>9, <1>10, <1>11, <1>12, <1>13,
     <1>14, <1>15, <1>16, <1>17 DEF Next, RequestStep
<1> QED BY <1>t, <1>18 DEF OwnerInv

LEMMA OwnerStays == OwnerInv /\ [Next]_vars => OwnerInv'
<1> SUFFICES ASSUME OwnerInv, [Next]_vars PROVE OwnerInv' OBVIOUS
<1>1. TypeOK' BY TypeStep DEF OwnerInv
<1>2. CASE ~Overlap /\ trouble' # "read" BY <1>2, OwnerStep
<1> QED BY <1>1, <1>2 DEF OwnerInv

\* When commands run alone and until the file cannot be read, a revoked grant and a resolved
\* approval stay so in the file, whatever saves fail and whoever dies.
THEOREM DecisionsStickHolds == Spec => DecisionsStick
<1>1. OwnerInv /\ [Next]_vars =>
        [~Overlap /\ trouble' # "read" =>
           /\ disk.status = "revoked" => disk'.status = "revoked"
           /\ \A a \in ApprovalIds : disk.approvals[a].status \in {"approved", "rejected"} =>
                  disk'.approvals[a] = disk.approvals[a]]_disk
  BY OwnerStep DEF Sticks
<1> QED BY <1>1, OwnerStays, InitOwner, PTL DEF Spec, DecisionsStick

\* Only Decide takes a request from its approval to its receipt.
LEMMA OnlyDecide ==
    ASSUME TypeOK, [Next]_vars, NEW h \in Requests, pc[h] = "approval", pc'[h] = "receipt"
    PROVE  Decide(h)
<1>2. ASSUME NEW g \in Handlers,
             Authenticate(g) \/ AuthenticateFree(g) \/ Answered(g) \/ AddUsageEvent(g)
      PROVE  FALSE
  BY <1>2 DEF Authenticate, Take, AuthenticateFree, Answered, AddUsageEvent, TypeOK, Requests
<1>3. ASSUME NEW e \in Evals, Evaluate(e) \/ AskApproval(e) PROVE FALSE
  BY <1>3 DEF Evaluate, Take, AskApproval, TypeOK, Requests
<1>4. ASSUME NEW g \in Requests,
             ReadGrant(g) \/ Refuse(g) \/ AddReceipt(g) \/ AddGrantSpend(g)
      PROVE  FALSE
  BY <1>4 DEF ReadGrant, Refuse, End, AddReceipt, AddGrantSpend, AfterSpend, TypeOK
<1>5. ASSUME NEW o \in Owners, OpenStore(o) \/ RevokeGrant(o) \/ Resolve(o) PROVE FALSE
  BY <1>5 DEF OpenStore, RevokeGrant, Resolve
<1>6. ASSUME NEW p \in Commands, Exit(p) PROVE FALSE BY <1>6 DEF Exit
<1>7. ~Restart BY DEF Restart
<1>8. ~UNCHANGED vars BY DEF vars
<1>9. ASSUME NEW g \in Requests, Decide(g) PROVE Decide(h)
  BY <1>9 DEF Decide, TypeOK
<1> QED BY <1>2, <1>3, <1>4, <1>5, <1>6, <1>7, <1>8, <1>9 DEF Next, RequestStep

\* Under the same conditions, once the owner has revoked the grant every request that is
\* decided is blocked.
THEOREM RevocationEnforcedHolds == Spec => RevocationEnforced
<1>1. OwnerInv /\ [Next]_vars =>
        [~Overlap /\ trouble # "read" =>
           \A h \in Requests : pc[h] = "approval" /\ pc'[h] = "receipt" /\ disk.status = "revoked"
                               => req'[h].decision = "block"]_vars
  <2> SUFFICES ASSUME OwnerInv, [Next]_vars, ~Overlap, trouble # "read", NEW h \in Requests,
                      pc[h] = "approval", pc'[h] = "receipt", disk.status = "revoked"
               PROVE  req'[h].decision = "block"
    OBVIOUS
  <2>1. Decide(h) BY OnlyDecide DEF OwnerInv
  <2>2. req[h].status = "revoked" BY DEF OwnerInv, ReadTrue
  <2> QED BY <2>1, <2>2 DEF Decide, Decision, OwnerInv, TypeOK
<1> QED BY <1>1, OwnerStays, InitOwner, PTL DEF Spec, RevocationEnforced

-----------------------------------------------------------------------------
(* What was forwarded.  While commands run alone and nothing fails, the     *)
(* file counts exactly what went upstream, and a receipt that was written   *)
(* is not written over.                                                     *)

Accounted ==
    /\ \A h \in Requests : pc[h] = "spend" => disk.receipts[req[h].id] = "allow"
    /\ \A f \in forwarded : disk.receipts[f.id] = "allow"
    /\ total < Half => disk.spent = total

AccountInv == OwnerInv /\ (~Overlap /\ trouble = "none" => Accounted)

\* What every step but AddGrantSpend does.
AccountKept ==
    /\ UNCHANGED <<forwarded, total>>
    /\ disk'.spent = disk.spent
    /\ \A i \in ReceiptIds : disk.receipts[i] = "allow" => disk'.receipts[i] = "allow"
    /\ \A h \in Requests : pc'[h] = "spend" =>
           \/ pc[h] = "spend" /\ req'[h] = req[h]
           \/ disk'.receipts[req'[h].id] = "allow"

LEMMA AccountStays == ASSUME TypeOK, Accounted, AccountKept PROVE Accounted'
<1>1. ASSUME NEW h \in Requests, pc[h] = "spend" PROVE req[h].id \in ReceiptIds
  <2>1. req[h] \in Allowed BY <1>1 DEF TypeOK, Known
  <2> QED BY <2>1 DEF Allowed
<1>2. \A f \in forwarded : f.id \in ReceiptIds BY DEF TypeOK, Allowed
<1>3. ASSUME NEW h \in Requests, pc'[h] = "spend" PROVE disk'.receipts[req'[h].id] = "allow"
  <2>1. CASE pc[h] = "spend" /\ req'[h] = req[h]
    <3>1. disk.receipts[req[h].id] = "allow" /\ req[h].id \in ReceiptIds
      BY <1>1, <2>1 DEF Accounted
    <3>2. disk'.receipts[req[h].id] = "allow" BY <3>1 DEF AccountKept
    <3> QED BY <2>1, <3>2
  <2> QED BY <1>3, <2>1 DEF AccountKept
<1>4. \A f \in forwarded' : disk'.receipts[f.id] = "allow"
  BY <1>2 DEF Accounted, AccountKept
<1>5. total' < Half => disk'.spent = total' BY DEF Accounted, AccountKept
<1> QED BY <1>3, <1>4, <1>5 DEF Accounted

LEMMA AccountStep ==
    ASSUME ~Overlap, trouble' = "none", AccountInv, [Next]_vars PROVE Accounted'
<1> TypeOK /\ Synced /\ Accounted BY TroubleStays DEF AccountInv, OwnerInv
<1>c. disk \in Copy BY DEF TypeOK
<1>v. ASSUME ValidateToken PROVE disk' = disk BY <1>v DEF ValidateToken
<1>1. ASSUME NEW h \in Handlers,
             Authenticate(h) \/ AuthenticateFree(h) \/ Answered(h)
      PROVE  AccountKept
  BY <1>1, <1>v DEF Authenticate, Take, AuthenticateFree, Answered, AccountKept, TypeOK, Requests
<1>2. ASSUME NEW h \in Handlers, AddUsageEvent(h) PROVE AccountKept
  <2>1. h \in Requests /\ ~Calm(h) BY <1>2 DEF AddUsageEvent, Requests, Calm
  <2>2. mem[Gateway] = disk BY <1>2, <2>1, Exclusive
  <2>3. disk' = disk BY <1>2, <2>2 DEF AddUsageEvent, Saved, Unsaved
  <2> QED BY <1>2, <2>3 DEF AddUsageEvent, AccountKept, TypeOK, Requests
<1>3. ASSUME NEW e \in Evals, Evaluate(e) PROVE AccountKept
  BY <1>3 DEF Evaluate, Take, AccountKept, TypeOK, Requests
<1>4. ASSUME NEW e \in Evals, AskApproval(e) PROVE AccountKept
  <2>1. e \in Requests /\ Home(e) = e /\ ~Calm(e)
    BY <1>4 DEF AskApproval, Requests, Calm, Home
  <2>2. mem[e] = disk BY <2>1, Exclusive
  <2>3. disk'.spent = disk.spent /\ disk'.receipts = disk.receipts
    BY <1>4, <1>c, <2>2 DEF AskApproval, Saved, Copy
  <2> QED BY <1>4, <2>1, <2>3 DEF AskApproval, AccountKept, TypeOK
<1>5. ASSUME NEW h \in Requests, ReadGrant(h) \/ Decide(h) \/ Refuse(h) PROVE AccountKept
  BY <1>5 DEF ReadGrant, Decide, Refuse, End, AccountKept, TypeOK
<1>6. ASSUME NEW h \in Requests, AddReceipt(h) PROVE AccountKept
  <2>1. ~Calm(h) /\ pc[h] = "receipt" BY <1>6 DEF AddReceipt, Calm
  <2>2. mem[Home(h)] = disk /\ (h \in Handlers => Home(h) = Gateway) BY <2>1, Exclusive
  <2>3. PICK i \in FreshReceipt :
         /\ \/ Saved(Home(h), [mem[Home(h)] EXCEPT !.receipts[i] = req[h].decision])
            \/ h \in Handlers /\ Unsaved(Gateway, [mem[Gateway] EXCEPT !.receipts[i] = req[h].decision])
         /\ IF req[h].decision = "allow"
            THEN /\ pc' = [pc EXCEPT ![h] = "spend"]
                 /\ req' = [req EXCEPT ![h] = [action |-> req[h].action, cost |-> req[h].cost,
                                               approval |-> req[h].approval, id |-> i]]
            ELSE pc' = [pc EXCEPT ![h] = "idle"] /\ req' = [req EXCEPT ![h] = NoRequest]
    BY <1>6 DEF AddReceipt, TypeOK
  <2>4. disk' = [disk EXCEPT !.receipts[i] = req[h].decision]
    BY <2>2, <2>3 DEF Saved, Unsaved
  <2>5. i \in ReceiptIds /\ disk.receipts[i] = "none" BY DEF FreshReceipt, Written
  <2>6. /\ disk'.spent = disk.spent /\ disk'.receipts[i] = req[h].decision
        /\ \A j \in ReceiptIds : j # i => disk'.receipts[j] = disk.receipts[j]
    BY <1>c, <2>4, <2>5 DEF Copy
  <2>7. \A g \in Requests : g # h => pc'[g] = pc[g] /\ req'[g] = req[g]
    BY <2>3 DEF TypeOK
  <2>8. pc'[h] = "spend" => req'[h].id = i /\ req[h].decision = "allow"
    BY <2>3 DEF TypeOK
  <2>9. UNCHANGED <<forwarded, total>> BY <1>6 DEF AddReceipt
  <2>10. \A j \in ReceiptIds : disk.receipts[j] = "allow" => disk'.receipts[j] = "allow"
    BY <2>5, <2>6
  <2>11. ASSUME NEW g \in Requests, pc'[g] = "spend"
         PROVE  \/ pc[g] = "spend" /\ req'[g] = req[g]
                \/ disk'.receipts[req'[g].id] = "allow"
    <3>1. CASE g = h BY <2>6, <2>8, <2>11, <3>1
    <3>2. CASE g # h BY <2>7, <2>11, <3>2
    <3> QED BY <3>1, <3>2
  <2> QED BY <2>6, <2>9, <2>10, <2>11 DEF AccountKept
<1>7. ASSUME NEW h \in Requests, AddGrantSpend(h) PROVE Accounted'
  <2>1. ~Calm(h) /\ pc[h] = "spend" BY <1>7 DEF AddGrantSpend, Calm
  <2>2. mem[Home(h)] = disk BY <2>1, Exclusive
  <2>3. req[h] \in Allowed BY <2>1 DEF TypeOK, Known
  <2>4. req[h].cost \in Cents /\ req[h].id \in ReceiptIds BY <2>3 DEF Allowed, Cents
  <2>5. disk.spent \in Cents /\ total \in Nat BY <1>c DEF Copy, TypeOK
  <2>6. /\ disk'.receipts = disk.receipts
        /\ disk'.spent = IF req[h].cost > 0 THEN Plus(disk.spent, req[h].cost) ELSE disk.spent
    <3>1. CASE req[h].cost > 0
      <4>1. disk' = [disk EXCEPT !.spent = Plus(disk.spent, req[h].cost)]
        BY <1>7, <1>c, <2>2, <3>1 DEF AddGrantSpend, Saved, Unsaved, Copy
      <4> QED BY <1>c, <3>1, <4>1 DEF Copy
    <3>2. CASE ~(req[h].cost > 0) BY <1>7, <3>2 DEF AddGrantSpend
    <3> QED BY <3>1, <3>2
  <2>7. ASSUME total' < Half PROVE disk'.spent = total'
    <3>1. total <= total' /\ total' = IF req[h].cost > 0 THEN total + req[h].cost ELSE total
      BY <1>7, <2>4, <2>5 DEF AddGrantSpend, Cents
    <3>2. disk.spent = total BY <2>5, <2>7, <3>1 DEF Accounted, Cents
    <3> QED BY <2>4, <2>5, <2>6, <2>7, <3>1, <3>2 DEF Plus, Cents
  <2>8. \A f \in forwarded' : disk'.receipts[f.id] = "allow"
    BY <1>7, <2>1, <2>6 DEF AddGrantSpend, Accounted
  <2>9. \A g \in Requests : pc'[g] = "spend" => disk'.receipts[req'[g].id] = "allow"
    BY <1>7, <2>1, <2>6 DEF AddGrantSpend, AfterSpend, Accounted, TypeOK
  <2> QED BY <2>7, <2>8, <2>9 DEF Accounted
<1>8. ASSUME NEW o \in Owners, OpenStore(o) PROVE AccountKept
  BY <1>8 DEF OpenStore, AccountKept
<1>9. ASSUME NEW o \in Owners, RevokeGrant(o) \/ Resolve(o) PROVE AccountKept
  <2>1. mem[o] = disk BY <1>9 DEF RevokeGrant, Resolve, Synced, Commands
  <2>2. disk'.spent = disk.spent /\ disk'.receipts = disk.receipts
    BY <1>9, <1>c, <2>1 DEF RevokeGrant, Resolve, Copy
  <2> QED BY <1>9, <2>2 DEF RevokeGrant, Resolve, AccountKept
<1>10. ASSUME NEW p \in Commands, Exit(p) PROVE AccountKept
  BY <1>10 DEF Exit, AccountKept
<1>11. ASSUME Restart PROVE AccountKept BY <1>11 DEF Restart, AccountKept
<1>12. ASSUME UNCHANGED vars PROVE AccountKept BY <1>12 DEF vars, AccountKept
<1>13. AccountKept => Accounted' BY AccountStays
<1> QED BY <1>1, <1>2, <1>3, <1>4, <1>5, <1>6, <1>7, <1>8, <1>9, <1>10, <1>11, <1>12, <1>13
        DEF Next, RequestStep

LEMMA AccountInvStep == AccountInv /\ [Next]_vars => AccountInv'
<1> SUFFICES ASSUME AccountInv, [Next]_vars PROVE AccountInv' OBVIOUS
<1>1. OwnerInv' BY OwnerStays DEF AccountInv
<1>2. CASE ~Overlap /\ trouble' = "none" BY <1>1, <1>2, AccountStep DEF AccountInv
<1> QED BY <1>1, <1>2 DEF AccountInv

\* As long as commands run alone and nothing fails, whoever dies, what goes upstream has its
\* receipt in the file and its cost counted there.
THEOREM ForwardedAccountedHolds == Spec => []ForwardedAccounted
<1>1. Init => AccountInv
  <2> SUFFICES ASSUME Init PROVE AccountInv OBVIOUS
  <2>1. Accounted BY DEF Init, Accounted
  <2> QED BY <2>1, InitOwner DEF AccountInv
<1>2. AccountInv => ForwardedAccounted
  BY DEF AccountInv, OwnerInv, TypeOK, Accounted, ForwardedAccounted, ReceiptedAndCounted
<1> QED BY <1>1, <1>2, AccountInvStep, PTL DEF Spec

-----------------------------------------------------------------------------
(* The budget.  Requests that race may each have found that they fit. Let   *)
(* the pending ones be those that have and are not counted yet. Either the  *)
(* budget has room for one MaxCost for each request that is not pending but *)
(* one, or some pending request, the last that read the grant, has a cost   *)
(* that fits beside what those counted since may have added.                *)

\* Some request can be served, amounts are not negative, and the budget leaves the width of
\* an amount room for one more cost of every request at a time.
Headroom ==
    /\ IsFiniteSet(Handlers) /\ Handlers # {}
    /\ Limit >= 0
    /\ \E c \in Costs : c >= 0 /\ \A d \in Costs : d <= c
    /\ Limit + Cardinality(Handlers) * MaxCost < Half

N == Cardinality(Handlers)

Pending ==
    {h \in Requests :
        /\ req[h].cost > 0
        /\ \/ pc[h] = "approval" /\ Plus(req[h].spent, req[h].cost) <= Limit
           \/ pc[h] \in {"ask", "receipt"} /\ req[h].decision = "allow"
           \/ pc[h] = "spend"}

Bounded ==
    \/ total <= Limit + (N - 1 - Cardinality(Pending)) * MaxCost
    \/ \E r \in Pending : total + req[r].cost <= Limit + (N - Cardinality(Pending)) * MaxCost

BudgetInv == AccountInv /\ (~Overlap /\ trouble = "none" => Bounded)

LEMMA MaxCostFacts ==
    ASSUME Headroom
    PROVE  /\ MaxCost \in Costs /\ MaxCost >= 0 /\ \A c \in Costs : c \in Int /\ c <= MaxCost
           /\ MaxCost \in Nat /\ N \in Nat /\ N >= 1 /\ Limit \in Nat
<1>1. PICK c \in Costs : c >= 0 /\ \A d \in Costs : d <= c
  BY DEF Headroom
<1>2. MaxCost \in Costs /\ \A d \in Costs : d <= MaxCost
  BY <1>1 DEF MaxCost
<1>3. MaxCost \in Int /\ c \in Int /\ Limit \in Int /\ c <= MaxCost
  BY <1>1, <1>2
<1>4. N \in Nat /\ N # 0
  BY FS_CardinalityType, FS_EmptySet DEF Headroom, N
<1>5. \A d \in Costs : d \in Int
  OBVIOUS
<1> QED BY <1>1, <1>2, <1>3, <1>4, <1>5 DEF Headroom

\* Room for one cost less.
LEMMA Room == ASSUME NEW a \in Int, NEW b \in Int, NEW m \in Nat, a <= b
              PROVE  a * m <= b * m /\ (a + 1) * m = a * m + m /\ a * m \in Int
OBVIOUS

\* At most as many requests are pending as the gateway serves at a time.
LEMMA FewPending ==
    ASSUME Headroom, TypeOK, Synced
    PROVE  /\ IsFiniteSet(Pending) /\ Cardinality(Pending) \in Nat /\ Cardinality(Pending) <= N
           /\ \A r \in Pending : req[r].cost \in Costs /\ req[r].cost > 0 /\ ~Calm(r)
<1>1. ASSUME NEW r \in Pending PROVE req[r].cost \in Costs /\ req[r].cost > 0 /\ ~Calm(r)
  <2>1. r \in Requests /\ pc[r] \in {"approval", "ask", "receipt", "spend"} /\ req[r].cost > 0
    BY DEF Pending
  <2>2. req[r] \in Looked \cup Decided \cup Allowed
    BY <2>1 DEF TypeOK, Known
  <2> QED BY <2>1, <2>2 DEF Looked, Decided, Allowed, Calm
<1>2. CASE \E e \in Evals : e \in Pending
  <2>1. PICK e \in Evals : e \in Pending
    BY <1>2
  <2>2. /\ e \in Commands /\ \A p \in Commands : Running(p) => p = e
        /\ \A g \in Handlers : Calm(g)
    BY <1>1, <2>1, Exclusive DEF Requests
  <2>3. ASSUME NEW r \in Pending PROVE r = e
    <3>1. r \in Evals
      BY <1>1, <2>2 DEF Pending, Requests
    <3>2. Running(r) /\ r \in Commands
      BY <1>1, <3>1 DEF TypeOK, Calm, Running, Commands
    <3> QED BY <2>2, <3>2
  <2>4. Pending = {e}
    BY <2>1, <2>3
  <2>5. IsFiniteSet(Pending) /\ Cardinality(Pending) = 1
    BY <2>4, FS_Singleton
  <2>6. N \in Nat /\ N >= 1
    BY MaxCostFacts
  <2> QED BY <1>1, <2>5, <2>6
<1>3. CASE \A e \in Evals : e \notin Pending
  <2>1. Pending \subseteq Handlers
    BY <1>3 DEF Pending, Requests
  <2> QED BY <1>1, <2>1, FS_Subset, FS_CardinalityType DEF Headroom, N
<1> QED BY <1>2, <1>3

\* The same of the next state, for constants do not change.
LEMMA FewPendingNext ==
    (Headroom /\ TypeOK /\ Synced
     => IsFiniteSet(Pending) /\ Cardinality(Pending) \in Nat /\ Cardinality(Pending) <= N)'
<1>1. Headroom /\ TypeOK /\ Synced
      => IsFiniteSet(Pending) /\ Cardinality(Pending) \in Nat /\ Cardinality(Pending) <= N
  BY FewPending
<1> QED BY <1>1, PTL

\* What is left of the budget when no more is pending than before.
LEMMA FewerPending ==
    ASSUME Headroom, TypeOK, Synced, TypeOK', Synced', Bounded, total' = total,
           \A r \in Pending' : r \in Pending /\ req'[r].cost = req[r].cost
    PROVE  Bounded'
<1> DEFINE k == Cardinality(Pending)
           j == Cardinality(Pending')
<1>1. /\ IsFiniteSet(Pending) /\ k \in Nat /\ k <= N
      /\ \A r \in Pending : req[r].cost \in Costs /\ req[r].cost > 0
  BY FewPending
<1>2. IsFiniteSet(Pending') /\ j \in Nat /\ j <= k
  BY <1>1, FS_Subset, FS_CardinalityType
<1>3. /\ MaxCost \in Nat /\ N \in Nat /\ Limit \in Nat /\ total \in Nat
      /\ \A r \in Pending : req[r].cost \in Int
  <2>1. total \in Nat
    BY DEF TypeOK
  <2> QED BY <1>1, <2>1, MaxCostFacts
<1>4. CASE total <= Limit + (N - 1 - k) * MaxCost
  <2>1. (N - 1 - k) * MaxCost <= (N - 1 - j) * MaxCost
    BY <1>1, <1>2, <1>3, Room
  <2>2. (N - 1 - k) * MaxCost \in Int /\ (N - 1 - j) * MaxCost \in Int
    BY <1>1, <1>2, <1>3
  <2>3. total' <= Limit + (N - 1 - j) * MaxCost
    BY <1>3, <1>4, <2>1, <2>2
  <2> QED BY <2>3 DEF Bounded
<1>5. ASSUME NEW r \in Pending, total + req[r].cost <= Limit + (N - k) * MaxCost
      PROVE  Bounded'
  <2>1. CASE r \in Pending'
    <3>1. (N - k) * MaxCost <= (N - j) * MaxCost
      BY <1>1, <1>2, <1>3, Room
    <3>2. (N - k) * MaxCost \in Int /\ (N - j) * MaxCost \in Int
      BY <1>1, <1>2, <1>3
    <3>3. total' + req'[r].cost <= Limit + (N - j) * MaxCost
      BY <1>3, <1>5, <2>1, <3>1, <3>2
    <3> QED BY <2>1, <3>3 DEF Bounded
  <2>2. CASE r \notin Pending'
    <3>1. j <= k - 1
      <4>1. Pending' \subseteq Pending \ {r}
        BY <2>2
      <4>2. IsFiniteSet(Pending \ {r}) /\ Cardinality(Pending \ {r}) = k - 1
        BY <1>1, FS_RemoveElement
      <4> QED BY <4>1, <4>2, FS_Subset
    <3>2. (N - k) * MaxCost <= (N - 1 - j) * MaxCost
      BY <1>1, <1>2, <1>3, <3>1, Room
    <3>3. (N - k) * MaxCost \in Int /\ (N - 1 - j) * MaxCost \in Int
      BY <1>1, <1>2, <1>3
    <3>4. total' <= Limit + (N - 1 - j) * MaxCost
      BY <1>1, <1>3, <1>5, <3>2, <3>3
    <3> QED BY <3>4 DEF Bounded
  <2> QED BY <2>1, <2>2
<1> QED BY <1>4, <1>5 DEF Bounded

\* What was counted is over the budget by less than one cost of every request but one.
LEMMA BoundedTotal ==
    ASSUME Headroom, TypeOK, Synced, Bounded
    PROVE  /\ total <= Limit + (N - 1) * MaxCost
           /\ \A c \in Costs : total + c < Half
<1> DEFINE k == Cardinality(Pending)
<1>1. /\ k \in Nat /\ k <= N /\ IsFiniteSet(Pending)
      /\ \A r \in Pending : req[r].cost \in Costs /\ req[r].cost > 0
  BY FewPending
<1>2. /\ MaxCost \in Nat /\ N \in Nat /\ Limit \in Nat /\ total \in Nat
      /\ \A r \in Pending : req[r].cost \in Int
      /\ \A c \in Costs : c <= MaxCost /\ c \in Int
  <2>1. total \in Nat
    BY DEF TypeOK
  <2> QED BY <1>1, <2>1, MaxCostFacts
<1>3. total <= Limit + (N - 1) * MaxCost
  <2>1. CASE total <= Limit + (N - 1 - k) * MaxCost
    <3>1. (N - 1 - k) * MaxCost <= (N - 1) * MaxCost
      BY <1>1, <1>2, Room
    <3>2. (N - 1 - k) * MaxCost \in Int /\ (N - 1) * MaxCost \in Int
      BY <1>1, <1>2
    <3> QED BY <1>2, <2>1, <3>1, <3>2
  <2>2. ASSUME NEW r \in Pending, total + req[r].cost <= Limit + (N - k) * MaxCost
        PROVE  total <= Limit + (N - 1) * MaxCost
    <3>1. k >= 1
      BY <1>1, FS_EmptySet
    <3>2. (N - k) * MaxCost <= (N - 1) * MaxCost
      BY <1>1, <1>2, <3>1, Room
    <3>3. (N - k) * MaxCost \in Int /\ (N - 1) * MaxCost \in Int
      BY <1>1, <1>2
    <3> QED BY <1>1, <1>2, <2>2, <3>2, <3>3
  <2> QED BY <2>1, <2>2 DEF Bounded
<1>4. (N - 1) * MaxCost + MaxCost = N * MaxCost
  BY <1>2
<1>5. Limit + N * MaxCost < Half
  BY DEF Headroom, N
<1>6. (N - 1) * MaxCost \in Int /\ N * MaxCost \in Int /\ Half \in Nat
  BY <1>2
<1> QED BY <1>2, <1>3, <1>4, <1>5, <1>6

\* What a step that lets no request begin to spend keeps: the total, and what is pending.
PendingKept == /\ total' = total
               /\ \A r \in Pending' : r \in Pending /\ req'[r].cost = req[r].cost

\* A step of one request that does not leave it pending changes nothing for the others.
LEMMA OneGone ==
    ASSUME NEW h, total' = total, h \notin Pending',
           \A g \in Requests : g # h => pc'[g] = pc[g] /\ req'[g] = req[g]
    PROVE  PendingKept
BY DEF Pending, PendingKept

\* A request that reads the grant fits beside all that was counted, or is not pending.
LEMMA ReadPending ==
    ASSUME ~Overlap, trouble = "none", Headroom, AccountInv, TypeOK', Synced', Bounded,
           NEW h \in Requests, ReadGrant(h)
    PROVE  Bounded'
<1> TypeOK /\ Synced /\ Accounted
  BY DEF AccountInv, OwnerInv
<1>1. /\ pc[h] = "grant" /\ ~Calm(h) /\ mem[Home(h)] = disk
      /\ disk \in Copy /\ disk.spent \in Cents
  <2>1. pc[h] = "grant" /\ ~Calm(h)
    BY DEF ReadGrant, Calm
  <2> QED BY <2>1, Exclusive DEF Copy
<1>2. req[h] \in Stated /\ req[h].cost \in Costs
  <2>1. req[h] \in Stated
    BY <1>1 DEF TypeOK, Known
  <2> QED BY <2>1 DEF Stated
<1>3. /\ pc'[h] = "approval" /\ req'[h].cost = req[h].cost /\ req'[h].spent = disk.spent
      /\ total' = total
      /\ \A g \in Requests : g # h => pc'[g] = pc[g] /\ req'[g] = req[g]
  BY <1>1 DEF ReadGrant, TypeOK
<1>4. CASE h \notin Pending'
  <2>1. PendingKept
    BY <1>3, <1>4, OneGone
  <2> QED BY <2>1, FewerPending DEF PendingKept
<1>5. CASE h \in Pending'
  <2>1. req[h].cost > 0 /\ Plus(disk.spent, req[h].cost) <= Limit
    BY <1>3, <1>5 DEF Pending
  <2>2. total + req[h].cost < Half /\ total \in Nat /\ req[h].cost \in Int
    <3>1. total \in Nat
      BY DEF TypeOK
    <3> QED BY <1>2, <3>1, BoundedTotal, MaxCostFacts
  <2>3. disk.spent = total
    BY <2>1, <2>2 DEF Accounted
  <2>4. total + req[h].cost <= Limit
    BY <2>1, <2>2, <2>3 DEF Plus
  <2>5. /\ MaxCost \in Nat /\ N \in Nat /\ Limit \in Nat
        /\ Cardinality(Pending') \in Nat /\ Cardinality(Pending') <= N
    <3>1. IsFiniteSet(Pending') /\ Cardinality(Pending') \in Nat /\ Cardinality(Pending') <= N
      BY FewPendingNext
    <3> QED BY <3>1, MaxCostFacts
  <2>6. (N - Cardinality(Pending')) * MaxCost >= 0
    <3>1. N - Cardinality(Pending') \in Int /\ 0 <= N - Cardinality(Pending')
      BY <2>5
    <3>2. 0 * MaxCost <= (N - Cardinality(Pending')) * MaxCost
      BY <2>5, <3>1, Room
    <3> QED BY <2>5, <3>2
  <2>7. (N - Cardinality(Pending')) * MaxCost \in Int
    BY <2>5
  <2>8. total' + req'[h].cost <= Limit + (N - Cardinality(Pending')) * MaxCost
    BY <1>3, <2>2, <2>4, <2>5, <2>6, <2>7
  <2> QED BY <1>5, <2>8 DEF Bounded
<1> QED BY <1>4, <1>5

\* What is counted was pending.
LEMMA SpendPending ==
    ASSUME Headroom, TypeOK, Synced, TypeOK', Synced', Bounded,
           NEW h \in Requests, AddGrantSpend(h)
    PROVE  Bounded'
<1>1. /\ pc[h] = "spend" /\ pc'[h] \in {"idle", "upstream"}
      /\ total' = IF req[h].cost > 0 THEN total + req[h].cost ELSE total
      /\ \A g \in Requests : g # h => pc'[g] = pc[g] /\ req'[g] = req[g]
  BY DEF AddGrantSpend, AfterSpend, TypeOK
<1>2. h \notin Pending'
  BY <1>1 DEF Pending
<1>3. CASE ~(req[h].cost > 0)
  <2>1. PendingKept
    BY <1>1, <1>2, <1>3, OneGone
  <2> QED BY <2>1, FewerPending DEF PendingKept
<1>4. CASE req[h].cost > 0
  <2> DEFINE k == Cardinality(Pending)
             m == (N - k) * MaxCost
  <2>1. h \in Pending
    BY <1>1, <1>4 DEF Pending
  <2>2. Pending' = Pending \ {h}
    BY <1>1, <1>2 DEF Pending
  <2>3. /\ IsFiniteSet(Pending) /\ k \in Nat /\ k <= N
        /\ \A r \in Pending : req[r].cost \in Costs /\ req[r].cost > 0
    BY FewPending
  <2>4. Cardinality(Pending') = k - 1
    BY <2>1, <2>2, <2>3, FS_RemoveElement
  <2>5. /\ MaxCost \in Nat /\ N \in Nat /\ Limit \in Nat /\ total \in Nat
        /\ \A r \in Pending : req[r].cost \in Int /\ req[r].cost <= MaxCost
    <3>1. total \in Nat
      BY DEF TypeOK
    <3> QED BY <2>3, <3>1, MaxCostFacts
  <2>6. m \in Int /\ req[h].cost \in Int /\ req[h].cost <= MaxCost /\ total' = total + req[h].cost
    BY <1>1, <1>4, <2>1, <2>3, <2>5
  <2>7. (N - 1 - k) * MaxCost + MaxCost = m
    <3>1. N - 1 - k \in Int /\ (N - 1 - k) + 1 = N - k
      BY <2>3, <2>5
    <3>2. ((N - 1 - k) + 1) * MaxCost = (N - 1 - k) * MaxCost + MaxCost
      BY <2>5, <3>1, Room
    <3> QED BY <3>1, <3>2
  <2>8. (N - 1 - k) * MaxCost \in Int
    BY <2>3, <2>5
  <2>9. N - 1 - Cardinality(Pending') = N - k
    BY <2>3, <2>4, <2>5
  <2>10. CASE total <= Limit + (N - 1 - k) * MaxCost
    <3>1. total' <= Limit + m
      BY <2>5, <2>6, <2>7, <2>8, <2>10
    <3> QED BY <2>9, <3>1 DEF Bounded
  <2>11. ASSUME NEW r \in Pending, total + req[r].cost <= Limit + m
         PROVE  Bounded'
    <3>1. CASE r = h
      <4>1. total' <= Limit + m
        BY <2>6, <2>11, <3>1
      <4> QED BY <2>9, <4>1 DEF Bounded
    <3>2. CASE r # h
      <4>1. r \in Pending' /\ req'[r] = req[r]
        BY <1>1, <2>2, <2>11, <3>2 DEF Pending
      <4>2. N - Cardinality(Pending') = N - k + 1
        BY <2>3, <2>4, <2>5
      <4>3. (N - k + 1) * MaxCost = m + MaxCost
        BY <2>3, <2>5, Room
      <4>4. total' + req'[r].cost <= Limit + (m + MaxCost)
        BY <2>5, <2>6, <2>11, <4>1
      <4> QED BY <4>1, <4>2, <4>3, <4>4 DEF Bounded
    <3> QED BY <3>1, <3>2
  <2> QED BY <2>10, <2>11 DEF Bounded
<1> QED BY <1>3, <1>4

LEMMA BudgetStep ==
    ASSUME ~Overlap, trouble' = "none", Headroom, BudgetInv, [Next]_vars
    PROVE  Bounded'
<1> TypeOK /\ Synced /\ Accounted /\ trouble = "none" /\ Bounded
  BY TroubleStays DEF BudgetInv, AccountInv, OwnerInv
<1>t. TypeOK' /\ Synced'
  BY OwnerStays DEF BudgetInv, AccountInv, OwnerInv
<1>1. ASSUME NEW h \in Handlers,
             \/ Authenticate(h) \/ AuthenticateFree(h) \/ Answered(h) \/ AddUsageEvent(h)
      PROVE  PendingKept
  <2>1. /\ h \in Requests /\ pc'[h] \in {"grant", "upstream", "idle", "usage"} /\ total' = total
        /\ \A g \in Requests : g # h => pc'[g] = pc[g] /\ req'[g] = req[g]
    BY <1>1 DEF Authenticate, Take, AuthenticateFree, Answered, AddUsageEvent, TypeOK, Requests
  <2>2. h \notin Pending'
    BY <2>1 DEF Pending
  <2> QED BY <2>1, <2>2, OneGone
<1>2. ASSUME NEW e \in Evals, Evaluate(e) PROVE PendingKept
  <2>1. /\ e \in Requests /\ pc'[e] = "grant" /\ total' = total
        /\ \A g \in Requests : g # e => pc'[g] = pc[g] /\ req'[g] = req[g]
    BY <1>2 DEF Evaluate, Take, TypeOK, Requests
  <2>2. e \notin Pending'
    BY <2>1 DEF Pending
  <2> QED BY <2>1, <2>2, OneGone
<1>3. ASSUME NEW e \in Evals, AskApproval(e) PROVE PendingKept
  <2>1. /\ e \in Requests /\ pc[e] = "ask" /\ pc'[e] = "receipt" /\ req' = req /\ total' = total
        /\ \A g \in Requests : g # e => pc'[g] = pc[g]
    BY <1>3 DEF AskApproval, TypeOK, Requests
  <2> QED BY <2>1 DEF Pending, PendingKept
<1>4. ASSUME NEW h \in Requests, ReadGrant(h) PROVE Bounded'
  BY <1>t, <1>4, ReadPending DEF BudgetInv
<1>5. ASSUME NEW h \in Requests, Decide(h) PROVE PendingKept
  <2>1. /\ pc[h] = "approval" /\ total' = total
        /\ \A g \in Requests : g # h => pc'[g] = pc[g] /\ req'[g] = req[g]
    BY <1>5 DEF Decide, TypeOK
  <2>2. pc'[h] \in {"ask", "receipt"} /\ req'[h].cost = req[h].cost
    BY <1>5 DEF Decide, TypeOK
  <2>3. req'[h].decision = "allow" => Plus(req[h].spent, req[h].cost) <= Limit
    <3>1. PICK inWindow \in BOOLEAN : req'[h].decision = Decision(req[h], inWindow)
      BY <1>5 DEF Decide, TypeOK
    <3>2. req[h] \in Looked
      BY <2>1 DEF TypeOK, Known
    <3>3. req[h].spent \in Cents /\ req[h].cost \in Cents
      BY <3>2 DEF Looked, Cents
    <3>4. Plus(req[h].spent, req[h].cost) \in Int
      <4>1. Plus(req[h].spent, req[h].cost) \in Cents
        BY <3>3, PlusType
      <4> QED BY <4>1 DEF Cents
    <3> QED BY <3>1, <3>4 DEF Decision
  <2>4. h \in Pending' => h \in Pending
    BY <2>1, <2>2, <2>3 DEF Pending
  <2> QED BY <2>1, <2>2, <2>4 DEF Pending, PendingKept
<1>6. ASSUME NEW h \in Requests, Refuse(h) PROVE PendingKept
  <2>1. /\ pc'[h] = "idle" /\ total' = total
        /\ \A g \in Requests : g # h => pc'[g] = pc[g] /\ req'[g] = req[g]
    BY <1>6 DEF Refuse, End, TypeOK
  <2>2. h \notin Pending'
    BY <2>1 DEF Pending
  <2> QED BY <2>1, <2>2, OneGone
<1>7. ASSUME NEW h \in Requests, AddReceipt(h) PROVE PendingKept
  <2>1. /\ pc[h] = "receipt" /\ total' = total
        /\ \A g \in Requests : g # h => pc'[g] = pc[g] /\ req'[g] = req[g]
    BY <1>7 DEF AddReceipt, TypeOK
  <2>2. \/ pc'[h] = "idle"
        \/ pc'[h] = "spend" /\ req'[h].cost = req[h].cost /\ req[h].decision = "allow"
    BY <1>7 DEF AddReceipt, TypeOK
  <2>3. h \in Pending' => h \in Pending /\ req'[h].cost = req[h].cost
    BY <2>1, <2>2 DEF Pending
  <2> QED BY <2>1, <2>3 DEF Pending, PendingKept
<1>8. ASSUME NEW h \in Requests, AddGrantSpend(h) PROVE Bounded'
  BY <1>t, <1>8, SpendPending
<1>9. ASSUME NEW o \in Owners, OpenStore(o) \/ RevokeGrant(o) \/ Resolve(o) PROVE PendingKept
  BY <1>9 DEF OpenStore, RevokeGrant, Resolve, Pending, PendingKept
<1>10. ASSUME (\E p \in Commands : Exit(p)) \/ Restart PROVE PendingKept
  <2>1. /\ total' = total
        /\ \A g \in Requests : pc'[g] = "idle" \/ (pc'[g] = pc[g] /\ req'[g] = req[g])
    BY <1>10 DEF Exit, Restart
  <2> QED BY <2>1 DEF Pending, PendingKept
<1>11. ASSUME UNCHANGED vars PROVE PendingKept
  BY <1>11 DEF vars, Pending, PendingKept
<1>12. PendingKept => Bounded'
  BY <1>t, FewerPending DEF PendingKept
<1> QED BY <1>1, <1>2, <1>3, <1>4, <1>5, <1>6, <1>7, <1>8, <1>9, <1>10, <1>11, <1>12
        DEF Next, RequestStep, BudgetInv

\* Requests that race each fit the budget alone; what they cost together is over it by less
\* than what all but one of those the gateway serves at a time may cost, if the width of an
\* amount leaves room for as much.
THEOREM OverspendBoundedHolds == Headroom => (Spec => []OverspendBounded)
<1> SUFFICES ASSUME Headroom PROVE Spec => []OverspendBounded
  OBVIOUS
<1>1. Init => BudgetInv
  <2> SUFFICES ASSUME Init PROVE BudgetInv
    OBVIOUS
  <2>1. AccountInv
    <3>1. Accounted
      BY DEF Init, Accounted
    <3> QED BY <3>1, InitOwner DEF AccountInv
  <2>2. Pending = {} /\ total = 0
    BY DEF Init, Pending
  <2>3. Cardinality(Pending) = 0
    BY <2>2, FS_EmptySet
  <2>4. total <= Limit + (N - 1 - Cardinality(Pending)) * MaxCost
    <3>1. MaxCost \in Nat /\ N - 1 \in Nat /\ Limit \in Nat
      BY MaxCostFacts
    <3>2. 0 * MaxCost <= (N - 1) * MaxCost /\ (N - 1) * MaxCost \in Int
      BY <3>1, Room
    <3>3. N - 1 - Cardinality(Pending) = N - 1
      BY <2>3, MaxCostFacts
    <3> QED BY <2>2, <3>1, <3>2, <3>3
  <2> QED BY <2>1, <2>4 DEF BudgetInv, Bounded
<1>2. BudgetInv /\ [Next]_vars => BudgetInv'
  <2> SUFFICES ASSUME BudgetInv, [Next]_vars PROVE BudgetInv'
    OBVIOUS
  <2>1. AccountInv'
    BY AccountInvStep DEF BudgetInv
  <2>2. CASE ~Overlap /\ trouble' = "none"
    BY <2>1, <2>2, BudgetStep DEF BudgetInv
  <2> QED BY <2>1, <2>2 DEF BudgetInv
<1>3. BudgetInv => OverspendBounded
  <2> SUFFICES ASSUME BudgetInv, ~Overlap, trouble = "none"
               PROVE  total <= Limit + (Cardinality(Handlers) - 1) * MaxCost
    BY DEF OverspendBounded
  <2>1. TypeOK /\ Synced /\ Bounded
    BY DEF BudgetInv, AccountInv, OwnerInv
  <2> QED BY <2>1, BoundedTotal DEF N
<1> QED BY <1>1, <1>2, <1>3, PTL DEF Spec
=============================================================================
