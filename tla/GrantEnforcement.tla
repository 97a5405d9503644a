-------------------------- MODULE GrantEnforcement --------------------------
(***************************************************************************)
(* A grant under the seven pins: what the gateway forwards and what        *)
(* `evaluate' allows (internal/gateway/server.go, cmd/21pins/main.go,      *)
(* internal/store/policy_store.go, internal/policy/engine.go).             *)
(*                                                                         *)
(* A request authenticates, reads the grant, matches its approval, records *)
(* a receipt and counts its cost, each in a critical section of its own on *)
(* its process's copy of the state, and only then goes upstream; when the  *)
(* answer is there the usage is recorded.  The gateway serves many         *)
(* requests on one copy; `evaluate', `grant revoke' and `approvals         *)
(* approve' are processes with copies of their own, and every save         *)
(* replaces the whole file.                                                *)
(*                                                                         *)
(* The clock is abstracted: the spend window and an attestation may have   *)
(* ended whenever they are looked at.                                      *)
(***************************************************************************)
EXTENDS Integers, FiniteSets

CONSTANTS Handlers,   \* requests the gateway serves at a time
          Evals,      \* `evaluate' processes
          Owners,     \* `grant revoke' and `approvals' processes
          Gateway,    \* the gateway process
          ReceiptIds, ApprovalIds, \* random identities, never drawn twice
          Actions,    \* subject, capability, data class and target
          Permitted,  \* those the grant's pins allow
          Costs,      \* in cents, as a request states them
          Limit, Threshold, \* the grant's budget and approval threshold
          Half,       \* amounts are two's complement, from -Half to Half - 1
          NoId, NoCopy, NoRequest,
          Overlap,    \* commands run while others and requests are at work
          SaveFails,  \* the file may fail to be replaced
          ReadFails   \* the file may fail to be read

ASSUME GrantAssumption ==
    /\ Handlers \cap Evals = {} /\ Gateway \notin Evals \cup Owners /\ Evals \cap Owners = {}
    /\ NoId \notin ReceiptIds \cup ApprovalIds
    /\ Permitted \subseteq Actions
    /\ Half \in Nat \ {0} /\ Limit \in -Half .. Half - 1 /\ Threshold \in -Half .. Half - 1
    /\ Costs \subseteq -Half .. Half - 1
    /\ Overlap \in BOOLEAN /\ SaveFails \in BOOLEAN /\ ReadFails \in BOOLEAN

VARIABLES disk,      \* the file
          mem,       \* each process's copy
          pc, req,   \* each request's progress
          forwarded, \* history: requests that went upstream
          total,     \* history: what they cost
          consents,  \* history: approvals an attested approver gave
          trouble    \* history: the worst that has failed, nothing, a save or a reading

vars == <<disk, mem, pc, req, forwarded, total, consents, trouble>>

Procs == {Gateway} \cup Evals \cup Owners
Requests == Handlers \cup Evals
Home(h) == IF h \in Evals THEN h ELSE Gateway

Cents == -Half .. Half - 1
Plus(x, y) == IF x + y >= Half THEN x + y - 2 * Half
              ELSE IF x + y < -Half THEN x + y + 2 * Half ELSE x + y

Decisions == {"allow", "ask", "block"}
Unused == [status |-> "none"]
Approval == [status : {"pending", "approved", "rejected"}, action : Actions, cost : Costs]
Copy == [status : {"active", "revoked"}, spent : Cents,
         approvals : [ApprovalIds -> Approval \cup {Unused}],
         receipts : [ReceiptIds -> Decisions \cup {"none"}]]

ASSUME CopyAssumption == NoCopy \notin Copy

\* What a request knows: what it is; what it read of the grant; the decision; its receipt.
Named == ApprovalIds \cup {NoId}
Stated == [action : Actions, cost : Costs, approval : Named]
Looked == [action : Actions, cost : Costs, approval : Named,
           status : {"active", "revoked"}, spent : Cents]
Decided == [action : Actions, cost : Costs, approval : Named, decision : Decisions]
Allowed == [action : Actions, cost : Costs, approval : Named, id : ReceiptIds]
Known == [idle |-> {NoRequest}, grant |-> Stated, approval |-> Looked, ask |-> Decided,
          receipt |-> Decided, spend |-> Allowed, upstream |-> {NoRequest}, usage |-> {NoRequest}]
Steps == DOMAIN Known

TypeOK == /\ disk \in Copy
          /\ mem \in [Procs -> Copy \cup {NoCopy}] /\ mem[Gateway] # NoCopy
          /\ pc \in [Requests -> Steps]
          /\ DOMAIN req = Requests /\ \A h \in Requests : req[h] \in Known[pc[h]]
          /\ \A h \in Evals : pc[h] # "idle" => mem[h] # NoCopy
          /\ forwarded \subseteq Allowed
          /\ total \in Nat
          /\ consents \subseteq [id : ApprovalIds, action : Actions, cost : Costs]
          /\ trouble \in {"none", "save", "read"}

Running(p) == mem[p] # NoCopy
Commands == Evals \cup Owners

\* A command runs alone unless Overlap; requests may be waiting for their answers.
Alone == Overlap \/ \A p \in Commands : ~Running(p)
MayStart == Alone /\ (Overlap \/ \A h \in Handlers : pc[h] \in {"idle", "upstream"})

Drawn(s) == {a \in ApprovalIds : s.approvals[a].status # "none"}
FreshApproval == ApprovalIds \ (Drawn(disk) \cup UNION {Drawn(mem[p]) : p \in {q \in Procs : Running(q)}}
                                            \cup {c.id : c \in consents})
Written(s) == {i \in ReceiptIds : s.receipts[i] # "none"}
FreshReceipt == ReceiptIds \ (Written(disk) \cup UNION {Written(mem[p]) : p \in {q \in Procs : Running(q)}}
                                            \cup {req[h].id : h \in {g \in Requests : pc[g] = "spend"}}
                                            \cup {f.id : f \in forwarded})

\* A copy is saved; or the save fails and the file is read back, if it can be.
Saved(p, s) == disk' = s /\ mem' = [mem EXCEPT ![p] = s] /\ UNCHANGED trouble
Unsaved(p, s) ==
    /\ SaveFails
    /\ \/ /\ mem' = [mem EXCEPT ![p] = disk]
          /\ trouble' = IF trouble = "read" THEN "read" ELSE "save"
       \/ ReadFails /\ mem' = [mem EXCEPT ![p] = s] /\ trouble' = "read"
    /\ UNCHANGED disk

\* Fault: the token is looked for in the copy the gateway has.
ValidateToken_Cached == UNCHANGED <<disk, mem, trouble>>

\* ValidateTokenRecord: the gateway reads the file, notes the token's use and saves; that it
\* may have read nothing is ignored.
ValidateToken ==
    \/ mem' = [mem EXCEPT ![Gateway] = disk] /\ UNCHANGED <<disk, trouble>>
    \/ /\ ReadFails
       /\ disk' \in {mem[Gateway]} \cup (IF SaveFails THEN {disk} ELSE {})
       /\ trouble' = "read"
       /\ UNCHANGED mem

-----------------------------------------------------------------------------
(* A request                                                               *)

Take(h, action, cost, approval) ==
    /\ pc' = [pc EXCEPT ![h] = "grant"]
    /\ req' = [req EXCEPT ![h] = [action |-> action, cost |-> cost, approval |-> approval]]

Authenticate(h) ==
    /\ pc[h] = "idle" /\ Alone
    /\ \E action \in Actions, cost \in Costs, approval \in ApprovalIds \cup {NoId} :
         cost >= 0 /\ Take(h, action, cost, approval)
    /\ ValidateToken
    /\ UNCHANGED <<forwarded, total, consents>>

\* A request that names no grant goes upstream at once.
AuthenticateFree(h) ==
    /\ pc[h] = "idle" /\ Alone
    /\ pc' = [pc EXCEPT ![h] = "upstream"]
    /\ ValidateToken
    /\ UNCHANGED <<req, forwarded, total, consents>>

\* `evaluate' opens the store; it takes any cost.
Evaluate(e) ==
    /\ ~Running(e) /\ MayStart
    /\ \E action \in Actions, cost \in Costs, approval \in ApprovalIds \cup {NoId} :
         Take(e, action, cost, approval)
    /\ mem' = [mem EXCEPT ![e] = disk]
    /\ UNCHANGED <<disk, forwarded, total, consents, trouble>>

ReadGrant(h) ==
    /\ pc[h] = "grant"
    /\ pc' = [pc EXCEPT ![h] = "approval"]
    /\ req' = [req EXCEPT ![h] = [action |-> @.action, cost |-> @.cost, approval |-> @.approval,
                                  status |-> mem[Home(h)].status, spent |-> mem[Home(h)].spent]]
    /\ UNCHANGED <<disk, mem, forwarded, total, consents, trouble>>

\* Fault: whether the approval was given is not looked at.
Matches_Pending(h) ==
    LET a == mem[Home(h)].approvals[req[h].approval]
    IN a.status # "none" /\ a.action = req[h].action /\ a.cost = req[h].cost

Matches(h) ==
    LET a == mem[Home(h)].approvals[req[h].approval]
    IN a.status = "approved" /\ a.action = req[h].action /\ a.cost = req[h].cost

\* Fault: what was spent before is forgotten.
Decision_AloneFits(r, inWindow) ==
    IF r.status # "active" \/ r.action \notin Permitted \/ ~inWindow \/ r.cost > Limit THEN "block"
    ELSE IF Threshold > 0 /\ r.cost >= Threshold /\ r.approval = NoId THEN "ask" ELSE "allow"

\* EvaluateAction, for an approval that matched.
Decision(r, inWindow) ==
    IF \/ r.status # "active"
       \/ r.action \notin Permitted
       \/ ~inWindow
       \/ Plus(r.spent, r.cost) > Limit
    THEN "block"
    ELSE IF Threshold > 0 /\ r.cost >= Threshold /\ r.approval = NoId
         THEN "ask"
         ELSE "allow"

\* Only `evaluate' asks for an approval; the gateway just answers that one is wanted.
Decide(h) ==
    /\ pc[h] = "approval"
    /\ req[h].approval # NoId => Matches(h)
    /\ \E inWindow \in BOOLEAN :
         LET d == Decision(req[h], inWindow)
         IN /\ req' = [req EXCEPT ![h] = [action |-> @.action, cost |-> @.cost,
                                          approval |-> @.approval, decision |-> d]]
            /\ pc' = [pc EXCEPT ![h] = IF h \in Evals /\ d = "ask" THEN "ask" ELSE "receipt"]
    /\ UNCHANGED <<disk, mem, forwarded, total, consents, trouble>>

\* A request ends; a command's process with it.
End(h) ==
    /\ pc' = [pc EXCEPT ![h] = "idle"]
    /\ mem' = IF h \in Evals THEN [mem EXCEPT ![h] = NoCopy] ELSE mem
    /\ req' = [req EXCEPT ![h] = NoRequest]
    /\ UNCHANGED <<disk, forwarded, total, consents, trouble>>

\* The approval does not match, or its attestation does not verify or has ended.
Refuse(h) == pc[h] = "approval" /\ req[h].approval # NoId /\ End(h)

AskApproval(e) ==
    /\ pc[e] = "ask"
    /\ \E a \in FreshApproval :
         Saved(e, [mem[e] EXCEPT !.approvals[a] =
                     [status |-> "pending", action |-> req[e].action, cost |-> req[e].cost]])
    /\ pc' = [pc EXCEPT ![e] = "receipt"]
    /\ UNCHANGED <<req, forwarded, total, consents>>

\* AddReceipt.  The gateway ignores a failure.
AddReceipt(h) ==
    /\ pc[h] = "receipt"
    /\ \E i \in FreshReceipt :
         /\ \/ Saved(Home(h), [mem[Home(h)] EXCEPT !.receipts[i] = req[h].decision])
            \/ h \in Handlers /\ Unsaved(Gateway, [mem[Gateway] EXCEPT !.receipts[i] = req[h].decision])
         /\ IF req[h].decision = "allow"
            THEN /\ pc' = [pc EXCEPT ![h] = "spend"]
                 /\ req' = [req EXCEPT ![h] = [action |-> @.action, cost |-> @.cost,
                                               approval |-> @.approval, id |-> i]]
            ELSE pc' = [pc EXCEPT ![h] = "idle"] /\ req' = [req EXCEPT ![h] = NoRequest]
    /\ UNCHANGED <<forwarded, total, consents>>

AfterSpend(h) == IF h \in Evals THEN "idle" ELSE "upstream"

\* Fault: the request goes upstream and its cost is not counted.
AddGrantSpend_Lost(h) ==
    /\ pc[h] = "spend"
    /\ Saved(Home(h), mem[Home(h)])
    /\ pc' = [pc EXCEPT ![h] = AfterSpend(h)] /\ req' = [req EXCEPT ![h] = NoRequest]
    /\ forwarded' = forwarded \cup {req[h]}
    /\ total' = IF req[h].cost > 0 THEN total + req[h].cost ELSE total
    /\ UNCHANGED consents

\* AddGrantSpend, then the request goes upstream; a failure is ignored.
AddGrantSpend(h) ==
    /\ pc[h] = "spend"
    /\ IF req[h].cost > 0
       THEN LET s == [mem[Home(h)] EXCEPT !.spent = Plus(@, req[h].cost)]
            IN Saved(Home(h), s) \/ Unsaved(Home(h), s)
       ELSE UNCHANGED <<disk, mem, trouble>>
    /\ pc' = [pc EXCEPT ![h] = AfterSpend(h)] /\ req' = [req EXCEPT ![h] = NoRequest]
    /\ forwarded' = forwarded \cup {req[h]}
    /\ total' = IF req[h].cost > 0 THEN total + req[h].cost ELSE total
    /\ UNCHANGED consents

\* The answer came and the token is looked up again for the usage event, or nothing is recorded.
Answered(h) ==
    /\ pc[h] = "upstream"
    /\ \/ pc' = [pc EXCEPT ![h] = "idle"] /\ UNCHANGED <<disk, mem, trouble>>
       \/ Alone /\ pc' = [pc EXCEPT ![h] = "usage"] /\ ValidateToken
    /\ UNCHANGED <<req, forwarded, total, consents>>

AddUsageEvent(h) ==
    /\ pc[h] = "usage"
    /\ pc' = [pc EXCEPT ![h] = "idle"]
    /\ Saved(Gateway, mem[Gateway]) \/ Unsaved(Gateway, mem[Gateway])
    /\ UNCHANGED <<req, forwarded, total, consents>>

-----------------------------------------------------------------------------
(* The owner's commands and the environment                                *)

OpenStore(o) ==
    /\ ~Running(o) /\ MayStart
    /\ mem' = [mem EXCEPT ![o] = disk]
    /\ UNCHANGED <<disk, pc, req, forwarded, total, consents, trouble>>

RevokeGrant(o) ==
    /\ Running(o)
    /\ disk' = [mem[o] EXCEPT !.status = "revoked"]
    /\ mem' = [mem EXCEPT ![o] = NoCopy]
    /\ UNCHANGED <<pc, req, forwarded, total, consents, trouble>>

\* Fault: an approval that was resolved is resolved again.
Resolve_Again(o) ==
    /\ Running(o)
    /\ \E a \in ApprovalIds, status \in {"approved", "rejected"} :
         /\ mem[o].approvals[a].status # "none"
         /\ disk' = [mem[o] EXCEPT !.approvals[a].status = status]
         /\ consents' = IF status = "approved"
                        THEN consents \cup {[id |-> a, action |-> mem[o].approvals[a].action,
                                             cost |-> mem[o].approvals[a].cost]}
                        ELSE consents
    /\ mem' = [mem EXCEPT ![o] = NoCopy]
    /\ UNCHANGED <<pc, req, forwarded, total, trouble>>

\* ResolveApprovalWithAttestation, after the hosted attestation came back.
Resolve(o) ==
    /\ Running(o)
    /\ \E a \in ApprovalIds, status \in {"approved", "rejected"} :
         /\ mem[o].approvals[a].status = "pending"
         /\ disk' = [mem[o] EXCEPT !.approvals[a].status = status]
         /\ consents' = IF status = "approved"
                        THEN consents \cup {[id |-> a, action |-> mem[o].approvals[a].action,
                                             cost |-> mem[o].approvals[a].cost]}
                        ELSE consents
    /\ mem' = [mem EXCEPT ![o] = NoCopy]
    /\ UNCHANGED <<pc, req, forwarded, total, trouble>>

\* A command is done, gives up after a failed save, or is killed.
Exit(p) ==
    /\ Running(p)
    /\ mem' = [mem EXCEPT ![p] = NoCopy]
    /\ pc' = [h \in Requests |-> IF h = p THEN "idle" ELSE pc[h]]
    /\ req' = [h \in Requests |-> IF h = p THEN NoRequest ELSE req[h]]
    /\ UNCHANGED <<disk, forwarded, total, consents, trouble>>

\* The gateway dies and is started again.
Restart ==
    /\ mem' = [mem EXCEPT ![Gateway] = disk]
    /\ pc' = [h \in Requests |-> IF h \in Handlers THEN "idle" ELSE pc[h]]
    /\ req' = [h \in Requests |-> IF h \in Handlers THEN NoRequest ELSE req[h]]
    /\ UNCHANGED <<disk, forwarded, total, consents, trouble>>

\* A grant just created.
Init ==
    /\ disk = [status |-> "active", spent |-> 0, approvals |-> [a \in ApprovalIds |-> Unused],
               receipts |-> [i \in ReceiptIds |-> "none"]]
    /\ req = [h \in Requests |-> NoRequest]
    /\ mem = [p \in Procs |-> IF p = Gateway THEN disk ELSE NoCopy]
    /\ pc = [h \in Requests |-> "idle"]
    /\ forwarded = {} /\ total = 0 /\ consents = {} /\ trouble = "none"

RequestStep(h) == ReadGrant(h) \/ Decide(h) \/ Refuse(h) \/ AddReceipt(h) \/ AddGrantSpend(h)

Next == \/ \E h \in Handlers : \/ Authenticate(h) \/ AuthenticateFree(h)
                               \/ Answered(h) \/ AddUsageEvent(h)
        \/ \E e \in Evals : Evaluate(e) \/ AskApproval(e)
        \/ \E h \in Requests : RequestStep(h)
        \/ \E o \in Owners : OpenStore(o) \/ RevokeGrant(o) \/ Resolve(o)
        \/ \E p \in Commands : Exit(p)
        \/ Restart

Spec == Init /\ [][Next]_vars

-----------------------------------------------------------------------------
(* Properties                                                              *)

\* An approver consented to what a request may spend, if that crosses the threshold.
Consented(r) ==
    Threshold > 0 /\ r.cost >= Threshold =>
        \E c \in consents : c.id = r.approval /\ c.action = r.action /\ c.cost = r.cost

\* README.md:318, "threshold-crossing actions require explicit approval": whatever the
\* processes interleave and overwrite, an attested approver approved this action at this
\* cost before it was forwarded.
CrossingApproved == \A f \in forwarded : Consented(f)

\* What goes upstream has its signed receipt in the file and its cost counted there (until
\* the count wraps), as README.md:309 says.
ReceiptedAndCounted ==
    /\ \A f \in forwarded : disk.receipts[f.id] = "allow"
    /\ total < Half => total <= disk.spent

\* That is so as long as commands run alone and the file can be saved and read, even when
\* the gateway dies between the steps.
ForwardedAccounted == ~Overlap /\ trouble = "none" => ReceiptedAndCounted

\* Concurrent requests may each fit the budget alone; together they exceed it by less than
\* what the others in flight may cost.
MaxCost == CHOOSE c \in Costs : \A d \in Costs : d <= c
OverspendBounded ==
    ~Overlap /\ trouble = "none" => total <= Limit + (Cardinality(Handlers) - 1) * MaxCost

\* What the owner decided stays decided, a revoked grant and a resolved approval, unless
\* commands overlap or the gateway could not read the file.
DecisionsStick ==
    [][~Overlap /\ trouble' # "read" =>
       /\ disk.status = "revoked" => disk'.status = "revoked"
       /\ \A a \in ApprovalIds : disk.approvals[a].status \in {"approved", "rejected"} =>
              disk'.approvals[a] = disk.approvals[a]]_disk

\* Under the same conditions, once the owner has revoked the grant no request that begins
\* afterwards is forwarded.
RevocationEnforced ==
    [][~Overlap /\ trouble # "read" =>
       \A h \in Requests : pc[h] = "approval" /\ pc'[h] = "receipt" /\ disk.status = "revoked"
                           => req'[h].decision = "block"]_vars
=============================================================================
