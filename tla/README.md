# A verification project for 21pins

21pins is a local control plane for AI agents. One process (the *gateway*) serves
model requests with the owner's provider keys, a policy engine decides what an agent
may spend, a lease service hands out short SSH certificates, and a set of guarded
helpers touches DNS and WireGuard. This directory holds TLA+ models of its parts, the
TLC configurations that check them on small instances, and theorems that TLAPS checks
for every value of the constants. Paths below are relative to `src/`. Next to some definitions
a module has a second one whose comment begins with `Fault:`: a plausible bug of that code,
which no specification uses; `PROJECT.json` (`mutants`) says which property catches it.

## 1. The system

| Part | State it keeps | Operations | How it meets the others |
|---|---|---|---|
| SSH lease service (`internal/sshaccess/lease.go`, `internal/gateway/ssh.go`) | `config.json`, `leases.json` (leases, issuances, last serial), a file lock | open, get, list, approve, complete/cancel/revoke, issue | HTTP handlers of the gateway, token store, signer (`ssh-keygen`), administrator's edits |
| SSH client (`cmd/21pins/ssh.go`, `ssh_client.go`) | a runtime directory per lease: key, certificate, `lease.json` | open, exec/connect with renewal, complete/cancel/revoke, sweep | the lease service over HTTP, native `ssh` |
| State store (`internal/store/*.go`) | one JSON file, one copy of it per process | tokens, provider keys, catalogues, usage, grants, receipts, approvals, signing keys | gateway and every CLI command; mutex inside a process, last writer wins between processes |
| Provider key rotation (`internal/store/store.go`) | a key set per provider: active, pending, previous, every record ever | set, start, verify, commit, rollback, revoke | `key` commands; the gateway reads the active key |
| Policy engine and enforcement (`internal/policy`, `internal/gateway/server.go`) | grants with what they spent, approvals, receipts | evaluate, enforce, record, spend | gateway handlers, `evaluate` command, store |
| Usage ledger (`internal/usage`, `gateway/server.go`) | usage events | cost of a response, summaries | chat handler, dashboards |
| Hosted attestation (`website/api`, `internal/hosted`) | a session row per attestation | create, callback, attest, poll | the CLI polls; the page and the identity provider call back |
| WireGuard enrolment (`internal/dnsadmin/admin.go`, `wg_beryl.go`) | configuration file, kernel peers, `pending.json`, root lock | verify, enroll, rollback | `wg`, the SSH command gate |
| SSH command gate (`internal/sshcommand`, `internal/sshaccess/signer.go`) | a policy file, pinned by digest in sshd's configuration and in certificates | sign, parse, authorise, run | forced command of a certificate; sudo and the enrolment's helper behind it |
| Network registry and verification (`internal/netpolicy`) | registry of identities and policies, evidence, packet observers, assessments | create, rename, rebind, import, verify | lock file, native tools in network namespaces, DNS probes, grants |
| Outer shell (`cmd/21pins/main.go`, `models.go`, `internal/config`, npm package, Pi extension, scripts, website page) | none of its own | dispatch, display, packaging | all of the above |

What is hard about each, and what makes it correct:

- **Lease service.** Handlers run concurrently, and an issue keeps the lock across two
  saves with an external signer between them. Meanwhile tokens are revoked and the
  configuration replaced without that lock, and the process can die anywhere. Correct
  when: serials are never signed twice, nothing is signed for a lease that has ended,
  certificates never outlive their lease, a second person approves where the policy
  says so, a key serves one lease, and leases only move forward.
- **SSH client.** It dies between a rename and a save, answers get lost, renewal races
  expiry. Correct when no usable key is left behind and nothing is stuck.
- **State store.** A save fails half way and memory must agree with the file again;
  several processes hold stale copies. The repository's README (line 313) says that
  separate processes are last-writer-wins.
- **Key rotation.** A long sequence of legal commands must keep exactly one key active
  and never bring a revoked key back.
- **Policy enforcement.** Check, receipt, spend and forward are separate critical
  sections of concurrent requests: budgets and approvals are checked against state that
  other requests change.
- **Hosted attestation.** Every endpoint reads a row, decides, and writes it back; two
  endpoints overlap.
- **Command gate.** Six places name a digest and are replaced one by one. Correct when nothing
  runs but what the certificate names, and replacing any file disarms the old certificates.
- **WireGuard enrolment.** Five effects on two stores must look like one, whatever step
  the machine dies at, and a rollback may itself be interrupted.
- **Network registry and verification.** Revisions make evidence stale; verification asks
  again before each native operation because the registry, the grant and the gateway may have
  moved. Two goroutines watch packets while probes run, and end for reasons of their own.
  Correct when a verdict means what it says, whatever was refused, late, lost or cut short,
  and no socket is left open behind an assessment that says otherwise.

## 2. The SSH lease service

### Modules

| Module | What it is |
|---|---|
| `LeaseAuthority` | the promise: leases that only move forward, certificates issued in one instant under an active lease with increasing serials. No files, lock, signer or process |
| `SSHLease` | the code: handlers with tokens and configuration snapshots, transactions on `leases.json` under the file lock, the three steps of an issue, crashes, edits, revocations, the clock |
| `MCSSHLease` + `SSHLease*.cfg` | small instances for TLC |
| `SSHLeaseProofs` | theorems about `SSHLease` for all constants |

State and code: `leases`, `issuances` and `nextSerial` are the contents of `leases.json`
(`diskState`); `lock` is the holder of `leases.lock` across an issue; `config` is the
content of `config.json` for one host and role, `NoPolicy` when it cannot be loaded;
`valid` is what `ValidateSSHToken` accepts; `pc`, `req` and `draft` are the local state of
each request handler. `signed` is history: every certificate the signer made, delivered
or not.

A handler begins (`Begin`) with an accepted token and its own snapshot of the
configuration, waits, and runs one transaction. `OpenNew`, `OpenRetry`, `Get`, `List`,
`Approve` and `Close` are whole transactions (lock, read, change, save, unlock): nobody
else can see a state in between, because everybody takes the lock and the save is one
rename. An issue is `Reserve` (checks, serial, first save), `Sign`, then `Record` (second
check, second save) or `Withdraw` (any failure after the first save), with the lock held
and everything else interleaved. `Refuse` is every error that saves nothing. A POST that
opens an active lease goes on to its issue (`AfterOpen`). `Crash` is the death of the
gateway between any two steps.

Abstractions: one host and role; a policy value stands for everything `scopeDigest`
hashes, so equal digests are equal policies; an `objective` stands for the fields a retry
must repeat; the second check of an issue (configuration, clock, token, digest) is one
instant, and so is the first; the clock does not go backwards; certificate text, forced
commands and principals are not modelled.

### Runs

| Run | Question | Bounds, and why they suffice |
|---|---|---|
| `ssh_races` | With two requests interleaved: no serial signed twice, certificates inside their window, nothing signed after an end, delivery authorised, refinement of `LeaseAuthority` | 2 handlers, 1 lease, 2 policies, 2 serials, clock to 2, the agent's token revoked and restored at will. Two handlers are every pair of racing transactions; two serials reach the last one |
| `ssh_approval` | Approval by somebody else; a key never serves two leases; the lock is always released | 2 handlers under fairness that open under the same key, 2 leases for them to take, the administrator may request too, a preapproved and an explicit-approval policy with different lengths, 1 serial |

Fairness: a handler that has begun takes its next step (`WF` of `Handle(h)`). The code
bounds each wait: ten seconds for the lock, then an error; a timeout around the signer.
Requests, edits, crashes and the clock are under no obligation.

### Proofs (`SSHLeaseProofs`)

For every set of handlers, tokens, keys, leases and policies, every last serial and every
duration, under `SSHAssumption` (the sets nest and the "none" values are outside them;
windows are positive, as `duration` enforces).

The argument has two parts. `EvolveStep`: whatever transaction runs, a known lease only
*evolves* (fixed scope and deadline, no way back, an approval only by another approver),
and at most one *fresh* lease appears, under an unused key. `DraftOK`: a handler between
its two saves holds the lock, its draft is for an ACTIVE lease and its key and window, and
its serial is the last one reserved. `DraftOK` is why the invariant must be strengthened:
that nothing is signed after an end is a statement about a step, and it follows only from
what is known about the draft before the step. `IInv` adds the types, the fields each
operation relies on, `issuances \subseteq signed`, and that ACTIVE leases carry their
approval. Proved: `TypeCorrect`, `SerialsSafe`, `CertificatesSafe`, `ApprovalSafe`,
`KeysSafe`, `ForwardOnly`, `EndIsEnd`, `DeliveryAuthorised` and `Refinement`. Only
model-checked: `LockIsReleased` (liveness).

## 3. The state file: provider keys and tokens

### Modules

| Module | What it is |
|---|---|
| `KeyRotation` | the key set of one provider, and the file it lives in |
| `AppTokens` | the applications' tokens in the same file: handed out, revoked, validated |
| `StateFile` | both, one watched while the other rests |

`KeyRotation` models the key set of one provider (the sets of different providers never
meet) and the file it lives in. `disk` is the file; `mem[p]` is the copy that process `p`
loaded, `NoState` when `p` does not run. A copy (`State`) has the status of every key
record, which records were verified, the three pointers of `ProviderKeySet` and the key
cached in `ProviderKeys` that the gateway serves.

Each command is an operator on a copy (`SetKey`, `StartRotation`, `CommitRotation`,
`SwapPrevious`, `RevokeRecord`) and an action that guards it and ends in `Save`, which has
the three outcomes of `saveLocked`: the file is replaced by one rename; the save fails and
the copy is read back; the save fails and so does the reading, so copy and file differ.
`Open` loads the file and migrates an old one, `Exit` is the end or the death of a process,
`Reload` is the reading that token validation does, and `SaveOther` any other change of the
state, which writes the whole copy back. Nothing locks the file between processes, so any
interleaving of these is a behaviour. Secrets, time stamps and `ExpiresAt`, which nothing
reads, are left out.

`AppTokens` has a list of records (name, token, revoked) in `file` and in `copy[p]`. A
`Save` has the same three outcomes. `ValidateTokenRecord` reads the file again, or keeps its
copy when it cannot, and decides; `Answer` saves the time of use, whatever comes of it, and
answers. Between the two the process holds its mutex (`check`), which stops nobody else from
replacing the file. `RevokeToken` revokes the first record that has the name or is the token,
and `CreateToken` keeps no names apart. `live`, `dead` and `stale` are history: what was
reported of each token, and which copies are older than that. A token is found by its hash,
which is modelled by the token; whether it has the scope a request asks for is a choice.

A save writes keys and tokens together, but no operation reads the one and changes the other,
so `StateFile` runs them side by side: what rests for the one is a `SaveOther` of the other.

### Runs

| Run | Question | Bounds, and why they suffice |
|---|---|---|
| `state_file` | Is the key set consistent in the file and in every copy, and does a key that no running process knows as usable stay revoked? Is a revoked token refused and one that was handed out accepted? | 2 processes and 4 keys: one active, pending, previous and revoked at the same time; the second process holds any stale copy. 2 tokens and 2 names: they can share one. Tokens and keys that everybody forgot can be drawn again, so that histories have any length |

`AnswersAsTold` ends for a token when a process with an older copy writes it back. One such
case is short: the gateway has read the file to validate a token, `token revoke` replaces it
and reports success, and the gateway saves the time of use on top. The token is in use again.

`token revoke` also takes a name (`store.go:723`), and names repeat: the documented
`token create pi` may be run again and again. The first record of that name is revoked, even if
it was revoked before, and "Token revoked." is printed (`main.go:449`), while a newer token of
that name lives and can only be revoked by its text. So the report is taken here for what it is
worth, a statement about the record that was found.

A rollback while a key is pending leaves it pending, so the rotation that the error at
`store.go:331` ("rotation already in progress; commit or rollback first") speaks of is not
ended by it; a commit, a revocation of the pending key or a new `set-key` does that.

A revoked key may come back while a process holds a copy older than the revocation: that is
the last writer winning, which the repository's README states (line 313), so
`RevokedForGood` is about the keys that are revoked in every copy there is.

### Proofs (`KeyRotationProofs`)

For any number of processes, keys and tokens: `TypeCorrect` (which the run therefore leaves to
the proof), `Consistency`, `RevocationHolds` and `ToldHolds`. The
key is that each operation takes any `Good` copy (typed and consistent) to a good copy and
`Keeps` its revocations, however stale the copy is; so whatever copy overwrites the file,
the file is good. The invariant adds `NotLegacy`: once a process runs, the file holds a key
set, so a reload never yields an unmigrated one.

For tokens the invariant says that the file, and every copy that is not stale for a token,
`Agrees` with what was reported of it. `Becomes` is what an operation does to a list: new tokens
valid, revoked ones not, the others as they were. `SaveKeeps` takes these through the three
outcomes of a save once and for all operations.

## 4. WireGuard enrolment and the way to it

### Modules

| Module | What it is |
|---|---|
| `WGEnroll` | the root helper's transaction |
| `CommandLine` | how the client quotes a command and the gate takes the line apart |
| `CommandGate` | certificate, sshd, gate, sudo and the helper's manifest, while files are replaced |
| `BerylHost` | the helper and the way to it, one watched while the other rests |

`WGEnroll` models one interface: the peers in the configuration file (`config`), the peers
in the kernel (`live`), and the journal file (`pending`). `configMay` and `pendingMay` are
what the two files may hold after a power failure: a directory that was not synced after a
rename or a removal may show either content. `pc`, `undo` and `j` are the helper's progress,
what its rollback is for, and the journal in its memory; `answer` is what it said last.
`confirmed` is history (the present enrolment passed its checks) and `calm` marks the point
after which nothing interferes any more.

The helper's steps follow `admin.go`: `Recover` (a journal left behind is rolled back
first), `Inspect`, `Journal`, `Configure`, `Set`, `Confirm`, `Unlink`, `Verify`, and in a
rollback `RollbackCheck`, `Restore`, `Remove`, `Compare`, `Forget`. Each can fail, before or
after its effect where the code cannot tell. `Crash` kills the helper between two steps;
`PowerFailure` also loses what was not synced, and the kernel's peers are then loaded from
the file. `Edit` is the administrator changing another peer, in the file or in the kernel.
The helper's lock admits one at a time and does not wait, so one program counter is enough;
the administrator takes no lock and edits at any moment, also between the two readings that
a comparison takes (`ReadFirst`, which keeps the first in `seen`, and the step that follows).
`unseen` is history: the peers he edited since the helper's latest comparison began.

`CommandGate` models what has to agree before a command runs as root. `issuer` is the rules
registered with the lease service, `certs` the certificates that carry a digest of them, and
`host` has five files with a digest: sshd's principals file and forced command, the gate's
policy, the sudo rule and the manifest. A digest is modelled by what it is a digest of.
`Sign` is what `verifyCertificate` lets through; a session goes through `Connect` (sshd),
`Gate`, `Sudo`, `ReadManifest` and `Lock`, each reading one file, and `Leave` at any moment.
`Edit` replaces one of them, at any moment, in any order. `since` is history: what each file
has been since the session began. `CommandLine` takes characters by their class: bare, blank,
the two quotes, unsafe, any other.

### Runs

| Run | Question | Bounds, and why they suffice |
|---|---|---|
| `wg_faults` | Without a journal nothing is half done; other peers change only as below; its answers are true; an enrolment asked for again completes. On the way to it, does nothing run but what the certificate names, and does replacing any file disarm the old certificates? | 1 other peer with 2 ranges, one of them overlapping; any number of failures, crashes and power cuts until `calm`. 2 sessions, 2 manifests with the rules `WireGuardRules` makes and an owner's rules with words that need quoting, 2 replacements: two are what it takes to make files disagree in two ways, or to change one and change it back |

`SignedCommandsOnly` has one exception. sshd compares the certificate with its principals file
and runs the command of its configuration, and the two are replaced one after the other. If the
configuration comes first, a certificate of the old rules runs the gate with the new ones
(`lag`). The other order has no such window.

There is a window between the reading of the file and its replacement: an edit made there is
overwritten, because the file is written whole (`docs/ssh-wg-beryl-design.md:40` speaks of
unrelated peers and exact disk bytes). The helper cannot close it alone, so `OthersPreserved`
says how wide it is: a peer is lost only if it was edited in the file since the comparison
that led to the writing began, and a journal however old never costs one. `AnswersTrue` has
the same exception for peers edited while the answer was being found out.

Two answers stop the helper and leave the journal for the next one: `pending_recovery` (the
journal could not be removed) and `rollback_failed` (something else changed). That is by
design, and `EventuallyEnrolled` therefore asks for completion only when the other peers are
in order, no edit crossed a running helper and the journal is about this configuration
(`Recoverable`).

Fairness: a helper that runs takes its next step (`WF` of `Step`; every tool is killed
after four seconds) and the owner, who may also only inspect, asks for the enrolment again
and again (`SF` of `Begin`). After `CalmDown` no step
fails. Nothing obliges `CalmDown`, crashes, edits or flushes.

### Proofs (`WGEnrollProofs`)

For every set of peers and ranges, with edits at any moment: `TypeCorrect` (left to the
proof, as above), `NothingHalfDoneHolds`, `OthersSafe` and `AnswersSafe`. The invariant `IInv`
has seven parts: types; every journal that exists or may reappear describes a state without
the pinned peer (`JournalsOK`); what the helper at each step knows of its journal
(`HelperOK`); what it read first is still so, and what it acts on is what the journal says,
but for `unseen` (`SeenOK`, `StillThere`); if a power failure may lose the journal, any
enrolment it may leave has been confirmed (`LossOK`); and file and kernel agree about the
pinned peer when there is no journal (`Agree`). `LossOK` is what makes the order of the syncs
matter: without it the step "a power failure" cannot be proved. `EventuallyEnrolled` is
model-checked only.

For any sessions, manifests, rules and number of replacements: `SignedHolds` and
`DisarmedHolds`. The assumption (`RulesAssumption`) is that quoting survives the gate's parser
for the words of the rules: what parses at all parses to the same words. That is a fact about a
fold over a line, which only TLC can evaluate; it does so for the rules of the run, which have
a blank and a quote within a word. `SessionOK` says of every session what the step it is at
relies on.

## 5. Policy enforcement

### Module

`GrantEnforcement` models one grant and the requests that use it. `disk` is the state file,
`mem[p]` the copy of process `p`: the gateway's, which all its request handlers share, and
one for each running command. A request goes through critical sections of its own, with
everything else interleaved: `Authenticate` (the token is validated: the copy is read again
and saved), `ReadGrant`, `Decide` (the approval is looked up and the engine decides),
`AddReceipt`, `AddGrantSpend`, then upstream, then `Answered` and `AddUsageEvent`, which read
and save the whole state once more. `evaluate` runs the same steps in a process of its own
and may draw an approval (`AskApproval`); the owner's commands are `OpenStore` followed by
`RevokeGrant` or `Resolve`. `Restart` is the death of the gateway.

Three constants choose the environment: `Overlap` (commands run while requests are between
their steps), `SaveFails` and `ReadFails` (the file cannot be replaced, or read).
`forwarded`, `total` and `consents` are history, and so is `trouble`, the worst that has
failed so far.

Abstractions: of the seven pins, the ones that compare names are one set of `Permitted`
actions; the clock is not modelled, a spend window or an attestation may have ended
whenever it is looked at; signing keys exist; identities are never drawn twice. Amounts wrap
at `Half` as int64 does; the instances stay below it.

### Runs

| Run | Question | Bounds, and why they suffice |
|---|---|---|
| `grant` | Commands run alone; saves and reads fail: until something fails, what is forwarded is receipted and counted, and the budget is exceeded by less than what others in flight cost; nothing crosses the threshold unapproved; until the file cannot be read, decisions stick and a revocation is enforced | 2 requests at a time, `evaluate` and an owner, 3 receipts, 1 approval, costs 0 and 2, limit and threshold 2: two requests each fit the budget and together do not, and the cost is the one that needs approval |
| `grant_unsaved` (a violation) | "signed receipt" for every governed request (the repository's README, line 309) when the file cannot be written | 1 request, saves may fail |

`CHECK_DEADLOCK FALSE` in these: an instance that has drawn all its identities may stop.

### Proofs (`GrantEnforcementProofs`)

For every set of requests, commands, identities, actions and costs, and every choice of
`Overlap`, `SaveFails` and `ReadFails`: `TypeCorrect`, `CrossingApprovedHolds`,
`ForwardedAccountedHolds`, `DecisionsStickHolds` and `RevocationEnforcedHolds`.
`CrossingApproved` needs `ConsentInv`: every approved approval in the file and in every copy
is one an approver consented to, with its action and cost; a request past its decision
carries an approval with that consent. It holds with commands that overlap everything, which
is an instance too large for TLC beside the others, so that this case rests on the theorem.
The others need `OwnerInv`: with `~Overlap`, as long as the file could be read, a running
command is the only one and its copy is the file, a request between its steps has the file
as its copy (`Synced`), and what it read of the grant is still so (`ReadTrue`).
`ForwardedAccounted` adds that a request about to be counted has its receipt in the file, and
that the file counts exactly what went upstream.

`OverspendBoundedHolds` is about any number of requests, and needs no sum over them. Call a
request *pending* from the moment it has found that its cost fits until that is counted; let
there be *k* of *N*, and *M* the highest cost. Then (`Bounded`) either the total is at most
limit + (*N* - 1 - *k*)*M*, or there is a pending request, the one that read the grant last,
whose cost still fits with the total below limit + (*N* - *k*)*M*: when it read, its cost and
the total were within the limit, and each request counted since has left *k* one smaller. The
theorem has an assumption, `Headroom`: costs are not all negative, the limit is not negative,
and limit + *N M* is below the width of an amount. Without the last the sum wraps and the
budget is no bound at all; the run's instance satisfies it.

## 6. Network registry and questions

### Module

`NetRegistry` models `internal/netpolicy/registry.go`, `policy.go`, `question.go` and the
permit of `cli.go`. `objects` and `policies` are the registry file. A command that changes
it (`Create`, `Rename`, `Rebind`, `PutPolicy`, `Import`) takes a lock, or fails at once,
reads the file, changes it, validates the whole and replaces it by a rename; so it is one
step. Only `Import` has a command line; the others are the package's interface.

A verification has no lock. `Registry.Question` loads the file again at every lookup, and
`pc` is the lookup it is at: the target, the source, the other networks, gateway, VPN,
control service, the rules (`ResolveTuples`), their path, the table of policies, then one
`Walk` for every reference, its own and its baseline's. `reading` is what it has read so
far, `asked` the answer (`Question`, with the digest taken as the values it hashes). Before
each native operation the question is asked again (`BeginPermit`) and the two answers are
compared (`Permit`). `GiveUp` is every error on the way: it ends the verification, or, once
the collection has begun, leads to an assessment without a verdict; `Save` saves it and
`receipt` is what it was about, which a later question may name as its baseline. `before`
is history: the registry at the moment the last permit began.

Abstractions: `Body` stands for the part of a binding that is not a reference (for a
network its context and address, for a service its endpoint); a scope is the family,
transport, port, realm and mode of a tuple; drafts name objects by ID; a rule is identified
by its alias, since `putRule` keeps the ID of an alias; an import carries one rule at most.

### Run

| Run | Question | Bounds, and why they suffice |
|---|---|---|
| `net_registry` | Do references keep their meaning, and is a permitted answer what the registry said at one moment? | a VPN, two networks, one service that refers to the VPN, two rules. The VPN and the service can be rebound once and one rule put again, the alias of one network can pass to the other, the two rules can collide |

`PermittedAnswerWasCurrent` is the point of asking twice. Neither answer is a snapshot, but
revisions only grow and a reference keeps its meaning: if an object had revision *r* before
some moment and still had it after, it had it then. The moment is the start of the permit,
between the two answers. That no *other* rule decides a tuple at that moment follows because no
saved registry has a tuple in two rules.

### Proofs (`NetRegistryProofs`)

For all objects, policies and declarations: `RegistryIsWellFormed` and
`ReferencesStayImmutable`. The key of the second is `BoundAgain`: `change` binds the references of an
object again even for a rename, and this changes nothing because a stored reference has
a revision and a stale one is refused.

`PermittedAnswersAreCurrent` proves the argument above, for any registry and any number of
lookups. Its invariant `QuestionInv` sets every value a question has read between two moments:
what the first question read was no later than `before`, what the second read no earlier; as
revisions only grow and a reference has one meaning, equal answers are what `before` says.

## 7. The SSH client

### Module

`SSHClient` extends `LeaseAuthority`: the lease service is what it promises (`Grant`,
`Decide`, `Terminate`, `Certify`, which `ssh_races` and the theorem `Refinement` show of the
code), and the module adds the commands of one client and their files. `cache[id]` is a
lease's directory in the runtime directory: its private key, its certificate and
`lease.json` (`meta`), each there or not, or no directory at all. `scratch[k]` is an
`opening-*` directory with key `k`; `old` is one that was left for an hour. `pc` and `cmd`
are each command's next step and what it has read. `removed` and `disturbed` are history.

Every command sweeps first (`SweepEntry` for each directory there was, `SweepScratch`). Then
`open` is `GenerateLeaseKey`, `ServiceOpens` and `ServiceIssuesFirst` (the service grants and
issues in two transactions), `Rename`, `WriteCert`, `SaveClient`, and on a failure `Undo` and
`Remove`; `exec` and `connect` are `Load`, `Get`, `Renew`, `WriteRenewed`, `SaveRenewed`,
`StartSSH`, then `EndSSH` or `Signalled`; `status` is `Get`; `complete`, `cancel` and `revoke`
are `Close` and `AfterClose`, which removes the directory whatever the service said;
`objective` does this for every lease listed. `FailToLoad` is what a missing `lease.json`
does, with the directory that `PrivateDir` makes. No lock orders two commands. A file write
fails (`Faults`), an answer is lost after the call had its effect (`Lossy`), a command is
killed (`Crashes`). `Elsewhere` is the rest of the world: approvals, ends, the clock.

Abstractions: removing a directory is one step; the fields the client compares with the
service's answer always agree; a local `approve` has no local effect and is one of the
decisions made elsewhere; alias resolution and the arguments of `ssh` are left out.

### Runs

| Run | Question | Bounds, and why they suffice |
|---|---|---|
| `ssh_client` | Does a removed key stay removed, does `open` cancel what it cannot keep, does a session only start under a lease that had not ended when its command began? | 2 commands at a time, any number in sequence, on 1 lease with or without approval, 2 certificates (the first and a renewal), every failure |
| `ssh_client_sweep` (a violation) | "Startup/status sweeps remove expired/terminal cache files" (`docs/ssh-harness-integration.md:49`) | 1 command at a time, 2 leases, nothing fails |

`ssh_client_sweep`: `exec` of a lease that has no directory here creates an empty one. From
then on the sweep of every command stops with an error at that directory, and no command
gets further, so an expired key of another lease is never removed. If `loadClient` did not
create the directory the property would hold in this instance. A command killed between the
rename and the save of `lease.json` blocks later commands in the same way.

One case is outside `NoLeaseWithoutKey`: if the service grants a lease and then refuses its
first certificate (the signer failed), the client has no identity to cancel, and the lease
stays active until its deadline although its key is gone. `disturbed` covers it.

Fairness, in the second run only: a command that runs takes its next step, and commands go
on being run (the property is about what sweeps do, so there must be some).

### Proofs (`SSHClientProofs`)

For any number of commands, leases and keys, and with every failure the run has: `TypeCorrect`,
`KeyGoneForGoodHolds`, `NoLeaseWithoutKeyHolds`, `NoSessionAfterEndHolds`. The run's two commands
and one lease could hide a third that interferes; the proofs exclude it.

None of the four properties is inductive: each depends on what a command that has read something
may still assume. `IInv` writes this down. `Fits(s, c)` is what a command with local state `c`
knows at step `s`: its lease was granted under its key; before the rename the lease's directory has
no key, and none was removed from it; past `get` the lease had not ended when the command began;
after a close it has ended. `FilesOK` ties every directory to the lease's key and deadline, so
that a sweep which goes by `lease.json` removes no lease that can be used. `KeysApart` keeps two
commands from one key, and `Cared` names, for every usable lease without a key, the `open` that
will bring the key or cancel the lease: the form of `NoLeaseWithoutKey` that holds in the middle
of commands.

What a step of one command can do to what another knows is the same few things for all steps:
the service only moves forward (`Forward`), only a rename brings a key, and a key that is removed was
there (`KeyRule`). `FitsOn` shows once that everything known survives this; `StepOK` then leaves of
each action its own conjuncts. Assumed is `ClientAssumption`: the values of absence (`None`, `NoDir`,
`NoLease`) are no keys, directories or leases. `ExpiredKeysRemoved` is liveness (and false).

## 8. Hosted attestation

### Module

`HostedSession` models one session from the command that starts it to the attestation the
command stores. `row` is the database row; every endpoint reads it (`GetSession`), computes,
and writes the whole of it (`UpdateSession`), and `web[h]` is a request between the two with
the copy it read. A posted code is `ReadForAttest`, then `Deny`, `WrongCode` or `RightCode`,
which draws a PKCE verifier and sends the browser to the provider (`redirects`). `SignIn` is
the provider, outside this repository. A callback is `ReadForCallback`, `ExchangeCode` (with
the verifier of its copy) and `Approve`. A poll of a pending session that is over writes that
first (`ReadAsExpired`, `SaveExpired`); the others are one step (`Poll`). The command is
`Begin` (it takes the time), `StartAttestationSession`, polls, and `Receive`, which verifies
what it gets against the time taken at the beginning. It ends with the first request that
fails (`GiveUp`, `Abort`). `given`, `signedIn`, `guesses`, `page` and `overlapped` are
history.

Abstractions: one session and one database clock equal to the command's clock; signatures,
key lookup, issuer and method always fit; `attempts` stops counting beyond the limit, after
which it makes no difference; a subject signs in once behind each redirect.

### Run

| Run | Question | Bounds, and why they suffice |
|---|---|---|
| `hosted_session` | Where does every attestation come from; how often is a code tried; is an approval kept; does the command accept what it gets? | 2 overlapping requests, 2 subjects, 2 verifiers (a redirect that a second one replaces), a limit of 2 attempts, sessions of 2, polls and tolerance of 1, clock to 2: every order of the session's end, the command's timeout and the sign-in |

Two properties are about requests that do not overlap (`~overlapped`), and this is no
convenience: with an overlap they fail. A posted code that was read before a callback and
written after it makes an approved session pending again, and a stale copy takes counted
attempts back. The page tells the user that the grant command continues
(`website/api/ck/callback.js:52`); it may also have given up after two minutes of the session's ten.
What an overlap cannot do is the first theorem below.

`CHECK_DEADLOCK FALSE`: an instance whose time and verifiers are used up may stop.

### Proofs (`HostedSessionProofs`)

For all requests, subjects, verifiers, limits and durations with `Timeout <= Skew` (both are
two minutes: `cmd/21pins/main.go:491`, `internal/policy/attestation.go:42`): `RowsAreGood`,
`AttestationsSound`, `AttemptsLimited`, `ApprovalStays` and `GivenInTimeAccepted`, that is,
every property of the run. The invariant says of every copy what it says of the row, because
any copy may become the row: it is a `GoodRow`, and its attestation is `Sound` (earned, and
signed since the command began). `Alone` is what is known without an overlap: the one request
there is has read the row as it still is.

## 9. Network verification

### Modules

| Module | What it is |
|---|---|
| `NetVerify` | a verification with the native collectors and packet observers |
| `OpenWrtPolicy` | what the adapter for OpenWrt makes of a router's rules, and beside it what the kernel makes of them |
| `OpenWrtReader` | how the adapter reads a router, call by call, while its administrator loads other rules |
| `OpenWrtCases` | bindings and routers for TLC |
| `Collector` | a verification by either adapter; `MCOpenWrt`: the second alone |

`NetVerify` models one run of `verify` of `internal/netpolicy/cli.go` with the native
collectors. `pc` is the next step: the operations of a gateway or VPN question
(`ReadNative`), or those of `collectDNS` (`Scope`, `Source`, `ReadPolicy`, `Coverage`,
`Claim`, `ReadTunnel`, `Start` twice, an `Attempt`, `Probe` and `Answer` for each transport,
`Stopped`, `ReadPolicyAgain`, `Derive`), then `Evaluate` and `Save`. Before each native
operation the code asks its question, reads the grant and resolves the subject again; that is
`Permit`, which sets `permitted`, and a step that finds it unset takes the path of a refusal.
`Tried` is a step that spends a permit on an operation, and counts it in `late` when the
admission is over by then.

`mon[m]` is a packet monitor: its socket (`st`), whether it was cancelled (`told`), what its
`stop` returned (`obs`), what the kernel has queued for it, whether it is void (`spoilt`), and
what it reported (`seen`, and `covers`: the attempts that fell within its window). `Exit` is
the goroutine, which ends for a cancellation, the deadline or an error, and reads any part of
the queue before it does; `StopMonitor` is `stop` with its second of patience. `crossed` is
history: where a challenge really passed.

What a registry answers, and that a permitted answer was current, is `NetRegistry`'s; here a
question has moved or it has not (`admission`). The chain of the gateway (`chain`) is one of
three kinds, and two readings are equal when they are of the same kind; facts are a property,
a transport and a value.

Abstractions: of the missing parts only whether there is one; the packet filter queues a
challenge, queues only that something came by, or drops it in an overflow; the finite profile
of a protected rule requires path and guard; whether an isolation has a control service is
open at each attempt; the world does not move while the observers are being stopped and the
facts derived, which read nothing of it. Not modelled: the pruning and re-reading of saved
assessments, `discover`.

`OpenWrtReader` follows `openwrt_read.go`: `Begin` refuses a plan of too many calls; a sample is
one call for each part (`ReadPart`), then the route for the mark that the classifier of this
sample leaves (`ReadRoute`), which the reader finds out by evaluating what it has read; then
come the stored values (`ReadStored`), then a second sample, which must equal the first
(`Finish`). Each `Call` takes a permit and one of 32 calls; `CallFails` and `Revoke` are the
errors. `Edit` loads other rules between any two calls. `mid` (the router at the end of the
first sample), `past` and `undone` (something was changed and changed back) are history.

`OpenWrtPolicy.Normalize` is `normalizeOpenWrt`, as functions: rules are matched with three
outcomes (`RuleMatches`), a chain is walked with its jumps, four deep (`Walk`, level by level:
`Level`), what rules do is taken in turn (`InTurn`), classifier chains leave a mark
(`Classified`), the routing policy must select the table under that mark
(`RoutePolicy`), forwarding and guard chains give the facts. `Kernel` and `Lookup` are the other
side, nftables and the route lookup as their manuals have them: a base chain ends at its first
accept or drop, a drop is final, jumps nest at most 16 deep (nf_tables refuses to load other
rules), the first row whose table has a route wins. Both take one
question (one source, one destination, one ingress), so a selector is only what it is to that
question. JSON texts are taken apart already: what `owParseRule` does not understand is a rule
that is not `plain`.

### Run

| Run | Question | Bounds, and why they suffice |
|---|---|---|
| `net_verify` | Does a revocation stop the operations; is cleanup never claimed over an open socket; does VERIFIED mean what it says, for an isolation and for a path; is a leak that was seen reported, however the collection ended? | one verification at a time of every kind under a chain that is vouched for; chain, admission, deadline and age of evidence change before any step, any number of times; one transport. With two transports the state space is beyond this run; the theorems hold for both |
| (the same run) | Was a snapshot of OpenWrt true at one moment; is what is published of forwarding, guard and route true of the rules of that moment, in the kernel? | bindings of seven shapes, and for each the routers in which two rules in a row, of every selector and effect, a called chain, the policy, the set or the routing rows vary; 2 edits between the calls. Two rules are what it takes for one to hide the other; two edits, for a change that is undone |
| `openwrt_return` (a violation) | "ambiguous conditional return and unsupported verdict paths => unknown" (`docs/superpowers/plans/2026-10-15-openwrt-gateway-evidence.md:113`) | a forwarding chain that calls one which returns for what does not leave through the VPN and drops the rest |

`openwrt_return`: the evaluator looks at the exception of an accept or a drop (`oifname !=`) but
not at that of a return or a jump (lines 717 and 705), and takes both as unconditional. So
forwarding is published as allowed where the kernel drops what leaves through the VPN.
`FiltersAreTrue` therefore leaves out the interfaces such a rule names (`Exits`), and rules that
name interfaces by a pattern, which `owRuleMatches` (line 470) takes as rules for others.

`AbsenceIsTrue` says exactly how much silence is worth. An observer that is stopped closes its
socket with whatever is still queued; the final statistics are read for drops but their packet
count is not compared with what was received. So a challenge that crossed can go unseen, and
the property names the only case: it is still in the queue. What makes that unlikely is the
150 ms between the last probe and `stop`. If anything else were lost (a dropped packet, one
that cannot be attributed, a failed read, a timeout) the observation is void and the verdict is
not VERIFIED.

`LeakIsReported` is the other side: an answer, or a challenge seen by an observer that covered
it, leads to VIOLATED even if a later permit was refused, the deadline passed or the observers
failed. It is about `grounds = "kept"`, that is, the grant can still be read and its window is
open at the end; otherwise all facts are void by design.

### Proofs (`NetVerifyProofs`)

For one transport or two in any order, with or without a chain that is vouched for:
`RevocationHolds`, `CleanupHolds`, `AbsenceHolds`, `PathHolds`, `LeakHolds`. `Counted` carries the first: a
permit in hand means that no operation has been late yet. The others rest on `Inv`. `Ordered`:
no attempt is covered before it is made, so a challenge sent now is new to every observer.
`Traced` follows it: where it crossed an observer that watches or watched, it is queued, seen,
or the observer is void; and what is queued or seen did cross. `Founded` says what each
watched fact stands for and that none exists before `Derive`; `Judged`, that a verdict of
VERIFIED has those facts. Steps that touch neither packets nor watched facts are `Plain` and
are dealt with at once. `LeakHolds` rests on `Reported`: at the verdict every leak the command
knows of has the fact that contradicts the isolation, because a collector that gave up early
made no attempt and the others leave through `Derive`.

`EitherIsVerification` carries these over to the composition that the run checks.

The reader of OpenWrt, for any configurations that `ConfigurationsAssumption` allows (bindings
that `validOpenWrt` lets in, routers with any rules, rows and routes) and any number of edits:

- `SnapshotHolds`: a part that was the same in both samples was that in between, or it was
  changed and changed back (`SampleInv`).
- `FiltersHold` and `RouteHolds`: what is published of such a snapshot is what the kernel does.
  `FactsInv` adds to `SampleInv` that the first sample has every part that is asked for and that
  the facts are derived of it, so `Accepted`: the reader saw (`Sees`) the router of the middle.
  The rest is about rules, not about steps. `Agree` says what a verdict of the reader claims of
  the kernel's: nothing if it is unknown, the same verdict and mark otherwise, but for a drop
  that depends on where a packet leaves; and a guard, a drop outside the VPN. `RulesAgree` is
  the case by case of a rule. `TurnsAgree` lifts it to a list: the first effect that decides is
  the one that counts (`InTurn` says so without recursion, over the set of rules that precede
  it). `ChainsAgree` lifts it over a call, `RootsAgree` over the four levels that the reader
  walks, and `ClassifierAgrees` over the chains of a hook. `RowsApply` is the routing policy:
  when every row that could apply is understood, what is special about a packet changes nothing.

No induction principle can be cited with a formula here, so `WalkExists` and `KernelExists`
(that the recursive functions of `Walk` and `Kernel` exist at all) descend to the least depth
at which one would be missing; the library has that a set of naturals has a least member.
The kernel is unfolded over `JumpStack` levels, of which the proof needs the last four.

The three exceptions are those of the properties: patterns of interface names, the interfaces
that a jump or a return excepts, and (for the route) a chain of another role that is hooked in
prerouting. The last one was found on the way to the proof: `normalizeOpenWrt` walks
classifiers only (lines 744 to 763), and although the scope of the evidence is not published
with such a chain, the policy selection still is; if that chain marks again, the selection is
not the kernel's. One of TLC's cases is such a chain.

## 10. Plan

Modelled in this order, because an error in the first ones costs most: the lease service,
key rotation, WireGuard enrolment, policy enforcement, the network registry, the SSH
client, the hosted attestation, the network verification, the command gate, the adapter for
OpenWrt, the tokens. Next: `UsageLedger`, the costs of a response against a reference
definition on bounded inputs.

Liveness stays with TLC: TLAPS proves no fairness-based property here.

Not modelled, and why: the text of certificates and of the bootstrap files, the DNS and
Technitium probes (text in, verdict out); identity (one external command); dispatch, display and flags of the command line;
the npm package, Pi extension, scripts, packaging and the website's page, which keep no state.
