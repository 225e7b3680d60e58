# Continuity fleet: specification and proofs

This directory specifies the after-hours site continuity fleet (`src/`): agents
that take an incident report, investigate one managed Cloud Run service, ask a
deterministic policy gate and, where it says so, a person, shift traffic back to
a known-good revision, verify the result under a second identity, and hand over
to a duty manager whatever they could not settle. File names below are relative
to `src/src/scf/` unless they start with `tests/`.

The specification is TLA+; TLC checks it on small instances, and TLAPS proves for
all instances every property that the passing runs check, but for liveness.
`PROJECT.json` lists the components, runs, mutants, hazards and theorems, and maps each
definition to the lines it models.

## 1. The system

### Components

| Component | State it keeps | Operations | Correct when |
|---|---|---|---|
| Executor (`app/executor.py`) | none of its own: works on the execution store, the incident document (read only) and the Cloud Run service | `POST /execute`, `POST /terminalize` | one authorization makes at most one change; what is recorded and answered about whose change it was is true |
| Execution store (`state/execution_store.py`) | one document per execution (state, owner, lease, epoch, provenance), the fingerprint bindings, receipts | `bind_authorization`, `acquire`, `release`, `advance`, `terminalize`, `record_receipt`, (unused: `renew`, `claim_once`) | ownership is exclusive per epoch, a terminal state is final, a stalled owner is fenced |
| Incident state machine (`domain/state_machine.py`) | the transition table | `can_transition`, `path_to` | no legal sequence forges an authorization, an execution or a verification |
| Failure taxonomy (`domain/failures.py`) | the table of categories | `handling`, `build_escalation_package` | an incident rests where its failure says, and the handover says what is known |
| Orchestrator (`app/main.py`) | local outcome of one request | `POST /incidents`, `/resume`, `/reconcile`, `_fail` | nothing is resolved unverified, nothing is stranded, closures tell the truth |
| Approval service (`app/approval.py`, `main.py`) | the approval document | create, decide, expire | one answer, in time, binding one decision |
| Incident repository (`state/firestore_repo.py`) | the incident, decision, approval and audit documents | `create`, `transition`, `decide_approval`, `save_*`, `append_audit` | status and audit entry change in one transaction |
| Audit chain (`audit/chain.py`) | hash-linked entries, chain head | append, verify | a truncated, forked or edited chain is detected |
| Policy gate (`policy/`, `main.py` `_within_competence`) | none | `evaluate`, `may_establish` | deterministic, only on trusted, uncontradicted evidence of the required type, closed by default |
| Investigator (`app/investigator.py`, `tools/cloud_run_evidence.py`) | a work budget | `POST /evidence` | read-only, bounded, an outage is looked at twice, what it pins was probed |
| Verifier (`app/verifier.py`) | none | `POST /verify` | RECOVERED only for the exact revision, exclusively serving and healthy |
| Screening (`security/model_armor.py`) | none | one call per text | no text reaches a model uncleared |
| Routing and vision (`agents/`), specialists (`app/specialists.py`, `tools/`) | none | model calls, read-only probes | output confined to the catalog and to each agent's competence |
| Continuity status (`app/continuity.py`) | none | `POST /status` | the manager is told no more than is known |
| Director, web console | none | forwarding and display | - |
| Plumbing (`app/invoke.py`, `config.py`, `obs/`, `faults.py`) | none | authenticated calls, settings, logs | - |

### How they interact, and what is hard about it

- scf-entry calls every other service over HTTP and waits for it at an `await`.
  A call can fail, time out with its work still going on, or be delivered twice.
- The incident document is written by several instances: the workflow that owns
  the incident, resumes (a person approved), reconciles (an operator asks again)
  and the approval service. Each `repo.transition` is one transaction; nothing
  spans two of them. So each handler acts on a status that may be out of date.
- The executor holds a time-bounded lease while it calls Cloud Run, which no
  transaction covers. A lease can lapse during the call, a second delivery may
  take the execution over, and a stopped instance leaves its record behind.
- Cloud Run guards the write with `resourceVersion`. 409 proves that nothing was
  applied, 2xx that it was, anything else proves nothing; and the traffic moves
  some time after the write was accepted.
- Operators redeploy and roll back the same service by hand.
- An approval expires at a time nobody acts on.
- The audit trail is a chain whose head is a field of the incident: whoever writes
  the incident competes for it, and most documents are written in a transaction
  before the one of their record.
- The investigator describes the service once and probes it through URLs whose
  meaning may move; its caller stops listening after a time of its own.
- A request remembers what it believes it changed in a dictionary with three
  answers (absent, `True`, `None`), which the handover and the Coordinator read.

## 2. Modules

| Module | Models | Notes |
|---|---|---|
| `ExecutionStore` | the transactions on one execution document, as functions of the document read | used by `Executor` and (as an instance) by `Orchestrator` |
| `Executor` | `/execute` and `/terminalize`, one action per `await` | 14 variables, one process per delivery |
| `AuthorizedEffect` | what becomes of one authorization | abstract specification, refined by `Executor` and by `Orchestrator` |
| `MCExecutor` | instances of `Executor` | |
| `ExecutorProofs` | TLAPS proofs about `Executor` | |
| `IncidentStateMachine` | the transition table, `path_to`, the failure categories and where they rest | functions only; `path_to` is a recursive function, not a RECURSIVE operator |
| `IncidentLifecycle` | an incident moved by anybody, in any order, with its history | |
| `PathProofs` | TLAPS proofs about `path_to`, `Only` and induction over numbers | |
| `LifecycleProofs` | TLAPS proofs about `IncidentLifecycle` and `EscalationRoute` | |
| `EscalationRoute` | a failure handler walking a computed route while others move the incident | |
| `Orchestrator` | the workflow, resumes, reconciles, approvers and `_fail`, with the executor, Cloud Run and operators | composes the two planes |
| `OrchestratorProofs` | TLAPS proofs about `Orchestrator` | EXTENDS `PathProofs` |
| `MCOrchestrator` | instances of `Orchestrator` | |
| `Fleet` | `POST /incidents` in full: screening, transcript, routing, specialists, delegation, the manager's message | EXTENDS `Orchestrator` and implements it (`WorkflowSpec`) |
| `FleetProofs` | TLAPS proofs about `Fleet`, its refinement of `Orchestrator` among them | EXTENDS `OrchestratorProofs` |
| `MCFleet` | the catalogs, proposals and reports of the instance | |
| `AuditChain` | the repository's writes and their records, verification, `GET`, alteration from outside | its transitions implement `IncidentLifecycle` |
| `AuditChainProofs`, `MCAuditChain` | TLAPS proofs; the instance's symmetry | |
| `Selection` | the comprehension that cuts a list down to what is allowed | used by `PolicyGate` and `Fleet` |
| `PolicyGate` | the policy as shipped, `evaluate`, competence | functions only |
| `HealthBody` | what a probe concludes from a body, and the reading by levels it is compared with | functions only; a body nests, so the reader is a recursive function on the levels left |
| `HealthProofs` | TLAPS proofs about the reader | EXTENDS `PathProofs` |
| `Investigation` | one investigation, from the call to the gate's decision | EXTENDS `PolicyGate` and `HealthBody` |
| `InvestigationProofs` | TLAPS proofs about `evaluate` and about `Investigation` | EXTENDS `HealthProofs` |
| `MCHealthValues`, `MCInvestigation` | JSON values; traffic layouts, bodies, faulty items | |

### State and actions of the execution plane

`exec[d]` is the execution document of decision `d` (its execution id is a
function of the decision, `domain/ids.py`). Times are abstracted to what the code
compares: a lease is `live`, `lapsed` or `none`. `bound` is the collection of
fingerprint bindings, `receipt` the receipts, `closed` and `approval` what the
executor reads of the authoritative plane, `live` and `desired` the service's
traffic and its last accepted specification. `fresh` holds the requests whose
snapshot still carries the current `resourceVersion`; any write of the service
empties it. `put[r]` is what became of request `r`'s call, which the request
itself learns only through `PutAnswers`.

A request goes through `ReceiveExecute` (decision, then incident status),
`Validate`, `Bind`, `Acquire`, `Observe`, then one of
`Reconcile` (the authorized revision is already live), a released refusal (an
attempted execution that does not show), `FailStale`, or `CheckPrecondition`,
`RereadIncident`, `ReadService`, `RequestMutation`, `SendPut`, `PutAnswers` and
the writes that record the answer (`RecordMutation`, `RetakeLease`,
`RecordAgain`, `FileReceipt`; `Rewind`; `FileUnknownReceipt`, `Release`).
`Crash` ends a request anywhere. `seen[r]` keeps the document its own acquire
returned, since the code decides on that copy and not on the current one.

### State and actions of the control plane

`Orchestrator` has the incident (`status`, `decision`, `approval`, `attached`,
`overdue`, `handover`), the execution and the service, and for every handler its
step, the failure it reports, the route it has still to take, the status it read
on arrival and what it believes it changed. Each handler is one process:

- `CreateIncident`: screening, routing, consultation, investigation, the policy
  decision, then `allow` or the approval and the park at WAITING_FOR_APPROVAL;
- `Execute`, shared with a resume: EXECUTING, the call, and what its answer means
  (`ExecutionFailureCategory`, `AlreadyLanded`, `MayStillLand`, `EffectIsPresent`);
- `VerifyAndClose`: the verdict, `/terminalize`, RESOLVED or REMEDIATION_FAILED;
- `Resume`, `Answer` (approve and reject) and `Reconcile`;
- `Failing`: `_fail` reads the status, computes a route with `path_to`, walks it
  transition by transition and saves the handover.

The executor here is the one of `Executor` with the steps between two of its own
writes merged; a call's execution goes on when its handler stopped waiting.
`Raise` is the catch-all an illegal transition or a failed write ends in; the
steps outside every `except` end the handler instead. `WriteRaises`, `Crash`,
`ExecutionDies` and `OperatorChange` are faults, bounded by `MaxFaults`.

`outcome["mutated_infrastructure"]` has three values because the code has three:
the key is absent, `True`, or `None`.

### State and actions around the workflow

`Fleet` adds to `Orchestrator` where a request is before and after the workflow's
own steps (`stage`), the screener's responses, the specialists required, still to
consult and consulted, the evidence kept, `outcome["final_status"]` and the
message. `Orchestrator`'s `Screen` and `Consult`, which choose their outcome, are
replaced by `ScreenReport`, `Transcribe`, `ScreenTranscript`, `RouteIncident`,
`ConsultSpecialist` and `Delegate`, which compute it; every other step of
`Orchestrator` is taken as it is (`WorkflowStep`, `Elsewhere`). `ComposeStatus` is
the Coordinator's message.

`AuditChain` has the incident document (`audit_seq` counts the records, so it is
the code's field plus one), the trail in the order of its numbers, and for each
call of the repository its snapshot and attempts. `Read` and `Commit` are the two
halves of a Firestore transaction; `Retry` is the loser's. `Save` is a document
written before the transaction of its record. A hash is the pair it was computed
from.

`Investigation` has the service's traffic entries, the revisions that are sick,
what the worker described and read, its budget, and its answer. A probe reaches
whichever revision the tag leads to at that moment, and reads a body that revision
may answer with the reader of `HealthBody`: `Verdicts[levels][value]` is what the code's
recursion collects from a value with so many levels left to read, from the value's own
text and the verdicts one level below. An object is its pairs as they were sent, so that
what the parser keeps of a repeated key, and the note it leaves of one that disagrees
with itself (`Disagreeing`, `ConflictNote`), are computed: `Plain` is Python's equality of
parsed values, `Declared` what the object then holds under the parser's own key. `Garble` is a worker that is
authenticated and wrong. `Receive` is `_run_remediation` up to the decision:
the contract, `within_competence`, `evaluate`, the revisions pinned.

## 3. What the runs check

| Run | Instance | Distinct states | Shows |
|---|---|---|---|
| `executor_core` | 1 decision, 2 `/execute`, 1 `/terminalize`, 2 revisions | 2.8e5 | types; a disclaimed effect is never ours; receipts agree with the record; VERIFIED is answered only of VERIFIED; nothing recorded is undone; the executor implements `AuthorizedEffect` |
| `executor_reissue` | 2 equivalent decisions that need approval, 2 `/execute` on one worker | 3.8e5 | at most one change; an unattempted record means no write; epochs are exclusive; no write without an approval that was given: not a pending, rejected or expired one |
| `escalation_route` | all statuses, all goals, both avoid sets, others moving the incident | 2.8e4 | `path_to` is a shortest truthful route, every open status can be escalated, histories are coherent, one execution at most |
| `orchestrator_answers` | 2 resumes, 2 approvers, 1 fault of any kind | 9.2e5 | types; nothing sent that nobody authorized; nothing stranded |
| `orchestrator_reconcile` | 1 resume, 1 approver, 1 reconcile, fair services | 1.0e6 | RESOLVED only on VERIFIED; every incident comes to rest |
| `orchestrator_faults` | 1 reconcile, 2 faults of any kind | 1.1e6 | nobody closes an incident without a handover but a reconcile that gives up; "nothing was changed" is true of what the workflow did; no credit for a change without a write of ours, but where a reconcile infers one; the control plane implements `AuthorizedEffect`: all under failed writes, crashes and operators |
| `audit_chain` | 3 calls, 2 attempts each, 2 targets, 1 alteration, 1 reader | 2.1e5 | the trail verifies exactly when nobody altered it; it is the incident's history; a document and its record agree; `GET` is accounted for |
| `investigation` | 7 traffic layouts of 3 revisions, every set of sick revisions, 1 move by an operator, a looping and a faulty worker, calls that last 20 s beyond their timeout | 2.1e6 | what is authorized was probed, the outage confirmed, the evidence true; the answer is late by one call's overrun at most; 4163 JSON values are read as the reading by levels reads them |
| `fleet` | 4 specialists, with and without a screenshot, 1 reconcile | 1.1e6 | nothing uncleared is routed; delegation is earned; "restored" is true, and a change is told only of a write of this request that was accepted; all of it implements `Orchestrator` |

Every property of these runs is broken by a plausible mistake in the code
(`Mutant...` operators stand before the definition they replace).

### Where the code departs from what it says

Each of these runs ends in a counterexample.

| Run | The code | What it says |
|---|---|---|
| `orchestrator_forgets` | an execution refused for good passes through EXECUTION_FAILED, where a reconcile re-enters it; its write is accepted, its answer lost, and it closes the incident without a handover while `_fail`'s own walk is refused: a change, and no word of it | `main.py:688-694`: an unknown outcome must stay reconcilable; `executor.py:636-638` |
| `investigation_budget` | the worst case counts one candidate probe, the work takes a second one for the fallback: 45 s against a deadline of 42 s | `investigator.py:44-49`, `cloud_run_evidence.py:488-492`: derived from what the work costs |
| `fleet_unchanged` | an executor call that times out leaves no key in the outcome, and the manager reads "Nothing on your site has been changed." while the change is on its way | `main.py:2728-2732`: an absent key means nothing changed; `main.py:688-691`: any failure to reach the executor is an unknown outcome |

### Divergences without a run

Found while modelling, and not kept as runs. Each can be reproduced by stating it
as an invariant or action property of the module named.

In `Orchestrator`:

- A failure before any executor is called hands over "A change was sent but the
  system could not confirm whether it took effect": `main.py:871` passes
  `outcome.get(...)`, `None` for an absent key, against `main.py:2728-2735` and
  `tests/unit/test_fleet_routing.py:251-263`.
- An approval given after its expiry writes EXPIRED and leaves the incident at
  WAITING_FOR_APPROVAL, which no endpoint can move again (`main.py:2187`), the case
  `main.py:2181-2186` says must go somewhere. `ComesToRest` counts it as waiting.
- The second of two deliveries of `/resume` fails its transition and escalates the
  incident the first one is executing (`main.py:2576`), against `main.py:2313-2317`,
  "Resume is idempotent instead."
- Reconciling EXECUTION_FAILED closes on MUTATION_DID_NOT_HOLD and on an unknown
  outcome (`main.py:1860`), against `main.py:516-520`. `orchestrator_forgets` is
  what this leads to when a second handler is about.
- A reconcile that overlaps a terminal failure changes the service after the
  incident was closed as unchanged, the outcome `main.py:1680-1684` excludes.
  `UnchangedIsTrueOfUs` is what remains true beside a reconcile: no write of the
  workflow or of a resume stands behind such a closure, and until EXECUTION_FAILED was
  written, no write at all. `orchestrator_forgets` is the rest, refuted.
- `/terminalize` checks the approval's lifetime before the record, so an execution
  that is VERIFIED can no longer be reported so (`executor.py:1027`, against the
  comment at `executor.py:1045-1054`).
- A reconcile of an incident at REMEDIATION_FAILED reports a change of its own
  because the incident passed EXECUTED (`main.py:1832-1837`, "a mutation landed on an
  earlier call"). EXECUTED may have been an operator's rollback; or, with no operator
  and no fault at all, a first reconcile read DUPLICATE of an execution still at
  MUTATION_REQUESTED, took it for landed, and Cloud Run then refused the write: a
  second reconcile hands over a change nobody made. `CreditIsEarned` names this one
  inference (`InfersChange`) and forbids every other.
- A write refused with 409 whose rewind is lost counts as one of ours from then on
  (`WriteStands`), as it does for the code; see `Executor` below.

In `Executor`: a write refused with 409 whose rewind is lost (crash, or fenced)
leaves MUTATION_REQUESTED, and the next delivery takes credit for an operator's
rollback, the case the comment at `executor.py:582-586` excludes.

In `Fleet`:

- An incident nobody was routed to (`main.py:2819-2829`) is escalated without a
  handover, while the Coordinator says the details have been prepared for a
  responder.
- The docstring of `_run_fleet` (`main.py:2770-2773`) makes delegation depend on the
  application not responding; the code looks at `network_reachable` alone. It uses
  the last trusted value, without the conflict check the gate makes.
- `service_responding` is the investigator's reading from before the repair, so the
  message of an automatic rollback that succeeded says the application is not
  responding beside saying that it was restored.
- The screener's overall state decides: NO_MATCH_FOUND beside a filter that reports
  a match is allowed, and a filter result without an execution state counts as run.
- The message is composed from the request's own final status, which a resume or a
  reconcile may have moved on from meanwhile.

In `Investigation`:

- The description and the probe are two moments: a tag moved in between pins a
  revision nobody probed (`PinnedWasProbed` excuses it).
- With traffic split, no entry has all of it, `active_revision` is empty, and
  "distinct from the failing revision" (`cloud_run_evidence.py:602`) says nothing.
- The conflict check covers the keys a rule requires, not `candidate_revision`, the
  one that is pinned; and the proposal's target is never compared with the service
  that was investigated.
- The worker can outlast its caller, against `investigator.py:50-55`: `httpx` applies its
  timeout to each connect and read of a streamed call that follows redirects
  (`cloud_run_evidence.py:437-448`), and `_access_token`'s refresh has none
  (`cloud_run_evidence.py:36-41`). A call may therefore last `OVERRUN` seconds beyond its
  timeout, and `LateByOneCall` says what the budget does ensure: overruns do not add up,
  since the next call is charged to a clock that has run out.

In `HealthBody`:

- A health key that repeats with `{"ok": 1}` and `{"ok": true}` is no contradiction to
  the reader and reads as healthy, where the same two values a level higher do not: only
  the outermost values are told apart by type, against the docstring at
  `cloud_run_evidence.py:178-186`, "the same assertion, not merely equal".
- "A body carrying this key is not a health answer" (`cloud_run_evidence.py:232-238`): one
  that carries the parser's own key and repeats some other key with another value reads as
  healthy all the same, because the parser's list of conflicts overwrites the body's entry.
- Keys of a JSON body that repeat keep their last value unless they are health keys,
  against the comment at `cloud_run_evidence.py:382-384`.

### Bounds, and why they are enough

Two deliveries of `/execute` are what a takeover needs: an owner and a successor.
A third adds a takeover of a takeover; a development run with three (6.9e5
states) found nothing more, and the theorems below hold for any number. Two
revisions are the authorized one and the rest; `Split` is traffic held by none.
Two equivalent decisions are what a re-issue needs. Epochs need no bound, since
each delivery acquires at most twice. One approval per incident is the code's
(`_run_remediation` creates one); two approvers are two contrary answers. One
workflow exists per incident. Two faults let one hit the handling of the other.

Three calls of the repository are a winner, a loser and a call that meets both;
two attempts are a retry and its end. One alteration of the trail is what
verification against a trusted head can promise to detect one at a time; the head
itself is not altered. Three revisions are the active one, the tagged one and a
fallback. The traffic layouts include split traffic, an untagged candidate, a tag
on the active revision and one without a URL. The JSON values of
`MCHealthValues` cover each rule of the reader, alone, under each kind of key, repeated
with every pair of small values, and inside one another, up to one level beyond the
depth of two that is read (the code's limit is 20). Seconds are the
code's constants; a call takes none of its timeout, all of it, or all and `OVERRUN`
beyond, which are the extremes a deadline can tell apart. `OVERRUN` is 20 in
`investigation`, more than the difference between the caller's patience and the worker's
deadline, so that the caller is in fact left waiting in vain; it is 0 in
`investigation_budget`, whose counterexample needs none: there every call keeps within
its timeout. A catalog offers every specialist or withholds one; the
proposals are the ones that differ in what `_run_fleet` does with them.

The instances with symmetry are symmetric in their deliveries or writers, and no
property that is checked distinguishes them. `CHECK_DEADLOCK FALSE` is set where a
closed incident, a full trail or an answered request has nothing left to do; in
`Executor` an operator can always act, so deadlock is left on there but says
little.

### Fairness

Only `FairSpec` of `Orchestrator` assumes any, for `ComesToRest` and
`ChangeIsAccountedFor`. A handler that has begun goes on: every call it awaits has a
time limit (`CALL_TIMEOUTS`), and its client raises when it is over. The executor's
side of a call runs in a process of its own and ends likewise; Cloud Run settles a
write and migrates its traffic. Nothing is assumed of people: no request is sent,
no approval answered, no delivery repeated, no lease has to lapse, and no operator
acts. `FairSpec` is checked without faults, since nothing in the code sweeps an
incident whose handler stopped: after a crash an incident may stay at EXECUTING for
good, which is why `NothingStranded` excuses lost handlers.

The fairness of a handler is written out (`[]<>~Busy \/ []<><<TRUE>>_Place`) rather
than as `WF`: a handler that is busy always has a step, each of its steps changes its
step or what is left of its route, and but for boundedly many faults nothing else
does, so the two agree, and TLC need not evaluate ENABLED. A call's execution and its
write share one condition: each of them is over after a few steps, so neither can go
on at the other's expense.

## 4. What is proved

The theorems hold for every value of the constants that satisfies the named
assumptions of the modules. The tables give the theorem and the property of a run
that it states; what needs a hypothesis says so.

### The prover's limits, and how they are met

The installed provers cannot instantiate a theorem that takes an operator, which
rules out the library's induction theorems. `PathProofs` states induction over
numbers about sets instead (`SetInduction`, `IntervalInduction`, from
well-foundedness of `<`) and recursion about functions (`Recursion`: a function
that makes one step has the recursive function of it). So what a recursive
definition over numbers computes can be proved, and is, for `path_to`, `Only` and the
reader of bodies. Induction over nested data itself is out of reach; the reader needs
none, because the code bounds its depth, and the levels left are a number.

### Routes and histories

| Theorem | States |
|---|---|
| `PathProofs!PathIsShortest` | `path_to` returns a legal route, none shorter exists, it passes through nothing to avoid; and none exactly when there is none |
| `PathProofs!OpenCanEscalate` | from every open status there is a route to ESCALATED that claims nothing false |
| `LifecycleProofs!RoutesAreShortest` | `RouteSpec => []RouteIsShortest` |
| `LifecycleProofs!AlwaysEscalates` | `RouteSpec => []EscalationIsAlwaysPossible` |
| `LifecycleProofs!WalkersKeepTheTable` | `RouteSpec => Spec`: walkers of routes refine the lifecycle |
| `LifecycleProofs!HistoryInvariant`, `Coherent`, `NeverReopened` | what each status implies of the history; `[]HistoryIsCoherent`; `ExecutesOnce` |

The search is proved in three steps. `Picking` goes through the statuses in the order
of their names, so `Sorted(set)` lists each member of a set once. `Within(from,
avoid)[k]` is the set of statuses within `k` legal steps, by definition. The search's
loop invariant (`Searching`) says of its queue that the routes on it are legal, sorted by
length and differ by at most one, that what is seen and not on the queue has had its
neighbours seen, and that every status within the first route's length is seen; a
status is visited once, so the rounds suffice. For
histories one lemma, `Predecessors`, reads the transition table; nothing else does.

### Executor

For any sets of decisions, fingerprints, incidents, requests, workers and revisions
that satisfy `ExecutorAssumption` (deliveries of the two endpoints are different
processes, decisions that need no approval and those that do are disjoint, the maps
are total; `Split`, `NoSource`, `Unbound` and `NoDecision` are none of the things they
stand beside) and `NoOwnerAssumption`:

| Theorem | States |
|---|---|
| `TypeCorrect` | `Spec => []TypeOK` |
| `Inductive` | `Spec => []IInv` |
| `SingleEffect` | `Spec => []AtMostOneEffect` |
| `Untouched` | `Spec => []UnattemptedIsUntouched` |
| `Disclaimed` | `Spec => []DisclaimedIsNotOurs` |
| `ReceiptsAgree` | `Spec => []ReceiptMatchesRecord` |
| `ExclusiveEpochs` | `Spec => []EpochsAreExclusive` |
| `NothingUndone` | `Spec => NeverUndone` |
| `NothingUnapproved` | `Spec => []NoUnapprovedMutation` |
| `VerifiedIsVerified` | `Spec => []VerifiedAnswerIsTrue` |
| `AuthorizationSpentOnce` | `Spec => SpendsAuthorizationOnce`, the refinement of `AuthorizedEffect` |

None of the safety properties is inductive: that one change is made depends on
what every request in flight is about to do. `IInv` adds what ties them together:

- `RequestInv`, `BindingInv`: what a request's step implies about its call, its
  epoch and the binding of its fingerprint. Two decisions with one authorization
  cannot both be past `Bind`.
- `EpochInv`: the document's epoch is the largest one issued. A request with a
  smaller one is fenced by every write it may still attempt.
- `SeenInv`: while a request holds the current epoch, the copy it decides on is
  the document. This is what makes deciding on a copy safe, and the part a change
  of the code would break first.
- `EffectInv`: a request that may have, or may still get, a change applied is the
  only one of its execution, and the record shows an attempt without a disclaimer.
- `DisclaimInv`, `ReceiptInv`: provenance and receipts follow the record.

The proofs of the parts go step by step over the actions; lemmas about steps that
only move a request, only take a lease or only advance a document cover most of
them. `EffectInv` rests on all the parts before it. Two more invariants rest on
`IInv`: `ClearedInv` (whoever is past validation has a decision that was allowed or an
approval that was given; it may run out later, which is why it says "given") and `CloserInv` (who was told by `/terminalize` that the record is closed
had seen a recorded mutation, whose only end is VERIFIED).

The refinement maps an execution document to its phase and an authorization to
whether a write of it was applied. Every action either keeps both (most of them by one
of three lemmas) or is one step of `AuthorizedEffect`: `RequestMutation` is
`Attempt`, `ApplyPut` is `Apply`, `Rewind` is `Withdraw`, and the writes of the
record are the rest. `EffectInv`, that one request at most is armed, is what `Apply`
(for the first time) and `Withdraw` (nothing was applied) need.

### Control plane

For any sets of resumes, reconciles and approvers and any number of faults, under
`OrchestratorAssumption` (the handlers are different processes):

| Theorem | States |
|---|---|
| `Typed` | `Spec => []TypeOK` |
| `Resolution` | `Spec => []ResolvedIsVerified` |
| `Authorization` | `Spec => []OnlyAuthorizedEffects` |
| `NobodyStranded` | `Spec => []NothingStranded` |
| `NobodyClosesSilently` | `Spec => []ClosedWithHandover` |
| `OnlyLegalMoves` | every step that changes the incident's status is a declared transition |
| `UnchangedStaysSo` | `Spec => []UnchangedIsTrueOfUs` |
| `Credit` | `Spec => []CreditIsEarned` |
| `SpentOnce` | `Spec => SpendsAuthorizationOnce`, the refinement of `AuthorizedEffect` |
| `OneWriteAtMost` | of all the writes asked for, one at most was applied, is under way or left its fate unknown |

`IInv` has five parts. `TypeInv` types what a handler holds and says of a handler that
walks that its route is not finished. `DecisionInv`: until the policy has decided the
incident is the workflow's alone, and everybody else stands by. `AuthorizedInv`: a call
past its lease was authorized, and no answer to an approval is taken back.
`VerifiedInv`: a handler about to resolve has closed the execution. `CarriedInv`: an
incident that no endpoint can move is carried by a handler that still has something to
do with it; a walk carries it while its next transition is legal, and when it no longer
is, another handler has moved the incident and carries it, or brought it to rest.
`OpenCanEscalate` is where it needs `path_to`.

`NobodyClosesSilently` needs `ClosingInv`. A walk closes the incident with its last
transition (`ClosesLast`, from `PathIsShortest`: nothing leads out of ESCALATED), so the
handler that closes it is at its save next and saves, or is lost: `HandedInv`. The
exception is stable (`GivenUpForGood`), because a handler reads the status once and is
answered once, and it is needed: `orchestrator_forgets` has a reconcile that gives up
while a failure's walk is refused, which leaves nothing. A lost handler is excused, as
in `NothingStranded`.

`UnchangedStaysSo` and `Credit` rest on `TalkInv`, with any number of reconciles. Its
parts say who calls when (`EntryInv`: the workflow and the resumes make one call among
them, and a reconcile calls only after that call's handler wrote how it ended), what an
answer tells of its call's write and of the record (`AnswerInv`), that a record of a
change of ours, or of an attempt, has a write behind it (`RecordInv`), and what a handler
or the handover may then say (`TellsInv`): "nothing was changed" only where the call was
refused before or by Cloud Run or was never authorized, "we changed it" only where the
record or an accepted write says so, for good. `EntryInv` is the part a reconcile could
break; that nothing reconcilable is written while the handler of the first call still
waits for it is what keeps it.

For `SpentOnce` and `OneWriteAtMost`, two
executions of one incident take the record from one another, and a record may be taken
back to "no write was sent". `WriteInv` says why neither leads to a second write: a
call whose write was sent and not refused (`Armed`) is the only one, and the record
says so without a disclaimer; the owner of the record decides on a copy that still
agrees with it; and an owner that is about to take a refused request back knows of no
other write. `ExecutorSays` reduces each step of a call's execution to one of six writes
of the record, from which `NextWrites` (the invariant) and `ExecutionsAreVisible` (the
refinement) follow one by one. The mapping is the one of `Executor`: the record's state
and provenance are the phase, and the authorization is spent once some call's write was
accepted. The two modules model the executor at different grain, so that they implement
one abstract specification is also what ties them together.

### The fleet around it

| Theorem | States |
|---|---|
| `OnlyClearedIsRouted` | `FleetSpec => []RoutedIsCleared` |
| `RequestIsWorkflow` | `FleetSpec => WorkflowSpec`: the whole of `POST /incidents` implements `Orchestrator` |
| `FleetTyped` | `FleetSpec => []FleetTypeOK` |
| `Restored` | `FleetSpec => []RestoredIsVerified` |
| `ToldOfChange` | `FleetSpec => []ToldOfChangeWasMade` |
| `DelegationEarned` | `FleetSpec => DelegationIsEarned` |

All hold for any catalog, proposals and reports. `ScreenInv` says which text is cleared
at which stage. `StageInv` ties the request's stage to the workflow's step; from it
each step of the fleet is a step of `Orchestrator` or a stutter (`FleetStepIsNext`), so
the invariants of `Orchestrator` hold of the fleet, and the remaining theorems use
them: `RestoredInv` rests on RESOLVED being final and `Resolution`; `ToldOfChange` on
`OwnCallInv`, which says that the workflow believes in a change only when its own write
was accepted, whatever reconciles do, and on such a write staying accepted. Delegation needs what `Only` keeps of a report
(`OnlyWanted`): only the network specialist can have spoken of the network.

### Audit chain

For any number of writers, attempts and records:

| Theorem | States |
|---|---|
| `ChainInvariant` | `Spec => []CInv` |
| `Verifies` | `Spec => []TrailVerifies` |
| `Recorded` | `Spec => HistoryIsRecorded` |
| `AlterationShows` | `Spec => []DamageShows` |
| `ReadsAgree` | `Spec => []ReadIsAccountedFor` |
| `WritesAudited` | `Spec => []AuditedWrites` |

`CInv` says of the document that it exists before any record does and that, until
somebody alters the trail, its counter and head are those of the trail; of a call about
to commit a transition, that it found the transition legal in the document it read.
That is enough because `Commit` compares the snapshot with the document: what was read
is still so. For an altered trail "does not verify" is itself inductive (`DInv`): the
next record is sealed on the incident's counter and head, and whatever disagreed before
is still in the trail. `HInv` says that what a reader has read is a beginning of the
trail, `WInv` that a call writes its document when it begins and its record only when
it ends.

### Response bodies

| Theorem | States |
|---|---|
| `HealthProofs!BodiesReadByLevels` | for every JSON value and every depth bound, the reader's verdict is the reading by levels: all of it within the bound, a statement somewhere, no denial and no contradiction anywhere |

The reader descends into a value with a number of levels left; the reading (`LevelsFrom`)
collects from the top what lies 0, 1, 2, ... levels below. `LevelsOfContents` is the
step between them: level `n` below a value is level `n - 1` below what it holds. With
it, `Judged` is proved for every value by induction on the levels left: what the reader
collects contains FALSE exactly when something within them denies health or lies too
deep, and otherwise is empty exactly when nothing there states anything. The lemmas before it say what a
key adds: a value under a health key answers for what is inside it, and for itself only
where nothing inside does.

A contradiction is read by levels too: any two pairs of one key that are not the same
assertion, where the reader compares each pair with the last one before it and lists the
key. `NeighboursTell` is the step between them: values along a key that agree each with
the next agree all. What is the same assertion is Python's business (`Plain`), on both
sides; objects that bring the parser's own key are included (`NotesDeny`).

`HealthAssumption` says that the JSON values are closed under what they hold, and
nothing of their number, size or depth.

### Policy gate and investigation

`InvestigationProofs` proves of the gate, for evidence of any length, order and provenance,
`AutoIsProven` (an allowed action has every required key asserted, and every trusted
assertion of it is the required boolean) and `OnlyRollbackRunsAlone` (what a single
agent can establish runs without a person only as the rollback of a registered
non-critical service). The argument is that "last write wins" with no conflict is
"all writes agree", which needs the comparison to keep a value's type.

Of an investigation it proves, for any traffic lists, revisions, bodies, timeouts and
faulty answers:

| Theorem | States | Under |
|---|---|---|
| `InvestigationTyped` | `[]TypeOK` | |
| `TrueEvidence` | `[]OnlyTrueEvidenceAuthorizes` | |
| `InTime` | `[]LateByOneCall` | `CallerWaitsLongEnough` |
| `ConfirmedOutage` | `[]OutageIsConfirmed` | |
| `ProbedPin` | `[]PinnedWasProbed` | |

`CallerWaitsLongEnough` is the deadline plus one call, and plus a probe with the pause
before it, against the caller's timeout: 52 s and 53 s against 60 s with the code's
constants. `InvestigationAssumption` says that Cloud Run keeps a tag for one revision.
`AnswersAssumption` says that a well revision answers with a body that says it is healthy
and a sick one with a body that does not, or not at all; "says" is the reading by levels,
so that the reader agrees is what `BodiesReadByLevels` shows and not what is assumed.
`HealthReading` is that theorem's formula, wherever the worker probes.

`TrueEvidence` combines `AutoIsProven` with both directions of what `Only` keeps: of an
answer of any length, what competence leaves out is of other keys. `LookInv` counts
the looks at the live service and whether a well revision answered. `EarlyInv` and
`FoundInv` follow the two probes by tag: nothing reads healthy before its probe, what
does was reached by it, and the list described is the list probed unless an operator
was there, in which case nothing is claimed.

### Only model-checked

- Liveness: `ComesToRest`, under fairness (the prover has no ENABLED and no leads-to).
- The three departures of section 3, which are refuted.

## 5. Not modelled, and why

- Identity (IAP, role bindings, service accounts) and HTTP: who may call is a
  deployment matter; the models start at handlers that were entered.
- Wording and logging, the web console and the Director, which forwards; the
  Coordinator's sentences on what was found.
- What a model answers and what a network or IAM probe finds: choices of
  `RouteIncident`, `Transcribe` and `ConsultSpecialist`.
- The verifier's settle loop: its verdict is a choice bounded by where the traffic
  is. In `Orchestrator` the service's health is a choice wherever it is read; what a
  body means is `HealthBody`.
- Tokenizing a body: `HealthBody` starts from words, so the regular expressions are
  modelled by what they tell apart.
- Hashes: fingerprints, execution ids and chain hashes are functions of what they
  cover, and collisions are not considered.
- `renew` and `claim_once` of the execution store, `append` of `audit/chain.py` and
  `screen_model_response` have no caller.
- A crash of the workflow between two transitions leaves the incident at EXECUTING,
  EXECUTED or VERIFYING, where no endpoint accepts it; nothing in the code sweeps
  such incidents, so nothing is stated about them beyond `NothingStranded`
  excusing a lost handler.

## 6. What could come next

The system's parts are modelled and checked as above, and their safety is proved. Left:

1. What a handover may claim of a reconcile's own writes: the code would have to remember
   more than one request for more than `UnchangedIsTrueOfUs` and `CreditIsEarned` to hold.
2. `Orchestrator`'s executor against `Executor` itself, not only both against
   `AuthorizedEffect`: a merged step is several of `Executor`'s.
3. The verifier's settle loop against asynchronous migration.
