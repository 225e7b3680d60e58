------------------------------ MODULE Executor ------------------------------
(***************************************************************************)
(* scf-executor (src/src/scf/app/executor.py): concurrent /execute and     *)
(* /terminalize requests over the execution plane, the authoritative plane *)
(* it may only read, and the one Cloud Run service it changes.             *)
(*                                                                         *)
(* A request is a process.  Every Firestore transaction, every read and    *)
(* every Cloud Run call is a step of its own, so requests interleave       *)
(* wherever the code awaits; a process that stops is a crashed instance.   *)
(*                                                                         *)
(* The service's resourceVersion is abstracted to what the precondition    *)
(* tells apart: a request's snapshot is fresh until anybody writes the     *)
(* service.  Cloud Run migrates traffic asynchronously, so what it serves  *)
(* (live) trails what was last written (desired).                          *)
(***************************************************************************)
EXTENDS ExecutionStore

CONSTANTS
  Decisions,       \* authoritative decisions; execution ids are theirs 1-1
  Fingerprints,    \* authorization fingerprints
  Incidents,
  Requests,        \* deliveries of POST /execute
  Closers,         \* deliveries of POST /terminalize
  Revisions,
  Split,           \* no revision holds 100% of the traffic
  NoSource,        \* expected_source_revision is absent
  AutoAllowed,     \* decisions the policy engine allowed by itself
  ApprovalRequired,\* decisions that need a human approval
  FingerprintOf,   \* [Decisions -> Fingerprints]
  IncidentOf,      \* [Decisions -> Incidents]
  Authorized,      \* authorized_target_revision, [Decisions -> Revisions]
  ExpectedSource,  \* expected_source_revision of each decision
  WorkerOf         \* the process that serves a request

Unbound == "unbound"
NoDecision == "no decision"

ASSUME ExecutorAssumption ==
  /\ Unbound \notin Decisions
  /\ NoDecision \notin Decisions
  /\ AutoAllowed \subseteq Decisions
  /\ ApprovalRequired \subseteq Decisions
  /\ AutoAllowed \cap ApprovalRequired = {}
  /\ Requests \cap Closers = {}
  /\ Split \notin Revisions
  /\ NoSource \notin Revisions
  /\ FingerprintOf \in [Decisions -> Fingerprints]
  /\ IncidentOf \in [Decisions -> Incidents]
  /\ Authorized \in [Decisions -> Revisions]
  /\ ExpectedSource \in [Decisions -> Revisions \cup {NoSource}]
  /\ WorkerOf \in [Requests -> Workers]

VARIABLES
  exec,      \* execution plane: the document of each execution
  bound,     \* execution plane: fingerprint -> the execution it is bound to
  receipt,   \* execution plane: the receipt each request filed
  closed,    \* authoritative plane: incidents RESOLVED or ESCALATED
  approval,  \* authoritative plane: the approval of each decision
  live,      \* Cloud Run: what holds 100% of the traffic
  desired,   \* Cloud Run: what the last accepted write asked for
  put,       \* Cloud Run: what became of each request's replaceService call
  pc,        \* where each request is
  dec,       \* the decision each request names
  epoch,     \* the lease epoch each request was issued
  seen,      \* the record each request's acquire returned
  fresh,     \* requests whose snapshot carries the current resourceVersion
  reply      \* what each request answered

planeVars   == <<exec, bound, receipt>>
controlVars == <<closed, approval>>
cloudVars   == <<live, desired, put, fresh>>
localVars   == <<pc, dec, epoch, seen, reply>>
vars == <<planeVars, controlVars, cloudVars, localVars>>

Callers == Requests \cup Closers

PRE_MUTATION_STATES   == OPEN_STATES

(* Mutants, each the definition after it with one plausible mistake: a     *)
(* recorded mutation looks unattempted; /terminalize accepts any open      *)
(* state.                                                                  *)
MutantAttemptedOnlyInFlight   == {"MUTATION_REQUESTED"}
MutantTerminalizesOpenStates  == OPEN_STATES

ATTEMPTED_STATES      == {"MUTATION_REQUESTED", "MUTATED"}
TERMINALIZABLE_STATES == {"MUTATED"}

(* EXPIRED: it ran out before anybody answered.  LAPSED: it was approved,  *)
(* and ran out afterwards.                                                 *)
ApprovalStates == {"PENDING", "APPROVED", "REJECTED", "EXPIRED", "LAPSED"}

PutStates == {"none", "inflight", "accepted", "refused", "lost"}

Receipts == {"none", "SUCCEEDED", "OUTCOME_UNKNOWN"}

ExecuteSteps == {"validate", "bind", "acquire", "observe", "reconcile",
                 "stale", "precondition", "reread", "snapshot", "request",
                 "send", "await", "rewind", "file_unknown", "release",
                 "record", "retake", "record_again", "file"}

TerminalizeSteps == {"read", "probe", "close"}

Steps == {"idle", "done"} \cup ExecuteSteps \cup TerminalizeSteps

Replies == {"none", "INCIDENT_CLOSED", "NOT_AUTHORIZED",
            "DUPLICATE_AUTHORIZATION", "ALREADY_FINISHED", "HELD_BY_OTHER",
            "FENCED", "RECONCILED", "RECONCILED_PREDATES",
            "MUTATION_DID_NOT_HOLD", "STALE_EVIDENCE",
            "TARGET_NO_LONGER_HEALTHY", "CONFLICT_RETRYABLE", "CONFLICT",
            "OUTCOME_UNKNOWN", "MUTATED", "MUTATED_FENCED",
            "NOT_MUTATED", "DOES_NOT_MATCH", "VERIFIED", "LOST_RACE"}

(* A request names a decision, and may call Cloud Run, once it left idle.  *)
LocalTypeOK ==
  /\ pc \in [Callers -> Steps]
  /\ dec \in [Callers -> Decisions \cup {NoDecision}]
  /\ \A c \in Callers : pc[c] # "idle" => dec[c] \in Decisions
  /\ \A r \in Requests : pc[r] = "idle" => put[r] = "none"
  /\ reply \in [Callers -> Replies]

TypeOK ==
  /\ exec \in [Decisions -> Record]
  /\ bound \in [Fingerprints -> Decisions \cup {Unbound}]
  /\ receipt \in [Requests -> Receipts]
  /\ closed \subseteq Incidents
  /\ approval \in [ApprovalRequired -> ApprovalStates]
  /\ live \in Revisions \cup {Split}
  /\ desired \in Revisions \cup {Split}
  /\ put \in [Requests -> PutStates]
  /\ fresh \subseteq Requests
  /\ epoch \in [Requests -> Nat]
  /\ seen \in [Requests -> Record]
  /\ LocalTypeOK

Init ==
  /\ exec = [d \in Decisions |-> NoRecord]
  /\ bound = [f \in Fingerprints |-> Unbound]
  /\ receipt = [r \in Requests |-> "none"]
  /\ closed = {}
  /\ approval = [d \in ApprovalRequired |-> "PENDING"]
  /\ live \in Revisions \cup {Split}
  /\ desired = live
  /\ put = [r \in Requests |-> "none"]
  /\ fresh = {}
  /\ pc = [c \in Callers |-> "idle"]
  /\ dec = [c \in Callers |-> NoDecision]
  /\ epoch = [r \in Requests |-> 0]
  /\ seen = [r \in Requests |-> NoRecord]
  /\ reply = [c \in Callers |-> "none"]

-----------------------------------------------------------------------------
(* Local control of a request.                                             *)

At(c, step)   == pc[c] = step
Goto(c, step) == pc' = [pc EXCEPT ![c] = step] /\ UNCHANGED reply

(* Answer the caller.                                                      *)
Answer(c, answer) ==
  /\ pc' = [pc EXCEPT ![c] = "done"]
  /\ reply' = [reply EXCEPT ![c] = answer]

(* _refuse after release, and the refusal a release is followed by.        *)
ReleaseThen(r, answer) ==
  /\ pc' = [pc EXCEPT ![r] = "release"]
  /\ reply' = [reply EXCEPT ![r] = answer]

Doc(r) == exec[dec[r]]

(* The closure _advance of a request, under its own worker and epoch.      *)
Outcome(r, expect) == AdvanceOutcome(Doc(r), WorkerOf[r], epoch[r], expect)

Advances(r, expect, state) ==
  /\ Outcome(r, expect) = "ADVANCED"
  /\ exec' = [exec EXCEPT ![dec[r]] = AdvancedRecord(@, state, @.predates)]

Fenced(r, expect) ==
  /\ Outcome(r, expect) # "ADVANCED"
  /\ UNCHANGED exec

(* store.acquire by a request that may take the execution: a new epoch.    *)
Takes(r) ==
  /\ Takeable(Doc(r))
  /\ exec' = [exec EXCEPT ![dec[r]] = AcquiredRecord(@, WorkerOf[r])]
  /\ epoch' = [epoch EXCEPT ![r] = Doc(r).epoch + 1]

(* Mutant: the states that refuse are listed, and running out unanswered is*)
(* forgotten.                                                              *)
MutantRefusesSomeStates(d) ==
  \/ d \in AutoAllowed
  \/ d \in ApprovalRequired /\ approval[d] \notin {"PENDING", "REJECTED", "LAPSED"}

(* _validate: an AUTO_ALLOWED decision, or an approval that is APPROVED    *)
(* and has not expired.                                                    *)
IsAuthorized(d) ==
  \/ d \in AutoAllowed
  \/ d \in ApprovalRequired /\ approval[d] = "APPROVED"

-----------------------------------------------------------------------------
(* POST /execute                                                           *)

(* The request arrives: get_decision, then the incident's status.          *)
ReceiveExecute(r, d) ==
  /\ At(r, "idle")
  /\ dec' = [dec EXCEPT ![r] = d]
  /\ IF IncidentOf[d] \in closed THEN Answer(r, "INCIDENT_CLOSED")
                                 ELSE Goto(r, "validate")
  /\ UNCHANGED <<planeVars, controlVars, cloudVars, epoch, seen>>

Validate(r) ==
  /\ At(r, "validate")
  /\ IF IsAuthorized(dec[r]) THEN Goto(r, "bind")
                             ELSE Answer(r, "NOT_AUTHORIZED")
  /\ UNCHANGED <<planeVars, controlVars, cloudVars, dec, epoch, seen>>

(* Mutant: the binding is overwritten by whoever comes last.               *)
MutantBindsLast(r) ==
  /\ At(r, "bind")
  /\ bound' = [bound EXCEPT ![FingerprintOf[dec[r]]] = dec[r]]
  /\ Goto(r, "acquire")
  /\ UNCHANGED <<exec, receipt, controlVars, cloudVars, dec, epoch, seen>>

(* bind_authorization: the first execution bound to a fingerprint keeps it.*)
Bind(r) ==
  LET f == FingerprintOf[dec[r]]
  IN  /\ At(r, "bind")
      /\ \/ /\ bound[f] \in {Unbound, dec[r]}
            /\ bound' = [bound EXCEPT ![f] = dec[r]]
            /\ Goto(r, "acquire")
         \/ /\ bound[f] \notin {Unbound, dec[r]}
            /\ Answer(r, "DUPLICATE_AUTHORIZATION")
            /\ UNCHANGED bound
      /\ UNCHANGED <<exec, receipt, controlVars, cloudVars, dec, epoch, seen>>

Acquire(r) ==
  /\ At(r, "acquire")
  /\ \/ /\ Takes(r)
        /\ seen' = [seen EXCEPT ![r] = AcquiredRecord(Doc(r), WorkerOf[r])]
        /\ Goto(r, "observe")
     \/ /\ ~Takeable(Doc(r))
        /\ Answer(r, AcquireOutcome(Doc(r)))
        /\ UNCHANGED <<exec, epoch, seen>>
  /\ UNCHANGED <<bound, receipt, controlVars, cloudVars, dec>>

Attempted(r) == seen[r].state \in ATTEMPTED_STATES

SourceMoved(d) == ExpectedSource[d] \notin {NoSource, live}

(* _observe, and the case analysis on what it saw and on the record the    *)
(* acquire returned.  Whether the candidate still answers on its tag is    *)
(* the outside world's: both answers are possible at any time.             *)
Observe(r) ==
  LET d == dec[r]
  IN  /\ At(r, "observe")
      /\ \/ live = Authorized[d] /\ Goto(r, "reconcile")
         \/ /\ live # Authorized[d] /\ Attempted(r)
            /\ ReleaseThen(r, "MUTATION_DID_NOT_HOLD")
         \/ /\ live # Authorized[d] /\ ~Attempted(r) /\ SourceMoved(d)
            /\ Goto(r, "stale")
         \/ /\ live # Authorized[d] /\ ~Attempted(r) /\ ~SourceMoved(d)
            /\ \/ Goto(r, "precondition")
               \/ ReleaseThen(r, "TARGET_NO_LONGER_HEALTHY")
      /\ UNCHANGED <<planeVars, controlVars, cloudVars, dec, epoch, seen>>

(* Mutant: only a recorded mutation counts as this execution's own.        *)
MutantDisclaimsInFlight(r) == seen[r].state # "MUTATED"

(* CASE B: the authorized revision is already live.  An execution that had *)
(* attempted nothing when it was acquired disclaims the effect for good.   *)
Disclaims(r) == seen[r].predates \/ ~Attempted(r)

Reconcile(r) ==
  /\ At(r, "reconcile")
  /\ \/ /\ Outcome(r, PRE_MUTATION_STATES) = "ADVANCED"
        /\ exec' = [exec EXCEPT ![dec[r]] =
                      AdvancedRecord(@, "MUTATED", Disclaims(r))]
        /\ Answer(r, IF Disclaims(r) THEN "RECONCILED_PREDATES"
                                     ELSE "RECONCILED")
     \/ Fenced(r, PRE_MUTATION_STATES) /\ Answer(r, "FENCED")
  /\ UNCHANGED <<bound, receipt, controlVars, cloudVars, dec, epoch, seen>>

(* CASE C: neither the source nor the target is live.  The execution ends  *)
(* STALE; the outcome of the write is not looked at.                       *)
FailStale(r) ==
  /\ At(r, "stale")
  /\ \/ Advances(r, PRE_MUTATION_STATES, "STALE")
     \/ Fenced(r, PRE_MUTATION_STATES)
  /\ Answer(r, "STALE_EVIDENCE")
  /\ UNCHANGED <<bound, receipt, controlVars, cloudVars, dec, epoch, seen>>

(* The final ownership check, before the read that yields the snapshot.    *)
CheckPrecondition(r) ==
  /\ At(r, "precondition")
  /\ \/ /\ Advances(r, PRE_MUTATION_STATES, "PRECONDITION_CHECKED")
        /\ Goto(r, "reread")
     \/ Fenced(r, PRE_MUTATION_STATES) /\ Answer(r, "FENCED")
  /\ UNCHANGED <<bound, receipt, controlVars, cloudVars, dec, epoch, seen>>

(* Control-plane closure, read again at the last moment.                   *)
RereadIncident(r) ==
  /\ At(r, "reread")
  /\ IF IncidentOf[dec[r]] \in closed
     THEN ReleaseThen(r, "INCIDENT_CLOSED")
     ELSE Goto(r, "snapshot")
  /\ UNCHANGED <<planeVars, controlVars, cloudVars, dec, epoch, seen>>

ReadService(r) ==
  /\ At(r, "snapshot")
  /\ fresh' = fresh \cup {r}
  /\ Goto(r, "request")
  /\ UNCHANGED <<planeVars, controlVars, live, desired, put, dec, epoch, seen>>

(* MUTATION_REQUESTED is written before the call it announces.             *)
RequestMutation(r) ==
  /\ At(r, "request")
  /\ \/ /\ Advances(r, {"PRECONDITION_CHECKED"}, "MUTATION_REQUESTED")
        /\ Goto(r, "send")
     \/ Fenced(r, {"PRECONDITION_CHECKED"}) /\ Answer(r, "FENCED")
  /\ UNCHANGED <<bound, receipt, controlVars, cloudVars, dec, epoch, seen>>

SendPut(r) ==
  /\ At(r, "send")
  /\ put' = [put EXCEPT ![r] = "inflight"]
  /\ Goto(r, "await")
  /\ UNCHANGED <<planeVars, controlVars, live, desired, fresh, dec, epoch, seen>>

(* Mutant: every error is taken for a 409.                                 *)
MutantAnyErrorIsConflict(r) ==
  /\ At(r, "await")
  /\ \/ put[r] = "accepted" /\ Goto(r, "record")
     \/ Goto(r, "rewind")
  /\ UNCHANGED <<planeVars, controlVars, cloudVars, dec, epoch, seen>>

(* What the call answers: 409 only when Cloud Run refused it, 2xx only when*)
(* it was applied, and another error whatever became of it.                *)
PutAnswers(r) ==
  /\ At(r, "await")
  /\ \/ put[r] = "accepted" /\ Goto(r, "record")
     \/ put[r] = "refused" /\ Goto(r, "rewind")
     \/ put[r] # "refused" /\ Goto(r, "file_unknown")
  /\ UNCHANGED <<planeVars, controlVars, cloudVars, dec, epoch, seen>>

(* A 409 proves nothing was applied: the record is wound back, and the     *)
(* lease is released only if that write succeeded.                         *)
Rewind(r) ==
  /\ At(r, "rewind")
  /\ \/ /\ Advances(r, {"MUTATION_REQUESTED"}, "PRECONDITION_CHECKED")
        /\ ReleaseThen(r, "CONFLICT_RETRYABLE")
     \/ Fenced(r, {"MUTATION_REQUESTED"}) /\ Answer(r, "CONFLICT")
  /\ UNCHANGED <<bound, receipt, controlVars, cloudVars, dec, epoch, seen>>

(* Any other error leaves MUTATION_REQUESTED standing, and a receipt.      *)
FileUnknownReceipt(r) ==
  /\ At(r, "file_unknown")
  /\ receipt' = [receipt EXCEPT ![r] = "OUTCOME_UNKNOWN"]
  /\ ReleaseThen(r, "OUTCOME_UNKNOWN")
  /\ UNCHANGED <<exec, bound, controlVars, cloudVars, dec, epoch, seen>>

(* Mutant: the request starts over once it has released its lease.         *)
MutantRetriesInPlace(r) ==
  /\ At(r, "release")
  /\ exec' = IF OwnedOutcome(Doc(r), WorkerOf[r], epoch[r]) = "ADVANCED"
             THEN [exec EXCEPT ![dec[r]] = LapsedRecord(@)]
             ELSE exec
  /\ Goto(r, "idle")
  /\ UNCHANGED <<bound, receipt, controlVars, cloudVars, dec, epoch, seen>>

(* store.release, its outcome unread, then the refusal already decided.    *)
Release(r) ==
  /\ At(r, "release")
  /\ exec' = IF OwnedOutcome(Doc(r), WorkerOf[r], epoch[r]) = "ADVANCED"
             THEN [exec EXCEPT ![dec[r]] = LapsedRecord(@)]
             ELSE exec
  /\ Answer(r, reply[r])
  /\ UNCHANGED <<bound, receipt, controlVars, cloudVars, dec, epoch, seen>>

(* Mutant: a fenced request files its receipt all the same.                *)
MutantFilesWhenFenced(r) ==
  /\ At(r, "record")
  /\ \/ Advances(r, {"MUTATION_REQUESTED"}, "MUTATED")
     \/ Fenced(r, {"MUTATION_REQUESTED"})
  /\ Goto(r, "file")
  /\ UNCHANGED <<bound, receipt, controlVars, cloudVars, dec, epoch, seen>>

(* Record the accepted mutation.  A lease that merely lapsed is taken back;*)
(* a newer owner means the mutation is reported without a receipt.         *)
RecordMutation(r) ==
  /\ At(r, "record")
  /\ \/ /\ Advances(r, {"MUTATION_REQUESTED"}, "MUTATED")
        /\ Goto(r, "file")
     \/ /\ Fenced(r, {"MUTATION_REQUESTED"})
        /\ IF Outcome(r, {"MUTATION_REQUESTED"}) = "LEASE_LOST"
           THEN Goto(r, "retake")
           ELSE Answer(r, "MUTATED_FENCED")
  /\ UNCHANGED <<bound, receipt, controlVars, cloudVars, dec, epoch, seen>>

RetakeLease(r) ==
  /\ At(r, "retake")
  /\ \/ Takes(r) /\ Goto(r, "record_again")
     \/ /\ ~Takeable(Doc(r))
        /\ Answer(r, "MUTATED_FENCED")
        /\ UNCHANGED <<exec, epoch>>
  /\ UNCHANGED <<bound, receipt, controlVars, cloudVars, dec, seen>>

RecordAgain(r) ==
  /\ At(r, "record_again")
  /\ \/ /\ Advances(r, {"MUTATION_REQUESTED"}, "MUTATED")
        /\ Goto(r, "file")
     \/ Fenced(r, {"MUTATION_REQUESTED"}) /\ Answer(r, "MUTATED_FENCED")
  /\ UNCHANGED <<bound, receipt, controlVars, cloudVars, dec, epoch, seen>>

FileReceipt(r) ==
  /\ At(r, "file")
  /\ receipt' = [receipt EXCEPT ![r] = "SUCCEEDED"]
  /\ Answer(r, "MUTATED")
  /\ UNCHANGED <<exec, bound, controlVars, cloudVars, dec, epoch, seen>>

(* The instance stops, or a call raises, anywhere in the handler: the      *)
(* caller gets no answer and whatever was written or sent stays.           *)
Crash(r) ==
  /\ pc[r] \in ExecuteSteps
  /\ Answer(r, "none")
  /\ UNCHANGED <<planeVars, controlVars, cloudVars, dec, epoch, seen>>

-----------------------------------------------------------------------------
(* POST /terminalize: no incident check and no lease, only the stored      *)
(* decision, the stored state and a fresh observation.                     *)

ReceiveTerminalize(k, d) ==
  /\ At(k, "idle")
  /\ dec' = [dec EXCEPT ![k] = d]
  /\ IF IsAuthorized(d) THEN Goto(k, "read") ELSE Answer(k, "NOT_AUTHORIZED")
  /\ UNCHANGED <<planeVars, controlVars, cloudVars, epoch, seen>>

ReadExecution(k) ==
  /\ At(k, "read")
  /\ \/ Doc(k).state = "VERIFIED" /\ Answer(k, "VERIFIED")
     \/ Doc(k).state \in TERMINALIZABLE_STATES /\ Goto(k, "probe")
     \/ /\ Doc(k).state \notin TERMINALIZABLE_STATES \cup {"VERIFIED"}
        /\ Answer(k, "NOT_MUTATED")
  /\ UNCHANGED <<planeVars, controlVars, cloudVars, dec, epoch, seen>>

(* Exclusive allocation is read from the service; its health is the        *)
(* outside world's.                                                        *)
ProbeService(k) ==
  /\ At(k, "probe")
  /\ \/ live = Authorized[dec[k]] /\ Goto(k, "close")
     \/ Answer(k, "DOES_NOT_MATCH")
  /\ UNCHANGED <<planeVars, controlVars, cloudVars, dec, epoch, seen>>

CloseExecution(k) ==
  LET outcome == TerminalizeOutcome(Doc(k), TERMINALIZABLE_STATES)
  IN  /\ At(k, "close")
      /\ exec' = IF outcome = "ADVANCED"
                 THEN [exec EXCEPT ![dec[k]] =
                         AdvancedRecord(@, "VERIFIED", @.predates)]
                 ELSE exec
      /\ Answer(k, IF outcome \in {"ADVANCED", "ALREADY_TERMINAL"}
                   THEN "VERIFIED" ELSE "LOST_RACE")
      /\ UNCHANGED <<bound, receipt, controlVars, cloudVars, dec, epoch, seen>>

-----------------------------------------------------------------------------
(* Cloud Run, the clock, the approver, the orchestrator and the operators. *)

(* replaceService under resourceVersion: applied when the service has not  *)
(* moved since the snapshot, refused with 409 otherwise.                   *)
ApplyPut(r) ==
  /\ put[r] = "inflight"
  /\ r \in fresh
  /\ put' = [put EXCEPT ![r] = "accepted"]
  /\ desired' = Authorized[dec[r]]
  /\ fresh' = {}
  /\ UNCHANGED <<planeVars, controlVars, live, localVars>>

RefusePut(r) ==
  /\ put[r] = "inflight"
  /\ r \notin fresh
  /\ put' = [put EXCEPT ![r] = "refused"]
  /\ UNCHANGED <<planeVars, controlVars, live, desired, fresh, localVars>>

LosePut(r) ==
  /\ put[r] = "inflight"
  /\ put' = [put EXCEPT ![r] = "lost"]
  /\ UNCHANGED <<planeVars, controlVars, live, desired, fresh, localVars>>

MigrateTraffic ==
  /\ live # desired
  /\ live' = desired
  /\ UNCHANGED <<planeVars, controlVars, desired, put, fresh, localVars>>

(* An operator or a competing deploy writes the service.                   *)
OperatorChange(v) ==
  /\ desired # v
  /\ desired' = v
  /\ fresh' = {}
  /\ UNCHANGED <<planeVars, controlVars, live, put, localVars>>

LeaseLapses(d) ==
  /\ exec[d].lease = "live"
  /\ exec' = [exec EXCEPT ![d] = LapsedRecord(@)]
  /\ UNCHANGED <<bound, receipt, controlVars, cloudVars, localVars>>

(* decide_approval: the first answer to a pending approval is the one that *)
(* stands.                                                                 *)
Decided(d, answer) ==
  /\ approval[d] = "PENDING"
  /\ approval' = [approval EXCEPT ![d] = answer]
  /\ UNCHANGED <<planeVars, closed, cloudVars, localVars>>

Approve(d) == Decided(d, "APPROVED")

Reject(d) == Decided(d, "REJECTED")

(* expires_at passes, answered or not.                                     *)
ApprovalLapses(d) ==
  /\ approval[d] \in {"PENDING", "APPROVED"}
  /\ approval' = [approval EXCEPT ![d] =
                    IF @ = "PENDING" THEN "EXPIRED" ELSE "LAPSED"]
  /\ UNCHANGED <<planeVars, closed, cloudVars, localVars>>

CloseIncident(i) ==
  /\ i \notin closed
  /\ closed' = closed \cup {i}
  /\ UNCHANGED <<planeVars, approval, cloudVars, localVars>>

-----------------------------------------------------------------------------
ExecuteStep(r) ==
  \/ \E d \in Decisions : ReceiveExecute(r, d)
  \/ Validate(r) \/ Bind(r) \/ Acquire(r) \/ Observe(r)
  \/ Reconcile(r) \/ FailStale(r) \/ CheckPrecondition(r)
  \/ RereadIncident(r) \/ ReadService(r) \/ RequestMutation(r)
  \/ SendPut(r) \/ PutAnswers(r) \/ Rewind(r) \/ FileUnknownReceipt(r)
  \/ Release(r) \/ RecordMutation(r) \/ RetakeLease(r) \/ RecordAgain(r)
  \/ FileReceipt(r)

TerminalizeStep(k) ==
  \/ \E d \in Decisions : ReceiveTerminalize(k, d)
  \/ ReadExecution(k) \/ ProbeService(k) \/ CloseExecution(k)

CloudRunStep(r) == ApplyPut(r) \/ RefusePut(r) \/ LosePut(r)

Environment ==
  \/ MigrateTraffic
  \/ \E v \in Revisions \cup {Split} : OperatorChange(v)
  \/ \E d \in Decisions : LeaseLapses(d)
  \/ \E d \in ApprovalRequired : Approve(d) \/ Reject(d) \/ ApprovalLapses(d)
  \/ \E i \in Incidents : CloseIncident(i)

Next ==
  \/ \E r \in Requests : ExecuteStep(r) \/ Crash(r) \/ CloudRunStep(r)
  \/ \E k \in Closers : TerminalizeStep(k)
  \/ Environment

Spec == Init /\ [][Next]_vars

-----------------------------------------------------------------------------
(* Properties.                                                             *)

(* Calls that changed the service, or still may.                           *)
MayTakeEffect(r) == put[r] \in {"inflight", "accepted"}

SameAuthorization(r, s) ==
  /\ dec[r] # NoDecision /\ dec[s] # NoDecision
  /\ FingerprintOf[dec[r]] = FingerprintOf[dec[s]]

(* One authorization changes the infrastructure at most once: however many *)
(* requests, workers and re-issued decisions carry it, and whichever of    *)
(* them crash, lose a lease or lose an answer, at most one replaceService  *)
(* call of theirs is applied or can still be (executor.py 111-121, 622).   *)
AtMostOneEffect ==
  \A r, s \in Requests :
    /\ MayTakeEffect(r) /\ MayTakeEffect(s)
    /\ SameAuthorization(r, s)
    => r = s

(* A record that does not say MUTATION_REQUESTED or later is proof that no *)
(* call of its execution was applied or is under way, so a takeover or a   *)
(* STALE closure that trusts it forgets nothing (executor.py 784-846).     *)
UnattemptedIsUntouched ==
  \A r \in Requests :
    MayTakeEffect(r) => exec[dec[r]].state \in ATTEMPTED_STATES \cup {"VERIFIED"}

(* effect_predates_execution is a disclaimer: once recorded, no call of    *)
(* that execution has been or will be applied (executor.py 575-601).       *)
DisclaimedIsNotOurs ==
  \A r \in Requests : MayTakeEffect(r) => ~exec[dec[r]].predates

(* No SUCCEEDED receipt is on file for an execution whose record disclaims *)
(* the effect or does not say it was mutated (executor.py 952-973).        *)
ReceiptMatchesRecord ==
  \A r \in Requests :
    receipt[r] = "SUCCEEDED" =>
      /\ exec[dec[r]].state \in {"MUTATED", "VERIFIED"}
      /\ ~exec[dec[r]].predates

(* A lease epoch of an execution is issued to one request only, so a       *)
(* request that was overtaken can never pass for its successor, not even   *)
(* one served by the same process (execution_store.py 181-204).            *)
EpochsAreExclusive ==
  \A r, s \in Requests :
    /\ dec[r] = dec[s] /\ epoch[r] = epoch[s] /\ epoch[r] > 0
    => r = s

(* Nothing reaches Cloud Run for a decision no policy allowed, unless its  *)
(* approval was given: not while it is pending, not after a rejection and  *)
(* not after it ran out unanswered.  An approval may run out while the     *)
(* request it let through is on its way (executor.py 209-224, 247-283).    *)
NoUnapprovedMutation ==
  \A r \in Requests :
    put[r] # "none" =>
      \/ dec[r] \in AutoAllowed
      \/ dec[r] \in ApprovalRequired /\ approval[dec[r]] \in {"APPROVED", "LAPSED"}

(* A terminalization reported as verified is one: ALREADY_TERMINAL is      *)
(* answered as verified without looking at which terminal state it is      *)
(* (executor.py 1127-1130).                                                *)
VerifiedAnswerIsTrue ==
  \A k \in Closers :
    reply[k] = "VERIFIED" => exec[dec[k]].state = "VERIFIED"

(* A finished execution is never reopened, and a recorded mutation is never*)
(* un-recorded nor changes whose it was: a takeover that re-checks         *)
(* preconditions, finds them stale or reconciles cannot wind MUTATED back, *)
(* although MUTATED is among the states its writes expect                  *)
(* (executor.py 101-109, 592-604).                                        *)
NeverUndone ==
  [][\A d \in Decisions :
       /\ exec[d].state \in TERMINAL_STATES => exec'[d].state = exec[d].state
       /\ exec[d].state = "MUTATED" => exec'[d].state \in {"MUTATED", "VERIFIED"}
       /\ exec[d].state \in {"MUTATED"} \cup TERMINAL_STATES
            => exec'[d].predates = exec[d].predates]_vars

(* An execution whose every call Google refused does not take credit for   *)
(* the effect when somebody else then produces it (executor.py 582-586,    *)
(* main.py 1593-1596).  The code does not keep this when the rewind after  *)
(* the refusal is lost: see the README, "Divergences without a run".       *)
NoCreditForRefusedWrites ==
  \A d \in Decisions :
    LET calls == {put[r] : r \in {s \in Requests : dec[s] = d}} \ {"none"}
    IN  calls = {"refused"} =>
          \/ exec[d].state \notin {"MUTATED", "VERIFIED"}
          \/ exec[d].predates

-----------------------------------------------------------------------------
(* The executor implements AuthorizedEffect.                               *)

PhaseOf(rec) ==
  CASE rec.state \in {"ABSENT", "CLAIMED", "PRECONDITION_CHECKED"} -> "open"
    [] rec.state = "MUTATION_REQUESTED" -> "attempted"
    [] rec.state = "MUTATED"  -> IF rec.predates THEN "foreign" ELSE "mutated"
    [] rec.state = "VERIFIED" -> IF rec.predates THEN "verified_foreign"
                                                 ELSE "verified_mutated"
    [] rec.state \in {"FAILED", "STALE"} -> "stale"

Applied(f) ==
  \E r \in Requests : put[r] = "accepted" /\ FingerprintOf[dec[r]] = f

Effect == INSTANCE AuthorizedEffect WITH
  Executions      <- Decisions,
  Authorizations  <- Fingerprints,
  AuthorizationOf <- FingerprintOf,
  phase   <- [d \in Decisions |-> PhaseOf(exec[d])],
  applied <- [f \in Fingerprints |-> Applied(f)]

(* Seen from outside, every step of every request, crash, takeover and late*)
(* answer is one move of the authorization's life, or none: the change is  *)
(* applied once, withdrawn only on proof, and its provenance never altered.*)
SpendsAuthorizationOnce == Effect!Spec

-----------------------------------------------------------------------------
(* The inductive invariant behind the properties.                          *)

BoundSteps == ExecuteSteps \ {"validate", "bind"}

(* Between the MUTATION_REQUESTED write and the end of what it announced.  *)
Armed(r) == pc[r] \in {"send", "await", "rewind"} \/ MayTakeEffect(r)

BeforeCall == {"idle", "validate", "bind", "acquire", "observe", "reconcile",
               "stale", "precondition", "reread", "snapshot", "request", "send"}

(* What became of a request's call, and its epoch, follow its progress.    *)
RequestInv ==
  \A r \in Requests :
    /\ pc[r] \in BeforeCall => put[r] = "none"
    /\ pc[r] = "rewind" => put[r] = "refused"
    /\ pc[r] \in {"record", "retake", "record_again", "file"}
         => put[r] = "accepted"
    /\ pc[r] \in {"idle", "validate", "bind", "acquire"} => epoch[r] = 0

(* Whoever got past the binding, or called Cloud Run, holds the binding.   *)
BindingInv ==
  \A r \in Requests :
    pc[r] \in BoundSteps \/ put[r] # "none"
      => bound[FingerprintOf[dec[r]]] = dec[r]

(* The document's epoch is the last one issued, and each was issued once.  *)
EpochInv ==
  /\ EpochsAreExclusive
  /\ \A r \in Requests :
       /\ epoch[r] > 0 => epoch[r] <= exec[dec[r]].epoch
       /\ pc[r] \in BoundSteps \ {"acquire"} => epoch[r] > 0

(* Until a request that still holds the current epoch writes, the record is*)
(* the one its acquire returned.                                           *)
Deciding(r) == pc[r] \in {"observe", "reconcile", "stale", "precondition"}

SeenInv ==
  \A r \in Requests :
    /\ Deciding(r) /\ epoch[r] = exec[dec[r]].epoch
                   /\ exec[dec[r]].state \in OPEN_STATES
         => /\ exec[dec[r]].state = seen[r].state
            /\ exec[dec[r]].predates = seen[r].predates
    /\ pc[r] \in {"stale", "precondition"} => ~Attempted(r)

(* One armed request per execution, and only under a record that says so.  *)
EffectInv ==
  \A r \in Requests : Armed(r) =>
    /\ exec[dec[r]].state \in ATTEMPTED_STATES \cup {"VERIFIED"}
    /\ ~exec[dec[r]].predates
    /\ \A s \in Requests : Armed(s) /\ dec[s] = dec[r] => s = r

(* A disclaimer is written with, and never survives, the MUTATED state.    *)
DisclaimInv ==
  \A d \in Decisions :
    exec[d].predates => exec[d].state \in {"MUTATED", "VERIFIED"}

(* A request that is recording its mutation, or has filed the receipt.     *)
ReceiptInv ==
  \A r \in Requests :
    pc[r] = "file" \/ receipt[r] = "SUCCEEDED" =>
      put[r] = "accepted" /\ exec[dec[r]].state \in {"MUTATED", "VERIFIED"}

IInv == /\ TypeOK /\ RequestInv /\ BindingInv /\ EpochInv
        /\ SeenInv /\ EffectInv /\ DisclaimInv /\ ReceiptInv
=============================================================================
