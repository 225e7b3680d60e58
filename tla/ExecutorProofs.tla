--------------------------- MODULE ExecutorProofs ---------------------------
(* Proofs about Executor, for any decisions, requests, workers and service.*)
EXTENDS Executor, TLAPS

(* What a successful advance tells its caller about the document.          *)
LEMMA AdvanceFacts ==
  ASSUME NEW rec \in Record, NEW owner, NEW e, NEW expect,
         AdvanceOutcome(rec, owner, e, expect) = "ADVANCED"
  PROVE  /\ rec.state \in OPEN_STATES /\ rec.state \in expect
         /\ rec.owner = owner /\ rec.epoch = e
BY DEF AdvanceOutcome, OwnedOutcome, Owns, Record, OPEN_STATES, TERMINAL_STATES

(* Only an absent or open execution can be taken.                          *)
LEMMA TakeFacts ==
  ASSUME NEW rec \in Record, Takeable(rec)
  PROVE  rec.state \in OPEN_STATES \cup {"ABSENT"}
BY DEF Takeable, AcquireOutcome, Record, OPEN_STATES, TERMINAL_STATES

(* The documents the transactions write are documents.                     *)
LEMMA AcquiredType ==
  ASSUME NEW rec \in Record, NEW w \in Workers
  PROVE  AcquiredRecord(rec, w) \in Record
BY DEF AcquiredRecord, Record, Leases, OPEN_STATES, TERMINAL_STATES

(* The document of a lapsed lease is a document.                           *)
LEMMA LapsedType ==
  ASSUME NEW rec \in Record
  PROVE  LapsedRecord(rec) \in Record
BY DEF LapsedRecord, Record, Leases

(* So is the one an advance writes.                                        *)
LEMMA AdvancedType ==
  ASSUME NEW rec \in Record, NEW s \in OPEN_STATES \cup TERMINAL_STATES,
         NEW b \in BOOLEAN
  PROVE  AdvancedRecord(rec, s, b) \in Record
BY DEF AdvancedRecord, Record, Leases, OPEN_STATES, TERMINAL_STATES

-----------------------------------------------------------------------------
(* Type correctness.                                                       *)

(* The initial state is well typed.                                        *)
LEMMA InitTypeOK == Init => TypeOK
BY ExecutorAssumption
   DEF Init, TypeOK, LocalTypeOK, Callers, NoRecord, Record, Leases, Receipts, PutStates,
       Steps, Replies, ApprovalStates

(* A request that has left idle moves on and may answer.                   *)
LEMMA LocalType ==
  ASSUME TypeOK, NEW c \in Callers, pc[c] # "idle", UNCHANGED dec,
         \A q \in Requests \ {c} : put'[q] = put[q],
         \E s \in Steps \ {"idle"} : pc' = [pc EXCEPT ![c] = s],
         \/ UNCHANGED reply
         \/ \E a \in Replies : reply' = [reply EXCEPT ![c] = a]
  PROVE  LocalTypeOK'
<1>1. PICK s \in Steps \ {"idle"} : pc' = [pc EXCEPT ![c] = s]
  OBVIOUS
<1>2. /\ pc' \in [Callers -> Steps]
      /\ dec' \in [Callers -> Decisions \cup {NoDecision}]
      /\ reply' \in [Callers -> Replies]
  BY <1>1 DEF TypeOK, LocalTypeOK
<1>3. \A b \in Callers : pc'[b] # "idle" => dec'[b] \in Decisions
  BY <1>1 DEF TypeOK, LocalTypeOK
<1>4. \A r \in Requests : pc'[r] = "idle" => put'[r] = "none"
  BY <1>1 DEF TypeOK, LocalTypeOK, Callers
<1>5. QED
  BY <1>2, <1>3, <1>4 DEF LocalTypeOK

(* A successful or fenced advance leaves documents.                        *)
LEMMA AdvanceType ==
  ASSUME TypeOK, NEW r \in Requests, pc[r] # "idle",
         NEW expect, NEW s \in OPEN_STATES \cup TERMINAL_STATES,
         Advances(r, expect, s) \/ Fenced(r, expect)
  PROVE  exec' \in [Decisions -> Record]
BY AdvancedType DEF TypeOK, LocalTypeOK, Callers, Advances, Fenced, Doc, Record

(* A refused acquire names one of two reasons.                             *)
LEMMA AnswerNames ==
  ASSUME NEW rec \in Record, ~Takeable(rec)
  PROVE  AcquireOutcome(rec) \in {"ALREADY_FINISHED", "HELD_BY_OTHER"}
BY DEF Takeable, AcquireOutcome, Record, OPEN_STATES, TERMINAL_STATES

(* Taking an execution leaves documents and epochs.                        *)
LEMMA TakesType ==
  ASSUME TypeOK, NEW r \in Requests, pc[r] # "idle", Takes(r)
  PROVE  /\ exec' \in [Decisions -> Record]
         /\ epoch' \in [Requests -> Nat]
         /\ AcquiredRecord(Doc(r), WorkerOf[r]) \in Record
<1>1. dec[r] \in Decisions /\ Doc(r) \in Record /\ WorkerOf[r] \in Workers
  BY ExecutorAssumption DEF TypeOK, LocalTypeOK, Callers, Doc
<1>2. AcquiredRecord(Doc(r), WorkerOf[r]) \in Record
  BY <1>1, AcquiredType
<1>3. Doc(r).epoch + 1 \in Nat
  BY <1>1 DEF Record
<1>4. QED
  BY <1>1, <1>2, <1>3 DEF Takes, TypeOK, Doc

(* Every step keeps the types, one case per action.                        *)
LEMMA StepTypeOK ==
  ASSUME TypeOK, [Next]_vars
  PROVE  TypeOK'
<1>1. ASSUME NEW r \in Requests, NEW d \in Decisions, ReceiveExecute(r, d)
      PROVE  TypeOK'
  BY <1>1 DEF ReceiveExecute, TypeOK, LocalTypeOK, Callers, Steps, ExecuteSteps, TerminalizeSteps,
     Replies, At, Answer, Goto, planeVars, controlVars, cloudVars, localVars
<1>2. ASSUME NEW r \in Requests, Validate(r)
      PROVE  TypeOK'
  <2>1. LocalTypeOK'
    <3>1. pc[r] # "idle" /\ UNCHANGED dec
          /\ \A q \in Requests \ {r} : put'[q] = put[q]
      BY <1>2 DEF Validate, At, ExecuteSteps, cloudVars, TypeOK
    <3>2. \E s \in Steps \ {"idle"} : pc' = [pc EXCEPT ![r] = s]
      BY <1>2 DEF Validate, Goto, Answer, ReleaseThen, Steps, ExecuteSteps,
         TerminalizeSteps
    <3>3. \/ UNCHANGED reply
          \/ \E a \in Replies : reply' = [reply EXCEPT ![r] = a]
      BY <1>2 DEF Validate, Goto, Answer, ReleaseThen, Replies
    <3>4. QED
      BY <3>1, <3>2, <3>3, LocalType DEF Callers
  <2>2. exec' \in [Decisions -> Record]
    BY <1>2 DEF Validate, TypeOK, planeVars
  <2>3. QED
    BY <1>2, <2>1, <2>2, ExecutorAssumption
    DEF Validate, TypeOK, PutStates, Receipts, planeVars, controlVars, cloudVars, localVars
<1>3. ASSUME NEW r \in Requests, Bind(r)
      PROVE  TypeOK'
  <2>1. LocalTypeOK'
    <3>1. pc[r] # "idle" /\ UNCHANGED dec
          /\ \A q \in Requests \ {r} : put'[q] = put[q]
      BY <1>3 DEF Bind, At, ExecuteSteps, cloudVars, TypeOK
    <3>2. \E s \in Steps \ {"idle"} : pc' = [pc EXCEPT ![r] = s]
      BY <1>3 DEF Bind, Goto, Answer, ReleaseThen, Steps, ExecuteSteps,
         TerminalizeSteps
    <3>3. \/ UNCHANGED reply
          \/ \E a \in Replies : reply' = [reply EXCEPT ![r] = a]
      BY <1>3 DEF Bind, Goto, Answer, ReleaseThen, Replies
    <3>4. QED
      BY <3>1, <3>2, <3>3, LocalType DEF Callers
  <2>2. exec' \in [Decisions -> Record]
    BY <1>3 DEF Bind, TypeOK, planeVars
  <2>3. QED
    BY <1>3, <2>1, <2>2, ExecutorAssumption
    DEF Bind, LocalTypeOK, Callers, At, TypeOK, PutStates, Receipts, planeVars, controlVars, cloudVars, localVars
<1>4. ASSUME NEW r \in Requests, Acquire(r)
      PROVE  TypeOK'
  <2>1. LocalTypeOK'
    <3>1. pc[r] # "idle" /\ UNCHANGED dec
          /\ \A q \in Requests \ {r} : put'[q] = put[q]
      BY <1>4 DEF Acquire, At, ExecuteSteps, cloudVars, TypeOK
    <3>2. \E s \in Steps \ {"idle"} : pc' = [pc EXCEPT ![r] = s]
      BY <1>4 DEF Acquire, Goto, Answer, ReleaseThen, Steps, ExecuteSteps,
         TerminalizeSteps
    <3>3. \/ UNCHANGED reply
          \/ \E a \in Replies : reply' = [reply EXCEPT ![r] = a]
      BY <1>4, AnswerNames DEF Acquire, Goto, Answer, ReleaseThen, Replies, TypeOK, LocalTypeOK, Doc, At,
         Callers
    <3>4. QED
      BY <3>1, <3>2, <3>3, LocalType DEF Callers
  <2>2. /\ exec' \in [Decisions -> Record]
        /\ epoch' \in [Requests -> Nat]
        /\ seen' \in [Requests -> Record]
    BY <1>4, TakesType DEF Acquire, At, TypeOK
  <2>3. QED
    BY <1>4, <2>1, <2>2, ExecutorAssumption
    DEF Acquire, TypeOK, PutStates, Receipts, planeVars, controlVars, cloudVars, localVars
<1>5. ASSUME NEW r \in Requests, Observe(r)
      PROVE  TypeOK'
  <2>1. LocalTypeOK'
    <3>1. pc[r] # "idle" /\ UNCHANGED dec
          /\ \A q \in Requests \ {r} : put'[q] = put[q]
      BY <1>5 DEF Observe, At, ExecuteSteps, cloudVars, TypeOK
    <3>2. \E s \in Steps \ {"idle"} : pc' = [pc EXCEPT ![r] = s]
      BY <1>5 DEF Observe, Goto, Answer, ReleaseThen, Steps, ExecuteSteps,
         TerminalizeSteps
    <3>3. \/ UNCHANGED reply
          \/ \E a \in Replies : reply' = [reply EXCEPT ![r] = a]
      BY <1>5 DEF Observe, Goto, Answer, ReleaseThen, Replies
    <3>4. QED
      BY <3>1, <3>2, <3>3, LocalType DEF Callers
  <2>2. exec' \in [Decisions -> Record]
    BY <1>5 DEF Observe, TypeOK, planeVars
  <2>3. QED
    BY <1>5, <2>1, <2>2, ExecutorAssumption
    DEF Observe, TypeOK, PutStates, Receipts, planeVars, controlVars, cloudVars, localVars
<1>6. ASSUME NEW r \in Requests, Reconcile(r)
      PROVE  TypeOK'
  <2>1. LocalTypeOK'
    <3>1. pc[r] # "idle" /\ UNCHANGED dec
          /\ \A q \in Requests \ {r} : put'[q] = put[q]
      BY <1>6 DEF Reconcile, At, ExecuteSteps, cloudVars, TypeOK
    <3>2. \E s \in Steps \ {"idle"} : pc' = [pc EXCEPT ![r] = s]
      BY <1>6 DEF Reconcile, Goto, Answer, ReleaseThen, Steps, ExecuteSteps,
         TerminalizeSteps
    <3>3. \/ UNCHANGED reply
          \/ \E a \in Replies : reply' = [reply EXCEPT ![r] = a]
      BY <1>6 DEF Reconcile, Goto, Answer, ReleaseThen, Replies
    <3>4. QED
      BY <3>1, <3>2, <3>3, LocalType DEF Callers
  <2>2. exec' \in [Decisions -> Record]
    <3>1. dec[r] \in Decisions /\ Doc(r) \in Record /\ Disclaims(r) \in BOOLEAN
      BY <1>6 DEF Reconcile, At, TypeOK, LocalTypeOK, Callers, Doc, Disclaims,
         Record
    <3>2. AdvancedRecord(Doc(r), "MUTATED", Disclaims(r)) \in Record
      BY <3>1, AdvancedType DEF OPEN_STATES
    <3>3. QED
      BY <1>6, <3>1, <3>2 DEF Reconcile, Fenced, TypeOK, Doc
  <2>3. QED
    BY <1>6, <2>1, <2>2, ExecutorAssumption
    DEF Reconcile, TypeOK, PutStates, Receipts, planeVars, controlVars, cloudVars, localVars
<1>7. ASSUME NEW r \in Requests, FailStale(r)
      PROVE  TypeOK'
  <2>1. LocalTypeOK'
    <3>1. pc[r] # "idle" /\ UNCHANGED dec
          /\ \A q \in Requests \ {r} : put'[q] = put[q]
      BY <1>7 DEF FailStale, At, ExecuteSteps, cloudVars, TypeOK
    <3>2. \E s \in Steps \ {"idle"} : pc' = [pc EXCEPT ![r] = s]
      BY <1>7 DEF FailStale, Goto, Answer, ReleaseThen, Steps, ExecuteSteps,
         TerminalizeSteps
    <3>3. \/ UNCHANGED reply
          \/ \E a \in Replies : reply' = [reply EXCEPT ![r] = a]
      BY <1>7 DEF FailStale, Goto, Answer, ReleaseThen, Replies
    <3>4. QED
      BY <3>1, <3>2, <3>3, LocalType DEF Callers
  <2>2. exec' \in [Decisions -> Record]
    BY <1>7, AdvanceType DEF FailStale, At, OPEN_STATES, TERMINAL_STATES
  <2>3. QED
    BY <1>7, <2>1, <2>2, ExecutorAssumption
    DEF FailStale, TypeOK, PutStates, Receipts, planeVars, controlVars, cloudVars, localVars
<1>8. ASSUME NEW r \in Requests, CheckPrecondition(r)
      PROVE  TypeOK'
  <2>1. LocalTypeOK'
    <3>1. pc[r] # "idle" /\ UNCHANGED dec
          /\ \A q \in Requests \ {r} : put'[q] = put[q]
      BY <1>8 DEF CheckPrecondition, At, ExecuteSteps, cloudVars, TypeOK
    <3>2. \E s \in Steps \ {"idle"} : pc' = [pc EXCEPT ![r] = s]
      BY <1>8 DEF CheckPrecondition, Goto, Answer, ReleaseThen, Steps, ExecuteSteps,
         TerminalizeSteps
    <3>3. \/ UNCHANGED reply
          \/ \E a \in Replies : reply' = [reply EXCEPT ![r] = a]
      BY <1>8 DEF CheckPrecondition, Goto, Answer, ReleaseThen, Replies
    <3>4. QED
      BY <3>1, <3>2, <3>3, LocalType DEF Callers
  <2>2. exec' \in [Decisions -> Record]
    BY <1>8, AdvanceType DEF CheckPrecondition, At, OPEN_STATES, TERMINAL_STATES
  <2>3. QED
    BY <1>8, <2>1, <2>2, ExecutorAssumption
    DEF CheckPrecondition, TypeOK, PutStates, Receipts, planeVars, controlVars, cloudVars, localVars
<1>9. ASSUME NEW r \in Requests, RereadIncident(r)
      PROVE  TypeOK'
  <2>1. LocalTypeOK'
    <3>1. pc[r] # "idle" /\ UNCHANGED dec
          /\ \A q \in Requests \ {r} : put'[q] = put[q]
      BY <1>9 DEF RereadIncident, At, ExecuteSteps, cloudVars, TypeOK
    <3>2. \E s \in Steps \ {"idle"} : pc' = [pc EXCEPT ![r] = s]
      BY <1>9 DEF RereadIncident, Goto, Answer, ReleaseThen, Steps, ExecuteSteps,
         TerminalizeSteps
    <3>3. \/ UNCHANGED reply
          \/ \E a \in Replies : reply' = [reply EXCEPT ![r] = a]
      BY <1>9 DEF RereadIncident, Goto, Answer, ReleaseThen, Replies
    <3>4. QED
      BY <3>1, <3>2, <3>3, LocalType DEF Callers
  <2>2. exec' \in [Decisions -> Record]
    BY <1>9 DEF RereadIncident, TypeOK, planeVars
  <2>3. QED
    BY <1>9, <2>1, <2>2, ExecutorAssumption
    DEF RereadIncident, TypeOK, PutStates, Receipts, planeVars, controlVars, cloudVars, localVars
<1>10. ASSUME NEW r \in Requests, ReadService(r)
       PROVE  TypeOK'
  <2>1. LocalTypeOK'
    <3>1. pc[r] # "idle" /\ UNCHANGED dec
          /\ \A q \in Requests \ {r} : put'[q] = put[q]
      BY <1>10 DEF ReadService, At, ExecuteSteps, cloudVars, TypeOK
    <3>2. \E s \in Steps \ {"idle"} : pc' = [pc EXCEPT ![r] = s]
      BY <1>10 DEF ReadService, Goto, Answer, ReleaseThen, Steps, ExecuteSteps,
         TerminalizeSteps
    <3>3. \/ UNCHANGED reply
          \/ \E a \in Replies : reply' = [reply EXCEPT ![r] = a]
      BY <1>10 DEF ReadService, Goto, Answer, ReleaseThen, Replies
    <3>4. QED
      BY <3>1, <3>2, <3>3, LocalType DEF Callers
  <2>2. exec' \in [Decisions -> Record]
    BY <1>10 DEF ReadService, TypeOK, planeVars
  <2>3. QED
    BY <1>10, <2>1, <2>2, ExecutorAssumption
    DEF ReadService, TypeOK, PutStates, Receipts, planeVars, controlVars, cloudVars, localVars
<1>11. ASSUME NEW r \in Requests, RequestMutation(r)
       PROVE  TypeOK'
  <2>1. LocalTypeOK'
    <3>1. pc[r] # "idle" /\ UNCHANGED dec
          /\ \A q \in Requests \ {r} : put'[q] = put[q]
      BY <1>11 DEF RequestMutation, At, ExecuteSteps, cloudVars, TypeOK
    <3>2. \E s \in Steps \ {"idle"} : pc' = [pc EXCEPT ![r] = s]
      BY <1>11 DEF RequestMutation, Goto, Answer, ReleaseThen, Steps, ExecuteSteps,
         TerminalizeSteps
    <3>3. \/ UNCHANGED reply
          \/ \E a \in Replies : reply' = [reply EXCEPT ![r] = a]
      BY <1>11 DEF RequestMutation, Goto, Answer, ReleaseThen, Replies
    <3>4. QED
      BY <3>1, <3>2, <3>3, LocalType DEF Callers
  <2>2. exec' \in [Decisions -> Record]
    BY <1>11, AdvanceType DEF RequestMutation, At, OPEN_STATES, TERMINAL_STATES
  <2>3. QED
    BY <1>11, <2>1, <2>2, ExecutorAssumption
    DEF RequestMutation, TypeOK, PutStates, Receipts, planeVars, controlVars, cloudVars, localVars
<1>12. ASSUME NEW r \in Requests, SendPut(r)
       PROVE  TypeOK'
  <2>1. LocalTypeOK'
    <3>1. pc[r] # "idle" /\ UNCHANGED dec
          /\ \A q \in Requests \ {r} : put'[q] = put[q]
      BY <1>12 DEF SendPut, At, ExecuteSteps, cloudVars, TypeOK
    <3>2. \E s \in Steps \ {"idle"} : pc' = [pc EXCEPT ![r] = s]
      BY <1>12 DEF SendPut, Goto, Answer, ReleaseThen, Steps, ExecuteSteps,
         TerminalizeSteps
    <3>3. \/ UNCHANGED reply
          \/ \E a \in Replies : reply' = [reply EXCEPT ![r] = a]
      BY <1>12 DEF SendPut, Goto, Answer, ReleaseThen, Replies
    <3>4. QED
      BY <3>1, <3>2, <3>3, LocalType DEF Callers
  <2>2. exec' \in [Decisions -> Record]
    BY <1>12 DEF SendPut, TypeOK, planeVars
  <2>3. QED
    BY <1>12, <2>1, <2>2, ExecutorAssumption
    DEF SendPut, TypeOK, PutStates, Receipts, planeVars, controlVars, cloudVars, localVars
<1>13. ASSUME NEW r \in Requests, PutAnswers(r)
       PROVE  TypeOK'
  <2>1. LocalTypeOK'
    <3>1. pc[r] # "idle" /\ UNCHANGED dec
          /\ \A q \in Requests \ {r} : put'[q] = put[q]
      BY <1>13 DEF PutAnswers, At, ExecuteSteps, cloudVars, TypeOK
    <3>2. \E s \in Steps \ {"idle"} : pc' = [pc EXCEPT ![r] = s]
      BY <1>13 DEF PutAnswers, Goto, Answer, ReleaseThen, Steps, ExecuteSteps,
         TerminalizeSteps
    <3>3. \/ UNCHANGED reply
          \/ \E a \in Replies : reply' = [reply EXCEPT ![r] = a]
      BY <1>13 DEF PutAnswers, Goto, Answer, ReleaseThen, Replies
    <3>4. QED
      BY <3>1, <3>2, <3>3, LocalType DEF Callers
  <2>2. exec' \in [Decisions -> Record]
    BY <1>13 DEF PutAnswers, TypeOK, planeVars
  <2>3. QED
    BY <1>13, <2>1, <2>2, ExecutorAssumption
    DEF PutAnswers, TypeOK, PutStates, Receipts, planeVars, controlVars, cloudVars, localVars
<1>14. ASSUME NEW r \in Requests, Rewind(r)
       PROVE  TypeOK'
  <2>1. LocalTypeOK'
    <3>1. pc[r] # "idle" /\ UNCHANGED dec
          /\ \A q \in Requests \ {r} : put'[q] = put[q]
      BY <1>14 DEF Rewind, At, ExecuteSteps, cloudVars, TypeOK
    <3>2. \E s \in Steps \ {"idle"} : pc' = [pc EXCEPT ![r] = s]
      BY <1>14 DEF Rewind, Goto, Answer, ReleaseThen, Steps, ExecuteSteps,
         TerminalizeSteps
    <3>3. \/ UNCHANGED reply
          \/ \E a \in Replies : reply' = [reply EXCEPT ![r] = a]
      BY <1>14 DEF Rewind, Goto, Answer, ReleaseThen, Replies
    <3>4. QED
      BY <3>1, <3>2, <3>3, LocalType DEF Callers
  <2>2. exec' \in [Decisions -> Record]
    BY <1>14, AdvanceType DEF Rewind, At, OPEN_STATES, TERMINAL_STATES
  <2>3. QED
    BY <1>14, <2>1, <2>2, ExecutorAssumption
    DEF Rewind, TypeOK, PutStates, Receipts, planeVars, controlVars, cloudVars, localVars
<1>15. ASSUME NEW r \in Requests, FileUnknownReceipt(r)
       PROVE  TypeOK'
  <2>1. LocalTypeOK'
    <3>1. pc[r] # "idle" /\ UNCHANGED dec
          /\ \A q \in Requests \ {r} : put'[q] = put[q]
      BY <1>15 DEF FileUnknownReceipt, At, ExecuteSteps, cloudVars, TypeOK
    <3>2. \E s \in Steps \ {"idle"} : pc' = [pc EXCEPT ![r] = s]
      BY <1>15 DEF FileUnknownReceipt, Goto, Answer, ReleaseThen, Steps, ExecuteSteps,
         TerminalizeSteps
    <3>3. \/ UNCHANGED reply
          \/ \E a \in Replies : reply' = [reply EXCEPT ![r] = a]
      BY <1>15 DEF FileUnknownReceipt, Goto, Answer, ReleaseThen, Replies
    <3>4. QED
      BY <3>1, <3>2, <3>3, LocalType DEF Callers
  <2>2. exec' \in [Decisions -> Record]
    BY <1>15 DEF FileUnknownReceipt, TypeOK, planeVars
  <2>3. QED
    BY <1>15, <2>1, <2>2, ExecutorAssumption
    DEF FileUnknownReceipt, TypeOK, PutStates, Receipts, planeVars, controlVars, cloudVars, localVars
<1>16. ASSUME NEW r \in Requests, Release(r)
       PROVE  TypeOK'
  <2>1. LocalTypeOK'
    <3>1. pc[r] # "idle" /\ UNCHANGED dec
          /\ \A q \in Requests \ {r} : put'[q] = put[q]
      BY <1>16 DEF Release, At, ExecuteSteps, cloudVars, TypeOK
    <3>2. \E s \in Steps \ {"idle"} : pc' = [pc EXCEPT ![r] = s]
      BY <1>16 DEF Release, Goto, Answer, ReleaseThen, Steps, ExecuteSteps,
         TerminalizeSteps
    <3>3. \/ UNCHANGED reply
          \/ \E a \in Replies : reply' = [reply EXCEPT ![r] = a]
      BY <1>16, AnswerNames DEF Release, Goto, Answer, ReleaseThen, Replies, TypeOK, LocalTypeOK, Doc, At,
         Callers
    <3>4. QED
      BY <3>1, <3>2, <3>3, LocalType DEF Callers
  <2>2. exec' \in [Decisions -> Record]
    BY <1>16, LapsedType, AdvancedType
    DEF Release, At, TypeOK, LocalTypeOK, Callers, Doc, Record, OPEN_STATES, TERMINAL_STATES
  <2>3. QED
    BY <1>16, <2>1, <2>2, ExecutorAssumption
    DEF Release, TypeOK, PutStates, Receipts, planeVars, controlVars, cloudVars, localVars
<1>17. ASSUME NEW r \in Requests, RecordMutation(r)
       PROVE  TypeOK'
  <2>1. LocalTypeOK'
    <3>1. pc[r] # "idle" /\ UNCHANGED dec
          /\ \A q \in Requests \ {r} : put'[q] = put[q]
      BY <1>17 DEF RecordMutation, At, ExecuteSteps, cloudVars, TypeOK
    <3>2. \E s \in Steps \ {"idle"} : pc' = [pc EXCEPT ![r] = s]
      BY <1>17 DEF RecordMutation, Goto, Answer, ReleaseThen, Steps, ExecuteSteps,
         TerminalizeSteps
    <3>3. \/ UNCHANGED reply
          \/ \E a \in Replies : reply' = [reply EXCEPT ![r] = a]
      BY <1>17 DEF RecordMutation, Goto, Answer, ReleaseThen, Replies
    <3>4. QED
      BY <3>1, <3>2, <3>3, LocalType DEF Callers
  <2>2. exec' \in [Decisions -> Record]
    BY <1>17, AdvanceType DEF RecordMutation, At, OPEN_STATES, TERMINAL_STATES
  <2>3. QED
    BY <1>17, <2>1, <2>2, ExecutorAssumption
    DEF RecordMutation, TypeOK, PutStates, Receipts, planeVars, controlVars, cloudVars, localVars
<1>18. ASSUME NEW r \in Requests, RetakeLease(r)
       PROVE  TypeOK'
  <2>1. LocalTypeOK'
    <3>1. pc[r] # "idle" /\ UNCHANGED dec
          /\ \A q \in Requests \ {r} : put'[q] = put[q]
      BY <1>18 DEF RetakeLease, At, ExecuteSteps, cloudVars, TypeOK
    <3>2. \E s \in Steps \ {"idle"} : pc' = [pc EXCEPT ![r] = s]
      BY <1>18 DEF RetakeLease, Goto, Answer, ReleaseThen, Steps, ExecuteSteps,
         TerminalizeSteps
    <3>3. \/ UNCHANGED reply
          \/ \E a \in Replies : reply' = [reply EXCEPT ![r] = a]
      BY <1>18 DEF RetakeLease, Goto, Answer, ReleaseThen, Replies
    <3>4. QED
      BY <3>1, <3>2, <3>3, LocalType DEF Callers
  <2>2. /\ exec' \in [Decisions -> Record]
        /\ epoch' \in [Requests -> Nat]
        /\ seen' \in [Requests -> Record]
    BY <1>18, TakesType DEF RetakeLease, At, TypeOK
  <2>3. QED
    BY <1>18, <2>1, <2>2, ExecutorAssumption
    DEF RetakeLease, TypeOK, PutStates, Receipts, planeVars, controlVars, cloudVars, localVars
<1>19. ASSUME NEW r \in Requests, RecordAgain(r)
       PROVE  TypeOK'
  <2>1. LocalTypeOK'
    <3>1. pc[r] # "idle" /\ UNCHANGED dec
          /\ \A q \in Requests \ {r} : put'[q] = put[q]
      BY <1>19 DEF RecordAgain, At, ExecuteSteps, cloudVars, TypeOK
    <3>2. \E s \in Steps \ {"idle"} : pc' = [pc EXCEPT ![r] = s]
      BY <1>19 DEF RecordAgain, Goto, Answer, ReleaseThen, Steps, ExecuteSteps,
         TerminalizeSteps
    <3>3. \/ UNCHANGED reply
          \/ \E a \in Replies : reply' = [reply EXCEPT ![r] = a]
      BY <1>19 DEF RecordAgain, Goto, Answer, ReleaseThen, Replies
    <3>4. QED
      BY <3>1, <3>2, <3>3, LocalType DEF Callers
  <2>2. exec' \in [Decisions -> Record]
    BY <1>19, AdvanceType DEF RecordAgain, At, OPEN_STATES, TERMINAL_STATES
  <2>3. QED
    BY <1>19, <2>1, <2>2, ExecutorAssumption
    DEF RecordAgain, TypeOK, PutStates, Receipts, planeVars, controlVars, cloudVars, localVars
<1>20. ASSUME NEW r \in Requests, FileReceipt(r)
       PROVE  TypeOK'
  <2>1. LocalTypeOK'
    <3>1. pc[r] # "idle" /\ UNCHANGED dec
          /\ \A q \in Requests \ {r} : put'[q] = put[q]
      BY <1>20 DEF FileReceipt, At, ExecuteSteps, cloudVars, TypeOK
    <3>2. \E s \in Steps \ {"idle"} : pc' = [pc EXCEPT ![r] = s]
      BY <1>20 DEF FileReceipt, Goto, Answer, ReleaseThen, Steps, ExecuteSteps,
         TerminalizeSteps
    <3>3. \/ UNCHANGED reply
          \/ \E a \in Replies : reply' = [reply EXCEPT ![r] = a]
      BY <1>20 DEF FileReceipt, Goto, Answer, ReleaseThen, Replies
    <3>4. QED
      BY <3>1, <3>2, <3>3, LocalType DEF Callers
  <2>2. exec' \in [Decisions -> Record]
    BY <1>20 DEF FileReceipt, TypeOK, planeVars
  <2>3. QED
    BY <1>20, <2>1, <2>2, ExecutorAssumption
    DEF FileReceipt, TypeOK, PutStates, Receipts, planeVars, controlVars, cloudVars, localVars
<1>21. ASSUME NEW r \in Requests, Crash(r)
       PROVE  TypeOK'
  <2>1. LocalTypeOK'
    <3>1. pc[r] # "idle" /\ UNCHANGED dec
          /\ \A q \in Requests \ {r} : put'[q] = put[q]
      BY <1>21 DEF Crash, At, ExecuteSteps, cloudVars, TypeOK
    <3>2. \E s \in Steps \ {"idle"} : pc' = [pc EXCEPT ![r] = s]
      BY <1>21 DEF Crash, Goto, Answer, ReleaseThen, Steps, ExecuteSteps,
         TerminalizeSteps
    <3>3. \/ UNCHANGED reply
          \/ \E a \in Replies : reply' = [reply EXCEPT ![r] = a]
      BY <1>21 DEF Crash, Goto, Answer, ReleaseThen, Replies
    <3>4. QED
      BY <3>1, <3>2, <3>3, LocalType DEF Callers
  <2>2. exec' \in [Decisions -> Record]
    BY <1>21 DEF Crash, TypeOK, planeVars
  <2>3. QED
    BY <1>21, <2>1, <2>2, ExecutorAssumption
    DEF Crash, TypeOK, PutStates, Receipts, planeVars, controlVars, cloudVars, localVars
<1>22. ASSUME NEW r \in Requests, ApplyPut(r)
       PROVE  TypeOK'
  BY <1>22, ExecutorAssumption
  DEF ApplyPut, TypeOK, LocalTypeOK, Callers, PutStates, ApprovalStates, planeVars, controlVars, cloudVars, localVars
<1>23. ASSUME NEW r \in Requests, RefusePut(r)
       PROVE  TypeOK'
  BY <1>23, ExecutorAssumption
  DEF RefusePut, TypeOK, LocalTypeOK, Callers, PutStates, ApprovalStates, planeVars, controlVars, cloudVars, localVars
<1>24. ASSUME NEW r \in Requests, LosePut(r)
       PROVE  TypeOK'
  BY <1>24, ExecutorAssumption
  DEF LosePut, TypeOK, LocalTypeOK, Callers, PutStates, ApprovalStates, planeVars, controlVars, cloudVars, localVars
<1>25. ASSUME NEW k \in Closers, NEW d \in Decisions, ReceiveTerminalize(k, d)
       PROVE  TypeOK'
  BY <1>25 DEF ReceiveTerminalize, TypeOK, LocalTypeOK, Callers, Steps, ExecuteSteps, TerminalizeSteps,
     Replies, At, Answer, Goto, planeVars, controlVars, cloudVars, localVars
<1>26. ASSUME NEW k \in Closers, ReadExecution(k)
       PROVE  TypeOK'
  <2>1. LocalTypeOK'
    <3>1. pc[k] # "idle" /\ UNCHANGED dec
          /\ \A q \in Requests \ {k} : put'[q] = put[q]
      BY <1>26 DEF ReadExecution, At, ExecuteSteps, cloudVars, TypeOK
    <3>2. \E s \in Steps \ {"idle"} : pc' = [pc EXCEPT ![k] = s]
      BY <1>26 DEF ReadExecution, Goto, Answer, ReleaseThen, Steps, ExecuteSteps,
         TerminalizeSteps
    <3>3. \/ UNCHANGED reply
          \/ \E a \in Replies : reply' = [reply EXCEPT ![k] = a]
      BY <1>26 DEF ReadExecution, Goto, Answer, ReleaseThen, Replies
    <3>4. QED
      BY <3>1, <3>2, <3>3, LocalType DEF Callers
  <2>2. exec' \in [Decisions -> Record]
    BY <1>26 DEF ReadExecution, TypeOK, planeVars
  <2>3. QED
    BY <1>26, <2>1, <2>2, ExecutorAssumption
    DEF ReadExecution, TypeOK, PutStates, Receipts, planeVars, controlVars, cloudVars, localVars
<1>27. ASSUME NEW k \in Closers, ProbeService(k)
       PROVE  TypeOK'
  <2>1. LocalTypeOK'
    <3>1. pc[k] # "idle" /\ UNCHANGED dec
          /\ \A q \in Requests \ {k} : put'[q] = put[q]
      BY <1>27 DEF ProbeService, At, ExecuteSteps, cloudVars, TypeOK
    <3>2. \E s \in Steps \ {"idle"} : pc' = [pc EXCEPT ![k] = s]
      BY <1>27 DEF ProbeService, Goto, Answer, ReleaseThen, Steps, ExecuteSteps,
         TerminalizeSteps
    <3>3. \/ UNCHANGED reply
          \/ \E a \in Replies : reply' = [reply EXCEPT ![k] = a]
      BY <1>27 DEF ProbeService, Goto, Answer, ReleaseThen, Replies
    <3>4. QED
      BY <3>1, <3>2, <3>3, LocalType DEF Callers
  <2>2. exec' \in [Decisions -> Record]
    BY <1>27 DEF ProbeService, TypeOK, planeVars
  <2>3. QED
    BY <1>27, <2>1, <2>2, ExecutorAssumption
    DEF ProbeService, TypeOK, PutStates, Receipts, planeVars, controlVars, cloudVars, localVars
<1>28. ASSUME NEW k \in Closers, CloseExecution(k)
       PROVE  TypeOK'
  <2>1. LocalTypeOK'
    <3>1. pc[k] # "idle" /\ UNCHANGED dec
          /\ \A q \in Requests \ {k} : put'[q] = put[q]
      BY <1>28 DEF CloseExecution, At, ExecuteSteps, cloudVars, TypeOK
    <3>2. \E s \in Steps \ {"idle"} : pc' = [pc EXCEPT ![k] = s]
      BY <1>28 DEF CloseExecution, Goto, Answer, ReleaseThen, Steps, ExecuteSteps,
         TerminalizeSteps
    <3>3. \/ UNCHANGED reply
          \/ \E a \in Replies : reply' = [reply EXCEPT ![k] = a]
      BY <1>28 DEF CloseExecution, Goto, Answer, ReleaseThen, Replies
    <3>4. QED
      BY <3>1, <3>2, <3>3, LocalType DEF Callers
  <2>2. exec' \in [Decisions -> Record]
    BY <1>28, LapsedType, AdvancedType
    DEF CloseExecution, At, TypeOK, LocalTypeOK, Callers, Doc, Record, OPEN_STATES, TERMINAL_STATES
  <2>3. QED
    BY <1>28, <2>1, <2>2, ExecutorAssumption
    DEF CloseExecution, TypeOK, PutStates, Receipts, planeVars, controlVars, cloudVars, localVars
<1>29. ASSUME MigrateTraffic
       PROVE  TypeOK'
  BY <1>29, ExecutorAssumption
  DEF MigrateTraffic, TypeOK, LocalTypeOK, Callers, PutStates, ApprovalStates, planeVars, controlVars, cloudVars, localVars
<1>30. ASSUME NEW v \in Revisions \cup {Split}, OperatorChange(v)
       PROVE  TypeOK'
  BY <1>30, ExecutorAssumption
  DEF OperatorChange, TypeOK, LocalTypeOK, Callers, PutStates, ApprovalStates, planeVars, controlVars, cloudVars, localVars
<1>31. ASSUME NEW d \in Decisions, LeaseLapses(d)
       PROVE  TypeOK'
  BY <1>31, LapsedType DEF LeaseLapses, TypeOK, LocalTypeOK, Callers, planeVars, controlVars, cloudVars, localVars
<1>32. ASSUME NEW d \in ApprovalRequired, Approve(d)
       PROVE  TypeOK'
  BY <1>32, ExecutorAssumption
  DEF Approve, Decided, TypeOK, LocalTypeOK, Callers, PutStates, ApprovalStates, planeVars, controlVars, cloudVars, localVars
<1>33. ASSUME NEW d \in ApprovalRequired, ApprovalLapses(d)
       PROVE  TypeOK'
  BY <1>33, ExecutorAssumption
  DEF ApprovalLapses, TypeOK, LocalTypeOK, Callers, PutStates, ApprovalStates, planeVars, controlVars, cloudVars, localVars
<1>37. ASSUME NEW d \in ApprovalRequired, Reject(d)
       PROVE  TypeOK'
  BY <1>37, ExecutorAssumption
  DEF Reject, Decided, TypeOK, LocalTypeOK, Callers, PutStates, ApprovalStates, planeVars, controlVars, cloudVars, localVars
<1>34. ASSUME NEW i \in Incidents, CloseIncident(i)
       PROVE  TypeOK'
  BY <1>34, ExecutorAssumption
  DEF CloseIncident, TypeOK, LocalTypeOK, Callers, PutStates, ApprovalStates, planeVars, controlVars, cloudVars, localVars
<1>35. ASSUME UNCHANGED vars
       PROVE  TypeOK'
  BY <1>35 DEF TypeOK, LocalTypeOK, Callers, vars, planeVars, controlVars, cloudVars, localVars
<1>36. QED
  BY <1>1, <1>2, <1>3, <1>4, <1>5, <1>6, <1>7, <1>8, <1>9, <1>10, <1>11,
     <1>12, <1>13, <1>14, <1>15, <1>16, <1>17, <1>18, <1>19, <1>20, <1>21,
     <1>22, <1>23, <1>24, <1>25, <1>26, <1>27, <1>28, <1>29, <1>30, <1>31,
     <1>32, <1>33, <1>34, <1>35, <1>37
  DEF Next, ExecuteStep, CloudRunStep, TerminalizeStep, Environment
-----------------------------------------------------------------------------
(* The inductive invariant.                                                *)

(* Steps that are no request's: nothing a request holds changes, and the   *)
(* only state an execution can move to is VERIFIED, from MUTATED.          *)
Outside ==
  (\E k \in Closers : TerminalizeStep(k)) \/ Environment \/ UNCHANGED vars

OutsideFrame ==
  /\ UNCHANGED <<bound, put, epoch, seen, receipt>>
  /\ \A r \in Requests : pc'[r] = pc[r] /\ dec'[r] = dec[r]
  /\ \A d \in Decisions :
       /\ exec'[d].epoch = exec[d].epoch
       /\ exec'[d].predates = exec[d].predates
       /\ \/ exec'[d].state = exec[d].state
          \/ exec[d].state = "MUTATED" /\ exec'[d].state = "VERIFIED"

(* The steps of /terminalize and of the world outside the executor move no *)
(* request and only close a recorded mutation.                             *)
LEMMA OutsideStep ==
  ASSUME TypeOK, Outside
  PROVE  OutsideFrame
<1>1. ASSUME NEW k \in Closers, TerminalizeStep(k)
      PROVE  OutsideFrame
  <2>1. CASE CloseExecution(k)
    <3>1. k \notin Requests /\ dec[k] \in Decisions /\ Doc(k) \in Record
      BY <2>1, ExecutorAssumption
      DEF CloseExecution, At, TypeOK, LocalTypeOK, Callers, Doc
    <3>2. \/ UNCHANGED exec
          \/ /\ Doc(k).state = "MUTATED"
             /\ exec' = [exec EXCEPT ![dec[k]] =
                           AdvancedRecord(@, "VERIFIED", @.predates)]
      BY <2>1, <3>1 DEF CloseExecution, TerminalizeOutcome, Record,
         OPEN_STATES, TERMINAL_STATES, TERMINALIZABLE_STATES
    <3>3. \A d \in Decisions :
            /\ exec'[d].epoch = exec[d].epoch
            /\ exec'[d].predates = exec[d].predates
            /\ \/ exec'[d].state = exec[d].state
               \/ exec[d].state = "MUTATED" /\ exec'[d].state = "VERIFIED"
      BY <3>1, <3>2 DEF TypeOK, Doc, AdvancedRecord
    <3>4. QED
      BY <2>1, <3>1, <3>3
      DEF CloseExecution, Answer, OutsideFrame, cloudVars, TypeOK, LocalTypeOK
  <2>2. ASSUME NEW d \in Decisions, ReceiveTerminalize(k, d)
        PROVE  OutsideFrame
    BY <2>2, ExecutorAssumption
    DEF ReceiveTerminalize, Goto, Answer, OutsideFrame, TypeOK, LocalTypeOK,
        Callers, planeVars, cloudVars
  <2>3. CASE ReadExecution(k) \/ ProbeService(k)
    <3>1. k \notin Requests
      BY ExecutorAssumption
    <3>2. UNCHANGED <<planeVars, cloudVars, dec, epoch, seen>>
      BY <2>3 DEF ReadExecution, ProbeService
    <3>3. \E s \in Steps : pc' = [pc EXCEPT ![k] = s]
      BY <2>3 DEF ReadExecution, ProbeService, Goto, Answer, Steps,
         TerminalizeSteps
    <3>4. QED
      BY <3>1, <3>2, <3>3
      DEF OutsideFrame, TypeOK, LocalTypeOK, planeVars, cloudVars
  <2>4. QED
    BY <1>1, <2>1, <2>2, <2>3 DEF TerminalizeStep
<1>2. ASSUME NEW d \in Decisions, LeaseLapses(d)
      PROVE  OutsideFrame
  BY <1>2 DEF LeaseLapses, LapsedRecord, OutsideFrame, TypeOK, cloudVars,
     localVars
<1>3. CASE \/ MigrateTraffic \/ UNCHANGED vars
           \/ \E v \in Revisions \cup {Split} : OperatorChange(v)
           \/ \E d \in ApprovalRequired : Approve(d) \/ Reject(d) \/ ApprovalLapses(d)
           \/ \E i \in Incidents : CloseIncident(i)
  BY <1>3 DEF MigrateTraffic, OperatorChange, Approve, Reject, Decided, ApprovalLapses,
     CloseIncident, OutsideFrame, vars, planeVars, cloudVars, localVars
<1>4. QED
  BY <1>1, <1>2, <1>3 DEF Outside, Environment

(* Every step keeps what a request's place says of its call and epoch.     *)
LEMMA StepRequestInv ==
  ASSUME TypeOK, RequestInv, [Next]_vars
  PROVE  RequestInv'
<1>1. ASSUME NEW r \in Requests, NEW d \in Decisions, ReceiveExecute(r, d)
      PROVE  RequestInv'
  BY <1>1 DEF ReceiveExecute, RequestInv, BeforeCall, At, Goto, Answer,
     ReleaseThen, Takes, TypeOK, LocalTypeOK, Callers, cloudVars,
     ExecuteSteps
<1>2. ASSUME NEW r \in Requests, Validate(r)
      PROVE  RequestInv'
  BY <1>2 DEF Validate, RequestInv, BeforeCall, At, Goto, Answer,
     ReleaseThen, Takes, TypeOK, LocalTypeOK, Callers, cloudVars,
     ExecuteSteps
<1>3. ASSUME NEW r \in Requests, Bind(r)
      PROVE  RequestInv'
  BY <1>3 DEF Bind, RequestInv, BeforeCall, At, Goto, Answer, ReleaseThen,
     Takes, TypeOK, LocalTypeOK, Callers, cloudVars, ExecuteSteps
<1>4. ASSUME NEW r \in Requests, Acquire(r)
      PROVE  RequestInv'
  BY <1>4 DEF Acquire, RequestInv, BeforeCall, At, Goto, Answer,
     ReleaseThen, Takes, TypeOK, LocalTypeOK, Callers, cloudVars,
     ExecuteSteps
<1>5. ASSUME NEW r \in Requests, Observe(r)
      PROVE  RequestInv'
  BY <1>5 DEF Observe, RequestInv, BeforeCall, At, Goto, Answer,
     ReleaseThen, Takes, TypeOK, LocalTypeOK, Callers, cloudVars,
     ExecuteSteps
<1>6. ASSUME NEW r \in Requests, Reconcile(r)
      PROVE  RequestInv'
  BY <1>6 DEF Reconcile, RequestInv, BeforeCall, At, Goto, Answer,
     ReleaseThen, Takes, TypeOK, LocalTypeOK, Callers, cloudVars,
     ExecuteSteps
<1>7. ASSUME NEW r \in Requests, FailStale(r)
      PROVE  RequestInv'
  BY <1>7 DEF FailStale, RequestInv, BeforeCall, At, Goto, Answer,
     ReleaseThen, Takes, TypeOK, LocalTypeOK, Callers, cloudVars,
     ExecuteSteps
<1>8. ASSUME NEW r \in Requests, CheckPrecondition(r)
      PROVE  RequestInv'
  BY <1>8 DEF CheckPrecondition, RequestInv, BeforeCall, At, Goto, Answer,
     ReleaseThen, Takes, TypeOK, LocalTypeOK, Callers, cloudVars,
     ExecuteSteps
<1>9. ASSUME NEW r \in Requests, RereadIncident(r)
      PROVE  RequestInv'
  BY <1>9 DEF RereadIncident, RequestInv, BeforeCall, At, Goto, Answer,
     ReleaseThen, Takes, TypeOK, LocalTypeOK, Callers, cloudVars,
     ExecuteSteps
<1>10. ASSUME NEW r \in Requests, ReadService(r)
       PROVE  RequestInv'
  BY <1>10 DEF ReadService, RequestInv, BeforeCall, At, Goto, Answer,
     ReleaseThen, Takes, TypeOK, LocalTypeOK, Callers, cloudVars,
     ExecuteSteps
<1>11. ASSUME NEW r \in Requests, RequestMutation(r)
       PROVE  RequestInv'
  BY <1>11 DEF RequestMutation, RequestInv, BeforeCall, At, Goto, Answer,
     ReleaseThen, Takes, TypeOK, LocalTypeOK, Callers, cloudVars,
     ExecuteSteps
<1>12. ASSUME NEW r \in Requests, SendPut(r)
       PROVE  RequestInv'
  BY <1>12 DEF SendPut, RequestInv, BeforeCall, At, Goto, Answer,
     ReleaseThen, Takes, TypeOK, LocalTypeOK, Callers, cloudVars,
     ExecuteSteps
<1>13. ASSUME NEW r \in Requests, PutAnswers(r)
       PROVE  RequestInv'
  BY <1>13 DEF PutAnswers, RequestInv, BeforeCall, At, Goto, Answer,
     ReleaseThen, Takes, TypeOK, LocalTypeOK, Callers, cloudVars,
     ExecuteSteps
<1>14. ASSUME NEW r \in Requests, Rewind(r)
       PROVE  RequestInv'
  BY <1>14 DEF Rewind, RequestInv, BeforeCall, At, Goto, Answer,
     ReleaseThen, Takes, TypeOK, LocalTypeOK, Callers, cloudVars,
     ExecuteSteps
<1>15. ASSUME NEW r \in Requests, FileUnknownReceipt(r)
       PROVE  RequestInv'
  BY <1>15 DEF FileUnknownReceipt, RequestInv, BeforeCall, At, Goto, Answer,
     ReleaseThen, Takes, TypeOK, LocalTypeOK, Callers, cloudVars,
     ExecuteSteps
<1>16. ASSUME NEW r \in Requests, Release(r)
       PROVE  RequestInv'
  BY <1>16 DEF Release, RequestInv, BeforeCall, At, Goto, Answer,
     ReleaseThen, Takes, TypeOK, LocalTypeOK, Callers, cloudVars,
     ExecuteSteps
<1>17. ASSUME NEW r \in Requests, RecordMutation(r)
       PROVE  RequestInv'
  BY <1>17 DEF RecordMutation, RequestInv, BeforeCall, At, Goto, Answer,
     ReleaseThen, Takes, TypeOK, LocalTypeOK, Callers, cloudVars,
     ExecuteSteps
<1>18. ASSUME NEW r \in Requests, RetakeLease(r)
       PROVE  RequestInv'
  BY <1>18 DEF RetakeLease, RequestInv, BeforeCall, At, Goto, Answer,
     ReleaseThen, Takes, TypeOK, LocalTypeOK, Callers, cloudVars,
     ExecuteSteps
<1>19. ASSUME NEW r \in Requests, RecordAgain(r)
       PROVE  RequestInv'
  BY <1>19 DEF RecordAgain, RequestInv, BeforeCall, At, Goto, Answer,
     ReleaseThen, Takes, TypeOK, LocalTypeOK, Callers, cloudVars,
     ExecuteSteps
<1>20. ASSUME NEW r \in Requests, FileReceipt(r)
       PROVE  RequestInv'
  BY <1>20 DEF FileReceipt, RequestInv, BeforeCall, At, Goto, Answer,
     ReleaseThen, Takes, TypeOK, LocalTypeOK, Callers, cloudVars,
     ExecuteSteps
<1>21. ASSUME NEW r \in Requests, Crash(r)
       PROVE  RequestInv'
  BY <1>21 DEF Crash, RequestInv, BeforeCall, At, Goto, Answer, ReleaseThen,
     Takes, TypeOK, LocalTypeOK, Callers, cloudVars, ExecuteSteps
<1>22. ASSUME NEW r \in Requests, ApplyPut(r)
       PROVE  RequestInv'
  BY <1>22 DEF ApplyPut, RequestInv, BeforeCall, TypeOK, localVars
<1>23. ASSUME NEW r \in Requests, RefusePut(r)
       PROVE  RequestInv'
  BY <1>23 DEF RefusePut, RequestInv, BeforeCall, TypeOK, localVars
<1>24. ASSUME NEW r \in Requests, LosePut(r)
       PROVE  RequestInv'
  BY <1>24 DEF LosePut, RequestInv, BeforeCall, TypeOK, localVars
<1>25. CASE Outside
  BY <1>25, OutsideStep DEF OutsideFrame, RequestInv
<1>26. QED
  BY <1>1, <1>2, <1>3, <1>4, <1>5, <1>6, <1>7, <1>8, <1>9, <1>10, <1>11,
     <1>12, <1>13, <1>14, <1>15, <1>16, <1>17, <1>18, <1>19, <1>20, <1>21,
     <1>22, <1>23, <1>24, <1>25 DEF Next, ExecuteStep, CloudRunStep, Outside
(* Steps that change no record, binding, epoch or call: they only move the *)
(* request along, and never into the middle of an argument below.          *)
Quiet(r) ==
  \/ Validate(r) \/ Observe(r) \/ RereadIncident(r) \/ ReadService(r)
  \/ PutAnswers(r) \/ FileUnknownReceipt(r) \/ Crash(r)

(* A quiet step moves its own request and writes no document.              *)
LEMMA QuietStep ==
  ASSUME TypeOK, NEW r \in Requests, Quiet(r)
  PROVE  /\ UNCHANGED <<exec, bound, put, dec, epoch, seen>>
         /\ \A q \in Requests : receipt'[q] = "SUCCEEDED"
                                => receipt[q] = "SUCCEEDED"
         /\ \A q \in Requests \ {r} : pc'[q] = pc[q]
         /\ pc'[r] \in BoundSteps => pc[r] \in BoundSteps
         /\ pc'[r] \in BoundSteps \ {"acquire"}
              => pc[r] \in BoundSteps \ {"acquire"}
         /\ Deciding(r)' => pc[r] = "observe"
         /\ pc'[r] \in {"stale", "precondition"} => ~Attempted(r)
         /\ pc'[r] \in {"await", "rewind"} => pc[r] = "await"
         /\ pc'[r] \notin {"file", "send"}
BY DEF Quiet, Validate, Observe, RereadIncident, ReadService, PutAnswers,
   FileUnknownReceipt, Crash, At, Goto, Answer, ReleaseThen, Deciding,
   BoundSteps, ExecuteSteps, TypeOK, LocalTypeOK, Callers, planeVars,
   cloudVars

(* A write under the current lease: what it finds and what it leaves.      *)
Moved(r, from, s) ==
  /\ exec[dec[r]].state \in OPEN_STATES \cap from
  /\ exec[dec[r]].epoch = epoch[r]
  /\ exec'[dec[r]].epoch = exec[dec[r]].epoch
  /\ exec'[dec[r]].state = s
  /\ \A d \in Decisions \ {dec[r]} : exec'[d] = exec[d]

(* What a write under a current lease does to the execution.               *)
LEMMA AdvancesStep ==
  ASSUME TypeOK, NEW r \in Requests, pc[r] # "idle", NEW expect,
         NEW s \in OPEN_STATES \cup TERMINAL_STATES, NEW b,
         Outcome(r, expect) = "ADVANCED",
         exec' = [exec EXCEPT ![dec[r]] = AdvancedRecord(@, s, b)]
  PROVE  Moved(r, expect, s) /\ exec'[dec[r]].predates = b
<1>1. dec[r] \in Decisions /\ Doc(r) \in Record
  BY DEF TypeOK, LocalTypeOK, Callers, Doc
<1>2. Doc(r).state \in OPEN_STATES /\ Doc(r).state \in expect /\ Doc(r).epoch = epoch[r]
  BY <1>1, AdvanceFacts DEF Outcome
<1>3. QED
  BY <1>1, <1>2 DEF TypeOK, Doc, AdvancedRecord, Moved

(* What an acquire that takes the execution does to it.                    *)
LEMMA TakesStep ==
  ASSUME TypeOK, NEW r \in Requests, pc[r] # "idle", Takes(r)
  PROVE  /\ dec[r] \in Decisions
         /\ exec'[dec[r]].epoch = exec[dec[r]].epoch + 1
         /\ epoch'[r] = exec[dec[r]].epoch + 1
         /\ exec'[dec[r]].predates = exec[dec[r]].predates
         /\ \/ /\ exec[dec[r]].state = "ABSENT"
               /\ exec'[dec[r]].state = "CLAIMED"
            \/ /\ exec[dec[r]].state \in OPEN_STATES
               /\ exec'[dec[r]].state = exec[dec[r]].state
         /\ \A d \in Decisions \ {dec[r]} : exec'[d] = exec[d]
         /\ \A q \in Requests \ {r} : epoch'[q] = epoch[q]
         /\ exec'[dec[r]] = AcquiredRecord(Doc(r), WorkerOf[r])
<1>1. dec[r] \in Decisions /\ Doc(r) \in Record
  BY DEF TypeOK, LocalTypeOK, Callers, Doc
<1>2. Doc(r).state \in OPEN_STATES \cup {"ABSENT"}
  BY <1>1, TakeFacts DEF Takes
<1>3. QED
  BY <1>1, <1>2 DEF Takes, TypeOK, Doc, AcquiredRecord, OPEN_STATES

(* What a release does to the execution.                                   *)
LEMMA ReleaseStep ==
  ASSUME TypeOK, NEW r \in Requests, Release(r)
  PROVE  \A d \in Decisions : /\ exec'[d].state = exec[d].state
                              /\ exec'[d].epoch = exec[d].epoch
                              /\ exec'[d].predates = exec[d].predates
<1>1. dec[r] \in Decisions
  BY DEF Release, At, TypeOK, LocalTypeOK, Callers
<1>2. \/ UNCHANGED exec
      \/ exec' = [exec EXCEPT ![dec[r]] = LapsedRecord(@)]
  BY DEF Release
<1>3. QED
  BY <1>1, <1>2 DEF LapsedRecord, TypeOK

(* Every step keeps the binding of whoever got past it.                    *)
LEMMA StepBindingInv ==
  ASSUME TypeOK, RequestInv, BindingInv, [Next]_vars
  PROVE  BindingInv'
<1>1. ASSUME NEW r \in Requests, NEW d \in Decisions, ReceiveExecute(r, d)
      PROVE  BindingInv'
  BY <1>1 DEF ReceiveExecute, BindingInv, BoundSteps, ExecuteSteps, At,
     Goto, Answer, TypeOK, LocalTypeOK, Callers, planeVars, cloudVars
<1>2. ASSUME NEW r \in Requests, Quiet(r)
      PROVE  BindingInv'
  BY <1>2, QuietStep DEF BindingInv
<1>3. ASSUME NEW r \in Requests, Bind(r)
      PROVE  BindingInv'
  <2>1. dec[r] \in Decisions /\ FingerprintOf[dec[r]] \in Fingerprints
    BY <1>3, ExecutorAssumption DEF Bind, At, TypeOK, LocalTypeOK, Callers
  <2>2. bound'[FingerprintOf[dec[r]]] = dec[r] \/ pc'[r] = "done"
    BY <1>3, <2>1 DEF Bind, Answer, TypeOK, LocalTypeOK, Callers
  <2>3. \A f \in Fingerprints : bound[f] # Unbound => bound'[f] = bound[f]
    BY <1>3, <2>1 DEF Bind, TypeOK
  <2>4. /\ UNCHANGED <<dec, put>>
        /\ \A q \in Requests \ {r} : pc'[q] = pc[q]
        /\ put[r] = "none"
    BY <1>3 DEF Bind, Goto, Answer, At, TypeOK, LocalTypeOK, Callers, cloudVars,
       RequestInv, BeforeCall
  <2>5. \A q \in Requests : pc[q] # "idle" =>
          dec[q] \in Decisions /\ FingerprintOf[dec[q]] \in Fingerprints
    BY ExecutorAssumption DEF TypeOK, LocalTypeOK, Callers
  <2>6. \A q \in Requests : pc[q] \in BoundSteps \/ put[q] # "none" => pc[q] # "idle"
    BY DEF BoundSteps, ExecuteSteps, TypeOK, LocalTypeOK
  <2>7. "done" \notin BoundSteps
    BY DEF BoundSteps, ExecuteSteps
  <2>8. QED
    BY <2>1, <2>2, <2>3, <2>4, <2>5, <2>6, <2>7, ExecutorAssumption
    DEF BindingInv
<1>4. ASSUME NEW r \in Requests, Acquire(r)
      PROVE  BindingInv'
  BY <1>4 DEF Acquire, BindingInv, BoundSteps, ExecuteSteps, At, Goto,
     Answer, ReleaseThen, TypeOK, LocalTypeOK, Callers, planeVars, cloudVars
<1>5. ASSUME NEW r \in Requests, Reconcile(r)
      PROVE  BindingInv'
  BY <1>5 DEF Reconcile, BindingInv, BoundSteps, ExecuteSteps, At, Goto,
     Answer, ReleaseThen, TypeOK, LocalTypeOK, Callers, planeVars, cloudVars
<1>6. ASSUME NEW r \in Requests, FailStale(r)
      PROVE  BindingInv'
  BY <1>6 DEF FailStale, BindingInv, BoundSteps, ExecuteSteps, At, Goto,
     Answer, ReleaseThen, TypeOK, LocalTypeOK, Callers, planeVars, cloudVars
<1>7. ASSUME NEW r \in Requests, CheckPrecondition(r)
      PROVE  BindingInv'
  BY <1>7 DEF CheckPrecondition, BindingInv, BoundSteps, ExecuteSteps, At,
     Goto, Answer, ReleaseThen, TypeOK, LocalTypeOK, Callers, planeVars,
     cloudVars
<1>8. ASSUME NEW r \in Requests, RequestMutation(r)
      PROVE  BindingInv'
  BY <1>8 DEF RequestMutation, BindingInv, BoundSteps, ExecuteSteps, At,
     Goto, Answer, ReleaseThen, TypeOK, LocalTypeOK, Callers, planeVars,
     cloudVars
<1>9. ASSUME NEW r \in Requests, SendPut(r)
      PROVE  BindingInv'
  BY <1>9 DEF SendPut, BindingInv, BoundSteps, ExecuteSteps, At, Goto,
     Answer, ReleaseThen, TypeOK, LocalTypeOK, Callers, planeVars, cloudVars
<1>10. ASSUME NEW r \in Requests, Rewind(r)
       PROVE  BindingInv'
  BY <1>10 DEF Rewind, BindingInv, BoundSteps, ExecuteSteps, At, Goto,
     Answer, ReleaseThen, TypeOK, LocalTypeOK, Callers, planeVars, cloudVars
<1>11. ASSUME NEW r \in Requests, Release(r)
       PROVE  BindingInv'
  BY <1>11 DEF Release, BindingInv, BoundSteps, ExecuteSteps, At, Goto,
     Answer, ReleaseThen, TypeOK, LocalTypeOK, Callers, planeVars, cloudVars
<1>12. ASSUME NEW r \in Requests, RecordMutation(r)
       PROVE  BindingInv'
  BY <1>12 DEF RecordMutation, BindingInv, BoundSteps, ExecuteSteps, At,
     Goto, Answer, ReleaseThen, TypeOK, LocalTypeOK, Callers, planeVars,
     cloudVars
<1>13. ASSUME NEW r \in Requests, RetakeLease(r)
       PROVE  BindingInv'
  BY <1>13 DEF RetakeLease, BindingInv, BoundSteps, ExecuteSteps, At, Goto,
     Answer, ReleaseThen, TypeOK, LocalTypeOK, Callers, planeVars, cloudVars
<1>14. ASSUME NEW r \in Requests, RecordAgain(r)
       PROVE  BindingInv'
  BY <1>14 DEF RecordAgain, BindingInv, BoundSteps, ExecuteSteps, At, Goto,
     Answer, ReleaseThen, TypeOK, LocalTypeOK, Callers, planeVars, cloudVars
<1>15. ASSUME NEW r \in Requests, FileReceipt(r)
       PROVE  BindingInv'
  BY <1>15 DEF FileReceipt, BindingInv, BoundSteps, ExecuteSteps, At, Goto,
     Answer, ReleaseThen, TypeOK, LocalTypeOK, Callers, planeVars, cloudVars
<1>16. ASSUME NEW r \in Requests, ApplyPut(r)
       PROVE  BindingInv'
  BY <1>16 DEF ApplyPut, BindingInv, TypeOK, planeVars, localVars
<1>17. ASSUME NEW r \in Requests, RefusePut(r)
       PROVE  BindingInv'
  BY <1>17 DEF RefusePut, BindingInv, TypeOK, planeVars, localVars
<1>18. ASSUME NEW r \in Requests, LosePut(r)
       PROVE  BindingInv'
  BY <1>18 DEF LosePut, BindingInv, TypeOK, planeVars, localVars
<1>19. CASE Outside
  BY <1>19, OutsideStep DEF OutsideFrame, BindingInv
<1>20. QED
  BY <1>1, <1>2, <1>3, <1>4, <1>5, <1>6, <1>7, <1>8, <1>9, <1>10, <1>11,
     <1>12, <1>13, <1>14, <1>15, <1>16, <1>17, <1>18, <1>19
  DEF Next, ExecuteStep, CloudRunStep, Outside, Quiet

(* What each write of a request does: it is fenced and the request gives   *)
(* up (or goes to take its lease back), or it moves the record on.         *)
WriteFrame(r) ==
  /\ dec[r] \in Decisions
  /\ UNCHANGED <<bound, receipt, put, dec, epoch, seen>>
  /\ \A q \in Requests \ {r} : pc'[q] = pc[q]

(* CASE B writes MUTATED with its disclaimer, or is fenced.                *)
LEMMA ReconcileStep ==
  ASSUME TypeOK, NEW r \in Requests, Reconcile(r)
  PROVE  /\ WriteFrame(r) /\ pc[r] = "reconcile"
         /\ \/ UNCHANGED exec /\ pc'[r] \in {"done"}
            \/ /\ Moved(r, PRE_MUTATION_STATES, "MUTATED")
               /\ exec'[dec[r]].predates = Disclaims(r)
               /\ pc'[r] = "done"
<1>1. WriteFrame(r) /\ pc[r] = "reconcile"
  BY DEF Reconcile, WriteFrame, Goto, Answer, ReleaseThen, At, TypeOK,
     LocalTypeOK, Callers, cloudVars
<1>2. CASE UNCHANGED exec /\ pc'[r] \in {"done"}
  BY <1>1, <1>2
<1>3. CASE /\ Outcome(r, PRE_MUTATION_STATES) = "ADVANCED"
           /\ exec' = [exec EXCEPT ![dec[r]] =
                         AdvancedRecord(@, "MUTATED", Disclaims(r))]
           /\ pc'[r] = "done"
  <2>1. pc[r] # "idle" /\ "MUTATED" \in OPEN_STATES \cup TERMINAL_STATES
    BY <1>1 DEF OPEN_STATES, TERMINAL_STATES
  <2>2. QED
    BY <1>1, <1>3, <2>1, AdvancesStep
<1>4. QED
  BY <1>2, <1>3 DEF Reconcile, Advances, Fenced, Goto, Answer, ReleaseThen,
     TypeOK, LocalTypeOK, Callers

(* The stale closure writes a terminal state, or is fenced.                *)
LEMMA FailStaleStep ==
  ASSUME TypeOK, NEW r \in Requests, FailStale(r)
  PROVE  /\ WriteFrame(r) /\ pc[r] = "stale"
         /\ \/ UNCHANGED exec /\ pc'[r] \in {"done"}
            \/ /\ Moved(r, PRE_MUTATION_STATES, "STALE")
               /\ exec'[dec[r]].predates = exec[dec[r]].predates
               /\ pc'[r] = "done"
<1>1. WriteFrame(r) /\ pc[r] = "stale"
  BY DEF FailStale, WriteFrame, Goto, Answer, ReleaseThen, At, TypeOK,
     LocalTypeOK, Callers, cloudVars
<1>2. CASE UNCHANGED exec /\ pc'[r] \in {"done"}
  BY <1>1, <1>2
<1>3. CASE /\ Outcome(r, PRE_MUTATION_STATES) = "ADVANCED"
           /\ exec' = [exec EXCEPT ![dec[r]] =
                         AdvancedRecord(@, "STALE", @.predates)]
           /\ pc'[r] = "done"
  <2>1. pc[r] # "idle" /\ "STALE" \in OPEN_STATES \cup TERMINAL_STATES
    BY <1>1 DEF OPEN_STATES, TERMINAL_STATES
  <2>2. Moved(r, PRE_MUTATION_STATES, "STALE") /\ exec'[dec[r]].predates = exec[dec[r]].predates
    BY <1>3, <2>1, AdvancesStep
  <2>3. QED
    BY <1>1, <1>3, <2>2
<1>4. QED
  BY <1>2, <1>3 DEF FailStale, Advances, Fenced, Goto, Answer, ReleaseThen,
     TypeOK, LocalTypeOK, Callers

(* The precondition write changes nothing but the state, or is fenced.     *)
LEMMA CheckPreconditionStep ==
  ASSUME TypeOK, NEW r \in Requests, CheckPrecondition(r)
  PROVE  /\ WriteFrame(r) /\ pc[r] = "precondition"
         /\ \/ UNCHANGED exec /\ pc'[r] \in {"done"}
            \/ /\ Moved(r, PRE_MUTATION_STATES, "PRECONDITION_CHECKED")
               /\ exec'[dec[r]].predates = exec[dec[r]].predates
               /\ pc'[r] = "reread"
<1>1. WriteFrame(r) /\ pc[r] = "precondition"
  BY DEF CheckPrecondition, WriteFrame, Goto, Answer, ReleaseThen, At,
     TypeOK, LocalTypeOK, Callers, cloudVars
<1>2. CASE UNCHANGED exec /\ pc'[r] \in {"done"}
  BY <1>1, <1>2
<1>3. CASE /\ Outcome(r, PRE_MUTATION_STATES) = "ADVANCED"
           /\ exec' = [exec EXCEPT ![dec[r]] =
                         AdvancedRecord(@, "PRECONDITION_CHECKED", @.predates)]
           /\ pc'[r] = "reread"
  <2>1. pc[r] # "idle" /\ "PRECONDITION_CHECKED" \in OPEN_STATES \cup TERMINAL_STATES
    BY <1>1 DEF OPEN_STATES, TERMINAL_STATES
  <2>2. Moved(r, PRE_MUTATION_STATES, "PRECONDITION_CHECKED") /\ exec'[dec[r]].predates = exec[dec[r]].predates
    BY <1>3, <2>1, AdvancesStep
  <2>3. QED
    BY <1>1, <1>3, <2>2
<1>4. QED
  BY <1>2, <1>3 DEF CheckPrecondition, Advances, Fenced, Goto, Answer,
     ReleaseThen, TypeOK, LocalTypeOK, Callers

(* MUTATION_REQUESTED is written from PRECONDITION_CHECKED, or the request *)
(* is fenced.                                                              *)
LEMMA RequestMutationStep ==
  ASSUME TypeOK, NEW r \in Requests, RequestMutation(r)
  PROVE  /\ WriteFrame(r) /\ pc[r] = "request"
         /\ \/ UNCHANGED exec /\ pc'[r] \in {"done"}
            \/ /\ Moved(r, {"PRECONDITION_CHECKED"}, "MUTATION_REQUESTED")
               /\ exec'[dec[r]].predates = exec[dec[r]].predates
               /\ pc'[r] = "send"
<1>1. WriteFrame(r) /\ pc[r] = "request"
  BY DEF RequestMutation, WriteFrame, Goto, Answer, ReleaseThen, At, TypeOK,
     LocalTypeOK, Callers, cloudVars
<1>2. CASE UNCHANGED exec /\ pc'[r] \in {"done"}
  BY <1>1, <1>2
<1>3. CASE /\ Outcome(r, {"PRECONDITION_CHECKED"}) = "ADVANCED"
           /\ exec' = [exec EXCEPT ![dec[r]] =
                         AdvancedRecord(@, "MUTATION_REQUESTED", @.predates)]
           /\ pc'[r] = "send"
  <2>1. pc[r] # "idle" /\ "MUTATION_REQUESTED" \in OPEN_STATES \cup TERMINAL_STATES
    BY <1>1 DEF OPEN_STATES, TERMINAL_STATES
  <2>2. Moved(r, {"PRECONDITION_CHECKED"}, "MUTATION_REQUESTED") /\ exec'[dec[r]].predates = exec[dec[r]].predates
    BY <1>3, <2>1, AdvancesStep
  <2>3. QED
    BY <1>1, <1>3, <2>2
<1>4. QED
  BY <1>2, <1>3 DEF RequestMutation, Advances, Fenced, Goto, Answer,
     ReleaseThen, TypeOK, LocalTypeOK, Callers

(* The rewind undoes MUTATION_REQUESTED only, and only under the request's *)
(* own epoch.                                                              *)
LEMMA RewindStep ==
  ASSUME TypeOK, NEW r \in Requests, Rewind(r)
  PROVE  /\ WriteFrame(r) /\ pc[r] = "rewind"
         /\ \/ UNCHANGED exec /\ pc'[r] \in {"done"}
            \/ /\ Moved(r, {"MUTATION_REQUESTED"}, "PRECONDITION_CHECKED")
               /\ exec'[dec[r]].predates = exec[dec[r]].predates
               /\ pc'[r] = "release"
<1>1. WriteFrame(r) /\ pc[r] = "rewind"
  BY DEF Rewind, WriteFrame, Goto, Answer, ReleaseThen, At, TypeOK,
     LocalTypeOK, Callers, cloudVars
<1>2. CASE UNCHANGED exec /\ pc'[r] \in {"done"}
  BY <1>1, <1>2
<1>3. CASE /\ Outcome(r, {"MUTATION_REQUESTED"}) = "ADVANCED"
           /\ exec' = [exec EXCEPT ![dec[r]] =
                         AdvancedRecord(@, "PRECONDITION_CHECKED", @.predates)]
           /\ pc'[r] = "release"
  <2>1. pc[r] # "idle" /\ "PRECONDITION_CHECKED" \in OPEN_STATES \cup TERMINAL_STATES
    BY <1>1 DEF OPEN_STATES, TERMINAL_STATES
  <2>2. Moved(r, {"MUTATION_REQUESTED"}, "PRECONDITION_CHECKED") /\ exec'[dec[r]].predates = exec[dec[r]].predates
    BY <1>3, <2>1, AdvancesStep
  <2>3. QED
    BY <1>1, <1>3, <2>2
<1>4. QED
  BY <1>2, <1>3 DEF Rewind, Advances, Fenced, Goto, Answer, ReleaseThen,
     TypeOK, LocalTypeOK, Callers

(* An accepted mutation is recorded under the request's own epoch, or not  *)
(* at all.                                                                 *)
LEMMA RecordMutationStep ==
  ASSUME TypeOK, NEW r \in Requests, RecordMutation(r)
  PROVE  /\ WriteFrame(r) /\ pc[r] = "record"
         /\ \/ UNCHANGED exec /\ pc'[r] \in {"done", "retake"}
            \/ /\ Moved(r, {"MUTATION_REQUESTED"}, "MUTATED")
               /\ exec'[dec[r]].predates = exec[dec[r]].predates
               /\ pc'[r] = "file"
<1>1. WriteFrame(r) /\ pc[r] = "record"
  BY DEF RecordMutation, WriteFrame, Goto, Answer, ReleaseThen, At, TypeOK,
     LocalTypeOK, Callers, cloudVars
<1>2. CASE UNCHANGED exec /\ pc'[r] \in {"done", "retake"}
  BY <1>1, <1>2
<1>3. CASE /\ Outcome(r, {"MUTATION_REQUESTED"}) = "ADVANCED"
           /\ exec' = [exec EXCEPT ![dec[r]] =
                         AdvancedRecord(@, "MUTATED", @.predates)]
           /\ pc'[r] = "file"
  <2>1. pc[r] # "idle" /\ "MUTATED" \in OPEN_STATES \cup TERMINAL_STATES
    BY <1>1 DEF OPEN_STATES, TERMINAL_STATES
  <2>2. Moved(r, {"MUTATION_REQUESTED"}, "MUTATED") /\ exec'[dec[r]].predates = exec[dec[r]].predates
    BY <1>3, <2>1, AdvancesStep
  <2>3. QED
    BY <1>1, <1>3, <2>2
<1>4. QED
  BY <1>2, <1>3 DEF RecordMutation, Advances, Fenced, Goto, Answer,
     ReleaseThen, TypeOK, LocalTypeOK, Callers

(* The same once the lapsed lease is taken back.                           *)
LEMMA RecordAgainStep ==
  ASSUME TypeOK, NEW r \in Requests, RecordAgain(r)
  PROVE  /\ WriteFrame(r) /\ pc[r] = "record_again"
         /\ \/ UNCHANGED exec /\ pc'[r] \in {"done"}
            \/ /\ Moved(r, {"MUTATION_REQUESTED"}, "MUTATED")
               /\ exec'[dec[r]].predates = exec[dec[r]].predates
               /\ pc'[r] = "file"
<1>1. WriteFrame(r) /\ pc[r] = "record_again"
  BY DEF RecordAgain, WriteFrame, Goto, Answer, ReleaseThen, At, TypeOK,
     LocalTypeOK, Callers, cloudVars
<1>2. CASE UNCHANGED exec /\ pc'[r] \in {"done"}
  BY <1>1, <1>2
<1>3. CASE /\ Outcome(r, {"MUTATION_REQUESTED"}) = "ADVANCED"
           /\ exec' = [exec EXCEPT ![dec[r]] =
                         AdvancedRecord(@, "MUTATED", @.predates)]
           /\ pc'[r] = "file"
  <2>1. pc[r] # "idle" /\ "MUTATED" \in OPEN_STATES \cup TERMINAL_STATES
    BY <1>1 DEF OPEN_STATES, TERMINAL_STATES
  <2>2. Moved(r, {"MUTATION_REQUESTED"}, "MUTATED") /\ exec'[dec[r]].predates = exec[dec[r]].predates
    BY <1>3, <2>1, AdvancesStep
  <2>3. QED
    BY <1>1, <1>3, <2>2
<1>4. QED
  BY <1>2, <1>3 DEF RecordAgain, Advances, Fenced, Goto, Answer,
     ReleaseThen, TypeOK, LocalTypeOK, Callers

-----------------------------------------------------------------------------
(* Epochs.                                                                 *)

(* A step that issues no epoch and lets nobody past acquire keeps the      *)
(* epochs.                                                                 *)
LEMMA EpochFrame ==
  ASSUME TypeOK, RequestInv, EpochInv, UNCHANGED epoch,
         \A q \in Requests : dec'[q] = dec[q],
         \A d \in Decisions : exec'[d].epoch = exec[d].epoch,
         \A q \in Requests : pc'[q] \in BoundSteps \ {"acquire"}
                              => pc[q] \in BoundSteps \ {"acquire"}
  PROVE  EpochInv'
<1>1. \A q \in Requests : epoch[q] > 0 => dec[q] \in Decisions
  BY DEF TypeOK, LocalTypeOK, Callers, RequestInv
<1>2. QED
  BY <1>1 DEF EpochInv, EpochsAreExclusive

(* A takeover issues an epoch nobody holds.                                *)
LEMMA EpochTaken ==
  ASSUME TypeOK, RequestInv, EpochInv, NEW r \in Requests, pc[r] # "idle",
         Takes(r), UNCHANGED dec,
         \A q \in Requests \ {r} : pc'[q] = pc[q]
  PROVE  EpochInv'
<1>1. \A q \in Requests : epoch[q] > 0 => dec[q] \in Decisions
  BY DEF TypeOK, LocalTypeOK, Callers, RequestInv
<1>2. \A d \in Decisions : exec[d].epoch \in Nat
  BY DEF TypeOK, Record
<1>3. \A q \in Requests : epoch[q] \in Nat
  BY DEF TypeOK
<1>4. dec[r] \in Decisions /\ epoch'[r] = exec[dec[r]].epoch + 1
      /\ exec'[dec[r]].epoch = exec[dec[r]].epoch + 1
  BY TakesStep
<1>5. \A q \in Requests \ {r} : epoch'[q] = epoch[q]
  BY TakesStep
<1>6. \A d \in Decisions \ {dec[r]} : exec'[d].epoch = exec[d].epoch
  BY TakesStep
<1>7. \A q \in Requests \ {r} :
        /\ epoch[q] > 0 => epoch[q] <= exec[dec[q]].epoch
        /\ pc[q] \in BoundSteps \ {"acquire"} => epoch[q] > 0
  BY DEF EpochInv
<1>8. \A q \in Requests : epoch'[q] > 0 => epoch'[q] <= exec'[dec[q]].epoch
  BY <1>1, <1>2, <1>3, <1>4, <1>5, <1>6, <1>7
<1>9. \A q \in Requests : pc'[q] \in BoundSteps \ {"acquire"} => epoch'[q] > 0
  BY <1>2, <1>4, <1>5, <1>7
<1>10. \A q \in Requests \ {r} :
         dec[q] = dec[r] /\ epoch[q] > 0 => epoch'[r] # epoch[q]
  BY <1>2, <1>3, <1>4, <1>7
<1>11. EpochsAreExclusive'
  BY <1>5, <1>10 DEF EpochInv, EpochsAreExclusive
<1>12. QED
  BY <1>8, <1>9, <1>11 DEF EpochInv

(* Every step keeps the epochs exclusive.                                  *)
LEMMA StepEpochInv ==
  ASSUME TypeOK, RequestInv, EpochInv, [Next]_vars
  PROVE  EpochInv'
<1>1. ASSUME NEW r \in Requests, NEW d \in Decisions, ReceiveExecute(r, d)
      PROVE  EpochInv'
  BY <1>1 DEF ReceiveExecute, EpochInv, EpochsAreExclusive, RequestInv,
     BoundSteps, ExecuteSteps, At, Goto, Answer, ReleaseThen, TypeOK,
     LocalTypeOK, Callers, planeVars, cloudVars, localVars
<1>2. ASSUME NEW r \in Requests, Quiet(r)
      PROVE  EpochInv'
  BY <1>2, QuietStep, EpochFrame
<1>3. ASSUME NEW r \in Requests, Bind(r)
      PROVE  EpochInv'
  BY <1>3, EpochFrame DEF Bind, BoundSteps, ExecuteSteps, At, Goto, Answer,
     ReleaseThen, TypeOK, LocalTypeOK, Callers, planeVars, cloudVars,
     localVars
<1>4. ASSUME NEW r \in Requests, Acquire(r)
      PROVE  EpochInv'
  <2>1. CASE Takes(r)
    <3>1. pc[r] # "idle" /\ UNCHANGED dec
          /\ \A q \in Requests \ {r} : pc'[q] = pc[q]
      BY <1>4 DEF Acquire, At, Goto, Answer, TypeOK, LocalTypeOK, Callers
    <3>2. QED
      BY <2>1, <3>1, EpochTaken
  <2>2. CASE ~Takes(r)
    BY <1>4, <2>2, EpochFrame DEF Acquire, At, Goto, Answer, BoundSteps,
       ExecuteSteps, TypeOK, LocalTypeOK, Callers
  <2>3. QED
    BY <2>1, <2>2
<1>5. ASSUME NEW r \in Requests, Reconcile(r)
      PROVE  EpochInv'
  BY <1>5, ReconcileStep, EpochFrame DEF WriteFrame, Moved, BoundSteps,
     ExecuteSteps
<1>6. ASSUME NEW r \in Requests, FailStale(r)
      PROVE  EpochInv'
  BY <1>6, FailStaleStep, EpochFrame DEF WriteFrame, Moved, BoundSteps,
     ExecuteSteps
<1>7. ASSUME NEW r \in Requests, CheckPrecondition(r)
      PROVE  EpochInv'
  BY <1>7, CheckPreconditionStep, EpochFrame DEF WriteFrame, Moved,
     BoundSteps, ExecuteSteps
<1>8. ASSUME NEW r \in Requests, RequestMutation(r)
      PROVE  EpochInv'
  BY <1>8, RequestMutationStep, EpochFrame DEF WriteFrame, Moved,
     BoundSteps, ExecuteSteps
<1>9. ASSUME NEW r \in Requests, SendPut(r)
      PROVE  EpochInv'
  BY <1>9, EpochFrame DEF SendPut, BoundSteps, ExecuteSteps, At, Goto,
     Answer, ReleaseThen, TypeOK, LocalTypeOK, Callers, planeVars,
     cloudVars, localVars
<1>10. ASSUME NEW r \in Requests, Rewind(r)
       PROVE  EpochInv'
  BY <1>10, RewindStep, EpochFrame DEF WriteFrame, Moved, BoundSteps,
     ExecuteSteps
<1>11. ASSUME NEW r \in Requests, Release(r)
       PROVE  EpochInv'
  BY <1>11, ReleaseStep, EpochFrame DEF Release, Answer, BoundSteps,
     ExecuteSteps, TypeOK, LocalTypeOK, Callers
<1>12. ASSUME NEW r \in Requests, RecordMutation(r)
       PROVE  EpochInv'
  BY <1>12, RecordMutationStep, EpochFrame DEF WriteFrame, Moved,
     BoundSteps, ExecuteSteps
<1>13. ASSUME NEW r \in Requests, RetakeLease(r)
       PROVE  EpochInv'
  <2>1. CASE Takes(r)
    <3>1. pc[r] # "idle" /\ UNCHANGED dec
          /\ \A q \in Requests \ {r} : pc'[q] = pc[q]
      BY <1>13 DEF RetakeLease, At, Goto, Answer, TypeOK, LocalTypeOK, Callers
    <3>2. QED
      BY <2>1, <3>1, EpochTaken
  <2>2. CASE ~Takes(r)
    BY <1>13, <2>2, EpochFrame DEF RetakeLease, At, Goto, Answer,
       BoundSteps, ExecuteSteps, TypeOK, LocalTypeOK, Callers
  <2>3. QED
    BY <2>1, <2>2
<1>14. ASSUME NEW r \in Requests, RecordAgain(r)
       PROVE  EpochInv'
  BY <1>14, RecordAgainStep, EpochFrame DEF WriteFrame, Moved, BoundSteps,
     ExecuteSteps
<1>15. ASSUME NEW r \in Requests, FileReceipt(r)
       PROVE  EpochInv'
  BY <1>15, EpochFrame DEF FileReceipt, BoundSteps, ExecuteSteps, At, Goto,
     Answer, ReleaseThen, TypeOK, LocalTypeOK, Callers, planeVars,
     cloudVars, localVars
<1>16. ASSUME NEW r \in Requests, ApplyPut(r)
       PROVE  EpochInv'
  BY <1>16, EpochFrame DEF ApplyPut, BoundSteps, ExecuteSteps, At, Goto,
     Answer, ReleaseThen, TypeOK, LocalTypeOK, Callers, planeVars,
     cloudVars, localVars
<1>17. ASSUME NEW r \in Requests, RefusePut(r)
       PROVE  EpochInv'
  BY <1>17, EpochFrame DEF RefusePut, BoundSteps, ExecuteSteps, At, Goto,
     Answer, ReleaseThen, TypeOK, LocalTypeOK, Callers, planeVars,
     cloudVars, localVars
<1>18. ASSUME NEW r \in Requests, LosePut(r)
       PROVE  EpochInv'
  BY <1>18, EpochFrame DEF LosePut, BoundSteps, ExecuteSteps, At, Goto,
     Answer, ReleaseThen, TypeOK, LocalTypeOK, Callers, planeVars,
     cloudVars, localVars
<1>19. CASE Outside
  BY <1>19, OutsideStep, EpochFrame DEF OutsideFrame
<1>20. QED
  BY <1>1, <1>2, <1>3, <1>4, <1>5, <1>6, <1>7, <1>8, <1>9, <1>10, <1>11,
     <1>12, <1>13, <1>14, <1>15, <1>16, <1>17, <1>18, <1>19
  DEF Next, ExecuteStep, CloudRunStep, Outside, Quiet

-----------------------------------------------------------------------------
(* What a deciding request knows.                                          *)

(* A step that leaves open documents alone keeps what deciding requests    *)
(* know.                                                                   *)
LEMMA SeenFrame ==
  ASSUME TypeOK, SeenInv, UNCHANGED <<epoch, seen>>,
         \A q \in Requests : dec'[q] = dec[q],
         \A d \in Decisions :
           /\ exec'[d].epoch = exec[d].epoch
           /\ exec'[d].state \in OPEN_STATES
                => /\ exec'[d].state = exec[d].state
                   /\ exec'[d].predates = exec[d].predates,
         \A q \in Requests : pc'[q] = pc[q] \/ ~Deciding(q)'
  PROVE  SeenInv'
<1>1. \A q \in Requests : Deciding(q) => dec[q] \in Decisions
  BY DEF Deciding, TypeOK, LocalTypeOK, Callers
<1>2. \A q \in Requests : Deciding(q)' => Deciding(q) /\ pc'[q] = pc[q]
  BY DEF Deciding
<1>3. \A q \in Requests : pc'[q] \in {"stale", "precondition"} => Deciding(q)'
  BY DEF Deciding
<1>4. QED
  BY <1>1, <1>2, <1>3 DEF SeenInv, Attempted

(* Whoever holds the current epoch is the only one the record binds.       *)
LEMMA SeenWritten ==
  ASSUME TypeOK, SeenInv, EpochInv, NEW r \in Requests,
         WriteFrame(r), NEW from, NEW s, Moved(r, from, s),
         pc[r] \in BoundSteps \ {"acquire"}, ~Deciding(r)'
  PROVE  SeenInv'
<1>1. \A q \in Requests : Deciding(q) => dec[q] \in Decisions
  BY DEF Deciding, TypeOK, LocalTypeOK, Callers
<1>2. \A q \in Requests : Deciding(q)' => q # r /\ Deciding(q) /\ pc'[q] = pc[q]
  BY DEF Deciding, WriteFrame
<1>3. \A q \in Requests : pc'[q] \in {"stale", "precondition"} => Deciding(q)'
  BY DEF Deciding
<1>4. \A q \in Requests \ {r} :
        dec[q] = dec[r] => epoch[q] # exec'[dec[q]].epoch
  BY DEF EpochInv, EpochsAreExclusive, Moved, TypeOK
<1>5. \A q \in Requests :
        Deciding(q)' /\ dec[q] # dec[r] => exec'[dec[q]] = exec[dec[q]]
  BY <1>1, <1>2 DEF Moved
<1>6. QED
  BY <1>2, <1>3, <1>4, <1>5 DEF SeenInv, Attempted, WriteFrame

(* A takeover refreshes what its own request knows and outdates everybody  *)
(* else.                                                                   *)
LEMMA SeenTaken ==
  ASSUME TypeOK, RequestInv, EpochInv, SeenInv, NEW r \in Requests,
         pc[r] # "idle", Takes(r), UNCHANGED dec,
         \A q \in Requests \ {r} : pc'[q] = pc[q] /\ seen'[q] = seen[q],
         \/ ~Deciding(r)'
         \/ pc'[r] = "observe" /\ seen'[r] = AcquiredRecord(Doc(r), WorkerOf[r])
  PROVE  SeenInv'
<1>1. \A q \in Requests : Deciding(q) => dec[q] \in Decisions
  BY DEF Deciding, TypeOK, LocalTypeOK, Callers
<1>2. /\ dec[r] \in Decisions
      /\ exec'[dec[r]] = AcquiredRecord(Doc(r), WorkerOf[r])
      /\ exec'[dec[r]].epoch = exec[dec[r]].epoch + 1
      /\ \A d \in Decisions \ {dec[r]} : exec'[d] = exec[d]
      /\ \A q \in Requests \ {r} : epoch'[q] = epoch[q]
  BY TakesStep
<1>3. \A q \in Requests \ {r} : pc'[q] = pc[q] /\ (Deciding(q)' => Deciding(q))
  BY DEF Deciding
<1>4. \A q \in Requests \ {r} :
        Deciding(q) /\ dec[q] = dec[r] => epoch[q] # exec'[dec[q]].epoch
  <2>1. \A q \in Requests : Deciding(q) => epoch[q] > 0
    BY DEF EpochInv, Deciding, BoundSteps, ExecuteSteps
  <2>2. \A q \in Requests : epoch[q] > 0 => epoch[q] <= exec[dec[q]].epoch
    BY DEF EpochInv
  <2>3. exec[dec[r]].epoch \in Nat /\ \A q \in Requests : epoch[q] \in Nat
    BY <1>2 DEF TypeOK, Record
  <2>4. QED
    BY <1>2, <2>1, <2>2, <2>3
<1>5. \A q \in Requests \ {r} :
        /\ Deciding(q)' /\ epoch'[q] = exec'[dec[q]].epoch
                        /\ exec'[dec[q]].state \in OPEN_STATES
             => /\ exec'[dec[q]].state = seen'[q].state
                /\ exec'[dec[q]].predates = seen'[q].predates
        /\ pc'[q] \in {"stale", "precondition"} => ~Attempted(q)'
  BY <1>1, <1>2, <1>3, <1>4 DEF SeenInv, Attempted
<1>6. /\ Deciding(r)' => exec'[dec[r]] = seen'[r]
      /\ pc'[r] \notin {"stale", "precondition"}
  BY <1>2 DEF Deciding
<1>7. QED
  BY <1>5, <1>6 DEF SeenInv

(* Every step keeps the copy of a current request equal to the document.   *)
LEMMA StepSeenInv ==
  ASSUME TypeOK, RequestInv, EpochInv, SeenInv, [Next]_vars
  PROVE  SeenInv'
<1>1. ASSUME NEW r \in Requests, NEW d \in Decisions, ReceiveExecute(r, d)
      PROVE  SeenInv'
  <2>1. pc'[r] \in {"validate", "done"} /\ UNCHANGED <<exec, epoch, seen>>
        /\ \A q \in Requests \ {r} : pc'[q] = pc[q] /\ dec'[q] = dec[q]
    BY <1>1 DEF ReceiveExecute, At, Goto, Answer, ReleaseThen, TypeOK,
       LocalTypeOK, Callers, planeVars, cloudVars, localVars
  <2>2. QED
    BY <2>1 DEF SeenInv, Deciding, Attempted
<1>2. ASSUME NEW r \in Requests, Quiet(r)
      PROVE  SeenInv'
  <2>1. /\ UNCHANGED <<exec, dec, epoch, seen>>
        /\ \A q \in Requests : Deciding(q)' => Deciding(q)
        /\ \A q \in Requests : pc'[q] \in {"stale", "precondition"} => ~Attempted(q)
    BY <1>2, QuietStep DEF Deciding, SeenInv
  <2>2. QED
    BY <2>1 DEF SeenInv, Deciding, Attempted
<1>3. ASSUME NEW r \in Requests, Bind(r)
      PROVE  SeenInv'
  BY <1>3, SeenFrame DEF Bind, Deciding, At, Goto, Answer, ReleaseThen,
     TypeOK, LocalTypeOK, Callers, planeVars, cloudVars, localVars
<1>4. ASSUME NEW r \in Requests, Acquire(r)
      PROVE  SeenInv'
  <2>1. CASE Takes(r)
    BY <1>4, <2>1, SeenTaken DEF Acquire, Takes, Deciding, At, Goto, Answer,
       TypeOK, LocalTypeOK, Callers
  <2>2. CASE ~Takes(r)
    BY <1>4, <2>2, SeenFrame DEF Acquire, Deciding, At, Goto, Answer,
       TypeOK, LocalTypeOK, Callers
  <2>3. QED
    BY <2>1, <2>2
<1>5. ASSUME NEW r \in Requests, Reconcile(r)
      PROVE  SeenInv'
  <2>1. WriteFrame(r) /\ pc[r] \in BoundSteps \ {"acquire"} /\ ~Deciding(r)'
    BY <1>5, ReconcileStep DEF BoundSteps, ExecuteSteps, Deciding
  <2>2. CASE UNCHANGED exec
    BY <2>1, <2>2, SeenFrame DEF WriteFrame
  <2>3. CASE Moved(r, PRE_MUTATION_STATES, "MUTATED")
    BY <2>1, <2>3, SeenWritten
  <2>4. QED
    BY <1>5, <2>2, <2>3, ReconcileStep
<1>6. ASSUME NEW r \in Requests, FailStale(r)
      PROVE  SeenInv'
  <2>1. WriteFrame(r) /\ pc[r] \in BoundSteps \ {"acquire"} /\ ~Deciding(r)'
    BY <1>6, FailStaleStep DEF BoundSteps, ExecuteSteps, Deciding
  <2>2. CASE UNCHANGED exec
    BY <2>1, <2>2, SeenFrame DEF WriteFrame
  <2>3. CASE Moved(r, PRE_MUTATION_STATES, "STALE")
    BY <2>1, <2>3, SeenWritten
  <2>4. QED
    BY <1>6, <2>2, <2>3, FailStaleStep
<1>7. ASSUME NEW r \in Requests, CheckPrecondition(r)
      PROVE  SeenInv'
  <2>1. WriteFrame(r) /\ pc[r] \in BoundSteps \ {"acquire"} /\ ~Deciding(r)'
    BY <1>7, CheckPreconditionStep DEF BoundSteps, ExecuteSteps, Deciding
  <2>2. CASE UNCHANGED exec
    BY <2>1, <2>2, SeenFrame DEF WriteFrame
  <2>3. CASE Moved(r, PRE_MUTATION_STATES, "PRECONDITION_CHECKED")
    BY <2>1, <2>3, SeenWritten
  <2>4. QED
    BY <1>7, <2>2, <2>3, CheckPreconditionStep
<1>8. ASSUME NEW r \in Requests, RequestMutation(r)
      PROVE  SeenInv'
  <2>1. WriteFrame(r) /\ pc[r] \in BoundSteps \ {"acquire"} /\ ~Deciding(r)'
    BY <1>8, RequestMutationStep DEF BoundSteps, ExecuteSteps, Deciding
  <2>2. CASE UNCHANGED exec
    BY <2>1, <2>2, SeenFrame DEF WriteFrame
  <2>3. CASE Moved(r, {"PRECONDITION_CHECKED"}, "MUTATION_REQUESTED")
    BY <2>1, <2>3, SeenWritten
  <2>4. QED
    BY <1>8, <2>2, <2>3, RequestMutationStep
<1>9. ASSUME NEW r \in Requests, SendPut(r)
      PROVE  SeenInv'
  BY <1>9, SeenFrame DEF SendPut, Deciding, At, Goto, Answer, ReleaseThen,
     TypeOK, LocalTypeOK, Callers, planeVars, cloudVars, localVars
<1>10. ASSUME NEW r \in Requests, Rewind(r)
       PROVE  SeenInv'
  <2>1. WriteFrame(r) /\ pc[r] \in BoundSteps \ {"acquire"} /\ ~Deciding(r)'
    BY <1>10, RewindStep DEF BoundSteps, ExecuteSteps, Deciding
  <2>2. CASE UNCHANGED exec
    BY <2>1, <2>2, SeenFrame DEF WriteFrame
  <2>3. CASE Moved(r, {"MUTATION_REQUESTED"}, "PRECONDITION_CHECKED")
    BY <2>1, <2>3, SeenWritten
  <2>4. QED
    BY <1>10, <2>2, <2>3, RewindStep
<1>11. ASSUME NEW r \in Requests, Release(r)
       PROVE  SeenInv'
  BY <1>11, ReleaseStep, SeenFrame DEF Release, Answer, Deciding, TypeOK,
     LocalTypeOK, Callers
<1>12. ASSUME NEW r \in Requests, RecordMutation(r)
       PROVE  SeenInv'
  <2>1. WriteFrame(r) /\ pc[r] \in BoundSteps \ {"acquire"} /\ ~Deciding(r)'
    BY <1>12, RecordMutationStep DEF BoundSteps, ExecuteSteps, Deciding
  <2>2. CASE UNCHANGED exec
    BY <2>1, <2>2, SeenFrame DEF WriteFrame
  <2>3. CASE Moved(r, {"MUTATION_REQUESTED"}, "MUTATED")
    BY <2>1, <2>3, SeenWritten
  <2>4. QED
    BY <1>12, <2>2, <2>3, RecordMutationStep
<1>13. ASSUME NEW r \in Requests, RetakeLease(r)
       PROVE  SeenInv'
  <2>1. CASE Takes(r)
    BY <1>13, <2>1, SeenTaken DEF RetakeLease, Takes, Deciding, At, Goto,
       Answer, TypeOK, LocalTypeOK, Callers
  <2>2. CASE ~Takes(r)
    BY <1>13, <2>2, SeenFrame DEF RetakeLease, Deciding, At, Goto, Answer,
       TypeOK, LocalTypeOK, Callers
  <2>3. QED
    BY <2>1, <2>2
<1>14. ASSUME NEW r \in Requests, RecordAgain(r)
       PROVE  SeenInv'
  <2>1. WriteFrame(r) /\ pc[r] \in BoundSteps \ {"acquire"} /\ ~Deciding(r)'
    BY <1>14, RecordAgainStep DEF BoundSteps, ExecuteSteps, Deciding
  <2>2. CASE UNCHANGED exec
    BY <2>1, <2>2, SeenFrame DEF WriteFrame
  <2>3. CASE Moved(r, {"MUTATION_REQUESTED"}, "MUTATED")
    BY <2>1, <2>3, SeenWritten
  <2>4. QED
    BY <1>14, <2>2, <2>3, RecordAgainStep
<1>15. ASSUME NEW r \in Requests, FileReceipt(r)
       PROVE  SeenInv'
  BY <1>15, SeenFrame DEF FileReceipt, Deciding, At, Goto, Answer,
     ReleaseThen, TypeOK, LocalTypeOK, Callers, planeVars, cloudVars,
     localVars
<1>16. ASSUME NEW r \in Requests, ApplyPut(r)
       PROVE  SeenInv'
  BY <1>16, SeenFrame DEF ApplyPut, Deciding, At, Goto, Answer, ReleaseThen,
     TypeOK, LocalTypeOK, Callers, planeVars, cloudVars, localVars
<1>17. ASSUME NEW r \in Requests, RefusePut(r)
       PROVE  SeenInv'
  BY <1>17, SeenFrame DEF RefusePut, Deciding, At, Goto, Answer,
     ReleaseThen, TypeOK, LocalTypeOK, Callers, planeVars, cloudVars,
     localVars
<1>18. ASSUME NEW r \in Requests, LosePut(r)
       PROVE  SeenInv'
  BY <1>18, SeenFrame DEF LosePut, Deciding, At, Goto, Answer, ReleaseThen,
     TypeOK, LocalTypeOK, Callers, planeVars, cloudVars, localVars
<1>19. CASE Outside
  BY <1>19, OutsideStep, SeenFrame DEF OutsideFrame, OPEN_STATES
<1>20. QED
  BY <1>1, <1>2, <1>3, <1>4, <1>5, <1>6, <1>7, <1>8, <1>9, <1>10, <1>11,
     <1>12, <1>13, <1>14, <1>15, <1>16, <1>17, <1>18, <1>19
  DEF Next, ExecuteStep, CloudRunStep, Outside, Quiet

-----------------------------------------------------------------------------
(* Calls and the record that announces them.                               *)

(* Steps that arm nobody and leave an attempted record attempted.          *)
LEMMA EffectFrame ==
  ASSUME TypeOK, RequestInv, EffectInv,
         \A q \in Requests : Armed(q)' => Armed(q) /\ dec'[q] = dec[q],
         \A d \in Decisions :
           exec[d].state \in ATTEMPTED_STATES \cup {"VERIFIED"} =>
             \/ \A q \in Requests : Armed(q)' => dec[q] # d
             \/ /\ exec'[d].state \in ATTEMPTED_STATES \cup {"VERIFIED"}
                /\ exec'[d].predates = exec[d].predates
  PROVE  EffectInv'
<1>1. \A q \in Requests : Armed(q) => dec[q] \in Decisions
  BY DEF Armed, MayTakeEffect, TypeOK, LocalTypeOK, Callers
<1>2. \A q \in Requests : Armed(q)' =>
        /\ exec'[dec[q]].state \in ATTEMPTED_STATES \cup {"VERIFIED"}
        /\ ~exec'[dec[q]].predates
  BY <1>1 DEF EffectInv
<1>3. \A q, s \in Requests : Armed(q)' /\ Armed(s)' /\ dec[s] = dec[q] => s = q
  BY DEF EffectInv
<1>4. QED
  BY <1>2, <1>3 DEF EffectInv

(* A request that decides under the current epoch knows what was attempted.*)
LEMMA DecidingKnows ==
  ASSUME SeenInv, NEW r \in Requests, Deciding(r),
         exec[dec[r]].epoch = epoch[r], exec[dec[r]].state \in OPEN_STATES
  PROVE  /\ Attempted(r) <=> exec[dec[r]].state \in ATTEMPTED_STATES
         /\ seen[r].predates = exec[dec[r]].predates
BY DEF SeenInv, Attempted

(* An execution seen as attempted keeps the provenance it has.             *)
LEMMA DisclaimsKept ==
  ASSUME TypeOK, NEW r \in Requests, Attempted(r)
  PROVE  Disclaims(r) = seen[r].predates
<1>1. seen[r].predates \in BOOLEAN
  BY DEF TypeOK, Record
<1>2. CASE seen[r].predates = TRUE
  BY <1>2 DEF Disclaims
<1>3. CASE seen[r].predates = FALSE
  BY <1>3 DEF Disclaims
<1>4. QED
  BY <1>1, <1>2, <1>3

(* Every step keeps one armed request per execution, and the record saying *)
(* so.                                                                     *)
LEMMA StepEffectInv ==
  ASSUME TypeOK, RequestInv, SeenInv, EffectInv, DisclaimInv, [Next]_vars
  PROVE  EffectInv'
<1>1. ASSUME NEW r \in Requests, NEW d \in Decisions, ReceiveExecute(r, d)
      PROVE  EffectInv'
  <2>1. \A q \in Requests : Armed(q)' => Armed(q) /\ dec'[q] = dec[q]
    BY <1>1 DEF ReceiveExecute, Armed, MayTakeEffect, At, Goto, Answer,
       ReleaseThen, TypeOK, LocalTypeOK, Callers, planeVars, cloudVars,
       localVars
  <2>2. UNCHANGED exec
    BY <1>1 DEF ReceiveExecute, planeVars
  <2>3. QED
    BY <2>1, <2>2, EffectFrame
<1>2. ASSUME NEW r \in Requests, Quiet(r)
      PROVE  EffectInv'
  <2>1. \A q \in Requests : Armed(q)' => Armed(q) /\ dec'[q] = dec[q]
    BY <1>2, QuietStep DEF Armed, MayTakeEffect
  <2>2. QED
    BY <1>2, <2>1, QuietStep, EffectFrame
<1>3. ASSUME NEW r \in Requests, Bind(r)
      PROVE  EffectInv'
  <2>1. \A q \in Requests : Armed(q)' => Armed(q) /\ dec'[q] = dec[q]
    BY <1>3 DEF Bind, Armed, MayTakeEffect, RequestInv, BeforeCall, At,
       Goto, Answer, ReleaseThen, TypeOK, LocalTypeOK, Callers, planeVars,
       cloudVars, localVars
  <2>2. UNCHANGED exec
    BY <1>3 DEF Bind, planeVars
  <2>3. QED
    BY <2>1, <2>2, EffectFrame
<1>4. ASSUME NEW r \in Requests, Acquire(r)
      PROVE  EffectInv'
  <2>1. pc[r] # "idle" /\ \A q \in Requests : Armed(q)' => Armed(q) /\ dec'[q] = dec[q]
    BY <1>4 DEF Acquire, Armed, MayTakeEffect, RequestInv, BeforeCall, At,
       Goto, Answer, ReleaseThen, TypeOK, LocalTypeOK, Callers, planeVars,
       cloudVars, localVars
  <2>2. CASE Takes(r)
    <3>1. \A d \in Decisions :
            exec[d].state \in ATTEMPTED_STATES \cup {"VERIFIED"} =>
              /\ exec'[d].state = exec[d].state
              /\ exec'[d].predates = exec[d].predates
      BY <2>1, <2>2, TakesStep DEF ATTEMPTED_STATES
    <3>2. QED
      BY <2>1, <3>1, EffectFrame
  <2>3. CASE ~Takes(r)
    BY <1>4, <2>1, <2>3, EffectFrame DEF Acquire
  <2>4. QED
    BY <2>2, <2>3
<1>5. ASSUME NEW r \in Requests, Reconcile(r)
      PROVE  EffectInv'
  <2>1. \A q \in Requests : Armed(q)' => Armed(q) /\ dec'[q] = dec[q]
    BY <1>5, ReconcileStep DEF WriteFrame, Armed, MayTakeEffect
  <2>2. CASE UNCHANGED exec
    BY <2>1, <2>2, EffectFrame
  <2>3. ASSUME Moved(r, PRE_MUTATION_STATES, "MUTATED"),
               exec'[dec[r]].predates = Disclaims(r)
        PROVE  EffectInv'
    <3>1. /\ Deciding(r) /\ exec[dec[r]].epoch = epoch[r]
          /\ exec[dec[r]].state \in OPEN_STATES
      BY <1>5, <2>3, ReconcileStep DEF Deciding, Moved
    <3>2. /\ Attempted(r) <=> exec[dec[r]].state \in ATTEMPTED_STATES
          /\ seen[r].predates = exec[dec[r]].predates
      BY <3>1, DecidingKnows
    <3>3. exec[dec[r]].state \in ATTEMPTED_STATES =>
            exec'[dec[r]].predates = exec[dec[r]].predates
      BY <2>3, <3>2, DisclaimsKept
    <3>4. exec'[dec[r]].state \in ATTEMPTED_STATES
      BY <2>3 DEF Moved, ATTEMPTED_STATES
    <3>5. "VERIFIED" \notin OPEN_STATES
      BY DEF OPEN_STATES
    <3>6. QED
      BY <2>1, <2>3, <3>1, <3>3, <3>4, <3>5, EffectFrame DEF Moved
  <2>4. QED
    BY <1>5, <2>2, <2>3, ReconcileStep
<1>6. ASSUME NEW r \in Requests, FailStale(r)
      PROVE  EffectInv'
  <2>1. \A q \in Requests : Armed(q)' => Armed(q) /\ dec'[q] = dec[q]
    BY <1>6, FailStaleStep DEF WriteFrame, Armed, MayTakeEffect
  <2>2. CASE UNCHANGED exec
    BY <2>1, <2>2, EffectFrame
  <2>3. ASSUME Moved(r, PRE_MUTATION_STATES, "STALE"),
               exec'[dec[r]].predates = exec[dec[r]].predates
        PROVE  EffectInv'
    <3>1. /\ Deciding(r) /\ exec[dec[r]].epoch = epoch[r]
          /\ exec[dec[r]].state \in OPEN_STATES
      BY <1>6, <2>3, FailStaleStep DEF Deciding, Moved
    <3>2. /\ Attempted(r) <=> exec[dec[r]].state \in ATTEMPTED_STATES
          /\ seen[r].predates = exec[dec[r]].predates
      BY <3>1, DecidingKnows
    <3>3. exec[dec[r]].state \notin ATTEMPTED_STATES \cup {"VERIFIED"}
      BY <1>6, <3>1, <3>2, FailStaleStep DEF SeenInv, OPEN_STATES
    <3>4. QED
      BY <2>1, <2>3, <3>3, EffectFrame DEF Moved
  <2>4. QED
    BY <1>6, <2>2, <2>3, FailStaleStep
<1>7. ASSUME NEW r \in Requests, CheckPrecondition(r)
      PROVE  EffectInv'
  <2>1. \A q \in Requests : Armed(q)' => Armed(q) /\ dec'[q] = dec[q]
    BY <1>7, CheckPreconditionStep DEF WriteFrame, Armed, MayTakeEffect
  <2>2. CASE UNCHANGED exec
    BY <2>1, <2>2, EffectFrame
  <2>3. ASSUME Moved(r, PRE_MUTATION_STATES, "PRECONDITION_CHECKED"),
               exec'[dec[r]].predates = exec[dec[r]].predates
        PROVE  EffectInv'
    <3>1. /\ Deciding(r) /\ exec[dec[r]].epoch = epoch[r]
          /\ exec[dec[r]].state \in OPEN_STATES
      BY <1>7, <2>3, CheckPreconditionStep DEF Deciding, Moved
    <3>2. /\ Attempted(r) <=> exec[dec[r]].state \in ATTEMPTED_STATES
          /\ seen[r].predates = exec[dec[r]].predates
      BY <3>1, DecidingKnows
    <3>3. exec[dec[r]].state \notin ATTEMPTED_STATES \cup {"VERIFIED"}
      BY <1>7, <3>1, <3>2, CheckPreconditionStep DEF SeenInv, OPEN_STATES
    <3>4. QED
      BY <2>1, <2>3, <3>3, EffectFrame DEF Moved
  <2>4. QED
    BY <1>7, <2>2, <2>3, CheckPreconditionStep
<1>8. ASSUME NEW r \in Requests, RequestMutation(r)
      PROVE  EffectInv'
  <2>1. CASE UNCHANGED exec /\ pc'[r] = "done"
    <3>1. \A q \in Requests : Armed(q)' => Armed(q) /\ dec'[q] = dec[q]
      BY <1>8, <2>1, RequestMutationStep DEF WriteFrame, Armed, MayTakeEffect
    <3>2. QED
      BY <2>1, <3>1, EffectFrame
  <2>2. CASE Moved(r, {"PRECONDITION_CHECKED"}, "MUTATION_REQUESTED")
    <3>1. exec[dec[r]].state = "PRECONDITION_CHECKED" /\ dec[r] \in Decisions
          /\ exec'[dec[r]].state = "MUTATION_REQUESTED"
          /\ exec'[dec[r]].predates = exec[dec[r]].predates
          /\ \A d \in Decisions \ {dec[r]} : exec'[d] = exec[d]
      BY <1>8, <2>2, RequestMutationStep DEF Moved, WriteFrame
    <3>2. ~exec[dec[r]].predates
      BY <3>1 DEF DisclaimInv
    <3>3. \A q \in Requests : Armed(q) => dec[q] # dec[r] /\ dec[q] \in Decisions
      BY <3>1 DEF EffectInv, ATTEMPTED_STATES, Armed, MayTakeEffect, TypeOK, LocalTypeOK,
         Callers
    <3>4. \A q \in Requests \ {r} : Armed(q)' => Armed(q)
      BY <1>8, RequestMutationStep DEF WriteFrame, Armed, MayTakeEffect
    <3>5. UNCHANGED dec
      BY <1>8, RequestMutationStep DEF WriteFrame
    <3>6. \A q \in Requests \ {r} : Armed(q)' =>
            exec'[dec[q]] = exec[dec[q]] /\ dec[q] # dec[r]
      BY <3>1, <3>3, <3>4
    <3>7. \A q \in Requests : Armed(q)' =>
            /\ exec'[dec[q]].state \in ATTEMPTED_STATES \cup {"VERIFIED"}
            /\ ~exec'[dec[q]].predates
      BY <3>1, <3>2, <3>4, <3>6 DEF EffectInv, ATTEMPTED_STATES
    <3>8. \A q, s \in Requests : Armed(q)' /\ Armed(s)' /\ dec[s] = dec[q] => s = q
      BY <3>4, <3>6 DEF EffectInv
    <3>9. QED
      BY <3>5, <3>7, <3>8 DEF EffectInv
  <2>3. QED
    BY <1>8, <2>1, <2>2, RequestMutationStep
<1>9. ASSUME NEW r \in Requests, SendPut(r)
      PROVE  EffectInv'
  <2>1. \A q \in Requests : Armed(q)' => Armed(q) /\ dec'[q] = dec[q]
    BY <1>9 DEF SendPut, Armed, MayTakeEffect, RequestInv, BeforeCall, At,
       Goto, Answer, ReleaseThen, TypeOK, LocalTypeOK, Callers, planeVars,
       cloudVars, localVars
  <2>2. UNCHANGED exec
    BY <1>9 DEF SendPut, planeVars
  <2>3. QED
    BY <2>1, <2>2, EffectFrame
<1>10. ASSUME NEW r \in Requests, Rewind(r)
       PROVE  EffectInv'
  <2>1. \A q \in Requests : Armed(q)' => Armed(q) /\ q # r /\ dec'[q] = dec[q]
    BY <1>10, RewindStep DEF WriteFrame, RequestInv, Armed, MayTakeEffect
  <2>2. \A q \in Requests : Armed(q)' => dec[q] # dec[r]
    BY <1>10, <2>1, RewindStep DEF EffectInv, Armed
  <2>3. \A d \in Decisions : d # dec[r] => exec'[d] = exec[d]
    BY <1>10, RewindStep DEF Moved
  <2>4. QED
    BY <2>1, <2>2, <2>3, EffectFrame
<1>11. ASSUME NEW r \in Requests, Release(r)
       PROVE  EffectInv'
  <2>1. \A q \in Requests : Armed(q)' => Armed(q) /\ dec'[q] = dec[q]
    BY <1>11 DEF Release, Armed, MayTakeEffect, At, Goto, Answer,
       ReleaseThen, TypeOK, LocalTypeOK, Callers, planeVars, cloudVars,
       localVars
  <2>2. QED
    BY <1>11, <2>1, ReleaseStep, EffectFrame
<1>12. ASSUME NEW r \in Requests, RecordMutation(r)
       PROVE  EffectInv'
  <2>1. \A q \in Requests : Armed(q)' => Armed(q) /\ dec'[q] = dec[q]
    BY <1>12, RecordMutationStep DEF WriteFrame, Armed, MayTakeEffect
  <2>2. \A d \in Decisions :
          exec[d].state \in ATTEMPTED_STATES \cup {"VERIFIED"} =>
            /\ exec'[d].state \in ATTEMPTED_STATES \cup {"VERIFIED"}
            /\ exec'[d].predates = exec[d].predates
    BY <1>12, RecordMutationStep DEF Moved, ATTEMPTED_STATES
  <2>3. QED
    BY <2>1, <2>2, EffectFrame
<1>13. ASSUME NEW r \in Requests, RetakeLease(r)
       PROVE  EffectInv'
  <2>1. pc[r] # "idle" /\ \A q \in Requests : Armed(q)' => Armed(q) /\ dec'[q] = dec[q]
    BY <1>13 DEF RetakeLease, Armed, MayTakeEffect, RequestInv, BeforeCall,
       At, Goto, Answer, ReleaseThen, TypeOK, LocalTypeOK, Callers,
       planeVars, cloudVars, localVars
  <2>2. CASE Takes(r)
    <3>1. \A d \in Decisions :
            exec[d].state \in ATTEMPTED_STATES \cup {"VERIFIED"} =>
              /\ exec'[d].state = exec[d].state
              /\ exec'[d].predates = exec[d].predates
      BY <2>1, <2>2, TakesStep DEF ATTEMPTED_STATES
    <3>2. QED
      BY <2>1, <3>1, EffectFrame
  <2>3. CASE ~Takes(r)
    BY <1>13, <2>1, <2>3, EffectFrame DEF RetakeLease
  <2>4. QED
    BY <2>2, <2>3
<1>14. ASSUME NEW r \in Requests, RecordAgain(r)
       PROVE  EffectInv'
  <2>1. \A q \in Requests : Armed(q)' => Armed(q) /\ dec'[q] = dec[q]
    BY <1>14, RecordAgainStep DEF WriteFrame, Armed, MayTakeEffect
  <2>2. \A d \in Decisions :
          exec[d].state \in ATTEMPTED_STATES \cup {"VERIFIED"} =>
            /\ exec'[d].state \in ATTEMPTED_STATES \cup {"VERIFIED"}
            /\ exec'[d].predates = exec[d].predates
    BY <1>14, RecordAgainStep DEF Moved, ATTEMPTED_STATES
  <2>3. QED
    BY <2>1, <2>2, EffectFrame
<1>15. ASSUME NEW r \in Requests, FileReceipt(r)
       PROVE  EffectInv'
  <2>1. \A q \in Requests : Armed(q)' => Armed(q) /\ dec'[q] = dec[q]
    BY <1>15 DEF FileReceipt, Armed, MayTakeEffect, RequestInv, BeforeCall,
       At, Goto, Answer, ReleaseThen, TypeOK, LocalTypeOK, Callers,
       planeVars, cloudVars, localVars
  <2>2. UNCHANGED exec
    BY <1>15 DEF FileReceipt, planeVars
  <2>3. QED
    BY <2>1, <2>2, EffectFrame
<1>16. ASSUME NEW r \in Requests, ApplyPut(r)
       PROVE  EffectInv'
  <2>1. \A q \in Requests : Armed(q)' => Armed(q) /\ dec'[q] = dec[q]
    BY <1>16 DEF ApplyPut, Armed, MayTakeEffect, RequestInv, BeforeCall, At,
       Goto, Answer, ReleaseThen, TypeOK, LocalTypeOK, Callers, planeVars,
       cloudVars, localVars
  <2>2. UNCHANGED exec
    BY <1>16 DEF ApplyPut, planeVars
  <2>3. QED
    BY <2>1, <2>2, EffectFrame
<1>17. ASSUME NEW r \in Requests, RefusePut(r)
       PROVE  EffectInv'
  <2>1. \A q \in Requests : Armed(q)' => Armed(q) /\ dec'[q] = dec[q]
    BY <1>17 DEF RefusePut, Armed, MayTakeEffect, RequestInv, BeforeCall,
       At, Goto, Answer, ReleaseThen, TypeOK, LocalTypeOK, Callers,
       planeVars, cloudVars, localVars
  <2>2. UNCHANGED exec
    BY <1>17 DEF RefusePut, planeVars
  <2>3. QED
    BY <2>1, <2>2, EffectFrame
<1>18. ASSUME NEW r \in Requests, LosePut(r)
       PROVE  EffectInv'
  <2>1. \A q \in Requests : Armed(q)' => Armed(q) /\ dec'[q] = dec[q]
    BY <1>18 DEF LosePut, Armed, MayTakeEffect, RequestInv, BeforeCall, At,
       Goto, Answer, ReleaseThen, TypeOK, LocalTypeOK, Callers, planeVars,
       cloudVars, localVars
  <2>2. UNCHANGED exec
    BY <1>18 DEF LosePut, planeVars
  <2>3. QED
    BY <2>1, <2>2, EffectFrame
<1>19. CASE Outside
  <2>1. \A q \in Requests : Armed(q)' => Armed(q) /\ dec'[q] = dec[q]
    BY <1>19, OutsideStep DEF OutsideFrame, Armed, MayTakeEffect
  <2>2. \A d \in Decisions :
          exec[d].state \in ATTEMPTED_STATES \cup {"VERIFIED"} =>
            /\ exec'[d].state \in ATTEMPTED_STATES \cup {"VERIFIED"}
            /\ exec'[d].predates = exec[d].predates
    BY <1>19, OutsideStep DEF OutsideFrame, ATTEMPTED_STATES
  <2>3. QED
    BY <2>1, <2>2, EffectFrame
<1>20. QED
  BY <1>1, <1>2, <1>3, <1>4, <1>5, <1>6, <1>7, <1>8, <1>9, <1>10, <1>11,
     <1>12, <1>13, <1>14, <1>15, <1>16, <1>17, <1>18, <1>19
  DEF Next, ExecuteStep, CloudRunStep, Outside, Quiet

-----------------------------------------------------------------------------
(* Recorded mutations and closed executions stay what they are.            *)

Kept ==
  \A d \in Decisions :
    /\ exec[d].state \in TERMINAL_STATES => exec'[d].state = exec[d].state
    /\ exec[d].state = "MUTATED" => exec'[d].state \in {"MUTATED", "VERIFIED"}
    /\ exec[d].state \in {"MUTATED"} \cup TERMINAL_STATES
         => exec'[d].predates = exec[d].predates

(* Every step keeps finished and recorded executions as they are.          *)
LEMMA StepKept ==
  ASSUME TypeOK, SeenInv, [Next]_vars
  PROVE  Kept
<1>1. ASSUME NEW r \in Requests, NEW d \in Decisions, ReceiveExecute(r, d)
      PROVE  Kept
  BY <1>1 DEF ReceiveExecute, Kept, planeVars
<1>2. ASSUME NEW r \in Requests, Quiet(r)
      PROVE  Kept
  BY <1>2, QuietStep DEF Kept
<1>3. ASSUME NEW r \in Requests, Bind(r)
      PROVE  Kept
  BY <1>3 DEF Bind, Kept, planeVars
<1>4. ASSUME NEW r \in Requests, Acquire(r)
      PROVE  Kept
  <2>1. CASE Takes(r)
    <3>1. pc[r] # "idle"
      BY <1>4 DEF Acquire, At
    <3>2. QED
      BY <2>1, <3>1, TakesStep DEF Kept, OPEN_STATES, TERMINAL_STATES
  <2>2. CASE ~Takes(r)
    BY <1>4, <2>2 DEF Acquire, Kept
  <2>3. QED
    BY <2>1, <2>2
<1>5. ASSUME NEW r \in Requests, Reconcile(r)
      PROVE  Kept
  <2>1. CASE UNCHANGED exec
    BY <2>1 DEF Kept
  <2>2. ASSUME Moved(r, PRE_MUTATION_STATES, "MUTATED"),
               exec'[dec[r]].predates = Disclaims(r)
        PROVE  Kept
    <3>1. /\ Deciding(r) /\ exec[dec[r]].epoch = epoch[r]
          /\ exec[dec[r]].state \in OPEN_STATES
          /\ pc[r] \in {"stale", "precondition"} => ~Attempted(r)
      BY <1>5, <2>2, ReconcileStep DEF Deciding, Moved, SeenInv
    <3>2. /\ Attempted(r) <=> exec[dec[r]].state \in ATTEMPTED_STATES
          /\ seen[r].predates = exec[dec[r]].predates
      BY <3>1, DecidingKnows
    <3>3. QED
      BY <2>2, <3>1, <3>2, DisclaimsKept
      DEF Kept, Moved, OPEN_STATES, TERMINAL_STATES, ATTEMPTED_STATES
  <2>3. QED
    BY <1>5, <2>1, <2>2, ReconcileStep
<1>6. ASSUME NEW r \in Requests, FailStale(r)
      PROVE  Kept
  <2>1. CASE UNCHANGED exec
    BY <2>1 DEF Kept
  <2>2. ASSUME Moved(r, PRE_MUTATION_STATES, "STALE"),
               exec'[dec[r]].predates = exec[dec[r]].predates
        PROVE  Kept
    <3>1. /\ Deciding(r) /\ exec[dec[r]].epoch = epoch[r]
          /\ exec[dec[r]].state \in OPEN_STATES
          /\ pc[r] \in {"stale", "precondition"} => ~Attempted(r)
      BY <1>6, <2>2, FailStaleStep DEF Deciding, Moved, SeenInv
    <3>2. /\ Attempted(r) <=> exec[dec[r]].state \in ATTEMPTED_STATES
          /\ seen[r].predates = exec[dec[r]].predates
      BY <3>1, DecidingKnows
    <3>3. QED
      BY <1>6, <2>2, <3>1, <3>2, FailStaleStep
      DEF Kept, Moved, OPEN_STATES, TERMINAL_STATES, ATTEMPTED_STATES
  <2>3. QED
    BY <1>6, <2>1, <2>2, FailStaleStep
<1>7. ASSUME NEW r \in Requests, CheckPrecondition(r)
      PROVE  Kept
  <2>1. CASE UNCHANGED exec
    BY <2>1 DEF Kept
  <2>2. ASSUME Moved(r, PRE_MUTATION_STATES, "PRECONDITION_CHECKED"),
               exec'[dec[r]].predates = exec[dec[r]].predates
        PROVE  Kept
    <3>1. /\ Deciding(r) /\ exec[dec[r]].epoch = epoch[r]
          /\ exec[dec[r]].state \in OPEN_STATES
          /\ pc[r] \in {"stale", "precondition"} => ~Attempted(r)
      BY <1>7, <2>2, CheckPreconditionStep DEF Deciding, Moved, SeenInv
    <3>2. /\ Attempted(r) <=> exec[dec[r]].state \in ATTEMPTED_STATES
          /\ seen[r].predates = exec[dec[r]].predates
      BY <3>1, DecidingKnows
    <3>3. QED
      BY <1>7, <2>2, <3>1, <3>2, CheckPreconditionStep
      DEF Kept, Moved, OPEN_STATES, TERMINAL_STATES, ATTEMPTED_STATES
  <2>3. QED
    BY <1>7, <2>1, <2>2, CheckPreconditionStep
<1>8. ASSUME NEW r \in Requests, RequestMutation(r)
      PROVE  Kept
  BY <1>8, RequestMutationStep DEF Kept, Moved, TERMINAL_STATES
<1>9. ASSUME NEW r \in Requests, SendPut(r)
      PROVE  Kept
  BY <1>9 DEF SendPut, Kept, planeVars
<1>10. ASSUME NEW r \in Requests, Rewind(r)
       PROVE  Kept
  BY <1>10, RewindStep DEF Kept, Moved, TERMINAL_STATES
<1>11. ASSUME NEW r \in Requests, Release(r)
       PROVE  Kept
  BY <1>11, ReleaseStep DEF Kept
<1>12. ASSUME NEW r \in Requests, RecordMutation(r)
       PROVE  Kept
  BY <1>12, RecordMutationStep DEF Kept, Moved, TERMINAL_STATES
<1>13. ASSUME NEW r \in Requests, RetakeLease(r)
       PROVE  Kept
  <2>1. CASE Takes(r)
    <3>1. pc[r] # "idle"
      BY <1>13 DEF RetakeLease, At
    <3>2. QED
      BY <2>1, <3>1, TakesStep DEF Kept, OPEN_STATES, TERMINAL_STATES
  <2>2. CASE ~Takes(r)
    BY <1>13, <2>2 DEF RetakeLease, Kept
  <2>3. QED
    BY <2>1, <2>2
<1>14. ASSUME NEW r \in Requests, RecordAgain(r)
       PROVE  Kept
  BY <1>14, RecordAgainStep DEF Kept, Moved, TERMINAL_STATES
<1>15. ASSUME NEW r \in Requests, FileReceipt(r)
       PROVE  Kept
  BY <1>15 DEF FileReceipt, Kept, planeVars
<1>16. ASSUME NEW r \in Requests, ApplyPut(r)
       PROVE  Kept
  BY <1>16 DEF ApplyPut, Kept, planeVars
<1>17. ASSUME NEW r \in Requests, RefusePut(r)
       PROVE  Kept
  BY <1>17 DEF RefusePut, Kept, planeVars
<1>18. ASSUME NEW r \in Requests, LosePut(r)
       PROVE  Kept
  BY <1>18 DEF LosePut, Kept, planeVars
<1>19. CASE Outside
  BY <1>19, OutsideStep DEF OutsideFrame, Kept, TERMINAL_STATES
<1>20. QED
  BY <1>1, <1>2, <1>3, <1>4, <1>5, <1>6, <1>7, <1>8, <1>9, <1>10, <1>11,
     <1>12, <1>13, <1>14, <1>15, <1>16, <1>17, <1>18, <1>19
  DEF Next, ExecuteStep, CloudRunStep, Outside, Quiet

(* Every step keeps a disclaimer with the MUTATED state.                   *)
LEMMA StepDisclaimInv ==
  ASSUME TypeOK, SeenInv, DisclaimInv, [Next]_vars
  PROVE  DisclaimInv'
<1>1. ASSUME NEW r \in Requests, NEW d \in Decisions, ReceiveExecute(r, d)
      PROVE  DisclaimInv'
  BY <1>1 DEF ReceiveExecute, DisclaimInv, planeVars
<1>2. ASSUME NEW r \in Requests, Quiet(r)
      PROVE  DisclaimInv'
  BY <1>2, QuietStep DEF DisclaimInv
<1>3. ASSUME NEW r \in Requests, Bind(r)
      PROVE  DisclaimInv'
  BY <1>3 DEF Bind, DisclaimInv, planeVars
<1>4. ASSUME NEW r \in Requests, Acquire(r)
      PROVE  DisclaimInv'
  <2>1. CASE Takes(r)
    <3>1. pc[r] # "idle"
      BY <1>4 DEF Acquire, At
    <3>2. QED
      BY <2>1, <3>1, TakesStep DEF DisclaimInv
  <2>2. CASE ~Takes(r)
    BY <1>4, <2>2 DEF Acquire, DisclaimInv
  <2>3. QED
    BY <2>1, <2>2
<1>5. ASSUME NEW r \in Requests, Reconcile(r)
      PROVE  DisclaimInv'
  BY <1>5, ReconcileStep DEF DisclaimInv, Moved
<1>6. ASSUME NEW r \in Requests, FailStale(r)
      PROVE  DisclaimInv'
  BY <1>6, FailStaleStep, StepKept DEF Kept, DisclaimInv, Moved, OPEN_STATES
<1>7. ASSUME NEW r \in Requests, CheckPrecondition(r)
      PROVE  DisclaimInv'
  BY <1>7, CheckPreconditionStep, StepKept DEF Kept, DisclaimInv, Moved, OPEN_STATES
<1>8. ASSUME NEW r \in Requests, RequestMutation(r)
      PROVE  DisclaimInv'
  BY <1>8, RequestMutationStep, StepKept DEF Kept, DisclaimInv, Moved, OPEN_STATES
<1>9. ASSUME NEW r \in Requests, SendPut(r)
      PROVE  DisclaimInv'
  BY <1>9 DEF SendPut, DisclaimInv, planeVars
<1>10. ASSUME NEW r \in Requests, Rewind(r)
       PROVE  DisclaimInv'
  BY <1>10, RewindStep, StepKept DEF Kept, DisclaimInv, Moved, OPEN_STATES
<1>11. ASSUME NEW r \in Requests, Release(r)
       PROVE  DisclaimInv'
  BY <1>11, ReleaseStep DEF DisclaimInv
<1>12. ASSUME NEW r \in Requests, RecordMutation(r)
       PROVE  DisclaimInv'
  BY <1>12, RecordMutationStep, StepKept DEF Kept, DisclaimInv, Moved, OPEN_STATES
<1>13. ASSUME NEW r \in Requests, RetakeLease(r)
       PROVE  DisclaimInv'
  <2>1. CASE Takes(r)
    <3>1. pc[r] # "idle"
      BY <1>13 DEF RetakeLease, At
    <3>2. QED
      BY <2>1, <3>1, TakesStep DEF DisclaimInv
  <2>2. CASE ~Takes(r)
    BY <1>13, <2>2 DEF RetakeLease, DisclaimInv
  <2>3. QED
    BY <2>1, <2>2
<1>14. ASSUME NEW r \in Requests, RecordAgain(r)
       PROVE  DisclaimInv'
  BY <1>14, RecordAgainStep, StepKept DEF Kept, DisclaimInv, Moved, OPEN_STATES
<1>15. ASSUME NEW r \in Requests, FileReceipt(r)
       PROVE  DisclaimInv'
  BY <1>15 DEF FileReceipt, DisclaimInv, planeVars
<1>16. ASSUME NEW r \in Requests, ApplyPut(r)
       PROVE  DisclaimInv'
  BY <1>16 DEF ApplyPut, DisclaimInv, planeVars
<1>17. ASSUME NEW r \in Requests, RefusePut(r)
       PROVE  DisclaimInv'
  BY <1>17 DEF RefusePut, DisclaimInv, planeVars
<1>18. ASSUME NEW r \in Requests, LosePut(r)
       PROVE  DisclaimInv'
  BY <1>18 DEF LosePut, DisclaimInv, planeVars
<1>19. CASE Outside
  BY <1>19, OutsideStep DEF OutsideFrame, DisclaimInv
<1>20. QED
  BY <1>1, <1>2, <1>3, <1>4, <1>5, <1>6, <1>7, <1>8, <1>9, <1>10, <1>11,
     <1>12, <1>13, <1>14, <1>15, <1>16, <1>17, <1>18, <1>19
  DEF Next, ExecuteStep, CloudRunStep, Outside, Quiet

-----------------------------------------------------------------------------
(* Receipts.                                                               *)

(* A step that starts no receipt keeps the receipts true.                  *)
LEMMA ReceiptFrame ==
  ASSUME TypeOK, SeenInv, ReceiptInv, [Next]_vars,
         \A q \in Requests : pc'[q] = "file" \/ receipt'[q] = "SUCCEEDED" =>
           /\ pc[q] = "file" \/ receipt[q] = "SUCCEEDED"
           /\ dec'[q] = dec[q] /\ dec[q] \in Decisions
           /\ put[q] = "accepted" => put'[q] = "accepted"
  PROVE  ReceiptInv'
BY StepKept DEF Kept, ReceiptInv, TERMINAL_STATES

(* Every step keeps the receipts true.                                     *)
LEMMA StepReceiptInv ==
  ASSUME TypeOK, RequestInv, SeenInv, ReceiptInv, [Next]_vars
  PROVE  ReceiptInv'
<1>0. \A q \in Requests :
        pc[q] = "file" \/ receipt[q] = "SUCCEEDED" => dec[q] \in Decisions
  BY DEF ReceiptInv, TypeOK, LocalTypeOK, Callers
<1>1. ASSUME NEW r \in Requests, NEW d \in Decisions, ReceiveExecute(r, d)
      PROVE  ReceiptInv'
  BY <1>1, <1>0, ReceiptFrame DEF ReceiveExecute, RequestInv, BeforeCall,
     ReceiptInv, At, Goto, Answer, ReleaseThen, TypeOK, LocalTypeOK,
     Callers, planeVars, cloudVars, localVars
<1>2. ASSUME NEW r \in Requests, Quiet(r)
      PROVE  ReceiptInv'
  BY <1>2, <1>0, QuietStep, ReceiptFrame
<1>3. ASSUME NEW r \in Requests, Bind(r)
      PROVE  ReceiptInv'
  BY <1>3, <1>0, ReceiptFrame DEF Bind, RequestInv, BeforeCall, ReceiptInv,
     At, Goto, Answer, ReleaseThen, TypeOK, LocalTypeOK, Callers, planeVars,
     cloudVars, localVars
<1>4. ASSUME NEW r \in Requests, Acquire(r)
      PROVE  ReceiptInv'
  BY <1>4, <1>0, ReceiptFrame DEF Acquire, RequestInv, BeforeCall,
     ReceiptInv, At, Goto, Answer, ReleaseThen, TypeOK, LocalTypeOK,
     Callers, planeVars, cloudVars, localVars
<1>5. ASSUME NEW r \in Requests, Reconcile(r)
      PROVE  ReceiptInv'
  BY <1>5, <1>0, ReconcileStep, ReceiptFrame DEF WriteFrame
<1>6. ASSUME NEW r \in Requests, FailStale(r)
      PROVE  ReceiptInv'
  BY <1>6, <1>0, FailStaleStep, ReceiptFrame DEF WriteFrame
<1>7. ASSUME NEW r \in Requests, CheckPrecondition(r)
      PROVE  ReceiptInv'
  BY <1>7, <1>0, CheckPreconditionStep, ReceiptFrame DEF WriteFrame
<1>8. ASSUME NEW r \in Requests, RequestMutation(r)
      PROVE  ReceiptInv'
  BY <1>8, <1>0, RequestMutationStep, ReceiptFrame DEF WriteFrame
<1>9. ASSUME NEW r \in Requests, SendPut(r)
      PROVE  ReceiptInv'
  BY <1>9, <1>0, ReceiptFrame DEF SendPut, RequestInv, BeforeCall,
     ReceiptInv, At, Goto, Answer, ReleaseThen, TypeOK, LocalTypeOK,
     Callers, planeVars, cloudVars, localVars
<1>10. ASSUME NEW r \in Requests, Rewind(r)
       PROVE  ReceiptInv'
  BY <1>10, <1>0, RewindStep, ReceiptFrame DEF WriteFrame
<1>11. ASSUME NEW r \in Requests, Release(r)
       PROVE  ReceiptInv'
  BY <1>11, <1>0, ReceiptFrame DEF Release, RequestInv, BeforeCall,
     ReceiptInv, At, Goto, Answer, ReleaseThen, TypeOK, LocalTypeOK,
     Callers, planeVars, cloudVars, localVars
<1>12. ASSUME NEW r \in Requests, RecordMutation(r)
       PROVE  ReceiptInv'
  <2>1. CASE UNCHANGED exec /\ pc'[r] # "file"
    BY <1>12, <1>0, <2>1, RecordMutationStep, ReceiptFrame DEF WriteFrame
  <2>2. CASE exec'[dec[r]].state = "MUTATED" /\ pc'[r] = "file"
    <3>1. put'[r] = "accepted" /\ UNCHANGED <<dec, put, receipt>>
          /\ \A q \in Requests \ {r} : pc'[q] = pc[q]
      BY <1>12, RecordMutationStep DEF WriteFrame, RequestInv
    <3>2. Kept
      BY StepKept
    <3>3. QED
      BY <1>0, <2>2, <3>1, <3>2 DEF Kept, ReceiptInv, TERMINAL_STATES
  <2>3. QED
    BY <1>12, <2>1, <2>2, RecordMutationStep DEF Moved
<1>13. ASSUME NEW r \in Requests, RetakeLease(r)
       PROVE  ReceiptInv'
  BY <1>13, <1>0, ReceiptFrame DEF RetakeLease, RequestInv, BeforeCall,
     ReceiptInv, At, Goto, Answer, ReleaseThen, TypeOK, LocalTypeOK,
     Callers, planeVars, cloudVars, localVars
<1>14. ASSUME NEW r \in Requests, RecordAgain(r)
       PROVE  ReceiptInv'
  <2>1. CASE UNCHANGED exec /\ pc'[r] # "file"
    BY <1>14, <1>0, <2>1, RecordAgainStep, ReceiptFrame DEF WriteFrame
  <2>2. CASE exec'[dec[r]].state = "MUTATED" /\ pc'[r] = "file"
    <3>1. put'[r] = "accepted" /\ UNCHANGED <<dec, put, receipt>>
          /\ \A q \in Requests \ {r} : pc'[q] = pc[q]
      BY <1>14, RecordAgainStep DEF WriteFrame, RequestInv
    <3>2. Kept
      BY StepKept
    <3>3. QED
      BY <1>0, <2>2, <3>1, <3>2 DEF Kept, ReceiptInv, TERMINAL_STATES
  <2>3. QED
    BY <1>14, <2>1, <2>2, RecordAgainStep DEF Moved
<1>15. ASSUME NEW r \in Requests, FileReceipt(r)
       PROVE  ReceiptInv'
  BY <1>15, <1>0, ReceiptFrame DEF FileReceipt, RequestInv, BeforeCall,
     ReceiptInv, At, Goto, Answer, ReleaseThen, TypeOK, LocalTypeOK,
     Callers, planeVars, cloudVars, localVars
<1>16. ASSUME NEW r \in Requests, ApplyPut(r)
       PROVE  ReceiptInv'
  BY <1>16, <1>0, ReceiptFrame DEF ApplyPut, RequestInv, BeforeCall,
     ReceiptInv, At, Goto, Answer, ReleaseThen, TypeOK, LocalTypeOK,
     Callers, planeVars, cloudVars, localVars
<1>17. ASSUME NEW r \in Requests, RefusePut(r)
       PROVE  ReceiptInv'
  BY <1>17, <1>0, ReceiptFrame DEF RefusePut, RequestInv, BeforeCall,
     ReceiptInv, At, Goto, Answer, ReleaseThen, TypeOK, LocalTypeOK,
     Callers, planeVars, cloudVars, localVars
<1>18. ASSUME NEW r \in Requests, LosePut(r)
       PROVE  ReceiptInv'
  BY <1>18, <1>0, ReceiptFrame DEF LosePut, RequestInv, BeforeCall,
     ReceiptInv, At, Goto, Answer, ReleaseThen, TypeOK, LocalTypeOK,
     Callers, planeVars, cloudVars, localVars
<1>19. CASE Outside
  BY <1>19, <1>0, OutsideStep, ReceiptFrame DEF OutsideFrame
<1>20. QED
  BY <1>1, <1>2, <1>3, <1>4, <1>5, <1>6, <1>7, <1>8, <1>9, <1>10, <1>11,
     <1>12, <1>13, <1>14, <1>15, <1>16, <1>17, <1>18, <1>19
  DEF Next, ExecuteStep, CloudRunStep, Outside, Quiet

-----------------------------------------------------------------------------
(* Theorems.                                                               *)

(* The inductive invariant holds initially.                                *)
LEMMA InitIInv == Init => IInv
<1> SUFFICES ASSUME Init PROVE IInv
  OBVIOUS
<1>1. TypeOK
  BY InitTypeOK
<1>2. /\ \A r \in Requests : pc[r] = "idle" /\ put[r] = "none" /\ epoch[r] = 0
                            /\ receipt[r] = "none"
      /\ \A d \in Decisions : ~exec[d].predates
  BY DEF Init, Callers, NoRecord
<1>3. "idle" \notin BoundSteps
  BY DEF BoundSteps, ExecuteSteps
<1>4. QED
  BY <1>1, <1>2, <1>3
  DEF IInv, RequestInv, BindingInv, EpochInv, EpochsAreExclusive, SeenInv,
      Deciding, EffectInv, Armed, MayTakeEffect, DisclaimInv, ReceiptInv

(* Every step keeps the inductive invariant, by the lemmas above.          *)
LEMMA StepIInv ==
  ASSUME IInv, [Next]_vars
  PROVE  IInv'
BY StepTypeOK, StepRequestInv, StepBindingInv, StepEpochInv, StepSeenInv,
   StepEffectInv, StepDisclaimInv, StepReceiptInv DEF IInv

(* The executor's state is always well typed.                              *)
THEOREM TypeCorrect == Spec => []TypeOK
<1>1. TypeOK /\ [Next]_vars => TypeOK'
  BY StepTypeOK
<1>2. QED
  BY InitTypeOK, <1>1, PTL DEF Spec

(* The inductive invariant holds for any number of requests and workers.   *)
THEOREM Inductive == Spec => []IInv
<1>1. IInv /\ [Next]_vars => IInv'
  BY StepIInv
<1>2. QED
  BY InitIInv, <1>1, PTL DEF Spec

(* One authorization changes the infrastructure at most once: two requests *)
(* of one authorization are of one execution, because the fingerprint is   *)
(* bound to it, and of one execution only one request is armed.            *)
THEOREM SingleEffect == Spec => []AtMostOneEffect
<1>1. IInv => AtMostOneEffect
  <2> SUFFICES ASSUME IInv, NEW r \in Requests, NEW s \in Requests,
                      MayTakeEffect(r), MayTakeEffect(s),
                      SameAuthorization(r, s)
               PROVE  r = s
    BY DEF AtMostOneEffect
  <2>1. dec[r] = dec[s]
    BY DEF IInv, BindingInv, SameAuthorization, MayTakeEffect
  <2>2. QED
    BY <2>1 DEF IInv, EffectInv, Armed
<1>2. QED
  BY Inductive, <1>1, PTL

(* An execution whose record announces no mutation has none, applied or    *)
(* under way.                                                              *)
THEOREM Untouched == Spec => []UnattemptedIsUntouched
<1>1. IInv => UnattemptedIsUntouched
  BY DEF IInv, EffectInv, Armed, UnattemptedIsUntouched
<1>2. QED
  BY Inductive, <1>1, PTL

(* An execution that disclaims the effect never made a call that counts.   *)
THEOREM Disclaimed == Spec => []DisclaimedIsNotOurs
<1>1. IInv => DisclaimedIsNotOurs
  BY DEF IInv, EffectInv, Armed, DisclaimedIsNotOurs
<1>2. QED
  BY Inductive, <1>1, PTL

(* A success receipt on file agrees with the record it is filed for.       *)
THEOREM ReceiptsAgree == Spec => []ReceiptMatchesRecord
<1>1. IInv => ReceiptMatchesRecord
  BY DEF IInv, ReceiptInv, EffectInv, Armed, MayTakeEffect,
     ReceiptMatchesRecord
<1>2. QED
  BY Inductive, <1>1, PTL

(* No two requests ever hold the same epoch of an execution.               *)
THEOREM ExclusiveEpochs == Spec => []EpochsAreExclusive
<1>1. IInv => EpochsAreExclusive
  BY DEF IInv, EpochInv
<1>2. QED
  BY Inductive, <1>1, PTL

(* Closed executions stay closed, and recorded mutations recorded.         *)
THEOREM NothingUndone == Spec => NeverUndone
<1>1. IInv /\ [Next]_vars =>
        [\A d \in Decisions :
           /\ exec[d].state \in TERMINAL_STATES => exec'[d].state = exec[d].state
           /\ exec[d].state = "MUTATED" => exec'[d].state \in {"MUTATED", "VERIFIED"}
           /\ exec[d].state \in {"MUTATED"} \cup TERMINAL_STATES
                => exec'[d].predates = exec[d].predates]_vars
  BY StepKept DEF IInv, Kept
<1>2. QED
  BY Inductive, <1>1, PTL DEF Spec, NeverUndone

-----------------------------------------------------------------------------
(* Nothing reaches Cloud Run without an authorization.                     *)

(* The policy allowed it, or its approval was given, which may have run out*)
(* since.                                                                  *)
Cleared(d) ==
  \/ d \in AutoAllowed
  \/ d \in ApprovalRequired /\ approval[d] \in {"APPROVED", "LAPSED"}

Validated(r) == pc[r] \in ExecuteSteps \ {"validate"} \/ put[r] # "none"

ClearedInv == \A r \in Requests : Validated(r) => Cleared(dec[r])

(* No step takes a given approval back.                                    *)
LEMMA ClearedForGood ==
  ASSUME TypeOK, [Next]_vars, NEW d, Cleared(d)
  PROVE  Cleared(d)'
<1>1. CASE UNCHANGED approval
  BY <1>1 DEF Cleared
<1>2. CASE \E e \in ApprovalRequired : Approve(e) \/ Reject(e) \/ ApprovalLapses(e)
  BY <1>2 DEF Approve, Reject, Decided, ApprovalLapses, Cleared, TypeOK
<1>3. CASE UNCHANGED vars
  BY <1>1, <1>3 DEF vars, controlVars
<1>4. ASSUME NEW r \in Requests, ExecuteStep(r)
      PROVE  UNCHANGED approval
  BY <1>4 DEF ExecuteStep, ReceiveExecute, Validate, Bind, Acquire, Observe,
     Reconcile, FailStale, CheckPrecondition, RereadIncident, ReadService,
     RequestMutation, SendPut, PutAnswers, Rewind, FileUnknownReceipt,
     Release, RecordMutation, RetakeLease, RecordAgain, FileReceipt,
     controlVars
<1>5. ASSUME NEW r \in Requests, Crash(r) \/ CloudRunStep(r)
      PROVE  UNCHANGED approval
  BY <1>5 DEF Crash, CloudRunStep, ApplyPut, RefusePut, LosePut, controlVars
<1>6. ASSUME NEW k \in Closers, TerminalizeStep(k)
      PROVE  UNCHANGED approval
  BY <1>6 DEF TerminalizeStep, ReceiveTerminalize, ReadExecution,
     ProbeService, CloseExecution, controlVars
<1>7. ASSUME Environment,
             ~ \E e \in ApprovalRequired : Approve(e) \/ Reject(e) \/ ApprovalLapses(e)
      PROVE  UNCHANGED approval
  BY <1>7 DEF Environment, MigrateTraffic, OperatorChange, LeaseLapses,
     CloseIncident, controlVars
<1>8. QED
  BY <1>1, <1>2, <1>3, <1>4, <1>5, <1>6, <1>7 DEF Next

(* A request gets past its validation by being authorized, and calls Cloud *)
(* Run only from there.                                                    *)
LEMMA ValidatedStep ==
  ASSUME TypeOK, [Next]_vars, NEW q \in Requests, Validated(q)'
  PROVE  /\ dec'[q] = dec[q]
         /\ \/ Validated(q)
            \/ IsAuthorized(dec[q])
<1>1. ASSUME NEW r \in Requests, NEW d \in Decisions, ReceiveExecute(r, d)
      PROVE  dec'[q] = dec[q] /\ Validated(q)
  BY <1>1 DEF ReceiveExecute, Validated, At, Goto, Answer, ExecuteSteps,
     TypeOK, LocalTypeOK, Callers, cloudVars
<1>2. ASSUME NEW r \in Requests, Validate(r)
      PROVE  dec'[q] = dec[q] /\ (Validated(q) \/ IsAuthorized(dec[q]))
  BY <1>2 DEF Validate, Validated, At, Goto, Answer, ExecuteSteps,
     TypeOK, LocalTypeOK, Callers, cloudVars
<1>3. ASSUME NEW r \in Requests,
             \/ Bind(r) \/ Acquire(r) \/ Observe(r) \/ Reconcile(r)
             \/ FailStale(r) \/ CheckPrecondition(r)
      PROVE  dec'[q] = dec[q] /\ Validated(q)
  BY <1>3 DEF Bind, Acquire, Observe, Reconcile, FailStale,
     CheckPrecondition, Validated, At, Goto, Answer, ReleaseThen,
     ExecuteSteps, TypeOK, LocalTypeOK, Callers, cloudVars
<1>4. ASSUME NEW r \in Requests,
             \/ RereadIncident(r) \/ ReadService(r) \/ RequestMutation(r)
             \/ SendPut(r) \/ PutAnswers(r) \/ Rewind(r)
      PROVE  dec'[q] = dec[q] /\ Validated(q)
  BY <1>4 DEF RereadIncident, ReadService, RequestMutation, SendPut,
     PutAnswers, Rewind, Validated, At, Goto, Answer, ReleaseThen,
     ExecuteSteps, TypeOK, LocalTypeOK, Callers, cloudVars
<1>5. ASSUME NEW r \in Requests,
             \/ FileUnknownReceipt(r) \/ Release(r) \/ RecordMutation(r)
             \/ RetakeLease(r) \/ RecordAgain(r) \/ FileReceipt(r)
             \/ Crash(r)
      PROVE  dec'[q] = dec[q] /\ Validated(q)
  BY <1>5 DEF FileUnknownReceipt, Release, RecordMutation, RetakeLease,
     RecordAgain, FileReceipt, Crash, Validated, At, Goto, Answer,
     ReleaseThen, ExecuteSteps, TypeOK, LocalTypeOK, Callers, cloudVars
<1>6. ASSUME NEW r \in Requests, CloudRunStep(r)
      PROVE  dec'[q] = dec[q] /\ Validated(q)
  BY <1>6 DEF CloudRunStep, ApplyPut, RefusePut, LosePut, Validated, TypeOK,
     localVars
<1>7. CASE Outside
  BY <1>7, OutsideStep DEF OutsideFrame, Validated
<1>8. QED
  BY <1>1, <1>2, <1>3, <1>4, <1>5, <1>6, <1>7
  DEF Next, ExecuteStep, Outside

(* Every validated request stays cleared.                                  *)
LEMMA StepClearedInv ==
  ASSUME TypeOK, ClearedInv, [Next]_vars
  PROVE  ClearedInv'
<1> SUFFICES ASSUME NEW q \in Requests, Validated(q)'
             PROVE  Cleared(dec[q])'
  BY DEF ClearedInv
<1>1. dec'[q] = dec[q] /\ (Validated(q) \/ IsAuthorized(dec[q]))
  BY ValidatedStep
<1>2. IsAuthorized(dec[q]) => Cleared(dec[q])
  BY DEF IsAuthorized, Cleared
<1>3. Cleared(dec[q])
  BY <1>1, <1>2 DEF ClearedInv
<1>4. QED
  BY <1>1, <1>3, ClearedForGood DEF Cleared

(* A request calls Cloud Run only for a decision the policy allowed or     *)
(* somebody approved, however long ago.                                    *)
THEOREM NothingUnapproved == Spec => []NoUnapprovedMutation
<1>1. Init => ClearedInv
  BY DEF Init, ClearedInv, Validated, ExecuteSteps, Callers
<1>2. TypeOK /\ ClearedInv /\ [Next]_vars => ClearedInv'
  BY StepClearedInv
<1>3. ClearedInv => NoUnapprovedMutation
  BY DEF ClearedInv, Validated, Cleared, NoUnapprovedMutation
<1>4. QED
  BY <1>1, <1>2, <1>3, TypeCorrect, PTL DEF Spec

-----------------------------------------------------------------------------
(* A terminalization reported as verified is one.                          *)

(* Whoever got past the stored state saw a recorded mutation, and whoever  *)
(* was told so has a verified execution.                                   *)
CloserInv ==
  /\ \A k \in Closers : pc[k] \in {"probe", "close"} =>
       exec[dec[k]].state \in {"MUTATED", "VERIFIED"}
  /\ VerifiedAnswerIsTrue
  /\ \A k \in Closers : pc[k] # "done" => reply[k] # "VERIFIED"

(* No request's step moves a caller of /terminalize.                       *)
LEMMA ClosersStandBy ==
  ASSUME TypeOK, NEW k \in Closers, NEW r \in Requests,
         ExecuteStep(r) \/ Crash(r) \/ CloudRunStep(r)
  PROVE  pc'[k] = pc[k] /\ dec'[k] = dec[k] /\ reply'[k] = reply[k]
<1>1. r # k
  BY ExecutorAssumption
<1>2. ASSUME NEW d \in Decisions, ReceiveExecute(r, d)
      PROVE  pc'[k] = pc[k] /\ dec'[k] = dec[k] /\ reply'[k] = reply[k]
  BY <1>1, <1>2 DEF ReceiveExecute, Goto, Answer, TypeOK, LocalTypeOK, Callers
<1>3. CASE \/ Validate(r) \/ Bind(r) \/ Acquire(r) \/ Observe(r)
           \/ Reconcile(r) \/ FailStale(r) \/ CheckPrecondition(r)
           \/ RereadIncident(r) \/ ReadService(r) \/ RequestMutation(r)
  BY <1>1, <1>3 DEF Validate, Bind, Acquire, Observe, Reconcile, FailStale,
     CheckPrecondition, RereadIncident, ReadService, RequestMutation, Goto,
     Answer, ReleaseThen, TypeOK, LocalTypeOK, Callers
<1>4. CASE \/ SendPut(r) \/ PutAnswers(r) \/ Rewind(r)
           \/ FileUnknownReceipt(r) \/ Release(r) \/ RecordMutation(r)
           \/ RetakeLease(r) \/ RecordAgain(r) \/ FileReceipt(r) \/ Crash(r)
  BY <1>1, <1>4 DEF SendPut, PutAnswers, Rewind, FileUnknownReceipt, Release,
     RecordMutation, RetakeLease, RecordAgain, FileReceipt, Crash, Goto,
     Answer, ReleaseThen, TypeOK, LocalTypeOK, Callers
<1>5. CASE CloudRunStep(r)
  BY <1>5 DEF CloudRunStep, ApplyPut, RefusePut, LosePut, localVars
<1>6. QED
  BY <1>2, <1>3, <1>4, <1>5 DEF ExecuteStep

(* A caller that stands by keeps what it knows: a recorded mutation can    *)
(* only be verified, and a verified execution is final.                    *)
LEMMA CloserKept ==
  ASSUME CloserInv, Kept, TypeOK, NEW k \in Closers,
         pc'[k] = pc[k], dec'[k] = dec[k], reply'[k] = reply[k]
  PROVE  /\ pc'[k] \in {"probe", "close"} =>
              exec'[dec'[k]].state \in {"MUTATED", "VERIFIED"}
         /\ reply'[k] = "VERIFIED" => exec'[dec'[k]].state = "VERIFIED"
         /\ pc'[k] # "done" => reply'[k] # "VERIFIED"
<1>1. pc[k] # "idle" => dec[k] \in Decisions
  BY DEF TypeOK, LocalTypeOK, Callers
<1>2. reply[k] = "VERIFIED" => pc[k] = "done"
  BY DEF CloserInv
<1>3. QED
  BY <1>1, <1>2 DEF CloserInv, VerifiedAnswerIsTrue, Kept, TERMINAL_STATES

(* What the caller of /terminalize that moves knows afterwards.            *)
LEMMA CloserMoves ==
  ASSUME CloserInv, Kept, TypeOK, NEW k \in Closers, TerminalizeStep(k)
  PROVE  /\ pc'[k] \in {"probe", "close"} =>
              exec'[dec'[k]].state \in {"MUTATED", "VERIFIED"}
         /\ reply'[k] = "VERIFIED" => exec'[dec'[k]].state = "VERIFIED"
         /\ pc'[k] # "done" => reply'[k] # "VERIFIED"
<1>1. ASSUME NEW d \in Decisions, ReceiveTerminalize(k, d)
      PROVE  /\ pc'[k] \notin {"probe", "close"}
             /\ reply'[k] # "VERIFIED"
  BY <1>1 DEF ReceiveTerminalize, At, Goto, Answer, CloserInv, TypeOK,
     LocalTypeOK, Callers
<1>2. CASE ReadExecution(k)
  BY <1>2 DEF ReadExecution, At, Goto, Answer, CloserInv, TypeOK,
     LocalTypeOK, Callers, Doc, TERMINALIZABLE_STATES, planeVars
<1>3. CASE ProbeService(k)
  BY <1>3 DEF ProbeService, At, Goto, Answer, CloserInv, TypeOK,
     LocalTypeOK, Callers, planeVars
<1>4. CASE CloseExecution(k)
  <2>1. dec[k] \in Decisions /\ Doc(k) \in Record
        /\ Doc(k).state \in {"MUTATED", "VERIFIED"}
    BY <1>4 DEF CloseExecution, At, CloserInv, TypeOK, LocalTypeOK, Callers,
       Doc
  <2>2. pc'[k] = "done" /\ dec'[k] = dec[k]
    BY <1>4 DEF CloseExecution, Answer, TypeOK, LocalTypeOK, Callers
  <2>3. CASE Doc(k).state = "VERIFIED"
    BY <2>1, <2>2, <2>3 DEF Doc, Kept, TERMINAL_STATES
  <2>4. CASE Doc(k).state = "MUTATED"
    <3>1. TerminalizeOutcome(Doc(k), TERMINALIZABLE_STATES) = "ADVANCED"
      BY <2>4 DEF TerminalizeOutcome, TERMINALIZABLE_STATES, OPEN_STATES,
         TERMINAL_STATES
    <3>2. exec' = [exec EXCEPT ![dec[k]] =
                     AdvancedRecord(@, "VERIFIED", @.predates)]
      BY <1>4, <3>1 DEF CloseExecution
    <3>3. QED
      BY <2>1, <2>2, <3>2 DEF AdvancedRecord, TypeOK
  <2>5. QED
    BY <2>1, <2>3, <2>4
<1>5. QED
  BY <1>1, <1>2, <1>3, <1>4 DEF TerminalizeStep

(* Every step keeps what the callers of /terminalize know.                 *)
LEMMA StepCloserInv ==
  ASSUME TypeOK, SeenInv, CloserInv, [Next]_vars
  PROVE  CloserInv'
<1>1. Kept
  BY StepKept
<1> SUFFICES ASSUME NEW k \in Closers
             PROVE  /\ pc'[k] \in {"probe", "close"} =>
                         exec'[dec'[k]].state \in {"MUTATED", "VERIFIED"}
                    /\ reply'[k] = "VERIFIED" =>
                         exec'[dec'[k]].state = "VERIFIED"
                    /\ pc'[k] # "done" => reply'[k] # "VERIFIED"
  BY DEF CloserInv, VerifiedAnswerIsTrue
<1>2. ASSUME NEW r \in Requests,
             ExecuteStep(r) \/ Crash(r) \/ CloudRunStep(r)
      PROVE  pc'[k] = pc[k] /\ dec'[k] = dec[k] /\ reply'[k] = reply[k]
  BY <1>2, ClosersStandBy
<1>3. ASSUME NEW j \in Closers \ {k}, TerminalizeStep(j)
      PROVE  pc'[k] = pc[k] /\ dec'[k] = dec[k] /\ reply'[k] = reply[k]
  BY <1>3 DEF TerminalizeStep, ReceiveTerminalize, ReadExecution,
     ProbeService, CloseExecution, Goto, Answer, TypeOK, LocalTypeOK, Callers
<1>4. CASE Environment \/ UNCHANGED vars
  BY <1>4, <1>1, CloserKept DEF Environment, MigrateTraffic, OperatorChange,
     LeaseLapses, Approve, Reject, Decided, ApprovalLapses, CloseIncident,
     vars, localVars
<1>5. CASE TerminalizeStep(k)
  BY <1>5, <1>1, CloserMoves
<1>6. QED
  BY <1>1, <1>2, <1>3, <1>4, <1>5, CloserKept DEF Next

(* An execution reported as verified is verified: the only terminal state a*)
(* recorded mutation can have reached is VERIFIED, so ALREADY_TERMINAL may *)
(* be answered as verified.                                                *)
THEOREM VerifiedIsVerified == Spec => []VerifiedAnswerIsTrue
<1>1. Init => CloserInv
  BY DEF Init, CloserInv, VerifiedAnswerIsTrue, Callers
<1>2. IInv /\ CloserInv /\ [Next]_vars => CloserInv'
  BY StepCloserInv DEF IInv
<1>3. CloserInv => VerifiedAnswerIsTrue
  BY DEF CloserInv
<1>4. QED
  BY <1>1, <1>2, <1>3, Inductive, PTL DEF Spec

-----------------------------------------------------------------------------
(* The executor implements AuthorizedEffect.                               *)

Phase == [d \in Decisions |-> PhaseOf(exec[d])]
Spent == [f \in Fingerprints |-> Applied(f)]

SamePhase(d) == PhaseOf(exec'[d]) = PhaseOf(exec[d])

(* The calls that were applied, and whose, are the same.                   *)
SameCalls ==
  \A r \in Requests :
    /\ put'[r] = "accepted" <=> put[r] = "accepted"
    /\ put[r] = "accepted" => dec'[r] = dec[r]

(* The phase depends on the state and on the provenance only.              *)
LEMMA PhaseKept ==
  ASSUME NEW d \in Decisions, exec'[d].state = exec[d].state,
         exec'[d].predates = exec[d].predates
  PROVE  SamePhase(d)
BY DEF SamePhase, PhaseOf

(* The same calls spend the same authorizations.                           *)
LEMMA SpentKept ==
  ASSUME SameCalls
  PROVE  Spent' = Spent
<1>1. ASSUME NEW f \in Fingerprints
      PROVE  Applied(f)' <=> Applied(f)
  BY DEF SameCalls, Applied
<1>2. \A f \in Fingerprints : Applied(f)' = Applied(f)
  BY <1>1 DEF Applied
<1>3. QED
  BY <1>2 DEF Spent

(* A step after which every execution is in the phase it was in stutters.  *)
LEMMA Stutters ==
  ASSUME SameCalls, \A d \in Decisions : SamePhase(d)
  PROVE  UNCHANGED <<Phase, Spent>>
<1>1. Phase' = Phase
  BY DEF Phase, SamePhase
<1>2. QED
  BY <1>1, SpentKept

(* A step after which one execution is in another phase moves it.          *)
LEMMA MovesPhase ==
  ASSUME SameCalls, NEW d \in Decisions, NEW from, NEW to,
         \A e \in Decisions \ {d} : SamePhase(e),
         PhaseOf(exec[d]) = from, PhaseOf(exec'[d]) = to
  PROVE  Effect!Moves(d, from, to)
<1>1. Phase[d] = from
  BY DEF Phase
<1>2. Phase' = [Phase EXCEPT ![d] = to]
  BY DEF Phase, SamePhase
<1>3. Spent' = Spent
  BY SpentKept
<1>4. QED
  BY <1>1, <1>2, <1>3 DEF Effect!Moves, Phase, Spent

(* What a step of the executor is seen from outside.                       *)
Seen == Effect!Next \/ UNCHANGED <<Phase, Spent>>

(* A move of one execution is a step of the specification.                 *)
LEMMA SeenMoves ==
  ASSUME NEW d \in Decisions,
         \/ Effect!Moves(d, "open", "attempted")
         \/ Effect!Moves(d, "open", "foreign")
         \/ Effect!Moves(d, "attempted", "mutated")
         \/ Effect!Moves(d, "foreign", "verified_foreign")
         \/ Effect!Moves(d, "mutated", "verified_mutated")
         \/ Effect!Moves(d, "open", "stale")
  PROVE  Seen
BY DEF Seen, Effect!Next, Effect!Attempt, Effect!Disclaim, Effect!Record,
   Effect!Verify, Effect!Abandon

(* Steps that write no document and settle no call.                        *)
LEMMA SeenUnwritten ==
  ASSUME SameCalls, UNCHANGED exec
  PROVE  Seen
<1>1. \A d \in Decisions : SamePhase(d)
  BY DEF SamePhase
<1>2. QED
  BY <1>1, Stutters DEF Seen

(* Steps that leave each document's state and provenance.                  *)
LEMMA SeenUnmoved ==
  ASSUME SameCalls,
         \A d \in Decisions : /\ exec'[d].state = exec[d].state
                              /\ exec'[d].predates = exec[d].predates
  PROVE  Seen
BY PhaseKept, Stutters DEF Seen

(* An acquire creates or takes a document, which stays in its phase.       *)
LEMMA SeenTakes ==
  ASSUME TypeOK, SameCalls, NEW r \in Requests, pc[r] # "idle", Takes(r)
  PROVE  Seen
<1>1. \A d \in Decisions \ {dec[r]} : SamePhase(d)
  BY TakesStep DEF SamePhase
<1>2. SamePhase(dec[r])
  BY TakesStep DEF SamePhase, PhaseOf
<1>3. QED
  BY <1>1, <1>2, Stutters DEF Seen

(* The other executions of a write stay in their phase.                    *)
LEMMA OthersKeepPhase ==
  ASSUME NEW r \in Requests, NEW from, NEW s, Moved(r, from, s)
  PROVE  \A e \in Decisions \ {dec[r]} : SamePhase(e)
BY DEF Moved, SamePhase

(* A request's writes leave its calls.                                     *)
LEMMA WritesNoCall ==
  ASSUME NEW r \in Requests, WriteFrame(r)
  PROVE  SameCalls /\ dec[r] \in Decisions
BY DEF WriteFrame, SameCalls

(* CASE B: an execution that attempted nothing disclaims the effect, one   *)
(* that may have made the change records it, and one that recorded it      *)
(* already stays as it is.                                                 *)
LEMMA SeenReconcile ==
  ASSUME IInv, NEW r \in Requests, Reconcile(r)
  PROVE  Seen
<1>0. TypeOK
  BY DEF IInv
<1>1. SameCalls /\ dec[r] \in Decisions /\ pc[r] = "reconcile"
  BY <1>0, ReconcileStep, WritesNoCall
<1>2. CASE UNCHANGED exec
  BY <1>1, <1>2, SeenUnwritten
<1>3. ASSUME Moved(r, PRE_MUTATION_STATES, "MUTATED"),
             exec'[dec[r]].predates = Disclaims(r)
      PROVE  Seen
  <2>1. /\ exec[dec[r]].epoch = epoch[r] /\ Deciding(r)
        /\ exec[dec[r]].state \in OPEN_STATES
        /\ exec'[dec[r]].state = "MUTATED"
    BY <1>1, <1>3 DEF Moved, Deciding
  <2>2. /\ Attempted(r) <=> exec[dec[r]].state \in ATTEMPTED_STATES
        /\ seen[r].predates = exec[dec[r]].predates
    BY <1>0, <2>1, DecidingKnows DEF IInv
  <2>3. \A e \in Decisions \ {dec[r]} : SamePhase(e)
    BY <1>3, OthersKeepPhase
  <2>4. CASE exec[dec[r]].state \in {"CLAIMED", "PRECONDITION_CHECKED"}
    <3>1. Disclaims(r) = TRUE
      BY <2>2, <2>4 DEF Disclaims, ATTEMPTED_STATES
    <3>2. PhaseOf(exec[dec[r]]) = "open"
      BY <2>4 DEF PhaseOf
    <3>3. PhaseOf(exec'[dec[r]]) = "foreign"
      BY <1>3, <2>1, <3>1 DEF PhaseOf
    <3>4. Effect!Moves(dec[r], "open", "foreign")
      BY <1>1, <2>3, <3>2, <3>3, MovesPhase
    <3>5. QED
      BY <1>1, <3>4, SeenMoves
  <2>5. CASE exec[dec[r]].state = "MUTATION_REQUESTED"
    <3>1. exec'[dec[r]].predates = FALSE
      BY <1>0, <1>1, <1>3, <2>2, <2>5, DisclaimsKept
      DEF IInv, DisclaimInv, ATTEMPTED_STATES, TypeOK, Record
    <3>2. PhaseOf(exec[dec[r]]) = "attempted"
      BY <2>5 DEF PhaseOf
    <3>3. PhaseOf(exec'[dec[r]]) = "mutated"
      BY <2>1, <3>1 DEF PhaseOf
    <3>4. QED
      BY <1>1, <2>3, <3>2, <3>3, MovesPhase, SeenMoves
  <2>6. CASE exec[dec[r]].state = "MUTATED"
    <3>1. exec'[dec[r]].predates = exec[dec[r]].predates
      BY <1>0, <1>3, <2>2, <2>6, DisclaimsKept DEF ATTEMPTED_STATES
    <3>2. QED
      BY <1>1, <2>1, <2>3, <2>6, <3>1, PhaseKept, Stutters DEF Seen
  <2>7. QED
    BY <2>1, <2>4, <2>5, <2>6 DEF OPEN_STATES
<1>4. QED
  BY <1>0, <1>2, <1>3, ReconcileStep

(* The stale closure abandons an execution that attempted nothing.         *)
LEMMA SeenFailStale ==
  ASSUME IInv, NEW r \in Requests, FailStale(r)
  PROVE  Seen
<1>0. TypeOK
  BY DEF IInv
<1>1. SameCalls /\ dec[r] \in Decisions /\ pc[r] = "stale"
  BY <1>0, FailStaleStep, WritesNoCall
<1>2. CASE UNCHANGED exec
  BY <1>1, <1>2, SeenUnwritten
<1>3. ASSUME Moved(r, PRE_MUTATION_STATES, "STALE")
      PROVE  Seen
  <2>1. /\ exec[dec[r]].epoch = epoch[r] /\ Deciding(r)
        /\ exec[dec[r]].state \in OPEN_STATES
        /\ exec'[dec[r]].state = "STALE"
    BY <1>1, <1>3 DEF Moved, Deciding
  <2>2. exec[dec[r]].state \notin ATTEMPTED_STATES
    BY <1>0, <1>1, <2>1, DecidingKnows DEF IInv, SeenInv
  <2>3. /\ PhaseOf(exec[dec[r]]) = "open"
        /\ PhaseOf(exec'[dec[r]]) = "stale"
    BY <2>1, <2>2 DEF PhaseOf, OPEN_STATES, ATTEMPTED_STATES
  <2>4. QED
    BY <1>1, <1>3, <2>3, OthersKeepPhase, MovesPhase, SeenMoves
<1>4. QED
  BY <1>0, <1>2, <1>3, FailStaleStep

(* The precondition check is made before anything was attempted.           *)
LEMMA SeenCheckPrecondition ==
  ASSUME IInv, NEW r \in Requests, CheckPrecondition(r)
  PROVE  Seen
<1>0. TypeOK
  BY DEF IInv
<1>1. SameCalls /\ dec[r] \in Decisions /\ pc[r] = "precondition"
  BY <1>0, CheckPreconditionStep, WritesNoCall
<1>2. CASE UNCHANGED exec
  BY <1>1, <1>2, SeenUnwritten
<1>3. ASSUME Moved(r, PRE_MUTATION_STATES, "PRECONDITION_CHECKED")
      PROVE  Seen
  <2>1. /\ exec[dec[r]].epoch = epoch[r] /\ Deciding(r)
        /\ exec[dec[r]].state \in OPEN_STATES
        /\ exec'[dec[r]].state = "PRECONDITION_CHECKED"
    BY <1>1, <1>3 DEF Moved, Deciding
  <2>2. exec[dec[r]].state \notin ATTEMPTED_STATES
    BY <1>0, <1>1, <2>1, DecidingKnows DEF IInv, SeenInv
  <2>3. SamePhase(dec[r])
    BY <2>1, <2>2 DEF SamePhase, PhaseOf, OPEN_STATES, ATTEMPTED_STATES
  <2>4. QED
    BY <1>1, <1>3, <2>3, OthersKeepPhase, Stutters DEF Seen
<1>4. QED
  BY <1>0, <1>2, <1>3, CheckPreconditionStep

(* Announcing the call is the attempt.                                     *)
LEMMA SeenRequestMutation ==
  ASSUME IInv, NEW r \in Requests, RequestMutation(r)
  PROVE  Seen
<1>0. TypeOK
  BY DEF IInv
<1>1. SameCalls /\ dec[r] \in Decisions
  BY <1>0, RequestMutationStep, WritesNoCall
<1>2. CASE UNCHANGED exec
  BY <1>1, <1>2, SeenUnwritten
<1>3. ASSUME Moved(r, {"PRECONDITION_CHECKED"}, "MUTATION_REQUESTED")
      PROVE  Seen
  <2>1. /\ PhaseOf(exec[dec[r]]) = "open"
        /\ PhaseOf(exec'[dec[r]]) = "attempted"
    BY <1>3 DEF Moved, PhaseOf
  <2>2. QED
    BY <1>1, <1>3, <2>1, OthersKeepPhase, MovesPhase, SeenMoves
<1>4. QED
  BY <1>0, <1>2, <1>3, RequestMutationStep

(* The two writes that record an accepted change.                          *)
LEMMA SeenRecords ==
  ASSUME IInv, NEW r \in Requests, RecordMutation(r) \/ RecordAgain(r)
  PROVE  Seen
<1>0. TypeOK
  BY DEF IInv
<1>1. SameCalls /\ dec[r] \in Decisions
  BY <1>0, RecordMutationStep, RecordAgainStep, WritesNoCall
<1>2. CASE UNCHANGED exec
  BY <1>1, <1>2, SeenUnwritten
<1>3. ASSUME Moved(r, {"MUTATION_REQUESTED"}, "MUTATED"),
             exec'[dec[r]].predates = exec[dec[r]].predates
      PROVE  Seen
  <2>1. exec[dec[r]].predates = FALSE
    BY <1>0, <1>1, <1>3 DEF IInv, DisclaimInv, Moved, TypeOK, Record
  <2>2. /\ PhaseOf(exec[dec[r]]) = "attempted"
        /\ PhaseOf(exec'[dec[r]]) = "mutated"
    BY <1>3, <2>1 DEF Moved, PhaseOf
  <2>3. QED
    BY <1>1, <1>3, <2>2, OthersKeepPhase, MovesPhase, SeenMoves
<1>4. QED
  BY <1>0, <1>2, <1>3, RecordMutationStep, RecordAgainStep

(* Two requests of one authorization past the binding are of one execution.*)
LEMMA OneExecution ==
  ASSUME IInv, NEW r \in Requests, NEW q \in Requests,
         pc[r] \in BoundSteps \/ put[r] # "none",
         pc[q] \in BoundSteps \/ put[q] # "none",
         FingerprintOf[dec[r]] = FingerprintOf[dec[q]]
  PROVE  dec[r] = dec[q]
BY DEF IInv, BindingInv

(* The attempt is withdrawn only when Google proved that it changed        *)
(* nothing, and then no request of this authorization changed anything.    *)
LEMMA SeenRewind ==
  ASSUME IInv, NEW r \in Requests, Rewind(r)
  PROVE  Seen
<1>0. TypeOK
  BY DEF IInv
<1>1. SameCalls /\ dec[r] \in Decisions /\ pc[r] = "rewind"
  BY <1>0, RewindStep, WritesNoCall
<1>2. CASE UNCHANGED exec
  BY <1>1, <1>2, SeenUnwritten
<1>3. ASSUME Moved(r, {"MUTATION_REQUESTED"}, "PRECONDITION_CHECKED")
      PROVE  Seen
  <2>1. /\ PhaseOf(exec[dec[r]]) = "attempted"
        /\ PhaseOf(exec'[dec[r]]) = "open"
    BY <1>3 DEF Moved, PhaseOf
  <2>2. ASSUME NEW q \in Requests, put[q] = "accepted",
               FingerprintOf[dec[q]] = FingerprintOf[dec[r]]
        PROVE  FALSE
    <3>1. pc[r] \in BoundSteps /\ put[q] # "none" /\ put[r] = "refused"
      BY <1>1, <2>2 DEF BoundSteps, ExecuteSteps, IInv, RequestInv
    <3>2. dec[q] = dec[r]
      BY <2>2, <3>1, OneExecution
    <3>3. Armed(q) /\ Armed(r)
      BY <1>1, <2>2 DEF Armed, MayTakeEffect
    <3>4. q = r
      BY <3>2, <3>3 DEF IInv, EffectInv
    <3>5. QED
      BY <2>2, <3>1, <3>4
  <2>3. ~Applied(FingerprintOf[dec[r]])
    BY <2>2 DEF Applied
  <2>4. Spent[FingerprintOf[dec[r]]] = Applied(FingerprintOf[dec[r]])
    BY <1>1, ExecutorAssumption DEF Spent
  <2>5. Effect!Moves(dec[r], "attempted", "open")
    BY <1>1, <1>3, <2>1, OthersKeepPhase, MovesPhase
  <2>6. Effect!Withdraw(dec[r])
    BY <2>3, <2>4, <2>5 DEF Effect!Withdraw, Spent
  <2>7. QED
    BY <1>1, <2>6 DEF Seen, Effect!Next
<1>4. QED
  BY <1>0, <1>2, <1>3, RewindStep

(* A call is applied for an execution whose record says so, and for the    *)
(* first time.                                                             *)
LEMMA SeenApplied ==
  ASSUME IInv, NEW r \in Requests, ApplyPut(r)
  PROVE  Seen
<1> DEFINE g == FingerprintOf[dec[r]]
<1>0. TypeOK
  BY DEF IInv
<1>1. put[r] = "inflight" /\ put' = [put EXCEPT ![r] = "accepted"]
      /\ UNCHANGED <<exec, dec>>
  BY DEF ApplyPut, planeVars, localVars
<1>2. dec[r] \in Decisions /\ g \in Fingerprints
  BY <1>0, <1>1, ExecutorAssumption DEF TypeOK, LocalTypeOK, Callers
<1>3. /\ exec[dec[r]].state \in ATTEMPTED_STATES \cup {"VERIFIED"}
      /\ ~exec[dec[r]].predates
  BY <1>1 DEF IInv, EffectInv, Armed, MayTakeEffect
<1>4. PhaseOf(exec[dec[r]]) \in {"attempted", "mutated", "verified_mutated"}
  BY <1>3 DEF PhaseOf, ATTEMPTED_STATES
<1>5. ASSUME NEW q \in Requests, put[q] = "accepted", FingerprintOf[dec[q]] = g
      PROVE  FALSE
  <2>1. dec[q] = dec[r]
    BY <1>1, <1>5, OneExecution
  <2>2. q = r
    BY <1>1, <1>5, <2>1 DEF IInv, EffectInv, Armed, MayTakeEffect
  <2>3. QED
    BY <1>1, <1>5, <2>2
<1>6. ~Applied(g)
  BY <1>5 DEF Applied
<1>7. Applied(g)'
  BY <1>0, <1>1 DEF Applied, TypeOK
<1>8. ASSUME NEW f \in Fingerprints, f # g
      PROVE  Applied(f)' <=> Applied(f)
  BY <1>0, <1>1, <1>8 DEF Applied, TypeOK
<1>9. UNCHANGED Phase
  BY <1>1 DEF Phase
<1>10. Spent' = [Spent EXCEPT ![g] = TRUE]
  <2>1. \A f \in Fingerprints :
          Applied(f)' = IF f = g THEN TRUE ELSE Applied(f)
    BY <1>1, <1>7, <1>8 DEF Applied
  <2> QED
    BY <2>1 DEF Spent
<1>11. Effect!Apply(dec[r])
  BY <1>2, <1>4, <1>6, <1>9, <1>10 DEF Effect!Apply, Phase, Spent
<1>12. QED
  BY <1>2, <1>11 DEF Seen, Effect!Next

(* Closing an execution on evidence verifies it with the provenance it has.*)
LEMMA SeenClose ==
  ASSUME IInv, NEW k \in Closers, CloseExecution(k)
  PROVE  Seen
<1>1. TypeOK /\ dec[k] \in Decisions /\ Doc(k) \in Record
  BY DEF CloseExecution, At, IInv, TypeOK, LocalTypeOK, Callers, Doc
<1>2. SameCalls
  BY DEF CloseExecution, SameCalls, cloudVars
<1>3. CASE UNCHANGED exec
  BY <1>2, <1>3, SeenUnwritten
<1>4. ASSUME Doc(k).state = "MUTATED",
             exec' = [exec EXCEPT ![dec[k]] =
                        AdvancedRecord(@, "VERIFIED", @.predates)]
      PROVE  Seen
  <2>1. \A e \in Decisions \ {dec[k]} : SamePhase(e)
    BY <1>1, <1>4 DEF SamePhase, TypeOK
  <2>2. /\ exec'[dec[k]].state = "VERIFIED"
        /\ exec'[dec[k]].predates = exec[dec[k]].predates
        /\ exec[dec[k]].predates \in BOOLEAN
    BY <1>1, <1>4 DEF AdvancedRecord, TypeOK, Record
  <2>3. CASE exec[dec[k]].predates = TRUE
    <3>1. /\ PhaseOf(exec[dec[k]]) = "foreign"
          /\ PhaseOf(exec'[dec[k]]) = "verified_foreign"
      BY <1>4, <2>2, <2>3 DEF PhaseOf, Doc
    <3>2. QED
      BY <1>1, <1>2, <2>1, <3>1, MovesPhase, SeenMoves
  <2>4. CASE exec[dec[k]].predates = FALSE
    <3>1. /\ PhaseOf(exec[dec[k]]) = "mutated"
          /\ PhaseOf(exec'[dec[k]]) = "verified_mutated"
      BY <1>4, <2>2, <2>4 DEF PhaseOf, Doc
    <3>2. QED
      BY <1>1, <1>2, <2>1, <3>1, MovesPhase, SeenMoves
  <2>5. QED
    BY <2>2, <2>3, <2>4
<1>5. QED
  BY <1>1, <1>3, <1>4 DEF CloseExecution, TerminalizeOutcome, Record,
     OPEN_STATES, TERMINAL_STATES, TERMINALIZABLE_STATES

(* What /terminalize does besides, and the world outside, is not seen.     *)
LEMMA SeenOutside ==
  ASSUME IInv, Outside, ~ \E k \in Closers : CloseExecution(k)
  PROVE  Seen
<1>1. SameCalls
  BY OutsideStep DEF IInv, OutsideFrame, SameCalls
<1>2. ASSUME NEW k \in Closers, TerminalizeStep(k)
      PROVE  UNCHANGED exec
  BY <1>2 DEF TerminalizeStep, ReceiveTerminalize, ReadExecution,
     ProbeService, planeVars
<1>3. ASSUME NEW d \in Decisions, LeaseLapses(d)
      PROVE  \A e \in Decisions : /\ exec'[e].state = exec[e].state
                                  /\ exec'[e].predates = exec[e].predates
  BY <1>3 DEF LeaseLapses, LapsedRecord, IInv, TypeOK
<1>4. CASE \/ MigrateTraffic \/ UNCHANGED vars
           \/ \E v \in Revisions \cup {Split} : OperatorChange(v)
           \/ \E d \in ApprovalRequired : Approve(d) \/ Reject(d) \/ ApprovalLapses(d)
           \/ \E i \in Incidents : CloseIncident(i)
  <2>1. UNCHANGED exec
    BY <1>4 DEF MigrateTraffic, OperatorChange, Approve, Reject, Decided, ApprovalLapses,
       CloseIncident, vars, planeVars
  <2>2. QED
    BY <1>1, <2>1, SeenUnwritten
<1>5. QED
  BY <1>1, <1>2, <1>3, <1>4, SeenUnwritten, SeenUnmoved
  DEF Outside, Environment

(* Every step of the executor is a step of the authorization's life, or    *)
(* none.                                                                   *)
LEMMA StepSeen ==
  ASSUME IInv, [Next]_vars
  PROVE  Seen
<1>0. TypeOK /\ RequestInv
  BY DEF IInv
<1>1. ASSUME NEW r \in Requests, NEW d \in Decisions, ReceiveExecute(r, d)
      PROVE  Seen
  <2>1. put[r] = "none"
    BY <1>0, <1>1 DEF ReceiveExecute, At, RequestInv, BeforeCall
  <2>2. SameCalls /\ UNCHANGED exec
    BY <1>0, <1>1, <2>1 DEF ReceiveExecute, SameCalls, TypeOK, LocalTypeOK,
       cloudVars, planeVars
  <2>3. QED
    BY <2>2, SeenUnwritten
<1>2. ASSUME NEW r \in Requests, Quiet(r)
      PROVE  Seen
  BY <1>0, <1>2, QuietStep, SeenUnwritten DEF SameCalls
<1>3. ASSUME NEW r \in Requests, Bind(r) \/ FileReceipt(r)
      PROVE  Seen
  BY <1>3, SeenUnwritten DEF Bind, FileReceipt, SameCalls, cloudVars
<1>4. ASSUME NEW r \in Requests, Acquire(r) \/ RetakeLease(r)
      PROVE  Seen
  <2>1. SameCalls /\ pc[r] # "idle" /\ (Takes(r) \/ UNCHANGED exec)
    BY <1>4 DEF Acquire, RetakeLease, At, SameCalls, cloudVars
  <2>2. QED
    BY <1>0, <2>1, SeenTakes, SeenUnwritten
<1>5. ASSUME NEW r \in Requests, Reconcile(r)
      PROVE  Seen
  BY <1>5, SeenReconcile
<1>6. ASSUME NEW r \in Requests, FailStale(r)
      PROVE  Seen
  BY <1>6, SeenFailStale
<1>7. ASSUME NEW r \in Requests, CheckPrecondition(r)
      PROVE  Seen
  BY <1>7, SeenCheckPrecondition
<1>8. ASSUME NEW r \in Requests, RequestMutation(r)
      PROVE  Seen
  BY <1>8, SeenRequestMutation
<1>9. ASSUME NEW r \in Requests, SendPut(r)
      PROVE  Seen
  <2>1. put[r] = "none" /\ put' = [put EXCEPT ![r] = "inflight"]
    BY <1>0, <1>9 DEF SendPut, At, RequestInv, BeforeCall
  <2>2. SameCalls /\ UNCHANGED exec
    BY <1>0, <1>9, <2>1 DEF SendPut, SameCalls, TypeOK, planeVars
  <2>3. QED
    BY <2>2, SeenUnwritten
<1>10. ASSUME NEW r \in Requests, Rewind(r)
       PROVE  Seen
  BY <1>10, SeenRewind
<1>11. ASSUME NEW r \in Requests, Release(r)
       PROVE  Seen
  <2>1. SameCalls
    BY <1>11 DEF Release, SameCalls, cloudVars
  <2>2. QED
    BY <1>0, <1>11, <2>1, ReleaseStep, SeenUnmoved
<1>12. ASSUME NEW r \in Requests, RecordMutation(r) \/ RecordAgain(r)
       PROVE  Seen
  BY <1>12, SeenRecords
<1>13. ASSUME NEW r \in Requests, ApplyPut(r)
       PROVE  Seen
  BY <1>13, SeenApplied
<1>14. ASSUME NEW r \in Requests, RefusePut(r) \/ LosePut(r)
       PROVE  Seen
  <2>1. SameCalls /\ UNCHANGED exec
    BY <1>0, <1>14 DEF RefusePut, LosePut, SameCalls, TypeOK, localVars,
       planeVars
  <2>2. QED
    BY <2>1, SeenUnwritten
<1>15. ASSUME NEW k \in Closers, CloseExecution(k)
       PROVE  Seen
  BY <1>15, SeenClose
<1>16. ASSUME Outside, ~ \E k \in Closers : CloseExecution(k)
       PROVE  Seen
  BY <1>16, SeenOutside
<1>17. QED
  BY <1>1, <1>2, <1>3, <1>4, <1>5, <1>6, <1>7, <1>8, <1>9, <1>10, <1>11,
     <1>12, <1>13, <1>14, <1>15, <1>16
  DEF Next, ExecuteStep, CloudRunStep, Outside, Quiet

(* At first every authorization is unspent and every execution open.       *)
LEMMA InitSeen == Init => Effect!Init
<1> SUFFICES ASSUME Init PROVE Effect!Init
  OBVIOUS
<1>1. \A d \in Decisions : PhaseOf(exec[d]) = "open"
  BY DEF Init, NoRecord, PhaseOf
<1>2. \A f \in Fingerprints : Applied(f) = FALSE
  BY DEF Init, Applied
<1>3. QED
  BY <1>1, <1>2 DEF Effect!Init

(* The executor implements AuthorizedEffect, for any number of requests,   *)
(* processes, decisions and re-issued authorizations.                      *)
THEOREM AuthorizationSpentOnce == Spec => SpendsAuthorizationOnce
<1>1. IInv /\ [Next]_vars => [Effect!Next]_<<Phase, Spent>>
  BY StepSeen DEF Seen
<1>2. Effect!Spec <=> Effect!Init /\ [][Effect!Next]_<<Phase, Spent>>
  BY DEF Effect!Spec, Phase, Spent
<1>3. QED
  BY <1>1, <1>2, InitSeen, Inductive, PTL DEF Spec, SpendsAuthorizationOnce
=============================================================================
