------------------------------ MODULE AuditChain ------------------------------
(***************************************************************************)
(* The audit trail of one incident: IncidentRepository's writes            *)
(* (src/src/scf/state/firestore_repo.py) and the verification of what they *)
(* leave (src/src/scf/audit/chain.py).                                     *)
(*                                                                         *)
(* A writer is one call of the repository: create, transition, append_audit*)
(* or one of the operations that write a document and then append.  It     *)
(* reads the incident and commits in a Firestore transaction, which loses  *)
(* when the incident document changed in between.  A hash is the term it   *)
(* was computed from, so that equal hashes have equal contents.            *)
(*                                                                         *)
(* trail is the audit collection in the order of its seq field.            *)
(***************************************************************************)
EXTENDS IncidentStateMachine

CONSTANTS
  Writers,      \* calls of the repository
  Targets,      \* statuses a transition is asked for
  MaxAttempts   \* attempts Firestore gives one transaction

ASSUME ChainAssumption ==
  Targets \subseteq Statuses /\ MaxAttempts \in Nat \ {0}

VARIABLES
  doc,       \* the incident document: audit_seq, audit_tail_hash, status
  trail,     \* the audit records
  saved,     \* writers whose own document has been written
  writer,    \* where each call has got to
  reader,    \* GET /incidents/{id}: the document it has read
  damaged    \* somebody other than the repository changed the trail

vars == <<doc, trail, saved, writer, reader, damaged>>

GENESIS_HASH == <<>>

chain_hash(prev_hash, view) == <<prev_hash, view>>

(* The fields a record's hash commits to: its number and what it says.     *)
hashable_view(record) == <<record.seq, record.says>>

seal(seq, prev_hash, says) ==
  [seq |-> seq, prev_hash |-> prev_hash, says |-> says,
   hash |-> chain_hash(prev_hash, <<seq, says>>)]

NoDoc == [exists |-> FALSE, version |-> 0, status |-> "INTAKE",
          audit_seq |-> 0, audit_tail_hash |-> GENESIS_HASH]

(* The three shapes of a write besides create and transition: a record of  *)
(* its own, a document beside the incident, a field of the incident.       *)
Operations == {"create", "transition", "append", "save", "update"}

Call(pc, op, target, snapshot, attempts) ==
  [pc |-> pc, op |-> op, target |-> target, snapshot |-> snapshot,
   attempts |-> attempts]

Idle == Call("idle", "append", "INTAKE", NoDoc, 0)

Init ==
  /\ doc = NoDoc
  /\ trail = <<>>
  /\ saved = {}
  /\ writer = [w \in Writers |-> Idle]
  /\ reader = NoDoc
  /\ damaged = FALSE

-----------------------------------------------------------------------------
(* Verification.  audit_seq is the number of records accounted for: the    *)
(* code's audit_seq + 1, which starts from -1.                             *)

PrevHash(records, i) == IF i = 1 THEN GENESIS_HASH ELSE records[i-1].hash

verify_chain(records) ==
  \A i \in DOMAIN records :
    /\ records[i].seq = i - 1
    /\ records[i].prev_hash = PrevHash(records, i)
    /\ records[i].hash = chain_hash(records[i].prev_hash, hashable_view(records[i]))

(* Mutant: the trail alone is verified.                                    *)
MutantTrustsTrail(records, audit_seq, audit_tail_hash) == verify_chain(records)

verify_incident_chain(records, audit_seq, audit_tail_hash) ==
  /\ verify_chain(records)
  /\ Len(records) = audit_seq
  /\ records # <<>> => records[Len(records)].hash = audit_tail_hash

-----------------------------------------------------------------------------
(* Writing.                                                                *)

Begins(w, op, target) ==
  /\ writer[w].pc = "idle"
  /\ writer' = [writer EXCEPT ![w] = Call("read", op, target, NoDoc, 0)]

(* The call returned, or raised, or stopped with its instance.             *)
Ends(w, pc) ==
  writer' = [writer EXCEPT ![w] = Call(pc, "append", "INTAKE", NoDoc, 0)]

(* create: the incident document first, its first record afterwards.       *)
Create(w) ==
  /\ ~doc.exists
  /\ doc' = [NoDoc EXCEPT !.exists = TRUE, !.version = 1]
  /\ Begins(w, "create", "INTAKE")
  /\ UNCHANGED <<trail, saved, reader, damaged>>

Transition(w, target) ==
  /\ doc.exists
  /\ Begins(w, "transition", target)
  /\ UNCHANGED <<doc, trail, saved, reader, damaged>>

AppendAudit(w) ==
  /\ doc.exists
  /\ Begins(w, "append", "INTAKE")
  /\ UNCHANGED <<doc, trail, saved, reader, damaged>>

(* Mutant: the record is appended before the document is written.          *)
MutantAuditsFirst(w, op) ==
  /\ doc.exists
  /\ Begins(w, op, "INTAKE")
  /\ UNCHANGED <<doc, trail, saved, reader, damaged>>

(* The writes that are not in the transaction of their record: a decision, *)
(* an approval, evidence; screening, routing and escalation on the incident*)
(* itself.                                                                 *)
Save(w, op) ==
  /\ doc.exists
  /\ saved' = saved \cup {w}
  /\ doc' = [doc EXCEPT !.version = IF op = "update" THEN @ + 1 ELSE @]
  /\ Begins(w, op, "INTAKE")
  /\ UNCHANGED <<trail, reader, damaged>>

(* Mutant: the status is written first, the record afterwards.             *)
MutantStatusFirst(w) ==
  /\ writer[w].pc = "read"
  /\ LET moved == [doc EXCEPT !.version = @ + 1, !.status = writer[w].target]
         moves == writer[w].op = "transition" /\ can_transition(doc.status, writer[w].target)
     IN  /\ doc' = IF moves THEN moved ELSE doc
         /\ writer' = [writer EXCEPT ![w].pc = "commit",
                                     ![w].snapshot = IF moves THEN moved ELSE doc]
  /\ UNCHANGED <<trail, saved, reader, damaged>>

(* The transaction's read; an illegal transition raises here.              *)
Read(w) ==
  /\ writer[w].pc = "read"
  /\ IF writer[w].op = "transition" /\ ~can_transition(doc.status, writer[w].target)
     THEN Ends(w, "failed")
     ELSE writer' = [writer EXCEPT ![w] =
            Call("commit", @.op, @.target, doc, @.attempts)]
  /\ UNCHANGED <<doc, trail, saved, reader, damaged>>

(* What the record of a call says: the transition, or whose document.      *)
Says(w) ==
  IF writer[w].op = "transition"
  THEN [event |-> "state_transition", from |-> writer[w].snapshot.status,
        to |-> writer[w].target]
  ELSE [event |-> writer[w].op, by |-> w]

(* Mutant: the chain head stays where it was.                              *)
MutantKeepsHead(w, seq, record) ==
  [writer[w].snapshot EXCEPT
     !.version = @ + 1, !.audit_seq = seq + 1,
     !.status = IF writer[w].op = "transition" THEN writer[w].target ELSE @]

Updated(w, seq, record) ==
  [writer[w].snapshot EXCEPT
     !.version = @ + 1, !.audit_seq = seq + 1, !.audit_tail_hash = record.hash,
     !.status = IF writer[w].op = "transition" THEN writer[w].target ELSE @]

(* _commit_audit and the commit: slot, chain head and status together, or  *)
(* nothing because the incident changed or the slot's document exists.  A  *)
(* lost answer raises although the commit took effect.                     *)
Commit(w) ==
  LET seq    == writer[w].snapshot.audit_seq
      record == seal(seq, writer[w].snapshot.audit_tail_hash, Says(w))
  IN  /\ writer[w].pc = "commit"
      /\ writer[w].snapshot = doc
      /\ \A i \in DOMAIN trail : trail[i].seq # seq
      /\ trail' = Append(trail, record)
      /\ doc' = Updated(w, seq, record)
      /\ \E pc \in {"done", "failed"} : Ends(w, pc)
      /\ UNCHANGED <<saved, reader, damaged>>

(* The slot of the next record is taken: transaction.create fails.         *)
SlotTaken(w) ==
  /\ writer[w].pc = "commit"
  /\ writer[w].snapshot = doc
  /\ \E i \in DOMAIN trail : trail[i].seq = writer[w].snapshot.audit_seq
  /\ Ends(w, "failed")
  /\ UNCHANGED <<doc, trail, saved, reader, damaged>>

(* The loser of two transactions reads again, as often as it is allowed to.*)
Retry(w) ==
  /\ writer[w].pc = "commit"
  /\ writer[w].snapshot # doc
  /\ IF writer[w].attempts + 1 = MaxAttempts
     THEN Ends(w, "failed")
     ELSE writer' = [writer EXCEPT ![w] =
            Call("read", @.op, @.target, NoDoc, @.attempts + 1)]
  /\ UNCHANGED <<doc, trail, saved, reader, damaged>>

(* The instance stops: a document may be left without its record.          *)
Crash(w) ==
  /\ writer[w].pc \in {"read", "commit"}
  /\ Ends(w, "failed")
  /\ UNCHANGED <<doc, trail, saved, reader, damaged>>

-----------------------------------------------------------------------------
(* GET /incidents/{id}: the document and the records are two reads.        *)

GetIncident ==
  /\ ~reader.exists /\ doc.exists
  /\ reader' = doc
  /\ UNCHANGED <<doc, trail, saved, writer, damaged>>

GetTrail ==
  /\ reader.exists
  /\ reader' = NoDoc
  /\ UNCHANGED <<doc, trail, saved, writer, damaged>>

-----------------------------------------------------------------------------
(* One alteration of the stored trail by something other than the          *)
(* repository: a record edited, with its hash recomputed or not, or        *)
(* exchanged with its neighbour, or deleted, or a forged one appended.     *)

Altered == [event |-> "altered"]

Edited(i) == [trail EXCEPT ![i].says = Altered]

Resealed(i) == [trail EXCEPT ![i] = seal(@.seq, @.prev_hash, Altered)]

Exchanged(i) ==
  [trail EXCEPT ![i]     = [trail[i+1] EXCEPT !.seq = trail[i].seq],
                ![i + 1] = [trail[i] EXCEPT !.seq = trail[i+1].seq]]

Forged == Append(trail, seal(doc.audit_seq, doc.audit_tail_hash, Altered))

Damage ==
  /\ ~damaged
  /\ damaged' = TRUE
  /\ \/ \E i \in DOMAIN trail :
          trail' \in {Edited(i), Resealed(i), RemoveAt(trail, i)}
     \/ \E i \in 1..(Len(trail) - 1) : trail' = Exchanged(i)
     \/ doc.exists /\ trail' = Forged
  /\ UNCHANGED <<doc, saved, writer, reader>>

-----------------------------------------------------------------------------
Step(w) ==
  \/ Create(w) \/ AppendAudit(w)
  \/ \E target \in Targets : Transition(w, target)
  \/ \E op \in {"save", "update"} : Save(w, op)
  \/ Read(w) \/ Commit(w) \/ SlotTaken(w) \/ Retry(w) \/ Crash(w)

Next == (\E w \in Writers : Step(w)) \/ GetIncident \/ GetTrail \/ Damage

Spec == Init /\ [][Next]_vars

-----------------------------------------------------------------------------
(* A trail only the repository wrote verifies against its incident at every*)
(* moment, whatever raced, retried, raised or crashed (firestore_repo.py   *)
(* 113-118, chain.py 104-157).                                             *)
TrailVerifies ==
  ~damaged => verify_incident_chain(trail, doc.audit_seq, doc.audit_tail_hash)

(* One alteration of the trail is detected, and no later append covers it  *)
(* up (chain.py 69-70, 110-121).                                           *)
DamageShows ==
  damaged => ~verify_incident_chain(trail, doc.audit_seq, doc.audit_tail_hash)

(* The statuses a trail shows the incident in, and the last of them.       *)
Transitions(records) ==
  {i \in DOMAIN records : records[i].says.event = "state_transition"}

AuditedStatuses ==
  {"INTAKE"} \cup {trail[i].says.to : i \in Transitions(trail)}

StatusIn(records) ==
  IF Transitions(records) = {} THEN "INTAKE"
  ELSE records[CHOOSE i \in Transitions(records) :
                 \A j \in Transitions(records) : j <= i].says.to

(* The lifecycle with the trail for its history: every change of status is *)
(* a legal transition the trail accounts for, in the order it happened,    *)
(* and no crash separates the two (firestore_repo.py 181-189).             *)
Lifecycle == INSTANCE IncidentLifecycle
               WITH status <- doc.status, visited <- AuditedStatuses

HistoryIsRecorded ==
  [][~damaged' => /\ Lifecycle!Next
                  /\ StatusIn(trail') = doc'.status]_<<doc.status, AuditedStatuses>>

(* GET returns no fewer records than the document it read before accounts  *)
(* for, and its status is the one those records show (main.py 1935-1949).  *)
ReadIsAccountedFor ==
  reader.exists /\ ~damaged =>
    /\ Len(trail) >= reader.audit_seq
    /\ StatusIn(SubSeq(trail, 1, reader.audit_seq)) = reader.status

(* The trail speaks of a document only once it is there, once for each     *)
(* call however often its transaction was retried, and a call that returned*)
(* is in it (firestore_repo.py 215-242, 283-297, 338-356, 418-435).        *)
AuditedWrites ==
  LET Records(w) == {i \in DOMAIN trail : trail[i].says.event \in {"save", "update"}
                                          /\ trail[i].says.by = w}
  IN  ~damaged => \A w \in Writers :
        /\ Records(w) # {} => w \in saved
        /\ \A i, j \in Records(w) : i = j
        /\ w \in saved /\ writer[w].pc = "done" => Records(w) # {}
=============================================================================
