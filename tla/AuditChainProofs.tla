-------------------------- MODULE AuditChainProofs --------------------------
(* Proofs about AuditChain: whatever calls race, retry, fail or stop, the  *)
(* repository's own trail verifies, and it is the incident's history.      *)
EXTENDS AuditChain, PathProofs

(* A value with the fields of the incident document, of a call.            *)
DocShape(d) ==
  /\ d = [exists |-> d.exists, version |-> d.version, status |-> d.status,
          audit_seq |-> d.audit_seq, audit_tail_hash |-> d.audit_tail_hash]
  /\ d.status \in Statuses /\ d.audit_seq \in Nat

CallShape(c) ==
  /\ c = [pc |-> c.pc, op |-> c.op, target |-> c.target,
          snapshot |-> c.snapshot, attempts |-> c.attempts]
  /\ c.op \in Operations /\ c.target \in Statuses /\ DocShape(c.snapshot)

(* The inductive invariant.  Nobody writes before create, an undamaged trail *)
(* is a sequence that verifies against the incident, and a call about to   *)
(* commit a transition found it legal in the document it read.             *)
CInv ==
  /\ damaged \in BOOLEAN /\ DocShape(doc)
  /\ writer = [w \in Writers |-> writer[w]]
  /\ \A w \in Writers :
       /\ CallShape(writer[w])
       /\ writer[w].pc = "commit" /\ writer[w].op = "transition" =>
            can_transition(writer[w].snapshot.status, writer[w].target)
       /\ writer[w].pc \in {"read", "commit"} => doc.exists
  /\ ~doc.exists => doc = NoDoc
  /\ ~damaged => /\ \E S : trail \in Seq(S)
                 /\ trail = <<>> => doc.audit_tail_hash = GENESIS_HASH
                 /\ TrailVerifies

(* Nothing is written yet.                                                 *)
LEMMA InitCInv == Init => CInv
<1>. SUFFICES ASSUME Init PROVE CInv
  OBVIOUS
<1>. USE DEF Init
<1>1. DocShape(doc)
  BY DEF NoDoc, DocShape, Statuses
<1>2. \A w \in Writers : CallShape(writer[w]) /\ writer[w].pc = "idle"
  BY <1>1 DEF Idle, Call, Operations, NoDoc, CallShape, DocShape, Statuses
<1>3. trail \in Seq({})
  OBVIOUS
<1>4. TrailVerifies
  BY DEF TrailVerifies, verify_incident_chain, verify_chain, NoDoc
<1>. QED
  BY <1>1, <1>2, <1>3, <1>4 DEF CInv, NoDoc

(* What CInv says of one call, with the document it writes to.             *)
CallOK(c, exists) ==
  /\ CallShape(c)
  /\ c.pc = "commit" /\ c.op = "transition" =>
       can_transition(c.snapshot.status, c.target)
  /\ c.pc \in {"read", "commit"} => exists

(* A step that changes one call, and takes no incident away.               *)
LEMMA OneCall ==
  ASSUME CInv, NEW w \in Writers, NEW c, CallOK(c, doc'.exists),
         writer' = [writer EXCEPT ![w] = c], doc.exists => doc'.exists
  PROVE  /\ writer' = [v \in Writers |-> writer'[v]]
         /\ \A v \in Writers : CallOK(writer'[v], doc'.exists)
<1>1. \A v \in Writers : writer'[v] = IF v = w THEN c ELSE writer[v]
  BY DEF CInv
<1>. QED
  BY <1>1 DEF CInv, CallOK

(* CInv after a step that leaves document and trail alone.                 *)
LEMMA OnlyACall ==
  ASSUME CInv, NEW w \in Writers, NEW c, CallOK(c, doc.exists),
         writer' = [writer EXCEPT ![w] = c],
         UNCHANGED <<doc, trail, damaged>>
  PROVE  CInv'
<1>1. CallOK(c, doc'.exists)
  OBVIOUS
<1>2. /\ writer' = [v \in Writers |-> writer'[v]]
      /\ \A v \in Writers : CallOK(writer'[v], doc'.exists)
  BY <1>1, OneCall
<1>. QED
  BY <1>2 DEF CInv, CallOK, DocShape, CallShape, TrailVerifies

(* The call that has ended, with or without success.                       *)
LEMMA EndedCall ==
  ASSUME NEW pc \in {"done", "failed"}, NEW exists
  PROVE  CallOK(Call(pc, "append", "INTAKE", NoDoc, 0), exists)
  BY DEF CallOK, CallShape, Call, Operations, DocShape, NoDoc, Statuses

(* The call that begins.                                                   *)
LEMMA NewCall ==
  ASSUME NEW op \in Operations, NEW target \in Statuses, NEW exists, exists
  PROVE  CallOK(Call("read", op, target, NoDoc, 0), exists)
  BY DEF CallOK, CallShape, Call, Operations, DocShape, NoDoc, Statuses

(* The new record links to the head the document carried.                  *)
LEMMA CommitVerifies ==
  ASSUME CInv, ~damaged, NEW w \in Writers, Commit(w)
  PROVE  /\ \E S : trail' \in Seq(S)
         /\ verify_incident_chain(trail', doc'.audit_seq, doc'.audit_tail_hash)
<1>. DEFINE seq    == writer[w].snapshot.audit_seq
            record == seal(seq, writer[w].snapshot.audit_tail_hash, Says(w))
<1>1. PICK S : trail \in Seq(S)
  BY DEF CInv
<1>2. /\ writer[w].snapshot = doc /\ trail' = Append(trail, record)
      /\ doc' = Updated(w, seq, record)
  BY DEF Commit
<1>3. verify_incident_chain(trail, doc.audit_seq, doc.audit_tail_hash)
  BY DEF CInv, TrailVerifies
<1>4. /\ seq = doc.audit_seq /\ seq = Len(trail) /\ seq \in Nat
      /\ record.seq = seq /\ record.prev_hash = doc.audit_tail_hash
      /\ record.hash = chain_hash(record.prev_hash, hashable_view(record))
  BY <1>2, <1>3 DEF verify_incident_chain, seal, hashable_view, CInv, DocShape
<1>5. doc'.audit_seq = seq + 1 /\ doc'.audit_tail_hash = record.hash
  BY <1>2 DEF Updated, CInv, DocShape
<1>. HIDE DEF record, seq
<1>6. trail \in Seq(S \cup {record})
  BY <1>1
<1>7. /\ trail' \in Seq(S \cup {record}) /\ Len(trail') = Len(trail) + 1
      /\ DOMAIN trail' = 1..(Len(trail) + 1)
      /\ trail'[Len(trail) + 1] = record
      /\ \A i \in DOMAIN trail : trail'[i] = trail[i]
  BY <1>2, <1>6
<1>8. ASSUME NEW i \in DOMAIN trail'
      PROVE  /\ trail'[i].seq = i - 1
             /\ trail'[i].prev_hash = PrevHash(trail', i)
             /\ trail'[i].hash = chain_hash(trail'[i].prev_hash, hashable_view(trail'[i]))
  <2>1. CASE i \in DOMAIN trail
    <3>1. i \in 1..Len(trail) /\ trail'[i] = trail[i]
      BY <2>1, <1>7, <1>1
    <3>2. PrevHash(trail', i) = PrevHash(trail, i)
      BY <3>1, <1>7, <1>1 DEF PrevHash
    <3>. QED
      BY <2>1, <3>1, <3>2, <1>3 DEF verify_incident_chain, verify_chain
  <2>2. CASE i = Len(trail) + 1
    <3>1. PrevHash(trail', i) = doc.audit_tail_hash
      <4>1. CASE trail = <<>>
        BY <4>1, <2>2 DEF PrevHash, CInv
      <4>2. CASE trail # <<>>
        <5>1. i # 1 /\ Len(trail) \in DOMAIN trail /\ i - 1 = Len(trail)
          BY <4>2, <2>2, <1>1
        <5>. QED
          BY <5>1, <4>2, <1>3, <1>7 DEF PrevHash, verify_incident_chain
      <4>. QED
        BY <4>1, <4>2
    <3>. QED
      BY <2>2, <3>1, <1>4, <1>7
  <2>. QED
    BY <2>1, <2>2, <1>7, <1>1
<1>. QED
  BY <1>4, <1>5, <1>7, <1>8 DEF verify_incident_chain, verify_chain

(* Every step preserves the invariant.                                     *)
LEMMA NextCInv == CInv /\ [Next]_vars => CInv'
<1>. SUFFICES ASSUME CInv, Next PROVE CInv'
  <2>1. CInv /\ UNCHANGED vars => CInv'
    BY DEF CInv, vars, DocShape, CallShape, TrailVerifies
  <2>. QED
    BY <2>1
<1>0. ASSUME NEW w \in Writers
      PROVE  CallShape(writer[w]) /\ CallOK(writer[w], doc.exists)
  BY DEF CInv, CallOK, CallShape
<1>1. ASSUME NEW w \in Writers, Create(w) PROVE CInv'
  <2>. DEFINE c == Call("read", "create", "INTAKE", NoDoc, 0)
  <2>1. writer' = [writer EXCEPT ![w] = c]
    BY <1>1 DEF Create, Begins
  <2>2. /\ doc' = [exists |-> TRUE, version |-> 1, status |-> "INTAKE",
                   audit_seq |-> 0, audit_tail_hash |-> GENESIS_HASH]
        /\ doc = NoDoc
    BY <1>1 DEF Create, NoDoc, CInv
  <2>3. CallOK(c, doc'.exists)
    BY <2>2, NewCall, ChainAssumption DEF Operations, Statuses
  <2>4. /\ writer' = [v \in Writers |-> writer'[v]]
        /\ \A v \in Writers : CallOK(writer'[v], doc'.exists)
    BY <2>1, <2>2, <2>3, OneCall
  <2>5. DocShape(doc)'
    BY <2>2 DEF DocShape, Statuses
  <2>6. ~damaged => TrailVerifies'
    BY <1>1, <2>2 DEF Create, CInv, TrailVerifies, verify_incident_chain, NoDoc
  <2>. QED
    BY <1>1, <2>2, <2>4, <2>5, <2>6 DEF CInv, CallOK, Create
<1>2. ASSUME NEW w \in Writers, NEW target \in Targets, Transition(w, target)
      PROVE  CInv'
  <2>. DEFINE c == Call("read", "transition", target, NoDoc, 0)
  <2>1. writer' = [writer EXCEPT ![w] = c]
    BY <1>2 DEF Transition, Begins
  <2>2. CallOK(c, doc.exists)
    BY <1>2, NewCall, ChainAssumption DEF Operations, Transition
  <2>. QED
    BY <1>2, <2>1, <2>2, OnlyACall DEF Transition
<1>3. ASSUME NEW w \in Writers, AppendAudit(w) PROVE CInv'
  <2>. DEFINE c == Call("read", "append", "INTAKE", NoDoc, 0)
  <2>1. writer' = [writer EXCEPT ![w] = c]
    BY <1>3 DEF AppendAudit, Begins
  <2>2. CallOK(c, doc.exists)
    BY <1>3, NewCall DEF AppendAudit, Operations, Statuses
  <2>. QED
    BY <1>3, <2>1, <2>2, OnlyACall DEF AppendAudit
<1>4. ASSUME NEW w \in Writers, NEW op \in {"save", "update"}, Save(w, op)
      PROVE  CInv'
  <2>. DEFINE c == Call("read", op, "INTAKE", NoDoc, 0)
  <2>1. writer' = [writer EXCEPT ![w] = c]
    BY <1>4 DEF Save, Begins
  <2>2. /\ doc' = [exists |-> doc.exists,
                   version |-> IF op = "update" THEN doc.version + 1
                                               ELSE doc.version,
                   status |-> doc.status, audit_seq |-> doc.audit_seq,
                   audit_tail_hash |-> doc.audit_tail_hash]
        /\ doc.exists
    BY <1>4 DEF Save, CInv, DocShape
  <2>3. CallOK(c, doc'.exists)
    BY <2>2, NewCall, ChainAssumption DEF Operations, Statuses
  <2>4. /\ writer' = [v \in Writers |-> writer'[v]]
        /\ \A v \in Writers : CallOK(writer'[v], doc'.exists)
    BY <2>1, <2>2, <2>3, OneCall
  <2>5. DocShape(doc)'
    BY <2>2 DEF DocShape, CInv
  <2>. QED
    BY <1>4, <2>2, <2>4, <2>5 DEF CInv, CallOK, Save, TrailVerifies
<1>5. ASSUME NEW w \in Writers, Read(w) PROVE CInv'
  <2>1. CASE writer' = [writer EXCEPT ![w] = Call("failed", "append", "INTAKE", NoDoc, 0)]
    BY <1>5, <2>1, EndedCall, OnlyACall DEF Read
  <2>2. CASE /\ ~(/\ writer[w].op = "transition"
                   /\ ~can_transition(doc.status, writer[w].target))
             /\ writer' = [writer EXCEPT ![w] =
                  Call("commit", @.op, @.target, doc, @.attempts)]
    <3>. DEFINE c == Call("commit", writer[w].op, writer[w].target, doc,
                          writer[w].attempts)
    <3>1. writer' = [writer EXCEPT ![w] = c]
      BY <2>2
    <3>2. CallOK(c, doc.exists)
      BY <1>0, <1>5, <2>2 DEF CallOK, CallShape, Call, Read, CInv
    <3>. QED
      BY <1>5, <3>1, <3>2, OnlyACall DEF Read
  <2>. QED
    BY <1>5, <2>1, <2>2 DEF Read, Ends
<1>6. ASSUME NEW w \in Writers, Commit(w) PROVE CInv'
  <2>. DEFINE seq    == writer[w].snapshot.audit_seq
              record == seal(seq, writer[w].snapshot.audit_tail_hash, Says(w))
  <2>1. /\ writer[w].pc = "commit" /\ writer[w].snapshot = doc
        /\ doc' = Updated(w, seq, record) /\ damaged' = damaged
    BY <1>6 DEF Commit
  <2>. HIDE DEF record
  <2>2. doc' = [exists |-> doc.exists, version |-> doc.version + 1,
                status |-> IF writer[w].op = "transition" THEN writer[w].target
                                                         ELSE doc.status,
                audit_seq |-> seq + 1, audit_tail_hash |-> record.hash]
    BY <2>1 DEF Updated, CInv, DocShape
  <2>3. doc.exists
    BY <2>1 DEF CInv
  <2>4. DocShape(doc)'
    BY <1>0, <2>1, <2>2 DEF DocShape, CInv, CallShape
  <2>5. PICK pc \in {"done", "failed"} :
          writer' = [writer EXCEPT ![w] = Call(pc, "append", "INTAKE", NoDoc, 0)]
    BY <1>6 DEF Commit, Ends
  <2>6. /\ writer' = [v \in Writers |-> writer'[v]]
        /\ \A v \in Writers : CallOK(writer'[v], doc'.exists)
    <3>1. CallOK(Call(pc, "append", "INTAKE", NoDoc, 0), doc'.exists)
      BY EndedCall
    <3>. QED
      BY <2>2, <2>5, <3>1, OneCall
  <2>7. ~damaged => /\ \E S : trail' \in Seq(S)
                    /\ verify_incident_chain(trail', doc'.audit_seq, doc'.audit_tail_hash)
    BY <1>6, CommitVerifies
  <2>8. ~damaged => trail' # <<>>
    BY <1>6 DEF Commit, CInv
  <2>. QED
    BY <2>1, <2>2, <2>3, <2>4, <2>6, <2>7, <2>8 DEF CInv, CallOK, TrailVerifies
<1>7. ASSUME NEW w \in Writers, SlotTaken(w) \/ Crash(w) PROVE CInv'
  BY <1>7, EndedCall, OnlyACall DEF SlotTaken, Crash, Ends
<1>8. ASSUME NEW w \in Writers, Retry(w) PROVE CInv'
  <2>1. CASE Ends(w, "failed")
    BY <1>8, <2>1, EndedCall, OnlyACall DEF Retry, Ends
  <2>2. CASE writer' = [writer EXCEPT ![w] =
                          Call("read", @.op, @.target, NoDoc, @.attempts + 1)]
    <3>. DEFINE c == Call("read", writer[w].op, writer[w].target, NoDoc,
                          writer[w].attempts + 1)
    <3>1. writer' = [writer EXCEPT ![w] = c]
      BY <2>2
    <3>2. CallOK(c, doc.exists)
      BY <1>0, <1>8
         DEF CallOK, CallShape, Call, Retry, DocShape, NoDoc, Statuses
    <3>. QED
      BY <1>8, <3>1, <3>2, OnlyACall DEF Retry
  <2>. QED
    BY <1>8, <2>1, <2>2 DEF Retry
<1>9. ASSUME GetIncident \/ GetTrail PROVE CInv'
  BY <1>9 DEF GetIncident, GetTrail, CInv, DocShape, CallShape, TrailVerifies
<1>10. ASSUME Damage PROVE CInv'
  BY <1>10 DEF Damage, CInv, DocShape, CallShape
<1>. QED
  BY <1>1, <1>2, <1>3, <1>4, <1>5, <1>6, <1>7, <1>8, <1>9, <1>10 DEF Next, Step

(* The inductive invariant holds in every behaviour.                       *)
THEOREM ChainInvariant == Spec => []CInv
  BY InitCInv, NextCInv, PTL DEF Spec

(* Whatever races, retries, fails or stops, a trail only the repository    *)
(* wrote verifies against its incident.                                    *)
THEOREM Verifies == Spec => []TrailVerifies
<1>1. CInv => TrailVerifies
  BY DEF CInv, TrailVerifies
<1>. QED
  BY <1>1, ChainInvariant, PTL

-----------------------------------------------------------------------------
(* The same transition is legal in the module that states the lifecycle.   *)
LEMMA SameTable ==
  /\ Lifecycle!Statuses = Statuses
  /\ \A s, t : can_transition(s, t) => Lifecycle!can_transition(s, t)
<1>1. Lifecycle!Statuses = Statuses
  BY DEF Lifecycle!Statuses, Statuses
<1>2. Lifecycle!TERMINAL_STATES = TERMINAL_STATES
  BY DEF Lifecycle!TERMINAL_STATES, TERMINAL_STATES
<1>3. Lifecycle!LEGAL_TRANSITIONS = LEGAL_TRANSITIONS
  BY <1>1, <1>2 DEF Lifecycle!LEGAL_TRANSITIONS, LEGAL_TRANSITIONS
<1>. QED
  BY <1>1, <1>3 DEF Lifecycle!can_transition, can_transition

(* What one appended record does to the history.                           *)
LEMMA AppendedHistory ==
  ASSUME NEW S, trail \in Seq(S), NEW record, trail' = Append(trail, record)
  PROVE  /\ record.says.event # "state_transition" =>
              AuditedStatuses' = AuditedStatuses
         /\ record.says.event = "state_transition" =>
              /\ AuditedStatuses' = AuditedStatuses \cup {record.says.to}
              /\ StatusIn(trail') = record.says.to
<1>. DEFINE n == Len(trail)
<1>1. trail \in Seq(S \cup {record})
  OBVIOUS
<1>2. /\ n \in Nat /\ DOMAIN trail = 1..n /\ DOMAIN trail' = 1..(n + 1)
      /\ trail'[n + 1] = record
      /\ \A i \in 1..n : trail'[i] = trail[i]
  BY <1>1
<1>. HIDE DEF n
<1>3. ASSUME record.says.event # "state_transition"
      PROVE  AuditedStatuses' = AuditedStatuses
  <2>1. Transitions(trail') = Transitions(trail)
    BY <1>2, <1>3 DEF Transitions
  <2>2. \A i \in Transitions(trail) : trail'[i] = trail[i]
    BY <1>2 DEF Transitions
  <2>. QED
    BY <2>1, <2>2 DEF AuditedStatuses
<1>4. ASSUME record.says.event = "state_transition"
      PROVE  /\ AuditedStatuses' = AuditedStatuses \cup {record.says.to}
             /\ StatusIn(trail') = record.says.to
  <2>1. Transitions(trail') = Transitions(trail) \cup {n + 1}
    BY <1>2, <1>4 DEF Transitions
  <2>2. \A i \in Transitions(trail) : i \in 1..n /\ trail'[i] = trail[i]
    BY <1>2 DEF Transitions
  <2>3. AuditedStatuses' = AuditedStatuses \cup {record.says.to}
    BY <2>1, <2>2, <1>2 DEF AuditedStatuses
  <2>. DEFINE Latest(i) == i \in Transitions(trail') /\
                           \A j \in Transitions(trail') : j <= i
  <2>4. Latest(n + 1)
    BY <2>1, <2>2, <1>2
  <2>5. \A i : Latest(i) => i = n + 1
    BY <2>1, <2>2, <1>2
  <2>6. StatusIn(trail') = trail'[CHOOSE i : Latest(i)].says.to
    BY <2>1 DEF StatusIn
  <2>. QED
    BY <2>3, <2>4, <2>5, <2>6, <1>2
<1>. QED
  BY <1>3, <1>4

(* The trail is the history of the lifecycle: the incident's status changes*)
(* only by legal transitions, each together with its record.               *)
THEOREM Recorded == Spec => HistoryIsRecorded
<1>. DEFINE A == ~damaged' => Lifecycle!Next /\ StatusIn(trail') = doc'.status
<1>1. CInv /\ [Next]_vars => [A]_<<doc.status, AuditedStatuses>>
  <2>. SUFFICES ASSUME CInv, Next, ~damaged',
                       ~UNCHANGED <<doc.status, AuditedStatuses>>
       PROVE  Lifecycle!Next /\ StatusIn(trail') = doc'.status
    BY DEF vars, AuditedStatuses
  <2>1. PICK w \in Writers : Commit(w)
    <3>1. UNCHANGED <<doc.status, trail>> => UNCHANGED <<doc.status, AuditedStatuses>>
      BY DEF AuditedStatuses
    <3>2. ASSUME NEW w \in Writers, Create(w) PROVE UNCHANGED <<doc.status, trail>>
      BY <3>2 DEF Create, CInv, NoDoc
    <3>3. ASSUME NEW w \in Writers, NEW op \in {"save", "update"}, Save(w, op)
          PROVE  UNCHANGED <<doc.status, trail>>
      BY <3>3 DEF Save, CInv, DocShape
    <3>. QED
      BY <3>1, <3>2, <3>3 DEF Next, Step, AppendAudit, Transition, Read,
         SlotTaken, Retry, Crash, GetIncident, GetTrail, Damage
  <2>. DEFINE seq    == writer[w].snapshot.audit_seq
              record == seal(seq, writer[w].snapshot.audit_tail_hash, Says(w))
  <2>2. /\ writer[w].pc = "commit" /\ writer[w].snapshot = doc
        /\ doc' = Updated(w, seq, record) /\ damaged' = damaged
        /\ trail' = Append(trail, record)
    BY <2>1 DEF Commit
  <2>3. record.says = Says(w)
    BY DEF seal
  <2>. HIDE DEF record
  <2>4. doc'.status = IF writer[w].op = "transition" THEN writer[w].target
                                                     ELSE doc.status
    BY <2>2 DEF Updated, CInv, DocShape
  <2>5. PICK S : trail \in Seq(S)
    BY <2>2 DEF CInv
  <2>6. writer[w].op \in Operations /\ writer[w].target \in Statuses
    BY DEF CInv, CallShape
  <2>7. writer[w].op = "transition"
    <3>. SUFFICES ASSUME writer[w].op # "transition" PROVE FALSE
      OBVIOUS
    <3>1. record.says.event # "state_transition"
      BY <2>3, <2>6 DEF Says, Operations
    <3>. QED
      BY <3>1, <2>2, <2>4, <2>5, AppendedHistory
  <2>8. record.says.event = "state_transition" /\ record.says.to = writer[w].target
    BY <2>3, <2>7 DEF Says
  <2>9. /\ AuditedStatuses' = AuditedStatuses \cup {writer[w].target}
        /\ StatusIn(trail') = writer[w].target
    BY <2>2, <2>5, <2>8, AppendedHistory
  <2>10. can_transition(doc.status, writer[w].target)
    BY <2>2, <2>7 DEF CInv
  <2>. QED
    BY <2>4, <2>6, <2>7, <2>9, <2>10, SameTable
       DEF Lifecycle!Next, Lifecycle!transition
<1>. QED
  BY <1>1, ChainInvariant, PTL DEF Spec, HistoryIsRecorded

-----------------------------------------------------------------------------
(* One alteration of the trail shows, and is never covered up.             *)

Verifying == verify_incident_chain(trail, doc.audit_seq, doc.audit_tail_hash)

(* A record with the fields seal gives it, of something the code says.     *)
Intact(r) ==
  /\ r = [seq |-> r.seq, prev_hash |-> r.prev_hash, says |-> r.says,
          hash |-> r.hash]
  /\ r.says # Altered

(* An altered trail keeps disagreeing, with itself or with its incident.   *)
DInv ==
  /\ \E S : trail \in Seq(S)
  /\ damaged => doc.exists /\ ~Verifying
  /\ ~damaged => \A i \in DOMAIN trail : Intact(trail[i])

(* What the code says of a call is never what a forger writes.             *)
LEMMA SaysIsGenuine ==
  ASSUME CInv, NEW w \in Writers
  PROVE  Says(w) # Altered
<1>1. Altered.event = "altered"
  BY DEF Altered
<1>2. writer[w].op \in Operations
  BY DEF CInv, CallShape
<1>3. CASE writer[w].op = "transition"
  BY <1>1, <1>3 DEF Says
<1>4. CASE writer[w].op # "transition"
  BY <1>1, <1>2, <1>4 DEF Says, Operations
<1>5. QED
  BY <1>3, <1>4

(* An append to a trail that does not verify leaves one that does not: the *)
(* broken link stays, the numbers stay apart, and a last record that is not*)
(* the chain head is not the one the new record links to.                  *)
LEMMA AppendHidesNothing ==
  ASSUME NEW S, NEW t \in Seq(S), NEW r, NEW n \in Nat, NEW head,
         ~verify_incident_chain(t, n, head), r.prev_hash = head
  PROVE  ~verify_incident_chain(Append(t, r), n + 1, r.hash)
<1> SUFFICES ASSUME verify_incident_chain(Append(t, r), n + 1, r.hash)
             PROVE  FALSE
  OBVIOUS
<1> DEFINE u == Append(t, r)
<1>1. t \in Seq(S \cup {r}) /\ r \in S \cup {r}
  OBVIOUS
<1>2. /\ Len(u) = Len(t) + 1 /\ u[Len(t) + 1] = r
      /\ \A i \in 1..Len(t) : u[i] = t[i]
      /\ DOMAIN u = 1..(Len(t) + 1) /\ DOMAIN t = 1..Len(t) /\ Len(t) \in Nat
  BY <1>1, AppendProperties
<1> HIDE DEF u
<1>3. verify_chain(u) /\ Len(u) = n + 1
  BY DEF verify_incident_chain, u
<1>4. Len(t) = n
  <2>1. Len(t) \in Nat /\ Len(t) + 1 = n + 1
    BY <1>2, <1>3
  <2>2. QED
    BY <2>1
<1>5. ASSUME NEW i \in DOMAIN t
      PROVE  PrevHash(u, i) = PrevHash(t, i)
  BY <1>2 DEF PrevHash
<1>6. verify_chain(t)
  <2> SUFFICES ASSUME NEW i \in DOMAIN t
               PROVE  /\ t[i].seq = i - 1
                      /\ t[i].prev_hash = PrevHash(t, i)
                      /\ t[i].hash = chain_hash(t[i].prev_hash, hashable_view(t[i]))
    BY DEF verify_chain
  <2>1. i \in DOMAIN u /\ u[i] = t[i]
    BY <1>2
  <2>2. QED
    BY <1>3, <1>5, <2>1 DEF verify_chain
<1>7. ASSUME t # <<>>
      PROVE  t[Len(t)].hash = head
  <2>1. Len(t) # 0 /\ Len(t) \in DOMAIN t /\ Len(t) + 1 \in DOMAIN u
        /\ Len(t) + 1 # 1 /\ Len(t) + 1 - 1 = Len(t)
    BY <1>2, <1>7, EmptySeq
  <2>2. u[Len(t) + 1].prev_hash = PrevHash(u, Len(t) + 1)
    BY <1>3, <2>1 DEF verify_chain
  <2>3. QED
    BY <1>2, <2>1, <2>2 DEF PrevHash
<1>8. QED
  BY <1>4, <1>6, <1>7 DEF verify_incident_chain

(* A record is committed under the chain head the document carries.        *)
LEMMA CommitHidesNothing ==
  ASSUME CInv, DInv, NEW w \in Writers, Commit(w), ~Verifying
  PROVE  ~Verifying'
<1> DEFINE seq    == writer[w].snapshot.audit_seq
           record == seal(seq, writer[w].snapshot.audit_tail_hash, Says(w))
<1>1. /\ writer[w].snapshot = doc /\ trail' = Append(trail, record)
      /\ doc' = Updated(w, seq, record)
  BY DEF Commit
<1>2. doc.audit_seq \in Nat /\ record.prev_hash = doc.audit_tail_hash
      /\ seq = doc.audit_seq
  BY <1>1 DEF CInv, DocShape, seal
<1>3. doc'.audit_seq = seq + 1 /\ doc'.audit_tail_hash = record.hash
  BY <1>1 DEF Updated, CInv, DocShape
<1> HIDE DEF seq, record
<1>4. PICK S : trail \in Seq(S)
  BY DEF DInv
<1>5. QED
  BY <1>1, <1>2, <1>3, <1>4, AppendHidesNothing DEF Verifying

(* Each alteration leaves a trail that does not verify.                    *)
LEMMA EditShows ==
  ASSUME NEW S, NEW t \in Seq(S), NEW n, NEW head, NEW i \in DOMAIN t,
         Intact(t[i]), verify_incident_chain(t, n, head)
  PROVE  ~verify_chain([t EXCEPT ![i].says = Altered])
<1> DEFINE u == [t EXCEPT ![i].says = Altered]
<1>1. /\ t[i].hash = chain_hash(t[i].prev_hash, <<t[i].seq, t[i].says>>)
      /\ t[i].says # Altered
  BY DEF verify_incident_chain, verify_chain, hashable_view, Intact
<1>2. u[i] = [t[i] EXCEPT !.says = Altered]
  OBVIOUS
<1>3. u[i] = [seq |-> t[i].seq, prev_hash |-> t[i].prev_hash,
              says |-> Altered, hash |-> t[i].hash]
  BY <1>2 DEF Intact
<1>4. i \in DOMAIN u
  OBVIOUS
<1> HIDE DEF u
<1>5. ASSUME verify_chain(u)
      PROVE  FALSE
  <2>1. t[i].hash = chain_hash(t[i].prev_hash, <<t[i].seq, Altered>>)
    BY <1>3, <1>4, <1>5 DEF verify_chain, hashable_view
  <2>2. <<t[i].seq, Altered>> = <<t[i].seq, t[i].says>>
    BY <1>1, <2>1 DEF chain_hash
  <2>3. QED
    BY <1>1, <2>2
<1>6. QED
  BY <1>5 DEF u

(* A record sealed anew is not the one its successor, or the incident,     *)
(* links to.                                                               *)
LEMMA ResealShows ==
  ASSUME NEW S, NEW t \in Seq(S), NEW n, NEW head, NEW i \in DOMAIN t,
         Intact(t[i]), verify_incident_chain(t, n, head),
         NEW u, u = [t EXCEPT ![i] = seal(t[i].seq, t[i].prev_hash, Altered)]
  PROVE  ~verify_incident_chain(u, n, head)
<1>1. /\ t[i].hash = chain_hash(t[i].prev_hash, <<t[i].seq, t[i].says>>)
      /\ t[i].says # Altered
  BY DEF verify_incident_chain, verify_chain, hashable_view, Intact
<1>2. u[i].hash = chain_hash(t[i].prev_hash, <<t[i].seq, Altered>>)
  BY DEF seal
<1>3. u[i].hash # t[i].hash
  <2> SUFFICES ASSUME u[i].hash = t[i].hash PROVE FALSE
    OBVIOUS
  <2>1. <<t[i].seq, Altered>> = <<t[i].seq, t[i].says>>
    BY <1>1, <1>2 DEF chain_hash
  <2>2. QED
    BY <1>1, <2>1
<1>4. /\ DOMAIN u = DOMAIN t /\ Len(u) = Len(t)
      /\ \A j \in DOMAIN t : j # i => u[j] = t[j]
      /\ DOMAIN t = 1..Len(t) /\ Len(t) \in Nat
  <2>1. \A j \in DOMAIN t : j # i => u[j] = t[j]
    OBVIOUS
  <2>2. DOMAIN t = 1..Len(t) /\ Len(t) \in Nat
    BY LenProperties
  <2>3. DOMAIN u = 1..Len(t)
    BY <2>2
  <2>4. u \in Seq(S \cup {seal(t[i].seq, t[i].prev_hash, Altered)})
    BY ExceptSeq, <2>2
  <2>5. DOMAIN u = 1..Len(u) /\ Len(u) \in Nat
    BY <2>4, LenProperties
  <2>6. QED
    BY <2>1, <2>2, <2>3, <2>5
<1>5. CASE i = Len(t)
  <2>1. t # <<>> /\ u # <<>>
    BY <1>4
  <2>2. t[i].hash = head
    BY <1>5, <2>1 DEF verify_incident_chain
  <2>3. QED
    BY <1>3, <1>4, <1>5, <2>1, <2>2 DEF verify_incident_chain
<1>6. CASE i # Len(t)
  <2>1. i + 1 \in DOMAIN t /\ i + 1 # 1 /\ i + 1 - 1 = i /\ i + 1 # i
    BY <1>4, <1>6
  <2>2. t[i + 1].prev_hash = t[i].hash
    BY <2>1 DEF verify_incident_chain, verify_chain, PrevHash
  <2>3. u[i + 1].prev_hash = t[i].hash
    BY <1>4, <2>1, <2>2
  <2>4. PrevHash(u, i + 1) = u[i].hash
    BY <2>1 DEF PrevHash
  <2>5. QED
    BY <1>3, <1>4, <2>1, <2>3, <2>4 DEF verify_incident_chain, verify_chain
<1>7. QED
  BY <1>5, <1>6

(* Two neighbours that change places carry hashes of each other's numbers. *)
LEMMA ExchangeShows ==
  ASSUME NEW S, NEW t \in Seq(S), NEW n, NEW head, NEW i \in 1..(Len(t) - 1),
         Intact(t[i + 1]), verify_incident_chain(t, n, head),
         NEW u, u[i] = [t[i + 1] EXCEPT !.seq = t[i].seq], i \in DOMAIN u
  PROVE  ~verify_chain(u)
<1>1. i \in Int /\ i \in DOMAIN t /\ i + 1 \in DOMAIN t /\ i + 1 - 1 = i
  <2>1. DOMAIN t = 1..Len(t) /\ Len(t) \in Nat
    BY LenProperties
  <2>2. QED
    BY <2>1
<1>2. /\ t[i].seq = i - 1 /\ t[i + 1].seq = i
      /\ t[i + 1].hash = chain_hash(t[i + 1].prev_hash, <<i, t[i + 1].says>>)
  <2>1. /\ t[i].seq = i - 1 /\ t[i + 1].seq = i + 1 - 1
        /\ t[i + 1].hash = chain_hash(t[i + 1].prev_hash,
                                      hashable_view(t[i + 1]))
    BY <1>1 DEF verify_incident_chain, verify_chain
  <2>2. t[i + 1].seq = i
    BY <1>1, <2>1
  <2>3. QED
    BY <2>1, <2>2 DEF hashable_view
<1>3. u[i] = [seq |-> i - 1, prev_hash |-> t[i + 1].prev_hash,
              says |-> t[i + 1].says, hash |-> t[i + 1].hash]
  BY <1>2 DEF Intact
<1>4. ASSUME verify_chain(u)
      PROVE  FALSE
  <2>1. t[i + 1].hash
          = chain_hash(t[i + 1].prev_hash, <<i - 1, t[i + 1].says>>)
    BY <1>3, <1>4 DEF verify_chain, hashable_view
  <2>2. <<i, t[i + 1].says>> = <<i - 1, t[i + 1].says>>
    BY <1>2, <2>1 DEF chain_hash
  <2>3. i = i - 1
    BY <2>2
  <2>4. QED
    BY <1>1, <2>3
<1>5. QED
  BY <1>4

(* A removed record is missing from the count the incident carries.        *)
LEMMA RemovalShortens ==
  ASSUME NEW S, NEW t \in Seq(S), NEW i \in DOMAIN t
  PROVE  RemoveAt(t, i) \in Seq(S) /\ Len(RemoveAt(t, i)) # Len(t)
<1>1. /\ DOMAIN t = 1..Len(t) /\ Len(t) \in Nat
      /\ \A j \in 1..Len(t) : t[j] \in S
  BY LenProperties, ElementOfSeq
<1>2. /\ i \in Int /\ Len(t) \in Int /\ i - 1 \in Int /\ i + 1 \in Int
      /\ 1 \in Int
      /\ \A j \in 1..(i - 1) : t[j] \in S
      /\ \A j \in (i + 1)..Len(t) : t[j] \in S
  BY <1>1
<1>3. /\ SubSeq(t, 1, i - 1) \in Seq(S)
      /\ Len(SubSeq(t, 1, i - 1)) = IF 1 <= i - 1 THEN i - 1 - 1 + 1 ELSE 0
  BY <1>2, SubSeqProperties
<1>4. /\ SubSeq(t, i + 1, Len(t)) \in Seq(S)
      /\ Len(SubSeq(t, i + 1, Len(t)))
           = IF i + 1 <= Len(t) THEN Len(t) - (i + 1) + 1 ELSE 0
  BY <1>2, SubSeqProperties
<1>5. /\ RemoveAt(t, i) \in Seq(S)
      /\ Len(RemoveAt(t, i))
           = Len(SubSeq(t, 1, i - 1)) + Len(SubSeq(t, i + 1, Len(t)))
  BY <1>3, <1>4, ConcatProperties DEF RemoveAt
<1>6. Len(RemoveAt(t, i)) = Len(t) - 1
  BY <1>1, <1>3, <1>4, <1>5
<1>7. QED
  BY <1>1, <1>5, <1>6

(* One alteration of a trail that verified leaves one that does not.       *)
LEMMA DamageBreaks ==
  ASSUME CInv, DInv, Damage
  PROVE  DInv'
<1>1. ~damaged /\ damaged' /\ UNCHANGED doc
  BY DEF Damage, CInv
<1>2. PICK S : trail \in Seq(S)
  BY DEF DInv
<1>3. /\ verify_incident_chain(trail, doc.audit_seq, doc.audit_tail_hash)
      /\ \A i \in DOMAIN trail : Intact(trail[i])
      /\ DOMAIN trail = 1..Len(trail) /\ Len(trail) \in Nat
  BY <1>1, <1>2, LenProperties DEF CInv, TrailVerifies, DInv
<1>4. trail # <<>> => doc.exists
  <2>1. ~doc.exists => doc.audit_seq = 0
    BY DEF CInv, NoDoc
  <2>2. ~doc.exists => Len(trail) = 0
    BY <1>3, <2>1 DEF verify_incident_chain
  <2>3. QED
    BY <1>2, <2>2, EmptySeq
<1>5. ASSUME NEW i \in DOMAIN trail
      PROVE  doc.exists
  BY <1>2, <1>3, <1>4, <1>5
<1> SUFFICES (\E T : trail' \in Seq(T)) /\ doc.exists /\ ~Verifying'
  BY <1>1 DEF DInv
<1>6. ASSUME NEW i \in DOMAIN trail, trail' = Edited(i)
      PROVE  (\E T : trail' \in Seq(T)) /\ doc.exists /\ ~Verifying'
  <2>1. ~verify_chain(trail')
    BY <1>2, <1>3, <1>6, EditShows DEF Edited
  <2>2. trail' \in Seq(S \cup {[trail[i] EXCEPT !.says = Altered]})
    <3> DEFINE e == [trail[i] EXCEPT !.says = Altered]
    <3>1. trail' = [trail EXCEPT ![i] = e]
      BY <1>6 DEF Edited
    <3> HIDE DEF e
    <3>2. trail \in Seq(S \cup {e}) /\ e \in S \cup {e} /\ i \in 1..Len(trail)
      BY <1>2, <1>3
    <3>3. trail' \in Seq(S \cup {e})
      BY <3>1, <3>2, ExceptSeq
    <3>4. QED
      BY <3>3 DEF e
  <2>3. QED
    BY <1>5, <2>1, <2>2 DEF Verifying, verify_incident_chain
<1>7. ASSUME NEW i \in DOMAIN trail, trail' = Resealed(i)
      PROVE  (\E T : trail' \in Seq(T)) /\ doc.exists /\ ~Verifying'
  <2> DEFINE e == seal(trail[i].seq, trail[i].prev_hash, Altered)
  <2>1. trail' = [trail EXCEPT ![i] = e]
    BY <1>7 DEF Resealed
  <2>2. ~verify_incident_chain(trail', doc.audit_seq, doc.audit_tail_hash)
    BY <1>2, <1>3, <2>1, ResealShows
  <2> HIDE DEF e
  <2>3. trail \in Seq(S \cup {e}) /\ e \in S \cup {e} /\ i \in 1..Len(trail)
    BY <1>2, <1>3
  <2>4. trail' \in Seq(S \cup {e})
    BY <2>1, <2>3, ExceptSeq
  <2>5. QED
    BY <1>1, <1>5, <2>2, <2>4 DEF Verifying
<1>8. ASSUME NEW i \in DOMAIN trail, trail' = RemoveAt(trail, i)
      PROVE  (\E T : trail' \in Seq(T)) /\ doc.exists /\ ~Verifying'
  <2>1. trail' \in Seq(S) /\ Len(trail') # Len(trail)
    BY <1>2, <1>8, RemovalShortens
  <2>2. Len(trail) = doc.audit_seq
    BY <1>3 DEF verify_incident_chain
  <2>3. QED
    BY <1>1, <1>5, <2>1, <2>2 DEF Verifying, verify_incident_chain
<1>9. ASSUME NEW i \in 1..(Len(trail) - 1), trail' = Exchanged(i)
      PROVE  (\E T : trail' \in Seq(T)) /\ doc.exists /\ ~Verifying'
  <2> DEFINE a == [trail[i + 1] EXCEPT !.seq = trail[i].seq]
             b == [trail[i] EXCEPT !.seq = trail[i + 1].seq]
  <2>1. trail' = [trail EXCEPT ![i] = a, ![i + 1] = b]
    BY <1>9 DEF Exchanged
  <2>2. i \in 1..Len(trail) /\ i + 1 \in 1..Len(trail) /\ i # i + 1
    BY <1>3
  <2> HIDE DEF a, b
  <2>3. trail'[i] = a /\ i \in DOMAIN trail'
    BY <1>3, <2>1, <2>2
  <2>4. ~verify_chain(trail')
    BY <1>2, <1>3, <2>2, <2>3, ExchangeShows DEF a
  <2>5. trail \in Seq(S \cup {a, b})
    BY <1>2
  <2>6. /\ [trail EXCEPT ![i] = a] \in Seq(S \cup {a, b})
        /\ Len([trail EXCEPT ![i] = a]) = Len(trail)
    BY <2>2, <2>5, ExceptSeq
  <2>7. trail' = [[trail EXCEPT ![i] = a] EXCEPT ![i + 1] = b]
    BY <2>1
  <2>8. trail' \in Seq(S \cup {a, b})
    BY <2>2, <2>6, <2>7, ExceptSeq
  <2>9. i \in DOMAIN trail
    BY <1>3, <2>2
  <2>10. QED
    BY <1>5, <2>4, <2>8, <2>9 DEF Verifying, verify_incident_chain
<1>10. ASSUME doc.exists, trail' = Forged
       PROVE  (\E T : trail' \in Seq(T)) /\ doc.exists /\ ~Verifying'
  <2> DEFINE e == seal(doc.audit_seq, doc.audit_tail_hash, Altered)
  <2>1. trail' = Append(trail, e)
    BY <1>10 DEF Forged
  <2> HIDE DEF e
  <2>2. trail \in Seq(S \cup {e}) /\ e \in S \cup {e}
    BY <1>2
  <2>3. trail' \in Seq(S \cup {e}) /\ Len(trail') = Len(trail) + 1
    BY <2>1, <2>2, AppendProperties
  <2>4. Len(trail) = doc.audit_seq
    BY <1>3 DEF verify_incident_chain
  <2>5. Len(trail') # doc.audit_seq
    BY <1>3, <2>3, <2>4
  <2>6. QED
    BY <1>1, <1>10, <2>3, <2>5 DEF Verifying, verify_incident_chain
<1>11. QED
  BY <1>6, <1>7, <1>8, <1>9, <1>10 DEF Damage

(* Steps that leave the trail and what it is verified against.             *)
LEMMA DInvKept ==
  ASSUME DInv, UNCHANGED <<trail, damaged>>, doc.exists => doc'.exists,
         doc'.audit_seq = doc.audit_seq,
         doc'.audit_tail_hash = doc.audit_tail_hash
  PROVE  DInv'
BY DEF DInv, Verifying

(* A commit adds a genuine record, and hides no alteration.                *)
LEMMA CommitKeepsDInv ==
  ASSUME CInv, DInv, NEW w \in Writers, Commit(w)
  PROVE  DInv'
<1> DEFINE seq    == writer[w].snapshot.audit_seq
           record == seal(seq, writer[w].snapshot.audit_tail_hash, Says(w))
<1>1. /\ trail' = Append(trail, record) /\ doc' = Updated(w, seq, record)
      /\ writer[w].snapshot = doc /\ writer[w].pc = "commit"
      /\ damaged' = damaged
  BY DEF Commit
<1>2. Intact(record)
  BY SaysIsGenuine DEF seal, Intact
<1>3. doc.exists /\ doc'.exists
  BY <1>1 DEF Updated, CInv, DocShape
<1> HIDE DEF record, seq
<1>4. PICK S : trail \in Seq(S)
  BY DEF DInv
<1>5. trail \in Seq(S \cup {record}) /\ record \in S \cup {record}
  BY <1>4
<1>6. /\ trail' \in Seq(S \cup {record}) /\ Len(trail') = Len(trail) + 1
      /\ trail'[Len(trail) + 1] = record
      /\ \A i \in 1..Len(trail) : trail'[i] = trail[i]
      /\ DOMAIN trail = 1..Len(trail) /\ Len(trail) \in Nat
      /\ DOMAIN trail' = 1..Len(trail')
  BY <1>1, <1>5, AppendProperties, LenProperties
<1>7. DOMAIN trail' = 1..(Len(trail) + 1)
  BY <1>6
<1>8. ASSUME ~damaged', NEW i \in DOMAIN trail'
      PROVE  Intact(trail'[i])
  <2>1. i \in DOMAIN trail \/ i = Len(trail) + 1
    BY <1>6, <1>7
  <2>2. QED
    BY <1>1, <1>2, <1>6, <1>8, <2>1 DEF DInv
<1>9. damaged' => ~Verifying'
  BY <1>1, CommitHidesNothing DEF DInv
<1>10. QED
  BY <1>3, <1>6, <1>8, <1>9 DEF DInv

(* Every step keeps an alteration visible.                                 *)
LEMMA NextDInv ==
  ASSUME CInv, DInv, [Next]_vars
  PROVE  DInv'
<1>1. CASE Damage
  BY <1>1, DamageBreaks
<1>2. ASSUME NEW w \in Writers, Commit(w)
      PROVE  DInv'
  BY <1>2, CommitKeepsDInv
<1>3. ASSUME NEW w \in Writers, Create(w)
      PROVE  DInv'
  BY <1>3, DInvKept DEF Create, CInv, NoDoc
<1>4. ASSUME NEW w \in Writers, NEW op \in {"save", "update"}, Save(w, op)
      PROVE  DInv'
  <2>1. /\ doc'.exists = doc.exists /\ doc'.audit_seq = doc.audit_seq
        /\ doc'.audit_tail_hash = doc.audit_tail_hash
    BY <1>4 DEF Save, CInv, DocShape
  <2>2. QED
    BY <1>4, <2>1, DInvKept DEF Save
<1>5. ASSUME NEW w \in Writers,
             \/ AppendAudit(w) \/ Read(w) \/ SlotTaken(w) \/ Retry(w)
             \/ Crash(w) \/ \E target \in Targets : Transition(w, target)
      PROVE  UNCHANGED <<doc, trail, damaged>>
  BY <1>5 DEF AppendAudit, Read, SlotTaken, Retry, Crash, Transition
<1>6. CASE GetIncident \/ GetTrail \/ UNCHANGED vars
  BY <1>6, DInvKept DEF GetIncident, GetTrail, vars
<1>7. QED
  BY <1>1, <1>2, <1>3, <1>4, <1>5, <1>6, DInvKept DEF Next, Step

(* One alteration of the trail is detected whenever it is verified, and    *)
(* nothing the repository appends later covers it up.                      *)
THEOREM AlterationShows == Spec => []DamageShows
<1>1. Init => DInv
  <2>1. <<>> \in Seq({})
    OBVIOUS
  <2>2. QED
    BY <2>1 DEF Init, DInv
<1>2. CInv /\ DInv /\ [Next]_vars => DInv'
  BY NextDInv
<1>3. DInv => DamageShows
  BY DEF DInv, Verifying, DamageShows
<1>4. QED
  BY <1>1, <1>2, <1>3, ChainInvariant, PTL DEF Spec

-----------------------------------------------------------------------------
(* GET reads the document first and the records afterwards.                *)

(* A non-empty set of numbers up to n has a greatest element.              *)
LEMMA GreatestNumber ==
  ASSUME NEW n \in Nat, NEW S, S \subseteq 1..n, S # {}
  PROVE  \E m \in S : \A k \in S : k <= m
<1> DEFINE T == {n - k : k \in S}
<1>1. T \subseteq Nat /\ T # {}
  <2>1. \A k \in S : n - k \in Nat
    OBVIOUS
  <2>2. QED
    BY <2>1
<1>2. PICK l \in T : \A k \in T : l <= k
  BY <1>1, LeastNumber
<1>3. PICK m \in S : l = n - m
  BY <1>2
<1>4. ASSUME NEW k \in S
      PROVE  k <= m
  <2>1. n - m <= n - k
    BY <1>2, <1>3
  <2>2. k \in Int /\ m \in Int
    OBVIOUS
  <2>3. QED
    BY <2>1, <2>2
<1>5. QED
  BY <1>4

(* The status a trail shows depends on its transitions alone.              *)
LEMMA StatusKept ==
  ASSUME NEW S, NEW t \in Seq(S), NEW u, Transitions(u) = Transitions(t),
         \A i \in Transitions(t) : u[i] = t[i]
  PROVE  StatusIn(u) = StatusIn(t)
<1>1. CASE Transitions(t) = {}
  BY <1>1 DEF StatusIn
<1>2. CASE Transitions(t) # {}
  <2> DEFINE Latest(i) == i \in Transitions(t)
                          /\ \A j \in Transitions(t) : j <= i
  <2>1. Transitions(t) \subseteq 1..Len(t) /\ Len(t) \in Nat
    BY LenProperties DEF Transitions
  <2>2. \E i : Latest(i)
    BY <1>2, <2>1, GreatestNumber
  <2>3. (CHOOSE i : Latest(i)) \in Transitions(t)
    BY <2>2
  <2>4. /\ StatusIn(t) = t[CHOOSE i : Latest(i)].says.to
        /\ StatusIn(u) = u[CHOOSE i : Latest(i)].says.to
    BY <1>2 DEF StatusIn
  <2>5. QED
    BY <2>3, <2>4
<1>3. QED
  BY <1>1, <1>2

(* A record appended shows its own transition, or what was shown before.   *)
LEMMA AppendedStatus ==
  ASSUME NEW S, trail \in Seq(S), NEW record, trail' = Append(trail, record),
         record.says.event # "state_transition"
  PROVE  StatusIn(trail') = StatusIn(trail)
<1> DEFINE n == Len(trail)
<1>1. trail \in Seq(S \cup {record}) /\ record \in S \cup {record}
  OBVIOUS
<1>2. /\ n \in Nat /\ DOMAIN trail = 1..n
      /\ trail' \in Seq(S \cup {record}) /\ Len(trail') = n + 1
      /\ trail'[n + 1] = record
      /\ \A i \in 1..n : trail'[i] = trail[i]
  BY <1>1, AppendProperties, LenProperties
<1>3. DOMAIN trail' = 1..(n + 1)
  BY <1>2, LenProperties
<1> HIDE DEF n
<1>4. Transitions(trail') = Transitions(trail)
  BY <1>2, <1>3 DEF Transitions
<1>5. \A i \in Transitions(trail) : trail'[i] = trail[i]
  BY <1>2 DEF Transitions
<1>6. QED
  BY <1>1, <1>4, <1>5, StatusKept

(* A longer trail has the same beginnings.                                 *)
LEMMA PrefixOfAppend ==
  ASSUME NEW S, NEW t \in Seq(S), NEW r, NEW k \in Nat, k <= Len(t)
  PROVE  SubSeq(Append(t, r), 1, k) = SubSeq(t, 1, k)
<1> DEFINE R == S \cup {r}
           u == Append(t, r)
<1>1. t \in Seq(R) /\ r \in R
  OBVIOUS
<1>2. /\ u \in Seq(R) /\ Len(u) = Len(t) + 1 /\ Len(t) \in Nat
      /\ \A i \in 1..Len(t) : u[i] = t[i]
      /\ \A i \in 1..Len(t) : t[i] \in R
  BY <1>1, AppendProperties, LenProperties, ElementOfSeq
<1> HIDE DEF u, R
<1>3. /\ 1 \in Int /\ k \in Int
      /\ \A i \in 1..k : i \in 1..Len(t)
  BY <1>2
<1>4. \A i \in 1..k : t[i] \in R /\ u[i] \in R /\ u[i] = t[i]
  BY <1>2, <1>3
<1>5. /\ SubSeq(t, 1, k) \in Seq(R) /\ SubSeq(u, 1, k) \in Seq(R)
      /\ Len(SubSeq(t, 1, k)) = IF 1 <= k THEN k - 1 + 1 ELSE 0
      /\ Len(SubSeq(u, 1, k)) = IF 1 <= k THEN k - 1 + 1 ELSE 0
      /\ \A i \in 1..(k - 1 + 1) : SubSeq(t, 1, k)[i] = t[1 + i - 1]
      /\ \A i \in 1..(k - 1 + 1) : SubSeq(u, 1, k)[i] = u[1 + i - 1]
  BY <1>3, <1>4, SubSeqProperties
<1>6. Len(SubSeq(t, 1, k)) = k /\ Len(SubSeq(u, 1, k)) = k
  BY <1>5
<1>7. \A i \in 1..k : SubSeq(t, 1, k)[i] = SubSeq(u, 1, k)[i]
  <2>1. \A i \in 1..k : i \in 1..(k - 1 + 1) /\ 1 + i - 1 = i
    OBVIOUS
  <2>2. QED
    BY <1>4, <1>5, <2>1
<1>8. SubSeq(u, 1, k) = SubSeq(t, 1, k)
  BY <1>5, <1>6, <1>7, SeqEqual
<1>9. QED
  BY <1>8 DEF u

(* A whole trail is its longest beginning.                                 *)
LEMMA PrefixOfAll ==
  ASSUME NEW S, NEW t \in Seq(S)
  PROVE  SubSeq(t, 1, Len(t)) = t
<1> DEFINE k == Len(t)
<1>1. k \in Nat /\ 1 \in Int /\ k \in Int /\ \A i \in 1..k : t[i] \in S
  BY LenProperties, ElementOfSeq
<1> HIDE DEF k
<1>2. /\ SubSeq(t, 1, k) \in Seq(S)
      /\ Len(SubSeq(t, 1, k)) = IF 1 <= k THEN k - 1 + 1 ELSE 0
      /\ \A i \in 1..(k - 1 + 1) : SubSeq(t, 1, k)[i] = t[1 + i - 1]
  BY <1>1, SubSeqProperties
<1>3. Len(SubSeq(t, 1, k)) = k
  BY <1>1, <1>2
<1>4. \A i \in 1..k : SubSeq(t, 1, k)[i] = t[i]
  <2>1. \A i \in 1..k : i \in 1..(k - 1 + 1) /\ 1 + i - 1 = i
    BY <1>1
  <2>2. QED
    BY <1>2, <2>1
<1>5. QED
  BY <1>2, <1>3, <1>4, SeqEqual DEF k

(* What a document of the incident says of a trail it is read before.      *)
Accounts(records, d) ==
  /\ d.audit_seq \in Nat /\ d.audit_seq <= Len(records)
  /\ StatusIn(SubSeq(records, 1, d.audit_seq)) = d.status

(* The trail shows the incident's status, and showed the one a reader has  *)
(* read at the length the reader has read.                                 *)
HInv ==
  ~damaged => /\ StatusIn(trail) = doc.status
              /\ reader.exists => Accounts(trail, reader)

(* Steps after which trail, status and reader are what they were.          *)
LEMMA HInvKept ==
  ASSUME HInv, UNCHANGED <<trail, reader, damaged>>,
         doc'.status = doc.status
  PROVE  HInv'
BY DEF HInv

(* A commit appends the record of the status it writes; what a reader has  *)
(* read stays a beginning of the trail.                                    *)
LEMMA CommitKeepsHInv ==
  ASSUME CInv, HInv, NEW w \in Writers, Commit(w), ~damaged
  PROVE  HInv'
<1> DEFINE seq    == writer[w].snapshot.audit_seq
           record == seal(seq, writer[w].snapshot.audit_tail_hash, Says(w))
<1>1. /\ trail' = Append(trail, record) /\ doc' = Updated(w, seq, record)
      /\ writer[w].snapshot = doc /\ UNCHANGED <<damaged, reader>>
  BY DEF Commit
<1>2. record.says = Says(w)
  BY DEF seal
<1>3. doc'.status = IF writer[w].op = "transition" THEN writer[w].target
                                                   ELSE doc.status
  BY <1>1 DEF Updated, CInv, DocShape
<1> HIDE DEF record, seq
<1>4. PICK S : trail \in Seq(S)
  BY DEF CInv
<1>5. writer[w].op \in Operations
  BY DEF CInv, CallShape
<1>6. StatusIn(trail') = doc'.status
  <2>1. CASE writer[w].op = "transition"
    <3>1. record.says.event = "state_transition"
          /\ record.says.to = writer[w].target
      BY <1>2, <2>1 DEF Says
    <3>2. QED
      BY <1>1, <1>3, <1>4, <2>1, <3>1, AppendedHistory
  <2>2. CASE writer[w].op # "transition"
    <3>1. record.says.event # "state_transition"
      BY <1>2, <1>5, <2>2 DEF Says, Operations
    <3>2. StatusIn(trail') = StatusIn(trail)
      BY <1>1, <1>4, <3>1, AppendedStatus
    <3>3. QED
      BY <1>3, <2>2, <3>2 DEF HInv
  <2>3. QED
    BY <2>1, <2>2
<1>7. ASSUME reader.exists
      PROVE  Accounts(trail', reader)
  <2>1. Accounts(trail, reader)
    BY <1>7 DEF HInv
  <2>2. SubSeq(trail', 1, reader.audit_seq) = SubSeq(trail, 1, reader.audit_seq)
    BY <1>1, <1>4, <2>1, PrefixOfAppend DEF Accounts
  <2>3. Len(trail) \in Nat /\ Len(trail') = Len(trail) + 1
    BY <1>1, <1>4
  <2>4. reader.audit_seq <= Len(trail')
    BY <2>1, <2>3 DEF Accounts
  <2>5. QED
    BY <2>1, <2>2, <2>4 DEF Accounts
<1>8. QED
  BY <1>1, <1>6, <1>7 DEF HInv

(* Every step keeps the trail and the reader's document in agreement.      *)
LEMMA NextHInv ==
  ASSUME CInv, HInv, [Next]_vars
  PROVE  HInv'
<1>1. CASE Damage
  BY <1>1 DEF Damage, HInv
<1>2. ASSUME NEW w \in Writers, Commit(w)
      PROVE  HInv'
  <2>1. CASE ~damaged
    BY <1>2, <2>1, CommitKeepsHInv
  <2>2. CASE damaged
    BY <1>2, <2>2 DEF Commit, HInv
  <2>3. QED
    BY <2>1, <2>2
<1>3. ASSUME NEW w \in Writers, Create(w)
      PROVE  HInv'
  <2>1. doc'.status = doc.status
    BY <1>3 DEF Create, CInv, NoDoc
  <2>2. QED
    BY <1>3, <2>1, HInvKept DEF Create
<1>4. ASSUME NEW w \in Writers, NEW op \in {"save", "update"}, Save(w, op)
      PROVE  HInv'
  <2>1. doc'.status = doc.status
    BY <1>4 DEF Save, CInv, DocShape
  <2>2. QED
    BY <1>4, <2>1, HInvKept DEF Save
<1>5. ASSUME NEW w \in Writers,
             \/ AppendAudit(w) \/ Read(w) \/ SlotTaken(w) \/ Retry(w)
             \/ Crash(w) \/ \E target \in Targets : Transition(w, target)
      PROVE  UNCHANGED <<doc, trail, reader, damaged>>
  BY <1>5 DEF AppendAudit, Read, SlotTaken, Retry, Crash, Transition
<1>6. CASE GetIncident
  <2>1. CASE damaged
    BY <1>6, <2>1 DEF GetIncident, HInv
  <2>2. CASE ~damaged
    <3>1. PICK S : trail \in Seq(S)
      BY <2>2 DEF CInv
    <3>2. Len(trail) = doc.audit_seq /\ doc.audit_seq \in Nat
      BY <2>2 DEF CInv, TrailVerifies, verify_incident_chain, DocShape
    <3>3. SubSeq(trail, 1, doc.audit_seq) = trail
      BY <3>1, <3>2, PrefixOfAll
    <3>4. Accounts(trail, doc)
      <4>1. StatusIn(trail) = doc.status
        BY <2>2 DEF HInv
      <4>2. StatusIn(SubSeq(trail, 1, doc.audit_seq)) = doc.status
        BY <3>3, <4>1
      <4>3. doc.audit_seq <= Len(trail)
        BY <3>2
      <4>4. QED
        BY <3>2, <4>2, <4>3 DEF Accounts
    <3>5. QED
      BY <1>6, <3>4 DEF GetIncident, HInv
  <2>3. QED
    BY <2>1, <2>2
<1>7. CASE GetTrail
  BY <1>7 DEF GetTrail, HInv, NoDoc
<1>8. CASE UNCHANGED vars
  BY <1>8, HInvKept DEF vars
<1>9. QED
  BY <1>1, <1>2, <1>3, <1>4, <1>5, <1>6, <1>7, <1>8, HInvKept DEF Next, Step

(* GET returns at least the records its document accounts for, and they    *)
(* show the status that document has.                                      *)
THEOREM ReadsAgree == Spec => []ReadIsAccountedFor
<1>1. Init => HInv
  <2> SUFFICES ASSUME Init PROVE HInv
    OBVIOUS
  <2>1. Transitions(trail) = {}
    BY DEF Init, Transitions
  <2>2. QED
    BY <2>1 DEF Init, HInv, StatusIn, NoDoc
<1>2. CInv /\ HInv /\ [Next]_vars => HInv'
  BY NextHInv
<1>3. CInv /\ HInv => ReadIsAccountedFor
  <2> SUFFICES ASSUME CInv, HInv, reader.exists, ~damaged
               PROVE  /\ Len(trail) >= reader.audit_seq
                      /\ StatusIn(SubSeq(trail, 1, reader.audit_seq))
                           = reader.status
    BY DEF ReadIsAccountedFor
  <2>1. PICK S : trail \in Seq(S)
    BY DEF CInv
  <2>2. Len(trail) \in Nat
    BY <2>1
  <2>3. QED
    BY <2>2 DEF HInv, Accounts
<1>4. QED
  BY <1>1, <1>2, <1>3, ChainInvariant, PTL DEF Spec

-----------------------------------------------------------------------------
(* Documents and their records.                                            *)

RecordsOf(records, w) ==
  {i \in DOMAIN records : /\ records[i].says.event \in {"save", "update"}
                          /\ records[i].says.by = w}

Saves(c) == c.op \in {"save", "update"}

(* What is so of a call while the trail is the repository's own: it writes *)
(* its document when it begins, appends for it at most once and only when  *)
(* it ends, and does not return without having appended.                   *)
WriterOK(w) ==
  /\ writer[w].pc \in {"idle", "read", "commit", "done", "failed"}
  /\ w \in saved => writer[w].pc # "idle"
  /\ writer[w].pc \in {"read", "commit"} => (w \in saved <=> Saves(writer[w]))
  /\ RecordsOf(trail, w) # {} =>
       w \in saved /\ writer[w].pc \in {"done", "failed"}
  /\ \A i, j \in RecordsOf(trail, w) : i = j
  /\ w \in saved /\ writer[w].pc = "done" => RecordsOf(trail, w) # {}

WInv == ~damaged => \A w \in Writers : WriterOK(w)

(* The calls that do not move.                                             *)
LEMMA OthersWait ==
  ASSUME NEW w \in Writers, WriterOK(w), UNCHANGED trail,
         w \in saved' <=> w \in saved, writer'[w] = writer[w]
  PROVE  WriterOK(w)'
BY DEF WriterOK, Saves

(* The call that ends without a record: it failed.                         *)
LEMMA FailedCall ==
  ASSUME CInv, WInv, ~damaged, UNCHANGED <<trail, saved, damaged>>,
         NEW w \in Writers, writer[w].pc \in {"read", "commit"},
         Ends(w, "failed")
  PROVE  WInv'
<1>1. \A v \in Writers : WriterOK(v)
  BY DEF WInv
<1>2. \A v \in Writers \ {w} : writer'[v] = writer[v]
  BY DEF Ends, CInv
<1>3. writer'[w].pc = "failed"
  BY DEF Ends, CInv, Call
<1>4. WriterOK(w)'
  BY <1>1, <1>3 DEF WriterOK, Saves
<1>5. \A v \in Writers \ {w} : WriterOK(v)'
  BY <1>1, <1>2, OthersWait
<1>6. QED
  BY <1>4, <1>5 DEF WInv

(* The call that goes on to another attempt, or to its commit.             *)
LEMMA GoesOn ==
  ASSUME CInv, WInv, ~damaged, UNCHANGED <<trail, saved, damaged>>,
         NEW w \in Writers, writer[w].pc \in {"read", "commit"},
         NEW pc \in {"read", "commit"}, NEW d, NEW n,
         writer' = [writer EXCEPT ![w] =
                      Call(pc, writer[w].op, writer[w].target, d, n)]
  PROVE  WInv'
<1>1. \A v \in Writers : WriterOK(v)
  BY DEF WInv
<1>2. \A v \in Writers \ {w} : writer'[v] = writer[v]
  BY DEF CInv
<1>3. writer'[w].pc = pc /\ writer'[w].op = writer[w].op
  BY DEF CInv, Call
<1>4. WriterOK(w)'
  BY <1>1, <1>3 DEF WriterOK, Saves
<1>5. \A v \in Writers \ {w} : WriterOK(v)'
  BY <1>1, <1>2, OthersWait
<1>6. QED
  BY <1>4, <1>5 DEF WInv

(* The call that begins, having written its document if it has one.        *)
LEMMA BeginsCall ==
  ASSUME CInv, WInv, ~damaged, UNCHANGED <<trail, damaged>>,
         NEW w \in Writers, NEW op, NEW target, Begins(w, op, target),
         saved' = IF op \in {"save", "update"} THEN saved \cup {w} ELSE saved
  PROVE  WInv'
<1>1. \A v \in Writers : WriterOK(v)
  BY DEF WInv
<1>2. /\ writer[w].pc = "idle"
      /\ \A v \in Writers \ {w} : writer'[v] = writer[v]
  BY DEF Begins, CInv
<1>3. writer'[w].pc = "read" /\ writer'[w].op = op
  BY DEF Begins, CInv, Call
<1>4. w \notin saved /\ RecordsOf(trail, w) = {}
  BY <1>1, <1>2 DEF WriterOK
<1>5. WriterOK(w)'
  BY <1>3, <1>4 DEF WriterOK, Saves
<1>6. \A v \in Writers \ {w} : WriterOK(v)'
  BY <1>1, <1>2, OthersWait
<1>7. QED
  BY <1>5, <1>6 DEF WInv

(* A commit appends one record, for the call that makes it.                *)
LEMMA CommitKeepsWInv ==
  ASSUME CInv, WInv, ~damaged, NEW w \in Writers, Commit(w)
  PROVE  WInv'
<1> DEFINE seq    == writer[w].snapshot.audit_seq
           record == seal(seq, writer[w].snapshot.audit_tail_hash, Says(w))
<1>0. \A v \in Writers : WriterOK(v)
  BY DEF WInv
<1>1. /\ trail' = Append(trail, record) /\ UNCHANGED <<saved, damaged>>
      /\ writer[w].pc = "commit"
  BY DEF Commit
<1>2. record.says = Says(w)
  BY DEF seal
<1> HIDE DEF record, seq
<1>3. PICK pc \in {"done", "failed"} : Ends(w, pc)
  BY DEF Commit
<1>4. /\ writer'[w].pc \in {"done", "failed"}
      /\ \A v \in Writers \ {w} : writer'[v] = writer[v]
  BY <1>3 DEF Ends, CInv, Call
<1>5. PICK S : trail \in Seq(S)
  BY DEF CInv
<1>6. /\ DOMAIN trail = 1..Len(trail) /\ Len(trail) \in Nat
      /\ DOMAIN trail' = 1..(Len(trail) + 1)
      /\ trail'[Len(trail) + 1] = record
      /\ \A i \in DOMAIN trail : trail'[i] = trail[i]
  <2>1. trail \in Seq(S \cup {record}) /\ record \in S \cup {record}
    BY <1>5
  <2>2. /\ trail' \in Seq(S \cup {record}) /\ Len(trail') = Len(trail) + 1
        /\ trail'[Len(trail) + 1] = record
        /\ \A i \in 1..Len(trail) : trail'[i] = trail[i]
    BY <1>1, <2>1, AppendProperties
  <2>3. QED
    BY <2>1, <2>2, LenProperties
<1>7. /\ writer[w].op \in Operations
      /\ record.says.event \in {"save", "update"} =>
           Saves(writer[w]) /\ record.says.by = w
      /\ Saves(writer[w]) =>
           record.says.event \in {"save", "update"} /\ record.says.by = w
  <2>1. writer[w].op \in Operations
    BY DEF CInv, CallShape
  <2>2. CASE writer[w].op = "transition"
    BY <1>2, <2>1, <2>2 DEF Says, Saves
  <2>3. CASE writer[w].op # "transition"
    BY <1>2, <2>1, <2>3 DEF Says, Saves
  <2>4. QED
    BY <2>1, <2>2, <2>3
<1>8. ASSUME NEW v, ~(Saves(writer[w]) /\ v = w)
      PROVE  RecordsOf(trail', v) = RecordsOf(trail, v)
  BY <1>6, <1>7, <1>8 DEF RecordsOf
<1>9. ASSUME Saves(writer[w]), RecordsOf(trail, w) = {}
      PROVE  RecordsOf(trail', w) = {Len(trail) + 1}
  BY <1>6, <1>7, <1>9 DEF RecordsOf
<1>10. RecordsOf(trail, w) = {} /\ (w \in saved <=> Saves(writer[w]))
  BY <1>0, <1>1 DEF WriterOK
<1>11. WriterOK(w)'
  <2>1. CASE Saves(writer[w])
    BY <1>1, <1>4, <1>9, <1>10, <2>1 DEF WriterOK
  <2>2. CASE ~Saves(writer[w])
    BY <1>1, <1>4, <1>8, <1>10, <2>2 DEF WriterOK
  <2>3. QED
    BY <2>1, <2>2
<1>12. ASSUME NEW v \in Writers \ {w}
       PROVE  WriterOK(v)'
  BY <1>0, <1>1, <1>4, <1>8 DEF WriterOK, Saves
<1>13. QED
  BY <1>11, <1>12 DEF WInv

(* Every step keeps documents and records together.                        *)
LEMMA NextWInv ==
  ASSUME CInv, WInv, [Next]_vars
  PROVE  WInv'
<1>1. CASE Damage
  BY <1>1 DEF Damage, WInv
<1>2. CASE damaged
  BY <1>1, <1>2 DEF WInv, Next, Step, Create, AppendAudit, Transition, Save,
     Read, Commit, SlotTaken, Retry, Crash, GetIncident, GetTrail, vars
<1>3. CASE ~damaged
  <2>1. ASSUME NEW w \in Writers, Commit(w)
        PROVE  WInv'
    BY <1>3, <2>1, CommitKeepsWInv
  <2>2. ASSUME NEW w \in Writers,
               \/ Create(w) \/ AppendAudit(w)
               \/ \E target \in Targets : Transition(w, target)
        PROVE  WInv'
    BY <1>3, <2>2, BeginsCall DEF Create, AppendAudit, Transition
  <2>3. ASSUME NEW w \in Writers, NEW op \in {"save", "update"}, Save(w, op)
        PROVE  WInv'
    BY <1>3, <2>3, BeginsCall DEF Save
  <2>4. ASSUME NEW w \in Writers, SlotTaken(w) \/ Crash(w)
        PROVE  WInv'
    BY <1>3, <2>4, FailedCall DEF SlotTaken, Crash
  <2>5. ASSUME NEW w \in Writers, Read(w)
        PROVE  WInv'
    <3>1. CASE Ends(w, "failed")
      BY <1>3, <2>5, <3>1, FailedCall DEF Read
    <3>2. CASE writer' = [writer EXCEPT ![w] =
                 Call("commit", @.op, @.target, doc, @.attempts)]
      BY <1>3, <2>5, <3>2, GoesOn DEF Read
    <3>3. QED
      BY <2>5, <3>1, <3>2 DEF Read
  <2>6. ASSUME NEW w \in Writers, Retry(w)
        PROVE  WInv'
    <3>1. CASE Ends(w, "failed")
      BY <1>3, <2>6, <3>1, FailedCall DEF Retry
    <3>2. CASE writer' = [writer EXCEPT ![w] =
                 Call("read", @.op, @.target, NoDoc, @.attempts + 1)]
      BY <1>3, <2>6, <3>2, GoesOn DEF Retry
    <3>3. QED
      BY <2>6, <3>1, <3>2 DEF Retry
  <2>7. CASE GetIncident \/ GetTrail \/ UNCHANGED vars
    <3>1. UNCHANGED <<trail, saved, writer, damaged>>
      BY <2>7 DEF GetIncident, GetTrail, vars
    <3>2. QED
      BY <3>1, OthersWait DEF WInv
  <2>8. QED
    BY <1>1, <2>1, <2>2, <2>3, <2>4, <2>5, <2>6, <2>7 DEF Next, Step
<1>4. QED
  BY <1>2, <1>3

(* The trail speaks of a document only once it is there, once for each     *)
(* call however often its transaction is tried, and of every call that     *)
(* returned.                                                               *)
THEOREM WritesAudited == Spec => []AuditedWrites
<1>1. Init => WInv
  <2> SUFFICES ASSUME Init PROVE WInv
    OBVIOUS
  <2>1. \A w \in Writers : writer[w].pc = "idle" /\ RecordsOf(trail, w) = {}
    BY DEF Init, Idle, Call, RecordsOf
  <2>2. QED
    BY <2>1 DEF Init, WInv, WriterOK
<1>2. CInv /\ WInv /\ [Next]_vars => WInv'
  BY NextWInv
<1>3. WInv => AuditedWrites
  BY DEF WInv, WriterOK, RecordsOf, AuditedWrites
<1>4. QED
  BY <1>1, <1>2, <1>3, ChainInvariant, PTL DEF Spec
=============================================================================
