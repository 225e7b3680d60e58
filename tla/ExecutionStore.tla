--------------------------- MODULE ExecutionStore ---------------------------
(***************************************************************************)
(* The execution plane's document for one execution, and the transactions  *)
(* ExecutionStore runs on it (src/src/scf/state/execution_store.py).  Each *)
(* Firestore transaction is atomic, so a transaction is an outcome and a   *)
(* new document, both functions of the document it read.                   *)
(*                                                                         *)
(* A lease is its relation to the clock, not a time: "live" is             *)
(* lease_expires_at > now, "lapsed" is lease_expires_at <= now, "none" is  *)
(* lease_expires_at = None.  recovery_count is lease_epoch - 1 and is left *)
(* out.  predates is effect_predates_execution.                            *)
(***************************************************************************)
EXTENDS Naturals

CONSTANTS
  Workers,   \* WORKER_ID values: one per executor process
  NoOwner    \* lease_owner = None, or no document at all

ASSUME NoOwnerAssumption == NoOwner \notin Workers

OPEN_STATES ==
  {"CLAIMED", "PRECONDITION_CHECKED", "MUTATION_REQUESTED", "MUTATED"}

TERMINAL_STATES == {"VERIFIED", "FAILED", "STALE"}

Leases == {"live", "lapsed", "none"}

Record == [state    : OPEN_STATES \cup TERMINAL_STATES \cup {"ABSENT"},
           owner    : Workers \cup {NoOwner},
           epoch    : Nat,
           lease    : Leases,
           predates : BOOLEAN]

NoRecord == [state |-> "ABSENT", owner |-> NoOwner, epoch |-> 0,
             lease |-> "none", predates |-> FALSE]

-----------------------------------------------------------------------------
(* acquire: terminality is read before the lease, a live lease refuses     *)
(* everybody (its own holder too), and a takeover is issued the next epoch.*)

AcquireOutcome(rec) ==
  CASE rec.state = "ABSENT"           -> "ACQUIRED"
    [] rec.state \in TERMINAL_STATES  -> "ALREADY_FINISHED"
    [] rec.state \in OPEN_STATES /\ rec.lease = "live" -> "HELD_BY_OTHER"
    [] rec.state \in OPEN_STATES /\ rec.lease # "live" -> "RECOVERED"

Takeable(rec) == AcquireOutcome(rec) \in {"ACQUIRED", "RECOVERED"}

(* Mutant: a takeover keeps the epoch.                                     *)
MutantKeepsEpoch(rec, owner) ==
  [state    |-> IF rec.state = "ABSENT" THEN "CLAIMED" ELSE rec.state,
   owner    |-> owner, epoch |-> rec.epoch, lease |-> "live",
   predates |-> rec.predates]

AcquiredRecord(rec, owner) ==
  [state    |-> IF rec.state = "ABSENT" THEN "CLAIMED" ELSE rec.state,
   owner    |-> owner, epoch |-> rec.epoch + 1, lease |-> "live",
   predates |-> rec.predates]

-----------------------------------------------------------------------------
(* The ownership test every owned write makes, in the code's order.        *)

Owns(rec, owner, epoch) == rec.owner = owner /\ rec.epoch = epoch

OwnedOutcome(rec, owner, epoch) ==
  CASE rec.state = "ABSENT"          -> "NOT_FOUND"
    [] rec.state \in TERMINAL_STATES -> "ALREADY_TERMINAL"
    [] rec.state \in OPEN_STATES /\ ~Owns(rec, owner, epoch) -> "FENCED_OUT"
    [] rec.state \in OPEN_STATES /\ Owns(rec, owner, epoch)  -> "ADVANCED"

(* release (and the clock): the lease is over; nothing else changes.       *)
LapsedRecord(rec) ==
  [state |-> rec.state, owner |-> rec.owner, epoch |-> rec.epoch,
   lease |-> "lapsed", predates |-> rec.predates]

(* advance: ownership, then an unexpired lease, then the expected state.   *)
AdvanceOutcome(rec, owner, epoch, expect) ==
  LET owned == OwnedOutcome(rec, owner, epoch)
  IN  CASE owned # "ADVANCED" -> owned
        [] owned = "ADVANCED" /\ rec.lease # "live" -> "LEASE_LOST"
        [] owned = "ADVANCED" /\ rec.lease = "live"
             -> IF rec.state \in expect THEN "ADVANCED" ELSE "STATE_MISMATCH"

(* The write of an advance, or of a terminalize: a terminal state gives the*)
(* lease and its owner up.                                                 *)
AdvancedRecord(rec, state, predates) ==
  [state    |-> state,
   owner    |-> IF state \in TERMINAL_STATES THEN NoOwner ELSE rec.owner,
   epoch    |-> rec.epoch,
   lease    |-> IF state \in TERMINAL_STATES THEN "none" ELSE rec.lease,
   predates |-> predates]

(* terminalize is gated on the state alone, never on ownership.            *)
TerminalizeOutcome(rec, expect) ==
  CASE rec.state = "ABSENT"          -> "NOT_FOUND"
    [] rec.state \in TERMINAL_STATES -> "ALREADY_TERMINAL"
    [] rec.state \in OPEN_STATES
         -> IF rec.state \in expect THEN "ADVANCED" ELSE "STATE_MISMATCH"
=============================================================================
