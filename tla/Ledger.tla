------------------------------- MODULE Ledger -------------------------------
(***************************************************************************)
(* blockchain.service.ts: the hash chain of each batch.  An event is       *)
(* appended by a short transaction that holds the batch's advisory lock    *)
(* while it looks up the latest event and inserts its own, linked to it by *)
(* hash; afterwards, with no lock, the event is submitted to the external  *)
(* ledger and its row is settled.  The order of a batch's events is that   *)
(* of submitted_at, a timestamp the application reads from its own clock.  *)
(***************************************************************************)
EXTENDS Sequences, Integers, FiniteSets

CONSTANTS
  Batches,
  Payloads,     \* what an event may carry: its type and payload hash
  Writers,      \* slots: how many appends may be in flight at once
  MaxEvents,    \* bound on the events of a batch
  MaxTime,      \* bound on the clock
  ClockLag,     \* how far behind the true time a server's clock may be
  StampsAdvance,\* whether an append always reads a later time than the last
  BlockHash(_, _, _, _),   \* computeBlockHash(previous, payload, batch, time)
  None          \* null: the previous hash of a first event

ASSUME LedgerAssumption ==
  /\ MaxEvents \in Nat /\ MaxTime \in Nat \ {0} /\ ClockLag \in Nat
  /\ StampsAdvance \in BOOLEAN
  /\ None \notin Writers

VARIABLES
  log,          \* batch -> its blockchain_transactions, in commit order
  lock,         \* batch -> the writer that holds its advisory lock
  clock,        \* the true time, in the milliseconds submitted_at counts
  writer        \* the appends in flight

vars == <<log, lock, clock, writer>>

Idle == [stage |-> "idle", batch |-> None, payload |-> None, prev |-> None,
         at |-> 0]

Init ==
  /\ log = [b \in Batches |-> <<>>]
  /\ lock = [b \in Batches |-> None]
  /\ clock = 1
  /\ writer = [w \in Writers |-> Idle]

Positions(b) == 1..Len(log[b])

-----------------------------------------------------------------------------
(* The append transaction. *)

\* A slip: no advisory lock.
LockIgnored(b) == TRUE

LockIsFree(b) == lock[b] = None

\* pg_advisory_xact_lock: wait for the batch's other appends to commit.
Acquire(w, b, p) ==
  /\ writer[w].stage = "idle"
  /\ LockIsFree(b)
  /\ lock' = [lock EXCEPT ![b] = w]
  /\ writer' = [writer EXCEPT ![w] =
                  [Idle EXCEPT !.stage = "locked", !.batch = b, !.payload = p]]
  /\ UNCHANGED <<log, clock>>

\* The events with the greatest submitted_at: the query returns one of them.
Latest(b) ==
  {i \in Positions(b) : \A j \in Positions(b) : log[b][j].time <= log[b][i].time}

ReadPredecessor(w) ==
  LET b == writer[w].batch
  IN  /\ writer[w].stage = "locked"
      /\ \/ /\ log[b] = <<>>
            /\ writer' = [writer EXCEPT ![w].stage = "insert"]
         \/ \E i \in Latest(b) :
              writer' = [writer EXCEPT ![w].stage = "insert",
                                       ![w].prev = log[b][i].hash]
      /\ UNCHANGED <<log, lock, clock>>

\* What new Date() may answer: the time, or an earlier one on a server whose
\* clock lags.  Where stamps advance it is later than every event's.
Stamps(b) ==
  {t \in 1..clock : /\ clock - t <= ClockLag
                    /\ StampsAdvance =>
                         \A i \in Positions(b) : log[b][i].time < t}

\* The id of the row about to be inserted.
NewPosition(b) == Len(log[b]) + 1

\* The row is stamped, hashed and inserted; the commit releases the lock.
Insert(w) ==
  LET b == writer[w].batch
      p == writer[w].payload
      prev == writer[w].prev
  IN  /\ writer[w].stage = "insert"
      /\ Len(log[b]) < MaxEvents
      /\ \E t \in Stamps(b) :
           log' = [log EXCEPT ![b] = Append(@,
             [prev |-> prev, payload |-> p, time |-> t,
              hash |-> BlockHash(prev, p, b, t), status |-> "PENDING"])]
      /\ lock' = [lock EXCEPT ![b] = None]
      /\ writer' = [writer EXCEPT ![w].stage = "submit", ![w].at = NewPosition(b)]
      /\ UNCHANGED clock

-----------------------------------------------------------------------------
(* Submission and settlement, outside any transaction. *)

\* A slip: no trigger, every row may be updated.
UpdateUnchecked(b, i) == TRUE

\* The immutability trigger lets only a PENDING row be updated.
Settleable(b, i) == log[b][i].status = "PENDING"

\* A slip, once in the code: the mock hash is derived from the payload.
TxHashOfPayload(e) == e.payload

\* The answer of submitToLedger, derived from the block hash; tx_hash is UNIQUE.
TxHash(e) == e.hash

TxHashFree(b, i) ==
  \A c \in Batches : \A j \in Positions(c) :
    log[c][j].status = "CONFIRMED" => TxHash(log[c][j]) # TxHash(log[b][i])

\* The ledger accepts the event and its row is CONFIRMED; if the answer to
\* that update is lost, the handler takes it for a failed submission.
Confirm(w) ==
  LET b == writer[w].batch
      i == writer[w].at
  IN  /\ writer[w].stage = "submit"
      /\ Settleable(b, i)
      /\ TxHashFree(b, i)
      /\ log' = [log EXCEPT ![b][i].status = "CONFIRMED"]
      /\ \E answered \in BOOLEAN :
           writer' = [writer EXCEPT ![w] =
             IF answered THEN Idle ELSE [@ EXCEPT !.stage = "fail"]]
      /\ UNCHANGED <<lock, clock>>

\* The ledger, or the CONFIRMED update, refuses the event.
SubmitFails(w) ==
  /\ writer[w].stage = "submit"
  /\ writer' = [writer EXCEPT ![w].stage = "fail"]
  /\ UNCHANGED <<log, lock, clock>>

\* The catch block marks the row FAILED; the trigger refuses a settled row.
Fail(w) ==
  LET b == writer[w].batch
      i == writer[w].at
  IN  /\ writer[w].stage = "fail"
      /\ log' = IF Settleable(b, i)
                THEN [log EXCEPT ![b][i].status = "FAILED"] ELSE log
      /\ writer' = [writer EXCEPT ![w] = Idle]
      /\ UNCHANGED <<lock, clock>>

\* A slip: a transaction that fails keeps its lock.
LockKept(w) == lock

\* Locks that end with the transaction of w.
Released(w) == [b \in Batches |-> IF lock[b] = w THEN None ELSE lock[b]]

\* The transaction times out or the server stops: nothing resumes the append.
Crash(w) ==
  /\ writer[w].stage # "idle"
  /\ lock' = Released(w)
  /\ writer' = [writer EXCEPT ![w] = Idle]
  /\ UNCHANGED <<log, clock>>

Tick ==
  /\ clock < MaxTime
  /\ clock' = clock + 1
  /\ UNCHANGED <<log, lock, writer>>

Continue(w) ==
  \/ ReadPredecessor(w) \/ Insert(w)
  \/ Confirm(w) \/ SubmitFails(w) \/ Fail(w)
  \/ Crash(w)

Next ==
  \/ \E w \in Writers :
       \/ \E b \in Batches, p \in Payloads : Acquire(w, b, p)
       \/ Continue(w)
  \/ Tick

Spec == Init /\ [][Next]_vars

\* An append in flight does not stall for ever: a transaction that waits or
\* dies ends at its timeout, with a Crash at worst.
FairSpec == Spec /\ \A w \in Writers : WF_vars(Continue(w))

-----------------------------------------------------------------------------
(* verifyChain. *)

\* The orders ORDER BY submitted_at may return a batch's events in.
TimeOrders(b) ==
  {o \in [Positions(b) -> Positions(b)] :
     \A i, j \in Positions(b) : i < j =>
       o[i] # o[j] /\ log[b][o[i]].time <= log[b][o[j]].time}

\* The walk over the events in that order: each links to the one before it
\* and carries the hash of its own content.
Verifies(b, o) ==
  \A i \in Positions(b) :
    LET e == log[b][o[i]]
    IN  /\ e.prev = IF i = 1 THEN None ELSE log[b][o[i - 1]].hash
        /\ e.hash = BlockHash(e.prev, e.payload, b, e.time)

-----------------------------------------------------------------------------
(* What the chain promises while stamps advance. *)

TypeOK ==
  /\ \A b \in Batches : /\ Len(log[b]) <= MaxEvents
                        /\ \A i \in Positions(b) :
                             /\ log[b][i].payload \in Payloads
                             /\ log[b][i].time \in 1..MaxTime
                             /\ log[b][i].status \in {"PENDING", "CONFIRMED", "FAILED"}
  /\ lock \in [Batches -> Writers \cup {None}]
  /\ clock \in 1..MaxTime
  /\ \A w \in Writers :
       /\ writer[w].stage \in {"idle", "locked", "insert", "submit", "fail"}
       /\ writer[w].batch \in Batches \cup {None}
       /\ writer[w].stage \in {"submit", "fail"} =>
            writer[w].at \in Positions(writer[w].batch)

\* An honest ledger always verifies: whatever appends, crashes and failed
\* submissions overlapped, verifyChain finds no broken link.
ChainVerifies ==
  \A b \in Batches : \A o \in TimeOrders(b) : Verifies(b, o)

\* No two events of a batch name the same predecessor (recordBlockchainEvent:
\* the lock is there so that two events cannot fork the chain).
NoFork ==
  \A b \in Batches : \A i, j \in Positions(b) :
    log[b][i].prev = log[b][j].prev => i = j

\* No two events share a transaction hash, so the UNIQUE constraint never
\* turns a successful submission into a FAILED one (submitToLedger).
TxHashUnique ==
  \A b, c \in Batches : \A i \in Positions(b), j \in Positions(c) :
    TxHash(log[b][i]) = TxHash(log[c][j]) => b = c /\ i = j

\* The advisory lock of a batch is held by exactly the writer that is between
\* taking it and its commit.
LockHeldByWriter ==
  \A b \in Batches, w \in Writers :
    lock[b] = w <=> writer[w].stage \in {"locked", "insert"} /\ writer[w].batch = b

\* A reader, who lists a batch's events by submitted_at, sees a history that
\* only grows at its end and in which an event is settled once.
InTimeOrder(b) ==
  LET o == CHOOSE p \in TimeOrders(b) : TRUE
  IN  [i \in Positions(b) |-> [payload |-> log[b][o[i]].payload,
                               status |-> log[b][o[i]].status]]

H == INSTANCE LedgerHistory WITH history <- [b \in Batches |-> InTimeOrder(b)]
HistoryAppendOnly == H!Spec

\* The appends waiting for a batch are not left waiting.
LockReleased ==
  \A b \in Batches : lock[b] # None ~> lock[b] = None
=============================================================================
