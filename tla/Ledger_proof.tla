---------------------------- MODULE Ledger_proof ----------------------------
(***************************************************************************)
(* Theorems about Ledger while stamps advance, for hashes without          *)
(* collisions: the lock serialises the appends of a batch, the chain has   *)
(* no fork, verifyChain accepts it however equal rows might be ordered,    *)
(* and a reader sees a history that only grows.                            *)
(***************************************************************************)
EXTENDS Ledger, TLAPS, WellFoundedInduction, SequenceTheorems

\* The hashes: no two contents share one, and none is the null of a first
\* event's predecessor.
CollisionFree(Hash) ==
  /\ None \notin Hash
  /\ \A p, q \in Hash \cup {None}, x, y \in Payloads, b, c \in Batches,
        t, u \in Nat :
       /\ BlockHash(p, x, b, t) \in Hash
       /\ BlockHash(p, x, b, t) = BlockHash(q, y, c, u) => b = c /\ t = u

-----------------------------------------------------------------------------
(* Orders of a sequence of increasing stamps. *)

\* A non-empty set of natural numbers has a least element.
LEMMA LeastNatural ==
  ASSUME NEW T \in SUBSET Nat, T # {}
  PROVE  \E x \in T : \A y \in T : x <= y
<1> DEFINE R == OpToRel(<, Nat)
<1>1. IsWellFoundedOn(R, Nat)
  BY NatLessThanWellFounded
<1> HIDE DEF R
<1>2. PICK x \in T : \A y \in T : <<y, x>> \notin R
  BY <1>1, WFMin
<1>3. \A y \in T : y < x => <<y, x>> \in R
  BY DEF R, OpToRel
<1>4. \A y \in T : x \in Nat /\ y \in Nat /\ ~(y < x)
  BY <1>2, <1>3
<1>5. \A y \in T : x <= y
  BY <1>4
<1> QED
  BY <1>5

\* The one way to list 1..n in increasing order is the identity.
LEMMA IncreasingIsIdentity ==
  ASSUME NEW n \in Nat, NEW o \in [1..n -> 1..n],
         \A i, j \in 1..n : i < j => o[i] < o[j]
  PROVE  o = [i \in 1..n |-> i]
<1>1. \A i \in 1..n : o[i] >= i
  <2> DEFINE T == {i \in 1..n : o[i] < i}
  <2>1. SUFFICES ASSUME T # {} PROVE FALSE
    OBVIOUS
  <2>2. PICK k \in T : \A j \in T : k <= j
    <3>1. T \in SUBSET Nat
      OBVIOUS
    <3> HIDE DEF T
    <3> QED
      BY <2>1, <3>1, LeastNatural
  <2>3. o[k] \in 1..n /\ o[k] < k
    BY <2>2
  <2>4. o[o[k]] < o[k]
    BY <2>2, <2>3
  <2>5. o[k] \in T
    BY <2>3, <2>4
  <2> QED
    BY <2>2, <2>3, <2>5
<1>2. \A i \in 1..n : o[i] <= i
  <2> DEFINE T == {m \in 0..n : \E i \in 1..n : m = n - i /\ o[i] > i}
  <2>1. SUFFICES ASSUME NEW i \in 1..n, o[i] > i PROVE FALSE
    BY DEF T
  <2>2. n - i \in T
    BY <2>1
  <2>3. PICK m \in T : \A l \in T : m <= l
    <3>1. T \in SUBSET Nat
      OBVIOUS
    <3> HIDE DEF T
    <3> QED
      BY <2>2, <3>1, LeastNatural
  <2>4. PICK k \in 1..n : m = n - k /\ o[k] > k
    BY <2>3
  <2>5. k + 1 \in 1..n /\ o[k + 1] > o[k]
    BY <2>4
  <2>6. n - (k + 1) \in T
    <3>1. o[k + 1] > k + 1
      BY <2>4, <2>5
    <3> QED
      BY <2>5, <3>1
  <2>7. m <= n - (k + 1)
    BY <2>3, <2>6
  <2> QED
    BY <2>4, <2>7
<1> QED
  BY <1>1, <1>2

\* If the stamps increase, ORDER BY leaves one order only, that of the commits.
LEMMA OneOrder ==
  ASSUME NEW s, NEW n \in Nat,
         \A i \in 1..n : s[i].time \in Nat,
         \A i, j \in 1..n : i < j => s[i].time < s[j].time
  PROVE  {o \in [1..n -> 1..n] :
            \A i, j \in 1..n : i < j =>
              o[i] # o[j] /\ s[o[i]].time <= s[o[j]].time}
           = {[i \in 1..n |-> i]}
<1>1. ASSUME NEW o \in [1..n -> 1..n],
             \A i, j \in 1..n : i < j =>
               o[i] # o[j] /\ s[o[i]].time <= s[o[j]].time
      PROVE  o = [i \in 1..n |-> i]
  <2>1. ASSUME NEW i \in 1..n, NEW j \in 1..n, i < j PROVE o[i] < o[j]
    <3>1. o[i] \in 1..n /\ o[j] \in 1..n /\ o[i] # o[j]
      BY <1>1, <2>1
    <3>2. s[o[i]].time <= s[o[j]].time
      BY <1>1, <2>1
    <3>3. CASE o[j] < o[i]
      <4>1. s[o[j]].time < s[o[i]].time
        BY <3>1, <3>3
      <4>2. s[o[j]].time \in Nat /\ s[o[i]].time \in Nat
        BY <3>1
      <4> DEFINE t == s[o[i]].time
                 u == s[o[j]].time
      <4>3. t \in Nat /\ u \in Nat /\ t <= u /\ u < t
        BY <3>2, <4>1, <4>2
      <4> HIDE DEF t, u
      <4> QED
        BY <4>3
    <3>4. CASE o[i] < o[j]
      BY <3>4
    <3> QED
      BY <3>1, <3>3, <3>4
  <2> QED
    BY <2>1, IncreasingIsIdentity
<1>2. [i \in 1..n |-> i] \in [1..n -> 1..n]
  OBVIOUS
<1>3. \A i, j \in 1..n : i < j =>
        /\ [k \in 1..n |-> k][i] # [k \in 1..n |-> k][j]
        /\ s[[k \in 1..n |-> k][i]].time <= s[[k \in 1..n |-> k][j]].time
  OBVIOUS
<1> QED
  BY <1>1, <1>2, <1>3

-----------------------------------------------------------------------------
(* The inductive invariant. *)

Event(Hash) == [prev : Hash \cup {None}, payload : Payloads, time : 1..MaxTime,
                hash : Hash, status : {"PENDING", "CONFIRMED", "FAILED"}]

Slot(Hash) == [stage : {"idle", "locked", "insert", "submit", "fail"},
               batch : Batches \cup {None}, payload : Payloads \cup {None},
               prev : Hash \cup {None}, at : Nat]

Types(Hash) ==
  /\ log \in [Batches -> Seq(Event(Hash))]
  /\ lock \in [Batches -> Writers \cup {None}]
  /\ clock \in 1..MaxTime
  /\ writer \in [Writers -> Slot(Hash)]

\* The hash a batch's next event links to.
LastHash(b) == IF log[b] = <<>> THEN None ELSE log[b][Len(log[b])].hash

\* Each event links to the one before it and carries its own hash.
Linked ==
  \A b \in Batches : \A i \in Positions(b) :
    LET e == log[b][i]
    IN  /\ e.prev = IF i = 1 THEN None ELSE log[b][i - 1].hash
        /\ e.hash = BlockHash(e.prev, e.payload, b, e.time)

\* The stamps of a batch increase in the order of the commits.
Advancing ==
  \A b \in Batches : \A i, j \in Positions(b) :
    i < j => log[b][i].time < log[b][j].time

Short == \A b \in Batches : Len(log[b]) <= MaxEvents

\* What a writer knows: under the lock, what its event will link to; after the
\* commit, where its row is.
SlotsOK ==
  \A w \in Writers :
    LET q == writer[w]
    IN  /\ q.stage # "idle" => q.batch \in Batches /\ q.payload \in Payloads
        /\ q.stage = "locked" => q.prev = None
        /\ q.stage = "insert" => q.prev = LastHash(q.batch)
        /\ q.stage \in {"submit", "fail"} => q.at \in Positions(q.batch)

Inv(Hash) == /\ Types(Hash) /\ Linked /\ Advancing /\ Short /\ SlotsOK
             /\ LockHeldByWriter

LEMMA InvInit ==
  ASSUME NEW Hash, CollisionFree(Hash), Init
  PROVE  Inv(Hash)
<1> USE DEF Init, Idle
<1>1. Types(Hash)
  <2>1. <<>> \in Seq(Event(Hash))
    OBVIOUS
  <2>2. Idle \in Slot(Hash)
    BY DEF Slot
  <2> QED
    BY <2>1, <2>2, LedgerAssumption DEF Types
<1>2. \A b \in Batches : Len(log[b]) = 0 /\ Positions(b) = {}
  BY DEF Positions
<1>3. Linked /\ Advancing /\ Short
  BY <1>2, LedgerAssumption DEF Linked, Advancing, Short
<1>4. SlotsOK /\ LockHeldByWriter
  BY LedgerAssumption DEF SlotsOK, LockHeldByWriter
<1> QED
  BY <1>1, <1>3, <1>4 DEF Inv

-----------------------------------------------------------------------------
(* The append. *)

LEMMA IdleSlot ==
  ASSUME NEW Hash
  PROVE  Idle \in Slot(Hash) /\ Idle.stage = "idle" /\ Idle.prev = None
BY DEF Idle, Slot

LEMMA AcquireKeeps ==
  ASSUME NEW Hash, Inv(Hash), NEW w \in Writers, NEW b \in Batches,
         NEW p \in Payloads, Acquire(w, b, p)
  PROVE  Inv(Hash)'
<1> USE DEF Inv, Acquire
<1> DEFINE q == [Idle EXCEPT !.stage = "locked", !.batch = b, !.payload = p]
<1>1. writer' = [writer EXCEPT ![w] = q] /\ log' = log /\ clock' = clock
  OBVIOUS
<1>2. /\ q \in Slot(Hash) /\ q.stage = "locked" /\ q.batch = b
      /\ q.payload = p /\ q.prev = None
  <2>1. q = [Idle EXCEPT !.stage = "locked", !.batch = b, !.payload = p]
    OBVIOUS
  <2> HIDE DEF q, Inv, Acquire
  <2>2. Idle \in Slot(Hash) /\ Idle.prev = None
    BY IdleSlot
  <2> QED
    BY <2>1, <2>2 DEF Slot
<1> HIDE DEF q
<1>3. Types(Hash)'
  BY <1>1, <1>2 DEF Types
<1>4. Linked' /\ Advancing' /\ Short'
  BY <1>1 DEF Linked, Advancing, Short, Positions
<1>5. SlotsOK'
  BY <1>1, <1>2 DEF SlotsOK, Types, Positions, LastHash
<1>6. LockHeldByWriter'
  BY <1>1, <1>2, LedgerAssumption DEF LockHeldByWriter, LockIsFree, Types, Slot
<1> QED
  BY <1>3, <1>4, <1>5, <1>6

\* While stamps advance the latest event is the last one inserted.
LEMMA LatestIsLast ==
  ASSUME NEW Hash, Inv(Hash), NEW b \in Batches, NEW i \in Latest(b)
  PROVE  log[b] # <<>> /\ i = Len(log[b])
<1> DEFINE n == Len(log[b])
<1>1. n \in Nat /\ i \in 1..n /\ log[b] \in Seq(Event(Hash))
  BY DEF Latest, Positions, Inv, Types
<1>2. log[b][n].time <= log[b][i].time
  BY <1>1 DEF Latest, Positions
<1>3. i < n => log[b][i].time < log[b][n].time
  BY <1>1 DEF Inv, Advancing, Positions
<1>4. log[b][i].time \in Nat /\ log[b][n].time \in Nat
  <2>1. log[b][i] \in Event(Hash) /\ log[b][n] \in Event(Hash)
    BY <1>1
  <2> QED
    BY <2>1, LedgerAssumption DEF Event
<1>5. i = n
  <2> DEFINE t == log[b][i].time
             u == log[b][n].time
  <2>1. t \in Nat /\ u \in Nat /\ u <= t /\ (i < n => t < u)
    BY <1>2, <1>3, <1>4
  <2> HIDE DEF t, u, n
  <2> QED
    BY <1>1, <2>1
<1> QED
  BY <1>1, <1>5

LEMMA ReadPredecessorKeeps ==
  ASSUME NEW Hash, Inv(Hash), NEW w \in Writers, ReadPredecessor(w)
  PROVE  Inv(Hash)'
<1> DEFINE b == writer[w].batch
<1>1. /\ writer[w].stage = "locked" /\ b \in Batches
      /\ writer[w] \in Slot(Hash) /\ log[b] \in Seq(Event(Hash))
      /\ writer[w].prev = None
  BY DEF ReadPredecessor, Inv, SlotsOK, Types
<1>2. /\ writer' = [writer EXCEPT ![w] = [writer[w] EXCEPT !.stage = "insert",
                                                          !.prev = LastHash(b)]]
      /\ LastHash(b) \in Hash \cup {None}
  <2>1. CASE log[b] = <<>> /\ writer' = [writer EXCEPT ![w].stage = "insert"]
    <3>1. LastHash(b) = None
      BY <2>1 DEF LastHash
    <3>2. [writer[w] EXCEPT !.stage = "insert"]
            = [writer[w] EXCEPT !.stage = "insert", !.prev = None]
      BY <1>1 DEF Slot
    <3> QED
      BY <2>1, <3>1, <3>2 DEF Inv, Types
  <2>2. ASSUME NEW i \in Latest(b),
               writer' = [writer EXCEPT ![w].stage = "insert",
                                        ![w].prev = log[b][i].hash]
        PROVE  /\ writer' = [writer EXCEPT ![w] = [writer[w] EXCEPT
                                   !.stage = "insert", !.prev = LastHash(b)]]
               /\ LastHash(b) \in Hash \cup {None}
    <3>1. log[b] # <<>> /\ i = Len(log[b])
      BY <1>1, <2>2, LatestIsLast
    <3>2. LastHash(b) = log[b][i].hash
      BY <3>1 DEF LastHash
    <3>3. log[b][i] \in Event(Hash)
      BY <1>1, <3>1
    <3> QED
      BY <2>2, <3>2, <3>3 DEF Inv, Types, Event
  <2> QED
    BY <2>1, <2>2 DEF ReadPredecessor
<1>3. log' = log /\ lock' = lock /\ clock' = clock
  BY DEF ReadPredecessor
<1> DEFINE q == [writer[w] EXCEPT !.stage = "insert", !.prev = LastHash(b)]
<1>4. /\ q \in Slot(Hash) /\ q.stage = "insert" /\ q.batch = b
      /\ q.payload = writer[w].payload /\ q.prev = LastHash(b)
  BY <1>1, <1>2 DEF Slot
<1>5. writer' = [writer EXCEPT ![w] = q]
  BY <1>2
<1> HIDE DEF q
<1>6. Types(Hash)'
  BY <1>3, <1>4, <1>5 DEF Inv, Types
<1>7. Linked' /\ Advancing' /\ Short'
  BY <1>3 DEF Inv, Linked, Advancing, Short, Positions
<1>8. SlotsOK'
  BY <1>1, <1>3, <1>4, <1>5 DEF Inv, SlotsOK, Types, Positions, LastHash
<1>9. LockHeldByWriter'
  BY <1>1, <1>3, <1>4, <1>5 DEF Inv, LockHeldByWriter, Types
<1> QED
  BY <1>6, <1>7, <1>8, <1>9 DEF Inv

-----------------------------------------------------------------------------

\* What an insertion does to the sequence of a batch's events.
LEMMA InsertAppends ==
  ASSUME NEW Hash, CollisionFree(Hash), Inv(Hash), StampsAdvance,
         NEW w \in Writers, Insert(w)
  PROVE  LET b == writer[w].batch
             n == Len(log[b])
         IN  /\ b \in Batches /\ n \in Nat /\ n + 1 <= MaxEvents
             /\ \E e \in Event(Hash) :
                  /\ log' = [log EXCEPT ![b] = Append(log[b], e)]
                  /\ e.prev = LastHash(b) /\ e.payload = writer[w].payload
                  /\ e.hash = BlockHash(e.prev, e.payload, b, e.time)
                  /\ e.status = "PENDING"
                  /\ \A i \in 1..n : log[b][i].time < e.time
<1> DEFINE b == writer[w].batch
<1>1. /\ b \in Batches /\ writer[w].payload \in Payloads
      /\ writer[w].prev = LastHash(b) /\ writer[w] \in Slot(Hash)
      /\ log[b] \in Seq(Event(Hash)) /\ Len(log[b]) < MaxEvents
  BY DEF Insert, Inv, SlotsOK, Types
<1>2. LastHash(b) \in Hash \cup {None}
  BY <1>1 DEF Slot
<1>3. PICK t \in Stamps(b) : log' = [log EXCEPT ![b] = Append(@,
        [prev |-> writer[w].prev, payload |-> writer[w].payload, time |-> t,
         hash |-> BlockHash(writer[w].prev, writer[w].payload, b, t),
         status |-> "PENDING"])]
  BY DEF Insert
<1>4. t \in 1..clock /\ clock \in 1..MaxTime
  BY DEF Stamps, Inv, Types
<1>5. \A i \in 1..Len(log[b]) : log[b][i].time < t
  BY DEF Stamps, Positions
<1> DEFINE h == BlockHash(LastHash(b), writer[w].payload, b, t)
           e == [prev |-> LastHash(b), payload |-> writer[w].payload, time |-> t,
                 hash |-> h, status |-> "PENDING"]
<1>6. t \in Nat /\ t \in 1..MaxTime
  BY <1>4, LedgerAssumption
<1>7. h \in Hash
  BY <1>1, <1>2, <1>6 DEF CollisionFree
<1>8. e \in Event(Hash)
  <2> HIDE DEF h
  <2> QED
    BY <1>1, <1>2, <1>6, <1>7 DEF Event
<1>9. /\ log' = [log EXCEPT ![b] = Append(log[b], e)]
      /\ e.prev = LastHash(b) /\ e.payload = writer[w].payload
      /\ e.hash = BlockHash(e.prev, e.payload, b, e.time)
      /\ e.status = "PENDING" /\ e.time = t
  BY <1>1, <1>3
<1> HIDE DEF e
<1>10. Len(log[b]) \in Nat /\ Len(log[b]) + 1 <= MaxEvents
  BY <1>1, LedgerAssumption
<1> QED
  BY <1>1, <1>5, <1>8, <1>9, <1>10

LEMMA InsertKeeps ==
  ASSUME NEW Hash, CollisionFree(Hash), Inv(Hash), StampsAdvance,
         NEW w \in Writers, Insert(w)
  PROVE  Inv(Hash)'
<1> DEFINE b == writer[w].batch
           n == Len(log[b])
<1>1. PICK e \in Event(Hash) :
        /\ log' = [log EXCEPT ![b] = Append(log[b], e)]
        /\ e.prev = LastHash(b) /\ e.payload = writer[w].payload
        /\ e.hash = BlockHash(e.prev, e.payload, b, e.time)
        /\ \A i \in 1..n : log[b][i].time < e.time
  BY InsertAppends
<1>2. /\ b \in Batches /\ n \in Nat /\ n + 1 <= MaxEvents
      /\ log[b] \in Seq(Event(Hash)) /\ log \in [Batches -> Seq(Event(Hash))]
  BY InsertAppends DEF Inv, Types
<1>3. /\ log'[b] \in Seq(Event(Hash)) /\ Len(log'[b]) = n + 1
      /\ \A i \in 1..n : log'[b][i] = log[b][i]
      /\ log'[b][n + 1] = e
      /\ \A c \in Batches : c # b => log'[c] = log[c]
      /\ log' \in [Batches -> Seq(Event(Hash))]
  BY <1>1, <1>2
<1> HIDE DEF n
<1>4. /\ writer[w].stage = "insert" /\ writer[w] \in Slot(Hash)
      /\ writer' = [writer EXCEPT ![w] = [writer[w] EXCEPT !.stage = "submit",
                                                          !.at = n + 1]]
      /\ lock' = [lock EXCEPT ![b] = None] /\ clock' = clock
  BY DEF Insert, NewPosition, Inv, Types, n
<1> DEFINE q == [writer[w] EXCEPT !.stage = "submit", !.at = n + 1]
<1>5. /\ q \in Slot(Hash) /\ q.stage = "submit" /\ q.batch = b /\ q.at = n + 1
      /\ q.payload = writer[w].payload
  <2>1. n + 1 \in Nat /\ writer[w].payload \in Payloads
    BY <1>2, <1>4 DEF Inv, SlotsOK
  <2>2. q = [writer[w] EXCEPT !.stage = "submit", !.at = n + 1]
    OBVIOUS
  <2>3. writer[w] \in Slot(Hash)
    BY <1>4
  <2> HIDE DEF q
  <2> QED
    BY <2>1, <2>2, <2>3 DEF Slot
<1>6. writer' = [writer EXCEPT ![w] = q]
  BY <1>4
<1> HIDE DEF q
<1>7. Types(Hash)'
  BY <1>2, <1>3, <1>4, <1>5, <1>6 DEF Inv, Types
<1>8. Linked'
  <2> SUFFICES ASSUME NEW c \in Batches, NEW i \in 1..Len(log'[c])
               PROVE  /\ log'[c][i].prev = IF i = 1 THEN None
                                           ELSE log'[c][i - 1].hash
                      /\ log'[c][i].hash = BlockHash(log'[c][i].prev,
                            log'[c][i].payload, c, log'[c][i].time)
    BY DEF Linked, Positions
  <2>1. CASE c # b
    BY <1>3, <2>1 DEF Inv, Linked, Positions
  <2>2. CASE c = b /\ i <= n
    <3>1. i \in 1..n /\ (i # 1 => i - 1 \in 1..n)
      BY <1>2, <1>3, <2>2
    <3>2. /\ log[b][i].prev = IF i = 1 THEN None ELSE log[b][i - 1].hash
          /\ log[b][i].hash = BlockHash(log[b][i].prev, log[b][i].payload, b,
                                        log[b][i].time)
      BY <1>2, <3>1 DEF Inv, Linked, Positions, n
    <3>3. /\ log'[b][i] = log[b][i]
          /\ i # 1 => log'[b][i - 1] = log[b][i - 1]
      BY <1>3, <3>1
    <3> QED
      BY <2>2, <3>2, <3>3
  <2>3. CASE c = b /\ i = n + 1
    <3>1. LastHash(b) = IF n = 0 THEN None ELSE log[b][n].hash
      BY <1>2 DEF LastHash, n
    <3>2. n # 0 => log'[b][n] = log[b][n]
      BY <1>2, <1>3
    <3> QED
      BY <1>1, <1>2, <1>3, <2>3, <3>1, <3>2
  <2> QED
    BY <1>2, <1>3, <2>1, <2>2, <2>3
<1>9. Advancing'
  <2> SUFFICES ASSUME NEW c \in Batches, NEW i \in 1..Len(log'[c]),
                      NEW j \in 1..Len(log'[c]), i < j
               PROVE  log'[c][i].time < log'[c][j].time
    BY DEF Advancing, Positions
  <2>1. CASE c # b
    BY <1>3, <2>1 DEF Inv, Advancing, Positions
  <2>2. CASE c = b /\ j <= n
    <3>1. i \in 1..n /\ j \in 1..n
      BY <1>2, <1>3, <2>2
    <3> QED
      BY <1>2, <1>3, <2>2, <3>1 DEF Inv, Advancing, Positions, n
  <2>3. CASE c = b /\ j = n + 1
    BY <1>1, <1>2, <1>3, <2>3 DEF n
  <2> QED
    BY <1>2, <1>3, <2>1, <2>2, <2>3
<1>10. Short'
  BY <1>2, <1>3 DEF Inv, Short
<1>11. SlotsOK'
  <2>1. SUFFICES ASSUME NEW v \in Writers
                 PROVE  /\ writer'[v].stage # "idle" =>
                             /\ writer'[v].batch \in Batches
                             /\ writer'[v].payload \in Payloads
                        /\ writer'[v].stage = "locked" => writer'[v].prev = None
                        /\ writer'[v].stage = "insert" =>
                             writer'[v].prev = LastHash(writer[v].batch)'
                        /\ writer'[v].stage \in {"submit", "fail"} =>
                             writer'[v].at \in 1..Len(log'[writer'[v].batch])
    BY DEF SlotsOK, Positions
  <2>2. CASE v = w
    BY <1>2, <1>3, <1>4, <1>5, <1>6, <2>2 DEF Inv, SlotsOK, Types
  <2>3. CASE v # w
    <3>1. writer'[v] = writer[v]
      BY <1>6, <2>3 DEF Inv, Types
    <3>2. writer[v].stage = "insert" => writer[v].batch # b
      BY <1>2, <1>4, <2>3 DEF Inv, LockHeldByWriter
    <3>3. writer[v].stage = "insert" =>
            LastHash(writer[v].batch)' = LastHash(writer[v].batch)
      BY <1>3, <3>1, <3>2 DEF Inv, SlotsOK, LastHash
    <3>4. ASSUME writer[v].stage \in {"submit", "fail"}
          PROVE  writer[v].at \in 1..Len(log'[writer[v].batch])
      <4> DEFINE c == writer[v].batch
      <4>1. c \in Batches /\ writer[v].at \in 1..Len(log[c])
        BY <3>4 DEF Inv, SlotsOK, Positions
      <4>2. /\ Len(log[c]) \in Nat /\ Len(log'[c]) \in Nat
            /\ Len(log[c]) <= Len(log'[c])
        <5>1. CASE c = b
          BY <1>2, <1>3, <5>1 DEF n
        <5>2. CASE c # b
          BY <1>2, <1>3, <4>1, <5>2
        <5> QED
          BY <5>1, <5>2
      <4> QED
        BY <4>1, <4>2
    <3> QED
      BY <3>1, <3>3, <3>4 DEF Inv, SlotsOK
  <2> QED
    BY <2>2, <2>3
<1>12. LockHeldByWriter'
  BY <1>2, <1>4, <1>5, <1>6, LedgerAssumption DEF Inv, LockHeldByWriter, Types
<1> QED
  BY <1>7, <1>8, <1>9, <1>10, <1>11, <1>12 DEF Inv

-----------------------------------------------------------------------------
(* Settlement: it writes a status and nothing else. *)

LEMMA StatusWriteKeeps ==
  ASSUME NEW Hash, Inv(Hash), NEW b \in Batches, NEW i \in Positions(b),
         NEW st \in {"PENDING", "CONFIRMED", "FAILED"},
         log' = [log EXCEPT ![b][i].status = st]
  PROVE  /\ log' \in [Batches -> Seq(Event(Hash))]
         /\ Linked' /\ Advancing' /\ Short'
         /\ \A c \in Batches : /\ Len(log'[c]) = Len(log[c])
                               /\ LastHash(c)' = LastHash(c)
<1> DEFINE e == [log[b][i] EXCEPT !.status = st]
<1>1. /\ log \in [Batches -> Seq(Event(Hash))] /\ log[b] \in Seq(Event(Hash))
      /\ i \in 1..Len(log[b]) /\ log[b][i] \in Event(Hash)
  BY DEF Inv, Types, Positions
<1>2. /\ e \in Event(Hash) /\ e.prev = log[b][i].prev
      /\ e.payload = log[b][i].payload /\ e.time = log[b][i].time
      /\ e.hash = log[b][i].hash
  BY <1>1 DEF Event
<1>3. log' = [log EXCEPT ![b] = [log[b] EXCEPT ![i] = e]]
  BY <1>1
<1> HIDE DEF e
<1>4. /\ [log[b] EXCEPT ![i] = e] \in Seq(Event(Hash))
      /\ Len([log[b] EXCEPT ![i] = e]) = Len(log[b])
      /\ \A j \in 1..Len(log[b]) :
           [log[b] EXCEPT ![i] = e][j] = IF j = i THEN e ELSE log[b][j]
  BY <1>1, <1>2, ExceptSeq
<1>5. log' \in [Batches -> Seq(Event(Hash))]
  BY <1>1, <1>3, <1>4
<1>6. \A c \in Batches : Len(log'[c]) = Len(log[c])
  BY <1>1, <1>3, <1>4
<1>7. \A c \in Batches : \A j \in 1..Len(log[c]) :
        /\ log'[c][j].prev = log[c][j].prev
        /\ log'[c][j].payload = log[c][j].payload
        /\ log'[c][j].time = log[c][j].time
        /\ log'[c][j].hash = log[c][j].hash
  BY <1>1, <1>2, <1>3, <1>4
<1>8. \A c \in Batches : \A j \in 1..Len(log[c]) :
        j # 1 => j - 1 \in 1..Len(log[c])
  BY <1>1
<1>9. Linked'
  BY <1>6, <1>7, <1>8 DEF Inv, Linked, Positions
<1>10. Advancing' /\ Short'
  BY <1>6, <1>7 DEF Inv, Advancing, Short, Positions
<1>11. ASSUME NEW c \in Batches
       PROVE  LastHash(c)' = LastHash(c)
  <2>1. /\ log[c] \in Seq(Event(Hash)) /\ log'[c] \in Seq(Event(Hash))
        /\ Len(log'[c]) = Len(log[c])
    BY <1>1, <1>5, <1>6
  <2>2. CASE log[c] = <<>>
    <3>1. log'[c] = <<>>
      BY <2>1, <2>2
    <3> QED
      BY <2>2, <3>1 DEF LastHash
  <2>3. CASE log[c] # <<>>
    <3>1. Len(log[c]) \in 1..Len(log[c]) /\ log'[c] # <<>>
      BY <2>1, <2>3
    <3> QED
      BY <1>7, <2>1, <2>3, <3>1 DEF LastHash
  <2> QED
    BY <2>2, <2>3
<1> QED
  BY <1>5, <1>6, <1>9, <1>10, <1>11

\* A writer outside its transaction goes idle, or from submission to failure,
\* with its row settled or not.
LEMMA AfterwardsKeeps ==
  ASSUME NEW Hash, Inv(Hash), NEW w \in Writers,
         writer[w].stage \in {"submit", "fail"},
         \/ writer' = [writer EXCEPT ![w] = Idle]
         \/ writer' = [writer EXCEPT ![w].stage = "fail"],
         lock' = lock, clock' = clock,
         \/ log' = log
         \/ \E st \in {"CONFIRMED", "FAILED"} :
              log' = [log EXCEPT ![writer[w].batch][writer[w].at].status = st]
  PROVE  Inv(Hash)'
<1>1. /\ writer[w] \in Slot(Hash) /\ writer[w].batch \in Batches
      /\ writer[w].payload \in Payloads
      /\ writer[w].at \in Positions(writer[w].batch)
  BY DEF Inv, Types, SlotsOK
<1>2. /\ log' \in [Batches -> Seq(Event(Hash))]
      /\ Linked' /\ Advancing' /\ Short'
      /\ \A c \in Batches : /\ Len(log'[c]) = Len(log[c])
                            /\ LastHash(c)' = LastHash(c)
  <2>1. CASE log' = log
    BY <2>1 DEF Inv, Types, Linked, Advancing, Short, Positions, LastHash
  <2>2. ASSUME NEW st \in {"CONFIRMED", "FAILED"},
               log' = [log EXCEPT ![writer[w].batch][writer[w].at].status = st]
        PROVE  /\ log' \in [Batches -> Seq(Event(Hash))]
               /\ Linked' /\ Advancing' /\ Short'
               /\ \A c \in Batches : /\ Len(log'[c]) = Len(log[c])
                                     /\ LastHash(c)' = LastHash(c)
    <3> DEFINE b == writer[w].batch
               i == writer[w].at
    <3>1. /\ b \in Batches /\ i \in Positions(b)
          /\ st \in {"PENDING", "CONFIRMED", "FAILED"}
          /\ log' = [log EXCEPT ![b][i].status = st]
      BY <1>1, <2>2
    <3> HIDE DEF b, i
    <3> QED
      BY <3>1, StatusWriteKeeps
  <2> QED
    BY <2>1, <2>2
<1>3. PICK q \in Slot(Hash) :
        /\ writer' = [writer EXCEPT ![w] = q]
        /\ \/ q.stage = "idle"
           \/ q.stage = "fail" /\ q.batch = writer[w].batch
                /\ q.payload = writer[w].payload /\ q.at = writer[w].at
  <2>1. CASE writer' = [writer EXCEPT ![w] = Idle]
    BY <2>1, IdleSlot
  <2>2. CASE writer' = [writer EXCEPT ![w].stage = "fail"]
    <3> DEFINE q == [writer[w] EXCEPT !.stage = "fail"]
    <3>1. /\ q \in Slot(Hash) /\ q.stage = "fail" /\ q.batch = writer[w].batch
          /\ q.payload = writer[w].payload /\ q.at = writer[w].at
      BY <1>1 DEF Slot
    <3>2. writer' = [writer EXCEPT ![w] = q]
      BY <2>2 DEF Inv, Types
    <3> HIDE DEF q
    <3> QED
      BY <3>1, <3>2
  <2> QED
    BY <2>1, <2>2
<1>4. Types(Hash)'
  BY <1>2, <1>3 DEF Inv, Types
<1>5. SlotsOK'
  <2> SUFFICES ASSUME NEW v \in Writers
               PROVE  /\ writer'[v].stage # "idle" =>
                           /\ writer'[v].batch \in Batches
                           /\ writer'[v].payload \in Payloads
                      /\ writer'[v].stage = "locked" => writer'[v].prev = None
                      /\ writer'[v].stage = "insert" =>
                           writer'[v].prev = LastHash(writer[v].batch)'
                      /\ writer'[v].stage \in {"submit", "fail"} =>
                           writer'[v].at \in 1..Len(log'[writer'[v].batch])
    BY <1>3 DEF SlotsOK, Positions, Inv, Types
  <2>1. CASE v = w
    BY <1>1, <1>2, <1>3, <2>1 DEF Inv, Types, Positions
  <2>2. CASE v # w
    <3>1. writer'[v] = writer[v]
      BY <1>3, <2>2 DEF Inv, Types
    <3> QED
      BY <1>2, <3>1 DEF Inv, SlotsOK, Positions
  <2> QED
    BY <2>1, <2>2
<1>6. LockHeldByWriter'
  BY <1>3 DEF Inv, LockHeldByWriter, Types
<1> QED
  BY <1>2, <1>4, <1>5, <1>6 DEF Inv

LEMMA CrashKeeps ==
  ASSUME NEW Hash, Inv(Hash), NEW w \in Writers, Crash(w)
  PROVE  Inv(Hash)'
<1>1. /\ writer' = [writer EXCEPT ![w] = Idle] /\ log' = log /\ clock' = clock
      /\ lock' = [b \in Batches |-> IF lock[b] = w THEN None ELSE lock[b]]
  BY DEF Crash, Released
<1>2. Idle \in Slot(Hash) /\ Idle.stage = "idle"
  BY IdleSlot
<1>3. Types(Hash)'
  BY <1>1, <1>2 DEF Inv, Types
<1>4. Linked' /\ Advancing' /\ Short'
  BY <1>1 DEF Inv, Linked, Advancing, Short, Positions
<1>5. SlotsOK'
  BY <1>1, <1>2 DEF Inv, SlotsOK, Types, Positions, LastHash
<1>6. LockHeldByWriter'
  BY <1>1, <1>2, LedgerAssumption DEF Inv, LockHeldByWriter, Types
<1> QED
  BY <1>3, <1>4, <1>5, <1>6 DEF Inv

LEMMA TickKeeps ==
  ASSUME NEW Hash, Inv(Hash),
         log' = log, lock' = lock, writer' = writer,
         \/ clock' = clock
         \/ clock < MaxTime /\ clock' = clock + 1
  PROVE  Inv(Hash)'
<1>1. clock' \in 1..MaxTime
  BY LedgerAssumption DEF Inv, Types
<1>2. Types(Hash)'
  BY <1>1 DEF Inv, Types
<1>3. Linked' /\ Advancing' /\ Short'
  BY DEF Inv, Linked, Advancing, Short, Positions
<1>4. SlotsOK' /\ LockHeldByWriter'
  BY DEF Inv, SlotsOK, LockHeldByWriter, Positions, LastHash
<1> QED
  BY <1>2, <1>3, <1>4 DEF Inv

LEMMA InvStep ==
  ASSUME NEW Hash, CollisionFree(Hash), StampsAdvance, Inv(Hash), [Next]_vars
  PROVE  Inv(Hash)'
<1>1. ASSUME NEW w \in Writers, NEW b \in Batches, NEW p \in Payloads,
             Acquire(w, b, p)
      PROVE  Inv(Hash)'
  BY <1>1, AcquireKeeps
<1>2. ASSUME NEW w \in Writers, ReadPredecessor(w)
      PROVE  Inv(Hash)'
  BY <1>2, ReadPredecessorKeeps
<1>3. ASSUME NEW w \in Writers, Insert(w)
      PROVE  Inv(Hash)'
  BY <1>3, InsertKeeps
<1>4. ASSUME NEW w \in Writers, Confirm(w) \/ SubmitFails(w) \/ Fail(w)
      PROVE  Inv(Hash)'
  <2>1. /\ writer[w].stage \in {"submit", "fail"}
        /\ lock' = lock /\ clock' = clock
        /\ \/ log' = log
           \/ \E st \in {"CONFIRMED", "FAILED"} :
                log' = [log EXCEPT ![writer[w].batch][writer[w].at].status = st]
    BY <1>4 DEF Confirm, SubmitFails, Fail
  <2>2. \/ writer' = [writer EXCEPT ![w] = Idle]
        \/ writer' = [writer EXCEPT ![w].stage = "fail"]
    BY <1>4 DEF Confirm, SubmitFails, Fail
  <2> QED
    BY <2>1, <2>2, AfterwardsKeeps
<1>5. ASSUME NEW w \in Writers, Crash(w)
      PROVE  Inv(Hash)'
  BY <1>5, CrashKeeps
<1>6. CASE Tick \/ UNCHANGED vars
  BY <1>6, TickKeeps DEF Tick, vars
<1> QED
  BY <1>1, <1>2, <1>3, <1>4, <1>5, <1>6 DEF Next, Continue

-----------------------------------------------------------------------------
(* Consequences of the invariant in a single state. *)

LEMMA EventTimes ==
  ASSUME NEW Hash, Inv(Hash), NEW b \in Batches, NEW i \in 1..Len(log[b])
  PROVE  /\ log[b][i] \in Event(Hash) /\ log[b][i].time \in Nat
         /\ Len(log[b]) \in Nat
<1>1. log[b] \in Seq(Event(Hash)) /\ log[b][i] \in Event(Hash)
  BY DEF Inv, Types
<1> QED
  BY <1>1, LedgerAssumption DEF Event

\* Events of one hash are of one batch and one stamp.
LEMMA SameHash ==
  ASSUME NEW Hash, CollisionFree(Hash), Inv(Hash), NEW b \in Batches,
         NEW c \in Batches, NEW i \in 1..Len(log[b]), NEW j \in 1..Len(log[c]),
         log[b][i].hash = log[c][j].hash
  PROVE  b = c /\ log[b][i].time = log[c][j].time
<1> DEFINE d == log[b][i]
           e == log[c][j]
<1>1. /\ d.prev \in Hash \cup {None} /\ d.payload \in Payloads /\ d.time \in Nat
      /\ e.prev \in Hash \cup {None} /\ e.payload \in Payloads /\ e.time \in Nat
  BY EventTimes DEF Event
<1>2. /\ d.hash = BlockHash(d.prev, d.payload, b, d.time)
      /\ e.hash = BlockHash(e.prev, e.payload, c, e.time)
  BY DEF Inv, Linked, Positions
<1>3. BlockHash(d.prev, d.payload, b, d.time)
        = BlockHash(e.prev, e.payload, c, e.time)
  BY <1>2
<1> HIDE DEF d, e
<1>4. b = c /\ d.time = e.time
  BY <1>1, <1>3 DEF CollisionFree
<1> QED
  BY <1>4 DEF d, e

\* A stamp tells a batch's events apart.
LEMMA SameTime ==
  ASSUME NEW Hash, Inv(Hash), NEW b \in Batches, NEW i \in 1..Len(log[b]),
         NEW j \in 1..Len(log[b]), log[b][i].time = log[b][j].time
  PROVE  i = j
<1> DEFINE t == log[b][i].time
           u == log[b][j].time
<1>1. t \in Nat /\ u \in Nat /\ t = u /\ (i < j => t < u) /\ (j < i => u < t)
  BY EventTimes DEF Inv, Advancing, Positions
<1>2. i \in Int /\ j \in Int
  BY EventTimes
<1> HIDE DEF t, u
<1> QED
  BY <1>1, <1>2

\* ORDER BY submitted_at has one answer, the order of the commits.
LEMMA OnlyTimeOrder ==
  ASSUME NEW Hash, Inv(Hash), NEW b \in Batches
  PROVE  TimeOrders(b) = {[i \in Positions(b) |-> i]}
<1> DEFINE n == Len(log[b])
           s == log[b]
<1>1. /\ n \in Nat
      /\ \A i \in 1..n : s[i].time \in Nat
      /\ \A i, j \in 1..n : i < j => s[i].time < s[j].time
  BY EventTimes DEF Inv, Advancing, Positions, Types
<1>2. TimeOrders(b) = {o \in [1..n -> 1..n] : \A i, j \in 1..n : i < j =>
                         o[i] # o[j] /\ s[o[i]].time <= s[o[j]].time}
  BY DEF TimeOrders, Positions
<1> HIDE DEF s, n
<1>3. TimeOrders(b) = {[i \in 1..n |-> i]}
  BY <1>1, <1>2, OneOrder
<1> QED
  BY <1>3 DEF Positions, n

\* The invariant holds in every behaviour.
THEOREM Invariance ==
  ASSUME NEW Hash, CollisionFree(Hash), StampsAdvance
  PROVE  Spec => []Inv(Hash)
<1>1. Init => Inv(Hash)
  BY InvInit
<1>2. Inv(Hash) /\ [Next]_vars => Inv(Hash)'
  BY InvStep
<1> QED
  BY <1>1, <1>2, PTL DEF Spec

-----------------------------------------------------------------------------
(* What follows from it. *)

\* Every variable of Ledger keeps its type (blockchain.service.ts, 68-127).
THEOREM TypeSafe ==
  ASSUME NEW Hash, CollisionFree(Hash), StampsAdvance
  PROVE  Spec => []TypeOK
<1>1. Inv(Hash) => TypeOK
  <2> SUFFICES ASSUME Inv(Hash) PROVE TypeOK
    OBVIOUS
  <2>1. ASSUME NEW b \in Batches, NEW i, i \in Positions(b)
        PROVE  log[b][i] \in Event(Hash)
    BY <2>1 DEF Inv, Types, Positions
  <2>2. \A w \in Writers : writer[w] \in Slot(Hash)
    BY DEF Inv, Types
  <2> QED
    BY <2>1, <2>2 DEF Inv, TypeOK, Types, Short, SlotsOK, Event, Slot
<1> QED
  BY <1>1, Invariance, PTL

\* The advisory lock is held by exactly the writer inside its transaction: no
\* two appends of a batch overlap (blockchain.service.ts, 70-76).
THEOREM LockSafe ==
  ASSUME NEW Hash, CollisionFree(Hash), StampsAdvance
  PROVE  Spec => []LockHeldByWriter
<1>1. Inv(Hash) => LockHeldByWriter
  BY DEF Inv
<1> QED
  BY <1>1, Invariance, PTL

\* No two events name one predecessor (blockchain.service.ts, 70-93).
THEOREM NoForkSafe ==
  ASSUME NEW Hash, CollisionFree(Hash), StampsAdvance
  PROVE  Spec => []NoFork
<1>1. Inv(Hash) => NoFork
  <2> SUFFICES ASSUME Inv(Hash), NEW b \in Batches, NEW i, NEW j,
                      i \in Positions(b), j \in Positions(b),
                      log[b][i].prev = log[b][j].prev,
                      i < j
               PROVE  FALSE
    <3>1. \A c \in Batches : \A k \in Positions(c) : k \in Int
      BY DEF Positions
    <3> QED
      BY <3>1 DEF NoFork
  <2>1. i \in 1..Len(log[b]) /\ j \in 1..Len(log[b]) /\ j - 1 \in 1..Len(log[b])
    BY DEF Positions, Inv, Types
  <2>2. log[b][j].prev = log[b][j - 1].hash
    BY <2>1 DEF Inv, Linked, Positions
  <2>3. \A k \in 1..Len(log[b]) : /\ log[b][k] \in Event(Hash)
                                  /\ log[b][k].hash \in Hash
    BY EventTimes DEF Event
  <2>4. i # 1 /\ log[b][i].prev = log[b][i - 1].hash /\ i - 1 \in 1..Len(log[b])
    BY <2>1, <2>2, <2>3 DEF Inv, Linked, Positions, CollisionFree
  <2>5. log[b][i - 1].time = log[b][j - 1].time
    BY <2>1, <2>2, <2>3, <2>4, SameHash
  <2> QED
    <3>1. i - 1 = j - 1
      BY <2>1, <2>4, <2>5, SameTime
    <3> QED
      BY <2>1, <3>1
<1> QED
  BY <1>1, Invariance, PTL

\* No two events share a transaction hash, so the UNIQUE constraint on tx_hash
\* refuses no honest submission (blockchain.service.ts, 52-66).
THEOREM TxHashSafe ==
  ASSUME NEW Hash, CollisionFree(Hash), StampsAdvance
  PROVE  Spec => []TxHashUnique
<1>1. Inv(Hash) => TxHashUnique
  <2> SUFFICES ASSUME Inv(Hash), NEW b \in Batches, NEW c \in Batches,
                      NEW i, NEW j, i \in Positions(b), j \in Positions(c),
                      log[b][i].hash = log[c][j].hash
               PROVE  b = c /\ i = j
    BY DEF TxHashUnique, TxHash
  <2>1. b = c /\ log[b][i].time = log[c][j].time
    BY SameHash DEF Positions
  <2>2. i \in 1..Len(log[b]) /\ j \in 1..Len(log[b])
    BY <2>1 DEF Positions
  <2>3. log[b][i].time = log[b][j].time
    BY <2>1
  <2>4. i = j
    BY <2>2, <2>3, SameTime
  <2> QED
    BY <2>1, <2>4
<1> QED
  BY <1>1, Invariance, PTL

\* verifyChain accepts the chain of every batch at any time, in whatever order
\* the query returns rows it is free to order (blockchain.service.ts, 129-144).
THEOREM ChainSafe ==
  ASSUME NEW Hash, CollisionFree(Hash), StampsAdvance
  PROVE  Spec => []ChainVerifies
<1>1. Inv(Hash) => ChainVerifies
  <2> SUFFICES ASSUME Inv(Hash), NEW b \in Batches, NEW o, o \in TimeOrders(b)
               PROVE  Verifies(b, o)
    BY DEF ChainVerifies
  <2>1. o = [i \in Positions(b) |-> i]
    BY OnlyTimeOrder
  <2>2. \A i \in Positions(b) : o[i] = i /\ (i # 1 => o[i - 1] = i - 1)
    BY <2>1 DEF Positions, Inv, Types
  <2> QED
    BY <2>2 DEF Verifies, Inv, Linked
<1> QED
  BY <1>1, Invariance, PTL

-----------------------------------------------------------------------------
(* A reader sees a history that only grows. *)

\* What a reader sees of one event, and of the events s.
Row(e) == [payload |-> e.payload, status |-> e.status]
Rows(s) == [i \in 1..Len(s) |-> Row(s[i])]

LEMMA RowsAppend ==
  ASSUME NEW Hash, NEW s \in Seq(Event(Hash)), NEW e \in Event(Hash)
  PROVE  Rows(Append(s, e)) = Append(Rows(s), Row(e))
<1>1. /\ Len(s) \in Nat /\ Append(s, e) \in Seq(Event(Hash))
      /\ Len(Append(s, e)) = Len(s) + 1 /\ Append(s, e)[Len(s) + 1] = e
      /\ \A i \in 1..Len(s) : Append(s, e)[i] = s[i]
  OBVIOUS
<1>2. Rows(s) \in Seq(H!Entry) /\ Row(e) \in H!Entry /\ Len(Rows(s)) = Len(s)
  <2>1. \A d \in Event(Hash) : Row(d) \in H!Entry
    BY DEF Row, H!Entry, Event
  <2>2. \A i \in 1..Len(s) : s[i] \in Event(Hash)
    OBVIOUS
  <2>3. Rows(s) \in [1..Len(s) -> H!Entry]
    BY <2>1, <2>2 DEF Rows
  <2> QED
    BY <1>1, <2>1, <2>3
<1>3. /\ Append(Rows(s), Row(e)) \in Seq(H!Entry)
      /\ Len(Append(Rows(s), Row(e))) = Len(s) + 1
      /\ Append(Rows(s), Row(e))[Len(s) + 1] = Row(e)
      /\ \A i \in 1..Len(s) : Append(Rows(s), Row(e))[i] = Row(s[i])
  <2>1. \A i \in 1..Len(s) : Rows(s)[i] = Row(s[i])
    BY DEF Rows
  <2> QED
    BY <1>1, <1>2, <2>1
<1>4. \A i \in 1..(Len(s) + 1) : i \in 1..Len(s) \/ i = Len(s) + 1
  BY <1>1
<1>5. Rows(Append(s, e)) = [i \in 1..(Len(s) + 1) |-> Append(Rows(s), Row(e))[i]]
  BY <1>1, <1>3, <1>4 DEF Rows
<1>6. Append(Rows(s), Row(e))
        = [i \in 1..(Len(s) + 1) |-> Append(Rows(s), Row(e))[i]]
  <2>1. ASSUME NEW a \in Seq(H!Entry) PROVE a = [i \in 1..Len(a) |-> a[i]]
    OBVIOUS
  <2> QED
    BY <1>3, <2>1
<1> QED
  BY <1>5, <1>6

\* The events s, or the rows s, with the status of one of them written.
Settled(s, i, st) == [s EXCEPT ![i].status = st]

LEMMA RowsSettle ==
  ASSUME NEW Hash, NEW s \in Seq(Event(Hash)), NEW i \in 1..Len(s),
         NEW st \in {"PENDING", "CONFIRMED", "FAILED"}
  PROVE  Rows(Settled(s, i, st)) = Settled(Rows(s), i, st)
<1> DEFINE e == [s[i] EXCEPT !.status = st]
           t == [s EXCEPT ![i] = e]
<1>1. s[i] \in Event(Hash) /\ e \in Event(Hash)
  <2>1. s[i] \in Event(Hash)
    OBVIOUS
  <2> QED
    BY <2>1 DEF Event
<1>2. Row(e) = [Row(s[i]) EXCEPT !.status = st]
  BY <1>1 DEF Row, Event
<1> HIDE DEF e
<1>3. Len(t) = Len(s) /\ \A j \in 1..Len(s) : t[j] = IF j = i THEN e ELSE s[j]
  BY <1>1, ExceptSeq
<1> HIDE DEF t
<1>4. Rows(t) = [j \in 1..Len(s) |-> IF j = i THEN [Row(s[i]) EXCEPT !.status = st]
                                     ELSE Row(s[j])]
  BY <1>2, <1>3 DEF Rows
<1>5. [Rows(s) EXCEPT ![i].status = st]
        = [j \in 1..Len(s) |-> IF j = i THEN [Row(s[i]) EXCEPT !.status = st]
                               ELSE Row(s[j])]
  BY DEF Rows
<1> QED
  BY <1>4, <1>5 DEF t, e, Settled

\* The refinement mapping: the rows in the order of the commits.
LEMMA SeenInOrder ==
  ASSUME NEW Hash, Inv(Hash)
  PROVE  [b \in Batches |-> InTimeOrder(b)] = [b \in Batches |-> Rows(log[b])]
<1>1. ASSUME NEW b \in Batches PROVE InTimeOrder(b) = Rows(log[b])
  <2> DEFINE id == [i \in Positions(b) |-> i]
             o == CHOOSE p \in TimeOrders(b) : TRUE
  <2>1. o = id
    BY OnlyTimeOrder
  <2>2. \A i \in Positions(b) : o[i] = i
    BY <2>1
  <2> HIDE DEF o
  <2>3. [i \in Positions(b) |-> [payload |-> log[b][o[i]].payload,
                                 status |-> log[b][o[i]].status]]
          = [i \in Positions(b) |-> Row(log[b][i])]
    BY <2>2 DEF Row
  <2> QED
    BY <2>3 DEF InTimeOrder, Rows, Positions, o
<1> QED
  BY <1>1

Seen == [b \in Batches |-> Rows(log[b])]

\* An insert records, a settlement settles, and every other step stutters.
LEMMA SeenStep ==
  ASSUME NEW Hash, CollisionFree(Hash), StampsAdvance, Inv(Hash), [Next]_vars
  PROVE  \/ UNCHANGED Seen
         \/ \E b \in Batches, p \in Payloads :
              Seen' = [Seen EXCEPT ![b] =
                         Append(@, [payload |-> p, status |-> "PENDING"])]
         \/ \E b \in Batches : \E i \in DOMAIN Seen[b],
               s \in {"CONFIRMED", "FAILED"} :
              /\ Seen[b][i].status = "PENDING"
              /\ Seen' = [Seen EXCEPT ![b][i].status = s]
<1>1. ASSUME NEW w \in Writers, Insert(w)
      PROVE  \E b \in Batches, p \in Payloads :
               Seen' = [Seen EXCEPT ![b] =
                          Append(@, [payload |-> p, status |-> "PENDING"])]
  <2> DEFINE b == writer[w].batch
             p == writer[w].payload
  <2>1. PICK e \in Event(Hash) :
          /\ log' = [log EXCEPT ![b] = Append(log[b], e)]
          /\ e.payload = p /\ e.status = "PENDING"
    BY <1>1, InsertAppends
  <2>2. /\ b \in Batches /\ p \in Payloads
        /\ log \in [Batches -> Seq(Event(Hash))] /\ log[b] \in Seq(Event(Hash))
    BY <1>1 DEF Insert, Inv, SlotsOK, Types
  <2>3. Rows(log'[b]) = Append(Rows(log[b]), Row(e))
    <3>1. log'[b] = Append(log[b], e)
      BY <2>1, <2>2
    <3> QED
      BY <2>2, <3>1, RowsAppend
  <2>4. Row(e) = [payload |-> p, status |-> "PENDING"]
    BY <2>1 DEF Row
  <2>5. \A c \in Batches : c # b => log'[c] = log[c]
    BY <2>1, <2>2
  <2> HIDE DEF b, p
  <2>6. Seen' = [Seen EXCEPT ![b] = Append(Seen[b], Row(e))]
    BY <2>2, <2>3, <2>5 DEF Seen
  <2> QED
    BY <2>2, <2>4, <2>6
<1>2. ASSUME NEW b \in Batches, NEW i, i \in Positions(b), Settleable(b, i),
             NEW st \in {"CONFIRMED", "FAILED"},
             log' = [log EXCEPT ![b][i].status = st]
      PROVE  \E c \in Batches : \E j \in DOMAIN Seen[c],
                s \in {"CONFIRMED", "FAILED"} :
               /\ Seen[c][j].status = "PENDING"
               /\ Seen' = [Seen EXCEPT ![c][j].status = s]
  <2>1. /\ log \in [Batches -> Seq(Event(Hash))] /\ log[b] \in Seq(Event(Hash))
        /\ i \in 1..Len(log[b])
    BY <1>2 DEF Inv, Types, Positions
  <2>2. /\ log'[b] = Settled(log[b], i, st)
        /\ \A c \in Batches : c # b => log'[c] = log[c]
    BY <1>2, <2>1 DEF Settled
  <2>3. Rows(log'[b]) = Settled(Rows(log[b]), i, st)
    BY <2>1, <2>2, RowsSettle
  <2>4. /\ DOMAIN Seen[b] = 1..Len(log[b])
        /\ Seen[b][i].status = log[b][i].status
    BY <2>1 DEF Seen, Rows, Row
  <2>5. Seen' = [Seen EXCEPT ![b] = Settled(Seen[b], i, st)]
    BY <2>2, <2>3 DEF Seen
  <2> QED
    BY <1>2, <2>1, <2>4, <2>5 DEF Settleable, Settled
<1>3. ASSUME NEW w \in Writers, writer[w].stage \in {"submit", "fail"}
      PROVE  writer[w].batch \in Batches /\ writer[w].at \in Positions(writer[w].batch)
  BY <1>3 DEF Inv, SlotsOK
<1>4. CASE \E w \in Writers : Insert(w)
  BY <1>1, <1>4
<1>5. CASE \E w \in Writers : Confirm(w)
  BY <1>2, <1>3, <1>5 DEF Confirm
<1>6. CASE \E w \in Writers : Fail(w)
  <2>1. PICK w \in Writers : Fail(w)
    BY <1>6
  <2>2. CASE Settleable(writer[w].batch, writer[w].at)
    BY <1>2, <1>3, <2>1, <2>2 DEF Fail
  <2>3. CASE ~Settleable(writer[w].batch, writer[w].at)
    BY <2>1, <2>3 DEF Fail, Seen
  <2> QED
    BY <2>2, <2>3
<1>7. CASE log' = log
  BY <1>7 DEF Seen
<1>8. \/ \E w \in Writers : Insert(w) \/ Confirm(w) \/ Fail(w)
      \/ log' = log
  BY DEF Next, Continue, Acquire, ReadPredecessor, SubmitFails, Crash, Tick, vars
<1> QED
  BY <1>4, <1>5, <1>6, <1>7, <1>8

\* The ledger implements the history its readers rely on: whatever appends,
\* crashes and failed submissions overlap, a listing by submitted_at only grows
\* at its end and an event is settled once (blockchain.service.ts, 68-127).
THEOREM HistorySafe ==
  ASSUME NEW Hash, CollisionFree(Hash), StampsAdvance
  PROVE  Spec => HistoryAppendOnly
<1> DEFINE seen == [b \in Batches |-> InTimeOrder(b)]
<1>1. Inv(Hash) => seen = Seen
  BY SeenInOrder DEF Seen
<1>2. Init => H!Init
  <2> SUFFICES ASSUME Init PROVE H!Init
    OBVIOUS
  <2>1. Inv(Hash)
    BY InvInit
  <2>2. \A b \in Batches : Rows(log[b]) = <<>>
    BY DEF Init, Rows
  <2> QED
    BY <1>1, <2>1, <2>2 DEF H!Init, Seen
<1>3. Inv(Hash)' => seen' = Seen'
  <2>1. Inv(Hash)' => (seen = Seen)'
    BY <1>1, PTL
  <2> QED
    BY <2>1
<1>4. Inv(Hash) /\ Inv(Hash)' /\ [Next]_vars => [H!Next]_seen
  <2> SUFFICES ASSUME Inv(Hash), Inv(Hash)', [Next]_vars
               PROVE  [H!Next]_seen
    OBVIOUS
  <2>1. seen = Seen /\ seen' = Seen'
    BY <1>1, <1>3
  <2>2. H!Next <=>
          \E b \in Batches :
            \/ \E p \in Payloads :
                 seen' = [seen EXCEPT ![b] =
                            Append(@, [payload |-> p, status |-> "PENDING"])]
            \/ \E i \in DOMAIN seen[b], s \in {"CONFIRMED", "FAILED"} :
                 /\ i \in DOMAIN seen[b]
                 /\ seen[b][i].status = "PENDING"
                 /\ seen' = [seen EXCEPT ![b][i].status = s]
    BY DEF H!Next, H!Record, H!Settle
  <2> HIDE DEF seen
  <2> QED
    BY <2>1, <2>2, SeenStep
<1> QED
  BY <1>2, <1>4, Invariance, PTL DEF Spec, HistoryAppendOnly, H!Spec
=============================================================================
