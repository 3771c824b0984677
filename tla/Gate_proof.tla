----------------------------- MODULE Gate_proof -----------------------------
(***************************************************************************)
(* Theorems about Gate, for any servers, requests and times to live.       *)
(*                                                                         *)
(* What a cache may still say against the database has a last moment: an   *)
(* entry that differs from its row expires within a time to live of the    *)
(* row's last change (EntryOK), because a look-up notes the time before it *)
(* queries; and the time a look-up that got the old answer noted is not    *)
(* later than that change (SlotOK).                                        *)
(***************************************************************************)
EXTENDS Gate, TLAPS

\* An entry e for row k in server s's cache.
EntryOK(s, k) ==
  LET e == cache[s][k]
  IN  e.filled =>
        /\ e.expires <= clock + TTL[k]
        /\ e.value # db[k] =>
             /\ e.expires <= since[k] + TTL[k]
             /\ \/ e.late
                \/ by[k] # s
                \/ \E r \in Requests : /\ req[r].stage = "invalidate"
                                       /\ req[r].server = s /\ req[r].row = k

\* Past the switch, the caller was let through by it or by its own access.
PassedSwitch(q) == ~(LongClosed(q, "setting") /\ LongClosed(q, "access"))

SlotOK(q) ==
  /\ q.came <= clock
  /\ q.stage \in {"lookup", "query", "fill", "invalidate"} =>
       q.server \in Servers /\ q.row \in Rows
  /\ q.stage \in {"lookup", "query", "fill"} /\ q.login => q.row = "setting"
  /\ q.stage \in {"query", "fill"} => q.came <= q.now /\ q.now <= clock
  /\ q.stage = "fill" /\ q.answer # db[q.row] => q.now <= since[q.row]
  /\ q.stage \in {"lookup", "query", "fill"} /\ ~q.super /\ q.row = "matrix" =>
       PassedSwitch(q)
  /\ q.stage = "handler" /\ ~q.super =>
       PassedSwitch(q) /\ (q.login \/ ~LongClosed(q, "matrix"))

CacheOK == \A s \in Servers, k \in Rows : EntryOK(s, k)
SlotsOK == \A r \in Requests : SlotOK(req[r])
TimesOK == \A k \in Rows : since[k] <= clock

Inv == TypeOK /\ TimesOK /\ CacheOK /\ SlotsOK

LEMMA InitInv == Init => Inv
<1> SUFFICES ASSUME Init PROVE Inv
  OBVIOUS
<1>1. Empty \in Entry /\ Idle \in Slot
  BY DEF Empty, Entry, Idle, Slot, Stage
<1>2. TypeOK
  BY <1>1 DEF Init, TypeOK
<1>3. TimesOK /\ CacheOK
  BY DEF Init, TimesOK, CacheOK, EntryOK, Empty
<1>4. SlotsOK
  BY DEF Init, SlotsOK, SlotOK, Idle
<1> QED
  BY <1>2, <1>3, <1>4 DEF Inv

-----------------------------------------------------------------------------
(* Time and writers. *)

\* A row that has changed did so now.
Later ==
  /\ clock' \in Nat /\ clock <= clock'
  /\ \A k \in Rows : \/ db'[k] = db[k] /\ since'[k] = since[k]
                     \/ since'[k] = clock

\* What was not closed for long when a request came never will have been.
LEMMA StillOpen ==
  ASSUME Inv, Later, NEW q \in Slot, q.came <= clock, NEW k \in Rows,
         ~LongClosed(q, k)
  PROVE  ~LongClosed(q, k)'
<1>1. /\ clock \in Nat /\ q.came \in Nat /\ TTL[k] \in Nat \ {0}
      /\ since[k] \in Nat
  BY GateAssumption DEF Inv, TypeOK, Slot
<1>2. CASE db'[k] = db[k] /\ since'[k] = since[k]
  BY <1>2 DEF LongClosed
<1>3. CASE since'[k] = clock
  <2>1. ~(clock + TTL[k] <= q.came)
    BY <1>1
  <2> QED
    BY <1>3, <2>1 DEF LongClosed
<1> QED
  BY <1>2, <1>3 DEF Later

LEMMA SlotKept ==
  ASSUME Inv, Later, NEW q \in Slot, SlotOK(q)
  PROVE  SlotOK(q)'
<1>1. /\ clock \in Nat /\ clock' \in Nat /\ clock <= clock'
      /\ q.came \in Nat /\ q.now \in Nat /\ q.came <= clock
  BY DEF Inv, TypeOK, Later, Slot, SlotOK
<1>2. PassedSwitch(q) => PassedSwitch(q)'
  BY <1>1, StillOpen DEF PassedSwitch, Rows
<1>3. ~LongClosed(q, "matrix") => ~LongClosed(q, "matrix")'
  BY <1>1, StillOpen DEF Rows
<1>4. q.came <= clock' /\ (q.now <= clock => q.now <= clock')
  BY <1>1
<1>5. ASSUME q.stage = "fill", q.answer # db'[q.row]
      PROVE  q.now <= since'[q.row]
  <2>1. q.row \in Rows /\ q.now <= clock
    BY <1>5 DEF SlotOK
  <2> QED
    BY <1>1, <1>5, <2>1 DEF SlotOK, Later
<1> QED
  BY <1>2, <1>3, <1>4, <1>5 DEF SlotOK

\* One slot moves on, the rest stand, whatever rows change meanwhile.
LEMMA SlotStep ==
  ASSUME Inv, Later, NEW r \in Requests, NEW s \in Slot, SlotOK(s)',
         req' = [req EXCEPT ![r] = s]
  PROVE  req' \in [Requests -> Slot] /\ SlotsOK'
<1>1. req \in [Requests -> Slot]
  BY DEF Inv, TypeOK
<1>2. ASSUME NEW x \in Requests PROVE SlotOK(req[x])'
  <2>1. PICK q \in Slot : q = req[x] /\ SlotOK(q)
    BY <1>1 DEF Inv, SlotsOK
  <2>2. SlotOK(q)'
    BY <2>1, SlotKept
  <2>3. req'[x] = q \/ req'[x] = s
    BY <1>1, <2>1
  <2> QED
    BY <2>2, <2>3 DEF SlotOK, PassedSwitch, LongClosed
<1> QED
  BY <1>1, <1>2 DEF SlotsOK

LEMMA IdleOK == Idle \in Slot /\ (Inv /\ Later => SlotOK(Idle) /\ SlotOK(Idle)')
BY DEF Idle, Slot, Stage, SlotOK, Inv, TypeOK, Later

\* A step of one request that changes no row and no cache.
LEMMA OnlySlot ==
  ASSUME Inv, NEW r \in Requests, NEW s \in Slot, SlotOK(s),
         req[r].stage # "invalidate",
         req' = [req EXCEPT ![r] = s], UNCHANGED <<db, clock, cache, since, by>>
  PROVE  Inv'
<1>1. Later
  BY DEF Later, Inv, TypeOK
<1>2. SlotOK(s)'
  BY <1>1, SlotKept
<1>3. req' \in [Requests -> Slot] /\ SlotsOK'
  BY <1>1, <1>2, SlotStep
<1>4. TypeOK' /\ TimesOK'
  BY <1>3 DEF Inv, TypeOK, TimesOK
<1>5. \A x \in Requests : req[x].stage = "invalidate" => req'[x] = req[x]
  BY DEF Inv, TypeOK
<1>6. CacheOK'
  BY <1>5 DEF Inv, CacheOK, EntryOK
<1> QED
  BY <1>3, <1>4, <1>6 DEF Inv

-----------------------------------------------------------------------------
(* The caller's way. *)

LEMMA ArriveStep ==
  ASSUME Inv, NEW r \in Requests, NEW s \in Servers, NEW super \in BOOLEAN,
         Arrive(r, s, super)
  PROVE  Inv'
<1> DEFINE q == [Idle EXCEPT !.stage = "lookup", !.server = s, !.super = super,
                             !.row = "setting", !.came = clock]
<1>1. /\ q \in Slot /\ q.stage = "lookup" /\ q.server = s /\ q.row = "setting"
      /\ q.came = clock /\ ~q.login
  BY DEF Idle, Slot, Stage, Rows, Inv, TypeOK
<1>2. SlotOK(q)
  BY <1>1 DEF SlotOK, Rows, Inv, TypeOK
<1> QED
  BY <1>1, <1>2, OnlySlot DEF Arrive

LEMMA LoginStep ==
  ASSUME Inv, NEW r \in Requests, NEW s \in Servers, Login(r, s)
  PROVE  Inv'
<1> DEFINE stage == IF db["access"] THEN "handler" ELSE "lookup"
           row == IF db["access"] THEN None ELSE "setting"
           q == [Idle EXCEPT !.stage = stage, !.server = s, !.login = TRUE,
                             !.came = clock, !.row = row]
<1>1. stage \in Stage /\ row \in Rows \cup {None} /\ clock \in Nat
  BY DEF Stage, Rows, Inv, TypeOK
<1>2. /\ q.stage = stage /\ q.server = s /\ q.row = row
      /\ q.came = clock /\ q.login = TRUE
  BY DEF Idle
<1> HIDE DEF stage, row
<1>3. q \in Slot
  BY <1>1 DEF Idle, Slot, Stage, Rows
<1>4. SlotOK(q)
  <2>1. stage = "handler" => PassedSwitch(q)
    BY DEF stage, PassedSwitch, LongClosed
  <2>2. stage \in {"handler", "lookup"} /\ (stage = "lookup" => row = "setting")
    BY DEF stage, row
  <2> QED
    BY <1>1, <1>2, <2>1, <2>2 DEF SlotOK, Rows
<1>5. req' = [req EXCEPT ![r] = q]
  BY DEF Login, stage, row
<1> HIDE DEF q
<1> QED
  BY <1>3, <1>4, <1>5, OnlySlot DEF Login

\* An answer that lets the caller pass, though the row is closed, is about a
\* row that has not been closed for long.
LEMMA GuardMoves ==
  ASSUME Inv, NEW q \in Slot, SlotOK(q), q.stage \in {"lookup", "fill"},
         NEW pass \in BOOLEAN, pass => ~LongClosed(q, q.row)
  PROVE  /\ NextGuard(q, q.row, pass) \in Slot
         /\ SlotOK(NextGuard(q, q.row, pass))
<1>1. /\ q.row \in Rows /\ q.server \in Servers /\ q.came \in Nat /\ clock \in Nat
      /\ q.came <= clock /\ (q.login => q.row = "setting")
  BY DEF SlotOK, Slot, Inv, TypeOK
<1>2. Idle \in Slot /\ SlotOK(Idle)
  BY <1>1 DEF Idle, Slot, Stage, SlotOK
<1>3. ASSUME NEW stage \in Stage, NEW k \in Rows \cup {None}
      PROVE  /\ At(q, stage, k) \in Slot
             /\ At(q, stage, k).stage = stage /\ At(q, stage, k).row = k
             /\ At(q, stage, k).server = q.server /\ At(q, stage, k).came = q.came
             /\ At(q, stage, k).login = q.login /\ At(q, stage, k).super = q.super
  BY DEF At, Slot
<1>4. ASSUME NEW k \in Rows, ~q.login, k = "matrix" /\ ~q.super => PassedSwitch(q)
      PROVE  At(q, "lookup", k) \in Slot /\ SlotOK(At(q, "lookup", k))
  <2>1. "lookup" \in Stage
    BY DEF Stage
  <2> QED
    BY <1>1, <1>3, <1>4, <2>1 DEF SlotOK, PassedSwitch, LongClosed
<1>5. ASSUME ~q.super => PassedSwitch(q) /\ (q.login \/ ~LongClosed(q, "matrix"))
      PROVE  Through(q) \in Slot /\ SlotOK(Through(q))
  <2>1. "handler" \in Stage
    BY DEF Stage
  <2> QED
    BY <1>1, <1>3, <1>5, <2>1 DEF Through, SlotOK, PassedSwitch, LongClosed
<1>6. CASE q.row = "setting" /\ q.login
  BY <1>2, <1>5, <1>6 DEF NextGuard, PassedSwitch
<1>7. CASE q.row = "setting" /\ ~q.login
  <2>1. CASE q.super
    BY <1>5, <1>7, <2>1 DEF NextGuard
  <2>2. CASE ~q.super /\ pass
    BY <1>4, <1>7, <2>2 DEF NextGuard, PassedSwitch, Rows
  <2>3. CASE ~q.super /\ ~pass
    BY <1>4, <1>7, <2>3 DEF NextGuard, Rows
  <2> QED
    BY <2>1, <2>2, <2>3
<1>8. CASE q.row = "access"
  BY <1>1, <1>2, <1>4, <1>8 DEF NextGuard, PassedSwitch, Rows
<1>9. CASE q.row = "matrix"
  BY <1>1, <1>2, <1>5, <1>9 DEF NextGuard, SlotOK
<1> QED
  BY <1>1, <1>6, <1>7, <1>8, <1>9 DEF Rows

LEMMA HitStep ==
  ASSUME Inv, NEW r \in Requests, Hit(r)
  PROVE  Inv'
<1>1. PICK q \in Slot : q = req[r] /\ SlotOK(q) /\ q.stage = "lookup"
  BY DEF Hit, Inv, TypeOK, SlotsOK
<1>2. q.server \in Servers /\ q.row \in Rows
  BY <1>1 DEF SlotOK
<1>3. PICK e \in Entry : e = cache[q.server][q.row]
  BY <1>2 DEF Inv, TypeOK
<1>4. e.value => ~LongClosed(q, q.row)
  <2> SUFFICES ASSUME e.value, ~db[q.row] PROVE ~(since[q.row] + TTL[q.row] <= q.came)
    BY DEF LongClosed
  <2>1. clock < e.expires /\ e.expires <= since[q.row] + TTL[q.row] /\ q.came <= clock
    BY <1>1, <1>2, <1>3 DEF Hit, Fresh, Inv, CacheOK, EntryOK, SlotOK, TypeOK, Entry
  <2> QED
    BY <1>2, <2>1, GateAssumption DEF Inv, TypeOK, Entry, Slot
<1>5. e.value \in BOOLEAN
  BY DEF Entry
<1>6. NextGuard(q, q.row, e.value) \in Slot /\ SlotOK(NextGuard(q, q.row, e.value))
  BY <1>1, <1>4, <1>5, GuardMoves
<1>7. /\ req' = [req EXCEPT ![r] = NextGuard(q, q.row, e.value)]
      /\ UNCHANGED <<db, clock, cache, since, by>>
  BY <1>1, <1>3 DEF Hit
<1> QED
  BY <1>1, <1>6, <1>7, OnlySlot

LEMMA LookUpSteps ==
  ASSUME Inv, NEW r \in Requests, Miss(r) \/ Query(r) \/ Leave(r)
  PROVE  Inv'
<1>1. PICK q \in Slot : q = req[r] /\ SlotOK(q)
  BY DEF Inv, TypeOK, SlotsOK
<1>2. CASE Miss(r)
  <2> DEFINE s == [q EXCEPT !.stage = "query", !.now = clock]
  <2>1. /\ s \in Slot /\ s.stage = "query" /\ s.now = clock /\ s.row = q.row
        /\ s.server = q.server /\ s.came = q.came /\ s.login = q.login
        /\ s.super = q.super
    BY DEF Slot, Stage, Inv, TypeOK
  <2>2. SlotOK(s)
    BY <1>1, <1>2, <2>1 DEF Miss, SlotOK, PassedSwitch, LongClosed, Inv, TypeOK
  <2> QED
    BY <1>1, <1>2, <2>1, <2>2, OnlySlot DEF Miss
<1>3. CASE Query(r)
  <2>1. PICK b \in BOOLEAN : b = db[q.row]
    BY <1>1, <1>3 DEF Query, SlotOK, Inv, TypeOK
  <2> DEFINE s == [q EXCEPT !.stage = "fill", !.answer = b]
  <2>2. /\ s \in Slot /\ s.stage = "fill" /\ s.now = q.now /\ s.row = q.row
        /\ s.server = q.server /\ s.came = q.came /\ s.login = q.login
        /\ s.super = q.super /\ s.answer = b
    BY DEF Slot, Stage
  <2>3. SlotOK(s)
    BY <1>1, <1>3, <2>1, <2>2 DEF Query, SlotOK, PassedSwitch, LongClosed
  <2> QED
    BY <1>1, <1>3, <2>1, <2>2, <2>3, OnlySlot DEF Query
<1>4. CASE Leave(r)
  <2>1. SlotOK(Idle) /\ Idle \in Slot
    BY DEF Idle, Slot, Stage, SlotOK, Inv, TypeOK
  <2> QED
    BY <1>4, <2>1, OnlySlot DEF Leave
<1> QED
  BY <1>2, <1>3, <1>4

\* The answer goes into the cache.  If the row has changed since the query,
\* the entry expires within a time to live of that change.
LEMMA FillStep ==
  ASSUME Inv, NEW r \in Requests, Fill(r)
  PROVE  Inv'
<1>1. PICK q \in Slot : q = req[r] /\ SlotOK(q) /\ q.stage = "fill"
  BY DEF Fill, Inv, TypeOK, SlotsOK
<1>2. /\ q.server \in Servers /\ q.row \in Rows /\ q.answer \in BOOLEAN
      /\ q.now \in Nat /\ q.came \in Nat /\ clock \in Nat /\ since[q.row] \in Nat
      /\ TTL[q.row] \in Nat \ {0} /\ q.came <= q.now /\ q.now <= clock
  BY <1>1, GateAssumption DEF SlotOK, Slot, Inv, TypeOK
<1>3. PICK late \in BOOLEAN : late = (q.answer # db[q.row])
  OBVIOUS
<1> DEFINE e == [filled |-> TRUE, value |-> q.answer,
                 expires |-> q.now + TTL[q.row], late |-> late]
           next == NextGuard(q, q.row, q.answer)
<1>4. e \in Entry
  BY <1>2 DEF Entry
<1>5. /\ cache' = [cache EXCEPT ![q.server][q.row] = e]
      /\ req' = [req EXCEPT ![r] = next]
      /\ UNCHANGED <<db, clock, since, by>>
  BY <1>1, <1>3 DEF Fill, Expiry
<1>6. q.answer => ~LongClosed(q, q.row)
  <2> SUFFICES ASSUME q.answer, ~db[q.row]
               PROVE  ~(since[q.row] + TTL[q.row] <= q.came)
    BY DEF LongClosed
  <2>1. q.now <= since[q.row]
    BY <1>1 DEF SlotOK
  <2> QED
    BY <1>2, <2>1
<1>7. next \in Slot /\ SlotOK(next)
  BY <1>1, <1>2, <1>6, GuardMoves
<1> HIDE DEF next
<1>8. Later
  BY <1>2, <1>5 DEF Later
<1>9. SlotOK(next)'
  BY <1>7, <1>8, SlotKept
<1>10. req' \in [Requests -> Slot] /\ SlotsOK'
  BY <1>5, <1>7, <1>8, <1>9, SlotStep
<1>11. /\ cache' \in [Servers -> [Rows -> Entry]]
       /\ cache'[q.server][q.row] = e
       /\ \A s \in Servers, k \in Rows :
            s # q.server \/ k # q.row => cache'[s][k] = cache[s][k]
  BY <1>2, <1>4, <1>5 DEF Inv, TypeOK
<1>12. TypeOK' /\ TimesOK'
  BY <1>5, <1>10, <1>11 DEF Inv, TypeOK, TimesOK
<1>13. \A x \in Requests : req[x].stage = "invalidate" => req'[x] = req[x]
  BY <1>1, <1>5 DEF Inv, TypeOK
<1>14. ASSUME NEW s \in Servers, NEW k \in Rows PROVE EntryOK(s, k)'
  <2>1. CASE s = q.server /\ k = q.row
    <3>1. e.expires <= clock + TTL[k]
      BY <1>2, <2>1
    <3>2. ASSUME q.answer # db[k]
          PROVE  late = TRUE /\ q.now + TTL[k] <= since[k] + TTL[k]
      <4>1. q.now <= since[k]
        BY <1>1, <2>1, <3>2 DEF SlotOK
      <4>2. late = TRUE
        BY <1>3, <2>1, <3>2
      <4> QED
        BY <1>2, <2>1, <4>1, <4>2
    <3>3. /\ e.value = q.answer /\ e.expires = q.now + TTL[k] /\ e.late = late
      BY <2>1
    <3> HIDE DEF e
    <3> QED
      BY <1>5, <1>11, <2>1, <3>1, <3>2, <3>3 DEF EntryOK
  <2>2. CASE s # q.server \/ k # q.row
    <3>1. cache'[s][k] = cache[s][k] /\ EntryOK(s, k)
      BY <1>11, <2>2 DEF Inv, CacheOK
    <3> QED
      BY <1>5, <1>13, <3>1 DEF EntryOK
  <2> QED
    BY <2>1, <2>2
<1> QED
  BY <1>10, <1>12, <1>14 DEF Inv, CacheOK

-----------------------------------------------------------------------------
(* Writers, servers and time. *)

LEMMA WriteStep ==
  ASSUME Inv, NEW r \in Requests, NEW s \in Servers, NEW k \in Rows, Write(r, s, k)
  PROVE  Inv'
<1> DEFINE q == [Idle EXCEPT !.stage = "invalidate", !.server = s, !.row = k]
<1>1. /\ q \in Slot /\ q.stage = "invalidate" /\ q.server = s /\ q.row = k /\ q.came = 0
  BY DEF Idle, Slot, Stage
<1>2. /\ req[r].stage = "idle" /\ req' = [req EXCEPT ![r] = q]
      /\ db' = [db EXCEPT ![k] = ~@] /\ since' = [since EXCEPT ![k] = clock]
      /\ by' = [by EXCEPT ![k] = s] /\ clock' = clock /\ cache' = cache
      /\ clock \in Nat /\ req \in [Requests -> Slot] /\ db \in [Rows -> BOOLEAN]
      /\ since \in [Rows -> Nat] /\ by \in [Rows -> Servers \cup {None}]
      /\ cache \in [Servers -> [Rows -> Entry]]
  BY DEF Write, Inv, TypeOK
<1>3. Later
  BY <1>2 DEF Later
<1>4. SlotOK(q)'
  BY <1>1, <1>2 DEF SlotOK
<1> HIDE DEF q
<1>5. req' \in [Requests -> Slot] /\ SlotsOK'
  BY <1>1, <1>2, <1>3, <1>4, SlotStep
<1>6. db' \in [Rows -> BOOLEAN]
  BY <1>2
<1>7. TypeOK' /\ TimesOK'
  BY <1>2, <1>5, <1>6 DEF Inv, TypeOK, TimesOK
<1>8. /\ req'[r] = q
      /\ \A x \in Requests : req[x].stage = "invalidate" => req'[x] = req[x]
  BY <1>2
<1>9. ASSUME NEW t \in Servers, NEW j \in Rows PROVE EntryOK(t, j)'
  <2>1. EntryOK(t, j)
    BY DEF Inv, CacheOK
  <2>2. CASE j # k
    BY <1>2, <1>8, <2>1, <2>2 DEF EntryOK
  <2>3. CASE j = k
    <3>1. since'[j] = clock /\ by'[j] = s
      BY <1>2, <2>3
    <3>2. t = s => \E x \in Requests : /\ req'[x].stage = "invalidate"
                                       /\ req'[x].server = t /\ req'[x].row = j
      BY <1>1, <1>8, <2>3
    <3> QED
      BY <1>2, <2>1, <3>1, <3>2 DEF EntryOK
  <2> QED
    BY <2>2, <2>3
<1> QED
  BY <1>5, <1>7, <1>9 DEF Inv, CacheOK

LEMMA InvalidateStep ==
  ASSUME Inv, NEW r \in Requests, Invalidate(r)
  PROVE  Inv'
<1>1. PICK q \in Slot : q = req[r] /\ SlotOK(q) /\ q.stage = "invalidate"
  BY DEF Invalidate, Inv, TypeOK, SlotsOK
<1>2. /\ q.server \in Servers /\ q.row \in Rows
      /\ cache' = [cache EXCEPT ![q.server][q.row] = Empty]
      /\ req' = [req EXCEPT ![r] = Idle]
      /\ UNCHANGED <<db, clock, since, by>> /\ clock \in Nat
  BY <1>1 DEF SlotOK, Invalidate, AfterInvalidate, Inv, TypeOK
<1>3. Later
  BY <1>2 DEF Later
<1>4. req' \in [Requests -> Slot] /\ SlotsOK'
  BY <1>2, <1>3, IdleOK, SlotStep
<1>5. Empty \in Entry /\ ~Empty.filled
  BY DEF Empty, Entry
<1>6. /\ cache' \in [Servers -> [Rows -> Entry]]
      /\ cache'[q.server][q.row] = Empty
      /\ \A s \in Servers, k \in Rows :
           s # q.server \/ k # q.row => cache'[s][k] = cache[s][k]
  BY <1>2, <1>5 DEF Inv, TypeOK
<1>7. TypeOK' /\ TimesOK'
  BY <1>2, <1>4, <1>6 DEF Inv, TypeOK, TimesOK
<1>8. \A x \in Requests : req'[x] = req[x] \/ x = r
  BY <1>2 DEF Inv, TypeOK
<1>9. ASSUME NEW s \in Servers, NEW k \in Rows PROVE EntryOK(s, k)'
  <2>1. CASE s = q.server /\ k = q.row
    BY <1>5, <1>6, <2>1 DEF EntryOK
  <2>2. CASE s # q.server \/ k # q.row
    <3>1. cache'[s][k] = cache[s][k] /\ EntryOK(s, k)
      BY <1>6, <2>2 DEF Inv, CacheOK
    <3>2. \A x \in Requests : req[x].server = s /\ req[x].row = k => req'[x] = req[x]
      BY <1>1, <1>8, <2>2
    <3> QED
      BY <1>2, <3>1, <3>2 DEF EntryOK
  <2> QED
    BY <2>1, <2>2
<1> QED
  BY <1>4, <1>7, <1>9 DEF Inv, CacheOK

LEMMA RestartStep ==
  ASSUME Inv, NEW s \in Servers, Restart(s)
  PROVE  Inv'
<1>1. Empty \in Entry /\ ~Empty.filled
  BY DEF Empty, Entry
<1>2. /\ cache' \in [Servers -> [Rows -> Entry]]
      /\ \A k \in Rows : cache'[s][k] = Empty
      /\ \A t \in Servers : t # s => cache'[t] = cache[t]
      /\ UNCHANGED <<db, clock, since, by>> /\ clock \in Nat
  BY <1>1 DEF Restart, Inv, TypeOK
<1>3. /\ Later /\ Idle \in Slot /\ SlotOK(Idle)
  BY <1>2, IdleOK DEF Later
<1>4. \A r \in Requests : req'[r] = IF req[r].server = s THEN Idle ELSE req[r]
  BY DEF Restart
<1>5. req' \in [Requests -> Slot] /\ SlotsOK'
  <2>1. req' \in [Requests -> Slot]
    BY <1>3 DEF Restart, Inv, TypeOK
  <2>2. ASSUME NEW x \in Requests PROVE SlotOK(req[x])'
    <3>1. PICK q \in Slot : q = req'[x] /\ SlotOK(q)
      BY <1>3, <1>4 DEF Inv, TypeOK, SlotsOK
    <3>2. SlotOK(q)'
      BY <1>3, <3>1, SlotKept
    <3> QED
      BY <3>1, <3>2 DEF SlotOK, PassedSwitch, LongClosed
  <2> QED
    BY <2>1, <2>2 DEF SlotsOK
<1>6. TypeOK' /\ TimesOK'
  BY <1>2, <1>5 DEF Inv, TypeOK, TimesOK
<1>7. ASSUME NEW t \in Servers, NEW k \in Rows PROVE EntryOK(t, k)'
  <2>1. CASE t = s
    BY <1>1, <1>2, <2>1 DEF EntryOK
  <2>2. CASE t # s
    <3>1. cache'[t] = cache[t] /\ EntryOK(t, k)
      BY <1>2, <2>2 DEF Inv, CacheOK
    <3> QED
      BY <1>2, <1>4, <2>2, <3>1 DEF EntryOK
  <2> QED
    BY <2>1, <2>2
<1> QED
  BY <1>5, <1>6, <1>7 DEF Inv, CacheOK

LEMMA TickStep ==
  ASSUME Inv, Tick
  PROVE  Inv'
<1>1. /\ clock \in Nat /\ clock' = clock + 1
      /\ UNCHANGED <<db, cache, req, since, by>>
  BY DEF Tick, Inv, TypeOK
<1>2. Later
  BY <1>1 DEF Later
<1>3. SlotsOK'
  <2> SUFFICES ASSUME NEW x \in Requests PROVE SlotOK(req[x])'
    BY DEF SlotsOK
  <2>1. PICK q \in Slot : q = req[x] /\ SlotOK(q)
    BY DEF Inv, TypeOK, SlotsOK
  <2>2. SlotOK(q)'
    BY <1>2, <2>1, SlotKept
  <2> QED
    BY <1>1, <2>1, <2>2 DEF SlotOK, PassedSwitch, LongClosed
<1>4. TypeOK' /\ TimesOK'
  BY <1>1 DEF Inv, TypeOK, TimesOK
<1>5. CacheOK'
  <2> SUFFICES ASSUME NEW s \in Servers, NEW k \in Rows PROVE EntryOK(s, k)'
    BY DEF CacheOK
  <2>1. EntryOK(s, k) /\ cache[s][k] \in Entry /\ TTL[k] \in Nat /\ since[k] \in Nat
    BY GateAssumption DEF Inv, CacheOK, TypeOK
  <2>2. cache[s][k].expires <= clock + TTL[k] => cache[s][k].expires <= clock' + TTL[k]
    BY <1>1, <2>1 DEF Entry
  <2> QED
    BY <1>1, <2>1, <2>2 DEF EntryOK
<1> QED
  BY <1>3, <1>4, <1>5 DEF Inv

-----------------------------------------------------------------------------
(* The theorems. *)

LEMMA NextInv == Inv /\ [Next]_vars => Inv'
<1> SUFFICES ASSUME Inv, [Next]_vars PROVE Inv'
  OBVIOUS
<1>1. CASE UNCHANGED vars
  BY <1>1 DEF vars, Inv, TypeOK, TimesOK, CacheOK, EntryOK, SlotsOK, SlotOK,
     PassedSwitch, LongClosed
<1>2. ASSUME NEW r \in Requests, NEW s \in Servers,
             \/ \E super \in BOOLEAN : Arrive(r, s, super)
             \/ Login(r, s)
             \/ \E k \in Rows : Write(r, s, k)
      PROVE  Inv'
  BY <1>2, ArriveStep, LoginStep, WriteStep
<1>3. ASSUME NEW r \in Requests,
             \/ Hit(r) \/ Miss(r) \/ Query(r) \/ Fill(r) \/ Leave(r) \/ Invalidate(r)
      PROVE  Inv'
  BY <1>3, HitStep, LookUpSteps, FillStep, InvalidateStep
<1>4. ASSUME NEW s \in Servers, Restart(s) PROVE Inv'
  BY <1>4, RestartStep
<1>5. CASE Tick
  BY <1>5, TickStep
<1> QED
  BY <1>1, <1>2, <1>3, <1>4, <1>5 DEF Next

\* The invariant holds in every behaviour.
THEOREM Invariance == Spec => []Inv
BY InitInv, NextInv, PTL DEF Spec

\* Whatever was withdrawn a time to live before a request came does not let it
\* through, on any server (system.service.ts, permission.service.ts).
THEOREM WithdrawalSafe == Spec => []WithdrawalBinds
<1>1. Inv => WithdrawalBinds
  BY DEF Inv, SlotsOK, SlotOK, PassedSwitch, WithdrawalBinds
<1> QED
  BY <1>1, Invariance, PTL

\* A server sees its own change at once, unless a look-up that the change
\* overtook puts the old value back (permission.service.ts, invalidate).
THEOREM OwnChangeSafe == Spec => []OwnChangeSeen
<1>1. Inv => OwnChangeSeen
  BY DEF Inv, CacheOK, EntryOK, Fresh, OwnChangeSeen
<1> QED
  BY <1>1, Invariance, PTL
=============================================================================
