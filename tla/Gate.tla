-------------------------------- MODULE Gate --------------------------------
(***************************************************************************)
(* The guards a request passes on its way to a handler: maintenanceGate,   *)
(* which reads the maintenance switch and the caller's maintenance access, *)
(* and requirePermission, which reads the permission matrix.  Login asks   *)
(* the switch as well.  All three are rows of the database behind a cache  *)
(* that each server process keeps, with a time to live and an explicit     *)
(* invalidation by the process that wrote the row.                         *)
(*                                                                         *)
(* One caller and one permission stand for all: a row is TRUE when it lets *)
(* the caller pass (the system is up, the caller may work during           *)
(* maintenance, the role holds the permission).  A look-up that misses the *)
(* cache notes the time, queries, and fills the cache when the answer      *)
(* arrives: three steps, around which the row may change.                  *)
(***************************************************************************)
EXTENDS Integers

CONSTANTS
  Servers,      \* server processes, each with its caches
  Requests,     \* the slots: how many requests may be in flight at once
  TTL,          \* row -> the time to live of its cache entries
  MaxTime,      \* bound on the clock
  None

Rows == {"setting", "access", "matrix"}

ASSUME GateAssumption ==
  /\ TTL \in [Rows -> Nat \ {0}]
  /\ MaxTime \in Nat
  /\ None \notin Servers \cup Requests \cup Rows

VARIABLES
  db,           \* row -> does it let the caller pass
  clock,        \* Date.now()
  cache,        \* server, row -> cache entry, or Empty
  req,          \* the requests in flight
  since,        \* history: row -> when it last changed
  by            \* history: row -> the server that last changed it

vars == <<db, clock, cache, req, since, by>>

\* late is history: the value was out of date when it was filled in.
Entry == [filled : BOOLEAN, value : BOOLEAN, expires : Nat, late : BOOLEAN]

Empty == [filled |-> FALSE, value |-> FALSE, expires |-> 0, late |-> FALSE]

\* Where a request is: at the look-up of row, waiting for its query or its
\* answer, in the handler, or (a writer) about to invalidate row.
Stage == {"idle", "lookup", "query", "fill", "handler", "invalidate"}

Slot == [stage : Stage, server : Servers \cup {None}, login : BOOLEAN,
         super : BOOLEAN, row : Rows \cup {None}, came : Nat, now : Nat,
         answer : BOOLEAN]

Idle == [stage |-> "idle", server |-> None, login |-> FALSE,
         super |-> FALSE, row |-> None, came |-> 0, now |-> 0,
         answer |-> FALSE]

TypeOK ==
  /\ db \in [Rows -> BOOLEAN]
  /\ clock \in Nat
  /\ cache \in [Servers -> [Rows -> Entry]]
  /\ req \in [Requests -> Slot]
  /\ since \in [Rows -> Nat]
  /\ by \in [Rows -> Servers \cup {None}]

Init ==
  /\ db = [k \in Rows |-> k # "access"]
  /\ clock = 0
  /\ cache = [s \in Servers |-> [k \in Rows |-> Empty]]
  /\ req = [r \in Requests |-> Idle]
  /\ since = [k \in Rows |-> 0]
  /\ by = [k \in Rows |-> None]

-----------------------------------------------------------------------------
(* The caller's way through the guards. *)

\* A protected request reaches maintenanceGate, which asks for the status
\* whoever calls.
Arrive(r, s, super) ==
  /\ req[r].stage = "idle"
  /\ req' = [req EXCEPT ![r] =
       [Idle EXCEPT !.stage = "lookup", !.server = s, !.super = super,
                    !.row = "setting", !.came = clock]]
  /\ UNCHANGED <<db, clock, cache, since, by>>

\* A login, its password verified, asks for the status unless the account it
\* has read is the owner's or has maintenance access: these pass at once.
Login(r, s) ==
  /\ req[r].stage = "idle"
  /\ req' = [req EXCEPT ![r] =
       [Idle EXCEPT !.stage = IF db["access"] THEN "handler" ELSE "lookup",
                    !.server = s, !.login = TRUE, !.came = clock,
                    !.row = IF db["access"] THEN None ELSE "setting"]]
  /\ UNCHANGED <<db, clock, cache, since, by>>

\* The guards read in order; a slot that is through is in its handler.
At(q, stage, k) == [q EXCEPT !.stage = stage, !.row = k, !.now = 0,
                             !.answer = FALSE]
Through(q) == At(q, "handler", None)

\* What follows the answer about row k: SUPER_ADMIN is stopped by neither
\* guard, maintenance by the switch and the caller's access, the rest by the
\* matrix.  A refused request ends.
NextGuard(q, k, pass) ==
  CASE k = "setting" /\ q.login -> IF pass THEN Through(q) ELSE Idle
    [] k = "setting" /\ ~q.login ->
         IF q.super THEN Through(q)
         ELSE At(q, "lookup", IF pass THEN "matrix" ELSE "access")
    [] k = "access" -> IF pass THEN At(q, "lookup", "matrix") ELSE Idle
    [] k = "matrix" -> IF pass THEN Through(q) ELSE Idle

\* expiresAt > now.
Fresh(e) == e.filled /\ e.expires > clock

\* getStatus, isMaintenanceAllowedForUser, getMatrix: served from the cache...
Hit(r) ==
  LET q == req[r]
      e == cache[q.server][q.row]
  IN  /\ q.stage = "lookup" /\ Fresh(e)
      /\ req' = [req EXCEPT ![r] = NextGuard(q, q.row, e.value)]
      /\ UNCHANGED <<db, clock, cache, since, by>>

\* ... or the time is noted and the row is queried ...
Miss(r) ==
  LET q == req[r]
  IN  /\ q.stage = "lookup" /\ ~Fresh(cache[q.server][q.row])
      /\ req' = [req EXCEPT ![r] = [q EXCEPT !.stage = "query", !.now = clock]]
      /\ UNCHANGED <<db, clock, cache, since, by>>

Query(r) ==
  /\ req[r].stage = "query"
  /\ req' = [req EXCEPT ![r] =
       [req[r] EXCEPT !.stage = "fill", !.answer = db[req[r].row]]]
  /\ UNCHANGED <<db, clock, cache, since, by>>

\* A slip: the time to live counts from the answer.
ExpiryFromAnswer(k, now) == clock + TTL[k]

\* The time to live counts from before the query.
Expiry(k, now) == now + TTL[k]

\* ... and the answer goes into the cache and to the guard.
Fill(r) ==
  LET q == req[r]
  IN  /\ q.stage = "fill"
      /\ cache' = [cache EXCEPT ![q.server][q.row] =
           [filled |-> TRUE, value |-> q.answer,
            expires |-> Expiry(q.row, q.now), late |-> q.answer # db[q.row]]]
      /\ req' = [req EXCEPT ![r] = NextGuard(q, q.row, q.answer)]
      /\ UNCHANGED <<db, clock, since, by>>

\* The handler is done, a query fails, or the request times out.
Leave(r) ==
  /\ req[r].stage \in {"query", "fill", "handler"}
  /\ req' = [req EXCEPT ![r] = Idle]
  /\ UNCHANGED <<db, clock, cache, since, by>>

-----------------------------------------------------------------------------
(* Writers, servers and time. *)

\* setMaintenance, setMaintenanceAccess, setRolePermissions: the row is
\* committed, and then, in a step of its own, dropped from the writer's cache.
Write(r, s, k) ==
  /\ req[r].stage = "idle"
  /\ db' = [db EXCEPT ![k] = ~@]
  /\ since' = [since EXCEPT ![k] = clock]
  /\ by' = [by EXCEPT ![k] = s]
  /\ req' = [req EXCEPT ![r] =
       [Idle EXCEPT !.stage = "invalidate", !.server = s, !.row = k]]
  /\ UNCHANGED <<clock, cache>>

\* A slip: the entry is kept.
AfterInvalidateKept(e) == e

AfterInvalidate(e) == Empty

Invalidate(r) ==
  LET q == req[r]
  IN  /\ q.stage = "invalidate"
      /\ cache' = [cache EXCEPT ![q.server][q.row] = AfterInvalidate(@)]
      /\ req' = [req EXCEPT ![r] = Idle]
      /\ UNCHANGED <<db, clock, since, by>>

\* A restarted server has lost its requests and its caches.
Restart(s) ==
  /\ cache' = [cache EXCEPT ![s] = [k \in Rows |-> Empty]]
  /\ req' = [r \in Requests |-> IF req[r].server = s THEN Idle ELSE req[r]]
  /\ UNCHANGED <<db, clock, since, by>>

Tick ==
  /\ clock < MaxTime
  /\ clock' = clock + 1
  /\ UNCHANGED <<db, cache, req, since, by>>

Next ==
  \/ \E r \in Requests :
       \/ \E s \in Servers : \/ \E super \in BOOLEAN : Arrive(r, s, super)
                             \/ Login(r, s)
                             \/ \E k \in Rows : Write(r, s, k)
       \/ Hit(r) \/ Miss(r) \/ Query(r) \/ Fill(r) \/ Leave(r) \/ Invalidate(r)
  \/ \E s \in Servers : Restart(s)
  \/ Tick

Spec == Init /\ [][Next]_vars

-----------------------------------------------------------------------------
(* Properties. *)

\* Row k was closed to the caller for its whole time to live when q came.
LongClosed(q, k) == ~db[k] /\ since[k] + TTL[k] <= q.came

\* What was withdrawn a time to live before a request came does not let it
\* through, on any server, however its look-ups and the writes interleave:
\* the switch with the access during maintenance, and the permission.
WithdrawalBinds == \A r \in Requests :
  LET q == req[r]
  IN  q.stage = "handler" /\ ~q.super =>
        /\ ~(LongClosed(q, "setting") /\ LongClosed(q, "access"))
        /\ q.login \/ ~LongClosed(q, "matrix")

\* A server sees its own change at once: an entry it serves that differs from
\* the row was changed by another server, or is about to be invalidated, or
\* was filled by a look-up that the change overtook.
OwnChangeSeen == \A s \in Servers, k \in Rows :
  LET e == cache[s][k]
  IN  Fresh(e) /\ e.value # db[k] =>
        \/ e.late
        \/ by[k] # s
        \/ \E r \in Requests : req[r].stage = "invalidate"
                               /\ req[r].server = s /\ req[r].row = k
=============================================================================
