--------------------------- MODULE Accounts_proof ---------------------------
(***************************************************************************)
(* Theorems about Accounts, for any users, farmers and any number of       *)
(* overlapping requests.                                                   *)
(*                                                                         *)
(* Every handler decides on what it read and writes by id.  The invariant  *)
(* says of each slot that either some request has overwritten what it has  *)
(* read, and then it is stale and its write is recorded in overtaken, or   *)
(* the rows still say the same (ReadStands).                               *)
(***************************************************************************)
EXTENDS Accounts, TLAPS

\* What a slot has read is still what the rows say.
ReadStands(q) ==
  /\ q.stage \in {"fail", "login"} => ~account[q.user].locked
  /\ q.stage \in {"login", "refresh"} =>
       q.session = era[q.user] \/ q.user \in overtaken
  /\ q.stage = "change" => q.status = account[q.user].status
  /\ q.stage = "provision" =>
       farmer[q.farmer].state = "active" /\ farmer[q.farmer].user = None
  /\ q.stage = "delete" => farmer[q.farmer].user = q.user

\* A request is about rows that exist, and a token it is about to sign carries
\* the flag unless its user has chosen a password.
SlotOK(q) ==
  /\ q.stage \in {"fail", "login", "refresh", "change", "reset"} => q.user \in Users
  /\ q.stage \in {"provision", "delete"} =>
       q.farmer \in Farmers /\ farmer[q.farmer].state # "absent"
  /\ q.user # None => account[q.user].exists
  /\ q.stage \in {"login", "refresh"} => q.must \/ q.user \in claimed
  /\ ~q.stale => ReadStands(q)

SlotsOK == \A r \in Requests : SlotOK(req[r])

RowsOK ==
  /\ \A u \in Users : /\ ~account[u].exists => account[u] = NoAccount
                      /\ account[u].exists => account[u].must \/ u \in claimed
  /\ \A f \in Farmers : /\ farmer[f].state = "absent" => farmer[f].user = None
                        /\ farmer[f].user # None => account[farmer[f].user].exists
  /\ \A a \in access : account[a.user].exists

Inv == /\ TypeOK /\ SlotsOK /\ RowsOK
       /\ EndedSessionsStayEnded /\ UnclaimedReachesNothing
       /\ IssuedIsLinked /\ DeletedIsBarred

LEMMA InitInv == Init => Inv
<1> SUFFICES ASSUME Init PROVE Inv
  OBVIOUS
<1>1. NoAccount \in Account /\ Idle \in Slot /\ 0 < MaxFailed
  BY AccountsAssumption DEF NoAccount, Account, UserStatus, Idle, Slot, Stage
<1>2. TypeOK
  BY <1>1 DEF Init, TypeOK, Farmer, NoAccount
<1>3. SlotsOK
  BY DEF Init, SlotsOK, SlotOK, ReadStands, Idle
<1>4. RowsOK
  BY DEF Init, RowsOK, NoAccount
<1>5. EndedSessionsStayEnded /\ UnclaimedReachesNothing
  BY DEF Init, EndedSessionsStayEnded, UnclaimedReachesNothing, NoAccount
<1>6. IssuedIsLinked /\ DeletedIsBarred
  BY DEF Init, IssuedIsLinked, DeletedIsBarred, NoAccount
<1> QED
  BY <1>2, <1>3, <1>4, <1>5, <1>6 DEF Inv

-----------------------------------------------------------------------------
(* Slots. *)

\* p is the slot q, stale now if it had read one of the rows written.
Aged(q, p, rows) ==
  /\ p.stage = q.stage /\ p.user = q.user /\ p.farmer = q.farmer
  /\ p.fails = q.fails /\ p.must = q.must /\ p.status = q.status
  /\ p.session = q.session
  /\ ~p.stale => ~q.stale /\ q.user \notin rows /\ q.farmer \notin rows

\* A step writes rows and, as far as a slot could tell, nothing besides.
Writes(rows) ==
  /\ \A u \in Users : account[u].exists => account'[u].exists
  /\ \A u \in Users \ rows :
       /\ account'[u].locked => account[u].locked
       /\ account[u].exists => account'[u].status = account[u].status
       /\ era'[u] = era[u]
  /\ \A f \in Farmers : farmer[f].state # "absent" => farmer'[f].state # "absent"
  /\ \A f \in Farmers \ rows : farmer[f].state # "absent" => farmer'[f] = farmer[f]
  /\ claimed \subseteq claimed'
  /\ overtaken \subseteq overtaken'

LEMMA SlotAged ==
  ASSUME NEW q \in Slot, NEW p \in Slot, NEW rows,
         SlotOK(q), Aged(q, p, rows), Writes(rows)
  PROVE  SlotOK(p)'
<1>1. q.user # None => q.user \in Users
  BY DEF Slot
<1>2. ASSUME ~p.stale PROVE ReadStands(p)'
  <2>1. /\ ~q.stale /\ ReadStands(q)
        /\ q.user \notin rows /\ q.farmer \notin rows
    BY <1>2 DEF Aged, SlotOK
  <2>2. q.stage \in {"provision", "delete"} => farmer'[q.farmer] = farmer[q.farmer]
    BY <2>1 DEF SlotOK, Writes
  <2>3. q.stage \in {"fail", "login", "refresh", "change"} =>
          /\ account'[q.user].locked => account[q.user].locked
          /\ account'[q.user].status = account[q.user].status
          /\ era'[q.user] = era[q.user]
    BY <2>1, AccountsAssumption DEF SlotOK, Writes
  <2> QED
    BY <2>1, <2>2, <2>3 DEF ReadStands, Aged, Writes
<1> QED
  BY <1>1, <1>2 DEF SlotOK, Aged, Writes

LEMMA AfterWriteAges ==
  ASSUME req \in [Requests -> Slot], NEW r, NEW s \in Slot, NEW rows
  PROVE  /\ AfterWrite(r, s, rows) \in [Requests -> Slot]
         /\ \A q \in Requests :
              IF q = r THEN AfterWrite(r, s, rows)[q] = s
              ELSE Aged(req[q], AfterWrite(r, s, rows)[q], rows)
<1>1. ASSUME NEW q \in Requests
      PROVE  /\ [req[q] EXCEPT !.stale = @ \/ req[q].user \in rows
                                           \/ req[q].farmer \in rows] \in Slot
             /\ Aged(req[q], [req[q] EXCEPT !.stale = @ \/ req[q].user \in rows
                                           \/ req[q].farmer \in rows], rows)
  <2>1. PICK p \in Slot : p = req[q]
    OBVIOUS
  <2>2. (p.stale \/ p.user \in rows \/ p.farmer \in rows) \in BOOLEAN
    BY DEF Slot
  <2>3. PICK b \in BOOLEAN : b = (p.stale \/ p.user \in rows \/ p.farmer \in rows)
    BY <2>2
  <2>4. [p EXCEPT !.stale = b] \in Slot
    BY DEF Slot
  <2>5. Aged(p, [p EXCEPT !.stale = b], rows)
    BY <2>3 DEF Slot, Aged
  <2> QED
    BY <2>1, <2>3, <2>4, <2>5
<1> QED
  BY <1>1 DEF AfterWrite

\* A request that writes ages the others; its own slot becomes s.
LEMMA SlotsStep ==
  ASSUME Inv, NEW r, NEW s \in Slot, SlotOK(s)', NEW rows, Writes(rows),
         req' = AfterWrite(r, s, rows)
  PROVE  req' \in [Requests -> Slot] /\ SlotsOK'
<1>1. /\ req' \in [Requests -> Slot] /\ req \in [Requests -> Slot]
      /\ \A q \in Requests : IF q = r THEN req'[q] = s
                             ELSE Aged(req[q], req'[q], rows)
  BY AfterWriteAges DEF Inv, TypeOK
<1>2. ASSUME NEW x \in Requests PROVE SlotOK(req[x])'
  <2>1. CASE x = r
    BY <1>1, <1>2, <2>1 DEF SlotOK, ReadStands
  <2>2. CASE x # r
    <3>1. PICK q \in Slot, p \in Slot : /\ q = req[x] /\ p = req'[x]
                                        /\ SlotOK(q) /\ Aged(q, p, rows)
      BY <1>1, <2>2 DEF Inv, SlotsOK
    <3>2. SlotOK(p)'
      BY <3>1, SlotAged
    <3> QED
      BY <3>1, <3>2 DEF SlotOK, ReadStands
  <2> QED
    BY <2>1, <2>2
<1> QED
  BY <1>1, <1>2 DEF SlotsOK

\* A step that no request could notice leaves the slots good.
LEMMA SlotsSame ==
  ASSUME Inv, Writes({}), req' = req
  PROVE  req' \in [Requests -> Slot] /\ SlotsOK'
<1>1. req \in [Requests -> Slot]
  BY DEF Inv, TypeOK
<1>2. ASSUME NEW x \in Requests PROVE SlotOK(req[x])'
  <2>1. PICK q \in Slot : q = req[x] /\ SlotOK(q)
    BY <1>1 DEF Inv, SlotsOK
  <2>2. Aged(q, q, {})
    BY DEF Aged
  <2>3. SlotOK(q)'
    BY <2>1, <2>2, SlotAged
  <2> QED
    BY <2>1, <2>3 DEF SlotOK, ReadStands
<1> QED
  BY <1>1, <1>2 DEF SlotsOK

LEMMA IdleOK == Idle \in Slot /\ SlotOK(Idle) /\ SlotOK(Idle)'
BY DEF Idle, Slot, Stage, UserStatus, SlotOK, ReadStands

-----------------------------------------------------------------------------
(* Steps that write no row. *)

LEMMA ReadStep ==
  ASSUME Inv, NEW r \in Requests, NEW s \in Slot, SlotOK(s), req' = [req EXCEPT ![r] = s],
         UNCHANGED <<account, farmer, access, era, history>>
  PROVE  Inv'
<1>1. req' \in [Requests -> Slot] /\ TypeOK'
  BY DEF Inv, TypeOK, history
<1>2. SlotsOK'
  BY <1>1 DEF Inv, TypeOK, SlotsOK, SlotOK, ReadStands, history
<1>3. RowsOK'
  BY DEF Inv, RowsOK, history
<1>4. /\ EndedSessionsStayEnded' /\ UnclaimedReachesNothing'
      /\ IssuedIsLinked' /\ DeletedIsBarred'
  BY DEF Inv, EndedSessionsStayEnded, UnclaimedReachesNothing, PassesPasswordGate,
     IssuedIsLinked, DeletedIsBarred, history
<1> QED
  BY <1>1, <1>2, <1>3, <1>4 DEF Inv

\* What the checks before the password, or before the change of it, have read.
LEMMA LoginReads ==
  ASSUME Inv, NEW r \in Requests, NEW u \in Users,
         LoginWrong(r, u) \/ LoginRight(r, u) \/ RefreshRead(r, u) \/ ChangeRead(r, u)
  PROVE  Inv'
<1>1. account[u] \in Account /\ era[u] \in Nat
  BY DEF Inv, TypeOK
<1>2. u # None
  BY AccountsAssumption
<1>3. account[u].session # None => account[u].exists
  BY DEF Inv, RowsOK, NoAccount
<1>4. CASE LoginWrong(r, u)
  <2> DEFINE s == [Idle EXCEPT !.stage = "fail", !.user = u, !.fails = account[u].fails]
  <2>1. /\ s.stage = "fail" /\ s.user = u /\ s.farmer = None /\ s.fails = account[u].fails
        /\ s.must = FALSE /\ s.status = "ACTIVE" /\ s.session = 0 /\ s.stale = FALSE
    BY DEF Idle
  <2>2. s \in Slot
    BY <1>1 DEF Idle, Slot, Stage, UserStatus, Account
  <2>3. account[u].exists /\ ~account[u].locked
    BY <1>4 DEF LoginWrong, Findable, Admits
  <2>4. SlotOK(s)
    BY <2>1, <2>3 DEF SlotOK, ReadStands
  <2>5. /\ req' = [req EXCEPT ![r] = s]
        /\ UNCHANGED <<account, farmer, access, era, history>>
    BY <1>4 DEF LoginWrong, Read
  <2> QED
    BY <2>2, <2>4, <2>5, ReadStep
<1>5. CASE LoginRight(r, u)
  <2> DEFINE s == [Idle EXCEPT !.stage = "login", !.user = u, !.session = era[u],
                               !.must = account[u].must]
  <2>1. /\ s.stage = "login" /\ s.user = u /\ s.farmer = None
        /\ s.must = account[u].must /\ s.session = era[u] /\ s.stale = FALSE
    BY DEF Idle
  <2>2. s \in Slot
    BY <1>1 DEF Idle, Slot, Stage, UserStatus, Account
  <2>3. account[u].exists /\ ~account[u].locked
    BY <1>5 DEF LoginRight, Findable, Admits
  <2>4. SlotOK(s)
    BY <2>1, <2>3 DEF SlotOK, ReadStands, Inv, RowsOK
  <2>5. /\ req' = [req EXCEPT ![r] = s]
        /\ UNCHANGED <<account, farmer, access, era, history>>
    BY <1>5 DEF LoginRight, Read
  <2> QED
    BY <2>2, <2>4, <2>5, ReadStep
<1>6. CASE RefreshRead(r, u)
  <2> DEFINE s == [Idle EXCEPT !.stage = "refresh", !.user = u,
                               !.session = account[u].session, !.must = account[u].must]
  <2>1. /\ s.stage = "refresh" /\ s.user = u /\ s.farmer = None
        /\ s.must = account[u].must /\ s.session = account[u].session /\ s.stale = FALSE
    BY DEF Idle
  <2>2. account[u].exists /\ account[u].session \in Nat
    BY <1>1, <1>3, <1>6 DEF RefreshRead, Account
  <2>3. s \in Slot
    BY <1>1, <2>2 DEF Idle, Slot, Stage, UserStatus, Account
  <2>4. SlotOK(s)
    BY <2>1, <2>2, <1>6
    DEF RefreshRead, SlotOK, ReadStands, Inv, RowsOK, EndedSessionsStayEnded
  <2>5. /\ req' = [req EXCEPT ![r] = s]
        /\ UNCHANGED <<account, farmer, access, era, history>>
    BY <1>6 DEF RefreshRead, Read
  <2> QED
    BY <2>3, <2>4, <2>5, ReadStep
<1>7. CASE ChangeRead(r, u)
  <2> DEFINE s == [Idle EXCEPT !.stage = "change", !.user = u,
                               !.status = account[u].status]
  <2>1. /\ s.stage = "change" /\ s.user = u /\ s.farmer = None
        /\ s.status = account[u].status /\ s.stale = FALSE
    BY DEF Idle
  <2>2. account[u].exists
    BY <1>7 DEF ChangeRead, Authenticated, Inv, RowsOK
  <2>3. s \in Slot
    BY <1>1, <2>2 DEF Idle, Slot, Stage, UserStatus, Account
  <2>4. SlotOK(s)
    BY <2>1, <2>2 DEF SlotOK, ReadStands
  <2>5. /\ req' = [req EXCEPT ![r] = s]
        /\ UNCHANGED <<account, farmer, access, era, history>>
    BY <1>7 DEF ChangeRead, Read
  <2> QED
    BY <2>3, <2>4, <2>5, ReadStep
<1> QED
  BY <1>4, <1>5, <1>6, <1>7

\* What the handlers about a farmer have read.
LEMMA FarmerReads ==
  ASSUME Inv, NEW r \in Requests, NEW f \in Farmers,
         ProvisionRead(r, f) \/ ResetRead(r, f) \/ DeleteRead(r, f)
  PROVE  Inv'
<1>1. /\ farmer[f].state \in {"absent", "active", "deleted"}
      /\ farmer[f].user \in Users \cup {None}
      /\ farmer[f].user # None => account[farmer[f].user].exists
  BY DEF Inv, TypeOK, Farmer, RowsOK
<1>2. CASE ProvisionRead(r, f)
  <2> DEFINE s == [Idle EXCEPT !.stage = "provision", !.farmer = f]
  <2>1. s.stage = "provision" /\ s.user = None /\ s.farmer = f
    BY DEF Idle
  <2>2. s \in Slot
    BY DEF Idle, Slot, Stage, UserStatus
  <2>3. SlotOK(s)
    BY <1>2, <2>1 DEF ProvisionRead, MayProvision, SlotOK, ReadStands
  <2>4. /\ req' = [req EXCEPT ![r] = s]
        /\ UNCHANGED <<account, farmer, access, era, history>>
    BY <1>2 DEF ProvisionRead, Read
  <2> QED
    BY <2>2, <2>3, <2>4, ReadStep
<1>3. CASE ResetRead(r, f)
  <2> DEFINE s == [Idle EXCEPT !.stage = "reset", !.user = farmer[f].user]
  <2>1. s.stage = "reset" /\ s.user = farmer[f].user /\ s.farmer = None
    BY DEF Idle
  <2>2. s \in Slot
    BY <1>1 DEF Idle, Slot, Stage, UserStatus
  <2>3. SlotOK(s)
    BY <1>1, <1>3, <2>1 DEF ResetRead, SlotOK, ReadStands
  <2>4. /\ req' = [req EXCEPT ![r] = s]
        /\ UNCHANGED <<account, farmer, access, era, history>>
    BY <1>3 DEF ResetRead, Read
  <2> QED
    BY <2>2, <2>3, <2>4, ReadStep
<1>4. CASE DeleteRead(r, f)
  <2> DEFINE s == [Idle EXCEPT !.stage = "delete", !.farmer = f, !.user = farmer[f].user]
  <2>1. s.stage = "delete" /\ s.user = farmer[f].user /\ s.farmer = f
    BY DEF Idle
  <2>2. s \in Slot
    BY <1>1 DEF Idle, Slot, Stage, UserStatus
  <2>3. SlotOK(s)
    BY <1>1, <1>4, <2>1 DEF DeleteRead, SlotOK, ReadStands
  <2>4. /\ req' = [req EXCEPT ![r] = s]
        /\ UNCHANGED <<account, farmer, access, era, history>>
    BY <1>4 DEF DeleteRead, Read
  <2> QED
    BY <2>2, <2>3, <2>4, ReadStep
<1> QED
  BY <1>2, <1>3, <1>4

\* An access token runs out.
LEMMA ExpiryStep ==
  ASSUME Inv, AccessExpires
  PROVE  Inv'
<1>1. access' \subseteq access
  BY DEF AccessExpires
<1>2. TypeOK'
  BY <1>1 DEF Inv, TypeOK, AccessExpires, history
<1>3. SlotsOK'
  BY SlotsSame DEF AccessExpires, history, Writes
<1>4. RowsOK'
  BY <1>1 DEF Inv, RowsOK, AccessExpires, history
<1>5. UnclaimedReachesNothing'
  BY <1>1 DEF Inv, UnclaimedReachesNothing, PassesPasswordGate, AccessExpires, history
<1>6. EndedSessionsStayEnded' /\ IssuedIsLinked' /\ DeletedIsBarred'
  BY DEF Inv, EndedSessionsStayEnded, IssuedIsLinked, DeletedIsBarred, AccessExpires, history
<1> QED
  BY <1>2, <1>3, <1>4, <1>5, <1>6 DEF Inv

-----------------------------------------------------------------------------
(* Steps in which a request writes its account. *)

\* What every such write has in common: row is a row that may follow account[u].
LEMMA WriteStep ==
  ASSUME Inv, NEW r \in Requests, NEW row \in Account,
         req[r].user \in Users,
         WriteAccount(r, row),
         UNCHANGED <<farmer, reinstated>>,
         era' \in [Users -> Nat],
         \A v \in Users : v # req[r].user => era'[v] = era[v],
         claimed \subseteq claimed', claimed' \subseteq Users,
         access' \subseteq AccessToken,
         \A a \in access' : \/ a \in access
                            \/ a.user = req[r].user /\ (a.must \/ a.user \in claimed'),
         row.exists, row.issued = account[req[r].user].issued,
         row.fails < MaxFailed,
         row.must \/ req[r].user \in claimed',
         row.session \in {None, era'[req[r].user]} \/ req[r].user \in overtaken',
         \/ row.status = account[req[r].user].status
         \/ account[req[r].user].status # "DEACTIVATED"
         \/ req[r].user \in overtaken'
  PROVE  Inv'
<1> DEFINE u == req[r].user
<1>1. /\ account' = [account EXCEPT ![u] = row]
      /\ req' = AfterWrite(r, Idle, {u})
      /\ overtaken \subseteq overtaken' /\ overtaken' \subseteq overtaken \cup {u}
  BY DEF WriteAccount
<1>2. account[u].exists /\ u \in Users /\ account \in [Users -> Account]
  BY AccountsAssumption DEF Inv, TypeOK, SlotsOK, SlotOK
<1>3. Writes({u})
  BY <1>1, <1>2 DEF Writes
<1>4. req' \in [Requests -> Slot] /\ SlotsOK'
  BY <1>1, <1>3, IdleOK, SlotsStep
<1>5. TypeOK'
  BY <1>1, <1>2, <1>4 DEF Inv, TypeOK
<1>6. \A v \in Users : account'[v].exists <=> account[v].exists
  BY <1>1, <1>2
<1>7. RowsOK'
  <2>1. \A v \in Users : /\ ~account'[v].exists => account'[v] = NoAccount
                         /\ account'[v].exists => account'[v].must \/ v \in claimed'
    BY <1>1, <1>2 DEF Inv, RowsOK
  <2>2. \A f \in Farmers :
          /\ farmer[f].state = "absent" => farmer[f].user = None
          /\ farmer[f].user # None => account'[farmer[f].user].exists
    BY <1>6 DEF Inv, RowsOK, TypeOK, Farmer
  <2>3. \A a \in access' : account'[a.user].exists
    BY <1>2, <1>6 DEF Inv, RowsOK, AccessToken
  <2> QED
    BY <2>1, <2>2, <2>3 DEF RowsOK
<1>8. EndedSessionsStayEnded'
  BY <1>1, <1>2 DEF Inv, EndedSessionsStayEnded
<1>9. UnclaimedReachesNothing'
  BY DEF Inv, UnclaimedReachesNothing, PassesPasswordGate
<1>10. IssuedIsLinked'
  BY <1>1, <1>2 DEF Inv, IssuedIsLinked
<1>11. DeletedIsBarred'
  BY <1>1, <1>2 DEF Inv, DeletedIsBarred
<1> QED
  BY <1>4, <1>5, <1>7, <1>8, <1>9, <1>10, <1>11 DEF Inv

\* A slot that is about to write its account holds the types it needs.
LEMMA Writer ==
  ASSUME Inv, NEW r \in Requests,
         req[r].stage \in {"fail", "login", "refresh", "change", "reset"}
  PROVE  /\ req[r] \in Slot /\ SlotOK(req[r]) /\ req[r].user \in Users
         /\ account[req[r].user] \in Account /\ account[req[r].user].exists
         /\ account[req[r].user].fails < MaxFailed
         /\ era[req[r].user] \in Nat /\ era \in [Users -> Nat]
BY AccountsAssumption DEF Inv, TypeOK, SlotsOK, SlotOK

LEMMA FailStep ==
  ASSUME Inv, NEW r \in Requests, FailWrite(r)
  PROVE  Inv'
<1> DEFINE u == req[r].user
           failed == req[r].fails + 1
           row == [account[u] EXCEPT !.fails = IF Locks(failed) THEN 0 ELSE failed,
                                     !.locked = Locks(failed)]
<1>1. /\ req[r].stage = "fail" /\ WriteAccount(r, row)
      /\ UNCHANGED <<farmer, access, era, claimed, reinstated>>
  BY DEF FailWrite
<1>2. /\ req[r] \in Slot /\ u \in Users /\ account[u] \in Account
      /\ account[u].exists /\ era \in [Users -> Nat]
  BY <1>1, Writer
<1>3. Locks(failed) \in BOOLEAN /\ failed \in Nat
  BY <1>2 DEF Locks, Slot
<1>4. row \in Account /\ row.fails < MaxFailed
  <2>1. PICK a \in Account, l \in BOOLEAN, n \in Nat :
          /\ a = account[u] /\ l = Locks(failed)
          /\ n = (IF Locks(failed) THEN 0 ELSE failed)
    BY <1>2, <1>3
  <2>2. n < MaxFailed
    BY <1>3, <2>1, AccountsAssumption DEF Locks
  <2>3. row = [a EXCEPT !.fails = n, !.locked = l]
    BY <2>1
  <2>4. [a EXCEPT !.fails = n, !.locked = l] \in Account
    BY DEF Account
  <2>5. [a EXCEPT !.fails = n, !.locked = l].fails = n
    BY DEF Account
  <2> QED
    BY <2>2, <2>3, <2>4, <2>5
<1>5. /\ row.exists = account[u].exists /\ row.issued = account[u].issued
      /\ row.must = account[u].must /\ row.session = account[u].session
      /\ row.status = account[u].status
  BY <1>2 DEF Account
<1>6. overtaken \subseteq overtaken'
  BY <1>1 DEF WriteAccount
<1> HIDE DEF row
<1> QED
  BY <1>1, <1>2, <1>4, <1>5, <1>6, WriteStep
  DEF Inv, TypeOK, RowsOK, EndedSessionsStayEnded

LEMMA TokenSteps ==
  ASSUME Inv, NEW r \in Requests, LoginWrite(r) \/ RefreshWrite(r)
  PROVE  Inv'
<1> DEFINE u == req[r].user
           row == IF req[r].stage = "login"
                  THEN [account[u] EXCEPT !.fails = 0, !.locked = FALSE,
                                          !.session = req[r].session]
                  ELSE [account[u] EXCEPT !.session = req[r].session]
<1>1. /\ req[r].stage \in {"login", "refresh"} /\ WriteAccount(r, row)
      /\ access' = access \cup {AccessFor(u, req[r].must)}
      /\ UNCHANGED <<farmer, era, claimed, reinstated>>
  BY DEF LoginWrite, RefreshWrite
<1>2. /\ req[r] \in Slot /\ u \in Users /\ account[u] \in Account
      /\ account[u].exists /\ era \in [Users -> Nat]
      /\ account[u].fails < MaxFailed /\ SlotOK(req[r])
  BY <1>1, Writer
<1>3. row \in Account /\ row.fails < MaxFailed
  <2>1. PICK a \in Account, s \in Nat : a = account[u] /\ s = req[r].session
    BY <1>2 DEF Slot
  <2>2. /\ [a EXCEPT !.fails = 0, !.locked = FALSE, !.session = s] \in Account
        /\ [a EXCEPT !.session = s] \in Account
    BY DEF Account
  <2>3. row.fails \in {0, account[u].fails}
    BY <1>2 DEF Account
  <2> QED
    BY <1>2, <2>1, <2>2, <2>3, AccountsAssumption
<1>4. /\ row.exists = account[u].exists /\ row.issued = account[u].issued
      /\ row.must = account[u].must /\ row.session = req[r].session
      /\ row.status = account[u].status
  BY <1>2 DEF Account
<1>5. req[r].session = era[u] \/ u \in overtaken'
  BY <1>1, <1>2 DEF WriteAccount, SlotOK, ReadStands
<1>6. /\ AccessFor(u, req[r].must) \in AccessToken
      /\ AccessFor(u, req[r].must).user = u
      /\ AccessFor(u, req[r].must).must \/ u \in claimed
  BY <1>1, <1>2 DEF AccessFor, AccessToken, Slot, SlotOK
<1>7. access' \subseteq AccessToken
  BY <1>1, <1>6 DEF Inv, TypeOK
<1>8. \A a \in access' : \/ a \in access
                         \/ a.user = u /\ (a.must \/ a.user \in claimed)
  BY <1>1, <1>6
<1>9. account[u].must \/ u \in claimed
  BY <1>2 DEF Inv, RowsOK
<1> HIDE DEF row
<1> QED
  BY <1>1, <1>2, <1>3, <1>4, <1>5, <1>7, <1>8, <1>9, WriteStep DEF Inv, TypeOK

LEMMA ChangeStep ==
  ASSUME Inv, NEW r \in Requests, ChangeWrite(r)
  PROVE  Inv'
<1> DEFINE u == req[r].user
           row == [account[u] EXCEPT
             !.must = FALSE, !.expired = FALSE, !.fails = 0, !.locked = FALSE,
             !.session = era'[u],
             !.status = IF req[r].status = "PENDING_VERIFICATION"
                        THEN "ACTIVE" ELSE @]
<1>1. /\ req[r].stage = "change" /\ WriteAccount(r, row)
      /\ era' = [era EXCEPT ![u] = @ + 1]
      /\ access' = access \cup {AccessFor(u, FALSE)}
      /\ claimed' = claimed \cup {u}
      /\ UNCHANGED <<farmer, reinstated>>
  BY DEF ChangeWrite
<1>2. /\ req[r] \in Slot /\ u \in Users /\ account[u] \in Account
      /\ account[u].exists /\ era \in [Users -> Nat] /\ SlotOK(req[r])
  BY <1>1, Writer
<1>3. era' \in [Users -> Nat] /\ \A v \in Users : v # u => era'[v] = era[v]
  BY <1>1, <1>2
<1>4. row \in Account /\ row.fails < MaxFailed
  <2>1. PICK a \in Account, n \in Nat : a = account[u] /\ n = era'[u]
    BY <1>2, <1>3
  <2>2. PICK t \in UserStatus : t = IF req[r].status = "PENDING_VERIFICATION"
                                    THEN "ACTIVE" ELSE a.status
    BY DEF UserStatus, Account
  <2> DEFINE b == [a EXCEPT !.must = FALSE, !.expired = FALSE, !.fails = 0,
                            !.locked = FALSE, !.session = n]
  <2>3. b \in Account /\ b.status = a.status /\ b.fails = 0
    BY DEF Account
  <2>4. row = [b EXCEPT !.status = t]
    BY <2>1, <2>2, <2>3
  <2> HIDE DEF b
  <2>5. row \in Account /\ row.fails = 0
    BY <2>3, <2>4 DEF Account
  <2> QED
    BY <2>5, AccountsAssumption
<1>5. /\ row.exists = account[u].exists /\ row.issued = account[u].issued
      /\ row.session = era'[u]
      /\ row.status = IF req[r].status = "PENDING_VERIFICATION"
                      THEN "ACTIVE" ELSE account[u].status
  BY <1>2 DEF Account
<1>6. req[r].status = account[u].status \/ u \in overtaken'
  BY <1>1, <1>2 DEF WriteAccount, SlotOK, ReadStands
<1>7. /\ AccessFor(u, FALSE) \in AccessToken /\ AccessFor(u, FALSE).user = u
      /\ access' \subseteq AccessToken
  <2>1. /\ AccessFor(u, FALSE) \in AccessToken /\ AccessFor(u, FALSE).user = u
    BY <1>2 DEF AccessFor, AccessToken
  <2> QED
    BY <1>1, <2>1 DEF Inv, TypeOK
<1> HIDE DEF row
<1> QED
  BY <1>1, <1>2, <1>3, <1>4, <1>5, <1>6, <1>7, WriteStep DEF Inv, TypeOK

LEMMA ResetStep ==
  ASSUME Inv, NEW r \in Requests, ResetWrite(r)
  PROVE  Inv'
<1> DEFINE u == req[r].user
           row == [account[u] EXCEPT
             !.must = TRUE, !.expired = FALSE, !.fails = 0, !.locked = FALSE,
             !.session = None]
<1>1. /\ req[r].stage = "reset" /\ WriteAccount(r, row)
      /\ era' = [era EXCEPT ![u] = @ + 1]
      /\ UNCHANGED <<farmer, access, claimed, reinstated>>
  BY DEF ResetWrite, SessionAfterReset
<1>2. /\ u \in Users /\ account[u] \in Account
      /\ account[u].exists /\ era \in [Users -> Nat]
  BY <1>1, Writer
<1>3. era' \in [Users -> Nat] /\ \A v \in Users : v # u => era'[v] = era[v]
  BY <1>1, <1>2
<1>4. row \in Account /\ row.fails < MaxFailed
  <2>1. PICK a \in Account : a = account[u]
    BY <1>2
  <2>2. [a EXCEPT !.must = TRUE, !.expired = FALSE, !.fails = 0, !.locked = FALSE,
                  !.session = None] \in Account
    BY DEF Account
  <2>3. row.fails = 0
    BY <1>2 DEF Account
  <2> QED
    BY <2>1, <2>2, <2>3, AccountsAssumption
<1>5. /\ row.exists = account[u].exists /\ row.issued = account[u].issued
      /\ row.must = TRUE /\ row.session = None /\ row.status = account[u].status
  BY <1>2 DEF Account
<1> HIDE DEF row
<1> QED
  BY <1>1, <1>2, <1>3, <1>4, <1>5, WriteStep DEF Inv, TypeOK

-----------------------------------------------------------------------------
(* Steps about farmers. *)

\* A new account, linked or not, is nobody's yet.
LEMMA NewAccount ==
  ASSUME Inv, NEW u \in Users, ~account[u].exists
  PROVE  /\ account[u] = NoAccount
         /\ \A f \in Farmers : farmer[f].user # u
         /\ \A r \in Requests : req[r].user # u
         /\ FarmerUser \in Account /\ FarmerUser.exists /\ FarmerUser.must
         /\ FarmerUser.session = None /\ FarmerUser.fails = 0 /\ ~FarmerUser.locked
         /\ FarmerUser.status = "ACTIVE" /\ FarmerUser.issued
<1>1. account[u] = NoAccount
  BY DEF Inv, RowsOK
<1>2. \A f \in Farmers : farmer[f].user # u
  BY AccountsAssumption DEF Inv, RowsOK
<1>3. \A r \in Requests : req[r].user # u
  BY AccountsAssumption DEF Inv, SlotsOK, SlotOK
<1>4. FarmerUser \in Account
  BY DEF FarmerUser, NoAccount, Account, UserStatus
<1>5. /\ FarmerUser.exists /\ FarmerUser.must
      /\ FarmerUser.session = None /\ FarmerUser.fails = 0 /\ ~FarmerUser.locked
      /\ FarmerUser.status = "ACTIVE" /\ FarmerUser.issued
  BY DEF FarmerUser, NoAccount
<1> QED
  BY <1>1, <1>2, <1>3, <1>4, <1>5

\* The account a farmer is given, by the handler that creates both at once or
\* by the one that has read the farmer before.
LEMMA IssueStep ==
  ASSUME Inv, NEW f \in Farmers, NEW u \in Users, NEW row \in Farmer,
         ~account[u].exists,
         account' = [account EXCEPT ![u] = FarmerUser],
         farmer' = [farmer EXCEPT ![f] = row],
         row.user = u, row.state # "absent",
         farmer[f].user = None \/ f \in overtaken',
         row.state = "active" \/ f \in overtaken',
         overtaken \subseteq overtaken',
         overtaken' \subseteq Users \cup Farmers,
         req' \in [Requests -> Slot], SlotsOK',
         UNCHANGED <<access, era, claimed, reinstated>>
  PROVE  Inv'
<1>1. /\ account \in [Users -> Account] /\ farmer \in [Farmers -> Farmer]
      /\ 0 < MaxFailed
  BY AccountsAssumption DEF Inv, TypeOK
<1>2. TypeOK'
  BY <1>1, NewAccount DEF Inv, TypeOK
<1>3. RowsOK'
  <2>1. \A v \in Users : /\ ~account'[v].exists => account'[v] = NoAccount
                         /\ account'[v].exists => account'[v].must \/ v \in claimed
    BY <1>1, NewAccount DEF Inv, RowsOK
  <2>2. \A v \in Users : account[v].exists \/ v = u => account'[v].exists
    BY <1>1, NewAccount
  <2>3. \A g \in Farmers :
          /\ farmer'[g].state = "absent" => farmer'[g].user = None
          /\ farmer'[g].user # None => account'[farmer'[g].user].exists
    BY <1>1, <2>2 DEF Inv, RowsOK, Farmer
  <2>4. \A a \in access : account'[a.user].exists
    BY <2>2 DEF Inv, RowsOK, TypeOK, AccessToken
  <2> QED
    BY <2>1, <2>3, <2>4 DEF RowsOK
<1>4. EndedSessionsStayEnded'
  BY <1>1, NewAccount DEF Inv, EndedSessionsStayEnded
<1>5. UnclaimedReachesNothing'
  BY DEF Inv, UnclaimedReachesNothing, PassesPasswordGate
<1>6. IssuedIsLinked'
  <2> SUFFICES ASSUME NEW v \in Users, account'[v].issued
               PROVE  \E g \in Farmers : farmer'[g].user = v \/ g \in overtaken'
    BY DEF IssuedIsLinked
  <2>1. CASE v = u
    BY <1>1, <2>1
  <2>2. CASE v # u
    <3>1. PICK g \in Farmers : farmer[g].user = v \/ g \in overtaken
      BY <1>1, <2>2 DEF Inv, IssuedIsLinked
    <3>2. farmer[g].user = v => g # f \/ f \in overtaken'
      BY AccountsAssumption
    <3> QED
      BY <1>1, <3>1, <3>2
  <2> QED
    BY <2>1, <2>2
<1>7. DeletedIsBarred'
  <2> SUFFICES ASSUME NEW g \in Farmers, NEW v \in Users,
                      farmer'[g].state = "deleted", farmer'[g].user = v
               PROVE  \/ account'[v].status = "DEACTIVATED" \/ v \in reinstated
                      \/ {g, v} \cap overtaken' # {}
    BY DEF DeletedIsBarred
  <2>1. CASE g = f
    BY <1>1, <2>1
  <2>2. CASE g # f
    <3>1. farmer[g].state = "deleted" /\ farmer[g].user = v /\ v # u
      BY <1>1, <2>2, NewAccount
    <3> QED
      BY <1>1, <3>1 DEF Inv, DeletedIsBarred
  <2> QED
    BY <2>1, <2>2
<1> QED
  BY <1>2, <1>3, <1>4, <1>5, <1>6, <1>7 DEF Inv

LEMMA CreateFarmerStep ==
  ASSUME Inv, NEW f \in Farmers, CreateFarmer(f)
  PROVE  Inv'
<1>1. /\ farmer[f].state = "absent" /\ farmer[f].user = None
      /\ farmer' = [farmer EXCEPT ![f].state = "active"]
      /\ UNCHANGED <<account, access, req, era, history>>
      /\ farmer \in [Farmers -> Farmer]
  BY DEF Inv, TypeOK, RowsOK, CreateFarmer
<1>2. \A g \in Farmers : /\ farmer'[g].user = farmer[g].user
                         /\ g # f => farmer'[g] = farmer[g]
                         /\ farmer'[g] \in Farmer
                         /\ farmer'[f].state = "active"
  BY <1>1 DEF Farmer
<1>3. TypeOK'
  BY <1>1, <1>2 DEF Inv, TypeOK, history
<1>4. Writes({})
  BY <1>1, <1>2 DEF Writes, history
<1>5. SlotsOK'
  BY <1>1, <1>4, SlotsSame
<1>6. RowsOK'
  BY <1>1, <1>2 DEF Inv, RowsOK, history
<1>7. EndedSessionsStayEnded' /\ UnclaimedReachesNothing' /\ IssuedIsLinked'
  BY <1>1, <1>2 DEF Inv, EndedSessionsStayEnded, UnclaimedReachesNothing,
     PassesPasswordGate, IssuedIsLinked, history
<1>8. DeletedIsBarred'
  BY <1>1, <1>2 DEF Inv, DeletedIsBarred, history
<1> QED
  BY <1>3, <1>5, <1>6, <1>7, <1>8 DEF Inv

LEMMA CreateBothStep ==
  ASSUME Inv, NEW f \in Farmers, NEW u \in Users, CreateFarmerWithAccount(f, u)
  PROVE  Inv'
<1> DEFINE row == [state |-> "active", user |-> u]
<1>1. /\ farmer[f].state = "absent" /\ farmer[f].user = None /\ ~account[u].exists
      /\ farmer' = [farmer EXCEPT ![f] = row]
      /\ account' = [account EXCEPT ![u] = FarmerUser]
      /\ UNCHANGED <<access, req, era, history>>
      /\ account \in [Users -> Account] /\ farmer \in [Farmers -> Farmer]
  BY DEF Inv, TypeOK, RowsOK, CreateFarmerWithAccount
<1>2. row \in Farmer
  BY DEF Farmer
<1>3. Writes({})
  BY <1>1, NewAccount DEF Writes, history
<1>4. req' \in [Requests -> Slot] /\ SlotsOK'
  BY <1>1, <1>3, SlotsSame
<1>5. overtaken' = overtaken /\ overtaken' \subseteq Users \cup Farmers
  BY <1>1 DEF Inv, TypeOK, history
<1> QED
  BY <1>1, <1>2, <1>4, <1>5, IssueStep DEF history

LEMMA ProvisionStep ==
  ASSUME Inv, NEW r \in Requests, NEW u \in Users, ProvisionWrite(r, u)
  PROVE  Inv'
<1> DEFINE f == req[r].farmer
           row == [farmer[f] EXCEPT !.user = u]
<1>1. /\ req[r].stage = "provision" /\ ~account[u].exists
      /\ account' = [account EXCEPT ![u] = FarmerUser]
      /\ farmer' = [farmer EXCEPT ![f] = row]
      /\ req' = AfterWrite(r, Idle, {f})
      /\ overtaken' = IF req[r].stale THEN overtaken \cup {f} ELSE overtaken
      /\ UNCHANGED <<access, era, claimed, reinstated>>
      /\ account \in [Users -> Account] /\ farmer \in [Farmers -> Farmer]
  BY DEF Inv, TypeOK, ProvisionWrite
<1>2. /\ f \in Farmers /\ farmer[f].state # "absent"
      /\ ~req[r].stale => farmer[f].state = "active" /\ farmer[f].user = None
  BY <1>1 DEF Inv, SlotsOK, SlotOK, ReadStands
<1>3. row \in Farmer /\ row.user = u /\ row.state = farmer[f].state
  BY <1>1, <1>2 DEF Farmer
<1>4. Writes({f})
  BY <1>1, <1>2, <1>3, NewAccount DEF Writes
<1>5. req' \in [Requests -> Slot] /\ SlotsOK'
  BY <1>1, <1>4, IdleOK, SlotsStep
<1>6. /\ overtaken \subseteq overtaken' /\ overtaken' \subseteq Users \cup Farmers
      /\ req[r].stale => f \in overtaken'
  BY <1>1, <1>2 DEF Inv, TypeOK
<1> HIDE DEF row
<1> QED
  BY <1>1, <1>2, <1>3, <1>5, <1>6, IssueStep

LEMMA DeleteStep ==
  ASSUME Inv, NEW r \in Requests, DeleteWrite(r)
  PROVE  Inv'
<1> DEFINE f == req[r].farmer
           u == req[r].user
<1>1. /\ req[r].stage = "delete" /\ req[r] \in Slot /\ SlotOK(req[r])
      /\ farmer' = [farmer EXCEPT ![f].state = "deleted"]
      /\ req' = AfterWrite(r, Idle, {f} \cup ({u} \ {None}))
      /\ overtaken' = IF req[r].stale THEN overtaken \cup {f} \cup ({u} \ {None})
                      ELSE overtaken
      /\ UNCHANGED <<access, claimed, reinstated>>
      /\ account \in [Users -> Account] /\ farmer \in [Farmers -> Farmer]
      /\ era \in [Users -> Nat]
  BY DEF Inv, TypeOK, SlotsOK, DeleteWrite
<1>2. /\ f \in Farmers /\ farmer[f].state # "absent" /\ u \in Users \cup {None}
      /\ ~req[r].stale => farmer[f].user = u
      /\ u # None => account[u].exists
  BY <1>1 DEF SlotOK, ReadStands, Slot
<1>3. /\ farmer' \in [Farmers -> Farmer]
      /\ farmer'[f].state = "deleted"
      /\ \A g \in Farmers : /\ farmer'[g].user = farmer[g].user
                            /\ g # f => farmer'[g] = farmer[g]
                            /\ farmer'[g].state = "absent" <=> farmer[g].state = "absent"
  BY <1>1, <1>2 DEF Farmer
<1>4. /\ account' \in [Users -> Account] /\ era' \in [Users -> Nat]
      /\ \A v \in Users : v # u => account'[v] = account[v] /\ era'[v] = era[v]
      /\ u # None => /\ account'[u].status = "DEACTIVATED" /\ account'[u].session = None
                     /\ account'[u].exists /\ account'[u].must = account[u].must
                     /\ account'[u].issued = account[u].issued
                     /\ account'[u].fails = account[u].fails
                     /\ account'[u].locked = account[u].locked
  <2>1. CASE u = None
    BY <1>1, <2>1, AccountsAssumption DEF DeleteWrite
  <2>2. CASE u # None
    <3>1. /\ era' = [era EXCEPT ![u] = @ + 1]
          /\ account' = [account EXCEPT ![u] = AfterDeletion(@)]
      BY <2>2 DEF DeleteWrite
    <3>2. PICK a \in Account : a = account[u]
      BY <1>1, <1>2, <2>2
    <3>3. AfterDeletion(a) \in Account
      BY DEF AfterDeletion, Account, UserStatus
    <3>4. /\ AfterDeletion(a).status = "DEACTIVATED" /\ AfterDeletion(a).session = None
          /\ AfterDeletion(a).exists = a.exists /\ AfterDeletion(a).must = a.must
          /\ AfterDeletion(a).issued = a.issued /\ AfterDeletion(a).fails = a.fails
          /\ AfterDeletion(a).locked = a.locked
      BY DEF AfterDeletion, Account
    <3> QED
      BY <1>1, <1>2, <2>2, <3>1, <3>2, <3>3, <3>4
  <2> QED
    BY <2>1, <2>2
<1> DEFINE rows == {f} \cup ({u} \ {None})
<1>5. overtaken \subseteq overtaken' /\ overtaken' \subseteq Users \cup Farmers
  BY <1>1, <1>2 DEF Inv, TypeOK
<1>6. Writes(rows)
  <2>1. \A v \in Users : account[v].exists => account'[v].exists
    BY <1>2, <1>4, AccountsAssumption
  <2>2. \A v \in Users \ rows : v # u
    BY AccountsAssumption
  <2> QED
    BY <1>1, <1>3, <1>4, <1>5, <2>1, <2>2 DEF Writes
<1>7. req' \in [Requests -> Slot] /\ SlotsOK'
  BY <1>1, <1>6, IdleOK, SlotsStep
<1>8. TypeOK'
  <2>1. \A v \in Users : account'[v].fails < MaxFailed
    BY <1>4, AccountsAssumption DEF Inv, TypeOK
  <2> QED
    BY <1>1, <1>3, <1>4, <1>5, <1>7, <2>1 DEF Inv, TypeOK
<1>9. RowsOK'
  <2>1. \A v \in Users : /\ account'[v].exists <=> account[v].exists
                         /\ ~account'[v].exists => account'[v] = NoAccount
                         /\ account'[v].exists => account'[v].must \/ v \in claimed
    BY <1>2, <1>4, AccountsAssumption DEF Inv, RowsOK
  <2>2. \A g \in Farmers :
          /\ farmer'[g].state = "absent" => farmer'[g].user = None
          /\ farmer'[g].user # None => account'[farmer'[g].user].exists
    BY <1>1, <1>3, <2>1 DEF Inv, RowsOK, Farmer
  <2>3. \A a \in access : account'[a.user].exists
    BY <2>1 DEF Inv, RowsOK, TypeOK, AccessToken
  <2> QED
    BY <1>1, <2>1, <2>2, <2>3 DEF RowsOK
<1>10. EndedSessionsStayEnded'
  BY <1>4, <1>5, AccountsAssumption DEF Inv, EndedSessionsStayEnded
<1>11. UnclaimedReachesNothing'
  BY <1>1 DEF Inv, UnclaimedReachesNothing, PassesPasswordGate
<1>12. IssuedIsLinked'
  <2> SUFFICES ASSUME NEW v \in Users, account'[v].issued
               PROVE  \E g \in Farmers : farmer'[g].user = v \/ g \in overtaken'
    BY DEF IssuedIsLinked
  <2>1. account[v].issued
    BY <1>4, AccountsAssumption
  <2> QED
    BY <1>3, <1>5, <2>1 DEF Inv, IssuedIsLinked
<1>13. DeletedIsBarred'
  <2> SUFFICES ASSUME NEW g \in Farmers, NEW v \in Users,
                      farmer'[g].state = "deleted", farmer'[g].user = v
               PROVE  \/ account'[v].status = "DEACTIVATED" \/ v \in reinstated
                      \/ {g, v} \cap overtaken' # {}
    BY <1>1 DEF DeletedIsBarred
  <2>1. farmer[g].user = v
    BY <1>3
  <2>2. CASE v = u
    BY <1>4, <2>2, AccountsAssumption
  <2>3. CASE g = f /\ v # u
    <3>1. req[r].stale
      BY <1>2, <2>1, <2>3
    <3> QED
      BY <1>1, <2>3, <3>1
  <2>4. CASE g # f /\ v # u
    BY <1>3, <1>4, <1>5, <2>1, <2>4 DEF Inv, DeletedIsBarred
  <2> QED
    BY <2>2, <2>3, <2>4
<1> QED
  BY <1>7, <1>8, <1>9, <1>10, <1>11, <1>12, <1>13 DEF Inv

-----------------------------------------------------------------------------
(* Steps that write one users row at once. *)

\* A row that follows a row, by an update that does not touch the farmers.
LEMMA RowStep ==
  ASSUME Inv, NEW u \in Users, NEW row \in Account,
         account' = [account EXCEPT ![u] = row],
         row.exists, account[u].exists,
         row.fails < MaxFailed, row.issued = account[u].issued,
         row.must \/ u \in claimed,
         era' \in [Users -> Nat], \A v \in Users : v # u => era'[v] = era[v],
         row.session \in {None, era'[u]} \/ u \in overtaken,
         \/ row.status = account[u].status
         \/ u \in reinstated'
         \/ \A f \in Farmers : farmer[f].state = "deleted" => farmer[f].user # u,
         reinstated \subseteq reinstated', reinstated' \subseteq Users,
         req' \in [Requests -> Slot], SlotsOK',
         UNCHANGED <<farmer, access, claimed, overtaken>>
  PROVE  Inv'
<1>1. account \in [Users -> Account]
  BY DEF Inv, TypeOK
<1>2. TypeOK'
  BY <1>1 DEF Inv, TypeOK
<1>3. RowsOK'
  <2>1. \A v \in Users : /\ account'[v].exists <=> account[v].exists
                         /\ ~account'[v].exists => account'[v] = NoAccount
                         /\ account'[v].exists => account'[v].must \/ v \in claimed
    BY <1>1 DEF Inv, RowsOK
  <2> QED
    BY <2>1 DEF Inv, RowsOK, TypeOK, Farmer, AccessToken
<1>4. EndedSessionsStayEnded'
  BY <1>1 DEF Inv, EndedSessionsStayEnded
<1>5. UnclaimedReachesNothing'
  BY DEF Inv, UnclaimedReachesNothing, PassesPasswordGate
<1>6. IssuedIsLinked'
  BY <1>1 DEF Inv, IssuedIsLinked
<1>7. DeletedIsBarred'
  BY <1>1 DEF Inv, DeletedIsBarred
<1> QED
  BY <1>2, <1>3, <1>4, <1>5, <1>6, <1>7 DEF Inv

LEMMA LogoutStep ==
  ASSUME Inv, NEW u \in Users, Logout(u)
  PROVE  Inv'
<1>1. PICK a \in Account : a = account[u]
  BY DEF Inv, TypeOK
<1> DEFINE row == [a EXCEPT !.session = None]
<1>2. row \in Account
  BY DEF Account
<1>3. /\ row.exists = a.exists /\ row.issued = a.issued /\ row.must = a.must
      /\ row.fails = a.fails /\ row.session = None /\ row.status = a.status
      /\ row.locked = a.locked
  BY DEF Account
<1>4. /\ account' = [account EXCEPT ![u] = row]
      /\ era' = [era EXCEPT ![u] = @ + 1]
      /\ req' = AfterWrite(None, Idle, {u})
      /\ UNCHANGED <<farmer, access, claimed, overtaken, reinstated>>
  BY <1>1 DEF Logout, history
<1>5. /\ account[u].exists /\ account \in [Users -> Account] /\ era \in [Users -> Nat]
  BY DEF Logout, Authenticated, Inv, RowsOK, TypeOK
<1> HIDE DEF row
<1>6. Writes({u})
  BY <1>1, <1>3, <1>4, <1>5 DEF Writes
<1>7. req' \in [Requests -> Slot] /\ SlotsOK'
  BY <1>4, <1>6, IdleOK, SlotsStep
<1>8. a.fails < MaxFailed /\ (a.must \/ u \in claimed) /\ reinstated \subseteq Users
  BY <1>1, <1>5 DEF Inv, TypeOK, RowsOK
<1>9. era' \in [Users -> Nat] /\ \A v \in Users : v # u => era'[v] = era[v]
  BY <1>4, <1>5
<1> QED
  BY <1>1, <1>2, <1>3, <1>4, <1>5, <1>7, <1>8, <1>9, RowStep

LEMMA SetStatusStep ==
  ASSUME Inv, NEW u \in Users, NEW s \in UserStatus, SetStatus(u, s)
  PROVE  Inv'
<1>1. PICK a \in Account : a = account[u]
  BY DEF Inv, TypeOK
<1> DEFINE row == [a EXCEPT !.status = s]
<1>2. row \in Account
  BY DEF Account
<1>3. /\ row.exists = a.exists /\ row.issued = a.issued /\ row.must = a.must
      /\ row.fails = a.fails /\ row.session = a.session /\ row.locked = a.locked
  BY DEF Account
<1>4. /\ account' = [account EXCEPT ![u] = row] /\ account[u].exists
      /\ req' = AfterWrite(None, Idle, {u})
      /\ reinstated' = IF \E f \in Farmers : farmer[f].state = "deleted"
                                             /\ farmer[f].user = u
                       THEN reinstated \cup {u} ELSE reinstated
      /\ UNCHANGED <<farmer, access, era, claimed, overtaken>>
      /\ account \in [Users -> Account] /\ era \in [Users -> Nat]
  BY <1>1 DEF SetStatus, Inv, TypeOK
<1> HIDE DEF row
<1>5. Writes({u})
  BY <1>1, <1>3, <1>4 DEF Writes
<1>6. req' \in [Requests -> Slot] /\ SlotsOK'
  BY <1>4, <1>5, IdleOK, SlotsStep
<1>7. /\ a.fails < MaxFailed /\ (a.must \/ u \in claimed)
      /\ a.session \in {None, era[u]} \/ u \in overtaken
      /\ reinstated' \subseteq Users
  BY <1>1, <1>4 DEF Inv, TypeOK, RowsOK, EndedSessionsStayEnded
<1>8. u \in reinstated' \/ \A f \in Farmers : farmer[f].state = "deleted" => farmer[f].user # u
  BY <1>4
<1> QED
  BY <1>1, <1>2, <1>3, <1>4, <1>6, <1>7, <1>8, RowStep

\* A lock or a slip runs out.
LEMMA TimeStep ==
  ASSUME Inv, NEW u \in Users, LockExpires(u) \/ SlipExpires(u)
  PROVE  Inv'
<1>1. PICK a \in Account : a = account[u]
  BY DEF Inv, TypeOK
<1> DEFINE row == IF LockExpires(u) THEN [a EXCEPT !.locked = FALSE]
                  ELSE [a EXCEPT !.expired = TRUE]
<1>2. row \in Account
  BY DEF Account
<1>3. /\ row.exists = a.exists /\ row.issued = a.issued /\ row.must = a.must
      /\ row.fails = a.fails /\ row.session = a.session /\ row.status = a.status
      /\ row.locked => a.locked
  BY DEF Account
<1>4. /\ account' = [account EXCEPT ![u] = row]
      /\ UNCHANGED <<farmer, access, req, era, history>>
      /\ account \in [Users -> Account] /\ era \in [Users -> Nat]
  BY <1>1 DEF LockExpires, SlipExpires, Inv, TypeOK
<1>5. account[u].exists
  BY DEF LockExpires, SlipExpires, Inv, RowsOK, NoAccount
<1> HIDE DEF row
<1>6. Writes({})
  BY <1>1, <1>3, <1>4, <1>5 DEF Writes, history
<1>7. req' \in [Requests -> Slot] /\ SlotsOK'
  BY <1>4, <1>6, SlotsSame
<1>8. /\ a.fails < MaxFailed /\ (a.must \/ u \in claimed)
      /\ a.session \in {None, era[u]} \/ u \in overtaken
      /\ reinstated \subseteq Users
  BY <1>1, <1>5 DEF Inv, TypeOK, RowsOK, EndedSessionsStayEnded
<1> QED
  BY <1>1, <1>2, <1>3, <1>4, <1>5, <1>7, <1>8, RowStep DEF history

LEMMA RegisterStep ==
  ASSUME Inv, NEW u \in Users, Register(u)
  PROVE  Inv'
<1> DEFINE row == [NoAccount EXCEPT !.exists = TRUE, !.status = "PENDING_VERIFICATION"]
<1>1. /\ row \in Account /\ row.exists /\ ~row.issued /\ row.session = None
      /\ row.fails = 0 /\ ~row.locked
  BY DEF NoAccount, Account, UserStatus
<1>2. /\ account' = [account EXCEPT ![u] = row] /\ ~account[u].exists
      /\ claimed' = claimed \cup {u}
      /\ UNCHANGED <<farmer, access, req, era, overtaken, reinstated>>
      /\ account \in [Users -> Account] /\ 0 < MaxFailed
  BY AccountsAssumption DEF Register, Inv, TypeOK
<1> HIDE DEF row
<1>3. Writes({})
  BY <1>1, <1>2 DEF Writes
<1>4. req' \in [Requests -> Slot] /\ SlotsOK'
  BY <1>2, <1>3, SlotsSame
<1>5. TypeOK'
  BY <1>1, <1>2, <1>4 DEF Inv, TypeOK
<1>6. RowsOK'
  <2>1. \A v \in Users : /\ account[v].exists => account'[v].exists
                         /\ ~account'[v].exists => account'[v] = NoAccount
                         /\ account'[v].exists => account'[v].must \/ v \in claimed'
    BY <1>1, <1>2 DEF Inv, RowsOK
  <2> QED
    BY <1>2, <2>1 DEF Inv, RowsOK, TypeOK, Farmer, AccessToken
<1>7. EndedSessionsStayEnded'
  BY <1>1, <1>2 DEF Inv, EndedSessionsStayEnded
<1>8. UnclaimedReachesNothing'
  BY <1>2 DEF Inv, UnclaimedReachesNothing, PassesPasswordGate
<1>9. IssuedIsLinked'
  BY <1>1, <1>2 DEF Inv, IssuedIsLinked
<1>10. DeletedIsBarred'
  BY <1>2, NewAccount DEF Inv, DeletedIsBarred
<1> QED
  BY <1>4, <1>5, <1>6, <1>7, <1>8, <1>9, <1>10 DEF Inv

-----------------------------------------------------------------------------
(* The theorems. *)

LEMMA NextInv == Inv /\ [Next]_vars => Inv'
<1> SUFFICES ASSUME Inv, [Next]_vars PROVE Inv'
  OBVIOUS
<1>1. CASE UNCHANGED vars
  BY <1>1 DEF vars, Inv, TypeOK, SlotsOK, SlotOK, ReadStands, RowsOK,
     EndedSessionsStayEnded, UnclaimedReachesNothing, PassesPasswordGate,
     IssuedIsLinked, DeletedIsBarred
<1>2. ASSUME NEW r \in Requests, NEW u \in Users,
             \/ LoginWrong(r, u) \/ LoginRight(r, u)
             \/ RefreshRead(r, u) \/ ChangeRead(r, u)
      PROVE  Inv'
  BY <1>2, LoginReads
<1>3. ASSUME NEW r \in Requests, NEW f \in Farmers,
             ProvisionRead(r, f) \/ ResetRead(r, f) \/ DeleteRead(r, f)
      PROVE  Inv'
  BY <1>3, FarmerReads
<1>4. ASSUME NEW r \in Requests, NEW u \in Users, ProvisionWrite(r, u) PROVE Inv'
  BY <1>4, ProvisionStep
<1>5. ASSUME NEW r \in Requests,
             \/ FailWrite(r) \/ LoginWrite(r) \/ RefreshWrite(r) \/ ChangeWrite(r)
             \/ ResetWrite(r) \/ DeleteWrite(r)
      PROVE  Inv'
  BY <1>5, FailStep, TokenSteps, ChangeStep, ResetStep, DeleteStep
<1>6. ASSUME NEW r \in Requests, Abort(r) PROVE Inv'
  BY <1>6, IdleOK, ReadStep DEF Abort
<1>7. ASSUME NEW u \in Users,
             Logout(u) \/ Register(u) \/ LockExpires(u) \/ SlipExpires(u)
      PROVE  Inv'
  BY <1>7, LogoutStep, RegisterStep, TimeStep
<1>8. ASSUME NEW u \in Users, NEW s \in UserStatus, SetStatus(u, s) PROVE Inv'
  BY <1>8, SetStatusStep
<1>9. ASSUME NEW u \in Users, NEW f \in Farmers, CreateFarmerWithAccount(f, u)
      PROVE  Inv'
  BY <1>9, CreateBothStep
<1>10. ASSUME NEW f \in Farmers, CreateFarmer(f) PROVE Inv'
  BY <1>10, CreateFarmerStep
<1>11. CASE AccessExpires
  BY <1>11, ExpiryStep
<1> QED
  BY <1>1, <1>2, <1>3, <1>4, <1>5, <1>6, <1>7, <1>8, <1>9, <1>10, <1>11 DEF Next

\* The invariant holds in every behaviour.
THEOREM Invariance == Spec => []Inv
BY InitInv, NextInv, PTL DEF Spec

\* Every variable keeps its type, and the count of failed logins stays short
\* of the limit at which the account is locked (auth.service.ts, login).
THEOREM TypeSafe == Spec => []TypeOK
<1>1. Inv => TypeOK
  BY DEF Inv
<1> QED
  BY <1>1, Invariance, PTL

\* What a log-out, a change of password, a reset or a deletion has ended does
\* not go on, but for a request that overlapped the ending (auth.service.ts).
THEOREM SessionsSafe == Spec => []EndedSessionsStayEnded
<1>1. Inv => EndedSessionsStayEnded
  BY DEF Inv
<1> QED
  BY <1>1, Invariance, PTL

\* Without a password of one's own no token passes the password gate, in
\* whatever order logins, rotations and resets overlap
\* (authenticate.ts, requirePasswordChanged).
THEOREM UnclaimedSafe == Spec => []UnclaimedReachesNothing
<1>1. Inv => UnclaimedReachesNothing
  BY DEF Inv
<1> QED
  BY <1>1, Invariance, PTL

\* An issued account is the one its farmer links to, unless two provisionings
\* of that farmer overlapped (farmer.service.ts, createFarmerAccount).
THEOREM LinkSafe == Spec => []IssuedIsLinked
<1>1. Inv => IssuedIsLinked
  BY DEF Inv
<1> QED
  BY <1>1, Invariance, PTL

\* The account of a deleted farmer stays closed, unless an administrator set
\* its status or a request overlapped (farmer.service.ts, softDeleteFarmer).
THEOREM DeletionSafe == Spec => []DeletedIsBarred
<1>1. Inv => DeletedIsBarred
  BY DEF Inv
<1> QED
  BY <1>1, Invariance, PTL

\* A lock is lifted by its time, by a reset or by a change of password; a login
\* lifts it only if it had read the account before (auth.service.ts, login).
THEOREM LockSafe == Spec => LockLifted
<1> DEFINE Lifted(u) == account[u].locked /\ ~account'[u].locked =>
             \/ era'[u] # era[u]
             \/ LockExpires(u)
             \/ u \in overtaken'
<1>1. Inv /\ [Next]_vars => [\A u \in Users : Lifted(u)]_vars
  <2> SUFFICES ASSUME Inv, Next, NEW u \in Users,
                      account[u].locked, ~account'[u].locked
               PROVE  Lifted(u)
    OBVIOUS
  <2>1. /\ account \in [Users -> Account] /\ era \in [Users -> Nat]
        /\ account[u].exists
    BY DEF Inv, TypeOK, RowsOK, NoAccount
  <2>2. ASSUME NEW r \in Requests, FailWrite(r) \/ LoginWrite(r)
        PROVE  u \in overtaken'
    <3>1. req[r].user = u
      BY <2>1, <2>2 DEF FailWrite, LoginWrite, WriteAccount
    <3>2. req[r].stale
      BY <2>2, <3>1 DEF FailWrite, LoginWrite, Inv, SlotsOK, SlotOK, ReadStands
    <3> QED
      BY <2>2, <3>1, <3>2 DEF FailWrite, LoginWrite, WriteAccount
  <2>3. ASSUME NEW r \in Requests, RefreshWrite(r) PROVE FALSE
    BY <2>1, <2>3 DEF RefreshWrite, WriteAccount, Account
  <2>4. ASSUME NEW r \in Requests, ChangeWrite(r) \/ ResetWrite(r)
        PROVE  era'[u] # era[u]
    <3>1. req[r].user = u
      BY <2>1, <2>4 DEF ChangeWrite, ResetWrite, WriteAccount
    <3>2. era' = [era EXCEPT ![u] = era[u] + 1] /\ era[u] \in Nat
      BY <2>1, <2>4, <3>1 DEF ChangeWrite, ResetWrite
    <3>3. era'[u] = era[u] + 1
      BY <2>1, <3>2
    <3> QED
      BY <3>2, <3>3
  <2>5. ASSUME NEW r \in Requests, DeleteWrite(r) PROVE FALSE
    <3>1. PICK a \in Account : a = account[u]
      BY <2>1
    <3>2. AfterDeletion(a).locked = a.locked
      BY DEF AfterDeletion, Account
    <3>3. account'[u] \in {a, AfterDeletion(a)}
      BY <2>1, <2>5, <3>1 DEF DeleteWrite
    <3> QED
      BY <3>1, <3>2, <3>3
  <2>6. ASSUME NEW v \in Users,
               \/ \E r \in Requests : ProvisionWrite(r, v)
               \/ \E f \in Farmers : CreateFarmerWithAccount(f, v)
               \/ Register(v)
        PROVE  FALSE
    BY <2>1, <2>6 DEF ProvisionWrite, CreateFarmerWithAccount, Register
  <2>7. ASSUME NEW v \in Users, \/ Logout(v) \/ SlipExpires(v)
                                \/ \E s \in UserStatus : SetStatus(v, s)
        PROVE  FALSE
    BY <2>1, <2>7 DEF Logout, SlipExpires, SetStatus, Account
  <2>8. ASSUME NEW v \in Users, LockExpires(v) PROVE LockExpires(u)
    <3>1. u = v
      BY <2>1, <2>8 DEF LockExpires
    <3> QED
      BY <2>8, <3>1
  <2>9. ~(account' = account)
    OBVIOUS
  <2> QED
    BY <2>2, <2>3, <2>4, <2>5, <2>6, <2>7, <2>8, <2>9
    DEF Next, LoginWrong, LoginRight, RefreshRead, ChangeRead, ProvisionRead,
        ResetRead, DeleteRead, Read, Abort, CreateFarmer, AccessExpires
<1> QED
  BY <1>1, Invariance, PTL DEF Spec, LockLifted
=============================================================================
