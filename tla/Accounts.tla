------------------------------ MODULE Accounts ------------------------------
(***************************************************************************)
(* The accounts of the backend and the farmers they belong to: login with  *)
(* its failure counter and lock, the rotation of refresh tokens, change of *)
(* password, log-out, registration, the provisioning, reset and soft       *)
(* deletion of a farmer's account, and the status an administrator sets.   *)
(*                                                                         *)
(* As in Custody a request is a slot, a query whose answer is used later   *)
(* is a step, and a transaction commits in one step.  Every handler reads  *)
(* a row, decides, and then updates it by id, so that another request may  *)
(* have written the row in between: the slot is then `stale'.              *)
(*                                                                         *)
(* Passwords and tokens are not values.  Whether a password presented is   *)
(* the one stored is chosen at the read that verifies it; the stored       *)
(* refresh token is represented by its session's era, the number of times  *)
(* the account's sessions had been ended when that session began.          *)
(***************************************************************************)
EXTENDS Integers, FiniteSets

CONSTANTS
  Users,        \* ids of users rows: how many accounts may be created
  Contactable,  \* the users rows with an e-mail or a phone number
  Farmers,      \* ids of farmers rows
  Requests,     \* the slots: how many requests may be in flight at once
  MaxFailed,    \* MAX_FAILED_ATTEMPTS
  MaxEnds,      \* bound: how often the sessions of one account are ended
  None

ASSUME AccountsAssumption ==
  /\ Contactable \subseteq Users
  /\ MaxFailed \in Nat \ {0}
  /\ MaxEnds \in Nat
  /\ None \notin Nat \cup Users \cup Farmers \cup Requests

VARIABLES
  account,      \* users: id -> row
  farmer,       \* farmers: id -> row
  access,       \* the access tokens that are out and have not expired
  req,          \* the requests in flight
  era,          \* user -> how often log-out, change, reset or deletion came
  claimed,      \* history: users who have chosen a password themselves
  overtaken,    \* history: rows written by a request that had become stale
  reinstated    \* history: users whose status was set after the deletion

vars == <<account, farmer, access, req, era, claimed, overtaken, reinstated>>
history == <<claimed, overtaken, reinstated>>

UserStatus == {"ACTIVE", "SUSPENDED", "PENDING_VERIFICATION", "DEACTIVATED"}

\* A users row.  issued: created for a farmer, with a password on a slip;
\* must: mustChangePassword; expired: that slip is past its expiry; locked:
\* lockedUntil lies ahead; session: the era of the stored refresh token.
Account == [exists : BOOLEAN, issued : BOOLEAN, status : UserStatus,
            must : BOOLEAN, expired : BOOLEAN, fails : Nat,
            locked : BOOLEAN, session : Nat \cup {None}]

NoAccount == [exists |-> FALSE, issued |-> FALSE, status |-> "DEACTIVATED",
              must |-> FALSE, expired |-> FALSE, fails |-> 0,
              locked |-> FALSE, session |-> None]

\* A farmers row; user is the link that scopes a farmer's login.
Farmer == [state : {"absent", "active", "deleted"}, user : Users \cup {None}]

\* What verifyAccessToken returns and the gates look at.
AccessToken == [user : Users, must : BOOLEAN]

Stage == {"idle", "fail", "login", "refresh", "change", "provision",
          "reset", "delete"}

\* A request's local state: the account and the farmer it is about, what it
\* has read of them, and whether that has been overwritten since.
Slot == [stage : Stage, user : Users \cup {None}, farmer : Farmers \cup {None},
         fails : Nat, must : BOOLEAN, status : UserStatus, session : Nat,
         stale : BOOLEAN]

Idle == [stage |-> "idle", user |-> None, farmer |-> None, fails |-> 0,
         must |-> FALSE, status |-> "ACTIVE", session |-> 0, stale |-> FALSE]

TypeOK ==
  /\ account \in [Users -> Account]
  /\ farmer \in [Farmers -> Farmer]
  /\ access \subseteq AccessToken
  /\ req \in [Requests -> Slot]
  /\ era \in [Users -> Nat]
  /\ claimed \subseteq Users
  /\ overtaken \subseteq Users \cup Farmers
  /\ reinstated \subseteq Users
  /\ \A u \in Users : account[u].fails < MaxFailed

Init ==
  /\ account = [u \in Users |-> NoAccount]
  /\ farmer = [f \in Farmers |-> [state |-> "absent", user |-> None]]
  /\ access = {}
  /\ req = [r \in Requests |-> Idle]
  /\ era = [u \in Users |-> 0]
  /\ claimed = {}
  /\ overtaken = {}
  /\ reinstated = {}

-----------------------------------------------------------------------------
(* Requests. *)

\* The slots after r, now in slot s, has written the rows of rows: whoever
\* else has read one of them holds a stale copy.
AfterWrite(r, s, rows) == [q \in Requests |->
  IF q = r THEN s
  ELSE [req[q] EXCEPT !.stale = @ \/ req[q].user \in rows
                                  \/ req[q].farmer \in rows]]

\* r has read what its slot s holds; nothing is written yet.
Read(r, s) ==
  /\ req[r].stage = "idle"
  /\ req' = [req EXCEPT ![r] = s]
  /\ UNCHANGED <<account, farmer, access, era, history>>

\* r commits the new row of its account and ends.
WriteAccount(r, row) ==
  LET u == req[r].user
  IN  /\ account' = [account EXCEPT ![u] = row]
      /\ req' = AfterWrite(r, Idle, {u})
      /\ overtaken' = IF req[r].stale THEN overtaken \cup {u} ELSE overtaken

\* A failed check, a timeout or a crash ends the request before its write.
Abort(r) ==
  /\ req[r].stage # "idle"
  /\ req' = [req EXCEPT ![r] = Idle]
  /\ UNCHANGED <<account, farmer, access, era, history>>

-----------------------------------------------------------------------------
(* Tokens and gates. *)

\* A slip: the access token of a login does not carry the flag.
AccessForPlain(u, must) == [user |-> u, must |-> FALSE]

\* signAccessToken: the claim is the flag as the row was read.
AccessFor(u, must) == [user |-> u, must |-> must]

\* authenticate: the caller holds an unexpired token of u's.
Authenticated(u) == \E a \in access : a.user = u

\* requirePasswordChanged: every route outside its short allow-list.
PassesPasswordGate(a) == ~a.must

AccessExpires ==
  /\ \E a \in access : access' = access \ {a}
  /\ UNCHANGED <<account, farmer, req, era, history>>

-----------------------------------------------------------------------------
(* Login, refresh, change of password, log-out. *)

\* findByIdentifier: by e-mail or phone the account itself, by farmer code
\* the account of a farmer who is not deleted.
Findable(u) ==
  /\ account[u].exists
  /\ \/ u \in Contactable
     \/ \E f \in Farmers : farmer[f].state = "active" /\ farmer[f].user = u

\* A slip: the lock is not looked at.
AdmitsLocked(u) == account[u].status \in {"ACTIVE", "PENDING_VERIFICATION"}

\* The checks before the password is compared.
Admits(u) ==
  /\ ~account[u].locked
  /\ account[u].status \in {"ACTIVE", "PENDING_VERIFICATION"}

LoginWrong(r, u) ==
  /\ Findable(u) /\ Admits(u)
  /\ Read(r, [Idle EXCEPT !.stage = "fail", !.user = u,
                          !.fails = account[u].fails])

\* A slip: one attempt too many.
LocksPast(failed) == failed > MaxFailed

\* shouldLock.
Locks(failed) == failed >= MaxFailed

\* The count is that of the row as read, plus one; a count short of the
\* limit also clears lockedUntil.
FailWrite(r) ==
  LET failed == req[r].fails + 1
      lock   == Locks(failed)
  IN  /\ req[r].stage = "fail"
      /\ WriteAccount(r, [account[req[r].user] EXCEPT
           !.fails = IF lock THEN 0 ELSE failed, !.locked = lock])
      /\ UNCHANGED <<farmer, access, era, claimed, reinstated>>

\* An expired temporary password is refused; the maintenance switch, which
\* may refuse too, is in Gate.
LoginRight(r, u) ==
  /\ Findable(u) /\ Admits(u)
  /\ ~(account[u].must /\ account[u].expired)
  /\ Read(r, [Idle EXCEPT !.stage = "login", !.user = u, !.session = era[u],
                          !.must = account[u].must])

LoginWrite(r) ==
  LET u == req[r].user
  IN  /\ req[r].stage = "login"
      /\ WriteAccount(r, [account[u] EXCEPT
           !.fails = 0, !.locked = FALSE, !.session = req[r].session])
      /\ access' = access \cup {AccessFor(u, req[r].must)}
      /\ UNCHANGED <<farmer, era, claimed, reinstated>>

\* The token presented is the one whose hash is stored; the account's status
\* is not looked at.
RefreshRead(r, u) ==
  /\ account[u].session # None
  /\ Read(r, [Idle EXCEPT !.stage = "refresh", !.user = u,
                          !.session = account[u].session,
                          !.must = account[u].must])

RefreshWrite(r) ==
  LET u == req[r].user
  IN  /\ req[r].stage = "refresh"
      /\ WriteAccount(r, [account[u] EXCEPT !.session = req[r].session])
      /\ access' = access \cup {AccessFor(u, req[r].must)}
      /\ UNCHANGED <<farmer, era, claimed, reinstated>>

ChangeRead(r, u) ==
  /\ Authenticated(u)
  /\ era[u] < MaxEnds
  /\ Read(r, [Idle EXCEPT !.stage = "change", !.user = u,
                          !.status = account[u].status])

ChangeWrite(r) ==
  LET u == req[r].user
  IN  /\ req[r].stage = "change"
      /\ era[u] < MaxEnds
      /\ era' = [era EXCEPT ![u] = @ + 1]
      /\ WriteAccount(r, [account[u] EXCEPT
           !.must = FALSE, !.expired = FALSE, !.fails = 0, !.locked = FALSE,
           !.session = era'[u],
           !.status = IF req[r].status = "PENDING_VERIFICATION"
                      THEN "ACTIVE" ELSE @])
      /\ access' = access \cup {AccessFor(u, FALSE)}
      /\ claimed' = claimed \cup {u}
      /\ UNCHANGED <<farmer, reinstated>>

\* One update by the token's subject.
Logout(u) ==
  /\ Authenticated(u)
  /\ era[u] < MaxEnds
  /\ era' = [era EXCEPT ![u] = @ + 1]
  /\ account' = [account EXCEPT ![u].session = None]
  /\ req' = AfterWrite(None, Idle, {u})
  /\ UNCHANGED <<farmer, access, history>>

LockExpires(u) ==
  /\ account[u].locked
  /\ account' = [account EXCEPT ![u].locked = FALSE]
  /\ UNCHANGED <<farmer, access, req, era, history>>

SlipExpires(u) ==
  /\ account[u].must /\ ~account[u].expired
  /\ account' = [account EXCEPT ![u].expired = TRUE]
  /\ UNCHANGED <<farmer, access, req, era, history>>

-----------------------------------------------------------------------------
(* Registration and the status of an account. *)

\* register: staff choose a password with the account.
Register(u) ==
  /\ ~account[u].exists
  /\ account' = [account EXCEPT ![u] = [NoAccount EXCEPT
       !.exists = TRUE, !.status = "PENDING_VERIFICATION"]]
  /\ claimed' = claimed \cup {u}
  /\ UNCHANGED <<farmer, access, req, era, overtaken, reinstated>>

\* updateUserStatus: any status; sessions are left alone.
SetStatus(u, s) ==
  /\ account[u].exists
  /\ account' = [account EXCEPT ![u].status = s]
  /\ req' = AfterWrite(None, Idle, {u})
  /\ reinstated' = IF \E f \in Farmers : farmer[f].state = "deleted"
                                         /\ farmer[f].user = u
                   THEN reinstated \cup {u} ELSE reinstated
  /\ UNCHANGED <<farmer, access, era, claimed, overtaken>>

-----------------------------------------------------------------------------
(* Farmers and the accounts issued to them. *)

\* buildFarmerUser: active, with a password that must be replaced.
FarmerUser == [NoAccount EXCEPT
  !.exists = TRUE, !.issued = TRUE, !.status = "ACTIVE", !.must = TRUE]

\* createFarmer.
CreateFarmer(f) ==
  /\ farmer[f].state = "absent"
  /\ farmer' = [farmer EXCEPT ![f].state = "active"]
  /\ UNCHANGED <<account, access, req, era, history>>

\* createFarmerWithAccount: farmer, user and link in one transaction.
CreateFarmerWithAccount(f, u) ==
  /\ farmer[f].state = "absent" /\ ~account[u].exists
  /\ farmer' = [farmer EXCEPT ![f] = [state |-> "active", user |-> u]]
  /\ account' = [account EXCEPT ![u] = FarmerUser]
  /\ UNCHANGED <<access, req, era, history>>

\* A slip: a farmer who has a login is offered another.
MayProvisionAgain(f) == farmer[f].state = "active"

\* createFarmerAccount's checks, made outside its transaction.
MayProvision(f) == farmer[f].state = "active" /\ farmer[f].user = None

ProvisionRead(r, f) ==
  /\ MayProvision(f)
  /\ Read(r, [Idle EXCEPT !.stage = "provision", !.farmer = f])

\* The user is created and linked by the farmer's id, whatever has become of
\* the farmer since the check.
ProvisionWrite(r, u) ==
  LET f == req[r].farmer
  IN  /\ req[r].stage = "provision"
      /\ ~account[u].exists
      /\ account' = [account EXCEPT ![u] = FarmerUser]
      /\ farmer' = [farmer EXCEPT ![f].user = u]
      /\ req' = AfterWrite(r, Idle, {f})
      /\ overtaken' = IF req[r].stale THEN overtaken \cup {f} ELSE overtaken
      /\ UNCHANGED <<access, era, claimed, reinstated>>

ResetRead(r, f) ==
  /\ farmer[f].state = "active" /\ farmer[f].user # None
  /\ era[farmer[f].user] < MaxEnds
  /\ Read(r, [Idle EXCEPT !.stage = "reset", !.user = farmer[f].user])

\* A slip: the old session is kept.
SessionAfterResetKept(s) == s

\* resetFarmerPassword clears the stored refresh token.
SessionAfterReset(s) == None

\* resetFarmerPassword: a new slip, no session, no lock.
ResetWrite(r) ==
  LET u == req[r].user
  IN  /\ req[r].stage = "reset"
      /\ era[u] < MaxEnds
      /\ era' = [era EXCEPT ![u] = @ + 1]
      /\ WriteAccount(r, [account[u] EXCEPT
           !.must = TRUE, !.expired = FALSE, !.fails = 0, !.locked = FALSE,
           !.session = SessionAfterReset(@)])
      /\ UNCHANGED <<farmer, access, claimed, reinstated>>

\* softDeleteFarmer reads the farmer, and with it the link, before its
\* transaction.
DeleteRead(r, f) ==
  /\ farmer[f].state = "active"
  /\ farmer[f].user # None => era[farmer[f].user] < MaxEnds
  /\ Read(r, [Idle EXCEPT !.stage = "delete", !.farmer = f,
                          !.user = farmer[f].user])

\* A slip: the linked account is left as it is.
AfterDeletionKept(row) == row

\* What the deletion of a farmer does to the linked account.
AfterDeletion(row) == [row EXCEPT !.status = "DEACTIVATED", !.session = None]

DeleteWrite(r) ==
  LET f == req[r].farmer
      u == req[r].user
  IN  /\ req[r].stage = "delete"
      /\ farmer' = [farmer EXCEPT ![f].state = "deleted"]
      /\ IF u = None
         THEN UNCHANGED <<account, era>>
         ELSE /\ era[u] < MaxEnds
              /\ era' = [era EXCEPT ![u] = @ + 1]
              /\ account' = [account EXCEPT ![u] = AfterDeletion(@)]
      /\ req' = AfterWrite(r, Idle, {f} \cup ({u} \ {None}))
      /\ overtaken' = IF req[r].stale
                      THEN overtaken \cup {f} \cup ({u} \ {None})
                      ELSE overtaken
      /\ UNCHANGED <<access, claimed, reinstated>>

-----------------------------------------------------------------------------

Next ==
  \/ \E r \in Requests :
       \/ \E u \in Users : \/ LoginWrong(r, u) \/ LoginRight(r, u)
                           \/ RefreshRead(r, u) \/ ChangeRead(r, u)
                           \/ ProvisionWrite(r, u)
       \/ \E f \in Farmers : ProvisionRead(r, f) \/ ResetRead(r, f)
                             \/ DeleteRead(r, f)
       \/ FailWrite(r) \/ LoginWrite(r) \/ RefreshWrite(r) \/ ChangeWrite(r)
       \/ ResetWrite(r) \/ DeleteWrite(r) \/ Abort(r)
  \/ \E u \in Users : \/ Logout(u) \/ Register(u)
                      \/ LockExpires(u) \/ SlipExpires(u)
                      \/ \E s \in UserStatus : SetStatus(u, s)
                      \/ \E f \in Farmers : CreateFarmerWithAccount(f, u)
  \/ \E f \in Farmers : CreateFarmer(f)
  \/ AccessExpires

Spec == Init /\ [][Next]_vars

-----------------------------------------------------------------------------
(* Properties. *)

\* What a log-out, a change of password, a reset or a deletion has ended does
\* not go on: the refresh token an account stores belongs to a session begun
\* since, unless a request that overlapped the ending has written it.
EndedSessionsStayEnded == \A u \in Users :
  account[u].session \in {None, era[u]} \/ u \in overtaken

\* A user who never replaced the password on the slip holds no token that
\* passes the password gate, in whatever order login, refresh and reset come.
UnclaimedReachesNothing == \A u \in Users \ claimed :
  \A a \in access : a.user = u => ~PassesPasswordGate(a)

\* An issued account is linked from the farmer it was issued to, unless two
\* provisionings of one farmer overlapped.
IssuedIsLinked == \A u \in Users : account[u].issued =>
  \E f \in Farmers : farmer[f].user = u \/ f \in overtaken

\* A deleted farmer's account stays closed to logins, whatever its holder does
\* with an access token that is still out, unless an administrator set its
\* status afterwards or a request overlapped.
DeletedIsBarred == \A f \in Farmers : \A u \in Users :
  farmer[f].state = "deleted" /\ farmer[f].user = u =>
    \/ account[u].status = "DEACTIVATED"
    \/ u \in reinstated
    \/ {f, u} \cap overtaken # {}

\* A lock is lifted by its time, by a reset or by a change of password.  A
\* login lifts it only if it had read the account before the lock was set.
LockLifted == [][\A u \in Users :
  account[u].locked /\ ~account'[u].locked =>
    \/ era'[u] # era[u]
    \/ LockExpires(u)
    \/ u \in overtaken']_vars
=============================================================================
