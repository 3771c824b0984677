------------------------------- MODULE Sales --------------------------------
(***************************************************************************)
(* Selling: single ownership transfers, and lots of batches sold together, *)
(* over the batches of Custody and concurrently with its requests.         *)
(*                                                                         *)
(* A sale request is a slot of Sellers.  A confirmation writes the         *)
(* transfer row, then the batch row, and a lot's confirmation does so for  *)
(* member after member before it commits; so what a transaction has        *)
(* written and not yet committed (locked, sold, closed) is part of its     *)
(* slot: nobody else sees it, and nobody else may write those rows.        *)
(***************************************************************************)
EXTENDS Custody

CONSTANTS
  Sellers,      \* slots: how many sale requests may be in flight at once
  Transfers,    \* ids of ownership_transfers rows: how many may be created
  Lots,         \* the lots that may be created
  Members,      \* lot -> the batches it is created with
  Singles       \* the batches that single transfers are initiated for

ASSUME SalesAssumption ==
  /\ Members \in [Lots -> SUBSET Batches]
  /\ \A g \in Lots : \E a, b \in Members[g] : a # b
  /\ Singles \subseteq Batches
  /\ None \notin Lots \cup Transfers \cup Sellers

VARIABLES
  transfer,     \* ownership_transfers: id -> its batch and status
  lot,          \* batch_groups: lot -> its status, None before it is created
  handovers,    \* transfer -> how many OWNERSHIP_TRANSFERRED events name it
  sale          \* the sale requests in flight

saleVars == <<transfer, lot, handovers, sale>>
allVars == <<status, total, processed, inventory, ledger, whLock, req,
             transfer, lot, handovers, sale>>

Transfer == [batch : Batches \cup {None}, status : {"PENDING", "CONFIRMED"}]

NoTransfer == [batch |-> None, status |-> "PENDING"]

SaleStage == {"idle", "lotWrite", "sellCheck", "sellWrite", "gather",
              "confirm", "confirmLock", "confirmWrite", "append"}

\* A sale request: the lot it is about, the transfers it still has to confirm
\* and the one it is at, the status read for that one's batch, and what its
\* transaction has written: transfers confirmed, batches sold, rows closed.
SaleSlot == [stage : SaleStage, lot : Lots \cup {None},
             todo : SUBSET Transfers, at : Transfers \cup {None},
             seen : Status \cup {None}, locked : SUBSET Transfers,
             sold : SUBSET Batches, closed : SUBSET RowIds]

NoSale == [stage |-> "idle", lot |-> None, todo |-> {}, at |-> None,
           seen |-> None, locked |-> {}, sold |-> {}, closed |-> {}]

SalesTypeOK ==
  /\ TypeOK
  /\ transfer \in [Transfers -> Transfer]
  /\ lot \in [Lots -> {None, "OPEN", "SOLD"}]
  /\ handovers \in [Transfers -> Nat]
  /\ sale \in [Sellers -> SaleSlot]

SalesInit ==
  /\ Init
  /\ transfer = [t \in Transfers |-> NoTransfer]
  /\ lot = [g \in Lots |-> None]
  /\ handovers = [t \in Transfers |-> 0]
  /\ sale = [s \in Sellers |-> NoSale]

-----------------------------------------------------------------------------
\* Rows that some transaction has written and not committed.
TransferLocked(t) == \E s \in Sellers : t \in sale[s].locked
BatchLocked(b) == \E s \in Sellers : b \in sale[s].sold
RowLocked(i) == \E s \in Sellers : i \in sale[s].closed

PendingOf(B) ==
  {t \in Transfers : transfer[t].batch \in B /\ transfer[t].status = "PENDING"}

ConfirmedOf(b) ==
  {t \in Transfers : transfer[t].batch = b /\ transfer[t].status = "CONFIRMED"}

Unused == {t \in Transfers : transfer[t] = NoTransfer}

SaleStep(s, stage) == sale' = [sale EXCEPT ![s].stage = stage]
EndSale(s) == sale' = [sale EXCEPT ![s] = NoSale]

-----------------------------------------------------------------------------
(* POST /ownership-transfers: no look at the batch's status or at the       *)
(* transfers it already has.                                                *)
Initiate(b) ==
  /\ \E t \in Unused : transfer' = [transfer EXCEPT ![t].batch = b]
  /\ UNCHANGED <<vars, lot, handovers, sale>>

-----------------------------------------------------------------------------
(* POST /batch-groups. *)

\* A batch that has left the cooperative's hands joins no new lot.
Terminal == {"SOLD", "EXPORTED", "REJECTED"}

CreateLotRead(s, g) ==
  /\ sale[s].stage = "idle"
  /\ lot[g] = None
  /\ \A b \in Members[g] : status[b] \notin Terminal
  /\ sale' = [sale EXCEPT ![s] = [NoSale EXCEPT !.stage = "lotWrite", !.lot = g]]
  /\ UNCHANGED <<vars, transfer, lot, handovers>>

CreateLotCommit(s) ==
  /\ sale[s].stage = "lotWrite"
  /\ lot[sale[s].lot] = None
  /\ lot' = [lot EXCEPT ![sale[s].lot] = "OPEN"]
  /\ EndSale(s)
  /\ UNCHANGED <<vars, transfer, handovers>>

-----------------------------------------------------------------------------
(* POST /batch-groups/:id/sell: two queries, then the inserts. *)

Sellable == {"IN_STORAGE", "IN_TRANSIT"}

SellRead(s, g) ==
  /\ sale[s].stage = "idle"
  /\ lot[g] = "OPEN"
  /\ \A b \in Members[g] : status[b] \in Sellable
  /\ sale' = [sale EXCEPT ![s] = [NoSale EXCEPT !.stage = "sellCheck", !.lot = g]]
  /\ UNCHANGED <<vars, transfer, lot, handovers>>

SellCheck(s) ==
  /\ sale[s].stage = "sellCheck"
  /\ PendingOf(Members[sale[s].lot]) = {}
  /\ SaleStep(s, "sellWrite")
  /\ UNCHANGED <<vars, transfer, lot, handovers>>

\* One PENDING transfer for each member, all at once.
SellCommit(s) ==
  LET g == sale[s].lot
  IN  /\ sale[s].stage = "sellWrite"
      /\ \E id \in [Members[g] -> Unused] :
           /\ \A a, b \in Members[g] : id[a] = id[b] => a = b
           /\ transfer' = [t \in Transfers |->
                IF \E b \in Members[g] : id[b] = t
                THEN [batch |-> CHOOSE b \in Members[g] : id[b] = t,
                      status |-> "PENDING"]
                ELSE transfer[t]]
      /\ EndSale(s)
      /\ UNCHANGED <<vars, lot, handovers>>

-----------------------------------------------------------------------------
(* POST /ownership-transfers/:id/confirm and                                *)
(* POST /batch-groups/:id/confirm-sale.                                     *)

\* The single confirmation checks its transfer before its transaction.
ConfirmRead(s, t) ==
  /\ sale[s].stage = "idle"
  /\ transfer[t].batch # None
  /\ transfer[t].status = "PENDING"
  /\ sale' = [sale EXCEPT ![s] =
                [NoSale EXCEPT !.stage = "confirm", !.todo = {t}]]
  /\ UNCHANGED <<vars, transfer, lot, handovers>>

\* The lot's confirmation reads the lot, then gathers the PENDING transfers
\* of its members, also before its transaction.
ConfirmLotRead(s, g) ==
  /\ sale[s].stage = "idle"
  /\ lot[g] = "OPEN"
  /\ sale' = [sale EXCEPT ![s] = [NoSale EXCEPT !.stage = "gather", !.lot = g]]
  /\ UNCHANGED <<vars, transfer, lot, handovers>>

Gather(s) ==
  LET pending == PendingOf(Members[sale[s].lot])
  IN  /\ sale[s].stage = "gather"
      /\ pending # {}
      /\ sale' = [sale EXCEPT ![s].stage = "confirm", ![s].todo = pending]
      /\ UNCHANGED <<vars, transfer, lot, handovers>>

\* confirmTransferInTx reads the transfer, which must still be PENDING, ...
ConfirmTransfer(s, t) ==
  /\ sale[s].stage = "confirm"
  /\ t \in sale[s].todo
  /\ transfer[t].status = "PENDING"
  /\ sale' = [sale EXCEPT ![s].stage = "confirmLock", ![s].at = t]
  /\ UNCHANGED <<vars, transfer, lot, handovers>>

\* ... writes it by id, once no other transaction holds its row, and reads
\* the status of its batch: its own write, if the batch is already sold by
\* this transaction.
ConfirmLock(s) ==
  LET t == sale[s].at
      b == transfer[t].batch
      seen == IF b \in sale[s].sold THEN "SOLD" ELSE status[b]
  IN  /\ sale[s].stage = "confirmLock"
      /\ ~TransferLocked(t)
      /\ CanTransition(seen, "SOLD")
      /\ sale' = [sale EXCEPT ![s].stage = "confirmWrite", ![s].seen = seen,
                              ![s].locked = @ \cup {t}]
      /\ UNCHANGED <<vars, transfer, lot, handovers>>

\* A slip: a batch sold from transit keeps its status.
MovesFromStorage(s) == sale[s].seen = "IN_STORAGE"

\* The batch's status changes, unless it was SOLD.
Moves(s) == sale[s].seen # "SOLD"

\* The batch is written SOLD and its open rows closed.
ConfirmWrite(s) ==
  LET b == transfer[sale[s].at].batch
      moved == Moves(s)
  IN  /\ sale[s].stage = "confirmWrite"
      /\ moved => ~BatchLocked(b)
      /\ sale' = [sale EXCEPT
           ![s].stage = "confirm", ![s].at = None, ![s].seen = None,
           ![s].todo = @ \ {sale[s].at},
           ![s].sold = IF moved THEN @ \cup {b} ELSE @,
           ![s].closed = IF moved THEN @ \cup OpenRows(b) ELSE @]
      /\ UNCHANGED <<vars, transfer, lot, handovers>>

\* A slip: a lot's confirmation commits member by member.
SomeConfirmed(s) == sale[s].locked # {}

\* The loop over the pending transfers is done.
AllConfirmed(s) == sale[s].todo = {}

\* A slip: the transfer takes the status of its batch.
FinalizedAsSold == "SOLD"

\* A slip: a confirmed transfer is left PENDING.
FinalizedPending == "PENDING"

\* What confirming makes of a transfer.
Finalized == "CONFIRMED"

\* Every transfer is confirmed: the lot, if this is one, is marked SOLD, and
\* everything written becomes visible.
SaleCommit(s) ==
  /\ sale[s].stage = "confirm"
  /\ AllConfirmed(s)
  /\ transfer' = [t \in Transfers |->
       IF t \in sale[s].locked THEN [transfer[t] EXCEPT !.status = Finalized]
                               ELSE transfer[t]]
  /\ status' = [b \in Batches |->
       IF b \in sale[s].sold THEN "SOLD" ELSE status[b]]
  /\ inventory' = [i \in RowIds |->
       IF i \in sale[s].closed THEN [inventory[i] EXCEPT !.open = FALSE]
                               ELSE inventory[i]]
  /\ lot' = [g \in Lots |-> IF g = sale[s].lot THEN "SOLD" ELSE lot[g]]
  /\ sale' = [sale EXCEPT ![s] =
                [NoSale EXCEPT !.stage = "append", !.todo = sale[s].locked]]
  /\ UNCHANGED <<total, processed, ledger, whLock, req, handovers>>

-----------------------------------------------------------------------------
(* recordTransferConfirmedEvents, after the commit: for each transfer the   *)
(* change of custody and, when it has a price, the sale.                    *)

\* A slip: a lot's events are appended as its members are confirmed.
AppendHandoverEarly(s, t) ==
  /\ sale[s].stage \in {"confirm", "append"}
  /\ sale[s].at = None
  /\ t \in sale[s].todo
  /\ ledger' = [ledger EXCEPT ![transfer[t].batch] = @ \cup {"OWNERSHIP_TRANSFERRED"}]
  /\ handovers' = [handovers EXCEPT ![t] = @ + 1]
  /\ sale' = [sale EXCEPT ![s].at = t, ![s].todo = @ \ {t}]
  /\ UNCHANGED <<status, total, processed, inventory, whLock, req, transfer, lot>>

AppendHandover(s, t) ==
  /\ sale[s].stage = "append"
  /\ sale[s].at = None
  /\ t \in sale[s].todo
  /\ ledger' = [ledger EXCEPT ![transfer[t].batch] = @ \cup {"OWNERSHIP_TRANSFERRED"}]
  /\ handovers' = [handovers EXCEPT ![t] = @ + 1]
  /\ sale' = [sale EXCEPT ![s].at = t, ![s].todo = @ \ {t}]
  /\ UNCHANGED <<status, total, processed, inventory, whLock, req, transfer, lot>>

AppendSale(s) ==
  LET b == transfer[sale[s].at].batch
  IN  /\ sale[s].stage = "append"
      /\ sale[s].at # None
      /\ \E priced \in BOOLEAN :
           ledger' = [ledger EXCEPT ![b] =
                        IF priced THEN @ \cup {"SALE_RECORDED"} ELSE @]
      /\ sale' = [sale EXCEPT ![s] =
           IF sale[s].todo = {} THEN NoSale ELSE [@ EXCEPT !.at = None]]
      /\ UNCHANGED <<status, total, processed, inventory, whLock, req,
                     transfer, lot, handovers>>

\* A check fails, the transaction times out, is a deadlock's victim, or the
\* server stops: the writes not committed are gone.
AbortSale(s) ==
  /\ sale[s].stage # "idle"
  /\ EndSale(s)
  /\ UNCHANGED <<vars, transfer, lot, handovers>>

-----------------------------------------------------------------------------
\* A step of Custody: it waits for the rows a sale's transaction has written.
CustodyStep ==
  /\ Next
  /\ \A b \in Batches : BatchLocked(b) =>
       status'[b] = status[b] /\ total'[b] = total[b]
  /\ \A i \in RowIds : RowLocked(i) => inventory'[i] = inventory[i]
  /\ UNCHANGED saleVars

ArriveSale(s) ==
  \/ \E g \in Lots : \/ CreateLotRead(s, g)
                    \/ SellRead(s, g)
                    \/ ConfirmLotRead(s, g)
  \/ \E t \in Transfers : ConfirmRead(s, t)

ContinueSale(s) ==
  \/ CreateLotCommit(s)
  \/ SellCheck(s) \/ SellCommit(s)
  \/ Gather(s)
  \/ \E t \in Transfers : ConfirmTransfer(s, t)
  \/ ConfirmLock(s) \/ ConfirmWrite(s) \/ SaleCommit(s)
  \/ \E t \in Transfers : AppendHandover(s, t)
  \/ AppendSale(s)
  \/ AbortSale(s)

SalesNext ==
  \/ CustodyStep
  \/ \E b \in Singles : Initiate(b)
  \/ \E s \in Sellers : ArriveSale(s) \/ ContinueSale(s)

SalesSpec == SalesInit /\ [][SalesNext]_allVars

\* One request at a time, of Custody and of Sales together.
OneAtATime ==
  /\ \A r, p \in Requests :
       req[r].stage # "idle" /\ req[p].stage # "idle" => r = p
  /\ \A s, z \in Sellers :
       sale[s].stage # "idle" /\ sale[z].stage # "idle" => s = z
  /\ \A r \in Requests, s \in Sellers :
       req[r].stage = "idle" \/ sale[s].stage = "idle"

SerialSpec == SalesInit /\ [][SalesNext /\ OneAtATime']_allVars

-----------------------------------------------------------------------------
(* What holds however the requests interleave. *)

\* A batch that is SOLD, or EXPORTED after it, has a confirmed transfer
\* (coffeeBatch.service.ts, updateBatchStatus: SOLD is a claim that an
\* operational record exists).
SoldBacked ==
  \A b \in Batches : status[b] \in {"SOLD", "EXPORTED"} => ConfirmedOf(b) # {}

\* The ledger names a transfer only once it is CONFIRMED: its events are
\* appended after the commit, whatever happens to the request in between.
HandoverBacked ==
  \A t \in Transfers : handovers[t] > 0 => transfer[t].status = "CONFIRMED"

\* The first transfer of a batch to be confirmed sells it: in the commit that
\* shows the transfer CONFIRMED the batch is SOLD, though the two
\* are written by different statements.
FirstSaleSellsBatch ==
  [][\A b \in Batches : ConfirmedOf(b) = {} /\ ConfirmedOf(b)' # {}
       => status'[b] = "SOLD"]_allVars

\* A lot that is SOLD was sold whole: every member has a confirmed transfer
\* (batchGroup.routes.ts, the comment over confirm-sale).
LotSoldWhole ==
  \A g \in Lots : lot[g] = "SOLD" =>
    \A b \in Members[g] : ConfirmedOf(b) # {}

(* What holds while requests do not overlap. *)

\* A confirmed sale stands: the batch of a CONFIRMED transfer is SOLD, or was
\* EXPORTED since.
ConfirmedStaysSold ==
  \A t \in Transfers : transfer[t].status = "CONFIRMED" =>
    status[transfer[t].batch] \in {"SOLD", "EXPORTED"}

\* A transfer is finalized, and recorded on the ledger, once: the second
\* confirmation finds it no longer PENDING.
HandoverOnce == \A t \in Transfers : handovers[t] <= 1

(* What the code's comments say and its requests break. *)

\* A batch is sold once: at most one of its transfers is ever CONFIRMED.
SoldOnce ==
  \A b \in Batches : \A t, u \in ConfirmedOf(b) : t = u

=============================================================================
