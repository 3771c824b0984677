------------------------------ MODULE Reports -------------------------------
(***************************************************************************)
(* What the reports say of batches, warehouses and sales: the dashboard,   *)
(* the movement report, the traceability sheet and the public page behind  *)
(* a QR code, the warehouse snapshot, the sales ledger and the yield.      *)
(*                                                                         *)
(* None of them writes, so each is an operator over the state of Sales,    *)
(* for the one cooperative the model has.  Periods, dates, names and       *)
(* prices are data the model does not keep: a report is over all time, and *)
(* what it needs of the rest is a parameter.  Custody keeps which batches  *)
(* have a processing record; the records themselves, several to a batch    *)
(* and with or without a measured output, are a table given to the report. *)
(***************************************************************************)
EXTENDS Sales

CONSTANTS ProcessingIds,   \* ids of processing records
          Outputs          \* the output weights a record may have

\* The tables a report sums over have finitely many rows; an output, where it
\* was measured, is a positive weight.
ASSUME ReportsAssumption ==
  /\ IsFiniteSet(Batches) /\ IsFiniteSet(Warehouses) /\ IsFiniteSet(Transfers)
  /\ IsFiniteSet(ProcessingIds) /\ Outputs \subseteq Nat \ {0}

\* Tables of processing records: which batch a record is of and what came out.
ProcessingTables ==
  UNION {[ids -> [batch : Batches, output : Outputs \cup {None}]] :
           ids \in SUBSET ProcessingIds}

\* The tables that may stand behind the present state: no request is refused
\* for a record the batch already has, and none deletes one.
TablesNow == {T \in ProcessingTables : {T[p].batch : p \in DOMAIN T} = processed}

TotalKg(B) == SumFunctionOnSet(total, B)

Confirmed == {t \in Transfers : transfer[t].batch # None
                                /\ transfer[t].status = "CONFIRMED"}

-----------------------------------------------------------------------------
(* The dashboard: getCooperativeDashboard and its helpers. *)

\* A quotient rounded half up, as Math.round does.
Rounded(x, y) == (2 * x + y) \div (2 * y)

\* The chart's Sold series joins: a batch counts once for every confirmed
\* transfer.
SoldSeriesKg == SumFunction([t \in Confirmed |-> total[transfer[t].batch]])

\* Its Processed series sums over the records: the measured output, or, without
\* one, the whole batch.
MovementSeries(table) ==
  [processedKg |->
     SumFunction([p \in DOMAIN table |->
                    IF table[p].output = None THEN total[table[p].batch]
                    ELSE table[p].output]),
   soldKg |-> SoldSeriesKg]

\* The figure counts a batch once.
SoldKg == TotalKg({b \in Batches : ConfirmedOf(b) # {}})

\* Only inventory that has not been removed is in storage.
InStorageKg ==
  SumFunction([i \in {j \in RowIds : inventory[j].open} |-> inventory[i].kg])

-----------------------------------------------------------------------------
(* One batch's journey. *)

\* Its rows of inventory: in the warehouse now, or removed.
StorageNotes(b) ==
  {[row |-> i, note |-> IF inventory[i].open THEN "Currently stored" ELSE "Removed"] :
     i \in {j \in RowIds : inventory[j].batch = b}}

\* getBatchMovement: sold once for every confirmed transfer.
BatchMovement(b) ==
  [status     |-> status[b],
   totalKg    |-> total[b],
   processing |-> b \in processed,
   storage    |-> StorageNotes(b),
   sold       |-> ConfirmedOf(b)]

\* Every transfer, with the status it has.
SalesOf(b) == {[id |-> t, status |-> transfer[t].status] :
                 t \in {u \in Transfers : transfer[u].batch = b}}

\* getBatchTraceabilitySheet.
TraceabilitySheet(b) ==
  [status     |-> status[b],
   totalKg    |-> total[b],
   processing |-> b \in processed,
   history    |-> StorageNotes(b),
   sales      |-> SalesOf(b),
   events     |-> ledger[b]]

\* getPublicBatchTraceability: what the page behind the QR code is built from.
PublicTraceability(b) ==
  [status     |-> status[b],
   totalKg    |-> total[b],
   processing |-> b \in processed,
   history    |-> StorageNotes(b),
   sales      |-> SalesOf(b),
   events     |-> ledger[b]]

\* What a journey, by its notes and its transfers, says of the batch.
SaysStored(history) == \E n \in history : n.note = "Currently stored"
SaysSold(sales) == \E x \in sales : x.status = "CONFIRMED"

-----------------------------------------------------------------------------
(* The cooperative's warehouses, sales, processing and batches. *)

\* getWarehouseInventorySnapshot, a row for each warehouse.
WarehouseInventorySnapshot ==
  [w \in Warehouses |->
     [batchesStored   |-> Cardinality({i \in RowIds : inventory[i].wh = w
                                                      /\ inventory[i].open}),
      storedWeightKg  |-> Load(w),
      capacityUsedPct |-> IF Capacity[w] = None \/ Capacity[w] = 0 THEN None
                          ELSE Rounded(Load(w) * 1000, Capacity[w])]]

\* getSalesLedger: a row for each transfer, worth nothing without a price.
TransferValue(t, price) ==
  IF price[t] = None THEN 0 ELSE price[t] * total[transfer[t].batch]

LedgerTotal(price, s) ==
  SumFunction([t \in {u \in Transfers : transfer[u].batch # None
                                         /\ transfer[u].status = s}
                 |-> TransferValue(t, price)])

SalesLedger(price) ==
  [confirmedValue |-> LedgerTotal(price, "CONFIRMED"),
   pendingValue   |-> LedgerTotal(price, "PENDING")]

\* getProcessingYield, a row for each record: the input is the whole batch, and
\* there is no yield without an input and an output.
ProcessingYield(table) ==
  [p \in DOMAIN table |->
     LET inputKg == total[table[p].batch]
         outputKg == IF table[p].output = None THEN 0 ELSE table[p].output
     IN  [inputKg  |-> inputKg,
          outputKg |-> outputKg,
          yieldPct |-> IF inputKg > 0 /\ outputKg > 0
                       THEN Rounded(outputKg * 1000, inputKg) ELSE None]]

\* getOperationsSummary, its part over batches.
BatchesByStatus == [s \in Status |-> Cardinality({b \in Batches : status[b] = s})]

-----------------------------------------------------------------------------
(* What the reports promise while requests do not overlap. *)

\* No kilogram is told twice: what the dashboard calls in storage and what it
\* calls sold come to no more than what the batches weigh, though the one sums
\* open inventory rows and the other batches with a confirmed transfer
\* (dashboard.service.ts, 353-360).
NoKiloTwice == InStorageKg + SoldKg <= TotalKg(Batches)

\* The public page, the traceability sheet and the movement report tell one
\* story of a batch: where one says sold none says that it is stored, and what
\* they call sold or stored is so by the batch's status.
OneStory ==
  \A b \in Batches :
    LET page == PublicTraceability(b)
        sheet == TraceabilitySheet(b)
        movement == BatchMovement(b)
    IN  /\ SaysSold(page.sales) => ~SaysStored(sheet.history)
        /\ movement.sold # {} => page.status \in {"SOLD", "EXPORTED"}
        /\ SaysStored(movement.storage) => sheet.status = "IN_STORAGE"

\* What the warehouses hold, by their snapshot, is what the dashboard says is
\* in storage, and lies in batches the summary counts IN_STORAGE.
WarehousesAddUp ==
  LET snapshot == WarehouseInventorySnapshot
  IN  /\ InStorageKg =
           SumFunction([w \in Warehouses |-> snapshot[w].storedWeightKg])
      /\ BatchesByStatus["IN_STORAGE"] >=
           SumFunction([w \in Warehouses |-> snapshot[w].batchesStored])
      /\ \A w \in Warehouses : snapshot[w].capacityUsedPct # None =>
           snapshot[w].capacityUsedPct <= 1000

\* The Sold figure and the Sold series of the chart, which are to "never tell
\* two different stories" (dashboard.service.ts, 139-147), tell one just when no
\* batch that weighs something has two confirmed transfers; the sales ledger, at
\* one price for every sale, is worth what the chart shows.
OneFigure ==
  /\ SoldSeriesKg = SoldKg <=>
       \A b \in Batches : total[b] > 0 => \A t, u \in ConfirmedOf(b) : t = u
  /\ SalesLedger([t \in Transfers |-> 1]).confirmedValue = SoldSeriesKg

\* What the yield report shows as lost between the input and the output of the
\* records that have one (less than nothing when more came out than went in).
LostKg(table) ==
  LET yields == ProcessingYield(table)
  IN  SumFunction([p \in {q \in DOMAIN table : yields[q].outputKg > 0} |->
                     yields[p].inputKg - yields[p].outputKg])

\* Nothing from nowhere: what the dashboard calls sold or in storage is within
\* what the chart calls processed and the yield report calls lost, together.
\* Within the chart's figure alone it need not be: a sale and a stored row go on
\* being told in the batch's whole weight, whatever the mill got out of it.
NothingFromNowhere ==
  \A table \in TablesNow :
    SoldKg + InStorageKg <= MovementSeries(table).processedKg + LostKg(table)

\* The books agree: the reports, read between two requests, do not contradict
\* one another, although each reads other tables (reports/*.service.ts).
BooksAgree ==
  NoKiloTwice /\ OneStory /\ WarehousesAddUp /\ OneFigure /\ NothingFromNowhere
=============================================================================
