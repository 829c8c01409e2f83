----------------------------- MODULE LockOrder -----------------------------
(***************************************************************************)
(* The row locks of the transactions that move stock, and the order they   *)
(* take them in: a transaction is the sequence of rows it locks, by FOR    *)
(* UPDATE or by updating them, and keeps them until it ends.  The data     *)
(* that decides whether it is refused on the way is left out: it may be    *)
(* refused at any time.                                                    *)
(*                                                                         *)
(* stock-lock.ts locks the stock rows of several products in the order of  *)
(* the products, so that concurrent orders cannot deadlock.                *)
(***************************************************************************)
EXTENDS Integers, Sequences, FiniteSets, SequencesExt

CONSTANT Process    \* requests that run at the same time

VARIABLES doing,  \* of each process, the transaction it is in
          held    \* and how many of its rows are locked

vars == <<doing, held>>

-----------------------------------------------------------------------------
(* The rows.  Products are numbers, in the order of their ids. *)

Stock(product) == <<"warehouse_stock", product>>
PickingRow(order) == <<"picking_order", order>>
PackingRow(order) == <<"packing_order", order>>
SaleRow(sale) == <<"sales_order", sale>>
SaleItem(sale, product) == <<"sales_order_item", sale, product>>
WaveRow(wave) == <<"picking_wave", wave>>
SequenceRow(key) == <<"sequence", key>>
ReceiptRow(receipt) == <<"receipt", receipt>>

\* Mutated form: in the order of the lines.
StocksAsListed(products) == [i \in DOMAIN products |-> Stock(products[i])]

\* lockWarehouseStocks, of the products of some lines
Stocks(products) ==
  LET all == Range(products)
      nth(i) == CHOOSE p \in all : Cardinality({q \in all : q < p}) = i - 1
  IN  [i \in 1..Cardinality(all) |-> Stock(nth(i))]

\* applySalesOrderProgress: the items, in the order of the lines, then the order.
Progress(sale, products) ==
  [i \in DOMAIN products |-> SaleItem(sale, products[i])] \o <<SaleRow(sale)>>

\* createInTransaction, with a reference of the sequence
CreatePicking(products) == <<SequenceRow("picking")>> \o Stocks(products)

\* updateItemInTransaction
PickItem(order, product) == <<PickingRow(order), Stock(product)>>

\* updateStatus of a picking: completed, and cancelled
CompletePicking(order, products) == <<PickingRow(order)>> \o Stocks(products)

\* Mutated form: the sales order is brought up to date first.
CancelSaleFirst(order, products, sale) ==
  <<PickingRow(order)>> \o Progress(sale, products) \o Stocks(products)

CancelPicking(order, products, sale) ==
  <<PickingRow(order)>> \o Stocks(products) \o Progress(sale, products)

\* updateStatus of a packing: completed or cancelled
EndPacking(order, products, sale) ==
  <<PackingRow(order)>> \o Stocks(products) \o Progress(sale, products)

\* release of a sales order
Release(sale, products) ==
  <<SaleRow(sale)>> \o Stocks(products) \o CreatePicking(products) \o
    [i \in DOMAIN products |-> SaleItem(sale, products[i])]

\* pick of a wave: its orders one after the other
WavePick(wave, orders, product) ==
  <<WaveRow(wave)>> \o FlattenSeq([i \in DOMAIN orders |-> PickItem(orders[i], product)])

\* send of a transfer; complete of a receipt, in the order of the products
Send(products) == <<SequenceRow("transfer")>> \o Stocks(products)
CompleteReceipt(receipt, products) == <<ReceiptRow(receipt)>> \o Stocks(products)

\* apply of an import of opening balances, in the order of the file
ImportStock(products) == [i \in DOMAIN products |-> Stock(products[i])]

-----------------------------------------------------------------------------
(* The transactions that run: two products in lines of either order, a     *)
(* sales order with two pickings of those lines, a wave of both pickings.  *)

Forth == <<1, 2>>
Back == <<2, 1>>

InOrder ==
  {CreatePicking(Forth), CreatePicking(Back), PickItem("p1", 1), PickItem("p2", 2),
   CompletePicking("p1", Back), CompletePicking("p2", Forth),
   CancelPicking("p1", Back, "s1"), EndPacking("k2", Back, "s1"),
   Send(Back), CompleteReceipt("r1", Back)}

\* Those that lock other shared rows before stock rows, or no rows in order.
OutOfOrder ==
  {Release("s1", Forth), WavePick("w1", <<"p1", "p2">>, 1), ImportStock(Back)}

Operation == InOrder \union OutOfOrder

Idle == <<>>

Init ==
  /\ doing = [t \in Process |-> Idle]
  /\ held = [t \in Process |-> 0]

Held(t) == {doing[t][i] : i \in 1..held[t]}

Pending(t) == held[t] < Len(doing[t])
Wanted(t) == doing[t][held[t] + 1]

Begin(t, op) ==
  /\ doing[t] = Idle
  /\ doing' = [doing EXCEPT ![t] = op]
  /\ UNCHANGED held

\* A row the transaction has is taken again without waiting.
Lock(t) ==
  /\ Pending(t)
  /\ \A u \in Process \ {t} : Wanted(t) \notin Held(u)
  /\ held' = [held EXCEPT ![t] = @ + 1]
  /\ UNCHANGED doing

\* Mutated form: the rows stay locked.
EndKeepingRows(t) == doing' = [doing EXCEPT ![t] = Idle] /\ UNCHANGED held

End(t) ==
  /\ doing' = [doing EXCEPT ![t] = Idle]
  /\ held' = [held EXCEPT ![t] = 0]

Commit(t) == doing[t] # Idle /\ ~Pending(t) /\ End(t)

\* A refusal rolls the transaction back; one that waits cannot refuse.
Refuse(t) == held[t] > 0 /\ (\A u \in Process \ {t} : Pending(t) => Wanted(t) \notin Held(u)) /\ End(t)

Next ==
  \E t \in Process :
    \/ \E op \in Operation : Begin(t, op)
    \/ Lock(t) \/ Commit(t) \/ Refuse(t)

Spec == Init /\ [][Next]_vars

-----------------------------------------------------------------------------
(* Correctness *)

\* Type invariant: no more rows are locked than the transaction asks for.
LocksTypeOK ==
  \A t \in Process : doing[t] \in Operation \union {Idle} /\ held[t] \in 0..Len(doing[t])

WaitsFor(t, u) == t # u /\ Pending(t) /\ Wanted(t) \in Held(u)

\* "concurrent orders touching the same products cannot deadlock": whenever
\* transactions wait for each other in a circle, the release of a sales order,
\* the pick of a wave or an import of opening balances is among them.  All the
\* others lock what they share in one order.
OrderedNeverDeadlock ==
  \A waiting \in (SUBSET {t \in Process : doing[t] \in InOrder}) \ {{}} :
    \E t \in waiting : \A u \in waiting : ~WaitsFor(t, u)

=============================================================================
