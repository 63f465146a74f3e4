----------------------------- MODULE FifoLedger -----------------------------
(***************************************************************************)
(* The two readers that turn the external transactions into lots and       *)
(* realised gains (ledger/fifo.py): the dashboard's figures, which replay  *)
(* all events (replay), and its chart, which walks them day by day         *)
(* (daily_series of ledger/performance.py).                                *)
(*                                                                         *)
(* The query that loads the events names no order, so events that a sort   *)
(* leaves equal come in any order.  Amounts are sats; the price of an      *)
(* event is that of its day, and money is price times sats, computed       *)
(* exactly where the code rounds to a float.                               *)
(***************************************************************************)
EXTENDS Integers, Sequences, FiniteSets, FiniteSetsExt, Functions

CONSTANTS
  Txs,           \* txids of external transactions
  MaxTime,       \* bound: block times
  MaxSats,       \* bound: amount of an event
  MaxFee,        \* bound: fee of a sale
  Histories,     \* the sets of events considered
  Readers,       \* subset of {"replay", "daily_series"}
  DayOf,         \* block time -> its day
  DayPrice,      \* day -> BTC price
  None           \* no disposal going on

Times == 1 .. MaxTime
Days == {DayOf[t] : t \in Times}

\* ExternalIn and ExternalOut.  Nothing received is no event (sats <= 0 is
\* skipped when they are loaded), while a disposal may be of nothing.
Buy  == [tx : Txs, kind : {"in"}, sats : 1 .. MaxSats, fee : {0}, time : Times]
Sale == [tx : Txs, kind : {"out"}, sats : 0 .. MaxSats, fee : 0 .. MaxFee, time : Times]
Event == Buy \cup Sale

Disposal == [sale : Sale, left : Nat \ {0}]

ASSUME LedgerAssumption ==
  /\ MaxTime \in Nat \ {0} /\ MaxSats \in Nat /\ MaxFee \in Nat
  /\ Histories \subseteq SUBSET Event /\ \A h \in Histories : IsFiniteSet(h)
  /\ Readers \subseteq {"replay", "daily_series"}
  /\ DayOf \in [Times -> Nat]
  /\ DayPrice \in [Days -> Nat]
  /\ None \notin Disposal

VARIABLES
  reader,        \* which of the readers this is
  events,        \* the external transactions in the database
  todo,          \* those not applied yet
  lots,          \* state.open_lots, oldest first
  realised,      \* state.realised
  disposal,      \* None, or the sale being applied and what is left of it
  day,           \* daily_series: the day the walk is at
  today,         \* daily_series: the last day
  chart,         \* daily_series: the points so far
  status         \* "running", "done", or "raised" for a FIFO underflow

vars == <<reader, events, todo, lots, realised, disposal, day, today, chart, status>>

Price(e) == DayPrice[DayOf[e.time]]

\* The day of the first event.
FirstDay == CHOOSE d \in Days :
  /\ \E e \in events : DayOf[e.time] = d
  /\ \A e \in events : d <= DayOf[e.time]

Init ==
  /\ reader \in Readers
  /\ events \in Histories
  /\ todo = events
  /\ lots = <<>>
  /\ realised = <<>>
  /\ disposal = None
  /\ today \in Days
  /\ day = IF events = {} THEN today ELSE FirstDay
  /\ chart = <<>>
  /\ status = "running"

-----------------------------------------------------------------------------
(* The order of the events.                                                *)

\* Fault: the order of buys and sales of one block is left to chance.
BeforeByTime(e, f) == e.time < f.time

\* replay sorts by time and takes the buys of a block before its sales;
\* daily_series sorts by time alone.
Before(e, f) ==
  \/ e.time < f.time
  \/ /\ reader = "replay"
     /\ e.time = f.time /\ e.kind = "in" /\ f.kind = "out"

\* e may be the next event; daily_series waits for its day.
Due(e) ==
  /\ status = "running" /\ disposal = None
  /\ e \in todo
  /\ \A f \in todo : ~Before(f, e)
  /\ reader = "daily_series" => DayOf[e.time] <= day /\ day <= today

-----------------------------------------------------------------------------
(* The ledger.                                                             *)

\* apply_external_in: open a lot.
ApplyIn(e) ==
  /\ Due(e)
  /\ e.kind = "in"
  /\ todo' = todo \ {e}
  /\ lots' = Append(lots, [tx |-> e.tx, amount |-> e.sats,
                           remaining |-> e.sats, price |-> Price(e)])
  /\ UNCHANGED <<reader, events, realised, disposal, day, today, chart, status>>

\* Fault: the fee is not disposed of.
SatsToDisposeWithoutFee(e) == e.sats

SatsToDispose(e) == e.sats + e.fee

\* apply_external_out starts; to dispose of nothing is done at once.
ApplyOut(e) ==
  /\ Due(e)
  /\ e.kind = "out"
  /\ todo' = todo \ {e}
  /\ disposal' = IF SatsToDispose(e) <= 0 THEN None
                 ELSE [sale |-> e, left |-> SatsToDispose(e)]
  /\ UNCHANGED <<reader, events, lots, realised, day, today, chart, status>>

\* Fault: the slice is not limited by what the lot has left.
TakeUncapped(lot) == disposal.left

\* take = min(lot.remaining_sats, sats_to_dispose)
Take(lot) == IF lot.remaining < disposal.left THEN lot.remaining ELSE disposal.left

\* The row of realised gain for a slice of a lot.
Realise(lot) ==
  [tx |-> disposal.sale.tx, lot |-> lot.tx, sats |-> Take(lot),
   gain |-> Take(lot) * Price(disposal.sale) - Take(lot) * lot.price]

\* Fault: the newest lot is consumed first.
SliceNewest ==
  /\ status = "running" /\ disposal # None
  /\ lots # <<>>
  /\ LET newest == Len(lots)
         lot    == lots[newest]
         take   == Take(lot)
     IN  /\ realised' = Append(realised, Realise(lot))
         /\ lots' = IF take = lot.remaining THEN SubSeq(lots, 1, newest - 1)
                    ELSE [lots EXCEPT ![newest].remaining = @ - take]
         /\ disposal' = IF take = disposal.left THEN None
                        ELSE [disposal EXCEPT !.left = @ - take]
  /\ UNCHANGED <<reader, events, todo, day, today, chart, status>>

\* One turn of its loop: realise a slice of the oldest lot, which is dropped
\* when nothing of it remains.
Slice ==
  /\ status = "running" /\ disposal # None
  /\ lots # <<>>
  /\ LET lot  == Head(lots)
         take == Take(lot)
     IN  /\ realised' = Append(realised, Realise(lot))
         /\ lots' = IF take = lot.remaining THEN Tail(lots)
                    ELSE [lots EXCEPT ![1].remaining = @ - take]
         /\ disposal' = IF take = disposal.left THEN None
                        ELSE [disposal EXCEPT !.left = @ - take]
  /\ UNCHANGED <<reader, events, todo, day, today, chart, status>>

\* No lot is left to sell from: ValueError, which nobody catches.
Underflow ==
  /\ status = "running" /\ disposal # None
  /\ lots = <<>>
  /\ status' = "raised"
  /\ UNCHANGED <<reader, events, todo, lots, realised, disposal, day, today, chart>>

\* total_open_sats, total_open_cost_basis and total_realised_gain.
Totals ==
  [sats  |-> SumFunction([i \in DOMAIN lots |-> lots[i].remaining]),
   basis |-> SumFunction([i \in DOMAIN lots |-> lots[i].remaining * lots[i].price]),
   gain  |-> SumFunction([i \in DOMAIN realised |-> realised[i].gain])]

\* Fault: the point is taken before the events of its day are applied.
EndOfDayEarly ==
  /\ reader = "daily_series" /\ status = "running" /\ disposal = None
  /\ events # {} /\ day <= today
  /\ \A e \in todo : DayOf[e.time] >= day
  /\ chart' = Append(chart, Totals)
  /\ day' = day + 1
  /\ UNCHANGED <<reader, events, todo, lots, realised, disposal, today, status>>

\* daily_series: the events of the day are applied, take down its point.
EndOfDay ==
  /\ reader = "daily_series" /\ status = "running" /\ disposal = None
  /\ events # {} /\ day <= today
  /\ \A e \in todo : DayOf[e.time] > day
  /\ chart' = Append(chart, Totals)
  /\ day' = day + 1
  /\ UNCHANGED <<reader, events, todo, lots, realised, disposal, today, status>>

\* replay has applied all events; the walk has passed the last day, or there
\* was no event to begin with.
Finish ==
  /\ status = "running" /\ disposal = None
  /\ \/ reader = "replay" /\ todo = {}
     \/ reader = "daily_series" /\ (events = {} \/ day > today)
  /\ status' = "done"
  /\ UNCHANGED <<reader, events, todo, lots, realised, disposal, day, today, chart>>

Next ==
  \/ \E e \in todo : ApplyIn(e) \/ ApplyOut(e)
  \/ Slice
  \/ Underflow
  \/ EndOfDay
  \/ Finish

Spec == Init /\ [][Next]_vars

-----------------------------------------------------------------------------
(* FIFO by definition: the coins received are numbered in the order of     *)
(* their blocks, and so are the coins disposed of; number k of the ones is *)
(* sold as number k of the others.                                         *)

UpTo(es, kind, t) == {e \in es : e.kind = kind /\ e.time <= t}
Received(es, t) == SumFunction([e \in UpTo(es, "in", t) |-> e.sats])
Disposed(es, t) == SumFunction([e \in UpTo(es, "out", t) |-> e.sats + e.fee])

AtTime(t) == DayPrice[DayOf[t]]
BuyPrice(es, k)  == AtTime(Min({t \in Times : Received(es, t) >= k}))
SalePrice(es, k) == AtTime(Min({t \in Times : Disposed(es, t) >= k}))

Fifo(es) ==
  LET received == Received(es, MaxTime)
      disposed == Disposed(es, MaxTime)
  IN  [sats  |-> received - disposed,
       basis |-> SumFunction([k \in (disposed + 1) .. received |-> BuyPrice(es, k)]),
       gain  |-> SumFunction([k \in 1 .. disposed |-> SalePrice(es, k) - BuyPrice(es, k)])]

\* At some block more has been disposed of than was ever received.
Short == \E t \in Times : Disposed(events, t) > Received(events, t)

-----------------------------------------------------------------------------
(* Properties.                                                             *)

Lot == [tx : Txs, amount : 1 .. MaxSats, remaining : 1 .. MaxSats, price : Nat]
Row == [tx : Txs, lot : Txs, sats : 1 .. MaxSats, gain : Int]

\* The types of the ledger and of the reader's place in it; no lot is empty.
\* (What the points of the chart are is ChartIsFifo's.)
TypeOK ==
  /\ reader \in Readers
  /\ events \subseteq Event
  /\ todo \subseteq events
  /\ lots \in Seq(Lot)
  /\ realised \in Seq(Row)
  /\ disposal \in Disposal \cup {None}
  /\ day \in Nat /\ today \in Days
  /\ status \in {"running", "done", "raised"}

\* Oldest first: only the oldest open lot is ever partly sold, whatever the
\* sales were and however they fell across the lots.
OnlyOldestTouched ==
  \A i \in DOMAIN lots : i > 1 => lots[i].remaining = lots[i].amount

\* A sale in the block of a buy.
SharedBlock == \E e, f \in events : e.kind = "in" /\ f.kind = "out" /\ e.time = f.time

\* The replay fails exactly when the events cannot be a complete history: coins
\* were sent that were not there yet at the end of that block.  The chart sorts
\* by block time alone: it may fail on a complete history, too, but only if a
\* sale shares its block with a buy.
RaisesIffShort ==
  /\ reader = "replay" /\ status = "done" => ~Short
  /\ status = "raised" => Short \/ (reader = "daily_series" /\ SharedBlock)

\* The ledger "is rebuilt deterministically": holdings, cost basis and realised
\* gain are those of FIFO by definition, whichever order the query returned the
\* transactions of a block in.
FiguresAreFifo ==
  reader = "replay" /\ status = "done" /\ ~Short => Totals = Fifo(events)

\* A point of the chart shows what the replay of the events up to the end of its
\* day would show, although the chart sorts them differently.
ChartIsFifo ==
  \A i \in DOMAIN chart :
    chart[i] = Fifo({e \in events : DayOf[e.time] <= FirstDay + i - 1})
=============================================================================
