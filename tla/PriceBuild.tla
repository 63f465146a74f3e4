----------------------------- MODULE PriceBuild -----------------------------
(***************************************************************************)
(* scripts/build_price_snapshot.py, which an image build runs: it pages    *)
(* through the daily candles of Bitstamp, asks Frankfurter once for the    *)
(* rates of EUR and CHF, carries the rates forward over the days without   *)
(* one, joins both and writes the price snapshot.                          *)
(*                                                                         *)
(* Days are numbered; HISTORY_START is day 1 and midnight may pass while   *)
(* the script runs.  A price is named by what it was computed from: the    *)
(* candle of a day and the rates published on one.  The servers are not    *)
(* the repository's: what they may answer is what the code provides for.   *)
(*                                                                         *)
(* BuildInit, BuildNext and BuildSpec are Init, Next and Spec, named so    *)
(* that a module can extend another component's as well.                   *)
(***************************************************************************)
EXTENDS Integers, FiniteSets, FiniteSetsExt

CONSTANTS
  Today,          \* the day on which the script starts
  PageLimit,      \* BITSTAMP_PAGE_LIMIT
  MaxPages,       \* max_pages
  MaxRetries,     \* MAX_RETRIES
  Candles,        \* the sets of days with a candle that are considered
  Publications,   \* the functions, day -> symbols published that day
  Nothing         \* no file, no rates, no publication

Days == 1 .. Today + 1
Symbols == {"EUR", "CHF"}

ASSUME BuildAssumption ==
  /\ Today \in Nat \ {0} /\ PageLimit \in Nat \ {0}
  /\ MaxPages \in Nat \ {0} /\ MaxRetries \in Nat \ {0}
  /\ \A candles \in Candles : candles \subseteq Days
  /\ \A p \in Publications : DOMAIN p \subseteq Days /\ \A d \in DOMAIN p : p[d] \subseteq Symbols
  /\ Nothing \notin Nat

VARIABLES
  candles,        \* days Bitstamp has a candle of
  published,      \* day -> symbols, for the days the ECB publishes rates
  clock,          \* the day it is
  phase,          \* "candles", "rates", "write", "done", "raised"
  now,            \* today_ts of fetch_btc_usd
  start,          \* start_ts, the cursor
  pages,          \* pages read
  attempt,        \* attempt of the request going on
  series,         \* days of btc_usd
  rates,          \* fx_raw, or Nothing
  rows,           \* what was written, or Nothing
  hollow          \* has an answer been without data that was there?

buildVars == <<candles, published, clock, phase, now, start, pages, attempt,
               series, rates, rows, hollow>>

BuildInit ==
  /\ candles \in Candles /\ published \in Publications
  /\ clock \in {Today, Today + 1}
  /\ phase = "candles"
  /\ now = clock
  /\ start = 1 /\ pages = 0 /\ attempt = 1
  /\ series = {} /\ rates = Nothing /\ rows = Nothing
  /\ hollow = FALSE

\* Midnight passes; it may have done so between the two looks at the clock.
Midnight ==
  /\ clock = Today
  /\ clock' = Today + 1
  /\ UNCHANGED <<candles, published, phase, now, start, pages, attempt,
                 series, rates, rows, hollow>>

-----------------------------------------------------------------------------
(* _http_get_json.                                                         *)

\* Fault: after the last attempt it begins anew.
RequestFailsAnew ==
  /\ phase \in {"candles", "rates"}
  /\ attempt' = IF attempt = MaxRetries THEN 1 ELSE attempt + 1
  /\ UNCHANGED <<candles, published, clock, phase, now, start, pages, series, rates, rows, hollow>>

\* No answer, an error status or no JSON: try again, or give up.
RequestFails ==
  /\ phase \in {"candles", "rates"}
  /\ IF attempt = MaxRetries THEN phase' = "raised" /\ UNCHANGED attempt
     ELSE attempt' = attempt + 1 /\ UNCHANGED phase
  /\ UNCHANGED <<candles, published, clock, now, start, pages, series, rates, rows, hollow>>

-----------------------------------------------------------------------------
(* fetch_btc_usd.                                                          *)

Ahead == {d \in candles : start <= d /\ d <= clock}

\* The first candles from the cursor on, or an answer without any; once there is
\* none ahead, perhaps the newest ones over again.
Answers ==
  {{}} \cup
  IF Ahead # {} THEN {{d \in Ahead : d <= last} : last \in
                        {e \in Ahead : Cardinality({d \in Ahead : d <= e}) <= PageLimit}}
  ELSE {{d} : d \in {e \in candles : e <= clock /\ \A f \in candles : f <= e \/ f > clock}}

\* Fault: a page that is not full is taken for the last one.
LastPageIfShort(page) ==
  Cardinality(page) < PageLimit \/ Max(page \cup {start}) + 1 > now \/ pages + 1 = MaxPages

\* Nothing came, nothing new came, the cursor passes today, or enough is enough.
LastPage(page) ==
  \/ page \subseteq series
  \/ Max(page \cup {start}) + 1 > now
  \/ pages + 1 = MaxPages

PageAnswered(page) ==
  /\ phase = "candles"
  /\ page \in Answers
  /\ series' = series \cup page
  /\ start' = IF LastPage(page) THEN start ELSE Max(page \cup {start}) + 1
  /\ pages' = pages + 1 /\ attempt' = 1
  /\ hollow' = (hollow \/ (page = {} /\ Ahead # {}))
  /\ phase' = IF ~LastPage(page) THEN "candles"
              ELSE IF series' = {} THEN "raised" ELSE "rates"
  /\ UNCHANGED <<candles, published, clock, now, rates, rows>>

-----------------------------------------------------------------------------
(* fetch_fx, forward_fill_fx, build_rows and write_csv.                    *)

First == Min(series)

\* The publications of the range, which may start with the one before it.
RatesAnswered ==
  /\ phase = "rates"
  /\ \E from \in {First} \cup {d \in DOMAIN published : d < First /\
                                 \A e \in DOMAIN published : e <= d \/ e >= First} :
       LET answer == {d \in DOMAIN published : from <= d /\ d <= Today}
       IN  IF answer = {} THEN phase' = "raised" /\ UNCHANGED rates
           ELSE phase' = "write" /\ rates' = [d \in answer |-> published[d]]
  /\ attempt' = 1
  /\ UNCHANGED <<candles, published, clock, now, start, pages, series, rows, hollow>>

\* Fault: a publication that lacks a symbol is passed over.
CarriedWhole ==
  LET from == Max({First, Min(DOMAIN rates)})
      last[d \in (from - 1) .. Today] ==
        IF d < from THEN Nothing
        ELSE IF d \in DOMAIN rates /\ rates[d] = Symbols THEN d ELSE last[d - 1]
  IN  [d \in from .. Today |-> last[d]]

\* The day whose rates are carried to each day; it starts at the first candle or
\* the first rates, whichever is later.
Carried ==
  LET from == Max({First, Min(DOMAIN rates)})
      last[d \in (from - 1) .. Today] ==
        IF d < from THEN Nothing
        ELSE IF d \in DOMAIN rates THEN d ELSE last[d - 1]
  IN  [d \in from .. Today |-> last[d]]

\* A row per candle that can be priced in all three currencies.
Rows ==
  LET priced == {d \in series \cap DOMAIN Carried :
                   Carried[d] # Nothing /\ rates[Carried[d]] = Symbols}
  IN  {[candle |-> d, rates |-> Carried[d]] : d \in priced}

Write ==
  /\ phase = "write"
  /\ phase' = "done"
  /\ rows' = Rows
  /\ UNCHANGED <<candles, published, clock, now, start, pages, attempt, series, rates, hollow>>

BuildNext ==
  \/ Midnight
  \/ RequestFails
  \/ \E page \in Answers : PageAnswered(page)
  \/ RatesAnswered
  \/ Write

BuildSpec == BuildInit /\ [][BuildNext]_buildVars

\* Every request ends, within its 60 seconds; the script goes on.
FairSpec ==
  /\ BuildSpec
  /\ WF_buildVars(RequestFails \/ (\E page \in Answers : PageAnswered(page)) \/ RatesAnswered)
  /\ WF_buildVars(Write)

-----------------------------------------------------------------------------
(* Properties.                                                             *)

\* The rows that are promised up to a day ("carrying forward the last published
\* weekday rate", build_price_snapshot.py:167; README.md:86-87): one for each candle
\* that the last publication up to its day prices in every currency.
Published(d) == {p \in DOMAIN published : p <= d}
Promised(reach) ==
  {[candle |-> d, rates |-> Max(Published(d))] :
     d \in {e \in candles : /\ e <= reach /\ e <= Today
                            /\ Published(e) # {}
                            /\ published[Max(Published(e))] = Symbols}}

\* The days for which the promise is not kept: from the first candle to the first
\* publication since.  forward_fill_fx starts its loop at the first candle with no
\* rate (last = None) and never looks at an earlier one, although the answer may
\* start with it; its docstring says that only days before the first publication
\* are dropped.
Dropped == {d \in candles : ~\E p \in Published(d) : Min(candles) <= p}
Expected(reach) == {row \in Promised(reach) : row.candle \notin Dropped}

\* Wherever the pages were cut and whatever had to be asked for again, the
\* snapshot has the rows that are promised, no hole and no rate that was already
\* superseded, but for the days that are dropped at its beginning.
SnapshotIsRight ==
  rows # Nothing => \E reach \in Days : rows = Expected(reach)

\* It ends before today only if the server answered without the data it had, which
\* the loop takes for the end, or if max_pages were read: a page that is not full
\* is not the last ("we keep paginating").
SnapshotIsComplete ==
  rows # Nothing /\ ~hollow /\ pages < MaxPages => rows = Expected(Today)

\* The script comes to an end, whatever the servers answer.
BuildEnds == <>(phase \in {"done", "raised"})
=============================================================================
