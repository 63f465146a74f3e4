---------------------- MODULE SnapshotAndPrivacyProofs ----------------------
(***************************************************************************)
(* Two components that share nothing: the price snapshot that the build    *)
(* script writes, for any candles, publications and page size; and privacy *)
(* mode, for any number of sessions, passwords and imports.                *)
(***************************************************************************)
EXTENDS PriceBuild, PrivacyLock, WellFoundedInduction, TLAPS

-----------------------------------------------------------------------------
(* The price snapshot.                                                     *)

(* The servers, the clock and the counters have their types.               *)
Typed ==
  /\ candles \in Candles /\ published \in Publications
  /\ clock \in {Today, Today + 1} /\ now \in {Today, Today + 1} /\ now <= clock
  /\ phase \in {"candles", "rates", "write", "done", "raised"}
  /\ start \in Days /\ pages \in 0 .. MaxPages /\ attempt \in 1 .. MaxRetries
  /\ series \subseteq Days /\ hollow \in BOOLEAN
  /\ phase = "candles" => pages < MaxPages
  /\ rows # Nothing => phase = "done"

Upto(reach) == {d \in candles : d <= reach}

(* However the pages were cut, those read hold the candles up to a day, and *)
(* all up to today unless something ended the loop early.                  *)
Paged ==
  /\ phase = "candles" => series = Upto(start - 1)
  /\ phase \in {"rates", "write"} =>
       /\ series # {} /\ \E reach \in Days : series = Upto(reach)
       /\ ~hollow /\ pages < MaxPages => Upto(Today) \subseteq series

(* The rates are publications, all those from the first candle on with them. *)
Fetched ==
  phase = "write" =>
    /\ DOMAIN rates # {} /\ DOMAIN rates \subseteq DOMAIN published \cap (1 .. Today)
    /\ \A d \in DOMAIN rates : rates[d] = published[d]
    /\ \A d \in DOMAIN published : First <= d /\ d <= Today => d \in DOMAIN rates

(* What the script keeps true at every step.                               *)
BuildInv == Typed /\ Paged /\ Fetched /\ SnapshotIsRight /\ SnapshotIsComplete

-----------------------------------------------------------------------------
(* Days.                                                                   *)

(* A nonempty set of naturals has a least element.                         *)
LEMMA LeastExists ==
  ASSUME NEW S \in SUBSET Nat, S # {}
  PROVE  \E m \in S : \A y \in S : m <= y
<1>1. PICK m \in S : \A y \in S : <<y, m>> \notin OpToRel(<, Nat)
  BY NatLessThanWellFounded, WFMin
<1>2. \A y \in S : ~(y < m)
  BY <1>1 DEF OpToRel
<1>3. QED BY <1>2

(* First and last day of a nonempty set of days.                           *)
LEMMA MinOfDays ==
  ASSUME NEW S \in SUBSET Days, S # {}
  PROVE  Min(S) \in S /\ \A y \in S : Min(S) <= y
<1>1. S \in SUBSET Nat
  BY DEF Days
<1>2. \E m \in S : \A y \in S : m <= y
  BY <1>1, LeastExists
<1>3. QED BY <1>2 DEF Min

LEMMA MaxOfDays ==
  ASSUME NEW S \in SUBSET Days, S # {}
  PROVE  Max(S) \in S /\ \A y \in S : Max(S) >= y
<1> DEFINE Mirror == {Today + 1 - y : y \in S}
<1>1. Today \in Nat /\ \A y \in S : y \in Nat /\ y <= Today + 1
  BY BuildAssumption DEF Days
<1>2. Mirror \in SUBSET Nat /\ Mirror # {}
  BY <1>1
<1>3. PICK m \in Mirror : \A n \in Mirror : m <= n
  <2> HIDE DEF Mirror
  <2> QED BY <1>2, LeastExists
<1>4. PICK x \in S : m = Today + 1 - x
  OBVIOUS
<1>5. \A y \in S : x >= y
  <2> SUFFICES ASSUME NEW y \in S PROVE x >= y
    OBVIOUS
  <2>1. m <= Today + 1 - y
    BY <1>3
  <2>2. QED BY <1>1, <1>4, <2>1
<1>6. QED BY <1>5 DEF Max

(* The greatest of a set of days is the one no other is greater than.      *)
LEMMA MaxIs ==
  ASSUME NEW S \in SUBSET Days, NEW m \in S, \A y \in S : m >= y
  PROVE  Max(S) = m
<1>1. Max(S) \in S /\ Max(S) >= m /\ m >= Max(S)
  BY MaxOfDays
<1>2. \A y \in S : y \in Nat
  BY BuildAssumption DEF Days
<1>3. Max(S) \in Nat /\ m \in Nat
  BY <1>1, <1>2
<1>4. QED BY <1>1, <1>3

LEMMA MinIs ==
  ASSUME NEW S \in SUBSET Days, NEW m \in S, \A y \in S : m <= y
  PROVE  Min(S) = m
<1>1. Min(S) \in S /\ Min(S) <= m /\ m <= Min(S)
  BY MinOfDays
<1>2. \A y \in S : y \in Nat
  BY BuildAssumption DEF Days
<1>3. Min(S) \in Nat /\ m \in Nat
  BY <1>1, <1>2
<1>4. QED BY <1>1, <1>3

-----------------------------------------------------------------------------
(* Pages of candles.                                                       *)

(* The first page, the next one, and so on hold the candles up to a day.   *)
LEMMA PageContinues ==
  ASSUME Typed, Paged, NEW page, PageAnswered(page)
  PROVE  \/ /\ page # {} /\ ~(page \subseteq series) /\ page \subseteq candles
            /\ series' = {d \in candles : d <= Max(page)}
            /\ Max(page) \in Days /\ Max(page) >= start /\ Max(page) <= clock
         \/ page \subseteq series /\ series' = series /\ ((page = {} /\ Ahead # {}) \/ Ahead = {})
<1>1. /\ page \in Answers /\ series' = series \cup page /\ series = Upto(start - 1)
      /\ candles \subseteq Days /\ start \in Days /\ clock \in Days
  BY BuildAssumption DEF PageAnswered, Paged, Typed, Days
<1>2. \A d \in candles : d \in Nat
  BY <1>1 DEF Days
<1>3. start \in Nat /\ clock \in Nat
  BY <1>1 DEF Days
<1>4. CASE page = {}
  BY <1>1, <1>4
<1>5. CASE page # {} /\ Ahead # {}
  <2>1. PICK last \in Ahead : page = {d \in Ahead : d <= last}
    BY <1>1, <1>5 DEF Answers
  <2>2. last \in candles /\ start <= last /\ last <= clock /\ last \in Nat
    BY <1>2 DEF Ahead
  <2>3. last \in page /\ page \subseteq candles /\ last \notin series
    BY <1>1, <1>2, <1>3, <2>1, <2>2 DEF Upto, Ahead
  <2>4. Max(page) = last
    <3>1. page \in SUBSET Days /\ \A y \in page : last >= y
      BY <1>1, <2>1, <2>2, <1>2 DEF Ahead
    <3>2. QED BY <2>3, <3>1, MaxIs
  <2>5. \A d \in candles : d \in series \cup page <=> d <= last
    BY <1>1, <1>2, <1>3, <2>1, <2>2 DEF Upto, Ahead
  <2>6. series \cup page = {d \in candles : d <= last}
    BY <1>1, <2>3, <2>5 DEF Upto
  <2>7. QED BY <1>1, <1>5, <2>2, <2>3, <2>4, <2>6
<1>6. CASE page # {} /\ Ahead = {}
  <2>1. PICK e \in candles : e <= clock /\ page = {e}
    BY <1>1, <1>6 DEF Answers
  <2>2. ~(start <= e)
    BY <1>6, <2>1 DEF Ahead
  <2>3. e \in series
    BY <1>1, <1>2, <1>3, <2>1, <2>2 DEF Upto
  <2>4. QED BY <1>1, <1>6, <2>1, <2>3
<1>7. QED BY <1>4, <1>5, <1>6

(* The cursor stands behind what was read; a loop that ends has read all   *)
(* candles, unless it ended early.                                         *)
LEMMA PageKeeps ==
  ASSUME Typed, Paged, NEW page, PageAnswered(page)
  PROVE  Typed' /\ Paged'
<1>0. /\ phase = "candles" /\ series = Upto(start - 1)
      /\ pages < MaxPages /\ pages \in 0 .. MaxPages
      /\ candles \subseteq Days /\ start \in Days /\ Today \in Nat \ {0}
      /\ pages' = pages + 1 /\ attempt' = 1 /\ MaxRetries \in Nat \ {0} /\ MaxPages \in Nat \ {0}
      /\ hollow' = (hollow \/ (page = {} /\ Ahead # {}))
      /\ start' = (IF LastPage(page) THEN start ELSE Max(page \cup {start}) + 1)
      /\ phase' = (IF ~LastPage(page) THEN "candles"
                   ELSE IF series' = {} THEN "raised" ELSE "rates")
      /\ UNCHANGED <<candles, published, clock, now, rates, rows>>
  BY BuildAssumption DEF PageAnswered, Typed, Paged
<1>1. /\ clock \in {Today, Today + 1} /\ now \in {Today, Today + 1} /\ now <= clock
      /\ rows = Nothing
  BY <1>0 DEF Typed
<1>2. \A d \in candles : d \in Nat /\ d >= 1 /\ d <= Today + 1
  BY <1>0 DEF Days
<1>3. start \in Nat /\ start >= 1 /\ start <= Today + 1
  BY <1>0 DEF Days
<1>4. CASE page # {} /\ ~(page \subseteq series)
  <2> DEFINE last == Max(page)
  <2>1. /\ series' = {d \in candles : d <= last} /\ page \subseteq candles
        /\ last \in Days /\ last >= start /\ last <= clock
    BY <1>4, PageContinues
  <2>2. last \in page /\ \A y \in page : last >= y
    BY <1>0, <1>4, <2>1, MaxOfDays
  <2>3. Max(page \cup {start}) = last
    <3>1. page \cup {start} \in SUBSET Days /\ \A y \in page \cup {start} : last >= y
      BY <1>0, <2>1, <2>2
    <3> HIDE DEF last
    <3>2. QED BY <2>2, <3>1, MaxIs
  <2> HIDE DEF last
  <2>4. last \in Nat /\ last >= 1 /\ last <= Today + 1
    BY <1>0, <2>1 DEF Days
  <2>5. series' \subseteq Days /\ series' # {}
    BY <1>0, <2>1, <2>2, <2>4
  <2>6. LastPage(page) <=> last + 1 > now \/ pages + 1 = MaxPages
    BY <1>4, <2>3 DEF LastPage
  <2>7. CASE ~LastPage(page)
    <3>1. start' = last + 1 /\ phase' = "candles" /\ last + 1 <= now /\ pages + 1 # MaxPages
      BY <1>0, <1>1, <2>3, <2>4, <2>6, <2>7
    <3>2. start' \in Days /\ start' - 1 = last
      BY <1>0, <1>1, <2>4, <3>1 DEF Days
    <3>3. series' = {d \in candles' : d <= start' - 1}
      BY <1>0, <2>1, <3>2
    <3>4. Typed'
      BY <1>0, <1>1, <2>5, <3>1, <3>2 DEF Typed
    <3>5. Paged'
      BY <3>1, <3>3 DEF Paged, Upto
    <3>6. QED BY <3>4, <3>5
  <2>8. CASE LastPage(page)
    <3>1. start' = start /\ phase' = "rates"
      BY <1>0, <2>5, <2>8
    <3>2. Typed'
      BY <1>0, <1>1, <2>5, <3>1 DEF Typed
    <3>3. pages' < MaxPages => Upto(Today) \subseteq series'
      <4>1. pages' < MaxPages => last >= Today
        BY <1>0, <1>1, <2>4, <2>6, <2>8
      <4>2. ASSUME last >= Today, NEW d \in candles, d <= Today PROVE d \in series'
        <5>1. d <= last
          BY <1>0, <1>2, <2>4, <4>2
        <5>2. QED BY <2>1, <5>1
      <4>3. QED BY <4>1, <4>2 DEF Upto
    <3>4. Paged'
      <4>1. series' = Upto(last)' /\ (Upto(Today))' = Upto(Today)
        BY <1>0, <2>1 DEF Upto
      <4>2. QED BY <2>1, <2>5, <3>1, <3>3, <4>1 DEF Paged
    <3>5. QED BY <3>2, <3>4
  <2>9. QED BY <2>7, <2>8
<1>5. CASE page = {} \/ page \subseteq series
  <2>1. page \subseteq series /\ series' = series /\ ((page = {} /\ Ahead # {}) \/ Ahead = {})
    BY <1>5, PageContinues
  <2>2. LastPage(page)
    BY <2>1 DEF LastPage
  <2>3. start' = start /\ phase' = (IF series = {} THEN "raised" ELSE "rates")
    BY <1>0, <2>1, <2>2
  <2>4. Typed'
    BY <1>0, <1>1, <2>1, <2>3 DEF Typed
  <2>5. Ahead = {} => Upto(Today) \subseteq series
    <3>1. ASSUME Ahead = {}, NEW d \in candles, d <= Today PROVE d \in series
      <4>1. d <= clock /\ ~(start <= d /\ d <= clock)
        BY <1>0, <1>1, <1>2, <3>1 DEF Ahead
      <4>2. d <= start - 1
        BY <1>2, <1>3, <4>1
      <4>3. QED BY <1>0, <4>2 DEF Upto
    <3>2. QED BY <3>1 DEF Upto
  <2>6. ASSUME series # {} PROVE start - 1 \in Days
    <3>1. PICK d \in candles : d <= start - 1
      BY <1>0, <2>6 DEF Upto
    <3>2. d \in Nat /\ d >= 1
      BY <1>2
    <3>3. QED BY <1>0, <1>3, <3>1, <3>2 DEF Days
  <2>7. series = Upto(start - 1)' /\ (Upto(Today))' = Upto(Today)
    BY <1>0, <2>3 DEF Upto
  <2>8. ~hollow' => Ahead = {}
    BY <1>0, <2>1
  <2>9. Paged'
    <3>1. CASE series = {}
      BY <2>3, <3>1 DEF Paged
    <3>2. CASE series # {}
      <4>1. \E reach \in Days : series = Upto(reach)'
        BY <1>0, <2>6, <3>2 DEF Upto
      <4>2. QED BY <2>1, <2>3, <2>5, <2>7, <2>8, <3>2, <4>1 DEF Paged
    <3>3. QED BY <3>1, <3>2
  <2>10. QED BY <2>4, <2>9
<1>6. QED BY <1>4, <1>5

-----------------------------------------------------------------------------
(* The rates of a day.                                                     *)

(* What the range asked for brings.                                        *)
LEMMA RatesKeep ==
  ASSUME Typed, Paged, RatesAnswered
  PROVE  Typed' /\ Paged' /\ Fetched'
<1>1. PICK from \in {First} \cup {d \in DOMAIN published : d < First /\
                                    \A e \in DOMAIN published : e <= d \/ e >= First} :
        LET answer == {d \in DOMAIN published : from <= d /\ d <= Today}
        IN  IF answer = {} THEN phase' = "raised" /\ UNCHANGED rates
            ELSE phase' = "write" /\ rates' = [d \in answer |-> published[d]]
  BY DEF RatesAnswered
<1> DEFINE answer == {d \in DOMAIN published : from <= d /\ d <= Today}
<1>2. /\ phase = "rates" /\ attempt' = 1 /\ MaxRetries \in Nat \ {0}
      /\ UNCHANGED <<candles, published, clock, now, start, pages, series, rows, hollow>>
      /\ series # {} /\ series \in SUBSET Days /\ DOMAIN published \subseteq Days
  BY BuildAssumption DEF RatesAnswered, Typed, Paged
<1>3. Today \in Nat /\ \A d \in Days : d \in Nat /\ d >= 1
  BY BuildAssumption DEF Days
<1>4. First \in Nat /\ from \in Nat /\ from <= First
  <2>1. First \in series
    BY <1>2, MinOfDays DEF First
  <2>2. QED BY <1>2, <1>3, <2>1
<1>5. phase' \in {"raised", "write"}
  BY <1>1
<1>6. Typed'
  BY <1>2, <1>5 DEF Typed
<1>7. Paged'
  BY <1>2, <1>5 DEF Paged, Upto
<1>8. ASSUME phase' = "write"
      PROVE  /\ DOMAIN rates' # {} /\ DOMAIN rates' \subseteq DOMAIN published \cap (1 .. Today)
             /\ \A d \in DOMAIN rates' : rates'[d] = published[d]
             /\ \A d \in DOMAIN published : First <= d /\ d <= Today => d \in DOMAIN rates'
  <2>1. answer # {} /\ rates' = [d \in answer |-> published[d]]
    BY <1>1, <1>8
  <2>2. \A d \in DOMAIN published : First <= d /\ d <= Today => d \in answer
    BY <1>2, <1>3, <1>4
  <2>3. answer \subseteq DOMAIN published \cap (1 .. Today)
    BY <1>2, <1>3
  <2> HIDE DEF answer
  <2>4. QED BY <2>1, <2>2, <2>3
<1>9. First' = First
  BY <1>2 DEF First
<1>10. Fetched'
  BY <1>2, <1>8, <1>9 DEF Fetched
<1>11. QED BY <1>6, <1>7, <1>10

(* The publications from one day to another.                               *)
Between(a, b) == {p \in DOMAIN rates : a <= p /\ p <= b}
Latest(a, b) == IF Between(a, b) = {} THEN Nothing ELSE Max(Between(a, b))

(* Going on by a day changes the latest publication only if there is one.  *)
LEMMA LatestSteps ==
  ASSUME DOMAIN rates \subseteq Days, NEW a \in Nat, NEW d \in Nat, a <= d
  PROVE  Latest(a, d) = IF d \in DOMAIN rates THEN d ELSE Latest(a, d - 1)
<1>1. \A p \in DOMAIN rates : p \in Nat
  BY BuildAssumption DEF Days
<1>2. CASE d \in DOMAIN rates
  <2>1. d \in Between(a, d) /\ \A y \in Between(a, d) : d >= y
    BY <1>1, <1>2 DEF Between
  <2>2. Between(a, d) \in SUBSET Days
    BY DEF Between
  <2>3. Max(Between(a, d)) = d
    BY <2>1, <2>2, MaxIs
  <2>4. QED BY <1>2, <2>1, <2>3 DEF Latest
<1>3. CASE d \notin DOMAIN rates
  <2>1. \A p \in DOMAIN rates : a <= p /\ p <= d <=> a <= p /\ p <= d - 1
    BY <1>1, <1>3
  <2>2. Between(a, d) = Between(a, d - 1)
    BY <2>1 DEF Between
  <2>3. QED BY <1>3, <2>2 DEF Latest
<1>4. QED BY <1>2, <1>3

(* forward_fill_fx carries to a day the latest rates since it starts.  The *)
(* recursion has the solution Latest, and no other: none is wrong first.   *)
LEMMA CarriedIsLatest ==
  ASSUME DOMAIN rates \subseteq Days, NEW from \in Nat, from = Max({First, Min(DOMAIN rates)}),
         from >= 1
  PROVE  Carried = [d \in from .. Today |-> Latest(from, d)]
<1> DEFINE Span == (from - 1) .. Today
           Step(g) == [d \in Span |-> IF d < from THEN Nothing
                                       ELSE IF d \in DOMAIN rates THEN d ELSE g[d - 1]]
           last == CHOOSE g : g = Step(g)
           closed == [d \in Span |-> IF d < from THEN Nothing ELSE Latest(from, d)]
<1>1. Carried = [d \in from .. Today |-> last[d]]
  BY DEF Carried
<1>2. Today \in Nat /\ \A d \in Span : d \in Nat
  BY BuildAssumption
<1>3. ASSUME NEW d \in Span, ~(d < from) PROVE d - 1 \in Span /\ d \in Nat /\ from <= d
  BY <1>2, <1>3
<1>4. closed = Step(closed)
  <2> SUFFICES ASSUME NEW d \in Span PROVE closed[d] = Step(closed)[d]
    OBVIOUS
  <2>1. CASE d < from
    BY <2>1
  <2>2. CASE ~(d < from)
    <3>1. d - 1 \in Span /\ d \in Nat /\ from <= d
      BY <1>3, <2>2
    <3>2. Latest(from, d) = IF d \in DOMAIN rates THEN d ELSE Latest(from, d - 1)
      BY <3>1, LatestSteps
    <3>3. closed[d - 1] = Latest(from, d - 1)
      <4>1. CASE d - 1 < from
        <5>1. Between(from, d - 1) = {}
          <6>1. \A p \in DOMAIN rates : p \in Nat
            BY BuildAssumption DEF Days
          <6>2. QED BY <3>1, <4>1, <6>1 DEF Between
        <5>2. QED BY <3>1, <4>1, <5>1 DEF Latest
      <4>2. CASE ~(d - 1 < from)
        BY <3>1, <4>2
      <4>3. QED BY <4>1, <4>2
    <3>4. QED BY <2>2, <3>2, <3>3
  <2>3. QED BY <2>1, <2>2
<1>5. last = Step(last)
  <2> HIDE DEF Step, closed
  <2> QED BY <1>4
<1> HIDE DEF last
<1>6. \A d \in Span : last[d] = closed[d]
  <2> DEFINE Wrong == {d \in Span : last[d] # closed[d]}
  <2> SUFFICES ASSUME Wrong # {} PROVE FALSE
    OBVIOUS
  <2>1. PICK d \in Wrong : \A e \in Wrong : d <= e
    <3>1. Wrong \in SUBSET Nat
      BY <1>2
    <3> HIDE DEF Wrong
    <3>2. QED BY <3>1, LeastExists
  <2>2. d \in Span /\ last[d] # closed[d]
    BY <2>1
  <2>3. last[d] = Step(last)[d] /\ closed[d] = Step(closed)[d]
    <3> HIDE DEF Step, closed
    <3> QED BY <1>4, <1>5
  <2>4. ~(d < from)
    BY <2>2, <2>3
  <2>5. d - 1 \in Span /\ d \in Nat
    BY <1>3, <2>2, <2>4
  <2>6. last[d - 1] = closed[d - 1]
    <3>1. ~(d <= d - 1)
      BY <2>5
    <3>2. d - 1 \notin Wrong
      BY <2>1, <3>1
    <3> HIDE DEF closed
    <3>3. QED BY <2>5, <3>2
  <2>7. Step(last)[d] = Step(closed)[d]
    <3> HIDE DEF closed
    <3> QED BY <2>2, <2>6
  <2>8. QED BY <2>2, <2>3, <2>7
<1>7. \A d \in from .. Today : last[d] = Latest(from, d)
  <2> SUFFICES ASSUME NEW d \in from .. Today PROVE last[d] = Latest(from, d)
    OBVIOUS
  <2>1. d \in Span /\ ~(d < from)
    BY <1>2
  <2>2. QED BY <1>6, <2>1
<1>8. QED BY <1>1, <1>7

(* The rows written are those the snapshot should have.                    *)
LEMMA RowsAreExpected ==
  ASSUME Typed, Fetched, phase = "write",
         NEW reach \in Days, series = Upto(reach), series # {}
  PROVE  Rows = Expected(reach)
<1>1. /\ DOMAIN rates # {} /\ DOMAIN rates \subseteq DOMAIN published \cap (1 .. Today)
      /\ \A d \in DOMAIN rates : rates[d] = published[d]
      /\ \A d \in DOMAIN published : First <= d /\ d <= Today => d \in DOMAIN rates
      /\ candles \in SUBSET Days /\ series \in SUBSET Days /\ DOMAIN published \in SUBSET Days
      /\ DOMAIN rates \in SUBSET Days
  BY BuildAssumption DEF Fetched, Typed
<1>2. Today \in Nat /\ \A d \in Days : d \in Nat /\ d >= 1
  BY BuildAssumption DEF Days
<1>3. First = Min(candles) /\ First \in series /\ \A d \in series : First <= d
  <2>1. Min(series) \in series /\ \A d \in series : Min(series) <= d
    BY <1>1, MinOfDays
  <2>2. Min(series) \in candles /\ \A d \in candles : Min(series) <= d
    <3>1. \A d \in candles : d \in series \/ ~(d <= reach)
      BY DEF Upto
    <3>2. Min(series) \in Days /\ Min(series) \in candles /\ Min(series) <= reach
      BY <1>1, <2>1 DEF Upto
    <3>3. \A d \in candles : d \in Nat
      BY <1>1, <1>2
    <3>4. reach \in Nat /\ Min(series) \in Nat
      BY <1>2, <3>2
    <3>5. QED BY <2>1, <3>1, <3>2, <3>3, <3>4
  <2>3. Min(candles) = Min(series)
    BY <1>1, <2>2, MinIs
  <2>4. QED BY <2>1, <2>3 DEF First
<1> DEFINE from == Max({First, Min(DOMAIN rates)})
<1>4. /\ Min(DOMAIN rates) \in DOMAIN rates /\ \A p \in DOMAIN rates : Min(DOMAIN rates) <= p
      /\ from \in {First, Min(DOMAIN rates)} /\ from >= First /\ from >= Min(DOMAIN rates)
  <2>1. Min(DOMAIN rates) \in DOMAIN rates /\ \A p \in DOMAIN rates : Min(DOMAIN rates) <= p
    BY <1>1, MinOfDays
  <2>2. {First, Min(DOMAIN rates)} \in SUBSET Days
    BY <1>1, <1>3, <2>1
  <2>3. QED BY <2>1, <2>2, MaxOfDays
<1>5. from \in Nat /\ from >= 1 /\ First \in Nat /\ \A p \in DOMAIN rates : p \in Nat
  BY <1>1, <1>2, <1>3, <1>4
<1>6. Carried = [d \in from .. Today |-> Latest(from, d)]
  BY <1>1, <1>5, CarriedIsLatest
<1> HIDE DEF from
<1> DEFINE Since(d) == {p \in DOMAIN published : First <= p /\ p <= d}
<1>7. ASSUME NEW d \in series, d <= Today
      PROVE  Since(d) = Between(from, d)
  <2>1. d \in Nat /\ First <= d /\ Min(candles) = First
    BY <1>1, <1>2, <1>3
  <2>2. \A p \in DOMAIN published : p \in Nat
    BY <1>1, <1>2
  <2>3. ASSUME NEW p \in DOMAIN published, First <= p, p <= d
        PROVE  p \in DOMAIN rates /\ from <= p
    <3>1. p \in DOMAIN rates
      BY <1>1, <1>2, <1>7, <2>1, <2>2, <2>3
    <3>2. QED BY <1>4, <1>5, <2>3, <3>1
  <2>4. ASSUME NEW p \in DOMAIN rates, from <= p, p <= d
        PROVE  p \in DOMAIN published /\ First <= p
    BY <1>1, <1>4, <1>5, <2>4
  <2>5. QED BY <2>1, <2>3, <2>4 DEF Between
<1>8. ASSUME NEW d \in series, d <= Today, ~(from <= d)
      PROVE  Since(d) = {}
  <2>1. d \in Nat
    BY <1>1, <1>2
  <2>2. QED BY <1>5, <1>7, <1>8, <2>1 DEF Between
<1>9. ASSUME NEW d \in series, d <= Today, from <= d
      PROVE  /\ d \in DOMAIN Carried
             /\ Since(d) = {} => Carried[d] = Nothing
             /\ Since(d) # {} => /\ Carried[d] = Max(Since(d))
                                     /\ Carried[d] # Nothing
                                     /\ rates[Carried[d]] = published[Max(Since(d))]
  <2>1. d \in Nat /\ d \in from .. Today
    BY <1>1, <1>2, <1>5, <1>9
  <2>2. d \in DOMAIN Carried /\ Carried[d] = Latest(from, d)
    BY <1>6, <2>1
  <2>3. Since(d) = {} => Carried[d] = Nothing
    BY <1>7, <1>9, <2>2 DEF Latest
  <2>4. ASSUME Since(d) # {}
        PROVE  /\ Carried[d] = Max(Since(d)) /\ Carried[d] # Nothing
               /\ rates[Carried[d]] = published[Max(Since(d))]
    <3>1. Carried[d] = Max(Between(from, d)) /\ Between(from, d) = Since(d)
      BY <1>7, <1>9, <2>2, <2>4 DEF Latest
    <3>2. Between(from, d) \in SUBSET Days /\ Between(from, d) \subseteq DOMAIN rates
      BY <1>1 DEF Between
    <3>3. Max(Between(from, d)) \in DOMAIN rates
      BY <2>4, <3>1, <3>2, MaxOfDays
    <3>4. Max(Between(from, d)) # Nothing
      BY <1>5, <3>3, BuildAssumption
    <3>5. QED BY <1>1, <3>1, <3>3, <3>4
  <2>5. QED BY <2>2, <2>3, <2>4
<1> DEFINE priced   == {d \in series \cap DOMAIN Carried :
                          Carried[d] # Nothing /\ rates[Carried[d]] = Symbols}
           expected == {e \in candles : /\ e <= reach /\ e <= Today
                                        /\ Since(e) # {}
                                        /\ published[Max(Since(e))] = Symbols}
<1>10. \A d \in series : d \in Nat /\ (d \in DOMAIN Carried <=> from <= d /\ d <= Today)
  BY <1>1, <1>2, <1>5, <1>6
<1>11. \A d \in candles : d \in series <=> d <= reach
  BY DEF Upto
<1>12. priced = expected
  <2>1. ASSUME NEW d \in priced PROVE d \in expected
    <3>1. d \in series /\ d <= Today /\ from <= d /\ d \in candles /\ d <= reach
      BY <1>10, <1>11, <2>1 DEF Upto
    <3>2. Since(d) # {} /\ published[Max(Since(d))] = Symbols
      BY <1>9, <2>1, <3>1
    <3>3. QED BY <3>1, <3>2
  <2>2. ASSUME NEW d \in expected PROVE d \in priced
    <3>1. d \in series /\ d <= Today
      BY <1>11, <2>2
    <3>2. from <= d
      BY <1>8, <2>2, <3>1
    <3>3. d \in DOMAIN Carried /\ Carried[d] # Nothing /\ rates[Carried[d]] = Symbols
      BY <1>9, <2>2, <3>1, <3>2
    <3>4. QED BY <3>1, <3>3
  <2>3. QED BY <2>1, <2>2
<1>13. \A d \in priced : Carried[d] = Max(Since(d))
  <2>1. ASSUME NEW d \in priced PROVE Carried[d] = Max(Since(d))
    <3>1. d \in series /\ from <= d /\ d <= Today /\ Since(d) # {}
      BY <1>10, <1>12, <2>1
    <3>2. QED BY <1>9, <3>1
  <2>2. QED BY <2>1
<1>14. ASSUME NEW d \in candles
       PROVE  /\ Since(d) \subseteq Published(d)
              /\ d \notin Dropped <=> Since(d) # {}
              /\ Since(d) # {} => Max(Published(d)) = Max(Since(d))
  <2>1. \A p \in DOMAIN published : p \in Nat
    BY <1>1, <1>2
  <2>2. Since(d) \subseteq Published(d) /\ (d \notin Dropped <=> Since(d) # {})
    BY <1>3, <1>5, <2>1 DEF Dropped, Published
  <2>3. ASSUME Since(d) # {} PROVE Max(Published(d)) = Max(Since(d))
    <3>1. Since(d) \in SUBSET Days /\ Published(d) \in SUBSET Days
      BY <1>1 DEF Published
    <3>2. Max(Since(d)) \in Since(d)
      BY <2>3, <3>1, MaxOfDays
    <3>3. Max(Published(d)) \in Published(d) /\ \A p \in Published(d) : p <= Max(Published(d))
      BY <2>2, <2>3, <3>1, MaxOfDays
    <3>4. /\ Max(Since(d)) \in Nat /\ Max(Published(d)) \in Nat
          /\ First <= Max(Since(d)) /\ Max(Since(d)) <= Max(Published(d))
      BY <2>1, <2>2, <3>2, <3>3 DEF Published
    <3>5. Max(Published(d)) \in Since(d)
      BY <1>5, <3>3, <3>4 DEF Published
    <3>6. \A p \in Since(d) : p <= Max(Since(d))
      BY <2>3, <3>1, MaxOfDays
    <3>7. QED BY <3>4, <3>5, <3>6
  <2>4. QED BY <2>2, <2>3
<1>15. /\ Rows = {[candle |-> d, rates |-> Carried[d]] : d \in priced}
       /\ Expected(reach) = {[candle |-> d, rates |-> Max(Since(d))] : d \in expected}
  <2>1. Rows = {[candle |-> d, rates |-> Carried[d]] : d \in priced}
    BY DEF Rows
  <2> DEFINE wanted == {e \in candles : /\ e <= reach /\ e <= Today
                                        /\ Published(e) # {}
                                        /\ published[Max(Published(e))] = Symbols}
             row(d) == [candle |-> d, rates |-> Max(Published(d))]
  <2>2. Expected(reach) = {r \in {row(d) : d \in wanted} : r.candle \notin Dropped}
    BY DEF Expected, Promised
  <2>3. \A d \in candles : d \in expected <=> d \in wanted /\ d \notin Dropped
    BY <1>14
  <2>4. \A d \in expected : Max(Since(d)) = Max(Published(d))
    BY <1>14
  <2>5. wanted \subseteq candles /\ expected \subseteq candles
    OBVIOUS
  <2> HIDE DEF wanted, expected, Since
  <2>6. Expected(reach) = {row(d) : d \in expected}
    BY <2>2, <2>3, <2>5
  <2>7. {row(d) : d \in expected} = {[candle |-> d, rates |-> Max(Since(d))] : d \in expected}
    BY <2>4
  <2>8. QED BY <2>1, <2>6, <2>7
<1> HIDE DEF priced, expected
<1>16. QED BY <1>12, <1>13, <1>15

(* What is written is right, and complete unless the loop ended early.     *)
LEMMA WriteKeeps ==
  ASSUME BuildInv, Write
  PROVE  BuildInv'
<1>1. /\ phase = "write" /\ phase' = "done" /\ rows' = Rows
      /\ UNCHANGED <<candles, published, clock, now, start, pages, attempt, series, rates, hollow>>
  BY DEF Write
<1>2. PICK reach \in Days : series = Upto(reach) /\ series # {}
  BY <1>1 DEF BuildInv, Paged
<1>3. rows' = Expected(reach)
  BY <1>1, <1>2, RowsAreExpected DEF BuildInv
<1>4. \A r \in Days : Expected(r)' = Expected(r)
  BY <1>1 DEF Expected, Promised, Dropped, Published
<1>5. ASSUME ~hollow, pages < MaxPages PROVE Expected(reach) = Expected(Today)
  <2>1. Upto(Today) \subseteq Upto(reach)
    BY <1>1, <1>2, <1>5 DEF BuildInv, Paged
  <2>2. Today \in Nat
    BY BuildAssumption
  <2>3. \A d \in candles : d <= Today => d <= reach
    BY <2>1 DEF Upto
  <2>4. \A d \in candles : d <= Today <=> d <= Today /\ d <= Today
    OBVIOUS
  <2>5. {e \in candles : /\ e <= reach /\ e <= Today
                         /\ Published(e) # {} /\ published[Max(Published(e))] = Symbols}
        = {e \in candles : /\ e <= Today /\ e <= Today
                           /\ Published(e) # {} /\ published[Max(Published(e))] = Symbols}
    BY <2>3
  <2>6. QED BY <2>5 DEF Expected, Promised
<1>6. Today \in Days
  BY BuildAssumption DEF Days
<1>7. Typed'
  BY <1>1 DEF BuildInv, Typed
<1>8. Paged' /\ Fetched'
  BY <1>1 DEF Paged, Fetched
<1>9. SnapshotIsRight'
  BY <1>3, <1>4 DEF SnapshotIsRight
<1>10. SnapshotIsComplete'
  BY <1>1, <1>3, <1>4, <1>5, <1>6 DEF SnapshotIsComplete
<1>11. QED BY <1>7, <1>8, <1>9, <1>10 DEF BuildInv

(* Every step of the script, and midnight, keep the invariant.             *)
LEMMA BuildStep == BuildInv /\ [BuildNext]_buildVars => BuildInv'
<1> SUFFICES ASSUME BuildInv, [BuildNext]_buildVars PROVE BuildInv'
  OBVIOUS
<1>1. Typed /\ Paged /\ Fetched
  BY DEF BuildInv
<1>2. ASSUME rows = Nothing, rows' = Nothing PROVE SnapshotIsRight' /\ SnapshotIsComplete'
  BY <1>2 DEF SnapshotIsRight, SnapshotIsComplete
<1>3. CASE \E page \in Answers : PageAnswered(page)
  <2>1. PICK page \in Answers : PageAnswered(page)
    BY <1>3
  <2>2. Typed' /\ Paged'
    BY <1>1, <2>1, PageKeeps
  <2>3. phase' # "write" /\ rows = Nothing /\ rows' = Nothing
    BY <1>1, <2>1 DEF PageAnswered, Typed
  <2>4. QED BY <1>2, <2>2, <2>3 DEF BuildInv, Fetched
<1>4. CASE RatesAnswered
  <2>1. Typed' /\ Paged' /\ Fetched'
    BY <1>1, <1>4, RatesKeep
  <2>2. rows = Nothing /\ rows' = Nothing
    BY <1>1, <1>4 DEF RatesAnswered, Typed
  <2>3. QED BY <1>2, <2>1, <2>2 DEF BuildInv
<1>5. CASE RequestFails
  <2>1. /\ rows = Nothing /\ phase \in {"candles", "rates"}
        /\ UNCHANGED <<candles, published, clock, now, start, pages, series, rates, rows, hollow>>
    BY <1>1, <1>5 DEF RequestFails, Typed
  <2>2. phase' \in {phase, "raised"} /\ attempt' \in 1 .. MaxRetries
    BY <1>1, <1>5, BuildAssumption DEF RequestFails, Typed
  <2>3. Typed'
    BY <1>1, <2>1, <2>2 DEF Typed
  <2>4. Paged' /\ Fetched'
    BY <1>1, <2>1, <2>2 DEF Paged, Fetched, Upto
  <2>5. QED BY <1>2, <2>1, <2>3, <2>4 DEF BuildInv
<1>6. CASE Write
  BY <1>6, WriteKeeps
<1>7. CASE Midnight \/ UNCHANGED buildVars
  <2>1. /\ UNCHANGED <<candles, published, phase, now, start, pages, attempt,
                       series, rates, rows, hollow>>
        /\ clock' \in {Today, Today + 1} /\ clock <= clock'
    BY <1>1, <1>7, BuildAssumption DEF Midnight, buildVars, Typed
  <2>2. Typed'
    BY <1>1, <2>1, BuildAssumption DEF Typed
  <2>3. Paged' /\ Fetched'
    BY <1>1, <2>1 DEF Paged, Fetched, Upto, First
  <2>4. \A r \in Days : Expected(r)' = Expected(r)
    BY <2>1 DEF Expected, Promised, Dropped, Published
  <2>5. SnapshotIsRight'
    BY <2>1, <2>4 DEF BuildInv, SnapshotIsRight
  <2>6. SnapshotIsComplete'
    <3>1. Today \in Days
      BY BuildAssumption DEF Days
    <3>2. QED BY <2>1, <2>4, <3>1 DEF BuildInv, SnapshotIsComplete
  <2>7. QED BY <2>2, <2>3, <2>5, <2>6 DEF BuildInv
<1>8. QED BY <1>3, <1>4, <1>5, <1>6, <1>7 DEF BuildNext

(* It holds before the first page is asked for.                            *)
LEMMA BuildBegins == BuildInit => BuildInv
<1> SUFFICES ASSUME BuildInit PROVE BuildInv
  OBVIOUS
<1>1. Typed
  <2>1. /\ Today \in Nat \ {0} /\ MaxPages \in Nat \ {0} /\ MaxRetries \in Nat \ {0}
        /\ 1 \in Days
    BY BuildAssumption DEF Days
  <2>2. /\ candles \in Candles /\ published \in Publications
        /\ clock \in {Today, Today + 1} /\ now = clock /\ phase = "candles"
        /\ start = 1 /\ pages = 0 /\ attempt = 1
        /\ series = {} /\ rows = Nothing /\ hollow = FALSE
    BY DEF BuildInit
  <2>3. now \in {Today, Today + 1} /\ now <= clock
    BY <2>1, <2>2
  <2>4. start \in Days /\ pages \in 0 .. MaxPages /\ pages < MaxPages /\ attempt \in 1 .. MaxRetries
    BY <2>1, <2>2
  <2>5. QED BY <2>2, <2>3, <2>4 DEF Typed
<1>2. Paged
  <2>1. \A d \in candles : ~(d <= 1 - 1)
    BY BuildAssumption DEF BuildInit, Days
  <2>2. QED BY <2>1 DEF BuildInit, Paged, Upto
<1>3. QED BY <1>1, <1>2 DEF BuildInit, BuildInv, Fetched, SnapshotIsRight, SnapshotIsComplete

(* It holds always.                                                        *)
LEMMA BuildInvariance == BuildSpec => []BuildInv
  BY BuildBegins, BuildStep, PTL DEF BuildSpec

(* The snapshot that is written has no hole and no price from a rate that  *)
(* was already superseded, wherever the pages of fetch_btc_usd were cut    *)
(* and whatever was asked for again (SnapshotIsRight).                     *)
THEOREM SnapshotsAreRight == BuildSpec => []SnapshotIsRight
  BY BuildInvariance, PTL DEF BuildInv

(* It goes on to today unless an answer lacked data that was there or      *)
(* max_pages were read (SnapshotIsComplete).                               *)
THEOREM SnapshotsAreComplete == BuildSpec => []SnapshotIsComplete
  BY BuildInvariance, PTL DEF BuildInv

-----------------------------------------------------------------------------
(* Privacy mode.                                                           *)

(* No cache is from a database still to come, who is unlocked has typed    *)
(* the password of the cached hash, and who sets one knows of none.        *)
Unlocked ==
  \A s \in Sessions :
    /\ looked[s] <= file
    /\ unlocked[s] => cache[s] \in entered[s]
    /\ form[s] # None => cache[s] = None

PrivacyInv == TypeOK /\ Unlocked /\ CachedHashIsStored

(* A session that looks caches what is stored.                             *)
LEMMA LookKeeps ==
  ASSUME PrivacyInv, NEW s \in Sessions, Look(s) PROVE PrivacyInv'
<1> USE PrivacyAssumption DEF PrivacyInv, TypeOK, Look, Enabled, Hash
<1>1. TypeOK'
  OBVIOUS
<1>2. Unlocked'
  BY DEF Unlocked
<1>3. CachedHashIsStored'
  BY DEF CachedHashIsStored
<1>4. QED BY <1>1, <1>2, <1>3

(* A form is submitted only where no hash is known.                        *)
LEMMA SubmitKeeps ==
  ASSUME PrivacyInv, NEW s \in Sessions, NEW p \in Passwords, Submit(s, p) PROVE PrivacyInv'
<1> USE PrivacyAssumption DEF PrivacyInv, TypeOK, Submit, Enabled, Hash
<1>1. form' \in [Sessions -> Form \cup {None}]
  <2>1. [at |-> "hashing", password |-> p, file |-> file] \in Form
    BY DEF Form
  <2>2. QED BY <2>1
<1>2. TypeOK'
  BY <1>1
<1>3. Unlocked' /\ CachedHashIsStored'
  BY DEF Unlocked, CachedHashIsStored
<1>4. QED BY <1>2, <1>3

(* What the form finds changes the form only.                              *)
LEMMA CheckRowKeeps ==
  ASSUME PrivacyInv, NEW s \in Sessions, CheckRow(s) PROVE PrivacyInv'
<1> USE PrivacyAssumption DEF PrivacyInv, TypeOK, CheckRow, Enabled, Hash
<1>1. form' \in [Sessions -> Form \cup {None}]
  <2>1. form[s] \in Form
    OBVIOUS
  <2>2. [form[s] EXCEPT !.at = "inserting", !.file = file] \in Form
    BY <2>1 DEF Form
  <2>3. QED BY <2>2
<1>2. TypeOK'
  BY <1>1
<1>3. Unlocked' /\ CachedHashIsStored'
  BY DEF Unlocked, CachedHashIsStored
<1>4. QED BY <1>2, <1>3

(* The hash is inserted where there is none, and cached with it.           *)
LEMMA InsertKeeps ==
  ASSUME PrivacyInv, NEW s \in Sessions, Insert(s) PROVE PrivacyInv'
<1> USE PrivacyAssumption DEF PrivacyInv, TypeOK, Enabled, Hash
<1>1. /\ form[s] # None /\ form[s] \in Form
      /\ form' = [form EXCEPT ![s] = None]
      /\ UNCHANGED <<file, unlocked, entered>>
  BY DEF Insert
<1>2. form[s].password \in Passwords
  BY <1>1 DEF Form
<1>3. CASE stored = None /\ form[s].file = file
  <2>1. /\ stored' = form[s].password
        /\ cache' = [cache EXCEPT ![s] = form[s].password]
        /\ looked' = [looked EXCEPT ![s] = file]
    BY <1>3 DEF Insert
  <2>2. cache[s] = None /\ ~unlocked[s]
    BY <1>1 DEF Unlocked
  <2>3. TypeOK'
    BY <1>1, <1>2, <2>1
  <2>4. CachedHashIsStored'
    BY <1>1, <1>2, <1>3, <2>1 DEF CachedHashIsStored
  <2>5. Unlocked'
    BY <1>1, <1>2, <2>1, <2>2 DEF Unlocked
  <2>6. QED BY <2>3, <2>4, <2>5
<1>4. CASE UNCHANGED <<stored, cache, looked>>
  BY <1>1, <1>4 DEF Unlocked, CachedHashIsStored
<1>5. QED BY <1>3, <1>4 DEF Insert

(* The password that unlocks was typed.                                    *)
LEMMA UnlockKeeps ==
  ASSUME PrivacyInv, NEW s \in Sessions, NEW p \in Passwords, Unlock(s, p) PROVE PrivacyInv'
<1> USE PrivacyAssumption DEF PrivacyInv, TypeOK, Unlock, Enabled, Hash, Verify
<1>1. unlocked' \in [Sessions -> BOOLEAN] /\ (\A r \in Sessions : unlocked'[r] => Enabled(r)')
  OBVIOUS
<1>2. entered' \in [Sessions -> SUBSET Passwords]
  OBVIOUS
<1>3. TypeOK'
  BY <1>1, <1>2
<1>4. Unlocked'
  BY DEF Unlocked
<1>5. CachedHashIsStored'
  BY DEF CachedHashIsStored
<1>6. QED BY <1>3, <1>4, <1>5

(* Locking takes nothing but the view.                                     *)
LEMMA LockKeeps ==
  ASSUME PrivacyInv, NEW s \in Sessions, Lock(s) PROVE PrivacyInv'
<1> USE PrivacyAssumption DEF PrivacyInv, TypeOK, Lock, Enabled, Hash
<1>1. TypeOK'
  OBVIOUS
<1>2. Unlocked' /\ CachedHashIsStored'
  BY DEF Unlocked, CachedHashIsStored
<1>3. QED BY <1>1, <1>2

(* A reload begins a session that knows nothing.                           *)
LEMMA ReloadKeeps ==
  ASSUME PrivacyInv, NEW s \in Sessions, Reload(s) PROVE PrivacyInv'
<1> USE PrivacyAssumption DEF PrivacyInv, TypeOK, Reload, Enabled, Hash
<1>1. TypeOK'
  OBVIOUS
<1>2. Unlocked'
  BY DEF Unlocked
<1>3. CachedHashIsStored'
  BY DEF CachedHashIsStored
<1>4. QED BY <1>1, <1>2, <1>3

(* After an import no cache is from the database that is live now.         *)
LEMMA ImportKeeps ==
  ASSUME PrivacyInv, NEW hash \in Hash \cup {None}, Import(hash) PROVE PrivacyInv'
<1> USE PrivacyAssumption DEF PrivacyInv, Import
<1>1. TypeOK'
  BY DEF TypeOK, Enabled, Hash
<1>2. Unlocked' /\ CachedHashIsStored'
  BY DEF TypeOK, Unlocked, CachedHashIsStored
<1>3. QED BY <1>1, <1>2

(* The invariant holds always.                                             *)
LEMMA PrivacyInvariance == Spec => []PrivacyInv
<1>1. Init => PrivacyInv
  BY PrivacyAssumption
  DEF Init, PrivacyInv, TypeOK, Unlocked, CachedHashIsStored, Enabled, Hash
<1>2. PrivacyInv /\ [Next]_vars => PrivacyInv'
  <2> SUFFICES ASSUME PrivacyInv, [Next]_vars PROVE PrivacyInv'
    OBVIOUS
  <2>1. CASE Next
    BY <2>1, LookKeeps, SubmitKeeps, CheckRowKeeps, InsertKeeps, UnlockKeeps,
       LockKeeps, ReloadKeeps, ImportKeeps DEF Next
  <2>2. CASE UNCHANGED vars
    BY <2>2 DEF vars, PrivacyInv, TypeOK, Unlocked, CachedHashIsStored, Enabled
  <2>3. QED BY <2>1, <2>2
<1>3. QED BY <1>1, <1>2, PTL DEF Spec

(* The caches and forms have their types, and what is unlocked was locked  *)
(* by a hash (TypeOK).                                                     *)
THEOREM TypeCorrect == Spec => []TypeOK
  BY PrivacyInvariance, PTL DEF PrivacyInv

(* A cached hash is the stored one until an import, however many sessions  *)
(* tried to set theirs (CachedHashIsStored).                               *)
THEOREM CachesAreTrue == Spec => []CachedHashIsStored
  BY PrivacyInvariance, PTL DEF PrivacyInv

(* Values show only before a password is set or after it is typed          *)
(* (MaskedUntilEntered).                                                   *)
THEOREM MasksUntilEntered == Spec => []MaskedUntilEntered
<1>1. PrivacyInv => MaskedUntilEntered
  BY PrivacyAssumption
  DEF PrivacyInv, TypeOK, Unlocked, CachedHashIsStored, MaskedUntilEntered, Visible, Enabled
<1>2. QED BY <1>1, PrivacyInvariance, PTL

(* Only an import replaces a password once it is set (PasswordIsImmutable).*)
THEOREM PasswordsAreImmutable == Spec => PasswordIsImmutable
<1>1. PrivacyInv /\ [Next]_vars => [stored # None /\ stored' # stored => file' # file]_vars
  <2> SUFFICES ASSUME PrivacyInv, Next, stored # None, stored' # stored PROVE file' # file
    OBVIOUS
  <2>1. PICK hash \in Hash \cup {None} : Import(hash)
    BY DEF Next, Submit, Unlock, Look, CheckRow, Insert, Lock, Reload
  <2>2. QED BY <2>1 DEF Import, PrivacyInv, TypeOK
<1>2. QED BY <1>1, PrivacyInvariance, PTL DEF Spec, PasswordIsImmutable
=============================================================================
