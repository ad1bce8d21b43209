--------------------------- MODULE EventCalendar ---------------------------
(***************************************************************************)
(* The event calendar (event-calendar/app.js): the months of the file and   *)
(* which of them are folded away, the grid of a month, the table of a day,  *)
(* and what becomes of a file that cannot be read.                          *)
(*                                                                         *)
(* Dates are the browser's, as it computes them: Day counts the days from   *)
(* 1 January of year 1, a Monday.                                           *)
(***************************************************************************)
EXTENDS Integers, Sequences, FiniteSets, SequencesExt

CONSTANTS
    Years,       \* of the months in the file
    Zones,       \* hours the reader is ahead of UTC
    EventDays    \* days of a month that may have events

VARIABLES
    file,        \* [good, year, month, days]: a month of the file; good: not
                 \* empty; next: the January after it is in the file too
    here,        \* the reader's clock: [zone, year]
    page,        \* "loading", "shown", "failed", or "broken": nothing is said and
                 \* nothing answers a click, though some months may be there
    open         \* the days whose tables are open

vars == <<file, here, page, open>>

-----------------------------------------------------------------------------
(* Dates *)

LeapDaysBefore(y) == ((y - 1) \div 4) - ((y - 1) \div 100) + ((y - 1) \div 400)
IsLeap(y) == LeapDaysBefore(y + 1) # LeapDaysBefore(y)

DaysBefore(y, m) ==
    <<0, 31, 59, 90, 120, 151, 181, 212, 243, 273, 304, 334>>[m]
        + (IF m > 2 /\ IsLeap(y) THEN 1 ELSE 0)

(* Date.UTC, also of a month that is past the end of the year. *)
Day(y, m, d) ==
    LET year == y + ((m - 1) \div 12)
        month == 1 + ((m - 1) % 12)
    IN  365 * (year - 1) + LeapDaysBefore(year) + DaysBefore(year, month) + d - 1

(* getUTCDay, which counts from Sunday. *)
UTCWeekday(day) == (day + 1) % 7

-----------------------------------------------------------------------------
(* The grid *)

(* Fault: the week begins on Sunday in the cells, on Monday in the heads.   *)
LeadFault(y, m) == UTCWeekday(Day(y, m, 1))

(* The empty cells before the first. *)
Lead(y, m) == (UTCWeekday(Day(y, m, 1)) + 6) % 7

(* The last day: day 0 of the next month. *)
LastDay(y, m) == Day(y, m + 1, 0) - Day(y, m, 1) + 1

(* monthGrid: 0 is an empty cell. *)
MonthGrid(y, m) ==
    LET lead == Lead(y, m)
        dim == LastDay(y, m)
        pad == (7 - ((lead + dim) % 7)) % 7
    IN  [i \in 1..lead + dim + pad |-> IF i \in lead + 1..lead + dim THEN i - lead ELSE 0]

(* The column of a cell, as the heads count: 1 is Monday. *)
Column(i) == 1 + ((i - 1) % 7)

(* dowCN: of noon in China, which is four hours past midnight UTC, by the   *)
(* reader's own clock.                                                      *)
DowCN(y, m, d) ==
    LET local == Day(y, m, d) + ((4 + here.zone) \div 24)
    IN  1 + ((UTCWeekday(local) + 6) % 7)

(* A weekday that is shaded as a weekend. *)
Shaded(y, m, d) == (Lead(y, m) + d - 1) % 7 >= 5

-----------------------------------------------------------------------------
(* The months *)

Months == {<<file.year, file.month>>} \cup (IF file.next THEN {<<file.year + 1, 1>>} ELSE {})

(* The keys of the file, sorted as text: by year, then by month.            *)
MonthKeys ==
    LET earlier(k, l) == k[1] < l[1] \/ (k[1] = l[1] /\ k[2] < l[2])
    IN  SetToSortSeq(Months, earlier)

OpenKeys == SelectSeq(MonthKeys, LAMBDA k : k[1] <= here.year)

(* Fault: this year is folded as well. *)
FoldKeysFault == SelectSeq(MonthKeys, LAMBDA k : k[1] >= here.year)

FoldKeys == SelectSeq(MonthKeys, LAMBDA k : k[1] > here.year)

EventDaysOf(k) == IF k = <<file.year, file.month>> THEN file.days ELSE {}

(* renderMonths: the months up to this year, one below the other, and one   *)
(* block for all later ones, which says the years it spans and how many of  *)
(* its days have events.                                                    *)
Fold == [from |-> FoldKeys[1][1], to |-> FoldKeys[Len(FoldKeys)][1],
         months |-> Len(FoldKeys),
         days |-> FoldSeq(LAMBDA k, sum : Cardinality(EventDaysOf(k)) + sum, 0, FoldKeys)]

-----------------------------------------------------------------------------
(* The page *)

Init ==
    /\ file \in [good : BOOLEAN, year : Years, month : 1..12, days : SUBSET EventDays,
                next : BOOLEAN]
    /\ \A d \in file.days : d <= LastDay(file.year, file.month)
    /\ file.good = (file.days # {})
    /\ here \in [zone : Zones, year : Years]
    /\ page = "loading" /\ open = {}

(* The file arrives, or not; one without a day is refused as empty. The     *)
(* line that would say so is hidden before the months are rendered: one     *)
(* that cannot be leaves the months before it, and no message.              *)
Load ==
    /\ page = "loading"
    /\ page' \in {"failed"} \cup (IF file.good THEN {"shown", "broken"} ELSE {})
    /\ UNCHANGED <<file, here, open>>

(* Fault: the table that was open stays.                                    *)
ClickFault(d) ==
    /\ page = "shown" /\ d \in file.days
    /\ open' = IF d \in open THEN open \ {d} ELSE open \cup {d}
    /\ UNCHANGED <<file, here, page>>

(* A click on a day: the table of the month is closed, and another opened,  *)
(* unless it was this one.                                                  *)
Click(d) ==
    /\ page = "shown" /\ d \in file.days
    /\ open' = IF d \in open THEN {} ELSE {d}
    /\ UNCHANGED <<file, here, page>>

Rest == UNCHANGED vars

Next == Load \/ (\E d \in EventDays : Click(d)) \/ Rest

Spec == Init /\ [][Next]_vars

-----------------------------------------------------------------------------
(* Properties *)

(* Every month of the file is on the page once, in order, the open ones     *)
(* before the folded; and the block that hides the later years says which   *)
(* years they are and how many days with events it hides (app.js:119-148).  *)
NoMonthIsLost ==
    /\ page = "shown" =>
          /\ ToSet(OpenKeys \o FoldKeys) = Months
          /\ LET shown == OpenKeys \o FoldKeys
             IN  \A i, j \in DOMAIN shown :
                    i < j => 12 * shown[i][1] + shown[i][2] < 12 * shown[j][1] + shown[j][2]
    /\ page = "shown" /\ FoldKeys # <<>> =>
          /\ Fold.from > here.year
          /\ {k[1] : k \in {k \in Months : k[1] > here.year}} \subseteq Fold.from..Fold.to
          /\ Fold.days = (IF file.year > here.year THEN Cardinality(file.days) ELSE 0)

(* The week day of a date by Zeller's congruence, which counts from a       *)
(* Saturday, and months from March: 1 is Monday here.                       *)
Weekday(y, m, d) ==
    LET month == IF m < 3 THEN m + 12 ELSE m
        year == IF m < 3 THEN y - 1 ELSE y
        century == year \div 100
        within == year % 100
    IN  1 + ((d + ((13 * (month + 1)) \div 5) + within + (within \div 4)
                + (century \div 4) + 5 * century + 5) % 7)

LeapDay(y) == IF y % 4 = 0 /\ (y % 100 # 0 \/ y % 400 = 0) THEN 1 ELSE 0
Length(y, m) == <<31, 28 + LeapDay(y), 31, 30, 31, 30, 31, 31, 30, 31, 30, 31>>[m]

(* The grid of a month holds its days once each, in whole weeks, in the     *)
(* column of their week day, and shades the weekends; the table of a day    *)
(* names the week day its column has, unless the reader's clock is more     *)
(* than four hours behind UTC, and then the one before; and at most one     *)
(* table is open, of a day of the file (app.js:74, 99, 106, 111, 158-162).  *)
GridAgreesWithTheDates ==
    LET y == file.year
        m == file.month
        grid == MonthGrid(y, m)
    IN  page = "shown" =>
            /\ Len(grid) % 7 = 0
            /\ {grid[i] : i \in DOMAIN grid} \ {0} = 1..Length(y, m)
            /\ \A i \in DOMAIN grid : grid[i] # 0 =>
                  /\ Column(i) = Weekday(y, m, grid[i])
                  /\ Shaded(y, m, grid[i]) <=> Column(i) \in {6, 7}
            /\ \A d \in open : DowCN(y, m, d) =
                  IF here.zone >= -4 THEN Weekday(y, m, d) ELSE 1 + ((Weekday(y, m, d) + 5) % 7)
            /\ Cardinality(open) <= 1 /\ open \subseteq file.days

CalendarIsComplete == NoMonthIsLost /\ GridAgreesWithTheDates
=============================================================================
