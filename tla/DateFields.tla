------------------------------ MODULE DateFields ------------------------------
(***************************************************************************)
(* The clocks and calendars of the admin's time and date fields            *)
(* (admin/js/admin/DateTimeShortcuts.js, calendar.js and the date helpers  *)
(* of core.js).  A box per field is appended to the body and known by a    *)
(* number; inlines.js sets up all fields again whenever a row is added, so *)
(* that a field may have had several boxes.                                *)
(***************************************************************************)
EXTENDS Integers, Sequences, FiniteSets

CONSTANTS
    TimeFields, DateFieldsOf,   \* the inputs of class vTimeField and vDateField
    RowFields,          \* those of a row that may be added and removed
    Rebuilds,           \* bound: how often the rows change on one page
    FirstDayOfWeek,     \* 0 for Sunday
    Today,              \* the browser's date, <<year, month, day>>
    ServerDay,          \* how many days the server's date is ahead: -1, 0 or 1
    Mismatch,           \* the time zones of browser and server differ
    Typed,              \* what a user types into a date field, as numbers
    Events              \* bound: uses of the boxes before the page is loaded anew

Fields == TimeFields \union DateFieldsOf

(* A day is typed in two digits; any year and month may be.  *)
DatesAssumption ==
    /\ IsFiniteSet(Fields) /\ TimeFields \intersect DateFieldsOf = {} /\ RowFields \subseteq Fields
    /\ FirstDayOfWeek \in 0 .. 6 /\ ServerDay \in (-1) .. 1
    /\ Today \in Int \X (1 .. 12) \X (1 .. 31)
    /\ \A t \in Typed : t = <<>> \/ t \in Int \X Int \X (0 .. 99)

Kind(f) == IF f \in TimeFields THEN "clock" ELSE "calendar"

VARIABLES
    live,         \* the fields in the document
    inputs,       \* kind -> clockInputs, calendarInputs
    links,        \* field -> numbers its shortcut links in the document use
    warned,       \* field -> time zone warnings next to it
    open,         \* the boxes displayed, <<kind, number>>
    listening,    \* the boxes whose dismiss function listens to the document
    cal,          \* calendars: number -> [month, year]
    value,        \* field -> <<>>, <<hour>> or <<year, month, day>>
    rebuilds, uses  \* bounds: what happened so far

boxes == <<open, listening>>
vars  == <<live, inputs, links, warned, boxes, cal, value, rebuilds, uses>>

-----------------------------------------------------------------------------
(* JavaScript's Date: the number of a day of the proleptic Gregorian       *)
(* calendar (any integer d), its weekday with 0 for Sunday, and back.      *)
DayNumber(y, m, d) ==
    LET a == (14 - m) \div 12
        z == y + 4800 - a
    IN  d + (153 * (m + 12 * a - 3) + 2) \div 5 + 365 * z + z \div 4 - z \div 100 + z \div 400 - 32045
Weekday(n) == (n + 1) % 7
NextMonth(y, m) == IF m = 12 THEN <<y + 1, 1>> ELSE <<y, m + 1>>
PrevMonth(y, m) == IF m = 1 THEN <<y - 1, 12>> ELSE <<y, m - 1>>
Month(y, m)     == 12 * y + m - 1                    \* counted from the year 0
MonthStart(k)   == DayNumber(k \div 12, (k % 12) + 1, 1)
DayOf(n, near)  ==   \* day n, a month before the month near or a few after it
    LET k == CHOOSE i \in near - 1 .. near + 4 : MonthStart(i) <= n /\ n < MonthStart(i + 1)
    IN  <<k \div 12, (k % 12) + 1, n - MonthStart(k) + 1>>
Year(y) == IF y \in 0 .. 99 THEN 1900 + y ELSE y  \* of new Date() and Date.UTC()
Date(t) == LET k == Month(Year(t[1]), t[2]) IN DayOf(MonthStart(k) + t[3] - 1, k)

\* Mutant of isLeapYear: every fourth year.
isFourthYear(y) == y % 4 = 0

(* calendar.js *)
isLeapYear(y) == (y % 4 = 0 /\ y % 100 # 0) \/ y % 400 = 0
getDaysInMonth(m, y) ==
    IF m \in {1, 3, 5, 7, 8, 10, 12} THEN 31
    ELSE IF m \in {4, 6, 9, 11} THEN 30
    ELSE IF m = 2 /\ isLeapYear(y) THEN 29 ELSE 28

(* draw(): the weekday over the column of day d, and the days drawn. *)
startingPos(y, m) == Weekday(DayNumber(Year(y), m, 1 - FirstDayOfWeek))
Header(y, m, d)   == (((startingPos(y, m) + d - 1) % 7) + FirstDayOfWeek) % 7

(* The date strptime() reads from a field; only four-digit years are drawn. *)
IsDate(t) == Len(t) = 3 /\ Date(t)[1] > 999

(* now(): the server's date. *)
now(offset) ==
    DayOf(DayNumber(Today[1], Today[2], Today[3]) + ServerDay + offset, Month(Today[1], Today[2]))

-----------------------------------------------------------------------------
NewCalendar == [month |-> Today[2], year |-> Today[1]]

\* Mutant of Setup: the old shortcuts and warnings are not removed.
SetupOver(fs, ins) ==
    LET seqOf(S) == CHOOSE q \in [1 .. Cardinality(S) -> S] :
                        \A i, j \in DOMAIN q : q[i] = q[j] => i = j
        clocks == ins["clock"] \o seqOf(fs \intersect TimeFields)
        cals   == ins["calendar"] \o seqOf(fs \intersect DateFieldsOf)
    IN  /\ inputs' = [k \in {"clock", "calendar"} |-> IF k = "clock" THEN clocks ELSE cals]
        /\ links' = [f \in Fields |-> { n \in DOMAIN inputs'[Kind(f)] : inputs'[Kind(f)][n] = f }]
        /\ warned' = [f \in Fields |-> IF f \in fs /\ Mismatch THEN warned[f] + 1 ELSE 0]

(* init() over the fields fs, after the old shortcuts were removed: a new  *)
(* number, box and links for each; a warning where there is none yet.      *)
Setup(fs, ins) ==
    LET seqOf(S) == CHOOSE q \in [1 .. Cardinality(S) -> S] :
                        \A i, j \in DOMAIN q : q[i] = q[j] => i = j
        clocks == ins["clock"] \o seqOf(fs \intersect TimeFields)
        cals   == ins["calendar"] \o seqOf(fs \intersect DateFieldsOf)
        both   == [k \in {"clock", "calendar"} |-> IF k = "clock" THEN clocks ELSE cals]
    IN  /\ inputs' = both
        /\ links' = [f \in Fields |-> { n \in DOMAIN both[Kind(f)] :
                        n > Len(ins[Kind(f)]) /\ both[Kind(f)][n] = f }]
        /\ warned' = [f \in Fields |-> IF f \in fs /\ Mismatch THEN 1 ELSE 0]

Init ==
    /\ live = {} /\ inputs = [k \in {"clock", "calendar"} |-> <<>>]
    /\ links = [f \in Fields |-> {}] /\ warned = [f \in Fields |-> 0]
    /\ open = {} /\ listening = {} /\ cal = <<>>
    /\ value = [f \in Fields |-> <<>>] /\ rebuilds = 0 /\ uses = 0

(* The window's load handler. *)
Load ==
    LET fs == Fields \ RowFields IN
    /\ live' = fs
    /\ Setup(fs, [k \in {"clock", "calendar"} |-> <<>>])
    /\ cal' = [n \in DOMAIN inputs'["calendar"] |-> NewCalendar]
    /\ value' = [f \in Fields |-> <<>>]
    /\ open' = {} /\ listening' = {} /\ rebuilds' = 0 /\ uses' = 0

(* A click outside the boxes reaches the document and the dismiss          *)
(* functions that listen there; a click inside a box stops at the box.     *)
DocumentClick == open' = open \ listening /\ listening' = {}
Dismissed(b)  == open' = open \ {b} /\ listening' = listening \ {b}

(* The row of RowFields comes (and every field is set up anew) or goes;    *)
(* the click on its link bubbles up to the document.                       *)
AddRow ==
    /\ rebuilds < Rebuilds /\ ~(RowFields \subseteq live)
    /\ live' = live \union RowFields
    /\ Setup(live', inputs)
    /\ cal' = cal \o [n \in 1 .. Len(inputs'["calendar"]) - Len(cal) |-> NewCalendar]
    /\ value' = [f \in Fields |-> IF f \in RowFields THEN <<>> ELSE value[f]]
    /\ DocumentClick
    /\ rebuilds' = rebuilds + 1
    /\ UNCHANGED uses

RemoveRow ==
    /\ live # {} /\ RowFields \subseteq live
    /\ live' = live \ RowFields
    /\ links' = [f \in Fields |-> IF f \in RowFields THEN {} ELSE links[f]]
    /\ warned' = [f \in Fields |-> IF f \in RowFields THEN 0 ELSE warned[f]]
    /\ DocumentClick
    /\ UNCHANGED <<inputs, cal, value, rebuilds, uses>>

page == <<live, inputs, links, warned, rebuilds>>

\* Mutant of openBox: one dismiss function for all boxes.
openLast(b) == open' = open \union {b} /\ listening' = {b}

(* The icon next to a field; its click does not reach the document. *)
openBox(b) == open' = open \union {b} /\ listening' = listening \union {b}

openClock(n) == openBox(<<"clock", n>>) /\ UNCHANGED <<page, cal, value>>

openCalendar(n) ==
    LET t == value[inputs["calendar"][n]] IN
    /\ openBox(<<"calendar", n>>)
    /\ cal' = IF IsDate(t) THEN [cal EXCEPT ![n] = [month |-> Date(t)[2], year |-> Date(t)[1]]] ELSE cal
    /\ UNCHANGED <<page, value>>

Write(kind, n, t) == value' = [value EXCEPT ![inputs[kind][n]] = t]

(* A link of the list in the clock, or "Now" next to the field (val = -1), *)
(* whose click goes on to the document.                                    *)
handleClockQuicklink(n, val) ==
    /\ Write("clock", n, <<val>>)
    /\ \/ <<"clock", n>> \in open /\ Dismissed(<<"clock", n>>)
       \/ val = -1 /\ n \in UNION { links[f] : f \in TimeFields } /\ DocumentClick
    /\ UNCHANGED <<page, cal>>

handleCalendarQuickLink(n, offset) ==
    /\ Write("calendar", n, now(offset))
    /\ \/ <<"calendar", n>> \in open /\ Dismissed(<<"calendar", n>>)
       \/ offset = 0 /\ n \in UNION { links[f] : f \in DateFieldsOf } /\ DocumentClick
    /\ UNCHANGED <<page, cal>>

(* A day of the calendar: the box is hidden, its function goes on listening. *)
handleCalendarCallback(n, d) ==
    /\ <<"calendar", n>> \in open
    /\ d \in 1 .. getDaysInMonth(cal[n].month, cal[n].year)
    /\ Write("calendar", n, Date(<<cal[n].year, cal[n].month, d>>))
    /\ open' = open \ {<<"calendar", n>>}
    /\ UNCHANGED <<page, listening, cal>>

(* The links of an open calendar to the month before and after. *)
Turn(n, to) ==
    /\ <<"calendar", n>> \in open
    /\ cal' = [cal EXCEPT ![n].year = to[1], ![n].month = to[2]]
    /\ UNCHANGED <<page, boxes, value>>

drawPreviousMonth(n) == Turn(n, PrevMonth(cal[n].year, cal[n].month))
drawNextMonth(n)     == Turn(n, NextMonth(cal[n].year, cal[n].month))

(* The cancel link of a box; Escape, which every box hears; a click        *)
(* elsewhere; typing into a date field.                                    *)
Cancel(b) == b \in open /\ Dismissed(b) /\ UNCHANGED <<page, cal, value>>
Escape == live # {} /\ open' = {} /\ listening' = {} /\ UNCHANGED <<page, cal, value>>
ClickOutside == live # {} /\ DocumentClick /\ UNCHANGED <<page, cal, value>>
Type(f, t) ==
    /\ value' = [value EXCEPT ![f] = t]
    /\ UNCHANGED <<page, boxes, cal>>

Use ==
    \/ Escape \/ ClickOutside \/ \E b \in open : Cancel(b)
    \/ \E f \in live \intersect DateFieldsOf, t \in Typed : Type(f, t)
    \/ \E n \in UNION { links[f] : f \in TimeFields } : openClock(n)
    \/ \E n \in UNION { links[f] : f \in DateFieldsOf } : openCalendar(n)
    \/ \E n \in DOMAIN inputs["clock"], val \in {-1, 0, 12} : handleClockQuicklink(n, val)
    \/ \E n \in DOMAIN inputs["calendar"] :
          \/ \E offset \in -1 .. 1 : handleCalendarQuickLink(n, offset)
          \/ \E d \in {1, 28, 29, 31} : handleCalendarCallback(n, d)
          \/ drawPreviousMonth(n) \/ drawNextMonth(n)

Ops == AddRow \/ RemoveRow \/ (uses < Events /\ Use /\ uses' = uses + 1)

Next == Load \/ Ops
Spec == Init /\ [][Next]_vars

-----------------------------------------------------------------------------
(* Whatever is displayed hears the next click outside: no box is left open *)
(* by a second one, a picked day or a row that came or went.               *)
OpenBoxCanBeDismissed == open \subseteq listening

(* However often the fields were set up, a field has one set of links,     *)
(* they lead to a box that writes into this field, and one warning at most *)
(* stands next to it.                                                      *)
ShortcutsServeTheirField ==
    \A f \in live :
        /\ \E n \in DOMAIN inputs[Kind(f)] : links[f] = {n} /\ inputs[Kind(f)][n] = f
        /\ warned[f] = IF Mismatch THEN 1 ELSE 0

(* Each calendar shows every day of its month once; the month is one of    *)
(* the twelve.  The days stand under their weekdays, but for those of the  *)
(* years 0 to 99, of which draw() asks new Date() and gets 1900 to 1999.   *)
DaysUnderTheirWeekday ==
    \A n \in DOMAIN cal :
        LET y == cal[n].year
            m == cal[n].month
            days == getDaysInMonth(m, y)
            next == NextMonth(y, m)
        IN  /\ m \in 1 .. 12
            /\ y \notin 0 .. 99 =>
                  \A d \in 1 .. days : Header(y, m, d) = Weekday(DayNumber(y, m, d))
            /\ DayNumber(y, m, days) + 1 = DayNumber(next[1], next[2], 1)
=============================================================================
