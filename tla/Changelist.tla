------------------------------ MODULE Changelist ------------------------------
(***************************************************************************)
(* The action bar of the admin change list (admin/js/actions.js): one      *)
(* check box per row of the page, the box in the head that checks them     *)
(* all, the "select all across pages" link with its hidden input, and the  *)
(* warnings about unsaved changes.  The query set has more rows than the   *)
(* page, which is when the template renders the question.                  *)
(***************************************************************************)
EXTENDS Integers, FiniteSets

CONSTANT N                  \* number of rows of the page

NAssumption == N \in Nat \ {0}

Rows == 1 .. N

VARIABLES
    checked,      \* rows whose box is checked
    lit,          \* rows that carry the class "selected"
    toggle,       \* the box of the head is checked
    across,       \* the hidden input select-across is 1
    shown,        \* which of the four spans of the bar are visible
    barLit,       \* the bar carries the class "selected"
    lastChecked,  \* the row clicked last, 0 for none
    listChanged,  \* list_editable_changed
    restored      \* ghost: the browser restored the form on a reload

bar  == <<toggle, across, shown, barLit>>
form == <<listChanged, restored>>
vars == <<checked, lit, bar, lastChecked, form>>

Spans == {"clear", "question", "all", "counter"}

TypeOK ==
    /\ checked \subseteq Rows /\ lit \subseteq Rows
    /\ toggle \in BOOLEAN /\ across \in BOOLEAN /\ barLit \in BOOLEAN
    /\ shown \subseteq Spans
    /\ lastChecked \in 0 .. N
    /\ listChanged \in BOOLEAN /\ restored \in BOOLEAN

-----------------------------------------------------------------------------
(* The four spans after showQuestion(), showClear() and reset(). *)
Question(s) == (s \ {"clear", "all"}) \union {"question"}
Clear(s)    == (s \ {"question", "counter"}) \union {"clear", "all"}
Reset(s)    == (s \ {"clear", "question", "all"}) \union {"counter"}

\* Mutant of UpdateCounter: clearAcross() forgotten.
UpdateCounterOnly(c, s, a, b) ==
    /\ toggle' = (c = Rows)
    /\ shown'  = IF c = Rows THEN Question(s) ELSE Reset(s)
    /\ across' = a /\ barLit' = b

(* updateCounter() over the boxes c, with the spans s and the input a. *)
UpdateCounter(c, s, a, b) ==
    /\ toggle' = (c = Rows)
    /\ shown'  = IF c = Rows THEN Question(s) ELSE Reset(s)
    /\ across' = (c = Rows /\ a)
    /\ barLit' = (c = Rows /\ b)

\* Mutant of Checker: toggleClass() forgotten.
CheckerBoxes(on) == checked' = (IF on THEN Rows ELSE {}) /\ lit' = lit

(* checker(): every box and every row one way. *)
Checker(on) ==
    /\ checked' = IF on THEN Rows ELSE {}
    /\ lit'     = IF on THEN Rows ELSE {}

(* The ready handler over boxes c and the input a: the rows found checked  *)
(* are lit and updateCounter() runs once for each.  val() is a string and  *)
(* never === 1, so showClear() is not reached.                             *)
Ready(c, a, t) ==
    /\ checked' = c /\ lit' = c
    /\ IF c = {} THEN /\ toggle' = t /\ across' = a /\ barLit' = FALSE
                      /\ shown' = {"counter"}
                 ELSE UpdateCounter(c, {"counter"}, a, FALSE)
    /\ lastChecked' = 0
    /\ listChanged' = FALSE

(* The page before any script ran: the state the tab starts from. *)
Init ==
    /\ checked = {} /\ lit = {} /\ toggle = FALSE /\ across = FALSE
    /\ shown = {} /\ barLit = FALSE /\ lastChecked = 0
    /\ listChanged = FALSE /\ restored = FALSE

(* The page comes from the server: nothing is checked. *)
Load == Ready({}, FALSE, FALSE) /\ restored' = FALSE

(* The page is reloaded or reached by "back" and the browser restores the  *)
(* form: the boxes and the hidden input keep their values.                 *)
Reload == Ready(checked, across, toggle) /\ restored' = TRUE

ClickToggle ==
    LET on == ~toggle IN
    /\ Checker(on)
    /\ UpdateCounter(IF on THEN Rows ELSE {},
                     IF on THEN Question(shown) ELSE Reset(shown), across, barLit)
    /\ UNCHANGED <<lastChecked, form>>

ClickAcross ==
    /\ "question" \in shown
    /\ across' = TRUE
    /\ shown' = Clear(shown)
    /\ barLit' = ~barLit
    /\ UNCHANGED <<checked, lit, toggle, lastChecked, form>>

(* The link "clear selection". *)
ClickClear ==
    /\ "clear" \in shown
    /\ Checker(FALSE)
    /\ UpdateCounter({}, Reset(shown), FALSE, FALSE)
    /\ UNCHANGED <<lastChecked, form>>

(* The rows a shift-click sets: each() flips inrange at the first of the   *)
(* two ends and again at the second, which it leaves out.                  *)
InRange(a, b) == IF a < b THEN a .. b - 1 ELSE b .. a - 1

(* A click on the box of row r, with or without the shift key. *)
ClickRow(r, shift) ==
    LET on    == r \notin checked
        range == IF shift /\ lastChecked # 0 /\ lastChecked # r
                   THEN InRange(lastChecked, r) \union {lastChecked} ELSE {}
        all   == range \union {r}
        Set(s) == IF on THEN s \union all ELSE s \ all
    IN  /\ checked' = Set(checked)
        /\ lit' = Set(lit)
        /\ lastChecked' = r
        /\ UpdateCounter(Set(checked), shown, across, barLit)
        /\ UNCHANGED form

(* A field of a row changes (list_editable). *)
EditRow ==
    /\ listChanged' = TRUE
    /\ UNCHANGED <<checked, lit, bar, lastChecked, restored>>

(* The button "Go": a changed list asks first; the action then runs and    *)
(* the answer replaces the page.  A refused confirm changes nothing.       *)
RunAction(confirmed) ==
    /\ listChanged => confirmed
    /\ Load

(* The button "Save": it asks when an action is selected, whether or not   *)
(* the list changed; the rows are saved and the page is shown again.       *)
Save(action, confirmed) ==
    /\ action => confirmed
    /\ Load

Next ==
    \/ Load \/ Reload \/ ClickToggle \/ ClickAcross \/ ClickClear
    \/ EditRow \/ \E r \in Rows, shift \in BOOLEAN : ClickRow(r, shift)
    \/ \E c \in BOOLEAN : RunAction(c) \/ \E a \in BOOLEAN : Save(a, c)

Spec == Init /\ [][Next]_vars

-----------------------------------------------------------------------------
(* What the user sees is what is checked: the lit rows are the checked     *)
(* ones, the box in the head says whether all are, and the offer to select *)
(* across pages (showQuestion()) or its answer (showClear()) is there      *)
(* exactly then.                                                           *)
BarAgreesWithRows ==
    /\ lit = checked
    /\ toggle = (checked = Rows)
    /\ checked = Rows <=> shown \intersect {"question", "clear"} # {}
    /\ ~({"question", "clear"} \subseteq shown)

(* An action applies to rows the user cannot see only while every row he   *)
(* can see is checked - unchecking one box takes the hidden input back     *)
(* (clearAcross()) - and the bar says so, except on a form the browser     *)
(* restored: "Reinitialize state on page reload" compares the input with   *)
(* the number 1 and never reaches showClear().                             *)
AcrossIsAnnounced ==
    across => /\ checked = Rows
              /\ restored \/ "clear" \in shown
=============================================================================
