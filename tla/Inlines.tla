------------------------------- MODULE Inlines -------------------------------
(***************************************************************************)
(* The forms of one inline formset (admin/js/inlines.js): rows the server  *)
(* rendered, rows the user adds by cloning the empty form and may remove   *)
(* again, the management form's TOTAL_FORMS, and the index that prefixes   *)
(* the ids and names of a row's controls and is rewritten on each removal. *)
(***************************************************************************)
EXTENDS Integers, Sequences, FiniteSets

CONSTANTS
    MaxForms,     \* MAX_NUM_FORMS
    Initial,      \* how many forms the server may render (a set of numbers)
    Adds          \* bound: rows the user adds before the page is loaded anew

InlinesAssumption ==
    MaxForms \in Nat /\ Adds \in Nat /\ Initial \subseteq 0 .. MaxForms

(* Rows are named by numbers: what the server rendered, then what is added. *)
Added == MaxForms .. MaxForms + Adds - 1
Forms == 0 .. MaxForms + Adds - 1

VARIABLES
    rows,         \* the elements of class dynamic-<prefix>, in page order
    index,        \* form -> the number in the ids and names of its controls
    label,        \* form -> the number in its heading "#n"
    total,        \* TOTAL_FORMS
    nextIndex,    \* the handler's own count
    addShown,     \* the add button exists and is visible
    added         \* rows added since the page was loaded

vars == <<rows, index, label, total, nextIndex, addShown, added>>

Live == { rows[i] : i \in DOMAIN rows }

TypeOK ==
    /\ rows \in Seq(Forms)
    /\ index \in [Forms -> -1 .. MaxForms] /\ label \in [Forms -> 0 .. MaxForms]
    /\ total \in 0 .. MaxForms /\ nextIndex \in 0 .. MaxForms
    /\ addShown \in BOOLEAN
    /\ added \in 0 .. Adds

(* The page before any script ran. *)
Init ==
    /\ rows = <<>> /\ total = 0 /\ nextIndex = 0
    /\ index = [f \in Forms |-> -1] /\ label = [f \in Forms |-> 0]
    /\ addShown = FALSE /\ added = 0

(* formset() over the n forms of the page; the add button is only made     *)
(* while there is room.                                                    *)
Load(n) ==
    /\ rows' = [i \in 1 .. n |-> i - 1]
    /\ index' = [f \in Forms |-> IF f \in 0 .. n - 1 THEN f ELSE -1]
    /\ label' = [f \in Forms |-> IF f \in 0 .. n - 1 THEN f + 1 ELSE 0]
    /\ total' = n /\ nextIndex' = n
    /\ addShown' = (MaxForms - n > 0)
    /\ added' = 0

\* Mutant of Place: the rows keep the numbers they have.
PlaceKept(seq) == [f \in Forms |->
    IF \E i \in DOMAIN seq : seq[i] = f THEN index[f] + 1 ELSE 0]

(* The place of each form in a sequence of rows, counted from 1; 0 if it   *)
(* is not there.                                                           *)
Place(seq) == [f \in Forms |->
    IF \E i \in DOMAIN seq : seq[i] = f THEN CHOOSE i \in DOMAIN seq : seq[i] = f ELSE 0]

(* The sequence without its p-th row. *)
Without(seq, p) == [i \in 1 .. Len(seq) - 1 |-> IF i < p THEN seq[i] ELSE seq[i + 1]]

(* The add button: the clone's controls take the number TOTAL_FORMS, the   *)
(* row goes in before the empty form, and the button hides at the maximum. *)
(* The headings are counted anew (updateInlineLabel(), alternatingRows()). *)
Add ==
    /\ addShown /\ added < Adds
    /\ LET k == MaxForms + added IN
        /\ rows' = Append(rows, k)
        /\ index' = [index EXCEPT ![k] = total]
        /\ label' = Place(rows')
    /\ total' = total + 1
    /\ nextIndex' = nextIndex + 1
    /\ addShown' = (MaxForms - total' > 0)
    /\ added' = added + 1

(* The delete link of the p-th row, which only added rows have: the row    *)
(* goes, TOTAL_FORMS becomes the number of rows left and each of them is   *)
(* numbered anew, in page order.                                           *)
Remove(p) ==
    /\ p \in DOMAIN rows /\ rows[p] \in Added
    /\ rows' = Without(rows, p)
    /\ nextIndex' = nextIndex - 1
    /\ total' = Len(rows')
    /\ addShown' = (addShown \/ MaxForms - Len(rows') > 0)
    /\ index' = [f \in Forms |-> Place(rows')[f] - 1]
    /\ label' = Place(rows')
    /\ UNCHANGED added

Next == \/ \E n \in Initial : Load(n)
        \/ Add
        \/ \E p \in DOMAIN rows : Remove(p)

Spec == Init /\ [][Next]_vars

-----------------------------------------------------------------------------
(* What Django parses: TOTAL_FORMS forms numbered 0, 1, ... in page order, *)
(* no row twice, never more than the maximum and the script's own count    *)
(* the same; and there is an add button only while there is room for one,  *)
(* always then, if there ever was one.                                     *)
FormsContiguous ==
    /\ total = Len(rows) /\ nextIndex = total /\ total <= MaxForms
    /\ \A i \in DOMAIN rows : index[rows[i]] = i - 1 /\ label[rows[i]] = i
    /\ \A i, j \in DOMAIN rows : rows[i] = rows[j] => i = j
    /\ addShown => total < MaxForms
    /\ added > 0 /\ total < MaxForms => addShown
=============================================================================
