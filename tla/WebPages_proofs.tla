---------------------------- MODULE WebPages_proofs ----------------------------
(***************************************************************************)
(* Proofs about the pages of WebPages, for any bounds.  The formset, the   *)
(* change list and the API explorer are taken alone first and then in      *)
(* their places in the site, whose every step is a step of theirs or       *)
(* leaves them alone.  The widgets of the two change forms are proved in   *)
(* the site, over what the formset guarantees (RowFacts).                  *)
(***************************************************************************)
EXTENDS WebPages, Subsequence, Functions, SequenceTheorems, FiniteSetTheorems, TLAPS

-----------------------------------------------------------------------------
(* The formset of a change form, Inlines. *)

\* The row added next is a new one.
NextIsNew == \A i \in DOMAIN rows : rows[i] < MaxForms + added

\* A form that is not on the page has no number.
OnlyRowsNumbered == \A f \in Form!Forms : f \notin Form!Live => index[f] = -1

FormInv == Form!TypeOK /\ Form!FormsContiguous /\ NextIsNew /\ OnlyRowsNumbered

\* A place is counted from 1, every row of a sequence without repetitions is
\* found at its own, and what is not in the sequence has none.
LEMMA PlaceOf ==
    ASSUME NEW seq \in Seq(Form!Forms),
           \A i, j \in DOMAIN seq : seq[i] = seq[j] => i = j
    PROVE  /\ Form!Place(seq) \in [Form!Forms -> 0 .. Len(seq)]
           /\ \A i \in DOMAIN seq : Form!Place(seq)[seq[i]] = i
           /\ \A f \in Form!Forms : (\A i \in DOMAIN seq : seq[i] # f) => Form!Place(seq)[f] = 0
<1>1. DOMAIN seq = 1 .. Len(seq) /\ Len(seq) \in Nat
  OBVIOUS
<1>2. ASSUME NEW f \in Form!Forms PROVE Form!Place(seq)[f] \in 0 .. Len(seq)
  <2>1. CASE \E i \in DOMAIN seq : seq[i] = f
    BY <1>1, <2>1 DEF Form!Place
  <2>2. CASE ~ \E i \in DOMAIN seq : seq[i] = f
    BY <1>1, <2>2 DEF Form!Place
  <2> QED
    BY <2>1, <2>2
<1>3. ASSUME NEW i \in DOMAIN seq PROVE Form!Place(seq)[seq[i]] = i
  <2>1. seq[i] \in Form!Forms /\ \E j \in DOMAIN seq : seq[j] = seq[i]
    BY <1>1
  <2> QED
    BY <2>1 DEF Form!Place
<1>4. Form!Place(seq) = [f \in Form!Forms |-> Form!Place(seq)[f]]
  BY DEF Form!Place
<1>5. ASSUME NEW f \in Form!Forms, \A i \in DOMAIN seq : seq[i] # f PROVE Form!Place(seq)[f] = 0
  BY <1>5 DEF Form!Place
<1> QED
  BY <1>2, <1>3, <1>4, <1>5

\* A function on 1 .. n is a sequence of n elements.
LEMMA LengthOf ==
    ASSUME NEW S, NEW n \in Nat, NEW f \in [1 .. n -> S]
    PROVE  f \in Seq(S) /\ Len(f) = n /\ DOMAIN f = 1 .. n
<1>1. f \in Seq(S) /\ DOMAIN f = 1 .. n
  BY SeqDef
<1>2. DOMAIN f = 1 .. Len(f) /\ Len(f) \in Nat
  BY <1>1, LenProperties
<1> DEFINE m == Len(f)
<1> HIDE DEF m
<1>3. m \in Nat /\ 1 .. m = 1 .. n
  BY <1>1, <1>2 DEF m
<1>4. m <= n
  <2>1. m > 0 => m \in 1 .. n
    BY <1>3
  <2> QED
    BY <1>3, <2>1
<1>5. n <= m
  <2>1. n > 0 => n \in 1 .. m
    BY <1>3
  <2> QED
    BY <1>3, <2>1
<1> QED
  BY <1>1, <1>3, <1>4, <1>5 DEF m

\* Taking the p-th row away leaves the others in their order, none twice.
LEMMA WithoutOne ==
    ASSUME NEW seq \in Seq(Form!Forms), NEW p \in DOMAIN seq,
           \A i, j \in DOMAIN seq : seq[i] = seq[j] => i = j
    PROVE  /\ Form!Without(seq, p) \in Seq(Form!Forms)
           /\ Len(Form!Without(seq, p)) = Len(seq) - 1
           /\ \A i \in DOMAIN Form!Without(seq, p) : \E j \in DOMAIN seq : Form!Without(seq, p)[i] = seq[j]
           /\ \A i, j \in DOMAIN Form!Without(seq, p) :
                 Form!Without(seq, p)[i] = Form!Without(seq, p)[j] => i = j
<1> DEFINE n == Len(seq) - 1
           out == Form!Without(seq, p)
<1>1. DOMAIN seq = 1 .. Len(seq) /\ Len(seq) \in Nat /\ n \in Nat /\ p \in Nat
  OBVIOUS
<1>2. out = [i \in 1 .. n |-> IF i < p THEN seq[i] ELSE seq[i + 1]]
  BY DEF Form!Without
<1>3. ASSUME NEW i \in 1 .. n PROVE out[i] = seq[IF i < p THEN i ELSE i + 1]
                                    /\ (IF i < p THEN i ELSE i + 1) \in DOMAIN seq
  BY <1>1, <1>2
<1>4. out \in [1 .. n -> Form!Forms]
  BY <1>1, <1>2, <1>3
<1>5. out \in Seq(Form!Forms) /\ Len(out) = n /\ DOMAIN out = 1 .. n
  BY <1>1, <1>4, LengthOf
<1>6. ASSUME NEW i \in 1 .. n, NEW j \in 1 .. n, out[i] = out[j] PROVE i = j
  BY <1>1, <1>3, <1>6
<1> HIDE DEF out
<1>7. \A i \in DOMAIN out : \E j \in DOMAIN seq : out[i] = seq[j]
  BY <1>3, <1>5
<1> QED
  BY <1>5, <1>6, <1>7 DEF out

\* The invariant of the formset holds at first and each of its actions keeps it.
LEMMA FormStarts == ASSUME Form!InlinesAssumption PROVE Form!Init => FormInv
<1> SUFFICES ASSUME Form!Init PROVE FormInv
  OBVIOUS
<1> USE DEF Form!Init, Form!InlinesAssumption
<1>1. Form!TypeOK
  <2>1. rows \in Seq(Form!Forms)
    BY EmptySeq
  <2>2. index \in [Form!Forms -> -1 .. MaxForms] /\ label \in [Form!Forms -> 0 .. MaxForms]
    OBVIOUS
  <2>3. addShown \in BOOLEAN
    OBVIOUS
  <2>4. total \in 0 .. MaxForms /\ nextIndex \in 0 .. MaxForms /\ added \in 0 .. Adds
    OBVIOUS
  <2> QED
    BY <2>1, <2>2, <2>3, <2>4 DEF Form!TypeOK
<1>2. Form!FormsContiguous /\ NextIsNew /\ OnlyRowsNumbered
  BY DEF Form!FormsContiguous, NextIsNew, OnlyRowsNumbered
<1> QED
  BY <1>1, <1>2 DEF FormInv

LEMMA LoadKeeps ==
    ASSUME Form!InlinesAssumption, NEW n \in Initial, Form!Load(n)
    PROVE  FormInv'
<1> USE DEF Form!Load, Form!InlinesAssumption, Form!Forms
<1>1. n \in Nat /\ n <= MaxForms /\ 0 .. MaxForms - 1 \subseteq Form!Forms
  OBVIOUS
<1>2. rows' \in [1 .. n -> Form!Forms]
  <2>1. ASSUME NEW i \in 1 .. n PROVE i - 1 \in Form!Forms
    BY <1>1
  <2> QED
    BY <2>1
<1>3. rows' \in Seq(Form!Forms) /\ Len(rows') = n /\ DOMAIN rows' = 1 .. n
  BY <1>1, <1>2, LengthOf
<1>4. Form!TypeOK'
  <2>1. index' \in [Form!Forms -> -1 .. MaxForms] /\ label' \in [Form!Forms -> 0 .. MaxForms]
    BY <1>1
  <2> QED
    BY <1>1, <1>3, <2>1 DEF Form!TypeOK
<1>5. ASSUME NEW i \in DOMAIN rows'
      PROVE  rows'[i] = i - 1 /\ index'[rows'[i]] = i - 1 /\ label'[rows'[i]] = i
  <2>1. i \in 1 .. n /\ rows'[i] = i - 1 /\ i - 1 \in Form!Forms /\ i - 1 \in 0 .. n - 1
    BY <1>1, <1>3
  <2> QED
    BY <1>1, <2>1
<1>6. Form!FormsContiguous'
  <2>1. total' = Len(rows') /\ nextIndex' = total' /\ total' <= MaxForms /\ added' = 0
    BY <1>1, <1>3
  <2>2. addShown' <=> MaxForms - n > 0
    OBVIOUS
  <2>3. MaxForms - n > 0 => total' < MaxForms
    BY <1>1
  <2>4. \A i, j \in DOMAIN rows' : rows'[i] = rows'[j] => i = j
    BY <1>1, <1>3, <1>5
  <2>5. ~(added' > 0)
    BY <2>1
  <2> QED
    BY <1>5, <2>1, <2>2, <2>3, <2>4, <2>5 DEF Form!FormsContiguous
<1>7. NextIsNew'
  BY <1>1, <1>3, <1>5 DEF NextIsNew
<1>8. OnlyRowsNumbered'
  <2>1. ASSUME NEW f \in Form!Forms, f \in 0 .. n - 1 PROVE f \in Form!Live'
    <3>1. f + 1 \in DOMAIN rows' /\ rows'[f + 1] = f
      BY <1>1, <1>3, <1>5, <2>1
    <3> QED
      BY <3>1 DEF Form!Live
  <2> QED
    BY <2>1 DEF OnlyRowsNumbered
<1> QED
  BY <1>4, <1>6, <1>7, <1>8 DEF FormInv

LEMMA AddKeeps == ASSUME Form!InlinesAssumption, FormInv, Form!Add PROVE FormInv'
<1> USE DEF Form!InlinesAssumption
<1> DEFINE k == MaxForms + added
<1>1. /\ rows \in Seq(Form!Forms) /\ added \in 0 .. Adds /\ added < Adds
      /\ total \in Nat /\ nextIndex \in Nat /\ total < MaxForms
      /\ index \in [Form!Forms -> -1 .. MaxForms] /\ Len(rows) = total
      /\ nextIndex = total
  BY DEF FormInv, Form!TypeOK, Form!FormsContiguous, Form!Add
<1>0. \A i \in 1 .. total : rows[i] \in Form!Forms /\ rows[i] < k
  BY <1>1, LenProperties DEF FormInv, NextIsNew
<1>2. k \in Form!Forms /\ rows' = Append(rows, k) /\ added' = added + 1
  BY <1>1 DEF Form!Forms, Form!Add
<1>3. /\ rows' \in Seq(Form!Forms) /\ Len(rows') = total + 1
      /\ DOMAIN rows' = 1 .. total + 1
      /\ \A i \in 1 .. total : rows'[i] = rows[i]
      /\ rows'[total + 1] = k
  BY <1>1, <1>2
<1>4. \A i \in 1 .. total : rows[i] # k
  BY <1>0, <1>1 DEF Form!Forms
<1>5. \A i, j \in DOMAIN rows' : rows'[i] = rows'[j] => i = j
  <2>1. \A i, j \in 1 .. total : rows[i] = rows[j] => i = j
    BY <1>1 DEF FormInv, Form!FormsContiguous
  <2> QED
    BY <1>1, <1>3, <1>4, <2>1
<1>6. /\ label' \in [Form!Forms -> 0 .. total + 1]
      /\ \A i \in DOMAIN rows' : label'[rows'[i]] = i
  <2>1. label' = Form!Place(rows')
    BY DEF Form!Add
  <2> QED
    BY <1>3, <1>5, <2>1, PlaceOf
<1>7. /\ index' = [index EXCEPT ![k] = total] /\ total' = total + 1
      /\ nextIndex' = nextIndex + 1 /\ addShown' = (MaxForms - total' > 0)
  BY DEF Form!Add
<1>8. \A i \in DOMAIN rows' : index'[rows'[i]] = i - 1
  <2>1. \A i \in 1 .. total : index[rows[i]] = i - 1 /\ rows[i] \in Form!Forms
    BY <1>1 DEF FormInv, Form!FormsContiguous
  <2>2. ASSUME NEW i \in DOMAIN rows' PROVE index'[rows'[i]] = i - 1
    <3>1. CASE i \in 1 .. total
      BY <1>1, <1>2, <1>3, <1>4, <1>7, <2>1, <3>1
    <3>2. CASE i = total + 1
      BY <1>1, <1>2, <1>3, <1>7, <3>2
    <3> QED
      BY <1>1, <1>3, <3>1, <3>2
  <2> QED
    BY <2>2
<1>9. Form!TypeOK'
  <2>1. index' \in [Form!Forms -> -1 .. MaxForms]
    BY <1>1, <1>2, <1>7
  <2>2. label' \in [Form!Forms -> 0 .. MaxForms]
    BY <1>1, <1>6
  <2> QED
    BY <1>1, <1>2, <1>3, <1>7, <2>1, <2>2 DEF Form!TypeOK
<1>10. Form!FormsContiguous'
  <2>1. total' = Len(rows') /\ nextIndex' = total' /\ total' <= MaxForms
    BY <1>1, <1>3, <1>7
  <2>2. (addShown' => total' < MaxForms) /\ (total' < MaxForms => addShown')
    <3>1. addShown' <=> MaxForms - total' > 0
      BY <1>7
    <3>2. MaxForms - total' > 0 <=> total' < MaxForms
      BY <1>1, <1>7
    <3> QED
      BY <3>1, <3>2
  <2> QED
    BY <1>5, <1>6, <1>8, <2>1, <2>2 DEF Form!FormsContiguous
<1>11. NextIsNew'
  <2>1. \A i \in 1 .. total : rows[i] < k /\ rows[i] \in Int
    BY <1>0, <1>1 DEF Form!Forms
  <2>2. ASSUME NEW i \in DOMAIN rows' PROVE rows'[i] < MaxForms + added'
    <3>1. CASE i \in 1 .. total
      BY <1>1, <1>2, <1>3, <2>1, <3>1
    <3>2. CASE i = total + 1
      BY <1>1, <1>2, <1>3, <3>2
    <3> QED
      BY <1>1, <1>3, <3>1, <3>2
  <2> QED
    BY <2>2 DEF NextIsNew
<1>12. OnlyRowsNumbered'
  <2>1. k \in Form!Live' /\ Form!Live \subseteq Form!Live'
    <3>1. total + 1 \in DOMAIN rows' /\ 1 .. total \subseteq DOMAIN rows'
      BY <1>1, <1>3
    <3>2. DOMAIN rows = 1 .. total
      BY <1>1, LenProperties
    <3>3. k \in Form!Live'
      BY <1>3, <3>1 DEF Form!Live
    <3>4. Form!Live \subseteq Form!Live'
      BY <1>3, <3>1, <3>2 DEF Form!Live
    <3> QED
      BY <3>3, <3>4
  <2> QED
    BY <1>1, <1>2, <1>7, <2>1 DEF FormInv, OnlyRowsNumbered
<1> QED
  BY <1>9, <1>10, <1>11, <1>12 DEF FormInv

LEMMA RemoveKeeps ==
    ASSUME Form!InlinesAssumption, FormInv, NEW p \in DOMAIN rows, Form!Remove(p)
    PROVE  FormInv'
<1> USE DEF Form!InlinesAssumption
<1>1. /\ rows \in Seq(Form!Forms) /\ added \in 0 .. Adds /\ p \in DOMAIN rows
      /\ Len(rows) = total /\ nextIndex = total /\ total \in 1 .. MaxForms
      /\ addShown \in BOOLEAN
      /\ \A i, j \in DOMAIN rows : rows[i] = rows[j] => i = j
  BY DEF FormInv, Form!TypeOK, Form!FormsContiguous, Form!Remove
<1>2. /\ rows' = Form!Without(rows, p) /\ nextIndex' = nextIndex - 1
      /\ total' = Len(rows') /\ added' = added
      /\ addShown' = (addShown \/ MaxForms - Len(rows') > 0)
      /\ index' = [f \in Form!Forms |-> Form!Place(rows')[f] - 1]
      /\ label' = Form!Place(rows')
  BY DEF Form!Remove
<1>3. /\ rows' \in Seq(Form!Forms) /\ Len(rows') = total - 1
      /\ \A i \in DOMAIN rows' : \E j \in DOMAIN rows : rows'[i] = rows[j]
      /\ \A i, j \in DOMAIN rows' : rows'[i] = rows'[j] => i = j
  <2>1. Len(Form!Without(rows, p)) = Len(rows) - 1
    BY <1>1, WithoutOne
  <2>2. /\ Form!Without(rows, p) \in Seq(Form!Forms)
        /\ \A i \in DOMAIN Form!Without(rows, p) : \E j \in DOMAIN rows : Form!Without(rows, p)[i] = rows[j]
        /\ \A i, j \in DOMAIN Form!Without(rows, p) :
              Form!Without(rows, p)[i] = Form!Without(rows, p)[j] => i = j
    BY <1>1, WithoutOne
  <2> HIDE DEF Form!Without
  <2> QED
    BY <1>1, <1>2, <2>1, <2>2
<1>4. /\ label' \in [Form!Forms -> 0 .. total - 1]
      /\ \A i \in DOMAIN rows' : label'[rows'[i]] = i
      /\ \A f \in Form!Forms : f \notin Form!Live' => label'[f] = 0
  <2>1. label' \in [Form!Forms -> 0 .. total - 1] /\ \A i \in DOMAIN rows' : label'[rows'[i]] = i
    BY <1>2, <1>3, PlaceOf
  <2>2. \A f \in Form!Forms : (\A i \in DOMAIN rows' : rows'[i] # f) => label'[f] = 0
    BY <1>2, <1>3, PlaceOf
  <2>3. \A f \in Form!Forms : f \notin Form!Live' => \A i \in DOMAIN rows' : rows'[i] # f
    BY DEF Form!Live
  <2> QED
    BY <2>1, <2>2, <2>3
<1>5. /\ index' \in [Form!Forms -> -1 .. total - 2]
      /\ \A i \in DOMAIN rows' : index'[rows'[i]] = i - 1
  <2>1. \A i \in DOMAIN rows' : rows'[i] \in Form!Forms
    BY <1>3
  <2>2. \A f \in Form!Forms : label'[f] \in 0 .. total - 1
    BY <1>4
  <2> QED
    BY <1>1, <1>2, <1>4, <2>1, <2>2
<1>6. Form!TypeOK'
  <2>1. index' \in [Form!Forms -> -1 .. MaxForms] /\ label' \in [Form!Forms -> 0 .. MaxForms]
    BY <1>1, <1>4, <1>5
  <2>2. total' \in 0 .. MaxForms /\ nextIndex' \in 0 .. MaxForms
    BY <1>1, <1>2, <1>3
  <2>3. addShown' \in BOOLEAN /\ added' \in 0 .. Adds
    BY <1>1, <1>2
  <2> QED
    BY <1>3, <2>1, <2>2, <2>3 DEF Form!TypeOK
<1>7. Form!FormsContiguous'
  <2>1. total' = Len(rows') /\ nextIndex' = total' /\ total' <= MaxForms
    BY <1>1, <1>2, <1>3
  <2>2. MaxForms - Len(rows') > 0 /\ total' < MaxForms
    BY <1>1, <1>2, <1>3
  <2>3. addShown'
    BY <1>2, <2>2
  <2> QED
    BY <1>1, <1>3, <1>4, <1>5, <2>1, <2>2, <2>3 DEF Form!FormsContiguous
<1>8. NextIsNew'
  BY <1>2, <1>3 DEF FormInv, NextIsNew
<1>9. OnlyRowsNumbered'
  BY <1>2, <1>4 DEF OnlyRowsNumbered
<1> QED
  BY <1>6, <1>7, <1>8, <1>9 DEF FormInv

\* The invariant of a formset is inductive.
LEMMA FormInductive == ASSUME Form!InlinesAssumption PROVE FormInv /\ [Form!Next]_Form!vars => FormInv'
<1> SUFFICES ASSUME FormInv, [Form!Next]_Form!vars PROVE FormInv'
  OBVIOUS
<1>1. CASE Form!Next
  BY <1>1, LoadKeeps, AddKeeps, RemoveKeeps DEF Form!Next
<1>2. CASE UNCHANGED Form!vars
  BY <1>2 DEF Form!vars, FormInv, Form!TypeOK, Form!FormsContiguous, NextIsNew, OnlyRowsNumbered, Form!Live
<1> QED
  BY <1>1, <1>2

LEMMA FormInvariant == ASSUME Form!InlinesAssumption PROVE Form!Spec => []FormInv
  BY FormStarts, FormInductive, PTL DEF Form!Spec

\* Whatever the user adds and removes, no variable leaves its type: no number in
\* an id or a heading exceeds the maximum (inlines.js).
THEOREM FormTypeCorrect == ASSUME Form!InlinesAssumption PROVE Form!Spec => []Form!TypeOK
<1>1. FormInv => Form!TypeOK
  BY DEF FormInv
<1> QED
  BY <1>1, FormInvariant, PTL

\* Whatever the user adds and removes, Django gets TOTAL_FORMS forms numbered
\* from 0 in page order (updateElementIndex() after each removal, inlines.js).
THEOREM AlwaysContiguous == ASSUME Form!InlinesAssumption PROVE Form!Spec => []Form!FormsContiguous
<1>1. FormInv => Form!FormsContiguous
  BY DEF FormInv
<1> QED
  BY <1>1, FormInvariant, PTL

-----------------------------------------------------------------------------
(* The change forms, whose scripts follow the rows of a formset. *)

\* The formset of either form is the one of the page.
LEMMA FiltersForm ==
    /\ Filters!Form!Init <=> Form!Init
    /\ \A n : Filters!Form!Load(n) <=> Form!Load(n)
    /\ Filters!Form!Add <=> Form!Add
    /\ \A p : Filters!Form!Remove(p) <=> Form!Remove(p)
  BY DEF Filters!Form!Init, Form!Init, Filters!Form!Load, Form!Load,
         Filters!Form!Add, Form!Add, Filters!Form!Remove, Form!Remove,
         Filters!Form!Place, Form!Place, Filters!Form!Without, Form!Without,
         Filters!Form!Forms, Form!Forms, Filters!Form!Added, Form!Added

\* The formsets of the two change forms are one: they share their variables.
LEMMA FieldsForm ==
    /\ Fields!Form!Init <=> Form!Init
    /\ \A n : Fields!Form!Load(n) <=> Form!Load(n)
    /\ Fields!Form!Add <=> Form!Add
    /\ \A p : Fields!Form!Remove(p) <=> Form!Remove(p)
  BY DEF Fields!Form!Init, Form!Init, Fields!Form!Load, Form!Load,
         Fields!Form!Add, Form!Add, Fields!Form!Remove, Form!Remove,
         Fields!Form!Place, Form!Place, Fields!Form!Without, Form!Without,
         Fields!Form!Forms, Form!Forms, Fields!Form!Added, Form!Added

\* The widgets of a form that holds selects leave the formset alone.
LEMMA WidgetsKeepRows ==
    ASSUME NEW k, Filters!Use(k)
    PROVE  UNCHANGED rowVars
<1> USE DEF Filters!Use, rowVars, Filters!inl
<1>1. CASE \E b \in Filters!Boxes : Filters!DoubleClick(k, b)
  BY <1>1 DEF Filters!DoubleClick, Filters!Move
<1>2. CASE \E b \in Filters!Boxes : \E s \in SUBSET Filters!All : Filters!Select(k, b, s)
  BY <1>2 DEF Filters!Select
<1>3. CASE \E l \in Filters!Arrows : Filters!Click(k, l)
  BY <1>3 DEF Filters!Click, Filters!Move
<1>4. CASE Filters!KeyRight(k) \/ Filters!KeyEnter(k)
  BY <1>4 DEF Filters!KeyRight, Filters!KeyEnter, Filters!Move
<1>5. CASE \E down \in BOOLEAN : Filters!KeyVertical(k, down)
  BY <1>5 DEF Filters!KeyVertical
<1>6. CASE \E ws \in SUBSET DOMAIN Holds : Filters!Type(k, ws)
  BY <1>6 DEF Filters!Type
<1> QED
  BY <1>1, <1>2, <1>3, <1>4, <1>5, <1>6

\* What a page with filter selects does to its rows is a step of a formset.
LEMMA FiltersStep ==
    ASSUME Filters!Next
    PROVE  Form!Next \/ UNCHANGED rowVars
<1>1. CASE Filters!Loads
  BY <1>1, FiltersForm DEF Filters!Loads, Filters!Load, Form!Next
<1>2. CASE Filters!AddRow
  BY <1>2, FiltersForm DEF Filters!AddRow, Form!Next
<1>3. CASE \E p \in DOMAIN rows : Filters!RemoveRow(p)
  BY <1>3, FiltersForm DEF Filters!RemoveRow, Form!Next
<1>4. CASE Filters!ClosePopup \/ Filters!Submit \/ \E k \in Filters!Form!Live : Filters!OpenPopup(k)
  BY <1>4 DEF Filters!ClosePopup, Filters!Submit, Filters!OpenPopup, Filters!inl, rowVars
<1>5. CASE \E k \in Filters!Form!Live : Filters!Use(k)
  BY <1>5, WidgetsKeepRows
<1> QED
  BY <1>1, <1>2, <1>3, <1>4, <1>5 DEF Filters!Next, Filters!Ops

\* The same of a page with slugs and related objects.
LEMMA FieldsStep ==
    ASSUME Fields!Next
    PROVE  Form!Next \/ UNCHANGED rowVars
<1>1. CASE Fields!Loads
  BY <1>1, FieldsForm DEF Fields!Loads, Fields!Load, Form!Next
<1>2. CASE Fields!AddRow
  BY <1>2, FieldsForm DEF Fields!AddRow, Form!Next
<1>3. CASE \E p \in DOMAIN rows : Fields!RemoveRow(p)
  BY <1>3, FieldsForm DEF Fields!RemoveRow, Form!Next
<1>4. CASE Fields!Use
  <2> USE DEF Fields!inl, rowVars
  <2>1. CASE \E k \in Fields!Form!Live :
               \/ \E t \in Titles : Fields!TypeTitle(k, t) \/ Fields!TypeSlug(k, Fields!URLify(t))
               \/ \E o \in Objects \union {0} : Fields!SelectObject(k, o)
    BY <2>1 DEF Fields!TypeTitle, Fields!TypeSlug, Fields!SelectObject
  <2>2. CASE \E k \in Fields!Form!Live :
               \/ \E kind \in {"add", "change", "delete"} : Fields!Open(k, "select", kind)
               \/ Fields!Open(k, "raw", "lookup")
    BY <2>2 DEF Fields!Open
  <2>3. CASE \E w \in popups : Fields!Cancel(w) \/ Fields!Dismiss(w)
    BY <2>3 DEF Fields!Cancel, Fields!Dismiss
  <2> QED
    BY <1>4, <2>1, <2>2, <2>3 DEF Fields!Use
<1> QED
  BY <1>1, <1>2, <1>3, <1>4 DEF Fields!Next, Fields!Ops

LEMMA InitMaps == Init => Form!Init
  BY FiltersForm DEF Init, Filters!Init

LEMMA StepMaps == [Next]_vars => [Form!Next]_Form!vars
<1> SUFFICES ASSUME [Next]_vars PROVE Form!Next \/ UNCHANGED rowVars
  BY DEF Form!vars, rowVars
<1>1. CASE page = "filters" /\ Filters!Next
  BY <1>1, FiltersStep
<1>2. CASE page = "fields" /\ Fields!Next
  BY <1>2, FieldsStep
<1>3. CASE UNCHANGED rowVars
  BY <1>3
<1> QED
  BY <1>1, <1>2, <1>3 DEF Next, vars, rowVars

\* Whatever their widgets and popups do, the rows of a change form come, go and
\* are numbered as those of the formset alone (inlines.js calls the other
\* scripts and none of them touches a row).
THEOREM FormsRefineInlines == Spec => Form!Spec
  BY InitMaps, StepMaps, PTL DEF Spec, Form!Spec

\* What the invariants of Inlines say of the composition.
RowFacts ==
    /\ FormsContiguous
    /\ rows \in Seq(Fields!Forms)
    /\ \A f \in Fields!Forms : f \notin Fields!Form!Live => index[f] = -1
    /\ NextIsNew /\ added \in Nat /\ DOMAIN index = Fields!Forms

\* What a formset guarantees its widgets holds on every page of the site.
LEMMA FormsetInvariant == Spec => []RowFacts
<1>1. Form!Spec => []FormInv
  BY WebAssumption, FormInvariant
<1>2. FormInv => RowFacts
  BY DEF FormInv, Form!TypeOK, OnlyRowsNumbered, Form!Forms, Form!Live,
         RowFacts, Fields!Forms, Fields!Form!Forms, Fields!Form!Live, FormsContiguous
<1> QED
  BY <1>1, <1>2, FormsRefineInlines, PTL

\* On every page of the site, for any maximum of forms: what Django gets are
\* TOTAL_FORMS forms numbered from 0 in page order.
THEOREM FormsStayContiguous == Spec => []FormsContiguous
<1>1. RowFacts => FormsContiguous
  BY DEF RowFacts
<1> QED
  BY <1>1, FormsetInvariant, PTL

-----------------------------------------------------------------------------
(* The change list, Changelist, alone and in its place. *)

ListInv == C!TypeOK /\ C!BarAgreesWithRows /\ C!AcrossIsAnnounced

\* What updateCounter() establishes over boxes c that match the lit rows, when
\* the input was only set with every row checked and with the answer shown.
LEMMA CounterSettles ==
    ASSUME C!NAssumption, NEW c \in SUBSET C!Rows, NEW s \in SUBSET C!Spans,
           NEW a \in BOOLEAN, NEW b \in BOOLEAN,
           C!UpdateCounter(c, s, a, b), checked' = c, lit' = c,
           a => c # C!Rows \/ restored'
    PROVE  /\ toggle' \in BOOLEAN /\ across' \in BOOLEAN /\ barLit' \in BOOLEAN
           /\ shown' \subseteq C!Spans
           /\ C!BarAgreesWithRows' /\ C!AcrossIsAnnounced'
<1>1. C!Rows # {}
  BY DEF C!NAssumption, C!Rows
<1>2. CASE c = C!Rows
  <2>1. toggle' = TRUE /\ shown' = C!Question(s) /\ across' = a /\ barLit' = b
    BY <1>2 DEF C!UpdateCounter
  <2>2. "question" \in shown' /\ "clear" \notin shown' /\ shown' \subseteq C!Spans
    BY <2>1 DEF C!Question, C!Spans
  <2> QED
    BY <1>2, <2>1, <2>2 DEF C!BarAgreesWithRows, C!AcrossIsAnnounced
<1>3. CASE c # C!Rows
  <2>1. toggle' = FALSE /\ shown' = C!Reset(s) /\ across' = FALSE /\ barLit' = FALSE
    BY <1>3 DEF C!UpdateCounter
  <2>2. "question" \notin shown' /\ "clear" \notin shown' /\ shown' \subseteq C!Spans
    BY <2>1 DEF C!Reset, C!Spans
  <2> QED
    BY <1>3, <2>1, <2>2 DEF C!BarAgreesWithRows, C!AcrossIsAnnounced
<1> QED
  BY <1>2, <1>3

\* The invariant of the change list holds at first and each of its actions keeps it.
LEMMA ListStarts == ASSUME C!NAssumption PROVE C!Init => ListInv
<1> SUFFICES ASSUME C!Init PROVE ListInv
  OBVIOUS
<1>1. C!Rows # {}
  BY DEF C!NAssumption, C!Rows
<1>2. C!TypeOK
  <2>1. lastChecked \in 0 .. N
    BY DEF C!Init, C!NAssumption
  <2>2. checked \subseteq C!Rows /\ lit \subseteq C!Rows /\ shown \subseteq C!Spans
    BY DEF C!Init
  <2>3. /\ toggle \in BOOLEAN /\ across \in BOOLEAN /\ barLit \in BOOLEAN
        /\ listChanged \in BOOLEAN /\ restored \in BOOLEAN
    BY DEF C!Init
  <2> QED
    BY <2>1, <2>2, <2>3 DEF C!TypeOK
<1>3. C!BarAgreesWithRows /\ C!AcrossIsAnnounced
  BY <1>1 DEF C!Init, C!BarAgreesWithRows, C!AcrossIsAnnounced
<1> QED
  BY <1>2, <1>3 DEF ListInv

\* The ready handler, over boxes and an input that were right before.
LEMMA ReadyKeeps ==
    ASSUME C!NAssumption, NEW c \in SUBSET C!Rows, NEW a \in BOOLEAN, NEW t \in BOOLEAN,
           C!Ready(c, a, t), restored' \in BOOLEAN,
           t <=> c = C!Rows, a => c = C!Rows /\ restored'
    PROVE  ListInv'
<1>1. C!Rows # {} /\ N \in Nat
  <2>1. N \in Nat /\ 1 \in 1 .. N
    BY DEF C!NAssumption
  <2> QED
    BY <2>1 DEF C!Rows
<1>2. checked' = c /\ lit' = c /\ lastChecked' = 0 /\ listChanged' = FALSE
  BY DEF C!Ready
<1>0. lastChecked' \in 0 .. N /\ listChanged' \in BOOLEAN
  <2>1. 0 \in 0 .. N
    BY <1>1
  <2> QED
    BY <1>2, <2>1
<1>3. CASE c = {}
  <2>1. toggle' = FALSE /\ across' = FALSE /\ barLit' = FALSE /\ shown' = {"counter"}
    BY <1>1, <1>3 DEF C!Ready
  <2> QED
    <3>1. shown' \subseteq C!Spans /\ checked' \subseteq C!Rows /\ lit' \subseteq C!Rows
      BY <1>2, <2>1 DEF C!Spans
    <3>2. toggle' \in BOOLEAN /\ across' \in BOOLEAN /\ barLit' \in BOOLEAN
      BY <2>1
    <3>3. C!TypeOK'
      BY <1>0, <3>1, <3>2 DEF C!TypeOK
    <3>4. C!BarAgreesWithRows' /\ C!AcrossIsAnnounced'
      BY <1>1, <1>2, <1>3, <2>1 DEF C!BarAgreesWithRows, C!AcrossIsAnnounced
    <3> QED
      BY <3>3, <3>4 DEF ListInv
<1>4. CASE c # {}
  <2>1. C!UpdateCounter(c, {"counter"}, a, FALSE)
    BY <1>4 DEF C!Ready
  <2>2. {"counter"} \in SUBSET C!Spans
    BY DEF C!Spans
  <2>3. /\ toggle' \in BOOLEAN /\ across' \in BOOLEAN /\ barLit' \in BOOLEAN
        /\ shown' \subseteq C!Spans
        /\ C!BarAgreesWithRows' /\ C!AcrossIsAnnounced'
    BY <1>2, <2>1, <2>2, CounterSettles
  <2> QED
    BY <1>0, <1>2, <2>3 DEF ListInv, C!TypeOK
<1> QED
  BY <1>3, <1>4

LEMMA ListLoadKeeps == ASSUME C!NAssumption, C!Load PROVE ListInv'
<1>1. {} \in SUBSET C!Rows /\ ~({} = C!Rows)
  BY DEF C!NAssumption, C!Rows
<1> QED
  BY <1>1, ReadyKeeps DEF C!Load

LEMMA ReloadKeeps == ASSUME C!NAssumption, ListInv, C!Reload PROVE ListInv'
<1>1. /\ checked \in SUBSET C!Rows /\ across \in BOOLEAN /\ toggle \in BOOLEAN
      /\ toggle <=> checked = C!Rows
      /\ across => checked = C!Rows
  BY DEF ListInv, C!TypeOK, C!BarAgreesWithRows, C!AcrossIsAnnounced
<1>2. C!Ready(checked, across, toggle) /\ restored' = TRUE
  BY DEF C!Reload
<1> QED
  BY <1>1, <1>2, ReadyKeeps

LEMMA ToggleKeeps == ASSUME C!NAssumption, ListInv, C!ClickToggle PROVE ListInv'
<1> DEFINE on == ~toggle
           c  == IF on THEN C!Rows ELSE {}
           s  == IF on THEN C!Question(shown) ELSE C!Reset(shown)
<1>1. /\ checked' = c /\ lit' = c /\ C!UpdateCounter(c, s, across, barLit)
      /\ lastChecked' = lastChecked /\ listChanged' = listChanged /\ restored' = restored
  BY DEF C!ClickToggle, C!Checker, C!form
<1>2. c \in SUBSET C!Rows /\ s \in SUBSET C!Spans
  BY DEF ListInv, C!TypeOK, C!Question, C!Reset, C!Spans
<1>3. across => c # C!Rows
  <2>1. C!Rows # {}
    BY DEF C!NAssumption, C!Rows
  <2>2. across => toggle
    BY DEF ListInv, C!BarAgreesWithRows, C!AcrossIsAnnounced
  <2> QED
    BY <2>1, <2>2
<1>4. across \in BOOLEAN /\ barLit \in BOOLEAN
  BY DEF ListInv, C!TypeOK
<1> HIDE DEF c, s
<1>5. /\ toggle' \in BOOLEAN /\ across' \in BOOLEAN /\ barLit' \in BOOLEAN
      /\ shown' \subseteq C!Spans
      /\ C!BarAgreesWithRows' /\ C!AcrossIsAnnounced'
  BY <1>1, <1>2, <1>3, <1>4, CounterSettles
<1> QED
  BY <1>1, <1>2, <1>5 DEF ListInv, C!TypeOK

LEMMA AcrossKeeps == ASSUME C!NAssumption, ListInv, C!ClickAcross PROVE ListInv'
<1>1. /\ "question" \in shown /\ across' = TRUE /\ shown' = C!Clear(shown) /\ barLit' = ~barLit
      /\ checked' = checked /\ lit' = lit /\ toggle' = toggle
      /\ lastChecked' = lastChecked /\ listChanged' = listChanged /\ restored' = restored
  BY DEF C!ClickAcross, C!form
<1>2. "clear" \in shown' /\ "question" \notin shown' /\ shown' \subseteq C!Spans
  BY <1>1 DEF C!Clear, C!Spans, ListInv, C!TypeOK
<1>3. checked = C!Rows
  BY <1>1 DEF ListInv, C!BarAgreesWithRows
<1> QED
  BY <1>1, <1>2, <1>3 DEF ListInv, C!TypeOK, C!BarAgreesWithRows, C!AcrossIsAnnounced

LEMMA ClearKeeps == ASSUME C!NAssumption, ListInv, C!ClickClear PROVE ListInv'
<1>1. /\ checked' = {} /\ lit' = {} /\ C!UpdateCounter({}, C!Reset(shown), FALSE, FALSE)
      /\ lastChecked' = lastChecked /\ listChanged' = listChanged /\ restored' = restored
  BY DEF C!ClickClear, C!Checker, C!form
<1>2. {} \in SUBSET C!Rows /\ C!Reset(shown) \in SUBSET C!Spans
  BY DEF ListInv, C!TypeOK, C!Reset, C!Spans
<1>3. /\ toggle' \in BOOLEAN /\ across' \in BOOLEAN /\ barLit' \in BOOLEAN
      /\ shown' \subseteq C!Spans
      /\ C!BarAgreesWithRows' /\ C!AcrossIsAnnounced'
  BY <1>1, <1>2, CounterSettles
<1> QED
  BY <1>1, <1>3 DEF ListInv, C!TypeOK

\* With or without shift a click checks or unchecks the row itself: afterwards
\* not every row is checked if it was checked before.
LEMMA RowKeeps ==
    ASSUME C!NAssumption, ListInv, NEW r \in C!Rows, NEW shift \in BOOLEAN, C!ClickRow(r, shift)
    PROVE  ListInv'
<1>1. checked \subseteq C!Rows /\ lit = checked /\ N \in Nat /\ lastChecked \in 0 .. N
  BY DEF ListInv, C!TypeOK, C!BarAgreesWithRows, C!NAssumption
<1> DEFINE range == IF shift /\ lastChecked # 0 /\ lastChecked # r
                      THEN C!InRange(lastChecked, r) \union {lastChecked} ELSE {}
           all == range \union {r}
           c   == IF r \notin checked THEN checked \union all ELSE checked \ all
<1>2. /\ checked' = c /\ lit' = c /\ lastChecked' = r
      /\ C!UpdateCounter(c, shown, across, barLit)
      /\ listChanged' = listChanged /\ restored' = restored
  BY <1>1 DEF C!ClickRow, C!form
<1>3. all \subseteq C!Rows
  <2>1. C!InRange(lastChecked, r) \subseteq C!Rows \/ lastChecked = 0
    BY <1>1 DEF C!InRange, C!Rows
  <2>2. lastChecked \in C!Rows \/ lastChecked = 0
    BY <1>1 DEF C!Rows
  <2> QED
    BY <2>1, <2>2
<1>4. c \in SUBSET C!Rows
  BY <1>1, <1>3
<1>5. across => c # C!Rows
  BY DEF ListInv, C!AcrossIsAnnounced
<1>6. across \in BOOLEAN /\ barLit \in BOOLEAN /\ shown \in SUBSET C!Spans
  BY DEF ListInv, C!TypeOK
<1> HIDE DEF c
<1>7. /\ toggle' \in BOOLEAN /\ across' \in BOOLEAN /\ barLit' \in BOOLEAN
      /\ shown' \subseteq C!Spans
      /\ C!BarAgreesWithRows' /\ C!AcrossIsAnnounced'
  BY <1>2, <1>4, <1>5, <1>6, CounterSettles
<1>8. r \in 0 .. N
  BY <1>1 DEF C!Rows
<1> QED
  BY <1>2, <1>4, <1>7, <1>8 DEF ListInv, C!TypeOK

\* The invariant of the change list is inductive.
LEMMA ListInductive == ASSUME C!NAssumption PROVE ListInv /\ [C!Next]_C!vars => ListInv'
<1> SUFFICES ASSUME ListInv, [C!Next]_C!vars PROVE ListInv'
  OBVIOUS
<1>1. CASE C!Load \/ (\E c \in BOOLEAN : C!RunAction(c) \/ \E a \in BOOLEAN : C!Save(a, c))
  BY <1>1, ListLoadKeeps DEF C!RunAction, C!Save
<1>2. CASE C!EditRow
  BY <1>2 DEF C!EditRow, C!bar, ListInv, C!TypeOK, C!BarAgreesWithRows, C!AcrossIsAnnounced
<1>3. CASE UNCHANGED C!vars
  BY <1>3 DEF C!vars, C!bar, C!form, ListInv, C!TypeOK, C!BarAgreesWithRows, C!AcrossIsAnnounced
<1>4. CASE C!Reload \/ C!ClickToggle \/ C!ClickAcross \/ C!ClickClear
  BY <1>4, ReloadKeeps, ToggleKeeps, AcrossKeeps, ClearKeeps
<1>5. CASE \E r \in C!Rows, shift \in BOOLEAN : C!ClickRow(r, shift)
  BY <1>5, RowKeeps
<1> QED
  BY <1>1, <1>2, <1>3, <1>4, <1>5 DEF C!Next

LEMMA ListInvariant == ASSUME C!NAssumption PROVE C!Spec => []ListInv
  BY ListStarts, ListInductive, PTL DEF C!Spec

\* No click takes a variable of the page out of its type (actions.js).
THEOREM ListTypeCorrect == ASSUME C!NAssumption PROVE C!Spec => []C!TypeOK
<1>1. ListInv => C!TypeOK
  BY DEF ListInv
<1> QED
  BY <1>1, ListInvariant, PTL

\* On a page of any length the bar, the box in the head and the lit rows tell
\* which rows are checked (updateCounter() and checker(), actions.js).
THEOREM BarIsRight == ASSUME C!NAssumption PROVE C!Spec => []C!BarAgreesWithRows
<1>1. ListInv => C!BarAgreesWithRows
  BY DEF ListInv
<1> QED
  BY <1>1, ListInvariant, PTL

\* On a page of any length select-across is set only while every row is checked
\* and, on a form the browser did not restore, announced (actions.js).
THEOREM AcrossIsNeverSilent == ASSUME C!NAssumption PROVE C!Spec => []C!AcrossIsAnnounced
<1>1. ListInv => C!AcrossIsAnnounced
  BY DEF ListInv
<1> QED
  BY <1>1, ListInvariant, PTL

\* The site lets the change list run as Changelist says: no other page's script
\* touches it (actions.js is loaded by change_list.html alone).
THEOREM SiteRefinesChangelist == Spec => C!Spec
<1>1. Init => C!Init
  BY DEF Init
<1>2. [Next]_vars => [C!Next]_C!vars
  BY DEF Next, vars, listVars, C!vars, C!bar, C!form
<1> QED
  BY <1>1, <1>2, PTL DEF Spec, C!Spec

\* In the composition, for any number of rows: the bar of the change list tells
\* which rows are checked (updateCounter() and checker(), actions.js).
THEOREM BarStaysRight == Spec => []BarAgreesWithRows
  BY WebAssumption, SiteRefinesChangelist, BarIsRight, PTL DEF BarAgreesWithRows

\* In the composition, for any number of rows: select-across is set only while
\* every row is checked and the bar says so (clearAcross(), actions.js).
THEOREM AcrossNeverSilent == Spec => []AcrossIsAnnounced
  BY WebAssumption, SiteRefinesChangelist, AcrossIsNeverSilent, PTL DEF AcrossIsAnnounced

-----------------------------------------------------------------------------
\* For any fields and any number of boxes: a box that is displayed hears the
\* next click outside (DateTimeShortcuts.js).
THEOREM OpenBoxesListen == Spec => []OpenBoxCanBeDismissed
<1> USE DEF OpenBoxCanBeDismissed, Dates!OpenBoxCanBeDismissed
<1>1. Init => OpenBoxCanBeDismissed
  BY DEF Init, Dates!Init
<1>2. OpenBoxCanBeDismissed /\ [Next]_vars => OpenBoxCanBeDismissed'
  <2> SUFFICES ASSUME OpenBoxCanBeDismissed, [Next]_vars PROVE OpenBoxCanBeDismissed'
    OBVIOUS
  <2> USE DEF Dates!DocumentClick, Dates!Dismissed, Dates!openBox
  <2>1. CASE Dates!Load \/ Dates!AddRow \/ Dates!RemoveRow
    BY <2>1 DEF Dates!Load, Dates!AddRow, Dates!RemoveRow
  <2>2. CASE Dates!Use
    <3>1. CASE Dates!Escape \/ Dates!ClickOutside \/ \E b \in open : Dates!Cancel(b)
      BY <3>1 DEF Dates!Escape, Dates!ClickOutside, Dates!Cancel
    <3>2. CASE \E f, t : Dates!Type(f, t)
      BY <3>2 DEF Dates!Type, Dates!boxes
    <3>3. CASE \E n : Dates!openClock(n) \/ Dates!openCalendar(n)
      BY <3>3 DEF Dates!openClock, Dates!openCalendar
    <3>4. CASE \E n, v : Dates!handleClockQuicklink(n, v) \/ Dates!handleCalendarQuickLink(n, v)
      BY <3>4 DEF Dates!handleClockQuicklink, Dates!handleCalendarQuickLink
    <3>5. CASE \E n, d : Dates!handleCalendarCallback(n, d)
      BY <3>5 DEF Dates!handleCalendarCallback
    <3>6. CASE \E n : Dates!drawPreviousMonth(n) \/ Dates!drawNextMonth(n)
      BY <3>6 DEF Dates!drawPreviousMonth, Dates!drawNextMonth, Dates!Turn, Dates!boxes
    <3> QED
      BY <2>2, <3>1, <3>2, <3>3, <3>4, <3>5, <3>6 DEF Dates!Use
  <2>3. CASE UNCHANGED dateVars
    BY <2>3 DEF dateVars
  <2> QED
    BY <2>1, <2>2, <2>3 DEF Next, vars, Dates!Next, Dates!Ops
<1> QED
  BY <1>1, <1>2, PTL DEF Spec

-----------------------------------------------------------------------------
(* What Only gives.  The ranks of a set of places are the numbers from 1   *)
(* to its size, each the rank of one place.                                *)
LEMMA Ranks ==
    ASSUME NEW m \in Nat, NEW I \in SUBSET (1 .. m)
    PROVE  /\ Cardinality(I) \in Nat
           /\ \A i \in I : Rank(I, i) \in 1 .. Cardinality(I)
           /\ \A i, j \in I : Rank(I, i) = Rank(I, j) => i = j
           /\ \A k \in 1 .. Cardinality(I) : \E i \in I : Rank(I, i) = k
<1> DEFINE U(i) == { j \in I : j <= i }
           n == Cardinality(I)
<1>1. IsFiniteSet(I) /\ n \in Nat
  <2>1. 1 \in Int /\ m \in Int
    OBVIOUS
  <2>2. IsFiniteSet(1 .. m)
    BY <2>1, FS_Interval
  <2>3. IsFiniteSet(I)
    BY <2>2, FS_Subset
  <2> QED
    BY <2>3, FS_CardinalityType
<1>2. ASSUME NEW i \in I
      PROVE  /\ IsFiniteSet(U(i)) /\ Cardinality(U(i)) \in 1 .. n
  <2>1. U(i) \in SUBSET I
    OBVIOUS
  <2>2. IsFiniteSet(U(i)) /\ Cardinality(U(i)) <= n
    BY <1>1, <2>1, FS_Subset
  <2>3. i \in U(i)
    OBVIOUS
  <2>4. Cardinality(U(i)) # 0
    BY <2>2, <2>3, FS_EmptySet
  <2>5. Cardinality(U(i)) \in Nat
    BY <2>2, FS_CardinalityType
  <2> HIDE DEF U, n
  <2> QED
    BY <1>1, <2>2, <2>4, <2>5
<1>3. ASSUME NEW i \in I, NEW j \in I, i < j PROVE Cardinality(U(i)) # Cardinality(U(j))
  <2>1. U(i) \in SUBSET U(j)
    <3>1. i \in Int /\ j \in Int /\ \A l \in I : l \in Int
      OBVIOUS
    <3>2. \A l \in I : l <= i => l <= j
      BY <1>3, <3>1
    <3> QED
      BY <3>2
  <2>2. j \in U(j) /\ j \notin U(i)
    BY <1>3
  <2>3. U(i) # U(j)
    BY <2>2
  <2> HIDE DEF U
  <2> QED
    BY <1>2, <2>1, <2>3, FS_Subset
<1>4. \A i, j \in I : Rank(I, i) = Rank(I, j) => i = j
  <2> SUFFICES ASSUME NEW i \in I, NEW j \in I, i # j PROVE Cardinality(U(i)) # Cardinality(U(j))
    BY DEF Rank
  <2>1. i < j \/ j < i
    OBVIOUS
  <2> QED
    BY <1>3, <2>1
<1>5. \A i \in I : Rank(I, i) \in 1 .. n
  BY <1>2 DEF Rank
<1>6. \A k \in 1 .. n : \E i \in I : Rank(I, i) = k
  <2> DEFINE f == [i \in I |-> Rank(I, i)]
  <2>1. f \in Injection(I, 1 .. n)
    BY <1>4, <1>5 DEF Injection, IsInjective
  <2>2. IsFiniteSet(1 .. n) /\ Cardinality(1 .. n) = n
    <3>1. 1 \in Int /\ n \in Int
      BY <1>1
    <3> HIDE DEF n
    <3> QED
      BY <1>1, <3>1, FS_Interval
  <2>3. f \in Surjection(I, 1 .. n)
    <3> HIDE DEF f
    <3> QED
      BY <2>1, <2>2, FS_Injection
  <2> QED
    BY <2>3 DEF Surjection
<1> QED
  BY <1>1, <1>4, <1>5, <1>6

\* Only(s, S) lists the places of s that are in S, each of them once.
LEMMA OnlyPlaces ==
    ASSUME NEW T, NEW s \in Seq(T), NEW S
    PROVE  LET o == Only(s, S)
               I == Places(s, S)
           IN  /\ o \in Seq(T)
               /\ \E p \in [1 .. Len(o) -> I] :
                     /\ \A k \in 1 .. Len(o) : o[k] = s[p[k]]
                     /\ \A k, l \in 1 .. Len(o) : p[k] = p[l] => k = l
                     /\ \A i \in I : \E k \in 1 .. Len(o) : p[k] = i
                     /\ I = 1 .. Len(s) => \A i \in I : Rank(I, i) = i /\ Len(o) = Len(s)
                     /\ \A k \in 1 .. Len(o) : Rank(I, p[k]) = k
<1> DEFINE o == Only(s, S)
           I == Places(s, S)
           n == Cardinality(I)
           p == [k \in 1 .. n |-> CHOOSE i \in I : Rank(I, i) = k]
<1>1. Len(s) \in Nat /\ DOMAIN s = 1 .. Len(s) /\ I \in SUBSET (1 .. Len(s))
  BY DEF Places
<1>2. o = [k \in 1 .. n |-> s[p[k]]]
  BY DEF Only
<1>3. I = 1 .. Len(s) => n = Len(s) /\ \A i \in I : Rank(I, i) = i
  <2> SUFFICES ASSUME I = 1 .. Len(s) PROVE n = Len(s) /\ \A i \in I : Rank(I, i) = i
    OBVIOUS
  <2>1. \A i \in 0 .. Len(s) : Cardinality(1 .. i) = i
    <3>1. \A i \in 0 .. Len(s) : 1 \in Int /\ i \in Int /\ (IF 1 > i THEN 0 ELSE i - 1 + 1) = i
      BY <1>1
    <3> QED
      BY <3>1, FS_Interval
  <2>2. \A i \in I : { j \in I : j <= i } = 1 .. i
    BY <1>1
  <2>3. n = Len(s)
    <3>1. Len(s) \in 0 .. Len(s)
      BY <1>1
    <3> HIDE DEF I
    <3> QED
      BY <2>1, <3>1
  <2>4. ASSUME NEW i \in I PROVE Rank(I, i) = i
    <3>1. i \in 0 .. Len(s)
      BY <1>1
    <3> HIDE DEF I
    <3> QED
      BY <2>1, <2>2, <3>1 DEF Rank
  <2> QED
    BY <2>3, <2>4
<1> HIDE DEF I
<1>4. /\ n \in Nat
      /\ \A i, j \in I : Rank(I, i) = Rank(I, j) => i = j
      /\ \A i \in I : Rank(I, i) \in 1 .. n
      /\ \A k \in 1 .. n : \E i \in I : Rank(I, i) = k
  BY <1>1, Ranks
<1>5. \A k \in 1 .. n : p[k] \in I /\ Rank(I, p[k]) = k
  BY <1>4
<1>6. p \in [1 .. n -> I]
  BY <1>5
<1> HIDE DEF p, n
<1>7. \A k \in 1 .. n : s[p[k]] \in T
  <2>1. \A k \in 1 .. n : p[k] \in 1 .. Len(s)
    BY <1>1, <1>5
  <2> QED
    BY <2>1
<1>8. o \in Seq(T) /\ Len(o) = n /\ \A k \in 1 .. n : o[k] = s[p[k]]
  BY <1>2, <1>4, <1>7
<1>9. \A k, l \in 1 .. n : p[k] = p[l] => k = l
  BY <1>5
<1>10. \A i \in I : \E k \in 1 .. n : p[k] = i
  BY <1>4, <1>5
<1> HIDE DEF o
<1> QED
  BY <1>3, <1>5, <1>6, <1>8, <1>9, <1>10 DEF o, I

\* So it gives the elements that are in the set, each as often as the sequence.
LEMMA OnlyElements ==
    ASSUME NEW T, NEW s \in Seq(T), NEW S
    PROVE  /\ Only(s, S) \in Seq(T)
           /\ Range(Only(s, S)) = Range(s) \intersect S
           /\ IsInjective(s) => IsInjective(Only(s, S))
           /\ Range(s) \subseteq S => Only(s, S) = s
<1> DEFINE o == Only(s, S)
           I == Places(s, S)
<1>1. o \in Seq(T)
  BY OnlyPlaces
<1>2. PICK p \in [1 .. Len(o) -> I] :
                     /\ \A k \in 1 .. Len(o) : o[k] = s[p[k]]
                     /\ \A k, l \in 1 .. Len(o) : p[k] = p[l] => k = l
                     /\ \A i \in I : \E k \in 1 .. Len(o) : p[k] = i
                     /\ I = 1 .. Len(s) => \A i \in I : Rank(I, i) = i /\ Len(o) = Len(s)
                     /\ \A k \in 1 .. Len(o) : Rank(I, p[k]) = k
  BY OnlyPlaces
<1> HIDE DEF o
<1>3. DOMAIN s = 1 .. Len(s) /\ DOMAIN o = 1 .. Len(o) /\ Len(s) \in Nat
  BY <1>1
<1>3a. /\ \A k \in 1 .. Len(o) : p[k] \in I
      /\ \A i : i \in I <=> i \in 1 .. Len(s) /\ s[i] \in S
  BY <1>3 DEF Places
<1>4. Range(o) = Range(s) \intersect S
  <2> HIDE DEF I
  <2>1. ASSUME NEW x \in Range(o) PROVE x \in Range(s) \intersect S
    <3>1. PICK k \in 1 .. Len(o) : o[k] = x
      BY <1>3 DEF Range
    <3>2. x = s[p[k]] /\ p[k] \in 1 .. Len(s) /\ s[p[k]] \in S
      BY <1>2, <1>3a, <3>1
    <3> QED
      BY <1>3, <3>2 DEF Range
  <2>2. ASSUME NEW x \in Range(s) \intersect S PROVE x \in Range(o)
    <3>1. PICK i \in 1 .. Len(s) : s[i] = x
      BY <1>3 DEF Range
    <3>2. PICK k \in 1 .. Len(o) : p[k] = i
      BY <1>2, <1>3a, <3>1
    <3>3. o[k] = x
      BY <1>2, <3>1, <3>2
    <3> QED
      BY <1>3, <3>3 DEF Range
  <2> QED
    BY <2>1, <2>2
<1>5. IsInjective(s) => IsInjective(o)
  <2> HIDE DEF I
  <2> SUFFICES ASSUME IsInjective(s), NEW k \in 1 .. Len(o), NEW l \in 1 .. Len(o), o[k] = o[l]
               PROVE  k = l
    BY <1>3 DEF IsInjective
  <2>1. p[k] \in DOMAIN s /\ p[l] \in DOMAIN s /\ s[p[k]] = s[p[l]]
    BY <1>2, <1>3, <1>3a
  <2>2. p[k] = p[l]
    BY <2>1 DEF IsInjective
  <2> QED
    BY <1>2, <2>2
<1>6. ASSUME Range(s) \subseteq S PROVE o = s
  <2>1. I = 1 .. Len(s)
    BY <1>3, <1>6 DEF Range, Places
  <2>2. CASE Len(s) = 0
    <3>1. Len(o) = 0
      <4>1. \A k \in 1 .. Len(o) : p[k] \in 1 .. 0
        BY <1>2, <2>1, <2>2
      <4>2. Len(o) \in Nat
        BY <1>1
      <4> QED
        BY <4>1, <4>2
    <3> QED
      BY <1>1, <2>2, <3>1
  <2>3. CASE Len(s) # 0
    <3>1. 1 \in I
      BY <1>3, <2>1, <2>3
    <3>2. Len(o) = Len(s) /\ \A i \in I : Rank(I, i) = i
      BY <1>2, <2>1, <3>1
    <3>3. \A k \in 1 .. Len(s) : p[k] = k /\ o[k] = s[k]
      BY <1>2, <2>1, <3>2
    <3> QED
      BY <1>1, <3>2, <3>3
  <2> QED
    BY <2>2, <2>3
<1> QED
  BY <1>1, <1>4, <1>5, <1>6 DEF o

\* The forms use the same operator.
LEMMA FieldsOnly == \A s, S : Fields!Only(s, S) = Only(s, S)
BY Zenon DEF Fields!Only, Fields!Places, Fields!Rank, Fields!Cardinality, Only, Places, Rank, Cardinality

\* The operator is the same in the instances as here.
LEMMA FiltersOnly == \A s, S : Filters!Only(s, S) = Only(s, S)
BY Zenon DEF Filters!Only, Filters!Places, Filters!Rank, Filters!Cardinality, Only, Places, Rank, Cardinality

-----------------------------------------------------------------------------
\* What the popups of the form with plain fields rely on.  Before a popup gave
\* an object another key every select, on the page or not, is right.
FieldFacts ==
    /\ page # "fields" => closed = <<>>
    /\ value = [f \in Fields!Forms |-> value[f]]
    /\ href = [f \in Fields!Forms |-> href[f]]
    /\ raw \in [Fields!Forms -> Seq(Objects)]
    /\ \A w \in popups : w.row \in Fields!Forms /\ w.id \in Nat
    /\ ~renamed => \A f \in Fields!Forms : /\ href[f] = value[f]
                                           /\ value[f] \in options[f] \union {0}

\* No field of a page that is not loaded breaks a fact.
LEMMA FieldsStart == Init => FieldFacts
  BY DEF Init, Fields!Init, Fields!None, Fields!Zero, FieldFacts

\* The rows on the page are forms with a number, different ones.
LEMMA RowsNumbered ==
    ASSUME RowFacts
    PROVE  /\ \A k \in Fields!Form!Live : k \in Fields!Forms /\ index[k] \in Nat
           /\ \A j, k \in Fields!Form!Live : index[j] = index[k] => j = k
<1>1. DOMAIN rows = 1 .. Len(rows) /\ \A i \in DOMAIN rows : rows[i] \in Fields!Forms
  BY DEF RowFacts
<1>2. \A i \in DOMAIN rows : index[rows[i]] = i - 1
  BY DEF RowFacts, FormsContiguous, Form!FormsContiguous
<1>3. \A i \in DOMAIN rows : index[rows[i]] \in Nat
  BY <1>1, <1>2
<1>4. \A i, j \in DOMAIN rows : index[rows[i]] = index[rows[j]] => i = j
  BY <1>1, <1>2
<1> QED
  BY <1>1, <1>3, <1>4 DEF Fields!Form!Live

\* A popup whose row still has the number of its name finds that row alone.
LEMMA FoundAlone ==
    ASSUME RowFacts, FieldFacts, NEW w \in popups, index[w.row] = w.id
    PROVE  Fields!Found(w.id) = {w.row} /\ w.row \in Fields!Forms
<1>1. w.row \in Fields!Forms /\ w.id \in Nat
  BY DEF FieldFacts
<1>2. w.row \in Fields!Form!Live
  <2>1. w.id # -1
    BY <1>1
  <2> QED
    BY <1>1, <2>1 DEF RowFacts
<1> QED
  BY <1>1, <1>2, RowsNumbered DEF Fields!Found

\* The answers of popups keep the selects and the raw fields right.
LEMMA DismissKeeps ==
    ASSUME FieldFacts, page' = page, page = "fields", NEW w \in popups, Fields!Dismiss(w)
    PROVE  FieldFacts'
<1>1. \A v \in popups' : v.row \in Fields!Forms /\ v.id \in Nat
  BY DEF Fields!Dismiss, FieldFacts
<1> USE DEF FieldFacts
<1>2. CASE Fields!DismissDelete(w)
  <2>1. value' = [f \in Fields!Forms |-> value'[f]] /\ href' = [f \in Fields!Forms |-> href'[f]]
    BY <1>2 DEF Fields!DismissDelete
  <2>2. ASSUME ~renamed', NEW f \in Fields!Forms
        PROVE  href'[f] = value'[f] /\ value'[f] \in options'[f] \union {0}
    BY <1>2, <2>2 DEF Fields!DismissDelete, Fields!Reselect
  <2> QED
    BY <1>1, <1>2, <2>1, <2>2 DEF Fields!DismissDelete
<1>3. ASSUME NEW o \in Objects, Fields!DismissLookup(w, o) PROVE FieldFacts'
  <2>1. raw' \in [Fields!Forms -> Seq(Objects)]
    BY <1>3 DEF Fields!DismissLookup
  <2> QED
    BY <1>1, <1>3, <2>1 DEF Fields!DismissLookup
<1>4. ASSUME NEW o \in Objects, Fields!DismissAdd(w, o) PROVE FieldFacts'
  <2>1. value' = [f \in Fields!Forms |-> value'[f]] /\ href' = [f \in Fields!Forms |-> href'[f]]
    BY <1>4 DEF Fields!DismissAdd
  <2>2. ASSUME ~renamed', NEW f \in Fields!Forms
        PROVE  href'[f] = value'[f] /\ value'[f] \in options'[f] \union {0}
    BY <1>4, <2>2 DEF Fields!DismissAdd
  <2> QED
    BY <1>1, <1>4, <2>1, <2>2 DEF Fields!DismissAdd
<1>5. ASSUME NEW o \in Objects, Fields!DismissChange(w, o) PROVE FieldFacts'
  <2>1. value' = [f \in Fields!Forms |-> value'[f]]
    BY <1>5 DEF Fields!DismissChange
  <2>2. ASSUME ~renamed', NEW f \in Fields!Forms
        PROVE  href'[f] = value'[f] /\ value'[f] \in options'[f] \union {0}
    <3>1. ~renamed /\ o = w.object
      BY <1>5, <2>2 DEF Fields!DismissChange
    <3> QED
      BY <1>5, <2>2, <3>1 DEF Fields!DismissChange, Fields!Reselect
  <2> QED
    BY <1>1, <1>5, <2>1, <2>2 DEF Fields!DismissChange
<1> QED
  BY <1>2, <1>3, <1>4, <1>5 DEF Fields!Dismiss

\* Every step of the site keeps the facts about fields.
LEMMA FieldsKeep ==
    ASSUME RowFacts, FieldFacts, [Next]_vars
    PROVE  FieldFacts'
<1>0. page' = page
  BY DEF Next, vars
<1>1. CASE UNCHANGED fieldVars
  BY <1>0, <1>1 DEF fieldVars, FieldFacts
<1>2. CASE page = "fields" /\ Fields!Loads
  BY <1>0, <1>2 DEF Fields!Loads, Fields!Load, Fields!Zero, FieldFacts
<1>3. CASE page = "fields" /\ (Fields!AddRow \/ \E p \in DOMAIN rows : Fields!RemoveRow(p))
  BY <1>0, <1>3 DEF Fields!AddRow, Fields!RemoveRow, Fields!related, FieldFacts
<1>4. CASE page = "fields" /\ Fields!Use
  <2>1. ASSUME NEW k, NEW t, Fields!TypeTitle(k, t) \/ Fields!TypeSlug(k, t) PROVE FieldFacts'
    BY <1>0, <1>4, <2>1 DEF Fields!TypeTitle, Fields!TypeSlug, Fields!related, FieldFacts
  <2>2. ASSUME NEW k, NEW o, Fields!SelectObject(k, o) PROVE FieldFacts'
    BY <1>0, <1>4, <2>2 DEF Fields!SelectObject, FieldFacts
  <2>3. ASSUME NEW k \in Fields!Form!Live, NEW field, NEW kind, Fields!Open(k, field, kind)
        PROVE  FieldFacts'
    <3>1. k \in Fields!Forms /\ index[k] \in Nat
      BY RowsNumbered
    <3>2. \A w \in popups' : w.row \in Fields!Forms /\ w.id \in Nat
      BY <2>3, <3>1 DEF Fields!Open, FieldFacts
    <3> QED
      BY <1>0, <1>4, <2>3, <3>2 DEF Fields!Open, Fields!related, FieldFacts
  <2>4. ASSUME NEW w, Fields!Cancel(w) PROVE FieldFacts'
    BY <1>0, <1>4, <2>4 DEF Fields!Cancel, Fields!related, FieldFacts
  <2>5. ASSUME NEW w \in popups, Fields!Dismiss(w) PROVE FieldFacts'
    BY <1>0, <1>4, <2>5, DismissKeeps
  <2> QED
    BY <1>4, <2>1, <2>2, <2>3, <2>4, <2>5 DEF Fields!Use
<1> QED
  BY <1>1, <1>2, <1>3, <1>4 DEF Next, vars, Fields!Next, Fields!Ops

LEMMA FieldsInvariant == Spec => [](RowFacts /\ FieldFacts)
<1>1. RowFacts /\ FieldFacts /\ [Next]_vars => FieldFacts'
  BY FieldsKeep
<1> QED
  BY <1>1, FieldsStart, FormsetInvariant, PTL DEF Spec

\* For any rows, objects and popups in any order: until a popup gives an object
\* another key, the links next to a select are those of the object selected, and
\* it is one the select offers (RelatedObjectLookups.js).
THEOREM LinksStayRight == Spec => []LinksFollowSelection
<1>1. RowFacts /\ FieldFacts => LinksFollowSelection
  BY RowsNumbered DEF FieldFacts, LinksFollowSelection, Fields!LinksFollowSelection
<1> QED
  BY <1>1, FieldsInvariant, PTL

\* The answer of one popup, while its row has the number it was opened with.
LEMMA AnswerArrives ==
    ASSUME RowFacts, FieldFacts, NEW w \in popups, index[w.row] = w.id, Fields!Dismiss(w)
    PROVE  /\ \A f \in Fields!Forms \ {w.row} :
                <<options'[f], value'[f], raw'[f]>> = <<options[f], value[f], raw[f]>>
           /\ w.kind = "add" => options'[w.row] \ options[w.row] = {value'[w.row]}
           /\ w.kind = "lookup" => Len(raw'[w.row]) > Len(raw[w.row])
<1>1. Fields!Found(w.id) = {w.row} /\ w.row \in Fields!Forms
  BY FoundAlone
<1>2. CASE Fields!DismissDelete(w)
  <2>1. w.kind = "delete"
    BY <1>2 DEF Fields!DismissDelete
  <2>2. \A f \in Fields!Forms \ {w.row} :
           options'[f] = options[f] /\ value'[f] = value[f] /\ raw'[f] = raw[f]
    BY <1>1, <1>2 DEF Fields!DismissDelete
  <2> QED
    BY <2>1, <2>2
<1>3. ASSUME NEW o \in Objects, Fields!DismissLookup(w, o)
      PROVE  /\ w.kind = "lookup"
             /\ \A f \in Fields!Forms \ {w.row} :
                  options'[f] = options[f] /\ value'[f] = value[f] /\ raw'[f] = raw[f]
             /\ Len(raw'[w.row]) > Len(raw[w.row])
  <2>1. raw'[w.row] = Append(raw[w.row], o) /\ raw[w.row] \in Seq(Objects)
    BY <1>1, <1>3 DEF Fields!DismissLookup, FieldFacts
  <2>2. Len(raw'[w.row]) > Len(raw[w.row])
    BY <1>3, <2>1
  <2> QED
    BY <1>1, <1>3, <2>2 DEF Fields!DismissLookup
<1>4. ASSUME NEW o \in Objects, Fields!DismissAdd(w, o)
      PROVE  /\ w.kind = "add"
             /\ \A f \in Fields!Forms \ {w.row} :
                  options'[f] = options[f] /\ value'[f] = value[f] /\ raw'[f] = raw[f]
             /\ options'[w.row] \ options[w.row] = {value'[w.row]}
  <2>1. /\ o \notin options[w.row] /\ value'[w.row] = o
        /\ options'[w.row] = options[w.row] \union {o}
    BY <1>1, <1>4 DEF Fields!DismissAdd
  <2>2. options'[w.row] \ options[w.row] = {value'[w.row]}
    BY <2>1
  <2> QED
    BY <1>1, <1>4, <2>2 DEF Fields!DismissAdd
<1>5. ASSUME NEW o \in Objects, Fields!DismissChange(w, o)
      PROVE  /\ w.kind = "change"
             /\ \A f \in Fields!Forms \ {w.row} :
                  options'[f] = options[f] /\ value'[f] = value[f] /\ raw'[f] = raw[f]
  BY <1>1, <1>5 DEF Fields!DismissChange
<1> QED
  BY <1>2, <1>3, <1>4, <1>5 DEF Fields!Dismiss

\* For any rows, objects and popups in any order: an answer reaches the field its
\* popup was opened from and no other, unless the row was renumbered meanwhile.
THEOREM AnswersReachTheirField == Spec => PopupFillsItsField
<1> DEFINE Right ==
      closed' # <<>> /\ index[closed'.row] = closed'.id
        => /\ \A f \in Fields!Forms \ {closed'.row} :
                <<options'[f], value'[f], raw'[f]>> = <<options[f], value[f], raw[f]>>
           /\ closed'.kind = "add" =>
                options'[closed'.row] \ options[closed'.row] = {value'[closed'.row]}
           /\ closed'.kind = "lookup" => Len(raw'[closed'.row]) > Len(raw[closed'.row])
<1>1. RowFacts /\ FieldFacts /\ FieldFacts' /\ [Next]_vars => Right \/ UNCHANGED Fields!vars
  <2> SUFFICES ASSUME RowFacts, FieldFacts, FieldFacts', [Next]_vars
               PROVE  Right \/ UNCHANGED Fields!vars
    OBVIOUS
  <2>1. CASE page = "fields" /\ Fields!Next
    <3>1. CASE closed' = <<>>
      BY <3>1
    <3>2. ASSUME NEW w \in popups, Fields!Dismiss(w), closed' = w PROVE Right
      BY <3>2, AnswerArrives
    <3> QED
      BY <2>1, <3>1, <3>2
      DEF Fields!Next, Fields!Ops, Fields!Loads, Fields!Load, Fields!AddRow, Fields!RemoveRow,
          Fields!Use, Fields!None
  <2>2. CASE UNCHANGED vars
    BY <2>2 DEF vars, rowVars, fieldVars, Fields!vars, Fields!inl, Fields!slugs, Fields!related
  <2>3. CASE page # "fields"
    <3>1. closed' = <<>>
      BY <2>3 DEF FieldFacts, Next, vars
    <3> QED
      BY <3>1
  <2> QED
    BY <2>1, <2>2, <2>3 DEF Next
<1>2. Right \/ UNCHANGED Fields!vars => [Right]_Fields!vars
  OBVIOUS
<1> QED
  BY <1>1, <1>2, FieldsInvariant, PTL
  DEF Spec, PopupFillsItsField, Fields!PopupFillsItsField, Fields!None
-----------------------------------------------------------------------------
(* The slugs of the form with plain fields. *)

\* A removal only lowers the number of a row, so a row that has the number its
\* handler kept always had it, and a row not added yet is empty.
SlugFacts ==
    /\ DOMAIN title = Fields!Forms /\ DOMAIN slug = Fields!Forms
    /\ DOMAIN changed = Fields!Forms /\ DOMAIN bound = Fields!Forms /\ DOMAIN dep = Fields!Forms
    /\ \A f \in Fields!Forms : page # "fields" \/ f >= MaxForms + added
                                 => title[f] = <<>> /\ slug[f] = <<>>
    /\ page # "fields" => \A f \in Fields!Forms : bound[f] = FALSE
    /\ \A r \in Fields!Form!Live : bound[r] => dep[r] \in Int /\ index[r] <= dep[r]
    /\ SlugFollowsTitle

\* An empty title has an empty slug.
LEMMA EmptySlug == Fields!URLify(<<>>) = <<>>
<1>1. Only(<<>>, Range(<<>>) \ Removed) = <<>>
  <2>1. <<>> \in Seq({})
    OBVIOUS
  <2>2. Range(<<>>) = {}
    BY DEF Range
  <2> QED
    BY <2>1, <2>2, OnlyElements
<1>2. Fields!Only(<<>>, Fields!Range(<<>>) \ Removed) = <<>>
  BY <1>1, FieldsOnly DEF Fields!Range, Range
<1> QED
  BY <1>2 DEF Fields!URLify

\* What a removal does to the numbers of the rows that stay.
LEMMA NumbersSink ==
    ASSUME RowFacts, RowFacts', NEW p, Form!Remove(p)
    PROVE  \A r \in Fields!Form!Live' : r \in Fields!Form!Live /\ index'[r] <= index[r]
<1>1. /\ DOMAIN rows = 1 .. Len(rows) /\ Len(rows) \in Nat /\ p \in 1 .. Len(rows)
      /\ DOMAIN rows' = 1 .. Len(rows) - 1
      /\ \A i \in DOMAIN rows' : rows'[i] = IF i < p THEN rows[i] ELSE rows[i + 1]
  BY DEF RowFacts, Form!Remove, Form!Without
<1>2. \A i \in DOMAIN rows : index[rows[i]] = i - 1
  BY DEF RowFacts, FormsContiguous, Form!FormsContiguous
<1>3. \A i \in DOMAIN rows' : index'[rows'[i]] = i - 1
  BY DEF RowFacts, FormsContiguous, Form!FormsContiguous
<1>4. \A i \in DOMAIN rows' : \E j \in DOMAIN rows : rows'[i] = rows[j] /\ j \in {i, i + 1}
  BY <1>1
<1>5. ASSUME NEW i \in DOMAIN rows'
      PROVE  rows'[i] \in Fields!Form!Live /\ index'[rows'[i]] <= index[rows'[i]]
  <2>1. PICK j \in DOMAIN rows : rows'[i] = rows[j] /\ j \in {i, i + 1}
    BY <1>4
  <2>2. i \in Int /\ j \in Int
    BY <1>1
  <2> QED
    BY <1>2, <1>3, <2>1, <2>2 DEF Fields!Form!Live
<1> QED
  BY <1>5 DEF Fields!Form!Live

LEMMA SlugsStart == Init => SlugFacts
<1>1. Init => rows = <<>>
  BY DEF Init, Fields!Init, Fields!Form!Init
<1> QED
  BY <1>1 DEF Init, Fields!Init, SlugFacts, SlugFollowsTitle, Fields!SlugFollowsTitle, Fields!Form!Live

\* On a fresh page every slug has the number of its row.
LEMMA LoadKeepsSlugs ==
    ASSUME page = "fields", page' = page, NEW n \in Initial, NEW saved \in BOOLEAN,
           Fields!Load(n, saved)
    PROVE  SlugFacts'
<1>1. n \in 0 .. MaxForms /\ MaxForms \in Nat /\ Adds \in Nat
  BY WebAssumption DEF Form!InlinesAssumption
<1>2. \A r \in Fields!Form!Live' : r \in 0 .. n - 1 /\ r \in Fields!Forms /\ index'[r] = r
  BY <1>1 DEF Fields!Load, Fields!Form!Load, Fields!Form!Live, Fields!Forms, Fields!Form!Forms
<1>3. added' = 0
  BY DEF Fields!Load, Fields!Form!Load
<1>4. \A f \in Fields!Forms : f >= MaxForms => ~(f < n)
  BY <1>1 DEF Fields!Forms, Fields!Form!Forms
<1>5. \A f \in Fields!Forms : f >= MaxForms + added' => title'[f] = <<>> /\ slug'[f] = <<>>
  BY <1>1, <1>3, <1>4 DEF Fields!Load
<1>6. \A r \in Fields!Form!Live' : r < n /\ dep'[r] = r /\ r \in Int /\ index'[r] <= dep'[r]
                                    /\ slug'[r] = Fields!URLify(title'[r])
  <2>1. ASSUME NEW r \in Fields!Form!Live' PROVE r < n /\ r \in Int /\ r <= r
    BY <1>1, <1>2
  <2> QED
    BY <1>2, <2>1 DEF Fields!Load
<1> QED
  BY <1>5, <1>6 DEF SlugFacts, Fields!Load, SlugFollowsTitle, Fields!SlugFollowsTitle

\* Every step of the site keeps the facts about slugs: a removal only
\* lowers numbers.
LEMMA SlugsKeep ==
    ASSUME RowFacts, RowFacts', FieldFacts, SlugFacts, [Next]_vars
    PROVE  SlugFacts'
<1>0. page' = page
  BY DEF Next, vars
<1>1. ASSUME page # "fields" PROVE SlugFacts'
  <2>1. UNCHANGED fieldVars
    BY <1>1 DEF Next, vars
  <2>2. \A r \in Fields!Form!Live' : bound[r] = FALSE
    BY <1>1, RowsNumbered DEF RowFacts, Fields!Form!Live, SlugFacts
  <2> QED
    BY <1>0, <1>1, <2>1, <2>2 DEF SlugFacts, fieldVars, SlugFollowsTitle, Fields!SlugFollowsTitle
<1>2. ASSUME UNCHANGED <<rowVars, title, slug, changed, bound, dep>> PROVE SlugFacts'
  BY <1>0, <1>2 DEF SlugFacts, rowVars, SlugFollowsTitle, Fields!SlugFollowsTitle, Fields!Form!Live
<1>3. CASE page = "fields" /\ Fields!Loads
  BY <1>0, <1>3, LoadKeepsSlugs DEF Fields!Loads
<1>4. CASE page = "fields" /\ Fields!AddRow
  <2> DEFINE k == MaxForms + added
  <2>0. Form!Add /\ MaxForms \in Nat /\ Adds \in Nat
    BY <1>4, FieldsForm, WebAssumption DEF Fields!AddRow, Form!InlinesAssumption
  <2>1. /\ DOMAIN rows = 1 .. Len(rows) /\ Len(rows) \in Nat
        /\ total = Len(rows) /\ added \in Nat /\ added < Adds
        /\ rows' = Append(rows, k) /\ index' = [index EXCEPT ![k] = total] /\ added' = added + 1
    BY <2>0 DEF RowFacts, Form!Add, FormsContiguous, Form!FormsContiguous
  <2>2. k \in Fields!Forms /\ k \notin Fields!Form!Live
    <3>1. k \in Fields!Forms /\ k \in Int
      BY <2>0, <2>1 DEF Fields!Forms, Fields!Form!Forms
    <3>2. \A r \in Fields!Form!Live : r < k
      BY DEF RowFacts, NextIsNew, Fields!Form!Live
    <3> HIDE DEF k
    <3>3. ~(k < k)
      BY <3>1
    <3> QED
      BY <3>1, <3>2, <3>3
  <2>3. \A r \in Fields!Form!Live' : r = k \/ (r \in Fields!Form!Live /\ r # k)
    BY <2>1, <2>2 DEF Fields!Form!Live
  <2>4. /\ title[k] = <<>> /\ slug[k] = <<>>
        /\ \A f \in Fields!Forms : f >= MaxForms + added' => f >= MaxForms + added
    <3>1. \A f \in Fields!Forms : f \in Int
      BY DEF Fields!Forms, Fields!Form!Forms
    <3> QED
      BY <2>0, <2>1, <2>2, <3>1 DEF SlugFacts
  <2>5. /\ dep' = [dep EXCEPT ![k] = total] /\ bound' = [bound EXCEPT ![k] = TRUE]
        /\ UNCHANGED <<title, slug, changed>>
    BY <1>4 DEF Fields!AddRow
  <2>6. DOMAIN index = Fields!Forms
    BY DEF RowFacts
  <2> HIDE DEF k
  <2>7. dep'[k] = total /\ index'[k] = total /\ total \in Int
    BY <2>1, <2>2, <2>5, <2>6 DEF SlugFacts
  <2>8. \A r \in Fields!Form!Live : r # k =>
          index'[r] = index[r] /\ dep'[r] = dep[r] /\ bound'[r] = bound[r]
    BY <2>1, <2>5, <2>6, RowsNumbered DEF SlugFacts
  <2>9. \A r \in Fields!Form!Live' :
          bound'[r] => dep'[r] \in Int /\ index'[r] <= dep'[r]
    BY <2>3, <2>7, <2>8 DEF SlugFacts
  <2>10. SlugFollowsTitle'
    BY <2>3, <2>4, <2>5, <2>8, EmptySlug DEF SlugFacts, SlugFollowsTitle, Fields!SlugFollowsTitle
  <2> QED
    BY <1>0, <1>4, <2>4, <2>5, <2>9, <2>10 DEF SlugFacts
<1>5. ASSUME page = "fields", NEW p, Fields!RemoveRow(p) PROVE SlugFacts'
  <2>1. /\ Form!Remove(p) /\ UNCHANGED <<title, slug, changed, bound, dep>> /\ added' = added
    BY <1>5, FieldsForm DEF Fields!RemoveRow, Form!Remove, Fields!slugs
  <2>2. ASSUME NEW r \in Fields!Form!Live'
        PROVE  /\ bound[r] => dep[r] \in Int /\ index'[r] <= dep[r]
               /\ bound[r] /\ ~changed[r] /\ dep[r] = index'[r] => slug[r] = Fields!URLify(title[r])
    <3>1. r \in Fields!Form!Live /\ index'[r] <= index[r] /\ index[r] \in Int /\ index'[r] \in Int
      <4>1. r \in Fields!Form!Live /\ index'[r] <= index[r] /\ index[r] \in Int
        BY <2>1, NumbersSink, RowsNumbered
      <4>2. index'[r] \in Int
        BY DEF RowFacts, FormsContiguous, Form!FormsContiguous, Fields!Form!Live
      <4> QED
        BY <4>1, <4>2
    <3>2. bound[r] => dep[r] \in Int /\ index[r] <= dep[r]
      BY <3>1 DEF SlugFacts
    <3>3. bound[r] /\ dep[r] = index'[r] => dep[r] = index[r]
      BY <3>1, <3>2
    <3> QED
      BY <3>1, <3>2, <3>3 DEF SlugFacts, SlugFollowsTitle, Fields!SlugFollowsTitle
  <2> QED
    BY <1>0, <1>5, <2>1, <2>2 DEF SlugFacts, SlugFollowsTitle, Fields!SlugFollowsTitle
<1>6. ASSUME page = "fields", NEW k \in Fields!Form!Live, NEW t, Fields!TypeTitle(k, t)
      PROVE  SlugFacts'
  <2>1. /\ UNCHANGED <<rowVars, changed, bound, dep>> /\ title' = [title EXCEPT ![k] = t]
        /\ k \in Fields!Forms /\ k < MaxForms + added
    BY <1>6, RowsNumbered DEF Fields!TypeTitle, Fields!inl, rowVars, RowFacts, NextIsNew,
       Fields!Form!Live
  <2>2. \A r \in Fields!Forms : r # k => title'[r] = title[r] /\ slug'[r] = slug[r]
    BY <1>6, <2>1 DEF Fields!TypeTitle, SlugFacts
  <2>3. bound[k] /\ ~changed[k] /\ dep[k] = index[k] => slug'[k] = Fields!URLify(title'[k])
    <3> SUFFICES ASSUME bound[k], ~changed[k], dep[k] = index[k]
                 PROVE  slug'[k] = Fields!URLify(title'[k])
      OBVIOUS
    <3>1. Fields!Found(dep[k]) = {k}
      BY RowsNumbered DEF Fields!Found
    <3>2. slug' = [slug EXCEPT ![k] = Fields!URLify(title'[k])]
      BY <1>6, <3>1 DEF Fields!TypeTitle
    <3> QED
      BY <2>1, <3>2 DEF SlugFacts
  <2>4. DOMAIN title' = Fields!Forms /\ DOMAIN slug' = Fields!Forms
    BY <1>6, <2>1 DEF Fields!TypeTitle, SlugFacts
  <2>5. \A f \in Fields!Forms : f >= MaxForms + added => f # k
    <3>1. k \in Int /\ MaxForms + added \in Int /\ k < MaxForms + added
      BY <2>1, WebAssumption DEF Form!InlinesAssumption, RowFacts, Fields!Forms, Fields!Form!Forms
    <3> QED
      BY <3>1
  <2>6. SlugFollowsTitle'
    BY <2>1, <2>2, <2>3, RowsNumbered DEF SlugFacts, SlugFollowsTitle, Fields!SlugFollowsTitle,
       rowVars, Fields!Form!Live
  <2> QED
    BY <1>0, <1>6, <2>1, <2>2, <2>4, <2>5, <2>6 DEF SlugFacts, rowVars, Fields!Form!Live
<1>7. ASSUME page = "fields", NEW k \in Fields!Form!Live, NEW t, Fields!TypeSlug(k, t)
      PROVE  SlugFacts'
  <2>1. /\ UNCHANGED <<rowVars, title, bound, dep>> /\ k \in Fields!Forms
        /\ slug' = [slug EXCEPT ![k] = t] /\ changed' = [changed EXCEPT ![k] = TRUE]
    BY <1>7, RowsNumbered DEF Fields!TypeSlug, Fields!inl, rowVars
  <2>2. \A f \in Fields!Forms : f >= MaxForms + added => f # k
    <3>1. k \in Int /\ MaxForms + added \in Int /\ k < MaxForms + added
      BY <1>7, WebAssumption DEF Form!InlinesAssumption, RowFacts, Fields!Forms, Fields!Form!Forms,
         NextIsNew, Fields!Form!Live
    <3> QED
      BY <3>1
  <2>3. SlugFollowsTitle'
    BY <2>1, RowsNumbered DEF SlugFacts, SlugFollowsTitle, Fields!SlugFollowsTitle,
       rowVars, Fields!Form!Live
  <2> QED
    BY <1>0, <1>7, <2>1, <2>2, <2>3 DEF SlugFacts, rowVars, Fields!Form!Live
<1>8. CASE page = "fields" /\ Fields!Use
  <2>1. ASSUME NEW k, NEW o, Fields!SelectObject(k, o) PROVE SlugFacts'
    BY <1>2, <2>1 DEF Fields!SelectObject, Fields!inl, Fields!slugs, rowVars
  <2>2. ASSUME NEW k, NEW field, NEW kind, Fields!Open(k, field, kind) PROVE SlugFacts'
    BY <1>2, <2>2 DEF Fields!Open, Fields!inl, Fields!slugs, rowVars
  <2>3. ASSUME NEW w, Fields!Cancel(w) \/ Fields!Dismiss(w) PROVE SlugFacts'
    BY <1>2, <2>3 DEF Fields!Cancel, Fields!Dismiss, Fields!inl, Fields!slugs, rowVars
  <2> QED
    BY <1>6, <1>7, <1>8, <2>1, <2>2, <2>3 DEF Fields!Use
<1>9. CASE UNCHANGED vars
  BY <1>2, <1>9 DEF vars, fieldVars
<1> QED
  BY <1>1, <1>3, <1>4, <1>5, <1>8, <1>9 DEF Next, Fields!Next, Fields!Ops

\* For any titles, rows and popups in any order: a slug the user never touched is
\* the one of its own row's title as long as the row has the number by which its
\* handler looks the title up (prepopulate.js, urlify.js).
THEOREM SlugsFollowTitles == Spec => []SlugFollowsTitle
<1>1. RowFacts /\ RowFacts' /\ FieldFacts /\ SlugFacts /\ [Next]_vars => SlugFacts'
  BY SlugsKeep
<1>2. SlugFacts => SlugFollowsTitle
  BY DEF SlugFacts
<1> QED
  BY <1>1, <1>2, SlugsStart, FieldsInvariant, PTL DEF Spec

-----------------------------------------------------------------------------
(* The caches and boxes of the filter selects. *)

Items == [value : Filters!All, displayed : BOOLEAN]

\* The options of a cache, and that it has none of them twice.
Vals(s) == { s[i].value : i \in DOMAIN s }
Once(s) == \A i, j \in DOMAIN s : s[i].value = s[j].value => i = j

\* What the two caches of a widget always are.
Good(c) ==
    /\ c \in [Filters!Boxes -> Seq(Items)]
    /\ \A b \in Filters!Boxes : Once(c[b])
    /\ Vals(c["from"]) \intersect Vals(c["to"]) = {}
    /\ Range(Options) \subseteq Vals(c["from"]) \union Vals(c["to"])
    /\ \A i \in DOMAIN c["to"] : c["to"][i].displayed = TRUE

\* Operators of the community modules mean the same in the instance.
LEMMA FiltersFunctions ==
    /\ \A f : Filters!Range(f) = Range(f)
    /\ \A f : Filters!IsInjective(f) <=> IsInjective(f)
BY DEF Filters!Range, Range, Filters!IsInjective, IsInjective

\* The values of a cache.
LEMMA ValuesAre ==
    ASSUME NEW s \in Seq(Items)
    PROVE  /\ Filters!Values(s) \in Seq(Filters!All) /\ Len(Filters!Values(s)) = Len(s)
           /\ Range(Filters!Values(s)) = Vals(s)
           /\ Once(s) => IsInjective(Filters!Values(s))
           /\ Vals(s) \subseteq Filters!All
<1> DEFINE v == Filters!Values(s)
<1>1. DOMAIN s = 1 .. Len(s) /\ Len(s) \in Nat /\ \A i \in 1 .. Len(s) : s[i].value \in Filters!All
  <2>1. \A i \in 1 .. Len(s) : s[i] \in Items
    OBVIOUS
  <2>2. \A n \in Items : n.value \in Filters!All
    BY DEF Items
  <2> QED
    BY <2>1, <2>2
<1>2. v = [i \in 1 .. Len(s) |-> s[i].value]
  BY <1>1 DEF Filters!Values
<1>3. v \in Seq(Filters!All) /\ Len(v) = Len(s)
  <2>1. v \in [1 .. Len(s) -> Filters!All]
    BY <1>1, <1>2
  <2> QED
    <3> HIDE DEF v
    <3> QED
      BY <1>1, <2>1, LengthOf
<1>4. Range(v) = Vals(s)
  BY <1>1, <1>2 DEF Range, Vals
<1>5. Once(s) => IsInjective(v)
  BY <1>1, <1>2 DEF Once, IsInjective
<1>6. Vals(s) \subseteq Filters!All
  BY <1>1 DEF Vals
<1> QED
  BY <1>3, <1>4, <1>5, <1>6

\* A cache made of a list of options has these, all of them displayed.
LEMMA EntriesAre ==
    ASSUME NEW vs \in Seq(Filters!All)
    PROVE  /\ Filters!Entries(vs) \in Seq(Items)
           /\ Vals(Filters!Entries(vs)) = Range(vs)
           /\ IsInjective(vs) => Once(Filters!Entries(vs))
           /\ \A i \in DOMAIN Filters!Entries(vs) : Filters!Entries(vs)[i].displayed = TRUE
<1> DEFINE e == Filters!Entries(vs)
<1>1. DOMAIN vs = 1 .. Len(vs) /\ Len(vs) \in Nat /\ \A i \in 1 .. Len(vs) : vs[i] \in Filters!All
  OBVIOUS
<1>2. e = [i \in 1 .. Len(vs) |-> [value |-> vs[i], displayed |-> TRUE]]
  BY <1>1 DEF Filters!Entries
<1>3. \A i \in 1 .. Len(vs) : [value |-> vs[i], displayed |-> TRUE] \in Items
  BY <1>1 DEF Items
<1>4. e \in Seq(Items)
  BY <1>1, <1>2, <1>3
<1>5. \A i \in 1 .. Len(vs) : e[i].value = vs[i] /\ e[i].displayed = TRUE
  BY <1>2
<1>6. DOMAIN e = 1 .. Len(vs)
  BY <1>2
<1> HIDE DEF e
<1>7. Vals(e) = Range(vs)
  BY <1>1, <1>5, <1>6 DEF Vals, Range
<1>8. IsInjective(vs) => Once(e)
  BY <1>1, <1>5, <1>6 DEF Once, IsInjective
<1> QED
  BY <1>4, <1>5, <1>6, <1>7, <1>8 DEF e

\* A part of a cache, and two caches one after the other.
LEMMA PartOf ==
    ASSUME NEW s \in Seq(Items), NEW S
    PROVE  /\ Only(s, S) \in Seq(Items)
           /\ Once(s) => Once(Only(s, S))
           /\ \A i \in DOMAIN Only(s, S) : Only(s, S)[i] \in Range(s) \intersect S
<1> DEFINE o == Only(s, S)
           I == Places(s, S)
<1>1. o \in Seq(Items)
  BY OnlyPlaces
<1>2. PICK p \in [1 .. Len(o) -> I] :
                     /\ \A k \in 1 .. Len(o) : o[k] = s[p[k]]
                     /\ \A k, l \in 1 .. Len(o) : p[k] = p[l] => k = l
                     /\ \A i \in I : \E k \in 1 .. Len(o) : p[k] = i
                     /\ I = 1 .. Len(s) => \A i \in I : Rank(I, i) = i /\ Len(o) = Len(s)
                     /\ \A k \in 1 .. Len(o) : Rank(I, p[k]) = k
  BY OnlyPlaces
<1> HIDE DEF o
<1>3. DOMAIN o = 1 .. Len(o)
  BY <1>1
<1>4. \A k \in 1 .. Len(o) : p[k] \in DOMAIN s /\ s[p[k]] \in S
  BY <1>2 DEF Places
<1>5. Once(s) => Once(o)
  BY <1>2, <1>3, <1>4 DEF Once
<1>6. \A k \in DOMAIN o : o[k] \in Range(s) \intersect S
  BY <1>2, <1>3, <1>4 DEF Range
<1> QED
  BY <1>1, <1>5, <1>6 DEF o

\* Two caches one behind the other.
LEMMA Joined ==
    ASSUME NEW s \in Seq(Items), NEW t \in Seq(Items)
    PROVE  /\ s \o t \in Seq(Items)
           /\ Range(s \o t) = Range(s) \union Range(t)
           /\ Vals(s \o t) = Vals(s) \union Vals(t)
           /\ Once(s) /\ Once(t) /\ Vals(s) \intersect Vals(t) = {} => Once(s \o t)
<1> DEFINE u == s \o t
           m == Len(s)
           n == Len(t)
<1>1. /\ u \in Seq(Items) /\ Len(u) = m + n /\ m \in Nat /\ n \in Nat
      /\ \A i \in 1 .. m : u[i] = s[i]
      /\ \A i \in m + 1 .. m + n : u[i] = t[i - m]
  BY ConcatProperties
<1>2. DOMAIN u = 1 .. m + n /\ DOMAIN s = 1 .. m /\ DOMAIN t = 1 .. n
  BY <1>1
<1> HIDE DEF u, m, n
<1>3. \A j \in 1 .. n : j + m \in 1 .. m + n /\ u[j + m] = t[j]
  BY <1>1
<1>4. \A i \in 1 .. m + n : \/ i \in 1 .. m /\ u[i] = s[i]
                            \/ i - m \in 1 .. n /\ u[i] = t[i - m]
  BY <1>1
<1>5. \A i \in 1 .. m : i \in 1 .. m + n /\ u[i] = s[i]
  BY <1>1
<1>6. Range(u) = Range(s) \union Range(t)
  <2>1. ASSUME NEW x \in Range(u) PROVE x \in Range(s) \union Range(t)
    BY <1>2, <1>4 DEF Range
  <2>2. ASSUME NEW x \in Range(s) PROVE x \in Range(u)
    <3>1. PICK i \in 1 .. m : x = s[i]
      BY <1>2 DEF Range
    <3> QED
      BY <1>2, <1>5, <3>1 DEF Range
  <2>3. ASSUME NEW x \in Range(t) PROVE x \in Range(u)
    <3>1. PICK j \in 1 .. n : x = t[j]
      BY <1>2 DEF Range
    <3> QED
      BY <1>2, <1>3, <3>1 DEF Range
  <2> QED
    BY <2>1, <2>2, <2>3
<1>7. Vals(u) = Vals(s) \union Vals(t)
  <2>1. Vals(u) = { x.value : x \in Range(u) }
    BY DEF Vals, Range
  <2>2. Vals(s) = { x.value : x \in Range(s) }
    BY DEF Vals, Range
  <2>3. Vals(t) = { x.value : x \in Range(t) }
    BY DEF Vals, Range
  <2> QED
    BY <1>6, <2>1, <2>2, <2>3
<1>8. ASSUME Once(s), Once(t), Vals(s) \intersect Vals(t) = {} PROVE Once(u)
  <2> SUFFICES ASSUME NEW i \in 1 .. m + n, NEW j \in 1 .. m + n, u[i].value = u[j].value
               PROVE  i = j
    BY <1>2 DEF Once
  <2>1. \A k \in 1 .. m, l \in 1 .. n : s[k].value # t[l].value
    BY <1>2, <1>8 DEF Vals
  <2>2. CASE i \in 1 .. m /\ j \in 1 .. m
    BY <1>2, <1>5, <1>8, <2>2 DEF Once
  <2>3. CASE i - m \in 1 .. n /\ j - m \in 1 .. n /\ u[i] = t[i - m] /\ u[j] = t[j - m]
    <3>1. i - m = j - m
      BY <1>2, <1>8, <2>3 DEF Once
    <3> QED
      BY <1>1, <3>1
  <2> QED
    BY <1>4, <2>1, <2>2, <2>3
<1> QED
  BY <1>1, <1>6, <1>7, <1>8 DEF u

\* What the element of a box shows is part of its cache, all of it on the right.
LEMMA DisplayedAre ==
    ASSUME NEW s \in Seq(Items), Once(s)
    PROVE  /\ Filters!Displayed(s) \in Seq(Filters!All)
           /\ IsInjective(Filters!Displayed(s))
           /\ (\A i \in DOMAIN s : s[i].displayed = TRUE) => Filters!Displayed(s) = Filters!Values(s)
<1> DEFINE D == { n \in Range(s) : n.displayed }
<1>1. Filters!Displayed(s) = Filters!Values(Only(s, D))
  BY FiltersOnly, FiltersFunctions DEF Filters!Displayed
<1>2. Only(s, D) \in Seq(Items) /\ Once(Only(s, D))
  BY PartOf
<1>3. ASSUME \A i \in DOMAIN s : s[i].displayed = TRUE PROVE Only(s, D) = s
  <2>1. Range(s) \subseteq D
    BY <1>3 DEF Range
  <2> HIDE DEF D
  <2> QED
    BY <2>1, OnlyElements
<1> HIDE DEF D
<1> QED
  BY <1>1, <1>2, <1>3, ValuesAre

\* A good pair of caches fills its boxes well.
LEMMA ShowAre ==
    ASSUME NEW c, Good(c)
    PROVE  /\ Filters!Show(c) \in [Filters!Boxes -> Seq(Filters!All)]
           /\ \A b \in Filters!Boxes : /\ Filters!Show(c)[b] = Filters!Displayed(c[b])
                                       /\ IsInjective(Filters!Show(c)[b])
           /\ c # <<>>
<1>1. \A b \in Filters!Boxes : c[b] \in Seq(Items) /\ Once(c[b])
  BY DEF Good
<1>2. \A b \in Filters!Boxes : /\ Filters!Displayed(c[b]) \in Seq(Filters!All)
                               /\ IsInjective(Filters!Displayed(c[b]))
  BY <1>1, DisplayedAre
<1>3. c # <<>>
  <2>1. DOMAIN c # {}
    BY DEF Good, Filters!Boxes
  <2> QED
    BY <2>1
<1> QED
  BY <1>2, <1>3 DEF Filters!Show

\* move(), move_all(): no option is lost or doubled, whatever was to be moved.
LEMMA MoveKeepsCaches ==
    ASSUME NEW c, Good(c), NEW b \in Filters!Boxes,
           NEW vs \in Seq(Filters!All), IsInjective(vs)
    PROVE  LET m == Filters!MoveCache(c, b, vs)
           IN  /\ Good(m)
               /\ Vals(m["from"]) \union Vals(m["to"]) = Vals(c["from"]) \union Vals(c["to"])
<1> DEFINE m == Filters!MoveCache(c, b, vs)
           o == Filters!Other(b)
           moved == Only(vs, Range(Filters!Values(c[b])))
           kept == { n \in Range(c[b]) : n.value \notin Range(moved) }
           J == c[o] \o Filters!Entries(moved)
           K == Only(c[b], kept)
<1>1. o \in Filters!Boxes /\ o # b /\ Filters!Boxes = {b, o}
  BY DEF Filters!Other, Filters!Boxes
<1>2. /\ \A a \in Filters!Boxes : c[a] \in Seq(Items) /\ Once(c[a])
      /\ Vals(c[b]) \intersect Vals(c[o]) = {} /\ c \in [Filters!Boxes -> Seq(Items)]
  BY <1>1 DEF Good, Filters!Boxes, Filters!Other
<1>3. m = [c EXCEPT ![o] = J, ![b] = K]
  <2>1. m = [c EXCEPT ![o] = c[o] \o Filters!Entries(moved),
                      ![b] = Only(c[b], { n \in Range(c[b]) : n.value \notin Range(moved) })]
    BY <1>1, <1>2, FiltersOnly, FiltersFunctions DEF Filters!MoveCache
  <2> QED
    BY <2>1
<1>4. moved \in Seq(Filters!All) /\ IsInjective(moved) /\ Range(moved) = Range(vs) \intersect Vals(c[b])
  <2>1. Range(Filters!Values(c[b])) = Vals(c[b])
    BY <1>1, <1>2, ValuesAre
  <2> QED
    BY <2>1, OnlyElements
<1> HIDE DEF moved
<1>5. /\ Filters!Entries(moved) \in Seq(Items) /\ Vals(Filters!Entries(moved)) = Range(moved)
      /\ Once(Filters!Entries(moved))
      /\ \A i \in DOMAIN Filters!Entries(moved) : Filters!Entries(moved)[i].displayed = TRUE
  BY <1>4, EntriesAre
<1> HIDE DEF m, o
<1>6. J \in Seq(Items) /\ Once(J) /\ Vals(J) = Vals(c[o]) \union Range(moved)
  <2>1. Vals(c[o]) \intersect Vals(Filters!Entries(moved)) = {}
    BY <1>2, <1>4, <1>5
  <2> QED
    BY <1>1, <1>2, <1>5, <2>1, Joined
<1>7. K \in Seq(Items) /\ Once(K) /\ \A i \in DOMAIN K : K[i] \in Range(c[b]) \intersect kept
  BY <1>1, <1>2, PartOf
<1>8. \A i \in DOMAIN c[b] : c[b][i] \in kept => \E k \in DOMAIN K : K[k] = c[b][i]
  <2> HIDE DEF kept
  <2>1. c[b] \in Seq(Items)
    BY <1>2
  <2>2. Range(K) = Range(c[b]) \intersect kept
    BY <2>1, OnlyElements
  <2> HIDE DEF K
  <2> QED
    BY <2>2 DEF Range
<1> HIDE DEF J, K
<1>9. Vals(K) = Vals(c[b]) \ Range(moved)
  <2>1. ASSUME NEW x \in Vals(K) PROVE x \in Vals(c[b]) \ Range(moved)
    <3>1. PICK k \in DOMAIN K : x = K[k].value
      BY DEF Vals
    <3>2. K[k] \in Range(c[b]) /\ K[k].value \notin Range(moved)
      BY <1>7
    <3> QED
      BY <3>1, <3>2 DEF Vals, Range
  <2>2. ASSUME NEW x \in Vals(c[b]), x \notin Range(moved) PROVE x \in Vals(K)
    <3>1. PICK i \in DOMAIN c[b] : x = c[b][i].value
      BY DEF Vals
    <3>2. c[b][i] \in kept
      BY <2>2, <3>1 DEF Range
    <3>3. PICK k \in DOMAIN K : K[k] = c[b][i]
      BY <1>8, <3>2
    <3> QED
      BY <3>1, <3>3 DEF Vals
  <2> QED
    BY <2>1, <2>2
<1>10. m \in [Filters!Boxes -> Seq(Items)] /\ m[o] = J /\ m[b] = K
  BY <1>1, <1>2, <1>3, <1>6, <1>7
<1>11. Vals(m[b]) \intersect Vals(m[o]) = {} /\ Vals(m[b]) \union Vals(m[o]) = Vals(c[b]) \union Vals(c[o])
  BY <1>2, <1>4, <1>6, <1>9, <1>10
<1>12. \A i \in DOMAIN m["to"] : m["to"][i].displayed = TRUE
  <2>1. \A i \in DOMAIN c["to"] : c["to"][i].displayed = TRUE
    BY DEF Good
  <2>2. CASE b = "to"
    <3>1. \A i \in DOMAIN K : K[i] \in Range(c["to"])
      BY <1>7, <2>2
    <3> QED
      BY <1>10, <2>1, <2>2, <3>1 DEF Range
  <2>3. CASE o = "to"
    <3>1. Range(J) = Range(c[o]) \union Range(Filters!Entries(moved))
      BY <1>1, <1>2, <1>5, Joined DEF J
    <3> QED
      BY <1>5, <1>10, <2>1, <2>3, <3>1 DEF Range
  <2> QED
    BY <1>1, <2>2, <2>3 DEF Filters!Boxes
<1>13. \/ b = "from" /\ o = "to"
       \/ b = "to" /\ o = "from"
  BY DEF o, Filters!Other, Filters!Boxes
<1>14. Vals(m["from"]) \intersect Vals(m["to"]) = {}
       /\ Vals(m["from"]) \union Vals(m["to"]) = Vals(c["from"]) \union Vals(c["to"])
  BY <1>11, <1>13
<1>15. \A a \in Filters!Boxes : Once(m[a])
  BY <1>1, <1>6, <1>7, <1>10
<1>16. Range(Options) \subseteq Vals(m["from"]) \union Vals(m["to"])
  BY <1>14 DEF Good
<1>17. Good(m)
  BY <1>10, <1>12, <1>14, <1>15, <1>16 DEF Good
<1> QED
  BY <1>14, <1>17 DEF m

\* A widget just set up holds the options of the server.
LEMMA FreshIsGood ==
    ASSUME NEW chosen
    PROVE  LET c == Filters!Fresh(chosen)
           IN  Good(c) /\ Vals(c["from"]) \union Vals(c["to"]) = Range(Options)
<1> DEFINE s == [from |-> Filters!Entries(Options), to |-> <<>>]
           vs == Only(Options, chosen)
<1>1. Options \in Seq(Filters!All) /\ IsInjective(Options)
  <2>1. Options \in Seq(Range(Options)) /\ IsInjective(Options)
    BY WebAssumption, FiltersFunctions DEF Filters!FilterAssumption
  <2>2. Range(Options) \subseteq Filters!All
    BY FiltersFunctions DEF Filters!All
  <2> QED
    BY <2>1, <2>2
<1>2. vs \in Seq(Filters!All) /\ IsInjective(vs)
  BY <1>1, OnlyElements
<1>3. /\ Filters!Entries(Options) \in Seq(Items) /\ Once(Filters!Entries(Options))
      /\ Vals(Filters!Entries(Options)) = Range(Options)
  BY <1>1, EntriesAre
<1>4. <<>> \in Seq(Items) /\ Once(<<>>) /\ Vals(<<>>) = {}
  BY DEF Once, Vals
<1>5. Good(s) /\ Vals(s["from"]) \union Vals(s["to"]) = Range(Options)
  <2>1. /\ s \in [Filters!Boxes -> Seq(Items)]
        /\ s["from"] = Filters!Entries(Options) /\ s["to"] = <<>>
    <3>1. DOMAIN s = Filters!Boxes /\ s = [b \in Filters!Boxes |-> s[b]]
      BY DEF Filters!Boxes
    <3>2. s["from"] = Filters!Entries(Options) /\ s["to"] = <<>>
      OBVIOUS
    <3> HIDE DEF s
    <3>3. \A b \in Filters!Boxes : s[b] \in Seq(Items)
      BY <1>3, <1>4, <3>2 DEF Filters!Boxes
    <3> QED
      BY <3>1, <3>2, <3>3
  <2> HIDE DEF s
  <2>2. \A b \in Filters!Boxes : Once(s[b])
    BY <1>3, <1>4, <2>1 DEF Filters!Boxes
  <2>3. Vals(s["from"]) = Range(Options) /\ Vals(s["to"]) = {}
    BY <1>3, <1>4, <2>1
  <2>4. \A i \in DOMAIN s["to"] : s["to"][i].displayed = TRUE
    BY <2>1
  <2> QED
    BY <2>1, <2>2, <2>3, <2>4 DEF Good
<1>6. Filters!Fresh(chosen) = Filters!MoveCache(s, "from", vs)
  BY FiltersOnly DEF Filters!Fresh
<1> HIDE DEF s, vs
<1>7. "from" \in Filters!Boxes
  BY DEF Filters!Boxes
<1> QED
  BY <1>2, <1>5, <1>6, <1>7, MoveKeepsCaches

\* The filter changes only what is displayed.
LEMMA FilterIsGood ==
    ASSUME NEW c, Good(c), NEW ws
    PROVE  LET m == [c EXCEPT !["from"] = Filters!Filter(@, ws)]
           IN  /\ Good(m) /\ m["to"] = c["to"] /\ m["from"] = Filters!Filter(c["from"], ws)
               /\ Vals(m["from"]) = Vals(c["from"])
<1> DEFINE s == c["from"]
           F == Filters!Filter(s, ws)
           m == [c EXCEPT !["from"] = Filters!Filter(@, ws)]
<1>1. s \in Seq(Items) /\ Once(s) /\ c \in [Filters!Boxes -> Seq(Items)]
  BY DEF Good, Filters!Boxes
<1>2. DOMAIN s = 1 .. Len(s) /\ Len(s) \in Nat /\ \A i \in DOMAIN s : s[i] \in Items
  BY <1>1
<1> HIDE DEF s
<1>3. \A i \in DOMAIN s :
        [s[i] EXCEPT !.displayed = \A w \in ws : s[i].value \in Holds[w]] \in Items
        /\ [s[i] EXCEPT !.displayed = \A w \in ws : s[i].value \in Holds[w]].value = s[i].value
  BY <1>2 DEF Items
<1>4. F \in [1 .. Len(s) -> Items] /\ \A i \in DOMAIN s : F[i].value = s[i].value
  BY <1>2, <1>3 DEF Filters!Filter
<1> HIDE DEF F
<1>5. F \in Seq(Items) /\ DOMAIN F = DOMAIN s
  BY <1>2, <1>4
<1>6. Once(F) /\ Vals(F) = Vals(s)
  BY <1>1, <1>2, <1>4, <1>5 DEF Once, Vals
<1>7. m = [c EXCEPT !["from"] = F]
  BY <1>1 DEF F, s
<1>8. m \in [Filters!Boxes -> Seq(Items)] /\ m["to"] = c["to"] /\ m["from"] = F
  BY <1>1, <1>5, <1>7 DEF Filters!Boxes
<1> HIDE DEF m
<1>9. Good(m)
  BY <1>6, <1>8 DEF Good, s, Filters!Boxes
<1> QED
  BY <1>6, <1>8, <1>9 DEF m, F, s

\* The object a popup adds joins the right box.
LEMMA AdditionIsGood ==
    ASSUME NEW c, Good(c), NewOption \notin Vals(c["from"]) \union Vals(c["to"])
    PROVE  LET m == [c EXCEPT !["to"] = @ \o Filters!Entries(<<NewOption>>)]
           IN  Good(m) /\ m["from"] = c["from"]
<1> DEFINE n == <<NewOption>>
           J == c["to"] \o Filters!Entries(n)
           m == [c EXCEPT !["to"] = @ \o Filters!Entries(<<NewOption>>)]
<1>1. n \in Seq(Filters!All) /\ IsInjective(n) /\ Range(n) = {NewOption}
  BY DEF Filters!All, IsInjective, Range
<1> HIDE DEF n
<1>2. /\ Filters!Entries(n) \in Seq(Items) /\ Once(Filters!Entries(n))
      /\ Vals(Filters!Entries(n)) = {NewOption}
      /\ \A i \in DOMAIN Filters!Entries(n) : Filters!Entries(n)[i].displayed = TRUE
  BY <1>1, EntriesAre
<1>3. /\ c["to"] \in Seq(Items) /\ Once(c["to"]) /\ c \in [Filters!Boxes -> Seq(Items)]
      /\ \A i \in DOMAIN c["to"] : c["to"][i].displayed = TRUE
  BY DEF Good, Filters!Boxes
<1>4. /\ J \in Seq(Items) /\ Once(J) /\ Vals(J) = Vals(c["to"]) \union {NewOption}
      /\ Range(J) = Range(c["to"]) \union Range(Filters!Entries(n))
  <2>1. Vals(c["to"]) \intersect Vals(Filters!Entries(n)) = {}
    BY <1>2
  <2> QED
    BY <1>2, <1>3, <2>1, Joined
<1>5. m = [c EXCEPT !["to"] = J]
  BY <1>3 DEF n
<1> HIDE DEF J
<1>6. \A i \in DOMAIN J : J[i].displayed = TRUE
  <2>1. \A x \in Range(c["to"]) : x.displayed = TRUE
    BY <1>3 DEF Range
  <2>2. \A x \in Range(Filters!Entries(n)) : x.displayed = TRUE
    BY <1>2 DEF Range
  <2>3. \A i \in DOMAIN J : J[i] \in Range(J)
    BY DEF Range
  <2> QED
    BY <1>4, <2>1, <2>2, <2>3
<1>7. m \in [Filters!Boxes -> Seq(Items)] /\ m["to"] = J /\ m["from"] = c["from"]
  BY <1>3, <1>4, <1>5 DEF Filters!Boxes
<1> HIDE DEF m
<1>8. Good(m)
  BY <1>4, <1>6, <1>7 DEF Good, Filters!Boxes
<1> QED
  BY <1>7, <1>8 DEF m

-----------------------------------------------------------------------------
(* The state of the widgets, from page to page. *)

\* The caches the scripts made are good, and hold the object of a popup only
\* after one was added.
CachesGood ==
    /\ DOMAIN cache = Filters!Ids
    /\ \A i \in Filters!Ids : cache[i] # <<>> =>
          /\ Good(cache[i])
          /\ made \/ NewOption \notin Vals(cache[i]["from"]) \union Vals(cache[i]["to"])

\* No box lists an option twice.
BoxesGood ==
    /\ box \in [Filters!Forms -> [Filters!Boxes -> Seq(Filters!All)]]
    /\ \A f \in Filters!Forms, b \in Filters!Boxes : IsInjective(box[f][b])
    /\ DOMAIN sel = Filters!Forms /\ \A f \in Filters!Forms : DOMAIN sel[f] = Filters!Boxes

\* Every number a row has or had when it was set up has its caches; a removal
\* only lowers the number of a row, so one with the number it was set up with
\* always had it and its boxes show those caches.
WidgetsReady ==
    /\ DOMAIN fid = Filters!Forms
    /\ page # "filters" => popup = <<>> /\ sent = <<>> /\ \A f \in Filters!Forms : fid[f] = -1
    /\ page = "filters" => /\ \A i \in 0 .. total - 1 : cache[i] # <<>>
                           /\ \A r \in Filters!Form!Live : /\ fid[r] \in Filters!Ids
                                                           /\ index[r] <= fid[r]
                                                           /\ cache[fid[r]] # <<>>
    /\ \A r \in Filters!Form!Live : fid[r] = index[r] =>
          \A b \in Filters!Boxes : box[r][b] = Filters!Displayed(cache[index[r]][b])
    /\ popup # <<>> => ~made /\ popup.id \in Filters!Ids /\ cache[popup.id] # <<>>

\* The inductive invariant of the widgets.
FilterFacts == CachesGood /\ BoxesGood /\ WidgetsReady /\ SubmittedIsShown

\* The rows of the form with filter selects.
LEMMA FilterRows ==
    ASSUME RowFacts
    PROVE  /\ Filters!Form!Live = Fields!Form!Live /\ Filters!Forms = Fields!Forms
           /\ total \in Nat /\ total = Len(rows) /\ total <= MaxForms /\ MaxForms \in Nat
           /\ \A k \in Filters!Form!Live : /\ k \in Filters!Forms /\ index[k] \in 0 .. total - 1
                                           /\ index[k] \in Filters!Ids
           /\ \A j, k \in Filters!Form!Live : index[j] = index[k] => j = k
<1>1. Filters!Form!Live = Fields!Form!Live /\ Filters!Forms = Fields!Forms
  BY DEF Filters!Form!Live, Fields!Form!Live, Filters!Forms, Filters!Form!Forms, Fields!Forms, Fields!Form!Forms
<1>2. total \in Nat /\ total = Len(rows) /\ total <= MaxForms /\ MaxForms \in Nat
  BY WebAssumption DEF RowFacts, FormsContiguous, Form!FormsContiguous, Form!InlinesAssumption
<1>3. \A i \in DOMAIN rows : index[rows[i]] = i - 1 /\ i \in 1 .. total
  BY <1>2 DEF RowFacts, FormsContiguous, Form!FormsContiguous
<1>4. \A i \in DOMAIN rows : index[rows[i]] \in 0 .. total - 1
  BY <1>2, <1>3
<1>5. \A k \in Filters!Form!Live : index[k] \in 0 .. total - 1
  BY <1>4 DEF Filters!Form!Live
<1>6. \A i \in 0 .. total - 1 : i \in Filters!Ids
  BY <1>2 DEF Filters!Ids
<1> QED
  BY <1>1, <1>2, <1>5, <1>6, RowsNumbered

\* No widget of a page that is not loaded breaks a fact.
LEMMA FiltersStart == Init => FilterFacts
<1> SUFFICES ASSUME Init PROVE FilterFacts
  OBVIOUS
<1>1. Filters!Init /\ rows = <<>> /\ total = 0
  BY DEF Init, Filters!Init, Filters!Form!Init
<1>2. box = [f \in Filters!Forms |-> [b \in Filters!Boxes |-> <<>>]]
  BY <1>1 DEF Filters!Init, Filters!Blank
<1>3. BoxesGood
  <2>1. <<>> \in Seq(Filters!All) /\ IsInjective(<<>>)
    BY DEF IsInjective
  <2>2. DOMAIN sel = Filters!Forms /\ \A f \in Filters!Forms : DOMAIN sel[f] = Filters!Boxes
    BY <1>1 DEF Filters!Init, Filters!Nothing
  <2> QED
    BY <1>2, <2>1, <2>2 DEF BoxesGood
<1>4. CachesGood
  BY <1>1 DEF CachesGood, Filters!Init, Filters!None
<1>5. WidgetsReady /\ SubmittedIsShown
  <2>1. Filters!Form!Live = {} /\ 0 .. total - 1 = {}
    BY <1>1 DEF Filters!Form!Live
  <2> QED
    BY <1>1, <2>1 DEF WidgetsReady, SubmittedIsShown, Filters!SubmittedIsShown, Filters!Init, Filters!None
<1> QED
  BY <1>3, <1>4, <1>5 DEF FilterFacts

\* What a handler does that makes c the caches of the number i and rewrites the
\* boxes of the row that has it.
Rewrites(i, c) ==
    /\ UNCHANGED <<rowVars, fid>> /\ sent' = <<>>
    /\ i \in Filters!Ids /\ Good(c) /\ cache' = [cache EXCEPT ![i] = c]
    /\ made' \/ NewOption \notin Vals(c["from"]) \union Vals(c["to"])
    /\ made => made'
    /\ popup' = <<>> \/ (popup' = popup /\ made' = made)
    /\ BoxesGood'
    /\ \A r \in Filters!Form!Live : index[r] # i => box'[r] = box[r]
    /\ \A r \in Filters!Form!Live : index[r] = i /\ fid[r] = i =>
          \A b \in Filters!Boxes : box'[r][b] = Filters!Displayed(c[b])

\* Whatever puts good caches in the place of those of one id, and redraws
\* its boxes, keeps the facts.
LEMMA Rewritten ==
    ASSUME RowFacts, FilterFacts, page = "filters", page' = page, NEW i, NEW c, Rewrites(i, c)
    PROVE  FilterFacts'
<1> USE DEF Rewrites
<1>1. /\ DOMAIN cache' = Filters!Ids /\ cache'[i] = c /\ c # <<>>
      /\ \A j \in Filters!Ids : j # i => cache'[j] = cache[j]
  BY ShowAre DEF FilterFacts, CachesGood
<1>2. CachesGood'
  BY <1>1 DEF FilterFacts, CachesGood
<1>3. \A j \in Filters!Ids : cache[j] # <<>> => cache'[j] # <<>>
  BY <1>1
<1>4. total' = total /\ Filters!Form!Live' = Filters!Form!Live /\ index' = index /\ fid' = fid
  BY DEF rowVars, Filters!Form!Live
<1>5. \A j \in 0 .. total - 1 : j \in Filters!Ids
  BY FilterRows DEF Filters!Ids
<1>6. /\ \A j \in 0 .. total - 1 : cache'[j] # <<>>
      /\ \A r \in Filters!Form!Live : fid[r] \in Filters!Ids /\ index[r] <= fid[r] /\ cache'[fid[r]] # <<>>
  BY <1>3, <1>5 DEF FilterFacts, WidgetsReady
<1>7. ASSUME NEW r \in Filters!Form!Live, fid[r] = index[r], NEW b \in Filters!Boxes
      PROVE  box'[r][b] = Filters!Displayed(cache'[index[r]][b])
  <2>1. CASE index[r] = i
    BY <1>1, <1>7, <2>1
  <2>2. CASE index[r] # i
    <3>1. cache'[index[r]] = cache[index[r]] /\ box'[r] = box[r]
      BY <1>1, <2>2, FilterRows
    <3> QED
      BY <1>7, <3>1 DEF FilterFacts, WidgetsReady
  <2> QED
    BY <2>1, <2>2
<1>8. popup' # <<>> => ~made' /\ popup'.id \in Filters!Ids /\ cache'[popup'.id] # <<>>
  BY <1>3 DEF FilterFacts, WidgetsReady
<1>9. WidgetsReady'
  BY <1>4, <1>6, <1>7, <1>8 DEF FilterFacts, WidgetsReady
<1> QED
  BY <1>2, <1>9 DEF FilterFacts, SubmittedIsShown, Filters!SubmittedIsShown, Filters!None

\* The rows with the number a handler captured: one, or none any more.
LEMMA OwnerAlone ==
    ASSUME RowFacts, NEW k, Filters!Found(fid[k]) # {}
    PROVE  /\ Filters!Owner(k) \in Filters!Form!Live /\ Filters!Owner(k) \in Filters!Forms
           /\ index[Filters!Owner(k)] = fid[k]
           /\ \A r \in Filters!Form!Live : index[r] = fid[k] => r = Filters!Owner(k)
<1>1. Filters!Owner(k) \in Filters!Found(fid[k])
  BY DEF Filters!Owner
<1> QED
  BY <1>1, FilterRows DEF Filters!Found

\* Moving options between the boxes keeps the facts.
LEMMA MoveKeeps ==
    ASSUME RowFacts, FilterFacts, page = "filters", page' = page, sent = <<>>,
           NEW k \in Filters!Form!Live, NEW b \in Filters!Boxes, NEW which, NEW refresh,
           Filters!Move(k, b, which, refresh)
    PROVE  FilterFacts'
<1> DEFINE i == fid[k]
           w == Filters!Owner(k)
           vs == Only(box[w][b], Filters!Picked(w, b, which))
           c == Filters!MoveCache(cache[i], b, vs)
<1>1. /\ w \in Filters!Form!Live /\ w \in Filters!Forms
      /\ \A r \in Filters!Form!Live : index[r] = i => r = w
      /\ \A r \in Filters!Form!Live : index[r] # i => r # w
  BY OwnerAlone DEF Filters!Move
<1>2. i \in Filters!Ids /\ cache[i] # <<>> /\ Good(cache[i])
  BY DEF FilterFacts, WidgetsReady, CachesGood
<1>3. vs \in Seq(Filters!All) /\ IsInjective(vs)
  <2>1. box[w][b] \in Seq(Filters!All) /\ IsInjective(box[w][b])
    BY <1>1 DEF FilterFacts, BoxesGood
  <2> QED
    BY <2>1, OnlyElements
<1>4. /\ UNCHANGED <<rowVars, fid, made, sent, popup>> /\ cache' = [cache EXCEPT ![i] = c]
      /\ box' = [box EXCEPT ![w] = Filters!Show(c)] /\ sel' = [sel EXCEPT ![w] = Filters!Nothing]
  BY FiltersOnly DEF Filters!Move, Filters!Rebuild, Filters!inl, rowVars
<1> HIDE DEF vs, w
<1>5. Good(c) /\ Vals(c["from"]) \union Vals(c["to"])
                 = Vals(cache[i]["from"]) \union Vals(cache[i]["to"])
  BY <1>2, <1>3, MoveKeepsCaches
<1> HIDE DEF c, i
<1>6. made' \/ NewOption \notin Vals(c["from"]) \union Vals(c["to"])
  BY <1>2, <1>4, <1>5 DEF FilterFacts, CachesGood
<1>7. /\ Filters!Show(c) \in [Filters!Boxes -> Seq(Filters!All)]
      /\ \A a \in Filters!Boxes : /\ Filters!Show(c)[a] = Filters!Displayed(c[a])
                                  /\ IsInjective(Filters!Show(c)[a])
  BY <1>5, ShowAre
<1>8. box'[w] = Filters!Show(c) /\ \A f \in Filters!Forms : f # w => box'[f] = box[f]
  BY <1>1, <1>4 DEF FilterFacts, BoxesGood
<1>9. BoxesGood'
  <2>1. box' \in [Filters!Forms -> [Filters!Boxes -> Seq(Filters!All)]]
    BY <1>1, <1>4, <1>7 DEF FilterFacts, BoxesGood
  <2>2. \A f \in Filters!Forms, a \in Filters!Boxes : IsInjective(box'[f][a])
    BY <1>7, <1>8 DEF FilterFacts, BoxesGood
  <2>3. DOMAIN sel' = Filters!Forms /\ \A f \in Filters!Forms : DOMAIN sel'[f] = Filters!Boxes
    BY <1>4 DEF FilterFacts, BoxesGood, Filters!Nothing
  <2> QED
    BY <2>1, <2>2, <2>3 DEF BoxesGood
<1>10. \A r \in Filters!Form!Live : index[r] # i => box'[r] = box[r]
  BY <1>1, <1>8, FilterRows
<1>11. \A r \in Filters!Form!Live : index[r] = i /\ fid[r] = i =>
          \A a \in Filters!Boxes : box'[r][a] = Filters!Displayed(c[a])
  BY <1>1, <1>7, <1>8
<1>12. Rewrites(i, c)
  BY <1>2, <1>4, <1>5, <1>6, <1>9, <1>10, <1>11 DEF Rewrites
<1> QED
  BY <1>12, Rewritten

\* Handlers that select options, open the popup or fail.
LEMMA QuietKeeps ==
    ASSUME FilterFacts, page' = page, UNCHANGED <<rowVars, cache, box, fid, made>>,
           DOMAIN sel' = Filters!Forms, \A f \in Filters!Forms : DOMAIN sel'[f] = Filters!Boxes,
           page # "filters" => sent' = <<>>, SubmittedIsShown',
           popup' = <<>> \/ popup' = popup \/
              (page = "filters" /\ ~made /\ popup'.id \in Filters!Ids /\ cache[popup'.id] # <<>>),
           page # "filters" => popup' = popup
    PROVE  FilterFacts'
<1>1. CachesGood' /\ BoxesGood'
  BY DEF FilterFacts, CachesGood, BoxesGood
<1>2. Filters!Form!Live' = Filters!Form!Live /\ total' = total /\ index' = index
  BY DEF rowVars, Filters!Form!Live
<1>3. popup' # <<>> => ~made' /\ popup'.id \in Filters!Ids /\ cache'[popup'.id] # <<>>
  BY DEF FilterFacts, WidgetsReady
<1>4. WidgetsReady'
  BY <1>2, <1>3 DEF FilterFacts, WidgetsReady
<1> QED
  BY <1>1, <1>4 DEF FilterFacts

\* Typing into the filter keeps the facts.
LEMMA TypeKeeps ==
    ASSUME RowFacts, FilterFacts, page = "filters", page' = page, sent = <<>>,
           NEW k \in Filters!Form!Live, NEW ws, Filters!Type(k, ws)
    PROVE  FilterFacts'
<1>1. CASE Filters!Found(fid[k]) = {}
  BY <1>1, QuietKeeps DEF Filters!Type, Filters!inl, rowVars, FilterFacts, BoxesGood,
     SubmittedIsShown, Filters!SubmittedIsShown, Filters!None
<1>2. CASE Filters!Found(fid[k]) # {}
  <2> DEFINE i == fid[k]
             w == Filters!Owner(k)
             all == words'[w]
             c == [cache[i] EXCEPT !["from"] = Filters!Filter(@, all)]
  <2>1. /\ w \in Filters!Form!Live /\ w \in Filters!Forms
        /\ \A r \in Filters!Form!Live : index[r] = i => r = w
        /\ \A r \in Filters!Form!Live : index[r] # i => r # w
    BY <1>2, OwnerAlone
  <2>2. i \in Filters!Ids /\ cache[i] # <<>> /\ Good(cache[i])
    BY DEF FilterFacts, WidgetsReady, CachesGood
  <2>3. /\ UNCHANGED <<rowVars, fid, made, sent, popup>> /\ cache' = [cache EXCEPT ![i] = c]
        /\ box' = [box EXCEPT ![w]["from"] = Filters!Displayed(c["from"])]
        /\ sel' = [sel EXCEPT ![w]["from"] = {}]
    BY <1>2 DEF Filters!Type, Filters!inl, rowVars
  <2> HIDE DEF w, all, i
  <2>4. /\ Good(c) /\ c["to"] = cache[i]["to"] /\ Vals(c["from"]) = Vals(cache[i]["from"])
    BY <2>2, FilterIsGood
  <2> HIDE DEF c
  <2>5. made' \/ NewOption \notin Vals(c["from"]) \union Vals(c["to"])
    BY <2>2, <2>3, <2>4 DEF FilterFacts, CachesGood
  <2>6. \A b \in Filters!Boxes : /\ Filters!Displayed(c[b]) \in Seq(Filters!All)
                                 /\ IsInjective(Filters!Displayed(c[b]))
    BY <2>4, DisplayedAre DEF Good
  <2>7. /\ \A f \in Filters!Forms : f # w => box'[f] = box[f]
        /\ box'[w]["from"] = Filters!Displayed(c["from"]) /\ box'[w]["to"] = box[w]["to"]
        /\ box' \in [Filters!Forms -> [Filters!Boxes -> Seq(Filters!All)]]
    BY <2>1, <2>3, <2>6 DEF FilterFacts, BoxesGood, Filters!Boxes
  <2>8. BoxesGood'
    <3>1. \A f \in Filters!Forms, a \in Filters!Boxes : IsInjective(box'[f][a])
      BY <2>6, <2>7 DEF FilterFacts, BoxesGood, Filters!Boxes
    <3>2. DOMAIN sel' = Filters!Forms /\ \A f \in Filters!Forms : DOMAIN sel'[f] = Filters!Boxes
      BY <2>3 DEF FilterFacts, BoxesGood
    <3> QED
      BY <2>7, <3>1, <3>2 DEF BoxesGood
  <2>9. \A r \in Filters!Form!Live : index[r] # i => box'[r] = box[r]
    BY <2>1, <2>7, FilterRows
  <2>10. ASSUME NEW r \in Filters!Form!Live, index[r] = i, fid[r] = i, NEW a \in Filters!Boxes
         PROVE  box'[r][a] = Filters!Displayed(c[a])
    <3>1. r = w /\ box[r][a] = Filters!Displayed(cache[i][a])
      BY <2>1, <2>10 DEF FilterFacts, WidgetsReady
    <3> QED
      BY <2>4, <2>7, <3>1 DEF Filters!Boxes
  <2>11. Rewrites(i, c)
    BY <2>2, <2>3, <2>4, <2>5, <2>8, <2>9, <2>10 DEF Rewrites
  <2> QED
    BY <2>11, Rewritten
<1> QED
  BY <1>1, <1>2

\* The answer of an add popup keeps the facts.
LEMMA PopupKeeps ==
    ASSUME RowFacts, FilterFacts, page = "filters", page' = page, sent = <<>>, Filters!ClosePopup
    PROVE  FilterFacts'
<1> DEFINE i == popup.id
           c == [cache[i] EXCEPT !["to"] = @ \o Filters!Entries(<<NewOption>>)]
           seen == Filters!Displayed(c["to"])
<1>1. /\ i \in Filters!Ids /\ ~made /\ cache[i] # <<>> /\ Good(cache[i])
      /\ NewOption \notin Vals(cache[i]["from"]) \union Vals(cache[i]["to"])
  BY DEF FilterFacts, WidgetsReady, CachesGood, Filters!ClosePopup, Filters!None
<1>2. /\ UNCHANGED <<rowVars, fid, sent>> /\ cache' = [cache EXCEPT ![i] = c]
      /\ popup' = <<>> /\ made' = TRUE
      /\ box' = [f \in Filters!Forms |-> IF f \in Filters!Found(i)
                   THEN [box[f] EXCEPT !["to"] = seen] ELSE box[f]]
      /\ sel' = [f \in Filters!Forms |-> IF f \in Filters!Found(i)
                   THEN [sel[f] EXCEPT !["to"] = {}] ELSE sel[f]]
  BY DEF Filters!ClosePopup, Filters!inl, rowVars, Filters!None
<1> HIDE DEF i
<1>3. Good(c) /\ c["from"] = cache[i]["from"]
  BY <1>1, AdditionIsGood
<1> HIDE DEF c
<1>4. seen \in Seq(Filters!All) /\ IsInjective(seen)
  BY <1>3, DisplayedAre DEF Good, Filters!Boxes
<1> HIDE DEF seen
<1>5. BoxesGood'
  <2>1. box' \in [Filters!Forms -> [Filters!Boxes -> Seq(Filters!All)]]
    BY <1>2, <1>4 DEF FilterFacts, BoxesGood
  <2>2. \A f \in Filters!Forms, a \in Filters!Boxes : box'[f][a] = seen \/ box'[f][a] = box[f][a]
    BY <1>2 DEF FilterFacts, BoxesGood
  <2>3. DOMAIN sel' = Filters!Forms /\ \A f \in Filters!Forms : DOMAIN sel'[f] = Filters!Boxes
    BY <1>2 DEF FilterFacts, BoxesGood
  <2> QED
    BY <1>4, <2>1, <2>2, <2>3 DEF FilterFacts, BoxesGood
<1>6. \A r \in Filters!Form!Live : index[r] # i => box'[r] = box[r]
  BY <1>2, FilterRows DEF Filters!Found
<1>7. ASSUME NEW r \in Filters!Form!Live, index[r] = i, fid[r] = i, NEW a \in Filters!Boxes
      PROVE  box'[r][a] = Filters!Displayed(c[a])
  <2>1. r \in Filters!Found(i) /\ r \in Filters!Forms /\ box[r][a] = Filters!Displayed(cache[i][a])
    BY <1>7, FilterRows DEF FilterFacts, WidgetsReady, Filters!Found
  <2>2. box'[r] = [box[r] EXCEPT !["to"] = seen] /\ DOMAIN box[r] = Filters!Boxes
    BY <1>2, <2>1 DEF FilterFacts, BoxesGood
  <2>3. CASE a = "to"
    BY <1>3, <2>2, <2>3 DEF seen
  <2>4. CASE a = "from"
    BY <1>3, <2>1, <2>2, <2>4
  <2> QED
    BY <2>3, <2>4 DEF Filters!Boxes
<1>8. Rewrites(i, c)
  BY <1>1, <1>2, <1>3, <1>5, <1>6, <1>7 DEF Rewrites
<1> QED
  BY <1>8, Rewritten

\* A new row has widgets and caches of its own, under a new number.
LEMMA AddKeepsWidgets ==
    ASSUME RowFacts, RowFacts', FilterFacts, page = "filters", page' = page, sent = <<>>,
           Filters!AddRow
    PROVE  FilterFacts'
<1> DEFINE k == MaxForms + added
           c == Filters!Fresh({})
<1>1. /\ rows' = Append(rows, k) /\ index' = [index EXCEPT ![k] = total] /\ total' = total + 1
      /\ total < MaxForms /\ k \in Filters!Forms
  <2>1. Form!Add
    BY FiltersForm DEF Filters!AddRow
  <2>2. addShown => total < MaxForms
    BY DEF RowFacts, FormsContiguous, Form!FormsContiguous
  <2>3. k \in Filters!Forms
    BY <2>1, WebAssumption DEF Form!Add, RowFacts, Form!InlinesAssumption, Filters!Forms, Filters!Form!Forms
  <2> QED
    BY <2>1, <2>2, <2>3 DEF Form!Add
<1>2. /\ cache' = [cache EXCEPT ![total] = c]
      /\ box' = [box EXCEPT ![k] = Filters!Show(c)] /\ fid' = [fid EXCEPT ![k] = total]
      /\ UNCHANGED <<sel, popup, made, sent>>
  BY DEF Filters!AddRow
<1>3. total \in Filters!Ids /\ total \in Nat
  BY <1>1, FilterRows DEF Filters!Ids
<1>4. /\ Good(c) /\ NewOption \notin Vals(c["from"]) \union Vals(c["to"])
  BY FreshIsGood, FiltersFunctions, WebAssumption DEF Filters!FilterAssumption
<1> HIDE DEF c
<1>5. /\ Filters!Show(c) \in [Filters!Boxes -> Seq(Filters!All)] /\ c # <<>>
      /\ \A b \in Filters!Boxes : /\ Filters!Show(c)[b] = Filters!Displayed(c[b])
                                  /\ IsInjective(Filters!Show(c)[b])
  BY <1>4, ShowAre
<1>6. \A r \in Filters!Form!Live' : r = k \/ (r \in Filters!Form!Live /\ r # k)
  <2>1. DOMAIN rows = 1 .. Len(rows) /\ Len(rows) \in Nat
    BY DEF RowFacts
  <2>2. \A r \in Filters!Form!Live' : r = k \/ r \in Filters!Form!Live
    BY <1>1, <2>1 DEF Filters!Form!Live
  <2> QED
    BY <2>2
<1>7. k \notin Filters!Form!Live
  <2>1. \A r \in Filters!Form!Live : r < k
    BY DEF RowFacts, NextIsNew, Filters!Form!Live
  <2>2. k \in Int
    BY <1>1 DEF Filters!Forms, Filters!Form!Forms
  <2> HIDE DEF k
  <2>3. ~(k < k)
    BY <2>2
  <2> QED
    BY <2>1, <2>3
<1> HIDE DEF k
<1>8. /\ DOMAIN cache' = Filters!Ids /\ cache'[total] = c
      /\ \A j \in Filters!Ids : j # total => cache'[j] = cache[j]
  BY <1>2, <1>3 DEF FilterFacts, CachesGood
<1>9. \A j \in Filters!Ids : cache[j] # <<>> => cache'[j] # <<>>
  BY <1>5, <1>8
<1>10. CachesGood'
  BY <1>2, <1>4, <1>8 DEF FilterFacts, CachesGood
<1>11. box'[k] = Filters!Show(c) /\ \A f \in Filters!Forms : f # k => box'[f] = box[f]
  BY <1>1, <1>2 DEF FilterFacts, BoxesGood
<1>12. BoxesGood'
  <2>1. box' \in [Filters!Forms -> [Filters!Boxes -> Seq(Filters!All)]]
    BY <1>1, <1>2, <1>5 DEF FilterFacts, BoxesGood
  <2>2. \A f \in Filters!Forms, a \in Filters!Boxes : IsInjective(box'[f][a])
    BY <1>5, <1>11 DEF FilterFacts, BoxesGood
  <2> QED
    BY <1>2, <2>1, <2>2 DEF FilterFacts, BoxesGood
<1>13. /\ fid'[k] = total /\ index'[k] = total /\ DOMAIN fid' = Filters!Forms
       /\ \A r \in Filters!Forms : r # k => fid'[r] = fid[r] /\ index'[r] = index[r]
  <2>1. DOMAIN fid = Filters!Forms /\ DOMAIN index = Filters!Forms
    BY FilterRows DEF FilterFacts, WidgetsReady, RowFacts
  <2> QED
    BY <1>1, <1>2, <2>1
<1>14. \A j \in 0 .. total' - 1 : cache'[j] # <<>>
  <2>1. \A j \in 0 .. total' - 1 : j = total \/ (j \in 0 .. total - 1 /\ j \in Filters!Ids)
    <3>1. total \in Nat /\ MaxForms \in Nat /\ total < MaxForms /\ total' = total + 1
      BY <1>1, FilterRows
    <3> QED
      BY <3>1 DEF Filters!Ids
  <2> QED
    BY <1>5, <1>8, <1>9, <2>1 DEF FilterFacts, WidgetsReady
<1>15. \A r \in Filters!Form!Live' :
          fid'[r] \in Filters!Ids /\ index'[r] <= fid'[r] /\ cache'[fid'[r]] # <<>>
  <2>1. ASSUME NEW r \in Filters!Form!Live, r # k
        PROVE  fid'[r] \in Filters!Ids /\ index'[r] <= fid'[r] /\ cache'[fid'[r]] # <<>>
    <3>1. fid[r] \in Filters!Ids /\ index[r] <= fid[r] /\ cache[fid[r]] # <<>>
      BY DEF FilterFacts, WidgetsReady
    <3> QED
      BY <1>9, <1>13, <2>1, <3>1, FilterRows
  <2>2. total <= total
    BY <1>3
  <2> QED
    BY <1>3, <1>5, <1>6, <1>8, <1>13, <2>1, <2>2
<1>16. ASSUME NEW r \in Filters!Form!Live', fid'[r] = index'[r], NEW b \in Filters!Boxes
       PROVE  box'[r][b] = Filters!Displayed(cache'[index'[r]][b])
  <2>1. CASE r = k
    BY <1>5, <1>8, <1>11, <1>13, <2>1
  <2>2. CASE r \in Filters!Form!Live /\ r # k
    <3>1. /\ r \in Filters!Forms /\ index[r] \in 0 .. total - 1 /\ index[r] \in Filters!Ids
          /\ fid'[r] = fid[r] /\ index'[r] = index[r] /\ index[r] # total
      BY <1>3, <1>13, <2>2, FilterRows
    <3>2. box[r][b] = Filters!Displayed(cache[index[r]][b])
      BY <1>16, <2>2, <3>1 DEF FilterFacts, WidgetsReady
    <3> QED
      BY <1>8, <1>11, <2>2, <3>1, <3>2
  <2> QED
    BY <1>6, <2>1, <2>2
<1>17. popup' # <<>> => ~made' /\ popup'.id \in Filters!Ids /\ cache'[popup'.id] # <<>>
  BY <1>2, <1>9 DEF FilterFacts, WidgetsReady
<1>18. WidgetsReady'
  BY <1>13, <1>14, <1>15, <1>16, <1>17 DEF WidgetsReady
<1> QED
  BY <1>2, <1>10, <1>12, <1>18 DEF FilterFacts, SubmittedIsShown, Filters!SubmittedIsShown, Filters!None

\* A removal lowers numbers, so ids stay below the number of forms.
LEMMA RemoveKeepsWidgets ==
    ASSUME RowFacts, RowFacts', FilterFacts, page = "filters", page' = page, sent = <<>>,
           NEW p, Filters!RemoveRow(p)
    PROVE  FilterFacts'
<1> DEFINE k == rows[p]
<1>1. Form!Remove(p) /\ p \in DOMAIN rows /\ rows' = Form!Without(rows, p)
  BY FiltersForm DEF Filters!RemoveRow, Form!Remove
<1>2. \A r \in Filters!Form!Live' : r \in Filters!Form!Live /\ index'[r] <= index[r]
  BY <1>1, NumbersSink DEF Filters!Form!Live, Fields!Form!Live
<1>3. k \notin Filters!Form!Live'
  <2>1. /\ DOMAIN rows = 1 .. Len(rows) /\ Len(rows) \in Nat /\ p \in 1 .. Len(rows)
        /\ DOMAIN rows' = 1 .. Len(rows) - 1
        /\ \A i \in DOMAIN rows' : rows'[i] = IF i < p THEN rows[i] ELSE rows[i + 1]
    BY <1>1 DEF RowFacts, Form!Without
  <2>2. \A i, j \in DOMAIN rows : rows[i] = rows[j] => i = j
    BY DEF RowFacts, FormsContiguous, Form!FormsContiguous
  <2>3. \A i \in DOMAIN rows' : \E j \in DOMAIN rows : rows'[i] = rows[j] /\ j # p
    BY <2>1
  <2>4. \A i \in DOMAIN rows' : rows'[i] # rows[p]
    BY <1>1, <2>2, <2>3
  <2> QED
    BY <2>4 DEF Filters!Form!Live
<1>4. /\ box' = [box EXCEPT ![k] = Filters!Blank] /\ sel' = [sel EXCEPT ![k] = Filters!Nothing]
      /\ fid' = [fid EXCEPT ![k] = -1] /\ UNCHANGED <<cache, popup, made, sent>>
  BY DEF Filters!RemoveRow
<1>5. k \in Filters!Forms
  BY <1>1, FilterRows DEF Filters!Form!Live
<1> HIDE DEF k
<1>6. \A f \in Filters!Forms : f # k => box'[f] = box[f] /\ fid'[f] = fid[f]
  BY <1>4 DEF FilterFacts, BoxesGood, WidgetsReady
<1>7. BoxesGood'
  <2>1. /\ Filters!Blank \in [Filters!Boxes -> Seq(Filters!All)]
        /\ \A b \in Filters!Boxes : IsInjective(Filters!Blank[b])
    BY DEF Filters!Blank, IsInjective
  <2>2. box'[k] = Filters!Blank /\ box' \in [Filters!Forms -> [Filters!Boxes -> Seq(Filters!All)]]
    BY <1>4, <1>5, <2>1 DEF FilterFacts, BoxesGood
  <2>3. \A f \in Filters!Forms, a \in Filters!Boxes : IsInjective(box'[f][a])
    BY <1>6, <2>1, <2>2 DEF FilterFacts, BoxesGood
  <2>4. DOMAIN sel' = Filters!Forms /\ \A f \in Filters!Forms : DOMAIN sel'[f] = Filters!Boxes
    BY <1>4 DEF FilterFacts, BoxesGood, Filters!Nothing
  <2> QED
    BY <2>2, <2>3, <2>4 DEF BoxesGood
<1>8. total' \in Nat /\ total \in Nat /\ \A j \in 0 .. total' - 1 : j \in 0 .. total - 1
  <2>1. total = Len(rows) /\ total' = Len(rows') /\ total \in Nat /\ total' \in Nat
    <3>1. rows \in Seq(Fields!Forms) /\ rows' \in Seq(Fields!Forms')
      BY DEF RowFacts
    <3>2. total = Len(rows) /\ total' = Len(rows')
      BY DEF RowFacts, FormsContiguous, Form!FormsContiguous
    <3> QED
      BY <3>1, <3>2
  <2>2. DOMAIN rows = 1 .. Len(rows) /\ DOMAIN rows' = 1 .. Len(rows) - 1 /\ DOMAIN rows' = 1 .. Len(rows')
    BY <1>1 DEF RowFacts, Form!Without
  <2>3. total' <= total
    <3>1. 1 .. total' = 1 .. total - 1
      BY <2>1, <2>2
    <3> QED
      BY <2>1, <3>1
  <2> QED
    BY <2>1, <2>3
<1>9. \A r \in Filters!Form!Live' : fid'[r] = fid[r] /\ box'[r] = box[r] /\ r \in Filters!Forms
  BY <1>2, <1>3, <1>6, FilterRows
<1>10. ASSUME NEW r \in Filters!Form!Live'
       PROVE  /\ fid[r] \in Filters!Ids /\ index'[r] <= fid[r] /\ cache[fid[r]] # <<>>
              /\ fid[r] = index'[r] => index'[r] = index[r]
  <2>1. /\ r \in Filters!Form!Live /\ index'[r] <= index[r] /\ index[r] \in Int /\ index'[r] \in Int
    <3>1. index'[r] \in Int
      BY DEF RowFacts, FormsContiguous, Form!FormsContiguous, Filters!Form!Live
    <3>2. \A i \in 0 .. total - 1 : i \in Int
      BY <1>8
    <3> QED
      BY <1>2, <3>1, <3>2, FilterRows
  <2>2. fid[r] \in Filters!Ids /\ fid[r] \in Int /\ index[r] <= fid[r] /\ cache[fid[r]] # <<>>
    BY <2>1 DEF FilterFacts, WidgetsReady, Filters!Ids
  <2> QED
    BY <2>1, <2>2
<1>11. WidgetsReady'
  <2>1. DOMAIN fid' = Filters!Forms
    BY <1>4 DEF FilterFacts, WidgetsReady
  <2>2. \A i \in 0 .. total' - 1 : cache'[i] # <<>>
    BY <1>4, <1>8 DEF FilterFacts, WidgetsReady
  <2>3. ASSUME NEW r \in Filters!Form!Live', fid'[r] = index'[r], NEW b \in Filters!Boxes
        PROVE  box'[r][b] = Filters!Displayed(cache'[index'[r]][b])
    BY <1>2, <1>4, <1>9, <1>10, <2>3 DEF FilterFacts, WidgetsReady
  <2>4. popup' # <<>> => ~made' /\ popup'.id \in Filters!Ids /\ cache'[popup'.id] # <<>>
    BY <1>4 DEF FilterFacts, WidgetsReady
  <2>5. \A r \in Filters!Form!Live' :
           fid'[r] \in Filters!Ids /\ index'[r] <= fid'[r] /\ cache'[fid'[r]] # <<>>
    BY <1>4, <1>9, <1>10
  <2> QED
    BY <2>1, <2>2, <2>3, <2>4, <2>5 DEF WidgetsReady
<1>12. CachesGood'
  BY <1>4 DEF FilterFacts, CachesGood
<1> QED
  BY <1>4, <1>7, <1>11, <1>12 DEF FilterFacts, SubmittedIsShown, Filters!SubmittedIsShown, Filters!None

\* A fresh page has good caches.
LEMMA LoadKeepsWidgets ==
    ASSUME page = "filters", page' = page, NEW n \in Initial, NEW chosen, Filters!Load(n, chosen)
    PROVE  FilterFacts'
<1> DEFINE c == Filters!Fresh(chosen)
<1>1. n \in 0 .. MaxForms /\ MaxForms \in Nat /\ Adds \in Nat
  BY WebAssumption DEF Form!InlinesAssumption
<1>2. \A r \in Filters!Form!Live' :
         r \in 0 .. n - 1 /\ r \in Filters!Forms /\ r \in Filters!Ids /\ index'[r] = r /\ r < n /\ r <= r
  BY <1>1 DEF Filters!Load, Filters!Form!Load, Filters!Form!Live, Filters!Forms, Filters!Form!Forms,
     Filters!Ids
<1>3. /\ cache' = [i \in Filters!Ids |-> IF i < n THEN c ELSE <<>>]
      /\ box' = [f \in Filters!Forms |-> IF f < n THEN Filters!Show(c) ELSE Filters!Blank]
      /\ sel' = [f \in Filters!Forms |-> Filters!Nothing]
      /\ fid' = [f \in Filters!Forms |-> IF f < n THEN f ELSE -1]
      /\ popup' = <<>> /\ sent' = <<>> /\ total' = n
  BY DEF Filters!Load, Filters!Form!Load, Filters!None
<1>4. /\ Good(c) /\ NewOption \notin Vals(c["from"]) \union Vals(c["to"])
  BY FreshIsGood, FiltersFunctions, WebAssumption DEF Filters!FilterAssumption
<1> HIDE DEF c
<1>5. /\ Filters!Show(c) \in [Filters!Boxes -> Seq(Filters!All)] /\ c # <<>>
      /\ \A b \in Filters!Boxes : /\ Filters!Show(c)[b] = Filters!Displayed(c[b])
                                  /\ IsInjective(Filters!Show(c)[b])
  BY <1>4, ShowAre
<1>6. CachesGood'
  BY <1>3, <1>4 DEF CachesGood
<1>7. BoxesGood'
  <2>1. /\ Filters!Blank \in [Filters!Boxes -> Seq(Filters!All)]
        /\ \A b \in Filters!Boxes : IsInjective(Filters!Blank[b])
    BY DEF Filters!Blank, IsInjective
  <2>2. box' \in [Filters!Forms -> [Filters!Boxes -> Seq(Filters!All)]]
    BY <1>3, <1>5, <2>1
  <2>3. \A f \in Filters!Forms, a \in Filters!Boxes : IsInjective(box'[f][a])
    BY <1>3, <1>5, <2>1
  <2>4. DOMAIN sel' = Filters!Forms /\ \A f \in Filters!Forms : DOMAIN sel'[f] = Filters!Boxes
    BY <1>3 DEF Filters!Nothing
  <2> QED
    BY <2>2, <2>3, <2>4 DEF BoxesGood
<1>8. \A i \in 0 .. total' - 1 : cache'[i] # <<>>
  <2>1. \A i \in 0 .. n - 1 : i \in Filters!Ids /\ i < n
    BY <1>1 DEF Filters!Ids
  <2> QED
    BY <1>3, <1>5, <2>1
<1>9. \A r \in Filters!Form!Live' :
         /\ fid'[r] = r /\ cache'[r] = c /\ box'[r] = Filters!Show(c)
         /\ fid'[r] \in Filters!Ids /\ index'[r] <= fid'[r] /\ cache'[fid'[r]] # <<>>
  BY <1>2, <1>3, <1>5
<1>10. \A r \in Filters!Form!Live' : fid'[r] = index'[r] =>
          \A b \in Filters!Boxes : box'[r][b] = Filters!Displayed(cache'[index'[r]][b])
  BY <1>2, <1>5, <1>9
<1>11. WidgetsReady'
  BY <1>3, <1>8, <1>9, <1>10 DEF WidgetsReady
<1> QED
  BY <1>3, <1>6, <1>7, <1>11 DEF FilterFacts, SubmittedIsShown, Filters!SubmittedIsShown, Filters!None

\* Submit: every row of the page has a number whose caches were set up once, so
\* some handler of that number selects all of its right box.
LEMMA SubmitKeepsWidgets ==
    ASSUME RowFacts, FilterFacts, page = "filters", page' = page, sent = <<>>, Filters!Submit
    PROVE  FilterFacts'
<1> DEFINE ever == { i \in Filters!Ids : cache[i] # <<>> }
           has(f) == f \in Filters!Form!Live /\ index[f] \in ever
<1>1. /\ UNCHANGED <<rowVars, cache, box, fid, popup, made>>
      /\ sel' = [f \in Filters!Forms |->
                   IF has(f) THEN [sel[f] EXCEPT !["to"] = Range(box[f]["to"])] ELSE sel[f]]
      /\ sent' = [f \in Filters!Forms |-> sel'[f]["to"]]
  BY FiltersFunctions DEF Filters!Submit, Filters!inl, rowVars, Filters!None
<1>2. \A r \in Filters!Form!Live : has(r) /\ r \in Filters!Forms
  BY FilterRows DEF FilterFacts, WidgetsReady
<1> HIDE DEF has
<1>3. /\ DOMAIN sel' = Filters!Forms
      /\ \A f \in Filters!Forms : DOMAIN sel'[f] = Filters!Boxes
  BY <1>1 DEF FilterFacts, BoxesGood
<1>4. \A r \in Filters!Form!Live : sent'[r] = Range(box'[r]["to"])
  <2>1. \A f \in Filters!Forms : "to" \in DOMAIN sel[f]
    BY DEF FilterFacts, BoxesGood, Filters!Boxes
  <2> QED
    BY <1>1, <1>2, <2>1
<1>5. SubmittedIsShown'
  BY <1>1, <1>4, FiltersFunctions
  DEF SubmittedIsShown, Filters!SubmittedIsShown, rowVars, Filters!Form!Live
<1> QED
  BY <1>1, <1>3, <1>5, QuietKeeps

\* Every use of a widget keeps the facts.
LEMMA UseKeepsWidgets ==
    ASSUME RowFacts, FilterFacts, page = "filters", page' = page, sent = <<>>,
           NEW k \in Filters!Form!Live, Filters!Use(k)
    PROVE  FilterFacts'
<1> DEFINE Quiet == /\ UNCHANGED <<rowVars, cache, box, fid, popup, made, sent>>
                    /\ DOMAIN sel' = Filters!Forms
                    /\ \A f \in Filters!Forms : DOMAIN sel'[f] = Filters!Boxes
<1>1. ASSUME Quiet PROVE FilterFacts'
  BY <1>1, QuietKeeps DEF SubmittedIsShown, Filters!SubmittedIsShown, Filters!None
<1>2. ASSUME NEW b \in Filters!Boxes, NEW which, NEW refresh, Filters!Move(k, b, which, refresh)
      PROVE  FilterFacts'
  BY <1>2, MoveKeeps
<1>3. "from" \in Filters!Boxes /\ "to" \in Filters!Boxes
  BY DEF Filters!Boxes
<1>4. ASSUME NEW b \in Filters!Boxes, Filters!DoubleClick(k, b) PROVE FilterFacts'
  BY <1>2, <1>3, <1>4 DEF Filters!DoubleClick
<1>5. ASSUME NEW b \in Filters!Boxes, NEW s, Filters!Select(k, b, s) PROVE FilterFacts'
  <2>1. Quiet
    BY <1>5 DEF Filters!Select, Filters!inl, rowVars, FilterFacts, BoxesGood
  <2> QED
    BY <1>1, <2>1
<1>6. ASSUME NEW l \in Filters!Arrows, Filters!Click(k, l) PROVE FilterFacts'
  <2>1. CASE UNCHANGED <<Filters!inl, Filters!widgets, popup, made, sent>>
    <3>1. Quiet
      BY <2>1 DEF Filters!inl, Filters!widgets, rowVars, FilterFacts, BoxesGood
    <3> QED
      BY <1>1, <3>1
  <2>2. CASE \E b \in Filters!Boxes, which \in {"selected", "all"} : Filters!Move(k, b, which, TRUE)
    BY <1>2, <2>2
  <2> QED
    BY <1>3, <1>6, <2>1, <2>2 DEF Filters!Click
<1>7. ASSUME Filters!KeyRight(k) \/ Filters!KeyEnter(k) PROVE FilterFacts'
  BY <1>2, <1>3, <1>7 DEF Filters!KeyRight, Filters!KeyEnter
<1>8. ASSUME NEW down, Filters!KeyVertical(k, down) PROVE FilterFacts'
  <2>1. Quiet
    BY <1>8 DEF Filters!KeyVertical, Filters!inl, rowVars, FilterFacts, BoxesGood
  <2> QED
    BY <1>1, <2>1
<1>9. ASSUME NEW ws, Filters!Type(k, ws) PROVE FilterFacts'
  BY <1>9, TypeKeeps
<1> QED
  BY <1>4, <1>5, <1>6, <1>7, <1>8, <1>9 DEF Filters!Use

\* Every step of the site keeps the facts about widgets.
LEMMA FiltersKeep ==
    ASSUME RowFacts, RowFacts', FilterFacts, [Next]_vars
    PROVE  FilterFacts'
<1>0. page' = page
  BY DEF Next, vars
<1>1. ASSUME page # "filters" PROVE FilterFacts'
  <2>1. UNCHANGED filterVars
    BY <1>1 DEF Next, vars
  <2>2. \A r \in Filters!Form!Live' : r \in Filters!Forms /\ index'[r] # -1
    <3>1. \A i \in DOMAIN rows' : rows'[i] \in Fields!Forms /\ index'[rows'[i]] = i - 1 /\ i \in Nat /\ i # 0
      BY DEF RowFacts, FormsContiguous, Form!FormsContiguous
    <3>2. \A i \in DOMAIN rows' : index'[rows'[i]] # -1
      BY <3>1
    <3> QED
      BY <3>1, <3>2, FilterRows DEF Filters!Form!Live
  <2>3. \A f \in Filters!Forms : fid'[f] = -1
    BY <1>1, <2>1 DEF filterVars, FilterFacts, WidgetsReady
  <2>4. WidgetsReady'
    BY <1>0, <1>1, <2>1, <2>2, <2>3 DEF filterVars, FilterFacts, WidgetsReady
  <2>5. SubmittedIsShown'
    BY <1>1, <2>1 DEF filterVars, FilterFacts, WidgetsReady, SubmittedIsShown,
       Filters!SubmittedIsShown, Filters!None
  <2> QED
    BY <2>1, <2>4, <2>5 DEF filterVars, FilterFacts, CachesGood, BoxesGood
<1>2. ASSUME UNCHANGED <<rowVars, filterVars>> PROVE FilterFacts'
  <2>1. SubmittedIsShown'
    BY <1>2 DEF FilterFacts, SubmittedIsShown, Filters!SubmittedIsShown, rowVars, filterVars, Filters!Form!Live
  <2>2. DOMAIN sel' = Filters!Forms /\ \A f \in Filters!Forms : DOMAIN sel'[f] = Filters!Boxes
    BY <1>2 DEF filterVars, FilterFacts, BoxesGood
  <2>3. page # "filters" => sent' = <<>>
    BY <1>2 DEF filterVars, FilterFacts, WidgetsReady
  <2> QED
    BY <1>0, <1>2, <2>1, <2>2, <2>3, QuietKeeps DEF filterVars
<1>3. CASE page = "filters" /\ Filters!Loads
  BY <1>0, <1>3, LoadKeepsWidgets DEF Filters!Loads
<1>4. CASE page = "filters" /\ Filters!Ops
  <2>1. sent = <<>>
    BY <1>4 DEF Filters!Ops, Filters!None
  <2>2. CASE Filters!AddRow
    BY <1>0, <1>4, <2>1, <2>2, AddKeepsWidgets
  <2>3. CASE Filters!ClosePopup
    BY <1>0, <1>4, <2>1, <2>3, PopupKeeps
  <2>4. CASE Filters!Submit
    BY <1>0, <1>4, <2>1, <2>4, SubmitKeepsWidgets
  <2>5. CASE \E p \in DOMAIN rows : Filters!RemoveRow(p)
    BY <1>0, <1>4, <2>1, <2>5, RemoveKeepsWidgets
  <2>6. ASSUME NEW k \in Filters!Form!Live, Filters!OpenPopup(k) PROVE FilterFacts'
    <3>1. /\ UNCHANGED <<rowVars, cache, box, fid, sel, made, sent>> /\ ~made
          /\ popup' = [row |-> k, id |-> index[k]]
      BY <2>6 DEF Filters!OpenPopup, Filters!inl, Filters!widgets, rowVars
    <3>2. index[k] \in Filters!Ids /\ cache[index[k]] # <<>>
      BY <1>4, FilterRows DEF FilterFacts, WidgetsReady
    <3>3. DOMAIN sel' = Filters!Forms /\ \A f \in Filters!Forms : DOMAIN sel'[f] = Filters!Boxes
      BY <3>1 DEF FilterFacts, BoxesGood
    <3> QED
      BY <1>0, <1>4, <2>1, <3>1, <3>2, <3>3, QuietKeeps
      DEF SubmittedIsShown, Filters!SubmittedIsShown, Filters!None
  <2>7. ASSUME NEW k \in Filters!Form!Live, Filters!Use(k) PROVE FilterFacts'
    BY <1>0, <1>4, <2>1, <2>7, UseKeepsWidgets
  <2> QED
    BY <1>4, <2>2, <2>3, <2>4, <2>5, <2>6, <2>7 DEF Filters!Ops
<1> QED
  BY <1>1, <1>2, <1>3, <1>4 DEF Next, vars, Filters!Next

LEMMA FiltersInvariant == Spec => [](RowFacts /\ FilterFacts)
<1>1. RowFacts /\ RowFacts' /\ FilterFacts /\ [Next]_vars => FilterFacts'
  BY FiltersKeep
<1> QED
  BY <1>1, FiltersStart, FormsetInvariant, PTL DEF Spec

\* For any options, rows and uses of the widgets in any order, whatever was removed
\* and numbered anew before: the form the browser sends holds, for every row left,
\* exactly what its right box shows (SelectFilter2.js, SelectBox.js).
THEOREM SubmissionIsShown == Spec => []SubmittedIsShown
<1>1. FilterFacts => SubmittedIsShown
  BY DEF FilterFacts
<1> QED
  BY <1>1, FiltersInvariant, PTL

\* Two caches without a repetition, over the options and one more.
LEMMA NotLonger ==
    ASSUME NEW c, Good(c)
    PROVE  /\ Range(Options) \subseteq Range(Filters!Values(c["from"] \o c["to"]))
           /\ IsInjective(Filters!Values(c["from"] \o c["to"]))
           /\ Len(Filters!Values(c["from"] \o c["to"])) <= Len(Options) + 1
<1> DEFINE s == c["from"] \o c["to"]
           v == Filters!Values(s)
           n == Len(v)
           m == Len(Options)
<1>1. s \in Seq(Items) /\ Once(s) /\ Vals(s) = Vals(c["from"]) \union Vals(c["to"])
  BY Joined DEF Good, Filters!Boxes
<1> HIDE DEF s
<1>2. /\ v \in Seq(Filters!All) /\ IsInjective(v) /\ Range(v) = Vals(s)
  BY <1>1, ValuesAre
<1>3. Range(Options) \subseteq Range(v)
  BY <1>1, <1>2 DEF Good
<1> HIDE DEF v
<1>4. Options \in Seq(Range(Options)) /\ Filters!All = Range(Options) \union {NewOption}
  BY WebAssumption, FiltersFunctions DEF Filters!FilterAssumption, Filters!All
<1>5. n \in Nat /\ m \in Nat /\ DOMAIN v = 1 .. n /\ DOMAIN Options = 1 .. m
  BY <1>2, <1>4
<1>6. \A i \in 1 .. n : v[i] \in Filters!All
  BY <1>2, <1>5
<1> HIDE DEF n, m
<1>7. n <= m + 1
  <2> DEFINE place(x) == IF x = NewOption THEN m + 1 ELSE CHOOSE j \in 1 .. m : Options[j] = x
             g == [i \in 1 .. n |-> place(v[i])]
  <2>1. ASSUME NEW x \in Filters!All
        PROVE  /\ place(x) \in 1 .. m + 1
               /\ x = NewOption => place(x) = m + 1
               /\ x # NewOption => place(x) \in 1 .. m /\ Options[place(x)] = x
    <3>1. CASE x = NewOption
      BY <1>5, <3>1
    <3>2. CASE x # NewOption
      <4>1. \E j \in 1 .. m : Options[j] = x
        BY <1>4, <1>5, <3>2 DEF Range
      <4>2. place(x) \in 1 .. m /\ Options[place(x)] = x
        BY <3>2, <4>1
      <4> HIDE DEF place
      <4> QED
        BY <1>5, <3>2, <4>2
    <3> QED
      BY <3>1, <3>2
  <2> HIDE DEF place
  <2>2. \A i, j \in 1 .. n : place(v[i]) = place(v[j]) => v[i] = v[j]
    <3>1. m + 1 \notin 1 .. m
      BY <1>5
    <3> QED
      BY <1>6, <2>1, <3>1
  <2>3. \A i, j \in 1 .. n : v[i] = v[j] => i = j
    BY <1>2, <1>5 DEF IsInjective
  <2>4. g \in Injection(1 .. n, 1 .. m + 1)
    BY <1>6, <2>1, <2>2, <2>3 DEF Injection, IsInjective
  <2>5. /\ IsFiniteSet(1 .. n) /\ Cardinality(1 .. n) = n
        /\ IsFiniteSet(1 .. m + 1) /\ Cardinality(1 .. m + 1) = m + 1
    <3>1. 1 \in Int /\ n \in Int /\ m + 1 \in Int
      BY <1>5
    <3>2. (IF 1 > n THEN 0 ELSE n - 1 + 1) = n /\ (IF 1 > m + 1 THEN 0 ELSE m + 1 - 1 + 1) = m + 1
      BY <1>5
    <3>3. IsFiniteSet(1 .. n) /\ Cardinality(1 .. n) = n
      BY <3>1, <3>2, FS_Interval
    <3>4. IsFiniteSet(1 .. m + 1) /\ Cardinality(1 .. m + 1) = m + 1
      BY <3>1, <3>2, FS_Interval
    <3> QED
      BY <3>3, <3>4
  <2> HIDE DEF g
  <2>6. Cardinality(1 .. n) <= Cardinality(1 .. m + 1)
    BY <2>4, <2>5, FS_Injection
  <2> QED
    BY <2>5, <2>6
<1> QED
  BY <1>2, <1>3, <1>7 DEF s, v, n, m

\* For any options, rows and uses of the widgets in any order: while a row has the
\* number its widget was set up with, every option is in exactly one of its two
\* caches, once, and its boxes show what the caches hold (SelectBox.js).
THEOREM EveryOptionOnce == Spec => []EachOptionOnce
<1>1. ASSUME RowFacts, FilterFacts PROVE EachOptionOnce
  <2> SUFFICES ASSUME NEW r \in Filters!Form!Live, fid[r] = index[r]
               PROVE  LET c  == cache[index[r]]
                          vs == Filters!Values(c["from"] \o c["to"])
                      IN  /\ Range(Options) \subseteq Range(vs) /\ Len(vs) <= Len(Options) + 1
                          /\ IsInjective(vs)
                          /\ \A b \in Filters!Boxes : box[r][b] = Filters!Displayed(c[b])
                          /\ Filters!Values(c["to"]) = box[r]["to"]
    BY FiltersFunctions DEF EachOptionOnce, Filters!EachOptionOnce
  <2> DEFINE c == cache[index[r]]
  <2>1. r \in Filters!Forms /\ index[r] \in Filters!Ids /\ index[r] # -1
    <3>1. \A i \in Filters!Ids : i # -1
      BY DEF Filters!Ids
    <3> QED
      BY <1>1, <3>1, FilterRows
  <2>2. page = "filters" /\ cache[fid[r]] # <<>>
    BY <1>1, <2>1 DEF FilterFacts, WidgetsReady
  <2>3. Good(c)
    BY <1>1, <2>1, <2>2 DEF FilterFacts, CachesGood
  <2>4. \A b \in Filters!Boxes : box[r][b] = Filters!Displayed(c[b])
    BY <1>1 DEF FilterFacts, WidgetsReady
  <2> HIDE DEF c
  <2>5. /\ c["to"] \in Seq(Items) /\ Once(c["to"]) /\ "to" \in Filters!Boxes
        /\ \A i \in DOMAIN c["to"] : c["to"][i].displayed = TRUE
    BY <2>3 DEF Good, Filters!Boxes
  <2>6. Filters!Values(c["to"]) = box[r]["to"]
    BY <2>4, <2>5, DisplayedAre
  <2> QED
    BY <2>3, <2>4, <2>6, NotLonger DEF c
<1> QED
  BY <1>1, FiltersInvariant, PTL

-----------------------------------------------------------------------------
(* What is selected is shown, so what a click moves is what the user sees. *)

SelectionFacts ==
    /\ \A f \in Filters!Forms, b \in Filters!Boxes :
          page # "filters" \/ f \notin Filters!Form!Live => box[f][b] = <<>>
    /\ \A f \in Filters!Forms, b \in Filters!Boxes : sel[f][b] \subseteq Range(box[f][b])
    /\ page # "filters" => act = <<>>

LEMMA SelectionStarts == Init => SelectionFacts
  BY DEF Init, Filters!Init, Filters!Blank, Filters!Nothing, Filters!None, SelectionFacts

\* The rows left by a removal.
LEMMA OthersStay ==
    ASSUME RowFacts, NEW p, Form!Remove(p)
    PROVE  \A f : f \notin Filters!Form!Live' => f \notin Filters!Form!Live \/ f = rows[p]
<1>1. /\ DOMAIN rows = 1 .. Len(rows) /\ Len(rows) \in Nat /\ p \in 1 .. Len(rows)
      /\ DOMAIN rows' = 1 .. Len(rows) - 1
      /\ \A i \in DOMAIN rows' : rows'[i] = IF i < p THEN rows[i] ELSE rows[i + 1]
  BY DEF RowFacts, Form!Remove, Form!Without
<1>2. ASSUME NEW i \in DOMAIN rows, i # p PROVE rows[i] \in Filters!Form!Live'
  <2>1. CASE i < p
    <3>1. i \in DOMAIN rows' /\ rows'[i] = rows[i]
      BY <1>1, <2>1
    <3> QED
      BY <3>1 DEF Filters!Form!Live
  <2>2. CASE p < i
    <3>1. i - 1 \in DOMAIN rows' /\ rows'[i - 1] = rows[i - 1 + 1] /\ i - 1 + 1 = i
      BY <1>1, <2>2
    <3> QED
      BY <3>1 DEF Filters!Form!Live
  <2> QED
    BY <1>1, <1>2, <2>1, <2>2
<1> QED
  BY <1>2 DEF Filters!Form!Live

\* Whatever changes a row that is on the page leaves the others alone.
LEMMA RowWritten ==
    ASSUME SelectionFacts, page = "filters", page' = page, rows' = rows,
           NEW w \in Filters!Form!Live,
           \A f \in Filters!Forms : f # w => box'[f] = box[f] /\ sel'[f] = sel[f],
           \A b \in Filters!Boxes : sel'[w][b] \subseteq Range(box'[w][b])
    PROVE  SelectionFacts'
<1>1. Filters!Form!Live' = Filters!Form!Live
  BY DEF Filters!Form!Live
<1> QED
  BY <1>1 DEF SelectionFacts

\* After a move nothing is selected in the boxes it redrew.
LEMMA MoveKeepsSelection ==
    ASSUME RowFacts, FilterFacts, SelectionFacts, page = "filters", page' = page,
           NEW k \in Filters!Form!Live, NEW b \in Filters!Boxes, NEW which, NEW refresh,
           Filters!Move(k, b, which, refresh)
    PROVE  SelectionFacts'
<1> DEFINE w == Filters!Owner(k)
<1>1. w \in Filters!Form!Live /\ w \in Filters!Forms
  BY OwnerAlone DEF Filters!Move
<1> HIDE DEF w
<1>2. PICK c : /\ box' = [box EXCEPT ![w] = Filters!Show(c)]
               /\ sel' = [sel EXCEPT ![w] = Filters!Nothing] /\ rows' = rows
  BY DEF Filters!Move, Filters!Rebuild, Filters!inl, w
<1>3. \A f \in Filters!Forms : f # w => box'[f] = box[f] /\ sel'[f] = sel[f]
  BY <1>2 DEF FilterFacts, BoxesGood
<1>4. \A a \in Filters!Boxes : sel'[w][a] = {}
  BY <1>1, <1>2 DEF FilterFacts, BoxesGood, Filters!Nothing
<1> QED
  BY <1>1, <1>2, <1>3, <1>4, RowWritten

\* What is selected is in its box, whatever the user does.
LEMMA UseKeepsSelection ==
    ASSUME RowFacts, FilterFacts, SelectionFacts, page = "filters", page' = page,
           NEW k \in Filters!Form!Live, Filters!Use(k)
    PROVE  SelectionFacts'
<1>1. ASSUME UNCHANGED <<rows, box, sel>> PROVE SelectionFacts'
  BY <1>1 DEF SelectionFacts, Filters!Form!Live
<1>2. ASSUME NEW b \in Filters!Boxes, NEW which, NEW refresh, Filters!Move(k, b, which, refresh)
      PROVE  SelectionFacts'
  BY <1>2, MoveKeepsSelection
<1>3. "from" \in Filters!Boxes /\ "to" \in Filters!Boxes
  BY DEF Filters!Boxes
<1>4. ASSUME NEW b \in Filters!Boxes, Filters!DoubleClick(k, b) PROVE SelectionFacts'
  BY <1>2, <1>3, <1>4 DEF Filters!DoubleClick
<1>5. ASSUME NEW b \in Filters!Boxes, NEW s, Filters!Select(k, b, s) PROVE SelectionFacts'
  <2>1. /\ s \subseteq Range(box[k][b]) /\ sel' = [sel EXCEPT ![k][b] = s]
        /\ UNCHANGED <<rows, box>> /\ k \in Filters!Forms
    BY <1>5, FiltersFunctions, FilterRows DEF Filters!Select, Filters!inl
  <2>2. \A f \in Filters!Forms : f # k => box'[f] = box[f] /\ sel'[f] = sel[f]
    BY <2>1 DEF FilterFacts, BoxesGood
  <2>3. \A a \in Filters!Boxes : sel'[k][a] = IF a = b THEN s ELSE sel[k][a]
    BY <2>1 DEF FilterFacts, BoxesGood
  <2>4. \A a \in Filters!Boxes : sel'[k][a] \subseteq Range(box'[k][a])
    BY <2>1, <2>3 DEF SelectionFacts
  <2> QED
    BY <2>1, <2>2, <2>4, RowWritten
<1>6. ASSUME NEW l \in Filters!Arrows, Filters!Click(k, l) PROVE SelectionFacts'
  <2>1. CASE UNCHANGED <<Filters!inl, Filters!widgets, popup, made, sent>>
    BY <1>1, <2>1 DEF Filters!inl, Filters!widgets
  <2>2. CASE \E b \in Filters!Boxes, which \in {"selected", "all"} : Filters!Move(k, b, which, TRUE)
    BY <1>2, <2>2
  <2> QED
    BY <1>3, <1>6, <2>1, <2>2 DEF Filters!Click
<1>7. ASSUME Filters!KeyRight(k) \/ Filters!KeyEnter(k) PROVE SelectionFacts'
  BY <1>2, <1>3, <1>7 DEF Filters!KeyRight, Filters!KeyEnter
<1>8. ASSUME NEW down, Filters!KeyVertical(k, down) PROVE SelectionFacts'
  <2> DEFINE w == Filters!Owner(k)
             vs == box[w]["from"]
  <2>1. w \in Filters!Form!Live /\ w \in Filters!Forms
    BY <1>8, OwnerAlone DEF Filters!KeyVertical
  <2>2. \E new : sel' = [sel EXCEPT ![w]["from"] =
                           IF new + 1 \in DOMAIN vs THEN {vs[new + 1]} ELSE {}]
    BY <1>8 DEF Filters!KeyVertical
  <2>3. PICK s : s \subseteq Range(vs) /\ sel' = [sel EXCEPT ![w]["from"] = s]
    <3>1. PICK new : sel' = [sel EXCEPT ![w]["from"] =
                               IF new + 1 \in DOMAIN vs THEN {vs[new + 1]} ELSE {}]
      BY <2>2
    <3>2. (IF new + 1 \in DOMAIN vs THEN {vs[new + 1]} ELSE {}) \subseteq Range(vs)
      BY DEF Range
    <3> QED
      BY <3>1, <3>2
  <2>4. UNCHANGED <<rows, box>>
    BY <1>8 DEF Filters!KeyVertical, Filters!inl
  <2> HIDE DEF w
  <2>5. \A f \in Filters!Forms : f # w => box'[f] = box[f] /\ sel'[f] = sel[f]
    BY <2>3, <2>4 DEF FilterFacts, BoxesGood
  <2>6. \A a \in Filters!Boxes : sel'[w][a] = IF a = "from" THEN s ELSE sel[w][a]
    BY <2>1, <2>3 DEF FilterFacts, BoxesGood
  <2>7. \A a \in Filters!Boxes : sel'[w][a] \subseteq Range(box'[w][a])
    BY <2>1, <2>3, <2>4, <2>6 DEF SelectionFacts
  <2> QED
    BY <2>1, <2>4, <2>5, <2>7, RowWritten
<1>9. ASSUME NEW ws, Filters!Type(k, ws) PROVE SelectionFacts'
  <2> DEFINE w == Filters!Owner(k)
  <2>1. CASE Filters!Found(fid[k]) = {}
    BY <1>1, <1>9, <2>1 DEF Filters!Type, Filters!inl
  <2>2. CASE Filters!Found(fid[k]) # {}
    <3>1. w \in Filters!Form!Live /\ w \in Filters!Forms
      BY <2>2, OwnerAlone
    <3>2. rows' = rows /\ sel' = [sel EXCEPT ![w]["from"] = {}]
          /\ \E s : box' = [box EXCEPT ![w]["from"] = s]
      BY <1>9, <2>2 DEF Filters!Type, Filters!inl
    <3> HIDE DEF w
    <3>3. PICK s : box' = [box EXCEPT ![w]["from"] = s]
      BY <3>2
    <3>4. \A f \in Filters!Forms : f # w => box'[f] = box[f] /\ sel'[f] = sel[f]
      BY <3>2, <3>3 DEF FilterFacts, BoxesGood
    <3>5. \A a \in Filters!Boxes : /\ a # "from" => sel'[w][a] = sel[w][a] /\ box'[w][a] = box[w][a]
                                   /\ a = "from" => sel'[w][a] = {}
      BY <3>1, <3>2, <3>3 DEF FilterFacts, BoxesGood
    <3>6. \A a \in Filters!Boxes : sel'[w][a] \subseteq Range(box'[w][a])
      BY <3>1, <3>5 DEF SelectionFacts
    <3> QED
      BY <3>1, <3>2, <3>4, <3>6, RowWritten
  <2> QED
    BY <2>1, <2>2
<1> QED
  BY <1>4, <1>5, <1>6, <1>7, <1>8, <1>9 DEF Filters!Use

\* Every step of the site keeps the facts about selections.
LEMMA SelectionKeeps ==
    ASSUME RowFacts, FilterFacts, SelectionFacts, [Next]_vars
    PROVE  SelectionFacts'
<1>0. page' = page
  BY DEF Next, vars
<1>1. CASE page # "filters"
  BY <1>0, <1>1 DEF Next, vars, filterVars, SelectionFacts
<1>2. CASE UNCHANGED vars
  BY <1>2 DEF vars, rowVars, filterVars, SelectionFacts, Filters!Form!Live
<1>3. ASSUME page = "filters", NEW n \in Initial, NEW chosen, Filters!Load(n, chosen)
      PROVE  SelectionFacts'
  <2>1. n \in 0 .. MaxForms /\ MaxForms \in Nat /\ Adds \in Nat
    BY WebAssumption DEF Form!InlinesAssumption
  <2>2. \A f \in Filters!Forms : f < n => f \in Filters!Form!Live'
    <3>1. \A f \in Filters!Forms : f < n => f + 1 \in 1 .. n /\ f + 1 - 1 = f
      BY <2>1 DEF Filters!Forms, Filters!Form!Forms
    <3>2. rows' = [i \in 1 .. n |-> i - 1]
      BY <1>3 DEF Filters!Load, Filters!Form!Load
    <3>3. ASSUME NEW f \in Filters!Forms, f < n PROVE f + 1 \in DOMAIN rows' /\ rows'[f + 1] = f
      <4>1. f + 1 \in 1 .. n /\ f \in Int
        BY <3>1, <3>3 DEF Filters!Forms, Filters!Form!Forms
      <4>2. DOMAIN rows' = 1 .. n /\ \A j \in 1 .. n : rows'[j] = j - 1
        BY <3>2
      <4> QED
        BY <4>1, <4>2
    <3> QED
      BY <3>3 DEF Filters!Form!Live
  <2>3. \A f \in Filters!Forms, b \in Filters!Boxes : ~(f < n) => box'[f][b] = <<>>
    BY <1>3 DEF Filters!Load, Filters!Blank
  <2>4. \A f \in Filters!Forms, b \in Filters!Boxes : sel'[f][b] = {}
    BY <1>3 DEF Filters!Load, Filters!Nothing
  <2> QED
    BY <1>0, <1>3, <2>2, <2>3, <2>4 DEF SelectionFacts
<1>4. ASSUME page = "filters", Filters!AddRow PROVE SelectionFacts'
  <2> DEFINE k == MaxForms + added
  <2>1. /\ rows' = Append(rows, k) /\ sel' = sel /\ box' = [box EXCEPT ![k] = Filters!Show(Filters!Fresh({}))]
    BY <1>4 DEF Filters!AddRow, Filters!Form!Add
  <2>2. k \notin Filters!Form!Live /\ k \in Filters!Forms
    <3>1. Form!Add
      BY <1>4, FiltersForm DEF Filters!AddRow
    <3>2. k \in Filters!Forms /\ k \in Int
      BY <3>1, WebAssumption DEF Form!Add, RowFacts, Form!InlinesAssumption, Filters!Forms, Filters!Form!Forms
    <3>3. \A r \in Filters!Form!Live : r < k
      BY DEF RowFacts, NextIsNew, Filters!Form!Live
    <3> HIDE DEF k
    <3>4. ~(k < k)
      BY <3>2
    <3> QED
      BY <3>2, <3>3, <3>4
  <2>3. k \in Filters!Form!Live' /\ \A f \in Filters!Form!Live : f \in Filters!Form!Live'
    <3>1. DOMAIN rows = 1 .. Len(rows) /\ Len(rows) \in Nat
      BY DEF RowFacts
    <3>2. DOMAIN rows' = 1 .. Len(rows) + 1 /\ rows'[Len(rows) + 1] = k
          /\ \A i \in DOMAIN rows : i \in DOMAIN rows' /\ rows'[i] = rows[i]
      BY <2>1, <3>1 DEF RowFacts
    <3>3. Len(rows) + 1 \in DOMAIN rows'
      BY <3>1, <3>2
    <3> HIDE DEF k
    <3> QED
      BY <3>2, <3>3 DEF Filters!Form!Live
  <2> HIDE DEF k
  <2>4. \A f \in Filters!Forms : f # k => box'[f] = box[f]
    BY <2>1 DEF FilterFacts, BoxesGood
  <2>5. \A b \in Filters!Boxes : sel'[k][b] = {}
    <3>1. Range(<<>>) = {}
      BY DEF Range
    <3> QED
      BY <2>1, <2>2, <3>1 DEF SelectionFacts
  <2>6. \A f \in Filters!Forms, b \in Filters!Boxes : f \notin Filters!Form!Live' => box'[f][b] = <<>>
    BY <2>3, <2>4 DEF SelectionFacts
  <2>7. \A f \in Filters!Forms, b \in Filters!Boxes : sel'[f][b] \subseteq Range(box'[f][b])
    BY <2>1, <2>4, <2>5 DEF SelectionFacts
  <2> QED
    BY <1>0, <1>4, <2>6, <2>7 DEF SelectionFacts
<1>5. ASSUME page = "filters", NEW p, Filters!RemoveRow(p) PROVE SelectionFacts'
  <2> DEFINE k == rows[p]
  <2>1. \A f : f \notin Filters!Form!Live' => f \notin Filters!Form!Live \/ f = k
    BY <1>5, FiltersForm, OthersStay DEF Filters!RemoveRow
  <2>2. box' = [box EXCEPT ![k] = Filters!Blank] /\ sel' = [sel EXCEPT ![k] = Filters!Nothing]
    BY <1>5 DEF Filters!RemoveRow
  <2> HIDE DEF k
  <2>3. \A f \in Filters!Forms, b \in Filters!Boxes :
           /\ f = k => box'[f][b] = <<>> /\ sel'[f][b] = {}
           /\ f # k => box'[f][b] = box[f][b] /\ sel'[f][b] = sel[f][b]
    BY <2>2 DEF FilterFacts, BoxesGood, Filters!Blank, Filters!Nothing
  <2> QED
    BY <1>0, <1>5, <2>1, <2>3 DEF SelectionFacts
<1>6. ASSUME page = "filters", Filters!ClosePopup PROVE SelectionFacts'
  <2> DEFINE i == popup.id
             s == Filters!Displayed([cache[i] EXCEPT !["to"] = @ \o Filters!Entries(<<NewOption>>)]["to"])
  <2>1. rows' = rows
    BY <1>6 DEF Filters!ClosePopup, Filters!inl
  <2>2. /\ box' = [f \in Filters!Forms |-> IF f \in Filters!Found(i)
                      THEN [box[f] EXCEPT !["to"] = s] ELSE box[f]]
        /\ sel' = [f \in Filters!Forms |-> IF f \in Filters!Found(i)
                      THEN [sel[f] EXCEPT !["to"] = {}] ELSE sel[f]]
    BY <1>6 DEF Filters!ClosePopup
  <2> HIDE DEF i, s
  <2>3. \A f \in Filters!Forms, b \in Filters!Boxes :
           /\ f \notin Filters!Found(i) => box'[f][b] = box[f][b] /\ sel'[f][b] = sel[f][b]
           /\ b # "to" => box'[f][b] = box[f][b] /\ sel'[f][b] = sel[f][b]
           /\ f \in Filters!Found(i) /\ b = "to" => sel'[f][b] = {}
    BY <2>2 DEF FilterFacts, BoxesGood
  <2>4. Filters!Form!Live' = Filters!Form!Live /\ Filters!Found(i) \subseteq Filters!Form!Live
    BY <2>1 DEF Filters!Form!Live, Filters!Found
  <2> QED
    BY <1>0, <1>6, <2>3, <2>4 DEF SelectionFacts
<1>7. ASSUME page = "filters", Filters!Submit PROVE SelectionFacts'
  <2> DEFINE ever == { i \in Filters!Ids : cache[i] # <<>> }
             has(f) == f \in Filters!Form!Live /\ index[f] \in ever
  <2>1. /\ UNCHANGED <<rows, box>>
        /\ sel' = [f \in Filters!Forms |->
                     IF has(f) THEN [sel[f] EXCEPT !["to"] = Range(box[f]["to"])] ELSE sel[f]]
    BY <1>7, FiltersFunctions DEF Filters!Submit, Filters!inl, Filters!None
  <2> HIDE DEF has
  <2>2. \A f \in Filters!Forms, b \in Filters!Boxes :
           sel'[f][b] = sel[f][b] \/ sel'[f][b] = Range(box[f][b])
    BY <2>1 DEF FilterFacts, BoxesGood
  <2> QED
    BY <1>0, <1>7, <2>1, <2>2 DEF SelectionFacts, Filters!Form!Live
<1>8. ASSUME page = "filters", NEW k, Filters!OpenPopup(k) PROVE SelectionFacts'
  BY <1>0, <1>8 DEF Filters!OpenPopup, Filters!inl, Filters!widgets, SelectionFacts, Filters!Form!Live
<1>9. ASSUME page = "filters", NEW k \in Filters!Form!Live, Filters!Use(k) PROVE SelectionFacts'
  BY <1>0, <1>9, UseKeepsSelection
<1> QED
  BY <1>1, <1>2, <1>3, <1>4, <1>5, <1>6, <1>7, <1>8, <1>9
  DEF Next, Filters!Next, Filters!Loads, Filters!Ops

\* What a cache shows.
Seen(s) == { n.value : n \in { m \in Range(s) : m.displayed } }

\* redisplay() shows the displayed options of the cache.
LEMMA ShownIsSeen ==
    ASSUME NEW s \in Seq(Items)
    PROVE  Range(Filters!Displayed(s)) = Seen(s)
<1> DEFINE D == { n \in Range(s) : n.displayed }
           o == Only(s, D)
<1>1. Filters!Displayed(s) = Filters!Values(o)
  BY FiltersOnly, FiltersFunctions DEF Filters!Displayed
<1>2. o \in Seq(Items) /\ Range(o) = Range(s) \intersect D
  BY OnlyElements
<1>3. Range(Filters!Values(o)) = Vals(o)
  BY <1>2, ValuesAre
<1> HIDE DEF o
<1>4. Vals(o) = { n.value : n \in Range(o) }
  BY DEF Vals, Range
<1>5. Range(s) \intersect D = D
  OBVIOUS
<1> HIDE DEF D
<1>6. Vals(o) = { n.value : n \in D }
  BY <1>2, <1>4, <1>5
<1> QED
  BY <1>1, <1>3, <1>6 DEF D, Seen

\* A move takes what was shown on one side to what is shown on the other.
LEMMA MoveShows ==
    ASSUME NEW c, Good(c), NEW b \in Filters!Boxes,
           NEW vs \in Seq(Filters!All), IsInjective(vs), Range(vs) \subseteq Seen(c[b])
    PROVE  LET m == Filters!MoveCache(c, b, vs)
               o == Filters!Other(b)
           IN  /\ Seen(m[o]) = Seen(c[o]) \union Range(vs)
               /\ Seen(m[b]) = Seen(c[b]) \ Range(vs)
<1> DEFINE m == Filters!MoveCache(c, b, vs)
           o == Filters!Other(b)
           moved == Only(vs, Range(Filters!Values(c[b])))
           kept == { n \in Range(c[b]) : n.value \notin Range(moved) }
           e == Filters!Entries(moved)
           J == c[o] \o e
           K == Only(c[b], kept)
<1>1. o \in Filters!Boxes /\ o # b
  BY DEF Filters!Other, Filters!Boxes
<1>2. /\ \A a \in Filters!Boxes : c[a] \in Seq(Items) /\ Once(c[a])
      /\ c \in [Filters!Boxes -> Seq(Items)]
  BY DEF Good
<1>3. m = [c EXCEPT ![o] = J, ![b] = K]
  <2>1. m = [c EXCEPT ![o] = c[o] \o Filters!Entries(moved),
                      ![b] = Only(c[b], { n \in Range(c[b]) : n.value \notin Range(moved) })]
    BY <1>1, <1>2, FiltersOnly, FiltersFunctions DEF Filters!MoveCache
  <2> QED
    BY <2>1
<1>4. moved \in Seq(Filters!All) /\ IsInjective(moved) /\ Range(moved) = Range(vs)
  <2>1. Range(Filters!Values(c[b])) = Vals(c[b])
    BY <1>1, <1>2, ValuesAre
  <2>2. Seen(c[b]) \subseteq Vals(c[b])
    BY DEF Seen, Vals, Range
  <2>3. Range(vs) \intersect Range(Filters!Values(c[b])) = Range(vs)
    BY <2>1, <2>2
  <2> QED
    BY <2>3, OnlyElements
<1> HIDE DEF moved
<1>5. /\ e \in Seq(Items) /\ Vals(e) = Range(vs)
      /\ \A i \in DOMAIN e : e[i].displayed = TRUE
  BY <1>4, EntriesAre
<1> HIDE DEF m, o, e
<1>6. m[o] = J /\ m[b] = K
  BY <1>1, <1>2, <1>3
<1>7. Range(J) = Range(c[o]) \union Range(e)
  BY <1>1, <1>2, <1>5, Joined
<1>8. Range(K) = Range(c[b]) \intersect kept
  BY <1>1, <1>2, OnlyElements
<1> HIDE DEF J, K
<1>9. Seen(e) = Range(vs)
  <2>1. { n \in Range(e) : n.displayed } = Range(e)
    BY <1>5 DEF Range
  <2>2. Seen(e) = { n.value : n \in Range(e) }
    BY <2>1 DEF Seen
  <2> QED
    BY <1>5, <2>2 DEF Vals, Range
<1>10. Seen(J) = Seen(c[o]) \union Seen(e)
  <2>1. { n \in Range(J) : n.displayed }
          = { n \in Range(c[o]) : n.displayed } \union { n \in Range(e) : n.displayed }
    BY <1>7
  <2> QED
    BY <2>1 DEF Seen
<1>11. Seen(K) = Seen(c[b]) \ Range(vs)
  <2>1. { n \in Range(K) : n.displayed }
          = { n \in { l \in Range(c[b]) : l.displayed } : n.value \notin Range(vs) }
    BY <1>4, <1>8
  <2> QED
    BY <2>1 DEF Seen
<1> QED
  BY <1>6, <1>9, <1>10, <1>11 DEF m, o

\* A click in a row that has the number its widget was set up with.
LEMMA ClickMoves ==
    ASSUME RowFacts, FilterFacts, SelectionFacts, page = "filters",
           NEW k \in Filters!Form!Live, NEW l \in Filters!Arrows, Filters!Click(k, l),
           fid[k] = index[k]
    PROVE  Filters!MovesWhatIsSeen(k, l)
<1> DEFINE b == IF l \in {"add", "addAll"} THEN "from" ELSE "to"
           o == Filters!Other(b)
           which == IF l \in {"add", "remove"} THEN "selected" ELSE "all"
           out == IF l \in {"add", "remove"} THEN sel[k][b] ELSE Range(box[k][b])
           vs == Only(box[k][b], Filters!Picked(k, b, which))
           c == cache[fid[k]]
           m == Filters!MoveCache(c, b, vs)
<1>1. b \in Filters!Boxes /\ o \in Filters!Boxes /\ o # b
  BY DEF Filters!Boxes, Filters!Other
<1>2. k \in Filters!Forms /\ Filters!Found(fid[k]) # {} /\ Filters!Owner(k) = k
  <2>1. k \in Filters!Found(fid[k]) /\ k \in Filters!Forms
    BY FilterRows DEF Filters!Found
  <2>2. Filters!Owner(k) = k
    BY <2>1, OwnerAlone
  <2> QED
    BY <2>1, <2>2
<1>3. box' = [box EXCEPT ![k] = Filters!Show(m)]
  <2>1. Filters!Move(k, b, which, TRUE)
    BY <1>2 DEF Filters!Click
  <2> QED
    BY <1>2, <2>1, FiltersOnly DEF Filters!Move, Filters!Rebuild
<1>4. Good(c) /\ \A a \in Filters!Boxes : box[k][a] = Filters!Displayed(c[a])
  BY DEF FilterFacts, CachesGood, WidgetsReady
<1>5. /\ box[k][b] \in Seq(Filters!All) /\ IsInjective(box[k][b])
      /\ sel[k][b] \subseteq Range(box[k][b])
  BY <1>1, <1>2 DEF FilterFacts, BoxesGood, SelectionFacts
<1>6. Filters!Picked(k, b, which) \intersect Range(box[k][b]) = out
  <2>1. CASE l \in {"add", "remove"}
    BY <1>5, <2>1 DEF Filters!Picked
  <2>2. CASE l \notin {"add", "remove"}
    <3>1. { j \in DOMAIN box[k][b] : which = "first" => j = 1 } = DOMAIN box[k][b]
      BY <2>2
    <3>2. Filters!Picked(k, b, which) = { box[k][b][i] : i \in DOMAIN box[k][b] }
      BY <2>2, <3>1 DEF Filters!Picked
    <3> QED
      BY <2>2, <3>2 DEF Range
  <2> QED
    BY <2>1, <2>2
<1>7. vs \in Seq(Filters!All) /\ IsInjective(vs) /\ Range(vs) = out
  <2> DEFINE s == box[k][b]
             P == Filters!Picked(k, b, which)
  <2>1. s \in Seq(Filters!All) /\ IsInjective(s) /\ Range(s) \intersect P = out
    BY <1>5, <1>6
  <2>2. vs = Only(s, P)
    OBVIOUS
  <2> HIDE DEF s, P, vs, out
  <2> QED
    BY <2>1, <2>2, OnlyElements
<1> HIDE DEF c, vs
<1>8. \A a \in Filters!Boxes : c[a] \in Seq(Items) /\ Range(box[k][a]) = Seen(c[a])
  BY <1>4, ShownIsSeen DEF Good
<1>9. Range(vs) \subseteq Seen(c[b])
  BY <1>1, <1>5, <1>7, <1>8
<1>10. Good(m)
  BY <1>1, <1>4, <1>7, MoveKeepsCaches
<1>11. Seen(m[o]) = Seen(c[o]) \union out /\ Seen(m[b]) = Seen(c[b]) \ out
  BY <1>1, <1>4, <1>7, <1>9, MoveShows
<1> HIDE DEF m
<1>12. \A a \in Filters!Boxes : Range(box'[k][a]) = Seen(m[a])
  <2>1. box'[k] = Filters!Show(m)
    BY <1>2, <1>3 DEF FilterFacts, BoxesGood
  <2>2. \A a \in Filters!Boxes : Filters!Show(m)[a] = Filters!Displayed(m[a]) /\ m[a] \in Seq(Items)
    BY <1>10, ShowAre DEF Good
  <2> QED
    BY <2>1, <2>2, ShownIsSeen
<1>13. \A f \in Filters!Form!Live \ {k} : box'[f] = box[f]
  BY <1>3, FilterRows DEF FilterFacts, BoxesGood
<1>14. /\ Range(box'[k][o]) = Range(box[k][o]) \union out
       /\ Range(box'[k][b]) = Range(box[k][b]) \ out
  BY <1>1, <1>8, <1>11, <1>12
<1> QED
  BY <1>13, <1>14, FiltersFunctions DEF Filters!MovesWhatIsSeen

\* For any options, rows and uses of the widgets in any order: a click on a link of
\* a row moves, in that row and no other, what the user sees there, as long as the
\* row has the number its widget was set up with (SelectFilter2.js).
THEOREM ClicksMoveWhatIsSeen == Spec => OwnRowMoves
<1> DEFINE Right == act' # <<>> => \/ fid[act'.row] # index[act'.row]
                                   \/ Filters!MovesWhatIsSeen(act'.row, act'.link)
<1>1. RowFacts /\ FilterFacts /\ SelectionFacts /\ SelectionFacts' /\ [Next]_vars
        => Right \/ UNCHANGED Filters!vars
  <2> SUFFICES ASSUME RowFacts, FilterFacts, SelectionFacts, SelectionFacts', [Next]_vars
               PROVE  Right \/ UNCHANGED Filters!vars
    OBVIOUS
  <2>1. CASE page # "filters"
    BY <2>1 DEF SelectionFacts, Next, vars
  <2>2. CASE UNCHANGED vars
    BY <2>2 DEF vars, rowVars, filterVars, Filters!vars, Filters!inl, Filters!widgets
  <2>3. CASE page = "filters" /\ (Filters!Loads \/ Filters!Ops)
    <3>1. CASE act' = <<>>
      BY <3>1
    <3>2. ASSUME NEW k \in Filters!Form!Live, NEW l \in Filters!Arrows, Filters!Click(k, l)
          PROVE  Right
      <4>1. act' = [row |-> k, link |-> l]
        BY <3>2 DEF Filters!Click
      <4> QED
        BY <2>3, <3>2, <4>1, ClickMoves
    <3>3. CASE Filters!Loads
      BY <3>1, <3>3 DEF Filters!Loads, Filters!Load, Filters!None
    <3>4. CASE Filters!AddRow \/ Filters!ClosePopup \/ Filters!Submit
      BY <3>1, <3>4 DEF Filters!AddRow, Filters!ClosePopup, Filters!Submit, Filters!None
    <3>5. ASSUME NEW p, Filters!RemoveRow(p) PROVE Right
      BY <3>1, <3>5 DEF Filters!RemoveRow, Filters!None
    <3>6. ASSUME NEW k, Filters!OpenPopup(k) PROVE Right
      BY <3>1, <3>6 DEF Filters!OpenPopup, Filters!None
    <3>7. ASSUME NEW k \in Filters!Form!Live, Filters!Use(k) PROVE Right
      BY <3>1, <3>2, <3>7 DEF Filters!Use, Filters!DoubleClick, Filters!Select, Filters!KeyRight,
         Filters!KeyEnter, Filters!KeyVertical, Filters!Type, Filters!None
    <3> QED
      BY <2>3, <3>3, <3>4, <3>5, <3>6, <3>7 DEF Filters!Ops
  <2> QED
    BY <2>1, <2>2, <2>3 DEF Next, vars, Filters!Next
<1>2. RowFacts /\ FilterFacts /\ SelectionFacts /\ [Next]_vars => SelectionFacts'
  BY SelectionKeeps
<1> QED
  BY <1>1, <1>2, SelectionStarts, FiltersInvariant, PTL
  DEF Spec, OwnRowMoves, Filters!OwnRowMoves, Filters!None

-----------------------------------------------------------------------------
(* The API explorer, RestClient, alone and in its place. *)

\* The answer in a data panel is complete, and a form that still waits for its
\* first shows no control.
Settled ==
    /\ \A f \in Rest!Forms : data[f] # 0 => requests[data[f]].state = "done"
    /\ toggles \intersect awaiting = {}

RestInv == Rest!TypeOK /\ Settled /\ Rest!ShownTogether

\* A request made, or one whose state and answer change.
LEMMA RequestChanges ==
    ASSUME Rest!TypeOK, NEW r \in 1 .. Len(requests), NEW s \in {"flight", "reading", "done"},
           NEW kind \in Rest!Kinds
    PROVE  /\ requests[r] \in Rest!Requests
           /\ [requests EXCEPT ![r].state = s] \in Seq(Rest!Requests)
           /\ [requests EXCEPT ![r].answer = kind, ![r].state = s] \in Seq(Rest!Requests)
           /\ Len([requests EXCEPT ![r].state = s]) = Len(requests)
           /\ Len([requests EXCEPT ![r].answer = kind, ![r].state = s]) = Len(requests)
<1>1. requests \in Seq(Rest!Requests) /\ requests[r] \in Rest!Requests
  BY DEF Rest!TypeOK
<1>2. /\ [requests[r] EXCEPT !.state = s] \in Rest!Requests
      /\ [requests[r] EXCEPT !.answer = kind, !.state = s] \in Rest!Requests
  BY <1>1 DEF Rest!Requests
<1>3. /\ [requests EXCEPT ![r].state = s]
           = [requests EXCEPT ![r] = [requests[r] EXCEPT !.state = s]]
      /\ [requests EXCEPT ![r].answer = kind, ![r].state = s]
           = [requests EXCEPT ![r] = [requests[r] EXCEPT !.answer = kind, !.state = s]]
  BY <1>1
<1> DEFINE x == [requests[r] EXCEPT !.state = s]
           y == [requests[r] EXCEPT !.answer = kind, !.state = s]
<1> HIDE DEF x, y
<1>4. /\ [requests EXCEPT ![r] = x] \in Seq(Rest!Requests)
      /\ [requests EXCEPT ![r] = y] \in Seq(Rest!Requests)
      /\ Len([requests EXCEPT ![r] = x]) = Len(requests)
      /\ Len([requests EXCEPT ![r] = y]) = Len(requests)
  BY <1>1, <1>2 DEF x, y
<1> QED
  BY <1>1, <1>3, <1>4 DEF x, y
\* The explorer starts in its invariant.
LEMMA RestStarts == ASSUME Rest!RestAssumption, Rest!Init PROVE RestInv
<1>1. Rest!TypeOK
  BY DEF Rest!RestAssumption, Rest!Init, Rest!TypeOK, Rest!Panels
<1>2. Settled
  BY DEF Rest!Init, Settled
<1>3. \A f \in Rest!Forms : panels[f] = {} /\ f \in awaiting /\ data[f] = 0 /\ status[f] = 0
  BY DEF Rest!Init
<1>4. Rest!ShownTogether
  BY <1>3 DEF Rest!ShownTogether
<1> QED
  BY <1>1, <1>2, <1>4 DEF RestInv

\* A request that is made changes no panel.
LEMMA SubmitKeeps ==
    ASSUME Rest!RestAssumption, RestInv, NEW f \in Rest!Forms, NEW filled, Rest!Submit(f, filled)
    PROVE  RestInv'
<1> DEFINE given == Rest!Params(f, filled)
           q == [form |-> f, given |-> given, state |-> "flight", answer |-> "none",
                 query |-> Rest!Names(f, Rest!At(f, given, "query")),
                 path |-> Rest!Names(f, Rest!At(f, given, "path")),
                 body |-> Rest!Names(f, Rest!FormParams(f, given)),
                 auth |-> auth, credentials |-> Rest!Credentials(Links[f].method)]
<1>1. /\ Len(requests) + 1 <= MaxRequests /\ requests' = Append(requests, q)
      /\ line' = [line EXCEPT ![f] = Len(requests) + 1]
      /\ UNCHANGED <<auth, cookie, responseDisplay, status, data, awaiting, panels, toggles>>
  BY DEF Rest!Submit
<1>2. given \in SUBSET Rest!AllNames
  BY DEF Rest!Params, Rest!AllNames, Rest!FieldNames
<1>3. /\ q.query \in SUBSET Rest!AllNames /\ q.path \in SUBSET Rest!AllNames
      /\ q.body \in SUBSET Rest!AllNames
  BY DEF Rest!Names, Rest!At, Rest!FormParams, Rest!AllNames, Rest!FieldNames
<1>4. auth \in Auths /\ Rest!Credentials(Links[f].method) \in [header : Auths, csrf : BOOLEAN]
  <2>1. auth \in Auths /\ "none" \in Auths
    BY DEF RestInv, Rest!TypeOK, Rest!RestAssumption
  <2>2. (IF auth \in {"token", "basic"} THEN auth ELSE "none") \in Auths
    BY <2>1
  <2>3. (auth = "session" /\ cookie /\ ~Rest!csrfSafeMethod(Links[f].method)) \in BOOLEAN
    OBVIOUS
  <2> QED
    BY <2>1, <2>2, <2>3 DEF Rest!Credentials
<1>5. q \in Rest!Requests
  BY <1>2, <1>3, <1>4 DEF Rest!Requests
<1> HIDE DEF q
<1>6. requests \in Seq(Rest!Requests) /\ Len(requests) \in Nat
  BY DEF RestInv, Rest!TypeOK
<1>7. /\ requests' \in Seq(Rest!Requests) /\ Len(requests') = Len(requests) + 1
      /\ \A i \in 1 .. Len(requests) : requests'[i] = requests[i]
  BY <1>1, <1>5, <1>6
<1>8. Rest!TypeOK'
  <2>1. \A v \in {line, status, data} : v \in [Rest!Forms -> 0 .. Len(requests')]
    BY <1>6, <1>7 DEF RestInv, Rest!TypeOK
  <2>2. line' \in [Rest!Forms -> 0 .. Len(requests')]
    BY <1>1, <1>6, <1>7, <2>1
  <2> QED
    BY <1>1, <1>7, <2>1, <2>2 DEF RestInv, Rest!TypeOK
<1>9. \A g \in Rest!Forms : data[g] # 0 => data[g] \in 1 .. Len(requests)
  <2>1. data \in [Rest!Forms -> 0 .. Len(requests)]
    BY DEF RestInv, Rest!TypeOK
  <2> QED
    BY <1>6, <2>1
<1>10. Settled' /\ Rest!ShownTogether'
  BY <1>1, <1>7, <1>9 DEF RestInv, Settled, Rest!ShownTogether
<1> QED
  BY <1>8, <1>10 DEF RestInv

\* The last step of a request fills in the panels of its form.
LEMMA DisplayKeeps ==
    ASSUME Rest!RestAssumption, RestInv, NEW r \in 1 .. Len(requests), Rest!Display(r),
           requests' \in Seq(Rest!Requests), Len(requests') = Len(requests),
           \A i \in 1 .. Len(requests) : i # r => requests'[i] = requests[i],
           requests[r].state # "done", requests'[r].state = "done",
           requests'[r].form = requests[r].form,
           UNCHANGED <<auth, cookie, responseDisplay, line>>,
           \/ /\ status' = [status EXCEPT ![requests[r].form] = r]
              /\ toggles' = toggles \union {requests[r].form}
           \/ /\ UNCHANGED <<status, toggles>>
              /\ requests'[r].answer \in {"empty", "failed"}
    PROVE  RestInv'
<1> DEFINE f == requests[r].form
<1>1. f \in Rest!Forms /\ Len(requests) \in Nat /\ requests \in Seq(Rest!Requests)
  <2>1. requests \in Seq(Rest!Requests)
    BY DEF RestInv, Rest!TypeOK
  <2>2. requests[r] \in Rest!Requests
    BY <2>1
  <2> QED
    BY <2>1, <2>2 DEF Rest!Requests
<1>2. /\ data' = [data EXCEPT ![f] = r] /\ awaiting' = awaiting \ {f}
      /\ panels' = [panels EXCEPT ![f] = {responseDisplay}]
  BY DEF Rest!Display
<1>3. \/ status' = [status EXCEPT ![f] = r] /\ toggles' = toggles \union {f}
      \/ UNCHANGED <<status, toggles>> /\ requests'[r].answer \in {"empty", "failed"}
  OBVIOUS
<1> HIDE DEF f
<1>4. /\ data \in [Rest!Forms -> 0 .. Len(requests)] /\ status \in [Rest!Forms -> 0 .. Len(requests)]
      /\ line \in [Rest!Forms -> 0 .. Len(requests)] /\ panels \in [Rest!Forms -> SUBSET Rest!Panels]
      /\ responseDisplay \in Rest!Panels /\ awaiting \subseteq Rest!Forms /\ toggles \subseteq Rest!Forms
      /\ Len(requests) <= MaxRequests /\ auth \in Auths /\ cookie \in BOOLEAN
  BY DEF RestInv, Rest!TypeOK
<1>5. /\ data' \in [Rest!Forms -> 0 .. Len(requests)] /\ status' \in [Rest!Forms -> 0 .. Len(requests)]
      /\ panels' \in [Rest!Forms -> SUBSET Rest!Panels]
      /\ awaiting' \subseteq Rest!Forms /\ toggles' \subseteq Rest!Forms
  <2>1. r \in 0 .. Len(requests)
    BY <1>1
  <2>2. {responseDisplay} \in SUBSET Rest!Panels
    BY <1>4
  <2> QED
    BY <1>1, <1>2, <1>3, <1>4, <2>1, <2>2
<1>6. Rest!TypeOK'
  BY <1>4, <1>5 DEF Rest!TypeOK
<1>8. ASSUME NEW g \in Rest!Forms
      PROVE  /\ data'[g] # 0 => /\ requests'[data'[g]].state = "done"
                                /\ \/ status'[g] = data'[g]
                                   \/ requests'[data'[g]].answer \in {"empty", "failed"}
             /\ status'[g] # 0 => data'[g] # 0 /\ g \in toggles'
             /\ IF g \in awaiting' THEN panels'[g] = {} ELSE \E p \in Rest!Panels : panels'[g] = {p}
             /\ ~(g \in toggles' /\ g \in awaiting')
  <2>1. CASE g = f
    <3>1. data'[g] = r /\ r # 0 /\ g \notin awaiting' /\ panels'[g] = {responseDisplay}
      BY <1>1, <1>2, <1>4, <2>1
    <3>2. (status'[g] = r /\ g \in toggles') \/ requests'[r].answer \in {"empty", "failed"}
      BY <1>1, <1>3, <1>4, <2>1
    <3>3. status'[g] # 0 => g \in toggles'
      BY <1>1, <1>3, <1>4, <2>1 DEF RestInv, Rest!ShownTogether
    <3> QED
      BY <1>4, <3>1, <3>2, <3>3
  <2>2. CASE g # f
    <3>1. /\ data'[g] = data[g] /\ status'[g] = status[g] /\ panels'[g] = panels[g]
          /\ g \in awaiting' <=> g \in awaiting
          /\ g \in toggles' <=> g \in toggles
      BY <1>1, <1>2, <1>3, <1>4, <2>2
    <3>2. data[g] # 0 => data[g] \in 1 .. Len(requests) /\ data[g] # r
      BY <1>1, <1>4 DEF RestInv, Settled
    <3>3. data[g] # 0 => requests'[data[g]] = requests[data[g]]
      BY <3>2
    <3>4. /\ data[g] # 0 => /\ requests[data[g]].state = "done"
                            /\ \/ status[g] = data[g]
                               \/ requests[data[g]].answer \in {"empty", "failed"}
          /\ status[g] # 0 => data[g] # 0 /\ g \in toggles
          /\ IF g \in awaiting THEN panels[g] = {} ELSE \E p \in Rest!Panels : panels[g] = {p}
          /\ ~(g \in toggles /\ g \in awaiting)
      BY DEF RestInv, Settled, Rest!ShownTogether
    <3> QED
      BY <3>1, <3>3, <3>4
  <2> QED
    BY <2>1, <2>2
<1>9. Settled'
  BY <1>5, <1>8 DEF Settled
<1>10. Rest!ShownTogether'
  BY <1>8 DEF Rest!ShownTogether
<1> QED
  BY <1>6, <1>9, <1>10 DEF RestInv

\* What a request becomes when its state, or that and its answer, change.
LEMMA RequestBecomes ==
    ASSUME Rest!TypeOK, NEW r \in 1 .. Len(requests), NEW s, NEW kind,
           \/ requests' = [requests EXCEPT ![r].state = s]
           \/ requests' = [requests EXCEPT ![r].answer = kind, ![r].state = s]
    PROVE  /\ \A i \in 1 .. Len(requests) : i # r => requests'[i] = requests[i]
           /\ requests'[r].state = s /\ requests'[r].form = requests[r].form
           /\ requests' = [requests EXCEPT ![r].answer = kind, ![r].state = s]
                 => requests'[r].answer = kind
           /\ \A key \in {"given", "query", "path", "body", "auth", "credentials"} :
                 requests'[r][key] = requests[r][key]
<1>1. requests \in Seq(Rest!Requests) /\ requests[r] \in Rest!Requests
  BY DEF Rest!TypeOK
<1> DEFINE x == [requests[r] EXCEPT !.state = s]
           y == [requests[r] EXCEPT !.answer = kind, !.state = s]
<1>2. /\ [requests EXCEPT ![r].state = s] = [requests EXCEPT ![r] = x]
      /\ [requests EXCEPT ![r].answer = kind, ![r].state = s] = [requests EXCEPT ![r] = y]
  BY <1>1
<1>3. /\ x.state = s /\ y.state = s /\ x.form = requests[r].form /\ y.form = requests[r].form
      /\ y.answer = kind
      /\ \A key \in {"given", "query", "path", "body", "auth", "credentials"} :
            x[key] = requests[r][key] /\ y[key] = requests[r][key]
  BY <1>1 DEF Rest!Requests
<1> HIDE DEF x, y
<1>4. r \in DOMAIN requests /\ DOMAIN requests = 1 .. Len(requests)
  BY <1>1
<1>5. requests' = [requests EXCEPT ![r] = x] \/ requests' = [requests EXCEPT ![r] = y]
  BY <1>2
<1>6. /\ \A i \in 1 .. Len(requests) : i # r => requests'[i] = requests[i]
      /\ requests'[r] = x \/ requests'[r] = y
      /\ requests' = [requests EXCEPT ![r].answer = kind, ![r].state = s] => requests'[r] = y
  BY <1>2, <1>4, <1>5
<1> QED
  BY <1>3, <1>6

\* Answers, bodies and failures, in any order, keep the invariant.
LEMMA NetworkKeeps ==
    ASSUME Rest!RestAssumption, RestInv, NEW r \in 1 .. Len(requests), Rest!Network(r)
    PROVE  RestInv'
<1>0. Rest!TypeOK /\ Len(requests) \in Nat
  BY DEF RestInv, Rest!TypeOK
<1>1. CASE Rest!BodyRead(r)
  <2>1. requests[r].state # "done" /\ requests' = [requests EXCEPT ![r].state = "done"]
    BY <1>1 DEF Rest!BodyRead
  <2>2. requests' \in Seq(Rest!Requests) /\ Len(requests') = Len(requests)
    BY <1>0, <2>1, RequestChanges DEF Rest!Kinds
  <2>3. /\ \A i \in 1 .. Len(requests) : i # r => requests'[i] = requests[i]
        /\ requests'[r].state = "done" /\ requests'[r].form = requests[r].form
    BY <1>0, <2>1, RequestBecomes
  <2> QED
    BY <1>1, <2>1, <2>2, <2>3, DisplayKeeps DEF Rest!BodyRead
<1>2. CASE Rest!BodyFails(r)
  <2>1. /\ requests[r].state # "done"
        /\ requests' = [requests EXCEPT ![r].answer = "failed", ![r].state = "done"]
    BY <1>2 DEF Rest!BodyFails
  <2>2. requests' \in Seq(Rest!Requests) /\ Len(requests') = Len(requests)
    BY <1>0, <2>1, RequestChanges DEF Rest!Kinds
  <2>3. /\ \A i \in 1 .. Len(requests) : i # r => requests'[i] = requests[i]
        /\ requests'[r].state = "done" /\ requests'[r].form = requests[r].form
        /\ requests'[r].answer = "failed"
    BY <1>0, <2>1, RequestBecomes
  <2> QED
    BY <1>2, <2>1, <2>2, <2>3, DisplayKeeps DEF Rest!BodyFails
<1>3. ASSUME NEW kind \in Rest!Kinds, Rest!FetchSettles(r, kind) PROVE RestInv'
  <2> DEFINE s == IF kind \in {"empty", "failed"} THEN "done" ELSE "reading"
  <2>1. /\ requests[r].state = "flight" /\ s \in {"done", "reading"}
        /\ requests' = [requests EXCEPT ![r].answer = kind, ![r].state = s]
    BY <1>3 DEF Rest!FetchSettles
  <2>2. requests' \in Seq(Rest!Requests) /\ Len(requests') = Len(requests)
    BY <1>0, <2>1, RequestChanges
  <2>3. /\ \A i \in 1 .. Len(requests) : i # r => requests'[i] = requests[i]
        /\ requests'[r].state = s /\ requests'[r].form = requests[r].form
        /\ requests'[r].answer = kind
    BY <1>0, <2>1, RequestBecomes
  <2>4. CASE kind \in {"empty", "failed"}
    BY <1>3, <2>1, <2>2, <2>3, <2>4, DisplayKeeps DEF Rest!FetchSettles
  <2>5. CASE kind \notin {"empty", "failed"}
    <3>1. UNCHANGED <<auth, cookie, responseDisplay, line, status, data, awaiting, panels, toggles>>
      BY <1>3, <2>5 DEF Rest!FetchSettles
    <3>2. \A f \in Rest!Forms : data[f] # 0 => data[f] \in 1 .. Len(requests) /\ data[f] # r
      <4>1. data \in [Rest!Forms -> 0 .. Len(requests)]
        BY DEF RestInv, Rest!TypeOK
      <4> QED
        BY <1>0, <2>1, <4>1 DEF RestInv, Settled
    <3>3. \A f \in Rest!Forms : data[f] # 0 => requests'[data[f]] = requests[data[f]]
      BY <2>3, <3>2
    <3> QED
      BY <2>2, <3>1, <3>3 DEF RestInv, Rest!TypeOK, Settled, Rest!ShownTogether
  <2> QED
    BY <2>4, <2>5
<1> QED
  BY <1>1, <1>2, <1>3 DEF Rest!Network

\* The invariant of the explorer is inductive.
LEMMA RestInductive == ASSUME Rest!RestAssumption PROVE RestInv /\ [Rest!Next]_Rest!vars => RestInv'
<1> SUFFICES ASSUME RestInv, [Rest!Next]_Rest!vars PROVE RestInv'
  OBVIOUS
<1>1. ASSUME NEW f \in Rest!Forms, NEW filled, Rest!Submit(f, filled) PROVE RestInv'
  BY <1>1, SubmitKeeps
<1>2. CASE UNCHANGED Rest!vars
  BY <1>2 DEF Rest!vars, Rest!shown, RestInv, Rest!TypeOK, Settled, Rest!ShownTogether
<1>3. ASSUME NEW f \in Rest!Forms, NEW p \in Rest!Panels, Rest!Toggle(f, p) PROVE RestInv'
  <2>1. /\ f \in toggles /\ f \notin awaiting /\ responseDisplay' = p
        /\ panels' = [panels EXCEPT ![f] = {p}]
        /\ UNCHANGED <<auth, cookie, requests, line, status, data, awaiting, toggles>>
    BY <1>3 DEF Rest!Toggle, RestInv, Settled
  <2>2. panels \in [Rest!Forms -> SUBSET Rest!Panels]
    BY DEF RestInv, Rest!TypeOK
  <2>3. Rest!TypeOK'
    BY <2>1, <2>2 DEF RestInv, Rest!TypeOK
  <2>4. \A g \in Rest!Forms :
           IF g \in awaiting THEN panels'[g] = {} ELSE \E o \in Rest!Panels : panels'[g] = {o}
    BY <2>1, <2>2 DEF RestInv, Rest!ShownTogether
  <2> QED
    BY <2>1, <2>3, <2>4 DEF RestInv, Settled, Rest!ShownTogether
<1>4. ASSUME NEW a \in Auths, Rest!Authenticate(a) PROVE RestInv'
  BY <1>4 DEF Rest!Authenticate, Rest!shown, RestInv, Rest!TypeOK, Settled, Rest!ShownTogether
<1>5. ASSUME NEW f, NEW filled, Rest!SubmitThrows(f, filled) PROVE RestInv'
  BY <1>2, <1>5 DEF Rest!SubmitThrows
<1> QED
  BY <1>1, <1>2, <1>3, <1>4, <1>5, NetworkKeeps DEF Rest!Next, Rest!Ids
LEMMA RestInvariant == ASSUME Rest!RestAssumption PROVE Rest!Spec => []RestInv
<1> QED
  BY RestStarts, RestInductive, PTL DEF Rest!Spec

(* A well-typed explorer, in particular no panel shows a request that was  *)
(* never made, and the panels of a form are of one answer (or one without  *)
(* a body), whatever the order of the answers: for any schema and any      *)
(* number of requests on their way.                                        *)
THEOREM ExplorerTypeCorrect == ASSUME Rest!RestAssumption PROVE Rest!Spec => []Rest!TypeOK
<1>1. RestInv => Rest!TypeOK
  BY DEF RestInv
<1> QED
  BY <1>1, RestInvariant, PTL

\* For any links and any overlap of requests: the status line and the data panel of a
\* form are of one answer, unless the one in the data panel had no body or failed, and
\* one of the two panels is visible once an answer came (api.js, coreapi-0.1.1.js).
THEOREM AnswersShownTogether == ASSUME Rest!RestAssumption PROVE Rest!Spec => []Rest!ShownTogether
<1>1. RestInv => Rest!ShownTogether
  BY DEF RestInv
<1> QED
  BY <1>1, RestInvariant, PTL

(* What this explorer does of the site is an explorer by itself, with the  *)
(* same fairness: the other pages leave its variables alone.               *)
THEOREM SiteRefinesExplorer == Spec => Rest!Spec
<1>1. Init => Rest!Init
  BY DEF Init
<1>2. [Next]_vars => [Rest!Next]_Rest!vars
  BY DEF Next, vars, restVars, Rest!vars, Rest!shown
<1> QED
  BY <1>1, <1>2, PTL DEF Spec, Rest!Spec

\* In the site too: what a form shows is of one answer, but for those without a
\* body and those that failed, and in one panel.
THEOREM PanelsStayTogether == Spec => []ShownTogether
<1> QED
  BY SiteRefinesExplorer, AnswersShownTogether, WebAssumption, PTL DEF WebAssumption, ShownTogether

\* What ParametersPlaced says of one request.
Placed(q) ==
    LET carried == q.query \union q.path \union q.body IN
    /\ carried = q.given
    /\ \A i \in DOMAIN Links[q.form].fields :
          LET field == Links[q.form].fields[i] IN
          /\ field.required => field.name \in carried
          /\ field.name \in q.given =>
                field.name \in (IF field.location = "query" THEN q.query
                                ELSE IF field.location = "path" THEN q.path ELSE q.body)

\* buildRequest() puts every parameter it is given into its place.
LEMMA RequestPlaced ==
    ASSUME Rest!OneBody, NEW f \in Rest!Forms, NEW filled, Rest!Submit(f, filled),
           requests \in Seq(Rest!Requests)
    PROVE  Placed(requests'[Len(requests) + 1])
<1> DEFINE given == Rest!Params(f, filled)
           fields == Links[f].fields
           q == [form |-> f, given |-> given, state |-> "flight", answer |-> "none",
                 query |-> Rest!Names(f, Rest!At(f, given, "query")),
                 path |-> Rest!Names(f, Rest!At(f, given, "path")),
                 body |-> Rest!Names(f, Rest!FormParams(f, given)),
                 auth |-> auth, credentials |-> Rest!Credentials(Links[f].method)]
<1>1. requests' = Append(requests, q) /\ ~Rest!Missing(f, given)
  BY DEF Rest!Submit
<1>2. requests'[Len(requests) + 1] = q
  <2> HIDE DEF q
  <2> QED
    BY <1>1
<1>3. given \subseteq Rest!FieldNames(f)
  BY DEF Rest!Params, Rest!FieldNames
<1> HIDE DEF given
<1>4. q.query \union q.path \union q.body \subseteq given
  BY DEF Rest!Names, Rest!At, Rest!FormParams
<1> DEFINE part(location) == IF location = "query" THEN q.query
                            ELSE IF location = "path" THEN q.path ELSE q.body
<1>5. ASSUME NEW i \in DOMAIN fields, fields[i].name \in given
      PROVE  fields[i].name \in part(fields[i].location)
  <2>1. fields[i].location \in Rest!Places /\ i \in Nat
    BY DEF Rest!OneBody
  <2>2. CASE fields[i].location \in {"query", "path"}
    BY <1>5, <2>2 DEF Rest!Names, Rest!At
  <2>3. CASE fields[i].location \in {"form", "body"}
    <3>1. i \in Rest!At(f, given, "form") \union Rest!At(f, given, "body")
      BY <1>5, <2>3 DEF Rest!At
    <3>2. \A b \in Rest!At(f, given, "body") : b = i
      BY <2>3 DEF Rest!At, Rest!OneBody
    <3>3. i <= i
      BY <2>1
    <3>4. i \in Rest!FormParams(f, given)
      BY <3>1, <3>2, <3>3 DEF Rest!FormParams
    <3> QED
      BY <2>3, <3>4 DEF Rest!Names
  <2> QED
    BY <2>1, <2>2, <2>3 DEF Rest!Places
<1>6. q.query \union q.path \union q.body = given
  <2>1. ASSUME NEW n \in given PROVE n \in q.query \union q.path \union q.body
    <3>1. PICK i \in DOMAIN fields : fields[i].name = n
      BY <1>3 DEF Rest!FieldNames
    <3>2. part(fields[i].location) \subseteq q.query \union q.path \union q.body
      OBVIOUS
    <3> HIDE DEF part
    <3> QED
      BY <1>5, <3>1, <3>2
  <2> QED
    BY <1>4, <2>1
<1>7. \A i \in DOMAIN fields : fields[i].required => fields[i].name \in given
  BY <1>1 DEF Rest!Missing
<1>8. q.given = given /\ q.form = f
  OBVIOUS
<1>9. Placed(q)
  BY <1>5, <1>6, <1>7, <1>8 DEF Placed
<1> HIDE DEF q
<1> QED
  BY <1>2, <1>9

(* A request carries all it was given and all that is required, each       *)
(* parameter where the schema puts it; its state and answer are all that   *)
(* changes afterwards.  OneBody is what coreapi relies on of a schema:     *)
(* there a body replaces the form parameters collected before it.          *)
THEOREM RequestsComplete ==
    ASSUME Rest!RestAssumption, Rest!OneBody PROVE Rest!Spec => []Rest!ParametersPlaced
<1> DEFINE Inv == Rest!ParametersPlaced
<1>1. Rest!Init => Inv
  <2> SUFFICES ASSUME Rest!Init PROVE 1 .. Len(requests) = {}
    BY DEF Rest!ParametersPlaced, Rest!Ids
  <2> QED
    BY DEF Rest!Init
<1>2. RestInv /\ Inv /\ [Rest!Next]_Rest!vars => Inv'
  <2> SUFFICES ASSUME RestInv, Inv, [Rest!Next]_Rest!vars PROVE Inv'
    OBVIOUS
  <2>1. Rest!TypeOK /\ requests \in Seq(Rest!Requests) /\ Len(requests) \in Nat
    BY DEF RestInv, Rest!TypeOK
  <2>2. \A r \in 1 .. Len(requests) : Placed(requests[r])
    BY DEF Rest!ParametersPlaced, Rest!Ids, Placed
  <2>3. SUFFICES \A r \in 1 .. Len(requests') : Placed(requests'[r])
    BY DEF Rest!ParametersPlaced, Rest!Ids, Placed
  <2>4. CASE UNCHANGED requests
    BY <2>2, <2>4
  <2>5. ASSUME NEW f \in Rest!Forms, NEW filled, Rest!Submit(f, filled)
        PROVE  \A r \in 1 .. Len(requests') : Placed(requests'[r])
    <3>1. Placed(requests'[Len(requests) + 1])
      BY <2>1, <2>5, RequestPlaced
    <3>2. /\ Len(requests') = Len(requests) + 1
          /\ \A r \in 1 .. Len(requests) : requests'[r] = requests[r]
      <4>1. PICK q : requests' = Append(requests, q)
        BY <2>5 DEF Rest!Submit
      <4> QED
        BY <2>1, <4>1
    <3> QED
      BY <2>1, <2>2, <3>1, <3>2
  <2>6. ASSUME NEW r \in 1 .. Len(requests), Rest!Network(r)
        PROVE  \A i \in 1 .. Len(requests') : Placed(requests'[i])
    <3> DEFINE Same == /\ Len(requests') = Len(requests)
                       /\ \A i \in 1 .. Len(requests) : i # r => requests'[i] = requests[i]
                       /\ requests'[r].form = requests[r].form
                       /\ \A key \in {"given", "query", "path", "body", "auth", "credentials"} :
                             requests'[r][key] = requests[r][key]
    <3>1. ASSUME Rest!BodyRead(r) PROVE Same
      <4>1. requests' = [requests EXCEPT ![r].state = "done"]
        BY <3>1 DEF Rest!BodyRead
      <4> QED
        BY <2>1, <4>1, RequestBecomes
    <3>2. ASSUME Rest!BodyFails(r) PROVE Same
      <4>1. requests' = [requests EXCEPT ![r].answer = "failed", ![r].state = "done"]
        BY <3>2 DEF Rest!BodyFails
      <4> QED
        BY <2>1, <4>1, RequestBecomes
    <3>3. ASSUME NEW kind \in Rest!Kinds, Rest!FetchSettles(r, kind) PROVE Same
      <4> DEFINE s == IF kind \in {"empty", "failed"} THEN "done" ELSE "reading"
      <4>1. requests' = [requests EXCEPT ![r].answer = kind, ![r].state = s]
        BY <3>3 DEF Rest!FetchSettles
      <4> QED
        BY <2>1, <4>1, RequestBecomes
    <3>4. Same
      BY <2>6, <3>1, <3>2, <3>3 DEF Rest!Network
    <3>5. Placed(requests'[r])
      <4>1. /\ requests'[r].given = requests[r].given /\ requests'[r].query = requests[r].query
            /\ requests'[r].path = requests[r].path /\ requests'[r].body = requests[r].body
            /\ requests'[r].auth = requests[r].auth
            /\ requests'[r].credentials = requests[r].credentials
        BY <3>4
      <4> QED
        BY <2>2, <3>4, <4>1 DEF Placed
    <3> QED
      BY <2>2, <3>4, <3>5
  <2>7. \/ UNCHANGED requests
        \/ \E f \in Rest!Forms, filled \in UNION {[Rest!FieldNames(g) -> {"empty", "good", "bad"}]
                                                  : g \in Rest!Forms} : Rest!Submit(f, filled)
        \/ \E r \in 1 .. Len(requests) : Rest!Network(r)
    BY DEF Rest!Next, Rest!SubmitThrows, Rest!Toggle, Rest!Authenticate, Rest!Ids, Rest!vars
  <2> QED
    BY <2>4, <2>5, <2>6, <2>7
<1> QED
  BY <1>1, <1>2, RestInvariant, PTL DEF Rest!Spec

\* In the site too, under the same condition on the schema: a request that is sent
\* carries every parameter the user filled in, where the schema puts it.
THEOREM RequestsStayComplete == ASSUME Rest!OneBody PROVE Spec => []ParametersPlaced
<1> QED
  BY SiteRefinesExplorer, RequestsComplete, WebAssumption, PTL DEF WebAssumption, ParametersPlaced
-----------------------------------------------------------------------------
(* Date and time fields.  First the calendar: what DayNumber counts of the *)
(* years, and of the months from March on or up to February.               *)
YearBase(z) == 365 * z + z \div 4 - z \div 100 + z \div 400 - 32045

LEMMA YearBaseType == \A z \in Int : YearBase(z) \in Int
BY DEF YearBase

MonthBase(m) == IF m > 2 THEN (153 * (m - 3) + 2) \div 5 ELSE (153 * (m + 9) + 2) \div 5

\* Day numbers from March on count from the first of March of the year ...
LEMMA FromMarch ==
    ASSUME NEW y \in Int, NEW m \in 3 .. 12, NEW d \in Int
    PROVE  Dates!DayNumber(y, m, d) = d + MonthBase(m) + YearBase(y + 4800)
<1>1. (14 - m) \div 12 = 0
  OBVIOUS
<1> QED
  BY <1>1 DEF Dates!DayNumber, YearBase, MonthBase

\* ... and those of January and February from that of the year before.
LEMMA ToFebruary ==
    ASSUME NEW y \in Int, NEW m \in 1 .. 2, NEW d \in Int
    PROVE  Dates!DayNumber(y, m, d) = d + MonthBase(m) + YearBase(y + 4799)
<1>1. (14 - m) \div 12 = 1
  OBVIOUS
<1> QED
  BY <1>1 DEF Dates!DayNumber, YearBase, MonthBase

\* How many days after the first of March a month begins.
LEMMA MonthBases ==
    /\ MonthBase(1) = 306 /\ MonthBase(2) = 337 /\ MonthBase(3) = 0 /\ MonthBase(12) = 275
    /\ \A m \in 3 .. 11 : /\ MonthBase(m) \in Int
                          /\ MonthBase(m + 1) = MonthBase(m) + IF m \in {4, 6, 9, 11} THEN 30 ELSE 31
<1>1. ASSUME NEW m \in 3 .. 11
      PROVE  /\ MonthBase(m) \in Int
             /\ MonthBase(m + 1) = MonthBase(m) + IF m \in {4, 6, 9, 11} THEN 30 ELSE 31
  <2>1. m \in {3, 4, 5, 6, 7, 8, 9, 10, 11}
    OBVIOUS
  <2> QED
    BY <2>1 DEF MonthBase
<1> QED
  BY <1>1 DEF MonthBase

\* The years of the Gregorian calendar: the 29th of February is counted to
\* the year before March.
LEMMA LeapDays ==
    ASSUME NEW y \in Int
    PROVE  YearBase(y + 4800) - YearBase(y + 4799) = IF Dates!isLeapYear(y) THEN 366 ELSE 365
<1> DEFINE Q == (y + 4800) \div 4
           P == (y + 4799) \div 4
           QQ == (y + 4800) \div 100
           PP == (y + 4799) \div 100
           QQQ == (y + 4800) \div 400
           PPP == (y + 4799) \div 400
<1>1. /\ (y + 4800) \div 4 - (y + 4799) \div 4 = IF y % 4 = 0 THEN 1 ELSE 0
      /\ y % 100 = 0 => y % 4 = 0
  OBVIOUS
<1>2. (y + 4800) \div 100 - (y + 4799) \div 100 = IF y % 100 = 0 THEN 1 ELSE 0
  OBVIOUS
<1>3. /\ (y + 4800) \div 400 - (y + 4799) \div 400 = IF y % 400 = 0 THEN 1 ELSE 0
      /\ y % 400 = 0 => y % 100 = 0
  OBVIOUS
<1>4. /\ Q \in Int /\ P \in Int /\ QQ \in Int /\ PP \in Int /\ QQQ \in Int /\ PPP \in Int
      /\ Q - P = IF y % 4 = 0 THEN 1 ELSE 0
      /\ QQ - PP = IF y % 100 = 0 THEN 1 ELSE 0
      /\ QQQ - PPP = IF y % 400 = 0 THEN 1 ELSE 0
  BY <1>1, <1>2, <1>3
<1>5. YearBase(y + 4800) = 365 * (y + 4800) + Q - QQ + QQQ - 32045
  BY DEF YearBase
<1>6. YearBase(y + 4799) = 365 * (y + 4799) + P - PP + PPP - 32045
  BY DEF YearBase
<1> HIDE DEF Q, P, QQ, PP, QQQ, PPP
<1>7. CASE y % 400 = 0
  <2>1. y % 100 = 0 /\ y % 4 = 0 /\ Dates!isLeapYear(y)
    BY <1>1, <1>3, <1>7 DEF Dates!isLeapYear
  <2> QED
    BY <1>4, <1>5, <1>6, <1>7, <2>1
<1>8. CASE y % 400 # 0 /\ y % 100 = 0
  <2>1. y % 4 = 0 /\ ~Dates!isLeapYear(y)
    BY <1>1, <1>8 DEF Dates!isLeapYear
  <2> QED
    BY <1>4, <1>5, <1>6, <1>8, <2>1
<1>9. CASE y % 100 # 0 /\ y % 4 = 0
  <2>1. y % 400 # 0 /\ Dates!isLeapYear(y)
    BY <1>3, <1>9 DEF Dates!isLeapYear
  <2> QED
    BY <1>4, <1>5, <1>6, <1>9, <2>1
<1>10. CASE y % 4 # 0
  <2>1. y % 100 # 0 /\ y % 400 # 0 /\ ~Dates!isLeapYear(y)
    BY <1>1, <1>3, <1>10 DEF Dates!isLeapYear
  <2> QED
    BY <1>4, <1>5, <1>6, <1>10, <2>1
<1> QED
  BY <1>7, <1>8, <1>9, <1>10

\* The month after one that has as many days as the calendar says.
LEMMA MonthsFollow ==
    ASSUME NEW y \in Int, NEW m \in 1 .. 12
    PROVE  LET days == Dates!getDaysInMonth(m, y)
               next == Dates!NextMonth(y, m)
           IN  /\ days \in 28 .. 31
               /\ next[1] \in Int /\ next[2] \in 1 .. 12
               /\ Dates!DayNumber(y, m, days) + 1 = Dates!DayNumber(next[1], next[2], 1)
<1> DEFINE days == Dates!getDaysInMonth(m, y)
           next == Dates!NextMonth(y, m)
<1>1. days \in 28 .. 31 /\ next[1] \in Int /\ next[2] \in 1 .. 12
  BY DEF Dates!getDaysInMonth, Dates!NextMonth
<1>2. YearBase(y + 4800) \in Int /\ YearBase(y + 4799) \in Int
  BY YearBaseType
<1>3. CASE m = 2
  <2>1. next = <<y, 3>> /\ days = IF Dates!isLeapYear(y) THEN 29 ELSE 28
    BY <1>3 DEF Dates!getDaysInMonth, Dates!NextMonth
  <2> HIDE DEF days, next
  <2>2. Dates!DayNumber(y, 2, days) = days + MonthBase(2) + YearBase(y + 4799)
    BY <1>1, ToFebruary
  <2>3. Dates!DayNumber(y, 3, 1) = 1 + MonthBase(3) + YearBase(y + 4800)
    BY FromMarch
  <2>4. MonthBase(2) = 337 /\ MonthBase(3) = 0
    BY MonthBases
  <2>5. Dates!DayNumber(y, 2, days) + 1 = Dates!DayNumber(y, 3, 1)
    BY <1>1, <1>2, <2>1, <2>2, <2>3, <2>4, LeapDays
  <2> QED
    BY <1>1, <1>3, <2>1, <2>5 DEF days, next
<1>4. CASE m = 12
  <2>1. next = <<y + 1, 1>> /\ days = 31
    BY <1>4 DEF Dates!getDaysInMonth, Dates!NextMonth
  <2>2. Dates!DayNumber(y, 12, 31) = 31 + MonthBase(12) + YearBase(y + 4800)
    BY FromMarch
  <2>3. y + 1 \in Int /\ y + 1 + 4799 = y + 4800
    OBVIOUS
  <2>4. Dates!DayNumber(y + 1, 1, 1) = 1 + MonthBase(1) + YearBase(y + 1 + 4799)
    BY <2>3, ToFebruary
  <2>5. MonthBase(12) = 275 /\ MonthBase(1) = 306
    BY MonthBases
  <2>6. Dates!DayNumber(y, 12, 31) + 1 = Dates!DayNumber(y + 1, 1, 1)
    BY <1>2, <2>2, <2>3, <2>4, <2>5
  <2> QED
    BY <1>1, <1>4, <2>1, <2>6
<1>5. CASE m = 1
  <2>1. next = <<y, 2>> /\ days = 31
    BY <1>5 DEF Dates!getDaysInMonth, Dates!NextMonth
  <2>2. Dates!DayNumber(y, 1, 31) = 31 + MonthBase(1) + YearBase(y + 4799)
    BY ToFebruary
  <2>3. Dates!DayNumber(y, 2, 1) = 1 + MonthBase(2) + YearBase(y + 4799)
    BY ToFebruary
  <2>4. MonthBase(1) = 306 /\ MonthBase(2) = 337
    BY MonthBases
  <2> QED
    BY <1>1, <1>2, <1>5, <2>1, <2>2, <2>3, <2>4
<1>6. CASE m \in 3 .. 11
  <2>1. /\ next = <<y, m + 1>> /\ m + 1 \in 1 .. 12 /\ m > 2 /\ m + 1 > 2
        /\ days = IF m \in {4, 6, 9, 11} THEN 30 ELSE 31
    BY <1>6 DEF Dates!getDaysInMonth, Dates!NextMonth
  <2> HIDE DEF days, next
  <2>2. Dates!DayNumber(y, m, days) = days + MonthBase(m) + YearBase(y + 4800)
    <3>1. m \in 3 .. 12 /\ days \in Int
      BY <1>1, <2>1
    <3> QED
      BY <3>1, FromMarch
  <2>3. Dates!DayNumber(y, m + 1, 1) = 1 + MonthBase(m + 1) + YearBase(y + 4800)
    <3>1. m + 1 \in 3 .. 12
      BY <2>1
    <3> QED
      BY <3>1, FromMarch
  <2>4. /\ MonthBase(m) \in Int
        /\ MonthBase(m + 1) = MonthBase(m) + IF m \in {4, 6, 9, 11} THEN 30 ELSE 31
    BY <1>6, MonthBases
  <2>5. Dates!DayNumber(y, m, days) + 1 = Dates!DayNumber(y, m + 1, 1)
    BY <1>1, <1>2, <2>1, <2>2, <2>3, <2>4
  <2> QED
    BY <1>1, <2>1, <2>5 DEF days, next
<1> QED
  BY <1>3, <1>4, <1>5, <1>6

\* The column of a day is that of its weekday, whichever day a week begins with, if
\* new Date() takes the year as it is.
LEMMA RightColumn ==
    ASSUME Dates!DatesAssumption, NEW y \in Int \ (0 .. 99), NEW m \in 1 .. 12, NEW d \in Int
    PROVE  Dates!Header(y, m, d) = Dates!Weekday(Dates!DayNumber(y, m, d))
<1> DEFINE c == Dates!DayNumber(y, m, 0)
           F == FirstDayOfWeek
           a == c + (1 - F) + 1
<1>1. F \in Int
  BY DEF Dates!DatesAssumption
<1>2. /\ c \in Int /\ Dates!DayNumber(y, m, d) = c + d
      /\ Dates!DayNumber(y, m, 1 - F) = c + (1 - F)
  BY <1>1 DEF Dates!DayNumber
<1>3. \A i, j \in Int : ((i % 7) + j) % 7 = (i + j) % 7
  OBVIOUS
<1> HIDE DEF c, F
<1>4. a \in Int /\ a % 7 \in Int
  BY <1>1, <1>2
<1>5. /\ ((a % 7) + (d - 1)) % 7 = (a + (d - 1)) % 7
      /\ (((a + (d - 1)) % 7) + F) % 7 = (a + (d - 1) + F) % 7
  BY <1>1, <1>3, <1>4
<1>6. (a % 7) + d - 1 = (a % 7) + (d - 1) /\ a + (d - 1) + F = c + d + 1
  BY <1>1, <1>2, <1>4
<1>7. Dates!Header(y, m, d) = ((((a % 7) + d - 1) % 7) + F) % 7
  BY <1>2 DEF Dates!Header, Dates!startingPos, Dates!Year, Dates!Weekday, F
<1>8. Dates!Weekday(Dates!DayNumber(y, m, d)) = (c + d + 1) % 7
  BY <1>2 DEF Dates!Weekday
<1> QED
  BY <1>5, <1>6, <1>7, <1>8

\* A month has 28 to 31 days.
LEMMA MonthLength ==
    ASSUME NEW k \in Int
    PROVE  /\ Dates!MonthStart(k) \in Int
           /\ Dates!MonthStart(k + 1) - Dates!MonthStart(k) \in 28 .. 31
<1> DEFINE y == k \div 12
           m == (k % 12) + 1
           days == Dates!getDaysInMonth(m, y)
<1>1. y \in Int /\ m \in 1 .. 12
  OBVIOUS
<1>2. Dates!NextMonth(y, m) = <<(k + 1) \div 12, ((k + 1) % 12) + 1>>
  BY DEF Dates!NextMonth
<1>3. Dates!MonthStart(k) = Dates!DayNumber(y, m, 1)
  BY DEF Dates!MonthStart
<1>4. \A d \in Int : /\ Dates!DayNumber(y, m, d) \in Int
                     /\ Dates!DayNumber(y, m, d) = Dates!DayNumber(y, m, 1) + d - 1
  <2> HIDE DEF y, m
  <2> QED
    BY <1>1 DEF Dates!DayNumber
<1>5. Dates!MonthStart(k + 1) = Dates!DayNumber(Dates!NextMonth(y, m)[1], Dates!NextMonth(y, m)[2], 1)
  BY <1>2 DEF Dates!MonthStart
<1> HIDE DEF y, m
<1>6. days \in 28 .. 31 /\ Dates!DayNumber(y, m, days) + 1 = Dates!MonthStart(k + 1)
  BY <1>1, <1>5, MonthsFollow
<1>7. Dates!DayNumber(y, m, days) = Dates!DayNumber(y, m, 1) + days - 1
  BY <1>4, <1>6
<1>8. Dates!DayNumber(y, m, 1) \in Int
  BY <1>4
<1> HIDE DEF days
<1> QED
  BY <1>3, <1>6, <1>7, <1>8

\* A day near a month is found, with its number in its own month.
LEMMA DayFound ==
    ASSUME NEW near \in Int, NEW n \in Int,
           Dates!MonthStart(near) - 28 <= n, n < Dates!MonthStart(near) + 140
    PROVE  Dates!DayOf(n, near) \in Int \X (1 .. 12) \X (1 .. 31)
<1> DEFINE M(i) == Dates!MonthStart(i)
           In(i) == M(i) <= n /\ n < M(i + 1)
           k == CHOOSE i \in near - 1 .. near + 4 : In(i)
<1>1. \A i \in Int : M(i) \in Int /\ M(i + 1) - M(i) \in 28 .. 31
  BY MonthLength
<1> HIDE DEF M
<1>2. /\ near - 1 \in Int /\ near + 1 \in Int /\ near + 2 \in Int /\ near + 3 \in Int /\ near + 4 \in Int
      /\ near - 1 + 1 = near /\ near + 1 + 1 = near + 2 /\ near + 2 + 1 = near + 3
      /\ near + 3 + 1 = near + 4 /\ near + 4 + 1 = near + 5
  OBVIOUS
<1>3. /\ M(near) \in Int /\ M(near - 1) \in Int
      /\ M(near) - M(near - 1) \in 28 .. 31
  BY <1>1, <1>2
<1>4. M(near + 1) \in Int /\ M(near + 1) - M(near) \in 28 .. 31
  BY <1>1, <1>2
<1>5. M(near + 2) \in Int /\ M(near + 2) - M(near + 1) \in 28 .. 31
  BY <1>1, <1>2
<1>6. M(near + 3) \in Int /\ M(near + 3) - M(near + 2) \in 28 .. 31
  BY <1>1, <1>2
<1>7. M(near + 4) \in Int /\ M(near + 4) - M(near + 3) \in 28 .. 31
  BY <1>1, <1>2
<1>8. M(near + 5) - M(near + 4) \in 28 .. 31 /\ M(near + 5) \in Int
  <2>1. near + 5 \in Int
    OBVIOUS
  <2> QED
    BY <1>1, <1>2, <2>1
<1>9. M(near) - 28 <= n /\ n < M(near) + 140
  BY DEF M
<1>10. \/ M(near - 1) <= n /\ n < M(near)
       \/ M(near) <= n /\ n < M(near + 1)
       \/ M(near + 1) <= n /\ n < M(near + 2)
       \/ M(near + 2) <= n /\ n < M(near + 3)
       \/ M(near + 3) <= n /\ n < M(near + 4)
       \/ M(near + 4) <= n /\ n < M(near + 5)
  BY <1>3, <1>4, <1>5, <1>6, <1>7, <1>8, <1>9
<1>11. \E i \in near - 1 .. near + 4 : In(i)
  <2>1. CASE M(near - 1) <= n /\ n < M(near)
    BY <1>2, <2>1
  <2>2. CASE M(near) <= n /\ n < M(near + 1)
    BY <1>2, <2>2
  <2>3. CASE M(near + 1) <= n /\ n < M(near + 2)
    BY <1>2, <2>3
  <2>4. CASE M(near + 2) <= n /\ n < M(near + 3)
    BY <1>2, <2>4
  <2>5. CASE M(near + 3) <= n /\ n < M(near + 4)
    BY <1>2, <2>5
  <2>6. CASE M(near + 4) <= n /\ n < M(near + 5)
    BY <1>2, <2>6
  <2> QED
    BY <1>10, <2>1, <2>2, <2>3, <2>4, <2>5, <2>6
<1>12. k \in Int /\ In(k)
  <2>1. k \in near - 1 .. near + 4 /\ In(k)
    BY <1>11
  <2> QED
    BY <2>1
<1>13. Dates!DayOf(n, near) = <<k \div 12, (k % 12) + 1, n - M(k) + 1>>
  BY DEF Dates!DayOf, M
<1> HIDE DEF k
<1>14. /\ k \div 12 \in Int /\ (k % 12) + 1 \in 1 .. 12
       /\ M(k) \in Int /\ M(k + 1) \in Int /\ M(k + 1) - M(k) \in 28 .. 31
  <2>1. k + 1 \in Int
    BY <1>12
  <2> QED
    BY <1>1, <1>12, <2>1
<1>15. n - M(k) + 1 \in 1 .. 31
  BY <1>12, <1>14
<1> QED
  BY <1>13, <1>14, <1>15

\* What a calendar reads from a field and what the quick links write there.
LEMMA DateIs ==
    ASSUME NEW t \in Int \X Int \X (0 .. 99)
    PROVE  Dates!Date(t) \in Int \X (1 .. 12) \X (1 .. 31)
<1> DEFINE k == Dates!Month(Dates!Year(t[1]), t[2])
           n == Dates!MonthStart(k) + t[3] - 1
<1>1. t[1] \in Int /\ t[2] \in Int /\ t[3] \in 0 .. 99
  OBVIOUS
<1>2. k \in Int
  BY <1>1 DEF Dates!Month, Dates!Year
<1>3. Dates!Date(t) = Dates!DayOf(n, k)
  BY DEF Dates!Date
<1> HIDE DEF k
<1>4. Dates!MonthStart(k) \in Int
  BY <1>2, MonthLength
<1>5. n \in Int /\ Dates!MonthStart(k) - 28 <= n /\ n < Dates!MonthStart(k) + 140
  BY <1>1, <1>4
<1> HIDE DEF n
<1> QED
  BY <1>2, <1>3, <1>5, DayFound

\* The date now() gives is one.
LEMMA NowIs ==
    ASSUME Dates!DatesAssumption, NEW offset \in (-1) .. 1
    PROVE  Dates!now(offset) \in Int \X (1 .. 12) \X (1 .. 31)
<1> DEFINE y == Today[1]
           m == Today[2]
           k == Dates!Month(y, m)
           n == Dates!DayNumber(y, m, Today[3]) + ServerDay + offset
<1>1. y \in Int /\ m \in 1 .. 12 /\ Today[3] \in 1 .. 31 /\ ServerDay \in (-1) .. 1
  BY DEF Dates!DatesAssumption
<1>2. k \in Int /\ k = 12 * y + (m - 1)
  BY <1>1 DEF Dates!Month
<1>3. Dates!now(offset) = Dates!DayOf(n, k)
  BY DEF Dates!now
<1> HIDE DEF y, m, k
<1>4. k \div 12 = y /\ (k % 12) + 1 = m
  BY <1>1, <1>2
<1>5. Dates!MonthStart(k) = Dates!DayNumber(y, m, 1) /\ Dates!MonthStart(k) \in Int
  BY <1>2, <1>4, MonthLength DEF Dates!MonthStart
<1>6. Dates!DayNumber(y, m, Today[3]) = Dates!DayNumber(y, m, 1) + Today[3] - 1
  BY <1>1 DEF Dates!DayNumber
<1>7. n \in Int /\ Dates!MonthStart(k) - 28 <= n /\ n < Dates!MonthStart(k) + 140
  BY <1>1, <1>5, <1>6
<1> HIDE DEF n
<1> QED
  BY <1>2, <1>3, <1>7, DayFound

-----------------------------------------------------------------------------
BoxKinds == {"clock", "calendar"}
SeqOf(S) == CHOOSE q \in [1 .. Dates!Cardinality(S) -> S] :
                \A i, j \in DOMAIN q : q[i] = q[j] => i = j

\* Every field of a set gets one number.
LEMMA Numbered ==
    ASSUME NEW S, IsFiniteSet(S)
    PROVE  /\ SeqOf(S) \in Seq(S)
           /\ \A s \in S : \E i \in 1 .. Len(SeqOf(S)) :
                 \A j \in 1 .. Len(SeqOf(S)) : SeqOf(S)[j] = s <=> j = i
<1>1. Dates!Cardinality(S) = Cardinality(S) /\ Cardinality(S) \in Nat
  <2>1. Cardinality(S) \in Nat
    BY FS_CardinalityType
  <2>2. Dates!Cardinality(S) = Cardinality(S)
    BY DEF Dates!Cardinality, Cardinality
  <2> QED
    BY <2>1, <2>2
<1>2. \E q \in [1 .. Cardinality(S) -> S] : \A i, j \in DOMAIN q : q[i] = q[j] => i = j
  <2>1. PICK n \in Nat : ExistsBijection(1 .. n, S)
    BY FS_NatBijection
  <2>2. Cardinality(S) = n
    BY <2>1, FS_CountingElements
  <2>3. PICK q \in Bijection(1 .. n, S) : TRUE
    BY <2>1 DEF ExistsBijection
  <2>4. q \in [1 .. n -> S] /\ \A i, j \in 1 .. n : q[i] = q[j] => i = j
    BY <2>3 DEF Bijection, Injection, IsInjective
  <2> QED
    BY <2>2, <2>4
<1> DEFINE q == SeqOf(S)
           n == Cardinality(S)
<1>3. q \in [1 .. n -> S] /\ \A i, j \in DOMAIN q : q[i] = q[j] => i = j
  BY <1>1, <1>2 DEF SeqOf
<1> HIDE DEF q
<1>4. q \in Injection(1 .. n, S)
  BY <1>3 DEF Injection, IsInjective
<1>5. Cardinality(1 .. n) = n
  <2>1. 1 \in Int /\ n \in Int
    BY <1>1
  <2> QED
    BY <1>1, <2>1, FS_Interval
<1>6. q \in Surjection(1 .. n, S)
  BY <1>4, <1>5, FS_Injection
<1>7. \A s \in S : \E i \in 1 .. n : q[i] = s
  BY <1>6 DEF Surjection
<1>8. q \in Seq(S) /\ Len(q) = n
  BY <1>1, <1>3
<1>9. \A i, j \in 1 .. n : q[i] = q[j] => i = j
  BY <1>3
<1>10. \A s \in S : \E i \in 1 .. n : \A j \in 1 .. n : q[j] = s <=> j = i
  BY <1>7, <1>9
<1> QED
  BY <1>8, <1>10 DEF q

\* What setting the fields up does to one kind: old numbers keep their field,
\* every field of S gets one new number.
Extends(new, old, S, T) ==
    /\ new \in Seq(T) /\ Len(new) \in Nat /\ Len(new) >= Len(old)
    /\ \A s \in S : \E i \in DOMAIN new :
          { n \in DOMAIN new : n > Len(old) /\ new[n] = s } = {i} /\ new[i] = s

\* A set, listed in any order behind a sequence, extends it by each
\* element once.
LEMMA Extended ==
    ASSUME NEW S, IsFiniteSet(S), NEW T, S \subseteq T, NEW old \in Seq(T)
    PROVE  Extends(old \o SeqOf(S), old, S, T)
<1> DEFINE q == SeqOf(S)
           new == old \o q
<1>1. q \in Seq(S) /\ \A s \in S : \E i \in 1 .. Len(q) : \A j \in 1 .. Len(q) : q[j] = s <=> j = i
  BY Numbered
<1> HIDE DEF q
<1>2. q \in Seq(T) /\ Len(q) \in Nat /\ Len(old) \in Nat
  BY <1>1
<1>3. /\ new \in Seq(T) /\ Len(new) = Len(old) + Len(q) /\ DOMAIN new = 1 .. Len(old) + Len(q)
      /\ \A n \in 1 .. Len(old) + Len(q) : n > Len(old) => new[n] = q[n - Len(old)]
  BY <1>2
<1> HIDE DEF new
<1>4. ASSUME NEW s \in S
      PROVE  \E i \in DOMAIN new : { n \in DOMAIN new : n > Len(old) /\ new[n] = s } = {i} /\ new[i] = s
  <2>1. PICK i \in 1 .. Len(q) : \A j \in 1 .. Len(q) : q[j] = s <=> j = i
    BY <1>1
  <2> DEFINE x == Len(old) + i
  <2>2. x \in DOMAIN new /\ x > Len(old) /\ new[x] = s
    <3>1. x \in 1 .. Len(old) + Len(q) /\ x > Len(old) /\ x - Len(old) = i
      BY <1>2, <2>1
    <3> QED
      BY <1>3, <2>1, <3>1
  <2>3. ASSUME NEW n \in DOMAIN new, n > Len(old), new[n] = s PROVE n = x
    <3>1. n - Len(old) \in 1 .. Len(q) /\ new[n] = q[n - Len(old)]
      BY <1>2, <1>3, <2>3
    <3>2. n - Len(old) = i
      BY <2>1, <2>3, <3>1
    <3>3. n \in Int /\ Len(old) \in Int
      BY <1>2, <1>3
    <3> QED
      BY <3>2, <3>3
  <2> QED
    BY <2>2, <2>3
<1> QED
  BY <1>2, <1>3, <1>4 DEF new, q, Extends

\* Setting up gives every field one box of its own, linked, and at most
\* one warning.
LEMMA SetupServes ==
    ASSUME Dates!DatesAssumption, NEW fs \in SUBSET Dates!Fields,
           NEW ins \in [BoxKinds -> Seq(Dates!Fields)], Dates!Setup(fs, ins)
    PROVE  /\ inputs' \in [BoxKinds -> Seq(Dates!Fields)]
           /\ Len(inputs'["calendar"]) \in Nat
           /\ Len(inputs'["calendar"]) >= Len(ins["calendar"])
           /\ links' = [f \in Dates!Fields |-> links'[f]]
           /\ \A f \in Dates!Fields : links'[f] \subseteq DOMAIN inputs'[Dates!Kind(f)]
           /\ \A f \in fs :
                 /\ \E n \in DOMAIN inputs'[Dates!Kind(f)] :
                       links'[f] = {n} /\ inputs'[Dates!Kind(f)][n] = f
                 /\ warned'[f] = IF Mismatch THEN 1 ELSE 0
<1> DEFINE F == Dates!Fields
           clocks == ins["clock"] \o SeqOf(fs \intersect TimeFields)
           cals   == ins["calendar"] \o SeqOf(fs \intersect DateFieldsOf)
           both   == [k \in {"clock", "calendar"} |-> IF k = "clock" THEN clocks ELSE cals]
<1>1. /\ inputs' = both
      /\ links' = [f \in F |-> { n \in DOMAIN both[Dates!Kind(f)] :
                        n > Len(ins[Dates!Kind(f)]) /\ both[Dates!Kind(f)][n] = f }]
      /\ warned' = [f \in F |-> IF f \in fs /\ Mismatch THEN 1 ELSE 0]
  BY DEF Dates!Setup, SeqOf
<1>2. /\ fs \intersect TimeFields \subseteq F /\ fs \intersect DateFieldsOf \subseteq F
      /\ IsFiniteSet(fs \intersect TimeFields) /\ IsFiniteSet(fs \intersect DateFieldsOf)
  <2>1. IsFiniteSet(F)
    BY DEF Dates!DatesAssumption, Dates!IsFiniteSet, IsFiniteSet
  <2>2. fs \intersect TimeFields \in SUBSET F /\ fs \intersect DateFieldsOf \in SUBSET F
    BY DEF Dates!Fields
  <2> QED
    BY <2>1, <2>2, FS_Subset
<1>3. ins["clock"] \in Seq(F) /\ ins["calendar"] \in Seq(F)
  BY DEF BoxKinds
<1>4. Extends(clocks, ins["clock"], fs \intersect TimeFields, F)
  BY <1>2, <1>3, Extended
<1>5. Extends(cals, ins["calendar"], fs \intersect DateFieldsOf, F)
  BY <1>2, <1>3, Extended
<1> HIDE DEF clocks, cals
<1>6. both["clock"] = clocks /\ both["calendar"] = cals /\ both \in [BoxKinds -> Seq(F)]
  BY <1>4, <1>5 DEF BoxKinds, Extends
<1> HIDE DEF both
<1>7. ASSUME NEW f \in fs
      PROVE  /\ \E n \in DOMAIN inputs'[Dates!Kind(f)] :
                   links'[f] = {n} /\ inputs'[Dates!Kind(f)][n] = f
             /\ warned'[f] = IF Mismatch THEN 1 ELSE 0
  <2>1. f \in F
    OBVIOUS
  <2>2. CASE f \in TimeFields
    <3>1. Dates!Kind(f) = "clock" /\ f \in fs \intersect TimeFields
      BY <2>2 DEF Dates!Kind
    <3>2. links'[f] = { n \in DOMAIN clocks : n > Len(ins["clock"]) /\ clocks[n] = f }
      BY <1>1, <1>6, <2>1, <3>1
    <3> QED
      BY <1>1, <1>4, <1>6, <2>1, <3>1, <3>2 DEF Extends
  <2>3. CASE f \notin TimeFields
    <3>1. Dates!Kind(f) = "calendar" /\ f \in fs \intersect DateFieldsOf
      BY <2>1, <2>3 DEF Dates!Kind, Dates!Fields
    <3>2. links'[f] = { n \in DOMAIN cals : n > Len(ins["calendar"]) /\ cals[n] = f }
      BY <1>1, <1>6, <2>1, <3>1
    <3> QED
      BY <1>1, <1>5, <1>6, <2>1, <3>1, <3>2 DEF Extends
  <2> QED
    BY <2>2, <2>3
<1>8. \A f \in F : links'[f] \subseteq DOMAIN inputs'[Dates!Kind(f)]
  BY <1>1
<1>9. links' = [f \in F |-> links'[f]]
  BY <1>1
<1>10. Len(inputs'["calendar"]) \in Nat /\ Len(inputs'["calendar"]) >= Len(ins["calendar"])
  BY <1>1, <1>5, <1>6 DEF Extends
<1> QED
  BY <1>1, <1>6, <1>7, <1>8, <1>9, <1>10

-----------------------------------------------------------------------------
\* What a field may hold: nothing, an hour, a date typed or written by a box.
Texts == {<<>>} \union { <<h>> : h \in Int } \union (Int \X Int \X (0 .. 99))

Months == [month : 1 .. 12, year : Int]

\* A box per input and a calendar per box of a date, with a month of the year;
\* shortcuts lead to boxes there are, and texts are what a user can type.
DateFacts ==
    /\ live \subseteq Dates!Fields
    /\ inputs \in [BoxKinds -> Seq(Dates!Fields)]
    /\ cal \in Seq(Months) /\ Len(cal) = Len(inputs["calendar"])
    /\ entered \in [Dates!Fields -> Texts]
    /\ \A f \in Dates!Fields : links[f] \subseteq DOMAIN inputs[Dates!Kind(f)]
    /\ Dates!ShortcutsServeTheirField

\* The month after and before a month is one of the twelve.
LEMMA MonthsTurn ==
    ASSUME NEW c \in Months
    PROVE  /\ Dates!NextMonth(c.year, c.month) \in Int \X (1 .. 12)
           /\ Dates!PrevMonth(c.year, c.month) \in Int \X (1 .. 12)
BY DEF Months, Dates!NextMonth, Dates!PrevMonth

LEMMA DatesStart == Init => DateFacts
<1> SUFFICES ASSUME Dates!Init PROVE DateFacts
  BY DEF Init
<1>1. /\ live = {} /\ inputs = [k \in {"clock", "calendar"} |-> <<>>] /\ cal = <<>>
      /\ entered = [f \in Dates!Fields |-> <<>>] /\ links = [f \in Dates!Fields |-> {}]
  BY DEF Dates!Init
<1>2. inputs \in [BoxKinds -> Seq(Dates!Fields)] /\ Len(cal) = Len(inputs["calendar"]) /\ cal \in Seq(Months)
  BY <1>1 DEF BoxKinds
<1>3. entered \in [Dates!Fields -> Texts]
  BY <1>1 DEF Texts
<1> QED
  BY <1>1, <1>2, <1>3 DEF DateFacts, Dates!ShortcutsServeTheirField

LEMMA DatesLoadKeeps == ASSUME Dates!Load PROVE DateFacts'
<1> DEFINE fs == Dates!Fields \ RowFields
           none == [k \in {"clock", "calendar"} |-> <<>>]
<1>1. Dates!DatesAssumption
  BY WebAssumption DEF WebAssumption
<1>2. /\ live' = fs /\ Dates!Setup(fs, none)
      /\ cal' = [n \in DOMAIN inputs'["calendar"] |-> Dates!NewCalendar]
      /\ entered' = [f \in Dates!Fields |-> <<>>]
  BY DEF Dates!Load
<1>3. none \in [BoxKinds -> Seq(Dates!Fields)] /\ fs \in SUBSET Dates!Fields
  BY DEF BoxKinds
<1>4. /\ inputs' \in [BoxKinds -> Seq(Dates!Fields)]
      /\ \A f \in Dates!Fields : links'[f] \subseteq DOMAIN inputs'[Dates!Kind(f)]
      /\ \A f \in fs :
            /\ \E n \in DOMAIN inputs'[Dates!Kind(f)] :
                  links'[f] = {n} /\ inputs'[Dates!Kind(f)][n] = f
            /\ warned'[f] = IF Mismatch THEN 1 ELSE 0
  BY <1>1, <1>2, <1>3, SetupServes
<1>5. Dates!NewCalendar \in Months
  BY <1>1 DEF Dates!DatesAssumption, Dates!NewCalendar, Months
<1>6. cal' \in Seq(Months) /\ Len(cal') = Len(inputs'["calendar"])
  <2>1. inputs'["calendar"] \in Seq(Dates!Fields)
    BY <1>4 DEF BoxKinds
  <2> QED
    BY <1>2, <1>5, <2>1
<1>7. entered' \in [Dates!Fields -> Texts]
  BY <1>2 DEF Texts
<1> QED
  BY <1>2, <1>3, <1>4, <1>6, <1>7 DEF DateFacts, Dates!ShortcutsServeTheirField

LEMMA AddKeepsDates == ASSUME DateFacts, Dates!AddRow PROVE DateFacts'
<1>1. Dates!DatesAssumption
  BY WebAssumption DEF WebAssumption
<1>2. /\ live' = live \union RowFields /\ Dates!Setup(live', inputs)
      /\ cal' = cal \o [n \in 1 .. Len(inputs'["calendar"]) - Len(cal) |-> Dates!NewCalendar]
      /\ entered' = [f \in Dates!Fields |-> IF f \in RowFields THEN <<>> ELSE entered[f]]
  BY DEF Dates!AddRow
<1>3. live' \in SUBSET Dates!Fields /\ inputs \in [BoxKinds -> Seq(Dates!Fields)]
  BY <1>1, <1>2 DEF DateFacts, Dates!DatesAssumption
<1>4. /\ inputs' \in [BoxKinds -> Seq(Dates!Fields)]
      /\ Len(inputs'["calendar"]) \in Nat /\ Len(inputs'["calendar"]) >= Len(inputs["calendar"])
      /\ \A f \in Dates!Fields : links'[f] \subseteq DOMAIN inputs'[Dates!Kind(f)]
      /\ \A f \in live' :
            /\ \E n \in DOMAIN inputs'[Dates!Kind(f)] :
                  links'[f] = {n} /\ inputs'[Dates!Kind(f)][n] = f
            /\ warned'[f] = IF Mismatch THEN 1 ELSE 0
  BY <1>1, <1>2, <1>3, SetupServes
<1>5. Dates!NewCalendar \in Months
  BY <1>1 DEF Dates!DatesAssumption, Dates!NewCalendar, Months
<1>6. cal' \in Seq(Months) /\ Len(cal') = Len(inputs'["calendar"])
  <2> DEFINE more == Len(inputs'["calendar"]) - Len(cal)
             new == [n \in 1 .. more |-> Dates!NewCalendar]
  <2>1. cal \in Seq(Months) /\ Len(cal) = Len(inputs["calendar"]) /\ Len(cal) \in Nat
    BY DEF DateFacts
  <2>2. more \in Nat
    BY <1>4, <2>1
  <2>3. new \in Seq(Months) /\ Len(new) = more
    <3> HIDE DEF more
    <3> QED
      BY <1>5, <2>2
  <2> HIDE DEF new
  <2>4. cal' = cal \o new
    BY <1>2 DEF new
  <2>5. cal' \in Seq(Months) /\ Len(cal') = Len(cal) + more
    <3> HIDE DEF more
    <3>1. cal \o new \in Seq(Months) /\ Len(cal \o new) = Len(cal) + Len(new)
      BY <2>1, <2>3, ConcatProperties
    <3> QED
      BY <2>3, <2>4, <3>1
  <2> QED
    BY <1>4, <2>1, <2>5
<1>7. entered' \in [Dates!Fields -> Texts]
  BY <1>2 DEF Texts, DateFacts
<1> QED
  BY <1>3, <1>4, <1>6, <1>7 DEF DateFacts, Dates!ShortcutsServeTheirField

LEMMA RemoveKeepsDates == ASSUME DateFacts, Dates!RemoveRow PROVE DateFacts'
<1>1. /\ live' = live \ RowFields /\ UNCHANGED <<inputs, cal, entered>>
      /\ links' = [f \in Dates!Fields |-> IF f \in RowFields THEN {} ELSE links[f]]
      /\ warned' = [f \in Dates!Fields |-> IF f \in RowFields THEN 0 ELSE warned[f]]
  BY DEF Dates!RemoveRow
<1>2. \A f \in live' : /\ f \in live /\ f \in Dates!Fields
                       /\ links'[f] = links[f] /\ warned'[f] = warned[f]
  BY <1>1 DEF DateFacts
<1>3. \A f \in Dates!Fields : links'[f] \subseteq DOMAIN inputs[Dates!Kind(f)]
  BY <1>1 DEF DateFacts
<1> QED
  BY <1>1, <1>2, <1>3 DEF DateFacts, Dates!ShortcutsServeTheirField

\* A box only writes dates and hours, into a field of its kind.
LEMMA WriteKeeps ==
    ASSUME DateFacts, NEW k \in BoxKinds, NEW n \in DOMAIN inputs[k], NEW t \in Texts,
           Dates!Write(k, n, t)
    PROVE  entered' \in [Dates!Fields -> Texts]
<1>1. inputs[k] \in Seq(Dates!Fields)
  BY DEF DateFacts
<1>2. inputs[k][n] \in Dates!Fields
  BY <1>1
<1> QED
  BY <1>2 DEF DateFacts, Dates!Write

\* Every use of the boxes writes texts and turns the calendars to months.
LEMMA UseKeeps ==
    ASSUME DateFacts, Dates!Use
    PROVE  /\ UNCHANGED Dates!page
           /\ cal' \in Seq(Months) /\ Len(cal') = Len(cal)
           /\ entered' \in [Dates!Fields -> Texts]
<1> DEFINE Keeps == /\ UNCHANGED Dates!page
                    /\ cal' \in Seq(Months) /\ Len(cal') = Len(cal)
                    /\ entered' \in [Dates!Fields -> Texts]
<1>0. /\ Dates!DatesAssumption /\ "clock" \in BoxKinds /\ "calendar" \in BoxKinds
      /\ cal \in Seq(Months) /\ entered \in [Dates!Fields -> Texts]
      /\ inputs["calendar"] \in Seq(Dates!Fields)
      /\ DOMAIN cal = DOMAIN inputs["calendar"]
  BY WebAssumption DEF WebAssumption, DateFacts, BoxKinds
<1>1. UNCHANGED <<cal, entered>> /\ UNCHANGED Dates!page => Keeps
  BY <1>0
<1>2. CASE Dates!Escape \/ Dates!ClickOutside \/ \E b \in open : Dates!Cancel(b)
  BY <1>1, <1>2 DEF Dates!Escape, Dates!ClickOutside, Dates!Cancel
<1>3. ASSUME NEW f \in live \intersect DateFieldsOf, NEW t \in Typed, Dates!Type(f, t) PROVE Keeps
  <2>1. t \in Texts
    BY <1>0 DEF Dates!DatesAssumption, Texts
  <2>2. f \in Dates!Fields
    BY DEF Dates!Fields
  <2> QED
    BY <1>0, <1>3, <2>1, <2>2 DEF Dates!Type
<1>4. ASSUME NEW n, Dates!openClock(n) PROVE Keeps
  BY <1>1, <1>4 DEF Dates!openClock
<1>5. ASSUME NEW f \in DateFieldsOf, NEW n \in links[f], Dates!openCalendar(n) PROVE Keeps
  <2>1. n \in DOMAIN inputs["calendar"]
    <3>1. f \in Dates!Fields /\ Dates!Kind(f) = "calendar"
      BY <1>0 DEF Dates!Fields, Dates!Kind, Dates!DatesAssumption
    <3> QED
      BY <3>1 DEF DateFacts
  <2> DEFINE t == entered[inputs["calendar"][n]]
  <2>2. UNCHANGED Dates!page /\ UNCHANGED entered
    BY <1>5 DEF Dates!openCalendar
  <2>3. t \in Texts
    BY <1>0, <2>1
  <2>4. CASE Dates!IsDate(t)
    <3> DEFINE c == [month |-> Dates!Date(t)[2], year |-> Dates!Date(t)[1]]
    <3>1. cal' = [cal EXCEPT ![n] = c]
      BY <1>5, <2>4 DEF Dates!openCalendar
    <3>2. t \in Int \X Int \X (0 .. 99)
      <4>1. Len(t) = 3
        BY <2>4 DEF Dates!IsDate
      <4>2. t # <<>> /\ \A h \in Int : t # <<h>>
        BY <4>1
      <4> QED
        BY <2>3, <4>2 DEF Texts
    <3>3. c \in Months
      BY <3>2, DateIs DEF Months
    <3> HIDE DEF c
    <3>4. cal' \in Seq(Months) /\ Len(cal') = Len(cal)
      BY <1>0, <2>1, <3>1, <3>3
    <3> QED
      BY <1>0, <2>2, <3>4
  <2>5. CASE ~Dates!IsDate(t)
    BY <1>1, <1>5, <2>2, <2>5 DEF Dates!openCalendar
  <2> QED
    BY <2>4, <2>5
<1>6. ASSUME NEW n \in DOMAIN inputs["clock"], NEW val \in {-1, 0, 12}, Dates!handleClockQuicklink(n, val)
      PROVE  Keeps
  <2>1. Dates!Write("clock", n, <<val>>) /\ UNCHANGED Dates!page /\ UNCHANGED cal
    BY <1>6 DEF Dates!handleClockQuicklink
  <2>2. <<val>> \in Texts
    BY DEF Texts
  <2> QED
    BY <1>0, <2>1, <2>2, WriteKeeps
<1>7. ASSUME NEW n \in DOMAIN inputs["calendar"], NEW offset \in (-1) .. 1,
             Dates!handleCalendarQuickLink(n, offset)
      PROVE  Keeps
  <2>1. Dates!Write("calendar", n, Dates!now(offset)) /\ UNCHANGED Dates!page /\ UNCHANGED cal
    BY <1>7 DEF Dates!handleCalendarQuickLink
  <2>2. Dates!now(offset) \in Int \X (1 .. 12) \X (1 .. 31)
    BY <1>0, NowIs
  <2>3. Dates!now(offset) \in Texts
    BY <2>2 DEF Texts
  <2> QED
    BY <1>0, <2>1, <2>3, WriteKeeps
<1>8. ASSUME NEW n \in DOMAIN inputs["calendar"], NEW d \in {1, 28, 29, 31},
             Dates!handleCalendarCallback(n, d)
      PROVE  Keeps
  <2> DEFINE t == Dates!Date(<<cal[n].year, cal[n].month, d>>)
  <2>1. Dates!Write("calendar", n, t) /\ UNCHANGED Dates!page /\ UNCHANGED cal
    BY <1>8 DEF Dates!handleCalendarCallback
  <2>2. cal[n] \in Months
    BY <1>0
  <2>3. t \in Texts
    <3>1. <<cal[n].year, cal[n].month, d>> \in Int \X Int \X (0 .. 99)
      BY <2>2 DEF Months
    <3>2. t \in Int \X (1 .. 12) \X (1 .. 31)
      BY <3>1, DateIs
    <3> HIDE DEF t
    <3> QED
      BY <3>2 DEF Texts
  <2> HIDE DEF t
  <2> QED
    BY <1>0, <2>1, <2>3, WriteKeeps
<1>9. ASSUME NEW n \in DOMAIN inputs["calendar"],
             Dates!drawPreviousMonth(n) \/ Dates!drawNextMonth(n)
      PROVE  Keeps
  <2>1. cal[n] \in Months
    BY <1>0
  <2>2. PICK to \in Int \X (1 .. 12) : Dates!Turn(n, to)
    BY <1>9, <2>1, MonthsTurn DEF Dates!drawPreviousMonth, Dates!drawNextMonth
  <2> DEFINE c == [cal[n] EXCEPT !.year = to[1], !.month = to[2]]
  <2>3. cal' = [cal EXCEPT ![n] = c] /\ UNCHANGED Dates!page /\ UNCHANGED entered
    BY <1>0, <2>2 DEF Dates!Turn
  <2>4. c \in Months
    BY <2>1 DEF Months
  <2> HIDE DEF c
  <2>5. cal' \in Seq(Months) /\ Len(cal') = Len(cal)
    BY <1>0, <2>3, <2>4
  <2> QED
    BY <1>0, <2>3, <2>5
<1> QED
  BY <1>2, <1>3, <1>4, <1>5, <1>6, <1>7, <1>8, <1>9 DEF Dates!Use

LEMMA DatesKeep == DateFacts /\ [Next]_vars => DateFacts'
<1> SUFFICES ASSUME DateFacts, [Next]_vars PROVE DateFacts'
  OBVIOUS
<1>1. CASE UNCHANGED dateVars
  BY <1>1 DEF dateVars, DateFacts, Dates!ShortcutsServeTheirField
<1>2. CASE Dates!Next
  <2>1. CASE Dates!Load
    BY <2>1, DatesLoadKeeps
  <2>2. CASE Dates!AddRow
    BY <2>2, AddKeepsDates
  <2>3. CASE Dates!RemoveRow
    BY <2>3, RemoveKeepsDates
  <2>4. CASE Dates!Use
    <3>1. /\ UNCHANGED <<live, inputs, links, warned>>
          /\ cal' \in Seq(Months) /\ Len(cal') = Len(cal) /\ entered' \in [Dates!Fields -> Texts]
      BY <2>4, UseKeeps DEF Dates!page
    <3> QED
      BY <3>1 DEF DateFacts, Dates!ShortcutsServeTheirField
  <2> QED
    BY <1>2, <2>1, <2>2, <2>3, <2>4 DEF Dates!Next, Dates!Ops
<1> QED
  BY <1>1, <1>2 DEF Next, vars

LEMMA DatesInvariant == Spec => []DateFacts
<1> QED
  BY DatesStart, DatesKeep, PTL DEF Spec

(* However the rows come and go, a shortcut next to a field leads to the   *)
(* one box that writes into this field, and at most one warning stands     *)
(* there: for any fields, any row and any use of the boxes.                *)
THEOREM ShortcutsStayRight == Spec => []ShortcutsServeTheirField
<1>1. DateFacts => ShortcutsServeTheirField
  BY DEF DateFacts, ShortcutsServeTheirField
<1> QED
  BY <1>1, DatesInvariant, PTL

(* Every calendar that is ever drawn has all the days of its month, none   *)
(* missing between one month and the next, and puts them under their       *)
(* weekdays, whichever day a week begins with: in all years, leap years    *)
(* of the Gregorian calendar included, but the weekdays not in the years 0 *)
(* to 99, which new Date() takes for those of the twentieth century.       *)
THEOREM CalendarsAreRight == Spec => []DaysUnderTheirWeekday
<1>1. ASSUME DateFacts PROVE DaysUnderTheirWeekday
  <2> SUFFICES ASSUME NEW n \in DOMAIN cal
               PROVE  LET y == cal[n].year
                          m == cal[n].month
                          days == Dates!getDaysInMonth(m, y)
                          next == Dates!NextMonth(y, m)
                      IN  /\ m \in 1 .. 12
                          /\ y \notin 0 .. 99 => \A d \in 1 .. days :
                                Dates!Header(y, m, d) = Dates!Weekday(Dates!DayNumber(y, m, d))
                          /\ Dates!DayNumber(y, m, days) + 1 = Dates!DayNumber(next[1], next[2], 1)
    BY DEF DaysUnderTheirWeekday, Dates!DaysUnderTheirWeekday
  <2>1. cal[n].year \in Int /\ cal[n].month \in 1 .. 12
    <3>1. cal \in Seq(Months)
      BY <1>1 DEF DateFacts
    <3>2. cal[n] \in Months
      BY <3>1
    <3> QED
      BY <3>2 DEF Months
  <2>2. cal[n].year \notin 0 .. 99 =>
          \A d \in Int : Dates!Header(cal[n].year, cal[n].month, d)
                          = Dates!Weekday(Dates!DayNumber(cal[n].year, cal[n].month, d))
    BY <2>1, RightColumn, WebAssumption DEF WebAssumption
  <2> DEFINE y == cal[n].year
             m == cal[n].month
             days == Dates!getDaysInMonth(m, y)
             next == Dates!NextMonth(y, m)
  <2> HIDE DEF y, m
  <2>3. days \in 28 .. 31 /\ Dates!DayNumber(y, m, days) + 1 = Dates!DayNumber(next[1], next[2], 1)
    BY <2>1, MonthsFollow DEF y, m
  <2> HIDE DEF days
  <2>4. y \notin 0 .. 99 =>
          \A d \in 1 .. days : Dates!Header(y, m, d) = Dates!Weekday(Dates!DayNumber(y, m, d))
    BY <2>2, <2>3 DEF y, m
  <2> QED
    BY <2>1, <2>3, <2>4 DEF y, m, days
<1> QED
  BY <1>1, DatesInvariant, PTL
===============================================================================
