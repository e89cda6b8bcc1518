------------------------------ MODULE FieldForm ------------------------------
(***************************************************************************)
(* A change form whose inline rows each hold a title, a slug filled in     *)
(* from it (prepopulate.js, urlify.js), a select of related objects with   *)
(* the links that add, change and delete one in a popup, and a raw id      *)
(* field with its lookup popup (RelatedObjectLookups.js,                   *)
(* popup_response.js, cancel.js).                                          *)
(*                                                                         *)
(* A popup carries the id of its field in its name, and the slug's handler *)
(* keeps the id of the title; inlines.js rewrites the ids in the document  *)
(* whenever a row is removed.                                              *)
(***************************************************************************)
EXTENDS Integers, Sequences, Functions, Subsequence

CONSTANTS MaxForms, Initial, Adds,      \* see Inlines
    Titles,       \* the titles a user types, sequences of words
    Removed,      \* the English words URLify() removes
    MaxLength,    \* maxlength of the slug, in words
    Objects,      \* primary keys of related objects, positive numbers
    Events        \* bound: uses of the fields before the page is loaded anew

VARIABLES rows, index, label, total, nextIndex, addShown, added
Form == INSTANCE Inlines

VARIABLES
    title,        \* form -> text of the title, a sequence of words
    slug,         \* form -> text of the slug
    changed,      \* form -> the slug's _changed
    bound,        \* form -> the title's events run populate()
    dep,          \* form -> the id by which populate() finds the title
    options,      \* form -> the objects its select offers
    value,        \* form -> the object selected, 0 for none
    href,         \* form -> the object its change and delete links point to
    raw,          \* form -> the ids in the raw id field
    popups,       \* open windows: [row, field, id, kind, object]
    closed,       \* ghost: the popup whose answer led here, or None
    renamed,      \* ghost: a popup changed an object's key on this page
    uses          \* bound: uses of the fields so far

slugs   == <<title, slug, changed, bound, dep>>
related == <<options, value, href, raw>>
inl     == <<rows, index, label, total, nextIndex, addShown, added>>
vars    == <<inl, slugs, related, popups, closed, renamed, uses>>

None  == <<>>
Forms == Form!Forms
Found(id) == { r \in Form!Live : index[r] = id }

(* URLify(): the removed words go, what is left is joined and cut. *)
URLify(text) ==
    LET kept == Only(text, Range(text) \ Removed)
    IN  IF Len(kept) > MaxLength THEN SubSeq(kept, 1, MaxLength) ELSE kept

-----------------------------------------------------------------------------
Zero == [f \in Forms |-> 0]

Init ==
    /\ Form!Init
    /\ title = [f \in Forms |-> <<>>] /\ slug = [f \in Forms |-> <<>>]
    /\ changed = [f \in Forms |-> FALSE] /\ bound = [f \in Forms |-> FALSE]
    /\ dep = [f \in Forms |-> -1]
    /\ options = [f \in Forms |-> {}] /\ value = Zero /\ href = Zero
    /\ raw = [f \in Forms |-> <<>>]
    /\ popups = {} /\ closed = None /\ renamed = FALSE /\ uses = 0

(* The page with n forms, saved objects with a title or empty ones; the    *)
(* selects offer one object, the rest are made in popups.  A slug is only  *)
(* tied to its title while empty.                                          *)
Load(n, saved) ==
    /\ Form!Load(n)
    /\ LET text == IF saved THEN CHOOSE t \in Titles : URLify(t) # <<>> ELSE <<>> IN
        /\ title' = [f \in Forms |-> IF f < n THEN text ELSE <<>>]
        /\ slug' = [f \in Forms |-> IF f < n THEN URLify(text) ELSE <<>>]
        /\ bound' = [f \in Forms |-> f < n /\ URLify(text) = <<>>]
    /\ changed' = [f \in Forms |-> FALSE]
    /\ dep' = [f \in Forms |-> IF f < n THEN f ELSE -1]
    /\ options' = [f \in Forms |-> {CHOOSE o \in Objects : TRUE}] /\ value' = Zero /\ href' = Zero
    /\ raw' = [f \in Forms |-> <<>>]
    /\ popups' = {} /\ closed' = None /\ renamed' = FALSE /\ uses' = 0

(* "Add another": initPrepopulatedFields() ties the slug to the id the     *)
(* title has now; the clone is as empty as the template.                   *)
AddRow ==
    /\ Form!Add
    /\ LET k == MaxForms + added
       IN  dep' = [dep EXCEPT ![k] = total] /\ bound' = [bound EXCEPT ![k] = TRUE]
    /\ closed' = None
    /\ UNCHANGED <<title, slug, changed, related, popups, renamed, uses>>

RemoveRow(p) ==
    /\ Form!Remove(p)
    /\ closed' = None
    /\ UNCHANGED <<slugs, related, popups, renamed, uses>>

\* Mutant of TypeTitle: a slug that is not empty any more is left alone.
TypeTitleOnce(k, t) ==
    /\ title' = [title EXCEPT ![k] = t]
    /\ slug' = IF bound[k] /\ slug[k] = <<>> /\ Found(dep[k]) # {}
                 THEN [slug EXCEPT ![k] = URLify(title'[CHOOSE r \in Found(dep[k]) : TRUE])]
                 ELSE slug
    /\ UNCHANGED <<inl, changed, bound, dep, related, popups, renamed>>

(* The user types a title (or only focuses it: t is what it was); the      *)
(* handler of the row's slug reads the title of the id it kept.            *)
TypeTitle(k, t) ==
    /\ title' = [title EXCEPT ![k] = t]
    /\ slug' = IF bound[k] /\ ~changed[k] /\ Found(dep[k]) # {}
                 THEN [slug EXCEPT ![k] = URLify(title'[CHOOSE r \in Found(dep[k]) : TRUE])]
                 ELSE slug
    /\ UNCHANGED <<inl, changed, bound, dep, related, popups, renamed>>

(* The user types a slug of his own. *)
TypeSlug(k, t) ==
    /\ slug' = [slug EXCEPT ![k] = t]
    /\ changed' = [changed EXCEPT ![k] = TRUE]
    /\ UNCHANGED <<inl, title, bound, dep, related, popups, renamed>>

(* A selection; updateRelatedObjectLinks() sets or removes the hrefs. *)
SelectObject(k, o) ==
    /\ o \in options[k] \union {0} /\ o # value[k]
    /\ value' = [value EXCEPT ![k] = o]
    /\ href' = [href EXCEPT ![k] = o]
    /\ UNCHANGED <<inl, slugs, options, raw, popups, renamed>>

(* A link opens a window named after the id of its field; a window of that *)
(* name is used again.                                                     *)
Open(k, field, kind) ==
    /\ kind \in {"change", "delete"} => href[k] # 0
    /\ (field = "raw") = (kind = "lookup")
    /\ popups' = { w \in popups : <<w.field, w.id>> # <<field, index[k]>> }
                   \union {[row |-> k, field |-> field, id |-> index[k],
                            kind |-> kind, object |-> href[k]]}
    /\ UNCHANGED <<inl, slugs, related, renamed>>

(* The cancel link of a popup. *)
Cancel(w) == popups' = popups \ {w} /\ UNCHANGED <<inl, slugs, related, renamed>>

(* The object selected once old left the options for new (0: nothing). *)
Reselect(v, old, new) == IF v = old THEN new ELSE v

(* The popup's page calls its opener with the object o the user chose,     *)
(* added or changed the object to; the field is looked up by the name.     *)
(* Nothing is found once the row is gone: the call ends in a TypeError and *)
(* a lookup stays open, the pages of the other kinds are done with.        *)
DismissLookup(w, o) ==
    /\ w.kind = "lookup"
    /\ raw' = [f \in Forms |-> IF f \in Found(w.id) THEN Append(raw[f], o) ELSE raw[f]]
    /\ UNCHANGED <<options, value, href, renamed>>

\* Mutant of DismissAdd: the new option is not selected.
DismissAddUnselected(w, o) ==
    /\ w.kind = "add" /\ \A f \in Forms : o \notin options[f]
    /\ options' = [f \in Forms |-> options[f] \union IF f \in Found(w.id) THEN {o} ELSE {}]
    /\ UNCHANGED <<value, href, raw, renamed>>

DismissAdd(w, o) ==
    /\ w.kind = "add" /\ \A f \in Forms : o \notin options[f]
    /\ options' = [f \in Forms |-> options[f] \union IF f \in Found(w.id) THEN {o} ELSE {}]
    /\ value' = [f \in Forms |-> IF f \in Found(w.id) THEN o ELSE value[f]]
    /\ href'  = [f \in Forms |-> IF f \in Found(w.id) THEN o ELSE href[f]]
    /\ UNCHANGED <<raw, renamed>>

(* Only options that show the object get its new key: no event, no href. *)
DismissChange(w, o) ==
    /\ w.kind = "change"
    /\ o = w.object \/ \A f \in Forms : o \notin options[f]
    /\ LET hit(f) == f \in Found(w.id) /\ w.object \in options[f] IN
        /\ options' = [f \in Forms |->
              IF hit(f) THEN (options[f] \ {w.object}) \union {o} ELSE options[f]]
        /\ value' = [f \in Forms |->
              IF hit(f) THEN Reselect(value[f], w.object, o) ELSE value[f]]
    /\ renamed' = (renamed \/ o # w.object)
    /\ UNCHANGED <<href, raw>>

\* Mutant of DismissDelete: no change event, the links stay.
DismissDeleteQuietly(w) ==
    /\ w.kind = "delete"
    /\ options' = [f \in Forms |-> options[f] \ IF f \in Found(w.id) THEN {w.object} ELSE {}]
    /\ value' = [f \in Forms |->
          IF f \in Found(w.id) THEN Reselect(value[f], w.object, 0) ELSE value[f]]
    /\ UNCHANGED <<href, raw, renamed>>

(* The option goes, the change event bubbles to the select and its links. *)
DismissDelete(w) ==
    /\ w.kind = "delete"
    /\ options' = [f \in Forms |-> options[f] \ IF f \in Found(w.id) THEN {w.object} ELSE {}]
    /\ value' = [f \in Forms |->
          IF f \in Found(w.id) THEN Reselect(value[f], w.object, 0) ELSE value[f]]
    /\ href' = [f \in Forms |-> IF f \in Found(w.id) THEN value'[f] ELSE href[f]]
    /\ UNCHANGED <<raw, renamed>>

Dismiss(w) ==
    /\ \/ DismissDelete(w)
       \/ \E o \in Objects : DismissLookup(w, o) \/ DismissAdd(w, o) \/ DismissChange(w, o)
    /\ popups' = IF w.kind = "lookup" /\ Found(w.id) = {} THEN popups ELSE popups \ {w}
    /\ UNCHANGED <<inl, slugs>>

Use ==
    \/ /\ closed' = None
       /\ \/ \E k \in Form!Live :
               \/ \E t \in Titles : TypeTitle(k, t) \/ TypeSlug(k, URLify(t))
               \/ \E o \in Objects \union {0} : SelectObject(k, o)
               \/ \E kind \in {"add", "change", "delete"} : Open(k, "select", kind)
               \/ Open(k, "raw", "lookup")
          \/ \E w \in popups : Cancel(w)
    \/ \E w \in popups : Dismiss(w) /\ closed' = w

Ops ==
    \/ AddRow
    \/ \E p \in DOMAIN rows : RemoveRow(p)
    \/ uses < Events /\ Use /\ uses' = uses + 1

Loads == \E n \in Initial, saved \in BOOLEAN : Load(n, saved)
Next  == Loads \/ Ops
Spec  == Init /\ [][Next]_vars

-----------------------------------------------------------------------------
(* The answer of a popup reaches the field it was opened from and no other *)
(* row, unless a removal renumbered the rows in the meantime.              *)
PopupFillsItsField ==
    [][closed' # None /\ index[closed'.row] = closed'.id
         => /\ \A f \in Forms \ {closed'.row} :
                 <<options'[f], value'[f], raw'[f]>> = <<options[f], value[f], raw[f]>>
            /\ closed'.kind = "add" =>
                 options'[closed'.row] \ options[closed'.row] = {value'[closed'.row]}
            /\ closed'.kind = "lookup" => Len(raw'[closed'.row]) > Len(raw[closed'.row])]_vars

(* A slug the user never touched is the one of its own row's title, unless *)
(* a removal took away the id by which the title is read.                  *)
SlugFollowsTitle ==
    \A r \in Form!Live :
        bound[r] /\ ~changed[r] /\ dep[r] = index[r] => slug[r] = URLify(title[r])

(* The links change and delete the object that is selected, unless a popup *)
(* gave an object another key.                                             *)
LinksFollowSelection ==
    \A r \in Form!Live : ~renamed => href[r] = value[r] /\ value[r] \in options[r] \union {0}
=============================================================================
