------------------------------ MODULE FilterForm ------------------------------
(***************************************************************************)
(* A change form whose inline rows each hold a multiple select turned into *)
(* a pair of boxes (admin/js/SelectFilter2.js over SelectBox.js), with the *)
(* "add another" popup (RelatedObjectLookups.js, popup_response.js).       *)
(*                                                                         *)
(* A widget's handlers keep the id it had when it was set up, and the      *)
(* caches are filed under that id, while inlines.js rewrites the ids of    *)
(* the elements whenever a row is removed.                                 *)
(***************************************************************************)
EXTENDS Integers, Sequences, Functions, Subsequence

CONSTANTS MaxForms, Initial, Adds,      \* see Inlines
    Options,      \* the options the server lists, in order (a sequence)
    Saved,        \* the sets of options a saved object may have chosen
    NewOption,    \* the object a popup may add
    Holds,        \* word -> the options whose text contains it
    Events        \* bound: uses of the widgets before the page is loaded anew

FilterAssumption ==
    /\ Options \in Seq(Range(Options)) /\ IsInjective(Options)
    /\ NewOption \notin Range(Options)

VARIABLES rows, index, label, total, nextIndex, addShown, added
Form == INSTANCE Inlines

VARIABLES
    cache,        \* id -> box -> SelectBox.cache, sequence of [value, displayed]; or None
    box,          \* form -> box -> the options in the element, in order
    sel,          \* form -> box -> the selected ones
    words,        \* form -> the words in its filter input
    active,       \* form -> the links of class "active"
    fid,          \* form -> the field id its handlers captured
    popup,        \* the open popup: [row, id its name gives], or None
    made,         \* bound: one object is added per page
    sent,         \* form -> what the browser submits, or None
    act,          \* ghost: the click that led here, [row, link], or None
    uses          \* bound: uses of the widgets so far

widgets == <<cache, box, sel, words, active, fid>>
inl     == <<rows, index, label, total, nextIndex, addShown, added>>
vars    == <<inl, widgets, popup, made, sent, act, uses>>

None  == <<>>
Boxes == {"from", "to"}
Arrows == {"add", "remove", "addAll", "removeAll"}
Ids   == 0 .. MaxForms - 1
Forms == Form!Forms
All   == Range(Options) \union {NewOption}

Other(b) == IF b = "from" THEN "to" ELSE "from"

(* The live row whose controls carry the number id, if there is one. *)
Found(id)  == { r \in Form!Live : index[r] = id }
Owner(k)   == CHOOSE r \in Found(fid[k]) : TRUE

-----------------------------------------------------------------------------
Values(c)  == [i \in DOMAIN c |-> c[i].value]
(* redisplay(): the element is rebuilt from the cache, nothing selected. *)
Displayed(c) == Values(Only(c, { n \in Range(c) : n.displayed }))

(* filter(): displayed is what contains every word. *)
Filter(c, ws) == [i \in DOMAIN c |->
    [c[i] EXCEPT !.displayed = \A w \in ws : c[i].value \in Holds[w]]]

Entries(vs) == [i \in DOMAIN vs |-> [value |-> vs[i], displayed |-> TRUE]]

\* Mutant of MoveCache: delete_from_cache() forgotten.
MoveCacheKeeps(c, b, vs) ==
    [c EXCEPT ![Other(b)] = @ \o Entries(Only(vs, Range(Values(c[b]))))]

(* move() and move_all() of the options vs of box b: in the order of the   *)
(* element, each one the cache knows goes to the end of the other cache.   *)
MoveCache(c, b, vs) ==
    LET moved == Only(vs, Range(Values(c[b])))
    IN  [c EXCEPT ![Other(b)] = @ \o Entries(moved),
                  ![b] = Only(@, { n \in Range(@) : n.value \notin Range(moved) })]

Show(c) == [b \in Boxes |-> Displayed(c[b])]
Nothing == [b \in Boxes |-> {}]

(* refresh_icons(): what the four links should be for these boxes. *)
Icons(bx, s) ==
    { l \in Arrows : CASE l = "add"       -> s["from"] # {}
                      [] l = "remove"    -> s["to"] # {}
                      [] l = "addAll"    -> bx["from"] # <<>>
                      [] l = "removeAll" -> bx["to"] # <<>> }

(* A widget set up by SelectFilter.init() on a select with these options   *)
(* chosen: all go to the cache of the left box, then the chosen ones move. *)
Fresh(chosen) ==
    MoveCache([from |-> Entries(Options), to |-> <<>>], "from",
              Only(Options, chosen))

(* The widget w after its boxes were rebuilt from cache c; clicks refresh  *)
(* the links afterwards, the keys of the filter do not.                    *)
Rebuild(w, c, refresh) ==
    /\ box' = [box EXCEPT ![w] = Show(c)]
    /\ sel' = [sel EXCEPT ![w] = Nothing]
    /\ active' = [active EXCEPT ![w] = IF refresh THEN Icons(Show(c), Nothing) ELSE @]

-----------------------------------------------------------------------------
Blank == [b \in Boxes |-> <<>>]

Init ==
    /\ Form!Init
    /\ cache = [i \in Ids |-> None] /\ box = [f \in Forms |-> Blank]
    /\ sel = [f \in Forms |-> Nothing] /\ words = [f \in Forms |-> {}]
    /\ active = [f \in Forms |-> {}] /\ fid = [f \in Forms |-> -1]
    /\ popup = None /\ made = FALSE /\ sent = None /\ act = None /\ uses = 0

(* The window's load handler: every select of the page becomes a widget,   *)
(* those of the empty form excepted.                                       *)
Load(n, chosen) ==
    /\ Form!Load(n)
    /\ LET c == Fresh(chosen) IN
        /\ cache' = [i \in Ids |-> IF i < n THEN c ELSE None]
        /\ box' = [f \in Forms |-> IF f < n THEN Show(c) ELSE Blank]
        /\ active' = [f \in Forms |-> IF f < n THEN Icons(Show(c), Nothing) ELSE {}]
    /\ sel' = [f \in Forms |-> Nothing] /\ words' = [f \in Forms |-> {}]
    /\ fid' = [f \in Forms |-> IF f < n THEN f ELSE -1]
    /\ popup' = None /\ made' = FALSE /\ sent' = None /\ act' = None /\ uses' = 0

(* "Add another": the new row's select is set up under its present id. *)
AddRow ==
    /\ Form!Add
    /\ LET k == MaxForms + added
           c == Fresh({})
       IN
        /\ cache' = [cache EXCEPT ![total] = c]
        /\ box' = [box EXCEPT ![k] = Show(c)]
        /\ active' = [active EXCEPT ![k] = Icons(Show(c), Nothing)]
        /\ fid' = [fid EXCEPT ![k] = total]
    /\ act' = None
    /\ UNCHANGED <<sel, words, popup, made, sent>>

(* The row and its widget leave the document. *)
RemoveRow(p) ==
    /\ Form!Remove(p)
    /\ LET k == rows[p] IN
        /\ box' = [box EXCEPT ![k] = Blank] /\ sel' = [sel EXCEPT ![k] = Nothing]
        /\ words' = [words EXCEPT ![k] = {}] /\ active' = [active EXCEPT ![k] = {}]
        /\ fid' = [fid EXCEPT ![k] = -1]
    /\ act' = None
    /\ UNCHANGED <<cache, popup, made, sent>>

(* The user selects options of a box; the change event refreshes the links *)
(* of the widget the captured id finds.                                    *)
Select(k, b, s) ==
    /\ s \subseteq Range(box[k][b]) /\ s # sel[k][b]
    /\ sel' = [sel EXCEPT ![k][b] = s]
    /\ active' = [f \in Forms |-> IF f \in Found(fid[k]) THEN Icons(box[f], sel'[f])
                                                         ELSE active[f]]
    /\ act' = None
    /\ UNCHANGED <<inl, cache, box, words, fid, popup, made, sent>>

(* The options of box b of row w that a click or a key is about. *)
Picked(w, b, which) ==
    IF which = "selected" THEN sel[w][b]
    ELSE { box[w][b][i] : i \in { j \in DOMAIN box[w][b] : which = "first" => j = 1 } }

\* Mutant of Move: move_all() goes through the cache, not the element.
MoveHidden(k, b, which, refresh) ==
    LET w  == Owner(k)
        vs == IF which = "all" THEN Values(cache[fid[k]][b])
              ELSE Only(box[w][b], Picked(w, b, which))
        c  == MoveCache(cache[fid[k]], b, vs)
    IN  /\ Found(fid[k]) # {}
        /\ cache' = [cache EXCEPT ![fid[k]] = c]
        /\ Rebuild(w, c, refresh)
        /\ UNCHANGED <<inl, words, fid, popup, made, sent>>

(* The boxes named after the captured id: of the displayed options of box  *)
(* b the selected ones move, or all, or the first.                         *)
Move(k, b, which, refresh) ==
    LET w  == Owner(k)
        vs == Only(box[w][b], Picked(w, b, which))
        c  == MoveCache(cache[fid[k]], b, vs)
    IN  /\ Found(fid[k]) # {}             \* else getElementById() gives null
        /\ cache' = [cache EXCEPT ![fid[k]] = c]
        /\ Rebuild(w, c, refresh)
        /\ UNCHANGED <<inl, words, fid, popup, made, sent>>

(* A click on one of the four links, if the link is active. *)
Click(k, l) ==
    /\ l \in active[k]
    /\ act' = [row |-> k, link |-> l]
    /\ \/ Move(k, IF l \in {"add", "addAll"} THEN "from" ELSE "to",
               IF l \in {"add", "remove"} THEN "selected" ELSE "all", TRUE)
       \/ /\ Found(fid[k]) = {}           \* TypeError in the handler
          /\ UNCHANGED <<inl, widgets, popup, made, sent>>

(* A double click on an option, which its first click selected: the box is *)
(* the right one only if its id is still <captured id>_to.                 *)
DoubleClick(k, b) ==
    /\ sel[k][b] # {}
    /\ act' = None
    /\ Move(k, IF b = "to" /\ index[k] = fid[k] THEN "to" ELSE "from", "selected", TRUE)

(* The keys of the filter input.  Enter and the right arrow move; what     *)
(* they and the keyup handler then assign to selectedIndex is lost, since  *)
(* redisplay() has replaced the element they hold.                         *)
KeyRight(k) == act' = None /\ Move(k, "from", "selected", FALSE)
KeyEnter(k) == act' = None /\ Move(k, "from", "first", FALSE)

(* The up and down arrows move a single selection around the left box. *)
KeyVertical(k, down) ==
    /\ Found(fid[k]) # {} /\ act' = None
    /\ LET w   == Owner(k)
           vs  == box[w]["from"]
           at  == IF sel[w]["from"] = {} THEN -1       \* selectedIndex
                  ELSE (CHOOSE i \in DOMAIN vs : /\ vs[i] \in sel[w]["from"]
                          /\ \A j \in 1 .. i - 1 : vs[j] \notin sel[w]["from"]) - 1
           new == IF down THEN IF Len(vs) = at + 1 THEN 0 ELSE at + 1
                          ELSE IF at = 0 THEN Len(vs) - 1 ELSE at - 1
       IN  sel' = [sel EXCEPT ![w]["from"] = IF new + 1 \in DOMAIN vs THEN {vs[new + 1]} ELSE {}]
    /\ UNCHANGED <<inl, cache, box, words, active, fid, popup, made, sent>>

(* keyup: the text just typed is read, and the box filtered, through the   *)
(* captured id.                                                            *)
Type(k, ws) ==
    /\ act' = None
    /\ words' = [words EXCEPT ![k] = ws]
    /\ IF Found(fid[k]) = {} THEN UNCHANGED <<cache, box, sel, active>>
       ELSE LET w == Owner(k)
                c == [cache[fid[k]] EXCEPT !["from"] = Filter(@, words'[w])]
            IN  /\ cache' = [cache EXCEPT ![fid[k]] = c]
                /\ box' = [box EXCEPT ![w]["from"] = Displayed(c["from"])]
                /\ sel' = [sel EXCEPT ![w]["from"] = {}]
                /\ UNCHANGED active
    /\ UNCHANGED <<inl, fid, popup, made, sent>>

(* The link "add another": the popup is named after the link's id. *)
OpenPopup(k) ==
    /\ popup = None /\ ~made
    /\ popup' = [row |-> k, id |-> index[k]]
    /\ act' = None
    /\ UNCHANGED <<inl, widgets, made, sent>>

(* dismissAddRelatedObjectPopup(): no element has the bare id any more, so *)
(* the object joins the right box of that name; without one, TypeError.    *)
ClosePopup ==
    /\ popup # None
    /\ LET i == popup.id
           c == [cache[i] EXCEPT !["to"] = @ \o Entries(<<NewOption>>)]
       IN  /\ cache' = [cache EXCEPT ![i] = c]
           /\ box' = [f \in Forms |-> IF f \in Found(i)
                        THEN [box[f] EXCEPT !["to"] = Displayed(c["to"])] ELSE box[f]]
           /\ sel' = [f \in Forms |-> IF f \in Found(i)
                        THEN [sel[f] EXCEPT !["to"] = {}] ELSE sel[f]]
    /\ popup' = None /\ made' = TRUE /\ act' = None
    /\ UNCHANGED <<inl, words, active, fid, sent>>

\* Mutant of Submit: the handler goes when its row does.
SubmitOwn ==
    /\ rows # <<>> /\ act' = None
    /\ LET ever == { fid[f] : f \in Form!Live }
           all(f) == f \in Form!Live /\ index[f] \in ever
       IN  sel' = [f \in Forms |->
                     IF all(f) THEN [sel[f] EXCEPT !["to"] = Range(box[f]["to"])] ELSE sel[f]]
    /\ sent' = [f \in Forms |-> sel'[f]["to"]]
    /\ UNCHANGED <<inl, cache, box, words, active, fid, popup, made>>

(* Submit: a handler per widget ever set up, those of removed rows still   *)
(* among them, selects all of the right box that has its id.               *)
Submit ==
    /\ rows # <<>> /\ act' = None
    /\ LET ever == { i \in Ids : cache[i] # None }
           all(f) == f \in Form!Live /\ index[f] \in ever
       IN  sel' = [f \in Forms |->
                     IF all(f) THEN [sel[f] EXCEPT !["to"] = Range(box[f]["to"])] ELSE sel[f]]
    /\ sent' = [f \in Forms |-> sel'[f]["to"]]
    /\ UNCHANGED <<inl, cache, box, words, active, fid, popup, made>>

Use(k) ==
    \/ \E b \in Boxes : DoubleClick(k, b) \/ \E s \in SUBSET All : Select(k, b, s)
    \/ \E l \in Arrows : Click(k, l)
    \/ KeyRight(k) \/ KeyEnter(k) \/ \E down \in BOOLEAN : KeyVertical(k, down)
    \/ \E ws \in SUBSET DOMAIN Holds : Type(k, ws)

Ops ==
    /\ sent = None
    /\ \/ /\ AddRow \/ ClosePopup \/ Submit \/ \E p \in DOMAIN rows : RemoveRow(p)
             \/ \E k \in Form!Live : OpenPopup(k)
          /\ UNCHANGED uses
       \/ /\ uses < Events
          /\ \E k \in Form!Live : Use(k)
          /\ uses' = uses + 1

Loads == \E n \in Initial, chosen \in Saved : Load(n, chosen)
Next  == Loads \/ Ops
Spec  == Init /\ [][Next]_vars

-----------------------------------------------------------------------------
(* In a row with the number it was set up with, every option is in exactly *)
(* one of the two caches, once, and an object a popup added at most once,  *)
(* whatever rows went before; what the element shows is what its cache     *)
(* holds, for the left box without the options filtered out.               *)
EachOptionOnce ==
    \A r \in Form!Live : fid[r] = index[r] =>
        LET c  == cache[index[r]]
            vs == Values(c["from"] \o c["to"])
        IN  /\ Range(Options) \subseteq Range(vs) /\ Len(vs) <= Len(Options) + 1
            /\ IsInjective(vs)
            /\ \A b \in Boxes : box[r][b] = Displayed(c[b])
            /\ Values(c["to"]) = box[r]["to"]

(* The form the browser sends holds, for every row that is left, exactly   *)
(* the options its right box shows: no handler misses a row, whatever was  *)
(* removed and numbered anew in between.                                   *)
SubmittedIsShown ==
    sent # None => \A r \in Form!Live : sent[r] = Range(box[r]["to"])

(* A click on a link of row k moves, in that row, what the user sees: the  *)
(* arrows the selected options, the "all" links the displayed ones.        *)
MovesWhatIsSeen(k, l) ==
    LET b   == IF l \in {"add", "addAll"} THEN "from" ELSE "to"
        out == IF l \in {"add", "remove"} THEN sel[k][b] ELSE Range(box[k][b])
    IN  /\ Range(box'[k][Other(b)]) = Range(box[k][Other(b)]) \union out
        /\ Range(box'[k][b]) = Range(box[k][b]) \ out
        /\ \A f \in Form!Live \ {k} : box'[f] = box[f]

(* It does - "You may choose some by selecting them in the box below and   *)
(* then clicking the "Choose" arrow" (SelectFilter2.js:53) - as long as    *)
(* the row has the number it was set up with, and fails afterwards: the    *)
(* handler moves options of the row that has the number now, or ends in a  *)
(* TypeError if none has.                                                  *)
OwnRowMoves ==
    [][act' # None => \/ fid[act'.row] # index[act'.row]
                      \/ MovesWhatIsSeen(act'.row, act'.link)]_vars
=============================================================================
