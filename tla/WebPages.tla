------------------------------- MODULE WebPages -------------------------------
(***************************************************************************)
(* The scripted pages of the message server's web site, one browser tab    *)
(* each: the change list and three kinds of change form of the Django      *)
(* admin, and the API explorer of the REST framework.  What the scripts of *)
(* a page keep is gone with the page, so a tab is the page it shows.       *)
(***************************************************************************)
EXTENDS Integers, Sequences

CONSTANTS N,                                             \* see Changelist
          MaxForms, Initial, Adds, Events,               \* see Inlines
          Options, Saved, NewOption, Holds,              \* see FilterForm
          Titles, Removed, MaxLength, Objects,           \* see FieldForm
          TimeFields, DateFieldsOf, RowFields, Rebuilds, \* see DateFields
          FirstDayOfWeek, Today, ServerDay, Mismatch, Typed,
          Links, Auths, MaxRequests                      \* see RestClient

VARIABLE page     \* what the tab shows

VARIABLES checked, lit, toggle, across, shown, barLit, lastChecked, listChanged, restored
C == INSTANCE Changelist

VARIABLES rows, index, label, total, nextIndex, addShown, added
Form == INSTANCE Inlines

VARIABLES cache, box, sel, words, active, fid, popup, made, sent, act, uses
Filters == INSTANCE FilterForm

VARIABLES title, slug, changed, bound, dep, options, value, href, raw, popups, closed, renamed
Fields == INSTANCE FieldForm

VARIABLES live, inputs, links, warned, open, listening, cal, entered, rebuilds
Dates == INSTANCE DateFields WITH value <- entered

VARIABLES auth, cookie, responseDisplay, requests, line, status, data, awaiting, panels, toggles
Rest == INSTANCE RestClient

ASSUME WebAssumption ==
    /\ C!NAssumption /\ Form!InlinesAssumption /\ Filters!FilterAssumption
    /\ Dates!DatesAssumption /\ Rest!RestAssumption

listVars   == <<checked, lit, toggle, across, shown, barLit, lastChecked, listChanged, restored>>
rowVars    == <<rows, index, label, total, nextIndex, addShown, added>>
filterVars == <<cache, box, sel, words, active, fid, popup, made, sent, act>>
fieldVars  == <<title, slug, changed, bound, dep, options, value, href, raw, popups, closed, renamed>>
dateVars   == <<live, inputs, links, warned, open, listening, cal, entered, rebuilds>>
restVars   == <<auth, cookie, responseDisplay, requests, line, status, data, awaiting, panels, toggles>>
vars       == <<page, listVars, rowVars, filterVars, fieldVars, dateVars, restVars, uses>>

Init ==
    /\ page \in {"list", "filters", "fields", "dates", "explorer"}
    /\ C!Init /\ Filters!Init /\ Fields!Init /\ Dates!Init /\ Rest!Init
    /\ page # "explorer" => cookie

Next ==
    \/ /\ page = "list" /\ C!Next
       /\ UNCHANGED <<page, rowVars, filterVars, fieldVars, dateVars, restVars, uses>>
    \/ /\ page = "filters" /\ Filters!Next
       /\ UNCHANGED <<page, listVars, fieldVars, dateVars, restVars>>
    \/ /\ page = "fields" /\ Fields!Next
       /\ UNCHANGED <<page, listVars, filterVars, dateVars, restVars>>
    \/ /\ page = "dates" /\ Dates!Next
       /\ UNCHANGED <<page, listVars, rowVars, filterVars, fieldVars, restVars>>
    \/ /\ page = "explorer" /\ Rest!Next
       /\ UNCHANGED <<page, listVars, rowVars, filterVars, fieldVars, dateVars, uses>>

Spec == Init /\ [][Next]_vars /\ Rest!Fairness

-----------------------------------------------------------------------------
(* Promises of the pages, stated and explained in their modules. *)
BarAgreesWithRows        == C!BarAgreesWithRows
AcrossIsAnnounced        == C!AcrossIsAnnounced
FormsContiguous          == Form!FormsContiguous
EachOptionOnce           == Filters!EachOptionOnce
SubmittedIsShown         == Filters!SubmittedIsShown
OwnRowMoves              == Filters!OwnRowMoves
PopupFillsItsField       == Fields!PopupFillsItsField
SlugFollowsTitle         == Fields!SlugFollowsTitle
LinksFollowSelection     == Fields!LinksFollowSelection
OpenBoxCanBeDismissed    == Dates!OpenBoxCanBeDismissed
ShortcutsServeTheirField == Dates!ShortcutsServeTheirField
DaysUnderTheirWeekday    == Dates!DaysUnderTheirWeekday
ShownTogether            == Rest!ShownTogether
ParametersPlaced         == Rest!ParametersPlaced
EveryAnswerIsShown       == Rest!EveryAnswerIsShown
=============================================================================
