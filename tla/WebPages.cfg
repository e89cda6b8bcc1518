SPECIFICATION Spec
CONSTANTS
    N = 4
    MaxForms = 2
    Initial = {0, 1}
    Adds = 3
    Events = 3
    Options <- MCOptions
    Saved <- MCSaved
    NewOption = "n"
    Holds <- MCHolds
    Titles <- MCTitles
    Removed = {"the"}
    MaxLength = 1
    Objects = {1, 2}
    TimeFields = {t1}
    DateFieldsOf = {d1, d2}
    RowFields = {d2}
    Rebuilds = 1
    FirstDayOfWeek = 1
    Today <- MCToday
    ServerDay = 1
    Mismatch = TRUE
    Typed <- MCTyped
    Links <- MCLinks
    Auths = {"none", "session"}
    MaxRequests = 2
INVARIANTS
    BarAgreesWithRows
    AcrossIsAnnounced
    FormsContiguous
    EachOptionOnce
    SubmittedIsShown
    SlugFollowsTitle
    LinksFollowSelection
    OpenBoxCanBeDismissed
    ShortcutsServeTheirField
    DaysUnderTheirWeekday
    ShownTogether
    ParametersPlaced
PROPERTIES
    OwnRowMoves
    PopupFillsItsField
    EveryAnswerIsShown
