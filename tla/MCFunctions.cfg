SPECIFICATION Spec
CONSTANTS
    None = None
    Moods = {"happy", "lonely", "errory", "scary"}
    Radix = 2
    ShortSizes = 2
    LongSizes = 3
    MaxLength = 3
    OtherDigits = {arabic1}
    Others = {lf, dash}
    LineFeed = lf
    Exhausted = Exhausted
    V4Hosts = {"1.2.3.4", "5.6.7.8"}
    V6Fields = {"1", "2600"}
    Unlimited = 2000000
    Limits = {256, 1024, 3200, 4096, 7168, 10240, 1048576}
    MaxNumber = 10
    Text = {"", "a", "b"}
    EmptyText = ""
    Number = {0, 60}
    NotGiven = NotGiven
    NameOrder <- MCNameOrder
    VersionNames <- MCVersionNames
    DigitNames <- MCDigitNames
    Commits = {"abc", "def"}
    Distances = {0, 1}
    Directories <- MCDirectories
    Garbled = Garbled
    NoVersion = NoVersion
    Raised = Raised
CHECK_DEADLOCK FALSE
INVARIANTS
    UsageTimesTell
    UsageIsBlurred
    UsageTellsWorstMood
    ShortNamesFirst
    OnePlace
    RaisesLimit
    VersionsTell
    OptionsTell
