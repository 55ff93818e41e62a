SPECIFICATION Spec
CONSTANTS
    Theme = {fox, paper}
    DefaultTheme = fox
    NoTheme = NoTheme
    TFile = {waybar}
    Special = {waybar}
    Sentinel = hypr
    NoFile = NoFile
    Faults = {"render", "stamp", "snapshot", "copy", "publish", "kill"}
    Offered = {{"symlinks", "specials", "post_install"}, {"symlinks", "post_install"}, {"specials"}, {}}
    MaxRuns = 2
    MaxRev = 0
    MaxEdits = 1
PROPERTIES
    OverwrittenIsSaved
    UnattendedSparesEdits
    RecordedThemeIsLive
