SPECIFICATION Spec
CONSTANTS
    Theme = {fox}
    DefaultTheme = fox
    NoTheme = NoTheme
    TFile = {waybar}
    Special = {}
    Sentinel = hypr
    NoFile = NoFile
    Faults = {}
    Offered = {{"symlinks", "post_install"}, {}}
    MaxRuns = 1
    MaxRev = 0
    MaxEdits = 0
PROPERTIES
    KeepMineKeepsTheFile
