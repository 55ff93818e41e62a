SPECIFICATION Spec
CONSTANTS
    Theme = {fox, paper}
    DefaultTheme = fox
    NoTheme = NoTheme
    TFile = {waybar}
    Special = {}
    Sentinel = hypr
    NoFile = NoFile
    Faults = {"render"}
    Offered = {{"symlinks", "specials", "post_install"}, {}}
    MaxRuns = 3
    MaxRev = 1
    MaxEdits = 1
INVARIANTS
    Converges
