SPECIFICATION Spec
CONSTANTS
    detect = detect
    render = render
    symlinks = symlinks
    vault = vault
    sudo_fingerprint = sudo_fingerprint
    greetd_fingerprint = greetd_fingerprint
    reader = reader
    Registry <- MCRegistry
    Part <- MCPart
    Default = {detect, render, symlinks}
    Required = {detect}
    Themed = {render, symlinks}
    Slow = {vault}
    Render = render
    Detect = detect
    Summary = symlinks
    Gated = {greetd_fingerprint, sudo_fingerprint}
    AutoOn = {sudo_fingerprint}
    Checked = {render, vault}
    Answers <- MCAnswers
    Sentinel = {render}
    MaxArgs = 3
    MaxToggles = 1
INVARIANTS
    RefusalsHold
    NothingUnasked
    DemandIsMet
    OverwriteHasConsent
