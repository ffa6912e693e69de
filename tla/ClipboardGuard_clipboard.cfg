SPECIFICATION FairSpec
CONSTANTS
    secret = secret
    note = note
    report = report
    chat = chat
    mail = mail
    Texts = {secret, note}
    Files = {report}
    Natives = {chat, mail}
    Apps = {chat, mail, "browser", "agent"}
    Jobs = {j1, j2}
    Ticker = ticker
    Hook = hook
    None = none
    Verdict <- MCVerdict
    MaxCopies = 1
    MaxSwitches = 1
    MaxPresses = 2
    MaxFaults = 1
INVARIANT AlertsNeedPress
PROPERTIES PressesAnswered BlockedLeaves
