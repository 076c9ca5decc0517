\* Two operators set up a fresh deployment at once; nothing fails.
CONSTANTS
    setup1 = setup1
    setup2 = setup2
    setup3 = setup3
    login1 = login1
    logout1 = logout1
    check1 = check1
    laptop = laptop
    phone = phone
    Processes <- MCProcesses
    FileCount = 1
    Clashing = {1}
    MaxMishaps = 0
    Setups = {setup1, setup2}
    Logins = {}
    Logouts = {}
    Checks = {}
    Browsers = {laptop, phone}
    BrowserOf <- MCBrowserOf
    Form <- TwoOperators
    Lower <- MCLower
    LongEnough = {"long pass"}
    SetupToken = "tok"
    NoToken = ""
    NoSession = NoSession
    DbFaults = {}
    HandledBy <- MCHandledBy
SPECIFICATION Spec
INVARIANTS OneAdmin
CHECK_DEADLOCK FALSE
