\* Two processes that migrate at once and serve setups, logins, a logout and a
\* dashboard request, with failing statements and one stop or failed start.
CONSTANTS
    setup1 = setup1
    setup2 = setup2
    setup3 = setup3
    login1 = login1
    logout1 = logout1
    check1 = check1
    laptop = laptop
    phone = phone
    Processes <- MCProcesses
    FileCount = 2
    Clashing = {1}
    MaxMishaps = 1
    Setups = {setup1, setup2, setup3}
    Logins = {login1}
    Logouts = {logout1}
    Checks = {check1}
    Browsers = {laptop, phone}
    BrowserOf <- MCBrowserOf
    Form <- MCForm
    Lower <- MCLower
    LongEnough = {"long pass", "long pass 2"}
    SetupToken = "tok"
    NoToken = ""
    NoSession = NoSession
    DbFaults = {"db", "dbReply"}
    HandledBy <- MCHandledBy
SPECIFICATION FairSpec
INVARIANTS TypeOK AppliedOnce ServesWholeSchema ServedToHolder LoggedOutStaysOut
PROPERTIES OneComesUp AccountHolderGetsIn
CHECK_DEADLOCK FALSE
