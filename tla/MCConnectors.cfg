SPECIFICATION ConnectorsSpec
CONSTANTS
    MaxLines = 3
    l1 = l1
    l2 = l2
    Loads = {l1, l2}
    Checks = {k1}
    Others = {o1}
    IdOf <- SameId
    typed = typed
    cookied = cookied
    home = home
    other = other
    Sends <- MCSends
    Hosts <- MCHosts
    Home = home
    JarSends <- MCJarSends
    MaxRedirects <- MCMaxRedirects
    Burst = 1
    MaxStops = 1
INVARIANTS AnswersMatchRequests HostMatchesChild RepeaterCorrect
PROPERTIES EndedLeadsToExit HostSettles SendsSettle
CHECK_DEADLOCK FALSE
