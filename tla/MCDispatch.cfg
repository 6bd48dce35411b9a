SPECIFICATION Spec
CONSTANTS
    NLists = 2
    s1 = s1
    s2 = s2
    MaxThreads = 2
    Senders = {s1, s2}
    MaxFaults = 1
    Installations <- MCInstallations
INVARIANTS Accounted
PROPERTIES MailServed IdleEntryServed
