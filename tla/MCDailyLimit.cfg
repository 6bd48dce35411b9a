SPECIFICATION LSpec
CONSTANTS
    None = None
    NoFile = NoFile
    Torn = Torn
    MaxMessages = 1
    MaxArrivals = 2
    MaxDays = 2
    MaxRequests = 1
CHECK_DEADLOCK FALSE
PROPERTIES CeilingKept MailTaken
