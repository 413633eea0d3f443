SPECIFICATION FairSendSpec
CONSTANTS
    Callers = {c1, c2, c3}
    Threads = {t1, t2}
    Senders = {c1}
    NoCaller = NoCaller
    NoThread = NoThread
    NoServer = NoServer
INVARIANTS
    OneThread
    ThreadHasLibrary
    SendsUntilDestroyed
    JoinedThreadToldToEnd
PROPERTIES
    ImplementsSwitch
    LockComesFree
