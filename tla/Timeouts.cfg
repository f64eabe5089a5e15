SPECIFICATION TimesLiveSpec
CONSTANTS
    Conns = {c1}
    Cyclic = {etharp}
    Tcp = tcp
    Interval <- MCInterval
    PollInterval = 2
    Delays = {2}
    TimeMod = 32
    MaxLag = 5

INVARIANTS TimesTypeOK ListSorted OneTimeoutEach NoBurst DelayHonest
PROPERTIES PollsSpaced PollsGoOn
CHECK_DEADLOCK FALSE
