SPECIFICATION Spec
CONSTANTS
    Senders = {co_rt}
    Rates = {r1, r2}
    Delays = {0, 2}
    Startup = r1
    Span = 8
    MaxPass = 1
    None = None
INVARIANT BitrateIsSafe
PROPERTIES PreDelayKept ActivationEnds
