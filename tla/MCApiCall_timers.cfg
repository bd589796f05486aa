SPECIFICATION FairSpec
CONSTANTS
    c1 = c1
    c2 = c2
    Callers = {c1, c2}
    BodyTexts = {"null", "object"}
    Statuses = {200, 304, 503}
    ConnectTimeout = 2
    Timeout = 4
    None = None
INVARIANTS TypeOK ToldAsAnswered
PROPERTIES ImplementsAnswering
