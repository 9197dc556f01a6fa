\* Two callers that call again and again: one verifies, the other waits for the
\* lock, verifies too, or comes when the flag is set; two checks answer in
\* either order; requests for two documents with one token of the limiter and
\* bodies below, at and over the limit of one byte.
SPECIFICATION SharedSpec
CONSTANTS
    Nil = Nil
    ChainID = ChainID
    Callers = {c1, c2}
    Checks = {k1, k2}
    Docs = {d1, d2}
    Burst = 1
    MaxBytes = 1
INVARIANTS
    PassedMeansRight
    OneVerification
    OwnFailure
    RouterTrusted
    AnswerIsOwn
PROPERTIES
    CallersReturn
