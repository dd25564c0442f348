SPECIFICATION Spec
CONSTANTS
    Dialers = {c1, c2}
    Servers = {v1, v2}
    listener = l
    Reuse = FALSE
    MaxSid = 4
    NULL = NULL
SYMMETRY Symmetry
VIEW View
CHECK_DEADLOCK FALSE
INVARIANTS OneDialerPerLink LinksAgree
PROPERTIES AnswersOwnOffer DataForLink
