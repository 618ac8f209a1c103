SPECIFICATION Spec
CONSTANTS
    p = p
    q = q
    a = a
    b = b
    c = c
    Slugs = {a, b}
    Ports = {p, q}
    Definitions = {a, b}
    NoDocument = none
    MaxRequests = 2
    Gateways = {a, b}
    MaxChanges = 3
    MaxRuns = 2
INVARIANTS
    NoPortIsHeldTwice
    AnsweredIsStored
    ConversationsAreKept
PROPERTIES
    AQuitKeepsTheFleet
    WhatIsHandedOverLasts
CHECK_DEADLOCK FALSE
