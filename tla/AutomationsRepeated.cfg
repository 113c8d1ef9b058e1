\* Two first gifts, one request that runs the automations again and again.
CONSTANTS
    Newcomers = {g1, g2}
    Strugglers = {}
    Anchors = {1}
    Automata = {u1}
    MaxRuns = 4
    MaxFaults = 0
SPECIFICATION AutomationSpec
CHECK_DEADLOCK FALSE
INVARIANT ThankedOnce
