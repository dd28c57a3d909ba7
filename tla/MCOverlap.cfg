SPECIFICATION Spec
CONSTANTS
    l1 = l1  l2 = l2  t1 = t1  t2 = t2  c1 = c1  c2 = c2
    x1 = x1  x2 = x2  x3 = x3  p1 = p1
    Launches = {l1}
    AutoSend = {l1}
    NoLaunch = NoLaunch
    Conversations = {c1, c2}
    NoConversation = NoConversation
    Tabs = {t1}
    ConversationOf <- OneTab
    Handlers = {x1, x2}
    TabOf <- TwoRuns
    Shown = {t1}
    Publishers = {p1}
    Budget <- Undisturbed
    MaxSends = 2
\* Every launch has ended and nothing is pending.
CHECK_DEADLOCK FALSE
INVARIANTS SendOnce
