SPECIFICATION PanelsFairSpec
CONSTANTS
    Thresholds = {t1, t2}
    Values = {v1, v2}
    Default = v1
    Sources = {s1, s2}
    LongV6 = {s2}
    Cut = cut
    RuleIds = {1, 2}
    Blank = none
    MaxClicks = 2
    MaxFailures = 1
INVARIANTS AppliedIsLive TabsAgree SuppressedIsLive
PROPERTIES FormsReturn
CHECK_DEADLOCK FALSE
