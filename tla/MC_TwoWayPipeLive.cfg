SPECIFICATION FairSpec
CONSTANTS
    runner = runner
    settings = settings
    m1 = m1
    m2 = m2
    m3 = m3
    Objects = {runner, settings}
    Garbage = garbage
    NoMessage = nomessage
    Large = {m2}
    Messages = {m1, m2}
    From <- OneWay
    MayEnd = {runner}
    MayFail = {"write"}
    MayDie = {}
CHECK_DEADLOCK FALSE
PROPERTIES SenderNeverStuck EndHangsOnlyInConnect
