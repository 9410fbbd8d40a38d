SPECIFICATION Spec
CONSTANTS
    Procs = {p1, p2}
    Names <- TheNames
    Files <- TheFiles
    Alice = Alice
    Bob = Bob
    Blank = Blank
    Colon = Colon
    AliceB = AliceB
    Before <- TheBefore
    Rest <- TheRest
    Second = 10
    Half = 128
    Default = 3
    s1 = s1
    s2 = s2
    Secrets = {s1, s2}
    None = None
INVARIANTS
    TypeOK
    InitThenInstance
    OnlyUsersServed
    UsersCanLogIn
    RunsAsConfigured
PROPERTIES
    ConfigSticks
    CallsReturn
