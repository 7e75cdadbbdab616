SPECIFICATION Spec
CONSTANTS
    Macs = {m1}
    Ips = {i1, i2}
    Threads = {t1, t2}
    NoIp = NoIp
    NoRow = NoRow
    Idle = Idle
SYMMETRY Symmetry
INVARIANTS
    DnsmasqRunsTheFile
    AwayStaysAway
    KeptPinsHold
    SettingMatchesService
