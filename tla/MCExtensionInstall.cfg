SPECIFICATION InstallSpec
CONSTANTS
    first = first
    again = again
    other = other
    odd = odd
    scan = scan
    trace = trace
    broken = broken
    m1 = m1
    m2 = m2
    m3 = m3
    Installs = {first, again, other, odd}
    Sources <- ModelSources
    CoreModules = {"crop"}
    MaxCrashes = 2
    NoInstall = NoInstall
    Absent = Absent
    Bad = Bad
INVARIANTS
    ListedIsOnDisk
    PromiseKept
    StartsAgain
