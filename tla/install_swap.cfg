CONSTANTS
    i1 = i1  i2 = i2  m1 = m1  m2 = m2  l1 = l1  l2 = l2  p1 = p1  p2 = p2
    required = required  extra = extra
    Installers = {i1, i2}
    Manifests = {m1, m2}  Lockfiles = {l1, l2}  Policies = {p1, p2}
    Packages = {required, extra}
    Foreign = foreign
    PackagesOf <- MCPackagesOf
    Optional = {extra}
    Consistent <- MCConsistent
    Reports <- MCReports
    NoTree = NoTree  OldTree = OldTree  NotADirectory = NotADirectory
    Faults = {}
    MaxEdits = 2
    MaxCrashes = 1
CHECK_DEADLOCK FALSE
SPECIFICATION Spec
INVARIANTS OnlyVettedTrees
PROPERTIES ReplacesAtomically
