SPECIFICATION Spec
CONSTANTS
    Tables = {t1, t2}
    Indexes = {i1, i2}
    Keys = {k1, k2}
    MaxRows = 2
    MaxId = 2
    MaxPageId = 7
    CarelessMaxPageId = 6
SYMMETRY Interchangeable
INVARIANTS PagesConsistent ReloadAgrees IndexAgrees
CHECK_DEADLOCK FALSE
