CONSTANT MaxVer = 3
SPECIFICATION Spec
INVARIANTS TypeOK ReturnedFresh
PROPERTIES GetEnds
