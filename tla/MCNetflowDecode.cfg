CONSTANTS
    TestVersions = {0, 1, 5, 7, 9}
    MaxCountField = 45
    MaxWire = 2100
SPECIFICATION Spec
INVARIANTS RecordsWithinDatagram AcceptsExactlyWellFormed
