\* Four items; two names that differ by case only.
CONSTANTS
    k = k  K = K
    Name = {k, K}
    Lower <- Cases
    NoName = NoName
    NULL = NULL
    MaxRefs = 1
    MaxArray = 3
    Item = {i1, i2, i3, i4}
SYMMETRY Addresses
SPECIFICATION Spec
INVARIANTS TypeOK WellLinked NamesOwned Represents
