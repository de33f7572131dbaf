CONSTANTS
    Lits <- MCLits
    MaxCubes = 3
    MaxCubeLen = 2
SPECIFICATION Spec
INVARIANTS TypeOK CubeTableMatches CubeTableAddressable CubeInv
