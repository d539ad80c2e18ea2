SPECIFICATION Spec
CONSTANTS
    Objects = {o1, o2, o3, o4}
    Modulus = 8
    None = none
INVARIANTS
    TypeOK
    UniqueIds
    CountIsLivePlayers
PROPERTY
    ImplementsLeastFreeIds
