SPECIFICATION Spec
CONSTANTS
    n1 = n1
    n2 = n2
    n3 = n3
    Nodes <- Three
    Nobody = Nobody
    NumJars = 2
INVARIANTS
    TypeOK
    TornOnlyByMoves
    OnlyRacesGoMissing
SYMMETRY Alike
CHECK_DEADLOCK FALSE
