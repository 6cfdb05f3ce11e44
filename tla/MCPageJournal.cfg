SPECIFICATION Spec
CONSTANTS
    p1 = p1
    p2 = p2
    p3 = p3
    zero = zero
    a = a
    b = b
    Torn = Torn
    None = None
    Reset = Reset
    Pages <- SomePages
    Images <- ThreeImages
    Zero <- zero
    Capacity = 2
    MaxSequence = 3
    MaxFailures = 2
SYMMETRY Symmetry
INVARIANTS
    TypeOK
    Redo
    DropsNothing
    ReadsBack
    HeadersGrow
