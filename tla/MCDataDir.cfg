SPECIFICATION Spec
CONSTANTS
    Daemons = {d1, d2}
    Screens = {s1}
    Benches = {b1}
    Target = 1
    MaxFiles = 3
    Nobody = Nobody
SYMMETRY ProcessSymmetry
INVARIANTS CollectsProperly MarksFit
CHECK_DEADLOCK FALSE
