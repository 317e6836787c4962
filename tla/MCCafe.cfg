SPECIFICATION Spec
CONSTANTS
    B = 2
    N = 3
    Arrivals = {0, 1}
    Tolerances = {0, 2}
    Preps = {1, 2}
INVARIANTS CoffeeMadeOnce
PROPERTIES CafeCloses
