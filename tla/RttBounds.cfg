\* Two estimators, a power-of-two gain of 1/2 and a floating-point gain of 3/32.
SPECIFICATION Spec
CONSTANTS
    original = original
    copy = copy
    Estimators = {original, copy}
    Samples = {0, 2}
    Initials = {1, 25}
    Scale = 32
    Gains = {3, 16}
    MaxSamples = 3
SYMMETRY Objects
INVARIANTS TypeOK EstimateWithinSamples VariationWithinSpread
PROPERTY NeverStuckHigh
