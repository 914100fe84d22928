\* Two estimators: the reported sample is not the one measured.
SPECIFICATION Spec
CONSTANTS
    original = original
    copy = copy
    Estimators = {original, copy}
    Samples = {0, 3, 8}
    Initials = {25}
    Scale = 32
    Gains = {3, 16}
    MaxSamples = 3
PROPERTY SampleIsMeasured
