CONSTANTS
    Runners = {r1, r2}
    Images = {i1, i2}
    FirstImage = i1
    Texts = {6, 7, 8}
    FirstText = 6
    ImportText = 7
    MaxRulings = 2
    MaxEdits = 2
    Quiet = FALSE
SPECIFICATION Spec
SYMMETRY Symmetry
CHECK_DEADLOCK FALSE
INVARIANT BindingIsTrue
