CONSTANTS
    Capacity = 0
    NumTexts <- MCNumTexts
    WordTexts <- MCWordTexts
    MaxWrites = 2
SPECIFICATION Spec
INVARIANT AttrsUsable
