CONSTANTS
    Capacity = 262144
    NumTexts <- MCNumTexts
    WordTexts <- MCWordTexts
    MaxWrites = 2
SPECIFICATION Spec
INVARIANT TypeOK
