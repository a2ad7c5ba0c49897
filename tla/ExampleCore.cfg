SPECIFICATION Spec
CONSTANTS
    Fields <- MCFields
    Handles = {a, b}
    App = App
    Values = {1, 2}
    Width = 2
    Serials = {1, 2, 3, 4, 5}
    MaxBlocks = 5
    MaxItems = 1
    Null = Null
    Bad = Bad
    Odd = Odd
CHECK_DEADLOCK FALSE
INVARIANTS
    TypeOK
    SoleOwner
    
PROPERTIES
    ObjectsApart
    DupKeeps
VIEW Renamed
SYMMETRY Alike
