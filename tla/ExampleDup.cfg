SPECIFICATION Spec
CONSTANTS
    Fields <- MCFlags
    Handles = {"a", "b"}
    App = App
    Values = {1}
    Width = 2
    Serials = {1, 2, 3, 4, 5, 6, 7}
    MaxBlocks = 5
    MaxItems = 1
    Null = Null
    Bad = Bad
    Odd = Odd
CHECK_DEADLOCK FALSE
PROPERTY DupIsCopy
