SPECIFICATION PickerSpec
CONSTANTS
    a = a
    b = b
    t = t
    u = u
    Records = {1, 2, 3}
    Texts = {a, b}
    Types = {t, u}
    All = All
    Null = Null
    InitialTables <- MCTables
    TypeOf <- MCTypeOf
    PageSize = 1
    MaxEvents = 3
    MaxChanges = 1
CHECK_DEADLOCK FALSE
INVARIANTS
    ListIsTheSearch
PROPERTIES
    SearchSettles
