SPECIFICATION EditorSpec
CONSTANTS
    t1 = t1
    t2 = t2
    t3 = t3
    f1 = f1
    f2 = f2
    Texts = {t1, t2, t3}
    Fields = {f1, f2}
    limit = 3
SYMMETRY MCSymmetry
INVARIANTS
    EditorTypeOK
    ScreenIsPresent
PROPERTIES
    ImplementsUndoStack
