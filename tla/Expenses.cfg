\* Two expenses, of one content or two, an update and two deletions.
SPECIFICATION Spec
CONSTANTS
    Creates = {c1, c2}
    Repays = {r1}
    Deletes = {d1, d2}
    Contents = {v1, v2}
SYMMETRY Symmetric
INVARIANTS
    PictureKept
    NoPictureLeft
    DeletedOnce
CHECK_DEADLOCK FALSE
