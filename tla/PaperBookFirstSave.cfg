CONSTANTS
    Absent = {nofile}
    Books = {b1, b2}
    Edits = {e1, e2}
    MaxGen = 4
SPECIFICATION Spec
INVARIANT BookCanBeLoadedOrCreated
