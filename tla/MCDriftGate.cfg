\* Every shape of command, tree and agent; a content that is hashed as a whole
\* and two that differ behind the first 32 MiB; three changes, so that a file may
\* be changed, changed back, and changed again.
CONSTANTS
    Content = {small, b1, b2}
    Small = {small}
    Sha <- MCSha
    Inode = {i1, i2}
    None = None
    SealedCopy = SealedCopy
    MaxEdits = 3
\* A command that has run, or was refused, is the end of it.
CHECK_DEADLOCK FALSE
SPECIFICATION GateSpec
SYMMETRY Alike
INVARIANTS GateTypeOK RunsWhatWasPinned HeldRunHasNoDrift AmbientChangeReported
