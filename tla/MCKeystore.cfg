SPECIFICATION Spec
CONSTANTS
    Runs = {r1, r2, r3}
    spending = spending
    savings = savings
    Files <- MCFiles
    Labels = {spending, savings}
    Cmds = {"init", "force", "add", "read"}
SYMMETRY Symmetric
INVARIANTS
    FileIsWhole
    LostOnlyInARace
    PassphraseKept
CHECK_DEADLOCK FALSE
