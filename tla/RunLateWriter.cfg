SPECIFICATION RunSpec
CONSTANTS
    Captures = {first, second}
    Absent = Absent
    Outputs = {"stderr", "calls"}
    Flagged = {"calls", "stderr"}
    Lingering = TRUE
INVARIANTS
    ExitStands
