CONSTANTS
    Names = {x}
    MaxNodes = 4
    MaxParams = 0
    UsedTypes = {"BOOL", "INTEGER"}
    Forms <- ControlForms
SPECIFICATION Spec
INVARIANTS EndsAreDead
