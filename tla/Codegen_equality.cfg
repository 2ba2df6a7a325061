CONSTANTS
    Names = {x}
    MaxNodes = 4
    MaxParams = 0
    UsedTypes = {"BOOL", "INTEGER"}
    Forms = {"BinaryNode", "mixedEquality"}
SPECIFICATION Spec
INVARIANTS ComparisonsAgree
