CONSTANTS
    Names = {x}
    MaxNodes = 4
    MaxParams = 0
    UsedTypes = {"BOOL"}
    Forms <- AnyForm
SPECIFICATION Spec
INVARIANTS BodiesDoNotLeak
