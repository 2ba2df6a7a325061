CONSTANTS
    Names = {x}
    MaxNodes = 4
    MaxParams = 2
    UsedTypes = {"BOOL", "INTEGER", "FLOAT"}
    Forms <- AnyForm
SPECIFICATION Spec
INVARIANTS TypeOK OperandsBalanced ResultHasItsType NamesResolve NothingAfterTerminator FunctionComplete ScopesMatchBlocks DefinitionsDominateUses
