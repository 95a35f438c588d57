SPECIFICATION SchemaSpec
CONSTANTS
    Schemas <- MCRecursive
INVARIANT AnyTypeIsATool
CHECK_DEADLOCK FALSE
