CONSTANTS
    None = None
    Malformed = Malformed
    Primitives <- MCPrimitives
    EnumNames <- MCEnumNames
    StructNames <- MCStructNames
    FieldBases <- MCFieldBases
    MemberNames <- MCMemberNames
    TypeIds <- MCTypeIds
    Docs <- MCDocs
    MaxDocs = 1
    MaxCalls = 2

SPECIFICATION Spec
INVARIANT EncodingFirstAndUnique
CHECK_DEADLOCK FALSE
