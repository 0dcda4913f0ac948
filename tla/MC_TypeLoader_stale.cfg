CONSTANTS
    None = None
    Malformed = Malformed
    Primitives <- MCPrimitives
    EnumNames <- MCEnumNames
    StructNames <- MCStructNames
    FieldBases <- MCFieldBases
    MemberNames <- MCMemberNames
    Tasks <- MCTasks
    TaskKind <- MCTaskKind
    GenNode = "n1"
    Force <- MCForce
    BinaryChildren <- MCBinaryChildren
    NodeXml <- MCNodeXml
    NodeDescs <- MCNodeDescs
    ServerEnums <- MCServerEnums
    InitialUa <- MCInitialUa
    CallsMayFail = TRUE

SPECIFICATION Spec
PROPERTY EnumsKeepExisting
