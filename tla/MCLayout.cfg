\* Three daemons (four in one plan), hashes of ten bits.
CONSTANTS
    Size = 1024
    NodeIds = {1, 2, 3, 4}
    Plans <- Starts
    Definition <- DefinitionOf
    Encodable <- CanEncode
    NoSpace = NoSpace
    MaxU8 = 3
    MaxU16 = 4
    MaxU32 = 99
    Invalid = Invalid
SPECIFICATION Spec
INVARIANTS TypeOK RegionsTile ClientRoutesToPrimary PlacementIgnoresOrder PackedSpacesComeBack SchemaRoundTrips
PROPERTY JoinMovesToNewcomer
CHECK_DEADLOCK FALSE
