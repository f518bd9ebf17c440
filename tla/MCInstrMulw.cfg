SPECIFICATION Spec
CONSTANTS
    Singles <- MCSinglesMulw
    Blockable <- MCBlockable
    FloatSingles <- MCFloatSingles
    DecodeOnly <- MCDecodeOnly
    MAX_BLOCK = 3
    None = None
    Harts <- MCHarts
    BlockHarts <- MCBlockHarts
    FloatHarts <- MCFloatHarts
    Libs <- MCLibs
    Readable <- MCReadable
    Writable <- MCWritable
INVARIANT
    RegistersFitTheirView
