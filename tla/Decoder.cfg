CONSTANTS
    WordBits = 4
    OPCODE_CACHE_SIZE = 3
    HASH_SIZE = 2
    BaseInstructions <- MCBase
    Disassembled <- MCDisassembled
    Extension <- MCExtension
SPECIFICATION DecoderSpec
INVARIANT DecodeIsSearch
PROPERTY LookupIsSearch
CHECK_DEADLOCK FALSE
