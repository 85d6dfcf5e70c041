SPECIFICATION Spec
CONSTANTS
    WordMod = 8
    RegCount = 3
    Length = 4
    BtbSize = 6
    Instrs <- MCInstrs
    Boot <- MCBoot
INVARIANTS DecodeCanRely
PROPERTIES ImplementsISA Progress
