CONSTANTS
    ListSize = 3
    EntryLength = 4
    Lengths = {2, 4}
    MaxAps = 5
    Word = 32
SPECIFICATION Spec
INVARIANT PacksResults
