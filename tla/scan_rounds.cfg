CONSTANTS
    ListSize = 3
    EntryLength = 4
    Lengths = {2, 4}
    MaxAps = 5
    Word = 32
    Bssids = {b1, b2, b3, b4}
    Rssis <- Strengths
    MaxScans = 2
    OccWord = 3
SPECIFICATION AverageSpec
INVARIANTS PackFits FreedOnce SentIsScan AveragesReadings
\* the heap aborts the program that frees twice, the processor the one that
\* divides by zero
CHECK_DEADLOCK FALSE
