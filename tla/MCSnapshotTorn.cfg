CONSTANTS
    WordCount = 3
    Values = {s1, s2}
    Initial = s1
    SeqMod = 8
    Overlap = 2
    Reorders = TRUE
SPECIFICATION FairSpec
INVARIANT Untorn
