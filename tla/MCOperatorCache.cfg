SPECIFICATION Spec
CONSTANTS
    Threads = {t1, t2}
    Signatures = {0, 1, 2}
    Valid = {0, 1}
    MaxRuns = 4
INVARIANT OptimizedPathMatches
