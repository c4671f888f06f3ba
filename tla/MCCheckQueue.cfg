CONSTANTS
    c1 = c1
    c2 = c2
    c3 = c3
    Workers = {w1, w2}
    Masters = {m1, m2}
    Importers = {m2}
    None = None
    Checks <- MCChecks
    Bad <- MCBad
    nBatchSize = 2
SPECIFICATION FairSpec
INVARIANTS CountersExact TodoExact WaitExact FinishedBeforeContinuing
PROPERTIES WaitReturns
