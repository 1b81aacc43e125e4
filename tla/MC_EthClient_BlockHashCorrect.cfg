CONSTANTS
    t1 = t1
    t2 = t2
    Groups = {1, 2}
    Txs <- MCTxs
    MaxHeight = 2
    QueryNums = {0, 1, 49}
    Observers <- MCObservers
SPECIFICATION Spec
INVARIANT BlockHashCorrect
