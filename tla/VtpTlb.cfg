CONSTANTS
    t1 = t1
    t2 = t2
    Tag = {t1, t2}
    Changes = 1
    Hold = 3
    Line = 1
    Reset = 2
SPECIFICATION Spec
INVARIANTS
    CachesFresh
    AnswersRight
SYMMETRY Symmetry
VIEW View
CHECK_DEADLOCK FALSE
