\* Three threads race over at most four references.
CONSTANTS
    Threads = {t1, t2, t3}
    Refs = {r1, r2, r3, r4}
    Nobody = Nobody
SPECIFICATION Spec
INVARIANTS
    TypeOK
    CountIsReferences
    ReferencesPinMemory
    DestroyedOnce
PROPERTY SharedObjectSpec
\* Once the object is freed nothing is left to do.
CHECK_DEADLOCK FALSE
