\* Two threads, with fairness: a slot is reused up to three times and a batch
\* can be under way while its callbacks post, cancel and discard.  No symmetry,
\* because of the temporal properties.
SPECIFICATION FairSpec
CONSTANTS
    Threads = {t1, t2}
    NoThread = NoThread
    MaxAllocs = 3
    MaxGen = 3
    Limits = {1, 3}
INVARIANTS
    TypeOK
    TablesExact
    DisposedExactlyOnce
    CancelledNeverRuns
    DestroyedIsEmpty
PROPERTIES
    ImplementsDeferredWork
    TakenIsDisposed
    DestroyReturns
