SPECIFICATION FairSpec
CONSTANT Threads = {t1, t2, t3}
INVARIANTS TypeOK MutualExclusion CountersExact
           NoStrandedReader NoStrandedWriter
PROPERTIES WritersProgress WriterStarvedOnlyByWriters
           ReaderStarvedOnlyByWriters ImplementsRWLock
