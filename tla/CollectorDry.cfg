\* Two readings of any feed; writes are paused and resumed at any time.
SPECIFICATION CollectorFairSpec
CONSTANT ReadingCount = 2
PROPERTY SkippedIsRecollected
