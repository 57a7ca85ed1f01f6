\* The journey over every variation of a profile, with restarts and rescans.
SPECIFICATION Spec
CONSTANTS
    ChainId = {0, 1, 2}
    None = None
    Catalogues <- MCCatalogues
    Footprints <- MCFootprints
INVARIANTS TypeOK HonestJourneyPersists SnapshotIsExplored PinCoversExploredScan StoredIsSound ConstraintRefusalIsCoucheB WiderScanKeepsCandidates RankedIsAssistable CatalogueShowsCandidates SignalIsTruthful
CHECK_DEADLOCK FALSE
