\* The documented overlap of a persisted pin with the scan.
SPECIFICATION Spec
CONSTANTS
    ChainId = {0, 1, 2}
    None = None
    Catalogues <- MCCatalogues
    Footprints <- MCFootprints
INVARIANT PersistOverlapsScan
CHECK_DEADLOCK FALSE
