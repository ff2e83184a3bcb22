SPECIFICATION Spec
CONSTANTS
    Thread = {t1}
    MaxEntry = 4
    DefaultCount = 2
    Extra <- MCExtra
    Address <- MCAddress
INVARIANTS TypeOK DispatchNewest AllOrNothing
PROPERTIES RefinesHandlerTable AccessEnds
