\* Three events may be on their way: a join, an address, a parting.
CONSTANTS MAX_EVENTS = 3
SPECIFICATION FairSpec
INVARIANTS TypeOK AssumedStation StatusIsTrue
PROPERTIES AccessPointStarts SwitchLeavesAP
