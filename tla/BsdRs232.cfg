SPECIFICATION BsdSpec
INVARIANT OpenSetsLine
