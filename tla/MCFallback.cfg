SPECIFICATION FairSpec
CONSTANT MaxVisits = 0
PROPERTY FallsBackToCellular
