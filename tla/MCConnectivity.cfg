SPECIFICATION FairSpec
CONSTANT MaxVisits = 1
INVARIANTS IInv
PROPERTIES UplinkContract LostLinkNoticed RecoversOnSocketLink
