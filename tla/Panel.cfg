SPECIFICATION Spec
CONSTANT CO2 <- MCCO2
INVARIANTS PanelTypeOK NothingOffScreen MemoryRecovers Follows
