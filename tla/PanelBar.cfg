SPECIFICATION Spec
CONSTANT CO2 <- MCHighCO2
INVARIANT BarFull
