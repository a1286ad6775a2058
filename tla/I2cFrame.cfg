SPECIFICATION Spec
CONSTANTS
  Word <- MCWord
  Lengths = {1, 3}
  Corruption <- MCCorruption
INVARIANTS FrameTypeOK OnlyChecked Uncorrupted
PROPERTIES AllOrNothing
