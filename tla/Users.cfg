CONSTANTS
  MAX_USERS = 3
  PASS_CAP = 2
  ValidNames = {"root", "a", "b"}
  OtherNames = {"x!"}
  Texts <- MCTexts
  Residues <- MCResidues
  Wide = {"i"}
  LowByte <- MCLowByte
  Foreign <- MCForeign
  Rests <- MCRests
  MaxLines = 2
SPECIFICATION Spec
INVARIANTS TypeOK Identity
PROPERTY AccountsSurvive
