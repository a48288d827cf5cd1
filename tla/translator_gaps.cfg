\* Every form of word that the two decoders tell apart.
SPECIFICATION DecodeSpec
CONSTANTS
  Words <- DecodedWords
INVARIANTS
  FdivsIsTranslated
CHECK_DEADLOCK FALSE
