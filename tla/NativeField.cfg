SPECIFICATION Spec
CONSTANTS
  TwoC = 3
  FourC = 3
  TenC = 19
  BlockLength = 8
INVARIANTS
  ProductsAgree
  BytesAreCanonical
  BytesAreRead
  ScalarsAreReduced
  ChainsAreFixedPowers
  HashIsOfAllData
  CompressionIsStandard
