SPECIFICATION MCSpec
CONSTANTS
  Base = 8
  W32 = 1
  W64 = 2
  RequestMagic = 3
  ResponseMagic = 6
  Version = 1
  a = a
  b = b
  c = c
  d = d
  f = f
  g = g
  h = h
  Names = {a, b, c, d}
  Binders = {f, g, h}
  Null = null
  Id <- MCId
  Signature <- MCSignature
  Imports <- MCImports
  Returns <- MCReturns
  Methods = {0, 43}
  Payloads <- MCPayloads
  MaxArgs = 2
  MaxExtra = 1
  MaxFlips = 1
INVARIANTS
  DecodingInverts
  IntactArrives
  BindersOwned
  ServesLastDefined
  CallFaithful
