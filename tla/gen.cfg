\* A generation run over an excerpt of the two headers' Symbol Models.
CONSTANTS
  Punct <- MCPunct
  Upper <- MCUpper
  Module = "Virtualization"
  Symbols <- HdrSymbols
  Sym <- HdrSym
  Members <- HdrMembers
  Mem <- HdrMem
  Primitives <- HdrPrimitives
  Void = "Void"
SPECIFICATION Spec
INVARIANT TypeOK
INVARIANT UniqueIdentifiers
PROPERTY RefinesContract
\* A generation run ends once the header is handed over.
CHECK_DEADLOCK FALSE
