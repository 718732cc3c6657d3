\* The header excerpt model, checked against what the spec says of TypesInFirstUseOrder.
CONSTANTS
  Punct <- MCPunct
  Upper <- MCUpper
  Module = "Virtualization"
  Symbols <- HdrSymbols
  Sym <- HdrSym
  Members <- HdrMembers
  Mem <- HdrMem
  Primitives <- HdrPrimitives
  Void = "Void"
SPECIFICATION Spec
INVARIANT TypesInFirstUseOrder
CHECK_DEADLOCK FALSE
