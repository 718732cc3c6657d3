\* The header excerpt model, checked against what the spec says of ReferencedTypesDeclared.
CONSTANTS
  Punct <- MCPunct
  Upper <- MCUpper
  Module = "Virtualization"
  Symbols <- HdrSymbols
  Sym <- HdrSym
  Members <- HdrMembers
  Mem <- HdrMem
  Primitives <- HdrPrimitives
  Void = "Void"
SPECIFICATION Spec
INVARIANT ReferencedTypesDeclared
CHECK_DEADLOCK FALSE
