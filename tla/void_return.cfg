\* The header excerpt model, checked against what the spec says of VoidMethodsReturnVoid.
CONSTANTS
  Punct <- MCPunct
  Upper <- MCUpper
  Module = "Virtualization"
  Symbols <- HdrSymbols
  Sym <- HdrSym
  Members <- HdrMembers
  Mem <- HdrMem
  Primitives <- HdrPrimitives
  Void = "Void"
SPECIFICATION Spec
INVARIANT VoidMethodsReturnVoid
CHECK_DEADLOCK FALSE
