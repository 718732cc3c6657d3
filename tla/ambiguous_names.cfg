\* Two enums whose qualified names differ only in "." against "_".
CONSTANTS
  Punct <- MCPunct
  Upper <- MCUpper
  Module = "Virtualization"
  Symbols <- NestSymbols
  Sym <- NestSym
  Members <- NestMembers
  Mem <- NestMem
  Primitives <- HdrPrimitives
  Void = "Void"
SPECIFICATION Spec
INVARIANT UniqueIdentifiers
CHECK_DEADLOCK FALSE
