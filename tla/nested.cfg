\* Nested types of Virtualization whose innermost names coincide.
CONSTANTS
  Punct <- MCPunct
  Upper <- MCUpper
  Module = "Virtualization"
  Symbols <- NestedSymbols
  Sym <- NestedSym
  Members <- NestMembers
  Mem <- NestMem
  Primitives <- HdrPrimitives
  Void = "Void"
SPECIFICATION Spec
INVARIANT UniqueIdentifiers
CHECK_DEADLOCK FALSE
