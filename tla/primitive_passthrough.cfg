\* The rawValue properties of two imported C enums (Hypervisor.shim.h), whose types are primitives.
CONSTANTS
  Punct <- MCPunct
  Upper <- MCUpper
  Module = "Hypervisor"
  Symbols <- RawSymbols
  Sym <- RawSym
  Members <- RawMembers
  Mem <- RawMem
  Primitives <- RawPrimitives
  Void = "Void"
SPECIFICATION Spec
INVARIANT PrimitivesPassThrough
CHECK_DEADLOCK FALSE
