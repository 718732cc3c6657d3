\* A Hypervisor header (two rawValue properties) and a Virtualization header, included in one translation unit.
CONSTANTS
  Punct <- MCPunct
  Upper <- MCUpper
  Primitives <- RawPrimitives
  Void = "Void"
  ModuleA = "Hypervisor"
  SymbolsA <- RawSymbols
  SymA <- RawSym
  MembersA <- RawMembers
  MemA <- RawMem
  ModuleB = "Virtualization"
  SymbolsB <- VirtSymbols
  SymB <- VirtSym
  MembersB <- VirtMembers
  MemB <- VirtMem
SPECIFICATION Spec
INVARIANT UnitCompiles
\* Both runs end once their headers are handed over.
CHECK_DEADLOCK FALSE
