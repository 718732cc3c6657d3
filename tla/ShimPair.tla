------------------------------ MODULE ShimPair ------------------------------
(***************************************************************************)
(* Two generation runs side by side (spec 5: independent runs share no    *)
(* state and need no synchronization), each an instance of ShimGen with   *)
(* its own Symbol Model and its own variables.                            *)
(* The question asked of the pair: run on two modules, can a caller include both headers in one        *)
(*    translation unit, as a client of both the Hypervisor and the        *)
(*    Virtualization framework does?                                      *)
(***************************************************************************)
EXTENDS Naturals, Sequences, FiniteSets, Functions

CONSTANTS
  Punct, Upper, Primitives, Void,
  ModuleA, SymbolsA, SymA, MembersA, MemA,   \* the first run's model
  ModuleB, SymbolsB, SymB, MembersB, MemB    \* the second run's model

VARIABLES
  phaseA, emittedA, typeSectionA, pendingA, funcSectionA, outputA,
  phaseB, emittedB, typeSectionB, pendingB, funcSectionB, outputB

varsA == <<phaseA, emittedA, typeSectionA, pendingA, funcSectionA, outputA>>
varsB == <<phaseB, emittedB, typeSectionB, pendingB, funcSectionB, outputB>>
vars  == <<varsA, varsB>>

A == INSTANCE ShimGen
       WITH Module <- ModuleA, Symbols <- SymbolsA, Sym <- SymA,
            Members <- MembersA, Mem <- MemA,
            phase <- phaseA, emitted <- emittedA, typeSection <- typeSectionA,
            pending <- pendingA, funcSection <- funcSectionA, output <- outputA

B == INSTANCE ShimGen
       WITH Module <- ModuleB, Symbols <- SymbolsB, Sym <- SymB,
            Members <- MembersB, Mem <- MemB,
            phase <- phaseB, emitted <- emittedB, typeSection <- typeSectionB,
            pending <- pendingB, funcSection <- funcSectionB, output <- outputB

Init == A!Init /\ B!Init

StepA == A!Next /\ UNCHANGED varsB
StepB == B!Next /\ UNCHANGED varsA

Next == StepA \/ StepB

(* Each run is its own single-threaded loop that never blocks, so each     *)
(* makes progress whatever the other does.                                 *)
Spec == Init /\ [][Next]_vars /\ WF_vars(StepA) /\ WF_vars(StepB)

-----------------------------------------------------------------------------
TypeOK == A!TypeOK /\ B!TypeOK

Delivered == outputA # <<>> /\ outputB # <<>>

(* The identifiers a header declares at file scope: its guard macro, type  *)
(* names, enum constants and function names.                               *)
Idents(h) ==
  {h.guard}
  \cup {h.types[i].name : i \in DOMAIN h.types}
  \cup UNION {h.types[i].consts : i \in DOMAIN h.types}
  \cup {h.funcs[i].name : i \in DOMAIN h.funcs}

(* Headers of two different modules can be included in one translation    *)
(* unit: their guards differ, so neither hides the other, and no typedef,  *)
(* enum constant or function is declared by both.                          *)
UnitCompiles ==
  ModuleA # ModuleB /\ Delivered =>
    Idents(outputA[1]) \cap Idents(outputB[1]) = {}

=============================================================================
