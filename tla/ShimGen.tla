------------------------------ MODULE ShimGen ------------------------------
(***************************************************************************)
(* The shim generator as one generation run: from a Symbol Model (spec 3,  *)
(* 4.1) to one header (spec 4.3 - 4.6).  What each declaration looks like  *)
(* is taken from the two emitted headers under src/sandbox/cmd/cgen/module:*)
(*                                                                         *)
(*  - the type section comes first and declares every symbol of the model  *)
(*    once: a class or protocol as "typedef void* Name;", a struct as a    *)
(*    one-field box, an enum as a C enum with the single placeholder       *)
(*    "<Name>_Unknown = 0";                                                *)
(*  - the function section follows: every property gets a getter           *)
(*    "void* <usr>_get(void* self)" and a setter                           *)
(*    "void <usr>_set(void* self, void* value)", every method one thunk    *)
(*    "void* <usr>(void* self, void* p1, ...)", one void* per parameter;   *)
(*  - every signature uses void*: no type reference is resolved, so a      *)
(*    reference to a type outside the model is emitted like any other.     *)
(*                                                                         *)
(* The order of both sections follows neither the model's order nor first *)
(* use (Hypervisor.shim.h declares hv_vcpu_exit_exception_t first, whose   *)
(* first use is its 6th member, and interleaves the members of            *)
(* hv_apic_state and hv_vcpu_exit_t).  The model lets the generator pick   *)
(* the next symbol and the next member freely: the order is the order of   *)
(* an unordered collection.                                                *)
(***************************************************************************)
EXTENDS Naturals, Sequences, FiniteSets, FiniteSetsExt, Functions, TLC,
        ShimNames

CONSTANTS
  Module,      \* the name of the module the header is generated for
  Symbols,     \* mangled identities of the model's types
  Members,     \* mangled identities (USRs) of the model's members
  Primitives,  \* primitive type references: integer widths, floats, Bool
  Void,        \* the return type of a method that returns no value
  Sym,         \* [Symbols -> [kind : Kinds, qname : name]]
  Mem          \* [Members -> [owner : Symbols, kind : {"property","method"},
               \*              usr : name, writable : BOOLEAN, type : ref,
               \*              params : Seq(ref), ret : ref]]

Kinds == {"class", "struct", "enum", "protocol"}

ASSUME \A s \in Symbols : Sym[s].kind \in Kinds
ASSUME \A m \in Members : Mem[m].owner \in Symbols
ASSUME \A m \in Members : Mem[m].kind \in {"property", "method"}

VARIABLES
  phase,        \* "types", "members" or "done"
  emitted,      \* the Deduplicator's set of symbols already declared
  typeSection,  \* the type declarations written so far, in order
  pending,      \* the members whose declarations are not yet written
  funcSection,  \* the function declarations written so far, in order
  output        \* <<>> until the header is assembled, then <<header>>

vars == <<phase, emitted, typeSection, pending, funcSection, output>>

(* The type references a member carries (spec 3).                         *)
Refs(m) ==
  IF Mem[m].kind = "property" THEN {Mem[m].type}
  ELSE Range(Mem[m].params) \cup {Mem[m].ret}

-----------------------------------------------------------------------------
(* The declarations, as the headers write them.                            *)

\* mutant: a protocol given a representation of its own
ShapeProtocolOwn ==
  ("class" :> "pointer") @@ ("protocol" :> "protocol") @@
  ("struct" :> "box") @@ ("enum" :> "enum")

(* The C shape of each kind: "pointer" is typedef void*, "box" a struct    *)
(* holding one void* _internal, "enum" a C enum.                           *)
Shape ==
  ("class" :> "pointer") @@ ("protocol" :> "pointer") @@
  ("struct" :> "box") @@ ("enum" :> "enum")

TypeDecl(s) ==
  [sym    |-> s,
   name   |-> TypeName(Sym[s].qname),
   shape  |-> Shape[Sym[s].kind],
   consts |-> IF Sym[s].kind = "enum"
                THEN {EnumUnknownName(Sym[s].qname)} ELSE {}]

Getter(m) ==
  [name |-> GetterName(Mem[m].usr), ret |-> "void*", arity |-> 1,
   member |-> m, role |-> "get"]

Setter(m) ==
  [name |-> SetterName(Mem[m].usr), ret |-> "void", arity |-> 2,
   member |-> m, role |-> "set"]

Thunk(m) ==
  [name |-> ThunkName(Mem[m].usr), ret |-> "void*",
   arity |-> 1 + Len(Mem[m].params), member |-> m, role |-> "thunk"]

-----------------------------------------------------------------------------
(* The steps of a generation run.                                          *)

Init ==
  /\ phase = "types"
  /\ emitted = {}
  /\ typeSection = <<>>
  /\ pending = Members
  /\ funcSection = <<>>
  /\ output = <<>>

(* Declare symbol s in the type section unless it is declared already.    *)
EmitTypeDecl(s) ==
  /\ phase = "types"
  /\ s \notin emitted
  /\ typeSection' = Append(typeSection, TypeDecl(s))
  /\ emitted' = emitted \cup {s}
  /\ UNCHANGED <<phase, pending, funcSection, output>>

\* mutant: the type section closed one declaration early (off by one)
EndTypesOffByOne ==
  /\ phase = "types"
  /\ Cardinality(emitted) >= Cardinality(Symbols) - 1
  /\ phase' = "members"
  /\ UNCHANGED <<emitted, typeSection, pending, funcSection, output>>

(* Every symbol is declared: move on to the members.                       *)
EndTypes ==
  /\ phase = "types"
  /\ emitted = Symbols
  /\ phase' = "members"
  /\ UNCHANGED <<emitted, typeSection, pending, funcSection, output>>

(* A property's getter and setter, whether or not it is writable.         *)
EmitProperty(m) ==
  /\ phase = "members"
  /\ m \in pending
  /\ Mem[m].kind = "property"
  /\ funcSection' = funcSection \o <<Getter(m), Setter(m)>>
  /\ pending' = pending \ {m}
  /\ UNCHANGED <<phase, emitted, typeSection, output>>

(* A method's thunk.                                                       *)
EmitMethod(m) ==
  /\ phase = "members"
  /\ m \in pending
  /\ Mem[m].kind = "method"
  /\ funcSection' = Append(funcSection, Thunk(m))
  /\ pending' = pending \ {m}
  /\ UNCHANGED <<phase, emitted, typeSection, output>>

(* The members loop: whichever member comes next gets its declarations.  *)
EmitMember(m) == EmitProperty(m) \/ EmitMethod(m)

(* Wrap both sections in the include guard and the extern "C" block and    *)
(* hand the text to the collaborator.                                      *)
Assemble ==
  /\ phase = "members"
  /\ pending = {}
  /\ output' = <<[guard |-> GuardName(Module),
                  types |-> typeSection, funcs |-> funcSection]>>
  /\ phase' = "done"
  /\ UNCHANGED <<emitted, typeSection, pending, funcSection>>

Next ==
  \/ \E s \in Symbols : EmitTypeDecl(s)
  \/ EndTypes
  \/ \E m \in Members : EmitMember(m)
  \/ Assemble

(* Generation is one single-threaded loop that never blocks (spec 5): a    *)
(* step that stays enabled is eventually taken.                            *)
Spec == Init /\ [][Next]_vars /\ WF_vars(Next)


-----------------------------------------------------------------------------
(* Properties.                                                             *)

TypeDeclRec ==
  [sym : Symbols, name : STRING, shape : {"pointer", "box", "enum"},
   consts : SUBSET STRING]

FuncDeclRec ==
  [name : STRING, ret : {"void*", "void"}, arity : Nat, member : Members,
   role : {"get", "set", "thunk"}]

TypeOK ==
  /\ phase \in {"types", "members", "done"}
  /\ emitted \subseteq Symbols
  /\ pending \subseteq Members
  /\ typeSection \in Seq(TypeDeclRec)
  /\ funcSection \in Seq(FuncDeclRec)
  /\ Len(output) <= 1
  /\ \A k \in DOMAIN output :
       /\ output[k].types \in Seq(TypeDeclRec)
       /\ output[k].funcs \in Seq(FuncDeclRec)

(* Uniqueness (spec 4.2, 8): the typedef names, enum constants and         *)
(* function names of the emitted header are pairwise distinct, so the      *)
(* header compiles.  Getter and setter share the sanitized USR and differ  *)
(* only by their suffix; type names and USRs are sanitized without         *)
(* escaping.                                                               *)
UniqueIdentifiers ==
  output # <<>> =>
    LET h == output[1]
        decls == {<<h.types[i].name, "type", i>> : i \in DOMAIN h.types}
                 \cup UNION {{<<c, "const", i>> : c \in h.types[i].consts} :
                                i \in DOMAIN h.types}
                 \cup {<<h.funcs[i].name, "func", i>> : i \in DOMAIN h.funcs}
    IN  \A d1, d2 \in decls : d1[1] = d2[1] => d1 = d2

(* The run implements the contract of ShimContract: nothing is handed over *)
(* until a complete header is, every symbol is declared exactly once with  *)
(* its representation, every member has its declarations (spec 8,          *)
(* Totality and Single-definition), the header is never rewritten, and a   *)
(* header is eventually handed over.  The generator's sections and its     *)
(* Deduplicator set are hidden; the header is what the collaborator sees.  *)
Contract == INSTANCE ShimContract WITH out <- output

RefinesContract == Contract!Spec

-----------------------------------------------------------------------------
(* What the spec says of the header and the emitted headers contradict.    *)

(* Spec 4.4: a setter is emitted only for a read-write property.           *)
SetterOnlyIfWritable ==
  output # <<>> =>
    \A i \in DOMAIN output[1].funcs :
      output[1].funcs[i].role = "set" => Mem[output[1].funcs[i].member].writable

(* Spec 4.4: a method that returns no value declares a void return slot.   *)
VoidMethodsReturnVoid ==
  output # <<>> =>
    \A i \in DOMAIN output[1].funcs :
      LET d == output[1].funcs[i]
      IN  d.role = "thunk" /\ Mem[d.member].ret = Void => d.ret = "void"

(* Spec 4.1, 4.5, 8: every type a member references is a primitive or a    *)
(* symbol of the model declared in the header; a reference to an identity  *)
(* absent from the model aborts the run with UnresolvedReference.          *)
ReferencedTypesDeclared ==
  output # <<>> =>
    \A m \in Members : \A r \in Refs(m) :
      \/ r \in Primitives \cup {Void}
      \/ \E i \in DOMAIN output[1].types : output[1].types[i].sym = r

(* Spec 4.3, 4.4: a property whose value type is a primitive passes the   *)
(* value through as the matching fixed-width C scalar, so its getter does  *)
(* not return an opaque handle.                                             *)
PrimitivesPassThrough ==
  output # <<>> =>
    \A i \in DOMAIN output[1].funcs :
      LET d == output[1].funcs[i]
      IN  d.role = "get" /\ Mem[d.member].type \in Primitives => d.ret # "void*"

(* The positions of the function declarations that use symbol s: as the   *)
(* type of self or as a value, parameter or return type.                   *)
UsedAt(h, s) ==
  {i \in DOMAIN h.funcs :
     s = Mem[h.funcs[i].member].owner \/ s \in Refs(h.funcs[i].member)}

(* Spec 4.5, 4.6: the type declarations are ordered by first use: a type   *)
(* used earlier by the function section is declared earlier, and a type    *)
(* that is used is declared before one that is not.                        *)
TypesInFirstUseOrder ==
  output # <<>> =>
    LET h == output[1]
    IN  \A i, j \in DOMAIN h.types :
          i < j /\ UsedAt(h, h.types[j].sym) # {} =>
            /\ UsedAt(h, h.types[i].sym) # {}
            /\ Min(UsedAt(h, h.types[i].sym)) <= Min(UsedAt(h, h.types[j].sym))

=============================================================================
