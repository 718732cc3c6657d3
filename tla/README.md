# TLA+ model of the ec1 C shim generator

## The system

`src/sandbox/cmd/cgen/module/` holds two C headers produced by the shim
generator that `spec.md` describes:

- `Hypervisor.shim.h`, 444 lines
- `Virtualization.shim.h`, 1069 lines

The generator reads a Symbol Model of a Swift/C framework: types (class,
struct, enum, protocol) and their members (properties, methods). It writes one
C header. The header has two sections:

1. A **type section** with one typedef per symbol:
   - a class or protocol becomes `typedef void* Name;`;
   - a struct becomes `typedef struct { void* _internal; } Name;`;
   - an enum becomes `typedef enum { Name_Unknown = 0, } Name;`.
2. A **function section**:
   - every property gets `void* <usr>_get(void* self);` and
     `void <usr>_set(void* self, void* value);`;
   - every method gets `void* <usr>(void* self, void* p...)`.

The generator's own source is not in the repository. The spec's components
split the work as follows:

- the **Symbol Model** is the input;
- the **Identifier Synthesizer** names things;
- the **Type Representation Resolver** chooses a C shape per kind;
- the **Accessor/Thunk Builder** writes the function declarations;
- the **Deduplicator** keeps each type declared once;
- the **Header Assembler** concatenates the sections.

What the generator *does* is read off the emitted headers. Where the headers
and the spec disagree, the model follows the headers, and the disagreement is
a violation run with a finding. Only the parts of the run that the headers
cannot show are marked `spec_modelled` in the map:

- the shape of the input;
- the run's start;
- the loop;
- the abstract contract.

## Inventory

| Component | State | Operations | Module |
|---|---|---|---|
| Symbol Model | symbols with kind and qualified name; members with owner, kind, USR, writability, type references | none: immutable during a run | constants of `ShimGen`, values in `ShimModels` |
| Identifier Synthesizer | none (pure) | type name, enum placeholder, getter, setter and thunk names | `ShimNames` |
| Type Representation Resolver | none (pure) | kind → pointer / box / enum; every signature slot, primitives included, → `void*` | `Shape`, `Getter`, `Setter`, `Thunk` in `ShimGen` |
| Accessor/Thunk Builder | function section, pending members | emit a property's accessors; emit a method's thunk | `ShimGen` |
| Deduplicator | set of symbols declared | refuse a second declaration | `emitted` in `ShimGen` |
| Header Assembler | output | hand over the guard and the sections once | `Assemble` in `ShimGen`; two runs composed in `ShimPair` |
| I/O, CLI, runtime bridge | — | — | not modelled (I/O glue; outside the repository) |

Hard behaviours the code exposes:

- **Emission order.** The order of both sections is arbitrary. It is neither
  model order nor first use: `Hypervisor.shim.h:11` declares
  `hv_vcpu_exit_exception_t` first, and lines 153-171 interleave members of
  two structs. That is the order of an unordered collection, so the model lets
  every step pick the next symbol or member freely.
- **Name sanitisation is not injective.** `.` and every punctuation character
  of a USR become `_`, with no escaping.
- **Setters for read-only properties.** Every property gets a setter,
  read-only ones included.
- **Void returns.** Every method thunk returns `void*`, even for methods that
  return nothing.
- **Primitives as handles.** The `rawValue` getters at
  `Hypervisor.shim.h:426-432` return `void*`, although their USRs spell
  `UInt16` and `UInt32`.
- **Several headers in one unit.** Each header has its own guard macro
  (`HYPERVISOR_SHIM_H`, `VIRTUALIZATION_SHIM_H`). Type names carry no
  module prefix.
- **Foreign references.** A type outside the model (Foundation's `URL`) is
  referenced without any declaration and without an error.

## Modules

- `ShimNames.tla` is the Identifier Synthesizer. A name is a sequence of
  tokens: identifier runs as strings, punctuation as members of `Punct`.
  `Sanitize` (RECURSIVE) writes every punctuation token as `_`. `GuardName`
  is the upper-cased module name followed by `_SHIM_H`. Upper-casing is given
  as the table `Upper` over the bounded module names.
- `ShimGen.tla` is one generation run. It has these variables:
  - `phase`;
  - `emitted` (the Deduplicator);
  - `typeSection`;
  - `pending`;
  - `funcSection`;
  - `output`.

  It has one action per step:
  - `EmitTypeDecl(s)`;
  - `EndTypes`;
  - `EmitMember(m)`, the members loop, which is either
    `EmitProperty(m)` (the getter and the setter in one step, as the headers
    always pair them) or `EmitMethod(m)` (one thunk);
  - `Assemble`.
- `ShimContract.tla` is the abstract specification: the output stays empty
  until a complete header appears in one step, and after that it never
  changes. A header is complete when:
  - every symbol is declared once with its kind's representation;
  - every property has one getter and at most one setter;
  - every method has one thunk of the right arity.

  `ShimGen` instantiates it with `out <- output` and checks it as
  `RefinesContract`.
- `ShimPair.tla` composes two runs. Each run is an instance of `ShimGen`
  with its own model and its own variables, and a step of one leaves the
  other unchanged. Spec 5 says independent runs share no state.
- `ShimModels.tla` holds the models. `MCShimGen.tla` and `MCShimPair.tla`
  extend it and the module they check. `MCShimGen` also holds ASSUMEs that
  pin the synthesized names and guards to the exact strings in the headers.
  `Hdr*` is an excerpt of both headers with
  five symbols: a struct, a C enum, a class, a nested enum and a protocol. Its
  five members are:
  - a read-write struct field;
  - a read-only class property;
  - a method with no parameters;
  - a method taking a foreign `URL`;
  - a protocol method.

  `Raw*` holds the two `rawValue` properties of `Hypervisor.shim.h:426-432`.
  `Virt*` holds the Virtualization part of `Hdr*`. `Nested*` holds six real nested and enclosing types of Virtualization.
  `MCShimNested.tla` checks them without `MCShimGen`'s ASSUMEs, so that a
  mutant of `TypeName` shows as a violated property. `Nest*` adds the name pair `VZError.Code` / `VZError_Code`.

## Runs

| Run | Expect | Checks | Shows |
|---|---|---|---|
| `gen` | pass | `TypeOK`, `UniqueIdentifiers`, `RefinesContract` | in every emission order the header is complete, its identifiers are distinct, it is delivered exactly once and eventually |
| `setter_readonly` | violation | `SetterOnlyIfWritable` | spec 4.4 vs `Virtualization.shim.h:666-668` |
| `void_return` | violation | `VoidMethodsReturnVoid` | spec 4.4 vs `Virtualization.shim.h:755-756` |
| `foreign_ref` | violation | `ReferencedTypesDeclared` | spec 4.1/4.5/8 vs `Virtualization.shim.h:427-428` |
| `type_order` | violation | `TypesInFirstUseOrder` | spec 4.5/4.6 vs `Hypervisor.shim.h:11` |
| `unit` | pass | `UnitCompiles` | a Hypervisor run over the `rawValue` properties and a Virtualization run, interleaved, give headers with distinct guards and no common file-scope identifier |
| `primitive_passthrough` | violation | `PrimitivesPassThrough` | spec 4.3 vs `Hypervisor.shim.h:426-432`: a `UInt32` getter returns `void*` |
| `nested` | pass | `UniqueIdentifiers` | the real nested types `VZEFIVariableStore.InitializationOptions` and `VZMacAuxiliaryStorage.InitializationOptions` (`Virtualization.shim.h:324-341`), and `VZError` / `VZError.Code`, keep distinct names in every emission order |
| `ambiguous_names` | violation | `UniqueIdentifiers` | spec 4.2: without escaping, `VZError.Code` and `VZError_Code` collide |

**Bounds.** The `gen` model has five symbols and five members, one of each
shape of member the headers contain, which gives 53,846 distinct states. Every
permutation of both sections is explored. The properties depend only on
which kinds of declaration occur, so adding members would add permutations
without adding cases.

The other passing runs:
- `nested` has 3,397 states over six types;
- `unit` composes two runs of three symbols each (2,812 states), with
  members on both sides so that function names as well as type names and
  guards meet.

The order of both sections is left free, because the headers show an order
that follows no key of the model. Whether two runs on one model produce the
same bytes therefore cannot be decided from the headers, and no run asks it.

**Fairness.** Generation is one single-threaded loop that never blocks or
waits (spec 5). `WF_vars(Next)` says only that the run does not stop while a
step remains. In `ShimPair` each run has its own weak fairness, because
independent runs make progress separately. The runs terminate, so deadlock
checking is off (`CHECK_DEADLOCK FALSE`).

**Mutants.** Each property of a passing run is broken by a plausible slip in
the generator:
- a protocol given its own shape breaks `TypeOK`;
- a setter suffix copied from the getter breaks `UniqueIdentifiers`;
- closing the type section one declaration early breaks `RefinesContract`;
- one guard macro shared by all modules breaks `UnitCompiles`;
- naming a nested type by its innermost component breaks `UniqueIdentifiers`
  on `nested`.

## Not modelled

- Text layout: `extern "C"`, `#include <stdint.h>` and the comments. The
  guard is modelled.
- Parameter names and parameter counts of thunks (`observer`,
  `saveFileURL`). They are not file-scope identifiers, and the runtime bridge
  that would consume them is not in the repository.
- Reading the Symbol Model and writing the file.
- The runtime bridge that implements the declared functions.
- The spec's error paths (`UnresolvedReference`, `UnrepresentableType`,
  `IdentifierCollision`). The headers show none of them firing: a foreign
  reference is emitted and collisions are not detected.

## Remaining work and why it is not modelled

What the project covers:
- completeness, uniqueness and one-shot delivery of a header, in every order;
- two modules' headers in one translation unit;
- primitive passthrough, read-only setters, void returns, foreign references
  and type order, each against the spec;
- nested-name uniqueness.

What is left, and why:
- **The spec's escaped, ordinal-disambiguated naming scheme.** Spec 4.2 does
  not fix the escape, and the code uses none. A reference operator would be
  invented rather than translated. The code's non-injectivity is shown by
  `ambiguous_names`.
- **The error paths** (`UnresolvedReference`, `UnrepresentableType`,
  `IdentifierCollision`). The code has none: `foreign_ref` and
  `ambiguous_names` show the two cases where the spec requires an error.
- **The Header Assembler's layout** (`extern "C"`, `#include <stdint.h>`,
  comments). It declares nothing, so the component stays `partly`.
