----------------------------- MODULE ShimNames -----------------------------
(***************************************************************************)
(* The Identifier Synthesizer of the shim generator (spec 4.2), as the two *)
(* headers it emitted (src/sandbox/cmd/cgen/module/*.shim.h) show it:      *)
(*                                                                         *)
(*  - a type is named by its qualified name with "." written as "_"        *)
(*      VZVirtualMachine.State       -> VZVirtualMachine_State             *)
(*  - an enum whose cases are not modelled gets one constant, the type     *)
(*    name followed by "_Unknown"                                          *)
(*  - a property's getter and setter are named by the property's USR with  *)
(*    every character that is illegal in a C identifier written as "_",    *)
(*    followed by "_get" and "_set"                                        *)
(*      c:objc(cs)VZVirtualMachine(py)state                                *)
(*                      -> c_objc_cs_VZVirtualMachine_py_state_get         *)
(*  - a method's thunk is named by its sanitized USR alone;                *)
(*  - the include guard is the upper-cased module name and "_SHIM_H".      *)
(*                                                                         *)
(* Existing underscores are never escaped and no ordinal suffix occurs.    *)
(*                                                                         *)
(* A name (qualified name or USR) is a sequence of tokens: a maximal run   *)
(* of identifier characters (letters, digits, "_") written as a string,    *)
(* or a single punctuation character, an element of Punct.                 *)
(***************************************************************************)
EXTENDS Sequences

CONSTANTS
  Punct,   \* the punctuation characters that occur in names
  Upper    \* the upper-case spelling of each module name

(* The text of a name once every punctuation character is replaced by an   *)
(* underscore and identifier runs are kept as they are.                    *)
RECURSIVE Sanitize(_)
Sanitize(n) ==
  IF n = <<>> THEN ""
  ELSE (IF Head(n) \in Punct THEN "_" ELSE Head(n)) \o Sanitize(Tail(n))

\* mutant: a nested type named by its innermost component alone
TypeNameLeaf(qname) == Sanitize(<<qname[Len(qname)]>>)

TypeName(qname) == Sanitize(qname)

EnumUnknownName(qname) == TypeName(qname) \o "_Unknown"

GetterName(usr) == Sanitize(usr) \o "_get"

\* mutant: the setter suffix copied from the getter
SetterNameCopiedSuffix(usr) == Sanitize(usr) \o "_get"

SetterName(usr) == Sanitize(usr) \o "_set"

ThunkName(usr) == Sanitize(usr)

\* mutant: one guard macro shared by every generated header
GuardNameFixed(module) == "SHIM_H"

(* The include-guard macro: the module name upper-cased, then "_SHIM_H"    *)
(*   Hypervisor -> HYPERVISOR_SHIM_H                                       *)
GuardName(module) == Upper[module] \o "_SHIM_H"

=============================================================================
