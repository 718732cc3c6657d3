----------------------------- MODULE ShimModels -----------------------------
(***************************************************************************)
(* Symbol Models taken from the two emitted headers, for checking ShimGen  *)
(* and ShimPair.  Identities are the symbols' and members' names; a name   *)
(* is a sequence of identifier runs and punctuation characters (see        *)
(* ShimNames).                                                             *)
(***************************************************************************)
EXTENDS Sequences, TLC

MCPunct == {".", ":", "@", "(", ")"}

MCUpper == ("Hypervisor" :> "HYPERVISOR") @@ ("Virtualization" :> "VIRTUALIZATION")

(* USR of a field of a C struct:  c:@S@<struct>@FI@<field>                 *)
CFieldUSR(struct, field) == <<"c", ":", "@", "S", "@", struct, "@", "FI", "@", field>>

(* USR of an Objective-C member: c:objc(<cs|pl>)<container>(<py|im>)<sel>  *)
ObjCUSR(ck, container, mk, sel) ==
  <<"c", ":", "objc", "(", ck, ")", container, "(", mk, ")">> \o sel

Prop(owner, usr, writable, type) ==
  [owner |-> owner, kind |-> "property", usr |-> usr, writable |-> writable,
   type |-> type, params |-> <<>>, ret |-> "Void"]

Method(owner, usr, params, ret) ==
  [owner |-> owner, kind |-> "method", usr |-> usr, writable |-> FALSE,
   type |-> "Void", params |-> params, ret |-> ret]

-----------------------------------------------------------------------------
(* An excerpt of both headers: Hypervisor.shim.h 16-19, 84-87, 262-264;    *)
(* Virtualization.shim.h 30-32, 74-75, 107-108, 427-428, 606-607, 666-668, *)
(* 755-756.  VZVirtualMachine.state is read-only in the framework;        *)
(* start(), guestDidStop(_:) and restoreMachineStateFrom(url:) return     *)
(* no value; URL is a Foundation type the model does not hold.            *)

HdrSymbols ==
  {"hv_apic_state", "hv_boot_state", "VZVirtualMachine",
   "VZVirtualMachine.State", "VZVirtualMachineDelegate"}

HdrSym ==
  ("hv_apic_state" :> [kind |-> "struct", qname |-> <<"hv_apic_state">>]) @@
  ("hv_boot_state" :> [kind |-> "enum", qname |-> <<"hv_boot_state">>]) @@
  ("VZVirtualMachine" :> [kind |-> "class", qname |-> <<"VZVirtualMachine">>]) @@
  ("VZVirtualMachine.State" :>
      [kind |-> "enum", qname |-> <<"VZVirtualMachine", ".", "State">>]) @@
  ("VZVirtualMachineDelegate" :>
      [kind |-> "protocol", qname |-> <<"VZVirtualMachineDelegate">>])

HdrMembers ==
  {"boot_state", "state", "start", "restoreMachineStateFrom", "guestDidStop"}

HdrMem ==
  ("boot_state" :>
      Prop("hv_apic_state", CFieldUSR("hv_apic_state", "boot_state"),
           TRUE, "hv_boot_state")) @@
  ("state" :>
      Prop("VZVirtualMachine",
           ObjCUSR("cs", "VZVirtualMachine", "py", <<"state">>),
           FALSE, "VZVirtualMachine.State")) @@
  ("start" :>
      Method("VZVirtualMachine",
             ObjCUSR("cs", "VZVirtualMachine", "im",
                     <<"startWithCompletionHandler", ":">>),
             <<>>, "Void")) @@
  ("restoreMachineStateFrom" :>
      Method("VZVirtualMachine",
             ObjCUSR("cs", "VZVirtualMachine", "im",
                     <<"restoreMachineStateFromURL", ":",
                       "completionHandler", ":">>),
             <<"URL">>, "Void")) @@
  ("guestDidStop" :>
      Method("VZVirtualMachineDelegate",
             ObjCUSR("pl", "VZVirtualMachineDelegate", "im",
                     <<"guestDidStopVirtualMachine", ":">>),
             <<"VZVirtualMachine">>, "Void"))

HdrPrimitives == {"UInt32", "Bool"}

-----------------------------------------------------------------------------
(* Two imported C enums and their rawValue properties, Hypervisor.shim.h   *)
(* 134-146 and 425-433.  The Swift USR spells the property's type: the     *)
(* rawValue of hv_gic_ich_reg_t is a UInt16, of hv_exit_reason_t a UInt32.  *)

RawSymbols == {"hv_gic_ich_reg_t", "hv_exit_reason_t"}

RawSym ==
  ("hv_gic_ich_reg_t" :> [kind |-> "struct", qname |-> <<"hv_gic_ich_reg_t">>]) @@
  ("hv_exit_reason_t" :> [kind |-> "struct", qname |-> <<"hv_exit_reason_t">>])

RawMembers == {"ich_rawValue", "exit_rawValue"}

RawMem ==
  ("ich_rawValue" :>
      Prop("hv_gic_ich_reg_t",
           <<"s", ":", "So16hv_gic_ich_reg_ta8rawValues6UInt16Vvp">>,
           TRUE, "UInt16")) @@
  ("exit_rawValue" :>
      Prop("hv_exit_reason_t",
           <<"s", ":", "So16hv_exit_reason_ta8rawValues6UInt32Vvp">>,
           TRUE, "UInt32"))

RawPrimitives == {"UInt16", "UInt32", "Bool"}

(* The Virtualization side of the excerpt: VZVirtualMachine, its State and *)
(* its delegate protocol, with state, start() and guestDidStop(_:).        *)

VirtSymbols == {"VZVirtualMachine", "VZVirtualMachine.State", "VZVirtualMachineDelegate"}

VirtSym == [s \in VirtSymbols |-> HdrSym[s]]

VirtMembers == {"state", "start", "guestDidStop"}

VirtMem == [m \in VirtMembers |-> HdrMem[m]]

(* Nested types of Virtualization.shim.h: VZError and VZError.Code        *)
(* (139-142, 278-281), and the two InitializationOptions structs nested in  *)
(* VZEFIVariableStore and VZMacAuxiliaryStorage (324-327, 338-341, 386,    *)
(* 389).  Their innermost names coincide.                                  *)

NestedSymbols ==
  {"VZError", "VZError.Code", "VZEFIVariableStore",
   "VZEFIVariableStore.InitializationOptions", "VZMacAuxiliaryStorage",
   "VZMacAuxiliaryStorage.InitializationOptions"}

NestedSym ==
  ("VZError" :> [kind |-> "struct", qname |-> <<"VZError">>]) @@
  ("VZError.Code" :> [kind |-> "enum", qname |-> <<"VZError", ".", "Code">>]) @@
  ("VZEFIVariableStore" :> [kind |-> "class", qname |-> <<"VZEFIVariableStore">>]) @@
  ("VZEFIVariableStore.InitializationOptions" :>
      [kind |-> "struct",
       qname |-> <<"VZEFIVariableStore", ".", "InitializationOptions">>]) @@
  ("VZMacAuxiliaryStorage" :> [kind |-> "class", qname |-> <<"VZMacAuxiliaryStorage">>]) @@
  ("VZMacAuxiliaryStorage.InitializationOptions" :>
      [kind |-> "struct",
       qname |-> <<"VZMacAuxiliaryStorage", ".", "InitializationOptions">>])

-----------------------------------------------------------------------------
(* Two types whose names differ only in "." against "_": the nested enum   *)
(* VZError.Code (Virtualization.shim.h 278-281) and a C enum VZError_Code   *)
(* that a model imported from a C module could hold.                       *)

NestSymbols == {"VZError.Code", "VZError_Code"}

NestSym ==
  ("VZError.Code" :> [kind |-> "enum", qname |-> <<"VZError", ".", "Code">>]) @@
  ("VZError_Code" :> [kind |-> "enum", qname |-> <<"VZError_Code">>])

NestMembers == {}

NestMem == [m \in {} |-> Prop("VZError.Code", <<>>, TRUE, "Void")]

=============================================================================
