----------------------------- MODULE MCShimGen -----------------------------
(* ShimGen instantiated with the models of ShimModels.                     *)
EXTENDS ShimGen, ShimModels

(* The names the model synthesizes are the ones the headers contain.       *)
ASSUME GetterName(HdrMem["boot_state"].usr) = "c__S_hv_apic_state_FI_boot_state_get"
ASSUME GetterName(HdrMem["state"].usr) = "c_objc_cs_VZVirtualMachine_py_state_get"
ASSUME ThunkName(HdrMem["restoreMachineStateFrom"].usr)
         = "c_objc_cs_VZVirtualMachine_im_restoreMachineStateFromURL_completionHandler_"
ASSUME ThunkName(HdrMem["guestDidStop"].usr)
         = "c_objc_pl_VZVirtualMachineDelegate_im_guestDidStopVirtualMachine_"
ASSUME EnumUnknownName(HdrSym["VZVirtualMachine.State"].qname)
         = "VZVirtualMachine_State_Unknown"

(* The include guards at Hypervisor.shim.h:1-2 and Virtualization.shim.h:1-2 *)
ASSUME GuardName("Hypervisor") = "HYPERVISOR_SHIM_H"
ASSUME GuardName("Virtualization") = "VIRTUALIZATION_SHIM_H"

(* The rawValue getter at Hypervisor.shim.h:431.                           *)
ASSUME GetterName(RawMem["exit_rawValue"].usr)
         = "s_So16hv_exit_reason_ta8rawValues6UInt32Vvp_get"

(* The nested type names at Virtualization.shim.h:327 and 341.             *)
ASSUME TypeName(NestedSym["VZMacAuxiliaryStorage.InitializationOptions"].qname)
         = "VZMacAuxiliaryStorage_InitializationOptions"

=============================================================================
