------------------------------ MODULE VcpuRun ------------------------------
(***************************************************************************)
(* The run loop of one vCPU: vcpu_run and hypercall_handle (hypervisor.c), *)
(* vmx_vcpu_run and its exit handlers (vmx/vmx.c), svm_vcpu_run and its    *)
(* exit handlers (amd-v/svm.c), while other threads start and stop the     *)
(* vCPU.                                                                   *)
(*                                                                         *)
(* The processor is external.  It may refuse an entry; the result of       *)
(* vmlaunch and vmresume is not looked at, and the exit fields are then    *)
(* those of the exit before.  A guest leaves by itself or is forced out by *)
(* an interrupt, if it is intercepted and the guest does not hold it back. *)
(*                                                                         *)
(* Nothing copies the guest's general registers between the processor and  *)
(* cpu_state, and the handlers overwrite those of cpu_state with whatever  *)
(* the host's CPUID, RDMSR and RDTSC return: a hypercall finds an          *)
(* arbitrary number in rax and an arbitrary pointer in rbx.  Of cpu_state  *)
(* only r12 is a variable, because nested_virt.c keeps a pointer in it.    *)
(***************************************************************************)
EXTENDS Integers, FiniteSets

CONSTANTS MaxCalls,   \* calls of vcpu_run
          Ctx,        \* guest contexts: RIP and whatever else of the guest's state
                      \* a VMCS or VMCB holds
          Record,     \* addresses of l2_state_t
          NULL

ASSUME VcpuRunAssumption ==
    /\ MaxCalls \in Nat
    /\ Ctx # {} /\ NULL \notin Record \cup Ctx

\* Exits whose instruction vmx.c means to emulate: their handlers advance RIP.
VmxEmulated == {"CPUID", "HLT", "MSR_READ", "MSR_WRITE", "IO_INSTRUCTION", "VMCALL",
                "RDTSC", "INVLPG", "XSETBV"}
VmxReason == VmxEmulated \cup
    {"INTERRUPT", "CR_ACCESS", "EPT_VIOLATION", "VMXOFF", "MACHINE_CHECK",
     "TASK_SWITCH", "UNHANDLED"}
\* Exits that svm_vcpu_setup asks for, and those that come without an intercept.
SvmIntercepted == {"CPUID", "RDMSR", "WRMSR", "CR_READ", "CR_WRITE", "INVLPG", "HLT",
                   "VMMCALL", "RDTSC", "VMRUN", "INTERRUPT"}
SvmReason == SvmIntercepted \cup {"NPF", "UNHANDLED"}

\* The calls hypercall_handle knows; any other number in rax is "OTHER".
CallNumber == {"VM_GET_INFO", "VCPU_GET_STATE", "VCPU_SET_STATE", "VM_GET_STATISTICS",
               "VCPU_GET_STATISTICS", "OTHER"}

VARIABLES
    cpu_vendor,
    initialized, running,   \* fields of the vCPU
    pc,          \* where its thread is: "out", "loop", "guest" or "exit"
    calls,       \* calls of vcpu_run so far
    lead,        \* vmentry_count - vmexit_count
    reason,      \* exit reason in the VMCS or VMCB
    armed,       \* are the interrupt and the instruction intercepts set?
    open,        \* the guest's own interrupt flag, RFLAGS.IF (AMD)
    ctx,         \* guest state in the VMCS or VMCB
    r12,         \* cpu_state.gprs.r12
    crashed      \* the process has ended with a fault

vcpuVars == <<initialized, running, calls, lead>>
procVars == <<reason, armed, open, ctx>>
vars == <<cpu_vendor, vcpuVars, procVars, pc, r12, crashed>>

Intel == cpu_vendor = "INTEL"

Init ==
    /\ cpu_vendor \in {"INTEL", "AMD"}
    /\ initialized = FALSE /\ running = FALSE
    /\ pc = "out" /\ calls = 0 /\ lead = 0
    /\ reason = "UNHANDLED"
    /\ armed = {} /\ open = FALSE /\ ctx \in Ctx
    /\ r12 = NULL /\ crashed = FALSE

----------------------------------------------------------------------------
(* Starting and stopping, by any thread.                                   *)

\* Control fields, host state and guest state; external interrupts exit.
vmx_vcpu_setup ==
    /\ armed' = {"INTERRUPT"}
    /\ ctx' \in Ctx
    /\ UNCHANGED open

\* A store to the register slots 0x00 to 0x18 of the VMCB.  VMCB_OFFSET_INTERCEPT
\* is 0: the intercept bits become bits of the register.
StoreRegisters == armed' \in SUBSET {"INTERRUPT", "INSTRUCTION"}

\* The intercepts are set first, the registers stored over them.
svm_vcpu_setup ==
    /\ StoreRegisters
    /\ ctx' \in Ctx /\ open' \in BOOLEAN

vcpu_start ==
    /\ ~crashed /\ ~running
    /\ running' = TRUE
    /\ initialized' = TRUE
    /\ \/ initialized /\ UNCHANGED <<armed, ctx, open>>
       \/ ~initialized /\ Intel /\ vmx_vcpu_setup
       \/ ~initialized /\ ~Intel /\ svm_vcpu_setup
    /\ UNCHANGED <<cpu_vendor, calls, lead, pc, reason, r12, crashed>>

vcpu_stop ==
    /\ ~crashed /\ running
    /\ running' = FALSE
    /\ UNCHANGED <<cpu_vendor, initialized, calls, lead, procVars, pc, r12, crashed>>

----------------------------------------------------------------------------
(* The loop.                                                               *)

\* vcpu_run counts an entry before the loop counts its own.
vcpu_run ==
    /\ ~crashed /\ pc = "out" /\ initialized /\ calls < MaxCalls
    /\ pc' = "loop"
    /\ calls' = calls + 1
    /\ lead' = lead + 1
    /\ UNCHANGED <<cpu_vendor, initialized, running, procVars, r12, crashed>>

loop_ends ==
    /\ ~crashed /\ pc = "loop" /\ ~running
    /\ pc' = "out"
    /\ UNCHANGED <<cpu_vendor, vcpuVars, procVars, r12, crashed>>

\* One VMLAUNCH, VMRESUME or VMRUN, which may be refused.
Entry ==
    \/ pc' = "guest" /\ UNCHANGED reason
    \/ pc' = "exit" /\ reason' = IF Intel THEN reason ELSE "UNHANDLED"

MutCountsWhenEntered ==
    /\ ~crashed /\ pc = "loop" /\ running
    /\ Entry
    /\ lead' = IF pc' = "guest" THEN lead + 1 ELSE lead
    /\ UNCHANGED <<cpu_vendor, initialized, running, calls, armed, open, ctx, r12, crashed>>

MutLoopsForEver ==
    /\ ~crashed /\ pc = "loop"
    /\ lead' = lead + 1
    /\ Entry
    /\ UNCHANGED <<cpu_vendor, initialized, running, calls, armed, open, ctx, r12, crashed>>

loop_enters ==
    /\ ~crashed /\ pc = "loop" /\ running
    /\ lead' = lead + 1
    /\ Entry
    /\ UNCHANGED <<cpu_vendor, initialized, running, calls, armed, open, ctx, r12, crashed>>

GuestLeaves(r) ==
    /\ ~crashed /\ pc = "guest"
    /\ pc' = "exit"
    /\ reason' = r
    /\ ctx' \in Ctx
    /\ UNCHANGED <<cpu_vendor, vcpuVars, armed, open, r12, crashed>>

\* The guest does something that exits.
GuestExits ==
    \E r \in IF Intel THEN VmxReason
             ELSE {"NPF", "UNHANDLED"} \cup
                  IF "INSTRUCTION" \in armed THEN SvmIntercepted \ {"INTERRUPT"} ELSE {} :
        GuestLeaves(r)

\* STI and CLI of the guest, which do not exit.
GuestSetsFlag ==
    /\ ~crashed /\ pc = "guest" /\ ~Intel
    /\ open' = ~open
    /\ UNCHANGED <<cpu_vendor, vcpuVars, pc, reason, armed, ctx, r12, crashed>>

\* Would an interrupt of the host take the processor away from the guest?  VMX
\* exits whatever the guest's flag is.  SVM does not: V_INTR_MASKING is not set
\* by svm_vcpu_setup, so the guest's flag holds back the host's interrupts too.
\* VMRUN itself opens the global flag of STGI and CLGI.
Interruptible == "INTERRUPT" \in armed /\ (Intel \/ open)

InterruptExits == Interruptible /\ GuestLeaves("INTERRUPT")

Return(result) == pc' = IF result = "OK" THEN "loop" ELSE "out"

\* VMCS_GUEST_RIP plus the instruction length: another context.
AdvanceRip == ctx' \in Ctx

Emulated == AdvanceRip /\ Return("OK") /\ UNCHANGED <<running, crashed>>

\* The handler has left everything but the result alone.
Nothing(result) == Return(result) /\ UNCHANGED <<ctx, running, crashed>>

----------------------------------------------------------------------------
(* hypercall_handle.  The pointer in rbx is used as an address of the host *)
(* unless it is NULL; the copy may fault, or read any bytes.               *)

hypercall_status(call) == IF call = "OTHER" THEN "NOT_SUPPORTED" ELSE "OK"

hypercall_handle(call) ==
    /\ Return(hypercall_status(call))
    /\ \/ UNCHANGED <<r12, crashed>>
       \/ call = "VCPU_SET_STATE" /\ r12' \in Record \cup {NULL} /\ UNCHANGED crashed
       \/ call \in {"VCPU_GET_STATE", "VCPU_SET_STATE"} /\ crashed' = TRUE /\ UNCHANGED r12

----------------------------------------------------------------------------
(* Exits of VMX: what a handler does to RIP, to running and to r12, and    *)
(* what it returns.                                                        *)

\* RIP moves on whatever the hypercall returned.
vmx_handle_vmcall ==
    /\ \E call \in CallNumber : hypercall_handle(call)
    /\ AdvanceRip
    /\ UNCHANGED running

vmx_handle_interrupt == Nothing("OK")
vmx_handle_cpuid     == Emulated
vmx_handle_hlt       == Emulated     \* it does not sleep
vmx_handle_cr_access == Nothing("OK")
vmx_handle_msr_read  == Emulated
vmx_handle_msr_write == Emulated
vmx_handle_io        == Emulated     \* no port is accessed

\* A misconfiguration or an invalid address is an error.
vmx_handle_ept_violation == \E result \in {"OK", "GENERIC"} : Nothing(result)

vmx_handle_rdtsc  == Emulated
vmx_handle_invlpg == Emulated
vmx_handle_xsetbv == Emulated

vmx_handle_vmxoff ==
    /\ running' = FALSE
    /\ Return("OK")
    /\ UNCHANGED <<ctx, crashed>>

vmx_handle_machine_check ==
    /\ running' = FALSE
    /\ Return("GENERIC")
    /\ UNCHANGED <<ctx, crashed>>

vmx_handle_task_switch == Nothing("NOT_SUPPORTED")

vmx_handle_vmexit ==
    /\ \/ reason = "VMCALL" /\ vmx_handle_vmcall
       \/ /\ UNCHANGED r12
          /\ \/ reason = "INTERRUPT"      /\ vmx_handle_interrupt
             \/ reason = "CPUID"          /\ vmx_handle_cpuid
             \/ reason = "HLT"            /\ vmx_handle_hlt
             \/ reason = "CR_ACCESS"      /\ vmx_handle_cr_access
             \/ reason = "MSR_READ"       /\ vmx_handle_msr_read
             \/ reason = "MSR_WRITE"      /\ vmx_handle_msr_write
             \/ reason = "IO_INSTRUCTION" /\ vmx_handle_io
             \/ reason = "EPT_VIOLATION"  /\ vmx_handle_ept_violation
             \/ reason = "VMXOFF"         /\ vmx_handle_vmxoff
             \/ reason = "RDTSC"          /\ vmx_handle_rdtsc
             \/ reason = "INVLPG"         /\ vmx_handle_invlpg
             \/ reason = "XSETBV"         /\ vmx_handle_xsetbv
             \/ reason = "MACHINE_CHECK"  /\ vmx_handle_machine_check
             \/ reason = "TASK_SWITCH"    /\ vmx_handle_task_switch
             \/ reason = "UNHANDLED"      /\ Nothing("GENERIC")
    /\ UNCHANGED armed

----------------------------------------------------------------------------
(* Exits of SVM.  No handler advances RIP; results go to the register      *)
(* slots of the VMCB, which are its intercept words too.                   *)

svm_handle_cpuid     == StoreRegisters /\ Return("OK")
svm_handle_rdmsr     == StoreRegisters /\ Return("OK")
svm_handle_wrmsr     == UNCHANGED armed /\ Return("OK")
svm_handle_cr_read   == UNCHANGED armed /\ Return("OK")
svm_handle_cr_write  == UNCHANGED armed /\ Return("OK")
svm_handle_invlpg    == UNCHANGED armed /\ Return("OK")
svm_handle_hlt       == UNCHANGED armed /\ Return("OK")
\* hypercall_handle is not called; the result stored was never assigned.
svm_handle_vmmcall   == StoreRegisters /\ Return("NOT_SUPPORTED")
svm_handle_npf       == UNCHANGED armed /\ Return("OK")
svm_handle_rdtsc     == StoreRegisters /\ Return("OK")
svm_handle_interrupt == UNCHANGED armed /\ Return("OK")
svm_handle_vmrun     == UNCHANGED armed /\ Return("NOT_SUPPORTED")

svm_handle_exit ==
    /\ \/ reason = "CPUID"     /\ svm_handle_cpuid
       \/ reason = "RDMSR"     /\ svm_handle_rdmsr
       \/ reason = "WRMSR"     /\ svm_handle_wrmsr
       \/ reason = "CR_READ"   /\ svm_handle_cr_read
       \/ reason = "CR_WRITE"  /\ svm_handle_cr_write
       \/ reason = "INVLPG"    /\ svm_handle_invlpg
       \/ reason = "HLT"       /\ svm_handle_hlt
       \/ reason = "VMMCALL"   /\ svm_handle_vmmcall
       \/ reason = "NPF"       /\ svm_handle_npf
       \/ reason = "RDTSC"     /\ svm_handle_rdtsc
       \/ reason = "INTERRUPT" /\ svm_handle_interrupt
       \/ reason = "VMRUN"     /\ svm_handle_vmrun
       \/ reason = "UNHANDLED" /\ UNCHANGED armed /\ Return("GENERIC")
    /\ UNCHANGED <<ctx, running, r12, crashed>>

MutExitCountsTwice ==
    /\ ~crashed /\ pc = "exit"
    /\ lead' = lead - 2
    /\ IF Intel THEN vmx_handle_vmexit ELSE svm_handle_exit
    /\ UNCHANGED <<cpu_vendor, initialized, calls, reason, open>>

exit_handled ==
    /\ ~crashed /\ pc = "exit"
    /\ lead' = lead - 1
    /\ IF Intel THEN vmx_handle_vmexit ELSE svm_handle_exit
    /\ UNCHANGED <<cpu_vendor, initialized, calls, reason, open>>

----------------------------------------------------------------------------
Run == vcpu_start \/ vcpu_stop \/ vcpu_run \/ loop_ends \/ loop_enters
       \/ GuestExits \/ GuestSetsFlag \/ InterruptExits \/ exit_handled

\* The thread in vcpu_run goes on, and the host's timer interrupts a guest:
\* strongly, because an interrupt that is held back stays pending and is taken
\* when the guest opens its flag.  Nothing obliges a guest to exit by itself or
\* anyone to start, stop or call.
RunFairness == WF_vars(loop_ends) /\ WF_vars(loop_enters)
               /\ SF_vars(InterruptExits) /\ WF_vars(exit_handled)
=============================================================================
