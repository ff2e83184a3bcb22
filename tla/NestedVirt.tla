----------------------------- MODULE NestedVirt -----------------------------
(***************************************************************************)
(* Nested virtualisation (nested/nested_virt.c) beside the run loop of     *)
(* VcpuRun.  No exit handler calls these functions, so the thread of the   *)
(* vCPU calls them when it is not in vcpu_run.  nested_vmx and nested_svm  *)
(* belong to the VM: the threads of its other vCPUs change them too, at    *)
(* any time.  The L2 state belongs to the vCPU: nested_save_l2_state       *)
(* allocates it and keeps the only pointer in cpu_state.gprs.r12, the      *)
(* "unused register", which vcpu_set_state and the hypercall SET_STATE     *)
(* overwrite.  vmxon_pointer, the VMCS of L2 and g_nested_initialized are  *)
(* stored and never read.                                                  *)
(***************************************************************************)
EXTENDS VcpuRun

VARIABLES
    nested_vmx, nested_svm,   \* NULL, or the fields of the structure
    l2,            \* the l2_state_t at an address; NULL when it is free
    saved,         \* history: the context of the last save, until it is restored
    overwritten    \* history: an L2 pointer in r12 has been lost

nestedVars == <<nested_vmx, nested_svm>>
allVars == <<vars, nestedVars, l2, saved, overwritten>>

Live == {r \in Record : l2[r] # NULL}

NestedInit ==
    /\ Init
    /\ nested_vmx = NULL /\ nested_svm = NULL
    /\ l2 = [r \in Record |-> NULL]
    /\ saved = NULL /\ overwritten = FALSE

\* Steps of VcpuRun.
RunStep ==
    /\ Run
    /\ overwritten' = (overwritten \/ r12' # r12)
    /\ UNCHANGED <<nestedVars, l2, saved>>

\* The embedder replaces cpu_state, for instance by one it took earlier.
vcpu_set_state ==
    /\ ~crashed
    /\ r12' \in Record \cup {NULL}
    /\ overwritten' = (overwritten \/ r12' # r12)
    /\ UNCHANGED <<cpu_vendor, vcpuVars, procVars, pc, crashed, nestedVars, l2, saved>>

----------------------------------------------------------------------------
(* The structures of the VM.                                               *)

VmStep == ~crashed /\ UNCHANGED <<vars, l2, saved, overwritten>>

\* A second call replaces the structure, and leaks the first.
nested_vmx_enable ==
    /\ VmStep /\ Intel
    /\ nested_vmx' = [l1_guest_mode |-> FALSE]
    /\ UNCHANGED nested_svm

nested_vmx_disable ==
    /\ VmStep /\ nested_vmx # NULL
    /\ nested_vmx' = NULL
    /\ UNCHANGED nested_svm

nested_vmx_handle_vmxoff ==
    /\ VmStep /\ nested_vmx # NULL
    /\ nested_vmx' = [l1_guest_mode |-> FALSE]
    /\ UNCHANGED nested_svm

nested_svm_enable ==
    /\ VmStep /\ ~Intel
    /\ nested_svm' = [nested_running |-> FALSE]
    /\ UNCHANGED nested_vmx

nested_svm_disable ==
    /\ VmStep /\ nested_svm # NULL
    /\ nested_svm' = NULL
    /\ UNCHANGED nested_vmx

nested_svm_handle_vmrun ==
    /\ VmStep /\ nested_svm # NULL
    /\ nested_svm' = [nested_running |-> TRUE]
    /\ UNCHANGED nested_vmx

----------------------------------------------------------------------------
(* Calls of the vCPU's own thread.                                         *)

Idle == ~crashed /\ pc = "out" /\ initialized

\* One VMLAUNCH outside the loop, which counts nothing.  Refused, it changes
\* nothing; otherwise the guest has run and exited when it returns.
vmx_vmentry ==
    \/ UNCHANGED procVars
    \/ reason' \in VmxReason /\ ctx' \in Ctx /\ UNCHANGED <<armed, open>>

nested_vmx_handle_vmlaunch ==
    /\ Idle /\ Intel
    /\ nested_vmx' = IF nested_vmx = NULL THEN NULL
                     ELSE [nested_vmx EXCEPT !.l1_guest_mode = TRUE]
    /\ vmx_vmentry
    /\ UNCHANGED <<cpu_vendor, vcpuVars, pc, r12, crashed, nested_svm, l2, saved, overwritten>>

nested_vmx_handle_vmresume ==
    /\ Idle /\ Intel
    /\ vmx_vmentry
    /\ UNCHANGED <<cpu_vendor, vcpuVars, pc, r12, crashed, nestedVars, l2, saved, overwritten>>

\* Any field of the VMCS: one of the guest's state, or the pin-based controls,
\* which turn the exit by an interrupt off or on.  In L1's guest mode the
\* write would go to a shadow VMCS that does not exist.
nested_vmx_handle_vmwrite ==
    /\ Idle /\ Intel
    /\ IF nested_vmx # NULL THEN ~nested_vmx.l1_guest_mode ELSE TRUE
    /\ \/ ctx' \in Ctx /\ UNCHANGED armed
       \/ armed' \in SUBSET {"INTERRUPT"} /\ UNCHANGED ctx
    /\ UNCHANGED <<cpu_vendor, vcpuVars, reason, open, pc, r12, crashed,
                   nestedVars, l2, saved, overwritten>>

\* nested_vmx_handle_l2_vmexit does the same and ignores a failing calloc.
\* A pointer that is already in r12 is not looked at.
nested_save_l2_state ==
    /\ Idle /\ Intel /\ nested_vmx # NULL
    /\ \E r \in Record \ Live :
          /\ l2' = [l2 EXCEPT ![r] = ctx]
          /\ r12' = r
    /\ saved' = ctx
    /\ overwritten' = (overwritten \/ r12 # NULL)
    /\ UNCHANGED <<cpu_vendor, vcpuVars, procVars, pc, crashed, nestedVars>>

MutRestoreKeepsPointer ==
    /\ Idle /\ Intel /\ nested_vmx # NULL /\ r12 \in Live
    /\ ctx' = l2[r12]
    /\ l2' = [l2 EXCEPT ![r12] = NULL]
    /\ UNCHANGED <<r12, crashed, cpu_vendor, vcpuVars, reason, armed, open, pc,
                   nestedVars, saved, overwritten>>

\* A pointer to freed memory is read, written through and freed again.
nested_restore_l2_state ==
    /\ Idle /\ Intel /\ nested_vmx # NULL /\ r12 # NULL
    /\ \/ /\ r12 \in Live
          /\ ctx' = l2[r12]
          /\ l2' = [l2 EXCEPT ![r12] = NULL]
          /\ r12' = NULL
          /\ saved' = NULL
          /\ UNCHANGED crashed
       \/ r12 \notin Live /\ crashed' = TRUE /\ UNCHANGED <<ctx, l2, r12, saved>>
    /\ UNCHANGED <<cpu_vendor, vcpuVars, reason, armed, open, pc,
                   nestedVars, overwritten>>

----------------------------------------------------------------------------
NestedNext ==
    \/ RunStep \/ vcpu_set_state
    \/ nested_vmx_enable \/ nested_vmx_disable
    \/ nested_vmx_handle_vmxoff \/ nested_vmx_handle_vmlaunch
    \/ nested_vmx_handle_vmresume \/ nested_vmx_handle_vmwrite
    \/ nested_save_l2_state \/ nested_restore_l2_state
    \/ nested_svm_enable \/ nested_svm_disable \/ nested_svm_handle_vmrun

NestedSpec == NestedInit /\ [][NestedNext]_allVars /\ RunFairness

----------------------------------------------------------------------------
(* What must hold.                                                         *)

\* The variables have their types; vmentry_count is never behind vmexit_count.
TypeOK ==
    /\ cpu_vendor \in {"INTEL", "AMD"}
    /\ {initialized, running, open, crashed, overwritten} \subseteq BOOLEAN
    /\ pc \in {"out", "loop", "guest", "exit"}
    /\ calls \in 0 .. MaxCalls /\ lead \in Nat
    /\ reason \in IF Intel THEN VmxReason ELSE SvmReason
    /\ armed \subseteq {"INTERRUPT", "INSTRUCTION"}
    /\ ctx \in Ctx /\ saved \in Ctx \cup {NULL}
    /\ r12 \in Record \cup {NULL}
    /\ l2 \in [Record -> Ctx \cup {NULL}]
    /\ nested_vmx \in {NULL} \cup [l1_guest_mode : BOOLEAN]
    /\ nested_svm \in {NULL} \cup [nested_running : BOOLEAN]

\* What the hypercall VCPU_GET_STATISTICS can rely on: entries and exits differ by
\* the calls of vcpu_run, and by one while the guest runs or its exit is pending.
StatisticsExact == lead = calls + (IF pc \in {"guest", "exit"} THEN 1 ELSE 0)

\* As long as nobody has overwritten a pointer in r12, it points to live memory
\* with the context of the last save, and no other L2 state is allocated: a
\* restore gives back what was saved, frees it, and nothing leaks.
L2Exact ==
    ~overwritten => /\ Live = {r12} \ {NULL}
                    /\ r12 # NULL => l2[r12] = saved

\* A vCPU that has been stopped leaves its loop, even if its guest never exits by
\* itself, unless it is started again first or its guest cannot be interrupted
\* from some time on: because a register store of SVM or a nested VMWRITE has
\* cleared the intercept, or because a guest of SVM keeps its own flag closed.
StopEndsLoop ==
    []<>(pc = "guest" => Interruptible)
        => (~running ~> (running \/ pc = "out" \/ crashed))
=============================================================================
