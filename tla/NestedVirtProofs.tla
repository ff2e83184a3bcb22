-------------------------- MODULE NestedVirtProofs --------------------------
(***************************************************************************)
(* Proofs about the run loop of a vCPU and nested virtualisation, for any  *)
(* number of calls and any set of contexts and of addresses of L2 states.  *)
(***************************************************************************)
EXTENDS NestedVirt, TLAPS

\* The inductive invariant.
LoopInv == TypeOK /\ StatisticsExact

\* The initial states satisfy it.
LEMMA InitLoop == NestedInit => LoopInv
  <1> SUFFICES ASSUME NestedInit PROVE LoopInv
    OBVIOUS
  <1>1. 0 \in 0 .. MaxCalls
    BY VcpuRunAssumption
  <1>2. reason \in VmxReason /\ reason \in SvmReason
    BY DEF NestedInit, Init, VmxReason, SvmReason
  <1>3. TypeOK
    BY <1>1, <1>2 DEF NestedInit, Init, TypeOK
  <1> QED
    BY <1>3 DEF NestedInit, Init, LoopInv, StatisticsExact

\* What the steps outside the processor leave alone.
LEMMA FrameLoop ==
    ASSUME LoopInv, TypeOK', UNCHANGED <<calls, lead, pc>>
    PROVE  LoopInv'
  BY DEF LoopInv, StatisticsExact

\* Starting, stopping, entering and leaving vcpu_run, and entering a guest.
LEMMA EnterLoop ==
    ASSUME LoopInv, UNCHANGED <<nestedVars, l2, saved>>, overwritten' \in BOOLEAN,
           vcpu_start \/ vcpu_stop \/ vcpu_run \/ loop_ends \/ loop_enters
    PROVE  LoopInv'
  <1> USE VcpuRunAssumption
  <1> USE DEF LoopInv, nestedVars
  <1>1. CASE vcpu_start
    <2>1. /\ armed' \subseteq {"INTERRUPT", "INSTRUCTION"} /\ ctx' \in Ctx
          /\ open' \in BOOLEAN
      BY <1>1 DEF vcpu_start, vmx_vcpu_setup, svm_vcpu_setup, StoreRegisters, TypeOK
    <2>2. TypeOK'
      BY <1>1, <2>1 DEF vcpu_start, TypeOK, Intel
    <2> QED
      BY <1>1, <2>2, FrameLoop DEF vcpu_start
  <1>2. CASE vcpu_stop
    <2>1. TypeOK'
      BY <1>2 DEF vcpu_stop, TypeOK, Intel, procVars
    <2> QED
      BY <1>2, <2>1, FrameLoop DEF vcpu_stop, procVars
  <1>3. CASE vcpu_run
    BY <1>3 DEF vcpu_run, TypeOK, StatisticsExact, Intel, procVars
  <1>4. CASE loop_ends
    BY <1>4 DEF loop_ends, TypeOK, StatisticsExact, Intel, procVars, vcpuVars
  <1>5. CASE loop_enters
    <2>1. TypeOK'
      BY <1>5 DEF loop_enters, Entry, TypeOK, Intel, SvmReason
    <2>2. StatisticsExact'
      BY <1>5 DEF loop_enters, Entry, StatisticsExact, TypeOK
    <2> QED
      BY <2>1, <2>2
  <1> QED
    BY <1>1, <1>2, <1>3, <1>4, <1>5

\* The guest leaves with the exit r of its processor, or sets its flag.
LEMMA GuestLoop ==
    ASSUME LoopInv, UNCHANGED <<nestedVars, l2, saved>>, overwritten' \in BOOLEAN,
           GuestExits \/ GuestSetsFlag \/ InterruptExits
    PROVE  LoopInv'
  <1> USE VcpuRunAssumption
  <1> USE DEF LoopInv, nestedVars
  <1>1. CASE GuestSetsFlag
    <2>1. TypeOK'
      BY <1>1 DEF GuestSetsFlag, TypeOK, Intel, vcpuVars
    <2> QED
      BY <1>1, <2>1, FrameLoop DEF GuestSetsFlag, vcpuVars
  <1>2. CASE GuestExits \/ InterruptExits
    <2>1. PICK r \in (IF Intel THEN VmxReason ELSE SvmReason) : GuestLeaves(r)
      <3>1. CASE GuestExits
        BY <3>1 DEF GuestExits, SvmReason
      <3>2. CASE InterruptExits
        BY <3>2 DEF InterruptExits, VmxReason, SvmReason, SvmIntercepted
      <3> QED
        BY <1>2, <3>1, <3>2
    <2>2. TypeOK'
      BY <2>1 DEF GuestLeaves, TypeOK, Intel, vcpuVars
    <2> QED
      BY <2>1, <2>2 DEF GuestLeaves, StatisticsExact, vcpuVars
  <1> QED
    BY <1>1, <1>2

\* What every handler does: it comes back to the loop or leaves vcpu_run.
LEMMA HandlerEffect ==
    ASSUME LoopInv, exit_handled
    PROVE  /\ pc' \in {"loop", "out"} /\ ctx' \in Ctx
           /\ {running', crashed'} \subseteq BOOLEAN
           /\ armed' \subseteq {"INTERRUPT", "INSTRUCTION"}
           /\ r12' \in Record \cup {NULL}
  <1> USE DEF LoopInv
  <1>1. CASE Intel
    <2> USE DEF Return
    <2>0. vmx_handle_vmexit /\ UNCHANGED armed
      BY <1>1 DEF exit_handled, vmx_handle_vmexit
    <2>1. CASE reason = "VMCALL"
      <3>1. PICK call \in CallNumber : hypercall_handle(call)
        BY <2>0, <2>1 DEF vmx_handle_vmexit, vmx_handle_vmcall
      <3>2. AdvanceRip /\ UNCHANGED running
        BY <2>0, <2>1 DEF vmx_handle_vmexit, vmx_handle_vmcall
      <3> QED
        BY <1>1, <2>0, <2>1, <3>1, <3>2
        DEF hypercall_handle, AdvanceRip, VmxEmulated, TypeOK
    <2>2. CASE reason \in VmxEmulated \ {"VMCALL"}
      <3>1. Emulated /\ UNCHANGED r12
        BY <2>0, <2>2
        DEF vmx_handle_vmexit, VmxEmulated, vmx_handle_cpuid, vmx_handle_hlt,
            vmx_handle_msr_read, vmx_handle_msr_write, vmx_handle_io, vmx_handle_rdtsc,
            vmx_handle_invlpg, vmx_handle_xsetbv
      <3> QED
        BY <1>1, <2>0, <2>2, <3>1 DEF Emulated, AdvanceRip, TypeOK
    <2>3. CASE reason \notin VmxEmulated
      <3>1. /\ UNCHANGED <<ctx, r12, crashed>> /\ pc' \in {"loop", "out"}
            /\ running' \in {running, FALSE}
        BY <2>0, <2>3
        DEF vmx_handle_vmexit, VmxEmulated, Nothing, vmx_handle_interrupt,
            vmx_handle_cr_access, vmx_handle_ept_violation, vmx_handle_vmxoff,
            vmx_handle_machine_check, vmx_handle_task_switch
      <3> QED
        BY <2>0, <2>3, <3>1 DEF TypeOK
    <2> QED
      BY <2>1, <2>2, <2>3
  <1>2. CASE ~Intel
    <2>1. svm_handle_exit
      BY <1>2 DEF exit_handled
    <2>2. pc' \in {"loop", "out"} /\ armed' \subseteq {"INTERRUPT", "INSTRUCTION"}
      BY <2>1
      DEF svm_handle_exit, Return, StoreRegisters, TypeOK, svm_handle_cpuid,
          svm_handle_rdmsr, svm_handle_wrmsr, svm_handle_cr_read, svm_handle_cr_write,
          svm_handle_invlpg, svm_handle_hlt, svm_handle_vmmcall, svm_handle_npf,
          svm_handle_rdtsc, svm_handle_interrupt, svm_handle_vmrun
    <2> QED
      BY <1>2, <2>1, <2>2 DEF svm_handle_exit, TypeOK
  <1> QED
    BY <1>1, <1>2

\* An exit is handled.
LEMMA ExitLoop ==
    ASSUME LoopInv, UNCHANGED <<nestedVars, l2, saved>>, overwritten' \in BOOLEAN,
           exit_handled
    PROVE  LoopInv'
  <1> USE DEF LoopInv, nestedVars
  <1>1. /\ pc = "exit" /\ lead' = lead - 1
        /\ UNCHANGED <<cpu_vendor, initialized, calls, reason, open>>
    BY DEF exit_handled
  <1>2. lead' \in Nat /\ lead' = calls
    BY <1>1 DEF TypeOK, StatisticsExact
  <1>3. TypeOK'
    BY <1>1, <1>2, HandlerEffect DEF TypeOK, Intel
  <1> QED
    BY <1>1, <1>2, <1>3, HandlerEffect DEF StatisticsExact

\* The steps of nested_virt.c and of the embedder.
LEMMA NestedLoop ==
    ASSUME LoopInv,
           \/ vcpu_set_state \/ nested_vmx_enable \/ nested_vmx_disable
           \/ nested_vmx_handle_vmxoff \/ nested_vmx_handle_vmlaunch
           \/ nested_vmx_handle_vmresume \/ nested_vmx_handle_vmwrite
           \/ nested_save_l2_state \/ nested_restore_l2_state
           \/ nested_svm_enable \/ nested_svm_disable \/ nested_svm_handle_vmrun
    PROVE  LoopInv'
  <1> USE DEF LoopInv, vcpuVars, procVars, nestedVars
  <1>1. CASE vcpu_set_state
    <2>1. TypeOK'
      BY <1>1 DEF vcpu_set_state, TypeOK, Intel
    <2> QED
      BY <1>1, <2>1, FrameLoop DEF vcpu_set_state
  <1>2. CASE \/ nested_vmx_enable \/ nested_vmx_disable \/ nested_vmx_handle_vmxoff
             \/ nested_svm_enable \/ nested_svm_disable \/ nested_svm_handle_vmrun
    <2>1. UNCHANGED <<vars, l2, saved, overwritten>>
      BY <1>2 DEF nested_vmx_enable, nested_vmx_disable, nested_vmx_handle_vmxoff,
                  nested_svm_enable, nested_svm_disable, nested_svm_handle_vmrun, VmStep
    <2>2. /\ nested_vmx' \in {NULL} \cup [l1_guest_mode : BOOLEAN]
          /\ nested_svm' \in {NULL} \cup [nested_running : BOOLEAN]
      <3>1. /\ nested_vmx' \in {nested_vmx, NULL, [l1_guest_mode |-> FALSE]}
            /\ nested_svm' \in {nested_svm, NULL, [nested_running |-> FALSE],
                                [nested_running |-> TRUE]}
        BY <1>2 DEF nested_vmx_enable, nested_vmx_disable, nested_vmx_handle_vmxoff,
                    nested_svm_enable, nested_svm_disable, nested_svm_handle_vmrun
      <3>2. /\ [l1_guest_mode |-> FALSE] \in [l1_guest_mode : BOOLEAN]
            /\ [nested_running |-> FALSE] \in [nested_running : BOOLEAN]
            /\ [nested_running |-> TRUE] \in [nested_running : BOOLEAN]
        OBVIOUS
      <3> QED
        BY <3>1, <3>2 DEF TypeOK
    <2>3. TypeOK'
      BY <2>1, <2>2 DEF TypeOK, Intel, vars
    <2> QED
      BY <2>1, <2>3, FrameLoop DEF vars
  <1>3. CASE nested_vmx_handle_vmlaunch \/ nested_vmx_handle_vmresume
    <2>1. /\ pc = "out" /\ Intel /\ vmx_vmentry
          /\ UNCHANGED <<cpu_vendor, vcpuVars, pc, r12, crashed, nested_svm, l2, saved, overwritten>>
      BY <1>3 DEF nested_vmx_handle_vmlaunch, nested_vmx_handle_vmresume, Idle
    <2>2. nested_vmx' \in {NULL} \cup [l1_guest_mode : BOOLEAN]
      BY <1>3 DEF nested_vmx_handle_vmlaunch, nested_vmx_handle_vmresume, TypeOK
    <2>3. reason' \in VmxReason /\ ctx' \in Ctx /\ UNCHANGED <<armed, open>>
      BY <2>1 DEF vmx_vmentry, TypeOK
    <2>4. TypeOK'
      BY <2>1, <2>2, <2>3 DEF TypeOK, Intel
    <2> QED
      BY <2>1, <2>4, FrameLoop
  <1>4. CASE nested_vmx_handle_vmwrite
    <2>1. ctx' \in Ctx /\ armed' \subseteq {"INTERRUPT", "INSTRUCTION"}
      BY <1>4 DEF nested_vmx_handle_vmwrite, TypeOK
    <2>2. TypeOK'
      BY <1>4, <2>1 DEF nested_vmx_handle_vmwrite, TypeOK, Intel
    <2> QED
      BY <1>4, <2>2, FrameLoop DEF nested_vmx_handle_vmwrite
  <1>5. CASE nested_save_l2_state
    <2>1. TypeOK'
      BY <1>5 DEF nested_save_l2_state, TypeOK, Intel
    <2> QED
      BY <1>5, <2>1, FrameLoop DEF nested_save_l2_state
  <1>6. CASE nested_restore_l2_state
    <2>1. ctx' \in Ctx /\ l2' \in [Record -> Ctx \cup {NULL}]
      BY <1>6 DEF nested_restore_l2_state, TypeOK, Live
    <2>2. TypeOK'
      BY <1>6, <2>1 DEF nested_restore_l2_state, TypeOK, Intel
    <2> QED
      BY <1>6, <2>2, FrameLoop DEF nested_restore_l2_state
  <1> QED
    BY <1>1, <1>2, <1>3, <1>4, <1>5, <1>6

\* Every step keeps the invariant.
LEMMA NextLoop == LoopInv /\ [NestedNext]_allVars => LoopInv'
  <1> SUFFICES ASSUME LoopInv, [NestedNext]_allVars PROVE LoopInv'
    OBVIOUS
  <1>1. CASE RunStep
    <2>1. UNCHANGED <<nestedVars, l2, saved>> /\ overwritten' \in BOOLEAN
      BY <1>1 DEF RunStep
    <2> QED
      BY <1>1, <2>1, EnterLoop, GuestLoop, ExitLoop DEF RunStep, Run
  <1>2. CASE UNCHANGED allVars
    <2>1. TypeOK'
      BY <1>2 DEF LoopInv, TypeOK, Intel, allVars, vars, vcpuVars, procVars, nestedVars
    <2> QED
      BY <1>2, <2>1, FrameLoop DEF allVars, vars, vcpuVars, procVars
  <1> QED
    BY <1>1, <1>2, NestedLoop DEF NestedNext

\* Types: for any constants, every step of the run loop, of a handler of an
\* exit and of nested_virt.c leaves the variables in their types, and the
\* entries counted are never behind the exits.
THEOREM NestedTypeCorrect == NestedSpec => []TypeOK
  BY InitLoop, NextLoop, PTL DEF NestedSpec, LoopInv

\* vmentry_count - vmexit_count is the number of calls of vcpu_run, and one
\* more while a guest runs or its exit waits to be handled, for any number of
\* calls, refused entries and exits.
THEOREM StatisticsCorrect == NestedSpec => []StatisticsExact
  BY InitLoop, NextLoop, PTL DEF NestedSpec, LoopInv

\* What one step does to the L2 states, given their types.
LEMMA StepL2 == TypeOK /\ L2Exact /\ [NestedNext]_allVars => L2Exact'
  <1> SUFFICES ASSUME TypeOK, L2Exact, [NestedNext]_allVars, ~overwritten'
               PROVE  /\ Live' = {r12'} \ {NULL}
                      /\ r12' # NULL => l2'[r12'] = saved'
    BY DEF L2Exact
  <1>1. CASE nested_save_l2_state
    <2>1. ~overwritten /\ r12 = NULL
      BY <1>1 DEF nested_save_l2_state
    <2>2. Live = {}
      BY <2>1 DEF L2Exact
    <2>3. PICK r \in Record : l2' = [l2 EXCEPT ![r] = ctx] /\ r12' = r
      BY <1>1 DEF nested_save_l2_state
    <2>4. ctx \in Ctx /\ ctx # NULL /\ r # NULL /\ l2 \in [Record -> Ctx \cup {NULL}]
      BY VcpuRunAssumption DEF TypeOK
    <2>5. Live' = {r}
      BY <2>2, <2>3, <2>4 DEF Live
    <2> QED
      BY <1>1, <2>3, <2>4, <2>5 DEF nested_save_l2_state
  <1>2. CASE nested_restore_l2_state
    <2>1. ~overwritten /\ r12 # NULL
      BY <1>2 DEF nested_restore_l2_state
    <2>2. Live = {r12} /\ l2 \in [Record -> Ctx \cup {NULL}]
      BY <2>1 DEF L2Exact, TypeOK
    <2>3. l2' = [l2 EXCEPT ![r12] = NULL] /\ r12' = NULL
      BY <1>2, <2>2 DEF nested_restore_l2_state
    <2>4. Live' = {}
      BY <2>2, <2>3 DEF Live
    <2> QED
      BY <2>3, <2>4
  <1>3. CASE UNCHANGED <<l2, saved>> /\ (r12' = r12 /\ overwritten' = overwritten)
    BY <1>3 DEF L2Exact, Live
  <1>4. CASE RunStep \/ vcpu_set_state
    <2>1. UNCHANGED <<l2, saved, r12, overwritten>>
      BY <1>4 DEF RunStep, vcpu_set_state, TypeOK
    <2> QED
      BY <2>1, <1>3
  <1> QED
    BY <1>1, <1>2, <1>3, <1>4
    DEF NestedNext, nested_vmx_enable, nested_vmx_disable, nested_vmx_handle_vmxoff,
        nested_vmx_handle_vmlaunch, nested_vmx_handle_vmresume, nested_vmx_handle_vmwrite,
        nested_svm_enable, nested_svm_disable, nested_svm_handle_vmrun, VmStep,
        allVars, vars

\* As long as no pointer in r12 has been overwritten it is the only L2 state
\* there is, and holds the context of the last save: nested_restore_l2_state
\* never meets a freed one, for any number of addresses and contexts.
THEOREM L2StateExact == NestedSpec => []L2Exact
  <1>1. NestedInit => L2Exact
    BY DEF NestedInit, Init, L2Exact, Live
  <1> QED
    BY <1>1, StepL2, NestedTypeCorrect, PTL DEF NestedSpec
=============================================================================
