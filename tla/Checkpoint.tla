----------------------------- MODULE Checkpoint -----------------------------
(***************************************************************************)
(* Checkpoints and snapshots (checkpoint/checkpoint.c) of one VM: files    *)
(* written and read through stdio while the guest runs.                    *)
(*                                                                         *)
(* A file is a sequence of cells, one for every object the code writes     *)
(* with one checkpoint_write.  A stream keeps up to `block' cells in its   *)
(* buffer and writes them to the file when it is full, or at fclose;       *)
(* `block' is chosen by Init, so that every object may be the one that     *)
(* fills it.  checkpoint_create still holds its own stream open, with      *)
(* cells in the buffer, when checkpoint_save_memory appends to the same    *)
(* file through a second one.  Every write to the file may fail, and the   *)
(* process may die between any two steps.                                  *)
(*                                                                         *)
(* checkpoint_restore compares the magic of the header with "NXVHMCHKP";   *)
(* checkpoint_create writes "NXVMCHKP".  It therefore refuses every file,  *)
(* as does checkpoint_apply_incremental, which begins with it: neither     *)
(* changes anything.  snapshot_restore looks at no magic.                  *)
(***************************************************************************)
EXTENDS Naturals, Sequences, FiniteSets

CONSTANTS Path,
          VcpuCount,      \* vm->vcpu_count
          RegionCount,    \* vm->memory_region_count
          RamRegions,     \* the regions of type MEM_REGION_RAM
          Val,            \* contents of a vCPU or of a RAM region
          Blocks,         \* buffer sizes to consider
          NoFile, None

ASSUME CheckpointAssumption ==
    /\ VcpuCount \in Nat /\ RegionCount \in Nat
    /\ RamRegions \subseteq 1 .. RegionCount
    /\ Blocks \subseteq Nat \ {0}

Vcpu   == 1 .. VcpuCount
Region == 1 .. RegionCount

VARIABLES
    file,      \* the contents of every path
    saved,     \* history: the vCPU states a faultless full checkpoint has written
    state,     \* vm->state
    regs, ram, \* cpu_state of the vCPUs, contents of the regions
    block,     \* cells a stream buffers
    call,      \* the call in progress
    streams,   \* the streams that are open
    buf, off,  \* buffer of checkpoint_create's stream, cells it has written
    mbuf,      \* what checkpoint_save_memory's stream has been given
    taken,     \* history: the vCPU states given to the stream so far
    clean      \* history: no write of this call has failed

fileVars   == <<file, saved>>
guestVars  == <<regs, ram>>
streamVars == <<streams, buf, off, mbuf, taken, clean>>
vars == <<fileVars, state, guestVars, block, call, streamVars>>

Cell(kind, val) == [kind |-> kind, val |-> val]
\* What a file is made of: only vCPU states and RAM are told apart by value.
FileCell == [kind : {"vcpu", "ram"}, val : Val]
            \cup [kind : {"header", "incremental", "config", "device_size", "device", "region"},
                  val : {None}]

\* The objects that checkpoint_create writes through its own stream, in order:
\* header, config, vCPU states, size of the device state, device state.
Prefix == VcpuCount + 4
Object(n) ==
    CASE n = 1 -> Cell("header", None)
      [] n = 2 -> Cell("config", None)
      [] n - 2 \in Vcpu -> Cell("vcpu", regs[n - 2])
      [] n = VcpuCount + 3 -> Cell("device_size", None)
      [] n = VcpuCount + 4 -> Cell("device", None)
\* Those of checkpoint_create_incremental: a header and the vCPU states.
IncrementalObject(n) ==
    IF n = 1 THEN Cell("incremental", None) ELSE Cell("vcpu", regs[n - 1])

\* A region: its header, and its contents when it is RAM, unless its size is
\* 0 or vm_gpa_to_hpa finds no translation, as after a cold reset.
RegionCells(r) ==
    {<<Cell("region", None)>>}
    \cup {<<Cell("region", None), Cell("ram", ram[k])>> : k \in RamRegions \cap {r}}

\* write(2) of cells at an offset of a file.
Overlay(contents, at, cells) ==
    [i \in 1 .. (IF Len(contents) > at + Len(cells) THEN Len(contents) ELSE at + Len(cells)) |->
        IF i \in (at + 1) .. (at + Len(cells)) THEN cells[i - at] ELSE contents[i]]

\* A call: what is asked for, the phase it is in, the next object, its result.
Call == [op : {"idle", "create", "memory", "close", "incremental", "restore", "reload"},
         kind : {"checkpoint", "snapshot", "incremental", "restore"},
         path : Path \cup {None}, n : Nat, ok : BOOLEAN]
Begin(op, kind, p) == [op |-> op, kind |-> kind, path |-> p, n |-> 1, ok |-> TRUE]
Idle == Begin("idle", "checkpoint", None)

TypeOK ==
    /\ file \in [Path -> Seq(FileCell) \cup {NoFile}]
    /\ saved \in [Path -> Seq(Val) \cup {None}]
    /\ state \in {"RUNNING", "SUSPENDED"}
    /\ regs \in [Vcpu -> Val] /\ ram \in [Region -> Val]
    /\ block \in Blocks
    /\ call \in Call /\ (call.n <= Prefix + 1 \/ call.n <= RegionCount + 1)
    /\ streams \subseteq {"f", "m"}
    /\ off \in 0 .. Prefix /\ Len(buf) + off <= Prefix
    /\ Len(mbuf) <= 2 * RegionCount
    /\ clean \in BOOLEAN

Init ==
    /\ file = [p \in Path |-> NoFile] /\ saved = [p \in Path |-> None]
    /\ state = "RUNNING"
    /\ regs \in [Vcpu -> Val] /\ ram \in [Region -> Val]
    /\ block \in Blocks
    /\ call = Idle /\ streams = {}
    /\ buf = << >> /\ off = 0 /\ mbuf = << >> /\ taken = << >> /\ clean = TRUE

\* checkpoint_open(path, "wb"): truncates what was there.
OpenForWriting(p, op, kind) ==
    /\ file' = [file EXCEPT ![p] = << >>] /\ saved' = [saved EXCEPT ![p] = None]
    /\ call' = Begin(op, kind, p)
    /\ streams' = {"f"}
    /\ buf' = << >> /\ off' = 0 /\ mbuf' = << >> /\ taken' = << >> /\ clean' = TRUE

-----------------------------------------------------------------------------
(* checkpoint_create and snapshot_create.                                  *)

Create(p, kind) ==
    \/ OpenForWriting(p, "create", kind)
    \/ call' = Idle /\ UNCHANGED <<fileVars, streamVars>>      \* fopen fails

checkpoint_create(p) ==
    /\ call = Idle
    /\ Create(p, "checkpoint")
    /\ UNCHANGED <<state, guestVars, block>>

\* The vCPUs keep running: only the state changes, and stays changed when
\* the checkpoint fails.
snapshot_create(p) ==
    /\ call = Idle
    /\ state' = "SUSPENDED"
    /\ Create(p, "snapshot")
    /\ UNCHANGED <<guestVars, block>>

\* fwrite of one object: it stays in the buffer, or fills it.
Fwrite(cell) ==
    /\ taken' = IF cell.kind = "vcpu" THEN Append(taken, cell.val) ELSE taken
    /\ \/ /\ Len(buf) + 1 < block
          /\ buf' = Append(buf, cell)
          /\ UNCHANGED <<file, off, clean>>
       \/ /\ Len(buf) + 1 >= block
          /\ file' = [file EXCEPT ![call.path] = Overlay(@, off, Append(buf, cell))]
          /\ off' = off + Len(buf) + 1 /\ buf' = << >>
          /\ UNCHANGED clean

\* fwrite that has to write the buffer out and cannot; the cells stay in it.
FwriteFails(cell) ==
    /\ Len(buf) + 1 >= block
    /\ buf' = Append(buf, cell) /\ clean' = FALSE
    /\ UNCHANGED <<file, off, taken>>

\* Mutant: tries a failed write again, with the cells still in the buffer.
MutWriteAgain ==
    /\ call.op = "create" /\ call.n <= Prefix
    /\ \/ Fwrite(Object(call.n)) /\ call' = [call EXCEPT !.n = @ + 1]
       \/ FwriteFails(Object(call.n)) /\ Len(buf) < Prefix /\ UNCHANGED call
    /\ UNCHANGED <<saved, state, guestVars, block, streams, mbuf>>

\* Failing writes are errors up to the vCPU states.  Those of the device state
\* are forgotten: `result' is assigned again by checkpoint_save_memory.
write_object ==
    /\ call.op = "create" /\ call.n <= Prefix
    /\ \/ Fwrite(Object(call.n)) /\ call' = [call EXCEPT !.n = @ + 1]
       \/ /\ FwriteFails(Object(call.n))
          /\ call' = IF call.n <= VcpuCount + 2 THEN [call EXCEPT !.op = "close", !.ok = FALSE]
                                                ELSE [call EXCEPT !.n = Prefix + 1]
    /\ UNCHANGED <<saved, state, guestVars, block, streams, mbuf>>

\* checkpoint_save_device_state cannot allocate its buffer: no device section.
no_device_state ==
    /\ call.op = "create" /\ call.n = VcpuCount + 3
    /\ call' = [call EXCEPT !.n = Prefix + 1]
    /\ UNCHANGED <<fileVars, state, guestVars, block, streamVars>>

\* checkpoint_save_memory opens the same path with "ab".
checkpoint_save_memory ==
    /\ call.op = "create" /\ call.n = Prefix + 1
    /\ \/ /\ call' = [call EXCEPT !.op = "memory", !.n = 1]
          /\ streams' = streams \cup {"m"}
       \/ /\ call' = [call EXCEPT !.op = "close", !.ok = FALSE]
          /\ UNCHANGED streams
    /\ UNCHANGED <<fileVars, state, guestVars, block, buf, off, mbuf, taken, clean>>

save_region ==
    /\ call.op = "memory" /\ call.n <= RegionCount
    /\ \E cells \in RegionCells(call.n) : mbuf' = mbuf \o cells
    /\ call' = [call EXCEPT !.n = @ + 1]
    /\ UNCHANGED <<fileVars, state, guestVars, block, streams, buf, off, taken, clean>>

\* Mutant: returns without closing the second stream.
MutMemoryKeepsStream ==
    /\ call.op = "memory" /\ call.n > RegionCount
    /\ \E k \in 0 .. Len(mbuf) :
          /\ file' = [file EXCEPT ![call.path] = @ \o SubSeq(mbuf, 1, k)]
          /\ clean' = (clean /\ k = Len(mbuf))
    /\ call' = [call EXCEPT !.op = "close"]
    /\ UNCHANGED <<saved, state, guestVars, block, streams, buf, off, mbuf, taken>>

\* The regions reach the end of the file, whole or up to the write that failed;
\* no result is looked at.
memory_close ==
    /\ call.op = "memory" /\ call.n > RegionCount
    /\ \E k \in 0 .. Len(mbuf) :
          /\ file' = [file EXCEPT ![call.path] = @ \o SubSeq(mbuf, 1, k)]
          /\ clean' = (clean /\ k = Len(mbuf))
    /\ streams' = streams \ {"m"}
    /\ call' = [call EXCEPT !.op = "close"]
    /\ UNCHANGED <<saved, state, guestVars, block, buf, off, mbuf, taken>>

\* checkpoint_close and the return: what is still in the buffer is written at
\* the offset the stream had reached, over whatever memory was appended there.
\* The result of fclose is ignored.
checkpoint_close ==
    /\ call.op = "close"
    /\ \E k \in 0 .. Len(buf) :
          /\ file' = [file EXCEPT ![call.path] = Overlay(@, off, SubSeq(buf, 1, k))]
          /\ saved' = [saved EXCEPT ![call.path] =
                          IF call.ok /\ clean /\ k = Len(buf) /\ call.kind # "incremental"
                          THEN taken ELSE None]
    /\ streams' = streams \ {"f"}
    /\ call' = Idle
    /\ state' = IF call.kind = "snapshot" /\ call.ok THEN "RUNNING" ELSE state
    /\ buf' = << >> /\ off' = 0 /\ mbuf' = << >> /\ taken' = << >> /\ clean' = TRUE
    /\ UNCHANGED <<guestVars, block>>

-----------------------------------------------------------------------------
(* checkpoint_create_incremental, checkpoint_get_info, checkpoint_delete.  *)

\* checkpoint_get_info: is there a header to be read?  The stream it opens is
\* closed on every path.
checkpoint_get_info(p) == file[p] # NoFile /\ file[p] # << >>

\* Without a base a full checkpoint, and so when the base cannot be read.
checkpoint_create_incremental(base, p) ==
    /\ call = Idle
    /\ \/ checkpoint_get_info(base) /\ OpenForWriting(p, "incremental", "incremental")
       \/ Create(p, "checkpoint")
    /\ UNCHANGED <<state, guestVars, block>>

\* No result is looked at, and the call returns NEXUSVM_OK.
write_incremental ==
    /\ call.op = "incremental"
    /\ LET cell == IncrementalObject(call.n) IN Fwrite(cell) \/ FwriteFails(cell)
    /\ call' = IF call.n <= VcpuCount THEN [call EXCEPT !.n = @ + 1]
               ELSE [call EXCEPT !.op = "close"]
    /\ UNCHANGED <<saved, state, guestVars, block, streams, mbuf>>

checkpoint_delete(p) ==
    /\ call = Idle /\ file[p] # NoFile
    /\ file' = [file EXCEPT ![p] = NoFile] /\ saved' = [saved EXCEPT ![p] = None]
    /\ UNCHANGED <<state, guestVars, block, call, streamVars>>

-----------------------------------------------------------------------------
(* snapshot_restore.                                                       *)

\* Mutant: skips the header twice, SEEK_SET for SEEK_CUR, as
\* checkpoint_restore_memory does.
MutReadVcpu(contents, v) ==
    IF v + 1 <= Len(contents) /\ contents[v + 1].kind = "vcpu" THEN {contents[v + 1].val} ELSE Val

\* What reading vCPU v's state behind header and config can give: an object of
\* another kind, or the end of the file, leaves arbitrary register contents.
ReadVcpu(contents, v) ==
    IF v + 2 <= Len(contents) /\ contents[v + 2].kind = "vcpu" THEN {contents[v + 2].val} ELSE Val

snapshot_restore(p) ==
    /\ call = Idle /\ file[p] # NoFile
    /\ call' = Begin("restore", "restore", p)
    /\ streams' = {"f"}
    /\ UNCHANGED <<fileVars, state, guestVars, block, buf, off, mbuf, taken, clean>>

\* Mutant: reads again what it could not read.
MutRestoreAgain ==
    /\ call.op = "restore" /\ call.n <= VcpuCount
    /\ \E x \in ReadVcpu(file[call.path], call.n) : regs' = [regs EXCEPT ![call.n] = x]
    /\ call' = [call EXCEPT !.n = IF call.n + 2 <= Len(file[call.path]) THEN @ + 1 ELSE @]
    /\ UNCHANGED <<fileVars, state, ram, block, streamVars>>

\* The result of checkpoint_read is not looked at.
restore_vcpu ==
    /\ call.op = "restore" /\ call.n <= VcpuCount
    /\ \E x \in ReadVcpu(file[call.path], call.n) : regs' = [regs EXCEPT ![call.n] = x]
    /\ call' = [call EXCEPT !.n = @ + 1]
    /\ UNCHANGED <<fileVars, state, ram, block, streamVars>>

\* checkpoint_restore_memory, once the first stream is closed: the path is
\* opened again, or is not.
checkpoint_restore_memory ==
    /\ call.op = "restore" /\ call.n > VcpuCount
    /\ \/ call' = [call EXCEPT !.op = "reload"] /\ streams' = {"m"}
       \/ call' = Idle /\ streams' = {}
    /\ UNCHANGED <<fileVars, state, guestVars, block, buf, off, mbuf, taken, clean>>

\* It seeks to sizeof(vm_config_t) with SEEK_SET, so what it takes for the device
\* size is part of the last vCPU's state, and where it reads the regions is
\* anywhere: RAM may hold anything afterwards.
restore_regions ==
    /\ call.op = "reload"
    /\ ram' \in [Region -> Val] /\ \A r \in Region \ RamRegions : ram'[r] = ram[r]
    /\ streams' = streams \ {"m"} /\ call' = Idle
    /\ UNCHANGED <<fileVars, state, regs, block, buf, off, mbuf, taken, clean>>

-----------------------------------------------------------------------------
(* The guest, and the end of the process.                                  *)

\* The guest runs: neither SUSPENDED nor a restore stops it.
GuestRuns ==
    \/ /\ \E v \in Vcpu, x \in Val : regs' = [regs EXCEPT ![v] = x]
       /\ UNCHANGED <<fileVars, state, ram, block, call, streamVars>>
    \/ /\ \E r \in RamRegions, x \in Val : ram' = [ram EXCEPT ![r] = x]
       /\ UNCHANGED <<fileVars, state, regs, block, call, streamVars>>

\* The process dies: the files keep what was written, the buffers are lost.
\* A new process has a VM of its own.
Crash ==
    /\ call # Idle
    /\ call' = Idle /\ streams' = {} /\ state' = "RUNNING"
    /\ buf' = << >> /\ off' = 0 /\ mbuf' = << >> /\ taken' = << >> /\ clean' = TRUE
    /\ UNCHANGED <<fileVars, guestVars, block>>

CallStep == \/ write_object \/ no_device_state \/ checkpoint_save_memory
            \/ save_region \/ memory_close \/ checkpoint_close
            \/ write_incremental \/ restore_vcpu \/ checkpoint_restore_memory
            \/ restore_regions

Next ==
    \/ \E p \in Path : \/ checkpoint_create(p) \/ snapshot_create(p)
                       \/ \E base \in Path : checkpoint_create_incremental(base, p)
                       \/ checkpoint_delete(p) \/ snapshot_restore(p)
    \/ CallStep
    \/ GuestRuns
    \/ Crash

Spec == Init /\ [][Next]_vars /\ WF_vars(CallStep)

-----------------------------------------------------------------------------
(* Properties.                                                             *)

\* Round trip of the vCPUs: whatever the size of the buffer, wherever the
\* memory was appended and whatever was overwritten there, snapshot_restore of
\* a full checkpoint whose writes all succeeded reads back, for every vCPU,
\* the state that checkpoint_create took from it.
VcpuRoundTrip ==
    \A p \in Path : saved[p] # None =>
        \A v \in Vcpu : ReadVcpu(file[p], v) = {saved[p][v]}

\* Every return, the early ones on errors included, closes what it opened:
\* between two calls no stream is open.
NoStreamLeak == call = Idle => streams = {}

\* Every call ends, whatever fails in it and whatever the guest does.
CallEnds == call # Idle ~> call = Idle

\* What the format at the head of checkpoint.c says of the memory: a checkpoint
\* whose writes all succeeded has every region in it.  It does not hold: see
\* the run checkpoint_format.
FileFormat ==
    \A p \in Path : saved[p] # None =>
        Cardinality({i \in DOMAIN file[p] : file[p][i].kind = "region"}) = RegionCount
=============================================================================
