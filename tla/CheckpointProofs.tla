-------------------------- MODULE CheckpointProofs --------------------------
(***************************************************************************)
(* Proofs about Checkpoint, for any number of files, vCPUs and regions,    *)
(* any register contents and any size of the stream's buffer.              *)
(***************************************************************************)
EXTENDS Checkpoint, SequenceTheorems, TLAPS

\* The streams that are open where a call is.
StreamsOK ==
    /\ streams = CASE call.op = "idle" -> {}
                   [] call.op = "memory" -> {"f", "m"}
                   [] call.op = "reload" -> {"m"}
                   [] OTHER -> {"f"}
    /\ call.op = "idle" => call = Idle

\* A file that is being written exists, is not in the history of finished
\* checkpoints, and is at least as long as its stream has come.
WritingOK ==
    /\ buf \in Seq(FileCell) /\ mbuf \in Seq(FileCell) /\ taken \in Seq(Val)
    /\ call.n >= 1
    /\ call.op # "idle" => call.path \in Path /\ file[call.path] \in Seq(FileCell)
    /\ call.op \notin {"idle", "restore", "reload"} =>
          saved[call.path] = None /\ off <= Len(file[call.path])

\* How far the streams have come.
ProgressOK ==
    /\ call.op \in {"create", "incremental"} => off + Len(buf) < call.n
    /\ call.op = "create" => call.n <= Prefix + 1 /\ mbuf = << >>
    /\ call.op = "incremental" => call.n <= VcpuCount + 1 /\ call.kind = "incremental"
    /\ call.op = "memory" => call.n <= RegionCount + 1 /\ Len(mbuf) <= 2 * (call.n - 1)
    /\ call.op \in {"restore", "reload"} => call.n <= VcpuCount + 1

\* The cell at position j of what the stream has been given: written to the
\* file, or still in the buffer.
CellAt(j) == IF j <= off THEN file[call.path][j] ELSE buf[j - off]

\* As long as no write of a full checkpoint has failed, what the stream has
\* been given holds the vCPU states where snapshot_restore looks for them.
TakenOK ==
    /\ call.op \in {"create", "memory", "close"}
    /\ call.kind # "incremental" /\ call.ok /\ clean
    => /\ \A v \in 1 .. Len(taken) : /\ v + 2 <= off + Len(buf)
                                     /\ CellAt(v + 2) = Cell("vcpu", taken[v])
       /\ IF call.op = "create" /\ call.n <= VcpuCount + 3
          THEN /\ off + Len(buf) = call.n - 1
               /\ Len(taken) = IF call.n <= 3 THEN 0 ELSE call.n - 3
          ELSE Len(taken) = VcpuCount

\* The inductive invariant.
FileInv == TypeOK /\ StreamsOK /\ WritingOK /\ ProgressOK /\ TakenOK /\ VcpuRoundTrip

\* What a write at a place inside a file leaves of it.
LEMMA OverlayEffect ==
    ASSUME NEW c \in Seq(FileCell), NEW cells \in Seq(FileCell), NEW at \in 0 .. Len(c)
    PROVE  /\ Overlay(c, at, cells) \in Seq(FileCell)
           /\ Len(Overlay(c, at, cells)) =
                 IF Len(c) > at + Len(cells) THEN Len(c) ELSE at + Len(cells)
           /\ \A i \in 1 .. at : Overlay(c, at, cells)[i] = c[i]
           /\ \A i \in 1 .. Len(cells) : Overlay(c, at, cells)[at + i] = cells[i]
  <1> DEFINE n == IF Len(c) > at + Len(cells) THEN Len(c) ELSE at + Len(cells)
  <1>1. n \in Nat /\ at \in Nat /\ Len(cells) \in Nat /\ Len(c) \in Nat
    OBVIOUS
  <1>2. Overlay(c, at, cells) = [i \in 1 .. n |->
            IF i \in (at + 1) .. (at + Len(cells)) THEN cells[i - at] ELSE c[i]]
    BY DEF Overlay
  <1>3. \A i \in 1 .. n : Overlay(c, at, cells)[i] \in FileCell
    BY <1>1, <1>2
  <1>4. Overlay(c, at, cells) \in [1 .. n -> FileCell]
    BY <1>2, <1>3
  <1>5. Overlay(c, at, cells) \in Seq(FileCell) /\ Len(Overlay(c, at, cells)) = n
    BY <1>1, <1>4, SMTT(30)
  <1>6. \A i \in 1 .. at : Overlay(c, at, cells)[i] = c[i]
    BY <1>1, <1>2
  <1>7. \A i \in 1 .. Len(cells) : Overlay(c, at, cells)[at + i] = cells[i]
    BY <1>1, <1>2
  <1> QED
    BY <1>5, <1>6, <1>7

\* The objects that the calls write are cells of a file.
LEMMA ObjectCell ==
    ASSUME FileInv
    PROVE  /\ \A n \in 1 .. Prefix : Object(n) \in FileCell
           /\ \A n \in 1 .. Prefix : Object(n).kind = "vcpu" <=> n - 2 \in Vcpu
           /\ \A v \in Vcpu : Object(v + 2) = Cell("vcpu", regs[v])
           /\ \A n \in 1 .. (VcpuCount + 1) : IncrementalObject(n) \in FileCell
           /\ \A r \in Region : \A cells \in RegionCells(r) :
                 cells \in Seq(FileCell) /\ Len(cells) \in 1 .. 2
  <1> USE CheckpointAssumption
  <1>1. \A n \in 1 .. Prefix : Object(n) =
           IF n = 1 THEN Cell("header", None)
           ELSE IF n = 2 THEN Cell("config", None)
           ELSE IF n - 2 \in Vcpu THEN Cell("vcpu", regs[n - 2])
           ELSE IF n = VcpuCount + 3 THEN Cell("device_size", None)
           ELSE Cell("device", None)
    BY DEF Object, Prefix, Vcpu
  <1>2. \A v \in Vcpu : regs[v] \in Val
    BY DEF FileInv, TypeOK
  <1>3. \A r \in Region : ram[r] \in Val
    BY DEF FileInv, TypeOK
  <1>4. \A v \in Vcpu : v + 2 \in 1 .. Prefix /\ v + 2 - 2 = v /\ v + 2 # 1 /\ v + 2 # 2
    BY DEF Vcpu, Prefix
  <1>5. \A n \in 1 .. Prefix : n - 2 \in Vcpu => n # 1 /\ n # 2
    BY DEF Vcpu
  <1>6. \A n \in 1 .. (VcpuCount + 1) : n # 1 => n - 1 \in Vcpu
    BY DEF Vcpu
  <1>7. /\ \A kind \in {"header", "incremental", "config", "device_size", "device", "region"} :
              Cell(kind, None) \in FileCell
        /\ \A kind \in {"vcpu", "ram"}, val \in Val : Cell(kind, val) \in FileCell
    BY DEF Cell, FileCell
  <1>8. \A n \in 1 .. Prefix : Object(n) \in FileCell
    BY <1>1, <1>2, <1>7
  <1>9. \A n \in 1 .. Prefix : Object(n).kind = "vcpu" <=> n - 2 \in Vcpu
    BY <1>1, <1>5 DEF Cell
  <1>10. \A v \in Vcpu : Object(v + 2) = Cell("vcpu", regs[v])
    <2> TAKE v \in Vcpu
    <2>1. PICK k \in 1 .. Prefix : k = v + 2 /\ k - 2 = v /\ k # 1 /\ k # 2
      BY DEF Vcpu, Prefix
    <2>2. Object(k) = Cell("vcpu", regs[v])
      BY <1>1, <2>1
    <2> QED
      BY <2>1, <2>2
  <1>11. \A n \in 1 .. (VcpuCount + 1) : IncrementalObject(n) \in FileCell
    BY <1>2, <1>6, <1>7 DEF IncrementalObject
  <1>12. ASSUME NEW r \in Region, NEW cells \in RegionCells(r)
         PROVE  cells \in Seq(FileCell) /\ Len(cells) \in 1 .. 2
    <2>1. Cell("region", None) \in FileCell /\ Cell("ram", ram[r]) \in FileCell
      BY <1>3, <1>7
    <2>2. cells \in {<<Cell("region", None)>>, <<Cell("region", None), Cell("ram", ram[r])>>}
      BY <1>12 DEF RegionCells
    <2>3. PICK a \in FileCell, b \in FileCell : cells \in {<<a>>, <<a, b>>}
      BY <2>1, <2>2
    <2>4. CASE cells = <<a>>
      BY <2>4
    <2>5. CASE cells = <<a, b>>
      BY <2>5
    <2> QED
      BY <2>3, <2>4, <2>5
  <1> QED
    BY <1>8, <1>9, <1>10, <1>11, <1>12

\* fwrite of one object: what the stream has been given grows by it, in the
\* buffer or in the file, and nothing else changes.
LEMMA FwriteEffect ==
    ASSUME FileInv, NEW cell \in FileCell, cell.kind = "vcpu" => cell.val \in Val,
           call.op \in {"create", "incremental"},
           Fwrite(cell) \/ FwriteFails(cell)
    PROVE  /\ file' \in [Path -> Seq(FileCell) \cup {NoFile}]
           /\ file'[call.path] \in Seq(FileCell)
           /\ \A p \in Path : p # call.path => file'[p] = file[p]
           /\ buf' \in Seq(FileCell) /\ taken' \in Seq(Val) /\ clean' \in BOOLEAN
           /\ off' \in Nat /\ off' <= Len(file'[call.path])
           /\ off' + Len(buf') = off + Len(buf) + 1
           /\ clean' =>
                /\ clean
                /\ taken' = IF cell.kind = "vcpu" THEN Append(taken, cell.val) ELSE taken
                /\ \A j \in 1 .. (off + Len(buf)) :
                      (IF j <= off' THEN file'[call.path][j] ELSE buf'[j - off']) = CellAt(j)
                /\ (IF off + Len(buf) + 1 <= off' THEN file'[call.path][off + Len(buf) + 1]
                    ELSE buf'[off + Len(buf) + 1 - off']) = cell
  <1> DEFINE b == Append(buf, cell)
  <1>1. /\ buf \in Seq(FileCell) /\ taken \in Seq(Val) /\ clean \in BOOLEAN
        /\ call.path \in Path /\ file[call.path] \in Seq(FileCell)
        /\ file \in [Path -> Seq(FileCell) \cup {NoFile}]
        /\ off \in Nat /\ off \in 0 .. Len(file[call.path]) /\ Len(buf) \in Nat
    <2>1. file \in [Path -> Seq(FileCell) \cup {NoFile}] /\ off \in 0 .. Prefix /\ clean \in BOOLEAN
      BY DEF FileInv, TypeOK
    <2>2. Prefix \in Nat
      BY CheckpointAssumption DEF Prefix
    <2>3. /\ buf \in Seq(FileCell) /\ taken \in Seq(Val) /\ call.path \in Path
          /\ file[call.path] \in Seq(FileCell) /\ off <= Len(file[call.path])
      BY DEF FileInv, WritingOK
    <2> QED
      BY <2>1, <2>2, <2>3
  <1>2. /\ b \in Seq(FileCell) /\ Len(b) = Len(buf) + 1
        /\ \A i \in 1 .. Len(buf) : b[i] = buf[i]
        /\ b[Len(buf) + 1] = cell
    BY <1>1, AppendProperties
  <1>3. taken' \in Seq(Val)
    <2>1. \/ taken' = taken
          \/ cell.kind = "vcpu" /\ taken' = Append(taken, cell.val)
      BY DEF Fwrite, FwriteFails
    <2>2. cell.kind = "vcpu" => Append(taken, cell.val) \in Seq(Val)
      BY <1>1, AppendProperties
    <2> QED
      BY <1>1, <2>1, <2>2
  <1>4. CASE buf' = b /\ UNCHANGED <<file, off>>
    <2>1. file'[call.path] = file[call.path] /\ off' = off
      BY <1>4
    <2>2. off' + Len(buf') = off + Len(buf) + 1
      BY <1>1, <1>2, <1>4
    <2>3. \A j \in 1 .. (off + Len(buf)) :
             (IF j <= off' THEN file'[call.path][j] ELSE buf'[j - off']) = CellAt(j)
      <3> TAKE j \in 1 .. (off + Len(buf))
      <3>1. CASE j <= off
        BY <3>1, <1>4 DEF CellAt
      <3>2. CASE ~(j <= off)
        <4>1. j - off \in 1 .. Len(buf)
          BY <3>2, <1>1
        <4> QED
          BY <3>2, <4>1, <1>2, <1>4 DEF CellAt
      <3> QED
        BY <3>1, <3>2
    <2>4. off + Len(buf) + 1 - off' = Len(buf) + 1 /\ ~(off + Len(buf) + 1 <= off')
      BY <1>1, <1>4
    <2>5. clean' \in BOOLEAN
          /\ (clean' => /\ clean
                        /\ taken' = IF cell.kind = "vcpu" THEN Append(taken, cell.val) ELSE taken)
      <3>1. CASE Fwrite(cell)
        BY <1>1, <3>1 DEF Fwrite
      <3>2. CASE FwriteFails(cell)
        BY <3>2 DEF FwriteFails
      <3> QED
        BY <3>1, <3>2
    <2> QED
      BY <1>1, <1>2, <1>3, <1>4, <2>1, <2>2, <2>3, <2>4, <2>5
  <1>5. CASE /\ file' = [file EXCEPT ![call.path] = Overlay(@, off, b)]
             /\ off' = off + Len(buf) + 1 /\ buf' = << >> /\ UNCHANGED clean
    <2> HIDE DEF b
    <2> DEFINE o == Overlay(file[call.path], off, b)
    <2>1. /\ o \in Seq(FileCell)
          /\ Len(o) = IF Len(file[call.path]) > off + Len(b) THEN Len(file[call.path])
                      ELSE off + Len(b)
          /\ \A i \in 1 .. off : o[i] = file[call.path][i]
          /\ \A i \in 1 .. Len(b) : o[off + i] = b[i]
      BY <1>1, <1>2, OverlayEffect
    <2> HIDE DEF o
    <2>2. file'[call.path] = o /\ file' \in [Path -> Seq(FileCell) \cup {NoFile}]
          /\ \A p \in Path : p # call.path => file'[p] = file[p]
      BY <1>1, <1>5, <2>1 DEF o
    <2>3. Len(o) \in Nat /\ Len(buf') = 0 /\ buf' \in Seq(FileCell)
      BY <1>5, <2>1
    <2>4. off' <= Len(o) /\ off' + Len(buf') = off + Len(buf) + 1
      BY <1>1, <1>2, <1>5, <2>1, <2>3
    <2>5. \A j \in 1 .. (off + Len(buf)) :
             (IF j <= off' THEN file'[call.path][j] ELSE buf'[j - off']) = CellAt(j)
      <3> TAKE j \in 1 .. (off + Len(buf))
      <3>0. j <= off' /\ j \in Nat
        BY <1>1, <1>5
      <3>1. CASE j <= off
        BY <3>0, <3>1, <2>1, <2>2, <1>1 DEF CellAt
      <3>2. CASE ~(j <= off)
        <4>1. j - off \in 1 .. Len(buf) /\ j - off \in 1 .. Len(b) /\ off + (j - off) = j
          BY <3>2, <1>1, <1>2
        <4>2. o[j] = b[j - off] /\ b[j - off] = buf[j - off]
          BY <4>1, <2>1, <1>2
        <4> QED
          BY <3>0, <3>2, <4>2, <2>2 DEF CellAt
      <3> QED
        BY <3>1, <3>2
    <2>6. o[off + (Len(buf) + 1)] = cell
      BY <1>1, <1>2, <2>1
    <2>7. off + (Len(buf) + 1) = off + Len(buf) + 1 /\ off + Len(buf) + 1 <= off'
      BY <1>1, <1>5
    <2>8. taken' = IF cell.kind = "vcpu" THEN Append(taken, cell.val) ELSE taken
      BY <1>5, <1>1 DEF Fwrite, FwriteFails, b
    <2>9. (IF off + Len(buf) + 1 <= off' THEN file'[call.path][off + Len(buf) + 1]
           ELSE buf'[off + Len(buf) + 1 - off']) = cell
      BY <2>2, <2>6, <2>7
    <2>10. clean' = clean /\ clean' \in BOOLEAN /\ off' \in Nat
      BY <1>1, <1>5
    <2> QED
      BY <1>3, <2>1, <2>2, <2>3, <2>4, <2>5, <2>8, <2>9, <2>10
  <1> QED
    BY <1>4, <1>5 DEF Fwrite, FwriteFails

\* The initial states.
LEMMA InitFile == Init => FileInv
  <1> SUFFICES ASSUME Init PROVE FileInv
    OBVIOUS
  <1>1. Prefix \in Nat /\ RegionCount \in Nat /\ 1 <= Prefix + 1
    BY CheckpointAssumption DEF Prefix
  <1>2. Idle \in Call /\ Idle.n = 1 /\ Idle.op = "idle"
    BY DEF Idle, Begin, Call
  <1>3. /\ call = Idle /\ buf = << >> /\ mbuf = << >> /\ taken = << >> /\ off = 0
        /\ Len(buf) = 0 /\ Len(mbuf) = 0 /\ clean \in BOOLEAN /\ streams = {}
    BY DEF Init
  <1>4. TypeOK
    BY <1>1, <1>2, <1>3 DEF Init, TypeOK
  <1>5. StreamsOK /\ WritingOK /\ ProgressOK /\ TakenOK
    BY <1>2, <1>3 DEF StreamsOK, WritingOK, ProgressOK, TakenOK
  <1>6. VcpuRoundTrip
    BY DEF Init, VcpuRoundTrip
  <1> QED
    BY <1>4, <1>5, <1>6 DEF FileInv

\* A call that has not begun, or has ended or died, satisfies the parts about
\* calls.
LEMMA NoCall ==
    ASSUME call' = Idle, streams' = {},
           buf' \in Seq(FileCell), mbuf' \in Seq(FileCell), taken' \in Seq(Val)
    PROVE  StreamsOK' /\ WritingOK' /\ ProgressOK' /\ TakenOK'
  <1>1. Idle.n = 1 /\ Idle.op = "idle"
    BY DEF Idle, Begin
  <1> QED
    BY <1>1 DEF StreamsOK, WritingOK, ProgressOK, TakenOK

\* Between calls the buffers are empty.
LEMMA Between ==
    ASSUME FileInv, call = Idle
    PROVE  call.op = "idle" /\ call.n = 1 /\ streams = {}
  BY DEF FileInv, StreamsOK, Idle, Begin

\* checkpoint_open for writing, by any of the calls that do.
LEMMA OpenFile ==
    ASSUME FileInv, call = Idle, NEW p \in Path,
           NEW op \in {"create", "incremental"}, NEW kind \in {"checkpoint", "snapshot", "incremental"},
           (op = "incremental") = (kind = "incremental"),
           OpenForWriting(p, op, kind), UNCHANGED <<guestVars, block>>,
           state' \in {"RUNNING", "SUSPENDED"}
    PROVE  FileInv'
  <1> USE DEF guestVars
  <1>1. Prefix \in Nat /\ RegionCount \in Nat /\ VcpuCount \in Nat /\ 0 \in 0 .. Prefix
        /\ 1 <= VcpuCount + 1 /\ 1 <= Prefix + 1 /\ 1 <= VcpuCount + 3 /\ 0 <= 2 * RegionCount
    BY CheckpointAssumption DEF Prefix
  <1>2. /\ call'.op = op /\ call'.kind = kind /\ call'.path = p /\ call'.n = 1 /\ call'.ok = TRUE
        /\ call' \in Call
    BY DEF OpenForWriting, Begin, Call
  <1>3. /\ buf' = << >> /\ mbuf' = << >> /\ taken' = << >> /\ off' = 0 /\ clean' = TRUE
        /\ Len(buf') = 0 /\ Len(mbuf') = 0 /\ Len(taken') = 0
        /\ streams' = {"f"}
    BY DEF OpenForWriting
  <1>4. /\ file \in [Path -> Seq(FileCell) \cup {NoFile}] /\ saved \in [Path -> Seq(Val) \cup {None}]
        /\ regs \in [Vcpu -> Val] /\ ram \in [Region -> Val] /\ block \in Blocks
    BY DEF FileInv, TypeOK
  <1>5. /\ file' \in [Path -> Seq(FileCell) \cup {NoFile}] /\ file'[p] = << >>
        /\ saved' \in [Path -> Seq(Val) \cup {None}] /\ saved'[p] = None
        /\ \A q \in Path : q # p => file'[q] = file[q] /\ saved'[q] = saved[q]
    BY <1>4 DEF OpenForWriting
  <1>6. TypeOK'
    <2>1. /\ off' \in 0 .. Prefix /\ Len(buf') + off' <= Prefix /\ Len(mbuf') <= 2 * RegionCount
          /\ call'.n <= Prefix + 1
      BY <1>1, <1>2, <1>3
    <2>2. /\ regs' \in [Vcpu -> Val] /\ ram' \in [Region -> Val] /\ block' \in Blocks
          /\ clean' \in BOOLEAN /\ streams' \subseteq {"f", "m"} /\ call' \in Call
      BY <1>2, <1>3, <1>4
    <2> QED
      BY <1>5, <2>1, <2>2 DEF TypeOK
  <1>7. StreamsOK'
    BY <1>2, <1>3 DEF StreamsOK
  <1>8. WritingOK'
    BY <1>2, <1>3, <1>5 DEF WritingOK
  <1>9. ProgressOK'
    BY <1>1, <1>2, <1>3 DEF ProgressOK
  <1>10. TakenOK'
    BY <1>1, <1>2, <1>3 DEF TakenOK
  <1>11. VcpuRoundTrip'
    BY <1>5 DEF FileInv, VcpuRoundTrip
  <1> QED
    BY <1>6, <1>7, <1>8, <1>9, <1>10, <1>11 DEF FileInv

\* The types of the variables.
LEMMA FileTypes ==
    ASSUME FileInv
    PROVE  /\ file \in [Path -> Seq(FileCell) \cup {NoFile}]
           /\ saved \in [Path -> Seq(Val) \cup {None}]
           /\ state \in {"RUNNING", "SUSPENDED"}
           /\ regs \in [Vcpu -> Val] /\ ram \in [Region -> Val] /\ block \in Blocks
           /\ call \in Call /\ streams \subseteq {"f", "m"} /\ clean \in BOOLEAN
           /\ buf \in Seq(FileCell) /\ mbuf \in Seq(FileCell) /\ taken \in Seq(Val)
  BY DEF FileInv, WritingOK, TypeOK

\* Lengths, offsets and counts are numbers within their bounds.
Sizes ==
    /\ VcpuCount \in Nat /\ RegionCount \in Nat
    /\ Prefix \in Nat /\ Prefix = VcpuCount + 4
    /\ call.n \in Nat /\ call.n >= 1
    /\ (call.n <= Prefix + 1 \/ call.n <= RegionCount + 1)
    /\ off \in Nat /\ Len(buf) \in Nat /\ Len(mbuf) \in Nat /\ Len(taken) \in Nat
    /\ Len(buf) + off <= Prefix /\ Len(mbuf) <= 2 * RegionCount

\* The invariant implies it.
LEMMA Numbers == ASSUME FileInv PROVE Sizes
  <1>1. Prefix \in Nat /\ Prefix = VcpuCount + 4 /\ VcpuCount \in Nat /\ RegionCount \in Nat
    BY CheckpointAssumption DEF Prefix
  <1>2. call.n \in Nat
    BY FileTypes DEF Call
  <1>3. Len(buf) \in Nat /\ Len(mbuf) \in Nat /\ Len(taken) \in Nat
    BY FileTypes
  <1>4. off \in 0 .. Prefix
    BY DEF FileInv, TypeOK
  <1>5. off \in Nat
    BY <1>1, <1>4
  <1>6. /\ (call.n <= Prefix + 1 \/ call.n <= RegionCount + 1)
        /\ Len(buf) + off <= Prefix /\ Len(mbuf) <= 2 * RegionCount
    BY DEF FileInv, TypeOK
  <1> QED
    BY <1>1, <1>2, <1>3, <1>5, <1>6, SMTT(30) DEF FileInv, WritingOK, Sizes

\* A step that changes neither the files nor the finished checkpoints, or only
\* the one file that is being written.
LEMMA RoundTripFrame ==
    ASSUME FileInv, UNCHANGED saved,
           \A p \in Path : saved[p] # None => file'[p] = file[p]
    PROVE  VcpuRoundTrip'
  BY DEF FileInv, VcpuRoundTrip

\* One object of a full checkpoint.
LEMMA WriteObject == ASSUME FileInv, write_object PROVE FileInv'
  <1> DEFINE n == call.n
             cell == Object(n)
  <1>0. Sizes
    BY Numbers
  <1>1. /\ call.op = "create" /\ n \in 1 .. Prefix /\ off + Len(buf) < n
        /\ mbuf = << >> /\ streams = {"f"} /\ call.path \in Path /\ saved[call.path] = None
    BY <1>0, SMTT(30) DEF write_object, FileInv, ProgressOK, StreamsOK, WritingOK, Sizes
  <1>2. /\ UNCHANGED <<saved, state, regs, ram, block, streams, mbuf>>
    BY DEF write_object, guestVars
  <1>3. cell \in FileCell /\ (cell.kind = "vcpu" => cell.val \in Val)
    <2>1. cell \in FileCell /\ (cell.kind = "vcpu" <=> n - 2 \in Vcpu)
      BY <1>1, ObjectCell
    <2>2. ASSUME n - 2 \in Vcpu PROVE cell.val \in Val
      <3>1. PICK v \in Vcpu : v = n - 2
        BY <2>2
      <3>2. n = v + 2
        BY <1>1, <3>1, CheckpointAssumption DEF Vcpu, Prefix
      <3>3. cell = Cell("vcpu", regs[v]) /\ regs[v] \in Val
        BY <3>2, ObjectCell, FileTypes
      <3> QED
        BY <3>3 DEF Cell
    <2> QED
      BY <2>1, <2>2
  <1>4. Fwrite(cell) \/ FwriteFails(cell)
    BY DEF write_object
  <1> HIDE DEF cell
  <1>5. /\ file' \in [Path -> Seq(FileCell) \cup {NoFile}]
        /\ file'[call.path] \in Seq(FileCell)
        /\ \A p \in Path : p # call.path => file'[p] = file[p]
        /\ buf' \in Seq(FileCell) /\ taken' \in Seq(Val) /\ clean' \in BOOLEAN
        /\ off' \in Nat /\ off' <= Len(file'[call.path])
        /\ off' + Len(buf') = off + Len(buf) + 1
    BY <1>1, <1>3, <1>4, FwriteEffect
  <1>6. /\ call' \in Call /\ call'.path = call.path /\ call'.kind = call.kind
        /\ call'.op \in {"create", "close"} /\ call'.n \in 1 .. (Prefix + 1)
        /\ call'.op = "create" => n < call'.n
        /\ call'.ok \in {call.ok, FALSE}
    <2>1. \/ call' = [call EXCEPT !.n = n + 1]
          \/ call' = [call EXCEPT !.op = "close", !.ok = FALSE]
          \/ call' = [call EXCEPT !.n = Prefix + 1]
      BY DEF write_object
    <2>2. n + 1 \in Nat /\ n + 1 \in 1 .. (Prefix + 1) /\ n < n + 1 /\ n \in 1 .. (Prefix + 1)
          /\ Prefix + 1 \in Nat /\ Prefix + 1 \in 1 .. (Prefix + 1) /\ n < Prefix + 1
      BY <1>1, <1>0, SMTT(30) DEF Sizes
    <2>3. CASE call' = [call EXCEPT !.n = n + 1]
      BY <1>1, <2>2, <2>3, FileTypes DEF Call
    <2>4. CASE call' = [call EXCEPT !.op = "close", !.ok = FALSE]
      BY <1>1, <2>2, <2>4, FileTypes DEF Call
    <2>5. CASE call' = [call EXCEPT !.n = Prefix + 1]
      BY <1>1, <2>2, <2>5, FileTypes DEF Call
    <2> QED
      BY <2>1, <2>3, <2>4, <2>5
  <1>7. VcpuRoundTrip'
    BY <1>1, <1>2, <1>5, RoundTripFrame
  <1>8. StreamsOK'
    BY <1>1, <1>2, <1>6 DEF StreamsOK
  <1>9. WritingOK'
    <2>1. mbuf' \in Seq(FileCell) /\ call'.n >= 1
      BY <1>1, <1>2, <1>6, <1>0, SMTT(30) DEF Sizes
    <2> QED
      BY <1>1, <1>2, <1>5, <1>6, <2>1 DEF WritingOK
  <1>10. off' + Len(buf') <= n /\ Len(buf') \in Nat /\ Len(buf') + off' <= Prefix
         /\ off' \in 0 .. Prefix
    BY <1>1, <1>5, <1>0, SMTT(30) DEF Sizes
  <1>11. ProgressOK'
    <2>1. call'.op = "create" => off' + Len(buf') < call'.n
      BY <1>1, <1>5, <1>6, <1>10, <1>0, SMTT(30) DEF Sizes
    <2>2. call'.n <= Prefix + 1
      BY <1>6, <1>0, SMTT(30) DEF Sizes
    <2> QED
      BY <1>1, <1>2, <1>6, <2>1, <2>2 DEF ProgressOK
  <1>12. TypeOK'
    <2>1. call'.n <= Prefix + 1 /\ Len(mbuf') <= 2 * RegionCount
      BY <1>2, <1>6, <1>0, SMTT(30) DEF Sizes
    <2> QED
      BY <1>2, <1>5, <1>6, <1>10, <2>1, FileTypes DEF TypeOK
  <1>13. TakenOK'
    <2> DEFINE L == off + Len(buf)
               Then(j) == IF j <= off' THEN file'[call.path][j] ELSE buf'[j - off']
    <2> SUFFICES ASSUME call'.kind # "incremental", call'.ok, clean'
                 PROVE  /\ \A v \in 1 .. Len(taken') :
                              v + 2 <= off' + Len(buf') /\ Then(v + 2) = Cell("vcpu", taken'[v])
                        /\ IF call'.op = "create" /\ call'.n <= VcpuCount + 3
                           THEN /\ off' + Len(buf') = call'.n - 1
                                /\ Len(taken') = IF call'.n <= 3 THEN 0 ELSE call'.n - 3
                           ELSE Len(taken') = VcpuCount
      BY <1>6 DEF TakenOK, CellAt
    <2>1. /\ clean /\ L \in Nat
          /\ taken' = IF cell.kind = "vcpu" THEN Append(taken, cell.val) ELSE taken
          /\ \A j \in 1 .. L : Then(j) = CellAt(j)
          /\ Then(L + 1) = cell
          /\ off' + Len(buf') = L + 1
      <3>1. L \in Nat /\ off' + Len(buf') = L + 1
        BY <1>5, <1>0, SMTT(30) DEF Sizes
      <3> QED
        BY <1>1, <1>3, <1>4, <3>1, FwriteEffect, SMTT(30)
    <2> HIDE DEF Then
    <2>2. call' = [call EXCEPT !.n = @ + 1]
      BY <2>1 DEF write_object, Fwrite, FwriteFails, cell
    <2>3. call'.op = "create" /\ call'.n = n + 1
      BY <1>1, <2>2, FileTypes DEF Call
    <2>4. /\ \A v \in 1 .. Len(taken) : v + 2 <= L /\ CellAt(v + 2) = Cell("vcpu", taken[v])
          /\ IF n <= VcpuCount + 3
             THEN L = n - 1 /\ Len(taken) = IF n <= 3 THEN 0 ELSE n - 3
             ELSE Len(taken) = VcpuCount
      BY <1>1, <1>6, <2>1 DEF FileInv, TakenOK
    <2>5. \A v \in 1 .. Len(taken) : v + 2 \in 1 .. L
      BY <2>1, <2>4, <1>0, SMTT(30) DEF Sizes
    <2> HIDE DEF L
    <2>6. CASE n - 2 \in Vcpu
      <3>1. PICK v \in Vcpu : v = n - 2
        BY <2>6
      <3>2. n = v + 2 /\ v \in 1 .. VcpuCount /\ 3 <= n /\ n <= VcpuCount + 2
        BY <1>1, <3>1, <1>0, SMTT(30) DEF Vcpu, Sizes
      <3>3. cell = Cell("vcpu", regs[v]) /\ regs[v] \in Val
        BY <3>2, ObjectCell, FileTypes DEF cell
      <3>4. taken' = Append(taken, regs[v]) /\ taken \in Seq(Val)
        BY <2>1, <3>3 DEF Cell, FileInv, WritingOK
      <3>5. Len(taken) = v - 1 /\ L + 1 = v + 2
        BY <2>1, <2>4, <3>2, <1>0, SMTT(30) DEF Sizes
      <3>6. /\ Len(taken') = v /\ taken'[v] = regs[v]
            /\ \A w \in 1 .. (v - 1) : taken'[w] = taken[w]
        BY <3>2, <3>3, <3>4, <3>5, AppendProperties
      <3>7. Then(v + 2) = Cell("vcpu", taken'[v])
        BY <2>1, <3>3, <3>5, <3>6
      <3>8. \A w \in 1 .. (v - 1) : Then(w + 2) = Cell("vcpu", taken'[w])
        BY <2>1, <2>4, <2>5, <3>5, <3>6
      <3>9. \A w \in 1 .. v : w + 2 <= L + 1 /\ (w = v \/ w \in 1 .. (v - 1))
        BY <3>2, <3>5
      <3>10. \A w \in 1 .. Len(taken') :
               w + 2 <= off' + Len(buf') /\ Then(w + 2) = Cell("vcpu", taken'[w])
        BY <2>1, <3>6, <3>7, <3>8, <3>9
      <3> QED
        BY <2>1, <2>3, <3>2, <3>5, <3>6, <3>10, <1>0, SMTT(30) DEF Sizes
    <2>7. CASE n - 2 \notin Vcpu
      <3>1. taken' = taken
        BY <1>1, <2>1, <2>7, ObjectCell DEF cell
      <3>2. \A v \in 1 .. Len(taken') :
               v + 2 <= off' + Len(buf') /\ Then(v + 2) = Cell("vcpu", taken'[v])
        BY <2>1, <2>4, <2>5, <3>1, <1>0, SMTT(30) DEF Sizes
      <3>3. n <= 2 \/ n >= VcpuCount + 3
        BY <1>1, <2>7, <1>0, SMTT(30) DEF Vcpu, Sizes
      <3>4. CASE n <= 2
        <4>1. n <= VcpuCount + 3 /\ n + 1 <= VcpuCount + 3 /\ n <= 3 /\ n + 1 <= 3
          BY <1>1, <3>4, <1>0, SMTT(30) DEF Sizes
        <4>2. L = n - 1 /\ Len(taken') = 0
          BY <2>4, <3>1, <4>1
        <4>3. off' + Len(buf') = call'.n - 1
          BY <1>1, <2>1, <2>3, <4>2
        <4> QED
          BY <2>3, <3>2, <4>1, <4>2, <4>3
      <3>5. CASE n = VcpuCount + 3
        BY <1>1, <2>1, <2>3, <2>4, <3>1, <3>2, <3>5, <1>0, SMTT(30) DEF Sizes
      <3>6. CASE n > VcpuCount + 3
        BY <1>1, <2>1, <2>3, <2>4, <3>1, <3>2, <3>6, <1>0, SMTT(30) DEF Sizes
      <3> QED
        BY <1>1, <3>3, <3>4, <3>5, <3>6, <1>0, SMTT(30) DEF Sizes
    <2> QED
      BY <2>6, <2>7
  <1> QED
    BY <1>7, <1>8, <1>9, <1>11, <1>12, <1>13 DEF FileInv

\* Steps of a full checkpoint that leave the files and what the stream has
\* been given alone.
LEMMA CreateAdvances ==
    ASSUME FileInv, no_device_state \/ checkpoint_save_memory
    PROVE  FileInv'
  <1>0. Sizes
    BY Numbers
  <1>1. /\ call.op = "create" /\ mbuf = << >> /\ streams = {"f"}
        /\ off + Len(buf) < call.n /\ call.path \in Path
        /\ file[call.path] \in Seq(FileCell) /\ saved[call.path] = None
        /\ off <= Len(file[call.path])
    BY DEF no_device_state, checkpoint_save_memory, FileInv, ProgressOK, StreamsOK, WritingOK
  <1>2. UNCHANGED <<file, saved, state, regs, ram, block, buf, off, mbuf, taken, clean>>
    BY DEF no_device_state, checkpoint_save_memory, fileVars, guestVars, streamVars
  <1>3. call.n >= VcpuCount + 3
    BY <1>0, SMTT(30) DEF no_device_state, checkpoint_save_memory, Sizes
  <1>4. \/ call' = [call EXCEPT !.n = Prefix + 1] /\ streams' = {"f"}
        \/ call' = [call EXCEPT !.op = "memory", !.n = 1] /\ streams' = {"f", "m"}
        \/ call' = [call EXCEPT !.op = "close", !.ok = FALSE] /\ streams' = {"f"}
    BY <1>1 DEF no_device_state, checkpoint_save_memory, streamVars
  <1>5. /\ call' \in Call /\ call'.path = call.path /\ call'.kind = call.kind
        /\ \/ call'.op = "create" /\ call'.n = Prefix + 1 /\ call'.ok = call.ok /\ streams' = {"f"}
           \/ call'.op = "memory" /\ call'.n = 1 /\ call'.ok = call.ok /\ streams' = {"f", "m"}
           \/ call'.op = "close" /\ call'.n = call.n /\ call'.ok = FALSE /\ streams' = {"f"}
    <2>1. Prefix + 1 \in Nat
      BY <1>0, SMTT(30) DEF Sizes
    <2>2. CASE call' = [call EXCEPT !.n = Prefix + 1] /\ streams' = {"f"}
      BY <1>1, <2>1, <2>2, FileTypes DEF Call
    <2>3. CASE call' = [call EXCEPT !.op = "memory", !.n = 1] /\ streams' = {"f", "m"}
      BY <1>1, <2>3, FileTypes DEF Call
    <2>4. CASE call' = [call EXCEPT !.op = "close", !.ok = FALSE] /\ streams' = {"f"}
      BY <1>1, <2>4, FileTypes DEF Call
    <2> QED
      BY <1>4, <2>2, <2>3, <2>4
  <1>6. VcpuRoundTrip'
    BY <1>2, RoundTripFrame
  <1>7. StreamsOK'
    BY <1>5 DEF StreamsOK
  <1>8. call'.n >= 1 /\ (call'.n <= Prefix + 1 \/ call'.n <= RegionCount + 1)
    BY <1>0, <1>5, SMTT(30) DEF Sizes
  <1>9. WritingOK'
    BY <1>1, <1>2, <1>5, <1>8, FileTypes DEF WritingOK
  <1>10. ProgressOK'
    <2>1. Len(mbuf') = 0
      BY <1>1, <1>2
    <2>2. off' + Len(buf') < Prefix + 1 /\ Prefix + 1 <= Prefix + 1
      BY <1>0, <1>2, SMTT(30) DEF Sizes
    <2>3. 1 <= RegionCount + 1 /\ 2 * (1 - 1) = 0 /\ 0 <= 0
      BY <1>0, SMTT(30) DEF Sizes
    <2> QED
      BY <1>1, <1>2, <1>5, <2>1, <2>2, <2>3 DEF ProgressOK
  <1>11. TypeOK'
    BY <1>2, <1>5, <1>8 DEF FileInv, TypeOK
  <1>12. TakenOK'
    <2> SUFFICES ASSUME call'.kind # "incremental", call'.ok, clean'
                 PROVE  /\ \A v \in 1 .. Len(taken) :
                              v + 2 <= off + Len(buf) /\ CellAt(v + 2) = Cell("vcpu", taken[v])
                        /\ Len(taken) = VcpuCount
      <3>1. call'.op = "create" => ~(call'.n <= VcpuCount + 3)
        BY <1>0, <1>5, SMTT(30) DEF Sizes
      <3> QED
        BY <1>2, <1>5, <3>1 DEF TakenOK, CellAt
    <2>1. call.kind # "incremental" /\ call.ok /\ clean
      BY <1>2, <1>5
    <2>2. /\ \A v \in 1 .. Len(taken) :
                v + 2 <= off + Len(buf) /\ CellAt(v + 2) = Cell("vcpu", taken[v])
          /\ IF call.n <= VcpuCount + 3
             THEN Len(taken) = IF call.n <= 3 THEN 0 ELSE call.n - 3
             ELSE Len(taken) = VcpuCount
      BY <1>1, <2>1 DEF FileInv, TakenOK
    <2>3. Len(taken) = VcpuCount
      BY <1>0, <1>3, <2>2, SMTT(30) DEF Sizes
    <2> QED
      BY <2>2, <2>3
  <1> QED
    BY <1>6, <1>7, <1>9, <1>10, <1>11, <1>12 DEF FileInv

\* checkpoint_save_memory: a region is given to the second stream, and the end.
LEMMA SaveMemory ==
    ASSUME FileInv, save_region \/ memory_close
    PROVE  FileInv'
  <1>0. Sizes
    BY Numbers
  <1>1. /\ call.op = "memory" /\ streams = {"f", "m"} /\ call.path \in Path
        /\ file[call.path] \in Seq(FileCell) /\ saved[call.path] = None
        /\ off <= Len(file[call.path])
        /\ call.n <= RegionCount + 1 /\ Len(mbuf) <= 2 * (call.n - 1)
    BY DEF save_region, memory_close, FileInv, ProgressOK, StreamsOK, WritingOK
  <1>2. UNCHANGED <<saved, state, regs, ram, block, buf, off, taken>>
    BY DEF save_region, memory_close, fileVars, guestVars, streamVars
  <1>3. /\ call' \in Call /\ call'.path = call.path /\ call'.kind = call.kind /\ call'.ok = call.ok
        /\ \/ /\ call'.op = "memory" /\ call'.n = call.n + 1 /\ streams' = {"f", "m"}
              /\ call.n <= RegionCount
              /\ \E cells \in RegionCells(call.n) : mbuf' = mbuf \o cells
           \/ /\ call'.op = "close" /\ call'.n = call.n /\ streams' = {"f"} /\ mbuf' = mbuf
    <2>0. call.n + 1 \in Nat
      BY <1>0, SMTT(30) DEF Sizes
    <2>1. CASE save_region
      BY <1>1, <2>0, <2>1, FileTypes DEF save_region, Call
    <2>2. CASE memory_close
      BY <1>1, <2>2, FileTypes DEF memory_close, Call
    <2> QED
      BY <2>1, <2>2
  <1>4. /\ file' \in [Path -> Seq(FileCell) \cup {NoFile}] /\ file'[call.path] \in Seq(FileCell)
        /\ \A p \in Path : p # call.path => file'[p] = file[p]
        /\ Len(file[call.path]) <= Len(file'[call.path])
        /\ \A i \in 1 .. Len(file[call.path]) : file'[call.path][i] = file[call.path][i]
        /\ clean' \in BOOLEAN /\ (clean' => clean)
    <2>1. CASE save_region
      <3>1. UNCHANGED <<file, clean>>
        BY <2>1 DEF save_region, fileVars
      <3> QED
        BY <1>1, <3>1, FileTypes
    <2>2. CASE memory_close
      <3>1. PICK k \in 0 .. Len(mbuf) :
               /\ file' = [file EXCEPT ![call.path] = @ \o SubSeq(mbuf, 1, k)]
               /\ clean' = (clean /\ k = Len(mbuf))
        BY <2>2 DEF memory_close
      <3> DEFINE t == SubSeq(mbuf, 1, k)
      <3>2. t \in Seq(FileCell)
        <4>1. \A i \in 1 .. k : mbuf[i] \in FileCell
          BY <1>0, FileTypes, ElementOfSeq, SMTT(30) DEF Sizes
        <4>2. 1 \in Int /\ k \in Int
          BY <1>0, SMTT(30) DEF Sizes
        <4> QED
          BY <4>1, <4>2, SubSeqProperties
      <3> HIDE DEF t
      <3>3. /\ file[call.path] \o t \in Seq(FileCell)
            /\ Len(file[call.path] \o t) = Len(file[call.path]) + Len(t)
            /\ \A i \in 1 .. Len(file[call.path]) + Len(t) : (file[call.path] \o t)[i] =
                  IF i <= Len(file[call.path]) THEN file[call.path][i]
                  ELSE t[i - Len(file[call.path])]
        BY <1>1, <3>2, ConcatProperties
      <3>4. /\ file'[call.path] = file[call.path] \o t
            /\ file' \in [Path -> Seq(FileCell) \cup {NoFile}]
            /\ \A p \in Path : p # call.path => file'[p] = file[p]
        BY <1>1, <3>1, <3>3, FileTypes DEF t
      <3>5. Len(file[call.path]) \in Nat /\ Len(t) \in Nat
        BY <1>1, <3>2
      <3>6. /\ Len(file[call.path]) <= Len(file'[call.path])
            /\ \A i \in 1 .. Len(file[call.path]) : file'[call.path][i] = file[call.path][i]
        BY <3>3, <3>4, <3>5
      <3>7. clean' \in BOOLEAN /\ (clean' => clean)
        BY <3>1
      <3> QED
        BY <3>3, <3>4, <3>6, <3>7
    <2> QED
      BY <2>1, <2>2
  <1>5. VcpuRoundTrip'
    BY <1>1, <1>2, <1>4, RoundTripFrame
  <1>6. StreamsOK'
    BY <1>3 DEF StreamsOK
  <1>7. call'.n >= 1 /\ call'.n <= RegionCount + 1
    BY <1>0, <1>1, <1>3, SMTT(30) DEF Sizes
  <1>8. /\ mbuf' \in Seq(FileCell) /\ Len(mbuf') <= 2 * RegionCount
        /\ call'.op = "memory" => Len(mbuf') <= 2 * (call'.n - 1)
    <2>1. CASE call'.op = "memory"
      <3>1. call.n \in Region
        BY <1>0, <1>3, <2>1, SMTT(30) DEF Region, Sizes
      <3>c. PICK cells \in RegionCells(call.n) : mbuf' = mbuf \o cells
        BY <1>3, <2>1
      <3>2. cells \in Seq(FileCell) /\ Len(cells) \in 1 .. 2
        BY <3>1, ObjectCell
      <3>3. mbuf' \in Seq(FileCell) /\ Len(mbuf') = Len(mbuf) + Len(cells)
        <4>1. mbuf' = mbuf \o cells /\ mbuf \in Seq(FileCell)
          BY <3>c, FileTypes
        <4> QED
          BY <3>2, <4>1, ConcatProperties
      <3>4. Len(mbuf') <= 2 * (call'.n - 1) /\ Len(mbuf') <= 2 * RegionCount
        <4>1. call'.n = call.n + 1 /\ call.n <= RegionCount
          BY <1>3, <2>1
        <4>2. PICK r \in 1 .. 2 : r = Len(cells)
          BY <3>2
        <4>3. PICK a \in Nat : a = Len(mbuf)
          BY <1>0, SMTT(30) DEF Sizes
        <4>4. Len(mbuf') = a + r /\ a <= 2 * (call.n - 1)
          BY <1>1, <3>3, <4>2, <4>3
        <4>5. call.n \in Nat /\ RegionCount \in Nat
          BY <1>0, SMTT(30) DEF Sizes
        <4> QED
          BY <4>1, <4>4, <4>5
      <3> QED
        BY <3>3, <3>4
    <2>2. CASE call'.op # "memory"
      BY <1>0, <1>3, <2>2, FileTypes, SMTT(30) DEF Sizes
    <2> QED
      BY <2>1, <2>2
  <1>9. off <= Len(file'[call.path])
    BY <1>0, <1>1, <1>4, SMTT(30) DEF Sizes
  <1>10. WritingOK'
    BY <1>1, <1>2, <1>3, <1>4, <1>7, <1>8, <1>9, FileTypes DEF WritingOK
  <1>11. ProgressOK'
    BY <1>3, <1>7, <1>8 DEF ProgressOK
  <1>12. TypeOK'
    <2>1. off' \in 0 .. Prefix /\ Len(buf') + off' <= Prefix
      BY <1>2 DEF FileInv, TypeOK
    <2>2. /\ regs' \in [Vcpu -> Val] /\ ram' \in [Region -> Val] /\ block' \in Blocks
          /\ saved' \in [Path -> Seq(Val) \cup {None}] /\ state' \in {"RUNNING", "SUSPENDED"}
          /\ streams' \subseteq {"f", "m"}
      BY <1>2, <1>3, FileTypes
    <2> QED
      BY <1>3, <1>4, <1>7, <1>8, <2>1, <2>2 DEF TypeOK
  <1>13. TakenOK'
    <2> SUFFICES ASSUME call'.kind # "incremental", call'.ok, clean'
                 PROVE  /\ \A v \in 1 .. Len(taken) :
                              /\ v + 2 <= off + Len(buf)
                              /\ (IF v + 2 <= off THEN file'[call.path][v + 2]
                                  ELSE buf[v + 2 - off]) = Cell("vcpu", taken[v])
                        /\ Len(taken) = VcpuCount
      <3>1. call'.op # "create" /\ call'.path = call.path
        BY <1>3
      <3> QED
        BY <1>0, <1>2, <3>1, SMTT(30) DEF TakenOK, CellAt, Sizes
    <2>1. call.kind # "incremental" /\ call.ok /\ clean
      BY <1>3, <1>4
    <2>2. /\ \A v \in 1 .. Len(taken) :
                v + 2 <= off + Len(buf) /\ CellAt(v + 2) = Cell("vcpu", taken[v])
          /\ Len(taken) = VcpuCount
      BY <1>1, <2>1 DEF FileInv, TakenOK
    <2>3. Len(file[call.path]) \in Nat
      BY <1>1
    <2>4. ASSUME NEW v \in 1 .. Len(taken), v + 2 <= off
          PROVE  file'[call.path][v + 2] = file[call.path][v + 2]
      <3>1. v + 2 \in 1 .. Len(file[call.path])
        BY <1>0, <1>1, <2>3, <2>4, SMTT(30) DEF Sizes
      <3> QED
        BY <1>4, <3>1
    <2>5. ASSUME NEW v \in 1 .. Len(taken)
          PROVE  (IF v + 2 <= off THEN file'[call.path][v + 2] ELSE buf[v + 2 - off])
                    = CellAt(v + 2)
      BY <1>0, <2>4, SMTT(30) DEF CellAt, Sizes
    <2> QED
      BY <2>2, <2>5
  <1> QED
    BY <1>5, <1>6, <1>10, <1>11, <1>12, <1>13 DEF FileInv

\* checkpoint_close: the file gets what was left in the buffer, and joins the
\* finished checkpoints when nothing has failed.
LEMMA CloseFile == ASSUME FileInv, checkpoint_close PROVE FileInv'
  <1>0. Sizes
    BY Numbers
  <1>1. /\ call.op = "close" /\ streams = {"f"} /\ call.path \in Path
        /\ file[call.path] \in Seq(FileCell) /\ off <= Len(file[call.path])
        /\ Len(file[call.path]) \in Nat
    BY DEF checkpoint_close, FileInv, StreamsOK, WritingOK
  <1>2. /\ UNCHANGED <<regs, ram, block>> /\ call' = Idle /\ streams' = {}
        /\ buf' = << >> /\ off' = 0 /\ mbuf' = << >> /\ taken' = << >> /\ clean' = TRUE
        /\ state' \in {state, "RUNNING"}
    BY <1>1 DEF checkpoint_close, guestVars
  <1>3. PICK k \in 0 .. Len(buf) :
           /\ file' = [file EXCEPT ![call.path] = Overlay(@, off, SubSeq(buf, 1, k))]
           /\ saved' = [saved EXCEPT ![call.path] =
                           IF call.ok /\ clean /\ k = Len(buf) /\ call.kind # "incremental"
                           THEN taken ELSE None]
    BY DEF checkpoint_close
  <1> DEFINE t == SubSeq(buf, 1, k)
             o == Overlay(file[call.path], off, t)
  <1>4. t \in Seq(FileCell) /\ (k = Len(buf) => t = buf)
    <2>1. \A i \in 1 .. k : buf[i] \in FileCell
      BY <1>0, FileTypes, ElementOfSeq, SMTT(30) DEF Sizes
    <2>2. 1 \in Int /\ k \in Int
      BY <1>0, SMTT(30) DEF Sizes
    <2>3. t \in Seq(FileCell)
      BY <2>1, <2>2, SubSeqProperties
    <2>4. k = Len(buf) => t = buf
      BY FileTypes, SubSeqFull
    <2> QED
      BY <2>3, <2>4
  <1> HIDE DEF t
  <1>5. off \in 0 .. Len(file[call.path])
    BY <1>0, <1>1, SMTT(30) DEF Sizes
  <1>6. /\ o \in Seq(FileCell)
        /\ Len(o) = IF Len(file[call.path]) > off + Len(t) THEN Len(file[call.path])
                    ELSE off + Len(t)
        /\ \A i \in 1 .. off : o[i] = file[call.path][i]
        /\ \A i \in 1 .. Len(t) : o[off + i] = t[i]
    BY <1>1, <1>4, <1>5, OverlayEffect
  <1> HIDE DEF o
  <1>7. /\ file' \in [Path -> Seq(FileCell) \cup {NoFile}] /\ file'[call.path] = o
        /\ saved' \in [Path -> Seq(Val) \cup {None}]
        /\ \A q \in Path : q # call.path => file'[q] = file[q] /\ saved'[q] = saved[q]
    BY <1>1, <1>3, <1>6, FileTypes DEF o, t
  <1>8. TypeOK'
    <2>1. Idle \in Call /\ Idle.n = 1
      BY DEF Idle, Begin, Call
    <2>2. /\ off' \in 0 .. Prefix /\ Len(buf') + off' <= Prefix /\ Len(mbuf') <= 2 * RegionCount
          /\ call'.n <= Prefix + 1
      BY <1>0, <1>2, <2>1, SMTT(30) DEF Sizes
    <2>3. /\ regs' \in [Vcpu -> Val] /\ ram' \in [Region -> Val] /\ block' \in Blocks
          /\ state' \in {"RUNNING", "SUSPENDED"} /\ call' \in Call
          /\ streams' \subseteq {"f", "m"} /\ clean' \in BOOLEAN
      BY <1>2, <2>1, FileTypes
    <2> QED
      BY <1>7, <2>2, <2>3 DEF TypeOK
  <1>9. VcpuRoundTrip'
    <2> SUFFICES ASSUME NEW p \in Path, saved'[p] # None, NEW v \in Vcpu
                 PROVE  ReadVcpu(file'[p], v) = {saved'[p][v]}
      BY DEF VcpuRoundTrip
    <2>1. CASE p # call.path
      BY <1>7, <2>1 DEF FileInv, VcpuRoundTrip
    <2>2. CASE p = call.path
      <3>1. call.ok /\ clean /\ k = Len(buf) /\ call.kind # "incremental" /\ saved'[p] = taken
        BY <1>1, <1>3, <2>2, FileTypes
      <3>2. /\ \A w \in 1 .. Len(taken) :
                  w + 2 <= off + Len(buf) /\ CellAt(w + 2) = Cell("vcpu", taken[w])
            /\ Len(taken) = VcpuCount
        BY <1>1, <3>1 DEF FileInv, TakenOK
      <3>3. v \in 1 .. Len(taken) /\ v \in Nat
        BY <1>0, <3>2, SMTT(30) DEF Vcpu, Sizes
      <3>4. v + 2 <= off + Len(buf) /\ CellAt(v + 2) = Cell("vcpu", taken[v])
        BY <3>2, <3>3
      <3>5. t = buf
        BY <1>4, <3>1
      <3>6. v + 2 <= Len(o)
        BY <1>0, <1>1, <1>6, <3>3, <3>4, <3>5, SMTT(30) DEF Sizes
      <3>7. o[v + 2] = CellAt(v + 2)
        <4>1. CASE v + 2 <= off
          <5>1. v + 2 \in 1 .. off
            BY <1>0, <3>3, <4>1, SMTT(30) DEF Sizes
          <5> QED
            BY <1>6, <4>1, <5>1 DEF CellAt
        <4>2. CASE ~(v + 2 <= off)
          <5>1. v + 2 - off \in 1 .. Len(t) /\ off + (v + 2 - off) = v + 2
            BY <1>0, <3>3, <3>4, <3>5, <4>2, SMTT(30) DEF Sizes
          <5>2. o[v + 2] = t[v + 2 - off]
            BY <1>6, <5>1
          <5> QED
            BY <1>0, <3>3, <3>5, <4>2, <5>2, SMTT(30) DEF CellAt, Sizes
        <4> QED
          BY <4>1, <4>2
      <3>8. file'[p] = o /\ saved'[p][v] = taken[v]
        BY <1>7, <2>2, <3>1
      <3>9. o[v + 2] = Cell("vcpu", taken[v]) /\ o[v + 2].kind = "vcpu" /\ o[v + 2].val = taken[v]
        BY <3>4, <3>7 DEF Cell
      <3> QED
        BY <3>6, <3>8, <3>9 DEF ReadVcpu
    <2> QED
      BY <2>1, <2>2
  <1>10. buf' \in Seq(FileCell) /\ mbuf' \in Seq(FileCell) /\ taken' \in Seq(Val)
    BY <1>2
  <1>11. StreamsOK' /\ WritingOK' /\ ProgressOK' /\ TakenOK'
    BY <1>2, <1>10, NoCall
  <1> QED
    BY <1>8, <1>9, <1>11 DEF FileInv

\* One object of an incremental checkpoint.
LEMMA WriteIncremental == ASSUME FileInv, write_incremental PROVE FileInv'
  <1> DEFINE cell == IncrementalObject(call.n)
  <1>0. Sizes
    BY Numbers
  <1>1. /\ call.op = "incremental" /\ call.kind = "incremental" /\ streams = {"f"}
        /\ call.path \in Path /\ saved[call.path] = None
        /\ off + Len(buf) < call.n /\ call.n <= VcpuCount + 1
    BY DEF write_incremental, FileInv, ProgressOK, StreamsOK, WritingOK
  <1>2. UNCHANGED <<saved, state, regs, ram, block, streams, mbuf>>
    BY DEF write_incremental, guestVars
  <1>3. cell \in FileCell /\ (cell.kind = "vcpu" => cell.val \in Val)
    <2>1. call.n \in 1 .. (VcpuCount + 1)
      BY <1>0, <1>1, SMTT(30) DEF Sizes
    <2>2. cell \in FileCell
      BY <2>1, ObjectCell
    <2>3. CASE call.n = 1
      BY <2>2, <2>3 DEF IncrementalObject, Cell
    <2>4. CASE call.n # 1
      <3>1. call.n - 1 \in Vcpu
        BY <1>0, <1>1, <2>4, SMTT(30) DEF Vcpu, Sizes
      <3>2. cell = Cell("vcpu", regs[call.n - 1]) /\ regs[call.n - 1] \in Val
        BY <2>4, <3>1, FileTypes DEF IncrementalObject
      <3> QED
        BY <2>2, <3>2 DEF Cell
    <2> QED
      BY <2>3, <2>4
  <1>4. Fwrite(cell) \/ FwriteFails(cell)
    BY DEF write_incremental
  <1> HIDE DEF cell
  <1>5. /\ file' \in [Path -> Seq(FileCell) \cup {NoFile}]
        /\ file'[call.path] \in Seq(FileCell)
        /\ \A p \in Path : p # call.path => file'[p] = file[p]
        /\ buf' \in Seq(FileCell) /\ taken' \in Seq(Val) /\ clean' \in BOOLEAN
        /\ off' \in Nat /\ off' <= Len(file'[call.path])
        /\ off' + Len(buf') = off + Len(buf) + 1
    BY <1>1, <1>3, <1>4, FwriteEffect
  <1>6. /\ call' \in Call /\ call'.path = call.path /\ call'.kind = "incremental"
        /\ \/ call'.op = "incremental" /\ call'.n = call.n + 1 /\ call.n <= VcpuCount
           \/ call'.op = "close" /\ call'.n = call.n
    <2>1. call.n + 1 \in Nat
      BY <1>0, SMTT(30) DEF Sizes
    <2>2. CASE call.n <= VcpuCount /\ call' = [call EXCEPT !.n = @ + 1]
      BY <1>1, <2>1, <2>2, FileTypes DEF Call
    <2>3. CASE call' = [call EXCEPT !.op = "close"]
      BY <1>1, <2>3, FileTypes DEF Call
    <2> QED
      BY <2>2, <2>3 DEF write_incremental
  <1>7. /\ off' + Len(buf') <= call.n /\ Len(buf') \in Nat
        /\ Len(buf') + off' <= Prefix /\ off' \in 0 .. Prefix
        /\ call'.n >= 1 /\ call'.n <= Prefix + 1 /\ call'.n \in Nat
    <2>1. call'.n = call.n + 1 \/ call'.n = call.n
      BY <1>6
    <2>2. Len(buf') \in Nat
      BY <1>5
    <2>3. off' \in Nat /\ off' + Len(buf') = off + Len(buf) + 1
      BY <1>5
    <2>4. off' + Len(buf') <= call.n /\ Len(buf') + off' <= Prefix /\ off' \in 0 .. Prefix
      BY <1>0, <1>1, <2>2, <2>3, SMTT(30) DEF Sizes
    <2>5. call'.n >= 1 /\ call'.n <= Prefix + 1 /\ call'.n \in Nat
      BY <1>0, <1>1, <2>1, SMTT(30) DEF Sizes
    <2> QED
      BY <2>2, <2>4, <2>5
  <1>8. VcpuRoundTrip'
    BY <1>1, <1>2, <1>5, RoundTripFrame
  <1>9. StreamsOK'
    BY <1>1, <1>2, <1>6 DEF StreamsOK
  <1>10. WritingOK'
    BY <1>1, <1>2, <1>5, <1>6, <1>7, FileTypes DEF WritingOK
  <1>11. ProgressOK'
    <2>1. call'.op = "incremental" => off' + Len(buf') < call'.n /\ call'.n <= VcpuCount + 1
      <3> SUFFICES ASSUME call'.op = "incremental"
                   PROVE  off' + Len(buf') < call'.n /\ call'.n <= VcpuCount + 1
        OBVIOUS
      <3>1. call'.n = call.n + 1 /\ call.n <= VcpuCount
        BY <1>6
      <3> QED
        BY <1>0, <1>5, <1>7, <3>1, SMTT(30) DEF Sizes
    <2> QED
      BY <1>6, <2>1 DEF ProgressOK
  <1>12. TypeOK'
    <2>1. Len(mbuf') <= 2 * RegionCount
      BY <1>0, <1>2, SMTT(30) DEF Sizes
    <2> QED
      BY <1>2, <1>5, <1>6, <1>7, <2>1, FileTypes DEF TypeOK
  <1>13. TakenOK'
    BY <1>6 DEF TakenOK
  <1> QED
    BY <1>8, <1>9, <1>10, <1>11, <1>12, <1>13 DEF FileInv

\* snapshot_restore.
LEMMA RestoreFile ==
    ASSUME FileInv,
           \/ \E p \in Path : snapshot_restore(p)
           \/ restore_vcpu \/ checkpoint_restore_memory \/ restore_regions
    PROVE  FileInv'
  <1>0. Sizes
    BY Numbers
  <1>1. UNCHANGED <<file, saved, state, block, buf, off, mbuf, taken, clean>>
    BY DEF snapshot_restore, restore_vcpu, checkpoint_restore_memory, restore_regions,
           fileVars, guestVars, streamVars
  <1>2. VcpuRoundTrip'
    BY <1>1, RoundTripFrame
  <1>3. CASE \E p \in Path : snapshot_restore(p)
    <2>1. PICK p \in Path : snapshot_restore(p)
      BY <1>3
    <2>2. /\ call' \in Call /\ call'.op = "restore" /\ call'.path = p /\ call'.n = 1
      BY <2>1 DEF snapshot_restore, Begin, Call
    <2>3. streams' = {"f"} /\ UNCHANGED <<regs, ram>> /\ file[p] \in Seq(FileCell)
      BY <2>1, FileTypes DEF snapshot_restore, guestVars
    <2>4. 1 <= Prefix + 1 /\ 1 <= VcpuCount + 1
      BY <1>0, SMTT(30) DEF Sizes
    <2>5. TypeOK'
      BY <1>1, <2>2, <2>3, <2>4 DEF FileInv, TypeOK
    <2>6. StreamsOK' /\ ProgressOK' /\ TakenOK'
      BY <2>2, <2>3, <2>4 DEF StreamsOK, ProgressOK, TakenOK
    <2>7. WritingOK'
      BY <1>1, <2>2, <2>3, FileTypes DEF WritingOK
    <2> QED
      BY <1>2, <2>5, <2>6, <2>7 DEF FileInv
  <1>4. CASE restore_vcpu
    <2>1. call.op = "restore" /\ call.n <= VcpuCount /\ call.path \in Path
          /\ file[call.path] \in Seq(FileCell)
      BY <1>4 DEF restore_vcpu, FileInv, WritingOK
    <2>2. call.n \in Vcpu /\ call.n + 1 \in Nat /\ call.n + 1 <= VcpuCount + 1
          /\ call.n + 1 <= Prefix + 1 /\ call.n + 1 >= 1
      BY <1>0, <2>1, SMTT(30) DEF Sizes, Vcpu
    <2>3. PICK x \in ReadVcpu(file[call.path], call.n) : regs' = [regs EXCEPT ![call.n] = x]
      BY <1>4 DEF restore_vcpu
    <2>4. ReadVcpu(file[call.path], call.n) \subseteq Val
      <3>1. ASSUME call.n + 2 <= Len(file[call.path]), file[call.path][call.n + 2].kind = "vcpu"
            PROVE  file[call.path][call.n + 2].val \in Val
        <4>1. call.n + 2 \in 1 .. Len(file[call.path])
          BY <1>0, <2>1, <3>1, SMTT(30) DEF Sizes
        <4>2. file[call.path][call.n + 2] \in FileCell
          BY <2>1, <4>1, ElementOfSeq
        <4> QED
          BY <3>1, <4>2 DEF FileCell
      <3> QED
        BY <3>1 DEF ReadVcpu
    <2>5. regs' \in [Vcpu -> Val] /\ UNCHANGED <<ram, streams>>
      BY <1>4, <2>2, <2>3, <2>4, FileTypes DEF restore_vcpu, streamVars
    <2>6. /\ call' \in Call /\ call'.op = "restore" /\ call'.path = call.path
          /\ call'.n = call.n + 1
      BY <1>4, <2>1, <2>2, FileTypes DEF restore_vcpu, Call
    <2>7. TypeOK'
      BY <1>1, <2>2, <2>5, <2>6 DEF FileInv, TypeOK
    <2>8. StreamsOK' /\ ProgressOK' /\ TakenOK'
      BY <2>1, <2>2, <2>5, <2>6 DEF FileInv, StreamsOK, ProgressOK, TakenOK
    <2>9. WritingOK'
      BY <1>1, <2>1, <2>2, <2>6, FileTypes DEF WritingOK
    <2> QED
      BY <1>2, <2>7, <2>8, <2>9 DEF FileInv
  <1>5. CASE checkpoint_restore_memory /\ call' # Idle
    <2>1. /\ call' = [call EXCEPT !.op = "reload"] /\ streams' = {"m"} /\ UNCHANGED <<regs, ram>>
          /\ call.op = "restore"
      BY <1>5 DEF checkpoint_restore_memory, guestVars
    <2>2. /\ call' \in Call /\ call'.op = "reload" /\ call'.path = call.path
          /\ call'.n = call.n
      BY <2>1, FileTypes DEF Call
    <2>3. /\ call.path \in Path /\ file[call.path] \in Seq(FileCell)
          /\ call.n >= 1 /\ call.n <= VcpuCount + 1 /\ call.n <= Prefix + 1
      BY <1>0, <2>1, SMTT(30) DEF FileInv, WritingOK, ProgressOK, Sizes
    <2>4. TypeOK'
      BY <1>1, <2>1, <2>2, <2>3 DEF FileInv, TypeOK
    <2>5. StreamsOK' /\ ProgressOK' /\ TakenOK'
      BY <2>1, <2>2, <2>3 DEF StreamsOK, ProgressOK, TakenOK
    <2>6. WritingOK'
      BY <1>1, <2>2, <2>3, FileTypes DEF WritingOK
    <2> QED
      BY <1>2, <2>4, <2>5, <2>6 DEF FileInv
  <1>6. CASE restore_regions \/ (checkpoint_restore_memory /\ call' = Idle)
    <2>1. call' = Idle /\ streams' = {} /\ UNCHANGED regs /\ ram' \in [Region -> Val]
      <3>1. CASE restore_regions
        <4>1. streams = {"m"}
          BY <3>1 DEF restore_regions, FileInv, StreamsOK
        <4> QED
          BY <3>1, <4>1 DEF restore_regions
      <3>2. CASE checkpoint_restore_memory /\ call' = Idle
        BY <3>2, FileTypes DEF checkpoint_restore_memory, guestVars, Idle, Begin
      <3> QED
        BY <1>6, <3>1, <3>2
    <2>2. Idle \in Call /\ Idle.n = 1 /\ 1 <= Prefix + 1
      BY <1>0, SMTT(30) DEF Idle, Begin, Call, Sizes
    <2>3. TypeOK'
      BY <1>1, <2>1, <2>2 DEF FileInv, TypeOK
    <2>4. StreamsOK' /\ WritingOK' /\ ProgressOK' /\ TakenOK'
      BY <1>1, <2>1, NoCall, FileTypes
    <2> QED
      BY <1>2, <2>3, <2>4 DEF FileInv
  <1> QED
    BY <1>3, <1>4, <1>5, <1>6

\* The calls that begin a checkpoint, with a file that opens or does not.
LEMMA BeginCheckpoint ==
    ASSUME FileInv, NEW p \in Path,
           \/ checkpoint_create(p) \/ snapshot_create(p)
           \/ \E base \in Path : checkpoint_create_incremental(base, p)
    PROVE  FileInv'
  <1>0. Sizes
    BY Numbers
  <1>1. call = Idle /\ UNCHANGED <<guestVars, block>> /\ state' \in {"RUNNING", "SUSPENDED"}
    BY FileTypes DEF checkpoint_create, snapshot_create, checkpoint_create_incremental
  <1>2. \/ OpenForWriting(p, "create", "checkpoint") \/ OpenForWriting(p, "create", "snapshot")
        \/ OpenForWriting(p, "incremental", "incremental")
        \/ call' = Idle /\ UNCHANGED <<fileVars, streamVars>>
    BY DEF checkpoint_create, snapshot_create, checkpoint_create_incremental, Create
  <1>3. CASE call' = Idle /\ UNCHANGED <<fileVars, streamVars>>
    <2>1. UNCHANGED <<file, saved, regs, ram, block, call, streams, buf, off, mbuf, taken, clean>>
      BY <1>1, <1>3 DEF fileVars, streamVars, guestVars
    <2>2. TypeOK'
      BY <1>1, <2>1 DEF FileInv, TypeOK
    <2>3. VcpuRoundTrip'
      BY <2>1, RoundTripFrame
    <2>4. StreamsOK' /\ WritingOK' /\ ProgressOK' /\ TakenOK'
      <3>1. streams' = {}
        BY <1>1, <2>1, Between
      <3> QED
        BY <1>3, <2>1, <3>1, NoCall, FileTypes
    <2> QED
      BY <2>2, <2>3, <2>4 DEF FileInv
  <1>4. CASE OpenForWriting(p, "create", "checkpoint")
    BY <1>1, <1>4, OpenFile
  <1>5. CASE OpenForWriting(p, "create", "snapshot")
    BY <1>1, <1>5, OpenFile
  <1>6. CASE OpenForWriting(p, "incremental", "incremental")
    BY <1>1, <1>6, OpenFile
  <1> QED
    BY <1>2, <1>3, <1>4, <1>5, <1>6

\* checkpoint_delete, the guest, and the end of the process.
LEMMA OtherFile ==
    ASSUME FileInv, (\E p \in Path : checkpoint_delete(p)) \/ GuestRuns \/ Crash
    PROVE  FileInv'
  <1>0. Sizes
    BY Numbers
  <1>1. CASE \E p \in Path : checkpoint_delete(p)
    <2>1. PICK p \in Path : checkpoint_delete(p)
      BY <1>1
    <2>2. /\ UNCHANGED <<state, regs, ram, block, call, streams, buf, off, mbuf, taken, clean>>
          /\ call' = Idle /\ call = Idle
      BY <2>1 DEF checkpoint_delete, guestVars, streamVars
    <2>3. /\ file' \in [Path -> Seq(FileCell) \cup {NoFile}]
          /\ saved' \in [Path -> Seq(Val) \cup {None}]
          /\ \A q \in Path : saved'[q] # None => saved'[q] = saved[q] /\ file'[q] = file[q]
      BY <2>1, FileTypes DEF checkpoint_delete
    <2>4. TypeOK'
      BY <2>2, <2>3 DEF FileInv, TypeOK
    <2>5. VcpuRoundTrip'
      BY <2>3 DEF FileInv, VcpuRoundTrip
    <2>6. StreamsOK' /\ WritingOK' /\ ProgressOK' /\ TakenOK'
      <3>1. streams' = {}
        BY <2>2, Between
      <3> QED
        BY <2>2, <3>1, NoCall, FileTypes
    <2> QED
      BY <2>4, <2>5, <2>6 DEF FileInv
  <1>2. CASE GuestRuns
    <2>1. UNCHANGED <<file, saved, state, block, call, streams, buf, off, mbuf, taken, clean>>
      BY <1>2 DEF GuestRuns, fileVars, streamVars
    <2>2. regs' \in [Vcpu -> Val] /\ ram' \in [Region -> Val]
      BY <1>2, CheckpointAssumption, FileTypes DEF GuestRuns, Region
    <2>3. TypeOK'
      BY <2>1, <2>2 DEF FileInv, TypeOK
    <2>4. VcpuRoundTrip'
      BY <2>1, RoundTripFrame
    <2>5. StreamsOK' /\ WritingOK' /\ ProgressOK'
      BY <2>1 DEF FileInv, StreamsOK, WritingOK, ProgressOK
    <2>6. TakenOK'
      BY <2>1 DEF FileInv, TakenOK, CellAt
    <2> QED
      BY <2>3, <2>4, <2>5, <2>6 DEF FileInv
  <1>3. CASE Crash
    <2>1. UNCHANGED <<file, saved, regs, ram, block>>
      BY <1>3 DEF Crash, fileVars, guestVars
    <2>2. /\ call' = Idle /\ streams' = {} /\ state' = "RUNNING"
          /\ buf' = << >> /\ off' = 0 /\ mbuf' = << >> /\ taken' = << >> /\ clean' = TRUE
      BY <1>3 DEF Crash
    <2>3. Idle \in Call /\ Idle.n = 1 /\ 1 <= Prefix + 1 /\ 0 \in 0 .. Prefix
      BY <1>0, SMTT(30) DEF Idle, Begin, Call, Sizes
    <2>4. Len(buf') + off' <= Prefix /\ Len(mbuf') <= 2 * RegionCount
      BY <1>0, <2>2, SMTT(30) DEF Sizes
    <2>5. TypeOK'
      BY <2>1, <2>2, <2>3, <2>4 DEF FileInv, TypeOK
    <2>6. VcpuRoundTrip'
      BY <2>1, RoundTripFrame
    <2>7. buf' \in Seq(FileCell) /\ mbuf' \in Seq(FileCell) /\ taken' \in Seq(Val)
      BY <2>2
    <2>8. StreamsOK' /\ WritingOK' /\ ProgressOK' /\ TakenOK'
      BY <2>2, <2>7, NoCall
    <2> QED
      BY <2>5, <2>6, <2>8 DEF FileInv
  <1> QED
    BY <1>1, <1>2, <1>3

\* Every step keeps the invariant.
LEMMA NextFile == FileInv /\ [Next]_vars => FileInv'
  <1> SUFFICES ASSUME FileInv, [Next]_vars PROVE FileInv'
    OBVIOUS
  <1>1. CASE UNCHANGED vars
    <2>1. UNCHANGED <<file, saved, state, regs, ram, block, call, streams, buf, off, mbuf,
                      taken, clean>>
      BY <1>1 DEF vars, fileVars, guestVars, streamVars
    <2>2. TypeOK' /\ StreamsOK' /\ WritingOK' /\ ProgressOK'
      BY <2>1 DEF FileInv, TypeOK, StreamsOK, WritingOK, ProgressOK
    <2>3. TakenOK' /\ VcpuRoundTrip'
      BY <2>1 DEF FileInv, TakenOK, CellAt, VcpuRoundTrip
    <2> QED
      BY <2>2, <2>3 DEF FileInv
  <1>2. CASE CallStep
    BY <1>2, WriteObject, CreateAdvances, SaveMemory, CloseFile, WriteIncremental, RestoreFile
    DEF CallStep
  <1> QED
    BY <1>1, <1>2, BeginCheckpoint, OtherFile, RestoreFile DEF Next

\* For any number of files, vCPUs and regions, the variables keep their types,
\* and neither stream holds more cells than the objects of its call.
THEOREM CheckpointTypeCorrect == Spec => []TypeOK
  BY InitFile, NextFile, PTL DEF Spec, FileInv

\* Every way out of a call, on an error or not, has closed the streams that
\* the call opened.
THEOREM StreamsClosed == Spec => []NoStreamLeak
  <1>1. FileInv => NoStreamLeak
    BY Between DEF NoStreamLeak
  <1> QED
    BY <1>1, InitFile, NextFile, PTL DEF Spec

\* A full checkpoint whose writes all succeeded gives snapshot_restore the
\* states of all vCPUs, for any size of the buffer, although its memory was
\* appended before the buffer was written and may be overwritten by it.
THEOREM VcpusRoundTrip == Spec => []VcpuRoundTrip
  BY InitFile, NextFile, PTL DEF Spec, FileInv
=============================================================================
