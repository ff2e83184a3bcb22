----------------------------- MODULE Migration -----------------------------
(***************************************************************************)
(* Live migration, src/src/hypervisor/migration/migration.c: one session   *)
(* of one running VM at a time.  The migration thread copies dirty pages   *)
(* (migration_precopy, migration_stop_and_copy) while vCPU threads write   *)
(* to memory and report each write with migration_track_dirty_page.        *)
(*                                                                         *)
(* The tracker works under the session's spinlock; the copying loops read  *)
(* and write the same bitmap and the same count without it.  An            *)
(* unprotected `&=', `|=', `++' or `--' is a load and a store, each a step *)
(* of its own.  The bitmap is the set of dirty pages; one 64-bit word of   *)
(* it is the part of that set that a load or a store moves.                *)
(*                                                                         *)
(* The transport is a stub that only accepts data, so the target is what   *)
(* it would hold: synced is the set of pages whose copy, made where the    *)
(* code says a page would be copied, is up to date.                        *)
(***************************************************************************)
EXTENDS Integers, FiniteSets

CONSTANTS Tracker, NULL,
          TotalPages,     \* session->total_pages
          WordBits,       \* pages per u64 of the bitmap (64)
          BatchLimit,     \* pages copied in one iteration (10000)
          Converged,      \* precopy ends below this many dirty pages (100)
          MaxIterations,  \* config.max_convergence_iterations
          U64             \* number of values of a u64, scaled down

ASSUME MigrationAssumption ==
    /\ TotalPages \in Nat /\ WordBits \in Nat \ {0}
    /\ BatchLimit \in Nat /\ Converged \in Nat /\ MaxIterations \in Nat
    /\ U64 \in Nat /\ U64 > TotalPages
    /\ NULL \notin Tracker

Page == 0 .. (TotalPages - 1)

\* The pages that share a word of the bitmap with p.
WordOf(p) == {q \in Page : q \div WordBits = p \div WordBits}

VARIABLES
    phase,             \* session->state, "NONE" without a session
    vm_state,          \* session->vm->state
    dirty,             \* session->dirty_pages
    dirty_page_count,
    iteration,
    lock,              \* session->lock: the tracker that holds it, or NULL
    mig,               \* the migration thread
    trk,               \* the vCPU threads inside migration_track_dirty_page
    sent,              \* pages copied at least once in this session
    synced,            \* pages whose copy is up to date
    final_done,        \* has stop-and-copy been over all the pages?
    raced              \* history: did a report overlap an update of the bitmap by precopy?

sessionVars == <<phase, iteration, vm_state, final_done>>
bitmapVars  == <<dirty, dirty_page_count>>
targetVars  == <<sent, synced>>
vars == <<sessionVars, bitmapVars, targetVars, lock, mig, trk, raced>>

Phase == {"NONE", "INITIATED", "PRECOPY", "STOP_AND_COPY"}

\* The migration thread: where it is, the page it is at, the pages copied in
\* this iteration, and the word or count it has loaded.
MigThread == [pc : {"idle", "test", "clear", "count", "stop", "final"},
              i : 0..TotalPages, pages : 0..BatchLimit,
              word : SUBSET Page, count : 0..(U64 - 1)]
MigIdle == [pc |-> "idle", i |-> 0, pages |-> 0, word |-> {}, count |-> 0]

TrackThread == [pc : {"idle", "test", "set", "count"}, page : Page \cup {NULL},
                word : SUBSET Page, count : 0..(U64 - 1)]
TrackIdle == [pc |-> "idle", page |-> NULL, word |-> {}, count |-> 0]

SessionTypeOK ==
    /\ phase \in Phase
    /\ vm_state \in {"RUNNING", "MIGRATING", "PAUSED"}
    /\ dirty \in SUBSET Page
    /\ dirty_page_count \in 0..(U64 - 1)
    /\ iteration \in 0..(MaxIterations + 1)
    /\ lock \in Tracker \cup {NULL}
    /\ mig \in MigThread
    /\ trk \in [Tracker -> TrackThread]
    /\ sent \in SUBSET Page
    /\ synced \in SUBSET Page
    /\ final_done \in BOOLEAN

TypeOK == SessionTypeOK /\ raced \in BOOLEAN

Init ==
    /\ phase = "NONE" /\ vm_state = "RUNNING"
    /\ dirty = {} /\ dirty_page_count = 0 /\ iteration = 0
    /\ lock = NULL
    /\ mig = MigIdle /\ trk = [t \in Tracker |-> TrackIdle]
    /\ sent = {} /\ synced = {} /\ final_done = FALSE
    /\ raced = FALSE

Quiet == mig.pc = "idle" /\ \A t \in Tracker : trk[t].pc = "idle"

-----------------------------------------------------------------------------
(* The session.                                                            *)

\* "Mark all pages dirty for initial copy".
migration_start ==
    /\ phase = "NONE"
    /\ phase' = "INITIATED" /\ iteration' = 0
    /\ vm_state' = "MIGRATING"
    /\ dirty' = Page /\ dirty_page_count' = TotalPages
    /\ sent' = {} /\ synced' = {} /\ final_done' = FALSE
    /\ UNCHANGED <<lock, mig, trk>>

\* migration_complete and migration_cancel: the lock is taken, and released
\* before the VM is set running and the session freed.
migration_end ==
    /\ phase # "NONE" /\ lock = NULL
    /\ phase' = "NONE"
    /\ vm_state' = IF vm_state = "MIGRATING" THEN "RUNNING" ELSE vm_state
    /\ UNCHANGED <<iteration, final_done, bitmapVars, targetVars, lock, mig, trk>>

-----------------------------------------------------------------------------
(* migration_precopy.                                                      *)

migration_precopy ==
    /\ phase # "NONE" /\ mig.pc = "idle" /\ lock = NULL
    /\ phase' = "PRECOPY"
    /\ mig' = [MigIdle EXCEPT !.pc = "test"]
    /\ UNCHANGED <<iteration, vm_state, final_done, bitmapVars, targetVars, lock, trk>>

\* Mutant: the word is cleared as a whole.
MutPrecopyClearsWord ==
    /\ mig.pc = "test" /\ mig.i < TotalPages /\ mig.pages < BatchLimit
    /\ IF mig.i \in dirty
       THEN /\ mig' = [mig EXCEPT !.pc = "clear", !.pages = @ + 1, !.word = {}]
            /\ sent' = sent \cup {mig.i} /\ synced' = synced \cup {mig.i}
       ELSE /\ mig' = [mig EXCEPT !.i = @ + 1]
            /\ UNCHANGED targetVars
    /\ UNCHANGED <<sessionVars, bitmapVars, lock, trk>>

\* The bit of page i is tested; a dirty page is copied and its word loaded.
precopy_page ==
    /\ mig.pc = "test" /\ mig.i < TotalPages /\ mig.pages < BatchLimit
    /\ IF mig.i \in dirty
       THEN /\ mig' = [mig EXCEPT !.pc = "clear", !.pages = @ + 1,
                                  !.word = dirty \cap WordOf(mig.i)]
            /\ sent' = sent \cup {mig.i} /\ synced' = synced \cup {mig.i}
       ELSE /\ mig' = [mig EXCEPT !.i = @ + 1]
            /\ UNCHANGED targetVars
    /\ UNCHANGED <<sessionVars, bitmapVars, lock, trk>>

\* The word is stored without the bit; the count is loaded.
precopy_clear ==
    /\ mig.pc = "clear"
    /\ dirty' = (dirty \ WordOf(mig.i)) \cup (mig.word \ {mig.i})
    /\ mig' = [mig EXCEPT !.pc = "count", !.count = dirty_page_count]
    /\ UNCHANGED <<sessionVars, dirty_page_count, targetVars, lock, trk>>

precopy_count ==
    /\ mig.pc = "count"
    /\ dirty_page_count' = (mig.count - 1) % U64
    /\ mig' = [mig EXCEPT !.pc = "test", !.i = @ + 1]
    /\ UNCHANGED <<sessionVars, dirty, targetVars, lock, trk>>

\* Mutant: convergence is decided by the count alone.
MutPrecopyUnbounded ==
    /\ mig.pc = "test" /\ ~(mig.i < TotalPages /\ mig.pages < BatchLimit)
    /\ iteration' = IF iteration > MaxIterations THEN iteration ELSE iteration + 1
    /\ mig' = [MigIdle EXCEPT !.pc = IF dirty_page_count < Converged THEN "stop" ELSE "idle"]
    /\ UNCHANGED <<phase, vm_state, final_done, bitmapVars, targetVars, lock, trk>>

\* Mutant: the limit is tested against the iteration that just ended.
MutPrecopyTestsOld ==
    /\ mig.pc = "test" /\ ~(mig.i < TotalPages /\ mig.pages < BatchLimit)
    /\ iteration' = iteration + 1
    /\ mig' = [MigIdle EXCEPT !.pc =
                 IF dirty_page_count < Converged \/ iteration > MaxIterations
                 THEN "stop" ELSE "idle"]
    /\ UNCHANGED <<phase, vm_state, final_done, bitmapVars, targetVars, lock, trk>>

\* The end of an iteration: converged, or once more.
precopy_ends ==
    /\ mig.pc = "test" /\ ~(mig.i < TotalPages /\ mig.pages < BatchLimit)
    /\ iteration' = iteration + 1
    /\ mig' = [MigIdle EXCEPT !.pc =
                 IF dirty_page_count < Converged \/ iteration' > MaxIterations
                 THEN "stop" ELSE "idle"]
    /\ UNCHANGED <<phase, vm_state, final_done, bitmapVars, targetVars, lock, trk>>

precopy_converges ==
    /\ mig.pc = "stop" /\ lock = NULL
    /\ phase' = "STOP_AND_COPY"
    /\ mig' = MigIdle
    /\ UNCHANGED <<iteration, vm_state, final_done, bitmapVars, targetVars, lock, trk>>

-----------------------------------------------------------------------------
(* migration_stop_and_copy.                                                *)

\* vm_pause refuses a VM that is not RUNNING, and its result is ignored.
migration_stop_and_copy ==
    /\ phase # "NONE" /\ mig.pc = "idle" /\ lock = NULL
    /\ phase' = "STOP_AND_COPY"
    /\ vm_state' = IF vm_state = "RUNNING" THEN "PAUSED" ELSE vm_state
    /\ mig' = [MigIdle EXCEPT !.pc = "final"]
    /\ UNCHANGED <<iteration, final_done, bitmapVars, targetVars, lock, trk>>

\* Mutant: the last page is left out.
MutFinalStopsShort ==
    /\ mig.pc = "final" /\ mig.i < TotalPages
    /\ LET copied == IF mig.i \in dirty /\ mig.i < TotalPages - 1 THEN {mig.i} ELSE {}
       IN  sent' = sent \cup copied /\ synced' = synced \cup copied
    /\ mig' = [mig EXCEPT !.i = @ + 1]
    /\ UNCHANGED <<sessionVars, bitmapVars, lock, trk>>

\* A dirty page is copied; its bit stays.
final_page ==
    /\ mig.pc = "final" /\ mig.i < TotalPages
    /\ LET copied == IF mig.i \in dirty THEN {mig.i} ELSE {}
       IN  sent' = sent \cup copied /\ synced' = synced \cup copied
    /\ mig' = [mig EXCEPT !.i = @ + 1]
    /\ UNCHANGED <<sessionVars, bitmapVars, lock, trk>>

\* migration_send_vm_state refuses the session's connection, which nothing
\* ever sets; the phase TRANSFER is not entered.
final_ends ==
    /\ mig.pc = "final" /\ mig.i = TotalPages
    /\ final_done' = TRUE
    /\ mig' = MigIdle
    /\ UNCHANGED <<phase, iteration, vm_state, bitmapVars, targetVars, lock, trk>>

-----------------------------------------------------------------------------
(* The guest and migration_track_dirty_page.                               *)

Reports(p) == [pc |-> "test", page |-> p, word |-> {}, count |-> 0]

\* A vCPU writes to page p and reports the write.
GuestWrites(t, p) ==
    /\ phase # "NONE" /\ vm_state # "PAUSED" /\ trk[t].pc = "idle"
    /\ synced' = synced \ {p}
    /\ trk' = [trk EXCEPT ![t] = Reports(p)]
    /\ UNCHANGED <<sessionVars, bitmapVars, sent, lock, mig>>

\* Mutant: the word is tested instead of the bit.
MutTrackTestsWord(t) ==
    LET p == trk[t].page IN
    /\ trk[t].pc = "test" /\ lock = NULL
    /\ IF dirty \cap WordOf(p) # {}
       THEN /\ trk' = [trk EXCEPT ![t] = TrackIdle]
            /\ lock' = lock
       ELSE /\ trk' = [trk EXCEPT ![t] = [@ EXCEPT !.pc = "set", !.word = dirty \cap WordOf(p)]]
            /\ lock' = t
    /\ UNCHANGED <<sessionVars, bitmapVars, targetVars, mig>>

\* The lock is taken and the bit tested; if clear, its word is loaded.
migration_track_dirty_page(t) ==
    LET p == trk[t].page IN
    /\ trk[t].pc = "test" /\ lock = NULL
    /\ IF p \in dirty
       THEN /\ trk' = [trk EXCEPT ![t] = TrackIdle]
            /\ lock' = lock
       ELSE /\ trk' = [trk EXCEPT ![t] = [@ EXCEPT !.pc = "set", !.word = dirty \cap WordOf(p)]]
            /\ lock' = t
    /\ UNCHANGED <<sessionVars, bitmapVars, targetVars, mig>>

track_set(t) ==
    LET p == trk[t].page IN
    /\ trk[t].pc = "set"
    /\ dirty' = (dirty \ WordOf(p)) \cup trk[t].word \cup {p}
    /\ trk' = [trk EXCEPT ![t] = [@ EXCEPT !.pc = "count", !.count = dirty_page_count]]
    /\ UNCHANGED <<sessionVars, dirty_page_count, targetVars, lock, mig>>

track_count(t) ==
    /\ trk[t].pc = "count"
    /\ dirty_page_count' = (trk[t].count + 1) % U64
    /\ trk' = [trk EXCEPT ![t] = TrackIdle]
    /\ lock' = NULL
    /\ UNCHANGED <<sessionVars, dirty, targetVars, mig>>

-----------------------------------------------------------------------------
(* Who takes which step.                                                   *)

PrecopyStep == precopy_page \/ precopy_clear \/ precopy_count \/ precopy_ends
               \/ precopy_converges
MigStep == PrecopyStep \/ final_page \/ final_ends
TrackStep(t) == migration_track_dirty_page(t) \/ track_set(t) \/ track_count(t)

\* What runs a migration: iterations until precopy has converged, then (or at
\* any moment between two calls) stop-and-copy, or the end of the session.
\* The session is freed while no thread is using it: the code leaves that to
\* its callers.
Driver ==
    \/ migration_start
    \/ phase \in {"INITIATED", "PRECOPY"} /\ migration_precopy
    \/ migration_stop_and_copy
    \/ Quiet /\ migration_end

\* Precopy is between its test of a page and its update of the count while a
\* vCPU thread is between its write and the end of its report.
Overlap == mig.pc \in {"clear", "count"} /\ \E t \in Tracker : trk[t].pc # "idle"

\* An action with the history variable, which starts afresh with a session.
Watched(A) == A /\ raced' = (phase # "NONE" /\ (raced \/ Overlap'))

Next == Watched(\/ Driver \/ MigStep
                \/ \E t \in Tracker : TrackStep(t) \/ \E p \in Page : GuestWrites(t, p))

Fairness ==
    /\ WF_vars(Watched(MigStep))
    /\ WF_vars(Watched(phase \in {"INITIATED", "PRECOPY"} /\ migration_precopy))
    /\ WF_vars(Watched(phase = "STOP_AND_COPY" /\ migration_stop_and_copy))
    /\ \A t \in Tracker : WF_vars(Watched(TrackStep(t)))

Spec == Init /\ [][Next]_vars /\ Fairness

-----------------------------------------------------------------------------
(* Properties.                                                             *)

\* No race between the copying loops and the tracker loses a page that has
\* never been copied: its bit is still set.
FirstCopyPending == phase # "NONE" => Page \ sent \subseteq dirty

\* When stop-and-copy has been over the pages, each of them has been copied,
\* by it or by an earlier iteration, whatever the guest did meanwhile.
EveryPageCopied == phase # "NONE" /\ final_done => sent = Page

\* Precopy ends although the guest may dirty pages faster than they are
\* copied: the phase is left, unless the thread is kept from the lock forever.
PrecopyEnds ==
    phase = "PRECOPY" ~> \/ phase # "PRECOPY"
                         \/ [](mig.pc \in {"stop", "idle"})

\* migration_track_dirty_page, "Track dirty pages": once tracked, a page whose
\* copy is out of date is dirty.
NoWriteLost == phase # "NONE" /\ Quiet => Page \ synced \subseteq dirty

\* An overlap of a report with precopy's update of the same session is the
\* only thing that loses a write or falsifies the count precopy decides on.
RaceFreeExact ==
    phase # "NONE" /\ Quiet /\ ~raced =>
        /\ Page \ synced \subseteq dirty
        /\ dirty_page_count = Cardinality(dirty)
=============================================================================
