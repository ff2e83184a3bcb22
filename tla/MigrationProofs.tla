-------------------------- MODULE MigrationProofs --------------------------
(***************************************************************************)
(* Proofs about Migration, for every number of pages and of trackers, any  *)
(* word size and any limits: the races between the copying loops and the   *)
(* tracker never lose a page that has not been copied, and without such a  *)
(* race nothing is lost at all.                                            *)
(***************************************************************************)
EXTENDS Migration, FiniteSetTheorems, TLAPS

\* The session is not freed under a thread, and the migration thread is in
\* the loop its phase names, which it enters with iterations to spare.
ThreadOK ==
    /\ phase = "NONE" => Quiet
    /\ mig.pc \in {"test", "clear", "count", "stop"} => phase = "PRECOPY"
    /\ mig.pc = "final" => phase = "STOP_AND_COPY"
    /\ phase \in {"INITIATED", "PRECOPY"} /\ mig.pc # "stop" => iteration <= MaxIterations

\* A word on its way back to the bitmap holds the bits of the pages that have
\* not been copied, and the migration thread clears only a page it copied.
WordsOK ==
    /\ mig.pc \in {"clear", "count"} => mig.i \in Page
    /\ mig.pc = "clear" => mig.i \in sent /\ WordOf(mig.i) \ sent \subseteq mig.word
    /\ \A t \in Tracker : trk[t].pc # "idle" => trk[t].page \in Page
    /\ \A t \in Tracker : trk[t].pc = "set" => WordOf(trk[t].page) \ sent \subseteq trk[t].word

\* Behind stop-and-copy every page has been copied.
FinalOK == mig.pc = "final" => \A p \in Page : p < mig.i => p \in sent

\* The inductive invariant.
CopyInv == /\ SessionTypeOK /\ ThreadOK /\ WordsOK /\ FinalOK
           /\ FirstCopyPending /\ EveryPageCopied

\* The initial state satisfies it.
LEMMA InitCopy == Init => CopyInv
  <1> SUFFICES ASSUME Init PROVE CopyInv
    OBVIOUS
  <1>0. 0 \in 0..(U64 - 1) /\ 0 \in 0..(MaxIterations + 1)
    BY MigrationAssumption
  <1>1. MigIdle \in MigThread /\ MigIdle.pc = "idle"
    BY MigrationAssumption, <1>0 DEF MigIdle, MigThread
  <1>2. TrackIdle \in TrackThread /\ TrackIdle.pc = "idle"
    BY <1>0 DEF TrackIdle, TrackThread
  <1>3. trk \in [Tracker -> TrackThread] /\ \A t \in Tracker : trk[t].pc = "idle"
    BY <1>2 DEF Init
  <1>4. SessionTypeOK
    BY <1>0, <1>1, <1>3 DEF Init, SessionTypeOK, Phase
  <1> QED
    BY <1>1, <1>3, <1>4
    DEF Init, CopyInv, ThreadOK, WordsOK, FinalOK, FirstCopyPending, EveryPageCopied, Quiet

\* The beginning and the end of a session, and the calls of the driver.
LEMMA DriverCopy == ASSUME CopyInv, Driver PROVE CopyInv'
  <1> USE MigrationAssumption
  <1> USE DEF CopyInv, sessionVars, bitmapVars, targetVars
  <1>1. CASE migration_start
    <2>0. TotalPages \in 0..(U64 - 1) /\ 0 \in 0..(MaxIterations + 1)
      OBVIOUS
    <2>1. SessionTypeOK'
      BY <1>1, <2>0 DEF migration_start, SessionTypeOK, Phase
    <2> QED
      BY <1>1, <2>1
      DEF migration_start, ThreadOK, WordsOK, FinalOK, FirstCopyPending, EveryPageCopied,
          Quiet, SessionTypeOK
  <1>2. CASE phase \in {"INITIATED", "PRECOPY"} /\ migration_precopy
    <2>1. mig' \in MigThread /\ mig'.pc = "test" /\ mig'.i = 0
      BY <1>2 DEF migration_precopy, MigThread, MigIdle
    <2>2. SessionTypeOK'
      BY <1>2, <2>1 DEF migration_precopy, SessionTypeOK, Phase
    <2> QED
      BY <1>2, <2>1, <2>2
      DEF migration_precopy, ThreadOK, WordsOK, FinalOK, FirstCopyPending, EveryPageCopied
  <1>3. CASE migration_stop_and_copy
    <2>1. mig' \in MigThread /\ mig'.pc = "final" /\ mig'.i = 0
      BY <1>3 DEF migration_stop_and_copy, MigThread, MigIdle
    <2>2. SessionTypeOK'
      BY <1>3, <2>1 DEF migration_stop_and_copy, SessionTypeOK, Phase
    <2>3. FinalOK'
      BY <2>1 DEF FinalOK, Page
    <2> QED
      BY <1>3, <2>1, <2>2, <2>3
      DEF migration_stop_and_copy, ThreadOK, WordsOK, FirstCopyPending, EveryPageCopied
  <1>4. CASE Quiet /\ migration_end
    <2>1. SessionTypeOK'
      BY <1>4 DEF migration_end, SessionTypeOK, Phase
    <2> QED
      BY <1>4, <2>1
      DEF migration_end, ThreadOK, WordsOK, FinalOK, FirstCopyPending, EveryPageCopied, Quiet
  <1> QED
    BY <1>1, <1>2, <1>3, <1>4 DEF Driver

\* The copying loops.
LEMMA MigCopy == ASSUME CopyInv, MigStep PROVE CopyInv'
  <1> USE MigrationAssumption
  <1> USE DEF CopyInv, sessionVars, bitmapVars, targetVars
  <1>0. mig \in MigThread /\ SessionTypeOK
    BY DEF SessionTypeOK
  <1>1. CASE precopy_page
    <2>1. mig.i \in Page /\ WordOf(mig.i) \subseteq Page
      BY <1>0, <1>1 DEF precopy_page, MigThread, Page, WordOf
    <2>2. CASE mig.i \in dirty
      <3>1. /\ mig' \in MigThread /\ mig'.pc = "clear" /\ mig'.i = mig.i
            /\ mig'.word = dirty \cap WordOf(mig.i)
        <4>1. mig.pages + 1 \in 0..BatchLimit /\ dirty \cap WordOf(mig.i) \in SUBSET Page
          BY <1>0, <1>1, <2>1 DEF precopy_page, MigThread
        <4> QED
          BY <1>0, <1>1, <2>2, <4>1 DEF precopy_page, MigThread
      <3>2. sent' = sent \cup {mig.i} /\ synced' = synced \cup {mig.i}
        BY <1>1, <2>2 DEF precopy_page
      <3>3. SessionTypeOK'
        BY <1>1, <2>1, <3>1, <3>2 DEF precopy_page, SessionTypeOK
      <3>4. FirstCopyPending' /\ EveryPageCopied'
        BY <1>1, <2>1, <3>2 DEF precopy_page, FirstCopyPending, EveryPageCopied
      <3>5. WordsOK'
        BY <1>1, <2>1, <3>1, <3>2
        DEF precopy_page, WordsOK, FirstCopyPending, ThreadOK
      <3> QED
        BY <1>1, <3>1, <3>3, <3>4, <3>5 DEF precopy_page, ThreadOK, FinalOK, Quiet
    <2>3. CASE mig.i \notin dirty
      <3>1. mig' \in MigThread /\ mig'.pc = "test"
        BY <1>0, <1>1, <2>1, <2>3 DEF precopy_page, MigThread, Page
      <3> QED
        BY <1>1, <2>3, <3>1
        DEF precopy_page, SessionTypeOK, ThreadOK, WordsOK, FinalOK, FirstCopyPending,
            EveryPageCopied, Quiet
    <2> QED
      BY <2>2, <2>3
  <1>2. CASE precopy_clear
    <2>1. mig' \in MigThread /\ mig'.pc = "count" /\ mig'.i = mig.i
      BY <1>0, <1>2 DEF precopy_clear, MigThread, SessionTypeOK
    <2>2. dirty' \in SUBSET Page
      BY <1>0, <1>2 DEF precopy_clear, MigThread, SessionTypeOK
    <2>3. FirstCopyPending'
      BY <1>2 DEF precopy_clear, FirstCopyPending, WordsOK
    <2> QED
      BY <1>2, <2>1, <2>2, <2>3
      DEF precopy_clear, SessionTypeOK, ThreadOK, WordsOK, FinalOK, EveryPageCopied, Quiet
  <1>3. CASE precopy_count
    <2>1. mig' \in MigThread /\ mig'.pc = "test"
      <3>1. mig.i + 1 \in 0..TotalPages
        BY <1>3 DEF precopy_count, WordsOK, Page
      <3> QED
        BY <1>0, <1>3, <3>1 DEF precopy_count, MigThread
    <2>2. dirty_page_count' \in 0..(U64 - 1)
      <3>1. mig.count \in Int
        BY <1>0 DEF MigThread
      <3> QED
        BY <1>3, <3>1 DEF precopy_count
    <2> QED
      BY <1>3, <2>1, <2>2
      DEF precopy_count, SessionTypeOK, ThreadOK, WordsOK, FinalOK, FirstCopyPending,
          EveryPageCopied, Quiet
  <1>4. CASE precopy_ends
    <2>1. /\ mig' \in MigThread /\ mig'.pc \in {"stop", "idle"}
          /\ mig'.pc = "idle" => iteration' <= MaxIterations
      BY <1>0, <1>4 DEF precopy_ends, MigThread, MigIdle, SessionTypeOK
    <2>2. iteration' \in 0..(MaxIterations + 1) /\ phase = "PRECOPY"
      BY <1>4 DEF precopy_ends, SessionTypeOK, ThreadOK
    <2> QED
      BY <1>4, <2>1, <2>2
      DEF precopy_ends, SessionTypeOK, ThreadOK, WordsOK, FinalOK, FirstCopyPending,
          EveryPageCopied
  <1>5. CASE precopy_converges
    <2>1. mig' \in MigThread /\ mig'.pc = "idle"
      BY <1>5 DEF precopy_converges, MigThread, MigIdle
    <2> QED
      BY <1>5, <2>1
      DEF precopy_converges, SessionTypeOK, Phase, ThreadOK, WordsOK, FinalOK, FirstCopyPending,
          EveryPageCopied
  <1>6. CASE final_page
    <2>1. mig.i \in Page /\ phase = "STOP_AND_COPY"
      BY <1>0, <1>6 DEF final_page, MigThread, Page, ThreadOK
    <2>2. mig' \in MigThread /\ mig'.pc = "final" /\ mig'.i = mig.i + 1
      BY <1>0, <1>6, <2>1 DEF final_page, MigThread, Page
    <2>3. sent \subseteq sent' /\ mig.i \in sent' /\ sent' \in SUBSET Page
      BY <1>0, <1>6, <2>1 DEF final_page, FirstCopyPending, SessionTypeOK
    <2>4. FinalOK'
      <3>1. \A p \in Page : p < mig.i + 1 <=> p < mig.i \/ p = mig.i
        BY <2>1 DEF Page
      <3> QED
        BY <1>6, <2>2, <2>3, <3>1 DEF FinalOK, final_page
    <2>5. SessionTypeOK'
      BY <1>6, <2>1, <2>2, <2>3 DEF final_page, SessionTypeOK
    <2>6. FirstCopyPending' /\ EveryPageCopied' /\ WordsOK'
      BY <1>6, <2>2, <2>3 DEF final_page, FirstCopyPending, EveryPageCopied, WordsOK
    <2> QED
      BY <1>6, <2>1, <2>2, <2>4, <2>5, <2>6 DEF final_page, ThreadOK
  <1>7. CASE final_ends
    <2>1. mig' \in MigThread /\ mig'.pc = "idle"
      BY <1>7 DEF final_ends, MigThread, MigIdle
    <2>2. sent = Page
      <3>1. \A p \in Page : p < mig.i
        BY <1>7 DEF final_ends, Page
      <3>2. Page \subseteq sent
        BY <1>7, <3>1 DEF final_ends, FinalOK
      <3> QED
        BY <1>0, <3>2 DEF SessionTypeOK
    <2> QED
      BY <1>7, <2>1, <2>2
      DEF final_ends, SessionTypeOK, ThreadOK, WordsOK, FinalOK, FirstCopyPending, EveryPageCopied
  <1> QED
    BY <1>1, <1>2, <1>3, <1>4, <1>5, <1>6, <1>7 DEF MigStep, PrecopyStep

\* The guest's writes and the tracker.
LEMMA TrackCopy ==
    ASSUME CopyInv, NEW t \in Tracker, TrackStep(t) \/ \E p \in Page : GuestWrites(t, p)
    PROVE  CopyInv'
  <1> USE MigrationAssumption
  <1> USE DEF CopyInv, sessionVars, bitmapVars, targetVars
  <1>0. SessionTypeOK /\ trk \in [Tracker -> TrackThread]
    BY DEF SessionTypeOK
  <1>1. phase # "NONE" /\ phase' = phase
    BY DEF TrackStep, GuestWrites, migration_track_dirty_page, track_set, track_count,
           ThreadOK, Quiet
  <1>2. ASSUME NEW p \in Page, GuestWrites(t, p) PROVE CopyInv'
    <2>1. /\ trk' \in [Tracker -> TrackThread]
          /\ trk'[t].pc = "test" /\ trk'[t].page = p
          /\ \A u \in Tracker \ {t} : trk'[u] = trk[u]
      <3>0. 0 \in 0..(U64 - 1)
        OBVIOUS
      <3>1. Reports(p) \in TrackThread /\ Reports(p).pc = "test" /\ Reports(p).page = p
        BY <3>0 DEF TrackThread, Reports
      <3> QED
        BY <1>0, <1>2, <3>1 DEF GuestWrites
    <2> QED
      BY <1>1, <1>2, <2>1
      DEF GuestWrites, SessionTypeOK, ThreadOK, WordsOK, FinalOK, FirstCopyPending, EveryPageCopied
  <1>3. CASE migration_track_dirty_page(t)
    <2>1. trk[t] \in TrackThread /\ trk[t].page \in Page
      BY <1>0, <1>3 DEF migration_track_dirty_page, WordsOK
    <2>2. /\ trk' \in [Tracker -> TrackThread]
          /\ \A u \in Tracker \ {t} : trk'[u] = trk[u]
          /\ \/ trk'[t].pc = "idle"
             \/ /\ trk'[t].pc = "set" /\ trk'[t].page = trk[t].page
                /\ trk'[t].word = dirty \cap WordOf(trk[t].page)
      <3>1. /\ TrackIdle \in TrackThread /\ TrackIdle.pc = "idle"
            /\ dirty \cap WordOf(trk[t].page) \in SUBSET Page
        BY DEF TrackThread, TrackIdle, WordOf
      <3> DEFINE next == [trk[t] EXCEPT !.pc = "set", !.word = dirty \cap WordOf(trk[t].page)]
      <3>2. /\ next \in TrackThread /\ next.pc = "set" /\ next.page = trk[t].page
            /\ next.word = dirty \cap WordOf(trk[t].page)
        BY <2>1, <3>1 DEF TrackThread
      <3>3. \/ trk' = [trk EXCEPT ![t] = TrackIdle]
            \/ trk' = [trk EXCEPT ![t] = next]
        BY <1>0, <1>3 DEF migration_track_dirty_page
      <3> HIDE DEF next
      <3> QED
        BY <1>0, <3>1, <3>2, <3>3
    <2>3. lock' \in Tracker \cup {NULL}
      BY <1>0, <1>3 DEF migration_track_dirty_page, SessionTypeOK
    <2>4. WordsOK'
      BY <1>1, <1>3, <2>1, <2>2
      DEF migration_track_dirty_page, WordsOK, FirstCopyPending, WordOf
    <2> QED
      BY <1>1, <1>3, <2>2, <2>3, <2>4
      DEF migration_track_dirty_page, SessionTypeOK, ThreadOK, FinalOK, FirstCopyPending,
          EveryPageCopied
  <1>4. CASE track_set(t)
    <2>1. trk[t] \in TrackThread /\ trk[t].page \in Page
      BY <1>0, <1>4 DEF track_set, WordsOK
    <2>2. /\ trk' \in [Tracker -> TrackThread]
          /\ \A u \in Tracker \ {t} : trk'[u] = trk[u]
          /\ trk'[t].pc = "count" /\ trk'[t].page = trk[t].page
      BY <1>0, <1>4, <2>1 DEF track_set, TrackThread, SessionTypeOK
    <2>3. dirty' \in SUBSET Page
      BY <1>0, <1>4, <2>1 DEF track_set, TrackThread, SessionTypeOK
    <2>4. FirstCopyPending'
      BY <1>4 DEF track_set, FirstCopyPending, WordsOK
    <2> QED
      BY <1>1, <1>4, <2>1, <2>2, <2>3, <2>4
      DEF track_set, SessionTypeOK, ThreadOK, WordsOK, FinalOK, EveryPageCopied
  <1>5. CASE track_count(t)
    <2>1. /\ trk' \in [Tracker -> TrackThread] /\ trk'[t].pc = "idle"
          /\ \A u \in Tracker \ {t} : trk'[u] = trk[u]
      BY <1>0, <1>5 DEF track_count, TrackThread, TrackIdle
    <2>2. dirty_page_count' \in 0..(U64 - 1)
      <3>1. trk[t].count \in Int
        BY <1>0 DEF TrackThread
      <3> QED
        BY <1>5, <3>1 DEF track_count
    <2> QED
      BY <1>1, <1>5, <2>1, <2>2
      DEF track_count, SessionTypeOK, ThreadOK, WordsOK, FinalOK, FirstCopyPending, EveryPageCopied
  <1> QED
    BY <1>2, <1>3, <1>4, <1>5 DEF TrackStep

\* The invariant is inductive.
LEMMA NextCopy == ASSUME CopyInv, [Next]_vars PROVE CopyInv'
  <1>1. CASE UNCHANGED vars
    BY <1>1
    DEF vars, sessionVars, bitmapVars, targetVars, CopyInv, SessionTypeOK, ThreadOK, WordsOK,
        FinalOK, FirstCopyPending, EveryPageCopied, Quiet
  <1> QED
    BY <1>1, DriverCopy, MigCopy, TrackCopy DEF Next, Watched

\* The copying loops and the tracker, racing on the bitmap, never lose a page
\* that has not been copied yet.
THEOREM FirstCopyCorrect == Spec => []FirstCopyPending
  <1>1. CopyInv => FirstCopyPending
    BY DEF CopyInv
  <1> QED
    BY <1>1, InitCopy, NextCopy, PTL DEF Spec

\* When stop-and-copy is through, every page has been copied at least once.
THEOREM FinalCopyCorrect == Spec => []EveryPageCopied
  <1>1. CopyInv => EveryPageCopied
    BY DEF CopyInv
  <1> QED
    BY <1>1, InitCopy, NextCopy, PTL DEF Spec

\* Every variable of the session keeps its type; in particular the iterations
\* stay within their limit.
THEOREM SessionTypeCorrect == Spec => []TypeOK
  <1>1. Init => CopyInv /\ raced \in BOOLEAN
    BY InitCopy DEF Init
  <1>2. CopyInv /\ raced \in BOOLEAN /\ [Next]_vars => (CopyInv /\ raced \in BOOLEAN)'
    BY NextCopy DEF Next, Watched, vars
  <1>3. CopyInv /\ raced \in BOOLEAN => TypeOK
    BY DEF CopyInv, TypeOK
  <1> QED
    BY <1>1, <1>2, <1>3, PTL DEF Spec

-----------------------------------------------------------------------------
(* Without a race the bitmap and its count are exact.                      *)

\* A tracker is past its test exactly while it holds the lock.
LockOK == \A t \in Tracker : trk[t].pc \in {"set", "count"} <=> lock = t

\* A page neither in sync nor dirty is one that a tracker is about to report,
\* a loaded word or count is still what is stored, and the count is off by
\* the update that is half done.
ExactOK ==
    /\ ~Overlap
    /\ \A p \in Page \ (synced \cup dirty) :
          \E t \in Tracker : trk[t].pc \in {"test", "set"} /\ trk[t].page = p
    /\ mig.pc = "clear" => /\ mig.i \in dirty /\ mig.i \in synced
                           /\ mig.word = dirty \cap WordOf(mig.i)
    /\ mig.pc = "count" => /\ mig.count = dirty_page_count
                           /\ dirty_page_count = Cardinality(dirty) + 1
    /\ \A t \in Tracker : trk[t].pc = "set" =>
          trk[t].page \notin dirty /\ trk[t].word = dirty \cap WordOf(trk[t].page)
    /\ \A t \in Tracker : trk[t].pc = "count" =>
          trk[t].count = dirty_page_count /\ dirty_page_count + 1 = Cardinality(dirty)
    /\ mig.pc # "count" /\ (\A t \in Tracker : trk[t].pc # "count") =>
          dirty_page_count = Cardinality(dirty)

\* The inductive invariant.
RaceInv == CopyInv /\ LockOK /\ raced \in BOOLEAN /\ (phase # "NONE" /\ ~raced => ExactOK)

LEMMA PageFinite ==
    /\ IsFiniteSet(Page) /\ Cardinality(Page) = TotalPages
    /\ \A S \in SUBSET Page : /\ IsFiniteSet(S) /\ Cardinality(S) \in Nat
                             /\ Cardinality(S) <= TotalPages
  <1>1. 0 \in Int /\ TotalPages - 1 \in Int
    BY MigrationAssumption
  <1>2. IsFiniteSet(Page) /\ Cardinality(Page) = TotalPages
    <2>1. IsFiniteSet(0 .. (TotalPages - 1))
      BY <1>1, FS_Interval
    <2>2. Cardinality(0 .. (TotalPages - 1)) =
             IF 0 > TotalPages - 1 THEN 0 ELSE ((TotalPages - 1) - 0) + 1
      BY <1>1, FS_Interval
    <2> QED BY <2>1, <2>2, MigrationAssumption DEF Page
  <1>3. ASSUME NEW S \in SUBSET Page
        PROVE  IsFiniteSet(S) /\ Cardinality(S) \in Nat /\ Cardinality(S) <= TotalPages
    <2>1. IsFiniteSet(S) /\ Cardinality(S) <= Cardinality(Page)
      BY <1>2, FS_Subset
    <2>2. Cardinality(S) \in Nat
      BY <2>1, FS_CardinalityType
    <2> QED BY <1>2, <2>1, <2>2
  <1> QED BY <1>2, <1>3

LEMMA InitRace == Init => RaceInv
  <1> SUFFICES ASSUME Init PROVE RaceInv
    OBVIOUS
  <1>1. TrackIdle.pc = "idle"
    BY DEF TrackIdle
  <1>2. LockOK
    BY <1>1, MigrationAssumption DEF Init, LockOK
  <1> QED BY <1>2, InitCopy DEF Init, RaceInv

\* The lock is taken by a tracker that goes on to set the bit, and released
\* by the same tracker.
LEMMA NextLock == ASSUME RaceInv, Next PROVE LockOK'
  <1> USE MigrationAssumption DEF RaceInv, LockOK
  <1>0. trk \in [Tracker -> TrackThread] /\ TrackIdle.pc = "idle" /\ lock \in Tracker \cup {NULL}
    BY DEF CopyInv, SessionTypeOK, TrackIdle
  <1>1. CASE Driver \/ MigStep
    BY <1>1 DEF Driver, MigStep, PrecopyStep, migration_start, migration_end, migration_precopy,
       migration_stop_and_copy, precopy_page, precopy_clear, precopy_count, precopy_ends,
       precopy_converges, final_page, final_ends
  <1>2. ASSUME NEW t \in Tracker, NEW p \in Page, GuestWrites(t, p) PROVE LockOK'
    <2>1. Reports(p).pc = "test"
      BY DEF Reports
    <2>2. trk' = [trk EXCEPT ![t] = Reports(p)] /\ lock' = lock /\ trk[t].pc = "idle"
      BY <1>2 DEF GuestWrites
    <2> QED BY <1>0, <2>1, <2>2
  <1>3. ASSUME NEW t \in Tracker, migration_track_dirty_page(t) PROVE LockOK'
    <2>1. CASE trk' = [trk EXCEPT ![t] = TrackIdle] /\ lock' = lock
      BY <1>0, <1>3, <2>1 DEF migration_track_dirty_page
    <2>2. CASE ~(trk' = [trk EXCEPT ![t] = TrackIdle] /\ lock' = lock)
      <3>1. PICK x : x = [trk[t] EXCEPT !.pc = "set", !.word = dirty \cap WordOf(trk[t].page)]
        OBVIOUS
      <3>2. trk' = [trk EXCEPT ![t] = x] /\ lock' = t
        BY <1>0, <1>3, <2>2, <3>1 DEF migration_track_dirty_page
      <3>3. x.pc = "set"
        BY <1>0, <3>1 DEF TrackThread
      <3>4. lock = NULL
        BY <1>3 DEF migration_track_dirty_page
      <3> QED BY <1>0, <3>2, <3>3, <3>4
    <2> QED BY <2>1, <2>2
  <1>4. ASSUME NEW t \in Tracker, track_set(t) PROVE LockOK'
    <2>1. PICK x : x = [trk[t] EXCEPT !.pc = "count", !.count = dirty_page_count]
      OBVIOUS
    <2>2. trk' = [trk EXCEPT ![t] = x] /\ lock' = lock /\ trk[t].pc = "set"
      BY <1>0, <1>4, <2>1 DEF track_set
    <2>3. x.pc = "count"
      BY <1>0, <2>1 DEF TrackThread
    <2> QED BY <1>0, <2>2, <2>3
  <1>5. ASSUME NEW t \in Tracker, track_count(t) PROVE LockOK'
    BY <1>0, <1>5 DEF track_count
  <1> QED BY <1>1, <1>2, <1>3, <1>4, <1>5 DEF Next, Watched, TrackStep

\* A session starts with every page dirty.
LEMMA StartExact == ASSUME RaceInv, migration_start PROVE ExactOK'
  <1>1. Quiet /\ mig' = mig /\ trk' = trk
    BY DEF RaceInv, CopyInv, ThreadOK, migration_start
  <1> QED BY <1>1, PageFinite DEF migration_start, ExactOK, Overlap, Quiet

\* The other calls of the driver change neither bitmap nor count.
LEMMA DriverExact ==
    ASSUME RaceInv, ExactOK, Driver, phase # "NONE", phase' # "NONE", ~Overlap'
    PROVE  ExactOK'
  <1>1. /\ UNCHANGED <<dirty, dirty_page_count, synced, trk>>
        /\ mig.pc = "idle" /\ mig' \in {[MigIdle EXCEPT !.pc = "test"], [MigIdle EXCEPT !.pc = "final"]}
    BY DEF Driver, migration_start, migration_precopy, migration_stop_and_copy, migration_end,
           bitmapVars, targetVars
  <1>2. mig'.pc \in {"test", "final"}
    BY <1>1 DEF MigIdle
  <1> QED BY <1>1, <1>2 DEF ExactOK

\* Precopy's update of a word and of the count, with no tracker inside.
LEMMA MigExact ==
    ASSUME RaceInv, ExactOK, MigStep, ~Overlap'
    PROVE  ExactOK'
  <1> USE MigrationAssumption
  <1>0. /\ mig \in MigThread /\ dirty \in SUBSET Page /\ synced \in SUBSET Page
        /\ dirty_page_count \in 0 .. (U64 - 1)
    BY DEF RaceInv, CopyInv, SessionTypeOK
  <1>1. CASE precopy_page
    <2>1. UNCHANGED <<dirty, dirty_page_count, trk>> /\ mig.pc = "test"
      BY <1>1 DEF precopy_page, bitmapVars
    <2>2. CASE mig.i \in dirty
      <3>1. PICK x : x = [mig EXCEPT !.pc = "clear", !.pages = @ + 1, !.word = dirty \cap WordOf(mig.i)]
        OBVIOUS
      <3>2. mig' = x /\ synced' = synced \cup {mig.i}
        BY <1>1, <2>2, <3>1 DEF precopy_page
      <3>3. x.pc = "clear" /\ x.i = mig.i /\ x.word = dirty \cap WordOf(mig.i)
        BY <1>0, <3>1 DEF MigThread
      <3> QED BY <2>1, <2>2, <3>2, <3>3 DEF ExactOK
    <2>3. CASE mig.i \notin dirty
      <3>1. mig'.pc = "test" /\ synced' = synced
        BY <1>0, <1>1, <2>1, <2>3 DEF precopy_page, MigThread, targetVars
      <3> QED BY <2>1, <3>1 DEF ExactOK
    <2> QED BY <2>2, <2>3
  <1>2. CASE precopy_clear
    <2>1. /\ UNCHANGED <<dirty_page_count, synced, trk>> /\ mig.pc = "clear"
          /\ mig' = [mig EXCEPT !.pc = "count", !.count = dirty_page_count]
          /\ dirty' = (dirty \ WordOf(mig.i)) \cup (mig.word \ {mig.i})
      BY <1>2 DEF precopy_clear, targetVars
    <2>2. mig'.pc = "count" /\ mig'.count = dirty_page_count
      BY <1>0, <2>1 DEF MigThread
    <2>3. mig.i \in dirty /\ mig.i \in synced /\ mig.word = dirty \cap WordOf(mig.i)
      BY <2>1 DEF ExactOK
    <2>4. mig.i \in WordOf(mig.i)
      BY <1>0, <2>3 DEF WordOf
    <2>5. dirty' = dirty \ {mig.i}
      BY <2>1, <2>3, <2>4
    <2>6. \A t \in Tracker : trk[t].pc = "idle"
      BY <2>1 DEF ExactOK, Overlap
    <2>7. dirty_page_count = Cardinality(dirty)
      BY <2>1, <2>6 DEF ExactOK
    <2>8. Cardinality(dirty') = Cardinality(dirty) - 1
      <3>1. IsFiniteSet(dirty)
        BY <1>0, PageFinite
      <3>2. PICK D, x : D = dirty /\ x = mig.i
        OBVIOUS
      <3>3. Cardinality(D \ {x}) = Cardinality(D) - 1
        BY <2>3, <3>1, <3>2, FS_RemoveElement
      <3> QED BY <2>5, <3>2, <3>3
    <2>9. dirty_page_count = Cardinality(dirty') + 1
      BY <1>0, <2>7, <2>8
    <2>10. \A p \in Page : p \in synced \cup dirty => p \in synced \cup dirty'
      BY <2>3, <2>5
    <2> QED BY <2>1, <2>2, <2>6, <2>9, <2>10 DEF ExactOK
  <1>3. CASE precopy_count
    <2>1. /\ UNCHANGED <<dirty, synced, trk>> /\ mig.pc = "count"
          /\ mig' = [mig EXCEPT !.pc = "test", !.i = @ + 1]
          /\ dirty_page_count' = (mig.count - 1) % U64
      BY <1>3 DEF precopy_count, targetVars
    <2>2. mig'.pc = "test"
      BY <1>0, <2>1 DEF MigThread
    <2>3. mig.count = Cardinality(dirty) + 1
      BY <2>1 DEF ExactOK
    <2>4. PICK k \in Nat : k = Cardinality(dirty) /\ k <= TotalPages
      BY <1>0, PageFinite
    <2>5. (mig.count - 1) % U64 = k
      <3>1. mig.count - 1 = k
        BY <2>3, <2>4
      <3>2. k % U64 = k
        BY <2>4
      <3> QED BY <3>1, <3>2
    <2>6. dirty_page_count' = Cardinality(dirty)
      BY <2>1, <2>4, <2>5
    <2>7. \A t \in Tracker : trk[t].pc = "idle"
      BY <2>1 DEF ExactOK, Overlap
    <2> QED BY <2>1, <2>2, <2>6, <2>7 DEF ExactOK
  <1>4. CASE precopy_ends \/ precopy_converges
    <2>1. UNCHANGED <<dirty, dirty_page_count, synced, trk>> /\ mig.pc \in {"test", "stop"}
      BY <1>4 DEF precopy_ends, precopy_converges, bitmapVars, targetVars
    <2>2. mig'.pc \in {"stop", "idle"}
      BY <1>4 DEF precopy_ends, precopy_converges, MigIdle
    <2> QED BY <2>1, <2>2 DEF ExactOK
  <1>5. CASE final_page
    <2>1. UNCHANGED <<dirty, dirty_page_count, trk>> /\ mig.pc = "final" /\ synced \subseteq synced'
      BY <1>5 DEF final_page, bitmapVars
    <2>2. mig'.pc = "final"
      BY <1>0, <1>5, <2>1 DEF final_page, MigThread
    <2> QED BY <2>1, <2>2 DEF ExactOK
  <1>6. CASE final_ends
    <2>1. UNCHANGED <<dirty, dirty_page_count, synced, trk>> /\ mig.pc = "final" /\ mig'.pc = "idle"
      BY <1>6 DEF final_ends, bitmapVars, targetVars, MigIdle
    <2> QED BY <2>1 DEF ExactOK
  <1> QED BY <1>1, <1>2, <1>3, <1>4, <1>5, <1>6 DEF MigStep, PrecopyStep

\* A report, with precopy outside its update and the other trackers kept out
\* by the lock.
LEMMA TrackExact ==
    ASSUME RaceInv, ExactOK, ~Overlap', NEW t \in Tracker,
           TrackStep(t) \/ \E p \in Page : GuestWrites(t, p)
    PROVE  ExactOK'
  <1> USE MigrationAssumption
  <1>0. /\ trk \in [Tracker -> TrackThread] /\ dirty \in SUBSET Page /\ synced \in SUBSET Page
        /\ dirty_page_count \in 0 .. (U64 - 1) /\ TrackIdle.pc = "idle"
        /\ trk[t].pc # "idle" => trk[t].page \in Page
    BY DEF RaceInv, CopyInv, SessionTypeOK, WordsOK, TrackIdle
  <1>1. ASSUME NEW p \in Page, GuestWrites(t, p) PROVE ExactOK'
    <2>1. /\ UNCHANGED <<dirty, dirty_page_count, mig>> /\ synced' = synced \ {p}
          /\ trk' = [trk EXCEPT ![t] = Reports(p)] /\ trk[t].pc = "idle"
      BY <1>1 DEF GuestWrites, bitmapVars
    <2>2. Reports(p).pc = "test" /\ Reports(p).page = p
      BY DEF Reports
    <2>3. /\ trk'[t].pc = "test" /\ trk'[t].page = p
          /\ \A u \in Tracker : u # t => trk'[u] = trk[u]
      BY <1>0, <2>1, <2>2
    <2>4. mig.pc \notin {"clear", "count"}
      BY <2>1, <2>3 DEF Overlap
    <2>5. ASSUME NEW q \in Page \ (synced' \cup dirty')
          PROVE  \E u \in Tracker : trk'[u].pc \in {"test", "set"} /\ trk'[u].page = q
      <3>1. CASE q = p
        BY <2>3, <3>1
      <3>2. CASE q # p
        <4>1. PICK u \in Tracker : trk[u].pc \in {"test", "set"} /\ trk[u].page = q
          BY <2>1, <2>5, <3>2 DEF ExactOK
        <4> QED BY <2>1, <2>3, <4>1
      <3> QED BY <3>1, <3>2
    <2> QED BY <2>1, <2>3, <2>4, <2>5 DEF ExactOK
  <1>2. CASE migration_track_dirty_page(t)
    <2>1. /\ UNCHANGED <<dirty, dirty_page_count, synced, mig>> /\ trk[t].pc = "test" /\ lock = NULL
      BY <1>2 DEF migration_track_dirty_page, bitmapVars, targetVars
    <2>2. mig.pc \notin {"clear", "count"}
      BY <2>1 DEF ExactOK, Overlap
    <2>3. CASE trk[t].page \in dirty
      <3>1. trk' = [trk EXCEPT ![t] = TrackIdle]
        BY <1>2, <2>3 DEF migration_track_dirty_page
      <3>2. trk'[t].pc = "idle" /\ \A u \in Tracker : u # t => trk'[u] = trk[u]
        BY <1>0, <3>1
      <3>3. ASSUME NEW q \in Page \ (synced' \cup dirty')
            PROVE  \E u \in Tracker : trk'[u].pc \in {"test", "set"} /\ trk'[u].page = q
        <4>1. PICK u \in Tracker : trk[u].pc \in {"test", "set"} /\ trk[u].page = q
          BY <2>1, <3>3 DEF ExactOK
        <4> QED BY <2>1, <2>3, <3>2, <4>1
      <3>4. (\A u \in Tracker : trk'[u].pc # "count") => \A u \in Tracker : trk[u].pc # "count"
        BY <2>1, <3>2
      <3> QED BY <2>1, <2>2, <3>2, <3>3, <3>4 DEF ExactOK
    <2>4. CASE trk[t].page \notin dirty
      <3>1. PICK x : x = [trk[t] EXCEPT !.pc = "set", !.word = dirty \cap WordOf(trk[t].page)]
        OBVIOUS
      <3>2. trk' = [trk EXCEPT ![t] = x]
        BY <1>0, <1>2, <2>4, <3>1 DEF migration_track_dirty_page
      <3>3. x.pc = "set" /\ x.page = trk[t].page /\ x.word = dirty \cap WordOf(trk[t].page)
        BY <1>0, <3>1 DEF TrackThread
      <3>4. trk'[t] = x /\ \A u \in Tracker : u # t => trk'[u] = trk[u]
        BY <1>0, <3>2
      <3>5. ASSUME NEW q \in Page \ (synced' \cup dirty')
            PROVE  \E u \in Tracker : trk'[u].pc \in {"test", "set"} /\ trk'[u].page = q
        <4>1. PICK u \in Tracker : trk[u].pc \in {"test", "set"} /\ trk[u].page = q
          BY <2>1, <3>5 DEF ExactOK
        <4> QED BY <3>3, <3>4, <4>1
      <3>6. (\A u \in Tracker : trk'[u].pc # "count") => \A u \in Tracker : trk[u].pc # "count"
        BY <2>1, <3>4
      <3> QED BY <2>1, <2>2, <2>4, <3>3, <3>4, <3>5, <3>6 DEF ExactOK
    <2> QED BY <2>3, <2>4
  <1>3. CASE track_set(t)
    <2>1. /\ UNCHANGED <<dirty_page_count, synced, mig>> /\ trk[t].pc = "set"
          /\ dirty' = (dirty \ WordOf(trk[t].page)) \cup trk[t].word \cup {trk[t].page}
      BY <1>3 DEF track_set, targetVars
    <2>2. PICK p \in Page : p = trk[t].page
      BY <1>0, <2>1
    <2>3. p \notin dirty /\ trk[t].word = dirty \cap WordOf(p)
      BY <2>1, <2>2 DEF ExactOK
    <2>4. dirty' = dirty \cup {p}
      BY <2>1, <2>2, <2>3
    <2>5. PICK x : x = [trk[t] EXCEPT !.pc = "count", !.count = dirty_page_count]
      OBVIOUS
    <2>6. trk' = [trk EXCEPT ![t] = x]
      BY <1>0, <1>3, <2>5 DEF track_set
    <2>7. x.pc = "count" /\ x.count = dirty_page_count
      BY <1>0, <2>5 DEF TrackThread
    <2>8. trk'[t] = x /\ \A u \in Tracker : u # t => trk'[u] = trk[u]
      BY <1>0, <2>6
    <2>9. \A u \in Tracker : u # t => trk[u].pc \notin {"set", "count"}
      BY <2>1 DEF RaceInv, LockOK
    <2>10. mig.pc \notin {"clear", "count"}
      BY <2>1 DEF ExactOK, Overlap
    <2>11. dirty_page_count = Cardinality(dirty)
      BY <2>1, <2>9, <2>10 DEF ExactOK
    <2>12. Cardinality(dirty') = Cardinality(dirty) + 1
      <3>1. IsFiniteSet(dirty)
        BY <1>0, PageFinite
      <3>2. PICK D : D = dirty
        OBVIOUS
      <3>3. Cardinality(D \cup {p}) = Cardinality(D) + 1
        BY <2>3, <3>1, <3>2, FS_AddElement
      <3> QED BY <2>4, <3>2, <3>3
    <2>13. dirty_page_count + 1 = Cardinality(dirty')
      BY <2>11, <2>12
    <2>14. ASSUME NEW q \in Page \ (synced' \cup dirty')
           PROVE  \E u \in Tracker : trk'[u].pc \in {"test", "set"} /\ trk'[u].page = q
      <3>1. PICK u \in Tracker : trk[u].pc \in {"test", "set"} /\ trk[u].page = q
        BY <2>1, <2>4, <2>14 DEF ExactOK
      <3>2. u # t
        BY <2>2, <2>4, <2>14, <3>1
      <3> QED BY <2>8, <3>1, <3>2
    <2>15. \A u \in Tracker : /\ trk'[u].pc # "set"
                              /\ trk'[u].pc = "count" => u = t
      BY <2>7, <2>8, <2>9
    <2>16. \A u \in Tracker : trk'[u].pc = "count" =>
              trk'[u].count = dirty_page_count' /\ dirty_page_count' + 1 = Cardinality(dirty')
      BY <2>1, <2>7, <2>8, <2>13, <2>15
    <2>17. mig'.pc \notin {"clear", "count"} /\ trk'[t].pc = "count"
      BY <2>1, <2>7, <2>8, <2>10
    <2> QED BY <2>14, <2>15, <2>16, <2>17 DEF ExactOK
  <1>4. CASE track_count(t)
    <2>1. /\ UNCHANGED <<dirty, synced, mig>> /\ trk[t].pc = "count"
          /\ dirty_page_count' = (trk[t].count + 1) % U64
          /\ trk' = [trk EXCEPT ![t] = TrackIdle]
      BY <1>4 DEF track_count, targetVars
    <2>2. trk'[t].pc = "idle" /\ \A u \in Tracker : u # t => trk'[u] = trk[u]
      BY <1>0, <2>1
    <2>3. \A u \in Tracker : u # t => trk[u].pc \notin {"set", "count"}
      BY <2>1 DEF RaceInv, LockOK
    <2>4. mig.pc \notin {"clear", "count"}
      BY <2>1 DEF ExactOK, Overlap
    <2>5. PICK k \in Nat : k = Cardinality(dirty) /\ k <= TotalPages
      BY <1>0, PageFinite
    <2>6. trk[t].count + 1 = k
      BY <2>1, <2>5 DEF ExactOK
    <2>7. dirty_page_count' = k
      <3>1. k % U64 = k
        BY <2>5
      <3> QED BY <2>1, <2>6, <3>1
    <2>8. ASSUME NEW q \in Page \ (synced' \cup dirty')
          PROVE  \E u \in Tracker : trk'[u].pc \in {"test", "set"} /\ trk'[u].page = q
      <3>1. PICK u \in Tracker : trk[u].pc \in {"test", "set"} /\ trk[u].page = q
        BY <2>1, <2>8 DEF ExactOK
      <3> QED BY <2>1, <2>2, <3>1
    <2> QED BY <2>1, <2>2, <2>3, <2>4, <2>5, <2>7, <2>8 DEF ExactOK
  <1> QED BY <1>1, <1>2, <1>3, <1>4 DEF TrackStep

LEMMA NextRace == ASSUME RaceInv, [Next]_vars PROVE RaceInv'
  <1>1. CASE UNCHANGED vars
    <2>1. CopyInv'
      BY NextCopy DEF RaceInv
    <2>2. UNCHANGED <<phase, dirty, dirty_page_count, lock, mig, trk, synced, raced>>
      BY <1>1 DEF vars, sessionVars, bitmapVars, targetVars
    <2>3. LockOK' /\ ExactOK' = ExactOK
      BY <2>2 DEF RaceInv, LockOK, ExactOK, Overlap
    <2> QED BY <2>1, <2>2, <2>3 DEF RaceInv
  <1>2. CASE Next
    <2>1. CopyInv' /\ LockOK'
      BY <1>2, NextCopy, NextLock DEF RaceInv
    <2>2. raced' = (phase # "NONE" /\ (raced \/ Overlap'))
      BY <1>2 DEF Next, Watched
    <2>3. ASSUME phase' # "NONE", ~raced' PROVE ExactOK'
      <3>1. CASE phase = "NONE"
        <4>1. migration_start
          BY <1>2, <3>1 DEF RaceInv, CopyInv, ThreadOK, Quiet, Next, Watched, Driver, MigStep,
             PrecopyStep, TrackStep, migration_precopy, migration_stop_and_copy, migration_end,
             precopy_page, precopy_clear, precopy_count, precopy_ends, precopy_converges,
             final_page, final_ends, GuestWrites, migration_track_dirty_page, track_set, track_count
        <4> QED BY <4>1, StartExact
      <3>2. CASE phase # "NONE"
        <4>1. ExactOK /\ ~Overlap'
          BY <2>2, <2>3, <3>2 DEF RaceInv
        <4> QED
          BY <1>2, <2>3, <3>2, <4>1, DriverExact, MigExact, TrackExact DEF Next, Watched
      <3> QED BY <3>1, <3>2
    <2> QED BY <2>1, <2>2, <2>3 DEF RaceInv
  <1> QED BY <1>1, <1>2

\* As long as no report overlaps an update of the bitmap by precopy, no write
\* is lost and the count that precopy decides on is the number of dirty pages.
THEOREM RaceFreeCorrect == Spec => []RaceFreeExact
  <1>1. RaceInv => RaceFreeExact
    BY DEF RaceInv, ExactOK, RaceFreeExact, Quiet
  <1> QED BY <1>1, InitRace, NextRace, PTL DEF Spec
=============================================================================
