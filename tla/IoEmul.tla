------------------------------- MODULE IoEmul -------------------------------
(***************************************************************************)
(* Bringing the hypervisor up and down (hypervisor_init and the subsystem  *)
(* part of hypervisor_shutdown in hypervisor.c) and the I/O emulation that *)
(* comes up last (io/io_emul.c): two singly linked lists of handlers that  *)
(* vCPU threads walk, without a lock, while the control thread registers.  *)
(*                                                                         *)
(* An entry is one malloc; its address is a number, reused after free.     *)
(* Handlers are records of a range and a device.  The write functions of   *)
(* the devices are never called: io_emul_init passes them where the        *)
(* context belongs, and io_port_write calls the read function, with the    *)
(* value written as the address of its result.  Device registers           *)
(* therefore keep their initial zeros, and a write to a handled address    *)
(* stores through a wild pointer.                                          *)
(*                                                                         *)
(* The caller's duties, which nothing checks: one thread registers, and it *)
(* unregisters or shuts down only while no vCPU thread is in an access.    *)
(***************************************************************************)
EXTENDS Naturals, Sequences, FiniteSets

CONSTANTS Thread,      \* vCPU threads
          MaxEntry,    \* entries that malloc can provide
          DefaultCount,  \* how many of the five default handlers an instance has
          Extra,       \* handlers that may be registered later, by space
          Address      \* the addresses accessed, by space

ASSUME IoAssumption ==
    /\ MaxEntry \in Nat /\ DefaultCount \in 0 .. 5
    /\ Address \in [{"io", "mmio"} -> SUBSET Nat]

Space == {"io", "mmio"}
Entry == 1 .. MaxEntry
NULL  == 0

PortRange(first, count, device) == [first |-> first, count |-> count, device |-> device]

Blank == PortRange(0, 0, "none")

\* The handlers of io_emul_init, in the order it registers them.
Defaults == << PortRange(112, 8, "cmos"), PortRange(96, 2, "ps2"), PortRange(64, 4, "pit"),
               PortRange(1016, 8, "uart"), PortRange(960, 27, "vga") >>
Handler == {Defaults[i] : i \in 1 .. DefaultCount}
           \cup Extra["io"] \cup Extra["mmio"]

Subsystem == {"scheduler", "hypercall", "ept", "io"}

VARIABLES
    g_initialized,
    g_hypervisor,     \* is it allocated?
    up,               \* the subsystems that are initialised
    head,             \* g_io_handlers and g_mmio_handlers
    entry, next,      \* what an entry holds
    allocated,        \* the entries malloc has given out
    call,             \* what the control thread is doing
    access            \* what each vCPU thread is doing

hvVars   == <<g_initialized, g_hypervisor, up>>
listVars == <<head, entry, next, allocated>>
vars == <<hvVars, listVars, call, access>>

Idle == [op |-> "idle", i |-> 0, space |-> "io"]
Quiet == [op |-> "quiet", space |-> "io", addr |-> 0, at |-> NULL, want |-> "none", got |-> "none"]

Covers(h, a) == a >= h.first /\ a < h.first + h.count

\* The entries of a list, in the order a loop over it meets them.
Chain(s) ==
    LET at[n \in 0 .. MaxEntry] ==
            IF n = 0 THEN head[s] ELSE IF at[n - 1] = NULL THEN NULL ELSE next[at[n - 1]]
        length == Cardinality({n \in 0 .. MaxEntry : at[n] # NULL})
    IN  [n \in 1 .. length |-> at[n - 1]]

\* Types; and while I/O emulation is up no head points to a freed entry.
TypeOK ==
    /\ g_initialized \in BOOLEAN /\ g_hypervisor \in BOOLEAN
    /\ up \subseteq Subsystem
    /\ head \in [Space -> Entry \cup {NULL}]
    /\ entry \in [Entry -> Handler \cup {Blank}]
    /\ next \in [Entry -> Entry \cup {NULL}]
    /\ allocated \subseteq Entry
    /\ "io" \in up => \A s \in Space : head[s] \in allocated \cup {NULL}
    /\ call \in [op : {"idle", "scheduler", "hypercall", "ept", "io", "defaults", "publish"},
                 i : Entry \cup 0 .. (DefaultCount + 1), space : Space]
    /\ \A t \in Thread : access[t].at \in Entry \cup {NULL}

Init ==
    /\ g_initialized = FALSE /\ g_hypervisor = FALSE /\ up = {}
    /\ head = [s \in Space |-> NULL]
    /\ entry = [e \in Entry |-> Blank] /\ next = [e \in Entry |-> NULL]
    /\ allocated = {}
    /\ call = Idle
    /\ access = [t \in Thread |-> Quiet]

-----------------------------------------------------------------------------
(* hypervisor_init, one subsystem a step; each may fail.                   *)

\* free(g_hypervisor) and the return.
GiveUp(still_up) ==
    /\ g_hypervisor' = FALSE /\ up' = still_up
    /\ call' = Idle

\* Allocation and CPU detection: a failure leaves nothing behind.
hypervisor_init ==
    /\ ~g_initialized /\ call = Idle
    /\ g_hypervisor' = TRUE /\ call' = [Idle EXCEPT !.op = "scheduler"]
    /\ UNCHANGED <<g_initialized, up, listVars, access>>

scheduler_init ==
    /\ call.op = "scheduler"
    /\ \/ up' = up \cup {"scheduler"} /\ call' = [Idle EXCEPT !.op = "hypercall"]
          /\ UNCHANGED g_hypervisor
       \/ GiveUp({})
    /\ UNCHANGED <<g_initialized, listVars, access>>

\* Mutant: forgets to shut the scheduler down.
MutHypercallInit ==
    /\ call.op = "hypercall"
    /\ \/ up' = up \cup {"hypercall"} /\ call' = [Idle EXCEPT !.op = "ept"]
          /\ UNCHANGED g_hypervisor
       \/ GiveUp(up)
    /\ UNCHANGED <<g_initialized, listVars, access>>

hypercall_init ==
    /\ call.op = "hypercall"
    /\ \/ up' = up \cup {"hypercall"} /\ call' = [Idle EXCEPT !.op = "ept"]
          /\ UNCHANGED g_hypervisor
       \/ GiveUp(up \ {"scheduler"})
    /\ UNCHANGED <<g_initialized, listVars, access>>

\* ept_init always succeeds.
ept_init ==
    /\ call.op = "ept"
    /\ up' = up \cup {"ept"} /\ call' = [Idle EXCEPT !.op = "io"]
    /\ UNCHANGED <<g_initialized, g_hypervisor, listVars, access>>

\* Mutant: leaves the heads as they are.
MutInitKeepsHeads ==
    /\ call.op = "io"
    /\ up' = up \cup {"io"}
    /\ call' = [Idle EXCEPT !.op = "defaults", !.i = 1]
    /\ UNCHANGED <<g_initialized, g_hypervisor, listVars, access>>

\* io_emul_init forgets what the heads pointed to.
io_emul_init ==
    /\ call.op = "io"
    /\ head' = [s \in Space |-> NULL]
    /\ up' = up \cup {"io"}
    /\ call' = [Idle EXCEPT !.op = "defaults", !.i = 1]
    /\ UNCHANGED <<g_initialized, g_hypervisor, entry, next, allocated, access>>

\* malloc and the assignments to the new entry, which nobody sees yet.
Prepare(e, s, h) ==
    /\ e \in Entry \ allocated /\ \A k \in Entry \ allocated : e <= k
    /\ allocated' = allocated \cup {e}
    /\ entry' = [entry EXCEPT ![e] = h]
    /\ next' = [next EXCEPT ![e] = head[s]]

\* The default handlers; io_emul_init does not look at the results.
register_default ==
    /\ call.op = "defaults" /\ call.i <= DefaultCount
    /\ call' = [call EXCEPT !.i = @ + 1]
    /\ \/ \E e \in Entry : /\ Prepare(e, "io", Defaults[call.i])
                           /\ head' = [head EXCEPT !["io"] = e]
       \/ UNCHANGED listVars
    /\ UNCHANGED <<hvVars, access>>

init_returns ==
    /\ call.op = "defaults" /\ call.i > DefaultCount
    /\ g_initialized' = TRUE /\ call' = Idle
    /\ UNCHANGED <<g_hypervisor, up, listVars, access>>

\* free(): the contents of the entries are lost.
Free(gone) ==
    /\ allocated' = allocated \ gone
    /\ entry' = [e \in Entry |-> IF e \in gone THEN Blank ELSE entry[e]]
Linked(s) == {Chain(s)[i] : i \in DOMAIN Chain(s)}

Calm == \A t \in Thread : access[t] = Quiet

\* hypervisor_shutdown after its loop over the VMs.  io_emul_shutdown frees both
\* lists, reading the successor first, and leaves the heads dangling.
hypervisor_shutdown ==
    /\ g_initialized /\ call = Idle /\ Calm
    /\ Free(Linked("io") \cup Linked("mmio"))
    /\ up' = {} /\ g_hypervisor' = FALSE /\ g_initialized' = FALSE
    /\ next' = [e \in Entry |-> NULL]
    /\ UNCHANGED <<head, call, access>>

-----------------------------------------------------------------------------
(* Registration: io_register_handler and mmio_register_handler.            *)

io_register_handler(s, h) ==
    /\ g_initialized /\ call = Idle
    /\ \E e \in Entry :
          /\ Prepare(e, s, h)
          /\ call' = [op |-> "publish", i |-> e, space |-> s]
    /\ UNCHANGED <<hvVars, head, access>>

\* g_io_handlers = entry: from here on threads meet it.
register_publish ==
    /\ call.op = "publish"
    /\ head' = [head EXCEPT ![call.space] = call.i]
    /\ call' = Idle
    /\ UNCHANGED <<hvVars, entry, next, allocated, access>>

\* Mutant: unlinks the last entry at the port, not the first.
MutUnregisterLast(port) ==
    /\ g_initialized /\ call = Idle /\ Calm
    /\ LET c == Chain("io") IN
       \E i \in DOMAIN c :
          /\ entry[c[i]].first = port
          /\ \A j \in (i + 1) .. Len(c) : entry[c[j]].first # port
          /\ head' = [head EXCEPT !["io"] = IF i = 1 THEN next[c[1]] ELSE @]
          /\ next' = [e \in Entry |-> IF i > 1 /\ e = c[i - 1] THEN next[c[i]]
                                      ELSE IF e = c[i] THEN NULL ELSE next[e]]
          /\ Free({c[i]})
    /\ UNCHANGED <<hvVars, call, access>>

\* The first entry whose port is the one given is unlinked and freed.
io_unregister_handler(port) ==
    /\ g_initialized /\ call = Idle /\ Calm
    /\ LET c == Chain("io") IN
       \E i \in DOMAIN c :
          /\ entry[c[i]].first = port
          /\ \A j \in 1 .. (i - 1) : entry[c[j]].first # port
          /\ head' = [head EXCEPT !["io"] = IF i = 1 THEN next[c[1]] ELSE @]
          /\ next' = [e \in Entry |-> IF i > 1 /\ e = c[i - 1] THEN next[c[i]]
                                      ELSE IF e = c[i] THEN NULL ELSE next[e]]
          /\ Free({c[i]})
    /\ UNCHANGED <<hvVars, call, access>>

-----------------------------------------------------------------------------
(* Accesses of the guest.                                                  *)

\* The read functions of the devices, for accesses of one byte: the registers
\* are all zero.
cmos_read(a)         == IF a \in {112, 113} THEN "zero" ELSE "ones"
ps2_keyboard_read(a) == IF a \in {96, 100} THEN "zero" ELSE "ones"
pit_read  == "zero"
uart_read == "zero"
vga_read  == "zero"

\* handler->handler(...): an extra handler answers with its own name.
DeviceRead(device, a) ==
    CASE device = "cmos" -> cmos_read(a)
      [] device = "ps2"  -> ps2_keyboard_read(a)
      [] device = "pit"  -> pit_read
      [] device = "uart" -> uart_read
      [] device = "vga"  -> vga_read
      [] OTHER -> device

\* An access for which no handler is registered.
Unhandled(s) == IF s = "io" THEN "ones" ELSE "zero"

\* The reference: the newest handler that covers the address.
Reference(s, a) ==
    LET c == Chain(s)
        hits == {i \in DOMAIN c : Covers(entry[c[i]], a)}
    IN  IF hits = {} THEN Unhandled(s)
        ELSE DeviceRead(entry[c[CHOOSE i \in hits : \A j \in hits : i <= j]].device, a)

\* io_port_read and mmio_read: the head is read once.
io_port_read(t, s, a) ==
    /\ g_initialized /\ access[t] = Quiet
    /\ access' = [access EXCEPT ![t] =
           [op |-> "walk", space |-> s, addr |-> a, at |-> head[s],
            want |-> Reference(s, a), got |-> "none"]]
    /\ UNCHANGED <<hvVars, listVars, call>>

\* Mutant: takes the end of a range as part of it.
MutWalkInclusive(t) ==
    LET x == access[t] IN
    /\ x.op = "walk"
    /\ access' = [access EXCEPT ![t] =
           IF x.at = NULL
           THEN [x EXCEPT !.op = "done", !.got = Unhandled(x.space)]
           ELSE IF x.addr >= entry[x.at].first /\ x.addr <= entry[x.at].first + entry[x.at].count
           THEN [x EXCEPT !.op = "done", !.got = DeviceRead(entry[x.at].device, x.addr)]
           ELSE [x EXCEPT !.at = next[x.at]]]
    /\ UNCHANGED <<hvVars, listVars, call>>

\* Mutant: starts again from the head at the end of the list.
MutWalkAround(t) ==
    LET x == access[t] IN
    /\ x.op = "walk"
    /\ access' = [access EXCEPT ![t] =
           IF x.at # NULL /\ Covers(entry[x.at], x.addr)
           THEN [x EXCEPT !.op = "done", !.got = DeviceRead(entry[x.at].device, x.addr)]
           ELSE [x EXCEPT !.at = IF x.at = NULL THEN head[x.space] ELSE next[x.at]]]
    /\ UNCHANGED <<hvVars, listVars, call>>

\* One iteration of the loop: the handler answers, or on to the next entry.
walk(t) ==
    LET x == access[t] IN
    /\ x.op = "walk"
    /\ access' = [access EXCEPT ![t] =
           IF x.at = NULL
           THEN [x EXCEPT !.op = "done", !.got = Unhandled(x.space)]
           ELSE IF Covers(entry[x.at], x.addr)
           THEN [x EXCEPT !.op = "done", !.got = DeviceRead(entry[x.at].device, x.addr)]
           ELSE [x EXCEPT !.at = next[x.at]]]
    /\ UNCHANGED <<hvVars, listVars, call>>

access_returns(t) ==
    /\ access[t].op = "done"
    /\ access' = [access EXCEPT ![t] = Quiet]
    /\ UNCHANGED <<hvVars, listVars, call>>

Next ==
    \/ hypervisor_init \/ scheduler_init \/ hypercall_init \/ ept_init
    \/ io_emul_init \/ register_default \/ init_returns \/ hypervisor_shutdown
    \/ \E s \in Space : \E h \in Extra[s] : io_register_handler(s, h)
    \/ register_publish
    \/ \E h \in Handler : io_unregister_handler(h.first)
    \/ \E t \in Thread : \/ \E s \in Space : \E a \in Address[s] : io_port_read(t, s, a)
                         \/ walk(t) \/ access_returns(t)

Spec == Init /\ [][Next]_vars /\ \A t \in Thread : WF_vars(walk(t) \/ access_returns(t))

-----------------------------------------------------------------------------
(* Properties.                                                             *)

\* A read gets the answer of the newest handler that covered its address when
\* the list was entered, or the default, whatever is registered meanwhile.
DispatchNewest == \A t \in Thread : access[t].op = "done" => access[t].got = access[t].want

\* All or nothing: between calls the hypervisor is up with every subsystem, or
\* it is down with none, no structure and no handler entry left allocated,
\* whichever step of hypervisor_init failed and however often it went round.
AllOrNothing ==
    call = Idle =>
        IF g_initialized
        THEN /\ g_hypervisor /\ up = Subsystem
             /\ allocated = Linked("io") \cup Linked("mmio")
        ELSE ~g_hypervisor /\ up = {} /\ allocated = {}

\* Every access ends.
AccessEnds == \A t \in Thread : access[t].op = "walk" ~> access[t].op = "done"

\* The linked entries implement the sequences of HandlerTable.
Table == INSTANCE HandlerTable WITH
    table <- [s \in Space |->
                 IF "io" \in up /\ call.op # "io"
                 THEN [i \in DOMAIN Chain(s) |-> entry[Chain(s)[i]]] ELSE << >>]
RefinesHandlerTable == Table!Spec
=============================================================================
