----------------------------- MODULE CodeKernel -----------------------------
(***************************************************************************)
(* Session kernels (code_kernel.py): interpreters that outlive the cells   *)
(* run in them.  Threads that execute cells share the kernel of their key  *)
(* through a registry whose lock guards the table and the attachments; the *)
(* lock of a kernel lets one cell in at a time.  A kernel goes when a cell *)
(* ends badly, asks for a reset or exits, when its session is cleared, or, *)
(* if nobody is attached, when it is idle or one too many.                 *)
(***************************************************************************)
EXTENDS Integers, Sequences, FiniteSets

LOCAL INSTANCE FiniteSetsExt

CONSTANTS
  Cell,        \* calls of execute_in_session_kernel; a kernel is named for the one that made it
  KernelKey,   \* (owner, mode, python, cwd, tools)
  OwnerOf,     \* OwnerOf[k]: the owner in key k
  MaxKernels,  \* max_session_kernels
  NoKernel     \* None

ASSUME KernelAssumption ==
  /\ IsFiniteSet(Cell) /\ NoKernel \notin Cell
  /\ DOMAIN OwnerOf = KernelKey /\ MaxKernels \in Nat \ {0}

CellStatus == {"ok", "exit", "protocol-error"}
Eof == [status |-> "kernel-eof"]

VARIABLES
  registered,  \* _KERNELS
  older,       \* pairs of kernels: the last_used of the first is the smaller
  proc,        \* proc[n]: the process of kernel n
  attached,    \* attached[n]
  stdin,       \* stdin[n]: cells written to the process and not yet run
  responses,   \* responses[n]: response_q, with what is in the pipe before it
  cellPc,      \* where each call is
  used,        \* used[x]: the kernel x is attached to
  doomed,      \* doomed[x]: kernels x took out of the table to tear down
  reply,       \* reply[x]: the cell whose reply x returns, if any
  closing      \* kernels a clearing of a session took out to tear down

kernelVars == <<registered, older, proc, attached, stdin, responses, cellPc, used, doomed,
                reply, closing>>

\* Where a cell holds the lock of its kernel, and where else it may be.
Inside == {"entered", "spawned", "awaiting", "dropping", "killing", "settled"}
CellPc == {"new", "called", "leaving", "burying", "returned"} \cup Inside

KernelTypeOK ==
  /\ registered \in [KernelKey -> Cell \cup {NoKernel}]
  /\ older \subseteq Cell \X Cell /\ closing \subseteq Cell
  /\ proc \in [Cell -> {"none", "live", "exited"}]
  /\ attached \in [Cell -> Nat]
  /\ stdin \in [Cell -> Seq(Cell)]
  /\ responses \in [Cell -> Seq({Eof} \cup [cell : Cell, status : CellStatus])]
  /\ cellPc \in [Cell -> CellPc] /\ used \in [Cell -> Cell \cup {NoKernel}]
  /\ doomed \in [Cell -> SUBSET Cell] /\ reply \in [Cell -> SUBSET Cell]

KernelInit ==
  /\ registered = [k \in KernelKey |-> NoKernel] /\ older = {} /\ closing = {}
  /\ proc = [n \in Cell |-> "none"] /\ attached = [n \in Cell |-> 0]
  /\ stdin = [n \in Cell |-> <<>>] /\ responses = [n \in Cell |-> <<>>]
  /\ cellPc = [x \in Cell |-> "new"] /\ used = [x \in Cell |-> NoKernel]
  /\ doomed = [x \in Cell |-> {}] /\ reply = [x \in Cell |-> {}]

At(x, from, to) == cellPc[x] = from /\ cellPc' = [cellPc EXCEPT ![x] = to]

InTable(table) == {table[k] : k \in KernelKey} \ {NoKernel}
Without(table, gone) == [k \in KernelKey |-> IF table[k] \in gone THEN NoKernel ELSE table[k]]

\* Kernel n has been used last of those in the table.
Touch(n, table) ==
  {p \in older : {p[1], p[2]} \subseteq InTable(table) \ {n}} \cup ((InTable(table) \ {n}) \X {n})

\* Unattached kernels of the table, and the sets of some of them that were
\* used before the others.  (Mutant of Unattached: whoever is in the table.)
UnattachedOrNot(table) == InTable(table)
Unattached(table) == {n \in InTable(table) : attached[n] = 0}
LongestUnused(among) ==
  {old \in SUBSET among : \A n \in old : \A o \in among \ old : <<n, o>> \in older}

\* The process ends, by itself or killed: its reader reports the end of its
\* output after what was written before.
Exited(n) ==
  /\ proc' = [proc EXCEPT ![n] = "exited"]
  /\ stdin' = [stdin EXCEPT ![n] = <<>>]
  /\ responses' = [responses EXCEPT ![n] = Append(@, Eof)]

\* SessionKernel.teardown; a kernel that was never spawned has no process.  The code
\* does not wait for the killed process to be gone; it runs no more code here.
Teardown(n) == IF proc[n] = "live" THEN Exited(n) ELSE UNCHANGED <<proc, stdin, responses>>

\* _acquire_kernel, the section under the lock of the registry.  Time is not
\* counted: any number of unattached kernels, the longest unused ones, have
\* been idle for longer than the timeout.
AcquireKernel(x, key, reset, idle) ==
  LET swept == Without(registered, idle)
      found == swept[key]
      stale == found # NoKernel /\ (reset \/ proc[found] = "exited")
      kernel == IF found = NoKernel \/ stale THEN x ELSE found
      table == [swept EXCEPT ![key] = kernel]
      dropped == {n \in {found} : stale /\ attached[n] = 0}
      candidates == Unattached(table) \ {kernel}
      surplus == Max({0, Cardinality(InTable(table)) - MaxKernels})
  IN  /\ At(x, "new", "called") /\ idle \in LongestUnused(Unattached(registered))
      /\ \E evicted \in LongestUnused(candidates) :
           /\ Cardinality(evicted) = Min({surplus, Cardinality(candidates)})
           /\ registered' = Without(table, evicted)
           /\ doomed' = [doomed EXCEPT ![x] = idle \cup dropped \cup evicted]
      /\ older' = Touch(kernel, registered') /\ used' = [used EXCEPT ![x] = kernel]
      /\ attached' = [attached EXCEPT ![kernel] = @ + 1]
      /\ UNCHANGED <<proc, stdin, responses, reply, closing>>

\* _acquire_kernel, after the lock: one of the doomed kernels is torn down.
Reap(x, n) ==
  /\ n \in doomed[x] /\ Teardown(n)
  /\ doomed' = [doomed EXCEPT ![x] = @ \ {n}]
  /\ UNCHANGED <<registered, older, attached, cellPc, used, reply, closing>>

\* _run_cell: with kernel.lock, when the doomed kernels are gone.
EnterKernel(x) ==
  /\ At(x, "called", "entered") /\ doomed[x] = {}
  /\ \A y \in Cell : ~(used[y] = used[x] /\ cellPc[y] \in Inside)
  /\ UNCHANGED <<registered, older, proc, attached, stdin, responses, used, doomed, reply, closing>>

\* _spawn, which may raise before or after the process has started.
SpawnKernel(x) ==
  /\ cellPc[x] = "entered" /\ proc[used[x]] = "none"
  /\ \/ At(x, "entered", "spawned") /\ proc' = [proc EXCEPT ![used[x]] = "live"]
     \/ At(x, "entered", "dropping") /\ proc' = [proc EXCEPT ![used[x]] = "live"]
     \/ At(x, "entered", "dropping") /\ UNCHANGED proc
  /\ UNCHANGED <<registered, older, attached, stdin, responses, used, doomed, reply, closing>>

\* _run_cell: the code is written to the process; a pipe without a reader raises.
WriteCell(x) ==
  /\ cellPc[x] \in {"entered", "spawned"} /\ proc[used[x]] # "none"
  /\ IF proc[used[x]] = "live"
     THEN /\ cellPc' = [cellPc EXCEPT ![x] = "awaiting"]
          /\ stdin' = [stdin EXCEPT ![used[x]] = Append(@, x)]
     ELSE /\ cellPc' = [cellPc EXCEPT ![x] = "dropping"]
          /\ UNCHANGED stdin
  /\ UNCHANGED <<registered, older, proc, attached, responses, used, doomed, reply, closing>>

\* The process runs the next cell and replies; code that writes to the
\* descriptor of stdout may spoil the frame.
Reply(n, status) ==
  /\ proc[n] = "live" /\ stdin[n] # <<>>
  /\ stdin' = [stdin EXCEPT ![n] = Tail(@)]
  /\ responses' = [responses EXCEPT ![n] = Append(@, [cell |-> Head(stdin[n]), status |-> status])]
  /\ UNCHANGED <<registered, older, proc, attached, cellPc, used, doomed, reply, closing>>

\* The process ends by itself.
Dies(n) ==
  /\ proc[n] = "live" /\ Exited(n)
  /\ UNCHANGED <<registered, older, attached, cellPc, used, doomed, reply, closing>>

\* _await_cell and _cell_result: a reply; the kernel goes with it when the
\* cell exited or the protocol broke.
Receive(x) ==
  LET n == used[x]
      got == Head(responses[n])
  IN  /\ cellPc[x] = "awaiting" /\ responses[n] # <<>>
      /\ responses' = [responses EXCEPT ![n] = Tail(@)]
      /\ At(x, "awaiting", IF got.status = "ok" THEN "settled" ELSE "dropping")
      /\ reply' = [reply EXCEPT ![x] = IF got.status \in {"ok", "exit"} THEN {got.cell} ELSE {}]
      /\ UNCHANGED <<registered, older, proc, attached, stdin, used, doomed, closing>>

\* Mutant of GiveUp: the cell is left alone and its kernel stays.
GiveUpInPlace(x) ==
  /\ At(x, "awaiting", "settled")
  /\ UNCHANGED <<registered, older, proc, attached, stdin, responses, used, doomed, reply, closing>>

\* _await_cell: the cell timed out or was interrupted.
GiveUp(x) ==
  /\ At(x, "awaiting", "dropping")
  /\ UNCHANGED <<registered, older, proc, attached, stdin, responses, used, doomed, reply, closing>>

\* KernelRegistry.discard: the entry goes if it is still this kernel's, then the kernel.
Drop(x) ==
  /\ At(x, "dropping", "killing")
  /\ registered' = Without(registered, {used[x]})
  /\ UNCHANGED <<older, proc, attached, stdin, responses, used, doomed, reply, closing>>

Discarded(x) ==
  /\ At(x, "killing", "settled") /\ Teardown(used[x])
  /\ UNCHANGED <<registered, older, attached, used, doomed, reply, closing>>

\* _run_cell leaves the lock of the kernel.
ReleaseKernel(x) ==
  /\ At(x, "settled", "leaving")
  /\ UNCHANGED <<registered, older, proc, attached, stdin, responses, used, doomed, reply, closing>>

\* execute_in_session_kernel: the kernel was dropped while cells were
\* attached, and the last one has left.
Orphaned(n) == attached[n] = 1 /\ n \notin InTable(registered)

LeaveKernel(x) ==
  LET n == used[x]
  IN  /\ cellPc[x] = "leaving"
      /\ attached' = [attached EXCEPT ![n] = @ - 1] /\ older' = Touch(n, registered)
      /\ At(x, "leaving", IF Orphaned(n) THEN "burying" ELSE "returned")
      /\ UNCHANGED <<registered, proc, stdin, responses, used, doomed, reply, closing>>

Bury(x) ==
  /\ At(x, "burying", "returned") /\ Teardown(used[x])
  /\ UNCHANGED <<registered, older, attached, used, doomed, reply, closing>>

\* KernelRegistry.shutdown: every kernel of the owners, attached or not.
CloseOwners(owners) ==
  LET theirs == {registered[k] : k \in {j \in KernelKey : OwnerOf[j] \in owners}} \ {NoKernel}
  IN  /\ theirs # {} /\ closing' = closing \cup theirs
      /\ registered' = Without(registered, theirs)
      /\ UNCHANGED <<older, proc, attached, stdin, responses, cellPc, used, doomed, reply>>

Close(n) ==
  /\ n \in closing /\ closing' = closing \ {n} /\ Teardown(n)
  /\ UNCHANGED <<registered, older, attached, cellPc, used, doomed, reply>>

CellNext(x) ==
  \/ \E key \in KernelKey : \E reset \in BOOLEAN : \E idle \in SUBSET Cell :
       AcquireKernel(x, key, reset, idle)
  \/ \E n \in doomed[x] : Reap(x, n)
  \/ EnterKernel(x) \/ SpawnKernel(x) \/ WriteCell(x) \/ Receive(x) \/ GiveUp(x)
  \/ Drop(x) \/ Discarded(x) \/ ReleaseKernel(x) \/ LeaveKernel(x) \/ Bury(x)

KernelNext ==
  \/ \E x \in Cell : CellNext(x)
  \/ \E n \in Cell : Dies(n) \/ Close(n) \/ \E status \in CellStatus : Reply(n, status)
  \/ \E owners \in {{OwnerOf[k]} : k \in KernelKey} \cup {{OwnerOf[k] : k \in KernelKey}} :
       CloseOwners(owners)

KernelSpec == KernelInit /\ [][KernelNext]_kernelVars

\* Those who still have to tear kernel n down, or to leave it.
Owned(n) ==
  \/ n \in InTable(registered) \/ n \in closing \/ attached[n] > 0
  \/ \E x \in Cell : n \in doomed[x] \/ (cellPc[x] = "burying" /\ used[x] = n)

\* No interpreter is left running that nobody will stop: a live process is in
\* the table, has a cell attached, or is about to be torn down by a thread that
\* took it out (the orphan of code_kernel.py:761-766, dead() at 330-334); and
\* what a sweep has taken out has no cell attached, nor ever gets one.
KernelsOwned ==
  /\ \A n \in Cell : proc[n] = "live" => Owned(n)
  /\ \A x \in Cell : \A n \in doomed[x] : attached[n] = 0

\* A cell returns the reply of its own code, never that of a cell that had the
\* kernel before it and was given up (_cell_result, code_kernel.py:689-691).
OwnReply == \A x \in Cell : reply[x] \subseteq {x}

=============================================================================
