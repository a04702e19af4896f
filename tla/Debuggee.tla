------------------------------ MODULE Debuggee ------------------------------
(***************************************************************************)
(* The traced process as the debugger can observe it: its text, its        *)
(* instruction pointer and its ptrace state.  The kernel and the CPU are   *)
(* not under src/; they are modelled from the requests the debugger makes  *)
(* (PTRACE_PEEKTEXT, POKETEXT, GETREGS, SETREGS, SINGLESTEP, CONT,         *)
(* SYSCALL, waitpid, kill).                                                *)
(*                                                                         *)
(* Text is a small array of bytes.  A ptrace word is WordSize bytes (eight *)
(* in the code): what matters is that a word spans several instructions.   *)
(* An instruction is the range of bytes it occupies, and the program is    *)
(* the graph Succ of the instructions that may follow each of them.        *)
(***************************************************************************)
EXTENDS Integers

CONSTANTS TextSize,     \* number of bytes of text
          WordSize,     \* bytes of a ptrace word
          Image,        \* the text as loaded: [Addr -> Byte]
          InsnLen,      \* length in bytes of the instruction at each start
          Succ,         \* the instructions that may execute next
          Syscalls,     \* the instructions that enter the kernel
          Exits,        \* the system calls that end the process
          Faults,       \* the instructions that may raise a fatal signal
          Entry,        \* where execution starts
          MaxSignals    \* bound: signals sent to the process from outside

Addr    == 0 .. TextSize - 1
Byte    == 0 .. 255
Offsets == 0 .. WordSize - 1
Word    == [Offsets -> Byte]
Insns   == DOMAIN InsnLen
INT3    == 204

(* The bytes of the instruction that starts at i.                          *)
BytesOf(i) == i .. i + InsnLen[i] - 1

ASSUME SizeAssumption == TextSize \in Nat \ {0} /\ WordSize \in Nat \ {0}
ASSUME ImageAssumption == Image \in [Addr -> Byte]
ASSUME InsnAssumption ==
  /\ Insns \subseteq Addr
  /\ \A i \in Insns : InsnLen[i] \in Nat \ {0} /\ BytesOf(i) \subseteq Addr
(* No instruction starts within another one, so that a breakpoint at the   *)
(* one does not tear the other.                                            *)
ASSUME DisjointAssumption == \A i, j \in Insns : i # j => j \notin BytesOf(i)
ASSUME ControlAssumption ==
  /\ Succ \in [Insns -> SUBSET Insns]
  /\ Exits \subseteq Syscalls /\ Syscalls \subseteq Insns /\ Faults \subseteq Insns
  /\ Entry \in Insns
(* The program has no int3 of its own, and a system call falls through.    *)
ASSUME ProgramAssumption ==
  /\ \A i \in Insns : Image[i] # INT3
  /\ \A i \in Insns \ Exits : Succ[i] # {}
  /\ \A i \in Syscalls \ Exits : Succ[i] = {i + InsnLen[i]}
ASSUME SignalAssumption == MaxSignals \in Nat

NoSyscall == -1

VARIABLES mem,      \* the text of the process: [Addr -> Byte]
          rip,      \* the instruction pointer
          tstate,   \* ptrace state of the process
          why,      \* what the last stop reported
          syscall,  \* the system call stopped at its entry, or NoSyscall
          signals   \* signals sent so far

tracee == <<mem, rip, tstate, why, syscall, signals>>

(* "running" was resumed by PTRACE_CONT, "tracing" by PTRACE_SYSCALL,      *)
(* "stepping" by PTRACE_SINGLESTEP.  "exited" and "killed" are zombies,    *)
(* "reaped" is a process whose status waitpid has returned.                *)
Resumed == {"running", "tracing", "stepping"}
Alive   == Resumed \cup {"stopped"}
Dead    == {"exited", "killed", "reaped"}

DebuggeeTypeOK ==
  /\ mem \in [Addr -> Byte]
  /\ rip \in 0 .. TextSize
  /\ tstate \in Alive \cup Dead
  /\ why \in {"exec", "none", "int3", "step", "syscall", "signal"}
  /\ syscall \in Insns \cup {NoSyscall}
  /\ signals \in 0 .. MaxSignals

DebuggeeInit ==
  /\ mem = Image
  /\ rip = Entry
  /\ tstate = "stopped"
  /\ why = "exec"
  /\ syscall = NoSyscall
  /\ signals = 0

----------------------------------------------------------------------------
(* ptrace requests.  They succeed on a stopped process, and on the mapped  *)
(* addresses only.                                                         *)

Attached  == tstate = "stopped"
Mapped(a) == a \in Addr /\ a + WordSize - 1 \in Addr

(* PTRACE_PEEKTEXT and PTRACE_POKETEXT of the word at address a.           *)
ReadWord(m, a) == [k \in Offsets |-> m[a + k]]
WriteWord(m, a, w) ==
  [x \in Addr |-> IF x - a \in Offsets THEN w[x - a] ELSE m[x]]

Resume(mode) == tstate' = mode /\ why' = "none"

----------------------------------------------------------------------------
(* One instruction, or the rest of a system call.                          *)

Intact(i) == i \in Insns /\ \A x \in BytesOf(i) : mem[x] = Image[x]
AtInt3    == rip \in Addr /\ mem[rip] = INT3
Fetching  == tstate \in Resumed /\ syscall = NoSyscall

Stop(reason) == tstate' = "stopped" /\ why' = reason

(* SIGTRAP after an int3: the instruction pointer is behind the byte.      *)
Trap ==
  /\ Fetching /\ AtInt3
  /\ rip' = rip + 1
  /\ Stop("int3")
  /\ UNCHANGED <<mem, syscall, signals>>

(* An instruction of the program completes.                                *)
Advance ==
  /\ Fetching /\ Intact(rip)
  /\ rip \notin Exits
  /\ ~(tstate = "tracing" /\ rip \in Syscalls)
  /\ rip' \in Succ[rip]
  /\ IF tstate = "stepping" THEN Stop("step") ELSE UNCHANGED <<tstate, why>>
  /\ UNCHANGED <<mem, syscall, signals>>

(* The syscall-enter stop: the instruction pointer is already behind the   *)
(* instruction, the call has not run.                                      *)
EnterSyscall ==
  /\ Fetching /\ Intact(rip)
  /\ tstate = "tracing" /\ rip \in Syscalls
  /\ rip' = rip + InsnLen[rip]
  /\ syscall' = rip
  /\ Stop("syscall")
  /\ UNCHANGED <<mem, signals>>

(* The call runs; under PTRACE_SYSCALL the syscall-exit stop follows.  A   *)
(* process stopped at a system call is never resumed by PTRACE_CONT: the   *)
(* debugger uses one of the two requests for the whole session.            *)
LeaveSyscall ==
  /\ tstate \in Resumed
  /\ syscall \in Syscalls \ Exits
  /\ syscall' = NoSyscall
  /\ \/ tstate = "tracing" /\ Stop("syscall")
     \/ tstate = "stepping" /\ Stop("step")
  /\ UNCHANGED <<mem, rip, signals>>

Terminate ==
  /\ \/ Fetching /\ Intact(rip) /\ rip \in Exits /\ tstate # "tracing"
     \/ tstate \in Resumed /\ syscall \in Exits
  /\ tstate' = "exited"
  /\ UNCHANGED <<mem, rip, why, syscall, signals>>

Fault ==
  /\ Fetching /\ Intact(rip) /\ rip \in Faults
  /\ Stop("signal")
  /\ UNCHANGED <<mem, rip, syscall, signals>>

(* Bytes that are not an instruction of the image: the process goes        *)
(* anywhere, or stops at a fatal signal.                                   *)
Garbled ==
  /\ Fetching /\ ~AtInt3 /\ ~Intact(rip)
  /\ \/ /\ rip' \in Addr
        /\ IF tstate = "stepping" THEN Stop("step") ELSE UNCHANGED <<tstate, why>>
     \/ Stop("signal") /\ UNCHANGED rip
  /\ UNCHANGED <<mem, syscall, signals>>

Execute ==
  \/ Trap \/ Advance \/ EnterSyscall \/ LeaveSyscall
  \/ Terminate \/ Fault \/ Garbled

(* A signal from outside stops the process before its next instruction.    *)
Signal ==
  /\ Fetching
  /\ signals < MaxSignals
  /\ signals' = signals + 1
  /\ Stop("signal")
  /\ UNCHANGED <<mem, rip, syscall>>

(* SIGKILL needs no consent and stops at nothing.                          *)
Kill ==
  /\ tstate \in Alive
  /\ tstate' = "killed"
  /\ UNCHANGED <<mem, rip, why, syscall, signals>>
=============================================================================
