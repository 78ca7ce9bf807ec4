------------------------------ MODULE Seccomp -----------------------------
(***************************************************************************)
(* sec.c: a launcher that installs the seccomp filter of a server and then *)
(* becomes the server, and the kernel that runs the filter, instruction by *)
(* instruction, at every system call from then on.                         *)
(*                                                                         *)
(* A system call number and an architecture word are model values.  A      *)
(* filter is known by its list of allowed calls and by where it loads the  *)
(* number; SeccompLists has the lists of the code.  One thread: children   *)
(* inherit the filter, and SECCOMP_RET_KILL only ends the thread itself.   *)
(***************************************************************************)
EXTENDS Integers, Sequences

CONSTANTS
    Servers,        \* the programs that have a filter
    Listed,         \* the calls that the filter of each of them allows
    LoadsLast,      \* those whose filter loads the number behind the list
    Calls,          \* system call numbers that a thread may use
    Arches,         \* architecture words that the kernel may report
    AUDIT_ARCH_X86_64,
    PerrorCalls,    \* what perror(3) may need
    None

ASSUME SeccompAssumption ==
    /\ None \notin Servers \cup {"SECCOMP_RET_ALLOW", "SECCOMP_RET_KILL"}
    /\ None \notin [arch : Arches, nr : Calls]
    /\ LoadsLast \subseteq Servers
    /\ Listed \in [Servers -> Seq(Calls)]
    /\ AUDIT_ARCH_X86_64 \in Arches
    /\ {"execve", "exit_group"} \cup PerrorCalls \subseteq Calls

---------------------------------------------------------------------------
(* Instructions of the classic BPF machine.                                *)
Load(field)        == [code |-> "BPF_LD", k |-> field, jt |-> 0, jf |-> 0]
JumpEq(k, jt, jf)  == [code |-> "BPF_JEQ", k |-> k, jt |-> jt, jf |-> jf]
Ret(action)        == [code |-> "BPF_RET", k |-> action, jt |-> 0, jf |-> 0]

(* "validate arch", the head of each filter.                               *)
ValidateArch ==
    <<Load("arch"), JumpEq(AUDIT_ARCH_X86_64, 1, 0), Ret("SECCOMP_RET_KILL")>>

(* A bug to catch: the two branches are swapped.                           *)
AllowOthers(list) ==
    [i \in 1 .. 2 * Len(list) |->
       IF i % 2 = 1 THEN JumpEq(list[(i + 1) \div 2], 1, 0) ELSE Ret("SECCOMP_RET_ALLOW")]

(* Allow(syscall) for each call of the list: a test and a return.          *)
AllowAll(list) ==
    [i \in 1 .. 2 * Len(list) |->
       IF i % 2 = 1 THEN JumpEq(list[(i + 1) \div 2], 0, 1) ELSE Ret("SECCOMP_RET_ALLOW")]

(* A bug to catch: nothing behind the list.                                *)
FilterWithoutEnd(s) ==
    ValidateArch \o (IF s \in LoadsLast THEN AllowAll(Listed[s]) \o <<Load("nr")>>
                     ELSE <<Load("nr")>> \o AllowAll(Listed[s]))

Filter(s) ==
    ValidateArch
    \o (IF s \in LoadsLast THEN AllowAll(Listed[s]) \o <<Load("nr")>>
        ELSE <<Load("nr")>> \o AllowAll(Listed[s]))
    \o <<Ret("SECCOMP_RET_KILL")>>

---------------------------------------------------------------------------
VARIABLES
    server,     \* the server that argv[1] names, or None
    at,         \* where main is, or what became of it
    noNewPrivs, \* PR_SET_NO_NEW_PRIVS
    filter,     \* the filter that the kernel runs, or <<>>
    call,       \* the system call that was entered last, or None
    A, pc,      \* the machine's accumulator, and its next instruction
    verdict     \* what the filter said of call, or None

machine == <<call, A, pc, verdict>>
vars == <<server, at, noNewPrivs, filter, machine>>

Deciding == call # None /\ verdict = None

TypeOK ==
    /\ server \in Servers \cup {None}
    /\ at \in {"main", "no_new_privs", "seccomp", "execvp", "perror", "server", "exited", "killed"}
    /\ noNewPrivs \in BOOLEAN
    /\ filter \in {<<>>} \cup {Filter(s) : s \in Servers}
    /\ call \in [arch : Arches, nr : Calls] \cup {None}
    /\ verdict \in {"SECCOMP_RET_ALLOW", "SECCOMP_RET_KILL", None}
    /\ A \in Arches \cup Calls \cup {None}
    /\ pc \in Nat /\ (Deciding /\ filter # <<>> => pc \in DOMAIN filter)

Init ==
    /\ server \in Servers \cup {None}
    /\ at = "main" /\ noNewPrivs = FALSE /\ filter = <<>>
    /\ call = None /\ A = None /\ pc = 1 /\ verdict = None

(* The choice of the filter by argv[1], or the usage.                      *)
Choose ==
    /\ at = "main"
    /\ at' = IF server = None THEN "exited" ELSE "no_new_privs"
    /\ UNCHANGED <<server, noNewPrivs, filter, machine>>

SetNoNewPrivs(ok) ==
    /\ at = "no_new_privs"
    /\ noNewPrivs' = ok
    /\ at' = IF ok THEN "seccomp" ELSE "exited"
    /\ UNCHANGED <<server, filter, machine>>

(* A bug to catch: a failure is reported, and the server started.          *)
SetSeccompUnchecked(ok) ==
    /\ at = "seccomp"
    /\ filter' = IF ok THEN Filter(server) ELSE <<>>
    /\ at' = "execvp"
    /\ UNCHANGED <<server, noNewPrivs, machine>>

SetSeccomp(ok) ==
    /\ at = "seccomp"
    /\ filter' = IF ok THEN Filter(server) ELSE <<>>
    /\ at' = IF ok THEN "execvp" ELSE "exited"
    /\ UNCHANGED <<server, noNewPrivs, machine>>

(* The thread enters the kernel: execvp(3) for a place of PATH, perror(3)  *)
(* and exit(3) after it failed, or the server for whatever it does.        *)
SystemCall(arch, nr) ==
    /\ ~Deciding
    /\ \/ at = "execvp" /\ arch = AUDIT_ARCH_X86_64 /\ nr = "execve"
       \/ at = "perror" /\ arch = AUDIT_ARCH_X86_64 /\ nr \in PerrorCalls \cup {"exit_group"}
       \/ at = "server"
    /\ call' = [arch |-> arch, nr |-> nr] /\ verdict' = None
    /\ A' = None /\ pc' = 1
    /\ UNCHANGED <<server, at, noNewPrivs, filter>>

(* execvp(3) returns: no place of PATH had the program.  (Without argv[2]  *)
(* glibc's execvp dereferences its null pointer and the launcher ends      *)
(* there, behind the same filter.)                                         *)
ExecFails ==
    /\ at = "execvp" /\ ~Deciding
    /\ at' = "perror"
    /\ UNCHANGED <<server, noNewPrivs, filter, machine>>

---------------------------------------------------------------------------
(* The kernel's machine.                                                   *)
Instruction == filter[pc]
Executes(code) == Deciding /\ filter # <<>> /\ Instruction.code = code

RunLoad ==
    /\ Executes("BPF_LD")
    /\ A' = IF Instruction.k = "arch" THEN call.arch ELSE call.nr
    /\ pc' = pc + 1
    /\ UNCHANGED <<server, at, noNewPrivs, filter, call, verdict>>

RunJump ==
    /\ Executes("BPF_JEQ")
    /\ pc' = pc + 1 + (IF A = Instruction.k THEN Instruction.jt ELSE Instruction.jf)
    /\ UNCHANGED <<server, at, noNewPrivs, filter, call, A, verdict>>

(* What an allowed call makes of the thread.                               *)
After ==
    IF at = "execvp" THEN {"server", "execvp"}
    ELSE IF call.nr \in {"exit", "exit_group"} THEN {"exited"} ELSE {at}

RunRet ==
    /\ Executes("BPF_RET")
    /\ verdict' = Instruction.k
    /\ IF Instruction.k = "SECCOMP_RET_ALLOW" THEN at' \in After ELSE at' = "killed"
    /\ UNCHANGED <<server, noNewPrivs, filter, call, A, pc>>

Next ==
    \/ Choose \/ ExecFails
    \/ \E ok \in BOOLEAN : SetNoNewPrivs(ok) \/ SetSeccomp(ok)
    \/ \E arch \in Arches, nr \in Calls : SystemCall(arch, nr)
    \/ RunLoad \/ RunJump \/ RunRet

Spec == Init /\ [][Next]_vars

---------------------------------------------------------------------------
(* "validate arch" and "if we don't match above, die": of the calls that a *)
(* thread makes under a filter, those that pass are the ones of its list,  *)
(* made for the architecture whose numbers the list means; a filter that   *)
(* loads the number last has nothing to compare with the list.             *)
ListedFor(s, c) ==
    c.arch = AUDIT_ARCH_X86_64 /\ \E i \in DOMAIN Listed[s] : Listed[s][i] = c.nr

AllowedIffListed ==
    verdict # None /\ server \notin LoadsLast =>
      (verdict = "SECCOMP_RET_ALLOW" <=> ListedFor(server, call))

(* Nothing is executed outside of the server's filter, whichever of the    *)
(* steps before it fails.                                                  *)
Confined ==
    at \in {"execvp", "perror", "server"} => noNewPrivs /\ filter = Filter(server)

(* "Execute the specified program with its arguments" (sec.c:310): the     *)
(* filter does not end the launcher at the call that does so.              *)
ProgramExecuted ==
    at = "killed" => ~(call.arch = AUDIT_ARCH_X86_64 /\ call.nr = "execve")
===========================================================================
