----------------------------- MODULE MCSeccomp ----------------------------
(* Constants of the runs about the filters: all calls that one of them     *)
(* lists, calls that none does, and a foreign architecture.                *)
EXTENDS Seccomp, SeccompLists

AllCalls == UNION {{FilterLists[s][i] : i \in DOMAIN FilterLists[s]} : s \in Servers}
            \cup PerrorCalls \cup {"exit_group", "ptrace", "kexec_load"}
===========================================================================
