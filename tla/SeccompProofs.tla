--------------------------- MODULE SeccompProofs --------------------------
(* Theorems about the launcher and the filters, for any servers and lists. *)
EXTENDS Seccomp, TLAPS

(* Where the instructions of a filter lie, and that each of them leads to  *)
(* another one or ends the filter.                                         *)
LEMMA AllowAllShape ==
    ASSUME NEW s \in Servers
    PROVE  LET L == Listed[s]  N == AllowAll(L) IN
           /\ L \in Seq(Calls) /\ Len(L) \in Nat
           /\ DOMAIN N = 1 .. 2 * Len(L) /\ Len(N) = 2 * Len(L)
           /\ N \in Seq(UNION {{JumpEq(L[j], 0, 1), Ret("SECCOMP_RET_ALLOW")} : j \in 1 .. Len(L)})
           /\ \A j \in 1 .. Len(L) :
                N[2 * j - 1] = JumpEq(L[j], 0, 1) /\ N[2 * j] = Ret("SECCOMP_RET_ALLOW")
  <1> DEFINE L == Listed[s]
             N == AllowAll(L)
             I == UNION {{JumpEq(L[j], 0, 1), Ret("SECCOMP_RET_ALLOW")} : j \in 1 .. Len(L)}
  <1>1. L \in Seq(Calls) /\ Len(L) \in Nat
    BY SeccompAssumption
  <1>2. DOMAIN N = 1 .. 2 * Len(L) /\ 2 * Len(L) \in Nat
    BY <1>1 DEF AllowAll
  <1>3. ASSUME NEW j \in 1 .. Len(L)
        PROVE  N[2 * j - 1] = JumpEq(L[j], 0, 1) /\ N[2 * j] = Ret("SECCOMP_RET_ALLOW")
    <2>1. /\ 2 * j - 1 \in 1 .. 2 * Len(L) /\ 2 * j \in 1 .. 2 * Len(L)
          /\ (2 * j - 1) % 2 = 1 /\ (2 * j) % 2 = 0 /\ ((2 * j - 1) + 1) \div 2 = j
      BY <1>1
    <2> QED BY <2>1 DEF AllowAll
  <1>4. ASSUME NEW i \in 1 .. 2 * Len(L)
        PROVE  N[i] \in I
    <2>1. PICK j \in 1 .. Len(L) : i = 2 * j - 1 \/ i = 2 * j
      <3>1. /\ (i + 1) \div 2 \in 1 .. Len(L)
            /\ i = 2 * ((i + 1) \div 2) - 1 \/ i = 2 * ((i + 1) \div 2)
        BY <1>1
      <3> QED BY <3>1
    <2>2. N[i] \in {JumpEq(L[j], 0, 1), Ret("SECCOMP_RET_ALLOW")}
      BY <1>3, <2>1
    <2> QED BY <2>2
  <1>5. N = [i \in 1 .. 2 * Len(L) |-> N[i]]
    BY DEF AllowAll
  <1>6. N \in [1 .. 2 * Len(L) -> I]
    BY <1>4, <1>5
  <1>7. N \in Seq(I) /\ Len(N) = 2 * Len(L)
    BY <1>2, <1>6
  <1> QED BY <1>1, <1>2, <1>3, <1>7

(* A filter is its head, the load, the tests and the end, in one order or  *)
(* the other.                                                              *)
LEMMA FilterShape ==
    ASSUME NEW s \in Servers
    PROVE  LET L == Listed[s]  F == Filter(s) IN
           /\ Len(L) \in Nat /\ DOMAIN F = 1 .. 2 * Len(L) + 5
           /\ F[1] = Load("arch") /\ F[2] = JumpEq(AUDIT_ARCH_X86_64, 1, 0)
           /\ F[3] = Ret("SECCOMP_RET_KILL")
           /\ F[2 * Len(L) + 5] = Ret("SECCOMP_RET_KILL")
           /\ s \notin LoadsLast =>
                /\ F[4] = Load("nr")
                /\ \A j \in 1 .. Len(L) :
                     F[2 * j + 3] = JumpEq(L[j], 0, 1) /\ F[2 * j + 4] = Ret("SECCOMP_RET_ALLOW")
           /\ s \in LoadsLast =>
                /\ F[2 * Len(L) + 4] = Load("nr")
                /\ \A j \in 1 .. Len(L) :
                     F[2 * j + 2] = JumpEq(L[j], 0, 1) /\ F[2 * j + 3] = Ret("SECCOMP_RET_ALLOW")
  <1> DEFINE L == Listed[s]
             N == AllowAll(L)
             V == ValidateArch
             E == <<Ret("SECCOMP_RET_KILL")>>
             D == <<Load("nr")>>
             I == UNION {{JumpEq(L[j], 0, 1), Ret("SECCOMP_RET_ALLOW")} : j \in 1 .. Len(L)}
             J == I \cup {Load("arch"), Load("nr"), JumpEq(AUDIT_ARCH_X86_64, 1, 0),
                          Ret("SECCOMP_RET_KILL")}
  <1>1. /\ Len(L) \in Nat /\ DOMAIN N = 1 .. 2 * Len(L) /\ Len(N) = 2 * Len(L)
        /\ N \in Seq(I)
        /\ \A j \in 1 .. Len(L) :
             N[2 * j - 1] = JumpEq(L[j], 0, 1) /\ N[2 * j] = Ret("SECCOMP_RET_ALLOW")
    BY AllowAllShape
  <1>2. /\ V \in Seq(J) /\ Len(V) = 3 /\ V[1] = Load("arch")
        /\ V[2] = JumpEq(AUDIT_ARCH_X86_64, 1, 0) /\ V[3] = Ret("SECCOMP_RET_KILL")
    BY DEF ValidateArch
  <1>3. E \in Seq(J) /\ Len(E) = 1 /\ E[1] = Ret("SECCOMP_RET_KILL")
    OBVIOUS
  <1>4. D \in Seq(J) /\ Len(D) = 1 /\ D[1] = Load("nr")
    OBVIOUS
  <1>5. V \in Seq(J) /\ E \in Seq(J) /\ D \in Seq(J) /\ N \in Seq(J)
    BY <1>1, <1>2, <1>3, <1>4
  <1> HIDE DEF N, V, E, D, I, J
  <1>6. CASE s \notin LoadsLast
    <2> DEFINE M == D \o N
               F == Filter(s)
    <2>1. F = V \o M \o E
      BY <1>6 DEF Filter, N, V, E, D
    <2>2. /\ M \in Seq(J) /\ Len(M) = 2 * Len(L) + 1
          /\ M[1] = Load("nr")
          /\ \A i \in 1 .. 2 * Len(L) : M[i + 1] = N[i]
      <3>0. M = D \o N
        OBVIOUS
      <3> HIDE DEF M
      <3>1. /\ M \in Seq(J) /\ Len(M) = Len(D) + Len(N)
            /\ \A i \in 1 .. Len(D) : M[i] = D[i]
            /\ \A i \in 1 .. Len(N) : M[Len(D) + i] = N[i]
        BY <1>5, <3>0
      <3>2. \A i \in 1 .. 2 * Len(L) : M[1 + i] = N[i]
        BY <3>1, <1>1, <1>4
      <3> QED BY <3>1, <3>2, <1>1, <1>4
    <2>3. /\ DOMAIN F = 1 .. 3 + (2 * Len(L) + 1) + 1
          /\ F[1] = V[1] /\ F[2] = V[2] /\ F[3] = V[3]
          /\ \A i \in 1 .. 2 * Len(L) + 1 : F[3 + i] = M[i]
          /\ F[3 + (2 * Len(L) + 1) + 1] = E[1]
      <3>0. M \in Seq(J)
        BY <2>2
      <3> HIDE DEF L, M, F
      <3>1. /\ DOMAIN F = 1 .. Len(V) + Len(M) + Len(E)
            /\ \A i \in 1 .. Len(V) : F[i] = V[i]
            /\ \A i \in 1 .. Len(M) : F[Len(V) + i] = M[i]
            /\ \A i \in 1 .. Len(E) : F[Len(V) + Len(M) + i] = E[i]
        <4> DEFINE W == V \o M
        <4>0. W = V \o M /\ F = W \o E
          BY <2>1
        <4> HIDE DEF W
        <4>1. /\ W \in Seq(J) /\ Len(W) = Len(V) + Len(M)
              /\ \A i \in 1 .. Len(V) : W[i] = V[i]
              /\ \A i \in 1 .. Len(M) : W[Len(V) + i] = M[i]
          BY <1>5, <3>0, <4>0
        <4>2. /\ F \in Seq(J) /\ Len(F) = Len(W) + Len(E)
              /\ \A i \in 1 .. Len(W) : F[i] = W[i]
              /\ \A i \in 1 .. Len(E) : F[Len(W) + i] = E[i]
          BY <1>5, <4>0, <4>1
        <4>3. Len(V) \in Nat /\ Len(M) \in Nat /\ DOMAIN F = 1 .. Len(F)
          BY <1>2, <2>2, <4>2
        <4> QED BY <4>1, <4>2, <4>3
      <3> QED BY <3>1, <2>2, <1>1, <1>2, <1>3
    <2>4. ASSUME NEW j \in 1 .. Len(L)
          PROVE  F[2 * j + 3] = N[2 * j - 1] /\ F[2 * j + 4] = N[2 * j]
      <3>1. /\ 2 * j - 1 \in 1 .. 2 * Len(L) /\ 2 * j \in 1 .. 2 * Len(L)
            /\ 2 * j \in 1 .. 2 * Len(L) + 1 /\ 2 * j + 1 \in 1 .. 2 * Len(L) + 1
            /\ 2 * j + 3 = 3 + 2 * j /\ 2 * j + 4 = 3 + (2 * j + 1)
            /\ 2 * j = (2 * j - 1) + 1
        BY <1>1
      <3> QED BY <3>1, <2>2, <2>3
    <2>5. F[4] = Load("nr") /\ 3 + (2 * Len(L) + 1) + 1 = 2 * Len(L) + 5
      BY <1>1, <2>2, <2>3
    <2> QED BY <1>1, <1>2, <1>3, <1>6, <2>3, <2>4, <2>5
  <1>7. CASE s \in LoadsLast
    <2> DEFINE M == N \o D
               F == Filter(s)
    <2>1. F = V \o M \o E
      BY <1>7 DEF Filter, N, V, E, D
    <2>2. /\ M \in Seq(J) /\ Len(M) = 2 * Len(L) + 1
          /\ \A i \in 1 .. 2 * Len(L) : M[i] = N[i]
          /\ M[2 * Len(L) + 1] = Load("nr")
      <3>0. M = N \o D
        OBVIOUS
      <3> HIDE DEF M
      <3>1. /\ M \in Seq(J) /\ Len(M) = Len(N) + Len(D)
            /\ \A i \in 1 .. Len(N) : M[i] = N[i]
            /\ \A i \in 1 .. Len(D) : M[Len(N) + i] = D[i]
        BY <1>5, <3>0
      <3> QED BY <3>1, <1>1, <1>4
    <2>3. /\ DOMAIN F = 1 .. 3 + (2 * Len(L) + 1) + 1
          /\ F[1] = V[1] /\ F[2] = V[2] /\ F[3] = V[3]
          /\ \A i \in 1 .. 2 * Len(L) + 1 : F[3 + i] = M[i]
          /\ F[3 + (2 * Len(L) + 1) + 1] = E[1]
      <3>0. M \in Seq(J)
        BY <2>2
      <3> HIDE DEF L, M, F
      <3>1. /\ DOMAIN F = 1 .. Len(V) + Len(M) + Len(E)
            /\ \A i \in 1 .. Len(V) : F[i] = V[i]
            /\ \A i \in 1 .. Len(M) : F[Len(V) + i] = M[i]
            /\ \A i \in 1 .. Len(E) : F[Len(V) + Len(M) + i] = E[i]
        <4> DEFINE W == V \o M
        <4>0. W = V \o M /\ F = W \o E
          BY <2>1
        <4> HIDE DEF W
        <4>1. /\ W \in Seq(J) /\ Len(W) = Len(V) + Len(M)
              /\ \A i \in 1 .. Len(V) : W[i] = V[i]
              /\ \A i \in 1 .. Len(M) : W[Len(V) + i] = M[i]
          BY <1>5, <3>0, <4>0
        <4>2. /\ F \in Seq(J) /\ Len(F) = Len(W) + Len(E)
              /\ \A i \in 1 .. Len(W) : F[i] = W[i]
              /\ \A i \in 1 .. Len(E) : F[Len(W) + i] = E[i]
          BY <1>5, <4>0, <4>1
        <4>3. Len(V) \in Nat /\ Len(M) \in Nat /\ DOMAIN F = 1 .. Len(F)
          BY <1>2, <2>2, <4>2
        <4> QED BY <4>1, <4>2, <4>3
      <3> QED BY <3>1, <2>2, <1>1, <1>2, <1>3
    <2>4. ASSUME NEW j \in 1 .. Len(L)
          PROVE  F[2 * j + 2] = N[2 * j - 1] /\ F[2 * j + 3] = N[2 * j]
      <3>1. /\ 2 * j - 1 \in 1 .. 2 * Len(L) /\ 2 * j \in 1 .. 2 * Len(L)
            /\ 2 * j \in 1 .. 2 * Len(L) + 1 /\ 2 * j - 1 \in 1 .. 2 * Len(L) + 1
            /\ 2 * j + 2 = 3 + (2 * j - 1) /\ 2 * j + 3 = 3 + 2 * j
        BY <1>1
      <3> QED BY <3>1, <2>2, <2>3
    <2>5. F[2 * Len(L) + 4] = Load("nr") /\ 3 + (2 * Len(L) + 1) + 1 = 2 * Len(L) + 5
      <3>1. 2 * Len(L) + 1 \in 1 .. 2 * Len(L) + 1 /\ 2 * Len(L) + 4 = 3 + (2 * Len(L) + 1)
        BY <1>1
      <3> QED BY <3>1, <1>1, <2>2, <2>3
    <2> QED BY <1>1, <1>2, <1>3, <1>7, <2>3, <2>4, <2>5
  <1> QED BY <1>6, <1>7

LEMMA Halved == \A m \in Int : \E q \in Int : m = 2 * q \/ m = 2 * q + 1
  <1> TAKE m \in Int
  <1>1. m \div 2 \in Int /\ (m = 2 * (m \div 2) \/ m = 2 * (m \div 2) + 1)
    OBVIOUS
  <1> QED BY <1>1

(* Every instruction either ends the filter or leads to another one.       *)
LEMMA Instructions ==
    ASSUME NEW s \in Servers, NEW i \in DOMAIN Filter(s)
    PROVE  LET F == Filter(s) IN
           \/ F[i].code = "BPF_RET" /\ F[i].k \in {"SECCOMP_RET_ALLOW", "SECCOMP_RET_KILL"}
           \/ F[i].code = "BPF_LD" /\ i + 1 \in DOMAIN F
           \/ /\ F[i].code = "BPF_JEQ" /\ F[i].jt \in {0, 1} /\ F[i].jf \in {0, 1}
              /\ i + 1 \in DOMAIN F /\ i + 2 \in DOMAIN F
  <1> DEFINE L == Listed[s]
             F == Filter(s)
             Ends  == F[i].code = "BPF_RET" /\ F[i].k \in {"SECCOMP_RET_ALLOW", "SECCOMP_RET_KILL"}
             Loads == F[i].code = "BPF_LD" /\ i + 1 \in DOMAIN F
             Tests == /\ F[i].code = "BPF_JEQ" /\ F[i].jt \in {0, 1} /\ F[i].jf \in {0, 1}
                      /\ i + 1 \in DOMAIN F /\ i + 2 \in DOMAIN F
  <1> SUFFICES Ends \/ Loads \/ Tests
    OBVIOUS
  <1>1. Len(L) \in Nat /\ DOMAIN F = 1 .. 2 * Len(L) + 5 /\ i \in 1 .. 2 * Len(L) + 5
    BY FilterShape
  <1>2. /\ F[1] = Load("arch") /\ F[2] = JumpEq(AUDIT_ARCH_X86_64, 1, 0)
        /\ F[3] = Ret("SECCOMP_RET_KILL") /\ F[2 * Len(L) + 5] = Ret("SECCOMP_RET_KILL")
    BY FilterShape
  <1> HIDE DEF F, L
  <1>3. CASE i \in {1, 2, 3, 2 * Len(L) + 5}
    BY <1>1, <1>2, <1>3 DEF Load, JumpEq, Ret
  <1>4. CASE s \notin LoadsLast /\ i \notin {1, 2, 3, 2 * Len(L) + 5}
    <2>1. /\ F[4] = Load("nr")
          /\ \A j \in 1 .. Len(L) :
               F[2 * j + 3] = JumpEq(L[j], 0, 1) /\ F[2 * j + 4] = Ret("SECCOMP_RET_ALLOW")
      BY <1>4, FilterShape DEF F, L
    <2>2. i = 4 \/ \E j \in 1 .. Len(L) : i = 2 * j + 3 \/ i = 2 * j + 4
      <3>1. PICK q \in Int : i - 3 = 2 * q \/ i - 3 = 2 * q + 1
        <4>1. \A m \in Int : \E q \in Int : m = 2 * q \/ m = 2 * q + 1
          BY Halved
        <4>2. i - 3 \in Int
          BY <1>1
        <4> QED BY <4>1, <4>2
      <3>2. i = 4 \/ q \in 1 .. Len(L)
        BY <1>1, <1>4, <3>1
      <3>3. i = 2 * q + 3 \/ i = 2 * q + 4
        BY <1>1, <3>1
      <3> QED BY <3>2, <3>3
    <2>3. i + 1 \in DOMAIN F
      BY <1>1, <1>4
    <2>4. CASE i = 4
      BY <2>1, <2>3, <2>4 DEF Load
    <2>5. ASSUME NEW j \in 1 .. Len(L), i = 2 * j + 3
          PROVE  Tests
      <3>1. i + 2 \in DOMAIN F
        BY <1>1, <2>5
      <3>2. F[i] = JumpEq(L[j], 0, 1)
        BY <2>1, <2>5
      <3> QED BY <2>3, <3>1, <3>2 DEF JumpEq
    <2>6. ASSUME NEW j \in 1 .. Len(L), i = 2 * j + 4
          PROVE  Ends
      <3>1. F[i] = Ret("SECCOMP_RET_ALLOW")
        BY <2>1, <2>6
      <3> QED BY <3>1 DEF Ret
    <2> QED BY <2>2, <2>4, <2>5, <2>6
  <1>5. CASE s \in LoadsLast /\ i \notin {1, 2, 3, 2 * Len(L) + 5}
    <2>1. /\ F[2 * Len(L) + 4] = Load("nr")
          /\ \A j \in 1 .. Len(L) :
               F[2 * j + 2] = JumpEq(L[j], 0, 1) /\ F[2 * j + 3] = Ret("SECCOMP_RET_ALLOW")
      BY <1>5, FilterShape DEF F, L
    <2>2. i = 2 * Len(L) + 4 \/ \E j \in 1 .. Len(L) : i = 2 * j + 2 \/ i = 2 * j + 3
      <3>1. PICK q \in Int : i - 2 = 2 * q \/ i - 2 = 2 * q + 1
        <4>1. \A m \in Int : \E q \in Int : m = 2 * q \/ m = 2 * q + 1
          BY Halved
        <4>2. i - 2 \in Int
          BY <1>1
        <4> QED BY <4>1, <4>2
      <3>2. i = 2 * Len(L) + 4 \/ q \in 1 .. Len(L)
        BY <1>1, <1>5, <3>1
      <3>3. i = 2 * q + 2 \/ i = 2 * q + 3
        BY <1>1, <3>1
      <3> QED BY <3>2, <3>3
    <2>3. i + 1 \in DOMAIN F
      BY <1>1, <1>5
    <2>4. CASE i = 2 * Len(L) + 4
      BY <2>1, <2>3, <2>4 DEF Load
    <2>5. ASSUME NEW j \in 1 .. Len(L), i = 2 * j + 2
          PROVE  Tests
      <3>1. i + 2 \in DOMAIN F
        BY <1>1, <2>5
      <3>2. F[i] = JumpEq(L[j], 0, 1)
        BY <2>1, <2>5
      <3> QED BY <2>3, <3>1, <3>2 DEF JumpEq
    <2>6. ASSUME NEW j \in 1 .. Len(L), i = 2 * j + 3
          PROVE  Ends
      <3>1. F[i] = Ret("SECCOMP_RET_ALLOW")
        BY <2>1, <2>6
      <3> QED BY <3>1 DEF Ret
    <2> QED BY <2>2, <2>4, <2>5, <2>6
  <1> QED BY <1>3, <1>4, <1>5

---------------------------------------------------------------------------
(* Where main is: what it has done to the process, and whether it makes    *)
(* system calls yet.                                                       *)
Staged ==
    /\ at \notin {"main", "exited"} => server \in Servers
    /\ at = "seccomp" => noNewPrivs
    /\ at \in {"main", "no_new_privs", "seccomp"} => call = None /\ filter = <<>>
    /\ at \in {"execvp", "perror", "server"} => noNewPrivs /\ filter = Filter(server)
    /\ call # None => server \in Servers /\ filter = Filter(server)
    /\ Deciding => at \in {"execvp", "perror", "server"}

TypeInv == TypeOK /\ Staged

LEMMA TypeInit == Init => TypeInv
  <1> SUFFICES ASSUME Init
               PROVE  TypeInv
    OBVIOUS
  <1>1. TypeOK
    BY DEF Init, TypeOK, Deciding
  <1>2. Staged
    BY DEF Init, Staged, Deciding
  <1> QED BY <1>1, <1>2 DEF TypeInv

LEMMA TypeNext == TypeInv /\ [Next]_vars => TypeInv'
  <1> SUFFICES ASSUME TypeInv, [Next]_vars
               PROVE  TypeInv'
    OBVIOUS
  <1> USE DEF TypeInv
  <1>1. CASE Choose
    BY <1>1 DEF Choose, TypeOK, Staged, Deciding, machine
  <1>2. CASE ExecFails
    BY <1>2 DEF ExecFails, TypeOK, Staged, Deciding, machine
  <1>3. ASSUME NEW ok \in BOOLEAN, SetNoNewPrivs(ok)
        PROVE  TypeInv'
    BY <1>3 DEF SetNoNewPrivs, TypeOK, Staged, Deciding, machine
  <1>4. ASSUME NEW ok \in BOOLEAN, SetSeccomp(ok)
        PROVE  TypeInv'
    BY <1>4 DEF SetSeccomp, TypeOK, Staged, Deciding, machine
  <1>5. ASSUME NEW arch \in Arches, NEW nr \in Calls, SystemCall(arch, nr)
        PROVE  TypeInv'
    <2>1. server \in Servers /\ filter = Filter(server)
      BY <1>5 DEF SystemCall, Staged
    <2>2. 1 \in DOMAIN filter
      BY <2>1, FilterShape
    <2>3. call' \in [arch : Arches, nr : Calls] /\ call' # None
      BY <1>5, SeccompAssumption DEF SystemCall
    <2> QED BY <1>5, <2>1, <2>2, <2>3 DEF SystemCall, TypeOK, Staged, Deciding
  <1>6. ASSUME RunLoad \/ RunJump \/ RunRet
        PROVE  TypeInv'
    <2>1. /\ Deciding /\ server \in Servers /\ filter = Filter(server)
          /\ pc \in DOMAIN filter /\ at \in {"execvp", "perror", "server"}
          /\ call \in [arch : Arches, nr : Calls] /\ pc \in Nat
      BY <1>6 DEF RunLoad, RunJump, RunRet, Executes, TypeOK, Staged, Deciding
    <2>2. \/ Instruction.code = "BPF_RET" /\ Instruction.k \in {"SECCOMP_RET_ALLOW", "SECCOMP_RET_KILL"}
          \/ Instruction.code = "BPF_LD" /\ pc + 1 \in DOMAIN filter
          \/ /\ Instruction.code = "BPF_JEQ" /\ Instruction.jt \in {0, 1} /\ Instruction.jf \in {0, 1}
             /\ pc + 1 \in DOMAIN filter /\ pc + 2 \in DOMAIN filter
      BY <2>1, Instructions DEF Instruction
    <2>3. CASE RunLoad
      <3>1. pc + 1 \in DOMAIN filter /\ pc + 1 \in Nat
        BY <2>1, <2>2, <2>3 DEF RunLoad, Executes
      <3>2. A' \in Arches \cup Calls
        BY <2>1, <2>3 DEF RunLoad
      <3> QED BY <2>1, <2>3, <3>1, <3>2 DEF RunLoad, TypeOK, Staged, Deciding
    <2>4. CASE RunJump
      <3>1. pc' \in DOMAIN filter /\ pc' \in Nat
        <4>1. /\ Instruction.jt \in {0, 1} /\ Instruction.jf \in {0, 1}
              /\ pc + 1 \in DOMAIN filter /\ pc + 2 \in DOMAIN filter
          BY <2>2, <2>4 DEF RunJump, Executes
        <4>2. pc' = pc + 1 \/ pc' = pc + 2
          <5>1. pc' = pc + 1 + Instruction.jt \/ pc' = pc + 1 + Instruction.jf
            BY <2>4 DEF RunJump
          <5> QED BY <2>1, <4>1, <5>1
        <4> QED BY <2>1, <4>1, <4>2
      <3> QED BY <2>1, <2>4, <3>1 DEF RunJump, TypeOK, Staged, Deciding
    <2>5. CASE RunRet
      <3>1. verdict' \in {"SECCOMP_RET_ALLOW", "SECCOMP_RET_KILL"} /\ verdict' # None
        BY <2>2, <2>5, SeccompAssumption DEF RunRet, Executes
      <3>2. /\ at' \in {"execvp", "perror", "server", "exited", "killed"}
            /\ UNCHANGED <<server, noNewPrivs, filter, call, A, pc>>
        BY <2>1, <2>5 DEF RunRet, After
      <3>3. noNewPrivs
        BY <2>1 DEF Staged
      <3> QED BY <2>1, <3>1, <3>2, <3>3 DEF TypeOK, Staged, Deciding
    <2> QED BY <1>6, <2>3, <2>4, <2>5
  <1>7. CASE UNCHANGED vars
    BY <1>7 DEF vars, machine, TypeOK, Staged, Deciding
  <1> QED BY <1>1, <1>2, <1>3, <1>4, <1>5, <1>6, <1>7 DEF Next

(* The state keeps its types; the machine never runs out of its program.   *)
THEOREM TypeCorrect == Spec => []TypeOK
  <1>1. TypeInv => TypeOK
    BY DEF TypeInv
  <1> QED BY TypeInit, TypeNext, <1>1, PTL DEF Spec

(* Nothing is executed outside of the server's filter (sec.c:300-311).     *)
THEOREM NeverUnconfined == Spec => []Confined
  <1>1. TypeInv => Confined
    BY DEF TypeInv, Staged, Confined
  <1> QED BY TypeInit, TypeNext, <1>1, PTL DEF Spec

---------------------------------------------------------------------------
(* What the machine has found out when it is about to run instruction pc.  *)
Compared ==
    LET L == Listed[server] IN
    Deciding /\ server \notin LoadsLast =>
      /\ pc = 2 => A = call.arch
      /\ pc = 3 => call.arch # AUDIT_ARCH_X86_64
      /\ pc >= 4 => call.arch = AUDIT_ARCH_X86_64
      /\ pc >= 5 => A = call.nr
      /\ \A j \in 1 .. Len(L) :
           /\ 2 * j + 4 < pc => L[j] # call.nr
           /\ 2 * j + 4 = pc => L[j] = call.nr

ListInv == TypeInv /\ Compared /\ AllowedIffListed

LEMMA Fields ==
    /\ \A k : Load(k).code = "BPF_LD" /\ Load(k).k = k
    /\ \A k : Ret(k).code = "BPF_RET" /\ Ret(k).k = k
    /\ \A k, jt, jf : /\ JumpEq(k, jt, jf).code = "BPF_JEQ" /\ JumpEq(k, jt, jf).k = k
                       /\ JumpEq(k, jt, jf).jt = jt /\ JumpEq(k, jt, jf).jf = jf
  BY DEF Load, Ret, JumpEq

(* The instructions of a filter that loads the number before the list.     *)
LEMMA Order ==
    ASSUME NEW s \in Servers \ LoadsLast, NEW i \in DOMAIN Filter(s)
    PROVE  LET L == Listed[s]  F == Filter(s) IN
           /\ Len(L) \in Nat /\ i \in 1 .. 2 * Len(L) + 5
           /\ \/ i = 1 /\ F[i] = Load("arch")
              \/ i = 2 /\ F[i] = JumpEq(AUDIT_ARCH_X86_64, 1, 0)
              \/ i = 3 /\ F[i] = Ret("SECCOMP_RET_KILL")
              \/ i = 4 /\ F[i] = Load("nr")
              \/ \E j \in 1 .. Len(L) : i = 2 * j + 3 /\ F[i] = JumpEq(L[j], 0, 1)
              \/ \E j \in 1 .. Len(L) : i = 2 * j + 4 /\ F[i] = Ret("SECCOMP_RET_ALLOW")
              \/ i = 2 * Len(L) + 5 /\ F[i] = Ret("SECCOMP_RET_KILL")
  <1> DEFINE L == Listed[s]
             F == Filter(s)
  <1>1. /\ Len(L) \in Nat /\ DOMAIN F = 1 .. 2 * Len(L) + 5 /\ i \in 1 .. 2 * Len(L) + 5
        /\ F[1] = Load("arch") /\ F[2] = JumpEq(AUDIT_ARCH_X86_64, 1, 0)
        /\ F[3] = Ret("SECCOMP_RET_KILL") /\ F[4] = Load("nr")
        /\ F[2 * Len(L) + 5] = Ret("SECCOMP_RET_KILL")
        /\ \A j \in 1 .. Len(L) :
             F[2 * j + 3] = JumpEq(L[j], 0, 1) /\ F[2 * j + 4] = Ret("SECCOMP_RET_ALLOW")
    BY FilterShape
  <1> HIDE DEF L, F
  <1>2. PICK q \in Int : i - 3 = 2 * q \/ i - 3 = 2 * q + 1
    <2>1. i - 3 \in Int
      BY <1>1
    <2> QED BY <2>1, Halved
  <1>0. Len(L) \in Nat /\ i \in 1 .. 2 * Len(L) + 5
    BY <1>1
  <1>3. i = 2 * q + 3 \/ i = 2 * q + 4
    BY <1>0, <1>2
  <1>4. i \in {1, 2, 3, 4, 2 * Len(L) + 5} \/ q \in 1 .. Len(L)
    BY <1>0, <1>2
  <1>5. CASE i \in {1, 2, 3, 4, 2 * Len(L) + 5}
    BY <1>1, <1>5 DEF L, F
  <1>6. CASE q \in 1 .. Len(L)
    <2>1. F[2 * q + 3] = JumpEq(L[q], 0, 1) /\ F[2 * q + 4] = Ret("SECCOMP_RET_ALLOW")
      BY <1>1, <1>6
    <2>2. \/ i = 2 * q + 3 /\ F[i] = JumpEq(L[q], 0, 1)
          \/ i = 2 * q + 4 /\ F[i] = Ret("SECCOMP_RET_ALLOW")
      BY <1>3, <2>1
    <2> QED BY <1>1, <1>6, <2>2 DEF L, F
  <1> QED BY <1>4, <1>5, <1>6

LEMMA ListInit == Init => ListInv
  BY TypeInit DEF Init, ListInv, Compared, AllowedIffListed, Deciding

LEMMA ListNext == ListInv /\ [Next]_vars => ListInv'
  <1> SUFFICES ASSUME ListInv, [Next]_vars
               PROVE  Compared' /\ AllowedIffListed'
    BY TypeNext DEF ListInv
  <1> USE DEF ListInv, TypeInv
  <1>1. CASE Choose
    BY <1>1 DEF Choose, Compared, AllowedIffListed, Deciding, machine
  <1>2. CASE ExecFails
    BY <1>2 DEF ExecFails, Compared, AllowedIffListed, Deciding, machine
  <1>3. ASSUME NEW ok \in BOOLEAN, SetNoNewPrivs(ok)
        PROVE  Compared' /\ AllowedIffListed'
    BY <1>3 DEF SetNoNewPrivs, Compared, AllowedIffListed, Deciding, machine
  <1>4. ASSUME NEW ok \in BOOLEAN, SetSeccomp(ok)
        PROVE  Compared' /\ AllowedIffListed'
    BY <1>4 DEF SetSeccomp, Compared, AllowedIffListed, Deciding, machine
  <1>5. ASSUME NEW arch \in Arches, NEW nr \in Calls, SystemCall(arch, nr)
        PROVE  Compared' /\ AllowedIffListed'
    BY <1>5 DEF SystemCall, Compared, AllowedIffListed, Deciding
  <1>6. ASSUME RunLoad \/ RunJump \/ RunRet
        PROVE  Compared' /\ AllowedIffListed'
    <2>1. /\ Deciding /\ server \in Servers /\ filter = Filter(server) /\ pc \in DOMAIN filter
          /\ UNCHANGED <<server, call>>
      BY <1>6 DEF RunLoad, RunJump, RunRet, Executes, TypeOK, Staged, Deciding
    <2>2. CASE server \in LoadsLast
      BY <2>1, <2>2 DEF Compared, AllowedIffListed
    <2>3. CASE server \notin LoadsLast
      <3> DEFINE L == Listed[server]
      <3>1. /\ Len(L) \in Nat /\ pc \in 1 .. 2 * Len(L) + 5
            /\ \/ pc = 1 /\ Instruction = Load("arch")
               \/ pc = 2 /\ Instruction = JumpEq(AUDIT_ARCH_X86_64, 1, 0)
               \/ pc = 3 /\ Instruction = Ret("SECCOMP_RET_KILL")
               \/ pc = 4 /\ Instruction = Load("nr")
               \/ \E j \in 1 .. Len(L) : pc = 2 * j + 3 /\ Instruction = JumpEq(L[j], 0, 1)
               \/ \E j \in 1 .. Len(L) : pc = 2 * j + 4 /\ Instruction = Ret("SECCOMP_RET_ALLOW")
               \/ pc = 2 * Len(L) + 5 /\ Instruction = Ret("SECCOMP_RET_KILL")
        BY <2>1, <2>3, Order DEF Instruction
      <3>2. CASE RunLoad
        <4>1. /\ verdict' = verdict /\ call' = call /\ server' = server /\ pc' = pc + 1
              /\ A' = IF Instruction.k = "arch" THEN call.arch ELSE call.nr
          BY <3>2 DEF RunLoad
        <4>2. (pc = 1 /\ Instruction.k = "arch") \/ (pc = 4 /\ Instruction.k = "nr")
          <5>1. Instruction.code = "BPF_LD"
            BY <3>2 DEF RunLoad, Executes
          <5>2. /\ Instruction # JumpEq(AUDIT_ARCH_X86_64, 1, 0) /\ Instruction # Ret("SECCOMP_RET_KILL")
                /\ Instruction # Ret("SECCOMP_RET_ALLOW") /\ \A j : Instruction # JumpEq(L[j], 0, 1)
            BY <5>1, Fields
          <5>3. (pc = 1 /\ Instruction = Load("arch")) \/ (pc = 4 /\ Instruction = Load("nr"))
            BY <3>1, <5>2
          <5>4. Load("arch").k = "arch" /\ Load("nr").k = "nr"
            BY Fields
          <5> QED BY <5>3, <5>4
        <4>3. AllowedIffListed'
          BY <2>1, <4>1 DEF Deciding, AllowedIffListed
        <4>4. Compared'
          BY <2>1, <2>3, <3>1, <4>1, <4>2 DEF Deciding, Compared
        <4> QED BY <4>3, <4>4
      <3>3. CASE RunJump
        <4>1. /\ verdict' = verdict /\ call' = call /\ server' = server /\ A' = A
              /\ pc' = pc + 1 + (IF A = Instruction.k THEN Instruction.jt ELSE Instruction.jf)
          BY <3>3 DEF RunJump
        <4>2. \/ pc = 2 /\ pc' = (IF A = AUDIT_ARCH_X86_64 THEN 4 ELSE 3)
              \/ \E j \in 1 .. Len(L) :
                   pc = 2 * j + 3 /\ pc' = (IF A = L[j] THEN 2 * j + 4 ELSE 2 * j + 5)
          <5>1. Instruction.code = "BPF_JEQ"
            BY <3>3 DEF RunJump, Executes
          <5>2. CASE pc = 2 /\ Instruction = JumpEq(AUDIT_ARCH_X86_64, 1, 0)
            BY <4>1, <5>2, Fields
          <5>3. ASSUME NEW j \in 1 .. Len(L), pc = 2 * j + 3, Instruction = JumpEq(L[j], 0, 1)
                PROVE  pc' = (IF A = L[j] THEN 2 * j + 4 ELSE 2 * j + 5)
            BY <4>1, <5>3, Fields
          <5> QED BY <3>1, <5>1, <5>2, <5>3, Fields
        <4>3. AllowedIffListed'
          BY <2>1, <4>1 DEF Deciding, AllowedIffListed
        <4>4. Compared'
          BY <2>1, <2>3, <3>1, <4>1, <4>2 DEF Deciding, Compared
        <4> QED BY <4>3, <4>4
      <3>4. CASE RunRet
        <4>1. verdict' = Instruction.k /\ call' = call /\ server' = server
          BY <3>4 DEF RunRet
        <4>2. verdict' \in {"SECCOMP_RET_ALLOW", "SECCOMP_RET_KILL"} /\ verdict' # None
          BY <3>1, <3>4, <4>1, SeccompAssumption DEF RunRet, Executes, Load, JumpEq, Ret
        <4>3. Compared'
          BY <4>2 DEF Compared, Deciding
        <4>4. \/ pc = 3 /\ verdict' = "SECCOMP_RET_KILL"
              \/ \E j \in 1 .. Len(L) : pc = 2 * j + 4 /\ verdict' = "SECCOMP_RET_ALLOW"
              \/ pc = 2 * Len(L) + 5 /\ verdict' = "SECCOMP_RET_KILL"
          BY <3>1, <3>4, <4>1 DEF RunRet, Executes, Load, JumpEq, Ret
        <4>5. DOMAIN L = 1 .. Len(L)
          BY <2>1, SeccompAssumption
        <4>6. verdict' = "SECCOMP_RET_ALLOW" <=> ListedFor(server, call)
          BY <2>1, <2>3, <3>1, <4>4, <4>5 DEF ListedFor, Compared
        <4>7. AllowedIffListed'
          BY <4>1, <4>6 DEF AllowedIffListed, ListedFor
        <4> QED BY <4>3, <4>7
      <3> QED BY <1>6, <3>2, <3>3, <3>4
    <2> QED BY <2>2, <2>3
  <1>7. CASE UNCHANGED vars
    BY <1>7 DEF vars, machine, Compared, AllowedIffListed, Deciding, ListedFor
  <1> QED BY <1>1, <1>2, <1>3, <1>4, <1>5, <1>6, <1>7 DEF Next

(* "validate arch" and "if we don't match above, die": whatever the list   *)
(* of a filter that loads the number first, it allows the calls of the     *)
(* list, from the architecture it is for, and no other.                    *)
THEOREM ListDecides == Spec => []AllowedIffListed
  <1>1. ListInv => AllowedIffListed
    BY DEF ListInv
  <1> QED BY ListInit, ListNext, <1>1, PTL DEF Spec
===========================================================================
