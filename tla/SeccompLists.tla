---------------------------- MODULE SeccompLists --------------------------
(* The calls that the four filters of sec.c allow, in their order.         *)
EXTENDS Sequences, TLC

lighttpd_filter ==
    <<"execve", "brk", "arch_prctl", "mmap", "access", "openat",
      "newfstatat", "close", "read", "pread64", "set_tid_address",
      "set_robust_list", "rseq", "mprotect", "prlimit64", "munmap",
      "getuid", "getrandom", "lseek", "getcwd", "getpid", "dup2",
      "socket", "fcntl", "setsockopt", "bind", "listen", "rt_sigaction",
      "getgid", "write", "epoll_create1", "epoll_ctl", "pipe2",
      "epoll_wait", "sysinfo", "accept4", "getsockopt", "shutdown",
      "recvfrom", "writev", "rt_sigreturn", "exit_group">>

nginx_filter ==
    <<"execve", "brk", "arch_prctl", "mmap", "access", "openat",
      "newfstatat", "close", "read", "mprotect", "pread64",
      "set_tid_address", "set_robust_list", "rseq", "prlimit64", "munmap",
      "getrandom", "lseek", "getpid", "getppid", "futex", "sysinfo",
      "uname", "epoll_create", "geteuid", "socket", "connect", "mkdir",
      "fcntl", "setsockopt", "ioctl", "bind", "listen", "rt_sigaction",
      "pwrite64", "dup2", "rt_sigprocmask", "socketpair", "clone",
      "rt_sigsuspend", "setgid", "setgroups", "setuid", "prctl",
      "eventfd2", "epoll_ctl", "epoll_wait", "accept4", "recvfrom",
      "gettid", "write", "writev", "rt_sigreturn", "sendmsg", "setitimer",
      "exit_group", "wait4", "unlink">>

memcached_filter ==
    <<"execve", "brk", "arch_prctl", "mmap", "access", "openat",
      "newfstatat", "close", "read", "mprotect", "pread64",
      "set_tid_address", "set_robust_list", "rseq", "prlimit64", "munmap",
      "getrandom", "rt_sigaction", "getuid", "socket", "connect", "lseek",
      "setgroups", "setgid", "setuid", "geteuid", "getgid", "getegid",
      "epoll_create1", "pipe2", "rt_sigprocmask", "clone3", "dup",
      "futex", "eventfd2", "epoll_ctl", "epoll_wait", "fcntl",
      "clock_nanosleep", "setsockopt", "bind", "listen", "accept4",
      "write", "getpeername", "sendmsg", "rt_sigreturn", "madvise",
      "exit", "exit_group">>

redis_filter ==
    <<"execve", "brk", "arch_prctl", "mmap", "access", "openat",
      "newfstatat", "close", "read", "munmap", "mprotect", "pread64",
      "set_tid_address", "set_robust_list", "rseq", "prlimit64",
      "readlink", "open", "madvise", "prctl", "lseek", "getpid", "umask",
      "ioctl", "pipe2", "fcntl", "futex", "sysinfo", "chdir", "clone",
      "setsid", "dup2", "exit_group", "write", "rt_sigaction",
      "epoll_create", "socket", "setsockopt", "bind", "listen",
      "epoll_ctl", "rt_sigprocmask", "clone3", "epoll_wait", "accept">>

FilterLists == ("lighttpd" :> lighttpd_filter) @@ ("nginx" :> nginx_filter)
               @@ ("memcached" :> memcached_filter) @@ ("redis" :> redis_filter)
===========================================================================
