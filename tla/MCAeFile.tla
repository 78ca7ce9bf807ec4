----------------------------- MODULE MCAeFile -----------------------------
(* Values for the constants of AeFile: a descriptor is idle, readable,     *)
(* failed, or readable, writable and hung up.                              *)
EXTENDS AeFile

FewReady == {{}, {"R"}, {"H"}, {"R", "W", "H"}}
===========================================================================
