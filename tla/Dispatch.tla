------------------------------ MODULE Dispatch ------------------------------
(***************************************************************************)
(* What the entries of the kernel promise to the rest of it, and what      *)
(* module Proc takes for granted: to a process, a system call or an        *)
(* interrupt is one visit to the kernel, with one caller and at most one   *)
(* effect, and another process runs after a visit only if the caller went  *)
(* to sleep or the visit was a tick.  Nothing is said of registers, masks  *)
(* or nesting.                                                             *)
(***************************************************************************)
CONSTANTS Proc, First

VARIABLES
  running,        \* the process that runs, or that the kernel works for
  sleeping,       \* processes that wait in a system call
  visit           \* "user", or what the kernel was entered for

Init == running = First /\ sleeping = {} /\ visit = "start"

\* Out of the kernel.
Enter ==
  /\ visit = "user" /\ visit' \in {"call", "tick", "device"}
  /\ UNCHANGED <<running, sleeping>>

\* The effect of a call: none, or somebody is woken, or the caller sleeps.
Serve ==
  /\ visit = "call"
  /\ \/ visit' = "served" /\ UNCHANGED sleeping
     \/ visit' = "served" /\ \E p \in sleeping : sleeping' = sleeping \ {p}
     \/ visit' = "slept" /\ sleeping' = sleeping \cup {running}
  /\ UNCHANGED running

\* Back into the kernel's caller, or into somebody who is awake.
Return ==
  /\ visit \in {"start", "served", "device"}
  /\ visit' = "user"
  /\ UNCHANGED <<running, sleeping>>
Switch ==
  /\ visit \in {"tick", "slept"}
  /\ visit' = "user"
  /\ running' \in Proc \ sleeping
  /\ UNCHANGED sleeping

Next == Enter \/ Serve \/ Return \/ Switch
Spec == Init /\ [][Next]_<<running, sleeping, visit>>
=============================================================================
