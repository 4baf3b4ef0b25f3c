----------------------------- MODULE Rendezvous -----------------------------
(***************************************************************************)
(* What send_recv promises its callers: synchronous messages, without      *)
(* flags, linked lists, time slices or a scheduler.                        *)
(*                                                                         *)
(* A sender goes on once its message is in the receiver's buffer.  Messages *)
(* to one process that have not been received yet are received in the      *)
(* order they were sent, ANY taking the first of all and a receive from s  *)
(* the first from s.  A process waits only if there is nobody it can meet. *)
(* A send stops the system exactly when it would close a circle of         *)
(* senders.                                                                *)
(***************************************************************************)
EXTENDS Naturals, SequencesExt

CONSTANTS
  Proc,           \* the processes
  Body,           \* what a message can say
  Anyone,         \* the request to receive from everybody, no process
  None            \* no request, neither a process nor Anyone

VARIABLES
  pending,        \* [Proc -> Seq(message)]: sent to it and not yet received
  waiting,        \* [Proc -> Proc \cup {Anyone, None}]: the receive it is blocked in
  buffer,         \* [Proc -> message]: what its last call left in its buffer
  stopped         \* a circle of senders was detected

vars == <<pending, waiting, buffer, stopped>>

SentTo(s) == {d \in Proc : \E i \in DOMAIN pending[d] : pending[d][i].source = s}
Blocked(p) == waiting[p] # None \/ SentTo(p) # {}

\* With s sending to d, some processes would wait to send only to each other.
ClosesCircle(s, d) ==
  \E S \in SUBSET Proc : {s, d} \subseteq S /\ \A p \in S \ {s} : SentTo(p) \cap S # {}

Send(s, d, body) ==
  LET message == [source |-> s, body |-> body]
      written == [buffer EXCEPT ![s] = message]
  IN  /\ ~stopped /\ ~Blocked(s)
      /\ \/ /\ ClosesCircle(s, d)
            /\ stopped' = TRUE
            /\ buffer' = written
            /\ UNCHANGED <<pending, waiting>>
         \/ /\ ~ClosesCircle(s, d)
            /\ waiting[d] \in {s, Anyone}
            /\ buffer' = [written EXCEPT ![d] = message]
            /\ waiting' = [waiting EXCEPT ![d] = None]
            /\ UNCHANGED <<pending, stopped>>
         \/ /\ ~ClosesCircle(s, d)
            /\ waiting[d] \notin {s, Anyone}
            /\ buffer' = written
            /\ pending' = [pending EXCEPT ![d] = Append(@, message)]
            /\ UNCHANGED <<waiting, stopped>>

\* The places in a queue of messages that a receive from src may take.
Suits(queue, src) == {i \in DOMAIN queue : src \in {queue[i].source, Anyone}}

\* body is what the receiver's own buffer holds while it waits.
Receive(r, src, body) ==
  LET places == Suits(pending[r], src)
  IN  /\ ~stopped /\ ~Blocked(r)
      /\ \/ \E first \in places :
              /\ \A i \in places : first =< i
              /\ buffer' = [buffer EXCEPT ![r] = pending[r][first]]
              /\ pending' = [pending EXCEPT ![r] = RemoveAt(@, first)]
              /\ UNCHANGED <<waiting, stopped>>
         \/ /\ places = {}
            /\ buffer' = [buffer EXCEPT ![r] = [source |-> r, body |-> body]]
            /\ waiting' = [waiting EXCEPT ![r] = src]
            /\ UNCHANGED <<pending, stopped>>

Init ==
  /\ pending = [p \in Proc |-> <<>>]
  /\ waiting = [p \in Proc |-> None]
  /\ buffer \in [Proc -> [source : Proc, body : Body]]
  /\ stopped = FALSE

Next ==
  \E p \in Proc, body \in Body :
    \/ \E d \in Proc \ {p} : Send(p, d, body)
    \/ \E src \in (Proc \ {p}) \cup {Anyone} : Receive(p, src, body)

Spec == Init /\ [][Next]_vars
=============================================================================
