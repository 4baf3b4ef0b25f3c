----------------------------- MODULE ProcProofs -----------------------------
(***************************************************************************)
(* Theorems about the process table, for any number of tasks, processes,   *)
(* priorities and messages.  The induction hypothesis is IInv; there is    *)
(* one lemma for each way a system call can end.                           *)
(***************************************************************************)
EXTENDS ProcRefinement, LinksProofs

\* What the definitions of the constants are used for.
LEMMA Values ==
  /\ NULL \notin Procs /\ ANY \notin Procs /\ NO_TASK \notin Procs
  /\ ANY # NULL /\ ANY # NO_TASK
  /\ Procs \subseteq Nat /\ FIRST_PROC \in Procs /\ 0 \in Procs
  /\ SENDING # RECEIVING
BY TableAssumption DEF NULL, ANY, NO_TASK, Procs, FIRST_PROC, SENDING, RECEIVING

\* schedule gives the processor to a process that no flag stops, or to nobody.
LEMMA ScheduleChooses ==
  ASSUME NEW fl, NEW t \in [Procs -> Int], p_proc_ready \in Procs, kernel = "run",
         Schedule(fl, t)
  PROVE  /\ ticks' \in [Procs -> Int] /\ p_proc_ready' \in Procs
         /\ kernel' \in {"run", "spin"}
         /\ kernel' = "run" => fl[p_proc_ready'] = {}
<1>1. Refill(fl, t) \in [Procs -> Int]
  BY PriorityAssumption DEF Refill
<1>2. CASE Runnable(fl) = {} /\ kernel' = "spin" /\ ticks' = t /\ p_proc_ready' = p_proc_ready
  BY <1>2
<1>3. CASE /\ ticks' = Refill(fl, t) /\ kernel' = kernel
           /\ \E p \in Runnable(fl) : p_proc_ready' = p
  BY <1>1, <1>3 DEF Runnable
<1> QED
  BY <1>2, <1>3 DEF Schedule

LEMMA Initially == Init => IInv
<1> SUFFICES ASSUME Init PROVE IInv
  OBVIOUS
<1> USE Values
<1>1. TypeOK
  <2>1. Priority \in [Procs -> Int]
    BY PriorityAssumption
  <2> QED
    BY <2>1 DEF Init, TypeOK, Message
<1>2. WellFormed /\ RunningIsReady /\ IdleUnlinked /\ NoSendCycle /\ NoMissedRendezvous
  BY DEF Init, WellFormed, RunningIsReady, IdleUnlinked, NoSendCycle,
         NoMissedRendezvous, Senders
<1>3. QueueMatchesSenders
  <2>1. \A d \in Procs : Queue(d) = {}
    BY ReachNull DEF Init, Queue
  <2> QED
    BY <2>1 DEF Init, QueueMatchesSenders, Senders, InjectiveOn
<1> QED
  BY <1>1, <1>2, <1>3 DEF IInv

\* A process the kernel runs stands in no queue: it is nobody's head, nobody's
\* successor, and on no chain.
LEMMA RunnerUnlinked ==
  ASSUME IInv, NEW s \in Procs, p_flags[s] = {}
  PROVE  /\ \A d \in Procs : s \notin Queue(d)
         /\ \A d \in Procs : q_sending[d] # s
         /\ \A p \in Procs : next_sending[p] # s
         /\ next_sending[s] = NULL
<1> USE DEF IInv
<1>1. \A d \in Procs : s \notin Queue(d)
  BY DEF QueueMatchesSenders, Senders
<1>2. \A d \in Procs : q_sending[d] # s
  BY <1>1, ReachStart DEF TypeOK, Queue
<1>3. ASSUME NEW p \in Procs, next_sending[p] = s PROVE FALSE
  <2>1. SENDING \in p_flags[p]
    BY <1>3, Values DEF IdleUnlinked
  <2>2. p_sendto[p] \in Procs /\ p \in Queue(p_sendto[p])
    BY <2>1 DEF WellFormed, QueueMatchesSenders, Senders
  <2>3. s \in Queue(p_sendto[p])
    BY <1>3, <2>2, ReachStep DEF TypeOK, Queue
  <2> QED
    BY <1>1, <2>2, <2>3
<1> QED
  BY <1>1, <1>2, <1>3 DEF IdleUnlinked

\* Appending the sender s to the queue of d.
LEMMA AppendKeepsLists ==
  ASSUME IInv, NEW s \in Procs, NEW d \in Procs, p_flags[s] = {}, AppendTo(d, s)
  PROVE  /\ q_sending' \in [Procs -> Procs \cup {NULL}]
         /\ next_sending' \in [Procs -> Procs \cup {NULL}]
         /\ Queue(d)' = Queue(d) \cup {s}
         /\ \A e \in Procs \ {d} : Queue(e)' = Queue(e)
         /\ InjectiveOn(next_sending', Procs)
         /\ \A e, p \in Procs : q_sending'[e] \in Procs => next_sending'[p] # q_sending'[e]
         /\ \A p \in Procs : next_sending[p] = NULL /\ next_sending'[p] # NULL
                             => p \in Queue(d)
<1>1. /\ \A e \in Procs : s \notin Queue(e)
      /\ \A e \in Procs : q_sending[e] # s
      /\ \A p \in Procs : next_sending[p] # s
      /\ next_sending[s] = NULL
  BY RunnerUnlinked
<1>2. /\ q_sending \in [Procs -> Procs \cup {NULL}]
      /\ next_sending \in [Procs -> Procs \cup {NULL}]
      /\ InjectiveOn(next_sending, Procs)
      /\ \A e, p \in Procs : q_sending[e] \in Procs => next_sending[p] # q_sending[e]
  BY DEF IInv, TypeOK, QueueMatchesSenders
<1>3. NULL \notin Procs
  BY Values
<1>4. \A e, f \in Procs : e # f => Queue(e) \cap Queue(f) = {}
  BY DEF IInv, QueueMatchesSenders, Senders
<1>5. CASE q_sending[d] = NULL
  <2>1. /\ q_sending' = [q_sending EXCEPT ![d] = s]
        /\ next_sending' = [next_sending EXCEPT ![s] = NULL]
    BY <1>5 DEF AppendTo
  <2>2. next_sending' = next_sending
    BY <1>1, <1>2, <2>1
  <2>3. Queue(d) = {} /\ Queue(d)' = {s}
    <3>1. Queue(d) = {}
      BY <1>2, <1>3, <1>5, ReachNull DEF Queue
    <3>2. Reach(s, next_sending) \subseteq {s}
      <4>1. Closed({s}, next_sending)
        BY <1>1, <1>2, <1>3 DEF Closed
      <4> QED
        BY <1>2, <4>1, ReachLeast
    <3>3. s \in Reach(s, next_sending)
      BY <1>2, ReachStart
    <3> QED
      BY <1>2, <2>1, <2>2, <3>1, <3>2, <3>3 DEF Queue
  <2>4. \A e \in Procs \ {d} : Queue(e)' = Queue(e)
    BY <1>2, <2>1, <2>2 DEF Queue
  <2> QED
    BY <1>1, <1>2, <1>3, <2>1, <2>2, <2>3, <2>4
<1>6. CASE q_sending[d] # NULL
  <2>1. PICK tail \in Queue(d) :
          /\ next_sending[tail] = NULL
          /\ next_sending' = [next_sending EXCEPT ![tail] = s, ![s] = NULL]
          /\ q_sending' = q_sending
    BY <1>6 DEF AppendTo
  <2>2. tail \in Procs /\ tail # s
    BY <1>1, <1>2, <2>1 DEF Queue, Reach
  <2>3. /\ DOMAIN next_sending = Procs /\ DOMAIN next_sending' = Procs
        /\ next_sending'[tail] = s /\ next_sending'[s] = NULL
        /\ \A y \in Procs \ {tail, s} : next_sending'[y] = next_sending[y]
    BY <1>2, <2>1, <2>2
  <2>4. Queue(d)' = Queue(d) \cup {s}
    <3>1. tail \in Reach(q_sending[d], next_sending)
      BY <2>1 DEF Queue
    <3>2. /\ s \in DOMAIN next_sending /\ tail # s
          /\ next_sending[tail] \notin DOMAIN next_sending
          /\ next_sending[s] \notin DOMAIN next_sending
          /\ DOMAIN next_sending' = DOMAIN next_sending
          /\ next_sending'[tail] = s /\ next_sending'[s] \notin DOMAIN next_sending
          /\ \A y \in DOMAIN next_sending \ {tail, s} : next_sending'[y] = next_sending[y]
      BY <1>1, <1>3, <2>1, <2>2, <2>3
    <3>3. Reach(q_sending[d], next_sending') = Reach(q_sending[d], next_sending) \cup {s}
      BY <3>1, <3>2, ReachAppend
    <3> QED
      BY <2>1, <3>3 DEF Queue
  <2>5. ASSUME NEW e \in Procs \ {d} PROVE Queue(e)' = Queue(e)
    <3>1. tail \notin Queue(e) /\ s \notin Queue(e)
      BY <1>1, <1>4, <2>1
    <3>2. \A y \in Reach(q_sending[e], next_sending) : next_sending'[y] = next_sending[y]
      BY <2>3, <3>1, ReachClosed DEF Queue
    <3>3. DOMAIN next_sending' = DOMAIN next_sending
      BY <2>3
    <3>4. Reach(q_sending[e], next_sending') = Reach(q_sending[e], next_sending)
      BY <3>2, <3>3, ReachAgree
    <3> QED
      BY <2>1, <3>4 DEF Queue
  <2>6. InjectiveOn(next_sending', Procs)
    BY <1>1, <1>2, <1>3, <2>2, <2>3 DEF InjectiveOn
  <2>7. \A e, p \in Procs : q_sending'[e] \in Procs => next_sending'[p] # q_sending'[e]
    BY <1>1, <1>2, <1>3, <2>1, <2>2, <2>3
  <2> QED
    BY <1>2, <2>1, <2>2, <2>3, <2>4, <2>5, <2>6, <2>7
<1> QED
  BY <1>5, <1>6

\* The sender f leaves the queue of r.
LEMMA UnlinkKeepsLists ==
  ASSUME IInv, NEW r \in Procs, NEW f \in Queue(r), Unlink(r, f)
  PROVE  /\ q_sending' \in [Procs -> Procs \cup {NULL}]
         /\ next_sending' \in [Procs -> Procs \cup {NULL}]
         /\ Queue(r)' = Queue(r) \ {f}
         /\ \A e \in Procs \ {r} : Queue(e)' = Queue(e)
         /\ InjectiveOn(next_sending', Procs)
         /\ \A e, p \in Procs : q_sending'[e] \in Procs => next_sending'[p] # q_sending'[e]
         /\ next_sending'[f] = NULL
         /\ \A p \in Procs : next_sending[p] = NULL => next_sending'[p] = NULL
<1>1. /\ q_sending \in [Procs -> Procs \cup {NULL}]
      /\ next_sending \in [Procs -> Procs \cup {NULL}]
      /\ \A a, b \in Procs : next_sending[a] = next_sending[b] /\ next_sending[a] \in Procs => a = b
      /\ \A e, p \in Procs : q_sending[e] \in Procs => next_sending[p] # q_sending[e]
  BY DEF IInv, TypeOK, QueueMatchesSenders, InjectiveOn
<1>2. NULL \notin Procs
  BY Values
<1>3. \A e \in Procs \ {r} : Queue(e) \cap Queue(r) = {}
  BY DEF IInv, QueueMatchesSenders, Senders
<1>4. \A e \in Procs : Queue(e) \subseteq Procs
  BY <1>1 DEF Queue, Reach
<1>5. f \in Procs
  BY <1>4
<1>6. CASE /\ f = q_sending[r]
           /\ q_sending' = [q_sending EXCEPT ![r] = next_sending[f]]
           /\ next_sending' = [next_sending EXCEPT ![f] = NULL]
  <2>1. Queue(r)' = Queue(r) \ {f}
    <3>1. Reach(next_sending[f], next_sending') = Reach(f, next_sending) \ {f}
      <4>1. /\ f \in DOMAIN next_sending
            /\ \A y \in DOMAIN next_sending : next_sending[y] # f
            /\ DOMAIN next_sending' = DOMAIN next_sending
            /\ \A y \in DOMAIN next_sending \ {f} : next_sending'[y] = next_sending[y]
            /\ next_sending'[f] \notin DOMAIN next_sending
        BY <1>1, <1>2, <1>5, <1>6
      <4> QED
        BY <4>1, ReachUnlinkHead
    <3> QED
      BY <1>1, <1>6, <3>1 DEF Queue
  <2>2. ASSUME NEW e \in Procs \ {r} PROVE Queue(e)' = Queue(e)
    <3>1. \A y \in Reach(q_sending[e], next_sending) : next_sending'[y] = next_sending[y]
      <4>1. \A y \in Procs \ {f} : next_sending'[y] = next_sending[y]
        BY <1>1, <1>6
      <4>2. Queue(e) \subseteq Procs \ {f}
        BY <1>3, <1>4
      <4> QED
        BY <4>1, <4>2 DEF Queue
    <3>2. Reach(q_sending[e], next_sending') = Reach(q_sending[e], next_sending)
      <4>1. DOMAIN next_sending' = DOMAIN next_sending
        BY <1>1, <1>6
      <4> QED
        BY <3>1, <4>1, ReachAgree
    <3> QED
      BY <1>1, <1>6, <3>2 DEF Queue
  <2>3. InjectiveOn(next_sending', Procs)
    BY <1>1, <1>2, <1>6 DEF InjectiveOn
  <2>4. \A e, p \in Procs : q_sending'[e] \in Procs => next_sending'[p] # q_sending'[e]
    BY <1>1, <1>2, <1>5, <1>6
  <2> QED
    BY <1>1, <1>5, <1>6, <2>1, <2>2, <2>3, <2>4
<1>7. CASE /\ f # q_sending[r]
           /\ \E prev \in Queue(r) :
                /\ next_sending[prev] = f
                /\ next_sending' = [next_sending EXCEPT ![prev] = next_sending[f], ![f] = NULL]
           /\ q_sending' = q_sending
  <2>1. PICK prev \in Queue(r) :
          /\ next_sending[prev] = f
          /\ next_sending' = [next_sending EXCEPT ![prev] = next_sending[f], ![f] = NULL]
    BY <1>7
  <2>2. prev \in Procs
    BY <1>4
  <2>3. prev # f
    \* Else f would be its own only predecessor, and not in the queue.
    <3>1. SUFFICES ASSUME prev = f PROVE FALSE
      OBVIOUS
    <3>2. Closed(Queue(r) \ {f}, next_sending)
      BY <1>1, <1>4, <2>1, <2>2, <3>1, ReachStep DEF Closed, Queue
    <3>3. Queue(r) \subseteq Queue(r) \ {f}
      BY <1>1, <1>4, <1>7, <3>2, ReachLeast, ReachStart DEF Queue
    <3> QED
      BY <3>3
  <2>4. /\ DOMAIN next_sending = Procs /\ DOMAIN next_sending' = Procs
        /\ next_sending'[prev] = next_sending[f] /\ next_sending'[f] = NULL
        /\ \A y \in Procs \ {prev, f} : next_sending'[y] = next_sending[y]
    BY <1>1, <1>5, <2>1, <2>2, <2>3
  <2>5. Queue(r)' = Queue(r) \ {f}
    <3>1. \A y \in Procs : next_sending[y] = f => y = prev
      BY <1>1, <1>5, <2>1, <2>2
    <3>2. Reach(q_sending[r], next_sending') = Reach(q_sending[r], next_sending) \ {f}
      <4>1. prev \in Reach(q_sending[r], next_sending)
        BY <2>1 DEF Queue
      <4>2. /\ f \in DOMAIN next_sending /\ f # q_sending[r]
            /\ next_sending[prev] = f
            /\ \A y \in DOMAIN next_sending : next_sending[y] = f => y = prev
            /\ DOMAIN next_sending' = DOMAIN next_sending
            /\ next_sending'[prev] = next_sending[f]
            /\ \A y \in DOMAIN next_sending \ {prev, f} : next_sending'[y] = next_sending[y]
        BY <1>5, <1>7, <2>1, <2>4, <3>1
      <4> QED
        BY <4>1, <4>2, ReachUnlinkMiddle
    <3> QED
      BY <1>7, <3>2 DEF Queue
  <2>6. ASSUME NEW e \in Procs \ {r} PROVE Queue(e)' = Queue(e)
    <3>1. \A y \in Reach(q_sending[e], next_sending) : next_sending'[y] = next_sending[y]
      BY <1>3, <1>4, <2>1, <2>4 DEF Queue
    <3>2. Reach(q_sending[e], next_sending') = Reach(q_sending[e], next_sending)
      BY <2>4, <3>1, ReachAgree
    <3> QED
      BY <1>7, <3>2 DEF Queue
  <2>7. InjectiveOn(next_sending', Procs)
    BY <1>1, <1>2, <1>5, <2>2, <2>4 DEF InjectiveOn
  <2>8. \A e, p \in Procs : q_sending'[e] \in Procs => next_sending'[p] # q_sending'[e]
    BY <1>1, <1>2, <1>5, <1>7, <2>2, <2>4
  <2>9. next_sending' \in [Procs -> Procs \cup {NULL}]
    <3>1. next_sending[f] \in Procs \cup {NULL}
      BY <1>1, <1>5
    <3> QED
      BY <1>1, <1>5, <2>1, <2>2, <3>1
  <2>10. \A p \in Procs : next_sending[p] = NULL => next_sending'[p] = NULL
    BY <1>2, <1>5, <2>1, <2>4
  <2> QED
    BY <1>1, <1>7, <2>4, <2>5, <2>6, <2>7, <2>8, <2>9, <2>10
<1> QED
  BY <1>6, <1>7 DEF Unlink

-----------------------------------------------------------------------------
(* The four ways a system call ends, and the hypothesis after each.  What   *)
(* becomes of `after` is the caller's business.                             *)

AfterOK == after \in [Procs -> Procs \cup {NULL}] /\ \A p \in Procs : after[p] # p

\* Fewer flags and fewer senders can close no circle.
LEMMA FewerSendersNoCycle ==
  ASSUME NoSendCycle,
         \A p \in Procs : SENDING \in p_flags'[p]
                         => SENDING \in p_flags[p] /\ p_sendto'[p] = p_sendto[p]
  PROVE  NoSendCycle'
BY DEF NoSendCycle

LEMMA DeliverKeepsInv ==
  ASSUME IInv, NEW s \in Procs, NEW d \in Procs \ {s}, NEW m \in [Procs -> Message],
         Running(s), Awaits(d, s), Deliver(s, d, m), AfterOK'
  PROVE  IInv'
<1> USE Values
<1>1. /\ p_flags[d] = {RECEIVING} /\ p_msg[d] = d
      /\ kernel = "run" /\ p_proc_ready = s
  BY DEF IInv, TypeOK, WellFormed, Awaits, Running
<1>2. /\ p_flags' = [p_flags EXCEPT ![d] = {}]
      /\ p_msg' = [p_msg EXCEPT ![d] = NULL]
      /\ p_recvfrom' = [p_recvfrom EXCEPT ![d] = NO_TASK]
      /\ mem' = [m EXCEPT ![d] = m[s]]
      /\ UNCHANGED <<p_sendto, q_sending, next_sending, ticks, p_proc_ready, kernel>>
  BY <1>1 DEF Deliver, sched, IInv, TypeOK
<1>3. TypeOK'
  BY <1>2 DEF IInv, TypeOK, AfterOK
<1>4. WellFormed'
  BY <1>2 DEF IInv, TypeOK, WellFormed
<1>5. RunningIsReady'
  BY <1>1, <1>2 DEF IInv, TypeOK, RunningIsReady
<1>6. \A p \in Procs : SENDING \in p_flags'[p] <=> SENDING \in p_flags[p]
  BY <1>1, <1>2 DEF IInv, TypeOK
<1>7. QueueMatchesSenders' /\ IdleUnlinked'
  BY <1>2, <1>6 DEF IInv, QueueMatchesSenders, IdleUnlinked, Queue, Senders, AfterOK
<1>8. NoSendCycle'
  BY <1>2, <1>6, FewerSendersNoCycle DEF IInv
<1>9. NoMissedRendezvous'
  BY <1>2, <1>6 DEF IInv, TypeOK, NoMissedRendezvous, Senders
<1> QED
  BY <1>3, <1>4, <1>5, <1>7, <1>8, <1>9 DEF IInv

\* What deadlock() is worth: a send it lets through closes no circle.  The
\* processes a circle through the new edge would need besides s are a circle
\* that was there before.
LEMMA CheckedSendNoCycle ==
  ASSUME IInv, NEW s \in Procs, NEW d \in Procs \ {s}, p_flags[s] = {},
         ~deadlock(s, d),
         p_flags' = [p_flags EXCEPT ![s] = {SENDING}],
         p_sendto' = [p_sendto EXCEPT ![s] = d]
  PROVE  NoSendCycle'
<1> SUFFICES ASSUME NEW S \in SUBSET Procs, S # {},
                    \A p \in S : SENDING \in p_flags'[p] /\ p_sendto'[p] \in S
             PROVE  FALSE
  BY DEF NoSendCycle
<1>1. /\ p_flags \in [Procs -> SUBSET {SENDING, RECEIVING}]
      /\ p_sendto \in [Procs -> Procs \cup {NO_TASK}]
  BY DEF IInv, TypeOK
<1>2. \A p \in S \ {s} : SENDING \in p_flags[p] /\ p_sendto[p] \in S
  BY <1>1
<1>3. s \in S /\ d \in S
  <2>1. s \in S
    BY <1>2 DEF IInv, NoSendCycle
  <2> QED
    BY <1>1, <2>1
<1> DEFINE C == Reach(d, SendLink)
<1>4. DOMAIN SendLink = Procs /\ C \subseteq Procs /\ d \in C
  BY ReachStart DEF SendLink, Reach
<1>5. C \subseteq S
  <2>1. Closed(S, SendLink)
    BY <1>2, <1>4, Values DEF SendLink, Closed
  <2> QED
    BY <1>3, <1>4, <2>1, ReachLeast
<1>6. s \notin C
  <2>1. ~ \E p \in C : SendLink[p] = s
    BY DEF deadlock
  <2> QED
    BY <2>1, LastEdge
<1>7. \A p \in C : SENDING \in p_flags[p] /\ p_sendto[p] \in C
  <2>1. SUFFICES ASSUME NEW p \in C PROVE SENDING \in p_flags[p] /\ p_sendto[p] \in C
    OBVIOUS
  <2>2. SENDING \in p_flags[p] /\ p_sendto[p] \in Procs
    BY <1>2, <1>5, <1>6
  <2>3. SendLink[p] = p_sendto[p]
    BY <1>4, <2>2 DEF SendLink
  <2> QED
    BY <1>4, <2>2, <2>3, ReachStep
<1> QED
  BY <1>4, <1>7 DEF IInv, NoSendCycle

LEMMA EnqueueKeepsInv ==
  ASSUME IInv, NEW s \in Procs, NEW d \in Procs \ {s}, NEW m \in [Procs -> Message],
         Running(s), ~deadlock(s, d), ~Awaits(d, s), Enqueue(s, d, m), AfterOK'
  PROVE  IInv'
<1> USE Values
<1>1. p_flags[s] = {} /\ kernel = "run" /\ p_proc_ready = s
  BY DEF IInv, RunningIsReady, Running
<1>2. /\ p_flags' = [p_flags EXCEPT ![s] = {SENDING}]
      /\ p_sendto' = [p_sendto EXCEPT ![s] = d]
      /\ p_msg' = [p_msg EXCEPT ![s] = s]
      /\ p_recvfrom' = p_recvfrom /\ mem' = m
  BY <1>1 DEF Enqueue, IInv, TypeOK
<1>3. /\ q_sending' \in [Procs -> Procs \cup {NULL}]
      /\ next_sending' \in [Procs -> Procs \cup {NULL}]
      /\ Queue(d)' = Queue(d) \cup {s}
      /\ \A e \in Procs \ {d} : Queue(e)' = Queue(e)
      /\ InjectiveOn(next_sending', Procs)
      /\ \A e, p \in Procs : q_sending'[e] \in Procs => next_sending'[p] # q_sending'[e]
      /\ \A p \in Procs : next_sending[p] = NULL /\ next_sending'[p] # NULL => p \in Queue(d)
  BY <1>1, AppendKeepsLists DEF Enqueue
<1>4. /\ ticks' \in [Procs -> Int] /\ p_proc_ready' \in Procs
      /\ kernel' \in {"run", "spin"}
      /\ kernel' = "run" => p_flags'[p_proc_ready'] = {}
  BY <1>1, ScheduleChooses DEF Enqueue, IInv, TypeOK
<1>5. TypeOK'
  BY <1>2, <1>3, <1>4 DEF IInv, TypeOK, AfterOK
<1>6. WellFormed'
  BY <1>1, <1>2 DEF IInv, TypeOK, WellFormed
<1>7. RunningIsReady'
  BY <1>4 DEF RunningIsReady
<1>8. Senders(d)' = Senders(d) \cup {s} /\ \A e \in Procs \ {d} : Senders(e)' = Senders(e)
  BY <1>1, <1>2 DEF IInv, TypeOK, Senders
<1>9. QueueMatchesSenders'
  BY <1>3, <1>8 DEF IInv, QueueMatchesSenders
<1>10. IdleUnlinked'
  <2>1. SUFFICES ASSUME NEW p \in Procs, SENDING \notin p_flags'[p]
                 PROVE  next_sending'[p] = NULL
    BY DEF IdleUnlinked, AfterOK
  <2>2. SENDING \notin p_flags[p]
    BY <1>1, <1>2, <2>1 DEF IInv, TypeOK
  <2> QED
    BY <1>3, <2>2 DEF IInv, IdleUnlinked, QueueMatchesSenders, Senders
<1>11. NoSendCycle'
  BY <1>1, <1>2, CheckedSendNoCycle
<1>12. NoMissedRendezvous'
  BY <1>1, <1>2, <1>8 DEF IInv, TypeOK, NoMissedRendezvous, Awaits
<1> QED
  BY <1>5, <1>6, <1>7, <1>9, <1>10, <1>11, <1>12 DEF IInv

LEMMA TakeKeepsInv ==
  ASSUME IInv, NEW r \in Procs, NEW src \in (Procs \ {r}) \cup {ANY},
         NEW m \in [Procs -> Message], Running(r), NEW f \in Ready(r, src),
         Take(r, f, m), AfterOK'
  PROVE  IInv'
<1> USE Values
<1>1. f \in Queue(r) /\ f \in Senders(r)
  <2>1. CASE src = ANY
    BY <2>1, ReachStart DEF Ready, IInv, TypeOK, Queue, QueueMatchesSenders
  <2>2. CASE src # ANY
    BY <2>2 DEF Ready, IInv, QueueMatchesSenders, Senders
  <2> QED
    BY <2>1, <2>2
<1>2. f \in Procs /\ p_flags[f] = {SENDING} /\ p_msg[f] = f /\ p_sendto[f] = r
  BY <1>1 DEF IInv, WellFormed, Senders
<1>3. p_flags[r] = {} /\ kernel = "run" /\ p_proc_ready = r /\ r # f
  BY <1>2 DEF IInv, RunningIsReady, Running
<1>4. /\ p_flags' = [p_flags EXCEPT ![f] = {}]
      /\ p_msg' = [p_msg EXCEPT ![f] = NULL]
      /\ p_sendto' = [p_sendto EXCEPT ![f] = NO_TASK]
      /\ mem' = [m EXCEPT ![r] = m[f]]
      /\ UNCHANGED <<p_recvfrom, ticks, p_proc_ready, kernel>>
  BY <1>2 DEF Take, sched, IInv, TypeOK
<1>5. /\ q_sending' \in [Procs -> Procs \cup {NULL}]
      /\ next_sending' \in [Procs -> Procs \cup {NULL}]
      /\ Queue(r)' = Queue(r) \ {f}
      /\ \A e \in Procs \ {r} : Queue(e)' = Queue(e)
      /\ InjectiveOn(next_sending', Procs)
      /\ \A e, p \in Procs : q_sending'[e] \in Procs => next_sending'[p] # q_sending'[e]
      /\ next_sending'[f] = NULL
      /\ \A p \in Procs : next_sending[p] = NULL => next_sending'[p] = NULL
  BY <1>1, UnlinkKeepsLists DEF Take
<1>6. TypeOK'
  BY <1>2, <1>4, <1>5 DEF IInv, TypeOK, AfterOK
<1>7. WellFormed'
  BY <1>2, <1>4 DEF IInv, TypeOK, WellFormed
<1>8. RunningIsReady'
  BY <1>3, <1>4 DEF IInv, TypeOK, RunningIsReady
<1>9. Senders(r)' = Senders(r) \ {f} /\ \A e \in Procs \ {r} : Senders(e)' = Senders(e)
  BY <1>2, <1>4 DEF IInv, TypeOK, Senders
<1>10. QueueMatchesSenders'
  BY <1>5, <1>9 DEF IInv, QueueMatchesSenders
<1>11. IdleUnlinked'
  BY <1>2, <1>4, <1>5 DEF IInv, TypeOK, IdleUnlinked, AfterOK
<1>12. NoSendCycle'
  <2>1. \A p \in Procs : SENDING \in p_flags'[p]
                        => SENDING \in p_flags[p] /\ p_sendto'[p] = p_sendto[p]
    BY <1>2, <1>4 DEF IInv, TypeOK
  <2> QED
    BY <2>1, FewerSendersNoCycle DEF IInv
<1>13. NoMissedRendezvous'
  BY <1>2, <1>4, <1>9 DEF IInv, TypeOK, NoMissedRendezvous
<1> QED
  BY <1>6, <1>7, <1>8, <1>10, <1>11, <1>12, <1>13 DEF IInv

LEMMA WaitKeepsInv ==
  ASSUME IInv, NEW r \in Procs, NEW src \in (Procs \ {r}) \cup {ANY},
         NEW m \in [Procs -> Message], Running(r), Ready(r, src) = {},
         Wait(r, src, m), AfterOK'
  PROVE  IInv'
<1> USE Values
<1>1. p_flags[r] = {} /\ kernel = "run" /\ p_proc_ready = r
  BY DEF IInv, RunningIsReady, Running
<1>2. /\ p_flags' = [p_flags EXCEPT ![r] = {RECEIVING}]
      /\ p_msg' = [p_msg EXCEPT ![r] = r]
      /\ p_recvfrom' = [p_recvfrom EXCEPT ![r] = src]
      /\ mem' = m
      /\ UNCHANGED <<p_sendto, q_sending, next_sending>>
  BY <1>1 DEF Wait, IInv, TypeOK
<1>3. /\ ticks' \in [Procs -> Int] /\ p_proc_ready' \in Procs
      /\ kernel' \in {"run", "spin"}
      /\ kernel' = "run" => p_flags'[p_proc_ready'] = {}
  BY <1>1, ScheduleChooses DEF Wait, IInv, TypeOK
<1>4. TypeOK'
  BY <1>2, <1>3 DEF IInv, TypeOK, AfterOK
<1>5. WellFormed'
  BY <1>1, <1>2 DEF IInv, TypeOK, WellFormed
<1>6. RunningIsReady'
  BY <1>3 DEF RunningIsReady
<1>7. \A p \in Procs : SENDING \in p_flags'[p] <=> SENDING \in p_flags[p]
  BY <1>1, <1>2 DEF IInv, TypeOK
<1>8. QueueMatchesSenders' /\ IdleUnlinked'
  BY <1>2, <1>7 DEF IInv, QueueMatchesSenders, IdleUnlinked, Queue, Senders, AfterOK
<1>9. NoSendCycle'
  BY <1>2, <1>7, FewerSendersNoCycle DEF IInv
<1>10. NoMissedRendezvous'
  \* Only the receiver can have come to miss somebody, and it found nobody.
  <2>1. SUFFICES ASSUME NEW d \in Procs, NEW s \in Senders(d)', RECEIVING \in p_flags'[d]
                 PROVE  p_recvfrom'[d] \notin {s, ANY}
    BY DEF NoMissedRendezvous
  <2>2. s \in Senders(d) /\ s \in Procs
    BY <1>2, <1>7 DEF Senders
  <2>3. CASE d # r
    BY <1>2, <2>1, <2>2, <2>3 DEF IInv, TypeOK, NoMissedRendezvous
  <2>4. CASE d = r
    <3>1. src # ANY
      <4>1. SUFFICES ASSUME src = ANY PROVE FALSE
        OBVIOUS
      <4>2. q_sending[r] = NULL
        BY <4>1 DEF Ready
      <4>3. Queue(r) = {}
        BY <4>2, ReachNull DEF Queue, IInv, TypeOK
      <4> QED
        BY <2>2, <2>4, <4>3 DEF IInv, QueueMatchesSenders
    <3>2. src # s
      BY <2>2, <2>4, <3>1 DEF Ready, Senders
    <3> QED
      BY <1>2, <2>4, <3>1, <3>2 DEF IInv, TypeOK
  <2> QED
    BY <2>3, <2>4
<1> QED
  BY <1>4, <1>5, <1>6, <1>8, <1>9, <1>10 DEF IInv

-----------------------------------------------------------------------------
(* Every step of the system keeps the hypothesis.                           *)

LEMMA SendKeepsInv ==
  ASSUME IInv, NEW s \in Procs, NEW d \in Procs \ {s}, NEW m \in [Procs -> Message],
         Running(s), msg_send(s, d, m), AfterOK'
  PROVE  IInv'
<1>1. CASE Panic(m)
  <2>1. /\ kernel' = "halt" /\ mem' = m
        /\ UNCHANGED <<p_flags, p_msg, p_recvfrom, p_sendto, q_sending, next_sending,
                       ticks, p_proc_ready>>
    BY <1>1 DEF Panic, ipc
  <2>2. TypeOK' /\ WellFormed' /\ RunningIsReady' /\ NoSendCycle' /\ NoMissedRendezvous'
    BY <2>1 DEF IInv, TypeOK, WellFormed, RunningIsReady, NoSendCycle,
                NoMissedRendezvous, Senders, AfterOK
  <2>3. QueueMatchesSenders' /\ IdleUnlinked'
    BY <2>1 DEF IInv, QueueMatchesSenders, IdleUnlinked, Queue, Senders, AfterOK
  <2> QED
    BY <2>2, <2>3 DEF IInv
<1>2. CASE Awaits(d, s) /\ Deliver(s, d, m)
  BY <1>2, DeliverKeepsInv
<1>3. CASE ~deadlock(s, d) /\ ~Awaits(d, s) /\ Enqueue(s, d, m)
  BY <1>3, EnqueueKeepsInv
<1> QED
  BY <1>1, <1>2, <1>3 DEF msg_send

LEMMA ReceiveKeepsInv ==
  ASSUME IInv, NEW r \in Procs, NEW src \in (Procs \ {r}) \cup {ANY},
         NEW m \in [Procs -> Message], Running(r), msg_receive(r, src, m), AfterOK'
  PROVE  IInv'
<1>1. CASE \E f \in Ready(r, src) : Take(r, f, m)
  BY <1>1, TakeKeepsInv
<1>2. CASE Ready(r, src) = {} /\ Wait(r, src, m)
  BY <1>2, WaitKeepsInv
<1> QED
  BY <1>1, <1>2 DEF msg_receive

\* sys_sendrec hands msg_send and msg_receive a memory of messages.
LEMMA StampedType ==
  ASSUME IInv, NEW p \in Procs, NEW body \in Body \cup {Zero}
  PROVE  Stamped(p, body) \in [Procs -> Message]
BY DEF IInv, TypeOK, Message, Stamped

LEMMA NextKeepsInv == IInv /\ [Next]_vars => IInv'
<1> SUFFICES ASSUME IInv, [Next]_vars PROVE IInv'
  OBVIOUS
<1> USE Values
<1>0. AfterOK
  BY DEF IInv, TypeOK, IdleUnlinked, AfterOK
<1>1. ASSUME NEW p \in Procs, NEW body \in Body, NEW d \in Procs \ {p}, CallSend(p, d, body)
      PROVE  IInv'
  <2>1. AfterOK'
    BY <1>0, <1>1 DEF CallSend, AfterOK
  <2> QED
    BY <1>1, <2>1, StampedType, SendKeepsInv DEF CallSend
<1>2. ASSUME NEW p \in Procs, NEW body \in Body, NEW d \in Procs \ {p}, CallBoth(p, d, body)
      PROVE  IInv'
  <2>1. AfterOK'
    BY <1>0, <1>2 DEF CallBoth, AfterOK
  <2> QED
    BY <1>2, <2>1, StampedType, SendKeepsInv DEF CallBoth
<1>3. ASSUME NEW p \in Procs, FinishBoth(p) PROVE IInv'
  <2>1. AfterOK'
    BY <1>0, <1>3 DEF FinishBoth, AfterOK
  <2>2. after[p] \in Procs \ {p} /\ mem[p].body \in Body \cup {Zero}
    BY <1>0, <1>3 DEF FinishBoth, AfterOK, IInv, TypeOK, Message
  <2> QED
    BY <1>3, <2>1, <2>2, StampedType, ReceiveKeepsInv DEF FinishBoth
<1>4. ASSUME NEW p \in Procs, NEW src \in (Procs \ {p}) \cup {ANY}, CallReceive(p, src)
      PROVE  IInv'
  <2>1. AfterOK'
    BY <1>0, <1>4 DEF CallReceive, AfterOK
  <2> QED
    BY <1>4, <2>1, StampedType, ReceiveKeepsInv DEF CallReceive
<1>5. ASSUME UNCHANGED <<ipc, mem, after>>,
             ticks' \in [Procs -> Int], p_proc_ready' \in Procs,
             kernel' \in {"run", "spin", "halt"},
             kernel' = "run" => p_flags[p_proc_ready'] = {}
      PROVE  IInv'
  \* A step of the scheduler alone leaves the lists and the partners alone.
  <2>1. UNCHANGED <<p_flags, p_msg, p_recvfrom, p_sendto, q_sending, next_sending, mem, after>>
    BY <1>5 DEF ipc
  <2>2. TypeOK' /\ WellFormed' /\ RunningIsReady' /\ NoSendCycle' /\ NoMissedRendezvous'
    BY <1>5, <2>1 DEF IInv, TypeOK, WellFormed, RunningIsReady, NoSendCycle,
                      NoMissedRendezvous, Senders
  <2>3. QueueMatchesSenders' /\ IdleUnlinked'
    BY <2>1 DEF IInv, QueueMatchesSenders, IdleUnlinked, Queue, Senders
  <2> QED
    BY <2>2, <2>3 DEF IInv
<1>6. CASE ClockTick
  <2>1. [ticks EXCEPT ![p_proc_ready] = @ - 1] \in [Procs -> Int]
    BY DEF IInv, TypeOK
  <2>2. /\ ticks' \in [Procs -> Int] /\ p_proc_ready' \in Procs
        /\ kernel' \in {"run", "spin"}
        /\ kernel' = "run" => p_flags[p_proc_ready'] = {}
    BY <1>6, <2>1, ScheduleChooses DEF ClockTick, IInv, TypeOK
  <2> QED
    BY <1>5, <1>6, <2>2 DEF ClockTick
<1>7. CASE NestedTick
  <2>1. ticks' \in [Procs -> Int]
    BY <1>7 DEF NestedTick, IInv, TypeOK
  <2> QED
    BY <1>5, <1>7, <2>1 DEF NestedTick, IInv, TypeOK, RunningIsReady
<1>8. CASE UNCHANGED vars
  BY <1>5, <1>8 DEF vars, sched, IInv, TypeOK, RunningIsReady
<1> QED
  BY <1>1, <1>2, <1>3, <1>4, <1>6, <1>7, <1>8 DEF Next

-----------------------------------------------------------------------------
(* The theorems *)

\* The process table is well formed after any number of calls and ticks.
THEOREM Invariance == Spec => []IInv
BY Initially, NextKeepsInv, PTL DEF Spec

\* Every variable keeps its type, the running process' entry included.
THEOREM TypeCorrect == Spec => []TypeOK
<1>1. IInv => TypeOK
  BY DEF IInv
<1> QED
  BY <1>1, Invariance, PTL

\* deadlock() does what it is for: no circle of processes that send to one
\* another ever comes about, of any length, among any number of processes.
THEOREM NoCircleOfSenders == Spec => []NoSendCycle
<1>1. IInv => NoSendCycle
  BY DEF IInv
<1> QED
  BY <1>1, Invariance, PTL

\* The sending queues hold the senders, whatever order they are served in.
THEOREM QueuesCorrect == Spec => []QueueMatchesSenders
<1>1. IInv => QueueMatchesSenders
  BY DEF IInv
<1> QED
  BY <1>1, Invariance, PTL

\* No sender and receiver that wait for each other are left waiting.
THEOREM RendezvousTakesPlace == Spec => []NoMissedRendezvous
<1>1. IInv => NoMissedRendezvous
  BY DEF IInv
<1> QED
  BY <1>1, Invariance, PTL

\* No assertion of msg_send or msg_receive fails in any call any process makes,
\* and the search of a queue finds the sender it is for.
THEOREM NoAssertionFails == Spec => []AssertionsHold
<1>1. IInv => AssertionsHold
  <2> SUFFICES ASSUME IInv, NEW p \in Procs, Running(p)
               PROVE  /\ p_flags[p] = {} /\ p_msg[p] = NULL
                      /\ \A d \in Procs \ {p} : Awaits(d, p) =>
                           p_msg[d] = d /\ p_flags[d] = {RECEIVING}
                      /\ \A src \in (Procs \ {p}) \cup {ANY} : \A f \in Ready(p, src) :
                           /\ f \in Queue(p)
                           /\ p_flags[f] = {SENDING} /\ p_msg[f] = f /\ p_sendto[f] = p
    BY DEF AssertionsHold
  <2>1. p_flags[p] = {} /\ p_msg[p] = NULL
    BY DEF IInv, RunningIsReady, WellFormed, Running
  <2>2. \A d \in Procs \ {p} : Awaits(d, p) => p_msg[d] = d /\ p_flags[d] = {RECEIVING}
    BY Values DEF IInv, TypeOK, WellFormed, Awaits
  <2>3. ASSUME NEW src \in (Procs \ {p}) \cup {ANY}, NEW f \in Ready(p, src)
        PROVE  /\ f \in Queue(p)
               /\ p_flags[f] = {SENDING} /\ p_msg[f] = f /\ p_sendto[f] = p
    <3>1. f \in Senders(p)
      <4>1. CASE src = ANY
        BY <4>1, ReachStart DEF Ready, IInv, TypeOK, Queue, QueueMatchesSenders
      <4>2. CASE src # ANY
        BY <4>2 DEF Ready, Senders
      <4> QED
        BY <4>1, <4>2
    <3> QED
      BY <3>1, Values DEF IInv, QueueMatchesSenders, WellFormed, Senders
  <2> QED
    BY <2>1, <2>2, <2>3
<1> QED
  BY <1>1, Invariance, PTL

\* schedule never hands the processor to a process that is blocked.
THEOREM SchedulerSafe == Spec => []RunningIsReady
<1>1. IInv => RunningIsReady
  BY DEF IInv
<1> QED
  BY <1>1, Invariance, PTL

-----------------------------------------------------------------------------
(* The order of the queues *)

\* What FifoQueues says of one step and one queue.
KeepsOrder(d) ==
  \A a \in Queue(d) \cap Queue(d)' : \A b \in Queue(d)' \ {a} :
    Precedes(a, b) \/ b \notin Queue(d) => Precedes(a, b)'

\* A queue none of whose links is changed keeps its order.
LEMMA UntouchedKeepsOrder ==
  ASSUME NEW d \in Procs, DOMAIN next_sending' = DOMAIN next_sending,
         \A y \in Queue(d) : next_sending'[y] = next_sending[y],
         q_sending'[d] = q_sending[d]
  PROVE  KeepsOrder(d)
<1>1. Queue(d)' = Queue(d)
  BY ReachAgree DEF Queue
<1>2. ASSUME NEW a \in Queue(d), NEW b, Precedes(a, b) PROVE Precedes(a, b)'
  <2>1. Reach(next_sending[a], next_sending) \subseteq Queue(d)
    <3>1. next_sending[a] \in DOMAIN next_sending => next_sending[a] \in Queue(d)
      BY ReachStep DEF Queue
    <3> QED
      BY <3>1, ReachSub, ReachNull DEF Queue
  <2>2. Reach(next_sending[a], next_sending') = Reach(next_sending[a], next_sending)
    BY <2>1, ReachAgree
  <2> QED
    BY <1>2, <2>2 DEF Precedes
<1> QED
  BY <1>1, <1>2 DEF KeepsOrder

\* The newcomer stands behind all that were there, who stay as they were: the
\* entry it is hung on is the last, because a chain is linear.
LEMMA AppendKeepsOrder ==
  ASSUME IInv, NEW s \in Procs, NEW d \in Procs, p_flags[s] = {}, AppendTo(d, s)
  PROVE  \A e \in Procs : KeepsOrder(e)
<1>1. /\ \A e \in Procs : s \notin Queue(e)
      /\ \A p \in Procs : next_sending[p] # s
      /\ next_sending[s] = NULL
  BY RunnerUnlinked
<1>2. /\ q_sending \in [Procs -> Procs \cup {NULL}]
      /\ next_sending \in [Procs -> Procs \cup {NULL}]
  BY DEF IInv, TypeOK
<1>3. NULL \notin Procs
  BY Values
<1>4. \A e, f \in Procs : e # f => Queue(e) \cap Queue(f) = {}
  BY DEF IInv, QueueMatchesSenders, Senders
<1>5. Queue(d)' = Queue(d) \cup {s} /\ DOMAIN next_sending' = DOMAIN next_sending
  BY <1>2, AppendKeepsLists
<1>6. CASE q_sending[d] = NULL
  <2>0. /\ q_sending' = [q_sending EXCEPT ![d] = s]
        /\ next_sending' = [next_sending EXCEPT ![s] = NULL]
    BY <1>6 DEF AppendTo
  <2>1. q_sending' = [q_sending EXCEPT ![d] = s] /\ next_sending' = next_sending
    BY <1>1, <1>2, <2>0
  <2>2. KeepsOrder(d)
    BY <1>2, <1>3, <1>6, ReachNull DEF KeepsOrder, Queue
  <2>3. \A e \in Procs \ {d} : KeepsOrder(e)
    BY <1>2, <2>1, UntouchedKeepsOrder
  <2> QED
    BY <2>2, <2>3
<1>7. CASE q_sending[d] # NULL
  <2>1. PICK tail \in Queue(d) :
          /\ next_sending[tail] = NULL
          /\ next_sending' = [next_sending EXCEPT ![tail] = s, ![s] = NULL]
          /\ q_sending' = q_sending
    BY <1>7 DEF AppendTo
  <2>2. tail \in Procs /\ tail # s
    BY <1>1, <1>2, <2>1 DEF Queue, Reach
  <2>3. /\ DOMAIN next_sending = Procs /\ DOMAIN next_sending' = Procs
        /\ next_sending'[tail] = s /\ next_sending'[s] = NULL
        /\ \A y \in Procs \ {tail, s} : next_sending'[y] = next_sending[y]
    BY <1>2, <2>1, <2>2
  <2>4. ASSUME NEW e \in Procs \ {d} PROVE KeepsOrder(e)
    <3>1. Queue(e) \subseteq Procs \ {tail, s}
      BY <1>1, <1>2, <1>4, <2>1 DEF Queue, Reach
    <3> QED
      BY <1>5, <2>1, <2>3, <3>1, UntouchedKeepsOrder
  <2>5. KeepsOrder(d)
    <3>1. SUFFICES ASSUME NEW a \in Queue(d), NEW b \in (Queue(d) \cup {s}) \ {a},
                          Precedes(a, b) \/ b \notin Queue(d)
                   PROVE  Precedes(a, b)'
      BY <1>5 DEF KeepsOrder
    <3>2. a \in Procs /\ a # s
      BY <1>1, <1>2 DEF Queue, Reach
    <3>3. Precedes(a, b) \/ b = s
      BY <3>1
    <3>4. CASE a = tail
      <4>1. ~Precedes(a, b)
        BY <1>3, <2>1, <2>3, <3>4, ReachNull DEF Precedes
      <4>2. s \in Reach(s, next_sending')
        BY <2>3, ReachStart
      <4> QED
        BY <2>3, <3>3, <3>4, <4>1, <4>2 DEF Precedes
    <3>5. CASE a # tail
      <4>1. tail \in Reach(a, next_sending)
        <5>1. Reach(tail, next_sending) = {tail}
          BY <1>3, <2>1, <2>2, <2>3, ReachUnfold, ReachNull
        <5>2. tail \in Reach(a, next_sending) \/ a \in Reach(tail, next_sending)
          BY <2>1, ReachLinear DEF Queue
        <5> QED
          BY <3>5, <5>1, <5>2
      <4>2. tail \in Reach(next_sending[a], next_sending)
        BY <2>3, <3>2, <3>5, <4>1, ReachUnfold
      <4>3. Reach(next_sending[a], next_sending')
              = Reach(next_sending[a], next_sending) \cup {s}
        <5>1. /\ s \in DOMAIN next_sending /\ tail # s
              /\ next_sending[tail] \notin DOMAIN next_sending
              /\ next_sending[s] \notin DOMAIN next_sending
              /\ DOMAIN next_sending' = DOMAIN next_sending
              /\ next_sending'[tail] = s /\ next_sending'[s] \notin DOMAIN next_sending
              /\ \A y \in DOMAIN next_sending \ {tail, s} : next_sending'[y] = next_sending[y]
          BY <1>1, <1>3, <2>1, <2>2, <2>3
        <5> QED
          BY <4>2, <5>1, ReachAppend
      <4>4. next_sending'[a] = next_sending[a]
        BY <2>3, <3>2, <3>5
      <4> QED
        BY <3>3, <4>3, <4>4 DEF Precedes
    <3> QED
      BY <3>4, <3>5
  <2> QED
    BY <2>4, <2>5
<1> QED
  BY <1>6, <1>7

\* Those who stay behind keep their order when f is taken from among them.
LEMMA UnlinkKeepsOrder ==
  ASSUME IInv, NEW r \in Procs, NEW f \in Queue(r), Unlink(r, f)
  PROVE  \A e \in Procs : KeepsOrder(e)
<1>1. /\ q_sending \in [Procs -> Procs \cup {NULL}]
      /\ next_sending \in [Procs -> Procs \cup {NULL}]
      /\ \A a, b \in Procs : next_sending[a] = next_sending[b] /\ next_sending[a] \in Procs => a = b
      /\ \A e, p \in Procs : q_sending[e] \in Procs => next_sending[p] # q_sending[e]
  BY DEF IInv, TypeOK, QueueMatchesSenders, InjectiveOn
<1>2. NULL \notin Procs
  BY Values
<1>3. \A e \in Procs \ {r} : Queue(e) \cap Queue(r) = {}
  BY DEF IInv, QueueMatchesSenders, Senders
<1>4. \A e \in Procs : Queue(e) \subseteq Procs
  BY <1>1 DEF Queue, Reach
<1>5. f \in Procs /\ Queue(r)' = Queue(r) \ {f}
  BY <1>4, UnlinkKeepsLists
<1>6. CASE /\ f = q_sending[r]
           /\ q_sending' = [q_sending EXCEPT ![r] = next_sending[f]]
           /\ next_sending' = [next_sending EXCEPT ![f] = NULL]
  <2>1. /\ DOMAIN next_sending' = DOMAIN next_sending
        /\ \A y \in Procs \ {f} : next_sending'[y] = next_sending[y]
        /\ \A e \in Procs \ {r} : q_sending'[e] = q_sending[e]
    BY <1>1, <1>6
  <2>2. ASSUME NEW e \in Procs \ {r} PROVE KeepsOrder(e)
    BY <1>3, <1>4, <2>1, UntouchedKeepsOrder
  <2>3. KeepsOrder(r)
    <3>1. SUFFICES ASSUME NEW a \in Queue(r) \ {f}, NEW b, Precedes(a, b)
                   PROVE  Precedes(a, b)'
      BY <1>5 DEF KeepsOrder
    <3>2. f \notin Reach(next_sending[a], next_sending)
      <4>1. SUFFICES ASSUME f \in Reach(next_sending[a], next_sending) PROVE FALSE
        OBVIOUS
      <4>2. next_sending[a] # f
        BY <1>1, <1>4, <1>5, <1>6
      <4>3. PICK p \in Reach(next_sending[a], next_sending) : next_sending[p] = f
        BY <4>1, <4>2, LastEdge
      <4>4. p \in Procs
        BY <1>1 DEF Reach
      <4> QED
        BY <1>1, <1>5, <1>6, <4>3, <4>4
    <3>3. \A y \in Reach(next_sending[a], next_sending) : next_sending'[y] = next_sending[y]
      <4>1. Reach(next_sending[a], next_sending) \subseteq Procs
        BY <1>1 DEF Reach
      <4> QED
        BY <2>1, <3>2, <4>1
    <3>4. Reach(next_sending[a], next_sending') = Reach(next_sending[a], next_sending)
      BY <2>1, <3>3, ReachAgree
    <3>5. next_sending'[a] = next_sending[a]
      BY <1>4, <2>1
    <3> QED
      BY <3>1, <3>4, <3>5 DEF Precedes
  <2> QED
    BY <2>2, <2>3
<1>7. CASE /\ f # q_sending[r]
           /\ \E prev \in Queue(r) :
                /\ next_sending[prev] = f
                /\ next_sending' = [next_sending EXCEPT ![prev] = next_sending[f], ![f] = NULL]
           /\ q_sending' = q_sending
  <2>1. PICK prev \in Queue(r) :
          /\ next_sending[prev] = f
          /\ next_sending' = [next_sending EXCEPT ![prev] = next_sending[f], ![f] = NULL]
    BY <1>7
  <2>2. prev \in Procs
    BY <1>4
  <2>3. prev # f
    <3>1. SUFFICES ASSUME prev = f PROVE FALSE
      OBVIOUS
    <3>2. PICK p \in Queue(r) \ {f} : next_sending[p] = f
      <4>1. Closed(Queue(r), next_sending)
        BY ReachClosed DEF Queue
      <4>2. SUFFICES ASSUME \A p \in Queue(r) \ {f} : next_sending[p] # f PROVE FALSE
        OBVIOUS
      <4>3. Closed(Queue(r) \ {f}, next_sending)
        BY <4>1, <4>2 DEF Closed
      <4>4. Queue(r) \subseteq Queue(r) \ {f}
        BY <1>1, <1>4, <1>7, <4>3, ReachLeast, ReachStart DEF Queue
      <4> QED
        BY <4>4
    <3> QED
      BY <1>1, <1>4, <1>5, <2>1, <2>2, <3>1, <3>2
  <2>4. /\ DOMAIN next_sending = Procs /\ DOMAIN next_sending' = Procs
        /\ next_sending'[prev] = next_sending[f] /\ next_sending'[f] = NULL
        /\ \A y \in Procs \ {prev, f} : next_sending'[y] = next_sending[y]
    BY <1>1, <1>5, <2>1, <2>2, <2>3
  <2>5. ASSUME NEW e \in Procs \ {r} PROVE KeepsOrder(e)
    <3>1. \A y \in Queue(e) : next_sending'[y] = next_sending[y]
      BY <1>3, <1>4, <2>1, <2>4
    <3> QED
      BY <1>7, <2>4, <3>1, UntouchedKeepsOrder
  <2>6. KeepsOrder(r)
    <3>1. SUFFICES ASSUME NEW a \in Queue(r) \ {f}, NEW b \in Queue(r) \ {f}, Precedes(a, b)
                   PROVE  Precedes(a, b)'
      BY <1>5 DEF KeepsOrder
    <3>2. next_sending'[a] = IF next_sending[a] = f THEN next_sending[f] ELSE next_sending[a]
      BY <1>1, <1>4, <1>5, <2>1, <2>4
    <3>3. Reach(next_sending[a], next_sending) \ {f} \subseteq Reach(next_sending'[a], next_sending')
      <4>1. /\ f \in DOMAIN next_sending /\ prev \in DOMAIN next_sending
            /\ prev # f /\ next_sending[prev] = f
            /\ \A y \in DOMAIN next_sending : next_sending[y] = f => y = prev
            /\ DOMAIN next_sending' = DOMAIN next_sending
            /\ next_sending'[prev] = next_sending[f]
            /\ next_sending'[f] \notin DOMAIN next_sending
            /\ \A y \in DOMAIN next_sending \ {prev, f} : next_sending'[y] = next_sending[y]
        BY <1>1, <1>2, <1>5, <2>1, <2>2, <2>3, <2>4
      <4> QED
        BY <3>2, <4>1, ReachBypass
    <3> QED
      BY <3>1, <3>3 DEF Precedes
  <2> QED
    BY <2>5, <2>6
<1> QED
  BY <1>6, <1>7 DEF Unlink

\* Every step keeps the order of every queue.
LEMMA NextKeepsOrder ==
  ASSUME IInv, [Next]_vars
  PROVE  \A e \in Procs : KeepsOrder(e)
<1>1. ASSUME q_sending' = q_sending, next_sending' = next_sending
      PROVE  \A e \in Procs : KeepsOrder(e)
  BY <1>1, UntouchedKeepsOrder
<1>2. ASSUME NEW s \in Procs, NEW d \in Procs \ {s}, NEW m, Running(s), msg_send(s, d, m)
      PROVE  \A e \in Procs : KeepsOrder(e)
  <2>1. CASE Panic(m) \/ Deliver(s, d, m)
    BY <1>1, <2>1 DEF Panic, Deliver, ipc
  <2>2. CASE Enqueue(s, d, m)
    <3>1. p_flags[s] = {}
      BY <1>2 DEF IInv, RunningIsReady, Running
    <3> QED
      BY <2>2, <3>1, AppendKeepsOrder DEF Enqueue
  <2> QED
    BY <1>2, <2>1, <2>2 DEF msg_send
<1>3. ASSUME NEW r \in Procs, NEW src \in (Procs \ {r}) \cup {ANY}, NEW m,
             Running(r), msg_receive(r, src, m)
      PROVE  \A e \in Procs : KeepsOrder(e)
  <2>1. CASE Wait(r, src, m)
    BY <1>1, <2>1 DEF Wait
  <2>2. ASSUME NEW f \in Ready(r, src), Take(r, f, m)
        PROVE  \A e \in Procs : KeepsOrder(e)
    <3>1. f \in Queue(r)
      <4>1. CASE src = ANY
        BY <4>1, ReachStart DEF Ready, IInv, TypeOK, Queue
      <4>2. CASE src # ANY
        BY <4>2 DEF Ready, IInv, QueueMatchesSenders, Senders
      <4> QED
        BY <4>1, <4>2
    <3> QED
      BY <2>2, <3>1, UnlinkKeepsOrder DEF Take
  <2> QED
    BY <1>3, <2>1, <2>2 DEF msg_receive
<1>4. ASSUME NEW p \in Procs, NEW body \in Body, NEW d \in Procs \ {p},
             CallSend(p, d, body) \/ CallBoth(p, d, body)
      PROVE  \A e \in Procs : KeepsOrder(e)
  BY <1>2, <1>4 DEF CallSend, CallBoth
<1>5. ASSUME NEW p \in Procs, FinishBoth(p) PROVE \A e \in Procs : KeepsOrder(e)
  <2>1. after[p] \in Procs \ {p}
    BY <1>5 DEF FinishBoth, IInv, TypeOK, IdleUnlinked
  <2> QED
    BY <1>3, <1>5, <2>1 DEF FinishBoth
<1>6. ASSUME NEW p \in Procs, NEW src \in (Procs \ {p}) \cup {ANY}, CallReceive(p, src)
      PROVE  \A e \in Procs : KeepsOrder(e)
  BY <1>3, <1>6 DEF CallReceive
<1>7. CASE ClockTick \/ NestedTick \/ UNCHANGED vars
  BY <1>1, <1>7 DEF ClockTick, NestedTick, vars, ipc
<1> QED
  BY <1>4, <1>5, <1>6, <1>7 DEF Next

\* First come, first served: no step lets a sender overtake another in the queue
\* of one process, and a newcomer stands behind everybody.
THEOREM FirstComeFirstServed == Spec => FifoQueues
<1>1. IInv /\ [Next]_vars =>
        [\A d \in Procs : \A a \in Queue(d) \cap Queue(d)' : \A b \in Queue(d)' \ {a} :
           Precedes(a, b) \/ b \notin Queue(d) => Precedes(a, b)']_vars
  BY NextKeepsOrder DEF KeepsOrder
<1> QED
  BY <1>1, Invariance, PTL DEF Spec, FifoQueues
-----------------------------------------------------------------------------
(* The promise of module Rendezvous                                         *)

\* A message that waits in a queue says who sent it.
Signed == \A p \in Procs : SENDING \in p_flags[p] => mem[p].source = p

\* What the mapping makes of a queue: a sequence of the messages of its senders.
Listed(d) ==
  /\ IsList(Order(d), q_sending[d], next_sending)
  /\ Order(d) \in Seq(Procs)
  /\ Senders(d) = {Order(d)[i] : i \in 1 .. Len(Order(d))}
  /\ Pending[d] \in Seq(Message) /\ Len(Pending[d]) = Len(Order(d))
  /\ \A i \in 1 .. Len(Order(d)) : Pending[d][i] = mem[Order(d)[i]]

LEMMA QueuesListed == IInv => \A d \in Procs : Listed(d)
<1> SUFFICES ASSUME IInv, NEW d \in Procs PROVE Listed(d)
  OBVIOUS
<1>1. /\ next_sending \in [Procs -> Procs \cup {NULL}]
      /\ p_msg \in [Procs -> Procs \cup {NULL}]
      /\ mem \in [Procs -> Message]
      /\ Queue(d) = Senders(d)
  BY DEF IInv, TypeOK, QueueMatchesSenders
<1>2. Straight(q_sending[d], next_sending)
  <2>1. IsFiniteSet(Procs)
    <3>1. NR_TASKS + NR_PROCS - 1 \in Int
      BY TableAssumption
    <3> QED
      BY <3>1, FS_Interval DEF Procs
  <2>2. InjectiveOn(next_sending, Procs)
    BY DEF IInv, QueueMatchesSenders
  <2>3. \A y \in Procs : q_sending[d] \in Procs => next_sending[y] # q_sending[d]
    BY DEF IInv, QueueMatchesSenders
  <2>4. DOMAIN next_sending = Procs
    BY <1>1
  <2> QED
    BY <2>1, <2>2, <2>3, <2>4 DEF Straight
<1>3. IsList(Order(d), q_sending[d], next_sending)
  BY <1>2, InOrderIsList DEF Order
<1> DEFINE s == Order(d)
<1>4. s \in Seq(Procs)
  BY <1>1, <1>3 DEF IsList
<1>5. Senders(d) = {s[i] : i \in 1 .. Len(s)}
  BY <1>1, <1>3, ListRange DEF Queue
<1>6. \A i \in 1 .. Len(s) : s[i] \in Procs /\ p_msg[s[i]] = s[i] /\ mem[s[i]] \in Message
  <2>1. SUFFICES ASSUME NEW i \in 1 .. Len(s)
                 PROVE  s[i] \in Procs /\ p_msg[s[i]] = s[i] /\ mem[s[i]] \in Message
    OBVIOUS
  <2>2. s[i] \in Senders(d)
    BY <1>5
  <2>3. s[i] \in Procs /\ p_flags[s[i]] # {}
    BY <2>2 DEF Senders
  <2> QED
    BY <1>1, <2>3 DEF IInv, WellFormed
<1>7. Len(s) \in Nat /\ DOMAIN s = 1 .. Len(s)
  BY <1>4
<1>8. Pending[d] = [i \in 1 .. Len(s) |-> mem[p_msg[s[i]]]]
  BY <1>7 DEF Pending
<1> HIDE DEF s
<1>9. Pending[d] = [i \in 1 .. Len(s) |-> mem[s[i]]]
  BY <1>6, <1>8
<1>10. /\ Pending[d] \in Seq(Message) /\ Len(Pending[d]) = Len(s)
       /\ \A i \in 1 .. Len(s) : Pending[d][i] = mem[s[i]]
  BY <1>6, <1>7, <1>9
<1> QED
  BY <1>3, <1>4, <1>5, <1>10 DEF Listed, s

LEMMA QueuesListedNext == (IInv => \A d \in Procs : Listed(d))'
BY QueuesListed, PTL

\* The promise and the kernel agree on who sends to whom.
LEMMA SentToIs ==
  ASSUME IInv, Signed, NEW p \in Procs
  PROVE  Promise!SentTo(p) = IF SENDING \in p_flags[p] THEN {p_sendto[p]} ELSE {}
<1>1. \A d \in Procs : Listed(d)
  BY QueuesListed
<1>2. ASSUME NEW d \in Procs
      PROVE  (\E i \in DOMAIN Pending[d] : Pending[d][i].source = p) <=> p \in Senders(d)
  <2> DEFINE s == Order(d)
  <2>1. /\ Pending[d] \in Seq(Message) /\ Len(Pending[d]) = Len(s)
        /\ \A i \in 1 .. Len(s) : Pending[d][i] = mem[s[i]]
        /\ Senders(d) = {s[i] : i \in 1 .. Len(s)}
    BY <1>1 DEF Listed
  <2>2. DOMAIN Pending[d] = 1 .. Len(s)
    BY <2>1
  <2>3. \A i \in 1 .. Len(s) : mem[s[i]].source = s[i]
    BY <2>1 DEF Signed, Senders
  <2> HIDE DEF s
  <2>4. \A i \in 1 .. Len(s) : Pending[d][i].source = s[i]
    BY <2>1, <2>3
  <2> QED
    BY <2>1, <2>2, <2>4
<1>3. Promise!SentTo(p) = {d \in Procs : p \in Senders(d)}
  BY <1>2 DEF Promise!SentTo
<1>4. CASE SENDING \in p_flags[p]
  <2>1. p_sendto[p] \in Procs
    BY <1>4 DEF IInv, WellFormed
  <2> QED
    BY <1>3, <1>4, <2>1 DEF Senders
<1>5. CASE SENDING \notin p_flags[p]
  BY <1>3, <1>5 DEF Senders
<1> QED
  BY <1>4, <1>5

LEMMA BlockedIs ==
  ASSUME IInv, Signed, NEW p \in Procs
  PROVE  Promise!Blocked(p) <=> p_flags[p] # {}
<1>1. Promise!Blocked(p) <=> Waiting[p] # NULL \/ Promise!SentTo(p) # {}
  BY DEF Promise!Blocked
<1>2. Waiting[p] # NULL <=> RECEIVING \in p_flags[p]
  BY Values DEF Waiting, IInv, WellFormed
<1>3. Promise!SentTo(p) # {} <=> SENDING \in p_flags[p]
  BY SentToIs
<1>4. p_flags[p] \in {{}, {SENDING}, {RECEIVING}}
  BY DEF IInv, WellFormed
<1> QED
  BY <1>1, <1>2, <1>3, <1>4

\* The walk of deadlock() comes to a process that sends to s exactly if some set
\* of processes would only wait to send to each other.
LEMMA CircleIs ==
  ASSUME IInv, Signed, NEW s \in Procs, NEW d \in Procs \ {s}, p_flags[s] = {}
  PROVE  Promise!ClosesCircle(s, d) <=> deadlock(s, d)
<1> DEFINE C == Reach(d, SendLink)
<1>1. /\ DOMAIN SendLink = Procs /\ C \subseteq Procs /\ d \in C
      /\ NULL \notin Procs
  BY ReachStart, Values DEF SendLink, Reach
<1>2. \A p \in Procs : SendLink[p] = IF SENDING \in p_flags[p] THEN p_sendto[p] ELSE NULL
  BY DEF SendLink
<1>3. ASSUME NEW S \in SUBSET Procs, NEW p \in Procs
      PROVE  Promise!SentTo(p) \cap S # {} <=> SendLink[p] \in S
  BY <1>1, <1>2, SentToIs
<1>4. Promise!ClosesCircle(s, d) <=>
        \E S \in SUBSET Procs : {s, d} \subseteq S /\ \A p \in S \ {s} : SendLink[p] \in S
  BY <1>3 DEF Promise!ClosesCircle
<1> HIDE DEF C
<1>5. ASSUME NEW S \in SUBSET Procs, {s, d} \subseteq S,
             \A p \in S \ {s} : SendLink[p] \in S, ~deadlock(s, d)
      PROVE  FALSE
  <2>1. C \subseteq S
    <3>1. Closed(S, SendLink)
      BY <1>1, <1>2, <1>5 DEF Closed
    <3> QED
      BY <1>1, <1>5, <3>1, ReachLeast DEF C
  <2>2. s \notin C
    <3>1. ~ \E p \in C : SendLink[p] = s
      BY <1>5 DEF deadlock, C
    <3> QED
      BY <3>1, LastEdge DEF C
  <2>3. \A p \in C : SENDING \in p_flags[p] /\ p_sendto[p] \in C
    <3>1. SUFFICES ASSUME NEW p \in C PROVE SENDING \in p_flags[p] /\ p_sendto[p] \in C
      OBVIOUS
    <3>2. SendLink[p] \in Procs
      BY <1>5, <2>1, <2>2
    <3>3. SENDING \in p_flags[p] /\ p_sendto[p] = SendLink[p]
      BY <1>1, <1>2, <3>2
    <3> QED
      BY <1>1, <3>2, <3>3, ReachStep DEF C
  <2> QED
    BY <1>1, <2>3 DEF IInv, NoSendCycle
<1>6. ASSUME NEW p \in C, SendLink[p] = s
      PROVE  \E S \in SUBSET Procs : {s, d} \subseteq S /\ \A q \in S \ {s} : SendLink[q] \in S
  <2> DEFINE S == C \cup {s}
  <2>1. S \in SUBSET Procs /\ {s, d} \subseteq S
    BY <1>1
  <2>2. Reach(p, SendLink) = {p, s}
    <3>1. SendLink[s] \notin Procs
      BY <1>1, <1>2
    <3>2. Reach(s, SendLink) = {s}
      BY <1>1, <3>1, ReachUnfold, ReachNull
    <3> QED
      BY <1>1, <1>6, <3>2, ReachUnfold
  <2>3. ASSUME NEW q \in C, q # s PROVE SendLink[q] \in S
    <3>1. CASE q = p
      BY <1>6, <3>1
    <3>2. CASE q # p
      <4>1. p \in Reach(q, SendLink)
        BY <2>2, <2>3, <3>2, ReachLinear DEF C
      <4>2. q \in Procs
        BY <1>1
      <4>3. p \in Reach(SendLink[q], SendLink)
        BY <1>1, <3>2, <4>1, <4>2, ReachUnfold
      <4>4. SendLink[q] \in Procs
        BY <1>1, <4>3, ReachNull
      <4> QED
        BY <1>1, <4>4, ReachStep DEF C
    <3> QED
      BY <3>1, <3>2
  <2> QED
    BY <2>1, <2>3
<1> QED
  BY <1>4, <1>5, <1>6 DEF deadlock, C
\* The mapped state when a process that runs enters msg_send or msg_receive.
LEMMA CallerIs ==
  ASSUME IInv, Signed, NEW p \in Procs, Running(p)
  PROVE  /\ p_flags[p] = {} /\ ~Promise!Blocked(p) /\ kernel = "run"
         /\ p \notin UNION {Senders(d) : d \in Procs}
BY BlockedIs DEF IInv, RunningIsReady, Running, Senders

\* A queue whose senders and links stay, and with them their messages.
LEMMA PendingStays ==
  ASSUME IInv, IInv', NEW d \in Procs,
         q_sending'[d] = q_sending[d],
         \A p \in Senders(d) : next_sending'[p] = next_sending[p] /\ mem'[p] = mem[p]
  PROVE  Pending[d]' = Pending[d]
<1>1. Listed(d) /\ Listed(d)'
  BY QueuesListed, QueuesListedNext
<1> DEFINE s == Order(d)
<1>2. /\ IsList(s, q_sending[d], next_sending)
      /\ s \in Seq(Procs)
      /\ Senders(d) = {s[i] : i \in 1 .. Len(s)}
      /\ Pending[d] \in Seq(Message) /\ Len(Pending[d]) = Len(s)
      /\ \A i \in 1 .. Len(s) : Pending[d][i] = mem[s[i]]
  BY <1>1 DEF Listed
<1>3. /\ IsList(s', q_sending'[d], next_sending')
      /\ Pending[d]' \in Seq(Message') /\ Len(Pending[d]') = Len(s')
      /\ \A i \in 1 .. Len(s') : Pending[d]'[i] = mem'[s'[i]]
  BY <1>1 DEF Listed
<1>4. Message' = Message
  BY DEF Message
<1>5. s' = s
  <2>1. DOMAIN next_sending' = DOMAIN next_sending
    BY DEF IInv, TypeOK
  <2>2. \A i \in 1 .. Len(s) : next_sending'[s[i]] = next_sending[s[i]]
    BY <1>2
  <2>3. IsList(s, q_sending[d], next_sending')
    BY <1>2, <2>1, <2>2, ListAgree
  <2>4. IsList(s, q_sending'[d], next_sending')
    BY <2>3
  <2> QED
    BY <1>3, <2>4, ListUnique
<1> DEFINE a == Pending[d]
           b == Pending[d]'
<1>6. /\ a \in Seq(Message) /\ b \in Seq(Message) /\ Len(a) = Len(b)
      /\ \A i \in 1 .. Len(a) : a[i] = b[i]
  <2>1. \A i \in 1 .. Len(s) : mem'[s[i]] = mem[s[i]]
    BY <1>2
  <2> QED
    BY <1>2, <1>3, <1>4, <1>5, <2>1
<1>7. a = b
  <2> HIDE DEF a, b
  <2> QED
    BY <1>6, SeqEqual
<1> QED
  BY <1>7

LEMMA WaitingStays ==
  ASSUME p_flags' = p_flags, p_recvfrom' = p_recvfrom
  PROVE  Waiting' = Waiting
BY DEF Waiting

LEMMA PanicPromised ==
  ASSUME IInv, IInv', Signed, NEW s \in Procs, NEW d \in Procs \ {s},
         NEW body \in Body \cup {Zero}, Running(s), deadlock(s, d),
         Panic(Stamped(s, body))
  PROVE  Promise!Send(s, d, body)
<1>1. kernel = "run" /\ ~Promise!Blocked(s) /\ \A e \in Procs : s \notin Senders(e)
  BY CallerIs
<1>2. Promise!ClosesCircle(s, d)
  BY CallerIs, CircleIs
<1>3. /\ kernel' = "halt" /\ mem' = Stamped(s, body)
      /\ UNCHANGED <<p_flags, p_msg, p_recvfrom, p_sendto, q_sending, next_sending>>
  BY DEF Panic, ipc
<1>4. /\ mem' = [mem EXCEPT ![s] = [source |-> s, body |-> body]]
      /\ \A p \in Procs \ {s} : mem'[p] = mem[p]
  <2>1. /\ Stamped(s, body) = [mem EXCEPT ![s] = [source |-> s, body |-> body]]
        /\ \A q \in Procs \ {s} : Stamped(s, body)[q] = mem[q]
    BY DEF Stamped, IInv, TypeOK
  <2> QED
    BY <1>3, <2>1
<1>5. \A e \in Procs : Pending[e]' = Pending[e]
  BY <1>1, <1>3, <1>4, PendingStays DEF Senders
<1>6. Pending' = Pending
  BY <1>5 DEF Pending
<1>7. Waiting' = Waiting
  BY <1>3, WaitingStays
<1>8. ~(kernel = "halt") /\ (kernel = "halt")' = TRUE
  BY <1>1, <1>3
<1> QED
  BY <1>1, <1>2, <1>4, <1>6, <1>7, <1>8 DEF Promise!Send
LEMMA DeliverPromised ==
  ASSUME IInv, IInv', Signed, NEW s \in Procs, NEW d \in Procs \ {s},
         NEW body \in Body \cup {Zero}, Running(s), ~deadlock(s, d), Awaits(d, s),
         Deliver(s, d, Stamped(s, body))
  PROVE  Promise!Send(s, d, body)
<1> DEFINE message == [source |-> s, body |-> body]
           written == [mem EXCEPT ![s] = message]
<1>1. /\ kernel = "run" /\ ~Promise!Blocked(s) /\ ~Promise!ClosesCircle(s, d)
      /\ \A e \in Procs : s \notin Senders(e)
  BY CallerIs, CircleIs
<1>2. p_flags[d] = {RECEIVING} /\ p_msg[d] = d
  BY Values DEF IInv, TypeOK, WellFormed, Awaits
<1>3. \A e \in Procs : d \notin Senders(e)
  BY <1>2, Values DEF Senders
<1>4. /\ p_flags' = [p_flags EXCEPT ![d] = {}]
      /\ p_recvfrom' = [p_recvfrom EXCEPT ![d] = NO_TASK]
      /\ UNCHANGED <<q_sending, next_sending, kernel>>
  <2>1. p_flags' = [p_flags EXCEPT ![d] = @ \ {RECEIVING}]
        /\ p_recvfrom' = [p_recvfrom EXCEPT ![d] = NO_TASK]
        /\ UNCHANGED <<q_sending, next_sending, kernel>>
    BY DEF Deliver, sched
  <2>2. p_flags[d] \ {RECEIVING} = {}
    BY <1>2
  <2> QED
    BY <2>1, <2>2, Zenon
<1>5. mem' = [written EXCEPT ![d] = message]
  <2>1. Stamped(s, body) = written /\ written[s] = message
    BY DEF Stamped, IInv, TypeOK
  <2>2. mem' = [Stamped(s, body) EXCEPT ![d] = Stamped(s, body)[s]]
    BY <1>2 DEF Deliver
  <2> HIDE DEF written, message
  <2> QED
    BY <2>1, <2>2
<1>6. \A p \in Procs \ {s, d} : mem'[p] = mem[p]
  BY <1>5 DEF IInv, TypeOK
<1>7. \A e \in Procs : Pending[e]' = Pending[e]
  <2>1. ASSUME NEW e \in Procs, NEW p \in Senders(e)
        PROVE  next_sending'[p] = next_sending[p] /\ mem'[p] = mem[p]
    BY <1>1, <1>3, <1>4, <1>6, <2>1 DEF Senders
  <2> QED
    BY <1>4, <2>1, PendingStays
<1>8. Pending' = Pending
  BY <1>7 DEF Pending
<1>9. Waiting[d] \in {s, ANY}
  BY DEF Awaits, Waiting
<1>10. Waiting' = [Waiting EXCEPT ![d] = NULL]
  BY <1>4 DEF Waiting, IInv, TypeOK
<1>11. ~(kernel = "halt") /\ ((kernel = "halt")' <=> (kernel = "halt"))
  BY <1>1, <1>4
<1> QED
  BY <1>1, <1>5, <1>8, <1>9, <1>10, <1>11 DEF Promise!Send

\* A list of senders and the links of its entries.
LEMMA OrderIs ==
  ASSUME IInv, NEW d \in Procs, NEW s, s = Order(d)
  PROVE  /\ IsList(s, q_sending[d], next_sending)
         /\ s \in Seq(Procs) /\ Len(s) \in Nat
         /\ Queue(d) = {s[i] : i \in 1 .. Len(s)} /\ Senders(d) = Queue(d)
         /\ \A i, j \in 1 .. Len(s) : s[i] = s[j] => i = j
         /\ \A i \in 1 .. Len(s) : s[i] \in Procs /\ (i < Len(s) => next_sending[s[i]] = s[i + 1])
         /\ Len(s) = 0 <=> q_sending[d] = NULL
         /\ Len(s) > 0 => q_sending[d] = s[1]
<1>1. Listed(d) /\ Queue(d) = Senders(d)
  BY QueuesListed DEF IInv, QueueMatchesSenders
<1>2. DOMAIN next_sending = Procs /\ q_sending[d] \in Procs \cup {NULL} /\ NULL \notin Procs
  BY Values DEF IInv, TypeOK
<1>3. /\ IsList(s, q_sending[d], next_sending)
      /\ s \in Seq(Procs) /\ Len(s) \in Nat
      /\ Senders(d) = {s[i] : i \in 1 .. Len(s)}
  BY <1>1 DEF Listed
<1>4. /\ Len(s) = 0 => q_sending[d] \notin Procs
      /\ Len(s) > 0 => s[1] = q_sending[d]
      /\ \A i \in 1 .. Len(s) - 1 : s[i + 1] = next_sending[s[i]]
      /\ \A i, j \in 1 .. Len(s) : s[i] = s[j] => i = j
  BY <1>2, <1>3 DEF IsList
<1>5. \A i \in 1 .. Len(s) : s[i] \in Procs
  BY <1>3
<1>6. \A i \in 1 .. Len(s) : i < Len(s) => i \in 1 .. Len(s) - 1
  BY <1>3
<1>7. Len(s) = 0 \/ (Len(s) > 0 /\ 1 \in 1 .. Len(s))
  BY <1>3
<1> QED
  BY <1>1, <1>2, <1>3, <1>4, <1>5, <1>6, <1>7

LEMMA AppendListed ==
  ASSUME IInv, IInv', NEW s \in Procs, NEW d \in Procs, p_flags[s] = {}, AppendTo(d, s)
  PROVE  /\ Order(d)' = Append(Order(d), s)
         /\ \A e \in Procs \ {d} : /\ q_sending'[e] = q_sending[e]
                                   /\ \A p \in Senders(e) : next_sending'[p] = next_sending[p]
<1> DEFINE o == Order(d)
           m == Len(o)
<1>1. /\ IsList(o, q_sending[d], next_sending)
      /\ o \in Seq(Procs) /\ m \in Nat
      /\ Queue(d) = {o[i] : i \in 1 .. m} /\ Senders(d) = Queue(d)
      /\ \A i, j \in 1 .. m : o[i] = o[j] => i = j
      /\ \A i \in 1 .. m : o[i] \in Procs /\ (i < m => next_sending[o[i]] = o[i + 1])
      /\ m = 0 <=> q_sending[d] = NULL
      /\ m > 0 => q_sending[d] = o[1]
  BY OrderIs
<1>2. IsList(o', q_sending'[d], next_sending')
  BY QueuesListed, QueuesListedNext DEF Listed
<1>3. /\ q_sending \in [Procs -> Procs \cup {NULL}]
      /\ next_sending \in [Procs -> Procs \cup {NULL}]
      /\ NULL \notin Procs /\ DOMAIN next_sending' = DOMAIN next_sending
  BY Values DEF IInv, TypeOK
<1>4. /\ \A e \in Procs : s \notin Senders(e)
      /\ \A e \in Procs \ {d} : Senders(e) \cap Queue(d) = {}
      /\ next_sending[s] = NULL
  BY RunnerUnlinked, <1>1 DEF Senders
<1> HIDE DEF o, m
<1>5. /\ next_sending'[s] = NULL
      /\ \A i \in 1 .. m : next_sending'[o[i]] = IF i = m THEN s ELSE next_sending[o[i]]
      /\ q_sending'[d] = IF m = 0 THEN s ELSE q_sending[d]
      /\ \A e \in Procs \ {d} : q_sending'[e] = q_sending[e]
      /\ \A p \in Procs \ ({s} \cup Queue(d)) : next_sending'[p] = next_sending[p]
  <2>1. CASE q_sending[d] = NULL
    <3>1. m = 0 /\ 1 .. m = {}
      BY <1>1, <2>1
    <3>2. /\ q_sending' = [q_sending EXCEPT ![d] = s]
          /\ next_sending' = [next_sending EXCEPT ![s] = NULL]
      BY <2>1 DEF AppendTo
    <3> QED
      BY <1>3, <3>1, <3>2
  <2>2. CASE q_sending[d] # NULL
    <3>1. PICK tail \in Queue(d) :
            /\ next_sending[tail] = NULL
            /\ next_sending' = [next_sending EXCEPT ![tail] = s, ![s] = NULL]
            /\ q_sending' = q_sending
      BY <2>2 DEF AppendTo
    <3>2. tail \in Procs /\ tail # s
      BY <1>1, <1>4, <3>1
    <3>3. m # 0
      BY <1>1, <2>2
    <3>4. tail = o[m]
      <4>1. PICK k \in 1 .. m : tail = o[k]
        BY <1>1, <3>1
      <4>2. SUFFICES ASSUME k < m PROVE FALSE
        BY <1>1, <4>1
      <4>3. k + 1 \in 1 .. m
        BY <1>1, <4>2
      <4> QED
        BY <1>1, <1>3, <3>1, <4>1, <4>2, <4>3
    <3>5. /\ next_sending'[tail] = s /\ next_sending'[s] = NULL
          /\ \A p \in Procs \ {tail, s} : next_sending'[p] = next_sending[p]
      BY <1>3, <3>1, <3>2
    <3>6. ASSUME NEW i \in 1 .. m
          PROVE  next_sending'[o[i]] = IF i = m THEN s ELSE next_sending[o[i]]
      <4>1. o[i] \in Procs /\ o[i] # s /\ m \in 1 .. m
        BY <1>1, <1>4, <3>3
      <4>2. o[i] = tail <=> i = m
        BY <1>1, <3>4, <4>1
      <4> QED
        BY <3>5, <4>1, <4>2
    <3> QED
      BY <3>1, <3>3, <3>5, <3>6
  <2> QED
    BY <2>1, <2>2
<1>6. IsList(Append(o, s), q_sending'[d], next_sending')
  <2>1. \A i \in 1 .. m : o[i] # s
    BY <1>1, <1>4
  <2>2. DOMAIN next_sending = Procs
    BY <1>3
  <2> QED
    BY <1>1, <1>3, <1>5, <2>1, <2>2, ListAppend DEF m
<1>7. o' = Append(o, s)
  BY <1>2, <1>6, ListUnique
<1>8. \A e \in Procs \ {d} : \A p \in Senders(e) : next_sending'[p] = next_sending[p]
  BY <1>4, <1>5 DEF Senders
<1> QED
  BY <1>5, <1>7, <1>8 DEF o
LEMMA EnqueuePromised ==
  ASSUME IInv, IInv', Signed, NEW s \in Procs, NEW d \in Procs \ {s},
         NEW body \in Body \cup {Zero}, Running(s), ~deadlock(s, d), ~Awaits(d, s),
         Enqueue(s, d, Stamped(s, body))
  PROVE  Promise!Send(s, d, body)
<1> DEFINE message == [source |-> s, body |-> body]
<1>1. /\ kernel = "run" /\ ~Promise!Blocked(s) /\ ~Promise!ClosesCircle(s, d)
      /\ p_flags[s] = {} /\ \A e \in Procs : s \notin Senders(e)
  BY CallerIs, CircleIs
<1>2. /\ p_flags' = [p_flags EXCEPT ![s] = {SENDING}]
      /\ mem' = Stamped(s, body) /\ p_recvfrom' = p_recvfrom
      /\ AppendTo(d, s)
  BY <1>1 DEF Enqueue, IInv, TypeOK
<1>3. kernel' \in {"run", "spin"}
  BY <1>1, ScheduleChooses DEF Enqueue, IInv, TypeOK
<1>4. /\ mem' = [mem EXCEPT ![s] = message] /\ mem'[s] = message
      /\ \A p \in Procs \ {s} : mem'[p] = mem[p]
  BY <1>2 DEF Stamped, IInv, TypeOK
<1>5. /\ Order(d)' = Append(Order(d), s)
      /\ \A e \in Procs \ {d} : /\ q_sending'[e] = q_sending[e]
                                /\ \A p \in Senders(e) : next_sending'[p] = next_sending[p]
  BY <1>1, <1>2, AppendListed
<1>6. \A e \in Procs \ {d} : Pending[e]' = Pending[e]
  BY <1>1, <1>4, <1>5, PendingStays DEF Senders
<1>7. Pending[d]' = Append(Pending[d], message)
  <2> DEFINE o == Order(d)
             m == Len(o)
             a == Pending[d]
             b == Pending[d]'
  <2>1. /\ o \in Seq(Procs) /\ m \in Nat /\ Senders(d) = {o[i] : i \in 1 .. m}
        /\ a \in Seq(Message) /\ Len(a) = m
        /\ \A i \in 1 .. m : a[i] = mem[o[i]]
    BY QueuesListed DEF Listed
  <2>2. /\ b \in Seq(Message') /\ Len(b) = Len(Order(d)')
        /\ \A i \in 1 .. Len(Order(d)') : b[i] = mem'[Order(d)'[i]]
    BY QueuesListed, QueuesListedNext DEF Listed
  <2>3. Message' = Message /\ message \in Message
    BY DEF Message
  <2>4. ASSUME NEW i \in 1 .. m PROVE mem'[o[i]] = mem[o[i]]
    <3>1. o[i] \in Senders(d)
      BY <2>1
    <3> QED
      BY <1>1, <1>4, <3>1 DEF Senders
  <2>5. /\ Len(Order(d)') = m + 1 /\ Order(d)'[m + 1] = s
        /\ \A i \in 1 .. m : Order(d)'[i] = o[i]
    BY <1>5, <2>1, AppendProperties
  <2> HIDE DEF o, m, a, b, message
  <2>6. /\ Len(b) = m + 1 /\ b[m + 1] = message
        /\ \A i \in 1 .. m : b[i] = a[i]
    <3>1. Len(b) = m + 1 /\ \A i \in 1 .. m + 1 : b[i] = mem'[Order(d)'[i]]
      BY <2>2, <2>5
    <3>2. m + 1 \in 1 .. m + 1 /\ \A i \in 1 .. m : i \in 1 .. m + 1
      BY <2>1
    <3>3. b[m + 1] = message
      BY <1>4, <2>5, <3>1, <3>2
    <3>4. \A i \in 1 .. m : b[i] = a[i]
      BY <2>1, <2>4, <2>5, <3>1, <3>2
    <3> QED
      BY <3>1, <3>3, <3>4
  <2>7. /\ Append(a, message) \in Seq(Message) /\ Len(Append(a, message)) = m + 1
        /\ Append(a, message)[m + 1] = message
        /\ \A i \in 1 .. m : Append(a, message)[i] = a[i]
    BY <2>1, <2>3, AppendProperties
  <2>8. \A i \in 1 .. m + 1 : b[i] = Append(a, message)[i]
    <3>1. \A i \in 1 .. m + 1 : i \in 1 .. m \/ i = m + 1
      BY <2>1
    <3> QED
      BY <2>6, <2>7, <3>1
  <2>9. b = Append(a, message)
    BY <2>2, <2>3, <2>6, <2>7, <2>8, SeqEqual
  <2> QED
    BY <2>9 DEF a, b
<1>8. Pending' = [Pending EXCEPT ![d] = Append(@, message)]
  BY <1>6, <1>7 DEF Pending
<1>9. Waiting[d] \notin {s, ANY}
  BY Values DEF Waiting, Awaits
<1>10. Waiting' = Waiting
  BY <1>1, <1>2, Values DEF Waiting, IInv, TypeOK
<1>11. ~(kernel = "halt") /\ ((kernel = "halt")' <=> (kernel = "halt"))
  BY <1>1, <1>3
<1> QED
  BY <1>1, <1>4, <1>8, <1>9, <1>10, <1>11 DEF Promise!Send

\* The sender f, the k-th of its queue, leaves it.
LEMMA UnlinkListed ==
  ASSUME IInv, IInv', NEW r \in Procs, NEW k \in 1 .. Len(Order(r)),
         NEW f, f = Order(r)[k], Unlink(r, f)
  PROVE  /\ Without(Order(r)', Order(r), k)
         /\ \A e \in Procs \ {r} : /\ q_sending'[e] = q_sending[e]
                                   /\ \A p \in Senders(e) : next_sending'[p] = next_sending[p]
<1> DEFINE o == Order(r)
           m == Len(o)
           t == [i \in 1 .. m - 1 |-> IF i < k THEN o[i] ELSE o[i + 1]]
<1>1. /\ IsList(o, q_sending[r], next_sending)
      /\ o \in Seq(Procs) /\ m \in Nat
      /\ Queue(r) = {o[i] : i \in 1 .. m} /\ Senders(r) = Queue(r)
      /\ \A i, j \in 1 .. m : o[i] = o[j] => i = j
      /\ \A i \in 1 .. m : o[i] \in Procs /\ (i < m => next_sending[o[i]] = o[i + 1])
      /\ m > 0 => q_sending[r] = o[1]
  BY OrderIs
<1>2. IsList(o', q_sending'[r], next_sending')
  BY QueuesListed, QueuesListedNext DEF Listed
<1>3. /\ q_sending \in [Procs -> Procs \cup {NULL}]
      /\ next_sending \in [Procs -> Procs \cup {NULL}]
      /\ NULL \notin Procs /\ DOMAIN next_sending' = DOMAIN next_sending
  BY Values DEF IInv, TypeOK
<1>4. \A e \in Procs \ {r} : Senders(e) \cap Queue(r) = {}
  BY <1>1 DEF Senders
<1>5. k \in 1 .. m /\ f = o[k] /\ f \in Procs /\ 1 \in 1 .. m /\ m > 0
  BY <1>1
<1> HIDE DEF o, m
<1>6. t \in Seq(Procs) /\ Len(t) = m - 1
  <2>1. m - 1 \in Nat
    BY <1>1, <1>5
  <2>2. \A i \in 1 .. m - 1 : i \in 1 .. m /\ i + 1 \in 1 .. m
    BY <1>1
  <2>3. \A i \in 1 .. m - 1 : t[i] \in Procs
    BY <1>1, <2>2
  <2> QED
    BY <2>1, <2>3
<1>7. /\ \A i \in 1 .. m : i # k =>
           next_sending'[o[i]] = IF i + 1 = k THEN next_sending[o[k]] ELSE next_sending[o[i]]
      /\ q_sending'[r] = IF k = 1 THEN next_sending[q_sending[r]] ELSE q_sending[r]
      /\ \A e \in Procs \ {r} : q_sending'[e] = q_sending[e]
      /\ \A p \in Procs \ Queue(r) : next_sending'[p] = next_sending[p]
  <2>1. CASE /\ f = q_sending[r]
             /\ q_sending' = [q_sending EXCEPT ![r] = next_sending[f]]
             /\ next_sending' = [next_sending EXCEPT ![f] = NULL]
    <3>1. k = 1
      BY <1>1, <1>5, <2>1
    <3>2. \A i \in 1 .. m : i # k => o[i] # f /\ o[i] \in Procs /\ i + 1 # k
      BY <1>1, <1>5, <3>1
    <3>3. f \in Queue(r)
      BY <1>1, <1>5
    <3> QED
      BY <1>3, <2>1, <3>1, <3>2, <3>3
  <2>2. CASE /\ f # q_sending[r]
             /\ \E prev \in Queue(r) :
                  /\ next_sending[prev] = f
                  /\ next_sending' = [next_sending EXCEPT ![prev] = next_sending[f], ![f] = NULL]
             /\ q_sending' = q_sending
    <3>1. PICK prev \in Queue(r) :
            /\ next_sending[prev] = f
            /\ next_sending' = [next_sending EXCEPT ![prev] = next_sending[f], ![f] = NULL]
      BY <2>2
    <3>2. k # 1
      BY <1>1, <1>5, <2>2
    <3>3. k - 1 \in 1 .. m /\ k - 1 < m /\ (k - 1) + 1 = k /\ k - 1 # k
      BY <1>1, <1>5, <3>2
    <3>4. next_sending[o[k - 1]] = f /\ o[k - 1] \in Procs /\ o[k - 1] # f
      BY <1>1, <1>5, <3>3
    <3>5. prev = o[k - 1]
      <4>1. prev \in Procs
        BY <1>1
      <4>2. \A a, b \in Procs : next_sending[a] = next_sending[b] /\ next_sending[a] \in Procs => a = b
        BY DEF IInv, QueueMatchesSenders, InjectiveOn, TypeOK
      <4> QED
        BY <1>5, <3>1, <3>4, <4>1, <4>2
    <3>6. /\ next_sending'[prev] = next_sending[f]
          /\ \A p \in Procs \ {prev, f} : next_sending'[p] = next_sending[p]
      BY <1>3, <1>5, <3>1, <3>4, <3>5
    <3>7. ASSUME NEW i \in 1 .. m, i # k
          PROVE  next_sending'[o[i]] = IF i + 1 = k THEN next_sending[o[k]] ELSE next_sending[o[i]]
      <4>1. CASE i + 1 = k
        <5>1. i = k - 1
          BY <1>1, <3>3, <4>1
        <5> QED
          BY <1>5, <3>5, <3>6, <4>1, <5>1
      <4>2. CASE i + 1 # k
        <5>1. i # k - 1
          BY <1>1, <3>3, <4>2
        <5>2. o[i] \in Procs \ {prev, f}
          BY <1>1, <1>5, <3>3, <3>5, <3>7, <5>1
        <5> QED
          BY <3>6, <4>2, <5>2
      <4> QED
        BY <4>1, <4>2
    <3>8. f \in Queue(r)
      BY <1>1, <1>5
    <3> QED
      BY <2>2, <3>2, <3>6, <3>7, <3>8
  <2> QED
    BY <2>1, <2>2 DEF Unlink
<1>8. IsList(t, q_sending'[r], next_sending')
  <2>1. t \in Seq(DOMAIN next_sending) /\ k \in 1 .. Len(o) /\ Len(t) = Len(o) - 1
    BY <1>3, <1>5, <1>6 DEF m
  <2>2. Without(t, o, k)
    BY <1>6 DEF Without, m
  <2>3. LeadsPast(next_sending', next_sending, o, k)
    BY <1>3, <1>7 DEF LeadsPast, m
  <2> HIDE DEF t
  <2> QED
    BY <1>1, <1>7, <2>1, <2>2, <2>3, ListRemove
<1>9. o' = t
  BY <1>2, <1>8, ListUnique
<1>10. \A e \in Procs \ {r} : \A p \in Senders(e) : next_sending'[p] = next_sending[p]
  BY <1>4, <1>7 DEF Senders
<1> QED
  BY <1>6, <1>7, <1>9, <1>10 DEF o, m, Without
LEMMA RemoveAtIs ==
  ASSUME NEW S, NEW s \in Seq(S), NEW k \in 1 .. Len(s)
  PROVE  Promise!RemoveAt(s, k) \in Seq(S) /\ Without(Promise!RemoveAt(s, k), s, k)
<1> DEFINE m == Len(s)
           a == SubSeq(s, 1, k - 1)
           b == SubSeq(s, k + 1, m)
<1>1. m \in Nat /\ k \in 1 .. m /\ \A i \in 1 .. m : s[i] \in S
  OBVIOUS
<1>2. /\ a \in Seq(S) /\ Len(a) = k - 1
      /\ \A i \in 1 .. k - 1 : a[i] = s[i]
  <2>1. 1 \in Int /\ k - 1 \in Int /\ \A i \in 1 .. k - 1 : s[i] \in S
    BY <1>1
  <2>2. /\ a \in Seq(S) /\ Len(a) = IF 1 =< k - 1 THEN (k - 1) - 1 + 1 ELSE 0
        /\ \A i \in 1 .. (k - 1) - 1 + 1 : a[i] = s[1 + i - 1]
    BY <2>1, SubSeqProperties
  <2>3. (k - 1) - 1 + 1 = k - 1 /\ \A i \in 1 .. k - 1 : 1 + i - 1 = i
    BY <1>1
  <2> HIDE DEF a
  <2> QED
    BY <1>1, <2>2, <2>3
<1>3. /\ b \in Seq(S) /\ Len(b) = m - k
      /\ \A i \in 1 .. m - k : b[i] = s[k + i]
  <2>1. k + 1 \in Int /\ m \in Int /\ \A i \in k + 1 .. m : s[i] \in S
    BY <1>1
  <2>2. /\ b \in Seq(S) /\ Len(b) = IF k + 1 =< m THEN m - (k + 1) + 1 ELSE 0
        /\ \A i \in 1 .. m - (k + 1) + 1 : b[i] = s[(k + 1) + i - 1]
    BY <2>1, SubSeqProperties
  <2>3. /\ (m - (k + 1)) + 1 = m - k
        /\ m - k = IF k + 1 =< m THEN (m - (k + 1)) + 1 ELSE 0
        /\ \A i \in 1 .. m - k : (k + 1) + (i - 1) = k + i
    BY <1>1
  <2> HIDE DEF b, m
  <2>4. Len(b) = m - k
    BY <2>2, <2>3
  <2>5. \A i \in 1 .. m - k : b[i] = s[k + i]
    BY <2>2, <2>3
  <2> QED
    BY <2>2, <2>4, <2>5
<1>4. Promise!RemoveAt(s, k) = a \o b
  BY DEF Promise!RemoveAt
<1> HIDE DEF m, a, b
<1>5. /\ a \o b \in Seq(S) /\ Len(a \o b) = m - 1
      /\ \A i \in 1 .. m - 1 : (a \o b)[i] = IF i =< k - 1 THEN a[i] ELSE b[i - (k - 1)]
  <2>1. Len(a) + Len(b) = m - 1
    BY <1>1, <1>2, <1>3
  <2> QED
    BY <1>2, <1>3, <2>1, ConcatProperties
<1>6. ASSUME NEW i \in 1 .. m - 1
      PROVE  (a \o b)[i] = IF i < k THEN s[i] ELSE s[i + 1]
  <2>1. CASE i < k
    <3>1. i \in 1 .. k - 1
      BY <1>1, <2>1
    <3> QED
      BY <1>2, <1>5, <2>1, <3>1
  <2>2. CASE ~(i < k)
    <3>1. i - (k - 1) \in 1 .. m - k /\ ~(i =< k - 1) /\ k + (i - (k - 1)) = i + 1
      BY <1>1, <2>2
    <3> QED
      BY <1>3, <1>5, <2>2, <3>1
  <2> QED
    BY <2>1, <2>2
<1> QED
  BY <1>4, <1>5, <1>6 DEF Without, m

LEMMA TakePromised ==
  ASSUME IInv, IInv', Signed, NEW r \in Procs, NEW src \in (Procs \ {r}) \cup {ANY},
         NEW body \in Body \cup {Zero}, Running(r), NEW f \in Ready(r, src),
         Take(r, f, Stamped(r, body))
  PROVE  Promise!Receive(r, src, body)
<1> DEFINE o == Order(r)
           m == Len(o)
           a == Pending[r]
           b == Pending[r]'
<1>1. kernel = "run" /\ ~Promise!Blocked(r) /\ \A e \in Procs : r \notin Senders(e)
  BY CallerIs
<1>2. /\ IsList(o, q_sending[r], next_sending)
      /\ o \in Seq(Procs) /\ m \in Nat
      /\ Queue(r) = {o[i] : i \in 1 .. m} /\ Senders(r) = Queue(r)
      /\ \A i, j \in 1 .. m : o[i] = o[j] => i = j
      /\ \A i \in 1 .. m : o[i] \in Procs /\ (i < m => next_sending[o[i]] = o[i + 1])
      /\ m = 0 <=> q_sending[r] = NULL
      /\ m > 0 => q_sending[r] = o[1]
  BY OrderIs
<1>3. /\ a \in Seq(Message) /\ Len(a) = m
      /\ \A i \in 1 .. m : a[i] = mem[o[i]]
  BY QueuesListed DEF Listed
<1>4. /\ b \in Seq(Message') /\ Len(b) = Len(Order(r)')
      /\ \A i \in 1 .. Len(Order(r)') : b[i] = mem'[Order(r)'[i]]
  BY QueuesListed, QueuesListedNext DEF Listed
<1> HIDE DEF o, m, a, b
<1>5. f \in Senders(r)
  <2>1. CASE src = ANY
    <3>1. m > 0 /\ f = o[1] /\ 1 \in 1 .. m
      BY <1>2, <2>1 DEF Ready
    <3> QED
      BY <1>2, <3>1
  <2>2. CASE src # ANY
    BY <2>2 DEF Ready, Senders
  <2> QED
    BY <2>1, <2>2
<1>6. PICK k \in 1 .. m : f = o[k]
  BY <1>2, <1>5
<1>7. f \in Procs /\ f # r /\ p_flags[f] = {SENDING} /\ p_msg[f] = f
  BY <1>1, <1>5, Values DEF Senders, IInv, WellFormed
<1>8. /\ p_flags' = [p_flags EXCEPT ![f] = {}]
      /\ UNCHANGED <<p_recvfrom, kernel>>
      /\ Unlink(r, f)
  <2>1. p_flags' = [p_flags EXCEPT ![f] = @ \ {SENDING}]
        /\ UNCHANGED <<p_recvfrom, kernel>> /\ Unlink(r, f)
    BY DEF Take, sched
  <2>2. p_flags[f] \ {SENDING} = {}
    BY <1>7
  <2> QED
    BY <2>1, <2>2, Zenon
<1>9. mem' = [mem EXCEPT ![r] = mem[f]] /\ \A p \in Procs \ {r} : mem'[p] = mem[p]
  <2>1. mem' = [Stamped(r, body) EXCEPT ![r] = Stamped(r, body)[f]]
    BY <1>7 DEF Take
  <2>2. Stamped(r, body)[f] = mem[f]
    BY <1>7 DEF Stamped, IInv, TypeOK
  <2>3. mem' = [mem EXCEPT ![r] = mem[f]]
    BY <2>1, <2>2 DEF Stamped, IInv, TypeOK
  <2> QED
    BY <2>3 DEF IInv, TypeOK
<1>10. /\ Without(Order(r)', o, k)
       /\ \A e \in Procs \ {r} : /\ q_sending'[e] = q_sending[e]
                                 /\ \A p \in Senders(e) : next_sending'[p] = next_sending[p]
  BY <1>6, <1>8, UnlinkListed DEF o, m
<1>11. \A e \in Procs \ {r} : Pending[e]' = Pending[e]
  BY <1>1, <1>9, <1>10, PendingStays DEF Senders
<1>12. b = Promise!RemoveAt(a, k)
  <2> DEFINE c == Promise!RemoveAt(a, k)
  <2>1. c \in Seq(Message) /\ Without(c, a, k)
    BY <1>3, <1>6, RemoveAtIs
  <2>2. b \in Seq(Message)
    BY <1>4 DEF Message
  <2> HIDE DEF c
  <2>3. /\ Len(c) = m - 1 /\ Len(b) = m - 1
        /\ \A i \in 1 .. m - 1 : c[i] = IF i < k THEN a[i] ELSE a[i + 1]
        /\ \A i \in 1 .. m - 1 : b[i] = mem'[IF i < k THEN o[i] ELSE o[i + 1]]
    BY <1>3, <1>4, <1>10, <2>1 DEF Without, m
  <2>4. ASSUME NEW i \in 1 .. m PROVE mem'[o[i]] = mem[o[i]] /\ a[i] = mem[o[i]]
    <3>1. o[i] \in Senders(r)
      BY <1>2
    <3> QED
      BY <1>1, <1>3, <1>9, <3>1 DEF Senders
  <2>5. \A i \in 1 .. m - 1 : b[i] = c[i]
    <3>1. \A i \in 1 .. m - 1 : i \in 1 .. m /\ i + 1 \in 1 .. m
      BY <1>2
    <3> QED
      BY <2>3, <2>4, <3>1
  <2>6. b = c
    BY <2>1, <2>2, <2>3, <2>5, SeqEqual
  <2> QED
    BY <2>6 DEF c
<1>13. Pending' = [Pending EXCEPT ![r] = Promise!RemoveAt(@, k)]
  BY <1>11, <1>12 DEF Pending, a, b
<1>14. k \in Promise!Suits(Pending[r], src) /\ \A i \in Promise!Suits(Pending[r], src) : k =< i
  <2>1. DOMAIN a = 1 .. m
    BY <1>3
  <2>2. \A i \in 1 .. m : a[i].source = o[i]
    BY <1>2, <1>3 DEF Signed, Senders
  <2>3. Promise!Suits(a, src) = {i \in 1 .. m : src = o[i] \/ src = ANY}
    BY <2>1, <2>2 DEF Promise!Suits
  <2>4. CASE src = ANY
    <3>1. k = 1
      BY <1>2, <1>6, <2>4 DEF Ready
    <3>2. Promise!Suits(a, src) = 1 .. m
      BY <2>3, <2>4
    <3>3. \A i \in 1 .. m : 1 =< i
      BY <1>2
    <3> QED
      BY <1>6, <3>1, <3>2, <3>3 DEF a
  <2>5. CASE src # ANY
    <3>1. f = src
      BY <2>5 DEF Ready
    <3>2. Promise!Suits(a, src) = {k}
      <4>1. \A i, j \in 1 .. m : o[i] = o[j] => i = j
        BY <1>2
      <4>2. \A i \in 1 .. m : src = o[i] <=> i = k
        BY <1>6, <3>1, <4>1
      <4> QED
        BY <1>6, <2>3, <2>5, <4>2
    <3> QED
      BY <1>2, <3>2 DEF a
  <2> QED
    BY <2>4, <2>5
<1>15. mem' = [mem EXCEPT ![r] = Pending[r][k]]
  BY <1>3, <1>6, <1>9 DEF a
<1>16. Waiting' = Waiting
  BY <1>7, <1>8, Values DEF Waiting, IInv, TypeOK
<1>17. ~(kernel = "halt") /\ ((kernel = "halt")' <=> (kernel = "halt"))
  BY <1>1, <1>8
<1> QED
  BY <1>1, <1>13, <1>14, <1>15, <1>16, <1>17 DEF Promise!Receive
LEMMA WaitPromised ==
  ASSUME IInv, IInv', Signed, NEW r \in Procs, NEW src \in (Procs \ {r}) \cup {ANY},
         NEW body \in Body \cup {Zero}, Running(r), Ready(r, src) = {},
         Wait(r, src, Stamped(r, body))
  PROVE  Promise!Receive(r, src, body)
<1>1. /\ kernel = "run" /\ ~Promise!Blocked(r) /\ p_flags[r] = {}
      /\ \A e \in Procs : r \notin Senders(e)
  BY CallerIs
<1>2. /\ p_flags' = [p_flags EXCEPT ![r] = {RECEIVING}]
      /\ p_recvfrom' = [p_recvfrom EXCEPT ![r] = src]
      /\ mem' = Stamped(r, body)
      /\ UNCHANGED <<q_sending, next_sending>>
  BY <1>1 DEF Wait, IInv, TypeOK
<1>3. kernel' \in {"run", "spin"}
  BY <1>1, ScheduleChooses DEF Wait, IInv, TypeOK
<1>4. /\ mem' = [mem EXCEPT ![r] = [source |-> r, body |-> body]]
      /\ \A p \in Procs \ {r} : mem'[p] = mem[p]
  BY <1>2 DEF Stamped, IInv, TypeOK
<1>5. \A e \in Procs : Pending[e]' = Pending[e]
  BY <1>1, <1>2, <1>4, PendingStays DEF Senders
<1>6. Pending' = Pending
  BY <1>5 DEF Pending
<1>7. Waiting' = [Waiting EXCEPT ![r] = src]
  BY <1>2, Values DEF Waiting, IInv, TypeOK
<1>8. Promise!Suits(Pending[r], src) = {}
  <2> DEFINE o == Order(r)
             a == Pending[r]
  <2>1. /\ Senders(r) = {o[i] : i \in 1 .. Len(o)}
        /\ a \in Seq(Message) /\ Len(a) = Len(o)
        /\ \A i \in 1 .. Len(o) : a[i] = mem[o[i]]
    BY QueuesListed DEF Listed
  <2>2. Queue(r) = Senders(r) /\ (q_sending[r] = NULL => Senders(r) = {})
    BY Values, ReachNull DEF IInv, TypeOK, QueueMatchesSenders, Queue
  <2> HIDE DEF o, a
  <2>3. DOMAIN a = 1 .. Len(o)
    BY <2>1
  <2>4. \A i \in 1 .. Len(o) : o[i] \in Senders(r) /\ a[i].source = o[i]
    BY <2>1 DEF Signed, Senders
  <2>5. src # ANY => src \notin Senders(r)
    BY DEF Ready, Senders
  <2>6. src = ANY => Senders(r) = {}
    BY <2>2 DEF Ready
  <2>7. Promise!Suits(a, src) = {}
    BY <2>3, <2>4, <2>5, <2>6 DEF Promise!Suits
  <2> QED
    BY <2>7 DEF a
<1>9. ~(kernel = "halt") /\ ((kernel = "halt")' <=> (kernel = "halt"))
  BY <1>1, <1>3
<1> QED
  BY <1>1, <1>4, <1>6, <1>7, <1>8, <1>9 DEF Promise!Receive

\* Whatever ends a system call, it is a step of the promise and leaves the
\* waiting messages signed.
LEMMA SendPromised ==
  ASSUME IInv, IInv', Signed, NEW s \in Procs, NEW d \in Procs \ {s},
         NEW body \in Body \cup {Zero}, Running(s), msg_send(s, d, Stamped(s, body))
  PROVE  Promise!Send(s, d, body) /\ Signed'
<1> DEFINE m == Stamped(s, body)
<1>1. /\ p_flags \in [Procs -> SUBSET {SENDING, RECEIVING}]
      /\ mem \in [Procs -> Message]
      /\ m[s].source = s /\ \A p \in Procs \ {s} : m[p] = mem[p]
  BY DEF Stamped, IInv, TypeOK
<1> HIDE DEF m
<1>2. CASE deadlock(s, d) /\ Panic(m)
  <2>1. Signed'
    BY <1>1, <1>2 DEF Panic, ipc, Signed
  <2> QED
    BY <1>2, <2>1, PanicPromised DEF m
<1>3. CASE ~deadlock(s, d) /\ Awaits(d, s) /\ Deliver(s, d, m)
  <2>1. p_flags[d] = {RECEIVING} /\ p_msg[d] = d
    BY <1>3, Values DEF IInv, TypeOK, WellFormed, Awaits
  <2>2. \A p \in Procs \ {d} : mem'[p] = m[p] /\ p_flags'[p] = p_flags[p]
    BY <1>1, <1>3, <2>1, StampedType DEF Deliver, m
  <2>3. SENDING \notin p_flags'[d]
    BY <1>1, <1>3, <2>1, Values DEF Deliver
  <2>4. Signed'
    BY <1>1, <2>2, <2>3 DEF Signed
  <2> QED
    BY <1>3, <2>4, DeliverPromised DEF m
<1>4. CASE ~deadlock(s, d) /\ ~Awaits(d, s) /\ Enqueue(s, d, m)
  <2>1. \A p \in Procs \ {s} : p_flags'[p] = p_flags[p]
    BY <1>1, <1>4 DEF Enqueue
  <2>2. Signed'
    BY <1>1, <1>4, <2>1 DEF Enqueue, Signed
  <2> QED
    BY <1>4, <2>2, EnqueuePromised DEF m
<1> QED
  BY <1>2, <1>3, <1>4 DEF msg_send, m

LEMMA ReceivePromised ==
  ASSUME IInv, IInv', Signed, NEW r \in Procs, NEW src \in (Procs \ {r}) \cup {ANY},
         NEW body \in Body \cup {Zero}, Running(r), msg_receive(r, src, Stamped(r, body))
  PROVE  Promise!Receive(r, src, body) /\ Signed'
<1> DEFINE m == Stamped(r, body)
<1>1. /\ p_flags \in [Procs -> SUBSET {SENDING, RECEIVING}] /\ p_flags[r] = {}
      /\ m \in [Procs -> Message] /\ m[r].source = r
      /\ \A p \in Procs \ {r} : m[p] = mem[p]
  BY CallerIs, StampedType DEF Stamped, IInv, TypeOK
<1> HIDE DEF m
<1>2. ASSUME NEW f \in Ready(r, src), Take(r, f, m)
      PROVE  Promise!Receive(r, src, body) /\ Signed'
  <2>1. \A p \in Procs : SENDING \in p_flags'[p] => SENDING \in p_flags[p]
    BY <1>1, <1>2 DEF Take
  <2>2. \A p \in Procs \ {r} : mem'[p] = mem[p]
    BY <1>1, <1>2 DEF Take
  <2>3. Signed'
    BY <1>1, <2>1, <2>2 DEF Signed
  <2> QED
    BY <1>2, <2>3, TakePromised DEF m
<1>3. CASE Ready(r, src) = {} /\ Wait(r, src, m)
  <2>1. \A p \in Procs : SENDING \in p_flags'[p] => SENDING \in p_flags[p]
    BY <1>1, <1>3, Values DEF Wait
  <2>2. Signed'
    BY <1>1, <1>3, <2>1 DEF Wait, Signed
  <2> QED
    BY <1>3, <2>2, WaitPromised DEF m
<1> QED
  BY <1>2, <1>3 DEF msg_receive, m

LEMMA InitPromised == Init => Promise!Init /\ Signed
<1> SUFFICES ASSUME Init PROVE Promise!Init /\ Signed
  OBVIOUS
<1>1. IInv /\ Signed
  BY Initially DEF Init, Signed
<1>2. ASSUME NEW d \in Procs PROVE Pending[d] = <<>>
  <2>1. q_sending[d] = NULL /\ Listed(d)
    BY <1>1, QueuesListed DEF Init
  <2>2. Len(Order(d)) = 0
    <3> DEFINE s == Order(d)
    <3>1. Len(s) = 0 <=> q_sending[d] = NULL
      BY <1>1, OrderIs
    <3> QED
      BY <2>1, <3>1
  <2>3. Pending[d] \in Seq(Message) /\ Len(Pending[d]) = 0
    BY <2>1, <2>2 DEF Listed
  <2> QED
    BY <2>3
<1>3. Pending = [p \in Procs |-> <<>>]
  BY <1>2 DEF Pending
<1>4. Waiting = [p \in Procs |-> NULL]
  BY DEF Init, Waiting
<1>5. mem \in [Procs -> [source : Procs, body : Body \cup {Zero}]]
  BY <1>1 DEF IInv, TypeOK, Message
<1>6. (kernel = "halt") = FALSE
  BY DEF Init
<1> QED
  BY <1>1, <1>3, <1>4, <1>5, <1>6 DEF Promise!Init

LEMMA StepPromised ==
  ASSUME IInv, IInv', Signed, [Next]_vars
  PROVE  [Promise!Next]_(Promise!vars) /\ Signed'
<1>1. ASSUME NEW p \in Procs, NEW d \in Procs \ {p}, NEW body \in Body \cup {Zero},
             Promise!Send(p, d, body)
      PROVE  Promise!Next
  BY <1>1 DEF Promise!Next
<1>2. ASSUME NEW p \in Procs, NEW src \in (Procs \ {p}) \cup {ANY},
             NEW body \in Body \cup {Zero}, Promise!Receive(p, src, body)
      PROVE  Promise!Next
  BY <1>2 DEF Promise!Next
<1>3. ASSUME NEW p \in Procs, NEW body \in Body, NEW d \in Procs \ {p},
             CallSend(p, d, body) \/ CallBoth(p, d, body)
      PROVE  Promise!Next /\ Signed'
  BY <1>1, <1>3, SendPromised DEF CallSend, CallBoth
<1>4. ASSUME NEW p \in Procs, FinishBoth(p) PROVE Promise!Next /\ Signed'
  <2>1. after[p] \in Procs \ {p} /\ mem[p].body \in Body \cup {Zero}
    BY <1>4 DEF FinishBoth, IInv, TypeOK, IdleUnlinked, Message
  <2> QED
    BY <1>2, <1>4, <2>1, ReceivePromised DEF FinishBoth
<1>5. ASSUME NEW p \in Procs, NEW src \in (Procs \ {p}) \cup {ANY}, CallReceive(p, src)
      PROVE  Promise!Next /\ Signed'
  BY <1>2, <1>5, ReceivePromised DEF CallReceive
<1>6. ASSUME UNCHANGED <<ipc, mem>>, (kernel = "halt")' <=> kernel = "halt"
      PROVE  UNCHANGED Promise!vars /\ Signed'
  \* The clock and the scheduler are not what the promise is about.
  <2>1. UNCHANGED <<p_flags, p_msg, p_recvfrom, q_sending, next_sending, mem>>
    BY <1>6 DEF ipc
  <2>2. Pending' = Pending
    BY <2>1 DEF Pending, Order
  <2>3. Waiting' = Waiting
    BY <2>1 DEF Waiting
  <2>4. Signed'
    BY <2>1 DEF Signed
  <2>5. (kernel = "halt")' = (kernel = "halt")
    BY <1>6
  <2> QED
    BY <2>1, <2>2, <2>3, <2>4, <2>5 DEF Promise!vars
<1>7. CASE ClockTick
  <2>1. [ticks EXCEPT ![p_proc_ready] = @ - 1] \in [Procs -> Int]
    BY DEF IInv, TypeOK
  <2>2. kernel = "run" /\ kernel' \in {"run", "spin"}
    BY <1>7, <2>1, ScheduleChooses DEF ClockTick, IInv, TypeOK
  <2> QED
    BY <1>6, <1>7, <2>2 DEF ClockTick
<1>8. CASE NestedTick \/ UNCHANGED vars
  BY <1>6, <1>8 DEF NestedTick, vars, sched
<1> QED
  BY <1>3, <1>4, <1>5, <1>7, <1>8 DEF Next

\* Message passing is what it promises to be: seen through the mapping of module
\* ProcRefinement, every step of the kernel is one of the promise or changes
\* nothing it is about.  A message arrives once, whole and in its turn, and the
\* system stops over a circle of senders and over nothing else, for any number
\* of processes (proc.c:233-408).
THEOREM KeepsThePromise == Spec => Refinement
<1>1. IInv /\ Signed /\ IInv' /\ [Next]_vars => Signed' /\ [Promise!Next]_(Promise!vars)
  BY StepPromised
<1>2. Init => Promise!Init /\ Signed
  BY InitPromised
<1> QED
  BY <1>1, <1>2, Invariance, PTL DEF Spec, Refinement, Promise!Spec
=============================================================================
