------------------------------ MODULE MsgQueue ------------------------------
(***************************************************************************)
(* SimpleMessageQueue of src/src/common/common_msg_queue.cpp (pthread      *)
(* build), the queue behind AppLogger's asynchronous logging: any thread   *)
(* puts a message, the queue's own thread runs get and handle_msg until    *)
(* stop clears m_is_running and puts EXIT_MSG_ID.                          *)
(*                                                                         *)
(* Each critical section under m_mutex is one step; pthread_cond_wait      *)
(* releases the mutex and blocks in one step and takes it back in a later  *)
(* one.  put signals after unlocking, so the signal is a step of its own.  *)
(* m_is_running is read without the mutex; the reads are taken as atomic.  *)
(* No spurious wake-ups are modelled.                                      *)
(***************************************************************************)
EXTENDS Naturals, Sequences, FiniteSets

CONSTANTS
  Producers,   \* threads that log
  MaxPuts,     \* messages each of them puts
  MaxCount,    \* m_max_queue_length
  Exit,        \* EXIT_MSG_ID
  Garbage      \* what front() of an empty std::deque yields

ASSUME MaxPuts \in Nat /\ MaxCount \in Nat \ {0}

VARIABLES
  queue,        \* m_msg_queue
  running,      \* m_is_running
  initialized,  \* m_initialized
  puts,         \* messages each producer has put so far
  pcP,          \* producer: "idle", "push" (passed the running check), "signal"
  pcC,          \* queue thread: "none", "loop", "get", "wait", "wake", "handle", "clear", "exited"
  pcM,          \* main: "init", "started", then through stop to "stopped"
  got,          \* the message get returned
  accepted,     \* messages put pushed
  handled,      \* messages handle_msg ran on
  destroyed     \* messages destroy_msg freed

vars == <<queue, running, initialized, puts, pcP, pcC, pcM, got, accepted, handled, destroyed>>

Init ==
  /\ queue = <<>>
  /\ running = FALSE
  /\ initialized = FALSE
  /\ puts = [p \in Producers |-> 0]
  /\ pcP = [p \in Producers |-> "idle"]
  /\ pcC = "none"
  /\ pcM = "init"
  /\ got = Exit
  /\ accepted = {}
  /\ handled = {}
  /\ destroyed = {}

(* start: m_is_running is set, then pthread_create succeeds or fails. *)
Start ==
  \/ running' = TRUE /\ initialized' = TRUE /\ pcC' = "loop"
  \/ running' = FALSE /\ initialized' = FALSE /\ UNCHANGED pcC

(* AppLogger::initialize, called once by main: set the log options and   *)
(* start the queue thread.                                                *)
Initialize ==
  /\ pcM = "init"
  /\ Start
  /\ pcM' = "started"
  /\ UNCHANGED <<queue, puts, pcP, got, accepted, handled, destroyed>>

(* The message producer p is putting. *)
Cur(p) == <<p, puts[p]>>

(* put, first line: a non-exit message is destroyed when not running. *)
PutCheck(p) ==
  /\ pcP[p] = "idle"
  /\ puts[p] < MaxPuts
  /\ puts' = [puts EXCEPT ![p] = @ + 1]
  /\ IF running
     THEN pcP' = [pcP EXCEPT ![p] = "push"] /\ UNCHANGED destroyed
     ELSE destroyed' = destroyed \cup {<<p, puts[p] + 1>>} /\ UNCHANGED pcP
  /\ UNCHANGED <<queue, running, initialized, pcC, pcM, got, accepted, handled>>

(* put under m_mutex: push when below m_max_queue_length, to signal after *)
(* unlocking when the queue went from empty to one; otherwise destroy.    *)
PutPush(p) ==
  /\ pcP[p] = "push"
  /\ IF Len(queue) < MaxCount
     THEN /\ queue' = Append(queue, Cur(p))
          /\ accepted' = accepted \cup {Cur(p)}
          /\ pcP' = [pcP EXCEPT ![p] = IF Len(queue) = 0 THEN "signal" ELSE "idle"]
          /\ UNCHANGED destroyed
     ELSE /\ destroyed' = destroyed \cup {Cur(p)}
          /\ pcP' = [pcP EXCEPT ![p] = "idle"]
          /\ UNCHANGED <<queue, accepted>>
  /\ UNCHANGED <<running, initialized, puts, pcC, pcM, got, handled>>

(* pthread_cond_signal wakes the queue thread if it is waiting, and is    *)
(* lost otherwise.                                                        *)
Wake == pcC' = IF pcC = "wait" THEN "wake" ELSE pcC

PutSignal(p) ==
  /\ pcP[p] = "signal"
  /\ Wake
  /\ pcP' = [pcP EXCEPT ![p] = "idle"]
  /\ UNCHANGED <<queue, running, initialized, puts, pcM, got, accepted, handled, destroyed>>

(* run: while (m_is_running) get, handle; then clear_msg_queue. *)
RunLoop ==
  /\ pcC = "loop"
  /\ pcC' = IF running THEN "get" ELSE "clear"
  /\ UNCHANGED <<queue, running, initialized, puts, pcP, pcM, got, accepted, handled, destroyed>>

(* get under m_mutex: if (m_msg_queue.empty()) pthread_cond_wait, else   *)
(* pop the front.                                                         *)
GetLock ==
  /\ pcC = "get"
  /\ IF queue = <<>>
     THEN pcC' = "wait" /\ UNCHANGED <<queue, got>>
     ELSE pcC' = "handle" /\ got' = Head(queue) /\ queue' = Tail(queue)
  /\ UNCHANGED <<running, initialized, puts, pcP, pcM, accepted, handled, destroyed>>

(* Woken, get takes m_mutex back and pops the front without testing for   *)
(* emptiness again: on an empty deque front() is undefined and yields     *)
(* Garbage; the deque is left as it was.                                  *)
GetWake ==
  /\ pcC = "wake"
  /\ pcC' = "handle"
  /\ IF queue = <<>>
     THEN got' = Garbage /\ UNCHANGED queue
     ELSE got' = Head(queue) /\ queue' = Tail(queue)
  /\ UNCHANGED <<running, initialized, puts, pcP, pcM, accepted, handled, destroyed>>

(* run: handle_msg unless the message is EXIT_MSG_ID, then yield. *)
Handle ==
  /\ pcC = "handle"
  /\ handled' = IF got = Exit THEN handled ELSE handled \cup {got}
  /\ pcC' = "loop"
  /\ UNCHANGED <<queue, running, initialized, puts, pcP, pcM, got, accepted, destroyed>>

(* clear_msg_queue: destroy every message left, under m_mutex. *)
Clear ==
  /\ pcC = "clear"
  /\ destroyed' = destroyed \cup ({queue[i] : i \in DOMAIN queue} \ {Exit})
  /\ queue' = <<>>
  /\ pcC' = "exited"
  /\ UNCHANGED <<running, initialized, puts, pcP, pcM, got, accepted, handled>>

(* AppLogger::uninitialize clears its m_initialized and calls stop: if   *)
(* m_is_running, clear it and put EXIT_MSG_ID (which passes the running  *)
(* check), then join the thread if it was created, then close the file.  *)
Uninitialize ==
  /\ pcM = "started"
  /\ pcM' = IF running THEN "push" ELSE "stopped"
  /\ running' = FALSE
  /\ UNCHANGED <<queue, initialized, puts, pcP, pcC, got, accepted, handled, destroyed>>

StopPush ==
  /\ pcM = "push"
  /\ IF Len(queue) < MaxCount
     THEN queue' = Append(queue, Exit) /\ pcM' = IF Len(queue) = 0 THEN "signal" ELSE "join"
     ELSE pcM' = "join" /\ UNCHANGED queue
  /\ UNCHANGED <<running, initialized, puts, pcP, pcC, got, accepted, handled, destroyed>>

StopSignal ==
  /\ pcM = "signal"
  /\ Wake
  /\ pcM' = "join"
  /\ UNCHANGED <<queue, running, initialized, puts, pcP, got, accepted, handled, destroyed>>

StopJoin ==
  /\ pcM = "join"
  /\ ~initialized \/ pcC = "exited"
  /\ pcM' = "stopped"
  /\ UNCHANGED <<queue, running, initialized, puts, pcP, pcC, got, accepted, handled, destroyed>>

Next ==
  \/ Initialize \/ RunLoop \/ GetLock \/ GetWake \/ Handle \/ Clear
  \/ Uninitialize \/ StopPush \/ StopSignal \/ StopJoin
  \/ \E p \in Producers : PutCheck(p) \/ PutPush(p) \/ PutSignal(p)

Spec == Init /\ [][Next]_vars

-----------------------------------------------------------------------------
(* Every message the queue thread hands to handle_msg is one that put     *)
(* pushed: get's single emptiness test must not be defeated by a signal   *)
(* that put sends after unlocking, once the queue thread has already      *)
(* taken the message and gone back to waiting on an empty queue.          *)
HandlesOnlyPutMessages == handled \subseteq accepted

====
