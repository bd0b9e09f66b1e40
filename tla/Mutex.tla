-------------------------------- MODULE Mutex ---------------------------------
(***************************************************************************)
(* The promise mutex of the server (server/src/config/mutex.ts): acquire() *)
(* takes a free lock at once or queues, release() hands the lock to the    *)
(* first of the queue without unlocking it.  A lock is a record, so that   *)
(* each store that has a mutex keeps one in a variable of its own.         *)
(***************************************************************************)
EXTENDS Sequences

FreeLock == [locked |-> FALSE, queue |-> <<>>]

AfterAcquire(lock, caller) ==
  IF lock.locked THEN [lock EXCEPT !.queue = Append(@, caller)]
                 ELSE [lock EXCEPT !.locked = TRUE]

(* Who holds the lock once it is released: the first of the queue, if any. *)
HandedTo(lock) == IF lock.queue = <<>> THEN {} ELSE {Head(lock.queue)}

(* Mutants of AfterRelease: the lock is free although it was handed on, or *)
(* the queue is forgotten.                                                 *)
UnlockedAnyway(lock) ==
  [locked |-> FALSE, queue |-> IF lock.queue = <<>> THEN <<>> ELSE Tail(lock.queue)]

AfterRelease(lock) ==
  IF lock.queue = <<>> THEN [lock EXCEPT !.locked = FALSE]
                       ELSE [lock EXCEPT !.queue = Tail(@)]
=============================================================================
