------------------------------ MODULE RWMutex ------------------------------
(***************************************************************************)
(* Go's sync.RWMutex, as the callers of the bridge rely on it: a writer    *)
(* first takes the writers' mutex, which also shuts out new readers, then  *)
(* waits for the readers inside to leave; the readers that queued behind   *)
(* it are let in when it unlocks, ahead of the next writer.                *)
(***************************************************************************)
CONSTANTS
  Threads,   \* everyone who locks
  NoThread   \* no writer

VARIABLES
  writer,    \* the writer that holds, or is draining readers for, the lock
  readers,   \* threads that hold a read lock
  queued     \* readers waiting for the writer to unlock

lockVars == <<writer, readers, queued>>

LockTypeOK ==
  /\ writer \in Threads \cup {NoThread}
  /\ readers \subseteq Threads
  /\ queued \subseteq Threads

LockInit == writer = NoThread /\ readers = {} /\ queued = {}

(* RLock: at once when no writer has announced itself, else in the queue.  *)
RLock(t) ==
  /\ readers' = IF writer = NoThread THEN readers \cup {t} ELSE readers
  /\ queued' = IF writer = NoThread THEN queued ELSE queued \cup {t}
  /\ UNCHANGED writer

RUnlock(t) ==
  /\ readers' = readers \ {t}
  /\ UNCHANGED <<writer, queued>>

(* Lock, first half: the mutex between writers. *)
Announce(t) ==
  /\ writer = NoThread
  /\ writer' = t
  /\ UNCHANGED <<readers, queued>>

HoldsRead(t) == t \in readers

HoldsWrite(t) == writer = t /\ readers = {}     \* Lock has returned

Unlock ==
  /\ writer' = NoThread
  /\ readers' = queued
  /\ queued' = {}
=============================================================================
