------------------------------- MODULE Monitor -------------------------------
(***************************************************************************)
(* The Java monitor every region of the hippodrome is built on: its public *)
(* methods are synchronized, so a method runs alone from its first         *)
(* statement to its return or to its wait().  A thread that waits gives up *)
(* the lock and sleeps until some other method calls notifyAll(); it then  *)
(* competes for the lock with every other thread, and when it gets it, it  *)
(* evaluates the condition of its while loop again.                        *)
(*                                                                         *)
(* The threads are the service agents of the server.  A client issues one  *)
(* request at a time and blocks for its reply, so a thread is named after  *)
(* the client it serves.                                                   *)
(***************************************************************************)
VARIABLES
  call,     \* thread -> the method it is blocked in, or None
  waitSet   \* the threads that sleep in wait() and have not been notified

None == "none"

(* t is not inside a method of this monitor. *)
Outside(t) == call[t] = None

(* t was woken by a notifyAll() and may enter the monitor again. *)
Notified(t, method) == call[t] = method /\ t \notin waitSet

(* while (condition) wait(): t goes to sleep in method if the condition    *)
(* holds and leaves the method if it does not.  sleepers is the wait set   *)
(* the method leaves behind before the loop: {} after a notifyAll().       *)
WaitWhile(condition, t, method, sleepers) ==
  /\ call' = [call EXCEPT ![t] = IF condition THEN method ELSE None]
  /\ waitSet' = IF condition THEN sleepers \cup {t} ELSE sleepers

(* t goes to sleep in method, nothing having been notified. *)
Wait(t, method) == WaitWhile(TRUE, t, method, waitSet)

(* Mutant: the notifyAll() is forgotten. *)
ReturnInSilence(t) == WaitWhile(FALSE, t, None, waitSet)

(* t leaves its method after a notifyAll(). *)
NotifyAllAndReturn(t) == WaitWhile(FALSE, t, None, {})
==============================================================================
