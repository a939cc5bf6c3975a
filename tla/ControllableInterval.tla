-------------------------- MODULE ControllableInterval --------------------------
(***************************************************************************)
(* server/controllable_interval.rs: the interval of a connection's         *)
(* keep-alives, and how client_data.rs uses it.  The state is behind a     *)
(* mutex, which tick() holds while an enabled interval runs; who waits for *)
(* a disabled one is woken by Notify.  A task takes one step between two   *)
(* awaits.                                                                 *)
(*                                                                         *)
(* A connection has one task for all of it: the select! of network.rs      *)
(* calls tick(), drops the call when a packet comes first, and the task    *)
(* sets the interval while it handles the packet.  ClientData keeps the    *)
(* interval behind a mutex of its own, which keep_alive_tick holds over    *)
(* the whole tick().  The comments of the component promise more: that     *)
(* tasks may share the interval, and that who waits is woken by the others.*)
(* The program never does that; a behaviour with several users shows the   *)
(* promise, one with a single user the program.                            *)
(***************************************************************************)
EXTENDS Integers, FiniteSets

CONSTANTS
  Task,     \* tasks that may use the interval
  MaxSets   \* bound: intervals created

None == 0

VARIABLES
  users,     \* the tasks that use it: one, as in the program, or all
  interval,  \* IntervalState: None, or the number of the interval
  due,       \* the interval has a tick to give
  guard,     \* who holds the mutex of ClientData, which only a single user goes through
  lock,      \* who holds the mutex of the state
  pc,        \* where each task stands
  notified,  \* tasks whose Notified future was created and completed
  created,   \* intervals created so far
  request    \* what each task is about to store

vars == <<users, interval, due, guard, lock, pc, notified, created, request>>
Goto(task, label) == pc' = [pc EXCEPT ![task] = label]

Init ==
  /\ users \in {Task} \cup {{task} : task \in Task}
  /\ interval = None /\ due = FALSE /\ guard = {} /\ lock = {} /\ created = 0
  /\ pc = [task \in Task |-> "idle"]
  /\ notified = {}
  /\ request = [task \in Task |-> None]

(* ClientData::interval: its mutex, taken for the whole call.              *)
Guarded(task) == guard = {} /\ guard' = IF users = {task} THEN {task} ELSE {}

-------------------------------------------------------------------------------
(* Setting and clearing *)

(* set_interval: a new interval ticks at once.  set_interval_at: it is due *)
(* later.  clear_interval: none.                                           *)
Call(task) ==
  /\ pc[task] = "idle"
  /\ \/ request' = [request EXCEPT ![task] = None] /\ UNCHANGED created
     \/ /\ created < MaxSets
        /\ created' = created + 1
        /\ request' = [request EXCEPT ![task] = created']
  /\ Goto(task, "calling")
  /\ UNCHANGED <<users, interval, due, guard, lock, notified>>

Reach(task) ==
  /\ pc[task] = "calling" /\ Guarded(task)
  /\ Goto(task, "storing")
  /\ UNCHANGED <<users, interval, due, lock, notified, created, request>>

(* The assignment under the lock.                                          *)
Store(task) ==
  /\ pc[task] = "storing" /\ lock = {}
  /\ interval' = request[task]
  /\ due' \in IF interval' = None THEN {FALSE} ELSE BOOLEAN
  /\ Goto(task, "notifying")
  /\ UNCHANGED <<users, guard, lock, notified, created, request>>

(* notify_waiters completes every Notified future created before.          *)
NotifyWaiters(task) ==
  /\ pc[task] = "notifying"
  /\ notified' = notified \cup {t \in Task : pc[t] \in {"locking", "looked", "ticking", "waiting"}}
  /\ guard' = {}
  /\ Goto(task, "idle")
  /\ UNCHANGED <<users, interval, due, lock, created, request>>

-------------------------------------------------------------------------------
(* tick() *)

(* As Enlist, with a period of its own for each call: sleep().             *)
Enlist_Sleeps(task) ==
  /\ pc[task] = "idle" /\ Guarded(task)
  /\ notified' = notified \ {task}
  /\ due' = FALSE
  /\ Goto(task, "locking")
  /\ UNCHANGED <<users, interval, lock, created, request>>

(* The top of the loop: the Notified future is created before the state is *)
(* looked at.                                                              *)
Enlist(task) ==
  /\ pc[task] = "idle" /\ Guarded(task)
  /\ notified' = notified \ {task}
  /\ Goto(task, "locking")
  /\ UNCHANGED <<users, interval, due, lock, created, request>>

Lock(task) ==
  /\ pc[task] = "locking" /\ lock = {}
  /\ IF interval = None
       THEN Goto(task, "looked") /\ UNCHANGED lock
       ELSE Goto(task, "ticking") /\ lock' = {task}
  /\ UNCHANGED <<users, interval, due, guard, notified, created, request>>

(* The lock is given up before notified.await.                             *)
Wait(task) ==
  /\ pc[task] = "looked"
  /\ Goto(task, "waiting")
  /\ UNCHANGED <<users, interval, due, guard, lock, notified, created, request>>

(* select!, biased: the tick first, then the notification.                 *)
Tick(task) ==
  /\ pc[task] = "ticking" /\ due
  /\ due' = FALSE
  /\ lock' = {} /\ guard' = {}
  /\ Goto(task, "idle")
  /\ UNCHANGED <<users, interval, notified, created, request>>

Restart(task) ==
  /\ pc[task] = "ticking" /\ ~due /\ task \in notified
  /\ lock' = {}
  /\ notified' = notified \ {task}
  /\ Goto(task, "locking")
  /\ UNCHANGED <<users, interval, due, guard, created, request>>

(* notified.await returns and the loop begins again.                       *)
Wake(task) ==
  /\ pc[task] = "waiting" /\ task \in notified
  /\ notified' = notified \ {task}
  /\ Goto(task, "locking")
  /\ UNCHANGED <<users, interval, due, guard, lock, created, request>>

(* As Drop, with the packet handled before the losing branches of the      *)
(* select! are dropped.                                                    *)
Drop_Late(task) ==
  /\ pc[task] \in {"ticking", "waiting"} \/ (pc[task] = "locking" /\ lock # {})
  /\ notified' = notified \ {task}
  /\ Goto(task, "idle")
  /\ UNCHANGED <<users, interval, due, guard, lock, created, request>>

(* Another branch of the select! around the call is done first: the call   *)
(* is dropped where it awaits, and with it what it holds; a poll passes a  *)
(* mutex that is free.  The interval itself, and how much of its period is *)
(* over, stay.                                                             *)
Drop(task) ==
  /\ pc[task] \in {"ticking", "waiting"} \/ (pc[task] = "locking" /\ lock # {})
  /\ lock' = lock \ {task} /\ guard' = guard \ {task}
  /\ notified' = notified \ {task}
  /\ Goto(task, "idle")
  /\ UNCHANGED <<users, interval, due, created, request>>

-------------------------------------------------------------------------------
(* Time passes up to the next tick.                                        *)
Elapse ==
  /\ interval # None /\ ~due
  /\ due' = TRUE
  /\ UNCHANGED <<users, interval, guard, lock, pc, notified, created, request>>

TickStep(task) == Lock(task) \/ Wait(task) \/ Restart(task) \/ Wake(task)
ControlStep(task) == Reach(task) \/ Store(task) \/ NotifyWaiters(task)

Next ==
  \/ \E task \in users :
       \/ Enlist(task) \/ TickStep(task) \/ Tick(task) \/ Drop(task)
       \/ Call(task) \/ ControlStep(task)
  \/ Elapse

Spec == Init /\ [][Next]_vars

(* The mutex of tokio is fair, so a task that waits for it gets it: strong *)
(* fairness.  select! begins with a random branch every time, so a tick    *)
(* that is due is not passed over for ever.  Calls are not fair, and a     *)
(* period may be as long as it likes.                                      *)
Fairness ==
  \A task \in Task : SF_vars(TickStep(task) \/ ControlStep(task)) /\ SF_vars(Tick(task))
(* Every period ends.                                                      *)
TimelyTicks == WF_vars(Elapse)

-------------------------------------------------------------------------------
Ticking(task) == pc[task] \in {"locking", "looked", "ticking", "waiting"}
Setting(task) == pc[task] \in {"calling", "storing", "notifying"}

TypeOK ==
  /\ users \subseteq Task
  /\ interval \in 0 .. MaxSets /\ due \in BOOLEAN /\ created \in 0 .. MaxSets
  /\ guard \subseteq users /\ Cardinality(guard) <= 1
  /\ lock = {task \in Task : pc[task] = "ticking"} /\ Cardinality(lock) <= 1
  /\ notified \subseteq Task
  /\ \A task \in Task : pc[task] = "idle" \/ Ticking(task) \/ Setting(task)
  /\ request \in [Task -> 0 .. MaxSets]

(* What the component promises tasks that share it.  No lost wake-up: a    *)
(* task that waits for an interval, while there is one, has its            *)
(* notification or another task about to give it.                          *)
NoLostWakeup ==
  \A task \in Task :
    pc[task] = "waiting" /\ interval # None =>
      task \in notified \/ \E other \in Task : pc[other] = "notifying"

(* enable_keep_alive_if_needed takes the mutex that keep_alive_tick holds  *)
(* over its whole call, in the same task: what sets or clears the interval *)
(* comes to an end all the same, as the task has dropped its tick().       *)
SettingReturns == \A task \in Task : Setting(task) ~> pc[task] = "idle"

(* Every packet of a client cancels the tick() of its connection.  A       *)
(* connection that calls tick() again and again gets ticks, as long as     *)
(* there is an interval: a client that never stops sending packets is sent *)
(* keep-alives.                                                            *)
TicksThroughTraffic ==
  \A task \in Task :
    users = {task} /\ []<>Ticking(task) /\ <>[](interval # None) => []<><<Tick(task)>>_vars

===============================================================================
