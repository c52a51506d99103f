--------------------------- MODULE KernelSession ---------------------------
(***************************************************************************)
(* The Jupyter kernel of one experiment record: services/kernel_manager.py *)
(* and its callers execute_cell, _init_hidden_cells_once, restart_kernel   *)
(* (api/experiments.py) and the idle cleanup (main.py).                    *)
(*                                                                         *)
(* The container, the API process's memory and Redis each have a word on   *)
(* what the kernel is.  The record is bound to an environment ("own"); an  *)
(* image asked for without one is the "default".  Requests are threads of  *)
(* one API process.  All hidden cells of the template are one cell here.   *)
(***************************************************************************)
EXTENDS Naturals

CONSTANTS Requests,
          MaxTimeouts, MaxRestarts, MaxCrashes, MaxDeaths  \* bounds on what goes wrong

ASSUME KernelAssumption ==
  /\ {MaxTimeouts, MaxRestarts, MaxCrashes, MaxDeaths} \subseteq Nat
  /\ {"free", "dead"} \cap Requests = {}

VARIABLES box,     \* the container: up or not, its environment, hidden cells run in it
          mem,     \* _sessions[record]: environment, initialized_template_version_id
          redis,   \* kernel:session (an environment or "none") and kernel:init
          lock,    \* kernel:lock: a request, "free", or the token of a dead process
          req,     \* requests in progress
          met,     \* have two requests ever been in progress at once?
          mishaps  \* how much of each bound has been used

kernelVars == <<box, mem, redis, lock, req, met, mishaps>>

NoBox == [st |-> "absent", env |-> "none", init |-> FALSE]
NoMem == [env |-> "none", init |-> FALSE]
NoKeys == [sess |-> "none", init |-> FALSE]
NoRequest == [pc |-> "idle", cell |-> "user", env |-> "own", back |-> "idle", in |-> FALSE]

KernelInit ==
  /\ box = NoBox /\ mem = NoMem /\ redis = NoKeys /\ lock = "free" /\ met = FALSE
  /\ req = [r \in Requests |-> NoRequest]
  /\ mishaps = [timeouts |-> 0, restarts |-> 0, crashes |-> 0, deaths |-> 0]

Mishap(what, max) == mishaps[what] < max /\ mishaps' = [mishaps EXCEPT ![what] = @ + 1]
At(r, pc) == req[r].pc = pc
Remembered == mem.env # "none"
Alive == box.st = "up"

(* r goes on; code running in a container that is removed is lost (gone).  *)
Go(r, new, gone) ==
  req' = [q \in Requests |-> LET n == IF q = r THEN new ELSE req[q]
                             IN [n EXCEPT !.in = @ /\ ~gone]]
To(r, pc) == [req[r] EXCEPT !.pc = pc]
Stay(r, pc) == Go(r, To(r, pc), FALSE)
Create(r, env, back) == [req[r] EXCEPT !.pc = "remove", !.env = env, !.back = back]

(* destroy: the container is removed only if the process knows the session.*)
Destroyed == /\ box' = IF Remembered THEN NoBox ELSE box
             /\ mem' = NoMem /\ redis' = NoKeys

Start(r, new) ==
  /\ At(r, "idle") /\ req' = [req EXCEPT ![r] = new]
  /\ met' = (met \/ \E q \in Requests : ~At(q, "idle"))

-----------------------------------------------------------------------------
(* execute_cell: hidden cells first, then the student's.                   *)

ExecuteCell(r) ==
  /\ Start(r, [NoRequest EXCEPT !.pc = "get", !.cell = "hidden"])
  /\ UNCHANGED <<box, mem, redis, lock, mishaps>>

Got(r) == IF req[r].cell = "hidden" THEN "check" ELSE "execute"

(* Mutant: a running container is taken whatever its environment.          *)
ReuseAny(r) ==
  /\ At(r, "get") /\ Alive
  /\ IF Remembered THEN UNCHANGED mem
     ELSE redis.sess # "none" /\ mem' = [NoMem EXCEPT !.env = redis.sess]
  /\ Stay(r, Got(r))
  /\ UNCHANGED <<box, redis, lock, met, mishaps>>

(* get_or_create_session: what memory or Redis knows and Docker confirms.  *)
Reuse(r) ==
  /\ At(r, "get") /\ Alive
  /\ IF Remembered THEN mem.env = "own" /\ UNCHANGED mem
     ELSE redis.sess = "own" /\ mem' = [NoMem EXCEPT !.env = "own"]
  /\ Stay(r, Got(r))
  /\ UNCHANGED <<box, redis, lock, met, mishaps>>

Rebuild(r) ==
  /\ At(r, "get")
  /\ Alive /\ (Remembered \/ redis.sess # "none")
  /\ "own" # (IF Remembered THEN mem.env ELSE redis.sess)
  /\ Destroyed
  /\ Go(r, Create(r, "own", Got(r)), Remembered)
  /\ UNCHANGED <<lock, met, mishaps>>

CreateNew(r) ==
  /\ At(r, "get")
  /\ ~Alive \/ (~Remembered /\ redis.sess = "none")
  /\ redis' = [redis EXCEPT !.sess = "none"]
  /\ Go(r, Create(r, "own", Got(r)), FALSE)
  /\ UNCHANGED <<box, mem, lock, met, mishaps>>

(* create_session: docker rm -f, docker run, docker ps, the records.       *)
Remove(r) ==
  /\ At(r, "remove")
  /\ box' = NoBox
  /\ Go(r, To(r, "run"), TRUE)
  /\ UNCHANGED <<mem, redis, lock, met, mishaps>>

Run(r) ==
  /\ At(r, "run") /\ box.st = "absent"
  /\ box' = [st |-> "up", env |-> req[r].env, init |-> FALSE]
  /\ Stay(r, "register")
  /\ UNCHANGED <<mem, redis, lock, met, mishaps>>

Register(r) ==
  /\ At(r, "register") /\ Alive
  /\ mem' = [env |-> req[r].env, init |-> FALSE]
  /\ redis' = [redis EXCEPT !.sess = req[r].env]
  /\ Stay(r, req[r].back)
  /\ UNCHANGED <<box, lock, met, mishaps>>

(* Another request has taken the name, or removed the container.           *)
CreateFails(r) ==
  /\ \/ At(r, "run") /\ box.st # "absent"
     \/ At(r, "register") /\ ~Alive
  /\ Stay(r, IF req[r].back = "rebuilt" THEN "rebuilt" ELSE "idle")
  /\ UNCHANGED <<box, mem, redis, lock, met, mishaps>>

(* is_template_initialized: the key, or failing that the memory.           *)
CheckInit(r) ==
  /\ At(r, "check")
  /\ IF redis.init \/ mem.init THEN Go(r, [To(r, "get") EXCEPT !.cell = "user"], FALSE)
     ELSE Stay(r, "execute")
  /\ UNCHANGED <<box, mem, redis, lock, met, mishaps>>

(* execute: fail closed on the lock.                                       *)
Execute(r) ==
  /\ At(r, "execute") /\ Remembered /\ Alive /\ lock = "free"
  /\ lock' = r
  /\ Go(r, [To(r, "running") EXCEPT !.in = TRUE], FALSE)
  /\ UNCHANGED <<box, mem, redis, met, mishaps>>

(* A hidden cell that cannot be run costs the kernel.                      *)
GiveUp(r) ==
  IF req[r].cell = "hidden" THEN Destroyed /\ Go(r, To(r, "idle"), Remembered)
  ELSE Stay(r, "idle") /\ UNCHANGED <<box, mem, redis>>

Refuse(r) ==
  /\ At(r, "execute") /\ ~(Remembered /\ Alive /\ lock = "free")
  /\ GiveUp(r)
  /\ UNCHANGED <<lock, met, mishaps>>

Unlock(r) == lock' = IF lock = r THEN "free" ELSE lock

Finish(r) ==
  /\ At(r, "running") /\ req[r].in
  /\ Unlock(r)
  /\ IF req[r].cell = "hidden" THEN Go(r, [To(r, "mark") EXCEPT !.in = FALSE], FALSE)
                                    /\ box' = [box EXCEPT !.init = TRUE]
     ELSE Go(r, [To(r, "idle") EXCEPT !.in = FALSE], FALSE) /\ UNCHANGED box
  /\ UNCHANGED <<mem, redis, met, mishaps>>

(* The container went away under the code.                                 *)
RunnerFails(r) ==
  /\ At(r, "running") /\ ~req[r].in
  /\ Unlock(r) /\ GiveUp(r)
  /\ UNCHANGED <<met, mishaps>>

(* 30 s are over: destroy, and create anew, the environment not passed on. *)
TimeOut(r) ==
  /\ At(r, "running") /\ Mishap("timeouts", MaxTimeouts)
  /\ Destroyed
  /\ Go(r, Create(r, "default", "rebuilt"), Remembered)
  /\ UNCHANGED <<lock, met>>

Rebuilt(r) ==
  /\ At(r, "rebuilt")
  /\ Unlock(r) /\ GiveUp(r)
  /\ UNCHANGED <<met, mishaps>>

(* The lock's 60 s: 30 and a rebuild take longer.                          *)
LockExpires ==
  /\ \/ lock = "dead"
     \/ lock \in Requests /\ req[lock].back = "rebuilt" /\ ~At(lock, "running")
  /\ lock' = "free"
  /\ UNCHANGED <<box, mem, redis, req, met, mishaps>>

Mark(r) ==
  /\ At(r, "mark") /\ Remembered
  /\ redis' = [sess |-> mem.env, init |-> TRUE] /\ mem' = [mem EXCEPT !.init = TRUE]
  /\ Go(r, [To(r, "get") EXCEPT !.cell = "user"], FALSE)
  /\ UNCHANGED <<box, lock, met, mishaps>>

MarkFails(r) ==
  /\ At(r, "mark") /\ ~Remembered
  /\ GiveUp(r)
  /\ UNCHANGED <<lock, met, mishaps>>

-----------------------------------------------------------------------------
(* restart: in the environment that the memory knows.                      *)
Restart(r) ==
  /\ Mishap("restarts", MaxRestarts)
  /\ Start(r, [NoRequest EXCEPT !.pc = "restart"])
  /\ UNCHANGED <<box, mem, redis, lock>>

RestartDestroys(r) ==
  /\ At(r, "restart")
  /\ Destroyed
  /\ Go(r, Create(r, IF Remembered THEN mem.env ELSE "default", "idle"), Remembered)
  /\ UNCHANGED <<lock, met, mishaps>>

(* cleanup_idle: 900 s, far longer than any request.                       *)
CleanUp ==
  /\ Remembered /\ \A r \in Requests : At(r, "idle")
  /\ Destroyed
  /\ UNCHANGED <<lock, req, met, mishaps>>

ApiDies ==
  /\ Mishap("crashes", MaxCrashes)
  /\ mem' = NoMem /\ req' = [r \in Requests |-> NoRequest]
  /\ lock' = IF lock = "free" THEN "free" ELSE "dead"
  /\ UNCHANGED <<box, redis, met>>

(* The kernel is killed: out of memory, or the host is restarted.          *)
BoxDies ==
  /\ Alive /\ Mishap("deaths", MaxDeaths)
  /\ box' = [box EXCEPT !.st = "dead"]
  /\ req' = [r \in Requests |-> [req[r] EXCEPT !.in = FALSE]]
  /\ UNCHANGED <<mem, redis, lock, met>>

Handle(r) ==
  \/ ExecuteCell(r) \/ Reuse(r) \/ Rebuild(r) \/ CreateNew(r)
  \/ Remove(r) \/ Run(r) \/ Register(r) \/ CreateFails(r)
  \/ CheckInit(r) \/ Execute(r) \/ Refuse(r) \/ Finish(r) \/ RunnerFails(r)
  \/ TimeOut(r) \/ Rebuilt(r) \/ Mark(r) \/ MarkFails(r)
  \/ Restart(r) \/ RestartDestroys(r)

KernelNext == \/ \E r \in Requests : Handle(r)
              \/ LockExpires \/ CleanUp \/ ApiDies \/ BoxDies

-----------------------------------------------------------------------------
(* The lock lets one piece of code into the kernel, though it expires while *)
(* its holder rebuilds the container, and that holder still releases it.   *)
OneRunner == \A r, q \in Requests : At(r, "running") /\ At(q, "running") => r = q

(* Code runs in the environment the record is bound to, although a rebuild *)
(* after a timeout forgets it, and whoever restarts, cleans up or dies at  *)
(* whatever point.  Requests that overlap may still meet such a container. *)
OwnEnvironment ==
  \A r \in Requests : At(r, "running") /\ req[r].in /\ ~met => box.env = "own"

(* "hidden cell 应在用户 cell 之前执行" (test_checkpoint2_fixes.py): the       *)
(* student's code runs in a container in which the hidden cells have run.  *)
(* Not so after a container has died by itself: create_session renews      *)
(* kernel:session and leaves the mark kernel:init of the old container.    *)
HiddenFirst ==
  \A r \in Requests :
    /\ At(r, "running") /\ req[r].in /\ req[r].cell = "user"
    /\ ~met /\ mishaps.deaths = 0
    => box.init

(* What a student's code may rely on: it is alone in the kernel, in the    *)
(* record's environment, and after the hidden cells.                       *)
KernelReady == OneRunner /\ OwnEnvironment /\ HiddenFirst
=============================================================================
