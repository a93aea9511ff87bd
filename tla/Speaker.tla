------------------------------ MODULE Speaker ------------------------------
(***************************************************************************)
(* The bgp-speaker of one node: an agent that turns BGP objects into the   *)
(* configuration of a bird process and reports what it did.                *)
(*                                                                         *)
(*   informers --Notify--> Invalidator --Trigger--> debounce timer         *)
(*      --Add--> workqueue --> Reconcile --> bird.conf, bird, birdc        *)
(*   Publisher: Reconciler, ProcessManager --> BGPNodeState.status         *)
(*                                                                         *)
(* Every arrow is a goroutine of its own, and a pass of Reconcile reads    *)
(* one list at a time while the cache moves on under it.  Faults, at most  *)
(* MaxFaults of them: "io" (a file, exec, socket or birdc step fails),     *)
(* "apply" (the status patch fails), "exit" (bird dies), "kill" (the       *)
(* container is killed).  With "lost" among them, a birdc that fails may be*)
(* one killed by the ten-second context after bird took the configuration. *)
(***************************************************************************)
EXTENDS PrefixSources, Sequences

CONSTANTS Values,      \* the specs that an object may be given
          Initially,   \* the objects the agent finds when it is first started
          Faults, MaxEdits, MaxFaults

VARIABLES
    cache,    \* the informer cache: a spec or None for every object
    signal,   \* wake-ups under way: event, noted, triggered, timer, queued, delayed
    worker,   \* the pass of Reconcile: at, the objects it has read, whether bird was running
    rec,      \* the Reconciler: lastHash, lastAdvs, lastErrors
    proc,     \* ProcessManager: running, and whether exitCh holds an exit
    bird,     \* the outside: state, bird.conf, control socket, loaded configuration
    pub,      \* the Publisher: at, and the status under construction
    status,   \* BGPNodeState.status, None before the first patch
    everLoaded, \* every configuration that bird has run with so far
    edits, faults

vars == <<cache, signal, worker, rec, proc, bird, pub, status, everLoaded, edits, faults>>
outside == <<cache, status, everLoaded, edits, faults>>

(* The lists in the order in which a pass reads them.                      *)
Kinds == <<Pools, Advs, Slbs, Nets, Peers>>

Idle == [at |-> "idle", next |-> 1, seen |-> [o \in Objects |-> None], running |-> FALSE]

Fresh ==
    [signal  |-> [event |-> FALSE, noted |-> TRUE, triggered |-> FALSE,
                  timer |-> FALSE, queued |-> FALSE, delayed |-> FALSE],
     rec     |-> [lastHash |-> None, lastAdvs |-> {}, lastErrors |-> {}, of |-> None],
     proc    |-> [running |-> FALSE, exited |-> FALSE],
     bird    |-> [state |-> "off", file |-> None, sock |-> FALSE, loaded |-> None],
     pub     |-> [at |-> "get", status |-> None]]

(* NewApp: the caches have synced and the invalidator has been notified.   *)
Init ==
    /\ cache = Initially
    /\ signal = Fresh.signal /\ rec = Fresh.rec /\ proc = Fresh.proc /\ bird = Fresh.bird
    /\ pub = Fresh.pub
    /\ worker = Idle
    /\ status = None
    /\ everLoaded = {}
    /\ edits = 0 /\ faults = 0

May(f) == f \in Faults /\ faults < MaxFaults
Fault(f) == May(f) /\ faults' = faults + 1

(***************************************************************************)
(* The wake-up chain.                                                      *)
(***************************************************************************)
Edit(o) ==
    /\ edits < MaxEdits
    /\ \E v \in Values[o] \ {cache[o]} : cache' = [cache EXCEPT ![o] = v]
    /\ signal' = [signal EXCEPT !.event = TRUE]
    /\ edits' = edits + 1
    /\ UNCHANGED <<worker, rec, proc, bird, pub, status, everLoaded, faults>>

Wake(from, to) ==
    /\ signal[from]
    /\ signal' = [signal EXCEPT ![from] = FALSE, ![to] = TRUE]
    /\ UNCHANGED <<worker, rec, proc, bird, pub>>
    /\ UNCHANGED outside

Notify == Wake("event", "noted")
Trigger == Wake("noted", "triggered")
Debounce == Wake("triggered", "timer")
TimerFires == Wake("timer", "queued")
BackoffEnds == Wake("delayed", "queued")

(***************************************************************************)
(* workerLoop and Reconcile.                                               *)
(***************************************************************************)
Get ==
    /\ worker.at = "idle" /\ signal.queued
    /\ worker' = [Idle EXCEPT !.at = "read"]
    /\ signal' = [signal EXCEPT !.queued = FALSE]
    /\ UNCHANGED <<rec, proc, bird, pub>>
    /\ UNCHANGED outside

At(step) == worker.at = step /\ UNCHANGED <<pub, cache, status, edits>>

List ==
    /\ At("read") /\ worker.next <= Len(Kinds)
    /\ worker' = [worker EXCEPT !.next = @ + 1,
                                !.seen = [o \in Objects |-> IF o \in Kinds[worker.next] THEN cache[o] ELSE @[o]]]
    /\ UNCHANGED <<signal, rec, proc, bird, everLoaded, faults>>

(* Mutant: the hash is remembered as soon as it is computed.               *)
DecideAndRemember ==
    /\ At("read") /\ worker.next > Len(Kinds)
    /\ LET changed == rec.lastHash # Build(worker.seen)
       IN  worker' = [worker EXCEPT !.running = proc.running,
                                    !.at = IF proc.running /\ ~changed THEN "record" ELSE "write"]
    /\ rec' = [rec EXCEPT !.lastHash = Build(worker.seen)]
    /\ UNCHANGED <<signal, proc, bird, everLoaded, faults>>

(* buildReconcileResult, Build and the comparison with the last hash; the  *)
(* state of the process is looked at once, here.                           *)
Decide ==
    /\ At("read") /\ worker.next > Len(Kinds)
    /\ LET changed == rec.lastHash # Build(worker.seen)
       IN  worker' = [worker EXCEPT !.running = proc.running,
                                    !.at = IF proc.running /\ ~changed THEN "record" ELSE "write"]
    /\ UNCHANGED <<signal, rec, proc, bird, everLoaded, faults>>

WriteFile ==
    /\ At("write")
    /\ bird' = [bird EXCEPT !.file = Build(worker.seen)]
    /\ worker' = [worker EXCEPT !.at = IF worker.running THEN "reload" ELSE "start"]
    /\ UNCHANGED <<signal, rec, proc, everLoaded, faults>>

(* Start does nothing if a bird is already running.                        *)
Start ==
    /\ At("start")
    /\ proc' = [proc EXCEPT !.running = TRUE]
    /\ bird' = IF proc.running THEN bird ELSE [bird EXCEPT !.state = "booting"]
    /\ worker' = [worker EXCEPT !.at = "wait"]
    /\ UNCHANGED <<signal, rec, everLoaded, faults>>

WaitForControlSocket ==
    /\ At("wait") /\ bird.sock
    /\ worker' = [worker EXCEPT !.at = "reload"]
    /\ UNCHANGED <<signal, rec, proc, bird, everLoaded, faults>>

Reload ==
    /\ At("reload") /\ bird.state = "up"
    /\ bird' = [bird EXCEPT !.loaded = bird.file]
    /\ everLoaded' = everLoaded \cup {bird.file}
    /\ worker' = [worker EXCEPT !.at = "hash"]
    /\ UNCHANGED <<signal, rec, proc, faults>>

RememberHash ==
    /\ At("hash")
    /\ rec' = [rec EXCEPT !.lastHash = Build(worker.seen)]
    /\ worker' = [worker EXCEPT !.at = "record"]
    /\ UNCHANGED <<signal, proc, bird, everLoaded, faults>>

(* Mutant: a wake-up that came while the pass ran is dropped at its end.   *)
RecordAndDrain ==
    /\ At("record")
    /\ rec' = [rec EXCEPT !.lastAdvs = Advertisements(worker.seen), !.lastErrors = Errors(worker.seen),
                          !.of = Build(worker.seen)]
    /\ worker' = Idle
    /\ signal' = [signal EXCEPT !.queued = FALSE]
    /\ UNCHANGED <<proc, bird, everLoaded, faults>>

(* The intent is recorded, Reconcile returns, Forget and Done.  of is      *)
(* history: the configuration that the recorded intent went with.          *)
RecordIntent ==
    /\ At("record")
    /\ rec' = [rec EXCEPT !.lastAdvs = Advertisements(worker.seen), !.lastErrors = Errors(worker.seen),
                          !.of = Build(worker.seen)]
    /\ worker' = Idle
    /\ UNCHANGED <<signal, proc, bird, everLoaded, faults>>

(* An error: AddRateLimited and Done.  Every step before the intent is     *)
(* recorded may fail; the socket wait times out, and birdc gives up on a   *)
(* bird that does not answer.                                              *)
PassFails ==
    /\ \E step \in {"read", "write", "start", "wait", "reload"} : At(step)
    /\ worker' = Idle
    /\ signal' = [signal EXCEPT !.delayed = TRUE]
    /\ UNCHANGED <<rec, proc>>
    /\ \E took \in IF "lost" \in Faults THEN BOOLEAN ELSE {FALSE} :
          /\ took => worker.at = "reload" /\ bird.state = "up"
          /\ bird' = IF took THEN [bird EXCEPT !.loaded = bird.file] ELSE bird
          /\ everLoaded' = IF took THEN everLoaded \cup {bird.file} ELSE everLoaded
    /\ \/ Fault("io")
       \/ /\ \/ worker.at = "reload" /\ bird.state # "up"
             \/ worker.at = "wait" /\ bird.state = "off" /\ ~bird.sock
          /\ UNCHANGED faults

(***************************************************************************)
(* bird, and the goroutine that waits for it.                              *)
(***************************************************************************)
BirdBoots ==
    /\ bird.state = "booting"
    /\ bird' = [bird EXCEPT !.state = "up", !.sock = TRUE, !.loaded = bird.file]
    /\ everLoaded' = everLoaded \cup {bird.file}
    /\ UNCHANGED <<cache, signal, worker, rec, proc, pub, status, edits, faults>>

(* A bird that dies leaves its socket behind.                              *)
BirdExits ==
    /\ bird.state # "off" /\ Fault("exit")
    /\ bird' = [bird EXCEPT !.state = "off", !.loaded = None]
    /\ UNCHANGED <<cache, signal, worker, rec, proc, pub, status, everLoaded, edits>>

ExitSeen ==
    /\ proc.running /\ bird.state = "off"
    /\ proc' = [running |-> FALSE, exited |-> TRUE]
    /\ UNCHANGED <<signal, worker, rec, bird, pub>>
    /\ UNCHANGED outside

(* The container starts again, from nothing but the API objects.           *)
Restart ==
    /\ signal' = Fresh.signal /\ rec' = Fresh.rec /\ proc' = Fresh.proc /\ bird' = Fresh.bird
    /\ pub' = Fresh.pub
    /\ worker' = Idle
    /\ UNCHANGED <<cache, status, everLoaded, edits>>

(* The main loop returns when bird has exited.                             *)
AppExits == proc.exited /\ Restart /\ UNCHANGED faults
Killed == Fault("kill") /\ Restart

(***************************************************************************)
(* The Publisher: StatusInputs, Build and the patch, on every tick.  Of the*)
(* status, the advertisements, the errors and BirdRunning are kept.        *)
(***************************************************************************)
StatusInputs ==
    /\ pub.at = "get"
    /\ pub' = [at |-> "apply",
               status |-> [advs |-> rec.lastAdvs, errors |-> rec.lastErrors, of |-> rec.of,
                           running |-> proc.running]]
    /\ UNCHANGED <<signal, worker, rec, proc, bird>>
    /\ UNCHANGED outside

Apply ==
    /\ pub.at = "apply"
    /\ pub' = Fresh.pub
    /\ \/ status' = pub.status /\ UNCHANGED faults
       \/ Fault("apply") /\ UNCHANGED status
    /\ UNCHANGED <<cache, signal, worker, rec, proc, bird, everLoaded, edits>>

(***************************************************************************)
(* The specification.                                                      *)
(***************************************************************************)
WorkerStep ==
    \/ Get \/ List \/ Decide \/ WriteFile \/ Start \/ WaitForControlSocket
    \/ Reload \/ RememberHash \/ RecordIntent \/ PassFails

PublisherStep == StatusInputs \/ Apply

Next ==
    \/ \E o \in Objects : Edit(o)
    \/ Notify \/ Trigger \/ Debounce \/ TimerFires \/ BackoffEnds
    \/ WorkerStep \/ PublisherStep
    \/ BirdBoots \/ BirdExits \/ ExitSeen \/ AppExits \/ Killed

Spec == Init /\ [][Next]_vars

(* Every goroutine is scheduled, timers fire, and bird boots; nobody need  *)
(* edit anything, and no fault need ever happen.                           *)
Fairness ==
    /\ WF_vars(Notify) /\ WF_vars(Trigger) /\ WF_vars(Debounce) /\ WF_vars(TimerFires)
    /\ WF_vars(BackoffEnds) /\ WF_vars(WorkerStep) /\ WF_vars(PublisherStep)
    /\ WF_vars(BirdBoots) /\ WF_vars(ExitSeen) /\ WF_vars(AppExits)

FairSpec == Spec /\ Fairness

(***************************************************************************)
(* Properties.                                                             *)
(***************************************************************************)
(* When a pass records its advertisements, with the time of the sync, bird *)
(* is running with the configuration that they were derived for: a pass    *)
(* that skipped the reload was right to.  (A bird that has died since is   *)
(* about to take the whole agent with it.)  And the BGPNodeState only ever *)
(* shows advertisements of a configuration that bird did take, whatever    *)
(* the publisher's ticks interleave with (reconcile.go, publisher.go).     *)
RecordedIsLoaded ==
    /\ worker.at = "record" /\ bird.state = "up" /\ ~proc.exited => bird.loaded = Build(worker.seen)
    /\ status # None /\ status.of # None => status.of \in everLoaded

(* Once the objects rest, bird comes to run with their configuration for   *)
(* good: no wake-up is lost between the informers and the worker, failed   *)
(* passes are retried, and a dead bird is replaced.  And the BGPNodeState  *)
(* comes to list exactly their advertisements and errors, and to say that  *)
(* bird is running.                                                        *)
Converges ==
    <>[](/\ bird.state = "up" /\ bird.loaded = Build(cache)
         /\ status # None
         /\ status.advs = Advertisements(cache)
         /\ status.errors = Errors(cache)
         /\ status.running)
=============================================================================
