--------------------------- MODULE SpeakerProofs ---------------------------
(***************************************************************************)
(* The speaker never records or publishes an intent that bird did not      *)
(* take, for every set of objects and every number of edits and faults.    *)
(* The argument is about lastHash: it stands for the configuration of the  *)
(* running bird, which a second bird would break, so no second bird boots  *)
(* before the agent has gone down with the first.                          *)
(***************************************************************************)
EXTENDS Speaker, TLAPS

(* The variables are the records that the actions take them for.           *)
Shape ==
    /\ worker = [at |-> worker.at, next |-> worker.next, seen |-> worker.seen, running |-> worker.running]
    /\ rec = [lastHash |-> rec.lastHash, lastAdvs |-> rec.lastAdvs, lastErrors |-> rec.lastErrors, of |-> rec.of]
    /\ proc \in [running : BOOLEAN, exited : BOOLEAN]
    /\ bird = [state |-> bird.state, file |-> bird.file, sock |-> bird.sock, loaded |-> bird.loaded]

(* A bird that no exit was seen of is one that Start knows of, and once a  *)
(* configuration has been confirmed no other bird boots.                   *)
OneBird ==
    ~proc.exited =>
        /\ bird.state # "off" => proc.running
        /\ rec.lastHash # None \/ worker.at = "hash" => proc.running /\ bird.state # "booting"

(* The file is the one of this pass from its writing to the reload, and    *)
(* bird has it once the reload has been confirmed.                         *)
PassFile ==
    /\ worker.at \in {"start", "wait", "reload"} => bird.file = Build(worker.seen)
    /\ worker.at = "hash" =>
          /\ Build(worker.seen) \in everLoaded
          /\ bird.state = "up" /\ ~proc.exited => bird.loaded = Build(worker.seen)
    /\ worker.at = "record" => rec.lastHash = Build(worker.seen)

(* lastHash is what bird runs with, but for the moment between a reload and*)
(* its being remembered.                                                   *)
HashIsLoaded ==
    rec.lastHash # None =>
        /\ rec.lastHash \in everLoaded
        /\ bird.state = "up" /\ ~proc.exited /\ worker.at # "hash" => bird.loaded = rec.lastHash

(* What is on its way to the BGPNodeState was loaded once.                 *)
Published ==
    /\ rec.of # None => rec.of \in everLoaded
    /\ pub.at = "apply" /\ pub.status.of # None => pub.status.of \in everLoaded
    /\ status # None /\ status.of # None => status.of \in everLoaded

LInv == Shape /\ OneBird /\ PassFile /\ HashIsLoaded /\ Published

(* NewApp has confirmed and published nothing.                             *)
LEMMA FreshStart == Init => LInv
<1> SUFFICES ASSUME Init PROVE LInv
  BY Zenon
<1>1. Shape /\ OneBird /\ PassFile /\ HashIsLoaded
  BY Zenon DEF Init, Fresh, Idle, Shape, OneBird, PassFile, HashIsLoaded
<1>2. Published
  BY Zenon DEF Init, Fresh, Published
<1> QED BY Zenon, <1>1, <1>2 DEF LInv

(* An agent that starts again has confirmed nothing, and what was loaded   *)
(* before stays in the history.                                            *)
LEMMA RestartStep ==
    ASSUME LInv, Restart
    PROVE  LInv'
<1>1. Shape' /\ OneBird' /\ PassFile' /\ HashIsLoaded'
  BY Zenon DEF Restart, Fresh, Idle, Shape, OneBird, PassFile, HashIsLoaded
<1>2. Published'
  BY Zenon DEF Restart, Fresh, LInv, Published
<1> QED BY Zenon, <1>1, <1>2 DEF LInv

(* The passes of Reconcile.                                                *)
LEMMA WorkerKeeps ==
    ASSUME \A s : Build(s) # None, "lost" \notin Faults, LInv, WorkerStep
    PROVE  LInv'
<1> USE DEF LInv, Shape, OneBird, PassFile, HashIsLoaded, Published
<1>1. CASE Get
  BY Zenon, <1>1 DEF Get, Idle, outside
<1>2. CASE List
  BY Zenon, <1>2 DEF List, At
<1>3. CASE Decide
  BY Zenon, <1>3 DEF Decide, At
<1>4. CASE WriteFile
  BY Zenon, <1>4 DEF WriteFile, At
<1>5. CASE Start
  BY Zenon, <1>5 DEF Start, At
<1>6. CASE WaitForControlSocket
  BY Zenon, <1>6 DEF WaitForControlSocket, At
<1>7. CASE Reload
  BY Zenon, <1>7 DEF Reload, At
<1>8. CASE RememberHash
  BY Zenon, <1>8 DEF RememberHash, At
<1>9. CASE RecordIntent
  BY Zenon, <1>9 DEF RecordIntent, At, Idle
<1>10. CASE PassFails
  <2>1. UNCHANGED <<rec, proc, bird, everLoaded, pub, status>> /\ worker' = Idle
    BY Zenon, <1>10 DEF PassFails, At
  <2>2. worker.at # "hash"
    BY Zenon, <1>10 DEF PassFails, At
  <2> QED BY Zenon, <2>1, <2>2 DEF Idle
<1> QED BY Zenon, <1>1, <1>2, <1>3, <1>4, <1>5, <1>6, <1>7, <1>8, <1>9, <1>10 DEF WorkerStep

(* Every other goroutine, bird itself, and the agent's end.                *)
LEMMA OthersKeep ==
    ASSUME LInv, [Next]_vars, ~WorkerStep
    PROVE  LInv'
<1>1. ASSUME UNCHANGED <<worker, rec, proc, bird, pub, status, everLoaded>>
      PROVE  LInv'
  BY ZenonT(30), <1>1 DEF LInv, Shape, OneBird, PassFile, HashIsLoaded, Published
<1>2. CASE \/ \E o \in Objects : Edit(o)
           \/ Notify \/ Trigger \/ Debounce \/ TimerFires \/ BackoffEnds \/ UNCHANGED vars
  <2>1. UNCHANGED <<worker, rec, proc, bird, pub, status, everLoaded>>
    BY Zenon, <1>2 DEF Edit, Notify, Trigger, Debounce, TimerFires, BackoffEnds, Wake, outside, vars
  <2> QED BY Zenon, <1>1, <2>1
<1>3. CASE StatusInputs
  <2>1. Published'
    BY Zenon, <1>3 DEF StatusInputs, outside, LInv, Published
  <2> QED BY Zenon, <1>3, <2>1 DEF StatusInputs, outside, LInv, Shape, OneBird, PassFile, HashIsLoaded
<1>4. CASE Apply
  <2>1. Published'
    BY Zenon, <1>4 DEF Apply, Fresh, LInv, Published
  <2> QED BY Zenon, <1>4, <2>1 DEF Apply, LInv, Shape, OneBird, PassFile, HashIsLoaded
<1>5. CASE BirdBoots
  BY Zenon, <1>5 DEF BirdBoots, LInv, Shape, OneBird, PassFile, HashIsLoaded, Published
<1>6. CASE BirdExits
  BY ZenonT(30), <1>6 DEF BirdExits, LInv, Shape, OneBird, PassFile, HashIsLoaded, Published
<1>7. CASE ExitSeen
  BY Zenon, <1>7 DEF ExitSeen, outside, LInv, Shape, OneBird, PassFile, HashIsLoaded, Published
<1>8. CASE AppExits \/ Killed
  BY Zenon, <1>8, RestartStep DEF AppExits, Killed
<1> QED BY Zenon, <1>2, <1>3, <1>4, <1>5, <1>6, <1>7, <1>8 DEF Next, PublisherStep

(* A pass records its advertisements only while the bird that runs has     *)
(* their configuration, and the BGPNodeState shows none that bird never    *)
(* took, if a birdc that fails has not reached bird (reconcile.go,         *)
(* publisher.go, process.go).                                              *)
THEOREM RecordedIsLoadedAlways ==
    ASSUME \A s : Build(s) # None, "lost" \notin Faults
    PROVE  Spec => []RecordedIsLoaded
<1>1. LInv /\ [Next]_vars => LInv'
  BY Zenon, WorkerKeeps, OthersKeep
<1>2. LInv => RecordedIsLoaded
  BY Zenon DEF LInv, PassFile, HashIsLoaded, Published, RecordedIsLoaded
<1> QED BY <1>1, <1>2, FreshStart, PTL DEF Spec
=============================================================================
