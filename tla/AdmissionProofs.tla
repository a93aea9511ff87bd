-------------------------- MODULE AdmissionProofs --------------------------
(***************************************************************************)
(* The webhooks keep the stored objects consistent, for every menu of      *)
(* requests: the checks of a create or an update and the refusals of a     *)
(* delete fit together.  A step of the API server moves at most one        *)
(* object (Moves); what the properties say of the others stays, and what   *)
(* they say of that one is what its webhook checked.                       *)
(***************************************************************************)
EXTENDS AdmissionControl, TLAPS

(***************************************************************************)
(* The shape of what is stored.                                            *)
(***************************************************************************)
\* Every object but a Pod is one that was asked for, and only the finalized
\* kinds wait for their deletion.
Fits(k, o) ==
    /\ o.owner = NoOwner
    /\ Kind(k) \notin Finalized => ~o.del /\ o.fins = {}
    /\ Kind(k) = "Subnet" => o.status \in [dns : Int]
    /\ Kind(k) # "Pod" => \E e \in todo : e.key = k /\ o \in Things(e)

Shape ==
    /\ todo \in Menus
    /\ obj = [k \in {e.key : e \in todo} |-> obj[k]]
    /\ seen = [k \in {e.key : e \in todo} |-> seen[k]]
    /\ \A k \in DOMAIN obj : obj[k] # None => Fits(k, obj[k])
    /\ \A k \in DOMAIN obj : seen[k] # None => seen[k].owner = NoOwner

\* What that says of the specs.
Formed ==
    \A k \in DOMAIN obj : obj[k] # None /\ Kind(k) # "Pod" =>
        WellFormed(k, obj[k].spec) /\ (Kind(k) \notin Finalized => ~obj[k].del)

(***************************************************************************)
(* What a step does to an object.                                          *)
(***************************************************************************)
Stays(k) ==
    /\ obj'[k] = None <=> obj[k] = None
    /\ obj[k] # None => obj'[k].spec = obj[k].spec /\ obj'[k].del = obj[k].del
Created(k) == obj[k] = None /\ obj'[k] # None /\ ~obj'[k].del /\ AdmitsCreate(obj, k, obj'[k].spec)
Updated(k) ==
    /\ obj[k] # None /\ obj'[k] # None /\ obj'[k].del = obj[k].del
    /\ AdmitsUpdate(obj, k, obj[k], obj'[k].spec)
Withdrawn(k) ==
    /\ obj[k] # None /\ (AdmitsDelete(obj, k) \/ obj[k].del)
    /\ obj'[k] # None => ~obj[k].del /\ obj'[k].del /\ obj'[k].spec = obj[k].spec

\* k is the object a step is about.
Moves(k) ==
    /\ DOMAIN obj' = DOMAIN obj
    /\ \A j \in DOMAIN obj : Kind(j) # "Pod" /\ j # k => Stays(j)
    /\ k \in DOMAIN obj /\ Kind(k) # "Pod" => Stays(k) \/ Created(k) \/ Updated(k) \/ Withdrawn(k)

LEMMA ThingFacts ==
    ASSUME NEW e, NEW o \in Things(e)
    PROVE  /\ o.uid \in 0 .. 3 /\ o.del \in BOOLEAN /\ o.fins \in SUBSET {"finalizer"} /\ o.owner = NoOwner
           /\ o.spec = e.spec /\ o.status \in {None} \cup [dns : Int]
           /\ o = [uid |-> o.uid, del |-> o.del, fins |-> o.fins, owner |-> o.owner, spec |-> o.spec,
                   status |-> o.status]
  BY Zenon DEF Things

LEMMA FinsSet ==
    ASSUME NEW e, NEW o \in Things(e), NEW fins
    PROVE  [o EXCEPT !.fins = fins] = [uid |-> o.uid, del |-> o.del, fins |-> fins, owner |-> o.owner, spec |-> o.spec,
                                       status |-> o.status]
  BY ThingFacts

\* None is no object.
LEMMA NotNone ==
    ASSUME Shape, NEW e \in todo, NEW o \in Things(e) PROVE o # None
  BY Zenon, MenusAssumption DEF Shape

LEMMA ShapeForms ==
    ASSUME Shape PROVE Formed
  <1> SUFFICES ASSUME NEW k \in DOMAIN obj, obj[k] # None, Kind(k) # "Pod"
               PROVE  WellFormed(k, obj[k].spec) /\ (Kind(k) \notin Finalized => ~obj[k].del)
    BY Zenon DEF Formed
  <1>1. PICK e \in todo : e.key = k /\ obj[k] \in Things(e)
    BY Zenon DEF Shape, Fits
  <1>2. WellFormed(e.key, e.spec)
    BY Zenon, MenusAssumption DEF Shape
  <1>3. obj[k].spec = e.spec
    BY Zenon, <1>1, ThingFacts
  <1> QED BY Zenon, <1>1, <1>2, <1>3 DEF Shape, Fits

\* A uid is found: no owner reference names any, and the cache at most one.
LEMMA FreshUidFound ==
    ASSUME Shape, NEW k \in DOMAIN obj PROVE FreshUid(seen, k) \in 0 .. 3
  <1>1. k # NoKey
    <2>1. PICK e \in todo : e.key = k
      BY Zenon DEF Shape
    <2> QED BY Zenon, <2>1, MenusAssumption DEF Shape, WellFormed
  <1>2. \A n \in 0 .. 3 : NoOwner # <<k, n>>
    BY Zenon, <1>1 DEF NoOwner, NoKey
  <1>3. DOMAIN seen = DOMAIN obj
    BY Zenon DEF Shape
  <1>4. \A n \in 0 .. 3 : \A j \in DOMAIN obj : obj[j] # None => obj[j].owner # <<k, n>>
    BY Zenon, <1>2 DEF Shape, Fits
  <1>5. \A n \in 0 .. 3 : \A j \in DOMAIN seen : seen[j] # None => seen[j].owner # <<k, n>>
    BY Zenon, <1>2, <1>3 DEF Shape
  <1>6. \E n \in 0 .. 3 : seen[k].uid # n
    <2>1. seen[k].uid # 0 \/ seen[k].uid # 1
      OBVIOUS
    <2> QED BY <2>1
  <1>7. \E n \in 0 .. 3 :
            /\ \A j \in DOMAIN obj : obj[j] # None => obj[j].owner # <<k, n>>
            /\ \A j \in DOMAIN seen : seen[j] # None => seen[j].owner # <<k, n>>
            /\ seen[k] # None => seen[k].uid # n
    BY Zenon, <1>4, <1>5, <1>6
  <1> QED BY Zenon, <1>7 DEF FreshUid
LEMMA ShapeInit ==
    ASSUME Init PROVE Shape
  <1>1. PICK menu \in Menus : todo = menu /\ obj = [k \in {e.key : e \in menu} |-> None] /\ seen = obj
    BY Zenon DEF Init
  <1>2. DOMAIN obj = {e.key : e \in todo} /\ \A k \in DOMAIN obj : obj[k] = None
    BY Zenon, <1>1
  <1>3. obj = [k \in {e.key : e \in todo} |-> obj[k]]
    BY Zenon, <1>1, <1>2
  <1> QED BY Zenon, <1>1, <1>2, <1>3 DEF Shape

\* Storing o under k.
LEMMA Put ==
    ASSUME Shape, NEW k \in DOMAIN obj, NEW o, o # None => Fits(k, o),
           obj' = [obj EXCEPT ![k] = o], seen' = seen, todo' = todo
    PROVE  /\ Shape'
           /\ DOMAIN obj' = DOMAIN obj /\ obj'[k] = o
           /\ \A j \in DOMAIN obj : j # k => obj'[j] = obj[j]
  <1>1. /\ DOMAIN obj' = DOMAIN obj /\ obj'[k] = o
        /\ \A j \in DOMAIN obj : j # k => obj'[j] = obj[j]
    BY Zenon
  <1>3. \A j \in DOMAIN obj' : obj'[j] # None => Fits(j, obj'[j])
    BY Zenon, <1>1 DEF Shape
  <1>4. DOMAIN obj = {e.key : e \in todo}
    BY Zenon DEF Shape
  <1>5. obj' = [j \in {e.key : e \in todo'} |-> obj'[j]]
    BY Zenon, <1>4
  <1>6. Shape'
    <2>1. (\A j \in DOMAIN obj : obj[j] # None => Fits(j, obj[j]))'
      BY Zenon, <1>3 DEF Fits, Things
    <2>2. todo' \in Menus /\ seen' = [j \in {e.key : e \in todo'} |-> seen'[j]]
      BY Zenon DEF Shape
    <2>3. \A j \in DOMAIN obj' : seen'[j] # None => seen'[j].owner = NoOwner
      BY Zenon, <1>1 DEF Shape
    <2> QED BY Zenon, <1>5, <2>1, <2>2, <2>3 DEF Shape
  <1> QED BY Zenon, <1>1, <1>6

\* A deletion, which a finalizer may hold up.
LEMMA RemovedMoves ==
    ASSUME Shape, NEW k \in DOMAIN obj, obj[k] # None, ~obj[k].del, AdmitsDelete(obj, k),
           obj' = [obj EXCEPT ![k] = Removed(obj[k])], seen' = seen, todo' = todo
    PROVE  Shape' /\ Moves(k)
  <1> DEFINE o == Removed(obj[k])
  <1>1. Fits(k, obj[k])
    BY Zenon DEF Shape
  <1>2. o # None => Fits(k, o) /\ o.spec = obj[k].spec /\ o.del
    <2> SUFFICES ASSUME o # None PROVE Fits(k, o) /\ o.spec = obj[k].spec /\ o.del
      BY Zenon
    <2>1. o = [obj[k] EXCEPT !.del = TRUE] /\ obj[k].fins # {}
      BY Zenon DEF Removed
    <2>2. Kind(k) \in Finalized
      BY Zenon, <1>1, <2>1 DEF Fits
    <2>3. PICK e \in todo : e.key = k /\ obj[k] \in Things(e)
      BY Zenon, <1>1, <2>2 DEF Fits, Finalized
    <2>4. o \in Things(e) /\ o.spec = obj[k].spec /\ o.del
      BY Zenon, <2>1, <2>3, ThingFacts DEF Things
    <2>5. o.owner = NoOwner
      BY Zenon, <2>4, ThingFacts
    <2> QED BY Zenon, <2>2, <2>3, <2>4, <2>5 DEF Fits, Finalized
  <1> HIDE DEF o
  <1>3. obj' = [obj EXCEPT ![k] = o]
    BY Zenon DEF o
  <1>4. /\ Shape' /\ DOMAIN obj' = DOMAIN obj /\ obj'[k] = o
        /\ \A j \in DOMAIN obj : j # k => obj'[j] = obj[j]
    BY Zenon, <1>2, <1>3, Put
  <1>5. \A j \in DOMAIN obj : j # k => Stays(j)
    BY Zenon, <1>4 DEF Stays
  <1>6. Withdrawn(k)
    BY Zenon, <1>2, <1>4 DEF Withdrawn
  <1> QED BY Zenon, <1>4, <1>5, <1>6 DEF Moves

\* A create or an update.
LEMMA RequestMoves ==
    ASSUME Shape, Request PROVE Shape' /\ \E k : Moves(k)
  <1>1. PICK e \in todo : Kind(e.key) # "Pod" /\ Submit(e, Blank(e.key)) /\ todo' = todo
    BY Zenon DEF Request
  <1> DEFINE k == e.key
             new == IF obj[k] = None THEN NewObject(seen, k, NoOwner, e.spec, Blank(k))
                    ELSE [obj[k] EXCEPT !.spec = e.spec]
  <1>2. k \in DOMAIN obj
    BY Zenon DEF Shape
  <1>3. CASE e.spec = None
    <2>1. /\ obj[k] # None /\ ~obj[k].del /\ AdmitsDelete(obj, k)
          /\ obj' = [obj EXCEPT ![k] = Removed(obj[k])] /\ seen' = seen
      BY Zenon, <1>1, <1>3 DEF Submit
    <2> QED BY Zenon, <1>1, <1>2, <2>1, RemovedMoves
  <1>4. CASE e.spec # None
    <2>1. new # obj[k] /\ Admits(obj, k, obj[k], new) /\ obj' = [obj EXCEPT ![k] = new] /\ seen' = seen
      BY Zenon, <1>1, <1>4 DEF Submit
    <2>2. ASSUME obj[k] = None
          PROVE  /\ new \in Things(e) /\ Fits(k, new)
                 /\ ~new.del /\ AdmitsCreate(obj, k, new.spec)
      <3>1. new = [uid |-> FreshUid(seen, k), del |-> FALSE, fins |-> {}, owner |-> NoOwner, spec |-> e.spec,
                   status |-> Blank(k)]
        BY Zenon, <2>2 DEF NewObject
      <3>2. FreshUid(seen, k) \in 0 .. 3
        BY Zenon, <1>2, FreshUidFound
      <3>3. Blank(k) \in {None} \cup [dns : Int] /\ (Kind(k) = "Subnet" => Blank(k) \in [dns : Int])
        BY DEF Blank, NoAddress
      <3> HIDE DEF new
      <3>4. new \in Things(e)
        BY Zenon, <3>1, <3>2, <3>3 DEF Things
      <3>5. new.owner = NoOwner /\ ~new.del /\ new.fins = {} /\ new.status = Blank(k)
        BY Zenon, <3>1
      <3>6. Fits(k, new)
        BY Zenon, <3>3, <3>4, <3>5 DEF Fits
      <3>7. AdmitsCreate(obj, k, new.spec)
        BY Zenon, <2>1, <2>2 DEF Admits
      <3> QED BY Zenon, <3>4, <3>5, <3>6, <3>7
    <2>3. ASSUME obj[k] # None
          PROVE  /\ new \in Things(e) /\ Fits(k, new)
                 /\ new.del = obj[k].del /\ AdmitsUpdate(obj, k, obj[k], new.spec)
      <3>1. Fits(k, obj[k])
        BY Zenon, <1>2, <2>3 DEF Shape
      <3>2. PICK f \in todo : f.key = k /\ obj[k] \in Things(f)
        BY Zenon, <1>1, <3>1 DEF Fits
      <3>3. new = [obj[k] EXCEPT !.spec = e.spec]
        BY Zenon, <2>3
      <3> HIDE DEF new
      <3>4. /\ new = [uid |-> obj[k].uid, del |-> obj[k].del, fins |-> obj[k].fins, owner |-> obj[k].owner,
                      spec |-> e.spec, status |-> obj[k].status]
            /\ obj[k].uid \in 0 .. 3 /\ obj[k].del \in BOOLEAN /\ obj[k].fins \in SUBSET {"finalizer"}
            /\ obj[k].owner = NoOwner /\ obj[k].status \in {None} \cup [dns : Int]
        BY <3>2, <3>3, ThingFacts
      <3>5. new \in Things(e)
        BY Zenon, <3>4 DEF Things
      <3>6. new.del = obj[k].del /\ new.fins = obj[k].fins /\ new.owner = obj[k].owner /\ new.status = obj[k].status
        BY Zenon, <3>4
      <3>7. Fits(k, new)
        BY Zenon, <3>1, <3>5, <3>6 DEF Fits
      <3>8. [new EXCEPT !.status = obj[k].status] = new
        BY <3>4
      <3>9. AdmitsUpdate(obj, k, obj[k], new.spec)
        BY Zenon, <2>1, <2>3, <3>8 DEF Admits
      <3> QED BY Zenon, <3>5, <3>6, <3>7, <3>9
    <2> HIDE DEF new
    <2>4. new # None /\ Fits(k, new)
      BY Zenon, <2>2, <2>3, NotNone
    <2>5. /\ Shape' /\ DOMAIN obj' = DOMAIN obj /\ obj'[k] = new
          /\ \A j \in DOMAIN obj : j # k => obj'[j] = obj[j]
      BY Zenon, <1>1, <1>2, <2>1, <2>4, Put
    <2>6. \A j \in DOMAIN obj : j # k => Stays(j)
      BY Zenon, <2>5 DEF Stays
    <2>7. Created(k) \/ Updated(k)
      BY Zenon, <2>2, <2>3, <2>4, <2>5 DEF Created, Updated
    <2>8. Moves(k)
      BY Zenon, <2>5, <2>6, <2>7 DEF Moves
    <2> QED BY Zenon, <2>5, <2>8
  <1> QED BY Zenon, <1>3, <1>4

LEMMA WithdrawMoves ==
    ASSUME Shape, Withdraw PROVE Shape' /\ \E k : Moves(k)
  <1>1. PICK k \in DOMAIN obj : Submit([key |-> k, spec |-> None], None) /\ todo' = todo
    BY Zenon DEF Withdraw
  <1>2. /\ obj[k] # None /\ ~obj[k].del /\ AdmitsDelete(obj, k)
        /\ obj' = [obj EXCEPT ![k] = Removed(obj[k])] /\ seen' = seen
    BY Zenon, <1>1 DEF Submit
  <1> QED BY Zenon, <1>1, <1>2, RemovedMoves

LEMMA CreatePodMoves ==
    ASSUME Shape, CreatePod PROVE Shape' /\ \E k : Moves(k)
  <1>0. PICK e \in todo : /\ Kind(e.key) = "Pod" /\ obj[e.key] = None /\ todo' = todo
                          /\ \E pod : Submit([key |-> e.key, spec |-> pod], None)
    BY Zenon DEF CreatePod
  <1>1. PICK pod : Submit([key |-> e.key, spec |-> pod], None)
    BY Zenon, <1>0
  <1> DEFINE k == e.key
             new == NewObject(seen, k, NoOwner, pod, None)
  <1>2. k \in DOMAIN obj
    BY Zenon DEF Shape
  <1>3. obj' = [obj EXCEPT ![k] = new] /\ seen' = seen
    BY Zenon, <1>0, <1>1 DEF Submit
  <1>4. Fits(k, new)
    BY Zenon, <1>0 DEF Fits, Finalized, NewObject
  <1> HIDE DEF new
  <1>5. /\ Shape' /\ DOMAIN obj' = DOMAIN obj
        /\ \A j \in DOMAIN obj : j # k => obj'[j] = obj[j]
    BY Zenon, <1>0, <1>2, <1>3, <1>4, Put
  <1>6. \A j \in DOMAIN obj : j # k => Stays(j)
    BY Zenon, <1>5 DEF Stays
  <1>7. Moves(k)
    BY Zenon, <1>0, <1>5, <1>6 DEF Moves
  <1> QED BY Zenon, <1>5, <1>7

\* A write of the status or of the finalizers that leaves the object there.
LEMMA StatusMoves ==
    ASSUME Shape, NEW k \in DOMAIN obj, obj[k] # None, NEW o, o # None, Fits(k, o),
           o.spec = obj[k].spec, o.del = obj[k].del,
           obj' = [obj EXCEPT ![k] = o], seen' = seen, todo' = todo
    PROVE  Shape' /\ Moves(k)
  <1>1. /\ Shape' /\ DOMAIN obj' = DOMAIN obj /\ obj'[k] = o
        /\ \A j \in DOMAIN obj : j # k => obj'[j] = obj[j]
    BY Zenon, Put
  <1>2. \A j \in DOMAIN obj : Stays(j)
    BY Zenon, <1>1 DEF Stays
  <1> QED BY Zenon, <1>1, <1>2 DEF Moves

LEMMA AdvertiseMoves ==
    ASSUME Shape, NEW k \in DOMAIN obj, Advertise(k) PROVE Shape' /\ Moves(k)
  <1> DEFINE v == nextDNSAddress(obj[k].spec.cidr)
             o == [obj[k] EXCEPT !.status = [obj[k].status EXCEPT !.dns = v]]
  <1>1. Kind(k) = "Subnet" /\ obj[k] # None /\ seen' = seen /\ todo' = todo
    BY Zenon DEF Advertise
  <1>2. Fits(k, obj[k])
    BY Zenon, <1>1 DEF Shape
  <1>3. PICK e \in todo : e.key = k /\ obj[k] \in Things(e)
    BY Zenon, <1>1, <1>2 DEF Fits
  <1>4. v \in Int
    <2>1. obj[k].spec.cidr \in Cidrs
      BY Zenon, <1>1, ShapeForms DEF Formed, WellFormed
    <2>2. obj[k].spec.cidr.base \in Int
      BY <2>1 DEF Cidrs, Addresses
    <2> QED BY <2>2 DEF nextDNSAddress, NoAddress
  <1>5. obj' = [obj EXCEPT ![k] = o]
    BY Zenon DEF Advertise
  <1> HIDE DEF v
  <1>6. [obj[k].status EXCEPT !.dns = v] \in [dns : Int]
    BY Zenon, <1>1, <1>2, <1>4 DEF Fits
  <1>7. /\ o = [uid |-> obj[k].uid, del |-> obj[k].del, fins |-> obj[k].fins, owner |-> obj[k].owner,
               spec |-> obj[k].spec, status |-> [obj[k].status EXCEPT !.dns = v]]
        /\ obj[k].uid \in 0 .. 3 /\ obj[k].del \in BOOLEAN /\ obj[k].fins \in SUBSET {"finalizer"}
        /\ obj[k].owner = NoOwner /\ obj[k].spec = e.spec
    BY <1>3, ThingFacts
  <1> HIDE DEF o
  <1>8. o \in Things(e)
    BY Zenon, <1>6, <1>7 DEF Things
  <1>9. o.spec = obj[k].spec /\ o.del = obj[k].del /\ o.fins = obj[k].fins /\ o.owner = obj[k].owner
        /\ o.status \in [dns : Int]
    BY Zenon, <1>6, <1>7
  <1>10. Fits(k, o)
    BY Zenon, <1>2, <1>3, <1>8, <1>9 DEF Fits
  <1>11. o # None
    BY Zenon, <1>3, <1>8, NotNone
  <1> QED BY Zenon, <1>1, <1>5, <1>9, <1>10, <1>11, StatusMoves

LEMMA FinalizeMoves ==
    ASSUME Shape, NEW k \in DOMAIN obj, Finalize(k) PROVE Shape' /\ Moves(k)
  <1>1. Kind(k) \in Finalized /\ obj[k] # None /\ seen' = seen /\ todo' = todo
    BY Zenon DEF Finalize
  <1>2. Fits(k, obj[k])
    BY Zenon, <1>1 DEF Shape
  <1>3. PICK e \in todo : e.key = k /\ obj[k] \in Things(e)
    BY Zenon, <1>1, <1>2 DEF Fits, Finalized
  <1> DEFINE f == [obj[k] EXCEPT !.fins = IF obj[k].del THEN {} ELSE {"finalizer"}]
  <1>4. obj' = [obj EXCEPT ![k] = Stored(f)]
    BY Zenon DEF Finalize
  <1>5. /\ f = [uid |-> obj[k].uid, del |-> obj[k].del, fins |-> IF obj[k].del THEN {} ELSE {"finalizer"},
                owner |-> obj[k].owner, spec |-> obj[k].spec, status |-> obj[k].status]
        /\ obj[k].uid \in 0 .. 3 /\ obj[k].del \in BOOLEAN
        /\ obj[k].owner = NoOwner /\ obj[k].spec = e.spec /\ obj[k].status \in {None} \cup [dns : Int]
    BY Zenon, <1>3, FinsSet, ThingFacts
  <1> HIDE DEF f
  <1>6. f \in Things(e)
    BY Zenon, <1>5 DEF Things
  <1>7. f.spec = obj[k].spec /\ f.del = obj[k].del /\ f.owner = NoOwner /\ f # None
    BY Zenon, <1>3, <1>5, <1>6, NotNone
  <1>8. CASE obj[k].del
    <2>1. Stored(f) = None
      BY Zenon, <1>5, <1>8 DEF Stored
    <2>2. /\ Shape' /\ DOMAIN obj' = DOMAIN obj /\ obj'[k] = None
          /\ \A j \in DOMAIN obj : j # k => obj'[j] = obj[j]
      BY Zenon, <1>1, <1>4, <2>1, Put
    <2>3. \A j \in DOMAIN obj : j # k => Stays(j)
      BY Zenon, <2>2 DEF Stays
    <2>4. Withdrawn(k)
      BY Zenon, <1>1, <1>8, <2>2 DEF Withdrawn
    <2> QED BY Zenon, <2>2, <2>3, <2>4 DEF Moves
  <1>9. CASE ~obj[k].del
    <2>1. Stored(f) = f
      BY Zenon, <1>7, <1>9 DEF Stored
    <2>2. Fits(k, f)
      BY Zenon, <1>1, <1>3, <1>6, <1>7 DEF Fits, Finalized
    <2> QED BY Zenon, <1>1, <1>4, <1>7, <2>1, <2>2, StatusMoves
  <1> QED BY Zenon, <1>8, <1>9

\* A step of the API server moves one object.
LEMMA StepMoves ==
    ASSUME Shape, [Next]_clusterVars PROVE Shape' /\ \E k : Moves(k)
  <1>1. ASSUME obj' = obj PROVE \E k : Moves(k)
    <2>1. \A j : Stays(j)
      BY Zenon, <1>1 DEF Stays
    <2>2. Moves(NoKey)
      BY Zenon, <1>1, <2>1 DEF Moves
    <2> QED BY Zenon, <2>2
  <1>2. CASE Request
    BY Zenon, <1>2, RequestMoves
  <1>3. CASE CreatePod
    BY Zenon, <1>3, CreatePodMoves
  <1>4. CASE Withdraw
    BY Zenon, <1>4, WithdrawMoves
  <1>5. CASE Refresh
    <2>1. obj' = obj /\ todo' = todo
      BY Zenon, <1>5 DEF Refresh
    <2>2. DOMAIN obj = {e.key : e \in todo} /\ DOMAIN seen = DOMAIN obj
      BY Zenon DEF Shape
    <2>3. seen' = [k \in {e.key : e \in todo'} |-> seen'[k]]
      BY Zenon, <1>5, <2>1, <2>2 DEF Refresh
    <2>4. \A k \in DOMAIN obj' : seen'[k] # None => seen'[k].owner = NoOwner
      BY Zenon, <1>5, <2>1, <2>2 DEF Refresh, Shape, Fits
    <2>5. (\A k \in DOMAIN obj : obj[k] # None => Fits(k, obj[k]))'
      BY ZenonT(30), <2>1 DEF Shape, Fits, Things
    <2>6. Shape'
      <3>1. todo' \in Menus /\ obj' = [k \in {e.key : e \in todo'} |-> obj'[k]]
        BY Zenon, <2>1 DEF Shape
      <3> QED BY Zenon, <2>3, <2>4, <2>5, <3>1 DEF Shape
    <2> QED BY Zenon, <1>1, <2>1, <2>6
  <1>6. CASE \E k \in DOMAIN obj : Finalize(k) \/ Advertise(k)
    BY Zenon, <1>6, FinalizeMoves, AdvertiseMoves
  <1>7. CASE UNCHANGED clusterVars
    <2>1. obj' = obj /\ seen' = seen /\ todo' = todo
      BY Zenon, <1>7 DEF clusterVars
    <2>2. Shape'
      BY ZenonT(30), <2>1 DEF Shape, Fits, Things
    <2> QED BY Zenon, <1>1, <2>1, <2>2
  <1> QED BY Zenon, <1>2, <1>3, <1>4, <1>5, <1>6, <1>7 DEF Next

(***************************************************************************)
(* What is known of the object a step is about, and of the others.         *)
(***************************************************************************)
Puts(k) == Created(k) \/ Updated(k)
Step(k) == Formed /\ Moves(k) /\ Formed'

\* An object of the next state is the one that was put, or it was there.
LEMMA PutOrThere ==
    ASSUME NEW k, Step(k), NEW kind, kind # "Pod", NEW j \in Of(obj, kind)'
    PROVE  \/ j = k /\ k \in DOMAIN obj /\ Kind(k) = kind /\ Puts(k)
           \/ j \in Of(obj, kind) /\ obj'[j].spec = obj[j].spec /\ (obj[j].del => obj'[j].del)
  BY Zenon DEF Step, Moves, Of, Stays, Puts, Withdrawn

\* An object that was there is there, unless it is the one withdrawn.
LEMMA ThereOrWithdrawn ==
    ASSUME NEW k, Step(k), NEW t, Kind(t) # "Pod", Has(obj, t), t = k => ~Withdrawn(k)
    PROVE  /\ Has(obj, t)'
           /\ obj'[t].del = obj[t].del
           /\ obj'[t].spec # obj[t].spec => t = k /\ k \in DOMAIN obj /\ Updated(k)
  BY Zenon DEF Step, Moves, Has, At, Stays, Created, Updated

\* What the webhook of a create or an update has checked.
LEMMA PutChecked ==
    ASSUME NEW k, Step(k), k \in DOMAIN obj, Kind(k) # "Pod", Puts(k)
    PROVE  LET old == obj[k]
               spec == obj'[k].spec
           IN  /\ Kind(k) \notin Finalized => shouldCheckReferences(old)
               /\ Kind(k) = "Vpc" => VpcValid(obj, k, old, spec)
               /\ Kind(k) = "Subnet" => IF old = None THEN SubnetCreate(obj, k, spec) ELSE SubnetUpdate(obj, k, old, spec)
               /\ Kind(k) = "L2Network" =>
                      IF old = None THEN L2NetworkCreate(obj, k, spec) ELSE L2NetworkUpdate(obj, k, old, spec)
               /\ Kind(k) = "RouteTable" => RouteTableValid(obj, k, old, spec)
               /\ Kind(k) = "VpcPeering" =>
                      IF old = None THEN VpcPeeringCreate(obj, k, spec) ELSE VpcPeeringUpdate(old, spec)
               /\ Kind(k) = "TransitGatewayRouteTable" => TransitGatewayRouteTableValid(obj, k, old, spec)
               /\ Kind(k) = "TransitGatewayAttachment" => TransitGatewayAttachmentValid(obj, k, old, spec)
               /\ Kind(k) = "NetworkACL" => FilterValid(obj, old, spec)
               /\ Kind(k) = "ExternalNetwork" => ExternalNetworkValid(obj, k, old, spec)
               /\ Kind(k) = "AddressPool" => AddressPoolValid(obj, k, old, spec)
               /\ Kind(k) = "ARPAdvertisement" => ARPAdvertisementValid(obj, k, old, spec)
               /\ Kind(k) = "BGPAdvertisement" => BGPAdvertisementValid(obj, old, spec)
               /\ Kind(k) = "ElasticIP" => ElasticIPValid(obj, old, spec)
               /\ Kind(k) = "ElasticIPAttachment" => ElasticIPAttachmentValid(obj, k, old, spec)
               /\ Kind(k) = "NetworkInterface" =>
                      IF old = None THEN NetworkInterfaceCreate(obj, spec) ELSE NetworkInterfaceUpdate(obj, old, spec)
               /\ Kind(k) = "DNSZone" => DNSZoneValid(obj, k, old, spec)
               /\ Kind(k) = "DNSRecord" => DNSRecordValid(obj, k, old, spec)
  <1> DEFINE old == obj[k]
             spec == obj'[k].spec
  <1>1. IF old = None THEN AdmitsCreate(obj, k, spec) ELSE AdmitsUpdate(obj, k, old, spec)
    BY Zenon DEF Puts, Created, Updated
  <1>2. Kind(k) \notin Finalized => shouldCheckReferences(old)
    BY Zenon DEF Step, Formed, shouldCheckReferences
  <1>3. ASSUME Kind(k) \in {"Vpc", "RouteTable", "TransitGatewayRouteTable", "TransitGatewayAttachment", "NetworkACL",
                            "ExternalNetwork", "AddressPool", "ARPAdvertisement", "BGPAdvertisement", "ElasticIP",
                            "ElasticIPAttachment", "DNSZone", "DNSRecord"}
        PROVE  AdmitsSpec(obj, k, old, spec)
    BY Zenon, <1>1, <1>3 DEF AdmitsCreate, AdmitsUpdate
  <1>4. Kind(k) = "Subnet" => IF old = None THEN SubnetCreate(obj, k, spec) ELSE SubnetUpdate(obj, k, old, spec)
    BY Zenon, <1>1 DEF AdmitsCreate, AdmitsUpdate
  <1>5. Kind(k) = "L2Network" => IF old = None THEN L2NetworkCreate(obj, k, spec) ELSE L2NetworkUpdate(obj, k, old, spec)
    BY Zenon, <1>1 DEF AdmitsCreate, AdmitsUpdate
  <1>6. Kind(k) = "VpcPeering" => IF old = None THEN VpcPeeringCreate(obj, k, spec) ELSE VpcPeeringUpdate(old, spec)
    BY Zenon, <1>1 DEF AdmitsCreate, AdmitsUpdate
  <1>7. Kind(k) = "NetworkInterface" =>
            IF old = None THEN NetworkInterfaceCreate(obj, spec) ELSE NetworkInterfaceUpdate(obj, old, spec)
    BY Zenon, <1>1 DEF AdmitsCreate, AdmitsUpdate
  <1>8. Kind(k) = "Vpc" => VpcValid(obj, k, old, spec)
    BY Zenon, <1>3 DEF AdmitsSpec
  <1>9. Kind(k) = "RouteTable" => RouteTableValid(obj, k, old, spec)
    BY Zenon, <1>3 DEF AdmitsSpec
  <1>10. Kind(k) = "TransitGatewayRouteTable" => TransitGatewayRouteTableValid(obj, k, old, spec)
    BY Zenon, <1>3 DEF AdmitsSpec
  <1>11. Kind(k) = "TransitGatewayAttachment" => TransitGatewayAttachmentValid(obj, k, old, spec)
    BY Zenon, <1>3 DEF AdmitsSpec
  <1>12. Kind(k) = "NetworkACL" => FilterValid(obj, old, spec)
    BY Zenon, <1>3 DEF AdmitsSpec
  <1>13. Kind(k) = "ExternalNetwork" => ExternalNetworkValid(obj, k, old, spec)
    BY Zenon, <1>3 DEF AdmitsSpec
  <1>14. Kind(k) = "AddressPool" => AddressPoolValid(obj, k, old, spec)
    BY Zenon, <1>3 DEF AdmitsSpec
  <1>15. Kind(k) = "ARPAdvertisement" => ARPAdvertisementValid(obj, k, old, spec)
    BY Zenon, <1>3 DEF AdmitsSpec
  <1>16. Kind(k) = "BGPAdvertisement" => BGPAdvertisementValid(obj, old, spec)
    BY Zenon, <1>3 DEF AdmitsSpec
  <1>17. Kind(k) = "ElasticIP" => ElasticIPValid(obj, old, spec)
    BY Zenon, <1>3 DEF AdmitsSpec
  <1>18. Kind(k) = "ElasticIPAttachment" => ElasticIPAttachmentValid(obj, k, old, spec)
    BY Zenon, <1>3 DEF AdmitsSpec
  <1>19. Kind(k) = "DNSZone" => DNSZoneValid(obj, k, old, spec)
    BY Zenon, <1>3 DEF AdmitsSpec
  <1>20. Kind(k) = "DNSRecord" => DNSRecordValid(obj, k, old, spec)
    BY Zenon, <1>3 DEF AdmitsSpec
  <1> HIDE DEF old, spec
  <1>21. /\ old = obj[k]
         /\ spec = obj'[k].spec
    BY Zenon DEF old, spec
  <1> QED BY <1>2, <1>4, <1>5, <1>6, <1>7, <1>8, <1>9, <1>10, <1>11, <1>12, <1>13, <1>14, <1>15, <1>16, <1>17, <1>18,
             <1>19, <1>20, <1>21

\* What the webhook of a delete has checked.
LEMMA WithdrawnChecked ==
    ASSUME NEW k, Step(k), k \in DOMAIN obj, Kind(k) # "Pod", Withdrawn(k)
    PROVE  /\ Kind(k) = "Vpc" => VpcDelete(obj, k)
           /\ Kind(k) = "RouteTable" => RouteTableDelete(obj, k)
           /\ Kind(k) = "TransitGateway" => TransitGatewayDelete(obj, k)
           /\ Kind(k) = "TransitGatewayRouteTable" => TransitGatewayRouteTableDelete(obj, k)
           /\ Kind(k) = "NetworkACL" => NetworkACLDelete(obj, k)
           /\ Kind(k) = "SecurityGroup" => SecurityGroupDelete(obj, k)
           /\ Kind(k) = "ExternalNetwork" => ExternalNetworkDelete(obj, k)
           /\ Kind(k) = "AddressPool" => AddressPoolDelete(obj, k)
           /\ Kind(k) = "ElasticIP" => ElasticIPDelete(obj, k) \/ obj[k].del
           /\ Kind(k) = "DNSZone" => DNSZoneDelete(obj, k)
  <1>1. Kind(k) \notin Finalized => AdmitsDelete(obj, k)
    BY Zenon DEF Withdrawn, Step, Formed
  <1>2. Kind(k) = "ElasticIP" => AdmitsDelete(obj, k) \/ obj[k].del
    BY Zenon DEF Withdrawn
  <1>3. Kind(k) = "Vpc" => VpcDelete(obj, k)
    BY Zenon, <1>1 DEF AdmitsDelete, Finalized
  <1>4. Kind(k) = "RouteTable" => RouteTableDelete(obj, k)
    BY Zenon, <1>1 DEF AdmitsDelete, Finalized
  <1>5. Kind(k) = "TransitGateway" => TransitGatewayDelete(obj, k)
    BY Zenon, <1>1 DEF AdmitsDelete, Finalized
  <1>6. Kind(k) = "TransitGatewayRouteTable" => TransitGatewayRouteTableDelete(obj, k)
    BY Zenon, <1>1 DEF AdmitsDelete, Finalized
  <1>7. Kind(k) = "NetworkACL" => NetworkACLDelete(obj, k)
    BY Zenon, <1>1 DEF AdmitsDelete, Finalized
  <1>8. Kind(k) = "SecurityGroup" => SecurityGroupDelete(obj, k)
    BY Zenon, <1>1 DEF AdmitsDelete, Finalized
  <1>9. Kind(k) = "ExternalNetwork" => ExternalNetworkDelete(obj, k)
    BY Zenon, <1>1 DEF AdmitsDelete, Finalized
  <1>10. Kind(k) = "AddressPool" => AddressPoolDelete(obj, k)
    BY Zenon, <1>1 DEF AdmitsDelete, Finalized
  <1>11. Kind(k) = "ElasticIP" => ElasticIPDelete(obj, k) \/ obj[k].del
    BY Zenon, <1>2 DEF AdmitsDelete
  <1>12. Kind(k) = "DNSZone" => DNSZoneDelete(obj, k)
    BY Zenon, <1>1 DEF AdmitsDelete, Finalized
  <1> QED BY Zenon, <1>3, <1>4, <1>5, <1>6, <1>7, <1>8, <1>9, <1>10, <1>11, <1>12

(***************************************************************************)
(* References.                                                             *)
(***************************************************************************)
\* Objects of a kind name others of a kind that are there: a put has looked,
\* and what is named is not withdrawn.
LEMMA RefersKept ==
    ASSUME NEW k, Step(k), NEW kind, NEW field, NEW to, kind # "Pod", to # "Pod", Refers(kind, field, to),
           k \in DOMAIN obj /\ Kind(k) = kind /\ Puts(k) =>
               \/ Has(obj, Key(to, obj'[k].spec[field]))
               \/ obj[k] # None /\ obj'[k].spec[field] = obj[k].spec[field],
           k \in DOMAIN obj /\ Kind(k) = to /\ Withdrawn(k) => \A j \in Of(obj, kind) : obj[j].spec[field] # Name(k)
    PROVE  Refers(kind, field, to)'
  <1> SUFFICES ASSUME NEW j \in Of(obj, kind)', obj'[j].spec[field] # ""
               PROVE  Has(obj, Key(to, obj[j].spec[field]))'
    BY Zenon DEF Refers
  <1>0. PICK n : n = obj'[j].spec[field]
    BY Zenon
  <1> DEFINE t == Key(to, n)
  <1>1. Kind(t) = to /\ Name(t) = n
    BY Zenon DEF Key, Kind, Name
  <1>2. \/ j = k /\ k \in DOMAIN obj /\ Kind(k) = kind /\ Puts(k)
        \/ j \in Of(obj, kind) /\ obj[j].spec[field] = n
    BY Zenon, <1>0, PutOrThere
  <1>3. Has(obj, t)
    <2>1. CASE j \in Of(obj, kind) /\ obj[j].spec[field] = n
      BY Zenon, <1>0, <2>1 DEF Refers
    <2>2. CASE j = k /\ k \in DOMAIN obj /\ Kind(k) = kind /\ Puts(k)
      BY Zenon, <1>0, <2>2 DEF Refers, Of
    <2> QED BY Zenon, <1>2, <2>1, <2>2
  <1>4. t = k => ~Withdrawn(k)
    <2> SUFFICES ASSUME t = k, Withdrawn(k) PROVE FALSE
      BY Zenon
    <2>1. k \in DOMAIN obj /\ Kind(k) = to /\ Name(k) = n
      BY Zenon, <1>1, <1>3 DEF Has, At
    <2>2. ~Puts(k)
      BY Zenon DEF Puts, Created, Updated, Withdrawn
    <2> QED BY Zenon, <1>2, <2>1, <2>2
  <1> HIDE DEF t
  <1>5. Has(obj, t)'
    BY Zenon, <1>1, <1>3, <1>4, ThereOrWithdrawn
  <1> QED BY Zenon, <1>0, <1>5 DEF t

\* The Vpc of a Subnet, an L2Network, a zone or an attachment.
LEMMA VpcNamed ==
    ASSUME NEW k, Step(k), GuardedReferencesHold,
           NEW kind \in {"Subnet", "L2Network", "DNSZone", "TransitGatewayAttachment"}
    PROVE  Refers(kind, "vpc", "Vpc")'
  <1>1. Refers(kind, "vpc", "Vpc")
    BY Zenon DEF GuardedReferencesHold
  <1>2. ASSUME k \in DOMAIN obj, Kind(k) = kind, Puts(k)
        PROVE  \/ Has(obj, Key("Vpc", obj'[k].spec["vpc"]))
               \/ obj[k] # None /\ obj'[k].spec["vpc"] = obj[k].spec["vpc"]
    <2>1. CASE kind = "Subnet"
      BY Zenon, <1>2, <2>1, PutChecked DEF SubnetCreate, validateSubnetVpcReference, SubnetUpdate, Same
    <2>2. CASE kind = "L2Network"
      BY Zenon, <1>2, <2>2, PutChecked DEF L2NetworkCreate, L2NetworkUpdate, Same
    <2>3. CASE kind = "DNSZone"
      BY Zenon, <1>2, <2>3, PutChecked DEF DNSZoneValid, Finalized
    <2>4. CASE kind = "TransitGatewayAttachment"
      BY Zenon, <1>2, <2>4, PutChecked DEF TransitGatewayAttachmentValid, Finalized
    <2> QED BY Zenon, <2>1, <2>2, <2>3, <2>4
  <1>3. ASSUME k \in DOMAIN obj, Kind(k) = "Vpc", Withdrawn(k)
        PROVE  \A j \in Of(obj, kind) : obj[j].spec["vpc"] # Name(k)
    <2>1. VpcDelete(obj, k)
      BY Zenon, <1>3, WithdrawnChecked
    <2> QED BY <2>1 DEF VpcDelete, InVpc, Where
  <1> QED BY Zenon, <1>1, <1>2, <1>3, RefersKept

\* The two Vpcs of a peering.
LEMMA PeersNamed ==
    ASSUME NEW k, Step(k), GuardedReferencesHold, NEW field \in {"requester", "accepter"}
    PROVE  Refers("VpcPeering", field, "Vpc")'
  <1>1. Refers("VpcPeering", field, "Vpc")
    BY Zenon DEF GuardedReferencesHold
  <1>2. ASSUME k \in DOMAIN obj, Kind(k) = "VpcPeering", Puts(k)
        PROVE  \/ Has(obj, Key("Vpc", obj'[k].spec[field]))
               \/ obj[k] # None /\ obj'[k].spec[field] = obj[k].spec[field]
    BY Zenon, <1>2, PutChecked DEF VpcPeeringCreate, Sides, VpcPeeringUpdate, Same
  <1>3. ASSUME k \in DOMAIN obj, Kind(k) = "Vpc", Withdrawn(k)
        PROVE  \A j \in Of(obj, "VpcPeering") : obj[j].spec[field] # Name(k)
    <2>1. VpcDelete(obj, k)
      BY Zenon, <1>3, WithdrawnChecked
    <2> QED BY Zenon, <2>1 DEF VpcDelete, Where
  <1> QED BY Zenon, <1>1, <1>2, <1>3, RefersKept

LEMMA GatewayNamed ==
    ASSUME NEW k, Step(k), GuardedReferencesHold
    PROVE  Refers("TransitGatewayAttachment", "tgw", "TransitGateway")'
  <1>1. Refers("TransitGatewayAttachment", "tgw", "TransitGateway")
    BY Zenon DEF GuardedReferencesHold
  <1>2. ASSUME k \in DOMAIN obj, Kind(k) = "TransitGatewayAttachment", Puts(k)
        PROVE  Has(obj, Key("TransitGateway", obj'[k].spec["tgw"]))
    BY Zenon, <1>2, PutChecked DEF TransitGatewayAttachmentValid, Finalized
  <1>3. ASSUME k \in DOMAIN obj, Kind(k) = "TransitGateway", Withdrawn(k)
        PROVE  \A j \in Of(obj, "TransitGatewayAttachment") : obj[j].spec["tgw"] # Name(k)
    <2>1. TransitGatewayDelete(obj, k)
      BY Zenon, <1>3, WithdrawnChecked
    <2> QED BY Zenon, <2>1 DEF TransitGatewayDelete, Where
  <1> QED BY Zenon, <1>1, <1>2, <1>3, RefersKept

LEMMA ZoneNamed ==
    ASSUME NEW k, Step(k), GuardedReferencesHold PROVE Refers("DNSRecord", "zone", "DNSZone")'
  <1>1. Refers("DNSRecord", "zone", "DNSZone")
    BY Zenon DEF GuardedReferencesHold
  <1>2. ASSUME k \in DOMAIN obj, Kind(k) = "DNSRecord", Puts(k)
        PROVE  Has(obj, Key("DNSZone", obj'[k].spec["zone"]))
    BY Zenon, <1>2, PutChecked DEF DNSRecordValid, Finalized
  <1>3. ASSUME k \in DOMAIN obj, Kind(k) = "DNSZone", Withdrawn(k)
        PROVE  \A j \in Of(obj, "DNSRecord") : obj[j].spec["zone"] # Name(k)
    <2>1. DNSZoneDelete(obj, k)
      BY Zenon, <1>3, WithdrawnChecked
    <2> QED BY Zenon, <2>1 DEF DNSZoneDelete, Where
  <1> QED BY Zenon, <1>1, <1>2, <1>3, RefersKept

\* The tables an attachment uses are of its gateway.
TablesNamed ==
    \A a \in Of(obj, "TransitGatewayAttachment") : \A t \in RouteTablesOf(obj[a].spec) :
        LET rt == Key("TransitGatewayRouteTable", t) IN Has(obj, rt) /\ obj[rt].spec.tgw = obj[a].spec.tgw

LEMMA TablesKept ==
    ASSUME NEW k, Step(k), TablesNamed PROVE TablesNamed'
  <1> SUFFICES ASSUME NEW a \in Of(obj, "TransitGatewayAttachment")', NEW t \in RouteTablesOf(obj'[a].spec)
               PROVE  LET rt == Key("TransitGatewayRouteTable", t) IN
                      Has(obj, rt)' /\ obj'[rt].spec.tgw = obj'[a].spec.tgw
    BY Zenon DEF TablesNamed, RouteTablesOf
  <1> DEFINE rt == Key("TransitGatewayRouteTable", t)
  <1>1. Kind(rt) = "TransitGatewayRouteTable" /\ Name(rt) = t
    BY Zenon DEF Key, Kind, Name
  <1>2. CASE a \in Of(obj, "TransitGatewayAttachment") /\ obj'[a].spec = obj[a].spec
    <2>1. Has(obj, rt) /\ obj[rt].spec.tgw = obj[a].spec.tgw
      BY Zenon, <1>2 DEF TablesNamed
    <2>2. rt = k => ~Withdrawn(k)
      <3> SUFFICES ASSUME rt = k, Withdrawn(k) PROVE FALSE
        BY Zenon
      <3>1. TransitGatewayRouteTableDelete(obj, k)
        BY Zenon, <1>1, <2>1, WithdrawnChecked DEF Has, At
      <3> QED BY Zenon, <1>1, <1>2, <3>1 DEF TransitGatewayRouteTableDelete, Where
    <2> HIDE DEF rt
    <2>3. Has(obj, rt)' /\ (obj'[rt].spec # obj[rt].spec => rt = k /\ k \in DOMAIN obj /\ Updated(k))
      BY Zenon, <1>1, <2>1, <2>2, ThereOrWithdrawn
    <2>4. obj'[rt].spec.tgw = obj[rt].spec.tgw
      <3>1. CASE rt = k /\ k \in DOMAIN obj /\ Updated(k)
        BY Zenon, <1>1, <3>1, PutChecked DEF Puts, Updated, TransitGatewayRouteTableValid, Same
      <3> QED BY Zenon, <2>3, <3>1
    <2> QED BY Zenon, <1>2, <2>1, <2>3, <2>4 DEF rt
  <1>3. CASE a = k /\ k \in DOMAIN obj /\ Kind(k) = "TransitGatewayAttachment" /\ Puts(k)
    <2>1. Has(obj, rt) /\ obj[rt].spec.tgw = obj'[a].spec.tgw
      BY Zenon, <1>3, PutChecked DEF TransitGatewayAttachmentValid, Finalized
    <2>2. rt # k
      BY Zenon, <1>1, <1>3
    <2> HIDE DEF rt
    <2>3. Has(obj, rt)' /\ obj'[rt].spec = obj[rt].spec
      BY <1>1, <2>1, <2>2, ThereOrWithdrawn
    <2> QED BY Zenon, <2>1, <2>3 DEF rt
  <1> QED BY <1>2, <1>3, PutOrThere

\* A table or a filter that is named is of the Vpc of what names it.
LEMMA RefersInVpcKept ==
    ASSUME NEW k, Step(k), NEW kind \in {"Subnet", "L2Network"}, NEW field, NEW to \in {"RouteTable", "NetworkACL"},
           \A j \in Of(obj, kind) : RefInVpc(obj, to, obj[j].spec[field], obj[j].spec.vpc),
           k \in DOMAIN obj /\ Kind(k) = kind /\ Puts(k) =>
               RefInVpc(obj, to, obj'[k].spec[field], obj'[k].spec.vpc),
           k \in DOMAIN obj /\ Kind(k) = to /\ Withdrawn(k) =>
               \A j \in Of(obj, kind) : obj[j].spec[field] \in {"", Name(k)} => obj[j].spec[field] = ""
    PROVE  (\A j \in Of(obj, kind) : RefInVpc(obj, to, obj[j].spec[field], obj[j].spec.vpc))'
  <1> SUFFICES ASSUME NEW j \in Of(obj, kind)'
               PROVE  RefInVpc(obj, to, obj[j].spec[field], obj[j].spec.vpc)'
    BY Zenon
  <1>0. PICK n, vpc : n = obj'[j].spec[field] /\ vpc = obj'[j].spec.vpc
    BY Zenon
  <1> SUFFICES ASSUME n # ""
               PROVE  Has(obj, Key(to, n))' /\ obj'[Key(to, n)].spec.vpc = vpc
    BY Zenon, <1>0 DEF RefInVpc
  <1> DEFINE t == Key(to, n)
  <1>1. Kind(t) = to /\ Name(t) = n /\ Kind(t) # "Pod"
    BY Zenon DEF Key, Kind, Name
  <1>2. \/ j = k /\ k \in DOMAIN obj /\ Kind(k) = kind /\ Puts(k)
        \/ j \in Of(obj, kind) /\ obj[j].spec[field] = n /\ obj[j].spec.vpc = vpc
    BY Zenon, <1>0, PutOrThere
  <1>3. RefInVpc(obj, to, n, vpc)
    BY Zenon, <1>0, <1>2
  <1>4. Has(obj, t) /\ obj[t].spec.vpc = vpc
    BY Zenon, <1>3 DEF RefInVpc
  <1>5. t = k => ~Withdrawn(k)
    <2> SUFFICES ASSUME t = k, Withdrawn(k) PROVE FALSE
      BY Zenon
    <2>1. k \in DOMAIN obj /\ Kind(k) = to /\ Name(k) = n
      BY Zenon, <1>1, <1>4 DEF Has, At
    <2>2. ~Puts(k)
      BY Zenon DEF Puts, Created, Updated, Withdrawn
    <2> QED BY Zenon, <1>2, <2>1, <2>2
  <1> HIDE DEF t
  <1>6. Has(obj, t)' /\ (obj'[t].spec # obj[t].spec => t = k /\ k \in DOMAIN obj /\ Updated(k))
    BY Zenon, <1>1, <1>4, <1>5, ThereOrWithdrawn
  <1>7. obj'[t].spec.vpc = obj[t].spec.vpc
    <2>1. CASE t = k /\ k \in DOMAIN obj /\ Updated(k)
      <3>1. obj[k] # None /\ Puts(k)
        BY Zenon, <2>1 DEF Puts, Updated
      <3>2. CASE to = "RouteTable"
        BY Zenon, <1>1, <2>1, <3>1, <3>2, PutChecked DEF RouteTableValid, Same
      <3>3. CASE to = "NetworkACL"
        BY Zenon, <1>1, <2>1, <3>1, <3>3, PutChecked DEF FilterValid, Same
      <3> QED BY Zenon, <2>1, <3>2, <3>3
    <2> QED BY Zenon, <1>6, <2>1
  <1> QED BY Zenon, <1>4, <1>6, <1>7 DEF t

LEMMA TableOfVpc ==
    ASSUME NEW k, Step(k), RefersInVpc({"Subnet", "L2Network"}, "table", "RouteTable")
    PROVE  RefersInVpc({"Subnet", "L2Network"}, "table", "RouteTable")'
  <1>1. ASSUME NEW kind \in {"Subnet", "L2Network"}
        PROVE  (\A j \in Of(obj, kind) : RefInVpc(obj, "RouteTable", obj[j].spec["table"], obj[j].spec.vpc))'
    <2>1. \A j \in Of(obj, kind) : RefInVpc(obj, "RouteTable", obj[j].spec["table"], obj[j].spec.vpc)
      BY Zenon DEF RefersInVpc
    <2>2. ASSUME k \in DOMAIN obj, Kind(k) = kind, Puts(k)
          PROVE  RefInVpc(obj, "RouteTable", obj'[k].spec["table"], obj'[k].spec.vpc)
      <3>1. CASE kind = "Subnet"
        BY Zenon, <2>2, <3>1, PutChecked DEF SubnetCreate, SubnetUpdate, validateSubnetRouteTable, Finalized
      <3>2. CASE kind = "L2Network"
        <4>1. obj'[k].spec.gateway => RefInVpc(obj, "RouteTable", obj'[k].spec.table, obj'[k].spec.vpc)
          BY Zenon, <2>2, <3>2, PutChecked DEF L2NetworkCreate, L2NetworkUpdate, validateGatewayRouteTable, Finalized
        <4>2. ~obj'[k].spec.gateway => obj'[k].spec.table = ""
          BY Zenon, <2>2, <3>2 DEF Step, Formed, WellFormed, Moves, Puts, Created, Updated
        <4> QED BY Zenon, <4>1, <4>2 DEF RefInVpc
      <3> QED BY Zenon, <3>1, <3>2
    <2>3. ASSUME k \in DOMAIN obj, Kind(k) = "RouteTable", Withdrawn(k)
          PROVE  \A j \in Of(obj, kind) : obj[j].spec["table"] \in {"", Name(k)} => obj[j].spec["table"] = ""
      <3>1. RouteTableDelete(obj, k)
        BY Zenon, <2>3, WithdrawnChecked
      <3>2. CASE kind = "Subnet"
        BY Zenon, <3>1, <3>2 DEF RouteTableDelete, Where
      <3>3. CASE kind = "L2Network"
        <4> SUFFICES ASSUME NEW j \in Of(obj, "L2Network"), obj[j].spec.table = Name(k)
                     PROVE  obj[j].spec.table = ""
          BY Zenon, <3>3
        <4>1. ~obj[j].spec.gateway
          BY Zenon, <3>1 DEF RouteTableDelete, Where
        <4> QED BY Zenon, <4>1 DEF Step, Formed, WellFormed, Of
      <3> QED BY Zenon, <3>2, <3>3
    <2> QED BY Zenon, <2>1, <2>2, <2>3, RefersInVpcKept
  <1> QED BY Zenon, <1>1 DEF RefersInVpc

LEMMA AclOfVpc ==
    ASSUME NEW k, Step(k), RefersInVpc({"Subnet", "L2Network"}, "acl", "NetworkACL")
    PROVE  RefersInVpc({"Subnet", "L2Network"}, "acl", "NetworkACL")'
  <1>1. ASSUME NEW kind \in {"Subnet", "L2Network"}
        PROVE  (\A j \in Of(obj, kind) : RefInVpc(obj, "NetworkACL", obj[j].spec["acl"], obj[j].spec.vpc))'
    <2>1. \A j \in Of(obj, kind) : RefInVpc(obj, "NetworkACL", obj[j].spec["acl"], obj[j].spec.vpc)
      BY Zenon DEF RefersInVpc
    <2>2. ASSUME k \in DOMAIN obj, Kind(k) = kind, Puts(k)
          PROVE  RefInVpc(obj, "NetworkACL", obj'[k].spec["acl"], obj'[k].spec.vpc)
      <3>1. CASE obj[k] = None
        BY Zenon, <2>2, <3>1, PutChecked DEF SubnetCreate, L2NetworkCreate, validateNetworkACLReference
      <3>2. CASE obj[k] # None
        <4>1. k \in Of(obj, kind)
          BY Zenon, <2>2, <3>2 DEF Of
        <4>2. /\ obj'[k].spec.vpc = obj[k].spec.vpc
              /\ obj'[k].spec.acl # obj[k].spec.acl => validateNetworkACLReference(obj, obj'[k].spec)
          <5>1. CASE kind = "Subnet"
            BY Zenon, <2>2, <3>2, <5>1, PutChecked DEF SubnetUpdate, Same, Finalized
          <5>2. CASE kind = "L2Network"
            BY Zenon, <2>2, <3>2, <5>2, PutChecked DEF L2NetworkUpdate, Same, Finalized
          <5> QED BY Zenon, <5>1, <5>2
        <4> QED BY Zenon, <2>1, <4>1, <4>2 DEF validateNetworkACLReference
      <3> QED BY Zenon, <3>1, <3>2
    <2>3. ASSUME k \in DOMAIN obj, Kind(k) = "NetworkACL", Withdrawn(k)
          PROVE  \A j \in Of(obj, kind) : obj[j].spec["acl"] \in {"", Name(k)} => obj[j].spec["acl"] = ""
      <3>1. NetworkACLDelete(obj, k)
        BY Zenon, <2>3, WithdrawnChecked
      <3> QED BY Zenon, <3>1 DEF NetworkACLDelete, Where
    <2> QED BY Zenon, <2>1, <2>2, <2>3, RefersInVpcKept
  <1> QED BY Zenon, <1>1 DEF RefersInVpc

\* The groups of an interface.
GroupsNamed ==
    \A n \in Of(obj, "NetworkInterface") : ~obj[n].del =>
        \A g \in obj[n].spec.groups : Has(obj, Key("SecurityGroup", g))

LEMMA GroupsKept ==
    ASSUME NEW k, Step(k), GroupsNamed PROVE GroupsNamed'
  <1> SUFFICES ASSUME NEW n \in Of(obj, "NetworkInterface")', ~obj'[n].del, NEW g \in obj'[n].spec.groups
               PROVE  Has(obj, Key("SecurityGroup", g))'
    BY Zenon DEF GroupsNamed
  <1> DEFINE t == Key("SecurityGroup", g)
  <1>1. Kind(t) = "SecurityGroup" /\ Name(t) = g
    BY Zenon DEF Key, Kind, Name
  <1>2. CASE n \in Of(obj, "NetworkInterface") /\ obj'[n].spec = obj[n].spec /\ (obj[n].del => obj'[n].del)
    <2>1. Has(obj, t)
      BY Zenon, <1>2 DEF GroupsNamed
    <2>2. t = k => ~Withdrawn(k)
      <3> SUFFICES ASSUME t = k, Withdrawn(k) PROVE FALSE
        BY Zenon
      <3>1. SecurityGroupDelete(obj, k)
        BY Zenon, <1>1, <2>1, WithdrawnChecked DEF Has, At
      <3> QED BY Zenon, <1>1, <1>2, <3>1 DEF SecurityGroupDelete, Where
    <2> HIDE DEF t
    <2>3. Has(obj, t)'
      BY Zenon, <1>1, <2>1, <2>2, ThereOrWithdrawn
    <2> QED BY Zenon, <2>3 DEF t
  <1>3. CASE n = k /\ k \in DOMAIN obj /\ Kind(k) = "NetworkInterface" /\ Puts(k)
    <2>1. shouldCheckReferences(obj[k])
      BY Zenon, <1>3 DEF Puts, Created, Updated, shouldCheckReferences
    <2>2. obj'[k].spec.kind # "ElasticIP"
      BY Zenon, <1>3 DEF Step, Formed, WellFormed, Of
    <2>3. validateNetworkInterfaceSecurityGroups(obj, obj'[k].spec)
      BY Zenon, <1>3, <2>1, <2>2, PutChecked DEF NetworkInterfaceCreate, NetworkInterfaceUpdate
    <2>4. Has(obj, t)
      BY Zenon, <1>3, <2>3 DEF validateNetworkInterfaceSecurityGroups, RefInVpc
    <2>5. t # k
      BY Zenon, <1>1, <1>3
    <2> HIDE DEF t
    <2>6. Has(obj, t)'
      BY <1>1, <2>4, <2>5, ThereOrWithdrawn
    <2> QED BY Zenon, <2>6 DEF t
  <1> QED BY <1>2, <1>3, PutOrThere

\* The pools of a network and of an announcement are advertised its way.
LEMMA PoolStays ==
    ASSUME NEW k, Step(k), NEW p, Has(obj, Key("AddressPool", p)), Key("AddressPool", p) = k => ~Withdrawn(k)
    PROVE  Has(obj, Key("AddressPool", p))' /\ obj'[Key("AddressPool", p)].spec.mode = obj[Key("AddressPool", p)].spec.mode
  <1> DEFINE a == Key("AddressPool", p)
  <1>1. Kind(a) = "AddressPool"
    BY Zenon DEF Key, Kind
  <1> HIDE DEF a
  <1>2. Has(obj, a)' /\ (obj'[a].spec # obj[a].spec => a = k /\ k \in DOMAIN obj /\ Updated(k))
    BY Zenon, <1>1, ThereOrWithdrawn DEF a
  <1>3. CASE a = k /\ k \in DOMAIN obj /\ Updated(k)
    <2>1. obj[k] # None /\ Puts(k)
      BY Zenon, <1>3 DEF Puts, Updated
    <2>2. obj'[a].spec.mode = obj[a].spec.mode
      BY Zenon, <1>1, <1>3, <2>1, PutChecked DEF AddressPoolValid, Same
    <2> QED BY Zenon, <1>2, <2>2 DEF a
  <1> QED BY Zenon, <1>2, <1>3 DEF a

AnnouncedPoolsUsable == \A r \in Of(obj, "BGPAdvertisement") : PoolsUsable(obj, obj[r].spec, "bgp")
NetworkPoolsUsable == \A n \in Of(obj, "ExternalNetwork") : PoolsUsable(obj, obj[n].spec, obj[n].spec.type)

\* A pool in use is not withdrawn.
LEMMA PoolInUse ==
    ASSUME NEW k, Step(k), NEW kind \in {"ExternalNetwork", "BGPAdvertisement"}, NEW r \in Of(obj, kind),
           NEW p \in NamedPools(obj[r].spec), Key("AddressPool", p) = k, k \in DOMAIN obj
    PROVE  ~Withdrawn(k)
  <1> SUFFICES ASSUME Withdrawn(k) PROVE FALSE
    BY Zenon
  <1>1. Kind(k) = "AddressPool" /\ Name(k) = p
    BY Zenon DEF Key, Kind, Name
  <1>2. AddressPoolDelete(obj, k)
    BY Zenon, <1>1, WithdrawnChecked
  <1>3. ~obj[r].del
    BY Zenon DEF Step, Formed, Of, Finalized
  <1> QED BY Zenon, <1>1, <1>2, <1>3 DEF AddressPoolDelete, Active, Where

LEMMA AnnouncedPoolsKept ==
    ASSUME NEW k, Step(k), AnnouncedPoolsUsable PROVE AnnouncedPoolsUsable'
  <1> SUFFICES ASSUME NEW r \in Of(obj, "BGPAdvertisement")', NEW p \in NamedPools(obj'[r].spec)
               PROVE  Has(obj, Key("AddressPool", p))' /\ obj'[Key("AddressPool", p)].spec.mode = "bgp"
    BY Zenon DEF AnnouncedPoolsUsable, PoolsUsable
  <1>1. Kind(Key("AddressPool", p)) = "AddressPool"
    BY Zenon DEF Key, Kind
  <1>2. CASE r \in Of(obj, "BGPAdvertisement") /\ obj'[r].spec = obj[r].spec
    <2>1. Has(obj, Key("AddressPool", p)) /\ obj[Key("AddressPool", p)].spec.mode = "bgp"
      BY Zenon, <1>2 DEF AnnouncedPoolsUsable, PoolsUsable
    <2>2. Key("AddressPool", p) \in DOMAIN obj
      BY Zenon, <2>1 DEF Has, At
    <2>3. Key("AddressPool", p) = k => ~Withdrawn(k)
      BY Zenon, <1>2, <2>2, PoolInUse
    <2> QED BY Zenon, <2>1, <2>3, PoolStays
  <1>3. CASE r = k /\ k \in DOMAIN obj /\ Kind(k) = "BGPAdvertisement" /\ Puts(k)
    <2>1. PoolsUsable(obj, obj'[k].spec, "bgp")
      BY Zenon, <1>3, PutChecked DEF BGPAdvertisementValid, Finalized
    <2>2. Has(obj, Key("AddressPool", p)) /\ obj[Key("AddressPool", p)].spec.mode = "bgp"
      BY Zenon, <1>3, <2>1 DEF PoolsUsable
    <2> QED BY <1>1, <1>3, <2>2, PoolStays
  <1> QED BY <1>2, <1>3, PutOrThere

LEMMA NetworkPoolsKept ==
    ASSUME NEW k, Step(k), NetworkPoolsUsable PROVE NetworkPoolsUsable'
  <1> SUFFICES ASSUME NEW n \in Of(obj, "ExternalNetwork")', NEW p \in NamedPools(obj'[n].spec)
               PROVE  Has(obj, Key("AddressPool", p))' /\ obj'[Key("AddressPool", p)].spec.mode = obj'[n].spec.type
    BY Zenon DEF NetworkPoolsUsable, PoolsUsable
  <1>1. Kind(Key("AddressPool", p)) = "AddressPool"
    BY Zenon DEF Key, Kind
  <1>2. CASE n \in Of(obj, "ExternalNetwork") /\ obj'[n].spec = obj[n].spec
    <2>1. Has(obj, Key("AddressPool", p)) /\ obj[Key("AddressPool", p)].spec.mode = obj[n].spec.type
      BY Zenon, <1>2 DEF NetworkPoolsUsable, PoolsUsable
    <2>2. Key("AddressPool", p) \in DOMAIN obj
      BY Zenon, <2>1 DEF Has, At
    <2>3. Key("AddressPool", p) = k => ~Withdrawn(k)
      BY Zenon, <1>2, <2>2, PoolInUse
    <2> QED BY Zenon, <1>2, <2>1, <2>3, PoolStays
  <1>3. CASE n = k /\ k \in DOMAIN obj /\ Kind(k) = "ExternalNetwork" /\ Puts(k)
    <2>1. PoolsUsable(obj, obj'[k].spec, obj'[k].spec.type)
      BY Zenon, <1>3, PutChecked DEF ExternalNetworkValid, Finalized
    <2>2. Has(obj, Key("AddressPool", p)) /\ obj[Key("AddressPool", p)].spec.mode = obj'[n].spec.type
      BY Zenon, <1>3, <2>1 DEF PoolsUsable
    <2> QED BY <1>1, <1>3, <2>2, PoolStays
  <1> QED BY <1>2, <1>3, PutOrThere

\* The network of an ElasticIP, and the ElasticIP of an attachment.
NetNamed == \A x \in Of(obj, "ElasticIP") : ~obj[x].del => Has(obj, Key("ExternalNetwork", obj[x].spec.net))
ElasticIPNamed ==
    \A a \in Of(obj, "ElasticIPAttachment") : LET x == Key("ElasticIP", obj[a].spec.eip) IN Has(obj, x) /\ ~obj[x].del

LEMMA NetKept ==
    ASSUME NEW k, Step(k), NetNamed PROVE NetNamed'
  <1> SUFFICES ASSUME NEW x \in Of(obj, "ElasticIP")', ~obj'[x].del
               PROVE  Has(obj, Key("ExternalNetwork", obj[x].spec.net))'
    BY Zenon DEF NetNamed
  <1>0. PICK n : n = obj'[x].spec.net
    BY Zenon
  <1> DEFINE t == Key("ExternalNetwork", n)
  <1>1. Kind(t) = "ExternalNetwork" /\ Name(t) = n
    BY Zenon DEF Key, Kind, Name
  <1>2. CASE x \in Of(obj, "ElasticIP") /\ obj'[x].spec = obj[x].spec /\ (obj[x].del => obj'[x].del)
    <2>1. Has(obj, t)
      BY Zenon, <1>0, <1>2 DEF NetNamed
    <2>2. t = k => ~Withdrawn(k)
      <3> SUFFICES ASSUME t = k, Withdrawn(k) PROVE FALSE
        BY Zenon
      <3>1. ExternalNetworkDelete(obj, k)
        BY Zenon, <1>1, <2>1, WithdrawnChecked DEF Has, At
      <3> QED BY Zenon, <1>0, <1>1, <1>2, <3>1 DEF ExternalNetworkDelete, Active, Where
    <2> HIDE DEF t
    <2>3. Has(obj, t)'
      BY Zenon, <1>1, <2>1, <2>2, ThereOrWithdrawn
    <2> QED BY Zenon, <1>0, <2>3 DEF t
  <1>3. CASE x = k /\ k \in DOMAIN obj /\ Kind(k) = "ElasticIP" /\ Puts(k)
    <2>1. shouldCheckReferences(obj[k])
      BY Zenon, <1>3 DEF Puts, Created, Updated, shouldCheckReferences
    <2>2. Has(obj, t) /\ t # k
      BY Zenon, <1>0, <1>1, <1>3, <2>1, PutChecked DEF ElasticIPValid
    <2> HIDE DEF t
    <2>3. Has(obj, t)'
      BY <1>1, <2>2, ThereOrWithdrawn
    <2> QED BY Zenon, <1>0, <2>3 DEF t
  <1> QED BY <1>2, <1>3, PutOrThere

LEMMA ElasticIPKept ==
    ASSUME NEW k, Step(k), ElasticIPNamed PROVE ElasticIPNamed'
  <1> SUFFICES ASSUME NEW a \in Of(obj, "ElasticIPAttachment")'
               PROVE  (LET x == Key("ElasticIP", obj[a].spec.eip) IN Has(obj, x) /\ ~obj[x].del)'
    BY Zenon DEF ElasticIPNamed
  <1>0. PICK n : n = obj'[a].spec.eip
    BY Zenon
  <1> DEFINE t == Key("ElasticIP", n)
  <1>1. Kind(t) = "ElasticIP" /\ Name(t) = n
    BY Zenon DEF Key, Kind, Name
  <1>2. Has(obj, t) /\ ~obj[t].del
    <2>1. CASE a \in Of(obj, "ElasticIPAttachment") /\ obj'[a].spec = obj[a].spec
      BY Zenon, <1>0, <2>1 DEF ElasticIPNamed
    <2>2. CASE a = k /\ k \in DOMAIN obj /\ Kind(k) = "ElasticIPAttachment" /\ Puts(k)
      BY Zenon, <1>0, <2>2, PutChecked DEF ElasticIPAttachmentValid, validateAttachmentReferences, Finalized
    <2> QED BY <2>1, <2>2, PutOrThere
  <1>3. t = k => ~Withdrawn(k)
    <2> SUFFICES ASSUME t = k, Withdrawn(k) PROVE FALSE
      BY Zenon
    <2>1. ElasticIPDelete(obj, k)
      BY Zenon, <1>1, <1>2, WithdrawnChecked DEF Has, At
    <2>2. a \in Of(obj, "ElasticIPAttachment") /\ obj[a].spec.eip = n
      BY <1>0, <1>1, PutOrThere
    <2>3. ~obj[a].del
      BY Zenon, <2>2 DEF Step, Formed, Of, Finalized
    <2> QED BY Zenon, <1>1, <2>1, <2>2, <2>3 DEF ElasticIPDelete, findElasticIPAttachmentUsing, Active, Where
  <1> HIDE DEF t
  <1>4. Has(obj, t)' /\ obj'[t].del = obj[t].del
    BY Zenon, <1>1, <1>2, <1>3, ThereOrWithdrawn
  <1> QED BY Zenon, <1>0, <1>2, <1>4 DEF t

LEMMA ReferencesKept ==
    ASSUME NEW k, Step(k), GuardedReferencesHold PROVE GuardedReferencesHold'
  <1>1. /\ TablesNamed /\ GroupsNamed /\ AnnouncedPoolsUsable /\ NetworkPoolsUsable /\ NetNamed /\ ElasticIPNamed
        /\ RefersInVpc({"Subnet", "L2Network"}, "table", "RouteTable")
        /\ RefersInVpc({"Subnet", "L2Network"}, "acl", "NetworkACL")
    BY Zenon DEF GuardedReferencesHold, TablesNamed, GroupsNamed, AnnouncedPoolsUsable, NetworkPoolsUsable, NetNamed, ElasticIPNamed
  <1>2. /\ TablesNamed' /\ GroupsNamed' /\ AnnouncedPoolsUsable' /\ NetworkPoolsUsable' /\ NetNamed' /\ ElasticIPNamed'
        /\ RefersInVpc({"Subnet", "L2Network"}, "table", "RouteTable")'
        /\ RefersInVpc({"Subnet", "L2Network"}, "acl", "NetworkACL")'
    BY Zenon, <1>1, TablesKept, GroupsKept, AnnouncedPoolsKept, NetworkPoolsKept, NetKept, ElasticIPKept, TableOfVpc, AclOfVpc
  <1>3. /\ \A kind \in {"Subnet", "L2Network", "DNSZone", "TransitGatewayAttachment"} : Refers(kind, "vpc", "Vpc")'
        /\ Refers("VpcPeering", "requester", "Vpc")' /\ Refers("VpcPeering", "accepter", "Vpc")'
        /\ Refers("TransitGatewayAttachment", "tgw", "TransitGateway")'
        /\ Refers("DNSRecord", "zone", "DNSZone")'
    BY Zenon, VpcNamed, PeersNamed, GatewayNamed, ZoneNamed
  <1> QED BY Zenon, <1>2, <1>3 DEF GuardedReferencesHold, TablesNamed, GroupsNamed, AnnouncedPoolsUsable, NetworkPoolsUsable, NetNamed,
                            ElasticIPNamed

(***************************************************************************)
(* What must be one of its sort.                                           *)
(***************************************************************************)
\* Of two objects of the next state, at most one was put.
LEMMA Pairs ==
    ASSUME NEW k, Step(k), NEW kind, kind # "Pod", NEW i \in Of(obj, kind)', NEW j \in Of(obj, kind)', i # j
    PROVE  \/ /\ i \in Of(obj, kind) /\ obj'[i].spec = obj[i].spec
              /\ j \in Of(obj, kind) /\ obj'[j].spec = obj[j].spec
           \/ /\ i = k /\ k \in DOMAIN obj /\ Kind(k) = kind /\ Puts(k)
              /\ j \in Of(obj, kind) /\ obj'[j].spec = obj[j].spec
           \/ /\ j = k /\ k \in DOMAIN obj /\ Kind(k) = kind /\ Puts(k)
              /\ i \in Of(obj, kind) /\ obj'[i].spec = obj[i].spec
  BY PutOrThere

OnePeering == \A i, j \in Of(obj, "VpcPeering") : Sides(obj[i].spec) = Sides(obj[j].spec) => i = j

LEMMA OnePeeringKept ==
    ASSUME NEW k, Step(k), OnePeering PROVE OnePeering'
  <1>1. ASSUME k \in DOMAIN obj, Kind(k) = "VpcPeering", Puts(k), NEW j \in Of(obj, "VpcPeering"), j # k
        PROVE  Sides(obj'[k].spec) # Sides(obj[j].spec)
    <2>1. CASE obj[k] = None
      BY Zenon, <1>1, <2>1, PutChecked DEF VpcPeeringCreate, validateVpcPeeringUnique, Where
    <2>2. CASE obj[k] # None
      <3>1. Sides(obj'[k].spec) = Sides(obj[k].spec)
        BY Zenon, <1>1, <2>2, PutChecked DEF VpcPeeringUpdate, Same, Sides
      <3> QED BY Zenon, <1>1, <2>2, <3>1 DEF OnePeering, Of
    <2> QED BY Zenon, <2>1, <2>2
  <1> SUFFICES ASSUME NEW i \in Of(obj, "VpcPeering")', NEW j \in Of(obj, "VpcPeering")', i # j
               PROVE  Sides(obj'[i].spec) # Sides(obj'[j].spec)
    BY Zenon DEF OnePeering, Sides
  <1> QED BY <1>1, Pairs DEF OnePeering

OneAttachment ==
    \A i, j \in Of(obj, "TransitGatewayAttachment") :
        obj[i].spec.tgw = obj[j].spec.tgw /\ obj[i].spec.vpc = obj[j].spec.vpc => i = j

LEMMA OneAttachmentKept ==
    ASSUME NEW k, Step(k), OneAttachment PROVE OneAttachment'
  <1>1. ASSUME k \in DOMAIN obj, Kind(k) = "TransitGatewayAttachment", Puts(k),
               NEW j \in Of(obj, "TransitGatewayAttachment"), j # k
        PROVE  obj'[k].spec.tgw # obj[j].spec.tgw \/ obj'[k].spec.vpc # obj[j].spec.vpc
    BY Zenon, <1>1, PutChecked DEF TransitGatewayAttachmentValid, Where, Finalized
  <1> SUFFICES ASSUME NEW i \in Of(obj, "TransitGatewayAttachment")', NEW j \in Of(obj, "TransitGatewayAttachment")',
                      i # j
               PROVE  obj'[i].spec.tgw # obj'[j].spec.tgw \/ obj'[i].spec.vpc # obj'[j].spec.vpc
    BY Zenon DEF OneAttachment
  <1> QED BY <1>1, Pairs DEF OneAttachment

OneZone ==
    \A i, j \in Of(obj, "DNSZone") :
        obj[i].spec.vpc = obj[j].spec.vpc /\ obj[i].spec.domain = obj[j].spec.domain => i = j

LEMMA OneZoneKept ==
    ASSUME NEW k, Step(k), OneZone PROVE OneZone'
  <1>1. ASSUME k \in DOMAIN obj, Kind(k) = "DNSZone", Puts(k), NEW j \in Of(obj, "DNSZone"), j # k
        PROVE  obj'[k].spec.vpc # obj[j].spec.vpc \/ obj'[k].spec.domain # obj[j].spec.domain
    BY Zenon, <1>1, PutChecked DEF DNSZoneValid, Where, Finalized
  <1> SUFFICES ASSUME NEW i \in Of(obj, "DNSZone")', NEW j \in Of(obj, "DNSZone")', i # j
               PROVE  obj'[i].spec.vpc # obj'[j].spec.vpc \/ obj'[i].spec.domain # obj'[j].spec.domain
    BY Zenon DEF OneZone
  <1> QED BY <1>1, Pairs DEF OneZone

OneRecord ==
    \A i, j \in Of(obj, "DNSRecord") :
        obj[i].spec.zone = obj[j].spec.zone /\ obj[i].spec.name = obj[j].spec.name => i = j

LEMMA OneRecordKept ==
    ASSUME NEW k, Step(k), OneRecord PROVE OneRecord'
  <1>1. ASSUME k \in DOMAIN obj, Kind(k) = "DNSRecord", Puts(k), NEW j \in Of(obj, "DNSRecord"), j # k
        PROVE  obj'[k].spec.zone # obj[j].spec.zone \/ obj'[k].spec.name # obj[j].spec.name
    BY Zenon, <1>1, PutChecked DEF DNSRecordValid, Where, Finalized
  <1> SUFFICES ASSUME NEW i \in Of(obj, "DNSRecord")', NEW j \in Of(obj, "DNSRecord")', i # j
               PROVE  obj'[i].spec.zone # obj'[j].spec.zone \/ obj'[i].spec.name # obj'[j].spec.name
    BY Zenon DEF OneRecord
  <1> QED BY <1>1, Pairs DEF OneRecord

OneAnnouncer ==
    \A i, j \in Of(obj, "ARPAdvertisement") : obj[i].spec.address = obj[j].spec.address => i = j

LEMMA OneAnnouncerKept ==
    ASSUME NEW k, Step(k), OneAnnouncer PROVE OneAnnouncer'
  <1>1. ASSUME k \in DOMAIN obj, Kind(k) = "ARPAdvertisement", Puts(k), NEW j \in Of(obj, "ARPAdvertisement"), j # k
        PROVE  obj'[k].spec.address # obj[j].spec.address
    <2>1. ~obj[j].del
      BY Zenon DEF Step, Formed, Of, Finalized
    <2> QED BY Zenon, <1>1, <2>1, PutChecked DEF ARPAdvertisementValid, validateAddressIsUnclaimed, Active, Where, Finalized
  <1> SUFFICES ASSUME NEW i \in Of(obj, "ARPAdvertisement")', NEW j \in Of(obj, "ARPAdvertisement")', i # j
               PROVE  obj'[i].spec.address # obj'[j].spec.address
    BY Zenon DEF OneAnnouncer
  <1> QED BY <1>1, Pairs DEF OneAnnouncer

OneNetwork ==
    \A i, j \in Of(obj, "ExternalNetwork") : NamedPools(obj[i].spec) \cap NamedPools(obj[j].spec) # {} => i = j

LEMMA OneNetworkKept ==
    ASSUME NEW k, Step(k), OneNetwork PROVE OneNetwork'
  <1>1. ASSUME k \in DOMAIN obj, Kind(k) = "ExternalNetwork", Puts(k), NEW j \in Of(obj, "ExternalNetwork"), j # k
        PROVE  NamedPools(obj'[k].spec) \cap NamedPools(obj[j].spec) = {}
    BY Zenon, <1>1, PutChecked DEF ExternalNetworkValid, validateAddressPoolsNotShared, Finalized
  <1> SUFFICES ASSUME NEW i \in Of(obj, "ExternalNetwork")', NEW j \in Of(obj, "ExternalNetwork")', i # j
               PROVE  NamedPools(obj'[i].spec) \cap NamedPools(obj'[j].spec) = {}
    BY Zenon DEF OneNetwork
  <1> DEFINE Kept(x) == x \in Of(obj, "ExternalNetwork") /\ obj'[x].spec = obj[x].spec
             Set(x) == x = k /\ k \in DOMAIN obj /\ Kind(k) = "ExternalNetwork" /\ Puts(k)
  <1>2. (Kept(i) /\ Kept(j)) \/ (Set(i) /\ Kept(j)) \/ (Set(j) /\ Kept(i))
    BY Pairs
  <1>3. CASE Kept(i) /\ Kept(j)
    BY Zenon, <1>3 DEF OneNetwork
  <1>4. CASE Set(i) /\ Kept(j)
    BY Zenon, <1>1, <1>4
  <1>5. CASE Set(j) /\ Kept(i)
    <2>1. NamedPools(obj'[j].spec) \cap NamedPools(obj'[i].spec) = {}
      BY Zenon, <1>1, <1>5
    <2> QED BY Zenon, <2>1
  <1> QED BY Zenon, <1>2, <1>3, <1>4, <1>5

\* Ranges that do not meet are of prefixes that do not overlap.
LEMMA RangesApart ==
    ASSUME NEW p \in Cidrs, NEW q \in Cidrs,
           Intersect(PrefixRange(p), PrefixRange(q)).lo > Intersect(PrefixRange(p), PrefixRange(q)).hi
    PROVE  ~ipNetsOverlap(p, q)
  <1>1. p.base \in Int /\ q.base \in Int /\ AddressBits - p.bits \in 0 .. AddressBits /\ AddressBits - q.bits \in 0 .. AddressBits
    BY AddressBitsAssumption DEF Cidrs, Addresses
  <1>2. Size(p) \in Nat \ {0} /\ Size(q) \in Nat \ {0}
    BY Zenon, <1>1, PowersAssumption DEF Size
  <1> QED BY <1>1, <1>2 DEF Intersect, PrefixRange, LastAddr, Greater, Lesser, ipNetsOverlap, Holds

OnePool ==
    \A i, j \in Of(obj, "AddressPool") :
        (\E p \in obj[i].spec.addresses, q \in obj[j].spec.addresses : ipNetsOverlap(p, q)) => i = j

LEMMA OnePoolKept ==
    ASSUME NEW k, Step(k), OnePool PROVE OnePool'
  <1>1. ASSUME k \in DOMAIN obj, Kind(k) = "AddressPool", Puts(k), NEW j \in Of(obj, "AddressPool"), j # k,
               NEW p \in obj'[k].spec.addresses, NEW q \in obj[j].spec.addresses
        PROVE  ~ipNetsOverlap(p, q)
    <2>1. validateAddressPoolOverlaps(obj, k, obj'[k].spec)
      BY Zenon, <1>1, PutChecked DEF AddressPoolValid, Finalized
    <2>2. Intersect(PrefixRange(p), PrefixRange(q)).lo > Intersect(PrefixRange(p), PrefixRange(q)).hi
      BY Zenon, <1>1, <2>1 DEF validateAddressPoolOverlaps
    <2>3. p \in Cidrs
      BY Zenon, <1>1 DEF Step, Formed, WellFormed, Moves, Puts, Created, Updated
    <2>4. q \in Cidrs
      BY Zenon, <1>1 DEF Step, Formed, WellFormed, Of
    <2> QED BY Zenon, <2>2, <2>3, <2>4, RangesApart
  <1> SUFFICES ASSUME NEW i \in Of(obj, "AddressPool")', NEW j \in Of(obj, "AddressPool")', i # j,
                      NEW p \in obj'[i].spec.addresses, NEW q \in obj'[j].spec.addresses
               PROVE  ~ipNetsOverlap(p, q)
    BY Zenon DEF OnePool
  <1>2. ipNetsOverlap(p, q) = ipNetsOverlap(q, p)
    BY Zenon DEF ipNetsOverlap
  <1> QED BY <1>1, <1>2, Pairs DEF OnePool

LEMMA SortsKept ==
    ASSUME NEW k, Step(k), OneOfItsSort PROVE OneOfItsSort'
  <1>1. OnePeering /\ OneAttachment /\ OneZone /\ OneRecord /\ OneAnnouncer /\ OneNetwork /\ OnePool
    BY Zenon DEF OneOfItsSort, AtMostOne, OnePeering, OneAttachment, OneZone, OneRecord, OneAnnouncer, OneNetwork, OnePool
  <1>2. OnePeering' /\ OneAttachment' /\ OneZone' /\ OneRecord' /\ OneAnnouncer' /\ OneNetwork' /\ OnePool'
    BY Zenon, <1>1, OnePeeringKept, OneAttachmentKept, OneZoneKept, OneRecordKept, OneAnnouncerKept, OneNetworkKept, OnePoolKept
  <1> QED BY Zenon, <1>2 DEF OneOfItsSort, AtMostOne, OnePeering, OneAttachment, OneZone, OneRecord, OneAnnouncer, OneNetwork,
                      OnePool

(***************************************************************************)
(* Prefixes.  The properties again, pair by pair: of networks of a Vpc, of *)
(* Subnets of peered Vpcs, of Subnets of Vpcs that propagate into one      *)
(* table, and of a Subnet and its Vpc's endpoint pool.                     *)
(***************************************************************************)
Network(c, k) == k \in Of(c, "Subnet") \cup Of(c, "L2Network")
PrefixesOf(k, spec) == IF Kind(k) = "Subnet" THEN {spec.cidr} ELSE spec.cidr

NetworksApart ==
    \A i, j \in DOMAIN obj : Network(obj, i) /\ Network(obj, j) /\ i # j /\ obj[i].spec.vpc = obj[j].spec.vpc =>
        \A p \in PrefixesOf(i, obj[i].spec), q \in PrefixesOf(j, obj[j].spec) : ~ipNetsOverlap(p, q)

PeersApart ==
    \A x \in Of(obj, "VpcPeering") :
        /\ obj[x].spec.requester # obj[x].spec.accepter
        /\ \A i, j \in Of(obj, "Subnet") :
               obj[i].spec.vpc = obj[x].spec.requester /\ obj[j].spec.vpc = obj[x].spec.accepter =>
                   ~ipNetsOverlap(obj[i].spec.cidr, obj[j].spec.cidr)

AttachedApart ==
    \A a, b \in Of(obj, "TransitGatewayAttachment") :
        obj[a].spec.vpc # obj[b].spec.vpc /\ obj[a].spec.propagations \cap obj[b].spec.propagations # {} =>
            \A i, j \in Of(obj, "Subnet") :
                obj[i].spec.vpc = obj[a].spec.vpc /\ obj[j].spec.vpc = obj[b].spec.vpc =>
                    ~ipNetsOverlap(obj[i].spec.cidr, obj[j].spec.cidr)

PoolsApart ==
    \A v \in Of(obj, "Vpc"), i \in Of(obj, "Subnet") : obj[i].spec.vpc = Name(v) =>
        \A p \in obj[v].spec.endpointPool : ~ipNetsOverlap(p, obj[i].spec.cidr)

LEMMA Symmetric ==
    ASSUME NEW p, NEW q PROVE ipNetsOverlap(p, q) <=> ipNetsOverlap(q, p)
  BY Zenon DEF ipNetsOverlap

\* The prefixes that the webhooks list.
LEMMA PrefixListed ==
    ASSUME NEW c, NEW k, Network(c, k), NEW p \in PrefixesOf(k, c[k].spec)
    PROVE  [of |-> k, vpc |-> c[k].spec.vpc, cidr |-> p] \in listVpcPrefixes(c)
  <1>1. CASE k \in Of(c, "Subnet")
    BY Zenon, <1>1 DEF PrefixesOf, listVpcPrefixes, Of
  <1>2. CASE k \in Of(c, "L2Network")
    <2>1. p \in c[k].spec.cidr
      BY Zenon, <1>2 DEF PrefixesOf, Of
    <2> QED BY <1>2, <2>1 DEF listVpcPrefixes
  <1> QED BY Zenon, <1>1, <1>2 DEF Network

LEMMA ListedPrefix ==
    ASSUME NEW c, NEW p \in listVpcPrefixes(c)
    PROVE  /\ Network(c, p.of) /\ p.of \in DOMAIN c /\ p.vpc = c[p.of].spec.vpc /\ p.cidr \in PrefixesOf(p.of, c[p.of].spec)
           /\ p = [of |-> p.of, vpc |-> p.vpc, cidr |-> p.cidr]
  <1>1. CASE \E s \in Of(c, "Subnet") : p = [of |-> s, vpc |-> c[s].spec.vpc, cidr |-> c[s].spec.cidr]
    BY <1>1 DEF Network, PrefixesOf, Of
  <1>2. CASE \E n \in Of(c, "L2Network") : \E q \in c[n].spec.cidr : p = [of |-> n, vpc |-> c[n].spec.vpc, cidr |-> q]
    BY <1>2 DEF Network, PrefixesOf, Of
  <1> QED BY Zenon, <1>1, <1>2 DEF listVpcPrefixes

LEMMA NetworksPaired ==
    ASSUME Formed PROVE OneNetworkPerAddress <=> NetworksApart
  <1>1. ASSUME OneNetworkPerAddress,
               NEW i \in DOMAIN obj, NEW j \in DOMAIN obj, Network(obj, i), Network(obj, j), i # j,
               obj[i].spec.vpc = obj[j].spec.vpc,
               NEW p \in PrefixesOf(i, obj[i].spec), NEW q \in PrefixesOf(j, obj[j].spec)
        PROVE  ~ipNetsOverlap(p, q)
    <2> DEFINE x == [of |-> i, vpc |-> obj[i].spec.vpc, cidr |-> p]
               y == [of |-> j, vpc |-> obj[j].spec.vpc, cidr |-> q]
    <2>1. x \in listVpcPrefixes(obj) /\ y \in listVpcPrefixes(obj)
      BY Zenon, <1>1, PrefixListed
    <2>2. x # y /\ x.vpc = y.vpc /\ x.cidr = p /\ y.cidr = q
      BY Zenon, <1>1
    <2> HIDE DEF x, y
    <2> QED BY Zenon, <1>1, <2>1, <2>2 DEF OneNetworkPerAddress
  <1>2. ASSUME NetworksApart, NEW p \in listVpcPrefixes(obj), NEW q \in listVpcPrefixes(obj), p # q, p.vpc = q.vpc
        PROVE  ~ipNetsOverlap(p.cidr, q.cidr)
    <2>1. /\ Network(obj, p.of) /\ p.of \in DOMAIN obj /\ p.vpc = obj[p.of].spec.vpc
          /\ p.cidr \in PrefixesOf(p.of, obj[p.of].spec)
          /\ Network(obj, q.of) /\ q.of \in DOMAIN obj /\ q.vpc = obj[q.of].spec.vpc
          /\ q.cidr \in PrefixesOf(q.of, obj[q.of].spec)
      BY Zenon, ListedPrefix
    <2>2. p.of # q.of
      <3> SUFFICES ASSUME p.of = q.of PROVE FALSE
        BY Zenon
      <3>1. p.cidr = q.cidr
        BY Zenon, <2>1 DEF PrefixesOf, Network, Of, Formed, WellFormed
      <3> QED BY <1>2, <3>1, ListedPrefix
    <2> QED BY Zenon, <1>2, <2>1, <2>2 DEF NetworksApart
  <1>3. OneNetworkPerAddress => NetworksApart
    BY Zenon, <1>1 DEF NetworksApart
  <1>4. NetworksApart => OneNetworkPerAddress
    BY Zenon, <1>2 DEF OneNetworkPerAddress
  <1> QED BY Zenon, <1>3, <1>4

LEMMA RoutedPaired ==
    ASSUME PeersApart, AttachedApart, PoolsApart PROVE RoutedSubnetsDisjoint
  <1>1. \A x \in Of(obj, "VpcPeering") :
            \A p \in SubnetCidrs(obj, {obj[x].spec.requester}), q \in SubnetCidrs(obj, {obj[x].spec.accepter}) :
                ~ipNetsOverlap(p, q)
    BY Zenon DEF PeersApart, SubnetCidrs, Where
  <1>2. ASSUME NEW t \in Tables, NEW v \in Propagating(t), NEW w \in Propagating(t), v # w,
               NEW p \in SubnetCidrs(obj, {v}), NEW q \in SubnetCidrs(obj, {w})
        PROVE  ~ipNetsOverlap(p, q)
    <2>1. PICK a \in Of(obj, "TransitGatewayAttachment") : t \in obj[a].spec.propagations /\ obj[a].spec.vpc = v
      BY Zenon DEF Propagating, Where
    <2>2. PICK b \in Of(obj, "TransitGatewayAttachment") : t \in obj[b].spec.propagations /\ obj[b].spec.vpc = w
      BY Zenon DEF Propagating, Where
    <2>3. PICK i \in Of(obj, "Subnet") : obj[i].spec.vpc = v /\ obj[i].spec.cidr = p
      BY Zenon DEF SubnetCidrs, Where
    <2>4. PICK j \in Of(obj, "Subnet") : obj[j].spec.vpc = w /\ obj[j].spec.cidr = q
      BY Zenon DEF SubnetCidrs, Where
    <2>5. obj[a].spec.propagations \cap obj[b].spec.propagations # {}
      BY Zenon, <2>1, <2>2
    <2> QED BY Zenon, <1>2, <2>1, <2>2, <2>3, <2>4, <2>5 DEF AttachedApart
  <1>3. \A v \in Of(obj, "Vpc") : PoolClearOfSubnets(obj, obj[v].spec.endpointPool, {Name(v)})
    BY Zenon DEF PoolsApart, PoolClearOfSubnets, SubnetCidrs, Where
  <1> QED BY Zenon, <1>1, <1>2, <1>3 DEF RoutedSubnetsDisjoint

\* A Subnet or an L2Network that is put keeps its Vpc and its prefix, or is
\* clear of everything its Vpc can route to.
LEMMA NetworkPut ==
    ASSUME NEW k, Step(k), k \in DOMAIN obj, Kind(k) \in {"Subnet", "L2Network"}, Puts(k)
    PROVE  \/ /\ obj[k] # None /\ obj'[k].spec.vpc = obj[k].spec.vpc /\ obj'[k].spec.cidr = obj[k].spec.cidr
           \/ /\ obj[k] = None
              /\ \A p \in PrefixesOf(k, obj'[k].spec) : validateVpcPrefixOverlaps(obj, k, obj'[k].spec.vpc, p)
  <1>1. CASE Kind(k) = "Subnet"
    BY Zenon, <1>1, PutChecked DEF SubnetCreate, SubnetUpdate, Same, PrefixesOf
  <1>2. CASE Kind(k) = "L2Network"
    BY Zenon, <1>2, PutChecked DEF L2NetworkCreate, L2NetworkUpdate, Same, PrefixesOf
  <1> QED BY Zenon, <1>1, <1>2

\* A network of the next state was there with its prefix, or was created.
LEMMA NetworkOf ==
    ASSUME NEW k, Step(k), NEW kind \in {"Subnet", "L2Network"}, NEW i \in Of(obj, kind)'
    PROVE  \/ i \in Of(obj, kind) /\ obj'[i].spec.vpc = obj[i].spec.vpc /\ obj'[i].spec.cidr = obj[i].spec.cidr
           \/ /\ i = k /\ k \in DOMAIN obj /\ Kind(k) = kind /\ obj[k] = None
              /\ \A p \in PrefixesOf(k, obj'[k].spec) : validateVpcPrefixOverlaps(obj, k, obj'[k].spec.vpc, p)
  BY PutOrThere, NetworkPut DEF Of

\* What a created network is clear of.
LEMMA CreatedApart ==
    ASSUME NEW k, NEW vpc, NEW p, validateVpcPrefixOverlaps(obj, k, vpc, p), NEW j, j # k, Network(obj, j),
           obj[j].spec.vpc \in Routable(obj, vpc), NEW q \in PrefixesOf(j, obj[j].spec)
    PROVE  ~ipNetsOverlap(p, q) /\ ~ipNetsOverlap(q, p)
  <1> DEFINE x == [of |-> j, vpc |-> obj[j].spec.vpc, cidr |-> q]
  <1>1. x \in listVpcPrefixes(obj)
    BY Zenon, PrefixListed
  <1>2. x.of = j /\ x.vpc = obj[j].spec.vpc /\ x.cidr = q
    BY Zenon
  <1> HIDE DEF x
  <1>3. ~ipNetsOverlap(p, q)
    BY Zenon, <1>1, <1>2 DEF validateVpcPrefixOverlaps, validateVpcPrefixNetworkOverlap
  <1> QED BY Zenon, <1>3, Symmetric

LEMMA NetworksApartKept ==
    ASSUME NEW k, Step(k), NetworksApart PROVE NetworksApart'
  <1> SUFFICES ASSUME NEW i \in DOMAIN obj', NEW j \in DOMAIN obj', Network(obj, i)', Network(obj, j)', i # j,
                      obj'[i].spec.vpc = obj'[j].spec.vpc,
                      NEW p \in PrefixesOf(i, obj'[i].spec), NEW q \in PrefixesOf(j, obj'[j].spec)
               PROVE  ~ipNetsOverlap(p, q)
    BY Zenon DEF NetworksApart, PrefixesOf, Network
  <1> DEFINE Was(n) == /\ n \in DOMAIN obj /\ Network(obj, n) /\ obj'[n].spec.vpc = obj[n].spec.vpc
                       /\ PrefixesOf(n, obj'[n].spec) = PrefixesOf(n, obj[n].spec)
             New(n) == /\ n = k
                       /\ \A x \in PrefixesOf(n, obj'[n].spec) : validateVpcPrefixOverlaps(obj, n, obj'[n].spec.vpc, x)
  <1>1. ASSUME NEW n, Network(obj, n)' PROVE Was(n) \/ New(n)
    <2>1. PICK kind \in {"Subnet", "L2Network"} : n \in Of(obj, kind)'
      BY Zenon, <1>1 DEF Network
    <2>2. CASE n \in Of(obj, kind) /\ obj'[n].spec.vpc = obj[n].spec.vpc /\ obj'[n].spec.cidr = obj[n].spec.cidr
      BY Zenon, <2>1, <2>2 DEF Network, PrefixesOf, Of
    <2>3. CASE n = k /\ \A x \in PrefixesOf(k, obj'[k].spec) : validateVpcPrefixOverlaps(obj, k, obj'[k].spec.vpc, x)
      BY Zenon, <2>3
    <2> QED BY Zenon, <2>1, <2>2, <2>3, NetworkOf
  <1>2. \A v : v \in Routable(obj, v)
    BY Zenon DEF Routable
  <1>3. CASE Was(i) /\ Was(j)
    BY Zenon, <1>3 DEF NetworksApart
  <1>4. CASE New(i) /\ Was(j)
    BY Zenon, <1>2, <1>4, CreatedApart
  <1>5. CASE Was(i) /\ New(j)
    BY Zenon, <1>2, <1>5, CreatedApart
  <1> QED BY <1>1, <1>3, <1>4, <1>5

\* Subnets as pairs of a Vpc and a prefix.
LEMMA SubnetOf ==
    ASSUME NEW k, Step(k), NEW i \in Of(obj, "Subnet")'
    PROVE  \/ i \in Of(obj, "Subnet") /\ obj'[i].spec.vpc = obj[i].spec.vpc /\ obj'[i].spec.cidr = obj[i].spec.cidr
           \/ /\ i = k /\ Kind(k) = "Subnet"
              /\ validateVpcPrefixOverlaps(obj, k, obj'[k].spec.vpc, obj'[k].spec.cidr)
  BY Zenon, NetworkOf DEF PrefixesOf

LEMMA SubnetApart ==
    ASSUME NEW k, NEW vpc, NEW p, validateVpcPrefixOverlaps(obj, k, vpc, p), NEW j \in Of(obj, "Subnet"), j # k,
           obj[j].spec.vpc \in Routable(obj, vpc)
    PROVE  ~ipNetsOverlap(p, obj[j].spec.cidr) /\ ~ipNetsOverlap(obj[j].spec.cidr, p)
  <1>1. Network(obj, j) /\ obj[j].spec.cidr \in PrefixesOf(j, obj[j].spec)
    BY Zenon DEF Network, PrefixesOf, Of
  <1> QED BY Zenon, <1>1, CreatedApart

LEMMA PeersApartKept ==
    ASSUME NEW k, Step(k), PeersApart PROVE PeersApart'
  <1> SUFFICES ASSUME NEW x \in Of(obj, "VpcPeering")'
               PROVE  /\ obj'[x].spec.requester # obj'[x].spec.accepter
                      /\ \A i, j \in Of(obj, "Subnet")' :
                             obj'[i].spec.vpc = obj'[x].spec.requester /\ obj'[j].spec.vpc = obj'[x].spec.accepter =>
                                 ~ipNetsOverlap(obj'[i].spec.cidr, obj'[j].spec.cidr)
    BY Zenon DEF PeersApart
  <1>1. CASE /\ x \in Of(obj, "VpcPeering")
             /\ obj'[x].spec.requester = obj[x].spec.requester /\ obj'[x].spec.accepter = obj[x].spec.accepter
    <2>1. obj[x].spec.requester # obj[x].spec.accepter
      BY Zenon, <1>1 DEF PeersApart
    <2>2. ASSUME NEW i \in Of(obj, "Subnet")', NEW j \in Of(obj, "Subnet")',
                 obj'[i].spec.vpc = obj[x].spec.requester, obj'[j].spec.vpc = obj[x].spec.accepter
          PROVE  ~ipNetsOverlap(obj'[i].spec.cidr, obj'[j].spec.cidr)
      <3>1. /\ obj[x].spec.accepter \in Routable(obj, obj[x].spec.requester)
            /\ obj[x].spec.requester \in Routable(obj, obj[x].spec.accepter)
        BY Zenon, <1>1, <2>1 DEF Routable, listPeeredVpcs, Where
      <3>2. i # j
        BY Zenon, <2>1, <2>2
      <3>3. CASE i \in Of(obj, "Subnet") /\ obj'[i].spec.vpc = obj[i].spec.vpc /\ obj'[i].spec.cidr = obj[i].spec.cidr
        <4>1. CASE j \in Of(obj, "Subnet") /\ obj'[j].spec.vpc = obj[j].spec.vpc /\ obj'[j].spec.cidr = obj[j].spec.cidr
          BY Zenon, <1>1, <2>2, <3>3, <4>1 DEF PeersApart
        <4>2. CASE j = k /\ validateVpcPrefixOverlaps(obj, k, obj'[k].spec.vpc, obj'[k].spec.cidr)
          BY Zenon, <2>2, <3>1, <3>2, <3>3, <4>2, SubnetApart
        <4> QED BY Zenon, <4>1, <4>2, SubnetOf
      <3>4. CASE i = k /\ validateVpcPrefixOverlaps(obj, k, obj'[k].spec.vpc, obj'[k].spec.cidr)
        <4>1. j \in Of(obj, "Subnet") /\ obj'[j].spec.vpc = obj[j].spec.vpc /\ obj'[j].spec.cidr = obj[j].spec.cidr
          BY Zenon, <3>2, <3>4, SubnetOf
        <4> QED BY Zenon, <2>2, <3>1, <3>2, <3>4, <4>1, SubnetApart
      <3> QED BY Zenon, <3>3, <3>4, SubnetOf
    <2> QED BY Zenon, <1>1, <2>1, <2>2
  <1>2. CASE x = k /\ k \in DOMAIN obj /\ Kind(k) = "VpcPeering" /\ Puts(k) /\ obj[k] = None
    <2>1. VpcPeeringCreate(obj, k, obj'[k].spec)
      BY Zenon, <1>2, PutChecked
    <2>2. ASSUME NEW i \in Of(obj, "Subnet")'
          PROVE  i \in Of(obj, "Subnet") /\ obj'[i].spec.vpc = obj[i].spec.vpc /\ obj'[i].spec.cidr = obj[i].spec.cidr
      BY Zenon, <1>2, <2>2, SubnetOf
    <2> QED BY Zenon, <1>2, <2>1, <2>2 DEF VpcPeeringCreate, validateVpcPeeringCIDROverlap, SubnetCidrs, Where
  <1>3. CASE x = k /\ k \in DOMAIN obj /\ Kind(k) = "VpcPeering" /\ Puts(k) /\ obj[k] # None
    <2>1. x \in Of(obj, "VpcPeering")
      BY Zenon, <1>3 DEF Of
    <2>2. obj'[x].spec.requester = obj[x].spec.requester /\ obj'[x].spec.accepter = obj[x].spec.accepter
      BY Zenon, <1>3, PutChecked DEF VpcPeeringUpdate, Same
    <2> QED BY Zenon, <1>1, <2>1, <2>2
  <1> QED BY <1>1, <1>2, <1>3, PutOrThere

LEMMA AttachedApartKept ==
    ASSUME NEW k, Step(k), AttachedApart PROVE AttachedApart'
  <1> DEFINE Settled(i) == i \in Of(obj, "Subnet") /\ obj'[i].spec.vpc = obj[i].spec.vpc /\ obj'[i].spec.cidr = obj[i].spec.cidr
             There(a) == a \in Of(obj, "TransitGatewayAttachment") /\ obj'[a].spec = obj[a].spec
  \* A table both propagate into leads from one Vpc to the other.
  <1>1. ASSUME NEW a \in Of(obj, "TransitGatewayAttachment"), NEW b \in Of(obj, "TransitGatewayAttachment"),
               obj[a].spec.vpc # obj[b].spec.vpc, obj[a].spec.propagations \cap obj[b].spec.propagations # {}
        PROVE  obj[b].spec.vpc \in Routable(obj, obj[a].spec.vpc)
    <2>1. b # NoKey
      BY Zenon DEF Step, Formed, WellFormed, Of
    <2> DEFINE tables == UNION {RouteTablesOf(obj[x].spec) : x \in Where(obj, "TransitGatewayAttachment",
                                                                        LAMBDA s : s.vpc = obj[a].spec.vpc)}
    <2>2. a \in Where(obj, "TransitGatewayAttachment", LAMBDA s : s.vpc = obj[a].spec.vpc)
      BY Zenon DEF Where
    <2>3. obj[a].spec.propagations \subseteq tables
      <3>1. obj[a].spec.propagations \subseteq RouteTablesOf(obj[a].spec)
        BY Zenon DEF RouteTablesOf
      <3>2. RouteTablesOf(obj[a].spec) \subseteq tables
        BY Zenon, <2>2
      <3> QED BY Zenon, <3>1, <3>2
    <2>4. listTransitGatewayReachableVpcs(obj, obj[a].spec.vpc)
            = transitGatewayReachableVpcs(obj, NoKey, obj[a].spec.vpc, tables)
      BY Zenon DEF listTransitGatewayReachableVpcs
    <2> HIDE DEF tables
    <2>5. obj[b].spec.propagations \cap tables # {}
      BY Zenon, <1>1, <2>3
    <2>6. obj[b].spec.vpc \in transitGatewayReachableVpcs(obj, NoKey, obj[a].spec.vpc, tables)
      BY Zenon, <1>1, <2>1, <2>5 DEF transitGatewayReachableVpcs, Where
    <2> QED BY Zenon, <2>4, <2>6 DEF Routable
  \* An attachment that is put.
  <1>2. ASSUME k \in DOMAIN obj, Kind(k) = "TransitGatewayAttachment", Puts(k), NEW b, There(b), b # k,
               obj'[k].spec.vpc # obj[b].spec.vpc, obj'[k].spec.propagations \cap obj[b].spec.propagations # {},
               NEW i, NEW j, Settled(i), Settled(j), obj[i].spec.vpc = obj'[k].spec.vpc, obj[j].spec.vpc = obj[b].spec.vpc
        PROVE  ~ipNetsOverlap(obj[i].spec.cidr, obj[j].spec.cidr)
    <2>1. validateTransitGatewayCIDROverlap(obj, k, obj'[k].spec)
      BY Zenon, <1>2, PutChecked DEF TransitGatewayAttachmentValid, Finalized
    <2>2. obj[b].spec.propagations \cap RouteTablesOf(obj'[k].spec) # {}
      BY Zenon, <1>2 DEF RouteTablesOf
    <2>3. obj[b].spec.vpc \in transitGatewayReachableVpcs(obj, k, obj'[k].spec.vpc, RouteTablesOf(obj'[k].spec))
      BY Zenon, <1>2, <2>2 DEF transitGatewayReachableVpcs, Where
    <2>4. /\ obj[i].spec.cidr \in SubnetCidrs(obj, {obj'[k].spec.vpc})
          /\ obj[j].spec.cidr \in SubnetCidrs(obj, transitGatewayReachableVpcs(obj, k, obj'[k].spec.vpc,
                                                                             RouteTablesOf(obj'[k].spec)))
      BY Zenon, <1>2, <2>3 DEF SubnetCidrs, Where
    <2> QED BY Zenon, <2>1, <2>4 DEF validateTransitGatewayCIDROverlap
  <1> SUFFICES ASSUME NEW a \in Of(obj, "TransitGatewayAttachment")', NEW b \in Of(obj, "TransitGatewayAttachment")',
                      obj'[a].spec.vpc # obj'[b].spec.vpc, obj'[a].spec.propagations \cap obj'[b].spec.propagations # {},
                      NEW i \in Of(obj, "Subnet")', NEW j \in Of(obj, "Subnet")',
                      obj'[i].spec.vpc = obj'[a].spec.vpc, obj'[j].spec.vpc = obj'[b].spec.vpc
               PROVE  ~ipNetsOverlap(obj'[i].spec.cidr, obj'[j].spec.cidr)
    BY Zenon DEF AttachedApart
  <1>3. a # b /\ i # j
    BY Zenon
  <1>4. CASE There(a) /\ There(b)
    <2>1. obj[b].spec.vpc \in Routable(obj, obj[a].spec.vpc) /\ obj[a].spec.vpc \in Routable(obj, obj[b].spec.vpc)
      BY Zenon, <1>1, <1>4
    <2>2. CASE Settled(i) /\ Settled(j)
      BY Zenon, <1>4, <2>2 DEF AttachedApart
    <2>3. CASE Settled(i) /\ ~Settled(j)
      <3>1. j = k /\ validateVpcPrefixOverlaps(obj, k, obj'[k].spec.vpc, obj'[k].spec.cidr)
        BY Zenon, <2>3, SubnetOf
      <3> QED BY Zenon, <1>3, <1>4, <2>1, <2>3, <3>1, SubnetApart
    <2>4. CASE ~Settled(i)
      <3>1. i = k /\ validateVpcPrefixOverlaps(obj, k, obj'[k].spec.vpc, obj'[k].spec.cidr)
        BY Zenon, <2>4, SubnetOf
      <3>2. Settled(j)
        BY <1>3, <3>1, SubnetOf
      <3> QED BY ZenonT(30), <1>3, <1>4, <2>1, <3>1, <3>2, SubnetApart
    <2> QED BY Zenon, <2>2, <2>3, <2>4
  <1>5. ASSUME k \in DOMAIN obj, Kind(k) = "TransitGatewayAttachment", Puts(k) PROVE Settled(i) /\ Settled(j)
    BY Zenon, <1>5, SubnetOf
  <1>6. CASE a = k /\ k \in DOMAIN obj /\ Kind(k) = "TransitGatewayAttachment" /\ Puts(k) /\ There(b)
    BY Zenon, <1>2, <1>3, <1>5, <1>6
  <1>7. CASE b = k /\ k \in DOMAIN obj /\ Kind(k) = "TransitGatewayAttachment" /\ Puts(k) /\ There(a)
    <2>1. ~ipNetsOverlap(obj[j].spec.cidr, obj[i].spec.cidr)
      BY Zenon, <1>2, <1>3, <1>5, <1>7
    <2> QED BY Zenon, <1>5, <1>7, <2>1, Symmetric
  <1> QED BY <1>3, <1>4, <1>6, <1>7, Pairs

LEMMA PoolsApartKept ==
    ASSUME NEW k, Step(k), PoolsApart PROVE PoolsApart'
  <1> SUFFICES ASSUME NEW v \in Of(obj, "Vpc")', NEW i \in Of(obj, "Subnet")', obj'[i].spec.vpc = Name(v),
                      NEW p \in obj'[v].spec.endpointPool
               PROVE  ~ipNetsOverlap(p, obj'[i].spec.cidr)
    BY Zenon DEF PoolsApart
  <1>1. CASE v \in Of(obj, "Vpc") /\ obj'[v].spec.endpointPool = obj[v].spec.endpointPool
    <2>1. CASE i \in Of(obj, "Subnet") /\ obj'[i].spec.vpc = obj[i].spec.vpc /\ obj'[i].spec.cidr = obj[i].spec.cidr
      BY Zenon, <1>1, <2>1 DEF PoolsApart
    <2>2. CASE i = k /\ validateVpcPrefixOverlaps(obj, k, obj'[k].spec.vpc, obj'[k].spec.cidr)
      <3>1. Name(v) \in Routable(obj, obj'[k].spec.vpc)
        BY Zenon, <2>2 DEF Routable
      <3>2. ~ipNetsOverlap(obj'[k].spec.cidr, p)
        BY Zenon, <1>1, <2>2, <3>1 DEF validateVpcPrefixOverlaps, validateVpcPrefixEndpointPoolOverlap
      <3> QED BY Zenon, <2>2, <3>2, Symmetric
    <2> QED BY Zenon, <2>1, <2>2, SubnetOf
  <1>2. CASE v = k /\ k \in DOMAIN obj /\ Kind(k) = "Vpc" /\ Puts(k)
    <2>1. i \in Of(obj, "Subnet") /\ obj'[i].spec.vpc = obj[i].spec.vpc /\ obj'[i].spec.cidr = obj[i].spec.cidr
      BY Zenon, <1>2, SubnetOf
    <2>2. CASE vpcEndpointPoolChanged(obj[k], obj'[k].spec)
      <3>1. validateVpcEndpointPoolSubnetOverlap(obj, k, obj'[k].spec.endpointPool)
        BY Zenon, <1>2, <2>2, PutChecked DEF VpcValid, Finalized
      <3>2. obj[i].spec.cidr \in SubnetCidrs(obj, {Name(k)})
        BY Zenon, <1>2, <2>1 DEF SubnetCidrs, Where
      <3> QED BY Zenon, <1>2, <2>1, <3>1, <3>2 DEF validateVpcEndpointPoolSubnetOverlap, PoolClearOfSubnets
    <2>3. CASE ~vpcEndpointPoolChanged(obj[k], obj'[k].spec)
      BY Zenon, <1>1, <1>2, <2>3 DEF vpcEndpointPoolChanged, Of
    <2> QED BY Zenon, <2>2, <2>3
  <1> QED BY <1>1, <1>2, PutOrThere

(***************************************************************************)
(* The theorems.                                                           *)
(***************************************************************************)
\* The inductive invariant: the properties, the prefixes pair by pair, and the
\* shape of what is stored.
AInv ==
    /\ Shape
    /\ NetworksApart /\ PeersApart /\ AttachedApart /\ PoolsApart
    /\ GuardedReferencesHold
    /\ OneOfItsSort

LEMMA AInvInit ==
    ASSUME Init PROVE AInv
  <1>1. Shape
    BY Zenon, ShapeInit
  <1>2. \A k \in DOMAIN obj : obj[k] = None
    BY Zenon DEF Init
  <1>3. \A kind : Of(obj, kind) = {}
    BY Zenon, <1>2 DEF Of
  <1>4. NetworksApart /\ PeersApart /\ AttachedApart /\ PoolsApart
    BY Zenon, <1>3 DEF NetworksApart, Network, PeersApart, AttachedApart, PoolsApart
  <1>5. GuardedReferencesHold
    BY Zenon, <1>3 DEF GuardedReferencesHold, Refers, RefersInVpc
  <1>6. OneOfItsSort
    BY Zenon, <1>3 DEF OneOfItsSort, AtMostOne
  <1> QED BY Zenon, <1>1, <1>4, <1>5, <1>6 DEF AInv

LEMMA AInvStep ==
    ASSUME AInv, [Next]_clusterVars PROVE AInv'
  <1>1. Shape' /\ \E k : Moves(k)
    BY Zenon, StepMoves DEF AInv
  <1>2. PICK k : Moves(k)
    BY Zenon, <1>1
  <1>3. Formed
    BY Zenon, ShapeForms DEF AInv
  <1>4. Shape' => Formed'
    BY ShapeForms, PTL
  <1>5. Step(k)
    BY Zenon, <1>1, <1>2, <1>3, <1>4 DEF Step
  <1> QED BY Zenon, <1>1, <1>5, NetworksApartKept, PeersApartKept, AttachedApartKept, PoolsApartKept, ReferencesKept, SortsKept
          DEF AInv

LEMMA AInvAlways ==
    Spec => []AInv
  BY AInvInit, AInvStep, PTL DEF Spec

\* For every menu of requests, the Subnets and L2Networks of one Vpc are
\* disjoint, and so are the Subnets that meet over a peering or in a transit
\* gateway table and the endpoint pool and the Subnets of one Vpc, in whatever
\* order the webhooks let them in.  L2Networks and pools are not compared over
\* a peering or a table, so nothing is claimed of them there.
THEOREM PrefixesAlwaysDisjoint ==
    Spec => []PrefixesDisjoint
  <1>1. AInv => PrefixesDisjoint
    BY Zenon, ShapeForms, NetworksPaired, RoutedPaired DEF AInv, PrefixesDisjoint
  <1> QED BY <1>1, AInvAlways, PTL

\* For every menu of requests, the references that are checked when they are
\* made and looked for when their target is deleted never dangle: no delete
\* that a webhook admits takes away what such a reference was admitted for.
\* The references GuardedReferencesHold leaves out do dangle.
THEOREM GuardedReferencesAlwaysHold ==
    Spec => []GuardedReferencesHold
  <1>1. AInv => GuardedReferencesHold
    BY Zenon DEF AInv
  <1> QED BY <1>1, AInvAlways, PTL

\* For every menu of requests, what must be one of its sort is: the duplicate
\* checks of the webhooks hold on updates as well as on creates.
THEOREM AlwaysOneOfItsSort ==
    Spec => []OneOfItsSort
  <1>1. AInv => OneOfItsSort
    BY Zenon DEF AInv
  <1> QED BY <1>1, AInvAlways, PTL
=============================================================================
